----------------------------- MODULE DialogueProofs ----------------------------
(***************************************************************************)
(* Theorems about the commands and their answers in StreamingSystem: the   *)
(* client never waits for an answer nobody owes it, and STOP_ACK is the    *)
(* last word of a session.                                                 *)
(***************************************************************************)
EXTENDS StreamingSystemProofs, FiniteSetTheorems

-----------------------------------------------------------------------------
(* The steps of the system as operations of the link.                      *)

\* Whatever the programs do, the link sees one of the calls of TcpLink, on the
\* connection the program holds, or nothing.
LEMMA LinkOperations ==
  ASSUME TypeOK, [Next]_vars
  PROVE  \/ UNCHANGED <<listening, backlog, cfd, sfd, c2s, s2c, c2sIn, s2cIn, cGone, sGone>>
         \/ \E k \in Conns : ClientConnect(k)
         \/ \E k \in Conns : Retransmit(k)
         \/ /\ cfd \in Conns
            /\ \/ \E cmd \in Commands : ClientWrite(cmd)
               \/ ClientRead
               \/ ClientClose
         \/ /\ sfd \in Conns
            /\ \/ ServerRead
               \/ \E p \in Blocks : ServerWrite(p)
               \/ ServerClose
         \/ ServerAccept
         \/ ServerVanish
         \/ ServerListen
<1>1. /\ sPc \notin {"accept", "done", "down"} => sfd \in Conns
      /\ cPc \notin Offline => cfd \in Conns
      /\ sPc \in Sending => answer \in FrameAnswers
      /\ frameId \in 0 .. FrameIds - 1
  BY DEF TypeOK, LinkTypeOK, ServerTypeOK, ServerCallOK, ClientCallOK
<1>2. ASSUME NEW kind \in PartKinds, sPc \in Sending
      PROVE  Part(kind, answer, frameId) \in Blocks
  BY <1>1, <1>2 DEF Part, Blocks, Answers
<1>3. Part("header", "STOP_ACK", 0) \in Blocks
  BY ServerAssumption DEF Part, Blocks, PartKinds, Answers
<1>4. CASE ServerStep
  <2>1. CASE SendHeader \/ SendFrameId \/ SendJpegSize \/ SendImage
    <3>1. sfd \in Conns /\ sPc \in Sending
      BY <1>1, <2>1 DEF SendHeader, SendFrameId, SendJpegSize, SendImage, Sending
    <3>2. \E kind \in PartKinds : ServerWrite(Part(kind, answer, frameId))
      BY <2>1 DEF SendHeader, SendFrameId, SendJpegSize, SendImage, PartKinds
    <3> QED
      BY <1>2, <3>1, <3>2
  <2>2. CASE HandleStop
    BY <1>1, <1>3, <2>2 DEF HandleStop, linkVars
  <2>3. CASE GiveUpClient \/ RecvClosed \/ ServerSendFails
    BY <1>1, <2>3 DEF GiveUpClient, RecvClosed, ServerSendFails, EndSession, Sending
  <2>4. CASE WaitForClient \/ ReceiveCommand \/ ServerExit
    BY <1>1, <2>4 DEF WaitForClient, ReceiveCommand, ServerExit
  <2>5. CASE RecvTimeout \/ CaptureFails \/ AnswerGetFrame
    BY <2>5 DEF RecvTimeout, CaptureFails, AnswerGetFrame, linkVars
  <2> QED
    BY <1>4, <2>1, <2>2, <2>3, <2>4, <2>5 DEF ServerStep
<1>5. CASE ServerEnv
  BY <1>5 DEF ServerEnv, Press, Crash, Restart, linkVars
<1>6. CASE ClientStep
  <2>1. ASSUME GivesUp \/ Abandon \/ LinkLost \/ Finish
        PROVE  UNCHANGED linkVars \/ ClientClose
    BY <2>1 DEF GivesUp, Abandon, LinkLost, Finish
  <2>2. CASE Connect
    BY <2>2 DEF Connect
  <2>3. CASE \/ SendGetFrame \/ ReceiveHeader \/ ReceiveFrameId \/ ReceiveJpegSize
             \/ ReceiveImage
    BY <1>1, <2>3 DEF SendGetFrame, ReceiveHeader, ReceiveFrameId, ReceiveJpegSize,
       ReceiveImage, Offline,
       Commands
  <2>4. CASE ConnectFails \/ PauseOver \/ PollNoKey \/ AwaitAck
    BY <2>4 DEF ConnectFails, PauseOver, PollNoKey, AwaitAck, linkVars
  <2>5. CASE \/ ClientSendFails \/ ReceiveStopAck \/ HeaderClosed \/ GiveUpServer
             \/ ReadFails \/ AckNotReceived
    BY <1>1, <2>1, <2>5 DEF ClientSendFails, ReceiveStopAck, HeaderClosed, GiveUpServer,
       ReadFails, AckNotReceived, Offline, Reading, linkVars
  <2>6. CASE HeaderTimeout
    BY <2>1, <2>6 DEF HeaderTimeout, GivesUp, linkVars
  <2> QED
    BY <1>6, <2>2, <2>3, <2>4, <2>5, <2>6 DEF ClientStep
<1>7. CASE ClientEnv
  BY <1>1, <1>7 DEF ClientEnv, QuitOffline, QuitOnline, Relaunch, linkVars, Offline,
     Commands
<1>8. CASE LinkStep
  BY <1>8 DEF LinkStep, CutCable, PlugCable
<1>9. CASE Tick \/ UNCHANGED vars
  BY <1>9 DEF Tick, vars, linkVars
<1> QED
  BY <1>4, <1>5, <1>6, <1>7, <1>8, <1>9 DEF Next

-----------------------------------------------------------------------------
(* Who holds a connection.                                                 *)

\* The server comes to hold a connection by connect() only.
LEMMA HeldSinceConnect ==
  ASSUME TypeOK, [Next]_vars, NEW k \in Conns, ServerHolds(k)'
  PROVE  ServerHolds(k) \/ ClientConnect(k)
<1>1. backlog \in Seq(Conns) /\ sfd \in Conns \cup {NoFd}
  BY DEF TypeOK, LinkTypeOK
<1>2. CASE UNCHANGED <<backlog, sfd>>
  BY <1>2 DEF ServerHolds, Backlogged
<1>3. ASSUME NEW n \in Conns, ClientConnect(n), k # n
      PROVE  ServerHolds(k)
  <2>1. CASE k = sfd
    BY <2>1 DEF ServerHolds
  <2>2. CASE Backlogged(k)'
    <3>1. PICK i \in 1 .. Len(backlog') : backlog'[i] = k
      BY <2>2 DEF Backlogged
    <3>2. i \in 1 .. Len(backlog) /\ backlog[i] = k
      BY <1>1, <1>3, <3>1 DEF ClientConnect
    <3> QED
      BY <3>2 DEF ServerHolds, Backlogged
  <2> QED
    BY <1>3, <2>1, <2>2 DEF ServerHolds, ClientConnect
<1>4. CASE ServerAccept
  <2>1. /\ Len(backlog) \in Nat \ {0} /\ sfd' = backlog[1]
        /\ Len(backlog') = Len(backlog) - 1
        /\ \A i \in 1 .. Len(backlog') : backlog'[i] = backlog[i + 1]
    BY <1>1, <1>4 DEF ServerAccept
  <2>2. CASE k = sfd'
    <3>1. 1 \in 1 .. Len(backlog)
      BY <2>1
    <3> QED
      BY <2>1, <2>2, <3>1 DEF ServerHolds, Backlogged
  <2>3. CASE Backlogged(k)'
    <3>1. PICK i \in 1 .. Len(backlog') : backlog'[i] = k
      BY <2>3 DEF Backlogged
    <3>2. i + 1 \in 1 .. Len(backlog) /\ backlog[i + 1] = k
      BY <2>1, <3>1
    <3> QED
      BY <3>2 DEF ServerHolds, Backlogged
  <2> QED
    BY <2>2, <2>3 DEF ServerHolds
<1>5. CASE ServerClose
  BY <1>5, LinkAssumption DEF ServerClose, ServerHolds, Backlogged
<1>6. CASE ServerVanish
  BY <1>6, LinkAssumption DEF ServerVanish, ServerHolds, Backlogged
<1>7. CASE \/ \E n \in Conns : Retransmit(n)
           \/ \E cmd \in Commands : ClientWrite(cmd)
           \/ \E p \in Blocks : ServerWrite(p)
           \/ ClientRead \/ ClientClose \/ ServerRead \/ ServerListen
  BY <1>2, <1>7 DEF Retransmit, ClientWrite, ServerWrite, ClientRead, ClientClose,
     ServerRead,
     ServerListen
<1> QED
  BY <1>2, <1>3, <1>4, <1>5, <1>6, <1>7, LinkOperations

\* closeClient() leaves a connection that is not waiting to be accepted again.
LEMMA ClosedIsNotHeld ==
  ASSUME TypeOK, ServerClose, NEW k \in Conns, k = sfd
  PROVE  ~ServerHolds(k)'
  BY LinkAssumption DEF TypeOK, BacklogOK, ServerClose, ServerHolds, Backlogged

\* The end of the process leaves them all.
LEMMA VanishedHoldsNone ==
  ASSUME ServerVanish, NEW k \in Conns
  PROVE  ~ServerHolds(k)'
  BY LinkAssumption DEF ServerVanish, ServerHolds, Backlogged

-----------------------------------------------------------------------------
(* What a kernel has learnt is true.                                       *)

\* A kernel that has learnt of a close has learnt it of a socket that is closed.
NewsIsTrue ==
  \A k \in Conns : (sGone[k] => ~ServerHolds(k)) /\ (cGone[k] => k # cfd)

\* The news a kernel has stays true: a connection is not used again before both
\* programs have left it and it is made anew.
LEMMA NextNews ==
  ASSUME TypeOK, NewsIsTrue, [Next]_vars
  PROVE  NewsIsTrue'
<1>1. /\ cfd \in Conns \cup {NoFd} /\ sfd \in Conns \cup {NoFd}
      /\ cGone \in [Conns -> BOOLEAN] /\ sGone \in [Conns -> BOOLEAN]
  BY DEF TypeOK, LinkTypeOK
<1>2. \A k \in Conns : ServerHolds(k)' => ServerHolds(k) \/ ClientConnect(k)
  BY HeldSinceConnect
<1>3. \A k, n \in Conns : ClientConnect(k) /\ ClientConnect(n) => k = n
  BY DEF ClientConnect
<1>4. ASSUME ~(\E k \in Conns : ClientConnect(k)), UNCHANGED <<cfd, cGone, sGone>>
      PROVE  NewsIsTrue'
  BY <1>2, <1>4 DEF NewsIsTrue
<1>5. ASSUME NEW n \in Conns, ClientConnect(n)
      PROVE  NewsIsTrue'
  BY <1>1, <1>2, <1>3, <1>5 DEF NewsIsTrue, ClientConnect
<1>6. ASSUME ~(\E k \in Conns : ClientConnect(k)), NEW n \in Conns, Retransmit(n)
      PROVE  NewsIsTrue'
  <2>1. \A k : ServerHolds(k)' <=> ServerHolds(k)
    BY <1>6 DEF Retransmit, ServerHolds, Backlogged
  <2> QED
    BY <1>1, <1>6, <2>1 DEF NewsIsTrue, Retransmit, RetransmitCommands, RetransmitAnswers
<1>7. ASSUME cfd \in Conns, NEW cmd \in Commands, ClientWrite(cmd)
      PROVE  NewsIsTrue'
  <2>1. \A k : ServerHolds(k)' <=> ServerHolds(k)
    BY <1>7 DEF ClientWrite, ServerHolds, Backlogged
  <2> QED
    BY <1>1, <1>7, <2>1 DEF NewsIsTrue, ClientWrite
<1>8. ASSUME cfd \in Conns, ClientClose, ~(\E k \in Conns : ClientConnect(k))
      PROVE  NewsIsTrue'
  BY <1>1, <1>2, <1>8, LinkAssumption DEF NewsIsTrue, ClientClose
<1>9. ASSUME sfd \in Conns, NEW p \in Blocks, ServerWrite(p),
             ~(\E k \in Conns : ClientConnect(k))
      PROVE  NewsIsTrue'
  BY <1>1, <1>2, <1>9 DEF NewsIsTrue, ServerWrite
<1>10. CASE sfd \in Conns /\ ServerClose
  <2>1. /\ cfd' = cfd
        /\ \A k \in Conns : /\ k = sfd => ~ServerHolds(k)'
                            /\ sGone'[k] => sGone[k] \/ k = sfd
                            /\ cGone'[k] => cGone[k]
    BY <1>1, <1>10, ClosedIsNotHeld DEF ServerClose, ServerDrop
  <2>2. \A k \in Conns : ServerHolds(k)' => ServerHolds(k)
    BY <1>1, <1>10, LinkAssumption DEF ServerClose, ServerHolds, Backlogged
  <2> QED
    BY <1>1, <2>1, <2>2 DEF NewsIsTrue
<1>11. CASE ServerVanish
  BY <1>1, <1>11, VanishedHoldsNone DEF NewsIsTrue, ServerVanish, ServerDrop
<1>12. CASE ClientRead \/ ServerAccept \/ ServerRead \/ ServerListen
  BY <1>4, <1>5, <1>12 DEF ClientRead, ServerAccept, ServerRead, ServerListen
<1> QED
  BY <1>4, <1>5, <1>6, <1>7, <1>8, <1>9, <1>10, <1>11, <1>12, LinkOperations

-----------------------------------------------------------------------------
(* Where the elements of a set T stand in a stream.                        *)

\* s holds an element of T.
Holds(s, T) == \E i \in 1 .. Len(s) : s[i] \in T

\* Nothing comes after an element of T.
OnlyLast(s, T) == \A i \in 1 .. Len(s) : s[i] \in T => i = Len(s)

\* Writing to a stream.
LEMMA HoldsAppend ==
  ASSUME NEW S, NEW T, NEW s \in Seq(S), NEW e \in S
  PROVE  /\ Holds(Append(s, e), T) <=> (Holds(s, T) \/ e \in T)
         /\ ~Holds(s, T) => OnlyLast(Append(s, e), T)
<1>1. /\ Len(s) \in Nat /\ Len(Append(s, e)) = Len(s) + 1
      /\ \A i \in 1 .. Len(s) : Append(s, e)[i] = s[i]
      /\ Append(s, e)[Len(s) + 1] = e
  OBVIOUS
<1>2. \A i \in 1 .. Len(s) + 1 : i \in 1 .. Len(s) \/ i = Len(s) + 1
  BY <1>1
<1>3. Len(s) + 1 \in 1 .. Len(s) + 1 /\ \A i \in 1 .. Len(s) : i \in 1 .. Len(s) + 1
  BY <1>1
<1>4. Holds(Append(s, e), T) <=> (Holds(s, T) \/ e \in T)
  BY <1>1, <1>2, <1>3 DEF Holds
<1>5. ~Holds(s, T) => OnlyLast(Append(s, e), T)
  BY <1>1, <1>2 DEF Holds, OnlyLast
<1> QED
  BY <1>4, <1>5

\* Reading from a stream.
LEMMA HoldsTail ==
  ASSUME NEW S, NEW T, NEW s \in Seq(S), s # <<>>
  PROVE  /\ Holds(s, T) <=> (Head(s) \in T \/ Holds(Tail(s), T))
         /\ OnlyLast(s, T) => OnlyLast(Tail(s), T)
         /\ OnlyLast(s, T) /\ Head(s) \in T => Tail(s) = <<>>
<1> DEFINE t == Tail(s)
<1>1. /\ Len(s) \in Nat \ {0} /\ Len(t) = Len(s) - 1 /\ t \in Seq(S)
      /\ \A i \in 1 .. Len(s) - 1 : t[i] = s[i + 1]
      /\ Head(s) = s[1]
  OBVIOUS
<1>a. t = <<>> <=> Len(t) = 0
  <2>1. t \in Seq(S)
    BY <1>1
  <2> HIDE DEF t
  <2> QED
    BY <2>1
<1> HIDE DEF t
<1>2. ASSUME NEW i \in 1 .. Len(s)
      PROVE  i = 1 \/ (i - 1 \in 1 .. Len(s) - 1 /\ s[i] = t[i - 1])
  <2>1. i = 1 \/ (i - 1 \in 1 .. Len(s) - 1 /\ (i - 1) + 1 = i)
    BY <1>1
  <2> QED
    BY <1>1, <2>1
<1>3. \A i \in 1 .. Len(s) - 1 : i + 1 \in 1 .. Len(s) /\ 1 \in 1 .. Len(s)
  BY <1>1
<1>4. Holds(s, T) <=> (Head(s) \in T \/ Holds(t, T))
  <2>1. ASSUME Holds(s, T) PROVE Head(s) \in T \/ Holds(t, T)
    BY <1>1, <1>2, <2>1 DEF Holds
  <2>2. ASSUME Holds(t, T) PROVE Holds(s, T)
    BY <1>1, <1>3, <2>2 DEF Holds
  <2>3. ASSUME Head(s) \in T PROVE Holds(s, T)
    <3>1. 1 \in 1 .. Len(s)
      BY <1>1
    <3> QED
      BY <1>1, <2>3, <3>1 DEF Holds
  <2> QED
    BY <2>1, <2>2, <2>3
<1>5. ASSUME OnlyLast(s, T) PROVE OnlyLast(t, T)
  <2> SUFFICES ASSUME NEW i \in 1 .. Len(t), t[i] \in T
               PROVE  i = Len(t)
    BY DEF OnlyLast
  <2>1. i \in 1 .. Len(s) - 1 /\ i + 1 \in 1 .. Len(s) /\ s[i + 1] \in T
    BY <1>1, <1>3
  <2>2. i + 1 = Len(s)
    BY <1>5, <2>1 DEF OnlyLast
  <2> QED
    BY <1>1, <2>1, <2>2
<1>6. ASSUME OnlyLast(s, T), Head(s) \in T PROVE t = <<>>
  <2>1. 1 \in 1 .. Len(s) /\ s[1] \in T
    BY <1>1, <1>6
  <2>2. Len(t) = 0
    <3>1. 1 = Len(s)
      BY <1>6, <2>1 DEF OnlyLast
    <3> QED
      BY <1>1, <3>1
  <2> QED
    BY <1>a, <2>2
<1> QED
  BY <1>4, <1>5, <1>6 DEF t

\* What a close leaves of a stream: a part of it.
LEMMA HoldsSubSeq ==
  ASSUME NEW S, NEW T, NEW s \in Seq(S), NEW m \in Nat \ {0}, NEW n \in Nat, n <= Len(s)
  PROVE  /\ Holds(SubSeq(s, m, n), T) => Holds(s, T)
         /\ OnlyLast(s, T) => OnlyLast(SubSeq(s, m, n), T)
<1> DEFINE t == SubSeq(s, m, n)
<1>1. /\ Len(t) = IF m <= n THEN n - m + 1 ELSE 0
      /\ \A i \in 1 .. Len(t) : t[i] = s[m + i - 1]
  OBVIOUS
<1> HIDE DEF t
<1>2. ASSUME NEW i \in 1 .. Len(t)
      PROVE  /\ m + i - 1 \in 1 .. Len(s)
             /\ m + i - 1 = Len(s) => i = Len(t)
  <2>1. Len(s) \in Nat /\ m <= n /\ i \in Nat /\ 1 <= i /\ i <= n - m + 1
    BY <1>1
  <2> QED
    BY <1>1, <2>1
<1>3. Holds(t, T) => Holds(s, T)
  BY <1>1, <1>2 DEF Holds
<1>4. OnlyLast(s, T) => OnlyLast(t, T)
  BY <1>1, <1>2 DEF OnlyLast
<1> QED
  BY <1>3, <1>4 DEF t

-----------------------------------------------------------------------------
(* STOP and STOP_ACK.                                                      *)

\* A client that is quitting is on the way out, and only such a client awaits the
\* acknowledgement.
QuitPath ==
  /\ quitting => cPc \in {"await", "header", "giveUp", "done"} \cup Reading
  /\ cPc = "await" => quitting

LEMMA NextQuitPath ==
  ASSUME TypeOK, QuitPath, [Next]_vars
  PROVE  QuitPath'
<1>1. CASE (ClientStep \/ ClientEnv) /\ UNCHANGED serverVars
  <2>1. ASSUME LinkLost \/ Finish \/ GivesUp \/ Abandon
        PROVE  (quitting' = quitting /\ (quitting => QuitPath')) \/ cPc' = "connect"
    BY <2>1 DEF LinkLost, Finish, GivesUp, Abandon, QuitPath
  <2> QED
    BY <1>1, <2>1 DEF ClientStep, ClientEnv, Connect, ConnectFails, PauseOver, SendGetFrame,
       ClientSendFails, ReceiveHeader, ReceiveStopAck, HeaderTimeout, HeaderClosed,
       GiveUpServer, ReceiveFrameId, ReceiveJpegSize, ReceiveImage, ReadFails, PollNoKey,
       AwaitAck,
       AckNotReceived, QuitOffline, QuitOnline, Relaunch, QuitPath, Reading, AfterAnswer,
       LinkLost, Finish, GivesUp, Abandon
<1>2. CASE UNCHANGED <<cPc, quitting>>
  BY <1>2 DEF QuitPath
<1> QED
  BY <1>1, <1>2 DEF Next, LinkStep, Tick, vars, clientVars

Stops == {"STOP"}

\* STOP is the last command the client writes on a connection, and it is quitting
\* from then on.
StopIsLast ==
  /\ \A k \in Conns : /\ OnlyLast(c2s[k], Stops)
                      /\ Holds(c2s[k], Stops) /\ k = cfd => quitting
  /\ sPc = "ack" => c2s[sfd] = <<>> /\ (sfd = cfd => quitting)

\* A step that leaves the commands alone.
LEMMA QuietStopIsLast ==
  ASSUME StopIsLast, c2s' = c2s, cfd' = cfd, quitting' = quitting,
         sPc' = "ack" => sPc = "ack" /\ sfd' = sfd
  PROVE  StopIsLast'
  BY DEF StopIsLast

\* An empty stream holds nothing.
LEMMA HoldsEmpty ==
  ASSUME NEW T
  PROVE  ~Holds(<<>>, T) /\ OnlyLast(<<>>, T)
  BY DEF Holds, OnlyLast

\* The server reads commands in order, and drops all of them or none.
LEMMA ServerStopIsLast ==
  ASSUME TypeOK, StopIsLast, ServerStep \/ ServerEnv, UNCHANGED clientVars
  PROVE  StopIsLast'
<1>1. /\ c2s \in [Conns -> Seq(Commands)]
      /\ sPc \notin {"accept", "done", "down"} => sfd \in Conns
      /\ quitting' = quitting
  BY DEF TypeOK, LinkTypeOK, ServerCallOK, clientVars
<1>2. CASE WaitForClient \/ Restart
  BY <1>1, <1>2, QuietStopIsLast DEF WaitForClient, Restart, ServerAccept, ServerListen
<1>3. CASE ReceiveCommand
  <2>1. /\ sfd \in Conns /\ c2s[sfd] \in Seq(Commands) /\ c2s[sfd] # <<>>
        /\ c2s' = [c2s EXCEPT ![sfd] = Tail(@)] /\ UNCHANGED <<cfd, sfd>>
        /\ sPc' = "ack" <=> Head(c2s[sfd]) \in Stops
    BY <1>1, <1>3 DEF ReceiveCommand, ServerRead, TypeOK, LinkTypeOK, ArrivedOK, Stops
  <2>2. /\ Holds(c2s[sfd], Stops) <=> (Head(c2s[sfd]) \in Stops \/ Holds(Tail(c2s[sfd]), Stops))
        /\ OnlyLast(c2s[sfd], Stops) => OnlyLast(Tail(c2s[sfd]), Stops)
        /\ OnlyLast(c2s[sfd], Stops) /\ Head(c2s[sfd]) \in Stops => Tail(c2s[sfd]) = <<>>
    BY <2>1, HoldsTail
  <2>3. /\ c2s'[sfd] = Tail(c2s[sfd])
        /\ \A k \in Conns : k # sfd => c2s'[k] = c2s[k]
    BY <1>1, <2>1
  <2>4. ASSUME NEW k \in Conns
        PROVE  (/\ OnlyLast(c2s[k], Stops)
                /\ Holds(c2s[k], Stops) /\ k = cfd => quitting)'
    BY <1>1, <2>1, <2>2, <2>3 DEF StopIsLast
  <2>5. (sPc = "ack" => c2s[sfd] = <<>> /\ (sfd = cfd => quitting))'
    BY <1>1, <2>1, <2>2, <2>3 DEF StopIsLast
  <2> QED
    BY <2>4, <2>5 DEF StopIsLast
<1>4. CASE RecvTimeout \/ CaptureFails \/ AnswerGetFrame \/ Press
  BY <1>1, <1>4, QuietStopIsLast
     DEF RecvTimeout, CaptureFails, AnswerGetFrame, Press, linkVars
<1>5. CASE SendHeader \/ SendFrameId \/ SendJpegSize \/ SendImage \/ HandleStop
  BY <1>1, <1>5, QuietStopIsLast
     DEF SendHeader, SendFrameId, SendJpegSize, SendImage, HandleStop, ServerWrite, linkVars
<1>6. ASSUME NEW K \in SUBSET Conns, ServerDrop(K), sPc' # "ack"
      PROVE  StopIsLast'
  <2>1. cfd' = cfd /\ \A k \in Conns : c2s'[k] = <<>> \/ c2s'[k] = c2s[k]
    BY <1>6 DEF ServerDrop
  <2> QED
    BY <1>1, <1>6, <2>1, HoldsEmpty DEF StopIsLast
<1>7. CASE GiveUpClient \/ RecvClosed \/ ServerSendFails
  BY <1>1, <1>6, <1>7 DEF GiveUpClient, RecvClosed, ServerSendFails, EndSession,
     ServerClose,
     Sending
<1>8. CASE ServerExit \/ Crash
  <2> DEFINE K == {k \in Conns : ServerHolds(k)}
  <2>1. ServerDrop(K) /\ K \in SUBSET Conns /\ sPc' # "ack"
    BY <1>8 DEF ServerExit, Crash, ServerVanish
  <2> HIDE DEF K
  <2> QED
    BY <1>6, <2>1
<1> QED
  BY <1>2, <1>3, <1>4, <1>5, <1>7, <1>8 DEF ServerStep, ServerEnv

\* The client writes nothing after STOP.
LEMMA ClientStopIsLast ==
  ASSUME TypeOK, QuitPath, StopIsLast, ClientStep \/ ClientEnv, UNCHANGED serverVars
  PROVE  StopIsLast'
<1>1. /\ c2s \in [Conns -> Seq(Commands)]
      /\ cfd \in Conns \cup {NoFd} /\ sfd \in Conns \cup {NoFd}
      /\ cPc \notin Offline => cfd \in Conns
      /\ cPc \in Offline => cfd = NoFd
      /\ sPc' = sPc /\ (sPc = "ack" => sfd \in Conns)
  BY DEF TypeOK, LinkTypeOK, ServerCallOK, ClientCallOK, serverVars
<1>2. CASE Connect
  <2>1. PICK n \in Conns : ClientConnect(n)
    BY <1>2 DEF Connect
  <2>2. /\ cfd' = n /\ sfd' = sfd /\ n # sfd /\ c2s'[n] = <<>>
        /\ \A k \in Conns : k # n => c2s'[k] = c2s[k]
    BY <1>1, <2>1 DEF ClientConnect, ServerHolds
  <2> QED
    BY <1>1, <1>2, <2>2, HoldsEmpty DEF StopIsLast, Connect
<1>3. ASSUME cfd \in Conns, NEW cmd \in Commands, ClientWrite(cmd), ~quitting,
             quitting' <=> cmd \in Stops
      PROVE  StopIsLast'
  <2>1. /\ UNCHANGED <<cfd, sfd>>
        /\ \A k \in Conns : \/ c2s'[k] = c2s[k]
                            \/ k = cfd /\ c2s'[k] = Append(c2s[k], cmd)
    BY <1>1, <1>3 DEF ClientWrite
  <2>2. ~Holds(c2s[cfd], Stops)
    BY <1>3 DEF StopIsLast
  <2>3. c2s[cfd] \in Seq(Commands)
    BY <1>1, <1>3
  <2>4. /\ Holds(Append(c2s[cfd], cmd), Stops) <=> cmd \in Stops
        /\ OnlyLast(Append(c2s[cfd], cmd), Stops)
    BY <2>2, <2>3, HoldsAppend
  <2>5. sPc = "ack" => sfd # cfd
    BY <1>3 DEF StopIsLast
  <2> QED
    BY <1>1, <1>3, <2>1, <2>2, <2>4, <2>5 DEF StopIsLast
<1>4. CASE SendGetFrame
  <2>1. cfd \in Conns /\ ClientWrite("GET_FRAME") /\ ~quitting /\ ~quitting'
    BY <1>1, <1>4 DEF SendGetFrame, QuitPath, Offline, Reading
  <2> QED
    BY <1>3, <2>1 DEF Commands, Stops
<1>5. CASE QuitOnline
  <2>1. cfd \in Conns /\ ~quitting /\ quitting' /\ (ClientWrite("STOP") \/ UNCHANGED linkVars)
    BY <1>1, <1>5 DEF QuitOnline, QuitPath, Offline, Reading
  <2>2. CASE ClientWrite("STOP")
    BY <1>3, <2>1, <2>2 DEF Commands, Stops
  <2>3. CASE UNCHANGED linkVars
    BY <1>1, <2>1, <2>3 DEF StopIsLast, linkVars
  <2> QED
    BY <2>1, <2>2, <2>3
<1>6. ASSUME cfd \in Conns, ClientClose, quitting' = quitting
      PROVE  StopIsLast'
  <2>1. c2sIn[cfd] \in Nat /\ c2sIn[cfd] <= Len(c2s[cfd]) /\ c2s[cfd] \in Seq(Commands)
    BY <1>1, <1>6 DEF TypeOK, LinkTypeOK, ArrivedOK
  <2>2. /\ UNCHANGED sfd /\ cfd' = NoFd
        /\ \A k \in Conns : \/ c2s'[k] = c2s[k]
                            \/ k = cfd /\ c2s'[k] = SubSeq(c2s[cfd], 1, c2sIn[cfd])
    BY <1>1, <1>6 DEF ClientClose
  <2>3. /\ Holds(SubSeq(c2s[cfd], 1, c2sIn[cfd]), Stops) => Holds(c2s[cfd], Stops)
        /\ OnlyLast(c2s[cfd], Stops) => OnlyLast(SubSeq(c2s[cfd], 1, c2sIn[cfd]), Stops)
    BY <2>1, 1 \in Nat \ {0}, HoldsSubSeq
  <2>4. c2s[cfd] = <<>> => SubSeq(c2s[cfd], 1, c2sIn[cfd]) = <<>>
    BY <2>1
  <2> QED
    BY <1>1, <1>6, <2>2, <2>3, <2>4, LinkAssumption DEF StopIsLast
<1>7. ASSUME LinkLost \/ Finish, cfd \in Conns
      PROVE  StopIsLast'
  BY <1>6, <1>7 DEF LinkLost, Finish
<1>8. ASSUME GivesUp
      PROVE  StopIsLast'
  BY <1>1, <1>8, QuietStopIsLast DEF GivesUp, linkVars
<1>9. CASE \/ ClientSendFails \/ ReceiveStopAck \/ HeaderClosed \/ GiveUpServer
           \/ AckNotReceived
  BY <1>1, <1>7, <1>9 DEF ClientSendFails, ReceiveStopAck, HeaderClosed, GiveUpServer,
     AckNotReceived, Abandon, Offline
<1>10. CASE ReadFails
  BY <1>1, <1>7, <1>8, <1>10 DEF ReadFails, Abandon, Offline, Reading
<1>11. CASE HeaderTimeout
  BY <1>1, <1>8, <1>11, QuietStopIsLast DEF HeaderTimeout, linkVars
<1>12. CASE ReceiveHeader \/ ReceiveFrameId \/ ReceiveJpegSize \/ ReceiveImage
  BY <1>1, <1>12, QuietStopIsLast DEF ReceiveHeader, ReceiveFrameId, ReceiveJpegSize,
     ReceiveImage, ClientRead
<1>13. CASE ConnectFails \/ PauseOver \/ PollNoKey \/ AwaitAck \/ QuitOffline
  BY <1>1, <1>13, QuietStopIsLast
     DEF ConnectFails, PauseOver, PollNoKey, AwaitAck, QuitOffline, linkVars
<1>14. CASE Relaunch
  BY <1>1, <1>14, LinkAssumption DEF Relaunch, linkVars, StopIsLast, Offline
<1> QED
  BY <1>2, <1>4, <1>5, <1>9, <1>10, <1>11, <1>12, <1>13, <1>14 DEF ClientStep, ClientEnv

\* Every step keeps STOP the last command.
LEMMA NextStopIsLast ==
  ASSUME TypeOK, QuitPath, StopIsLast, [Next]_vars
  PROVE  StopIsLast'
<1>1. CASE LinkStep \/ Tick \/ UNCHANGED vars
  <2>1. UNCHANGED <<c2s, cfd, sfd, quitting, sPc>>
    BY <1>1 DEF LinkStep, CutCable, PlugCable, Retransmit, Tick, vars, linkVars, serverVars,
       clientVars
  <2> QED
    BY <2>1, QuietStopIsLast
<1> QED
  BY <1>1, ServerStopIsLast, ClientStopIsLast DEF Next

Acks == {q \in Blocks : q.of = "STOP_ACK"}

\* Once STOP_ACK is in a stream, the stream, the commands and the server that wrote
\* it are at their end.
AckIsLast ==
  \A k \in Conns :
    /\ OnlyLast(s2c[k], Acks)
    /\ Holds(s2c[k], Acks) =>
         /\ c2s[k] = <<>>
         /\ k = cfd => quitting
         /\ (k = sfd /\ sPc = "exit") \/ ~ServerHolds(k)
         /\ sPc \in {"exit", "done", "down"} \/ crashes > 0

\* A process that is down was killed.
DownIsCrash == sPc = "down" => crashes > 0

LEMMA NextDownIsCrash ==
  ASSUME TypeOK, DownIsCrash, [Next]_vars
  PROVE  DownIsCrash'
<1>1. crashes \in Nat
  BY ServerAssumption DEF TypeOK, ServerTypeOK
<1>2. CASE (ServerStep \/ ServerEnv) /\ UNCHANGED clientVars
  BY <1>1, <1>2 DEF ServerStep, ServerEnv, DownIsCrash, WaitForClient, ReceiveCommand,
     RecvTimeout, GiveUpClient, RecvClosed, CaptureFails, AnswerGetFrame, SendHeader,
     SendFrameId, SendJpegSize, SendImage, ServerSendFails, HandleStop, ServerExit, Press,
     Crash, Restart,
     EndSession
<1>3. CASE UNCHANGED <<sPc, crashes>>
  BY <1>3 DEF DownIsCrash
<1> QED
  BY <1>2, <1>3 DEF Next, LinkStep, Tick, vars, serverVars

\* The server writes STOP_ACK once it has read the last command, and then leaves.
LEMMA ServerAckIsLast ==
  ASSUME TypeOK, DownIsCrash, StopIsLast, AckIsLast, "relaunch" \notin Faults,
         ServerStep \/ ServerEnv, UNCHANGED clientVars
  PROVE  AckIsLast'
<1>1. /\ c2s \in [Conns -> Seq(Commands)] /\ s2c \in [Conns -> Seq(Blocks)]
      /\ sPc \notin {"accept", "done", "down"} => sfd \in Conns
      /\ quitting' = quitting /\ [Next]_vars
      /\ crashes \in Nat
  BY ServerAssumption DEF TypeOK, LinkTypeOK, ServerTypeOK, ServerCallOK, clientVars, Next
<1>2. \A k \in Conns : ServerHolds(k)' => ServerHolds(k) \/ ClientConnect(k)
  BY <1>1, HeldSinceConnect
<1>3. ASSUME sPc \notin {"exit", "done"}, crashes' = crashes, cfd' = cfd,
             sPc = "down" => sPc' # "down" /\ sfd' = sfd,
             NEW k \in Conns, c2s'[k] = c2s[k] \/ k = sfd, s2c'[k] = s2c[k]
      PROVE  (/\ OnlyLast(s2c[k], Acks)
              /\ Holds(s2c[k], Acks) =>
                   /\ c2s[k] = <<>>
                   /\ k = cfd => quitting
                   /\ (k = sfd /\ sPc = "exit") \/ ~ServerHolds(k)
                   /\ sPc \in {"exit", "done", "down"} \/ crashes > 0)'
  <2>1. OnlyLast(s2c'[k], Acks)
    BY <1>3 DEF AckIsLast
  <2>2. ASSUME Holds(s2c[k], Acks)
        PROVE  /\ c2s'[k] = <<>> /\ (k = cfd => quitting) /\ ~ServerHolds(k)
               /\ crashes > 0
    BY <1>3, <2>2 DEF AckIsLast, DownIsCrash, ServerHolds
  <2>3. ~ClientConnect(k) \/ cfd' = k
    BY DEF ClientConnect
  <2>4. ~ClientConnect(k)
    BY <1>3, <2>3 DEF ClientConnect
  <2> QED
    BY <1>1, <1>2, <1>3, <2>1, <2>2, <2>4
<1>4. CASE WaitForClient \/ Restart
  <2>1. /\ UNCHANGED <<c2s, s2c, cfd, crashes>> /\ sPc \in {"accept", "down"}
        /\ sPc = "down" => sPc' # "down" /\ sfd' = sfd
    BY <1>4 DEF WaitForClient, Restart, ServerAccept, ServerListen
  <2> QED
    BY <1>3, <2>1 DEF AckIsLast
<1>5. CASE ReceiveCommand
  <2>1. /\ UNCHANGED <<s2c, cfd, crashes>> /\ sPc = "recv"
        /\ \A k \in Conns : c2s'[k] = c2s[k] \/ k = sfd
    BY <1>1, <1>5 DEF ReceiveCommand, ServerRead
  <2> QED
    BY <1>3, <2>1 DEF AckIsLast
<1>6. CASE RecvTimeout \/ CaptureFails \/ AnswerGetFrame
  <2>1. UNCHANGED <<c2s, s2c, cfd, crashes>> /\ sPc \in {"recv", "capture"}
    BY <1>6 DEF RecvTimeout, CaptureFails, AnswerGetFrame, linkVars
  <2> QED
    BY <1>3, <2>1 DEF AckIsLast
<1>7. CASE Press
  <2>1. UNCHANGED <<c2s, s2c, cfd, sfd, backlog, crashes, sPc>>
    BY <1>7 DEF Press, linkVars
  <2> QED
    BY <1>1, <2>1 DEF AckIsLast, ServerHolds, Backlogged
<1>8. ASSUME sPc \in Sending \cup {"ack"}, sfd \in Conns, NEW p \in Blocks, ServerWrite(p),
             crashes' = crashes,
             p \in Acks => /\ sPc' = "exit" /\ c2s[sfd] = <<>>
                           /\ sfd = cfd => quitting
      PROVE  AckIsLast'
  <2>1. /\ UNCHANGED <<c2s, cfd, sfd>>
        /\ \A k \in Conns : \/ s2c'[k] = s2c[k]
                            \/ k = sfd /\ s2c'[k] = Append(s2c[k], p)
    BY <1>1, <1>8 DEF ServerWrite
  <2>2. sPc \notin {"exit", "done", "down"}
    BY <1>8 DEF Sending
  <2>3. ~Holds(s2c[sfd], Acks)
    BY <1>8, <2>2 DEF AckIsLast, ServerHolds
  <2>4. s2c[sfd] \in Seq(Blocks)
    BY <1>1, <1>8
  <2>5. /\ Holds(Append(s2c[sfd], p), Acks) <=> p \in Acks
        /\ OnlyLast(Append(s2c[sfd], p), Acks)
    BY <1>8, <2>3, <2>4, HoldsAppend
  <2>6. ASSUME NEW k \in Conns
        PROVE  (/\ OnlyLast(s2c[k], Acks)
                /\ Holds(s2c[k], Acks) =>
                     /\ c2s[k] = <<>>
                     /\ k = cfd => quitting
                     /\ (k = sfd /\ sPc = "exit") \/ ~ServerHolds(k)
                     /\ sPc \in {"exit", "done", "down"} \/ crashes > 0)'
    <3>1. CASE s2c'[k] = s2c[k]
      BY <1>3, <1>8, <2>1, <2>2, <3>1
    <3>2. CASE k = sfd /\ s2c'[k] = Append(s2c[k], p)
      <4>1. OnlyLast(s2c'[k], Acks) /\ (Holds(s2c'[k], Acks) => p \in Acks)
        BY <2>5, <3>2
      <4>2. p \in Acks => /\ sPc' = "exit" /\ c2s'[k] = <<>> /\ k = sfd'
                          /\ k = cfd' => quitting'
        BY <1>1, <1>8, <2>1, <3>2
      <4> QED
        BY <4>1, <4>2
    <3> QED
      BY <2>1, <3>1, <3>2
  <2> QED
    BY <2>6 DEF AckIsLast
<1>9. ASSUME NEW kind \in PartKinds, sPc \in Sending
      PROVE  Part(kind, answer, frameId) \in Blocks \ Acks
  BY <1>9 DEF TypeOK, ServerTypeOK, ServerCallOK, Part, Blocks, Answers, Acks, FrameAnswers,
     ImageAnswers, SceneErrors
<1>10. CASE SendHeader \/ SendFrameId \/ SendJpegSize \/ SendImage
  <2>1. sPc \in Sending /\ sfd \in Conns /\ crashes' = crashes
    BY <1>1, <1>10 DEF SendHeader, SendFrameId, SendJpegSize, SendImage, Sending
  <2>2. \E kind \in PartKinds : ServerWrite(Part(kind, answer, frameId))
    BY <1>10 DEF SendHeader, SendFrameId, SendJpegSize, SendImage, PartKinds
  <2> QED
    BY <1>8, <1>9, <2>1, <2>2
<1>11. CASE HandleStop
  <2>1. /\ sPc = "ack" /\ sPc' = "exit" /\ sfd \in Conns /\ crashes' = crashes
        /\ c2s[sfd] = <<>> /\ (sfd = cfd => quitting)
    BY <1>1, <1>11 DEF HandleStop, StopIsLast
  <2>2. Part("header", "STOP_ACK", 0) \in Blocks
    BY ServerAssumption DEF Part, Blocks, PartKinds, Answers
  <2>3. CASE ServerWrite(Part("header", "STOP_ACK", 0))
    BY <1>8, <2>1, <2>2, <2>3
  <2>4. CASE UNCHANGED linkVars
    BY <1>3, <2>1, <2>4 DEF linkVars, AckIsLast
  <2> QED
    BY <1>11, <2>3, <2>4 DEF HandleStop
<1>12. ASSUME NEW K \in SUBSET Conns, ServerDrop(K),
              \A k \in K : ~ServerHolds(k)',
              crashes' > 0 \/ (sPc' = "done" /\ crashes' = crashes)
                \/ (sPc \in {"expired", "recv"} \cup Sending /\ crashes' = crashes),
              sPc = "exit" => \A k \in Conns : ~ServerHolds(k)'
       PROVE  AckIsLast'
  <2> SUFFICES ASSUME NEW k \in Conns
               PROVE  (/\ OnlyLast(s2c[k], Acks)
                       /\ Holds(s2c[k], Acks) =>
                            /\ c2s[k] = <<>>
                            /\ k = cfd => quitting
                            /\ (k = sfd /\ sPc = "exit") \/ ~ServerHolds(k)
                            /\ sPc \in {"exit", "done", "down"} \/ crashes > 0)'
    BY DEF AckIsLast
  <2>1. /\ s2c[k] \in Seq(Blocks) /\ s2cIn[k] \in Nat /\ s2cIn[k] <= Len(s2c[k])
        /\ cfd' = cfd
    BY <1>1, <1>12 DEF TypeOK, LinkTypeOK, ArrivedOK, ServerDrop
  <2>2. /\ c2s'[k] = <<>> \/ c2s'[k] = c2s[k]
        /\ s2c'[k] \in {<<>>, s2c[k], SubSeq(s2c[k], 1, s2cIn[k])}
    BY <1>12 DEF ServerDrop
  <2>3. /\ OnlyLast(s2c'[k], Acks)
        /\ Holds(s2c'[k], Acks) => Holds(s2c[k], Acks)
    <3>1. /\ Holds(SubSeq(s2c[k], 1, s2cIn[k]), Acks) => Holds(s2c[k], Acks)
          /\ OnlyLast(s2c[k], Acks) => OnlyLast(SubSeq(s2c[k], 1, s2cIn[k]), Acks)
      BY <2>1, 1 \in Nat \ {0}, HoldsSubSeq
    <3> QED
      BY <2>2, <3>1, HoldsEmpty DEF AckIsLast
  <2>4. ~ClientConnect(k)
    BY <2>1 DEF ClientConnect
  <2>5. Holds(s2c'[k], Acks) => ~ServerHolds(k)'
    BY <1>2, <1>12, <2>3, <2>4 DEF AckIsLast, ServerHolds
  <2>6. Holds(s2c'[k], Acks) => sPc' \in {"exit", "done", "down"} \/ crashes' > 0
    BY <1>12, <2>3 DEF AckIsLast, Sending
  <2>7. Holds(s2c'[k], Acks) => c2s'[k] = <<>> /\ (k = cfd => quitting)
    BY <2>2, <2>3 DEF AckIsLast
  <2> QED
    BY <1>1, <2>1, <2>3, <2>5, <2>6, <2>7
<1>13. CASE GiveUpClient \/ RecvClosed \/ ServerSendFails
  <2>1. /\ ServerClose /\ sfd \in Conns /\ crashes' = crashes
        /\ sPc \in {"expired", "recv"} \cup Sending
    BY <1>1, <1>13 DEF GiveUpClient, RecvClosed, ServerSendFails, EndSession, Sending
  <2>2. ServerDrop({sfd}) /\ {sfd} \in SUBSET Conns /\ sPc # "exit"
    BY <2>1 DEF ServerClose, Sending
  <2>3. \A k \in {sfd} : ~ServerHolds(k)'
    BY <2>1, ClosedIsNotHeld
  <2> QED
    BY <1>12, <2>1, <2>2, <2>3
<1>14. CASE ServerExit \/ Crash
  <2> DEFINE K == {k \in Conns : ServerHolds(k)}
  <2>1. /\ ServerVanish /\ ServerDrop(K) /\ K \in SUBSET Conns
        /\ crashes' > 0 \/ (sPc' = "done" /\ crashes' = crashes)
    BY <1>1, <1>14 DEF ServerExit, Crash, ServerVanish
  <2>2. \A k \in Conns : ~ServerHolds(k)'
    BY <2>1, VanishedHoldsNone
  <2>3. \A k \in K : k \in Conns
    OBVIOUS
  <2> HIDE DEF K
  <2> QED
    BY <1>12, <2>1, <2>2, <2>3
<1> QED
  BY <1>4, <1>5, <1>6, <1>7, <1>10, <1>11, <1>13, <1>14 DEF ServerStep, ServerEnv

\* The client reads a part of a stream or leaves it, and writes nothing once STOP_ACK
\* is there.
LEMMA ClientAckIsLast ==
  ASSUME TypeOK, QuitPath, AckIsLast, ClientStep \/ ClientEnv, UNCHANGED serverVars
  PROVE  AckIsLast'
<1>1. /\ c2s \in [Conns -> Seq(Commands)] /\ s2c \in [Conns -> Seq(Blocks)]
      /\ cfd \in Conns \cup {NoFd}
      /\ cPc \notin Offline => cfd \in Conns
      /\ cPc \in Offline => cfd = NoFd
      /\ sPc' = sPc /\ crashes' = crashes /\ [Next]_vars
  BY DEF TypeOK, LinkTypeOK, ClientCallOK, serverVars, Next
<1>2. \A k \in Conns : ServerHolds(k)' => ServerHolds(k) \/ ClientConnect(k)
  BY <1>1, HeldSinceConnect
<1>3. ASSUME sfd' = sfd, NEW k \in Conns, ~ClientConnect(k), c2s[k] = <<>> => c2s'[k] = <<>>,
             k = cfd' => k = cfd /\ (quitting => quitting'),
             OnlyLast(s2c[k], Acks) => OnlyLast(s2c'[k], Acks),
             Holds(s2c'[k], Acks) => Holds(s2c[k], Acks)
      PROVE  (/\ OnlyLast(s2c[k], Acks)
              /\ Holds(s2c[k], Acks) =>
                   /\ c2s[k] = <<>>
                   /\ k = cfd => quitting
                   /\ (k = sfd /\ sPc = "exit") \/ ~ServerHolds(k)
                   /\ sPc \in {"exit", "done", "down"} \/ crashes > 0)'
  BY <1>1, <1>2, <1>3 DEF AckIsLast
<1>4. CASE Connect
  <2>1. PICK n \in Conns : ClientConnect(n)
    BY <1>4 DEF Connect
  <2>2. /\ cfd' = n /\ sfd' = sfd /\ s2c'[n] = <<>>
        /\ \A k \in Conns : k # n => c2s'[k] = c2s[k] /\ s2c'[k] = s2c[k]
        /\ \A k \in Conns : k # n => ~ClientConnect(k)
    BY <1>1, <2>1 DEF ClientConnect
  <2>3. OnlyLast(s2c'[n], Acks) /\ ~Holds(s2c'[n], Acks)
    BY <2>2, HoldsEmpty
  <2> QED
    BY <1>3, <2>2, <2>3 DEF AckIsLast
<1>5. ASSUME cfd \in Conns, NEW cmd \in Commands, ClientWrite(cmd), ~quitting
      PROVE  AckIsLast'
  <2>1. /\ UNCHANGED <<cfd, sfd, s2c>>
        /\ \A k \in Conns : c2s'[k] = c2s[k] \/ k = cfd
    BY <1>1, <1>5 DEF ClientWrite
  <2>2. ~Holds(s2c[cfd], Acks)
    BY <1>5 DEF AckIsLast
  <2>3. \A k \in Conns : ~ClientConnect(k)
    BY <1>5, <2>1 DEF ClientConnect
  <2>4. \A k \in Conns : k # cfd =>
          (/\ OnlyLast(s2c[k], Acks)
           /\ Holds(s2c[k], Acks) =>
                /\ c2s[k] = <<>>
                /\ k = cfd => quitting
                /\ (k = sfd /\ sPc = "exit") \/ ~ServerHolds(k)
                /\ sPc \in {"exit", "done", "down"} \/ crashes > 0)'
    BY <1>3, <2>1, <2>3
  <2>5. (OnlyLast(s2c[cfd], Acks) /\ ~Holds(s2c[cfd], Acks))'
    BY <1>5, <2>1, <2>2 DEF AckIsLast
  <2> QED
    BY <2>1, <2>4, <2>5 DEF AckIsLast
<1>6. CASE SendGetFrame \/ QuitOnline
  <2>1. cfd \in Conns /\ ~quitting
    BY <1>1, <1>6 DEF SendGetFrame, QuitOnline, QuitPath, Offline, Reading
  <2>2. (\E cmd \in Commands : ClientWrite(cmd)) \/ UNCHANGED linkVars
    BY <1>6 DEF SendGetFrame, QuitOnline, Commands
  <2>3. CASE UNCHANGED linkVars
    <3>1. UNCHANGED <<cfd, sfd, c2s, s2c, backlog>> /\ \A k \in Conns : ~ClientConnect(k)
      BY <2>3 DEF linkVars, ClientConnect
    <3>2. \A k \in Conns : k = cfd => ~Holds(s2c[k], Acks)
      BY <2>1 DEF AckIsLast
    <3>3. \A k \in Conns : ServerHolds(k)' <=> ServerHolds(k)
      BY <3>1 DEF ServerHolds, Backlogged
    <3> QED
      BY <1>1, <3>1, <3>2, <3>3 DEF AckIsLast
  <2> QED
    BY <1>5, <2>1, <2>2, <2>3
<1>7. ASSUME cfd \in Conns, ClientClose
      PROVE  AckIsLast'
  <2>1. /\ c2sIn[cfd] \in Nat /\ s2cIn[cfd] \in Nat
        /\ c2s[cfd] \in Seq(Commands) /\ s2c[cfd] \in Seq(Blocks)
        /\ c2sIn[cfd] <= Len(c2s[cfd]) /\ Len(s2c[cfd]) <= Len(s2c[cfd])
    BY <1>1, <1>7 DEF TypeOK, LinkTypeOK, ArrivedOK
  <2>2. /\ UNCHANGED sfd /\ cfd' = NoFd
        /\ \A k \in Conns :
             /\ c2s'[k] = c2s[k] \/ (k = cfd /\ c2s'[k] = SubSeq(c2s[k], 1, c2sIn[k]))
             /\ \/ s2c'[k] = s2c[k]
                \/ k = cfd /\ s2c'[k] \in {<<>>, SubSeq(s2c[k], s2cIn[k] + 1, Len(s2c[k]))}
    BY <1>1, <1>7 DEF ClientClose
  <2>3. s2cIn[cfd] + 1 \in Nat \ {0} /\ Len(s2c[cfd]) \in Nat
    BY <2>1
  <2>4. LET t == SubSeq(s2c[cfd], s2cIn[cfd] + 1, Len(s2c[cfd]))
        IN  /\ Holds(t, Acks) => Holds(s2c[cfd], Acks)
            /\ OnlyLast(s2c[cfd], Acks) => OnlyLast(t, Acks)
    BY <2>1, <2>3, HoldsSubSeq
  <2>5. c2s[cfd] = <<>> => SubSeq(c2s[cfd], 1, c2sIn[cfd]) = <<>>
    BY <2>1
  <2>6. \A k \in Conns : ~ClientConnect(k)
    BY <2>2, LinkAssumption DEF ClientConnect
  <2>7. ASSUME NEW k \in Conns
        PROVE  /\ c2s[k] = <<>> => c2s'[k] = <<>>
               /\ OnlyLast(s2c[k], Acks) => OnlyLast(s2c'[k], Acks)
               /\ Holds(s2c'[k], Acks) => Holds(s2c[k], Acks)
    BY <2>2, <2>4, <2>5, HoldsEmpty
  <2> QED
    BY <1>3, <2>2, <2>6, <2>7, LinkAssumption DEF AckIsLast
<1>8. ASSUME LinkLost \/ Finish, cfd \in Conns
      PROVE  AckIsLast'
  BY <1>7, <1>8 DEF LinkLost, Finish
<1>9. ASSUME UNCHANGED <<cfd, sfd, c2s, s2c>>, quitting => quitting'
      PROVE  AckIsLast'
  <2>1. \A k \in Conns : ClientConnect(k) => k # cfd /\ cfd' = k
    BY DEF ClientConnect
  <2> QED
    BY <1>3, <1>9, <2>1 DEF AckIsLast
<1>10. ASSUME GivesUp
       PROVE  AckIsLast'
  BY <1>9, <1>10 DEF GivesUp, linkVars
<1>11. CASE \/ ClientSendFails \/ ReceiveStopAck \/ HeaderClosed \/ GiveUpServer
            \/ AckNotReceived
  BY <1>1, <1>8, <1>11 DEF ClientSendFails, ReceiveStopAck, HeaderClosed, GiveUpServer,
     AckNotReceived, Abandon, Offline
<1>12. CASE ReadFails
  BY <1>1, <1>8, <1>10, <1>12 DEF ReadFails, Abandon, Offline, Reading
<1>13. CASE HeaderTimeout
  BY <1>9, <1>10, <1>13 DEF HeaderTimeout, linkVars
<1>14. CASE ReceiveHeader \/ ReceiveFrameId \/ ReceiveJpegSize \/ ReceiveImage
  <2>1. /\ cfd \in Conns /\ ClientRead /\ quitting' = quitting /\ s2c[cfd] \in Seq(Blocks)
        /\ UNCHANGED <<cfd, sfd, c2s>>
    BY <1>1, <1>14 DEF ReceiveHeader, ReceiveFrameId, ReceiveJpegSize, ReceiveImage,
       ClientRead, Offline
  <2>2. s2c[cfd] # <<>>
    BY <2>1 DEF TypeOK, LinkTypeOK, ArrivedOK, ClientRead
  <2>3. \A k \in Conns : s2c'[k] = s2c[k] \/ (k = cfd /\ s2c'[k] = Tail(s2c[k]))
    BY <1>1, <2>1 DEF ClientRead
  <2>4. /\ Holds(Tail(s2c[cfd]), Acks) => Holds(s2c[cfd], Acks)
        /\ OnlyLast(s2c[cfd], Acks) => OnlyLast(Tail(s2c[cfd]), Acks)
    BY <2>1, <2>2, HoldsTail
  <2>5. \A k \in Conns : ClientConnect(k) => k # cfd /\ cfd' = k
    BY DEF ClientConnect
  <2>6. ASSUME NEW k \in Conns
        PROVE  /\ OnlyLast(s2c[k], Acks) => OnlyLast(s2c'[k], Acks)
               /\ Holds(s2c'[k], Acks) => Holds(s2c[k], Acks)
    BY <2>3, <2>4
  <2> QED
    BY <1>3, <2>1, <2>5, <2>6 DEF AckIsLast
<1>15. CASE ConnectFails \/ PauseOver \/ PollNoKey \/ AwaitAck \/ QuitOffline
  BY <1>9, <1>15 DEF ConnectFails, PauseOver, PollNoKey, AwaitAck, QuitOffline, linkVars
<1>16. CASE Relaunch
  <2>1. UNCHANGED <<cfd, sfd, c2s, s2c>> /\ cfd = NoFd
    BY <1>1, <1>16 DEF Relaunch, linkVars, Offline
  <2>2. \A k \in Conns : ~ClientConnect(k)
    BY <2>1, LinkAssumption DEF ClientConnect
  <2> QED
    BY <1>3, <2>1, <2>2, LinkAssumption DEF AckIsLast
<1> QED
  BY <1>4, <1>6, <1>11, <1>12, <1>13, <1>14, <1>15, <1>16 DEF ClientStep, ClientEnv

\* Every step keeps STOP_ACK the last word.
LEMMA NextAckIsLast ==
  ASSUME TypeOK, QuitPath, DownIsCrash, StopIsLast, AckIsLast, "relaunch" \notin Faults,
         [Next]_vars
  PROVE  AckIsLast'
<1>1. CASE LinkStep \/ Tick \/ UNCHANGED vars
  <2>1. UNCHANGED <<c2s, cfd, sfd, backlog, quitting, sPc, crashes>>
    BY <1>1 DEF LinkStep, CutCable, PlugCable, Retransmit, Tick, vars, linkVars, serverVars,
       clientVars
  <2>2. \A k \in Conns : s2c'[k] = s2c[k] \/ s2c'[k] = <<>>
    BY <1>1 DEF LinkStep, CutCable, PlugCable, Retransmit, RetransmitCommands,
       RetransmitAnswers, Tick, vars, linkVars, TypeOK,
       LinkTypeOK
  <2> QED
    BY <2>1, <2>2, HoldsEmpty DEF AckIsLast, ServerHolds, Backlogged
<1> QED
  BY <1>1, ServerAckIsLast, ClientAckIsLast DEF Next

\* What the two sides of the dialogue of STOP keep together.
StopDialogue == QuitPath /\ DownIsCrash /\ StopIsLast /\ AckIsLast

LEMMA AckIsLastSuffices ==
  ASSUME TypeOK, AckIsLast
  PROVE  AckEndsEverything
<1> SUFFICES ASSUME NEW k \in Conns, NEW i \in 1 .. Len(s2c[k]), s2c[k][i].of = "STOP_ACK"
             PROVE  /\ i = Len(s2c[k]) /\ c2s[k] = <<>>
                    /\ k = cfd => quitting
                    /\ sPc \in {"exit", "done", "down"} \/ crashes > 0
  BY DEF AckEndsEverything
<1>1. s2c[k][i] \in Acks
  BY DEF TypeOK, LinkTypeOK, Acks
<1>2. Holds(s2c[k], Acks) /\ i = Len(s2c[k])
  BY <1>1 DEF Holds, AckIsLast, OnlyLast
<1> QED
  BY <1>2 DEF AckIsLast

\* STOP_ACK is the last word of a session, if nobody starts a program again that has
\* ended as it should: a server started again after a STOP serves again, and a stream
\* of the past session may still hold the acknowledgement.
THEOREM AckIsTheEnd == "relaunch" \notin Faults /\ Spec => []AckEndsEverything
<1> SUFFICES ASSUME "relaunch" \notin Faults
             PROVE  Spec => []AckEndsEverything
  OBVIOUS
<1>1. Init => StopDialogue
  <2> SUFFICES ASSUME Init PROVE StopDialogue
    OBVIOUS
  <2>1. /\ quitting = FALSE /\ sPc = "accept" /\ cPc = "connect"
        /\ \A k \in Conns : c2s[k] = <<>> /\ s2c[k] = <<>>
    BY DEF Init, LinkInit, ServerInit, ClientInit
  <2> QED
    BY <2>1, HoldsEmpty DEF StopDialogue, QuitPath, DownIsCrash, StopIsLast, AckIsLast
<1>2. TypeOK /\ StopDialogue /\ [Next]_vars => TypeOK' /\ StopDialogue'
  BY NextTypeOK, NextQuitPath, NextDownIsCrash, NextStopIsLast, NextAckIsLast DEF StopDialogue
<1>3. TypeOK /\ StopDialogue => AckEndsEverything
  BY AckIsLastSuffices DEF StopDialogue
<1> QED
  BY InitTypeOK, <1>1, <1>2, <1>3, PTL DEF Spec

-----------------------------------------------------------------------------
(* An answer is owed to whoever waits for one.                             *)

Gets == {"GET_FRAME"}

FrameHeaders == {q \in Blocks : q.part = "header" /\ q.of \in FrameAnswers}

\* A GET_FRAME of the client is on its way, in the server's hands, or answered.
FrameDue ==
  \/ Holds(c2s[cfd], Gets)
  \/ Holds(s2c[cfd], FrameHeaders)
  \/ cfd = sfd /\ sPc \in {"capture", "sendHeader"}

\* So is its STOP.
AckDue ==
  \/ Holds(c2s[cfd], Stops)
  \/ Holds(s2c[cfd], Acks)
  \/ cfd = sfd /\ sPc = "ack"

\* While it quits, the client relies on the acknowledgement in every state of its
\* loop, not only in recv().
AnswerDue ==
  ServerHolds(cfd) =>
    /\ ~quitting /\ cPc = "header" => FrameDue
    /\ quitting /\ cPc \in {"await", "header"} \cup Reading => AckDue

\* A step of the server that leaves it on the connection keeps what is due.
LEMMA ServerAnswerDue ==
  ASSUME TypeOK, NewsIsTrue, AnswerDue, "capture" \notin Faults,
         ServerStep \/ ServerEnv, UNCHANGED clientVars
  PROVE  AnswerDue'
<1>1. /\ c2s \in [Conns -> Seq(Commands)] /\ s2c \in [Conns -> Seq(Blocks)]
      /\ sPc \notin {"accept", "done", "down"} => sfd \in Conns
      /\ sPc \in Sending => answer \in FrameAnswers
      /\ frameId \in 0 .. FrameIds - 1
      /\ [Next]_vars /\ UNCHANGED <<cPc, quitting>>
  BY DEF TypeOK, LinkTypeOK, ServerTypeOK, ServerCallOK, clientVars, Next
<1>2. ASSUME cfd \notin Conns
      PROVE  AnswerDue'
  <2>1. cPc \in Offline
    BY <1>2, LinkAssumption DEF TypeOK, LinkTypeOK, ClientCallOK
  <2> QED
    BY <1>1, <2>1 DEF AnswerDue, Offline, Reading
<1>3. ASSUME cfd' = cfd, cfd \in Conns, ~ServerHolds(cfd)'
      PROVE  AnswerDue'
  BY <1>3 DEF AnswerDue
<1>4. ASSUME cfd' = cfd, cfd \in Conns, FrameDue => FrameDue', AckDue => AckDue'
      PROVE  AnswerDue'
  <2>1. ServerHolds(cfd)' => ServerHolds(cfd)
    <3>1. PICK k \in Conns : k = cfd
      BY <1>4
    <3>2. ~ClientConnect(k)
      BY <3>1 DEF ClientConnect
    <3>3. ServerHolds(k)' => ServerHolds(k)
      BY <1>1, <3>2, HeldSinceConnect
    <3> QED
      BY <1>4, <3>1, <3>3 DEF ServerHolds, Backlogged
  <2> QED
    BY <1>1, <1>4, <2>1 DEF AnswerDue
<1>5. CASE WaitForClient \/ Restart
  <2>1. /\ UNCHANGED <<cfd, c2s, s2c>> /\ sPc \in {"accept", "down", "done"}
    BY <1>5 DEF WaitForClient, Restart, ServerAccept, ServerListen
  <2>2. (FrameDue => FrameDue') /\ (AckDue => AckDue')
    BY <2>1 DEF FrameDue, AckDue
  <2> QED
    BY <1>2, <1>4, <2>1, <2>2
<1>6. CASE ReceiveCommand
  <2>1. /\ UNCHANGED <<cfd, sfd, s2c>> /\ sfd \in Conns /\ sPc = "recv"
        /\ c2s[sfd] \in Seq(Commands) /\ c2s[sfd] # <<>>
        /\ c2s' = [c2s EXCEPT ![sfd] = Tail(@)]
        /\ sPc' = IF Head(c2s[sfd]) = "STOP" THEN "ack" ELSE "capture"
    BY <1>1, <1>6 DEF ReceiveCommand, ServerRead, TypeOK, LinkTypeOK, ArrivedOK
  <2>2. /\ Holds(c2s[sfd], Stops) =>
             Head(c2s[sfd]) \in Stops \/ Holds(Tail(c2s[sfd]), Stops)
        /\ Holds(c2s[sfd], Gets) =>
             Head(c2s[sfd]) \in Gets \/ Holds(Tail(c2s[sfd]), Gets)
    BY <2>1, HoldsTail
  <2>3. /\ c2s'[sfd] = Tail(c2s[sfd])
        /\ \A k \in Conns : k # sfd => c2s'[k] = c2s[k]
    BY <1>1, <2>1
  <2>4. ASSUME cfd \in Conns
        PROVE  (FrameDue => FrameDue') /\ (AckDue => AckDue')
    BY <2>1, <2>2, <2>3, <2>4 DEF FrameDue, AckDue, Stops, Gets
  <2> QED
    BY <1>2, <1>4, <2>1, <2>4
<1>7. CASE RecvTimeout \/ CaptureFails \/ AnswerGetFrame \/ Press
  <2>1. /\ UNCHANGED <<cfd, sfd, c2s, s2c>>
        /\ \/ sPc = "recv"
           \/ sPc = "capture" /\ sPc' = "sendHeader"
           \/ sPc' = sPc
    BY <1>7 DEF RecvTimeout, CaptureFails, AnswerGetFrame, Press, linkVars
  <2>2. (FrameDue => FrameDue') /\ (AckDue => AckDue')
    BY <2>1 DEF FrameDue, AckDue
  <2> QED
    BY <1>2, <1>4, <2>1, <2>2
<1>8. ASSUME sfd \in Conns, NEW p \in Blocks, ServerWrite(p),
             sPc \in {"capture", "sendHeader"} => p \in FrameHeaders,
             sPc = "ack" => p \in Acks
      PROVE  AnswerDue'
  <2>1. /\ UNCHANGED <<cfd, sfd, c2s>>
        /\ \A k \in Conns : k # sfd => s2c'[k] = s2c[k]
        /\ cfd = sfd => s2c'[sfd] = Append(s2c[sfd], p)
    BY <1>1, <1>8 DEF ServerWrite
  <2>2. s2c[sfd] \in Seq(Blocks)
    BY <1>1, <1>8
  <2>3. \A T : Holds(Append(s2c[sfd], p), T) <=> (Holds(s2c[sfd], T) \/ p \in T)
    BY <1>8, <2>2, HoldsAppend
  <2>4. ASSUME cfd \in Conns
        PROVE  (FrameDue => FrameDue') /\ (AckDue => AckDue')
    BY <1>8, <2>1, <2>3, <2>4 DEF FrameDue, AckDue
  <2> QED
    BY <1>2, <1>4, <2>1, <2>4
<1>9. CASE SendHeader \/ SendFrameId \/ SendJpegSize \/ SendImage
  <2>1. /\ sPc \in Sending /\ sfd \in Conns
        /\ \E kind \in PartKinds : /\ sPc = "sendHeader" => kind = "header"
                                  /\ ServerWrite(Part(kind, answer, frameId))
    BY <1>1, <1>9 DEF SendHeader, SendFrameId, SendJpegSize, SendImage, Sending, PartKinds
  <2>2. PICK kind \in PartKinds : /\ sPc = "sendHeader" => kind = "header"
                                  /\ ServerWrite(Part(kind, answer, frameId))
    BY <2>1
  <2>3. Part(kind, answer, frameId) \in Blocks
    BY <1>1, <2>1 DEF Part, Blocks, Answers
  <2>4. sPc = "sendHeader" => Part(kind, answer, frameId) \in FrameHeaders
    BY <1>1, <2>1, <2>2, <2>3 DEF Part, FrameHeaders
  <2> QED
    BY <1>8, <2>1, <2>2, <2>3, <2>4 DEF Sending
<1>10. CASE HandleStop
  <2>1. Part("header", "STOP_ACK", 0) \in Acks /\ Acks \subseteq Blocks
    BY ServerAssumption DEF Part, Blocks, PartKinds, Answers, Acks
  <2>2. sPc = "ack" /\ sfd \in Conns
    BY <1>1, <1>10 DEF HandleStop
  <2>3. CASE ServerWrite(Part("header", "STOP_ACK", 0))
    BY <1>8, <2>1, <2>2, <2>3
  <2>4. CASE cGone[sfd] /\ UNCHANGED linkVars
    <3>1. sfd # cfd /\ UNCHANGED <<cfd, sfd, c2s, s2c>>
      BY <2>2, <2>4 DEF NewsIsTrue, linkVars
    <3>2. (FrameDue => FrameDue') /\ (AckDue => AckDue')
      BY <3>1 DEF FrameDue, AckDue
    <3> QED
      BY <1>2, <1>4, <3>1, <3>2
  <2> QED
    BY <1>10, <2>3, <2>4 DEF HandleStop
<1>11. CASE GiveUpClient \/ RecvClosed \/ ServerSendFails
  <2>1. ServerClose /\ sfd \in Conns /\ cfd' = cfd
    BY <1>1, <1>11 DEF GiveUpClient, RecvClosed, ServerSendFails, EndSession, Sending,
       ServerClose, ServerDrop
  <2>2. CASE cfd = sfd
    <3>1. PICK k \in Conns : k = cfd
      BY <2>1, <2>2
    <3>2. ~ServerHolds(k)'
      BY <2>1, <2>2, <3>1, ClosedIsNotHeld
    <3>3. ~ServerHolds(cfd)'
      BY <2>1, <3>1, <3>2 DEF ServerHolds, Backlogged
    <3> QED
      BY <1>3, <2>1, <2>2, <3>3
  <2>3. CASE cfd # sfd /\ cfd \in Conns
    <3>1. c2s'[cfd] = c2s[cfd] /\ s2c'[cfd] = s2c[cfd]
      BY <2>1, <2>3 DEF ServerClose, ServerDrop
    <3>2. (FrameDue => FrameDue') /\ (AckDue => AckDue')
      BY <2>1, <2>3, <3>1 DEF FrameDue, AckDue
    <3> QED
      BY <1>4, <2>1, <2>3, <3>2
  <2> QED
    BY <1>2, <2>2, <2>3
<1>12. CASE ServerExit \/ Crash
  <2>1. ServerVanish /\ cfd' = cfd
    BY <1>12 DEF ServerExit, Crash, ServerVanish, ServerDrop
  <2>2. ASSUME cfd \in Conns PROVE ~ServerHolds(cfd)'
    BY <2>1, <2>2, LinkAssumption DEF ServerVanish, ServerHolds, Backlogged
  <2> QED
    BY <1>2, <1>3, <2>1, <2>2
<1> QED
  BY <1>5, <1>6, <1>7, <1>9, <1>10, <1>11, <1>12 DEF ServerStep, ServerEnv

\* The client waits only after it asked, and never reads the acknowledgement as
\* anything else.
LEMMA ClientAnswerDue ==
  ASSUME TypeOK, NewsIsTrue, StreamAligned, QuitPath, AnswerDue,
         ClientStep \/ ClientEnv, UNCHANGED serverVars
  PROVE  AnswerDue'
<1>1. /\ c2s \in [Conns -> Seq(Commands)] /\ s2c \in [Conns -> Seq(Blocks)]
      /\ cPc \notin Offline => cfd \in Conns
      /\ cPc \in Reading => response \in FrameAnswers
      /\ sPc' = sPc
  BY LinkAssumption DEF TypeOK, LinkTypeOK, ClientTypeOK, ClientCallOK, serverVars
<1>2. ASSUME cPc' \notin {"await", "header"} \cup Reading
      PROVE  AnswerDue'
  BY <1>2 DEF AnswerDue
<1>3. ASSUME quitting, quitting', cPc \in {"await", "header"} \cup Reading,
             UNCHANGED <<cfd, sfd, backlog>>, AckDue => AckDue'
      PROVE  AnswerDue'
  <2>1. ServerHolds(cfd)' => ServerHolds(cfd)
    BY <1>3 DEF ServerHolds, Backlogged
  <2> QED
    BY <1>3, <2>1 DEF AnswerDue
<1>4. CASE SendGetFrame
  <2>1. /\ cfd \in Conns /\ ClientWrite("GET_FRAME") /\ UNCHANGED <<cfd, sfd, backlog>>
        /\ ~quitting' /\ c2s[cfd] \in Seq(Commands)
    BY <1>1, <1>4 DEF SendGetFrame, ClientWrite, QuitPath, Offline, Reading
  <2>2. Holds(Append(c2s[cfd], "GET_FRAME"), Gets)
    BY <2>1, HoldsAppend DEF Commands, Gets
  <2>3. ServerHolds(cfd) => c2s'[cfd] = Append(c2s[cfd], "GET_FRAME")
    BY <1>1, <2>1 DEF ClientWrite
  <2>4. ServerHolds(cfd)' => ServerHolds(cfd)
    BY <2>1 DEF ServerHolds, Backlogged
  <2>5. ServerHolds(cfd)' => FrameDue'
    BY <2>1, <2>2, <2>3, <2>4 DEF FrameDue
  <2> QED
    BY <2>1, <2>5 DEF AnswerDue
<1>5. CASE QuitOnline
  <2>1. cfd \in Conns /\ quitting' /\ UNCHANGED <<cfd, sfd, backlog>>
    BY <1>1, <1>5 DEF QuitOnline, Offline, ClientWrite, linkVars
  <2>2. ServerHolds(cfd)' => ServerHolds(cfd)
    BY <2>1 DEF ServerHolds, Backlogged
  <2>3. ASSUME ServerHolds(cfd)
        PROVE  AckDue'
    <3>1. ClientWrite("STOP") /\ c2s[cfd] \in Seq(Commands)
      BY <1>1, <1>5, <2>1, <2>3 DEF QuitOnline, NewsIsTrue
    <3>2. c2s'[cfd] = Append(c2s[cfd], "STOP")
      BY <1>1, <2>1, <2>3, <3>1 DEF ClientWrite
    <3>3. Holds(Append(c2s[cfd], "STOP"), Stops)
      BY <3>1, HoldsAppend DEF Commands, Stops
    <3> QED
      BY <2>1, <3>2, <3>3 DEF AckDue
  <2> QED
    BY <2>1, <2>2, <2>3 DEF AnswerDue
<1>6. CASE AwaitAck
  <2>1. quitting' = quitting /\ UNCHANGED <<cfd, sfd, backlog, c2s, s2c>> /\ cPc = "await"
    BY <1>6 DEF AwaitAck, linkVars
  <2>2. quitting /\ quitting'
    BY <2>1 DEF QuitPath
  <2>3. AckDue => AckDue'
    BY <1>1, <2>1 DEF AckDue
  <2> QED
    BY <1>3, <2>1, <2>2, <2>3
<1>7. CASE HeaderTimeout
  <2>1. \/ cPc' \in {"key", "giveUp"}
        \/ /\ quitting /\ cPc' = "await" /\ quitting' = quitting
           /\ UNCHANGED <<cfd, sfd, backlog, c2s, s2c>> /\ cPc = "header"
    BY <1>7 DEF HeaderTimeout, GivesUp, linkVars
  <2>2. UNCHANGED <<cfd, sfd, c2s, s2c>> => (AckDue => AckDue')
    BY <1>1 DEF AckDue
  <2> QED
    BY <1>2, <1>3, <2>1, <2>2 DEF Reading
<1>8. ASSUME cfd \in Conns, ClientRead, Head(s2c[cfd]) \notin Acks, quitting' = quitting,
             cPc \in {"await", "header"} \cup Reading,
             ~quitting => cPc' # "header"
      PROVE  AnswerDue'
  <2>1. /\ UNCHANGED <<cfd, sfd, backlog, c2s>> /\ s2c[cfd] \in Seq(Blocks)
        /\ s2c'[cfd] = Tail(s2c[cfd])
    BY <1>1, <1>8 DEF ClientRead
  <2>2. s2c[cfd] # <<>>
    BY <1>8, <2>1 DEF TypeOK, LinkTypeOK, ArrivedOK, ClientRead
  <2>3. Holds(s2c[cfd], Acks) => Holds(Tail(s2c[cfd]), Acks)
    BY <1>8, <2>1, <2>2, HoldsTail
  <2>4. AckDue => AckDue'
    BY <1>1, <2>1, <2>3 DEF AckDue
  <2>5. CASE quitting
    BY <1>3, <1>8, <2>1, <2>4, <2>5
  <2>6. CASE ~quitting
    BY <1>8, <2>6 DEF AnswerDue
  <2> QED
    BY <2>5, <2>6
<1>9. CASE ReceiveHeader
  <2>1. cfd \in Conns /\ ClientRead /\ quitting' = quitting /\ cPc = "header"
    BY <1>1, <1>9 DEF ReceiveHeader, Offline
  <2>2. CASE Head(s2c[cfd]).of \in FrameAnswers
    <3>1. Head(s2c[cfd]) \notin Acks /\ cPc' = "frameId"
      BY <1>9, <2>2 DEF ReceiveHeader, Acks, FrameAnswers, ImageAnswers, SceneErrors
    <3> QED
      BY <1>8, <2>1, <3>1
  <2>3. CASE Head(s2c[cfd]).of \notin FrameAnswers
    BY <1>2, <1>9, <2>3 DEF ReceiveHeader, Reading
  <2> QED
    BY <2>2, <2>3
<1>10. CASE ReceiveFrameId \/ ReceiveJpegSize \/ ReceiveImage
  <2>1. /\ cfd \in Conns /\ ClientRead /\ quitting' = quitting /\ cPc \in Reading
        /\ cPc' # "header"
    BY <1>1, <1>10 DEF ReceiveFrameId, ReceiveJpegSize, ReceiveImage, Offline, Reading,
       AfterAnswer
  <2>2. s2c[cfd] # <<>> /\ Head(s2c[cfd]) = s2c[cfd][1]
    BY <1>1, <2>1 DEF TypeOK, LinkTypeOK, ArrivedOK, ClientRead
  <2>3. Head(s2c[cfd]).of = response
    BY <2>1, <2>2, LinkAssumption DEF StreamAligned, ClientExpects, Reading, Part
  <2>4. Head(s2c[cfd]) \notin Acks
    BY <1>1, <2>1, <2>3 DEF Acks, FrameAnswers, ImageAnswers, SceneErrors
  <2> QED
    BY <1>8, <2>1, <2>4
<1>11. ASSUME LinkLost \/ Finish \/ GivesUp
       PROVE  AnswerDue'
  BY <1>2, <1>11 DEF LinkLost, Finish, GivesUp, Reading
<1>12. CASE \/ ClientSendFails \/ ReceiveStopAck \/ HeaderClosed \/ GiveUpServer
            \/ AckNotReceived \/ ReadFails
  BY <1>11, <1>12 DEF ClientSendFails, ReceiveStopAck, HeaderClosed, GiveUpServer,
     AckNotReceived, ReadFails, Abandon
<1>13. CASE Connect \/ ConnectFails \/ PauseOver \/ PollNoKey \/ QuitOffline \/ Relaunch
  BY <1>2, <1>13 DEF Connect, ConnectFails, PauseOver, PollNoKey, QuitOffline, Relaunch,
     Reading
<1> QED
  BY <1>4, <1>5, <1>6, <1>7, <1>9, <1>10, <1>12, <1>13 DEF ClientStep, ClientEnv

\* Every step keeps what is due.
LEMMA NextAnswerDue ==
  ASSUME TypeOK, NewsIsTrue, StreamAligned, QuitPath, AnswerDue, "capture" \notin Faults,
         [Next]_vars
  PROVE  AnswerDue'
<1>1. CASE LinkStep \/ Tick \/ UNCHANGED vars
  <2>1. UNCHANGED <<c2s, cfd, sfd, backlog, quitting, sPc, cPc>>
    BY <1>1 DEF LinkStep, CutCable, PlugCable, Retransmit, Tick, vars, linkVars, serverVars,
       clientVars
  <2>2. cfd \in Conns => s2c'[cfd] = s2c[cfd]
    BY <1>1 DEF LinkStep, CutCable, PlugCable, Retransmit, RetransmitCommands,
       RetransmitAnswers, Tick, vars, linkVars, TypeOK,
       LinkTypeOK
  <2>3. cPc \in {"await", "header"} \cup Reading => cfd \in Conns
    BY DEF TypeOK, LinkTypeOK, ClientCallOK, Offline, Reading
  <2>4. cfd \in Conns => (FrameDue => FrameDue') /\ (AckDue => AckDue')
    BY <2>1, <2>2 DEF FrameDue, AckDue
  <2>5. ServerHolds(cfd)' => ServerHolds(cfd)
    BY <2>1 DEF ServerHolds, Backlogged
  <2> QED
    BY <2>1, <2>3, <2>4, <2>5 DEF AnswerDue
<1> QED
  BY <1>1, ServerAnswerDue, ClientAnswerDue DEF Next

\* The positions of T in a stream can be counted, and there is one if T is there.
LEMMA CountHolds ==
  ASSUME NEW S, NEW s \in Seq(S), NEW T
  PROVE  LET n == Cardinality({i \in 1 .. Len(s) : s[i] \in T})
         IN  n \in Nat /\ (Holds(s, T) => n >= 1)
<1> DEFINE I == {i \in 1 .. Len(s) : s[i] \in T}
<1>1. IsFiniteSet(1 .. Len(s)) /\ I \subseteq 1 .. Len(s)
  BY FS_Interval
<1>2. IsFiniteSet(I) /\ (Holds(s, T) => I # {})
  BY <1>1, FS_Subset DEF Holds
<1> HIDE DEF I
<1>3. Cardinality(I) \in Nat /\ (Holds(s, T) => Cardinality(I) # 0)
  BY <1>2, FS_CardinalityType, FS_EmptySet
<1> QED
  BY <1>3 DEF I

LEMMA AnswerDueSuffices ==
  ASSUME TypeOK, AnswerDue
  PROVE  AnswerOwed
<1> SUFFICES ASSUME cPc = "header", ServerHolds(cfd)
             PROVE  IF quitting THEN StopPending ELSE Outstanding >= 1
  BY DEF AnswerOwed
<1>1. cfd \in Conns /\ c2s[cfd] \in Seq(Commands) /\ s2c[cfd] \in Seq(Blocks)
  BY DEF TypeOK, LinkTypeOK, ClientCallOK, Offline
<1>2. CASE quitting
  BY <1>2 DEF AnswerDue, AckDue, StopPending, Holds, Stops, Acks
<1>3. CASE ~quitting
  <2> DEFINE asked    == {i \in 1 .. Len(c2s[cfd]) : c2s[cfd][i] = "GET_FRAME"}
             answered == {i \in 1 .. Len(s2c[cfd]) :
                            s2c[cfd][i].part = "header" /\ s2c[cfd][i].of \in FrameAnswers}
  <2>1. asked = {i \in 1 .. Len(c2s[cfd]) : c2s[cfd][i] \in Gets}
    BY DEF Gets
  <2>2. answered = {i \in 1 .. Len(s2c[cfd]) : s2c[cfd][i] \in FrameHeaders}
    <3>1. \A i \in 1 .. Len(s2c[cfd]) : s2c[cfd][i] \in Blocks
      BY <1>1
    <3> QED
      BY <3>1 DEF FrameHeaders
  <2>3. Outstanding = Cardinality(asked) + Cardinality(answered)
                      + IF cfd = sfd /\ sPc \in {"capture", "sendHeader"} THEN 1 ELSE 0
    BY DEF Outstanding
  <2>4. Cardinality(asked) \in Nat /\ (Holds(c2s[cfd], Gets) => Cardinality(asked) >= 1)
    BY <1>1, <2>1, CountHolds
  <2>5. /\ Cardinality(answered) \in Nat
        /\ Holds(s2c[cfd], FrameHeaders) => Cardinality(answered) >= 1
    BY <1>1, <2>2, CountHolds
  <2>6. FrameDue
    BY <1>3 DEF AnswerDue
  <2> HIDE DEF asked, answered
  <2>7. CASE cfd = sfd /\ sPc \in {"capture", "sendHeader"}
    BY <1>3, <2>3, <2>4, <2>5, <2>7
  <2>8. CASE ~(cfd = sfd /\ sPc \in {"capture", "sendHeader"})
    BY <1>3, <2>3, <2>4, <2>5, <2>6, <2>8 DEF FrameDue
  <2> QED
    BY <1>3, <2>7, <2>8
<1> QED
  BY <1>2, <1>3

\* As long as no capture fails, the client never waits for an answer nobody owes it. (A
\* capture that fails is a GET_FRAME without an answer: the client waits in vain until
\* its recv() expires, and asks again.)
THEOREM AnswerIsOwed == "capture" \notin Faults /\ Spec => []AnswerOwed
<1> SUFFICES ASSUME "capture" \notin Faults
             PROVE  Spec => []AnswerOwed
  OBVIOUS
<1>1. Init => NewsIsTrue /\ QuitPath /\ AnswerDue
  BY LinkAssumption DEF Init, LinkInit, ServerInit, ClientInit, NewsIsTrue, QuitPath,
     AnswerDue,
     ServerHolds, Backlogged, Reading
<1>2. /\ TypeOK /\ StreamAligned /\ NewsIsTrue /\ QuitPath /\ AnswerDue /\ [Next]_vars
      => NewsIsTrue' /\ QuitPath' /\ AnswerDue'
  BY NextNews, NextQuitPath, NextAnswerDue
<1>3. TypeOK /\ AnswerDue => AnswerOwed
  BY AnswerDueSuffices
<1> QED
  BY TypeCorrect, StreamStaysAligned, <1>1, <1>2, <1>3, PTL DEF Spec
=============================================================================
