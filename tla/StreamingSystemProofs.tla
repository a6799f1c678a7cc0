------------------------ MODULE StreamingSystemProofs -----------------------
(***************************************************************************)
(* Theorems about StreamingSystem, for every value of its constants.       *)
(*                                                                         *)
(* The first part shows that each operation of the link keeps the link     *)
(* well formed, the second that each step of the programs keeps TypeOK,    *)
(* the third that LiveOnlyIfAccepted and StreamAligned are preserved with  *)
(* it. TypeOK /\ LiveOnlyIfAccepted /\ StreamAligned is inductive.         *)
(***************************************************************************)
EXTENDS StreamingSystem, TLAPS

-----------------------------------------------------------------------------
(* The operations of the link.                                             *)

LinkOK == LinkTypeOK /\ ArrivedOK /\ BacklogOK

\* connect() adds a connection the backlog did not hold (tcp_client.cpp:52-90).
LEMMA ConnectLinkOK ==
  ASSUME LinkOK, Reachable, NEW k \in Conns, ClientConnect(k)
  PROVE  LinkOK'
<1>0. backlog \in Seq(Conns) /\ sfd' = sfd /\ k # sfd /\ ~Backlogged(k) /\ Len(backlog) < Backlog
  BY DEF LinkOK, LinkTypeOK, ClientConnect, ServerHolds, Reachable
<1>1. /\ Len(backlog') = Len(backlog) + 1
      /\ \A i \in 1 .. Len(backlog) : backlog'[i] = backlog[i]
      /\ backlog'[Len(backlog) + 1] = k
      /\ Len(backlog) \in Nat
  BY <1>0 DEF ClientConnect
<1>2. Len(backlog') <= Backlog
  BY <1>0, <1>1, LinkAssumption
<1>3. ASSUME NEW i \in 1 .. Len(backlog'), NEW j \in 1 .. Len(backlog'),
             backlog'[i] = backlog'[j]
      PROVE  i = j
  <2>1. i \in 1 .. Len(backlog) \/ i = Len(backlog) + 1
    BY <1>1
  <2>2. j \in 1 .. Len(backlog) \/ j = Len(backlog) + 1
    BY <1>1
  <2> QED
    BY <1>0, <1>1, <1>3, <2>1, <2>2 DEF Backlogged, BacklogOK, LinkOK
<1>4. ~Backlogged(sfd)'
  <2> SUFFICES ASSUME NEW i \in 1 .. Len(backlog'), backlog'[i] = sfd' PROVE FALSE
    BY DEF Backlogged
  <2>1. i \in 1 .. Len(backlog) \/ i = Len(backlog) + 1
    BY <1>1
  <2> QED
    BY <1>0, <1>1, <2>1 DEF Backlogged, BacklogOK, LinkOK
<1>5. BacklogOK'
  BY <1>2, <1>3, <1>4 DEF BacklogOK
<1>6. LinkTypeOK'
  <2>1. backlog' \in Seq(Conns)
    BY <1>0 DEF ClientConnect
  <2>2. /\ c2s' \in [Conns -> Seq(Commands)] /\ s2c' \in [Conns -> Seq(Blocks)]
    BY DEF LinkOK, LinkTypeOK, ClientConnect
  <2> QED
    BY <2>1, <2>2 DEF LinkOK, LinkTypeOK, ClientConnect
<1>7. ArrivedOK'
  BY DEF LinkOK, LinkTypeOK, ArrivedOK, ClientConnect
<1> QED
  BY <1>5, <1>6, <1>7 DEF LinkOK

\* The client's send() (tcp_client.cpp:92-95).
LEMMA ClientWriteLinkOK ==
  ASSUME LinkOK, cfd \in Conns, NEW cmd \in Commands, ClientWrite(cmd)
  PROVE  LinkOK'
<1>1. c2s[cfd] \in Seq(Commands) /\ c2sIn[cfd] \in Nat /\ c2sIn[cfd] <= Len(c2s[cfd])
  BY DEF LinkOK, LinkTypeOK, ArrivedOK
<1>2. /\ Append(c2s[cfd], cmd) \in Seq(Commands)
      /\ Len(Append(c2s[cfd], cmd)) = Len(c2s[cfd]) + 1
      /\ Arrived(c2sIn[cfd], c2s[cfd]) \in Nat
      /\ Arrived(c2sIn[cfd], c2s[cfd]) <= Len(c2s[cfd]) + 1
  BY <1>1 DEF Arrived
<1>3. LinkTypeOK'
  BY <1>2 DEF LinkOK, LinkTypeOK, ClientWrite
<1>4. ArrivedOK'
  BY <1>2 DEF LinkOK, LinkTypeOK, ArrivedOK, ClientWrite
<1>5. BacklogOK'
  BY DEF LinkOK, BacklogOK, Backlogged, ClientWrite
<1> QED
  BY <1>3, <1>4, <1>5 DEF LinkOK

\* The client's recv() (tcp_client.cpp:97-135).
LEMMA ClientReadLinkOK ==
  ASSUME LinkOK, cfd \in Conns, ClientRead
  PROVE  LinkOK'
<1>1. /\ s2c[cfd] \in Seq(Blocks) /\ s2c[cfd] # <<>>
      /\ s2cIn[cfd] - 1 \in Nat /\ s2cIn[cfd] <= Len(s2c[cfd])
  BY DEF LinkOK, LinkTypeOK, ArrivedOK, ClientRead
<1>2. /\ Tail(s2c[cfd]) \in Seq(Blocks)
      /\ Len(Tail(s2c[cfd])) = Len(s2c[cfd]) - 1
  BY <1>1
<1>3. LinkTypeOK'
  BY <1>1, <1>2 DEF LinkOK, LinkTypeOK, ClientRead
<1>4. ArrivedOK'
  BY <1>1, <1>2 DEF LinkOK, LinkTypeOK, ArrivedOK, ClientRead
<1>5. BacklogOK'
  BY DEF LinkOK, BacklogOK, Backlogged, ClientRead
<1> QED
  BY <1>3, <1>4, <1>5 DEF LinkOK

\* The client's close() (tcp_client.cpp:137-142).
LEMMA ClientCloseLinkOK ==
  ASSUME LinkOK, cfd \in Conns, ClientClose
  PROVE  LinkOK'
<1>0. /\ s2c[cfd] \in Seq(Blocks) /\ c2s[cfd] \in Seq(Commands)
      /\ s2cIn[cfd] \in 0 .. Len(s2c[cfd]) /\ c2sIn[cfd] \in 0 .. Len(c2s[cfd])
  BY DEF LinkOK, LinkTypeOK, ArrivedOK
<1>a. /\ SubSeq(s2c[cfd], s2cIn[cfd] + 1, Len(s2c[cfd])) \in Seq(Blocks)
      /\ SubSeq(c2s[cfd], 1, c2sIn[cfd]) \in Seq(Commands)
      /\ Len(SubSeq(c2s[cfd], 1, c2sIn[cfd])) = c2sIn[cfd]
  BY <1>0
<1>b. s2c' \in [Conns -> Seq(Blocks)] /\ c2s' \in [Conns -> Seq(Commands)]
  BY <1>0, <1>a DEF LinkOK, LinkTypeOK, ClientClose
<1>c. /\ s2cIn' \in [Conns -> Nat] /\ cGone' \in [Conns -> BOOLEAN]
      /\ sGone' \in [Conns -> BOOLEAN]
  BY DEF LinkOK, LinkTypeOK, ClientClose, ServerHolds, Backlogged
<1>1. LinkTypeOK'
  BY <1>b, <1>c DEF LinkOK, LinkTypeOK, ClientClose
<1>2. ArrivedOK'
  <2>1. \A k \in Conns : c2sIn[k] <= Len(c2s'[k])
    BY <1>0, <1>a DEF LinkOK, LinkTypeOK, ArrivedOK, ClientClose
  <2>2. \A k \in Conns : s2cIn'[k] <= Len(s2c'[k])
    BY <1>0, <1>b DEF LinkOK, LinkTypeOK, ArrivedOK, ClientClose
  <2> QED
    BY <2>1, <2>2 DEF ArrivedOK, ClientClose
<1>3. BacklogOK'
  BY LinkAssumption DEF LinkOK, LinkTypeOK, BacklogOK, Backlogged, ClientClose
<1> QED
  BY <1>1, <1>2, <1>3 DEF LinkOK

\* accept() takes the oldest connection (tcp_server.cpp:67-75).
LEMMA ServerAcceptLinkOK ==
  ASSUME LinkOK, ServerAccept
  PROVE  LinkOK'
<1>1. /\ backlog \in Seq(Conns) /\ backlog # <<>>
      /\ sfd' = backlog[1] /\ backlog' = Tail(backlog)
  BY DEF LinkOK, LinkTypeOK, ServerAccept
<1>2. /\ backlog' \in Seq(Conns) /\ Len(backlog) \in Nat
      /\ Len(backlog') = Len(backlog) - 1
      /\ \A i \in 1 .. Len(backlog') : backlog'[i] = backlog[i + 1]
      /\ 1 \in 1 .. Len(backlog) /\ sfd' \in Conns
  BY <1>1
<1>3. LinkTypeOK'
  BY <1>2 DEF LinkOK, LinkTypeOK, ServerAccept
<1>4. ArrivedOK'
  BY DEF LinkOK, ArrivedOK, ServerAccept
<1>5. BacklogOK'
  <2>1. Len(backlog') <= Backlog
    BY <1>2, LinkAssumption DEF LinkOK, BacklogOK
  <2>2. ASSUME NEW i \in 1 .. Len(backlog'), NEW j \in 1 .. Len(backlog'),
               backlog'[i] = backlog'[j]
        PROVE  i = j
    <3>1. i + 1 \in 1 .. Len(backlog) /\ j + 1 \in 1 .. Len(backlog)
      BY <1>2
    <3>2. i + 1 = j + 1
      BY <1>2, <2>2, <3>1 DEF LinkOK, BacklogOK
    <3> QED
      BY <3>2
  <2>3. ASSUME NEW i \in 1 .. Len(backlog'), backlog'[i] = sfd'
        PROVE  FALSE
    <3>1. i + 1 \in 1 .. Len(backlog) /\ i + 1 # 1
      BY <1>2
    <3> QED
      BY <1>1, <1>2, <2>3, <3>1 DEF LinkOK, BacklogOK
  <2> QED
    BY <2>1, <2>2, <2>3 DEF BacklogOK, Backlogged
<1> QED
  BY <1>3, <1>4, <1>5 DEF LinkOK

\* The server's recv() (tcp_server.cpp:77-90).
LEMMA ServerReadLinkOK ==
  ASSUME LinkOK, sfd \in Conns, ServerRead
  PROVE  LinkOK'
<1>1. /\ c2s[sfd] \in Seq(Commands) /\ c2s[sfd] # <<>>
      /\ c2sIn[sfd] - 1 \in Nat /\ c2sIn[sfd] <= Len(c2s[sfd])
  BY DEF LinkOK, LinkTypeOK, ArrivedOK, ServerRead
<1>2. /\ Tail(c2s[sfd]) \in Seq(Commands)
      /\ Len(Tail(c2s[sfd])) = Len(c2s[sfd]) - 1
  BY <1>1
<1>3. LinkTypeOK'
  BY <1>1, <1>2 DEF LinkOK, LinkTypeOK, ServerRead
<1>4. ArrivedOK'
  BY <1>1, <1>2 DEF LinkOK, LinkTypeOK, ArrivedOK, ServerRead
<1>5. BacklogOK'
  BY DEF LinkOK, BacklogOK, Backlogged, ServerRead
<1> QED
  BY <1>3, <1>4, <1>5 DEF LinkOK

\* The server's send() (tcp_server.cpp:92-109).
LEMMA ServerWriteLinkOK ==
  ASSUME LinkOK, sfd \in Conns, NEW p \in Blocks, ServerWrite(p)
  PROVE  LinkOK'
<1>1. UNCHANGED <<cable, listening, backlog, cfd, sfd, c2s, c2sIn, sGone>>
  BY DEF ServerWrite
<1>2. CASE UNCHANGED <<s2c, s2cIn>> /\ cGone' = [cGone EXCEPT ![sfd] = TRUE]
  <2>1. LinkTypeOK'
    BY <1>1, <1>2 DEF LinkOK, LinkTypeOK
  <2>2. ArrivedOK' /\ BacklogOK'
    BY <1>1, <1>2 DEF LinkOK, ArrivedOK, BacklogOK, Backlogged
  <2> QED
    BY <2>1, <2>2 DEF LinkOK
<1>3. CASE /\ s2c' = [s2c EXCEPT ![sfd] = Append(@, p)]
           /\ s2cIn' = [s2cIn EXCEPT ![sfd] = Arrived(@, s2c[sfd])]
           /\ UNCHANGED cGone
  <2>1. s2c[sfd] \in Seq(Blocks) /\ s2cIn[sfd] \in Nat /\ s2cIn[sfd] <= Len(s2c[sfd])
    BY DEF LinkOK, LinkTypeOK, ArrivedOK
  <2>2. /\ Append(s2c[sfd], p) \in Seq(Blocks)
        /\ Len(Append(s2c[sfd], p)) = Len(s2c[sfd]) + 1
    BY <2>1
  <2>3. /\ Arrived(s2cIn[sfd], s2c[sfd]) \in Nat
        /\ Arrived(s2cIn[sfd], s2c[sfd]) <= Len(s2c[sfd]) + 1
    BY <2>1 DEF Arrived
  <2>4. LinkTypeOK'
    BY <1>1, <1>3, <2>2, <2>3 DEF LinkOK, LinkTypeOK
  <2>5. ArrivedOK'
    BY <1>1, <1>3, <2>2, <2>3 DEF LinkOK, LinkTypeOK, ArrivedOK
  <2> QED
    BY <1>1, <2>4, <2>5 DEF LinkOK, BacklogOK, Backlogged
<1> QED
  BY <1>2, <1>3 DEF ServerWrite

\* The server's kernel closes some connections.
LEMMA ServerDropOK ==
  ASSUME LinkOK, NEW K \in SUBSET Conns, ServerDrop(K)
  PROVE  /\ c2s' \in [Conns -> Seq(Commands)] /\ s2c' \in [Conns -> Seq(Blocks)]
         /\ c2sIn' \in [Conns -> Nat] /\ s2cIn' \in [Conns -> Nat]
         /\ cGone' \in [Conns -> BOOLEAN] /\ sGone' \in [Conns -> BOOLEAN]
         /\ ArrivedOK'
         /\ UNCHANGED <<cable, cfd>>
<1>1. ASSUME NEW k \in Conns
      PROVE  /\ s2c'[k] \in Seq(Blocks)
             /\ s2cIn'[k] <= Len(s2c'[k])
  BY <1>1 DEF LinkOK, LinkTypeOK, ArrivedOK, ServerDrop
<1>2. /\ DOMAIN s2c' = Conns /\ s2c' = [k \in Conns |-> s2c'[k]]
  BY DEF ServerDrop
<1>3. s2c' \in [Conns -> Seq(Blocks)]
  BY <1>1, <1>2
<1>4. c2s' \in [Conns -> Seq(Commands)] /\ c2sIn' \in [Conns -> Nat]
  BY DEF LinkOK, LinkTypeOK, ServerDrop
<1>5. s2cIn' \in [Conns -> Nat]
  BY DEF LinkOK, LinkTypeOK, ServerDrop
<1>6. cGone' \in [Conns -> BOOLEAN] /\ sGone' \in [Conns -> BOOLEAN]
  BY DEF LinkOK, LinkTypeOK, ServerDrop
<1>7. \A k \in Conns : c2sIn'[k] <= Len(c2s'[k])
  BY DEF LinkOK, LinkTypeOK, ArrivedOK, ServerDrop
<1>8. ArrivedOK' /\ UNCHANGED <<cable, cfd>>
  BY <1>1, <1>7 DEF ArrivedOK, ServerDrop
<1> QED
  BY <1>3, <1>4, <1>5, <1>6, <1>8

\* closeClient() (tcp_server.cpp:111-116).
LEMMA ServerCloseLinkOK ==
  ASSUME LinkOK, sfd \in Conns, ServerClose
  PROVE  LinkOK'
<1>1. backlog \in Seq(Conns) /\ backlog' = backlog /\ sfd' = NoFd
  BY DEF LinkOK, LinkTypeOK, ServerClose
<1>2. \A i \in 1 .. Len(backlog) : backlog[i] \in Conns
  BY <1>1
<1>3. BacklogOK'
  BY <1>1, <1>2, LinkAssumption DEF LinkOK, BacklogOK, Backlogged
<1>4. ServerDrop({sfd}) /\ {sfd} \in SUBSET Conns /\ UNCHANGED <<listening, backlog>>
  BY DEF ServerClose
<1> QED
  BY <1>1, <1>3, <1>4, ServerDropOK DEF LinkOK, LinkTypeOK

\* The end of the server process.
LEMMA ServerVanishLinkOK ==
  ASSUME LinkOK, ServerVanish
  PROVE  LinkOK'
<1> DEFINE K == {k \in Conns : ServerHolds(k)}
<1>1. K \in SUBSET Conns /\ ServerDrop(K)
  BY DEF ServerVanish
<1>2. sfd' = NoFd /\ listening' = FALSE /\ backlog' = <<>>
  BY DEF ServerVanish
<1>3. BacklogOK'
  BY <1>2, LinkAssumption DEF BacklogOK, Backlogged
<1> HIDE DEF K
<1>4. /\ c2s' \in [Conns -> Seq(Commands)] /\ s2c' \in [Conns -> Seq(Blocks)]
      /\ c2sIn' \in [Conns -> Nat] /\ s2cIn' \in [Conns -> Nat]
      /\ cGone' \in [Conns -> BOOLEAN] /\ sGone' \in [Conns -> BOOLEAN]
      /\ ArrivedOK'
      /\ UNCHANGED <<cable, cfd>>
  BY <1>1, ServerDropOK
<1>5. backlog' \in Seq(Conns)
  BY <1>2
<1>6. listening' \in BOOLEAN
  BY <1>2
<1>7. LinkTypeOK'
  BY <1>2, <1>4, <1>5, <1>6 DEF LinkOK, LinkTypeOK
<1> QED
  BY <1>3, <1>4, <1>7 DEF LinkOK

\* The start of the server process (tcp_server.cpp:25-58).
LEMMA ListenLinkOK ==
  ASSUME LinkOK, ServerListen
  PROVE  LinkOK'
  BY DEF LinkOK, LinkTypeOK, ArrivedOK, BacklogOK, ServerListen, Backlogged

\* The kernels deliver what a cut held back.
LEMMA RetransmitLinkOK ==
  ASSUME LinkOK, NEW k \in Conns, Retransmit(k)
  PROVE  LinkOK'
<1>1. /\ c2s \in [Conns -> Seq(Commands)] /\ s2c \in [Conns -> Seq(Blocks)]
      /\ c2sIn \in [Conns -> Nat] /\ s2cIn \in [Conns -> Nat]
      /\ cGone \in [Conns -> BOOLEAN] /\ sGone \in [Conns -> BOOLEAN]
      /\ Len(c2s[k]) \in Nat /\ Len(s2c[k]) \in Nat
      /\ \A n \in Conns : c2sIn[n] <= Len(c2s[n]) /\ s2cIn[n] <= Len(s2c[n])
  <2>1. /\ c2s \in [Conns -> Seq(Commands)] /\ s2c \in [Conns -> Seq(Blocks)]
        /\ c2sIn \in [Conns -> Nat] /\ s2cIn \in [Conns -> Nat]
        /\ cGone \in [Conns -> BOOLEAN] /\ sGone \in [Conns -> BOOLEAN]
    BY DEF LinkOK, LinkTypeOK
  <2>2. c2s[k] \in Seq(Commands) /\ s2c[k] \in Seq(Blocks)
    BY <2>1
  <2> QED
    BY <2>1, <2>2 DEF LinkOK, ArrivedOK
<1>2. (ServerHolds(k) \in BOOLEAN) /\ UNCHANGED <<cable, listening, backlog, cfd, sfd, c2s>>
  BY DEF ServerHolds, Backlogged, Retransmit
<1>3. /\ c2sIn' \in [Conns -> Nat] /\ s2cIn' \in [Conns -> Nat]
      /\ s2c' \in [Conns -> Seq(Blocks)]
      /\ cGone' \in [Conns -> BOOLEAN] /\ sGone' \in [Conns -> BOOLEAN]
      /\ \A n \in Conns : c2sIn'[n] <= Len(c2s'[n]) /\ s2cIn'[n] <= Len(s2c'[n])
  <2>1. CASE RetransmitCommands(k)
    BY <1>1, <1>2, <2>1 DEF RetransmitCommands
  <2>2. CASE RetransmitAnswers(k)
    <3>1. /\ c2sIn' = c2sIn /\ s2cIn' \in [Conns -> Nat] /\ s2c' \in [Conns -> Seq(Blocks)]
          /\ cGone' \in [Conns -> BOOLEAN] /\ sGone' \in [Conns -> BOOLEAN]
      BY <1>1, <2>2 DEF RetransmitAnswers
    <3>2. \A n \in Conns : s2cIn'[n] <= Len(s2c'[n])
      BY <1>1, <2>2 DEF RetransmitAnswers
    <3> QED
      BY <1>1, <1>2, <3>1, <3>2
  <2> QED
    BY <2>1, <2>2 DEF Retransmit
<1>4. LinkTypeOK' /\ ArrivedOK'
  BY <1>2, <1>3 DEF LinkOK, LinkTypeOK, ArrivedOK
<1>5. BacklogOK'
  BY <1>2 DEF LinkOK, BacklogOK, Backlogged
<1> QED
  BY <1>4, <1>5 DEF LinkOK

\* The cable and the kernels keep the link well typed.
LEMMA LinkStepLinkOK ==
  ASSUME LinkOK, LinkStep
  PROVE  LinkOK'
<1>1. CASE CutCable \/ PlugCable
  BY <1>1 DEF LinkOK, LinkTypeOK, ArrivedOK, BacklogOK, Backlogged, CutCable, PlugCable
<1>2. CASE \E k \in Conns : Retransmit(k)
  BY <1>2, RetransmitLinkOK
<1> QED
  BY <1>1, <1>2 DEF LinkStep

-----------------------------------------------------------------------------
(* Types.                                                                  *)

\* The initial states are well typed.
LEMMA InitTypeOK == Init => TypeOK
<1> SUFFICES ASSUME Init PROVE TypeOK
  OBVIOUS
<1> USE LinkAssumption, ServerAssumption, ClientAssumption DEF Init
<1>1. LinkTypeOK /\ ArrivedOK
  BY DEF LinkInit, LinkTypeOK, ArrivedOK
<1>2. BacklogOK
  BY DEF LinkInit, BacklogOK, Backlogged
<1>3. ServerTypeOK /\ ServerCallOK
  <2>1. pressed \in BOOLEAN
    BY DEF ServerInit
  <2>2. ServerTypeOK
    BY <2>1 DEF ServerInit, ServerTypeOK, ServerPcs, SceneStates
  <2> QED
    BY <2>2 DEF LinkInit, ServerInit, ServerCallOK, Sending
<1>4. ClientTypeOK /\ ClientCallOK
  <2>1. disk \in [0 .. FrameIds - 1 -> Nat]
    BY DEF ClientInit, EmptyStore
  <2>2. ClientTypeOK
    <3>1. /\ cPc \in ClientPcs /\ display \in DisplayStates
          /\ quitting \in BOOLEAN /\ response \in FrameAnswers \cup {NoAnswer}
      BY DEF ClientInit, ClientPcs, Offline, DisplayStates
    <3>2. /\ cFrameId \in 0 .. FrameIds - 1 /\ frame \in 0 .. FrameIds - 1
          /\ respAge \in 0 .. LinkTimeout /\ readAge \in 0 .. LinkTimeout
          /\ shutAge \in 0 .. ShutdownTimeout /\ launches \in 1 .. MaxLaunches
      BY DEF ClientInit
    <3> QED
      BY <2>1, <3>1, <3>2 DEF ClientTypeOK
  <2> QED
    BY <2>2 DEF LinkInit, ClientInit, ClientCallOK, Offline, Reading
<1> QED
  BY <1>1, <1>2, <1>3, <1>4 DEF TypeOK

\* Closing a session leaves the server well typed, in accept().
LEMMA EndSessionTypeOK ==
  ASSUME TypeOK, sfd \in Conns, EndSession, UNCHANGED clientVars
  PROVE  TypeOK'
<1>1. LinkOK' /\ sfd' = NoFd /\ cfd' = cfd
  BY ServerCloseLinkOK DEF EndSession, TypeOK, LinkOK, ServerClose, ServerDrop
<1>2. ServerTypeOK' /\ ServerCallOK'
  BY <1>1 DEF EndSession, TypeOK, ServerTypeOK, ServerCallOK, ServerPcs, Sending
<1>3. ClientTypeOK' /\ ClientCallOK'
  BY <1>1 DEF TypeOK, ClientTypeOK, ClientCallOK, clientVars
<1> QED
  BY <1>1, <1>2, <1>3 DEF TypeOK, LinkOK

\* One call of the server's main thread.
LEMMA ServerStepTypeOK ==
  ASSUME TypeOK, ServerStep, UNCHANGED clientVars
  PROVE  TypeOK'
<1>1. /\ LinkOK /\ ServerTypeOK /\ ServerCallOK
      /\ sPc \notin {"accept", "done", "down"} => sfd \in Conns
  BY DEF TypeOK, LinkOK, LinkTypeOK, ServerCallOK
<1>2. ASSUME LinkOK', cfd' = cfd, ServerTypeOK', ServerCallOK'
      PROVE  TypeOK'
  BY <1>2 DEF TypeOK, LinkOK, ClientTypeOK, ClientCallOK, clientVars
<1>3. ASSUME UNCHANGED linkVars
      PROVE  LinkOK' /\ cfd' = cfd /\ sfd' = sfd
  BY <1>1, <1>3 DEF linkVars, LinkOK, LinkTypeOK, ArrivedOK, BacklogOK, Backlogged
<1>4. ASSUME NEW p \in Blocks, sfd \in Conns, ServerWrite(p)
      PROVE  LinkOK' /\ cfd' = cfd /\ sfd' = sfd
  BY <1>1, <1>4, ServerWriteLinkOK DEF ServerWrite
<1>5. CASE WaitForClient
  <2>1. LinkOK' /\ cfd' = cfd
    BY <1>1, <1>5, ServerAcceptLinkOK DEF WaitForClient, ServerAccept
  <2>2. sfd' \in Conns
    BY <1>1, <1>5 DEF WaitForClient, ServerAccept, LinkOK, LinkTypeOK
  <2>3. ServerTypeOK' /\ ServerCallOK'
    BY <1>1, <1>5, <2>2, LinkAssumption, ServerAssumption
       DEF WaitForClient, ServerTypeOK, ServerCallOK, ServerPcs, Sending
  <2> QED
    BY <1>2, <2>1, <2>3
<1>6. CASE ReceiveCommand
  <2>1. LinkOK' /\ cfd' = cfd /\ sfd' = sfd
    BY <1>1, <1>6, ServerReadLinkOK DEF ReceiveCommand, ServerRead
  <2>2. ServerTypeOK' /\ ServerCallOK'
    BY <1>1, <1>6, <2>1, ServerAssumption
       DEF ReceiveCommand, ServerTypeOK, ServerCallOK, ServerPcs, Sending
  <2> QED
    BY <1>2, <2>1, <2>2
<1>7. CASE GiveUpClient \/ RecvClosed \/ ServerSendFails
  BY <1>1, <1>7, EndSessionTypeOK DEF GiveUpClient, RecvClosed, ServerSendFails, Sending
<1>8. CASE CaptureFails \/ RecvTimeout
  <2>1. LinkOK' /\ cfd' = cfd /\ sfd' = sfd
    BY <1>3, <1>8 DEF CaptureFails, RecvTimeout
  <2>2. ServerTypeOK' /\ ServerCallOK'
    BY <1>1, <1>8, <2>1
       DEF CaptureFails, RecvTimeout, ServerTypeOK, ServerCallOK, ServerPcs, Sending
  <2> QED
    BY <1>2, <2>1, <2>2
<1>9. CASE AnswerGetFrame
  <2>1. LinkOK' /\ cfd' = cfd /\ sfd' = sfd
    BY <1>3, <1>9 DEF AnswerGetFrame
  <2>2. NextFrameId \in 0 .. FrameIds - 1
    BY <1>1, ServerAssumption DEF NextFrameId, ServerTypeOK
  <2>3. ServerTypeOK'
    BY <1>1, <1>9, <2>2, ServerAssumption
       DEF AnswerGetFrame, ServerTypeOK, ServerPcs, Sending, SceneStates, SceneErrors,
           FrameAnswers, ImageAnswers
  <2>4. ServerCallOK'
    BY <1>1, <1>9, <2>1
       DEF AnswerGetFrame, ServerCallOK, Sending, SceneErrors, NoAnswer
  <2> QED
    BY <1>2, <2>1, <2>3, <2>4
<1>10. CASE SendHeader
  <2>1. Part("header", answer, frameId) \in Blocks
    BY <1>1, <1>10 DEF SendHeader, ServerTypeOK, ServerCallOK, Sending, Part, Blocks,
       PartKinds, Answers
  <2>2. LinkOK' /\ cfd' = cfd /\ sfd' = sfd
    BY <1>1, <1>4, <1>10, <2>1 DEF SendHeader
  <2>3. ServerTypeOK' /\ ServerCallOK'
    BY <1>1, <1>10, <2>2 DEF SendHeader, ServerTypeOK, ServerCallOK, ServerPcs, Sending
  <2> QED
    BY <1>2, <2>2, <2>3
<1>11. CASE SendFrameId
  <2>1. Part("frameId", answer, frameId) \in Blocks
    BY <1>1, <1>11 DEF SendFrameId, ServerTypeOK, ServerCallOK, Sending, Part, Blocks,
       PartKinds, Answers
  <2>2. LinkOK' /\ cfd' = cfd /\ sfd' = sfd
    BY <1>1, <1>4, <1>11, <2>1 DEF SendFrameId
  <2>3. ServerTypeOK' /\ ServerCallOK'
    BY <1>1, <1>11, <2>2 DEF SendFrameId, ServerTypeOK, ServerCallOK, ServerPcs, Sending
  <2> QED
    BY <1>2, <2>2, <2>3
<1>12. CASE SendImage
  <2>1. Part("image", answer, frameId) \in Blocks
    BY <1>1, <1>12 DEF SendImage, ServerTypeOK, ServerCallOK, Sending, Part, Blocks,
       PartKinds, Answers
  <2>2. LinkOK' /\ cfd' = cfd /\ sfd' = sfd
    BY <1>1, <1>4, <1>12, <2>1 DEF SendImage
  <2>3. ServerTypeOK' /\ ServerCallOK'
    BY <1>1, <1>12, <2>2 DEF SendImage, ServerTypeOK, ServerCallOK, ServerPcs, Sending
  <2> QED
    BY <1>2, <2>2, <2>3
<1>c. CASE SendJpegSize
  <2>1. Part("jpegSize", answer, frameId) \in Blocks
    BY <1>1, <1>c DEF SendJpegSize, ServerTypeOK, ServerCallOK, Sending, Part, Blocks,
       PartKinds, Answers
  <2>2. LinkOK' /\ cfd' = cfd /\ sfd' = sfd
    BY <1>1, <1>4, <1>c, <2>1 DEF SendJpegSize
  <2>3. ServerTypeOK' /\ ServerCallOK'
    BY <1>1, <1>c, <2>2 DEF SendJpegSize, ServerTypeOK, ServerCallOK, ServerPcs, Sending
  <2> QED
    BY <1>2, <2>2, <2>3
<1>13. CASE HandleStop
  <2>1. Part("header", "STOP_ACK", 0) \in Blocks
    BY ServerAssumption DEF Part, Blocks, PartKinds, Answers
  <2>2. LinkOK' /\ cfd' = cfd /\ sfd' = sfd
    BY <1>1, <1>3, <1>4, <1>13, <2>1 DEF HandleStop
  <2>3. ServerTypeOK' /\ ServerCallOK'
    BY <1>1, <1>13, <2>2 DEF HandleStop, ServerTypeOK, ServerCallOK, ServerPcs, Sending
  <2> QED
    BY <1>2, <2>2, <2>3
<1>14. CASE ServerExit
  <2>1. LinkOK' /\ cfd' = cfd /\ sfd' = NoFd
    BY <1>1, <1>14, ServerVanishLinkOK DEF ServerExit, ServerVanish, ServerDrop
  <2>2. ServerTypeOK' /\ ServerCallOK'
    BY <1>1, <1>14, <2>1 DEF ServerExit, ServerTypeOK, ServerCallOK, ServerPcs, Sending
  <2> QED
    BY <1>2, <2>1, <2>2
<1> QED
  BY <1>5, <1>6, <1>7, <1>8, <1>9, <1>10, <1>11, <1>12, <1>13, <1>14, <1>c DEF ServerStep

\* The button thread, and the end and the start of the server process.
LEMMA ServerEnvTypeOK ==
  ASSUME TypeOK, ServerEnv, UNCHANGED clientVars
  PROVE  TypeOK'
<1>1. LinkOK /\ ServerTypeOK /\ ServerCallOK
  BY DEF TypeOK, LinkOK
<1>2. ASSUME LinkOK', cfd' = cfd, ServerTypeOK', ServerCallOK'
      PROVE  TypeOK'
  BY <1>2 DEF TypeOK, LinkOK, ClientTypeOK, ClientCallOK, clientVars
<1>3. CASE Press
  <2>1. LinkOK' /\ cfd' = cfd /\ sfd' = sfd
    BY <1>1, <1>3
       DEF Press, linkVars, LinkOK, LinkTypeOK, ArrivedOK, BacklogOK, Backlogged
  <2>2. ServerTypeOK' /\ ServerCallOK'
    BY <1>1, <1>3, <2>1, ServerAssumption DEF Press, ServerTypeOK, ServerCallOK, SceneStates
  <2> QED
    BY <1>2, <2>1, <2>2
<1>4. CASE Crash
  <2>1. LinkOK' /\ cfd' = cfd /\ sfd' = NoFd
    BY <1>1, <1>4, ServerVanishLinkOK DEF Crash, ServerVanish, ServerDrop
  <2>2. ServerTypeOK' /\ ServerCallOK'
    BY <1>1, <1>4, <2>1, ServerAssumption
       DEF Crash, ServerTypeOK, ServerCallOK, ServerPcs, Sending
  <2> QED
    BY <1>2, <2>1, <2>2
<1>5. CASE Restart
  <2>1. LinkOK' /\ cfd' = cfd /\ sfd' = sfd
    BY <1>1, <1>5, ListenLinkOK DEF Restart, ServerListen
  <2>2. pressed' \in BOOLEAN
    BY <1>5 DEF Restart
  <2>3. ServerTypeOK'
    BY <1>1, <1>5, <2>2, ServerAssumption
       DEF Restart, ServerTypeOK, ServerPcs, SceneStates
  <2>4. ServerCallOK'
    BY <1>1, <1>5, <2>1 DEF Restart, ServerCallOK, Sending
  <2> QED
    BY <1>2, <2>1, <2>3, <2>4
<1> QED
  BY <1>3, <1>4, <1>5 DEF ServerEnv

\* The client leaves its connection: LinkLost and Finish.
LEMMA AbandonTypeOK ==
  ASSUME TypeOK, cfd \in Conns, LinkLost \/ Finish, UNCHANGED serverVars
  PROVE  TypeOK'
<1>1. LinkOK' /\ cfd' = NoFd /\ sfd' = sfd
  BY ClientCloseLinkOK DEF LinkLost, Finish, TypeOK, LinkOK, ClientClose
<1>2. ClientTypeOK'
  BY ClientAssumption
     DEF LinkLost, Finish, TypeOK, ClientTypeOK, ClientPcs, Offline, DisplayStates
<1>3. ClientCallOK'
  BY <1>1 DEF LinkLost, Finish, ClientCallOK, Offline, Reading
<1>4. ServerTypeOK' /\ ServerCallOK'
  BY <1>1 DEF TypeOK, ServerTypeOK, ServerCallOK, serverVars
<1> QED
  BY <1>1, <1>2, <1>3, <1>4 DEF TypeOK, LinkOK

\* What a recv() of the client reads is a block.
LEMMA HeadIsBlock ==
  ASSUME TypeOK, cfd \in Conns, ClientRead
  PROVE  /\ Head(s2c[cfd]) \in Blocks
         /\ Head(s2c[cfd]).of \in Answers
         /\ Head(s2c[cfd]).n \in 0 .. FrameIds - 1
<1>1. /\ s2c[cfd] \in Seq(Blocks) /\ s2cIn[cfd] \in Nat /\ s2cIn[cfd] > 0
      /\ s2cIn[cfd] <= Len(s2c[cfd])
  BY DEF TypeOK, LinkTypeOK, ArrivedOK, ClientRead
<1>2. s2c[cfd] # <<>>
  BY <1>1
<1>3. Head(s2c[cfd]) \in Blocks
  BY <1>1, <1>2
<1> QED
  BY <1>3 DEF Blocks

\* One call of the client.
LEMMA ClientStepTypeOK ==
  ASSUME TypeOK, ClientStep, UNCHANGED serverVars
  PROVE  TypeOK'
<1>1. /\ LinkOK /\ ClientTypeOK /\ ClientCallOK
      /\ cPc \notin Offline => cfd \in Conns
  BY DEF TypeOK, LinkOK, LinkTypeOK, ClientCallOK
<1>2. ASSUME LinkOK', sfd' = sfd, ClientTypeOK', ClientCallOK'
      PROVE  TypeOK'
  BY <1>2 DEF TypeOK, LinkOK, ServerTypeOK, ServerCallOK, serverVars
<1>3. ASSUME UNCHANGED linkVars
      PROVE  LinkOK' /\ cfd' = cfd /\ sfd' = sfd
  BY <1>1, <1>3 DEF linkVars, LinkOK, LinkTypeOK, ArrivedOK, BacklogOK, Backlogged
<1>4. ASSUME cfd \in Conns, ClientRead
      PROVE  LinkOK' /\ cfd' = cfd /\ sfd' = sfd
  BY <1>1, <1>4, ClientReadLinkOK DEF ClientRead
<1>5. CASE Connect
  <2>1. PICK k \in Conns : ClientConnect(k)
    BY <1>5 DEF Connect
  <2>2. LinkOK' /\ cfd' = k /\ sfd' = sfd
    BY <1>1, <1>5, <2>1, ConnectLinkOK DEF Connect, ClientConnect
  <2>3. ClientTypeOK' /\ ClientCallOK'
    BY <1>1, <1>5, <2>2, LinkAssumption, ClientAssumption
       DEF Connect, ClientTypeOK, ClientCallOK, ClientPcs, Offline, Reading
  <2> QED
    BY <1>2, <2>2, <2>3
<1>6. CASE ConnectFails \/ PauseOver \/ PollNoKey \/ AwaitAck
  <2>1. LinkOK' /\ cfd' = cfd /\ sfd' = sfd
    BY <1>3, <1>6 DEF ConnectFails, PauseOver, PollNoKey, AwaitAck
  <2>2. ClientTypeOK' /\ ClientCallOK'
    BY <1>1, <1>6, <2>1
       DEF ConnectFails, PauseOver, PollNoKey, AwaitAck, ClientTypeOK, ClientCallOK,
           ClientPcs, Offline, Reading
  <2> QED
    BY <1>2, <2>1, <2>2
<1>7. CASE SendGetFrame
  <2>1. LinkOK' /\ cfd' = cfd /\ sfd' = sfd
    BY <1>1, <1>7, ClientWriteLinkOK
       DEF SendGetFrame, ClientWrite, Offline, Commands
  <2>2. ClientTypeOK' /\ ClientCallOK'
    BY <1>1, <1>7, <2>1
       DEF SendGetFrame, ClientTypeOK, ClientCallOK, ClientPcs, Offline, Reading
  <2> QED
    BY <1>2, <2>1, <2>2
<1>8. CASE ClientSendFails \/ ReceiveStopAck \/ HeaderClosed \/ GiveUpServer \/ AckNotReceived
  <2>1. cfd \in Conns /\ (LinkLost \/ Finish)
    BY <1>1, <1>8 DEF ClientSendFails, ReceiveStopAck, HeaderClosed, GiveUpServer,
       AckNotReceived, Abandon, Offline, Reading
  <2> QED
    BY <2>1, AbandonTypeOK
<1>9. CASE ReceiveHeader
  <2>1. cfd \in Conns /\ ClientRead /\ Head(s2c[cfd]).of \in Answers
    BY <1>1, <1>9, HeadIsBlock DEF ReceiveHeader, Offline
  <2>2. LinkOK' /\ cfd' = cfd /\ sfd' = sfd
    BY <1>4, <2>1
  <2>3. ClientTypeOK'
    BY <1>1, <1>9, <2>1, ClientAssumption
       DEF ReceiveHeader, ClientTypeOK, ClientPcs, Offline, Reading
  <2>4. ClientCallOK'
    BY <1>1, <1>9, <2>2
       DEF ReceiveHeader, ClientCallOK, Offline, Reading, NoAnswer, FrameAnswers,
           ImageAnswers, SceneErrors
  <2> QED
    BY <1>2, <2>2, <2>3, <2>4
<1>a. ASSUME GivesUp, cPc \notin Offline
      PROVE  TypeOK'
  <2>1. LinkOK' /\ cfd' = cfd /\ sfd' = sfd
    BY <1>3, <1>a DEF GivesUp
  <2>2. ClientTypeOK' /\ ClientCallOK'
    BY <1>1, <1>a, <2>1, ClientAssumption
       DEF GivesUp, ClientTypeOK, ClientCallOK, ClientPcs, Offline, Reading
  <2> QED
    BY <1>2, <2>1, <2>2
<1>10. CASE HeaderTimeout
  <2>1. CASE GivesUp
    BY <1>a, <1>10, <2>1 DEF HeaderTimeout, Offline
  <2>2. CASE ~GivesUp
    <3>1. LinkOK' /\ cfd' = cfd /\ sfd' = sfd
      BY <1>3, <1>10, <2>2 DEF HeaderTimeout
    <3>2. ClientTypeOK' /\ ClientCallOK'
      BY <1>1, <1>10, <2>2, <3>1
         DEF HeaderTimeout, ClientTypeOK, ClientCallOK, ClientPcs, Offline, Reading
    <3> QED
      BY <1>2, <3>1, <3>2
  <2> QED
    BY <2>1, <2>2
<1>b. CASE ReadFails
  <2>1. CASE GivesUp
    BY <1>a, <1>b, <2>1 DEF ReadFails, Reading, Offline
  <2>2. CASE ~GivesUp
    <3>1. cfd \in Conns /\ (LinkLost \/ Finish)
      BY <1>1, <1>b, <2>2 DEF ReadFails, Abandon, Reading, Offline
    <3> QED
      BY <3>1, AbandonTypeOK
  <2> QED
    BY <2>1, <2>2
<1>11. CASE ReceiveFrameId
  <2>1. cfd \in Conns /\ ClientRead /\ Head(s2c[cfd]).n \in 0 .. FrameIds - 1
    BY <1>1, <1>11, HeadIsBlock DEF ReceiveFrameId, Offline
  <2>2. LinkOK' /\ cfd' = cfd /\ sfd' = sfd
    BY <1>4, <2>1
  <2>3. ClientTypeOK'
    BY <1>1, <1>11, <2>1, ClientAssumption
       DEF ReceiveFrameId, AfterAnswer, ClientTypeOK, ClientCallOK, ClientPcs, Offline,
           Reading, DisplayStates, SceneStates, FrameAnswers, NoAnswer
  <2>4. ClientCallOK'
    BY <1>1, <1>11, <2>2
       DEF ReceiveFrameId, AfterAnswer, ClientCallOK, Offline, Reading
  <2> QED
    BY <1>2, <2>2, <2>3, <2>4
<1>12. CASE ReceiveImage
  <2>1. cfd \in Conns /\ ClientRead /\ Head(s2c[cfd]).n \in 0 .. FrameIds - 1
    BY <1>1, <1>12, HeadIsBlock DEF ReceiveImage, Offline
  <2>2. LinkOK' /\ cfd' = cfd /\ sfd' = sfd
    BY <1>4, <2>1
  <2>3. disk' \in [0 .. FrameIds - 1 -> Nat]
    BY <1>1, <1>12 DEF ReceiveImage, SaveImage, SaveFails, ClientTypeOK
  <2>4. ClientTypeOK'
    BY <1>1, <1>12, <2>1, <2>3, ClientAssumption
       DEF ReceiveImage, AfterAnswer, ClientTypeOK, ClientPcs, Offline, Reading
  <2>5. ClientCallOK'
    BY <1>1, <1>12, <2>2
       DEF ReceiveImage, AfterAnswer, ClientCallOK, Offline, Reading
  <2> QED
    BY <1>2, <2>2, <2>4, <2>5
<1>c. CASE ReceiveJpegSize
  <2>1. LinkOK' /\ cfd' = cfd /\ sfd' = sfd
    BY <1>1, <1>4, <1>c DEF ReceiveJpegSize, Offline
  <2>2. ClientTypeOK' /\ ClientCallOK'
    BY <1>1, <1>c, <2>1, ClientAssumption
       DEF ReceiveJpegSize, ClientTypeOK, ClientCallOK, ClientPcs, Offline, Reading
  <2> QED
    BY <1>2, <2>1, <2>2
<1> QED
  BY <1>5, <1>6, <1>7, <1>8, <1>9, <1>10, <1>11, <1>12, <1>b, <1>c DEF ClientStep

\* The keyboard, and the start of the client.
LEMMA ClientEnvTypeOK ==
  ASSUME TypeOK, ClientEnv, UNCHANGED serverVars
  PROVE  TypeOK'
<1>1. /\ LinkOK /\ ClientTypeOK /\ ClientCallOK
      /\ cPc \notin Offline => cfd \in Conns
  BY DEF TypeOK, LinkOK, LinkTypeOK, ClientCallOK
<1>2. ASSUME LinkOK', sfd' = sfd, ClientTypeOK', ClientCallOK'
      PROVE  TypeOK'
  BY <1>2 DEF TypeOK, LinkOK, ServerTypeOK, ServerCallOK, serverVars
<1>3. ASSUME UNCHANGED linkVars
      PROVE  LinkOK' /\ cfd' = cfd /\ sfd' = sfd
  BY <1>1, <1>3 DEF linkVars, LinkOK, LinkTypeOK, ArrivedOK, BacklogOK, Backlogged
<1>4. CASE QuitOffline
  <2>1. LinkOK' /\ cfd' = cfd /\ sfd' = sfd
    BY <1>3, <1>4 DEF QuitOffline
  <2>2. ClientTypeOK' /\ ClientCallOK'
    BY <1>1, <1>4, <2>1
       DEF QuitOffline, ClientTypeOK, ClientCallOK, ClientPcs, Offline, Reading
  <2> QED
    BY <1>2, <2>1, <2>2
<1>5. CASE QuitOnline
  <2>1. cfd \in Conns /\ "STOP" \in Commands
    BY <1>1, <1>5 DEF QuitOnline, Offline, Commands
  <2>2. LinkOK' /\ cfd' = cfd /\ sfd' = sfd
    BY <1>1, <1>3, <1>5, <2>1, ClientWriteLinkOK DEF QuitOnline, ClientWrite
  <2>3. quitting' \in BOOLEAN
    BY <1>5 DEF QuitOnline
  <2>4. ClientTypeOK'
    BY <1>1, <1>5, <2>3, ClientAssumption DEF QuitOnline, ClientTypeOK, ClientPcs
  <2>5. ClientCallOK'
    BY <1>1, <1>5, <2>2 DEF QuitOnline, ClientCallOK, Offline, Reading
  <2> QED
    BY <1>2, <2>2, <2>4, <2>5
<1>6. CASE Relaunch
  <2>1. LinkOK' /\ cfd' = cfd /\ sfd' = sfd
    BY <1>3, <1>6 DEF Relaunch
  <2>2. quitting' \in BOOLEAN
    BY <1>6 DEF Relaunch
  <2>3. ClientTypeOK'
    BY <1>1, <1>6, <2>2, ServerAssumption, ClientAssumption
       DEF Relaunch, EmptyStore, ClientTypeOK, ClientPcs, Offline, DisplayStates
  <2>4. ClientCallOK'
    BY <1>1, <1>6, <2>1 DEF Relaunch, ClientCallOK, Offline, Reading
  <2> QED
    BY <1>2, <2>1, <2>3, <2>4
<1> QED
  BY <1>4, <1>5, <1>6 DEF ClientEnv

\* Every step keeps the types.
LEMMA NextTypeOK ==
  ASSUME TypeOK, [Next]_vars
  PROVE  TypeOK'
<1>1. CASE (ServerStep \/ ServerEnv) /\ UNCHANGED clientVars
  BY <1>1, ServerStepTypeOK, ServerEnvTypeOK
<1>2. CASE (ClientStep \/ ClientEnv) /\ UNCHANGED serverVars
  BY <1>2, ClientStepTypeOK, ClientEnvTypeOK
<1>3. CASE LinkStep
  <2>1. LinkOK' /\ cfd' = cfd /\ sfd' = sfd
    BY <1>3, LinkStepLinkOK
       DEF LinkStep, CutCable, PlugCable, Retransmit, TypeOK, LinkOK
  <2> QED
    BY <1>3, <2>1 DEF LinkStep, TypeOK, LinkOK, ServerTypeOK, ServerCallOK,
       ClientTypeOK, ClientCallOK, serverVars, clientVars
<1>4. CASE Tick
  <2>1. LinkOK'
    BY <1>4 DEF Tick, linkVars, TypeOK, LinkOK, LinkTypeOK, ArrivedOK, BacklogOK,
       Backlogged
  <2>2. ServerTypeOK'
    BY <1>4, ServerAssumption DEF Tick, TypeOK, ServerTypeOK, Older
  <2>3. ClientTypeOK'
    BY <1>4, ClientAssumption DEF Tick, TypeOK, ClientTypeOK, Older
  <2>4. ServerCallOK' /\ ClientCallOK'
    BY <1>4 DEF Tick, linkVars, TypeOK, ServerCallOK, ClientCallOK
  <2> QED
    BY <2>1, <2>2, <2>3, <2>4 DEF TypeOK, LinkOK
<1>5. CASE UNCHANGED vars
  <2>1. UNCHANGED linkVars /\ UNCHANGED serverVars /\ UNCHANGED clientVars
    BY <1>5 DEF vars
  <2>2. LinkTypeOK' /\ ArrivedOK' /\ BacklogOK'
    BY <2>1 DEF linkVars, TypeOK, LinkTypeOK, ArrivedOK, BacklogOK, Backlogged
  <2>3. ServerTypeOK' /\ ServerCallOK'
    BY <2>1 DEF linkVars, serverVars, TypeOK, ServerTypeOK, ServerCallOK
  <2>4. ClientTypeOK' /\ ClientCallOK'
    BY <2>1 DEF linkVars, clientVars, TypeOK, ClientTypeOK, ClientCallOK
  <2> QED
    BY <2>2, <2>3, <2>4 DEF TypeOK
<1> QED
  BY <1>1, <1>2, <1>3, <1>4, <1>5 DEF Next

\* The two programs and the link stay well typed, and each program holds a socket
\* exactly while it is in a call on it.
THEOREM TypeCorrect == Spec => []TypeOK
<1>1. TypeOK /\ [Next]_vars => TypeOK'
  BY NextTypeOK
<1> QED
  BY InitTypeOK, <1>1, PTL DEF Spec

-----------------------------------------------------------------------------
(* Sequences of blocks.                                                    *)

\* A block written after the one it follows keeps the stream in order.
LEMMA InOrderAppend ==
  ASSUME NEW s \in Seq(Blocks), NEW q \in Blocks, InOrder(s),
         s = <<>> \/ Follows(s[Len(s)], q)
  PROVE  InOrder(Append(s, q))
<1>1. /\ Len(s) \in Nat /\ Len(Append(s, q)) = Len(s) + 1
      /\ \A i \in 1 .. Len(s) : Append(s, q)[i] = s[i]
      /\ Append(s, q)[Len(s) + 1] = q
  OBVIOUS
<1>2. s = <<>> <=> Len(s) = 0
  OBVIOUS
<1> SUFFICES ASSUME NEW i \in 1 .. Len(s)
             PROVE  Follows(Append(s, q)[i], Append(s, q)[i + 1])
  BY <1>1 DEF InOrder
<1>3. CASE i = Len(s)
  BY <1>1, <1>2, <1>3
<1>4. CASE i \in 1 .. Len(s) - 1
  BY <1>1, <1>4 DEF InOrder
<1> QED
  BY <1>1, <1>3, <1>4

\* What the reader finds first and the writer wrote last, after a write.
LEMMA AppendEnds ==
  ASSUME NEW s \in Seq(Blocks), NEW q \in Blocks
  PROVE  /\ Append(s, q) # <<>>
         /\ Append(s, q)[Len(Append(s, q))] = q
         /\ s # <<>> => Append(s, q)[1] = s[1]
         /\ s = <<>> => Append(s, q)[1] = q
<1>1. /\ Len(s) \in Nat /\ Len(Append(s, q)) = Len(s) + 1
      /\ \A i \in 1 .. Len(s) : Append(s, q)[i] = s[i]
      /\ Append(s, q)[Len(s) + 1] = q
  OBVIOUS
<1>2. s = <<>> <=> Len(s) = 0
  OBVIOUS
<1> QED
  BY <1>1, <1>2

\* A read leaves the stream in order, and says what the next block is.
LEMMA InOrderTail ==
  ASSUME NEW s \in Seq(Blocks), s # <<>>, InOrder(s)
  PROVE  /\ InOrder(Tail(s))
         /\ Tail(s) # <<>> => /\ Follows(s[1], Tail(s)[1])
                              /\ Tail(s)[Len(Tail(s))] = s[Len(s)]
         /\ Tail(s) = <<>> => s[Len(s)] = s[1]
         /\ Head(s) = s[1]
<1>1. /\ Len(s) \in Nat \ {0} /\ Len(Tail(s)) = Len(s) - 1
      /\ \A i \in 1 .. Len(s) - 1 : Tail(s)[i] = s[i + 1]
      /\ Head(s) = s[1]
  OBVIOUS
<1>2. Tail(s) = <<>> <=> Len(s) = 1
  BY <1>1
<1>3. InOrder(Tail(s))
  <2> SUFFICES ASSUME NEW i \in 1 .. Len(s) - 2
               PROVE  Follows(Tail(s)[i], Tail(s)[i + 1])
    BY <1>1 DEF InOrder
  <2>1. i \in 1 .. Len(s) - 1 /\ i + 1 \in 1 .. Len(s) - 1
    BY <1>1
  <2> QED
    BY <1>1, <2>1 DEF InOrder
<1> QED
  BY <1>1, <1>2, <1>3 DEF InOrder

\* A reset drops the end of a stream: its beginning is still in order.
LEMMA InOrderPrefix ==
  ASSUME NEW s \in Seq(Blocks), NEW n \in 0 .. Len(s), InOrder(s)
  PROVE  /\ InOrder(SubSeq(s, 1, n))
         /\ SubSeq(s, 1, n) # <<>> => s # <<>> /\ SubSeq(s, 1, n)[1] = s[1]
<1>1. /\ Len(s) \in Nat /\ Len(SubSeq(s, 1, n)) = n
      /\ \A i \in 1 .. n : SubSeq(s, 1, n)[i] = s[i]
  OBVIOUS
<1>2. SubSeq(s, 1, n) # <<>> => n > 0
  BY <1>1
<1>3. InOrder(SubSeq(s, 1, n))
  <2> SUFFICES ASSUME NEW i \in 1 .. n - 1
               PROVE  Follows(SubSeq(s, 1, n)[i], SubSeq(s, 1, n)[i + 1])
    BY <1>1 DEF InOrder
  <2>1. i \in 1 .. n /\ i + 1 \in 1 .. n /\ i \in 1 .. Len(s) - 1
    BY <1>1
  <2> QED
    BY <1>1, <2>1 DEF InOrder
<1> QED
  BY <1>1, <1>2, <1>3

-----------------------------------------------------------------------------
(* The window and the backlog.                                             *)

\* The backlog holds connections only, never the -1 of a closed socket.
LEMMA NoFdNotBacklogged ==
  ASSUME TypeOK
  PROVE  ~Backlogged(NoFd)
<1>1. backlog \in Seq(Conns)
  BY DEF TypeOK, LinkTypeOK
<1>2. \A i \in 1 .. Len(backlog) : backlog[i] \in Conns
  BY <1>1
<1> QED
  BY <1>2, LinkAssumption DEF Backlogged

\* A connection in the backlog has been sent nothing, so its client reads nothing.
LEMMA BackloggedReadsNothing ==
  ASSUME TypeOK, LiveOnlyIfAccepted, cfd \in Conns, ClientRead
  PROVE  ~Backlogged(cfd)
<1>1. s2cIn[cfd] \in Nat /\ s2cIn[cfd] > 0 /\ s2cIn[cfd] <= Len(s2c[cfd])
  BY DEF TypeOK, LinkTypeOK, ArrivedOK, ClientRead
<1>2. s2c[cfd] # <<>>
  BY <1>1
<1> QED
  BY <1>2 DEF LiveOnlyIfAccepted

\* The server writes to no connection in the backlog, and what it closes leaves
\* the streams that remain in the backlog alone.
LEMMA ServerLive ==
  ASSUME TypeOK, LiveOnlyIfAccepted, UNCHANGED clientVars, cfd' = cfd,
         Backlogged(cfd)' => Backlogged(cfd) /\ s2c'[cfd] = s2c[cfd]
  PROVE  LiveOnlyIfAccepted'
  BY DEF LiveOnlyIfAccepted, clientVars

\* A server step shows no unaccepted connection as live: it writes only to the
\* connection it accepted (tcp_server.cpp:67-116).
LEMMA ServerStepLive ==
  ASSUME TypeOK, LiveOnlyIfAccepted, ServerStep \/ ServerEnv, UNCHANGED clientVars
  PROVE  LiveOnlyIfAccepted'
<1>1. /\ backlog \in Seq(Conns) /\ s2c \in [Conns -> Seq(Blocks)]
      /\ cfd \in Conns \cup {NoFd} /\ sfd \in Conns \cup {NoFd}
      /\ ~Backlogged(sfd) /\ ~Backlogged(NoFd)
  BY NoFdNotBacklogged DEF TypeOK, LinkTypeOK, BacklogOK
<1>2. ASSUME UNCHANGED linkVars
      PROVE  LiveOnlyIfAccepted'
  BY <1>2, ServerLive DEF linkVars, Backlogged
<1>3. CASE WaitForClient
  <2>1. backlog' = Tail(backlog) /\ backlog # <<>> /\ UNCHANGED <<cfd, s2c>>
    BY <1>3 DEF WaitForClient, ServerAccept
  <2>2. /\ Len(backlog) \in Nat /\ Len(backlog') = Len(backlog) - 1
        /\ \A i \in 1 .. Len(backlog') : backlog'[i] = backlog[i + 1]
    BY <1>1, <2>1
  <2>3. Backlogged(cfd)' => Backlogged(cfd)
    <3> SUFFICES ASSUME NEW i \in 1 .. Len(backlog'), backlog'[i] = cfd'
                 PROVE  Backlogged(cfd)
      BY DEF Backlogged
    <3>1. i + 1 \in 1 .. Len(backlog) /\ backlog[i + 1] = cfd
      BY <2>1, <2>2
    <3> QED
      BY <3>1 DEF Backlogged
  <2> QED
    BY <2>1, <2>3, ServerLive
<1>4. CASE ReceiveCommand
  BY <1>4, ServerLive DEF ReceiveCommand, ServerRead, Backlogged
<1>5. ASSUME NEW p, ServerWrite(p)
      PROVE  LiveOnlyIfAccepted'
  <2>1. UNCHANGED <<cfd, backlog>>
    BY <1>5 DEF ServerWrite
  <2>2. Backlogged(cfd)' => Backlogged(cfd)
    BY <2>1 DEF Backlogged
  <2>3. Backlogged(cfd) => s2c'[cfd] = s2c[cfd]
    BY <1>1, <1>5 DEF ServerWrite
  <2> QED
    BY <2>1, <2>2, <2>3, ServerLive
<1>6. ASSUME ServerClose
      PROVE  LiveOnlyIfAccepted'
  <2>1. UNCHANGED <<cfd, backlog>> /\ ServerDrop({sfd})
    BY <1>6 DEF ServerClose, ServerDrop
  <2>2. Backlogged(cfd)' => Backlogged(cfd)
    BY <2>1 DEF Backlogged
  <2>3. Backlogged(cfd) => cfd \in Conns /\ cfd # sfd
    BY <1>1
  <2>4. Backlogged(cfd) => s2c'[cfd] = s2c[cfd]
    BY <2>1, <2>3 DEF ServerDrop
  <2> QED
    BY <2>1, <2>2, <2>4, ServerLive
<1>7. ASSUME ServerVanish
      PROVE  LiveOnlyIfAccepted'
  <2>1. cfd' = cfd /\ backlog' = <<>>
    BY <1>7 DEF ServerVanish, ServerDrop
  <2>2. ~Backlogged(cfd)'
    BY <2>1 DEF Backlogged
  <2> QED
    BY <2>1, <2>2, ServerLive
<1>8. CASE Restart
  BY <1>8, ServerLive DEF Restart, ServerListen, Backlogged
<1>9. CASE GiveUpClient \/ RecvClosed \/ ServerSendFails
  BY <1>6, <1>9 DEF GiveUpClient, RecvClosed, ServerSendFails, EndSession
<1>10. CASE CaptureFails \/ RecvTimeout \/ AnswerGetFrame \/ Press
  BY <1>2, <1>10 DEF CaptureFails, RecvTimeout, AnswerGetFrame, Press
<1>11. CASE SendHeader \/ SendFrameId \/ SendJpegSize \/ SendImage \/ HandleStop
  BY <1>2, <1>5, <1>11 DEF SendHeader, SendFrameId, SendJpegSize, SendImage, HandleStop
<1>12. CASE ServerExit \/ Crash
  BY <1>7, <1>12 DEF ServerExit, Crash
<1> QED
  BY <1>3, <1>4, <1>8, <1>9, <1>10, <1>11, <1>12 DEF ServerStep, ServerEnv

\* A client step does not either: it leaves CONNEXION PERDUE only for an answer it
\* has read, and returns to it with its connection (client_app.cpp:108-274).
LEMMA ClientStepLive ==
  ASSUME TypeOK, LiveOnlyIfAccepted, ClientStep \/ ClientEnv, UNCHANGED serverVars
  PROVE  LiveOnlyIfAccepted'
<1>1. /\ backlog \in Seq(Conns) /\ s2c \in [Conns -> Seq(Blocks)]
      /\ cfd \in Conns \cup {NoFd} /\ ~Backlogged(NoFd)
      /\ cPc \notin Offline => cfd \in Conns
      /\ cPc \in Offline => cfd = NoFd
  BY NoFdNotBacklogged DEF TypeOK, LinkTypeOK, ClientCallOK
<1>2. CASE Connect
  <2>1. PICK k \in Conns : ClientConnect(k)
    BY <1>2 DEF Connect
  <2>2. cfd' = k /\ s2c'[k] = <<>> /\ cPc' = "send" /\ display' = "LINK_LOST"
    BY <1>1, <1>2, <2>1 DEF Connect, ClientConnect, LiveOnlyIfAccepted
  <2> QED
    BY <2>2 DEF LiveOnlyIfAccepted, Reading
<1>3. ASSUME LinkLost \/ Finish, cfd \in Conns
      PROVE  LiveOnlyIfAccepted'
  <2>1. cfd' = NoFd /\ backlog' = backlog
    BY <1>3 DEF LinkLost, Finish, ClientClose
  <2>2. ~Backlogged(cfd)'
    BY <1>1, <2>1 DEF Backlogged
  <2> QED
    BY <1>3, <2>2 DEF LiveOnlyIfAccepted, LinkLost, Finish
<1>4. ASSUME UNCHANGED <<cfd, backlog, s2c, display>>,
             cPc' \in {"connect", "pause"} => cPc \in {"connect", "pause"},
             cPc' \notin Reading
      PROVE  LiveOnlyIfAccepted'
  BY <1>4 DEF LiveOnlyIfAccepted, Backlogged
<1>5. ASSUME ClientRead, cPc \notin Offline, cPc' \notin Offline
      PROVE  LiveOnlyIfAccepted'
  <2>1. ~Backlogged(cfd)
    BY <1>1, <1>5, BackloggedReadsNothing
  <2>2. ~Backlogged(cfd)'
    BY <1>5, <2>1 DEF ClientRead, Backlogged
  <2> QED
    BY <1>5, <2>2 DEF LiveOnlyIfAccepted, Offline
<1>6. CASE ConnectFails \/ PauseOver \/ PollNoKey \/ AwaitAck \/ QuitOffline
  BY <1>4, <1>6 DEF ConnectFails, PauseOver, PollNoKey, AwaitAck, QuitOffline, linkVars,
     Reading
<1>7. CASE SendGetFrame
  BY <1>4, <1>7 DEF SendGetFrame, ClientWrite, Reading
<1>8. CASE ClientSendFails \/ ReceiveStopAck \/ HeaderClosed \/ GiveUpServer \/ AckNotReceived
  BY <1>1, <1>3, <1>8 DEF ClientSendFails, ReceiveStopAck, HeaderClosed, GiveUpServer,
     AckNotReceived, Abandon, Offline, Reading
<1>a. ASSUME GivesUp
      PROVE  LiveOnlyIfAccepted'
  BY <1>4, <1>a DEF GivesUp, linkVars, Reading
<1>9. CASE HeaderTimeout
  BY <1>4, <1>9, <1>a DEF HeaderTimeout, linkVars, Reading
<1>b. CASE ReadFails
  BY <1>1, <1>3, <1>a, <1>b DEF ReadFails, Abandon, Offline, Reading
<1>10. CASE ReceiveHeader \/ ReceiveFrameId \/ ReceiveJpegSize \/ ReceiveImage
  <2>1. ClientRead /\ cPc \notin Offline
    BY <1>10 DEF ReceiveHeader, ReceiveFrameId, ReceiveJpegSize, ReceiveImage, Offline
  <2>2. cPc' \notin Offline
    BY <1>10 DEF ReceiveHeader, ReceiveFrameId, ReceiveJpegSize, ReceiveImage,
       AfterAnswer, Offline
  <2> QED
    BY <1>5, <2>1, <2>2
<1>11. CASE QuitOnline
  BY <1>4, <1>11 DEF QuitOnline, ClientWrite, linkVars, Reading
<1>12. CASE Relaunch
  BY <1>1, <1>12 DEF Relaunch, linkVars, LiveOnlyIfAccepted, Backlogged, Offline
<1> QED
  BY <1>2, <1>6, <1>7, <1>8, <1>9, <1>10, <1>11, <1>12, <1>b DEF ClientStep, ClientEnv

\* Every step keeps the window honest.
LEMMA NextLive ==
  ASSUME TypeOK, LiveOnlyIfAccepted, [Next]_vars
  PROVE  LiveOnlyIfAccepted'
<1>1. CASE (ServerStep \/ ServerEnv) /\ UNCHANGED clientVars
  BY <1>1, ServerStepLive
<1>2. CASE (ClientStep \/ ClientEnv) /\ UNCHANGED serverVars
  BY <1>2, ClientStepLive
<1>3. CASE LinkStep
  <2>0. s2c \in [Conns -> Seq(Blocks)] /\ UNCHANGED clientVars
    BY <1>3 DEF LinkStep, TypeOK, LinkTypeOK
  <2>1. /\ UNCHANGED <<cfd, backlog, cPc, display>>
        /\ cfd \in Conns => s2c'[cfd] = s2c[cfd]
    <3>1. CASE CutCable \/ PlugCable
      BY <2>0, <3>1 DEF CutCable, PlugCable, clientVars
    <3>2. CASE \E k \in Conns : Retransmit(k)
      BY <2>0, <3>2 DEF Retransmit, RetransmitCommands, RetransmitAnswers, clientVars
    <3> QED
      BY <1>3, <3>1, <3>2 DEF LinkStep
  <2>2. Backlogged(cfd) => cfd \in Conns
    <3>1. backlog \in Seq(Conns)
      BY DEF TypeOK, LinkTypeOK
    <3> QED
      BY <3>1 DEF Backlogged
  <2> QED
    BY <2>1, <2>2 DEF LiveOnlyIfAccepted, Backlogged
<1>4. CASE Tick
  BY <1>4 DEF Tick, linkVars, LiveOnlyIfAccepted, Backlogged
<1>5. CASE UNCHANGED vars
  BY <1>5 DEF vars, linkVars, clientVars, LiveOnlyIfAccepted, Backlogged
<1> QED
  BY <1>1, <1>2, <1>3, <1>4, <1>5 DEF Next

\* The window never shows a live session on a connection that still waits to be
\* accepted.
THEOREM WindowIsHonest == Spec => []LiveOnlyIfAccepted
<1>1. Init => LiveOnlyIfAccepted
  BY DEF Init, LinkInit, ClientInit, LiveOnlyIfAccepted, Backlogged
<1>2. TypeOK /\ LiveOnlyIfAccepted /\ [Next]_vars => TypeOK' /\ LiveOnlyIfAccepted'
  BY NextTypeOK, NextLive
<1> QED
  BY InitTypeOK, <1>1, <1>2, PTL DEF Spec

-----------------------------------------------------------------------------
(* The alignment of the stream.                                            *)

\* A step that leaves the client and its stream alone, and lets the server write
\* nothing it could not write before.
LEMMA QuietServerAligned ==
  ASSUME StreamAligned, UNCHANGED clientVars, UNCHANGED <<cfd, s2c>>,
         sfd' = cfd => sfd = cfd,
         sfd' = cfd => \A q \in Blocks : ServerNext(q)' => ServerNext(q)
  PROVE  StreamAligned'
<1>1. \A q : ClientExpects(q)' <=> ClientExpects(q)
  BY DEF clientVars, ClientExpects
<1> QED
  BY <1>1 DEF StreamAligned

\* A step that leaves the client alone and ends the session: what is left of its
\* stream is the beginning of what there was.
LEMMA ServerLeavesAligned ==
  ASSUME TypeOK, StreamAligned, UNCHANGED clientVars, cfd' = cfd, sfd' = NoFd,
         cfd \in Conns => \E n \in 0 .. Len(s2c[cfd]) : s2c'[cfd] = SubSeq(s2c[cfd], 1, n)
  PROVE  StreamAligned'
<1> SUFFICES ASSUME cfd # NoFd PROVE StreamAligned'
  BY DEF StreamAligned
<1>1. cfd \in Conns /\ s2c[cfd] \in Seq(Blocks)
  BY DEF TypeOK, LinkTypeOK
<1>2. PICK n \in 0 .. Len(s2c[cfd]) : s2c'[cfd] = SubSeq(s2c[cfd], 1, n)
  BY <1>1
<1>3. InOrder(s2c[cfd]) /\ (s2c[cfd] # <<>> => ClientExpects(s2c[cfd][1]))
  BY DEF StreamAligned
<1>4. \A q : ClientExpects(q)' <=> ClientExpects(q)
  BY DEF clientVars, ClientExpects
<1>5. /\ InOrder(s2c'[cfd])
      /\ s2c'[cfd] # <<>> => s2c[cfd] # <<>> /\ s2c'[cfd][1] = s2c[cfd][1]
  BY <1>1, <1>2, <1>3, InOrderPrefix
<1> QED
  BY <1>3, <1>4, <1>5 DEF StreamAligned, InOrder

\* The server writes the block that is due.
LEMMA ServerWriteAligned ==
  ASSUME TypeOK, StreamAligned, UNCHANGED clientVars, sfd \in Conns,
         NEW p \in Blocks, ServerNext(p), ServerWrite(p),
         \A q \in Blocks : ServerNext(q)' => Follows(p, q)
  PROVE  StreamAligned'
<1> SUFFICES ASSUME cfd # NoFd PROVE StreamAligned'
  BY DEF StreamAligned, ServerWrite
<1>1. cfd \in Conns /\ s2c[cfd] \in Seq(Blocks) /\ UNCHANGED <<cfd, sfd>>
  BY DEF TypeOK, LinkTypeOK, ServerWrite
<1>2. \A q : ClientExpects(q)' <=> ClientExpects(q)
  BY DEF clientVars, ClientExpects
<1>3. CASE cfd # sfd
  <2>1. s2c'[cfd] = s2c[cfd]
    BY <1>1, <1>3 DEF ServerWrite, TypeOK, LinkTypeOK
  <2> QED
    BY <1>1, <1>2, <1>3, <2>1 DEF StreamAligned, InOrder
<1>4. CASE cfd = sfd
  <2> DEFINE s == s2c[cfd]
  <2>1. s2c'[cfd] = Append(s, p)
    BY <1>1, <1>4 DEF ServerWrite, TypeOK, LinkTypeOK
  <2>2. /\ s # <<>> => Append(s, p)[1] = s[1]
        /\ s = <<>> => Append(s, p)[1] = p
        /\ Append(s, p)[Len(Append(s, p))] = p
        /\ Append(s, p) # <<>>
    BY <1>1, AppendEnds
  <2>3. /\ InOrder(s)
        /\ s # <<>> => ClientExpects(s[1]) /\ Follows(s[Len(s)], p)
        /\ s = <<>> => ClientExpects(p)
    BY <1>4 DEF StreamAligned
  <2>4. InOrder(Append(s, p))
    BY <1>1, <2>3, InOrderAppend
  <2>5. ClientExpects(Append(s, p)[1])
    BY <2>2, <2>3
  <2> HIDE DEF s
  <2>6. InOrder(s2c[cfd])'
    BY <1>1, <2>1, <2>4 DEF InOrder
  <2>7. (s2c[cfd] # <<>> => ClientExpects(s2c[cfd][1]))'
    BY <1>1, <1>2, <2>1, <2>5
  <2>8. \A q \in Blocks : ServerNext(q)' =>
          s2c'[cfd] # <<>> /\ Follows(s2c'[cfd][Len(s2c'[cfd])], q)
    BY <2>1, <2>2
  <2> QED
    BY <1>1, <2>6, <2>7, <2>8 DEF StreamAligned
<1> QED
  BY <1>3, <1>4

\* A step that leaves the server and the streams alone, after which the client
\* still expects what it expected.
LEMMA QuietClientAligned ==
  ASSUME StreamAligned, UNCHANGED serverVars, UNCHANGED <<cfd, sfd, s2c>>,
         \A q \in Blocks : ClientExpects(q) => ClientExpects(q)',
         s2c \in [Conns -> Seq(Blocks)], cfd # NoFd => cfd \in Conns
  PROVE  StreamAligned'
<1> SUFFICES ASSUME cfd # NoFd PROVE StreamAligned'
  BY DEF StreamAligned
<1>1. \A q : ServerNext(q)' <=> ServerNext(q)
  BY DEF serverVars, ServerNext
<1>2. s2c[cfd] # <<>> => s2c[cfd][1] \in Blocks
  <2>1. s2c[cfd] \in Seq(Blocks)
    OBVIOUS
  <2> QED
    BY <2>1
<1> QED
  BY <1>1, <1>2 DEF StreamAligned, InOrder

\* The client reads a block, and then expects what can follow it.
LEMMA ClientReadAligned ==
  ASSUME TypeOK, StreamAligned, UNCHANGED serverVars, cfd \in Conns, ClientRead,
         \A q \in Blocks : Follows(Head(s2c[cfd]), q) => ClientExpects(q)'
  PROVE  StreamAligned'
<1> DEFINE s == s2c[cfd]
<1>1. /\ s \in Seq(Blocks) /\ s # <<>> /\ s2c'[cfd] = Tail(s)
      /\ UNCHANGED <<cfd, sfd>> /\ cfd # NoFd
  <2>1. s2cIn[cfd] \in Nat /\ s2cIn[cfd] > 0 /\ s2cIn[cfd] <= Len(s)
    BY DEF TypeOK, LinkTypeOK, ArrivedOK, ClientRead
  <2>2. s \in Seq(Blocks) /\ s # <<>>
    BY <2>1 DEF TypeOK, LinkTypeOK
  <2> QED
    BY <2>2, LinkAssumption DEF ClientRead, TypeOK, LinkTypeOK
<1>2. /\ InOrder(s)
      /\ cfd = sfd => \A q \in Blocks : ServerNext(q) => Follows(s[Len(s)], q)
  BY <1>1 DEF StreamAligned
<1>3. \A q : ServerNext(q)' <=> ServerNext(q)
  BY DEF serverVars, ServerNext
<1> HIDE DEF s
<1>4. /\ InOrder(Tail(s))
      /\ Tail(s) # <<>> => /\ Follows(s[1], Tail(s)[1])
                           /\ Tail(s)[Len(Tail(s))] = s[Len(s)]
      /\ Tail(s) = <<>> => s[Len(s)] = s[1]
      /\ Head(s) = s[1]
  BY <1>1, <1>2, InOrderTail
<1>5. Tail(s) # <<>> => Tail(s)[1] \in Blocks
  <2>1. Tail(s) \in Seq(Blocks)
    BY <1>1
  <2> QED
    BY <2>1
<1>6. \A q \in Blocks : Follows(s[1], q) => ClientExpects(q)'
  BY <1>4 DEF s
<1>7. InOrder(s2c[cfd])'
  BY <1>1, <1>4 DEF InOrder
<1>8. (s2c[cfd] # <<>> => ClientExpects(s2c[cfd][1]))'
  <2> SUFFICES ASSUME Tail(s) # <<>>
               PROVE  ClientExpects(s2c[cfd][1])'
    BY <1>1
  <2>1. PICK q \in Blocks : q = Tail(s)[1]
    BY <1>5
  <2>2. ClientExpects(q)'
    BY <1>4, <1>6, <2>1
  <2>3. (s2c[cfd][1])' = q
    BY <1>1, <2>1
  <2> QED
    BY <2>2, <2>3 DEF ClientExpects
<1>9. cfd = sfd => \A q \in Blocks : ServerNext(q)' =>
        IF Tail(s) = <<>> THEN ClientExpects(q)' ELSE Follows(Tail(s)[Len(Tail(s))], q)
  BY <1>2, <1>3, <1>4, <1>6
<1> QED
  BY <1>1, <1>7, <1>8, <1>9 DEF StreamAligned

\* What the server writes after each of its blocks follows that block.
LEMMA ServerStepAligned ==
  ASSUME TypeOK, StreamAligned, LiveOnlyIfAccepted, ServerStep \/ ServerEnv,
         UNCHANGED clientVars
  PROVE  StreamAligned'
<1>1. /\ cfd \in Conns \cup {NoFd} /\ sfd \in Conns \cup {NoFd}
      /\ s2c \in [Conns -> Seq(Blocks)]
      /\ sPc \notin {"accept", "done", "down"} => sfd \in Conns
      /\ sPc \in Sending => answer \in FrameAnswers
      /\ sPc = "sendJpegSize" => answer \in ImageAnswers
      /\ frameId \in 0 .. FrameIds - 1
  BY DEF TypeOK, LinkTypeOK, ServerTypeOK, ServerCallOK
<1>2. CASE WaitForClient
  <2>1. /\ UNCHANGED <<cfd, s2c>> /\ sfd' = backlog[1] /\ backlog \in Seq(Conns)
        /\ backlog # <<>> /\ sPc' = "recv"
    BY <1>2 DEF WaitForClient, ServerAccept, TypeOK, LinkTypeOK
  <2>2. 1 \in 1 .. Len(backlog)
    BY <2>1
  <2>3. sfd' = cfd => s2c[cfd] = <<>> /\ cPc \notin Reading
    BY <2>1, <2>2 DEF LiveOnlyIfAccepted, Backlogged
  <2>4. \A q : ServerNext(q)' => q.part = "header"
    BY <2>1 DEF ServerNext
  <2>5. sfd' = cfd => \A q : ServerNext(q)' => ClientExpects(q)
    BY <2>3, <2>4 DEF ClientExpects, Reading
  <2>6. \A q : ClientExpects(q)' <=> ClientExpects(q)
    BY DEF clientVars, ClientExpects
  <2> QED
    BY <2>1, <2>3, <2>5, <2>6 DEF StreamAligned, InOrder
<1>3. CASE ReceiveCommand
  <2>1. /\ UNCHANGED <<cfd, sfd, s2c>> /\ sPc = "recv" /\ sPc' \in {"ack", "capture"}
    BY <1>3 DEF ReceiveCommand, ServerRead
  <2>2. \A q : ServerNext(q)' => ServerNext(q)
    BY <2>1 DEF ServerNext
  <2> QED
    BY <2>1, <2>2, QuietServerAligned
<1>4. CASE CaptureFails \/ RecvTimeout
  <2>1. /\ UNCHANGED <<cfd, sfd, s2c>> /\ sPc \in {"capture", "recv"}
        /\ sPc' \in {"recv", "expired"}
    BY <1>4 DEF CaptureFails, RecvTimeout, linkVars
  <2>2. \A q : ServerNext(q)' => ServerNext(q)
    BY <2>1 DEF ServerNext
  <2> QED
    BY <2>1, <2>2, QuietServerAligned
<1>5. CASE AnswerGetFrame
  <2>1. UNCHANGED <<cfd, sfd, s2c>> /\ sPc = "capture" /\ sPc' = "sendHeader"
    BY <1>5 DEF AnswerGetFrame, linkVars
  <2>2. \A q : ServerNext(q)' => ServerNext(q)
    BY <2>1 DEF ServerNext, Part
  <2> QED
    BY <2>1, <2>2, QuietServerAligned
<1>6. CASE Press
  <2>1. UNCHANGED <<cfd, sfd, s2c, sPc, answer, frameId>>
    BY <1>6 DEF Press, linkVars
  <2>2. \A q : ServerNext(q)' => ServerNext(q)
    BY <2>1 DEF ServerNext
  <2> QED
    BY <2>1, <2>2, QuietServerAligned
<1>7. CASE SendHeader
  <2> DEFINE p == Part("header", answer, frameId)
  <2>1. p \in Blocks /\ sfd \in Conns /\ answer \in FrameAnswers
    BY <1>1, <1>7 DEF SendHeader, Sending, Part, Blocks, PartKinds, Answers
  <2>2. ServerNext(p)
    BY <1>7 DEF SendHeader, ServerNext
  <2>3. \A q : ServerNext(q)' => q = Part("frameId", answer, frameId)
    BY <1>7 DEF SendHeader, ServerNext
  <2>4. \A q : ServerNext(q)' => Follows(p, q)
    BY <2>1, <2>3 DEF Follows, Part
  <2>5. ServerWrite(p)
    BY <1>7 DEF SendHeader
  <2> HIDE DEF p
  <2> QED
    BY <2>1, <2>2, <2>4, <2>5, ServerWriteAligned
<1>8. CASE SendFrameId
  <2> DEFINE p == Part("frameId", answer, frameId)
  <2>1. p \in Blocks /\ sfd \in Conns /\ answer \in FrameAnswers
    BY <1>1, <1>8 DEF SendFrameId, Sending, Part, Blocks, PartKinds, Answers
  <2>2. ServerNext(p)
    BY <1>8 DEF SendFrameId, ServerNext
  <2>3. \A q : ServerNext(q)' => Follows(p, q)
    <3>1. CASE answer \in ImageAnswers
      <4>1. \A q : ServerNext(q)' => q = Part("jpegSize", answer, frameId)
        BY <1>8, <3>1 DEF SendFrameId, ServerNext
      <4> QED
        BY <3>1, <4>1 DEF Follows, Part
    <3>2. CASE answer \notin ImageAnswers
      <4>1. \A q : ServerNext(q)' => q.part = "header"
        BY <1>8, <3>2 DEF SendFrameId, ServerNext
      <4>2. EndsAnswer(p)
        BY <2>1, <3>2 DEF EndsAnswer, Part, FrameAnswers
      <4> QED
        BY <4>1, <4>2 DEF Follows
    <3> QED
      BY <3>1, <3>2
  <2>4. ServerWrite(p)
    BY <1>8 DEF SendFrameId
  <2> HIDE DEF p
  <2> QED
    BY <2>1, <2>2, <2>3, <2>4, ServerWriteAligned
<1>a. CASE SendJpegSize
  <2> DEFINE p == Part("jpegSize", answer, frameId)
  <2>1. p \in Blocks /\ sfd \in Conns
    BY <1>1, <1>a DEF SendJpegSize, Sending, Part, Blocks, PartKinds, Answers
  <2>2. ServerNext(p)
    BY <1>a DEF SendJpegSize, ServerNext
  <2>3. \A q : ServerNext(q)' => Follows(p, q)
    <3>1. \A q : ServerNext(q)' => q = Part("image", answer, frameId)
      BY <1>a DEF SendJpegSize, ServerNext
    <3> QED
      BY <3>1 DEF Follows, Part
  <2>4. ServerWrite(p)
    BY <1>a DEF SendJpegSize
  <2> HIDE DEF p
  <2> QED
    BY <2>1, <2>2, <2>3, <2>4, ServerWriteAligned
<1>9. CASE SendImage
  <2> DEFINE p == Part("image", answer, frameId)
  <2>1. p \in Blocks /\ sfd \in Conns
    BY <1>1, <1>9 DEF SendImage, Sending, Part, Blocks, PartKinds, Answers
  <2>2. ServerNext(p)
    BY <1>9 DEF SendImage, ServerNext
  <2>3. \A q : ServerNext(q)' => Follows(p, q)
    <3>1. \A q : ServerNext(q)' => q.part = "header"
      BY <1>9 DEF SendImage, ServerNext
    <3> QED
      BY <3>1 DEF Follows, EndsAnswer, Part
  <2>4. ServerWrite(p)
    BY <1>9 DEF SendImage
  <2> HIDE DEF p
  <2> QED
    BY <2>1, <2>2, <2>3, <2>4, ServerWriteAligned
<1>10. CASE HandleStop
  <2> DEFINE p == Part("header", "STOP_ACK", 0)
  <2>1. p \in Blocks /\ sfd \in Conns
    BY <1>1, <1>10, ServerAssumption DEF HandleStop, Part, Blocks, PartKinds, Answers
  <2>2. ServerNext(p)
    BY <1>10 DEF HandleStop, ServerNext, Part
  <2>3. \A q : ~ServerNext(q)'
    BY <1>10 DEF HandleStop, ServerNext
  <2>4. ServerWrite(p) \/ UNCHANGED linkVars
    BY <1>10 DEF HandleStop
  <2> HIDE DEF p
  <2>5. CASE ServerWrite(p)
    BY <2>1, <2>2, <2>3, <2>5, ServerWriteAligned
  <2>6. CASE UNCHANGED linkVars
    BY <2>3, <2>6, QuietServerAligned DEF linkVars
  <2> QED
    BY <2>4, <2>5, <2>6
<1>11. ASSUME NEW K \in SUBSET Conns, ServerDrop(K), sfd' = NoFd
       PROVE  StreamAligned'
  <2>1. cfd' = cfd
    BY <1>11 DEF ServerDrop
  <2>2. ASSUME cfd \in Conns
        PROVE  \E n \in 0 .. Len(s2c[cfd]) : s2c'[cfd] = SubSeq(s2c[cfd], 1, n)
    <3>1. /\ s2c[cfd] \in Seq(Blocks) /\ Len(s2c[cfd]) \in 0 .. Len(s2c[cfd])
          /\ s2c[cfd] = SubSeq(s2c[cfd], 1, Len(s2c[cfd]))
      BY <1>1, <2>2
    <3>2. s2cIn[cfd] \in 0 .. Len(s2c[cfd])
      BY <2>2, <3>1 DEF TypeOK, LinkTypeOK, ArrivedOK
    <3>3. s2c'[cfd] = s2c[cfd] \/ s2c'[cfd] = SubSeq(s2c[cfd], 1, s2cIn[cfd])
      BY <1>11, <2>2 DEF ServerDrop
    <3> QED
      BY <3>1, <3>2, <3>3
  <2> QED
    BY <1>11, <2>1, <2>2, ServerLeavesAligned
<1>12. CASE GiveUpClient \/ RecvClosed \/ ServerSendFails
  <2>1. ServerClose /\ sfd \in Conns
    BY <1>1, <1>12 DEF GiveUpClient, RecvClosed, ServerSendFails, EndSession, Sending
  <2>2. ServerDrop({sfd}) /\ {sfd} \in SUBSET Conns /\ sfd' = NoFd
    BY <2>1 DEF ServerClose
  <2> QED
    BY <1>11, <2>2
<1>13. CASE ServerExit \/ Crash
  <2>1. ServerVanish
    BY <1>13 DEF ServerExit, Crash
  <2> DEFINE K == {k \in Conns : ServerHolds(k)}
  <2>2. ServerDrop(K) /\ K \in SUBSET Conns /\ sfd' = NoFd
    BY <2>1 DEF ServerVanish
  <2> HIDE DEF K
  <2> QED
    BY <1>11, <2>2
<1>14. CASE Restart
  <2>1. UNCHANGED <<cfd, sfd, s2c>> /\ sPc \in {"down", "done"} /\ sPc' = "accept"
    BY <1>14 DEF Restart, ServerListen
  <2>2. sfd = NoFd
    BY <2>1 DEF TypeOK, ServerCallOK
  <2>3. \A q : ServerNext(q)' => ServerNext(q)
    BY <2>1 DEF ServerNext
  <2> QED
    BY <2>1, <2>3, QuietServerAligned
<1> QED
  BY <1>2, <1>3, <1>4, <1>5, <1>6, <1>7, <1>8, <1>9, <1>10, <1>12, <1>13, <1>14, <1>a
     DEF ServerStep, ServerEnv

\* After each block the client expects what the protocol puts there.
LEMMA ClientStepAligned ==
  ASSUME TypeOK, StreamAligned, ClientStep \/ ClientEnv, UNCHANGED serverVars
  PROVE  StreamAligned'
<1>1. /\ s2c \in [Conns -> Seq(Blocks)]
      /\ cfd # NoFd => cfd \in Conns
      /\ cPc \notin Offline => cfd \in Conns
      /\ cPc \in Offline => cfd = NoFd
      /\ cPc = "frameId" => response \in FrameAnswers
  BY DEF TypeOK, LinkTypeOK, ClientTypeOK, ClientCallOK, Reading
<1>2. CASE Connect
  <2>1. PICK k \in Conns : ClientConnect(k)
    BY <1>2 DEF Connect
  <2>2. /\ cfd' = k /\ s2c'[k] = <<>> /\ sfd' = sfd /\ k # sfd
    BY <1>1, <2>1 DEF ClientConnect, ServerHolds
  <2> QED
    BY <2>2 DEF StreamAligned, InOrder
<1>3. ASSUME LinkLost \/ Finish
      PROVE  StreamAligned'
  BY <1>3 DEF LinkLost, Finish, ClientClose, StreamAligned
<1>4. ASSUME UNCHANGED <<cfd, sfd, s2c>>, cPc' \notin Reading,
             cPc \notin Reading \cup {"giveUp"}
      PROVE  StreamAligned'
  <2>1. \A q : ClientExpects(q) => ClientExpects(q)'
    BY <1>4 DEF ClientExpects, Reading
  <2> QED
    BY <1>1, <1>4, <2>1, QuietClientAligned
<1>5. CASE ConnectFails \/ PauseOver \/ PollNoKey \/ AwaitAck \/ QuitOffline
  BY <1>4, <1>5 DEF ConnectFails, PauseOver, PollNoKey, AwaitAck, QuitOffline, linkVars,
     Reading
<1>6. CASE SendGetFrame
  BY <1>4, <1>6 DEF SendGetFrame, ClientWrite, Reading
<1>7. CASE ClientSendFails \/ ReceiveStopAck \/ HeaderClosed \/ GiveUpServer \/ AckNotReceived
  BY <1>3, <1>7 DEF ClientSendFails, ReceiveStopAck, HeaderClosed, GiveUpServer,
     AckNotReceived, Abandon
<1>a. ASSUME GivesUp
      PROVE  StreamAligned'
  <2>1. UNCHANGED <<cfd, sfd, s2c>> /\ \A q : ClientExpects(q)'
    BY <1>a DEF GivesUp, linkVars, ClientExpects
  <2> QED
    BY <1>1, <2>1, QuietClientAligned
<1>8. CASE HeaderTimeout
  BY <1>4, <1>8, <1>a DEF HeaderTimeout, linkVars, Reading
<1>b. CASE ReadFails
  BY <1>3, <1>a, <1>b DEF ReadFails, Abandon
<1>9. CASE QuitOnline
  BY <1>4, <1>9 DEF QuitOnline, ClientWrite, linkVars, Reading
<1>10. CASE Relaunch
  BY <1>1, <1>10 DEF Relaunch, linkVars, StreamAligned, Offline
<1>11. ASSUME cfd \in Conns, ClientRead
       PROVE  ClientExpects(Head(s2c[cfd]))
  <2>1. s2cIn[cfd] \in Nat /\ s2cIn[cfd] > 0 /\ s2cIn[cfd] <= Len(s2c[cfd])
    BY <1>11 DEF TypeOK, LinkTypeOK, ArrivedOK, ClientRead
  <2>2. s2c[cfd] # <<>> /\ Head(s2c[cfd]) = s2c[cfd][1]
    BY <1>1, <1>11, <2>1
  <2> QED
    BY <1>11, <2>2, LinkAssumption DEF StreamAligned
<1>12. CASE ReceiveHeader
  <2> DEFINE p == Head(s2c[cfd])
  <2>1. cfd \in Conns /\ ClientRead /\ p.part = "header"
    BY <1>1, <1>11, <1>12 DEF ReceiveHeader, ClientExpects, Offline
  <2>2. ASSUME NEW q \in Blocks, Follows(p, q)
        PROVE  ClientExpects(q)'
    <3>1. p.of \in FrameAnswers /\ q = Part("frameId", p.of, p.n)
      BY <2>1, <2>2 DEF Follows, EndsAnswer
    <3>2. cPc' = "frameId" /\ response' = p.of
      BY <1>12, <3>1 DEF ReceiveHeader
    <3> QED
      BY <3>1, <3>2 DEF ClientExpects, Part
  <2> QED
    BY <2>1, <2>2, ClientReadAligned
<1>13. CASE ReceiveFrameId
  <2> DEFINE p == Head(s2c[cfd])
  <2>1. cfd \in Conns /\ ClientRead /\ p.part = "frameId" /\ p.of = response
    BY <1>1, <1>11, <1>13 DEF ReceiveFrameId, ClientExpects, Offline
  <2>2. ASSUME NEW q \in Blocks, Follows(p, q)
        PROVE  ClientExpects(q)'
    <3>1. CASE response \in ImageAnswers
      <4>1. q = Part("jpegSize", p.of, p.n)
        BY <2>1, <2>2, <3>1 DEF Follows, EndsAnswer, ImageAnswers, SceneErrors
      <4>2. cPc' = "jpegSize" /\ response' = response /\ cFrameId' = p.n
        BY <1>13, <3>1 DEF ReceiveFrameId
      <4> QED
        BY <2>1, <4>1, <4>2 DEF ClientExpects, Part
    <3>2. CASE response \notin ImageAnswers
      <4>1. q.part = "header"
        BY <2>1, <2>2, <3>2 DEF Follows, EndsAnswer
      <4>2. cPc' \notin Reading
        BY <1>13, <3>2 DEF ReceiveFrameId, AfterAnswer, Reading
      <4> QED
        BY <4>1, <4>2 DEF ClientExpects, Reading
    <3> QED
      BY <3>1, <3>2
  <2> QED
    BY <2>1, <2>2, ClientReadAligned
<1>c. CASE ReceiveJpegSize
  <2> DEFINE p == Head(s2c[cfd])
  <2>1. cfd \in Conns /\ ClientRead /\ p = Part("jpegSize", response, cFrameId)
    BY <1>1, <1>11, <1>c DEF ReceiveJpegSize, ClientExpects, Offline
  <2>2. ASSUME NEW q \in Blocks, Follows(p, q)
        PROVE  ClientExpects(q)'
    <3>1. q = Part("image", response, cFrameId)
      BY <2>1, <2>2 DEF Follows, EndsAnswer, Part
    <3>2. cPc' = "image" /\ response' = response /\ cFrameId' = cFrameId
      BY <1>c DEF ReceiveJpegSize
    <3> QED
      BY <3>1, <3>2 DEF ClientExpects
  <2> QED
    BY <2>1, <2>2, ClientReadAligned
<1>14. CASE ReceiveImage
  <2> DEFINE p == Head(s2c[cfd])
  <2>1. cfd \in Conns /\ ClientRead /\ p.part = "image"
    BY <1>1, <1>11, <1>14 DEF ReceiveImage, ClientExpects, Offline, Part
  <2>2. ASSUME NEW q \in Blocks, Follows(p, q)
        PROVE  ClientExpects(q)'
    <3>1. q.part = "header"
      BY <2>1, <2>2 DEF Follows, EndsAnswer
    <3>2. cPc' \notin Reading
      BY <1>14 DEF ReceiveImage, AfterAnswer, Reading
    <3> QED
      BY <3>1, <3>2 DEF ClientExpects, Reading
  <2> QED
    BY <2>1, <2>2, ClientReadAligned
<1> QED
  BY <1>2, <1>5, <1>6, <1>7, <1>8, <1>9, <1>10, <1>12, <1>13, <1>14, <1>b, <1>c
     DEF ClientStep, ClientEnv

\* Every step keeps the stream aligned.
LEMMA NextAligned ==
  ASSUME TypeOK, LiveOnlyIfAccepted, StreamAligned, [Next]_vars
  PROVE  StreamAligned'
<1>1. \A q : UNCHANGED serverVars => (ServerNext(q)' <=> ServerNext(q))
  BY DEF serverVars, ServerNext
<1>2. CASE (ServerStep \/ ServerEnv) /\ UNCHANGED clientVars
  BY <1>2, ServerStepAligned
<1>3. CASE (ClientStep \/ ClientEnv) /\ UNCHANGED serverVars
  BY <1>3, ClientStepAligned
<1>4. ASSUME UNCHANGED <<cfd, sfd>>, cfd \in Conns => s2c'[cfd] = s2c[cfd],
             UNCHANGED <<sPc, answer, frameId, cPc, response, cFrameId>>
      PROVE  StreamAligned'
  <2>1. \A q : (ServerNext(q)' <=> ServerNext(q)) /\ (ClientExpects(q)' <=> ClientExpects(q))
    BY <1>4 DEF ServerNext, ClientExpects
  <2>2. cfd # NoFd => cfd \in Conns
    BY DEF TypeOK, LinkTypeOK
  <2> QED
    BY <1>4, <2>1, <2>2 DEF StreamAligned, InOrder
<1>5. CASE LinkStep
  <2>1. UNCHANGED <<cfd, sfd>> /\ (cfd \in Conns => s2c'[cfd] = s2c[cfd])
    BY <1>5 DEF LinkStep, CutCable, PlugCable, Retransmit, RetransmitCommands,
       RetransmitAnswers, TypeOK, LinkTypeOK
  <2> QED
    BY <1>4, <1>5, <2>1 DEF LinkStep, serverVars, clientVars
<1>6. CASE Tick
  BY <1>4, <1>6 DEF Tick, linkVars
<1>7. CASE UNCHANGED vars
  BY <1>4, <1>7 DEF vars, linkVars, serverVars, clientVars
<1> QED
  BY <1>2, <1>3, <1>5, <1>6, <1>7 DEF Next

\* The byte stream never loses its alignment: neither program ever takes a part of
\* an answer for the beginning of another.
THEOREM StreamStaysAligned == Spec => []StreamAligned
<1>1. Init => LiveOnlyIfAccepted
  BY DEF Init, LinkInit, ClientInit, LiveOnlyIfAccepted, Backlogged
<1>2. Init => StreamAligned
  BY DEF Init, LinkInit, StreamAligned
<1>3. /\ TypeOK /\ LiveOnlyIfAccepted /\ StreamAligned /\ [Next]_vars
      => TypeOK' /\ LiveOnlyIfAccepted' /\ StreamAligned'
  BY NextTypeOK, NextLive, NextAligned
<1> QED
  BY InitTypeOK, <1>1, <1>2, <1>3, PTL DEF Spec
=============================================================================
