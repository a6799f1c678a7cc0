--------------------------- MODULE TimedSystemProofs -------------------------
(***************************************************************************)
(* Theorems about TimedSystem, for every value of its durations.           *)
(*                                                                         *)
(* The durations only restrict when a step is taken: TimedSystem           *)
(* implements StreamingSystem, and what is proved there holds here. What   *)
(* they add is proved with them.                                           *)
(***************************************************************************)
EXTENDS TimedSystem, ImageProofs

-----------------------------------------------------------------------------
(* The programs are those of StreamingSystem.                              *)

\* A recv() that is started again changes nothing the programs know of.
LEMMA TimedStep ==
  ASSUME [TimedNext]_timedVars
  PROVE  [Next]_vars
<1>1. CASE TimedServer
  BY <1>1 DEF TimedServer, RecvAgain, Next, vars
<1>2. CASE TimedClient
  BY <1>2 DEF TimedClient, ReadAgain, Next, vars
<1>3. CASE User
  BY <1>3 DEF User, ClientEnv, Next
<1>4. CASE TimedLink
  BY <1>4 DEF TimedLink, Cut, Mend, Deliver, LinkStep, Next
<1>5. CASE TimedTick
  BY <1>5 DEF TimedTick, Next
<1>6. CASE UNCHANGED timedVars
  BY <1>6 DEF timedVars
<1> QED
  BY <1>1, <1>2, <1>3, <1>4, <1>5, <1>6 DEF TimedNext

\* TimedSystem implements StreamingSystem.
THEOREM TimedImplementsUntimed == TimedSpec => Spec
<1>1. TimedInit => Init
  BY DEF TimedInit
<1>2. [TimedNext]_timedVars => [Next]_vars
  BY TimedStep
<1> QED
  BY <1>1, <1>2, PTL DEF TimedSpec, Spec

-----------------------------------------------------------------------------
(* How long q may take.                                                    *)

\* The time q had at most taken when the block being read was begun: the limit before
\* the answer, and a read for each block after its header.
QuitBefore ==
  ShutdownTimeout + RecvPeriod
  + (CASE cPc = "jpegSize" -> LinkTimeout + RecvPeriod
       [] cPc = "image"    -> 2 * (LinkTimeout + RecvPeriod)
       [] OTHER            -> 0)

\* The clocks that bound q: the deadline before each answer, the recv() of a header,
\* the deadline of each of the three reads and the recv() in which it ends.
QuitTimes ==
  /\ cAge \in Nat /\ quitAge \in Nat
  /\ ~quitting => quitAge = 0
  /\ quitting => cPc \in {"await", "header", "giveUp", "done"} \cup Reading
  /\ cPc \notin Reading => readAge = 0
  /\ cPc \in {"header"} \cup Reading => cAge <= RecvPeriod
  /\ shutAge < ShutdownTimeout => quitAge <= shutAge
  /\ quitting /\ cPc = "header" => quitAge <= ShutdownTimeout + cAge
  /\ quitting /\ cPc \in Reading => quitAge <= QuitBefore + readAge + cAge
  /\ quitting /\ cPc \in Reading /\ readAge < LinkTimeout => quitAge <= QuitBefore + readAge
  /\ quitAge <= QuitLimit

\* A step that leaves the clocks of the client alone, and its place.
LEMMA QuietQuit ==
  ASSUME QuitTimes, UNCHANGED <<cAge, quitAge, quitting, cPc, readAge, shutAge>>
  PROVE  QuitTimes'
  BY DEF QuitTimes, QuitBefore, QuitLimit

\* The steps of the client move q from one wait to the next.
LEMMA ClientQuitTimes ==
  ASSUME TypeOK, QuitTimes, TimedClient \/ User
  PROVE  QuitTimes'
<1>1. /\ RecvPeriod \in Nat /\ LinkTimeout \in Nat \ {0} /\ ShutdownTimeout \in Nat \ {0}
      /\ readAge \in 0 .. LinkTimeout /\ shutAge \in 0 .. ShutdownTimeout
      /\ cAge \in Nat /\ quitAge \in Nat
  BY TimedAssumption, ClientAssumption DEF TypeOK, ClientTypeOK, QuitTimes
<1>2. quitAge' = quitAge /\ cAge' = 0
  BY DEF TimedClient, User
<1>3. ASSUME UNCHANGED <<quitting, shutAge>>, readAge' = 0,
             quitting => cPc' \in {"await", "giveUp", "done"}, cPc' \notin {"header"} \cup Reading
      PROVE  QuitTimes'
  BY <1>1, <1>2, <1>3 DEF QuitTimes, QuitBefore, QuitLimit
<1>4. ASSUME LinkLost \/ Finish \/ GivesUp \/ Abandon,
             quitting => ~LinkLost
      PROVE  QuitTimes'
  BY <1>3, <1>4 DEF LinkLost, Finish, GivesUp, Abandon, Reading
<1>5. CASE ReadAgain
  <2>1. /\ cPc \in Reading /\ readAge < LinkTimeout
        /\ UNCHANGED <<cPc, quitting, readAge, shutAge>>
    BY <1>5 DEF ReadAgain, clientVars
  <2>2. QuitBefore' = QuitBefore
    BY <2>1 DEF QuitBefore
  <2>3. QuitBefore \in Nat
    BY <1>1 DEF QuitBefore
  <2>4. quitting => quitAge' <= QuitBefore' + readAge' + cAge'
    BY <1>1, <1>2, <2>1, <2>2, <2>3 DEF QuitTimes
  <2> QED
    BY <1>1, <1>2, <2>1, <2>2, <2>4 DEF QuitTimes, QuitLimit, Reading
<1>6. CASE ReceiveHeader
  <2>1. /\ cPc = "header" /\ UNCHANGED <<quitting, shutAge, readAge>> /\ readAge = 0
        /\ cPc' \in {"frameId", "key"} /\ (quitting => cPc' = "frameId")
    BY <1>6 DEF ReceiveHeader, QuitTimes, Reading
  <2> QED
    BY <1>1, <1>2, <2>1 DEF QuitTimes, QuitBefore, QuitLimit, Reading
<1>7. CASE ReceiveFrameId
  <2>1. /\ cPc = "frameId" /\ UNCHANGED <<quitting, shutAge>> /\ readAge' = 0
        /\ cPc' \in {"jpegSize", AfterAnswer}
    BY <1>7 DEF ReceiveFrameId
  <2>2. CASE cPc' = "jpegSize"
    BY <1>1, <1>2, <2>1, <2>2 DEF QuitTimes, QuitBefore, QuitLimit, Reading
  <2>3. CASE cPc' = AfterAnswer
    BY <1>3, <2>1, <2>3 DEF AfterAnswer, Reading
  <2> QED
    BY <2>1, <2>2, <2>3
<1>8. CASE ReceiveJpegSize
  <2>1. /\ cPc = "jpegSize" /\ cPc' = "image" /\ UNCHANGED <<quitting, shutAge>> /\ readAge' = 0
    BY <1>8 DEF ReceiveJpegSize
  <2> QED
    BY <1>1, <1>2, <2>1 DEF QuitTimes, QuitBefore, QuitLimit, Reading
<1>9. CASE ReceiveImage
  BY <1>3, <1>9 DEF ReceiveImage, AfterAnswer, Reading
<1>10. CASE QuitOnline
  <2>1. cPc = "key" /\ cPc' = "await" /\ quitting' = TRUE /\ shutAge' = 0 /\ readAge' = readAge
    BY <1>10 DEF QuitOnline
  <2>2. quitAge = 0 /\ readAge = 0
    BY <2>1 DEF QuitTimes, Reading
  <2> QED
    BY <1>1, <1>2, <2>1, <2>2 DEF QuitTimes, QuitBefore, QuitLimit, Reading
<1>11. CASE AwaitAck
  <2>1. /\ cPc = "await" /\ cPc' = "header" /\ UNCHANGED <<quitting, shutAge, readAge>>
        /\ shutAge < ShutdownTimeout
    BY <1>11 DEF AwaitAck
  <2>2. readAge = 0 /\ quitAge <= shutAge
    BY <2>1 DEF QuitTimes, Reading
  <2> QED
    BY <1>1, <1>2, <2>1, <2>2 DEF QuitTimes, QuitBefore, QuitLimit, Reading
<1>12. CASE HeaderTimeout
  <2>1. cPc = "header" /\ readAge = 0
    BY <1>12 DEF HeaderTimeout, QuitTimes, Reading
  <2> QED
    BY <1>3, <1>4, <2>1, <1>12 DEF HeaderTimeout, GivesUp, LinkLost, Reading
<1>13. CASE \/ ClientSendFails \/ ReceiveStopAck \/ HeaderClosed \/ GiveUpServer \/ ReadFails
            \/ AckNotReceived
  <2>1. cPc = "send" => ~quitting
    BY DEF QuitTimes, Reading
  <2> QED
    BY <1>3, <1>13, <2>1 DEF ClientSendFails, ReceiveStopAck, HeaderClosed, GiveUpServer,
       ReadFails,
       AckNotReceived, Abandon, LinkLost, Finish, GivesUp, Reading
<1>14. CASE Connect \/ ConnectFails \/ PauseOver \/ SendGetFrame \/ PollNoKey \/ QuitOffline
  <2>1. /\ cPc \notin {"await", "header", "giveUp", "done"} \cup Reading
        /\ UNCHANGED <<quitting, shutAge, readAge>>
        /\ cPc' \notin Reading
    BY <1>14 DEF Connect, ConnectFails, PauseOver, SendGetFrame, PollNoKey, QuitOffline,
       Reading
  <2>2. ~quitting /\ readAge = 0 /\ quitAge = 0
    BY <2>1 DEF QuitTimes
  <2> QED
    BY <1>1, <1>2, <2>1, <2>2 DEF QuitTimes, QuitBefore, QuitLimit
<1> QED
  BY <1>5, <1>6, <1>7, <1>8, <1>9, <1>10, <1>11, <1>12, <1>13, <1>14
  DEF TimedClient, User, ClientStep

\* While time passes each wait has its limit.
LEMMA TickQuitTimes ==
  ASSUME TypeOK, QuitTimes, TimedTick
  PROVE  QuitTimes'
<1>1. /\ RecvPeriod \in Nat /\ LinkTimeout \in Nat \ {0} /\ ShutdownTimeout \in Nat \ {0}
      /\ readAge \in 0 .. LinkTimeout /\ shutAge \in 0 .. ShutdownTimeout
      /\ cAge \in Nat /\ quitAge \in Nat /\ quitting \in BOOLEAN
  BY TimedAssumption, ClientAssumption DEF TypeOK, ClientTypeOK, QuitTimes
<1>2. /\ cPc' = cPc /\ (quitting' <=> quitting)
      /\ readAge' = IF cPc \in Reading THEN Older(readAge, LinkTimeout) ELSE readAge
      /\ shutAge' = IF cPc \notin Offline /\ quitting
                      THEN Older(shutAge, ShutdownTimeout) ELSE shutAge
      /\ cAge' = IF cPc \in {"pause", "header"} \cup Reading THEN cAge + 1 ELSE 0
      /\ quitAge' = IF quitting /\ cPc # "done"
                      THEN Older(quitAge, QuitLimit + 1) ELSE quitAge
  BY DEF TimedTick, Tick
<1>3. \/ cPc \in {"header"} \cup Reading /\ cAge < RecvPeriod
      \/ cPc \in {"pause", "done"}
  BY DEF TimedTick, ClientMayWait, NoAnswerYet
<1>4. quitAge' \in Nat /\ quitAge' <= quitAge + 1 /\ cAge' \in Nat
  BY <1>1, <1>2 DEF Older, QuitLimit, QuitTimes
<1>5. CASE ~quitting \/ cPc \in {"pause", "done"}
  <2>1. quitAge' = quitAge /\ shutAge' = shutAge
    BY <1>2, <1>5 DEF QuitTimes, Offline, Reading
  <2> QED
    BY <1>1, <1>2, <1>3, <1>4, <1>5, <2>1 DEF QuitTimes, QuitLimit, Reading, Older
<1>6. CASE quitting /\ cPc \in {"header"} \cup Reading
  <2>1. /\ shutAge' = Older(shutAge, ShutdownTimeout) /\ cAge' = cAge + 1 /\ cAge < RecvPeriod
    BY <1>2, <1>3, <1>6 DEF Offline, Reading
  <2>2. shutAge' < ShutdownTimeout => quitAge' <= shutAge'
    BY <1>1, <1>4, <2>1 DEF QuitTimes, Older
  <2>3. CASE cPc = "header"
    BY <1>1, <1>2, <1>4, <1>6, <2>1, <2>2, <2>3 DEF QuitTimes, QuitLimit, Reading
  <2>4. CASE cPc \in Reading
    <3>1. readAge' = Older(readAge, LinkTimeout) /\ QuitBefore' = QuitBefore /\ QuitBefore \in Nat
      BY <1>1, <1>2, <2>4 DEF QuitBefore
    <3>2. /\ quitAge <= QuitBefore + readAge + cAge
          /\ readAge < LinkTimeout => quitAge <= QuitBefore + readAge
      BY <1>6, <2>4 DEF QuitTimes
    <3>3. /\ quitAge' <= QuitBefore' + readAge' + cAge'
          /\ readAge' < LinkTimeout => quitAge' <= QuitBefore' + readAge'
      BY <1>1, <1>4, <2>1, <3>1, <3>2 DEF Older
    <3>4. readAge' \in Nat /\ readAge' <= LinkTimeout /\ cAge' <= RecvPeriod
      BY <1>1, <2>1, <3>1 DEF Older
    <3>5. quitAge' <= QuitLimit
      BY <1>1, <1>2, <1>4, <2>4, <3>3, <3>4 DEF QuitBefore, QuitLimit
    <3> QED
      BY <1>1, <1>2, <1>4, <1>6, <2>1, <2>2, <2>4, <3>3, <3>4, <3>5 DEF QuitTimes, QuitLimit, Reading
  <2> QED
    BY <1>6, <2>3, <2>4
<1> QED
  BY <1>1, <1>3, <1>5, <1>6

\* The invariant of this section.
LEMMA AlwaysQuitTimes == TimedSpec => []QuitTimes
<1>1. TimedInit => QuitTimes
  BY TimedAssumption, ClientAssumption
  DEF TimedInit, Init, ClientInit, QuitTimes, QuitBefore, QuitLimit, Reading
<1>2. TypeOK /\ QuitTimes /\ [TimedNext]_timedVars => QuitTimes'
  <2> SUFFICES ASSUME TypeOK, QuitTimes, [TimedNext]_timedVars
               PROVE  QuitTimes'
    OBVIOUS
  <2>1. CASE TimedClient \/ User
    BY <2>1, ClientQuitTimes
  <2>2. CASE TimedTick
    BY <2>2, TickQuitTimes
  <2>3. CASE TimedServer \/ TimedLink \/ UNCHANGED timedVars
    BY <2>3, QuietQuit
    DEF TimedServer, TimedLink, Cut, Mend, Deliver, timedVars, vars, timing, clientVars
  <2> QED
    BY <2>1, <2>2, <2>3 DEF TimedNext
<1> QED
  BY TimedImplementsUntimed, TypeCorrect, <1>1, <1>2, PTL DEF TimedSpec

\* q ends the client within QuitLimit, for every value of the timeouts
\* (client_app.cpp:224-255).
THEOREM QuitIsPrompt == TimedSpec => []QuitInTime
<1>1. QuitTimes => QuitInTime
  BY DEF QuitTimes, QuitInTime
<1> QED
  BY AlwaysQuitTimes, <1>1, PTL

-----------------------------------------------------------------------------
(* The pace of the dialogue while the cable holds.                         *)

\* A capture ends before the client's recv() expires, the client asks again before
\* the server's idle limit, and the kernels hold a whole answer.
InPace == CaptureTime < RecvPeriod /\ RecvPeriod < IdleTimeout /\ StreamCap >= 4

\* The server serves nobody, or a client that has gone and left nothing to read.
Free ==
  \/ sPc = "accept"
  \/ sPc = "recv" /\ sfd # cfd /\ c2s[sfd] = <<>> /\ cGone[sfd]

\* What was written on the client's connection has arrived, and neither end closed.
Synced ==
  /\ cfd # NoFd
  /\ c2sIn[cfd] = Len(c2s[cfd]) /\ s2cIn[cfd] = Len(s2c[cfd])
  /\ ~cGone[cfd] /\ ~sGone[cfd]

\* The client has no connection.
Away == cfd = NoFd /\ backlog = <<>> /\ Free

\* Its connection waits for accept(), and it has sent at most one request.
Queued ==
  /\ Synced /\ backlog = <<cfd>> /\ Free /\ s2c[cfd] = <<>>
  /\ \/ cPc = "send" /\ c2s[cfd] = <<>>
     \/ cPc = "header" /\ c2s[cfd] = <<"GET_FRAME">> /\ cAge = 0

\* Nothing is on the way on its connection.
Quiet == c2s[cfd] = <<>> /\ s2c[cfd] = <<>>

\* The client is between two exchanges.
Rested == cPc \in {"send", "key", "giveUp"} /\ sPc = "recv" /\ Quiet

\* Its request has just been sent.
Asking ==
  /\ cPc = "header" /\ sPc = "recv"
  /\ c2s[cfd] = <<"GET_FRAME">> /\ s2c[cfd] = <<>> /\ cAge = 0

\* The server captures for it, and began no later than the client's recv().
Capturing ==
  /\ cPc = "header" /\ sPc = "capture" /\ Quiet
  /\ cmdAge <= cAge /\ cAge <= sAge /\ sAge <= CaptureTime

\* The capture failed: no answer will come.
Unanswered ==
  cPc = "header" /\ sPc = "recv" /\ Quiet /\ cmdAge <= cAge /\ cAge <= RecvPeriod

\* The blocks of the answer that the server has written, and that the client has read.
Written ==
  CASE sPc = "sendHeader"   -> 0
    [] sPc = "sendFrameId"  -> 1
    [] sPc = "sendJpegSize" -> 2
    [] sPc = "sendImage"    -> 3

Read ==
  CASE cPc = "header"   -> 0
    [] cPc = "frameId"  -> 1
    [] cPc = "jpegSize" -> 2
    [] cPc = "image"    -> 3

\* What is on the way is what the server has written of an answer and the client has
\* not read; its header only if the client has not read that.
HalfWay ==
  LET s == s2c[cfd] IN
  /\ cPc \in {"header"} \cup Reading
  /\ \/ sPc \in Sending /\ Read + Len(s) = Written
     \/ sPc = "recv" /\ s # <<>>
  /\ cPc \in Reading /\ s # <<>> => s[1].part # "header"

\* One answer is on its way, in time for the client's recv().
Answering ==
  /\ c2s[cfd] = <<>> /\ cAge <= CaptureTime
  /\ \A i \in 1 .. Len(s2c[cfd]) : s2c[cfd][i].of \in FrameAnswers
  /\ \A i \in 2 .. Len(s2c[cfd]) : s2c[cfd][i].part # "header"
  /\ HalfWay

\* The server serves the client.
Served ==
  /\ Synced /\ sfd = cfd /\ backlog = <<>> /\ cmdAge <= RecvPeriod
  /\ Rested \/ Asking \/ Capturing \/ Unanswered \/ Answering

\* STOP has just been sent, behind nothing.
Stopping ==
  /\ Synced /\ sPc = "recv" /\ sfd = cfd /\ c2s[cfd] = <<"STOP">> /\ s2c[cfd] = <<>>
  /\ cPc \in {"await", "header"} /\ cAge = 0 /\ shutAge = 0

\* The server has read it, and no request is left.
Stopped ==
  /\ sPc \in {"ack", "exit", "done"}
  /\ cPc \in {"await", "header", "done"}
  /\ cfd # NoFd =>
       /\ sPc = "ack" => s2c[cfd] = <<>>
       /\ \A i \in 1 .. Len(c2s[cfd]) : c2s[cfd][i] = "STOP"
       /\ \A i \in 1 .. Len(s2c[cfd]) : s2c[cfd][i].of = "STOP_ACK"

\* Where the dialogue is, as long as the cable was never cut and the user did not
\* leave while there was no connection.
Pace ==
  IF quitting THEN Stopping \/ Stopped
              ELSE cPc # "done" => Away \/ Queued \/ Served

Clocks == sAge \in Nat /\ cAge \in Nat /\ cuts \in Nat

Calm == Clocks /\ (cuts = 0 => cable /\ Pace)

\* The types the proofs of this section use.
LEMMA PaceTypes ==
  ASSUME TypeOK
  PROVE  /\ RecvPeriod \in Nat \ {0} /\ CaptureTime \in Nat /\ IdleTimeout \in Nat
         /\ ShutdownTimeout \in Nat \ {0} /\ StreamCap \in Nat /\ NoFd \notin Conns
         /\ cfd \in Conns \cup {NoFd} /\ sfd \in Conns \cup {NoFd}
         /\ c2s \in [Conns -> Seq(Commands)] /\ s2c \in [Conns -> Seq(Blocks)]
         /\ c2sIn \in [Conns -> Nat] /\ s2cIn \in [Conns -> Nat]
         /\ cGone \in [Conns -> BOOLEAN] /\ sGone \in [Conns -> BOOLEAN]
         /\ cmdAge \in Nat /\ shutAge \in Nat /\ quitting \in BOOLEAN
  BY TimedAssumption, LinkAssumption, ServerAssumption, ClientAssumption
  DEF TypeOK, LinkTypeOK, ServerTypeOK, ClientTypeOK

\* A client that has gone leaves nothing to read.
LEMMA FreeHeld ==
  ASSUME TypeOK, Free, sPc = "recv"
  PROVE  sfd \in Conns /\ c2sIn[sfd] = 0 /\ cGone[sfd] /\ c2s[sfd] = <<>>
<1>1. sfd \in Conns
  BY PaceTypes DEF TypeOK, ServerCallOK
<1>2. c2s[sfd] = <<>> /\ cGone[sfd]
  BY DEF Free
<1>3. c2sIn[sfd] \in Nat /\ c2sIn[sfd] <= Len(c2s[sfd])
  BY <1>1, PaceTypes DEF TypeOK, ArrivedOK
<1> QED
  BY <1>1, <1>2, <1>3

\* So the server can only accept the next client, or see that this one has closed.
LEMMA FreeServer ==
  ASSUME TypeOK, Free, ServerStep \/ RecvAgain
  PROVE  \/ sPc = "accept" /\ backlog # <<>> /\ WaitForClient
         \/ sPc = "recv" /\ RecvClosed
<1>1. CASE sPc = "accept"
  BY <1>1
  DEF ServerStep, RecvAgain, NoCommand, WaitForClient, ServerAccept, ReceiveCommand,
      RecvTimeout, GiveUpClient, RecvClosed, CaptureFails, AnswerGetFrame, SendHeader,
      SendFrameId, SendJpegSize, SendImage, ServerSendFails, Sending, HandleStop, ServerExit
<1>2. CASE sPc = "recv"
  <2>1. ReceiveCommand \/ RecvTimeout \/ RecvClosed \/ RecvAgain
    BY <1>2
    DEF ServerStep, WaitForClient, GiveUpClient, CaptureFails, AnswerGetFrame, SendHeader,
        SendFrameId, SendJpegSize, SendImage, ServerSendFails, Sending, HandleStop,
        ServerExit
  <2>2. c2sIn[sfd] = 0 /\ cGone[sfd]
    BY <1>2, FreeHeld
  <2>3. ~ReceiveCommand /\ ~RecvTimeout /\ ~RecvAgain
    BY <2>2 DEF ReceiveCommand, ServerRead, RecvTimeout, RecvAgain, NoCommand
  <2> QED
    BY <1>2, <2>1, <2>3
<1> QED
  BY <1>1, <1>2 DEF Free

\* From Away: the server notices that its client has gone, the client connects.
LEMMA AwayPace ==
  ASSUME TypeOK, cable, Away, ~quitting, cPc # "done", TimedServer \/ TimedClient \/ User
  PROVE  Pace'
<1>1. /\ cPc \in {"connect", "pause"} /\ cfd = NoFd /\ backlog = <<>> /\ Free
      /\ (sfd = NoFd) <=> (sPc \in {"accept", "done", "down"})
      /\ ~quitting
  BY DEF TypeOK, ClientTypeOK, ClientCallOK, ServerCallOK, Offline, Away
<1>2. CASE TimedServer
  <2>1. ServerStep \/ RecvAgain
    BY <1>2 DEF TimedServer
  <2>2. sPc = "recv" => c2sIn[sfd] = 0 /\ cGone[sfd] /\ c2s[sfd] = <<>> /\ sfd \in Conns
    BY <1>1, FreeHeld
  <2>3. RecvClosed
    BY <1>1, <2>1, <2>2, FreeServer
  <2>4. sPc' = "accept" /\ backlog' = backlog /\ cfd' = cfd
    BY <2>3 DEF RecvClosed, EndSession, ServerClose, ServerDrop
  <2>5. UNCHANGED <<quitting, cPc>>
    BY <1>2 DEF TimedServer, clientVars
  <2> QED
    BY <1>1, <2>4, <2>5 DEF Pace, Away, Free
<1>3. CASE TimedClient \/ User
  <2>1. Connect \/ ConnectFails \/ PauseOver \/ QuitOffline
    BY <1>1, <1>3
    DEF TimedClient, User, ClientStep, ReadAgain, Reading, SendGetFrame, ClientSendFails,
        ReceiveHeader, ReceiveStopAck, HeaderTimeout, HeaderClosed, GiveUpServer,
        ReceiveFrameId, ReceiveJpegSize, ReceiveImage, ReadFails, PollNoKey, AwaitAck,
        AckNotReceived, QuitOnline
  <2>2. sPc' = sPc /\ (quitting' <=> quitting)
    BY <1>3, <2>1
    DEF TimedClient, User, serverVars, Connect, ConnectFails, PauseOver, QuitOffline
  <2>3. CASE Connect
    <3>1. PICK k \in Conns : ClientConnect(k)
      BY <2>3 DEF Connect
    <3>2. /\ k # sfd /\ cfd' = k /\ backlog' = <<k>> /\ sfd' = sfd
          /\ c2s'[k] = <<>> /\ c2sIn'[k] = 0 /\ s2c'[k] = <<>> /\ s2cIn'[k] = 0
          /\ ~cGone'[k] /\ ~sGone'[k]
          /\ sfd \in Conns => c2s'[sfd] = c2s[sfd] /\ (cGone'[sfd] <=> cGone[sfd])
      <4>1. backlog' = <<k>>
        BY <1>1, <3>1 DEF ClientConnect
      <4> QED
        BY <3>1, <4>1, PaceTypes DEF ClientConnect, ServerHolds
    <3>3. cPc' = "send"
      BY <2>3 DEF Connect
    <3>4. Free'
      BY <1>1, <2>2, <3>2, PaceTypes DEF Free
    <3>5. Synced'
      BY <3>2, PaceTypes DEF Synced
    <3> QED
      BY <1>1, <2>2, <3>2, <3>3, <3>4, <3>5 DEF Pace, Queued
  <2>4. CASE ConnectFails \/ PauseOver \/ QuitOffline
    BY <1>1, <2>2, <2>4
    DEF ConnectFails, PauseOver, QuitOffline, Pace, Away, Free, linkVars
  <2> QED
    BY <2>1, <2>3, <2>4
<1> QED
  BY <1>2, <1>3

\* A client in recv() with nothing written to it can only see it expire.
LEMMA WaitingClient ==
  ASSUME TypeOK, Synced, cPc = "header", s2c[cfd] = <<>>, TimedClient \/ User
  PROVE  TimedClient /\ HeaderTimeout /\ cAge >= RecvPeriod
<1>1. s2cIn[cfd] = 0 /\ ~sGone[cfd]
  BY DEF Synced
<1>2. TimedClient
  BY DEF User, QuitOffline, QuitOnline
<1>3. NoAnswerYet
  BY <1>1 DEF NoAnswerYet
<1>4. ReceiveHeader \/ ReceiveStopAck \/ HeaderTimeout \/ HeaderClosed
  BY <1>2
  DEF TimedClient, ClientStep, ReadAgain, Reading, Connect, ConnectFails, PauseOver,
      SendGetFrame, ClientSendFails, GiveUpServer, ReceiveFrameId, ReceiveJpegSize,
      ReceiveImage, ReadFails,
      PollNoKey, AwaitAck, AckNotReceived
<1>5. ~ReceiveHeader /\ ~ReceiveStopAck /\ ~HeaderClosed
  BY <1>1 DEF ReceiveHeader, ClientRead, ReceiveStopAck, HeaderClosed, ClientSeesClose
<1> QED
  BY <1>2, <1>3, <1>4, <1>5 DEF TimedClient

\* A client about to ask only asks.
LEMMA AskingClient ==
  ASSUME TypeOK, Synced, cPc = "send", TimedClient \/ User
  PROVE  TimedClient /\ SendGetFrame
<1>1. ~sGone[cfd]
  BY DEF Synced
<1>2. TimedClient
  BY DEF User, QuitOffline, QuitOnline
<1>3. SendGetFrame \/ ClientSendFails
  BY <1>2
  DEF TimedClient, ClientStep, ReadAgain, Reading, Connect, ConnectFails, PauseOver,
      ReceiveHeader, ReceiveStopAck, HeaderTimeout, HeaderClosed, GiveUpServer,
      ReceiveFrameId, ReceiveJpegSize, ReceiveImage, ReadFails, PollNoKey, AwaitAck,
      AckNotReceived
<1> QED
  BY <1>1, <1>2, <1>3 DEF ClientSendFails

\* Its request reaches the server's kernel at once.
LEMMA RequestArrives ==
  ASSUME TypeOK, Synced, cable, ServerHolds(cfd), Quiet, NEW cmd \in Commands, ClientWrite(cmd)
  PROVE  /\ Synced' /\ c2s'[cfd] = <<cmd>> /\ s2c'[cfd] = <<>>
         /\ UNCHANGED <<cfd, sfd, backlog, s2c, cGone>>
         /\ \A k \in Conns \ {cfd} : c2s'[k] = c2s[k]
<1>1. /\ cfd \in Conns /\ c2s[cfd] = <<>> /\ c2sIn[cfd] = 0
  BY PaceTypes DEF Synced, Quiet
<1>2. /\ c2s' = [c2s EXCEPT ![cfd] = Append(@, cmd)]
      /\ c2sIn' = [c2sIn EXCEPT ![cfd] = Arrived(@, c2s[cfd])]
      /\ UNCHANGED <<sGone, cfd, sfd, backlog, s2c, s2cIn, cGone>>
  BY DEF ClientWrite
<1>3. c2s'[cfd] = <<cmd>> /\ c2sIn'[cfd] = 1
  BY <1>1, <1>2, PaceTypes DEF Arrived
<1> QED
  BY <1>1, <1>2, <1>3, PaceTypes DEF Synced, Quiet

\* From Queued: the server accepts, or first leaves the client that has gone; the
\* client sends its first request.
LEMMA QueuedPace ==
  ASSUME TypeOK, cable, Queued, ~quitting, TimedServer \/ TimedClient \/ User
  PROVE  Pace'
<1>1. /\ cfd \in Conns /\ backlog = <<cfd>> /\ Free /\ s2c[cfd] = <<>> /\ Synced
      /\ cPc \in {"send", "header"}
      /\ cPc = "send" => c2s[cfd] = <<>>
      /\ cPc = "header" => c2s[cfd] = <<"GET_FRAME">> /\ cAge = 0
      /\ ServerHolds(cfd)
  BY PaceTypes DEF Queued, Synced, ServerHolds, Backlogged
<1>2. CASE TimedServer
  <2>1. ServerStep \/ RecvAgain
    BY <1>2 DEF TimedServer
  <2>2. UNCHANGED <<quitting, cPc, cAge>>
    BY <1>2 DEF TimedServer, clientVars
  <2>3. CASE sPc = "accept" /\ WaitForClient
    <3>1. /\ sfd' = cfd /\ backlog' = <<>> /\ sPc' = "recv" /\ cmdAge' = 0
          /\ UNCHANGED <<cfd, c2s, s2c, c2sIn, s2cIn, cGone, sGone>>
      BY <1>1, <2>3 DEF WaitForClient, ServerAccept
    <3>2. Synced'
      BY <1>1, <3>1 DEF Synced
    <3>3. (Rested \/ Asking)'
      BY <1>1, <2>2, <3>1 DEF Rested, Asking, Quiet
    <3>4. cmdAge' <= RecvPeriod
      BY <3>1, PaceTypes
    <3> QED
      BY <2>2, <3>1, <3>2, <3>3, <3>4 DEF Pace, Served
  <2>4. CASE sPc = "recv" /\ RecvClosed
    <3>1. sfd \in Conns /\ sfd # cfd
      BY <1>1, <2>4, FreeHeld DEF Free
    <3>2. /\ sPc' = "accept" /\ backlog' = backlog /\ cfd' = cfd
          /\ c2s'[cfd] = c2s[cfd] /\ s2c'[cfd] = s2c[cfd]
          /\ c2sIn'[cfd] = c2sIn[cfd] /\ s2cIn'[cfd] = s2cIn[cfd]
          /\ (cGone'[cfd] <=> cGone[cfd]) /\ (sGone'[cfd] <=> sGone[cfd])
      BY <1>1, <2>4, <3>1, PaceTypes DEF RecvClosed, EndSession, ServerClose, ServerDrop
    <3>3. Synced'
      BY <1>1, <3>2 DEF Synced
    <3> QED
      BY <1>1, <2>2, <3>2, <3>3 DEF Pace, Queued, Free
  <2> QED
    BY <1>1, <2>1, <2>3, <2>4, FreeServer
<1>3. CASE TimedClient \/ User
  <2>1. cPc = "send" /\ TimedClient /\ SendGetFrame
    <3>1. CASE cPc = "send"
      BY <1>1, <1>3, <3>1, AskingClient
    <3>2. CASE cPc = "header"
      BY <1>1, <1>3, <3>2, WaitingClient, PaceTypes
    <3> QED
      BY <1>1, <3>1, <3>2
  <2>2. /\ cPc' = "header" /\ cAge' = 0 /\ sPc' = sPc /\ (quitting' <=> quitting)
        /\ ClientWrite("GET_FRAME")
    BY <2>1 DEF TimedClient, SendGetFrame, serverVars
  <2>3. /\ Synced' /\ c2s'[cfd] = <<"GET_FRAME">> /\ s2c'[cfd] = <<>>
        /\ UNCHANGED <<cfd, sfd, backlog, s2c, cGone>>
        /\ \A k \in Conns \ {cfd} : c2s'[k] = c2s[k]
    BY <1>1, <2>1, <2>2, RequestArrives DEF Quiet, Commands
  <2>4. sPc = "recv" => sfd \in Conns \ {cfd}
    BY <1>1, FreeHeld DEF Free
  <2>5. Free'
    BY <1>1, <2>2, <2>3, <2>4 DEF Free
  <2> QED
    BY <1>1, <2>2, <2>3, <2>5 DEF Pace, Queued
<1> QED
  BY <1>2, <1>3

\* The answers of the server reach the client's kernel at once.
LEMMA AnswerArrives ==
  ASSUME TypeOK, Synced, cable, sfd = cfd, NEW p \in Blocks, ServerWrite(p)
  PROVE  /\ Synced' /\ s2c'[cfd] = Append(s2c[cfd], p)
         /\ UNCHANGED <<cfd, sfd, backlog, c2s>>
<1>1. /\ cfd \in Conns /\ s2cIn[cfd] = Len(s2c[cfd])
  BY PaceTypes DEF Synced
<1>2. /\ s2c' = [s2c EXCEPT ![cfd] = Append(@, p)]
      /\ s2cIn' = [s2cIn EXCEPT ![cfd] = Arrived(@, s2c[cfd])]
      /\ UNCHANGED <<cable, listening, backlog, cfd, sfd, c2s, c2sIn, cGone, sGone>>
  BY DEF ServerWrite
<1>3. s2c'[cfd] = Append(s2c[cfd], p) /\ s2cIn'[cfd] = Len(s2c[cfd]) + 1
  BY <1>1, <1>2, PaceTypes DEF Arrived
<1>4. Len(s2c'[cfd]) = Len(s2c[cfd]) + 1
  BY <1>1, <1>3, PaceTypes
<1> QED
  BY <1>1, <1>2, <1>3, <1>4 DEF Synced

\* A server in recv() with no command there can only call it again: its idle limit is
\* far.
LEMMA WaitingServer ==
  ASSUME TypeOK, InPace, Synced, sfd = cfd, sPc = "recv", c2s[cfd] = <<>>,
         cmdAge <= RecvPeriod, TimedServer
  PROVE  UNCHANGED linkVars /\ UNCHANGED serverVars
<1>1. c2sIn[sfd] = 0 /\ ~cGone[sfd]
  BY DEF Synced
<1>2. ~(cmdAge >= IdleTimeout)
  BY PaceTypes DEF InPace
<1>3. ReceiveCommand \/ RecvTimeout \/ RecvClosed \/ RecvAgain
  BY DEF TimedServer, ServerStep, WaitForClient, GiveUpClient, CaptureFails, AnswerGetFrame,
         SendHeader, SendFrameId, SendJpegSize, SendImage, ServerSendFails, Sending,
         HandleStop, ServerExit
<1>4. ~ReceiveCommand /\ ~RecvTimeout /\ ~RecvClosed
  BY <1>1, <1>2 DEF ReceiveCommand, ServerRead, RecvTimeout, RecvClosed, ServerSeesClose
<1> QED
  BY <1>3, <1>4 DEF RecvAgain

\* With a command there, it reads it.
LEMMA AskedServer ==
  ASSUME TypeOK, Synced, sfd = cfd, sPc = "recv", NEW cmd \in Commands, c2s[cfd] = <<cmd>>,
         TimedServer
  PROVE  /\ sPc' = (IF cmd = "STOP" THEN "ack" ELSE "capture") /\ cmdAge' = 0 /\ sAge' = 0
         /\ Synced' /\ c2s'[cfd] = <<>>
         /\ UNCHANGED <<cfd, sfd, backlog, s2c>>
<1>1. cfd \in Conns /\ c2sIn[sfd] = 1
  BY PaceTypes DEF Synced
<1>2. ReceiveCommand \/ RecvTimeout \/ RecvClosed \/ RecvAgain
  BY DEF TimedServer, ServerStep, WaitForClient, GiveUpClient, CaptureFails, AnswerGetFrame,
         SendHeader, SendFrameId, SendJpegSize, SendImage, ServerSendFails, Sending,
         HandleStop, ServerExit
<1>3. ReceiveCommand
  BY <1>1, <1>2 DEF RecvTimeout, RecvClosed, ServerSeesClose, RecvAgain, NoCommand
<1>4. /\ c2s' = [c2s EXCEPT ![cfd] = Tail(@)] /\ c2sIn' = [c2sIn EXCEPT ![cfd] = @ - 1]
      /\ UNCHANGED <<cfd, sfd, backlog, s2c, s2cIn, cGone, sGone>>
  BY <1>3 DEF ReceiveCommand, ServerRead
<1>5. c2s'[cfd] = <<>> /\ c2sIn'[cfd] = 0
  BY <1>1, <1>4, PaceTypes
<1>6. Head(c2s[sfd]) = cmd
  OBVIOUS
<1>7. Synced'
  <2>1. cfd' = cfd /\ s2c' = s2c /\ s2cIn' = s2cIn /\ cGone' = cGone /\ sGone' = sGone
    BY <1>4
  <2>2. c2sIn'[cfd'] = Len(c2s'[cfd'])
    BY <1>5, <2>1
  <2> QED
    BY <2>1, <2>2 DEF Synced
<1>8. sPc' = (IF cmd = "STOP" THEN "ack" ELSE "capture") /\ cmdAge' = 0 /\ sAge' = 0
  BY <1>3, <1>6 DEF ReceiveCommand, TimedServer
<1> QED
  BY <1>4, <1>5, <1>7, <1>8

\* A server that has captured, or not.
LEMMA CapturingPace ==
  ASSUME TypeOK, Clocks, InPace, Served, Capturing, TimedServer
  PROVE  Served'
<1>1. CaptureFails \/ AnswerGetFrame
  BY DEF TimedServer, Capturing, ServerStep, RecvAgain, NoCommand, WaitForClient,
     ReceiveCommand,
     RecvTimeout, GiveUpClient, RecvClosed, SendHeader, SendFrameId, SendJpegSize,
     SendImage, ServerSendFails,
     Sending, HandleStop, ServerExit
<1>2. UNCHANGED linkVars /\ UNCHANGED <<cPc, cAge, cmdAge>> /\ sPc' \in {"recv", "sendHeader"}
  BY <1>1 DEF CaptureFails, AnswerGetFrame, TimedServer, clientVars
<1>3. /\ Quiet' /\ Synced' /\ sfd' = cfd' /\ backlog' = <<>> /\ cmdAge' <= RecvPeriod
      /\ cPc' = "header"
  BY <1>2 DEF linkVars, Served, Capturing, Quiet, Synced
<1>4. /\ cmdAge <= cAge /\ cAge <= CaptureTime /\ CaptureTime <= RecvPeriod
      /\ cAge <= RecvPeriod
  <2>1. cmdAge <= cAge /\ cAge <= sAge /\ sAge <= CaptureTime /\ CaptureTime < RecvPeriod
    BY DEF Capturing, InPace
  <2>2. cmdAge \in Nat /\ CaptureTime \in Nat /\ RecvPeriod \in Nat
    BY PaceTypes
  <2>3. cAge \in Nat /\ sAge \in Nat
    BY DEF Clocks
  <2> QED
    BY <2>1, <2>2, <2>3
<1>5. CASE sPc' = "recv"
  BY <1>2, <1>3, <1>4, <1>5 DEF Served, Unanswered
<1>6. CASE sPc' = "sendHeader"
  <2>1. c2s'[cfd'] = <<>> /\ s2c'[cfd'] = <<>>
    BY <1>3 DEF Quiet
  <2>2. Answering'
    BY <1>2, <1>3, <1>4, <1>6, <2>1 DEF Answering, HalfWay, Read, Written, Sending, Reading
  <2> QED
    BY <1>3, <2>2 DEF Served
<1> QED
  BY <1>2, <1>5, <1>6

\* The blocks of one answer: after its header there is none.
OneAnswer(s) ==
  /\ \A i \in 1 .. Len(s) : s[i].of \in FrameAnswers
  /\ \A i \in 2 .. Len(s) : s[i].part # "header"

LEMMA OneAnswerAppend ==
  ASSUME NEW s \in Seq(Blocks), NEW p \in Blocks, OneAnswer(s), p.of \in FrameAnswers,
         s = <<>> \/ p.part # "header"
  PROVE  /\ OneAnswer(Append(s, p)) /\ Len(Append(s, p)) = Len(s) + 1
         /\ Append(s, p)[1] = IF s = <<>> THEN p ELSE s[1]
<1>1. /\ Len(s) \in Nat /\ Append(s, p) \in Seq(Blocks) /\ Len(Append(s, p)) = Len(s) + 1
      /\ \A i \in 1 .. Len(s) : Append(s, p)[i] = s[i]
      /\ Append(s, p)[Len(s) + 1] = p
      /\ s = <<>> <=> Len(s) = 0
  OBVIOUS
<1> QED
  BY <1>1 DEF OneAnswer

LEMMA OneAnswerTail ==
  ASSUME NEW s \in Seq(Blocks), s # <<>>, OneAnswer(s)
  PROVE  /\ OneAnswer(Tail(s)) /\ Len(Tail(s)) = Len(s) - 1
         /\ Tail(s) = <<>> <=> Len(s) = 1
         /\ Tail(s) # <<>> => Tail(s)[1].part # "header"
<1>1. /\ Len(s) \in Nat \ {0} /\ Len(Tail(s)) = Len(s) - 1
      /\ \A i \in 1 .. Len(Tail(s)) : Tail(s)[i] = s[i + 1]
      /\ Tail(s) \in Seq(Blocks)
  OBVIOUS
<1>2. Tail(s) = <<>> <=> Len(s) = 1
  BY <1>1
<1>3. OneAnswer(Tail(s))
  BY <1>1 DEF OneAnswer
<1>4. ASSUME Tail(s) # <<>>
      PROVE  Tail(s)[1].part # "header"
  <2>1. 1 \in 1 .. Len(Tail(s)) /\ 2 \in 2 .. Len(s) /\ Tail(s)[1] = s[2]
    BY <1>1, <1>2, <1>4
  <2> QED
    BY <2>1 DEF OneAnswer
<1> QED
  BY <1>1, <1>2, <1>3, <1>4

\* The server sends the rest of the answer.
LEMMA AnsweringPace ==
  ASSUME TypeOK, Clocks, cable, Served, Answering, sPc \in Sending, TimedServer
  PROVE  Served'
<1>1. /\ cfd \in Conns /\ Synced /\ sfd = cfd /\ backlog = <<>> /\ cmdAge <= RecvPeriod
      /\ c2s[cfd] = <<>> /\ cAge <= CaptureTime /\ OneAnswer(s2c[cfd]) /\ HalfWay
      /\ s2c[cfd] \in Seq(Blocks)
  BY PaceTypes DEF Served, Synced, Answering, OneAnswer
<1>2. answer \in FrameAnswers
  BY DEF TypeOK, ServerTypeOK, ServerCallOK
<1>3. \A kind \in PartKinds : Part(kind, answer, frameId) \in Blocks
  BY <1>2 DEF TypeOK, ServerTypeOK, Part, Blocks, Answers
<1>4. ~cGone[sfd]
  BY <1>1 DEF Synced
<1>5. SendHeader \/ SendFrameId \/ SendJpegSize \/ SendImage
  BY <1>4 DEF TimedServer, ServerStep, RecvAgain, NoCommand, WaitForClient, ReceiveCommand,
     RecvTimeout, GiveUpClient, RecvClosed, CaptureFails, AnswerGetFrame, ServerSendFails,
     Sending, HandleStop, ServerExit
<1>6. UNCHANGED <<cPc, cAge, cmdAge>>
  BY <1>5 DEF TimedServer, clientVars, SendHeader, SendFrameId, SendJpegSize, SendImage
<1>7. ASSUME NEW kind \in PartKinds, ServerWrite(Part(kind, answer, frameId)),
             s2c[cfd] = <<>> \/ kind # "header", HalfWay'
      PROVE  Served'
  <2> DEFINE p == Part(kind, answer, frameId)
  <2>1. /\ Synced' /\ s2c'[cfd] = Append(s2c[cfd], p)
        /\ UNCHANGED <<cfd, sfd, backlog, c2s>>
    BY <1>1, <1>3, <1>7, AnswerArrives
  <2>2. p \in Blocks /\ p.of = answer /\ p.part = kind
    BY <1>3 DEF Part
  <2>3. OneAnswer(s2c'[cfd])
    BY <1>1, <1>2, <1>7, <2>1, <2>2, OneAnswerAppend
  <2>4. Answering'
    BY <1>1, <1>6, <1>7, <2>1, <2>3 DEF Answering, OneAnswer
  <2> QED
    BY <1>1, <1>6, <2>1, <2>4 DEF Served
<1>8. ASSUME NEW kind \in PartKinds, ServerWrite(Part(kind, answer, frameId)),
             s2c[cfd] = <<>> \/ kind # "header"
      PROVE  /\ cfd' = cfd /\ Len(s2c'[cfd]) = Len(s2c[cfd]) + 1 /\ s2c'[cfd] # <<>>
             /\ s2c'[cfd][1].part = IF s2c[cfd] = <<>> THEN kind ELSE s2c[cfd][1].part
  <2> DEFINE p == Part(kind, answer, frameId)
  <2>1. cfd' = cfd /\ s2c'[cfd] = Append(s2c[cfd], p)
    BY <1>1, <1>3, <1>8, AnswerArrives
  <2>2. p \in Blocks /\ p.of = answer /\ p.part = kind
    BY <1>3 DEF Part
  <2>3. /\ Len(s2c'[cfd]) = Len(s2c[cfd]) + 1
        /\ s2c'[cfd][1] = IF s2c[cfd] = <<>> THEN p ELSE s2c[cfd][1]
    BY <1>1, <1>2, <1>8, <2>1, <2>2, OneAnswerAppend
  <2>4. s2c'[cfd] # <<>>
    BY <1>1, <2>1, <2>2
  <2> QED
    BY <2>1, <2>2, <2>3, <2>4
<1>9. /\ Len(s2c[cfd]) \in Nat /\ (s2c[cfd] = <<>> <=> Len(s2c[cfd]) = 0)
  BY <1>1
<1>10. Read \in 0 .. 3 /\ (Read = 0 <=> cPc = "header") /\ Read' = Read
  BY <1>1, <1>6 DEF HalfWay, Read, Reading
<1>11. ASSUME NEW kind \in PartKinds, ServerWrite(Part(kind, answer, frameId)),
              s2c[cfd] = <<>> \/ kind # "header", kind = "header" => cPc = "header",
              sPc' # "recv" => sPc' \in Sending /\ Written' = Written + 1
       PROVE  HalfWay'
  <2>1. /\ cfd' = cfd /\ Len(s2c'[cfd]) = Len(s2c[cfd]) + 1 /\ s2c'[cfd] # <<>>
        /\ s2c'[cfd][1].part = IF s2c[cfd] = <<>> THEN kind ELSE s2c[cfd][1].part
    BY <1>8, <1>11
  <2>2. Read + Len(s2c[cfd]) = Written
    BY <1>1 DEF HalfWay, Sending
  <2>3. sPc' \in Sending => Read' + Len(s2c'[cfd]) = Written'
    BY <1>9, <1>10, <1>11, <2>1, <2>2 DEF Sending
  <2>4. cPc \in Reading => s2c'[cfd][1].part # "header"
    BY <1>1, <1>11, <2>1 DEF HalfWay, Reading
  <2> QED
    BY <1>1, <1>6, <1>11, <2>1, <2>3, <2>4 DEF HalfWay
<1>12. CASE SendHeader
  <2>1. /\ sPc = "sendHeader" /\ sPc' = "sendFrameId"
        /\ ServerWrite(Part("header", answer, frameId))
    BY <1>12 DEF SendHeader
  <2>2. cPc = "header" /\ s2c[cfd] = <<>>
    BY <1>1, <1>9, <1>10, <2>1 DEF HalfWay, Written
  <2>3. sPc' \in Sending /\ Written' = Written + 1
    BY <2>1 DEF Written, Sending
  <2>4. HalfWay'
    BY <1>11, <2>1, <2>2, <2>3 DEF PartKinds
  <2> QED
    BY <1>7, <2>1, <2>2, <2>4 DEF PartKinds
<1>13. CASE SendFrameId
  <2>1. /\ sPc = "sendFrameId" /\ sPc' \in {"sendJpegSize", "recv"}
        /\ ServerWrite(Part("frameId", answer, frameId))
    BY <1>13 DEF SendFrameId
  <2>2. sPc' # "recv" => sPc' \in Sending /\ Written' = Written + 1
    BY <2>1 DEF Written, Sending
  <2>3. HalfWay'
    BY <1>11, <2>1, <2>2 DEF PartKinds
  <2> QED
    BY <1>7, <2>1, <2>3 DEF PartKinds
<1>14. CASE SendJpegSize
  <2>1. /\ sPc = "sendJpegSize" /\ sPc' = "sendImage"
        /\ ServerWrite(Part("jpegSize", answer, frameId))
    BY <1>14 DEF SendJpegSize
  <2>2. sPc' \in Sending /\ Written' = Written + 1
    BY <2>1 DEF Written, Sending
  <2>3. HalfWay'
    BY <1>11, <2>1, <2>2 DEF PartKinds
  <2> QED
    BY <1>7, <2>1, <2>3 DEF PartKinds
<1>15. CASE SendImage
  <2>1. sPc' = "recv" /\ ServerWrite(Part("image", answer, frameId))
    BY <1>15 DEF SendImage
  <2>2. "image" \in PartKinds /\ "image" # "header"
    BY DEF PartKinds
  <2>3. HalfWay'
    BY <1>11, <2>1, <2>2
  <2> QED
    BY <1>7, <2>1, <2>2, <2>3
<1> QED
  BY <1>5, <1>12, <1>13, <1>14, <1>15

\* From Served, the steps of the server.
LEMMA ServedServerPace ==
  ASSUME TypeOK, Clocks, InPace, cable, Served, TimedServer
  PROVE  Served'
<1>1. Synced /\ sfd = cfd /\ backlog = <<>> /\ cmdAge <= RecvPeriod
  BY DEF Served
<1>2. UNCHANGED clientVars /\ cAge' = cAge
  BY DEF TimedServer
<1>3. CASE sPc = "recv" /\ c2s[cfd] = <<>>
  <2>1. UNCHANGED linkVars /\ UNCHANGED serverVars
    BY <1>1, <1>3, WaitingServer
  <2>2. (Rested \/ Unanswered \/ Answering) /\ Synced
    BY <1>3 DEF Served, Asking, Capturing
  <2>3. (Rested \/ Unanswered \/ Answering)'
    BY <1>2, <2>1, <2>2
    DEF linkVars, serverVars, clientVars, Rested, Unanswered, Answering, HalfWay, Read,
        Written,
        Quiet
  <2>4. Synced'
    BY <2>1, <2>2 DEF linkVars, Synced
  <2> QED
    BY <1>1, <2>1, <2>3, <2>4 DEF Served, linkVars, serverVars
<1>4. CASE Asking
  <2>1. /\ sPc' = "capture" /\ cmdAge' = 0 /\ sAge' = 0 /\ Synced' /\ c2s'[cfd] = <<>>
        /\ UNCHANGED <<cfd, sfd, backlog, s2c>>
    BY <1>1, <1>4, AskedServer DEF Asking, Commands
  <2>2. cPc' = "header" /\ cAge' = 0 /\ s2c[cfd] = <<>>
    BY <1>2, <1>4 DEF Asking, clientVars
  <2> QED
    BY <1>1, <2>1, <2>2, PaceTypes DEF Served, Capturing, Quiet
<1>5. CASE Capturing
  BY <1>5, CapturingPace
<1>6. CASE Answering /\ sPc \in Sending
  BY <1>6, AnsweringPace
<1> QED
  BY <1>3, <1>4, <1>5, <1>6
  DEF Served, Rested, Unanswered, Answering, HalfWay, Quiet, Sending

\* What StreamAligned says of the ends of the stream: a server that has nothing left
\* to write leaves no client in the middle of an answer, and a client that reads no
\* answer finds none begun.
NoGap ==
  cfd # NoFd /\ sfd = cfd =>
    /\ sPc = "recv" /\ s2c[cfd] = <<>> => cPc \notin Reading
    /\ sPc = "sendJpegSize" /\ s2c[cfd] = <<>> => cPc \in {"jpegSize", "giveUp"}
    /\ sPc = "sendImage" /\ s2c[cfd] = <<>> => cPc \in {"image", "giveUp"}
    /\ s2c[cfd] # <<>> /\ cPc = "key" => s2c[cfd][1].part = "header"

LEMMA AlignedNoGap == TypeOK /\ StreamAligned => NoGap
<1> SUFFICES ASSUME TypeOK, StreamAligned, cfd # NoFd, sfd = cfd
             PROVE  /\ sPc = "recv" /\ s2c[cfd] = <<>> => cPc \notin Reading
                    /\ sPc = "sendJpegSize" /\ s2c[cfd] = <<>> => cPc \in {"jpegSize", "giveUp"}
                    /\ sPc = "sendImage" /\ s2c[cfd] = <<>> => cPc \in {"image", "giveUp"}
                    /\ s2c[cfd] # <<>> /\ cPc = "key" => s2c[cfd][1].part = "header"
  BY DEF NoGap
<1>1. ASSUME sPc = "recv", s2c[cfd] = <<>>
      PROVE  cPc \notin Reading
  <2> DEFINE q == Part("header", "STOP_ACK", 0)
  <2>1. q \in Blocks /\ q.part = "header"
    BY ServerAssumption DEF Blocks, Part, PartKinds, Answers
  <2>2. ServerNext(q)
    BY <1>1, <2>1 DEF ServerNext
  <2>3. ClientExpects(q)
    BY <1>1, <2>1, <2>2 DEF StreamAligned
  <2> QED
    BY <2>1, <2>3 DEF ClientExpects, Part, Reading
<1>2. ASSUME sPc = "sendImage", s2c[cfd] = <<>>
      PROVE  cPc \in {"image", "giveUp"}
  <2> DEFINE q == Part("image", answer, frameId)
  <2>1. q \in Blocks /\ q.part = "image"
    BY <1>2 DEF Blocks, Part, PartKinds, Answers, TypeOK, ServerTypeOK, ServerCallOK,
       Sending
  <2>2. ServerNext(q)
    BY <1>2 DEF ServerNext
  <2>3. ClientExpects(q)
    BY <1>2, <2>1, <2>2 DEF StreamAligned
  <2> QED
    BY <2>1, <2>3 DEF ClientExpects, Part, TypeOK, ClientTypeOK
<1>4. ASSUME sPc = "sendJpegSize", s2c[cfd] = <<>>
      PROVE  cPc \in {"jpegSize", "giveUp"}
  <2> DEFINE q == Part("jpegSize", answer, frameId)
  <2>1. q \in Blocks /\ q.part = "jpegSize"
    BY <1>4 DEF Blocks, Part, PartKinds, Answers, TypeOK, ServerTypeOK, ServerCallOK,
       Sending
  <2>2. ServerNext(q)
    BY <1>4 DEF ServerNext
  <2>3. ClientExpects(q)
    BY <1>4, <2>1, <2>2 DEF StreamAligned
  <2> QED
    BY <2>1, <2>3 DEF ClientExpects, Part, TypeOK, ClientTypeOK
<1>3. s2c[cfd] # <<>> /\ cPc = "key" => s2c[cfd][1].part = "header"
  BY DEF StreamAligned, ClientExpects
<1> QED
  BY <1>1, <1>2, <1>3, <1>4

\* The client reads a block: the rest stays in the same state of arrival.
LEMMA ReadKeepsSynced ==
  ASSUME TypeOK, Synced, ClientRead
  PROVE  /\ Synced' /\ s2c'[cfd] = Tail(s2c[cfd]) /\ s2c[cfd] # <<>>
         /\ UNCHANGED <<cfd, sfd, backlog, c2s>>
<1>1. /\ cfd \in Conns /\ s2cIn[cfd] = Len(s2c[cfd]) /\ s2c[cfd] \in Seq(Blocks)
  BY PaceTypes DEF Synced
<1>2. /\ s2cIn[cfd] > 0
      /\ s2c' = [s2c EXCEPT ![cfd] = Tail(@)]
      /\ s2cIn' = [s2cIn EXCEPT ![cfd] = @ - 1]
      /\ UNCHANGED <<cable, listening, backlog, cfd, sfd, c2s, c2sIn, cGone, sGone>>
  BY DEF ClientRead
<1>3. s2c[cfd] # <<>>
  BY <1>1, <1>2
<1>4. s2c'[cfd] = Tail(s2c[cfd]) /\ s2cIn'[cfd] = Len(Tail(s2c[cfd]))
  BY <1>1, <1>2, <1>3, PaceTypes
<1> QED
  BY <1>2, <1>3, <1>4 DEF Synced

\* The client reads the answer, and is then between two exchanges.
LEMMA ReadingPace ==
  ASSUME TypeOK, Clocks, InPace, NoGap', Served, Answering, ~quitting, TimedClient \/ User
  PROVE  Served' /\ quitting' = quitting
<1>1. /\ cfd \in Conns /\ Synced /\ sfd = cfd /\ backlog = <<>> /\ cmdAge <= RecvPeriod
      /\ c2s[cfd] = <<>> /\ cAge <= CaptureTime /\ OneAnswer(s2c[cfd]) /\ HalfWay
      /\ s2c[cfd] \in Seq(Blocks) /\ s2cIn[cfd] = Len(s2c[cfd]) /\ ~sGone[cfd]
      /\ cPc \in {"header"} \cup Reading
  BY PaceTypes DEF Served, Synced, Answering, OneAnswer, HalfWay, Reading
<1>2. ~(cAge >= RecvPeriod)
  BY <1>1, PaceTypes DEF InPace, Clocks
<1>3. TimedClient
  BY <1>1 DEF User, QuitOffline, QuitOnline, Reading
<1>4. ~NoAnswerYet
  BY <1>2, <1>3 DEF TimedClient
<1>5. s2c[cfd] # <<>> /\ s2cIn[cfd] # 0
  BY <1>1, <1>4 DEF NoAnswerYet
<1>6. ReceiveHeader \/ ReceiveFrameId \/ ReceiveJpegSize \/ ReceiveImage
  <2>1. \/ ReceiveHeader \/ ReceiveStopAck \/ HeaderTimeout \/ HeaderClosed
        \/ ReceiveFrameId \/ ReceiveJpegSize \/ ReceiveImage \/ ReadFails \/ ReadAgain
    BY <1>1, <1>3
    DEF TimedClient, ClientStep, Reading, Connect, ConnectFails, PauseOver, SendGetFrame,
        ClientSendFails, GiveUpServer, PollNoKey, AwaitAck, AckNotReceived
  <2> QED
    BY <1>4, <1>5, <2>1
    DEF ReceiveStopAck, HeaderTimeout, HeaderClosed, ClientSeesClose, ReadFails, ReadAgain
<1>7. /\ ClientRead /\ cAge' = 0 /\ UNCHANGED <<sPc, cmdAge, quitting>>
  BY <1>3, <1>6
  DEF TimedClient, serverVars, ReceiveHeader, ReceiveFrameId, ReceiveJpegSize, ReceiveImage
<1>8. /\ Synced' /\ s2c'[cfd] = Tail(s2c[cfd])
      /\ UNCHANGED <<cfd, sfd, backlog, c2s>>
  BY <1>1, <1>7, ReadKeepsSynced
<1>9. /\ OneAnswer(s2c'[cfd]) /\ Len(s2c'[cfd]) = Len(s2c[cfd]) - 1
      /\ s2c'[cfd] # <<>> => s2c'[cfd][1].part # "header"
      /\ Len(s2c[cfd]) \in Nat \ {0} /\ (s2c'[cfd] = <<>> <=> Len(s2c[cfd]) = 1)
  <2>1. Len(s2c[cfd]) \in Nat \ {0}
    BY <1>1, <1>5
  <2> QED
    BY <1>1, <1>5, <1>8, <2>1, OneAnswerTail
<1>10. /\ sPc' = "recv" /\ s2c'[cfd] = <<>> => cPc' \notin Reading
       /\ sPc' = "sendJpegSize" /\ s2c'[cfd] = <<>> => cPc' \in {"jpegSize", "giveUp"}
       /\ sPc' = "sendImage" /\ s2c'[cfd] = <<>> => cPc' \in {"image", "giveUp"}
       /\ s2c'[cfd] # <<>> => cPc' # "key"
  BY <1>1, <1>8, <1>9, PaceTypes DEF NoGap
<1>11. ASSUME HalfWay' PROVE Served'
  <2>1. c2s'[cfd'] = <<>> /\ OneAnswer(s2c'[cfd'])
    BY <1>1, <1>8, <1>9
  <2>2. cAge' <= CaptureTime
    BY <1>7, PaceTypes
  <2>3. Answering'
    BY <1>11, <2>1, <2>2 DEF Answering, OneAnswer
  <2> QED
    BY <1>1, <1>7, <1>8, <2>3 DEF Served
<1>12. ASSUME cPc' = "key", sPc' = "recv" PROVE Served'
  <2>1. Rested'
    BY <1>1, <1>8, <1>10, <1>12 DEF Rested, Quiet
  <2> QED
    BY <1>1, <1>7, <1>8, <2>1 DEF Served
<1>13. ASSUME cPc' \in Reading, Read' = Read + 1
       PROVE  HalfWay'
  <2>1. /\ sPc' = sPc /\ cfd' = cfd /\ Written' = Written
        /\ sPc \in Sending => Read + Len(s2c[cfd]) = Written
        /\ Read \in Nat /\ sPc \in Sending \cup {"recv"}
    BY <1>1, <1>7, <1>8 DEF HalfWay, Read, Written, Reading, Sending
  <2>2. sPc \in Sending => Read' + Len(s2c'[cfd]) = Written'
    BY <1>9, <1>13, <2>1
  <2> QED
    BY <1>9, <1>10, <1>13, <2>1, <2>2 DEF HalfWay
<1>14. CASE ReceiveHeader
  <2>1. cPc = "header" /\ cPc' \in {"frameId", "key"}
    BY <1>14 DEF ReceiveHeader
  <2>2. Head(s2c[cfd]).of \in FrameAnswers
    BY <1>1, <1>9 DEF OneAnswer
  <2>3. cPc' = "frameId"
    BY <1>14, <2>2 DEF ReceiveHeader
  <2>4. HalfWay'
    BY <1>13, <2>1, <2>3 DEF Read, Reading
  <2> QED
    BY <1>7, <1>11, <2>4
<1>15. CASE ReceiveFrameId
  <2>1. cPc = "frameId" /\ cPc' \in {"jpegSize", "key"}
    BY <1>15 DEF ReceiveFrameId, AfterAnswer
  <2>2. CASE cPc' = "key"
    <3>1. sPc' = "recv"
      BY <1>1, <1>7, <1>9, <1>10, <2>1, <2>2 DEF HalfWay, Read, Written, Sending
    <3> QED
      BY <1>7, <1>12, <2>2, <3>1
  <2>3. CASE cPc' = "jpegSize"
    <3>1. HalfWay'
      BY <1>13, <2>1, <2>3 DEF Read, Reading
    <3> QED
      BY <1>7, <1>11, <3>1
  <2> QED
    BY <2>1, <2>2, <2>3
<1>16. CASE ReceiveJpegSize
  <2>1. cPc = "jpegSize" /\ cPc' = "image"
    BY <1>16 DEF ReceiveJpegSize
  <2>2. HalfWay'
    BY <1>13, <2>1 DEF Read, Reading
  <2> QED
    BY <1>7, <1>11, <2>2
<1>17. CASE ReceiveImage
  <2>1. cPc = "image" /\ cPc' = "key"
    BY <1>17 DEF ReceiveImage, AfterAnswer
  <2>2. sPc = "recv"
    BY <1>1, <1>9, <2>1 DEF HalfWay, Read, Written, Sending
  <2> QED
    BY <1>7, <1>12, <2>1, <2>2
<1> QED
  BY <1>6, <1>14, <1>15, <1>16, <1>17

\* Between two exchanges the client asks again, quits, or gives the server up.
LEMMA RestedPace ==
  ASSUME TypeOK, Clocks, cable, Served, Rested, ~quitting, TimedClient \/ User
  PROVE  Pace'
<1>1. /\ cfd \in Conns /\ Synced /\ sfd = cfd /\ backlog = <<>> /\ cmdAge <= RecvPeriod
      /\ sPc = "recv" /\ Quiet /\ cPc \in {"send", "key", "giveUp"} /\ ServerHolds(cfd)
      /\ c2s[cfd] = <<>> /\ s2c[cfd] = <<>> /\ c2sIn[cfd] = 0 /\ s2cIn[cfd] = 0
      /\ ~sGone[cfd]
  BY PaceTypes DEF Served, Rested, Synced, Quiet, ServerHolds
<1>2. cAge' = 0 /\ UNCHANGED <<sPc, cmdAge>>
  BY DEF TimedClient, User, serverVars
<1>3. CASE cPc = "send"
  <2>1. SendGetFrame
    BY <1>1, <1>3, AskingClient
  <2>2. ClientWrite("GET_FRAME") /\ cPc' = "header" /\ quitting' = quitting
    BY <2>1 DEF SendGetFrame
  <2>3. /\ Synced' /\ c2s'[cfd] = <<"GET_FRAME">> /\ s2c'[cfd] = <<>>
        /\ UNCHANGED <<cfd, sfd, backlog, s2c, cGone>>
    BY <1>1, <2>2, RequestArrives DEF Commands
  <2> QED
    BY <1>1, <1>2, <2>2, <2>3 DEF Pace, Served, Asking
<1>4. CASE cPc = "key"
  <2>1. PollNoKey \/ QuitOnline
    BY <1>4
    DEF TimedClient, User, ClientStep, ReadAgain, Reading, Connect, ConnectFails, PauseOver,
        SendGetFrame, ClientSendFails, ReceiveHeader, ReceiveStopAck, HeaderTimeout,
        HeaderClosed,
        GiveUpServer, ReceiveFrameId, ReceiveJpegSize, ReceiveImage, ReadFails, AwaitAck,
        AckNotReceived, QuitOffline
  <2>2. CASE PollNoKey
    <3>1. cPc' = "send" /\ quitting' = quitting /\ UNCHANGED linkVars
      BY <2>2 DEF PollNoKey
    <3>2. Synced' /\ Quiet' /\ sfd' = cfd' /\ backlog' = <<>>
      BY <1>1, <3>1 DEF linkVars, Synced, Quiet
    <3> QED
      BY <1>1, <1>2, <3>1, <3>2 DEF Pace, Served, Rested
  <2>3. CASE QuitOnline
    <3>1. /\ ClientWrite("STOP") /\ cPc' = "await" /\ quitting' = TRUE /\ shutAge' = 0
      BY <1>1, <2>3 DEF QuitOnline
    <3>2. /\ Synced' /\ c2s'[cfd] = <<"STOP">> /\ s2c'[cfd] = <<>>
          /\ UNCHANGED <<cfd, sfd, backlog, s2c, cGone>>
      BY <1>1, <3>1, RequestArrives DEF Commands
    <3> QED
      BY <1>1, <1>2, <3>1, <3>2 DEF Pace, Stopping
  <2> QED
    BY <2>1, <2>2, <2>3
<1>5. CASE cPc = "giveUp"
  <2>1. GiveUpServer
    BY <1>5
    DEF TimedClient, User, ClientStep, ReadAgain, Reading, Connect, ConnectFails, PauseOver,
        SendGetFrame, ClientSendFails, ReceiveHeader, ReceiveStopAck, HeaderTimeout,
        HeaderClosed,
        ReceiveFrameId, ReceiveJpegSize, ReceiveImage, ReadFails, PollNoKey, AwaitAck,
        AckNotReceived,
        QuitOffline, QuitOnline
  <2>2. ClientClose /\ cPc' = "connect" /\ quitting' = quitting
    BY <2>1 DEF GiveUpServer, Abandon, LinkLost
  <2>3. /\ cfd' = NoFd /\ sfd' = sfd /\ backlog' = <<>>
        /\ c2s'[sfd] = <<>> /\ cGone'[sfd]
    <3>1. ~(s2cIn[cfd] > 0) /\ c2sIn[cfd] = Len(c2s[cfd])
      BY <1>1 DEF Synced
    <3>2. c2s'[cfd] = c2s[cfd] /\ cGone'[cfd]
      BY <1>1, <2>2, <3>1, PaceTypes DEF ClientClose
    <3> QED
      BY <1>1, <2>2, <3>2 DEF ClientClose
  <2>4. Free'
    BY <1>1, <1>2, <2>3, PaceTypes DEF Free
  <2> QED
    BY <2>2, <2>3, <2>4 DEF Pace, Away
<1> QED
  BY <1>1, <1>3, <1>4, <1>5

\* From Served, the steps of the client.
LEMMA ServedClientPace ==
  ASSUME TypeOK, Clocks, InPace, NoGap', cable, Served, ~quitting, TimedClient \/ User
  PROVE  Pace'
<1>1. CASE Rested
  BY <1>1, RestedPace
<1>2. CASE Answering
  BY <1>2, ReadingPace DEF Pace
<1>3. CASE Asking \/ Capturing \/ Unanswered
  <2>1. /\ Synced /\ sfd = cfd /\ backlog = <<>> /\ cmdAge <= RecvPeriod
        /\ cPc = "header" /\ s2c[cfd] = <<>>
    BY <1>3 DEF Served, Asking, Capturing, Unanswered, Quiet
  <2>2. TimedClient /\ HeaderTimeout /\ cAge >= RecvPeriod
    BY <2>1, WaitingClient
  <2>3. Unanswered
    BY <1>3, <2>2, PaceTypes DEF Asking, Capturing, InPace, Clocks
  <2>4. /\ UNCHANGED linkVars /\ UNCHANGED <<sPc, cmdAge, quitting>>
        /\ cPc' \in {"key", "giveUp"}
    BY <2>2 DEF TimedClient, serverVars, HeaderTimeout, GivesUp
  <2>5. Synced' /\ Quiet' /\ sfd' = cfd' /\ backlog' = <<>>
    BY <2>1, <2>3, <2>4 DEF linkVars, Synced, Quiet, Unanswered
  <2>6. Rested'
    BY <2>3, <2>4, <2>5 DEF Rested, Unanswered
  <2> QED
    BY <2>1, <2>4, <2>5, <2>6 DEF Pace, Served
<1> QED
  BY <1>1, <1>2, <1>3 DEF Served

\* A STOP that was sent is read before anything else.
LEMMA StoppingPace ==
  ASSUME TypeOK, Clocks, cable, Stopping, quitting, TimedServer \/ TimedClient \/ User
  PROVE  Pace'
<1>1. /\ cfd \in Conns /\ Synced /\ sPc = "recv" /\ sfd = cfd /\ c2s[cfd] = <<"STOP">>
      /\ s2c[cfd] = <<>> /\ cPc \in {"await", "header"} /\ cAge = 0 /\ shutAge = 0
  BY PaceTypes DEF Stopping, Synced
<1>2. CASE TimedServer
  <2>1. /\ sPc' = "ack" /\ c2s'[cfd] = <<>> /\ UNCHANGED <<cfd, s2c>>
    BY <1>1, <1>2, AskedServer DEF Commands
  <2>2. cPc' = cPc /\ quitting' = quitting
    BY <1>2 DEF TimedServer, clientVars
  <2> QED
    BY <1>1, <2>1, <2>2 DEF Pace, Stopped
<1>3. CASE TimedClient \/ User
  <2>1. cPc = "await"
    <3>1. cPc = "header" => cAge >= RecvPeriod
      BY <1>1, <1>3, WaitingClient
    <3> QED
      BY <1>1, <3>1, PaceTypes
  <2>2. AwaitAck \/ AckNotReceived
    BY <1>3, <2>1
    DEF TimedClient, User, ClientStep, ReadAgain, Reading, Connect, ConnectFails, PauseOver,
        SendGetFrame, ClientSendFails, ReceiveHeader, ReceiveStopAck, HeaderTimeout,
        HeaderClosed,
        GiveUpServer, ReceiveFrameId, ReceiveJpegSize, ReceiveImage, ReadFails, PollNoKey,
        QuitOffline, QuitOnline
  <2>3. AwaitAck
    BY <1>1, <2>2, PaceTypes DEF AckNotReceived
  <2>4. /\ cPc' = "header" /\ shutAge' = 0 /\ quitting' = quitting /\ UNCHANGED linkVars
    BY <1>1, <2>3 DEF AwaitAck
  <2>5. cAge' = 0 /\ sPc' = sPc
    BY <1>3 DEF TimedClient, User, serverVars
  <2>6. Synced'
    BY <1>1, <2>4 DEF linkVars, Synced
  <2> QED
    BY <1>1, <2>4, <2>5, <2>6 DEF linkVars, Pace, Stopping
<1> QED
  BY <1>2, <1>3

\* Once the server has read STOP it captures no more, and the client asks no more.
LEMMA StoppedPace ==
  ASSUME TypeOK, Stopped, quitting, TimedServer \/ TimedClient \/ User
  PROVE  Pace'
<1>1. /\ sPc \in {"ack", "exit", "done"} /\ cPc \in {"await", "header", "done"}
      /\ (cfd = NoFd) <=> (cPc = "done")
      /\ (sfd = NoFd) <=> (sPc = "done")
      /\ cfd \in Conns \cup {NoFd} /\ sfd \in Conns \cup {NoFd} /\ NoFd \notin Conns
  BY PaceTypes DEF Stopped, TypeOK, ServerCallOK, ClientCallOK, Offline
<1>2. cfd # NoFd =>
        /\ c2s[cfd] \in Seq(Commands) /\ s2c[cfd] \in Seq(Blocks)
        /\ \A i \in 1 .. Len(c2s[cfd]) : c2s[cfd][i] = "STOP"
        /\ \A i \in 1 .. Len(s2c[cfd]) : s2c[cfd][i].of = "STOP_ACK"
  BY <1>1, PaceTypes DEF Stopped
<1>3. CASE TimedServer
  <2>1. UNCHANGED <<cPc, quitting>>
    BY <1>3 DEF TimedServer, clientVars
  <2>2. HandleStop \/ ServerExit
    BY <1>1, <1>3
    DEF TimedServer, ServerStep, RecvAgain, NoCommand, WaitForClient, ReceiveCommand,
        RecvTimeout, GiveUpClient, RecvClosed, CaptureFails, AnswerGetFrame, SendHeader,
        SendFrameId, SendJpegSize, SendImage, ServerSendFails, Sending
  <2>3. sPc' \in {"exit", "done"} /\ cfd' = cfd
    BY <2>2 DEF HandleStop, ServerExit, ServerWrite, ServerVanish, ServerDrop, linkVars
  <2>4. ASSUME cfd # NoFd
        PROVE  /\ \A i \in 1 .. Len(c2s'[cfd]) : c2s'[cfd][i] = "STOP"
               /\ \A i \in 1 .. Len(s2c'[cfd]) : s2c'[cfd][i].of = "STOP_ACK"
    <3>1. CASE HandleStop
      <4> DEFINE p == Part("header", "STOP_ACK", 0)
      <4>1. p \in Blocks /\ p.of = "STOP_ACK"
        BY ServerAssumption DEF Blocks, Part, PartKinds, Answers
      <4>2. sfd \in Conns
        BY <1>1, <3>1 DEF HandleStop
      <4>3. c2s' = c2s
        BY <3>1 DEF HandleStop, ServerWrite, linkVars
      <4>4. s2c'[cfd] = s2c[cfd] \/ s2c'[cfd] = Append(s2c[cfd], p)
        BY <1>1, <2>4, <3>1, <4>1, <4>2, WriteOnStream DEF HandleStop, linkVars
      <4>5. \A i \in 1 .. Len(Append(s2c[cfd], p)) : Append(s2c[cfd], p)[i].of = "STOP_ACK"
        BY <1>2, <2>4, <4>1
      <4> QED
        BY <1>2, <2>4, <4>3, <4>4, <4>5
    <3>2. CASE ServerExit
      <4>1. PICK K : ServerDrop(K)
        BY <3>2 DEF ServerExit, ServerVanish
      <4>2. c2s'[cfd] = <<>> \/ c2s'[cfd] = c2s[cfd]
        BY <1>1, <2>4, <4>1 DEF ServerDrop
      <4>3. PICK n \in 0 .. Len(s2c[cfd]) : s2c'[cfd] = SubSeq(s2c[cfd], 1, n)
        BY <1>1, <2>4, <4>1, DropKeepsPrefix
      <4>4. \A i \in 1 .. Len(SubSeq(s2c[cfd], 1, n)) :
              SubSeq(s2c[cfd], 1, n)[i] = s2c[cfd][i] /\ i \in 1 .. Len(s2c[cfd])
        BY <1>2, <2>4
      <4> QED
        BY <1>2, <2>4, <4>2, <4>3, <4>4
    <3> QED
      BY <2>2, <3>1, <3>2
  <2> QED
    BY <1>1, <2>1, <2>3, <2>4 DEF Pace, Stopped
<1>4. CASE TimedClient \/ User
  <2>1. sPc' = sPc
    BY <1>4 DEF TimedClient, User, serverVars
  <2>2. \/ ReceiveHeader \/ ReceiveStopAck \/ HeaderTimeout \/ HeaderClosed
        \/ AwaitAck \/ AckNotReceived
    BY <1>1, <1>4
    DEF TimedClient, User, ClientStep, ReadAgain, Reading, Connect, ConnectFails, PauseOver,
        SendGetFrame, ClientSendFails, GiveUpServer, ReceiveFrameId, ReceiveJpegSize,
        ReceiveImage, ReadFails,
        PollNoKey, QuitOffline, QuitOnline
  <2>3. ~ReceiveHeader
    <3> SUFFICES ASSUME ReceiveHeader PROVE FALSE
      OBVIOUS
    <3>1. Head(s2c[cfd]).of \in FrameAnswers /\ s2cIn[cfd] > 0 /\ cPc = "header"
      BY DEF ReceiveHeader, ClientRead
    <3>2. s2c[cfd] # <<>>
      BY <1>1, <3>1, PaceTypes DEF TypeOK, ArrivedOK
    <3>3. Head(s2c[cfd]).of = "STOP_ACK"
      BY <1>1, <1>2, <3>1, <3>2
    <3> QED
      BY <3>1, <3>3 DEF FrameAnswers, ImageAnswers, SceneErrors
  <2>4. CASE HeaderTimeout \/ AwaitAck
    <3>1. /\ cPc' \in {"await", "header"} /\ quitting' = quitting /\ UNCHANGED linkVars
      BY <2>4 DEF HeaderTimeout, AwaitAck
    <3> QED
      BY <1>1, <1>2, <2>1, <3>1 DEF linkVars, Pace, Stopped
  <2>5. CASE ReceiveStopAck \/ HeaderClosed \/ AckNotReceived
    <3>1. cPc' = "done" /\ cfd' = NoFd /\ quitting' = quitting
      BY <2>5
      DEF ReceiveStopAck, HeaderClosed, AckNotReceived, Abandon, Finish, ClientClose
    <3> QED
      BY <1>1, <2>1, <3>1 DEF Pace, Stopped
  <2> QED
    BY <2>2, <2>3, <2>4, <2>5
<1> QED
  BY <1>3, <1>4

\* Time passes only during a capture, after one that failed, and outside the sessions.
LEMMA TickPace ==
  ASSUME TypeOK, Clocks, InPace, Pace, TimedTick
  PROVE  Pace'
<1>1. /\ UNCHANGED linkVars /\ UNCHANGED <<sPc, cPc>> /\ (quitting' <=> quitting)
      /\ ServerMayWait /\ ClientMayWait
      /\ cmdAge' = IF InSession THEN Older(cmdAge, IdleTimeout) ELSE cmdAge
      /\ sAge' = IF sPc \in {"recv", "capture"} THEN sAge + 1 ELSE 0
      /\ cAge' = IF cPc \in {"pause", "header"} \cup Reading THEN cAge + 1 ELSE 0
  BY DEF TimedTick, Tick
<1>2. ~Queued
  <2> SUFFICES ASSUME Queued PROVE FALSE
    OBVIOUS
  <2>1. Free /\ backlog = <<cfd>>
    BY DEF Queued
  <2>2. CASE sPc = "accept"
    BY <1>1, <2>1, <2>2 DEF ServerMayWait, NoCommand, ServerStuck, Sending
  <2>3. CASE sPc = "recv" /\ cGone[sfd]
    BY <1>1, <2>3 DEF ServerMayWait, NoCommand, ServerStuck, Sending
  <2> QED
    BY <2>1, <2>2, <2>3 DEF Free
<1>3. ~Stopping /\ ~(Served /\ Asking)
  <2> SUFFICES ASSUME Synced, sPc = "recv", sfd = cfd, NEW cmd \in Commands, c2s[cfd] = <<cmd>>
               PROVE  FALSE
    BY DEF Stopping, Served, Asking, Commands
  <2>1. c2sIn[sfd] # 0
    BY DEF Synced
  <2> QED
    BY <1>1, <2>1 DEF ServerMayWait, NoCommand, ServerStuck, Sending
<1>4. ~Rested
  BY <1>1 DEF Rested, ClientMayWait, NoAnswerYet, Reading
<1>5. ~(Served /\ Answering)
  <2> SUFFICES ASSUME Synced, sfd = cfd, HalfWay PROVE FALSE
    BY DEF Served, Answering
  <2>1. cfd \in Conns /\ s2cIn[cfd] = Len(s2c[cfd]) /\ s2c[cfd] \in Seq(Blocks)
    BY PaceTypes DEF Synced
  <2>2. CASE sPc = "recv"
    <3>1. s2cIn[cfd] # 0 /\ cPc \in {"header"} \cup Reading
      BY <2>1, <2>2 DEF HalfWay, Sending
    <3> QED
      BY <1>1, <3>1 DEF ClientMayWait, NoAnswerYet, Reading
  <2>3. CASE sPc \in Sending
    <3>1. Len(s2c[cfd]) \in Nat /\ Len(s2c[cfd]) <= 3
      BY <2>1, <2>3 DEF HalfWay, Read, Written, Reading, Sending
    <3>2. Len(s2c[cfd]) # StreamCap
      BY <3>1, PaceTypes DEF InPace
    <3> QED
      BY <1>1, <2>3, <3>2 DEF ServerMayWait, ServerStuck, NoCommand, Sending
  <2> QED
    BY <2>2, <2>3 DEF HalfWay, Sending
<1>6. CASE IF quitting THEN Stopped ELSE Away \/ cPc = "done"
  <2>1. Away => Away'
    BY <1>1 DEF linkVars, Away, Free
  <2>2. Stopped => Stopped'
    BY <1>1 DEF linkVars, Stopped
  <2> QED
    BY <1>1, <1>6, <2>1, <2>2 DEF Pace
<1>7. CASE Served /\ (Capturing \/ Unanswered) /\ ~quitting
  <2>1. /\ cPc = "header" /\ cAge' = cAge + 1 /\ sAge' = sAge + 1 /\ cmdAge <= cAge
        /\ s2cIn[cfd] = 0 /\ ~sGone[cfd]
    BY <1>1, <1>7 DEF Capturing, Unanswered, Served, Synced, Quiet
  <2>2. cAge < RecvPeriod
    BY <1>1, <2>1 DEF ClientMayWait
  <2>3. /\ cmdAge' <= cAge' /\ cAge' <= RecvPeriod /\ cmdAge' <= RecvPeriod
    <3>1. cmdAge' \in Nat /\ cmdAge' <= cmdAge + 1
      <4>1. cmdAge \in Nat /\ IdleTimeout \in Nat
        BY PaceTypes
      <4>2. cmdAge' = Older(cmdAge, IdleTimeout) \/ cmdAge' = cmdAge
        BY <1>1
      <4> QED
        BY <4>1, <4>2 DEF Older
    <3>2. cAge \in Nat /\ cmdAge \in Nat /\ RecvPeriod \in Nat
      BY PaceTypes DEF Clocks
    <3>3. cmdAge <= cAge /\ cAge < RecvPeriod /\ cAge' = cAge + 1
      BY <2>1, <2>2
    <3> QED
      BY <3>1, <3>2, <3>3
  <2>4. Synced' /\ Quiet' /\ sfd' = cfd' /\ backlog' = <<>>
    BY <1>1, <1>7 DEF linkVars, Synced, Quiet, Served, Capturing, Unanswered
  <2>5. CASE Capturing
    <3>1. sAge < CaptureTime
      BY <1>1, <2>5 DEF ServerMayWait, NoCommand, ServerStuck, Capturing, Sending
    <3>2. Capturing'
      BY <1>1, <2>1, <2>3, <2>4, <2>5, <3>1, PaceTypes DEF Capturing, Clocks
    <3> QED
      BY <1>1, <1>7, <2>3, <2>4, <3>2 DEF Pace, Served
  <2>6. CASE Unanswered
    <3>1. Unanswered'
      BY <1>1, <2>3, <2>4, <2>6 DEF Unanswered
    <3> QED
      BY <1>1, <1>7, <2>3, <2>4, <3>1 DEF Pace, Served
  <2> QED
    BY <1>7, <2>5, <2>6
<1> QED
  BY <1>2, <1>3, <1>4, <1>5, <1>6, <1>7 DEF Pace, Served

\* The kernels have nothing to retransmit on the client's connection.
LEMMA DeliverPace ==
  ASSUME TypeOK, Pace, NEW k \in Conns, Retransmit(k), UNCHANGED timing,
         UNCHANGED serverVars, UNCHANGED clientVars
  PROVE  Pace'
<1>1. /\ UNCHANGED <<cfd, sfd, backlog, c2s>>
      /\ UNCHANGED <<sPc, cPc, cmdAge, shutAge, cAge, sAge, quitting>>
  BY DEF Retransmit, timing, serverVars, clientVars
<1>2. cfd # NoFd => s2c'[cfd] = s2c[cfd] /\ cfd \in Conns
  BY PaceTypes DEF Retransmit, RetransmitCommands, RetransmitAnswers
<1>3. Synced /\ ServerHolds(cfd) => Synced'
  BY <1>1, <1>2, PaceTypes DEF Retransmit, RetransmitCommands, RetransmitAnswers, Synced
<1>4. Free => Free'
  <2>1. sPc = "recv" => sfd \in Conns
    BY PaceTypes DEF TypeOK, ServerCallOK
  <2>2. sfd \in Conns /\ sfd # cfd /\ cGone[sfd] => cGone'[sfd]
    BY PaceTypes DEF Retransmit, RetransmitCommands, RetransmitAnswers, ServerHolds
  <2> QED
    BY <1>1, <2>1, <2>2 DEF Free
<1>5. Queued => Queued'
  <2>1. Queued => Synced /\ ServerHolds(cfd)
    BY DEF Queued, ServerHolds, Backlogged
  <2> QED
    BY <1>1, <1>2, <1>3, <1>4, <2>1 DEF Queued, Synced
<1>6. Served => Served'
  BY <1>1, <1>2, <1>3
  DEF Served, Synced, ServerHolds, Rested, Asking, Capturing, Unanswered, Answering,
      HalfWay, Read,
      Written, Quiet
<1>7. Stopping => Stopping'
  BY <1>1, <1>2, <1>3 DEF Stopping, Synced, ServerHolds
<1>8. Stopped => Stopped'
  BY <1>1, <1>2 DEF Stopped
<1>9. Away => Away'
  BY <1>1, <1>4 DEF Away
<1> QED
  BY <1>1, <1>5, <1>6, <1>7, <1>8, <1>9 DEF Pace

\* The same for each step of TimedSystem.
LEMMA NextCalm ==
  ASSUME TypeOK, NoGap', InPace, Calm, [TimedNext]_timedVars
  PROVE  Calm'
<1>1. CASE TimedTick
  <2>1. Clocks' /\ cuts' = cuts /\ cable' = cable
    BY <1>1 DEF Calm, Clocks, TimedTick, Tick, linkVars
  <2> QED
    BY <1>1, <2>1, TickPace DEF Calm
<1>2. CASE TimedServer \/ TimedClient \/ User
  <2>1. Clocks' /\ cuts' = cuts
    BY <1>2 DEF Calm, Clocks, TimedServer, TimedClient, User
  <2>2. cable' = cable
    BY <1>2
    DEF TimedServer, TimedClient, User, ServerStep, RecvAgain, ClientStep, ReadAgain,
        WaitForClient, ReceiveCommand, RecvTimeout, GiveUpClient, RecvClosed, CaptureFails,
        AnswerGetFrame, SendHeader, SendFrameId, SendJpegSize, SendImage, ServerSendFails,
        HandleStop,
        ServerExit, EndSession, ServerAccept, ServerRead, ServerClose, ServerWrite,
        ServerVanish,
        ServerDrop, linkVars, Connect, ConnectFails, PauseOver, SendGetFrame,
        ClientSendFails,
        ReceiveHeader, ReceiveStopAck, HeaderTimeout, HeaderClosed, GiveUpServer,
        ReceiveFrameId, ReceiveJpegSize,
        ReceiveImage, ReadFails, PollNoKey, AwaitAck, AckNotReceived, QuitOffline,
        QuitOnline,
        ClientConnect, ClientWrite, ClientRead, ClientClose, LinkLost, Finish, Abandon,
        GivesUp
  <2>3. ASSUME cable, Pace
        PROVE  Pace'
    <3>1. CASE quitting /\ Stopping
      BY <1>2, <2>3, <3>1, StoppingPace DEF Calm
    <3>2. CASE quitting /\ Stopped
      BY <1>2, <3>2, StoppedPace
    <3>3. CASE ~quitting /\ cPc # "done" /\ Away
      BY <1>2, <2>3, <3>3, AwayPace
    <3>4. CASE ~quitting /\ Queued
      BY <1>2, <2>3, <3>4, QueuedPace
    <3>5. CASE ~quitting /\ Served
      <4>1. CASE TimedServer
        <5>1. Served'
          BY <2>3, <3>5, <4>1, ServedServerPace DEF Calm
        <5>2. quitting' = quitting
          BY <4>1 DEF TimedServer, clientVars
        <5> QED
          BY <3>5, <5>1, <5>2 DEF Pace
      <4>2. CASE TimedClient \/ User
        BY <2>3, <3>5, <4>2, ServedClientPace DEF Calm
      <4> QED
        BY <1>2, <4>1, <4>2
    <3>6. CASE ~quitting /\ cPc = "done"
      <4>1. cPc' = "done" /\ quitting' = quitting
        BY <1>2, <3>6
        DEF TimedServer, TimedClient, User, ClientStep, ReadAgain, Reading, Connect,
            ConnectFails,
            PauseOver, SendGetFrame, ClientSendFails, ReceiveHeader, ReceiveStopAck,
            HeaderTimeout,
            HeaderClosed, GiveUpServer, ReceiveFrameId, ReceiveJpegSize, ReceiveImage,
            ReadFails, PollNoKey,
            AwaitAck, AckNotReceived, QuitOffline, QuitOnline, clientVars
      <4> QED
        BY <3>6, <4>1 DEF Pace
    <3> QED
      BY <2>3, <3>1, <3>2, <3>3, <3>4, <3>5, <3>6 DEF Pace
  <2> QED
    BY <2>1, <2>2, <2>3 DEF Calm
<1>3. CASE TimedLink
  <2>1. CASE Cut
    BY <2>1 DEF Cut, Calm, Clocks
  <2>2. CASE Mend
    BY <2>2 DEF Mend, PlugCable, Calm, Clocks
  <2>3. CASE Deliver
    <3>1. PICK k \in Conns : Retransmit(k)
      BY <2>3 DEF Deliver
    <3>2. /\ UNCHANGED timing /\ UNCHANGED serverVars /\ UNCHANGED clientVars
          /\ Clocks' /\ cuts' = cuts /\ cable' = cable
      BY <1>3, <2>3, <3>1 DEF TimedLink, Deliver, timing, Retransmit, Calm, Clocks
    <3> QED
      BY <3>1, <3>2, DeliverPace DEF Calm
  <2> QED
    BY <1>3, <2>1, <2>2, <2>3 DEF TimedLink
<1>4. CASE UNCHANGED timedVars
  <2>1. /\ UNCHANGED <<cable, cfd, sfd, backlog, c2s, s2c, c2sIn, s2cIn, cGone, sGone>>
        /\ UNCHANGED <<sPc, cPc, cmdAge, shutAge, quitting, sAge, cAge, cuts>>
    BY <1>4 DEF timedVars, vars, timing, linkVars, serverVars, clientVars
  <2> QED
    BY <2>1
    DEF Calm, Clocks, Pace, Away, Free, Queued, Synced, Served, Rested, Quiet, Asking,
        Capturing,
        Unanswered, Answering, HalfWay, Read, Written, Stopping, Stopped
<1> QED
  BY <1>1, <1>2, <1>3, <1>4 DEF TimedNext

LEMMA InitCalm == TimedInit => Calm
<1> SUFFICES ASSUME TimedInit PROVE Calm
  OBVIOUS
<1>1. cfd = NoFd /\ backlog = <<>> /\ Free
  BY DEF TimedInit, Init, LinkInit, ServerInit, Free
<1>2. ~quitting /\ cable /\ Clocks
  BY DEF TimedInit, Init, LinkInit, ClientInit, Clocks
<1> QED
  BY <1>1, <1>2 DEF Calm, Pace, Away

\* The invariant of this section.
LEMMA AlwaysCalm == InPace /\ TimedSpec => []Calm
<1> SUFFICES ASSUME InPace
             PROVE  TimedSpec => []Calm
  OBVIOUS
<1>1. TypeOK /\ NoGap' /\ Calm /\ [TimedNext]_timedVars => Calm'
  BY NextCalm
<1>2. TimedSpec => []TypeOK /\ []NoGap
  BY TimedImplementsUntimed, TypeCorrect, StreamStaysAligned, AlignedNoGap, PTL
<1> QED
  BY InitCalm, <1>1, <1>2, PTL DEF TimedSpec

\* While the cable holds q stops the server too, for all durations in pace
\* (client_app.cpp:224-255).
THEOREM QuitStopsServer == InPace /\ TimedSpec => []QuitReachesServer
<1> SUFFICES ASSUME InPace
             PROVE  TimedSpec => []QuitReachesServer
  OBVIOUS
<1>1. Calm => QuitReachesServer
  BY DEF Calm, Pace, Stopping, Stopped, QuitReachesServer
<1> QED
  BY AlwaysCalm, <1>1, PTL

LEMMA AtMostOne ==
  ASSUME NEW S \in SUBSET {1}
  PROVE  Cardinality(S) \in {0, 1} /\ Cardinality({}) = 0
<1>1. S = {} \/ S = {1}
  OBVIOUS
<1> QED
  BY <1>1, FS_EmptySet, FS_Singleton

\* Of the requests counted by AnswersKeepUp there is at most one in each phase.
LEMMA CalmKeepsUp ==
  ASSUME TypeOK, Calm
  PROVE  AnswersKeepUp
<1> SUFFICES ASSUME cuts = 0, cfd # NoFd
             PROVE  Outstanding <= 1
  BY DEF AnswersKeepUp
<1> DEFINE C == {i \in 1 .. Len(c2s[cfd]) : c2s[cfd][i] = "GET_FRAME"}
           H == {i \in 1 .. Len(s2c[cfd]) :
                   s2c[cfd][i].part = "header" /\ s2c[cfd][i].of \in FrameAnswers}
           n == IF cfd = sfd /\ sPc \in {"capture", "sendHeader"} THEN 1 ELSE 0
<1>1. /\ cfd \in Conns /\ s2c[cfd] \in Seq(Blocks) /\ c2s[cfd] \in Seq(Commands)
      /\ Len(s2c[cfd]) \in Nat /\ Len(c2s[cfd]) \in Nat
      /\ (s2c[cfd] = <<>> => Len(s2c[cfd]) = 0) /\ (c2s[cfd] = <<>> => Len(c2s[cfd]) = 0)
  BY PaceTypes
<1>2. Outstanding = Cardinality(C) + Cardinality(H) + n
  BY DEF Outstanding
<1>3. /\ c2s[cfd] = <<>> => C = {}
      /\ s2c[cfd] = <<>> => H = {}
      /\ c2s[cfd] = <<"GET_FRAME">> => C \in SUBSET {1}
      /\ c2s[cfd] = <<"STOP">> => C = {}
  BY <1>1
<1> HIDE DEF C, H, n
<1>4. /\ quitting => Stopping \/ Stopped
      /\ ~quitting => Queued \/ Served
  <2>1. cPc # "done"
    BY <1>1 DEF TypeOK, ClientCallOK, Offline
  <2> QED
    BY <2>1 DEF Calm, Pace, Away
<1>5. CASE Stopping
  <2>1. C = {} /\ H = {} /\ n = 0
    BY <1>3, <1>5 DEF Stopping, n
  <2>2. Cardinality(C) = 0 /\ Cardinality(H) = 0
    BY <2>1, AtMostOne
  <2> QED
    BY <1>2, <2>1, <2>2
<1>6. CASE Stopped
  <2>1. C = {} /\ n = 0
    BY <1>6 DEF Stopped, C, n
  <2>2. H = {}
    BY <1>6 DEF Stopped, FrameAnswers, ImageAnswers, SceneErrors, H
  <2>3. Cardinality(C) = 0 /\ Cardinality(H) = 0
    BY <2>1, <2>2, AtMostOne
  <2> QED
    BY <1>2, <2>1, <2>3
<1>7. CASE Queued \/ (Served /\ (Rested \/ Asking \/ Unanswered))
  <2>1. C \in SUBSET {1} /\ H = {}
    BY <1>3, <1>7 DEF Queued, Served, Rested, Asking, Unanswered, Quiet
  <2>2. n = 0
    BY <1>7 DEF Queued, Free, Served, Rested, Asking, Unanswered, n
  <2>3. Cardinality(C) \in {0, 1} /\ Cardinality(H) = 0
    BY <2>1, AtMostOne
  <2> QED
    BY <1>2, <2>2, <2>3
<1>8. CASE Served /\ Capturing
  <2>1. C = {} /\ H = {} /\ n \in {0, 1}
    BY <1>3, <1>8 DEF Capturing, Quiet, n
  <2>2. Cardinality(C) = 0 /\ Cardinality(H) = 0
    BY <2>1, AtMostOne
  <2> QED
    BY <1>2, <2>1, <2>2
<1>9. CASE Served /\ Answering
  <2>1. C = {}
    BY <1>3, <1>9 DEF Answering
  <2>2. H \in SUBSET {1}
    <3>1. \A i \in 2 .. Len(s2c[cfd]) : s2c[cfd][i].part # "header"
      BY <1>9 DEF Answering
    <3>2. \A i \in 1 .. Len(s2c[cfd]) : i = 1 \/ i \in 2 .. Len(s2c[cfd])
      BY <1>1
    <3> QED
      BY <3>1, <3>2 DEF H
  <2>3. n = 0 \/ H = {}
    BY <1>1, <1>3, <1>9 DEF Answering, HalfWay, Read, Written, Sending, n, H
  <2>4. n \in {0, 1}
    BY DEF n
  <2>5. Cardinality(C) = 0
    BY <2>1, AtMostOne
  <2>6. Cardinality(H) \in {0, 1} /\ (H = {} => Cardinality(H) = 0)
    BY <2>2, AtMostOne
  <2> QED
    BY <1>2, <2>3, <2>4, <2>5, <2>6
<1> QED
  BY <1>4, <1>5, <1>6, <1>7, <1>8, <1>9 DEF Served

\* While the cable holds requests do not pile up, for all durations in pace
\* (client_app.cpp:138-151).
THEOREM RequestsDoNotPileUp == InPace /\ TimedSpec => []AnswersKeepUp
<1> SUFFICES ASSUME InPace
             PROVE  TimedSpec => []AnswersKeepUp
  OBVIOUS
<1>1. TypeOK /\ Calm => AnswersKeepUp
  BY CalmKeepsUp
<1> QED
  BY AlwaysCalm, TimedImplementsUntimed, TypeCorrect, <1>1, PTL
=============================================================================
