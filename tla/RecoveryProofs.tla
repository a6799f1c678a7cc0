---------------------------- MODULE RecoveryProofs ---------------------------
(***************************************************************************)
(* The server is out of a broken session before the client gives it up,    *)
(* for all durations that leave it the time to (Client/inc/config.h:22-24).*)
(*                                                                         *)
(* What is known of the client's patience depends on the cable. In its     *)
(* first outage the server hears nothing more, and its silence is as long  *)
(* as what the client waits in vain. When the cable is back, TCP waits at  *)
(* most as long as the outage lasted. Then nothing is on the way that has  *)
(* not arrived, and only captures take time.                               *)
(***************************************************************************)
EXTENDS TimedSystemProofs, DialogueProofs

-----------------------------------------------------------------------------
(* The invariant.                                                          *)

\* The server may be silent until its idle limit twice over, once in the outage and
\* once while TCP waits, and the client has still not given it up (2386 ms of 3000
\* with the config.h of the two programs, a camera at 30 images a second, and the
\* 200 ms of Linux).
Forbearing == 2 * (IdleTimeout + RecvPeriod + CaptureTime) + Rto < LinkTimeout

\* How long the client has waited for what it is waiting for.
Patience == IF quitting THEN readAge ELSE respAge

\* The clocks of the two programs, the history of the cable, and what a server that
\* has stopped leaves.
ClocksAgree ==
  /\ readAge <= Patience
  /\ sPc = "recv" => sAge <= RecvPeriod
  /\ sPc = "capture" => sAge <= CaptureTime
  /\ sPc \notin {"recv", "capture"} => sAge = 0
  /\ sPc # "down"
  /\ sPc = "done" => ~listening /\ backlog = <<>>
  /\ out \in Nat /\ mended \in Nat
  /\ cuts = 0 => cable /\ late = {}
  /\ ~cable => mended = 0

\* The server holds the connection of the client, accepted or not.
Held == cfd # NoFd /\ ServerHolds(cfd)

\* It holds no other: none is left half open.
NoneHalfOpen == cPc # "done" => \A k \in Conns : ServerHolds(k) => k = cfd

\* A kernel has yet to deliver something on it.
Behind == c2sIn[cfd] < Len(c2s[cfd]) \/ s2cIn[cfd] < Len(s2c[cfd])

\* How long the server has read nothing.
Silence ==
  CASE sPc = "accept"  -> 0
    [] sPc = "expired" -> IdleTimeout + RecvPeriod
    [] OTHER           -> IF cmdAge < IdleTimeout THEN cmdAge ELSE IdleTimeout + sAge

\* There is room for what the server still has to send of an answer.
Room ==
  /\ sPc \in {"accept", "capture", "sendHeader", "ack"} => s2c[cfd] = <<>>
  /\ sPc = "sendFrameId" => Len(s2c[cfd]) <= 1
  /\ sPc = "sendJpegSize" => Len(s2c[cfd]) <= 2
  /\ sPc = "sendImage" => Len(s2c[cfd]) <= 3

\* The server still has a command to read that arrived before the cut.
LastCommand ==
  /\ sPc \in {"accept", "recv"} /\ c2sIn[cfd] = 1 /\ s2c[cfd] = <<>>
  /\ Patience <= CaptureTime /\ out = 0

\* The cable is out.
Outage ==
  /\ Room
  /\ sPc \in {"capture"} \cup Sending => cmdAge < IdleTimeout
  /\ sPc = "capture" => cmdAge <= sAge
  /\ c2sIn[cfd] = 0 \/ LastCommand \/ sPc \in {"ack", "exit"}
  /\ Patience <= CaptureTime + Silence /\ out <= Silence

\* The longest the client has waited when the server leaves in an outage.
OutageLimit == CaptureTime + IdleTimeout + RecvPeriod

\* The cable is back, and TCP still waits.
Late ==
  /\ cfd \in late /\ cuts = 1
  /\ Patience <= OutageLimit + mended
  /\ mended <= out + Rto /\ out <= IdleTimeout + RecvPeriod

\* The longest the client has waited when all has been delivered.
Before == IF cuts = 0 THEN 0 ELSE OutageLimit + IdleTimeout + RecvPeriod + Rto

\* All has been delivered: what the client waits for longer is one capture.
Flow ==
  \/ Patience <= Before
  \/ sPc = "capture" /\ cPc \notin Reading /\ Patience <= Before + sAge
  \/ /\ cPc \notin Reading /\ Patience <= Before + CaptureTime
     /\ sPc = "sendHeader" \/ s2c[cfd] # <<>>

\* On a connection that the server holds the client keeps waiting.
KeepsWaiting ==
  Held => IF ~cable THEN Outage ELSE IF Behind THEN Late ELSE Flow

\* And it gives up none that the server holds.
GivesUpAlone == cPc = "giveUp" => ~Held

Recovers ==
  ClocksAgree /\ (cuts <= 1 => NoneHalfOpen /\ GivesUpAlone /\ KeepsWaiting)

-----------------------------------------------------------------------------
(* The clocks.                                                             *)

\* The types the proofs of this module use.
LEMMA WaitTypes ==
  ASSUME TypeOK
  PROVE  /\ RecvPeriod \in Nat \ {0} /\ CaptureTime \in Nat /\ IdleTimeout \in Nat \ {0}
         /\ LinkTimeout \in Nat \ {0} /\ Rto \in Nat /\ MaxOut \in Nat /\ ReconnectPeriod \in Nat
         /\ respAge \in 0 .. LinkTimeout /\ readAge \in 0 .. LinkTimeout
         /\ cmdAge \in 0 .. IdleTimeout /\ quitting \in BOOLEAN /\ Patience \in Nat
  BY TimedAssumption, ServerAssumption, ClientAssumption
  DEF TypeOK, ServerTypeOK, ClientTypeOK, Patience

LEMMA PatienceType ==
  ASSUME TypeOK'
  PROVE  Patience' \in Nat
  BY DEF TypeOK, ClientTypeOK, Patience

\* No step of the server is another's.
LEMMA ServerClocks ==
  ASSUME TypeOK, Clocks, ClocksAgree, TimedServer
  PROVE  ClocksAgree'
<1>1. sAge' = 0 /\ UNCHANGED <<respAge, readAge, quitting, mended, out, late, cuts>>
  BY DEF TimedServer, clientVars
<1>2. cable' = cable /\ sPc' # "down"
  BY DEF TimedServer, ClocksAgree, RecvAgain, ServerStep, WaitForClient, ReceiveCommand,
     RecvTimeout,
     GiveUpClient, RecvClosed, CaptureFails, AnswerGetFrame, SendHeader, SendFrameId,
     SendJpegSize,
     SendImage, ServerSendFails, HandleStop, ServerExit, EndSession, ServerAccept,
     ServerRead,
     ServerWrite, ServerClose, ServerVanish, ServerDrop, linkVars, serverVars
<1>3. sPc' = "done" => ~listening' /\ backlog' = <<>>
  BY DEF TimedServer, ClocksAgree, RecvAgain, NoCommand, ServerStep, WaitForClient,
     ReceiveCommand,
     RecvTimeout, GiveUpClient, RecvClosed, CaptureFails, AnswerGetFrame, SendHeader,
     SendFrameId, SendJpegSize,
     SendImage, ServerSendFails, HandleStop, ServerExit, EndSession, ServerVanish,
     serverVars
<1>4. Patience' = Patience
  BY <1>1 DEF Patience
<1> QED
  BY <1>1, <1>2, <1>3, <1>4, WaitTypes DEF ClocksAgree

\* Nor of the client; its steps shorten its wait, if they change it.
LEMMA ClientClocks ==
  ASSUME TypeOK, QuitTimes, ClocksAgree, TimedClient \/ User
  PROVE  /\ ClocksAgree'
         /\ cfd # NoFd => Patience' <= Patience
         /\ cPc \notin Reading =>
              Patience' = 0 \/ (cPc' \notin Reading /\ (cfd # NoFd /\ cfd' = cfd => s2c' = s2c))
<1>1. /\ UNCHANGED <<sAge, mended, out, late, cuts, sPc>>
      /\ readAge \in Nat /\ respAge \in Nat /\ LinkTimeout \in Nat
      /\ quitting \in BOOLEAN /\ readAge <= Patience
      /\ cPc \notin Reading => readAge = 0
  BY WaitTypes DEF TimedClient, User, serverVars, ClocksAgree, QuitTimes
<1>2. /\ cable' = cable
      /\ UNCHANGED <<listening, backlog>> \/ Connect
  BY DEF TimedClient, User, ClientStep, ReadAgain, linkVars, ConnectFails,
     PauseOver, SendGetFrame, ClientSendFails, ReceiveHeader, ReceiveStopAck, HeaderTimeout,
     HeaderClosed, GiveUpServer, ReceiveFrameId, ReceiveJpegSize, ReceiveImage, ReadFails,
     PollNoKey, AwaitAck,
     AckNotReceived, QuitOffline, QuitOnline, ClientWrite, ClientRead, ClientClose,
     LinkLost, Finish, Abandon, GivesUp, Connect, ClientConnect
<1>3. sPc' = "done" => ~listening' /\ backlog' = <<>>
  BY <1>1, <1>2 DEF ClocksAgree, Connect, Reachable, ClientConnect
<1>4. ASSUME readAge' <= Patience'
      PROVE  ClocksAgree'
  BY <1>1, <1>2, <1>3, <1>4 DEF ClocksAgree
<1>5. ASSUME UNCHANGED <<quitting, respAge>>, readAge' = 0
      PROVE  readAge' <= Patience' /\ Patience' <= Patience
  BY <1>1, <1>5 DEF Patience
<1>6. ASSUME UNCHANGED <<quitting, respAge, readAge>>
      PROVE  readAge' <= Patience' /\ Patience' <= Patience
  BY <1>1, <1>6 DEF Patience
<1>7. ASSUME LinkLost \/ Finish \/ GivesUp
      PROVE  /\ readAge' <= Patience' /\ Patience' <= Patience /\ cPc' \notin Reading
             /\ cfd # NoFd /\ cfd' = cfd => s2c' = s2c
  BY <1>5, <1>7 DEF LinkLost, Finish, GivesUp, ClientClose, linkVars, Reading
<1>8. CASE \/ ClientSendFails \/ ReceiveStopAck \/ HeaderClosed \/ GiveUpServer \/ ReadFails
           \/ AckNotReceived \/ (HeaderTimeout /\ GivesUp)
  <2>1. LinkLost \/ Finish \/ GivesUp
    BY <1>8 DEF ClientSendFails, ReceiveStopAck, HeaderClosed, GiveUpServer, ReadFails,
       AckNotReceived, Abandon
  <2> QED
    BY <1>4, <1>7, <2>1
<1>9. CASE ReceiveFrameId \/ ReceiveJpegSize \/ ReceiveImage
  <2>1. UNCHANGED <<quitting, respAge>> /\ readAge' = 0 /\ cPc \in Reading
    BY <1>9 DEF ReceiveFrameId, ReceiveJpegSize, ReceiveImage, Reading
  <2> QED
    BY <1>4, <1>5, <2>1
<1>10. CASE \/ ReadAgain \/ ConnectFails \/ PauseOver \/ SendGetFrame \/ PollNoKey \/ AwaitAck
            \/ QuitOffline \/ (HeaderTimeout /\ ~GivesUp)
  <2>1. UNCHANGED <<quitting, respAge, readAge, s2c>> /\ (cPc \notin Reading => cPc' \notin Reading)
    BY <1>10
    DEF ReadAgain, ConnectFails, PauseOver, SendGetFrame, PollNoKey, AwaitAck, QuitOffline,
        HeaderTimeout, ClientWrite, linkVars, clientVars, Reading
  <2> QED
    BY <1>4, <1>6, <2>1
<1>11. CASE ReceiveHeader
  <2>1. /\ readAge' = 0 /\ (quitting' <=> quitting)
        /\ respAge' = IF quitting THEN respAge ELSE 0
    BY <1>1, <1>11 DEF ReceiveHeader, Reading
  <2>2. Patience' = 0
    BY <2>1 DEF Patience
  <2> QED
    BY <1>1, <1>4, <2>1, <2>2, WaitTypes
<1>12. CASE Connect \/ QuitOnline
  <2>1. readAge' = 0 /\ Patience' = 0
    <3>1. CASE Connect
      <4>1. ~quitting /\ (quitting' <=> quitting) /\ respAge' = 0 /\ readAge' = 0
        BY <1>1, <3>1 DEF Connect, QuitTimes, Reading
      <4> QED
        BY <4>1 DEF Patience
    <3>2. CASE QuitOnline
      <4>1. quitting' /\ readAge' = 0
        BY <1>1, <3>2 DEF QuitOnline, Reading
      <4> QED
        BY <4>1 DEF Patience
    <3> QED
      BY <1>12, <3>1, <3>2
  <2> QED
    BY <1>4, <2>1, WaitTypes
<1> QED
  BY <1>8, <1>9, <1>10, <1>11, <1>12 DEF TimedClient, User, ClientStep

\* Time passes for both alike.
LEMMA TickClocks ==
  ASSUME TypeOK, QuitTimes, Clocks, ClocksAgree, TimedTick
  PROVE  /\ ClocksAgree'
         /\ Patience' <= Patience + 1 /\ (quitting /\ cPc = "header" => Patience' = 0)
<1>1. /\ UNCHANGED linkVars /\ UNCHANGED <<sPc, cPc, cuts>> /\ (quitting' <=> quitting)
      /\ respAge' = IF cPc \notin Offline /\ ~quitting
                      THEN Older(respAge, LinkTimeout) ELSE respAge
      /\ readAge' = IF cPc \in Reading THEN Older(readAge, LinkTimeout) ELSE readAge
      /\ sAge' = IF sPc \in {"recv", "capture"} THEN sAge + 1 ELSE 0
      /\ mended' = IF cable THEN Older(mended, Reunited + 1) ELSE 0
      /\ out' = IF ~cable THEN Older(out, MaxOut) ELSE IF mended > Reunited THEN 0 ELSE out
      /\ late' = IF cable THEN {k \in late : Undelivered(k)} ELSE late
      /\ ServerMayWait
  BY DEF TimedTick, Tick
<1>2. /\ RecvPeriod \in Nat /\ CaptureTime \in Nat /\ LinkTimeout \in Nat
      /\ respAge \in 0 .. LinkTimeout /\ readAge \in 0 .. LinkTimeout /\ quitting \in BOOLEAN
      /\ out \in Nat /\ mended \in Nat /\ sAge \in Nat
  BY WaitTypes DEF Clocks, ClocksAgree
<1>3. /\ readAge' \in Nat /\ respAge' \in Nat /\ readAge' <= readAge + 1
      /\ respAge' <= respAge + 1
  BY <1>1, <1>2 DEF Older
<1>4. /\ sPc' = "recv" => sAge' <= RecvPeriod
      /\ sPc' = "capture" => sAge' <= CaptureTime
      /\ sPc' \notin {"recv", "capture"} => sAge' = 0
  BY <1>1, <1>2 DEF ServerMayWait, NoCommand, ServerStuck, Sending
<1>5. Reunited \in Nat /\ MaxOut \in Nat
  BY <1>2, WaitTypes DEF Reunited
<1>6. out' \in Nat /\ mended' \in Nat /\ (~cable' => mended' = 0)
  BY <1>1, <1>2, <1>5 DEF Older, linkVars
<1>7. ASSUME readAge' <= Patience'
      PROVE  ClocksAgree'
  BY <1>1, <1>4, <1>6, <1>7 DEF ClocksAgree, linkVars
<1>8. CASE quitting
  <2>1. Patience = readAge /\ Patience' = readAge'
    BY <1>1, <1>8 DEF Patience
  <2>2. cPc = "header" => readAge' = 0
    BY <1>1 DEF QuitTimes, Reading
  <2> QED
    BY <1>3, <1>7, <2>1, <2>2
<1>9. CASE ~quitting
  <2>1. Patience = respAge /\ Patience' = respAge'
    BY <1>1, <1>9 DEF Patience
  <2>2. readAge <= respAge
    BY <2>1 DEF ClocksAgree
  <2>3. cPc \in Reading => cPc \notin Offline
    BY DEF Reading, Offline
  <2>4. readAge' <= respAge'
    BY <1>1, <1>2, <1>9, <2>2, <2>3 DEF Older
  <2> QED
    BY <1>3, <1>7, <1>9, <2>1, <2>4
<1> QED
  BY <1>8, <1>9

LEMMA NextClocks ==
  ASSUME TypeOK, QuitTimes, Clocks, ClocksAgree, [TimedNext]_timedVars
  PROVE  ClocksAgree'
<1>1. CASE TimedServer
  BY <1>1, ServerClocks
<1>2. CASE TimedClient \/ User
  BY <1>2, ClientClocks
<1>3. CASE TimedTick
  BY <1>3, TickClocks
<1>4. CASE TimedLink
  <2>1. /\ UNCHANGED <<sPc, sAge, listening, backlog, readAge>> /\ Patience' = Patience
    BY <1>4 DEF TimedLink, Cut, Mend, Deliver, CutCable, PlugCable, Retransmit, timing,
       serverVars, clientVars, Patience
  <2>2. CASE Cut
    BY <2>1, <2>2 DEF Cut, ClocksAgree, Clocks
  <2>3. CASE Mend
    BY <2>1, <2>3 DEF Mend, PlugCable, ClocksAgree
  <2>4. CASE Deliver
    BY <2>1, <2>4 DEF Deliver, Retransmit, timing, ClocksAgree
  <2> QED
    BY <1>4, <2>2, <2>3, <2>4 DEF TimedLink
<1>5. CASE UNCHANGED timedVars
  <2>1. /\ UNCHANGED <<sPc, sAge, listening, backlog, readAge, out, mended, late, cuts, cable>>
        /\ Patience' = Patience
    BY <1>5 DEF timedVars, vars, timing, linkVars, serverVars, clientVars, Patience
  <2> QED
    BY <2>1 DEF ClocksAgree
<1> QED
  BY <1>1, <1>2, <1>3, <1>4, <1>5 DEF TimedNext

\* The silence of a server that holds the connection has its limit.
LEMMA SilenceBound ==
  ASSUME TypeOK, Clocks, ClocksAgree, Outage
  PROVE  Silence \in Nat /\ Silence <= IdleTimeout + RecvPeriod
<1>1. /\ RecvPeriod \in Nat /\ IdleTimeout \in Nat \ {0} /\ cmdAge \in 0 .. IdleTimeout
      /\ sAge \in Nat /\ sPc \in ServerPcs
  BY WaitTypes DEF Clocks, TypeOK, ServerTypeOK
<1>2. cmdAge < IdleTimeout \/ sAge <= RecvPeriod
  BY <1>1 DEF Outage, ClocksAgree
<1> QED
  BY <1>1, <1>2 DEF Silence

\* It is not reached on a connection that the server holds.
LEMMA HeldPatience ==
  ASSUME TypeOK, Clocks, Forbearing, ClocksAgree, KeepsWaiting, Held
  PROVE  Patience < LinkTimeout
<1>1. /\ RecvPeriod \in Nat /\ CaptureTime \in Nat /\ IdleTimeout \in Nat \ {0}
      /\ LinkTimeout \in Nat \ {0} /\ Rto \in Nat /\ Patience \in Nat
      /\ out \in Nat /\ mended \in Nat /\ sAge \in Nat
      /\ 2 * (IdleTimeout + RecvPeriod + CaptureTime) + Rto < LinkTimeout
  BY WaitTypes DEF Clocks, ClocksAgree, Forbearing
<1>2. CASE ~cable
  <2>1. Outage
    BY <1>2 DEF KeepsWaiting
  <2>2. Patience <= CaptureTime + Silence /\ Silence \in Nat /\ Silence <= IdleTimeout + RecvPeriod
    BY <2>1, SilenceBound DEF Outage
  <2> QED
    BY <1>1, <2>2
<1>3. CASE cable /\ Behind
  <2>1. Late
    BY <1>3 DEF KeepsWaiting
  <2> QED
    BY <1>1, <2>1 DEF Late, OutageLimit
<1>4. CASE cable /\ ~Behind
  <2>1. Flow
    BY <1>4 DEF KeepsWaiting
  <2>2. Patience <= Before + CaptureTime
    <3>1. sPc = "capture" => sAge <= CaptureTime
      BY DEF ClocksAgree
    <3>2. Before \in Nat
      BY <1>1 DEF Before, OutageLimit
    <3> QED
      BY <1>1, <2>1, <3>1, <3>2 DEF Flow
  <2> QED
    BY <1>1, <2>2 DEF Before, OutageLimit
<1> QED
  BY <1>2, <1>3, <1>4

-----------------------------------------------------------------------------
(* No session is left half open.                                           *)

\* Only the client changes its connection.
LEMMA OthersKeepConnection ==
  ASSUME TimedServer \/ TimedLink \/ TimedTick \/ UNCHANGED timedVars
  PROVE  cfd' = cfd
<1>1. CASE TimedServer
  <2>1. \/ UNCHANGED linkVars \/ ServerAccept \/ ServerRead \/ ServerClose \/ ServerVanish
        \/ \E p : ServerWrite(p)
    BY <1>1
    DEF TimedServer, RecvAgain, ServerStep, WaitForClient, ReceiveCommand, RecvTimeout,
        GiveUpClient, RecvClosed, CaptureFails, AnswerGetFrame, SendHeader, SendFrameId,
        SendJpegSize,
        SendImage, ServerSendFails, HandleStop, ServerExit, EndSession
  <2> QED
    BY <2>1 DEF linkVars, ServerAccept, ServerRead, ServerClose, ServerVanish, ServerDrop,
       ServerWrite
<1>2. CASE TimedLink \/ TimedTick \/ UNCHANGED timedVars
  BY <1>2 DEF TimedLink, Cut, Mend, Deliver, CutCable, PlugCable, Retransmit, TimedTick,
     Tick,
     timedVars, vars, linkVars
<1> QED
  BY <1>1, <1>2

\* The client leaves a connection that the server holds only to end.
LEMMA LeavesUnheld ==
  ASSUME TypeOK, NewsIsTrue, GivesUpAlone, [TimedNext]_timedVars, cPc' # "done", Held
  PROVE  cfd' = cfd
<1>1. cfd \in Conns /\ cPc \notin Offline /\ ~sGone[cfd] /\ cPc # "giveUp"
  BY PaceTypes DEF Held, NewsIsTrue, GivesUpAlone, TypeOK, ClientCallOK
<1>2. CASE TimedServer \/ TimedLink \/ TimedTick \/ UNCHANGED timedVars
  BY <1>2, OthersKeepConnection
<1>3. CASE TimedClient \/ User
  <2>1. ~ClientSendFails /\ ~HeaderClosed /\ ~GiveUpServer /\ (ReadFails => GivesUp)
    BY <1>1 DEF ClientSendFails, HeaderClosed, ClientSeesClose, GiveUpServer, ReadFails
  <2>2. /\ ~Connect /\ ~ConnectFails /\ ~PauseOver /\ ~QuitOffline
        /\ ~ReceiveStopAck /\ ~AckNotReceived
    BY <1>1 DEF Connect, ConnectFails, PauseOver, QuitOffline, Offline, ReceiveStopAck,
       AckNotReceived, Finish
  <2>3. \/ UNCHANGED linkVars \/ ClientRead \/ \E cmd : ClientWrite(cmd)
    BY <1>3, <2>1, <2>2
    DEF TimedClient, User, ClientStep, ReadAgain, SendGetFrame, ReceiveHeader,
        HeaderTimeout,
        ReceiveFrameId, ReceiveJpegSize, ReceiveImage, PollNoKey, AwaitAck, QuitOnline,
        GivesUp
  <2> QED
    BY <2>3 DEF ClientRead, ClientWrite, linkVars
<1> QED
  BY <1>2, <1>3 DEF TimedNext

\* The client that has ended is not started again.
LEMMA DoneForGood ==
  ASSUME [TimedNext]_timedVars, cPc = "done"
  PROVE  cPc' = "done"
  BY DEF TimedNext, TimedServer, TimedClient, User, ClientStep, ReadAgain, Reading, Connect,
     ConnectFails, PauseOver, SendGetFrame, ClientSendFails, ReceiveHeader, ReceiveStopAck,
     HeaderTimeout, HeaderClosed, GiveUpServer, ReceiveFrameId, ReceiveJpegSize,
     ReceiveImage, ReadFails,
     PollNoKey, AwaitAck, AckNotReceived, QuitOffline, QuitOnline, TimedLink, TimedTick,
     Tick,
     timedVars, vars, clientVars

LEMMA NextHalfOpen ==
  ASSUME TypeOK, NewsIsTrue, NoneHalfOpen, GivesUpAlone, [TimedNext]_timedVars
  PROVE  NoneHalfOpen'
<1> SUFFICES ASSUME cPc' # "done", NEW k \in Conns, ServerHolds(k)'
             PROVE  k = cfd'
  BY DEF NoneHalfOpen
<1>1. ServerHolds(k) \/ ClientConnect(k)
  BY TimedStep, HeldSinceConnect
<1>2. CASE ClientConnect(k)
  BY <1>2 DEF ClientConnect
<1>3. CASE ServerHolds(k)
  <2>1. k = cfd /\ Held
    BY <1>3, DoneForGood, LinkAssumption DEF NoneHalfOpen, Held
  <2> QED
    BY <2>1, LeavesUnheld
<1> QED
  BY <1>1, <1>2, <1>3

\* The client waits on a connection the server holds until its patience ends.
LEMMA NextGivesUpAlone ==
  ASSUME TypeOK, Clocks, NewsIsTrue, Forbearing, ClocksAgree, KeepsWaiting, GivesUpAlone,
         [TimedNext]_timedVars
  PROVE  GivesUpAlone'
<1> SUFFICES ASSUME cPc' = "giveUp", Held'
             PROVE  FALSE
  BY DEF GivesUpAlone
<1>1. CASE cPc = "giveUp" /\ cfd' = cfd
  <2>1. cfd \in Conns
    BY <1>1, PaceTypes DEF TypeOK, ClientCallOK, Offline
  <2>2. ServerHolds(cfd)'
    BY DEF Held
  <2>3. ServerHolds(cfd) \/ ClientConnect(cfd)
    BY <1>1, <2>1, <2>2, TimedStep, HeldSinceConnect DEF ServerHolds, Backlogged
  <2> QED
    BY <1>1, <2>1, <2>3, PaceTypes DEF GivesUpAlone, Held, ClientConnect
<1>2. CASE GivesUp /\ (HeaderTimeout \/ ReadFails)
  <2>1. UNCHANGED linkVars
    BY <1>2 DEF GivesUp
  <2>2. Held
    BY <2>1 DEF linkVars, Held, ServerHolds, Backlogged
  <2>3. Patience >= LinkTimeout
    <3>1. CASE HeaderTimeout
      <4>1. cPc = "header" /\ cPc' = "giveUp"
        BY <1>2, <3>1 DEF HeaderTimeout, GivesUp
      <4>2. ~quitting /\ respAge >= LinkTimeout
        BY <3>1, <4>1 DEF HeaderTimeout
      <4> QED
        BY <4>2 DEF Patience
    <3>2. CASE ReadFails
      <4>1. readAge >= LinkTimeout
        <5>1. ~sGone[cfd]
          BY <2>2, PaceTypes DEF Held, NewsIsTrue
        <5> QED
          BY <3>2, <5>1 DEF ReadFails
      <4> QED
        BY <4>1, WaitTypes DEF ClocksAgree
    <3> QED
      BY <1>2, <3>1, <3>2
  <2> QED
    BY <2>2, <2>3, HeldPatience, WaitTypes
<1>3. CASE TimedServer \/ TimedLink \/ TimedTick \/ UNCHANGED timedVars
  <2>1. cPc' = cPc
    BY <1>3 DEF TimedServer, TimedLink, TimedTick, Tick, timedVars, vars, clientVars
  <2>2. cfd' = cfd
    BY <1>3, OthersKeepConnection
  <2> QED
    BY <1>1, <2>1, <2>2
<1>4. CASE TimedClient \/ User
  <2>1. cPc # "giveUp" => GivesUp /\ (HeaderTimeout \/ ReadFails)
    BY <1>4
    DEF TimedClient, User, ClientStep, ReadAgain, Connect, ConnectFails, PauseOver,
        SendGetFrame,
        ClientSendFails, ReceiveHeader, ReceiveStopAck, HeaderTimeout, HeaderClosed,
        GiveUpServer, ReceiveFrameId, ReceiveJpegSize, ReceiveImage, ReadFails, PollNoKey,
        AwaitAck, AfterAnswer,
        AckNotReceived, QuitOffline, QuitOnline, LinkLost, Finish, Abandon, clientVars
  <2>2. ~(cPc = "giveUp")
    BY <1>4
    DEF TimedClient, User, ClientStep, ReadAgain, Reading, Connect, ConnectFails, PauseOver,
        SendGetFrame, ClientSendFails, ReceiveHeader, ReceiveStopAck, HeaderTimeout,
        HeaderClosed,
        GiveUpServer, ReceiveFrameId, ReceiveJpegSize, ReceiveImage, ReadFails, PollNoKey,
        AwaitAck,
        AckNotReceived, QuitOffline, QuitOnline, LinkLost, Finish, Abandon
  <2> QED
    BY <1>2, <2>1, <2>2
<1> QED
  BY <1>3, <1>4 DEF TimedNext

-----------------------------------------------------------------------------
(* What the programs do on a connection that both hold.                    *)

\* What is known of a connection that the server holds.
LEMMA HeldConnection ==
  ASSUME TypeOK, ClocksAgree, NoneHalfOpen, Held
  PROVE  /\ cfd \in Conns /\ cPc \notin Offline
         /\ c2s[cfd] \in Seq(Commands) /\ s2c[cfd] \in Seq(Blocks)
         /\ c2sIn[cfd] \in Nat /\ s2cIn[cfd] \in Nat
         /\ c2sIn[cfd] <= Len(c2s[cfd]) /\ s2cIn[cfd] <= Len(s2c[cfd])
         /\ \/ sPc = "accept" /\ sfd = NoFd /\ Backlogged(cfd) /\ backlog # <<>>
            \/ sPc \notin {"accept", "done", "down"} /\ sfd = cfd
<1>1. cfd \in Conns /\ cPc \notin Offline
  BY PaceTypes DEF Held, TypeOK, ClientCallOK
<1>2. /\ c2sIn[cfd] <= Len(c2s[cfd]) /\ s2cIn[cfd] <= Len(s2c[cfd])
  BY <1>1 DEF TypeOK, ArrivedOK
<1>3. CASE sfd = NoFd
  <2>1. Backlogged(cfd)
    BY <1>1, <1>3, PaceTypes DEF Held, ServerHolds
  <2>2. backlog # <<>>
    BY <2>1 DEF Backlogged
  <2>3. sPc = "accept"
    BY <1>3, <2>2 DEF TypeOK, ServerCallOK, ClocksAgree
  <2> QED
    BY <1>1, <1>2, <1>3, <2>1, <2>2, <2>3, PaceTypes
<1>4. CASE sfd # NoFd
  <2>1. sfd = cfd
    BY <1>1, <1>4, PaceTypes DEF NoneHalfOpen, ServerHolds, Offline
  <2> QED
    BY <1>1, <1>2, <1>4, <2>1, PaceTypes DEF TypeOK, ServerCallOK
<1> QED
  BY <1>3, <1>4

\* A client that stays reads, writes, or leaves the link alone.
LEMMA ClientStays ==
  ASSUME TypeOK, cfd # NoFd, cfd' = cfd, TimedClient \/ User
  PROVE  UNCHANGED linkVars \/ ClientRead \/ \E cmd \in Commands : ClientWrite(cmd)
<1>1. ~Finish /\ ~LinkLost /\ ~Abandon
  BY DEF Finish, LinkLost, Abandon, ClientClose
<1>2. ~Connect
  BY DEF Connect, ClientConnect
<1> QED
  BY <1>1, <1>2
  DEF TimedClient, User, ClientStep, ReadAgain, ConnectFails, PauseOver, SendGetFrame,
      ClientSendFails, ReceiveHeader, ReceiveStopAck, HeaderTimeout, HeaderClosed,
      GiveUpServer,
      ReceiveFrameId, ReceiveJpegSize, ReceiveImage, ReadFails, GivesUp, PollNoKey,
      AwaitAck, AckNotReceived,
      QuitOffline, QuitOnline, Commands

\* A server that stays does not close.
LEMMA ServerStays ==
  ASSUME TypeOK, ClocksAgree, NoneHalfOpen, Held, Held', TimedServer, "capture" \notin Faults
  PROVE  \/ WaitForClient /\ sfd' = cfd
         \/ ReceiveCommand \/ RecvTimeout \/ RecvAgain
         \/ AnswerGetFrame \/ SendHeader \/ SendFrameId \/ SendJpegSize \/ SendImage \/ HandleStop
<1>1. cfd' = cfd
  BY OthersKeepConnection
<1>2. ~ServerClose \/ sfd # cfd
  BY <1>1, ClosedIsNotHeld, HeldConnection DEF Held, ServerHolds, Backlogged
<1>3. ~ServerVanish
  BY <1>1, VanishedHoldsNone, HeldConnection DEF Held, ServerHolds, Backlogged
<1>4. ~GiveUpClient /\ ~RecvClosed /\ ~ServerSendFails /\ ~ServerExit
  BY <1>2, <1>3, HeldConnection
  DEF GiveUpClient, RecvClosed, ServerSendFails, ServerExit, EndSession, Sending
<1>5. WaitForClient => sfd' = cfd
  <2> SUFFICES ASSUME WaitForClient PROVE sfd' = cfd
    OBVIOUS
  <2>1. backlog \in Seq(Conns) /\ backlog # <<>> /\ sfd' = Head(backlog)
    BY DEF WaitForClient, ServerAccept, TypeOK, LinkTypeOK
  <2>2. Head(backlog) \in Conns /\ ServerHolds(Head(backlog))
    BY <2>1 DEF ServerHolds, Backlogged
  <2> QED
    BY <2>1, <2>2, HeldConnection DEF NoneHalfOpen, Offline
<1> QED
  BY <1>4, <1>5 DEF TimedServer, ServerStep, CaptureFails

\* With the cable in, a connection on which all has arrived stays so.
LEMMA StaysSynced ==
  ASSUME TypeOK, NewsIsTrue, ClocksAgree, NoneHalfOpen, Held, cable, ~Behind, cfd' = cfd,
         \/ UNCHANGED <<c2s, s2c, c2sIn, s2cIn>>
         \/ ClientRead
         \/ ServerRead /\ sfd = cfd
         \/ \E cmd \in Commands : ClientWrite(cmd)
         \/ \E p \in Blocks : ServerWrite(p) /\ sfd = cfd
         \/ \E k \in Conns : Retransmit(k)
  PROVE  ~Behind'
<1>1. /\ cfd \in Conns /\ c2s[cfd] \in Seq(Commands) /\ s2c[cfd] \in Seq(Blocks)
      /\ c2sIn[cfd] = Len(c2s[cfd]) /\ s2cIn[cfd] = Len(s2c[cfd])
  BY HeldConnection DEF Behind
<1>2. CASE UNCHANGED <<c2s, s2c, c2sIn, s2cIn>>
  BY <1>2 DEF Behind
<1>3. CASE ClientRead
  <2>1. s2c'[cfd] = Tail(s2c[cfd]) /\ s2cIn'[cfd] = Len(s2c[cfd]) - 1 /\ s2c[cfd] # <<>>
    BY <1>1, <1>3, PaceTypes DEF ClientRead
  <2>2. Len(Tail(s2c[cfd])) = Len(s2c[cfd]) - 1
    BY <1>1, <2>1
  <2>3. UNCHANGED <<c2s, c2sIn>>
    BY <1>3 DEF ClientRead
  <2> QED
    BY <1>1, <2>1, <2>2, <2>3 DEF Behind
<1>4. CASE ServerRead /\ sfd = cfd
  <2>1. c2s'[cfd] = Tail(c2s[cfd]) /\ c2sIn'[cfd] = Len(c2s[cfd]) - 1 /\ c2s[cfd] # <<>>
    BY <1>1, <1>4, PaceTypes DEF ServerRead
  <2>2. Len(Tail(c2s[cfd])) = Len(c2s[cfd]) - 1
    BY <1>1, <2>1
  <2>3. UNCHANGED <<s2c, s2cIn>>
    BY <1>4 DEF ServerRead
  <2> QED
    BY <1>1, <2>1, <2>2, <2>3 DEF Behind
<1>5. ASSUME NEW cmd \in Commands, ClientWrite(cmd)
      PROVE  ~Behind'
  <2>1. /\ c2s'[cfd] = Append(c2s[cfd], cmd) /\ c2sIn'[cfd] = Len(c2s[cfd]) + 1
        /\ UNCHANGED <<s2c, s2cIn>>
    BY <1>1, <1>5, PaceTypes DEF ClientWrite, Held, Arrived
  <2>2. Len(Append(c2s[cfd], cmd)) = Len(c2s[cfd]) + 1
    BY <1>1
  <2> QED
    BY <1>1, <2>1, <2>2 DEF Behind
<1>6. ASSUME NEW p \in Blocks, ServerWrite(p), sfd = cfd
      PROVE  ~Behind'
  <2>1. /\ s2c'[cfd] = Append(s2c[cfd], p) /\ s2cIn'[cfd] = Len(s2c[cfd]) + 1
        /\ UNCHANGED <<c2s, c2sIn>>
    BY <1>1, <1>6, PaceTypes DEF ServerWrite, Arrived
  <2>2. Len(Append(s2c[cfd], p)) = Len(s2c[cfd]) + 1
    BY <1>1
  <2> QED
    BY <1>1, <2>1, <2>2 DEF Behind
<1>7. ASSUME NEW k \in Conns, Retransmit(k)
      PROVE  ~Behind'
  <2>1. c2s' = c2s
    BY <1>7 DEF Retransmit
  <2>2. CASE RetransmitCommands(k)
    <3>1. /\ c2sIn'[cfd] = c2sIn[cfd] \/ c2sIn'[cfd] = Len(c2s[cfd])
          /\ UNCHANGED <<s2c, s2cIn>>
      BY <1>1, <2>2, PaceTypes DEF RetransmitCommands
    <3> QED
      BY <1>1, <2>1, <3>1 DEF Behind
  <2>3. CASE RetransmitAnswers(k)
    <3>1. /\ s2c'[cfd] = s2c[cfd] /\ c2sIn' = c2sIn
          /\ s2cIn'[cfd] = s2cIn[cfd] \/ s2cIn'[cfd] = Len(s2c[cfd])
      BY <1>1, <2>3, PaceTypes DEF RetransmitAnswers
    <3> QED
      BY <1>1, <2>1, <3>1 DEF Behind
  <2> QED
    BY <1>7, <2>2, <2>3 DEF Retransmit
<1> QED
  BY <1>2, <1>3, <1>4, <1>5, <1>6, <1>7

-----------------------------------------------------------------------------
(* The cable is in.                                                        *)

\* What the limits are made of.
LEMMA Limits ==
  ASSUME TypeOK, Clocks, ClocksAgree
  PROVE  /\ OutageLimit \in Nat /\ Before \in Nat /\ CaptureTime \in Nat /\ Patience \in Nat
         /\ out \in Nat /\ mended \in Nat /\ sAge \in Nat /\ Rto \in Nat
         /\ OutageLimit = CaptureTime + IdleTimeout + RecvPeriod
         /\ IdleTimeout \in Nat \ {0} /\ RecvPeriod \in Nat \ {0}
         /\ cuts = 1 => Before = OutageLimit + IdleTimeout + RecvPeriod + Rto
         /\ sPc = "capture" => sAge <= CaptureTime
<1>1. /\ CaptureTime \in Nat /\ Patience \in Nat /\ out \in Nat /\ mended \in Nat /\ sAge \in Nat
      /\ Rto \in Nat /\ IdleTimeout \in Nat \ {0} /\ RecvPeriod \in Nat \ {0}
      /\ sPc = "capture" => sAge <= CaptureTime
  BY WaitTypes DEF Clocks, ClocksAgree
<1>2. OutageLimit = CaptureTime + IdleTimeout + RecvPeriod /\ OutageLimit \in Nat
  BY <1>1 DEF OutageLimit
<1>3. Before = IF cuts = 0 THEN 0 ELSE OutageLimit + IdleTimeout + RecvPeriod + Rto
  BY DEF Before
<1>4. Before \in Nat
  BY <1>1, <1>2, <1>3
<1>5. cuts = 1 => Before = OutageLimit + IdleTimeout + RecvPeriod + Rto
  BY <1>3
<1> QED
  BY <1>1, <1>2, <1>4, <1>5

\* The programs do not make TCP wait longer, nor the client.
LEMMA LateStep ==
  ASSUME TypeOK, Clocks, ClocksAgree, TypeOK', Late,
         UNCHANGED <<out, late, mended, cuts, cfd>>, Patience' <= Patience
  PROVE  Late' /\ Flow'
<1>1. Before' = Before
  BY DEF Before
<1>2. Patience' \in Nat
  BY PatienceType
<1>3. /\ Patience <= OutageLimit + mended /\ mended <= out + Rto
      /\ out <= IdleTimeout + RecvPeriod /\ cuts = 1
  BY DEF Late
<1>4. Patience' <= OutageLimit + mended /\ Patience' <= Before
  BY <1>2, <1>3, Limits
<1> QED
  BY <1>1, <1>4 DEF Late, Flow, OutageLimit

\* A capture that ends is an answer that is coming.
LEMMA ServerFlow ==
  ASSUME TypeOK, Clocks, ClocksAgree, NewsIsTrue, NoneHalfOpen, "capture" \notin Faults,
         cable, Held, Held', ~Behind, Flow, TimedServer
  PROVE  ~Behind' /\ Flow'
<1>1. /\ cfd' = cfd /\ UNCHANGED <<cPc, cuts>> /\ Before' = Before /\ Patience' = Patience
      /\ sAge' = 0
  BY OthersKeepConnection DEF TimedServer, clientVars, Before, Patience
<1>2. /\ cfd \in Conns /\ s2c[cfd] \in Seq(Blocks)
      /\ sPc \notin {"accept", "done", "down"} => sfd = cfd
      /\ sPc \in Sending => answer \in Answers /\ frameId \in 0 .. FrameIds - 1
  BY HeldConnection DEF TypeOK, ServerTypeOK, ServerCallOK, Answers
<1>3. CASE WaitForClient \/ ReceiveCommand \/ RecvTimeout \/ RecvAgain \/ AnswerGetFrame
  <2>1. /\ \/ UNCHANGED <<c2s, s2c, c2sIn, s2cIn>>
           \/ ServerRead /\ sfd = cfd
        /\ s2c' = s2c
    BY <1>2, <1>3
    DEF WaitForClient, ServerAccept, ReceiveCommand, ServerRead, RecvTimeout, RecvAgain,
        AnswerGetFrame, linkVars
  <2>2. ~Behind'
    BY <1>1, <2>1, StaysSynced
  <2>3. /\ sPc = "capture" => sPc' = "sendHeader"
        /\ sPc # "sendHeader"
    BY <1>3
    DEF WaitForClient, ReceiveCommand, RecvTimeout, RecvAgain, NoCommand, AnswerGetFrame
  <2>4. Flow'
    BY <1>1, <2>1, <2>3, Limits DEF Flow
  <2> QED
    BY <2>2, <2>4
<1>4. CASE SendHeader \/ SendFrameId \/ SendJpegSize \/ SendImage \/ HandleStop
  <2>1. sPc # "capture" /\ sfd = cfd /\ ~cGone[cfd]
    BY <1>2, <1>4 DEF SendHeader, SendFrameId, SendJpegSize, SendImage, HandleStop,
       NewsIsTrue
  <2>2. PICK p \in Blocks : ServerWrite(p)
    BY <1>2, <1>4, <2>1, ServerAssumption
    DEF SendHeader, SendFrameId, SendJpegSize, SendImage, HandleStop, Sending, Blocks,
        Part, PartKinds, Answers
  <2>3. ~Behind'
    BY <1>1, <2>1, <2>2, StaysSynced
  <2>4. s2c'[cfd] = Append(s2c[cfd], p)
    BY <1>2, <2>1, <2>2, PaceTypes DEF ServerWrite
  <2>5. s2c'[cfd] # <<>>
    BY <1>2, <2>4
  <2>6. Flow'
    BY <1>1, <2>1, <2>5, Limits DEF Flow
  <2> QED
    BY <2>3, <2>6
<1> QED
  BY <1>3, <1>4, ServerStays

\* The client reads the header of an answer before anything else of it.
LEMMA ClientFlow ==
  ASSUME TypeOK, TypeOK', QuitTimes, Clocks, ClocksAgree, NewsIsTrue, NoneHalfOpen,
         cable, Held, cfd' = cfd, ~Behind, Flow, TimedClient \/ User
  PROVE  ~Behind' /\ Flow'
<1>1. /\ UNCHANGED <<sPc, sAge, cuts>> /\ Before' = Before /\ cfd # NoFd
  BY DEF TimedClient, User, serverVars, Before, Held
<1>2. ~Behind'
  <2>1. \/ UNCHANGED <<c2s, s2c, c2sIn, s2cIn>> \/ ClientRead
        \/ \E cmd \in Commands : ClientWrite(cmd)
    BY <1>1, ClientStays DEF linkVars
  <2> QED
    BY <2>1, StaysSynced
<1>3. /\ Patience' <= Patience /\ Patience' \in Nat
      /\ cPc \notin Reading => Patience' = 0 \/ (cPc' \notin Reading /\ s2c' = s2c)
  BY <1>1, ClientClocks, PatienceType
<1>4. CASE Patience <= Before \/ Patience' = 0
  BY <1>1, <1>2, <1>3, <1>4, Limits DEF Flow
<1>5. CASE cPc \notin Reading /\ cPc' \notin Reading /\ s2c' = s2c
  <2>1. /\ Patience \in Nat /\ Before \in Nat /\ sAge \in Nat /\ CaptureTime \in Nat
        /\ Patience' \in Nat /\ Patience' <= Patience
    BY <1>3, Limits
  <2>2. Before' = Before /\ sAge' = sAge /\ sPc' = sPc /\ cfd' = cfd
    BY <1>1
  <2>3. CASE Patience <= Before
    BY <1>4, <2>3
  <2>4. CASE sPc = "capture" /\ Patience <= Before + sAge
    <3>1. Patience' <= Before + sAge
      BY <2>1, <2>4
    <3> QED
      BY <1>2, <1>5, <2>2, <2>4, <3>1 DEF Flow
  <2>5. CASE Patience <= Before + CaptureTime /\ (sPc = "sendHeader" \/ s2c[cfd] # <<>>)
    <3>1. Patience' <= Before + CaptureTime
      BY <2>1, <2>5
    <3> QED
      BY <1>2, <1>5, <2>2, <2>5, <3>1 DEF Flow
  <2> QED
    BY <2>3, <2>4, <2>5 DEF Flow
<1> QED
  <2>1. CASE Patience <= Before
    BY <1>4, <2>1
  <2>2. CASE cPc \notin Reading
    BY <1>3, <1>4, <1>5, <2>2
  <2> QED
    BY <2>1, <2>2 DEF Flow

\* A client that has just connected has waited for nothing yet.
LEMMA ConnectFlow ==
  ASSUME TypeOK, Clocks, ClocksAgree, QuitTimes, cfd' # cfd, cfd' # NoFd, TimedClient \/ User
  PROVE  ~Behind' /\ Flow'
<1>1. PICK k \in Conns : Connect /\ ClientConnect(k)
  BY
  DEF TimedClient, User, ClientStep, ReadAgain, Connect, ConnectFails, PauseOver,
      SendGetFrame,
      ClientSendFails, ReceiveHeader, ReceiveStopAck, HeaderTimeout, HeaderClosed,
      GiveUpServer,
      ReceiveFrameId, ReceiveJpegSize, ReceiveImage, ReadFails, GivesUp, PollNoKey,
      AwaitAck, AckNotReceived,
      QuitOffline, QuitOnline, ClientWrite, ClientRead, ClientClose, Finish, LinkLost,
      Abandon,
      linkVars, clientVars
<1>2. /\ cfd' = k /\ c2s'[k] = <<>> /\ c2sIn'[k] = 0 /\ s2c'[k] = <<>> /\ s2cIn'[k] = 0
  BY <1>1, PaceTypes DEF ClientConnect
<1>3. ~quitting' /\ respAge' = 0 /\ cuts' = cuts
  BY <1>1 DEF Connect, QuitTimes, Reading, TimedClient, User
<1>4. Patience' = 0 /\ Before' = Before
  BY <1>3 DEF Patience, Before
<1>5. Flow'
  BY <1>4, Limits DEF Flow
<1>6. Len(<<>>) = 0
  OBVIOUS
<1>7. ~Behind'
  BY <1>2, <1>6 DEF Behind
<1> QED
  BY <1>5, <1>7

\* Time: what the client waits for is there, or the server captures it.
LEMMA TickFlow ==
  ASSUME TypeOK, TypeOK', QuitTimes, Clocks, ClocksAgree, StreamAligned, AnswerDue, NoneHalfOpen,
         cable, Held, ~Behind, Flow, TimedTick
  PROVE  ~Behind' /\ Flow'
<1>1. /\ UNCHANGED linkVars /\ UNCHANGED <<sPc, cPc, cuts>>
      /\ sAge' = IF sPc \in {"recv", "capture"} THEN sAge + 1 ELSE 0
      /\ ServerMayWait /\ ClientMayWait
  BY DEF TimedTick, Tick
<1>2. ~Behind' /\ Before' = Before
  BY <1>1 DEF linkVars, Behind, Before
<1>3. /\ Patience' <= Patience + 1 /\ (quitting /\ cPc = "header" => Patience' = 0)
      /\ Patience' \in Nat
  BY TickClocks, PatienceType
<1>4. /\ cfd \in Conns /\ c2s[cfd] \in Seq(Commands) /\ s2c[cfd] \in Seq(Blocks)
      /\ c2sIn[cfd] = Len(c2s[cfd]) /\ s2cIn[cfd] = Len(s2c[cfd])
  BY HeldConnection DEF Behind
<1>5. cPc \in {"header"} \cup Reading /\ s2c[cfd] = <<>>
  <2>1. cPc \in {"header"} \cup Reading /\ s2cIn[cfd] = 0
    BY <1>1, HeldConnection DEF ClientMayWait, NoAnswerYet, Offline
  <2>2. \A s \in Seq(Blocks) : Len(s) = 0 => s = <<>>
    OBVIOUS
  <2> QED
    BY <1>4, <2>1, <2>2
<1>6. sfd = cfd /\ (sPc = "capture" \/ (sPc = "recv" /\ c2s[cfd] = <<>>))
  <2>1. ~ServerStuck
    BY <1>5, LinkAssumption, HeldConnection DEF ServerStuck, Sending
  <2>2. (sPc = "recv" /\ c2sIn[sfd] = 0) \/ sPc = "capture"
    BY <1>1, <2>1, HeldConnection DEF ServerMayWait, NoCommand
  <2> QED
    BY <1>4, <2>2, HeldConnection
<1>7. cPc \notin Reading
  <2> DEFINE q == Part("header", "STOP_ACK", 0)
  <2>1. q \in Blocks /\ q.part = "header"
    BY ServerAssumption DEF Blocks, Part, PartKinds, Answers
  <2>2. ServerNext(q)
    BY <1>6, <2>1 DEF ServerNext
  <2>3. ClientExpects(q)
    BY <1>4, <1>5, <1>6, <2>1, <2>2, PaceTypes DEF StreamAligned
  <2> QED
    BY <2>1, <2>3 DEF ClientExpects, Part, Reading
<1>8. CASE quitting
  <2>1. Patience' = 0
    BY <1>3, <1>5, <1>7, <1>8
  <2> QED
    BY <1>2, <2>1, Limits DEF Flow
<1>9. CASE ~quitting
  <2>1. FrameDue
    BY <1>5, <1>7, <1>9 DEF AnswerDue, Held
  <2>2. ~Holds(c2s[cfd], Gets) \/ c2s[cfd] # <<>>
    BY DEF Holds
  <2>3. ~Holds(s2c[cfd], FrameHeaders)
    BY <1>5 DEF Holds
  <2>4. sPc = "capture"
    BY <1>6, <2>1, <2>2, <2>3 DEF FrameDue
  <2>5. Patience <= Before + sAge
    BY <1>5, <2>4, Limits DEF Flow
  <2>6. sAge' = sAge + 1 /\ sPc' = "capture" /\ cPc' \notin Reading
    BY <1>1, <1>7, <2>4
  <2>7. Patience' <= Before' + sAge'
    BY <1>2, <1>3, <2>5, <2>6, Limits
  <2> QED
    BY <1>2, <2>6, <2>7 DEF Flow
<1> QED
  BY <1>8, <1>9

-----------------------------------------------------------------------------
(* The cable is out.                                                       *)

\* The silence of the server is a matter of its own clocks.
LEMMA SilenceCases ==
  ASSUME TypeOK, Clocks
  PROVE  /\ cmdAge \in Nat /\ sAge \in Nat /\ Silence \in Nat
         /\ IdleTimeout \in Nat \ {0} /\ RecvPeriod \in Nat
         /\ sPc = "accept" => Silence = 0
         /\ sPc = "expired" => Silence = IdleTimeout + RecvPeriod
         /\ sPc \notin {"accept", "expired"} /\ cmdAge < IdleTimeout => Silence = cmdAge
         /\ sPc \notin {"accept", "expired"} /\ cmdAge >= IdleTimeout
              => Silence = IdleTimeout + sAge
<1>1. /\ cmdAge \in Nat /\ sAge \in Nat /\ IdleTimeout \in Nat \ {0} /\ RecvPeriod \in Nat
  BY WaitTypes DEF Clocks
<1> QED
  BY <1>1 DEF Silence

\* The server hears nothing more, once it has read what had arrived.
LEMMA ServerOutage ==
  ASSUME TypeOK, TypeOK', Clocks, Clocks', ClocksAgree, NewsIsTrue, NoneHalfOpen,
         "capture" \notin Faults, ~cable, Held, Held', Outage, TimedServer
  PROVE  Outage'
<1>1. /\ cfd' = cfd /\ UNCHANGED <<cPc, out>> /\ Patience' = Patience /\ sAge' = 0
  BY OthersKeepConnection DEF TimedServer, clientVars, Patience
<1>2. /\ cfd \in Conns /\ s2c[cfd] \in Seq(Blocks) /\ c2sIn[cfd] \in Nat
      /\ sPc \notin {"accept", "done", "down"} => sfd = cfd
      /\ sPc \in Sending => answer \in Answers /\ frameId \in 0 .. FrameIds - 1
  BY HeldConnection DEF TypeOK, ServerTypeOK, ServerCallOK, Answers
<1>3. /\ Patience \in Nat /\ CaptureTime \in Nat /\ out \in Nat
      /\ Patience <= CaptureTime + Silence /\ out <= Silence
      /\ c2sIn[cfd] = 0 \/ LastCommand \/ sPc \in {"ack", "exit"}
  BY Limits DEF Outage
<1>4. ASSUME Silence <= Silence', Silence' \in Nat
      PROVE  Patience' <= CaptureTime + Silence' /\ out' <= Silence'
  <2>1. Silence \in Nat
    BY SilenceCases
  <2>2. \A p, c, s, t \in Nat : p <= c + s /\ s <= t => p <= c + t
    OBVIOUS
  <2>3. Patience <= CaptureTime + Silence'
    BY <1>3, <1>4, <2>1, <2>2
  <2>4. out <= Silence'
    BY <1>3, <1>4, <2>1
  <2> QED
    BY <1>1, <2>3, <2>4
<1>5. CASE WaitForClient /\ sfd' = cfd
  <2>1. /\ sPc = "accept" /\ sPc' = "recv" /\ cmdAge' = 0 /\ UNCHANGED <<s2c, c2sIn>>
    BY <1>5 DEF WaitForClient, ServerAccept
  <2>2. Silence = 0 /\ Silence' = 0 /\ IdleTimeout \in Nat \ {0}
    BY <1>1, <2>1, SilenceCases DEF Silence
  <2>3. Patience' <= CaptureTime + Silence' /\ out' <= Silence'
    BY <1>1, <1>3, <2>2
  <2> QED
    BY <1>1, <1>3, <2>1, <2>3 DEF Outage, Room, LastCommand, Sending
<1>6. CASE ReceiveCommand
  <2>1. sPc = "recv" /\ sfd = cfd /\ c2sIn[cfd] > 0
    BY <1>2, <1>6 DEF ReceiveCommand, ServerRead
  <2>2. c2sIn[cfd] = 1 /\ s2c[cfd] = <<>> /\ Patience <= CaptureTime /\ out = 0
    BY <1>2, <1>3, <2>1 DEF LastCommand
  <2>3. c2sIn'[cfd] = 0 /\ s2c' = s2c /\ sPc' \in {"ack", "capture"} /\ cmdAge' = 0
    BY <1>2, <1>6, <2>1, <2>2, PaceTypes DEF ReceiveCommand, ServerRead
  <2>4. Silence' = 0 /\ IdleTimeout \in Nat \ {0}
    BY <1>1, <2>3, SilenceCases DEF Silence
  <2>5. Patience' <= CaptureTime + Silence' /\ out' <= Silence'
    BY <1>1, <1>3, <2>2, <2>4
  <2> QED
    BY <1>1, <2>2, <2>3, <2>4, <2>5 DEF Outage, Room, Sending
<1>7. CASE RecvTimeout
  <2>1. /\ sPc = "recv" /\ sfd = cfd /\ c2sIn[cfd] = 0 /\ sPc' = "expired" /\ UNCHANGED linkVars
    BY <1>2, <1>7 DEF RecvTimeout
  <2>2. Silence' = IdleTimeout + RecvPeriod
    BY <2>1 DEF Silence
  <2>3. Silence <= Silence' /\ Silence' \in Nat
    BY <2>2, SilenceBound, WaitTypes
  <2>4. Patience' <= CaptureTime + Silence' /\ out' <= Silence'
    BY <1>4, <2>3
  <2> QED
    BY <1>1, <2>1, <2>4 DEF Outage, Room, Sending, linkVars
<1>8. ASSUME sPc \notin {"accept", "expired"}, sPc' \notin {"accept", "expired"},
             cmdAge' = cmdAge, cmdAge < IdleTimeout \/ sAge = 0
      PROVE  Patience' <= CaptureTime + Silence' /\ out' <= Silence'
  <2>1. Silence' = Silence /\ Silence \in Nat
    BY <1>1, <1>8, SilenceCases DEF Silence
  <2> QED
    BY <1>4, <2>1, SilenceCases
<1>9. CASE RecvAgain
  <2>1. /\ sPc = "recv" /\ sPc' = sPc /\ c2sIn[cfd] = 0 /\ cmdAge < IdleTimeout
        /\ cmdAge' = cmdAge /\ UNCHANGED linkVars
    BY <1>2, <1>9 DEF RecvAgain, NoCommand, serverVars
  <2> QED
    BY <1>1, <1>8, <2>1 DEF Outage, Room, Sending, linkVars
<1>10. CASE AnswerGetFrame
  <2>1. /\ sPc = "capture" /\ sPc' = "sendHeader" /\ cmdAge' = cmdAge /\ UNCHANGED linkVars
        /\ cmdAge < IdleTimeout /\ s2c[cfd] = <<>> /\ c2sIn[cfd] = 0
    BY <1>3, <1>10 DEF AnswerGetFrame, Outage, Room, LastCommand
  <2>2. Patience' <= CaptureTime + Silence' /\ out' <= Silence'
    BY <1>8, <2>1
  <2> QED
    BY <1>1, <2>1, <2>2 DEF Outage, Room, linkVars
<1>11. CASE SendHeader \/ SendFrameId \/ SendJpegSize \/ SendImage
  <2>1. /\ sPc \in Sending /\ sfd = cfd /\ c2sIn[cfd] = 0 /\ cmdAge < IdleTimeout
        /\ cmdAge' = cmdAge
    BY <1>2, <1>3, <1>11
    DEF SendHeader, SendFrameId, SendJpegSize, SendImage, Sending, Outage, LastCommand
  <2>2. PICK p \in Blocks : ServerWrite(p)
    BY <1>2, <1>11, <2>1, ServerAssumption
    DEF SendHeader, SendFrameId, SendJpegSize, SendImage, Sending, Blocks, Part,
        PartKinds, Answers
  <2>3. s2c'[cfd] = Append(s2c[cfd], p) /\ c2sIn' = c2sIn
    BY <1>2, <2>1, <2>2, PaceTypes DEF ServerWrite
  <2>4. Len(s2c'[cfd]) = Len(s2c[cfd]) + 1 /\ Len(s2c[cfd]) \in Nat
    BY <1>2, <2>3
  <2>5. sPc' \in {"sendFrameId", "sendJpegSize", "sendImage", "recv"}
    BY <1>11 DEF SendHeader, SendFrameId, SendJpegSize, SendImage
  <2>6. Patience' <= CaptureTime + Silence' /\ out' <= Silence'
    BY <1>8, <2>1, <2>5 DEF Sending
  <2>7. Room'
    <3>1. CASE SendHeader
      <4>1. sPc' = "sendFrameId" /\ s2c[cfd] = <<>>
        BY <3>1 DEF SendHeader, Outage, Room
      <4>2. Len(s2c'[cfd]) <= 1
        BY <2>4, <4>1
      <4> QED
        BY <1>1, <4>1, <4>2 DEF Room
    <3>2. CASE SendFrameId
      <4>1. sPc' \in {"sendJpegSize", "recv"} /\ Len(s2c[cfd]) <= 1
        BY <3>2 DEF SendFrameId, Outage, Room
      <4>2. Len(s2c'[cfd]) <= 2
        BY <2>4, <4>1
      <4> QED
        BY <1>1, <4>1, <4>2 DEF Room
    <3>3. CASE SendJpegSize
      <4>1. sPc' = "sendImage" /\ Len(s2c[cfd]) <= 2
        BY <3>3 DEF SendJpegSize, Outage, Room
      <4>2. Len(s2c'[cfd]) <= 3
        BY <2>4, <4>1
      <4> QED
        BY <1>1, <4>1, <4>2 DEF Room
    <3>4. CASE SendImage
      BY <3>4 DEF SendImage, Room
    <3> QED
      BY <1>11, <3>1, <3>2, <3>3, <3>4
  <2> QED
    BY <1>1, <2>1, <2>3, <2>5, <2>6, <2>7 DEF Outage
<1>12. CASE HandleStop
  <2>1. sPc = "ack" /\ sPc' = "exit" /\ sAge = 0 /\ cmdAge' = cmdAge
    BY <1>12 DEF HandleStop, ClocksAgree
  <2>2. Patience' <= CaptureTime + Silence' /\ out' <= Silence'
    BY <1>8, <2>1
  <2> QED
    BY <2>1, <2>2 DEF Outage, Room, Sending
<1> QED
  BY <1>5, <1>6, <1>7, <1>9, <1>10, <1>11, <1>12, ServerStays

\* The client reads what had arrived, and asks again in vain.
LEMMA ClientOutage ==
  ASSUME TypeOK, TypeOK', QuitTimes, Clocks, ClocksAgree, NoneHalfOpen, ~cable, Held,
         cfd' = cfd, Outage, TimedClient \/ User
  PROVE  Outage'
<1>1. UNCHANGED <<sPc, cmdAge, sAge, out>> /\ cfd # NoFd
  BY DEF TimedClient, User, serverVars, Held
<1>2. /\ cfd \in Conns /\ s2c[cfd] \in Seq(Blocks) /\ s2cIn[cfd] \in Nat
      /\ s2cIn[cfd] <= Len(s2c[cfd])
  BY HeldConnection
<1>3. Patience' <= Patience /\ Patience' \in Nat /\ Silence' = Silence /\ Silence \in Nat
  BY <1>1, ClientClocks, PatienceType, SilenceCases DEF Silence
<1>4. Patience' <= CaptureTime + Silence' /\ out' <= Silence'
  BY <1>1, <1>3, Limits DEF Outage
<1>5. ASSUME c2sIn'[cfd] = c2sIn[cfd], s2c[cfd] = <<>> => s2c'[cfd] = <<>>,
             Len(s2c'[cfd]) \in Nat, Len(s2c'[cfd]) <= Len(s2c[cfd])
      PROVE  Outage'
  <2>1. Room'
    BY <1>1, <1>2, <1>5 DEF Outage, Room
  <2>2. LastCommand => LastCommand'
    BY <1>1, <1>3, <1>5, Limits DEF LastCommand
  <2> QED
    BY <1>1, <1>4, <1>5, <2>1, <2>2 DEF Outage
<1>6. CASE UNCHANGED linkVars
  BY <1>2, <1>5, <1>6 DEF linkVars
<1>7. CASE ClientRead
  <2>1. s2c'[cfd] = Tail(s2c[cfd]) /\ s2cIn[cfd] > 0 /\ c2sIn' = c2sIn
    BY <1>2, <1>7, PaceTypes DEF ClientRead
  <2>2. s2c[cfd] # <<>> /\ Len(Tail(s2c[cfd])) = Len(s2c[cfd]) - 1 /\ Len(s2c[cfd]) \in Nat \ {0}
    BY <1>2, <2>1
  <2> QED
    BY <1>5, <2>1, <2>2
<1>8. ASSUME NEW cmd \in Commands, ClientWrite(cmd)
      PROVE  Outage'
  <2>1. c2sIn'[cfd] = c2sIn[cfd] /\ s2c' = s2c
    BY <1>2, <1>8, PaceTypes DEF ClientWrite, Arrived
  <2> QED
    BY <1>2, <1>5, <2>1
<1> QED
  BY <1>1, <1>6, <1>7, <1>8, ClientStays

\* Time: the silence of the server grows with the wait of the client.
LEMMA TickOutage ==
  ASSUME TypeOK, TypeOK', QuitTimes, Clocks, Clocks', ClocksAgree, NewsIsTrue, NoneHalfOpen,
         InPace, ~cable, Held, Outage, TimedTick
  PROVE  Outage'
<1>1. /\ UNCHANGED linkVars /\ sPc' = sPc /\ ServerMayWait /\ ~sGone[cfd] /\ ~cGone[cfd]
      /\ sAge' = IF sPc \in {"recv", "capture"} THEN sAge + 1 ELSE 0
      /\ cmdAge' = IF InSession THEN Older(cmdAge, IdleTimeout) ELSE cmdAge
      /\ out' = Older(out, MaxOut)
  BY HeldConnection DEF TimedTick, Tick, NewsIsTrue, Held
<1>2. /\ cfd \in Conns /\ s2c[cfd] \in Seq(Blocks) /\ c2sIn[cfd] \in Nat
      /\ sPc \notin {"accept", "done", "down"} => sfd = cfd
      /\ sPc = "accept" => backlog # <<>>
      /\ sPc \notin {"done", "down"}
  BY HeldConnection
<1>3. ~ServerStuck
  <2> SUFFICES ASSUME ServerStuck PROVE FALSE
    OBVIOUS
  <2>1. sPc \in Sending \cup {"ack"} /\ Len(s2c[cfd]) = StreamCap
    BY <1>2 DEF ServerStuck, Sending
  <2>2. Len(s2c[cfd]) <= 3
    BY <1>2, <2>1 DEF Outage, Room, Sending
  <2> QED
    BY <2>1, <2>2, PaceTypes DEF InPace
<1>4. \/ sPc = "recv" /\ c2sIn[cfd] = 0
      \/ sPc = "capture"
  BY <1>1, <1>2, <1>3 DEF ServerMayWait, NoCommand
<1>5. /\ sPc # "recv" => cmdAge < IdleTimeout /\ cmdAge <= sAge
      /\ sAge' = sAge + 1 /\ cmdAge' = Older(cmdAge, IdleTimeout)
  BY <1>1, <1>4 DEF Outage, InSession
<1>6. /\ cmdAge \in Nat /\ sAge \in Nat /\ IdleTimeout \in Nat \ {0} /\ RecvPeriod \in Nat
      /\ CaptureTime \in Nat /\ Patience \in Nat /\ Patience' \in Nat /\ out \in Nat
      /\ Silence \in Nat /\ MaxOut \in Nat
  BY SilenceCases, WaitTypes, PatienceType DEF ClocksAgree
<1>7. sPc = "capture" => cmdAge' < IdleTimeout /\ cmdAge' <= sAge'
  <2> SUFFICES ASSUME sPc = "capture" PROVE cmdAge' < IdleTimeout /\ cmdAge' <= sAge'
    OBVIOUS
  <2>1. sAge < CaptureTime /\ CaptureTime < IdleTimeout
    BY <1>1, <1>3, <1>6 DEF ServerMayWait, NoCommand, InPace
  <2> QED
    BY <1>5, <1>6, <2>1 DEF Older
<1>8. Silence' \in Nat /\ Silence + 1 <= Silence'
  <2>1. sPc \notin {"accept", "expired"} /\ sPc' = sPc
    BY <1>1, <1>4
  <2>2. CASE cmdAge' < IdleTimeout
    <3>1. cmdAge' = cmdAge + 1 /\ cmdAge < IdleTimeout
      BY <1>5, <1>6, <2>2 DEF Older
    <3>2. Silence = cmdAge /\ Silence' = cmdAge'
      BY <2>1, <2>2, <3>1, SilenceCases DEF Silence
    <3> QED
      BY <1>6, <3>1, <3>2
  <2>3. CASE ~(cmdAge' < IdleTimeout)
    <3>1. Silence' = IdleTimeout + (sAge + 1)
      BY <1>5, <2>1, <2>3 DEF Silence
    <3>2. Silence <= IdleTimeout + sAge
      BY <1>6, <2>1, SilenceCases
    <3> QED
      BY <1>6, <3>1, <3>2
  <2> QED
    BY <2>2, <2>3
<1>9. Patience' <= CaptureTime + Silence' /\ out' <= Silence'
  <2>1. Patience' <= Patience + 1 /\ Patience <= CaptureTime + Silence /\ out <= Silence
    BY TickClocks DEF Outage
  <2>2. out' <= out + 1 /\ out' \in Nat
    BY <1>1, <1>6 DEF Older
  <2>3. \A p, q, c, a, b \in Nat : p <= c + a /\ a + 1 <= b /\ q <= p + 1 => q <= c + b
    OBVIOUS
  <2>4. Patience' <= CaptureTime + Silence'
    BY <1>6, <1>8, <2>1, <2>3
  <2>5. out' <= Silence'
    BY <1>6, <1>8, <2>1, <2>2
  <2> QED
    BY <2>4, <2>5
<1>10. c2sIn[cfd] = 0
  BY <1>4 DEF Outage, LastCommand
<1> QED
  BY <1>1, <1>4, <1>7, <1>9, <1>10 DEF Outage, Room, linkVars, Sending

-----------------------------------------------------------------------------
(* The cable and the clock.                                                *)

\* TCP waits no longer than the outage lasted.
LEMMA TickLate ==
  ASSUME TypeOK, TypeOK', QuitTimes, Clocks, ClocksAgree, NoneHalfOpen, cable, Held, Behind, Late,
         TimedTick
  PROVE  Behind' /\ Late'
<1>1. /\ UNCHANGED linkVars /\ cuts' = cuts /\ LinkMayWait
      /\ mended' = Older(mended, Reunited + 1)
      /\ out' = IF mended > Reunited THEN 0 ELSE out
      /\ late' = {k \in late : Undelivered(k)}
  BY DEF TimedTick, Tick
<1>2. cfd \in Conns /\ Undelivered(cfd)
  BY HeldConnection DEF Behind, Undelivered
<1>3. /\ mended < out + Rto /\ out \in Nat /\ Rto \in Nat /\ mended \in Nat
      /\ ReconnectPeriod \in Nat /\ OutageLimit \in Nat
      /\ Patience \in Nat /\ Patience' \in Nat /\ Patience' <= Patience + 1
  BY <1>1, <1>2, Limits, WaitTypes, PatienceType, TickClocks DEF LinkMayWait
<1>4. mended' = mended + 1 /\ out' = out
  BY <1>1, <1>3 DEF Older, Reunited
<1>5. Patience <= OutageLimit + mended /\ out <= IdleTimeout + RecvPeriod /\ cfd \in late /\ cuts = 1
  BY DEF Late
<1>6. Patience' <= OutageLimit + mended'
  BY <1>3, <1>4, <1>5
<1>7. Behind' /\ cfd \in late' /\ cfd' = cfd
  BY <1>1, <1>2, <1>5 DEF Behind, linkVars
<1>8. mended' <= out' + Rto /\ out' <= IdleTimeout + RecvPeriod
  BY <1>3, <1>4, <1>5
<1> QED
  BY <1>1, <1>5, <1>6, <1>7, <1>8 DEF Late, OutageLimit

\* The first cut finds no more than one exchange under way.
LEMMA CutOutage ==
  ASSUME TypeOK, QuitTimes, Calm, ClocksAgree, NoneHalfOpen, InPace, cuts = 0, Held, ~Behind, Flow,
         TimedLink, Cut
  PROVE  Outage'
<1>1. /\ UNCHANGED <<sPc, cPc, cmdAge, sAge, cfd, c2sIn, s2c>> /\ out' = 0
      /\ Patience' = Patience /\ Silence' = Silence
  BY DEF TimedLink, Cut, CutCable, ClocksAgree, serverVars, clientVars, Patience, Silence
<1>2. /\ cfd \in Conns /\ c2s[cfd] \in Seq(Commands) /\ s2c[cfd] \in Seq(Blocks)
      /\ c2sIn[cfd] = Len(c2s[cfd]) /\ cPc \notin Offline
      /\ \/ sPc = "accept" /\ sfd # cfd
         \/ sPc \notin {"accept", "done", "down"} /\ sfd = cfd
  BY HeldConnection, PaceTypes DEF Behind
<1>3. /\ Patience \in Nat /\ CaptureTime \in Nat /\ Silence \in Nat /\ sAge \in Nat
      /\ cmdAge \in Nat /\ IdleTimeout \in Nat /\ RecvPeriod \in Nat
      /\ CaptureTime < RecvPeriod /\ RecvPeriod < IdleTimeout
  BY Limits, SilenceCases, WaitTypes DEF Calm, InPace
<1>4. Patience <= CaptureTime
  <2>1. Before = 0 /\ (sPc = "capture" => sAge <= CaptureTime)
    BY DEF Before, ClocksAgree
  <2> QED
    BY <1>3, <2>1 DEF Flow
<1>5. ASSUME Room, sPc \in {"capture"} \cup Sending => cmdAge < IdleTimeout,
             sPc = "capture" => cmdAge <= sAge,
             \/ c2s[cfd] = <<>>
             \/ sPc \in {"accept", "recv"} /\ Len(c2s[cfd]) = 1 /\ s2c[cfd] = <<>>
             \/ sPc \in {"ack", "exit"}
      PROVE  Outage'
  <2>1. Room'
    BY <1>1, <1>5 DEF Room
  <2>2. c2s[cfd] = <<>> => c2sIn'[cfd] = 0
    BY <1>1, <1>2
  <2>3. sPc \in {"accept", "recv"} /\ Len(c2s[cfd]) = 1 /\ s2c[cfd] = <<>> => LastCommand'
    BY <1>1, <1>2, <1>4 DEF LastCommand
  <2>4. Patience' <= CaptureTime + Silence' /\ out' <= Silence'
    BY <1>1, <1>3, <1>4
  <2> QED
    BY <1>1, <1>5, <2>1, <2>2, <2>3, <2>4 DEF Outage
<1>6. Pace
  BY DEF Calm
<1>7. CASE quitting
  <2>1. Stopping => /\ sPc = "recv" /\ c2s[cfd] = <<"STOP">> /\ s2c[cfd] = <<>>
    BY DEF Stopping
  <2>2. Stopped => sPc \in {"ack", "exit"} /\ (sPc = "ack" => s2c[cfd] = <<>>)
    BY <1>2, PaceTypes DEF Stopped
  <2>3. Len(<<"STOP">>) = 1
    OBVIOUS
  <2> QED
    BY <1>5, <1>6, <1>7, <2>1, <2>2, <2>3 DEF Pace, Room, Sending
<1>8. CASE ~quitting /\ Queued
  <2>1. sPc = "accept" /\ s2c[cfd] = <<>> /\ c2s[cfd] \in {<<>>, <<"GET_FRAME">>}
    BY <1>2, <1>8 DEF Queued, Free
  <2>2. Len(<<"GET_FRAME">>) = 1
    OBVIOUS
  <2> QED
    BY <1>5, <2>1, <2>2 DEF Room, Sending
<1>9. CASE ~quitting /\ Served
  <2>1. cmdAge < IdleTimeout /\ sfd = cfd
    BY <1>3, <1>9 DEF Served
  <2>2. CASE Rested \/ Unanswered \/ Asking
    <3>1. sPc = "recv" /\ s2c[cfd] = <<>> /\ c2s[cfd] \in {<<>>, <<"GET_FRAME">>}
      BY <2>2 DEF Rested, Unanswered, Asking, Quiet
    <3>2. Len(<<"GET_FRAME">>) = 1
      OBVIOUS
    <3> QED
      BY <1>5, <3>1, <3>2 DEF Room, Sending
  <2>3. CASE Capturing
    <3>1. sPc = "capture" /\ s2c[cfd] = <<>> /\ c2s[cfd] = <<>> /\ cmdAge <= cAge /\ cAge <= sAge
      BY <2>3 DEF Capturing, Quiet
    <3>2. cmdAge <= sAge
      BY <1>3, <3>1 DEF Calm, Clocks
    <3> QED
      BY <1>5, <2>1, <3>1, <3>2 DEF Room, Sending
  <2>4. CASE Answering
    <3>1. c2s[cfd] = <<>> /\ HalfWay
      BY <2>4 DEF Answering
    <3>2. /\ Len(s2c[cfd]) \in Nat
          /\ s2c[cfd] = <<>> <=> Len(s2c[cfd]) = 0
      BY <1>2
    <3>3. /\ sPc \in Sending \cup {"recv"}
          /\ sPc \in Sending => Len(s2c[cfd]) <= Written
      BY <3>1, <3>2 DEF HalfWay, Read, Written, Sending, Reading
    <3>4. Room
      BY <3>2, <3>3 DEF Room, Written, Sending
    <3> QED
      BY <1>5, <2>1, <3>1, <3>3, <3>4 DEF Sending
  <2> QED
    BY <1>9, <2>2, <2>3, <2>4 DEF Served
<1>10. cPc # "done" /\ ~Away
  BY <1>2 DEF Offline, Away, Held
<1> QED
  BY <1>6, <1>7, <1>8, <1>9, <1>10 DEF Pace

\* The client has waited no longer than the silence of the server when the cable is back.
LEMMA MendWaits ==
  ASSUME TypeOK, Clocks, ClocksAgree, NoneHalfOpen, cuts = 1, Held, Outage, TimedLink, Mend
  PROVE  Flow' /\ (Behind' => Late')
<1>1. /\ UNCHANGED <<cfd, c2s, s2c, c2sIn, s2cIn, out, mended, cuts>> /\ mended = 0
      /\ Patience' = Patience /\ Before' = Before /\ late' = {k \in Conns : Undelivered(k)}
  BY DEF TimedLink, Mend, PlugCable, ClocksAgree, serverVars, clientVars, Patience, Before
<1>2. cfd \in Conns /\ (Behind' => Undelivered(cfd))
  BY <1>1, HeldConnection DEF Behind, Undelivered
<1>3. /\ Patience <= CaptureTime + Silence /\ out <= Silence
      /\ Silence \in Nat /\ Silence <= IdleTimeout + RecvPeriod
  BY SilenceBound DEF Outage
<1>4. Patience <= OutageLimit /\ Patience <= Before /\ out <= IdleTimeout + RecvPeriod
  BY <1>3, Limits
<1>5. Patience <= OutageLimit + mended /\ mended <= out + Rto
  BY <1>1, <1>4, Limits
<1> QED
  BY <1>1, <1>2, <1>4, <1>5 DEF Flow, Late, OutageLimit

\* What TCP delivers is no step of the programs.
LEMMA DeliverWaits ==
  ASSUME TypeOK, TypeOK', Clocks, ClocksAgree, NewsIsTrue, NoneHalfOpen, cable, Held,
         IF Behind THEN Late ELSE Flow, TimedLink, Deliver
  PROVE  IF Behind' THEN Late' ELSE Flow'
<1>1. PICK k \in Conns : Retransmit(k)
  BY DEF Deliver
<1>2. /\ UNCHANGED <<out, late, mended, cuts, cfd, sPc, cPc, sAge>>
      /\ Patience' = Patience /\ Before' = Before
  BY <1>1 DEF TimedLink, Deliver, timing, Retransmit, serverVars, clientVars, Patience,
     Before
<1>3. CASE Behind
  <2>1. Late' /\ Flow'
    BY <1>2, <1>3, LateStep, Limits
  <2> QED
    BY <2>1
<1>4. CASE ~Behind
  <2>1. ~Behind'
    BY <1>1, <1>2, <1>4, StaysSynced
  <2>2. s2c'[cfd] = s2c[cfd]
    BY <1>1, HeldConnection, PaceTypes DEF Retransmit, RetransmitCommands, RetransmitAnswers
  <2>3. Flow'
    BY <1>2, <1>4, <2>2 DEF Flow
  <2> QED
    BY <2>1, <2>3
<1> QED
  BY <1>3, <1>4

-----------------------------------------------------------------------------
(* The invariant.                                                          *)

\* Neither program touches the cable.
LEMMA ProgramsLeaveCable ==
  ASSUME TimedServer \/ TimedClient \/ User
  PROVE  cable' = cable /\ cuts' = cuts
  BY
  DEF TimedServer, TimedClient, User, ServerStep, RecvAgain, ClientStep, ReadAgain,
      WaitForClient, ReceiveCommand, RecvTimeout, GiveUpClient, RecvClosed, CaptureFails,
      AnswerGetFrame, SendHeader, SendFrameId, SendJpegSize, SendImage, ServerSendFails,
      HandleStop,
      ServerExit, EndSession, ServerAccept, ServerRead, ServerClose, ServerWrite,
      ServerVanish,
      ServerDrop, linkVars, Connect, ConnectFails, PauseOver, SendGetFrame, ClientSendFails,
      ReceiveHeader, ReceiveStopAck, HeaderTimeout, HeaderClosed, GiveUpServer,
      ReceiveFrameId, ReceiveJpegSize,
      ReceiveImage, ReadFails, PollNoKey, AwaitAck, AckNotReceived, QuitOffline, QuitOnline,
      ClientConnect, ClientWrite, ClientRead, ClientClose, LinkLost, Finish, Abandon,
      GivesUp

\* A new connection is made while the cable is in.
LEMMA NewConnection ==
  ASSUME cfd' # cfd, cfd' # NoFd, TimedClient \/ User
  PROVE  cable
  BY
  DEF TimedClient, User, ClientStep, ReadAgain, Connect, Reachable, ConnectFails, PauseOver,
      SendGetFrame, ClientSendFails, ReceiveHeader, ReceiveStopAck, HeaderTimeout,
      HeaderClosed,
      GiveUpServer, ReceiveFrameId, ReceiveJpegSize, ReceiveImage, ReadFails, GivesUp,
      PollNoKey, AwaitAck,
      AckNotReceived, QuitOffline, QuitOnline, ClientWrite, ClientRead, ClientClose, Finish,
      LinkLost, Abandon, linkVars, clientVars

\* One case for each state of the cable and each actor.
LEMMA NextKeepsWaiting ==
  ASSUME TypeOK, TypeOK', QuitTimes, Calm, Clocks', NewsIsTrue, StreamAligned, AnswerDue,
         InPace, "capture" \notin Faults, ClocksAgree, NoneHalfOpen, KeepsWaiting,
         cuts' <= 1, [TimedNext]_timedVars
  PROVE  KeepsWaiting'
<1> SUFFICES ASSUME Held'
             PROVE  IF ~cable' THEN Outage' ELSE IF Behind' THEN Late' ELSE Flow'
  BY DEF KeepsWaiting
<1>1. Clocks /\ cuts \in Nat
  BY DEF Calm, Clocks
<1>2. CASE cfd' # cfd
  <2>1. TimedClient \/ User
    BY <1>2, OthersKeepConnection DEF TimedNext
  <2>2. cfd' # NoFd
    BY DEF Held
  <2>3. cable' /\ ~Behind' /\ Flow'
    BY <1>1, <1>2, <2>1, <2>2, NewConnection, ProgramsLeaveCable, ConnectFlow
  <2> QED
    BY <2>3
<1>3. CASE cfd' = cfd
  <2>1. Held
    <3>1. cfd \in Conns /\ ServerHolds(cfd)'
      BY <1>3, PaceTypes DEF Held, ServerHolds, Backlogged
    <3>2. ServerHolds(cfd) \/ ClientConnect(cfd)
      BY <1>3, <3>1, TimedStep, HeldSinceConnect DEF ServerHolds, Backlogged
    <3> QED
      BY <3>1, <3>2, PaceTypes DEF Held, ClientConnect
  <2>2. IF ~cable THEN Outage ELSE IF Behind THEN Late ELSE Flow
    BY <2>1 DEF KeepsWaiting
  <2>3. CASE TimedServer
    <3>1. cable' = cable
      BY <2>3, ProgramsLeaveCable
    <3>2. CASE ~cable
      BY <1>1, <2>1, <2>2, <2>3, <3>1, <3>2, ServerOutage
    <3>3. CASE cable /\ Behind
      <4>1. UNCHANGED <<out, late, mended, cuts, cfd>> /\ Patience' = Patience
        BY <1>3, <2>3 DEF TimedServer, clientVars, Patience
      <4>2. Late' /\ Flow'
        BY <1>1, <2>2, <3>3, <4>1, LateStep, Limits
      <4> QED
        BY <3>1, <3>3, <4>2
    <3>4. CASE cable /\ ~Behind
      BY <1>1, <2>1, <2>2, <2>3, <3>1, <3>4, ServerFlow
    <3> QED
      BY <3>2, <3>3, <3>4
  <2>4. CASE TimedClient \/ User
    <3>1. cable' = cable
      BY <2>4, ProgramsLeaveCable
    <3>2. CASE ~cable
      BY <1>1, <1>3, <2>1, <2>2, <2>4, <3>1, <3>2, ClientOutage
    <3>3. CASE cable /\ Behind
      <4>1. UNCHANGED <<out, late, mended, cuts, cfd>> /\ Patience' <= Patience
        BY <1>3, <2>1, <2>4, ClientClocks DEF TimedClient, User, Held
      <4>2. Late' /\ Flow'
        BY <1>1, <2>2, <3>3, <4>1, LateStep
      <4> QED
        BY <3>1, <3>3, <4>2
    <3>4. CASE cable /\ ~Behind
      BY <1>1, <1>3, <2>1, <2>2, <2>4, <3>1, <3>4, ClientFlow
    <3> QED
      BY <3>2, <3>3, <3>4
  <2>5. CASE TimedTick
    <3>1. cable' = cable
      BY <2>5 DEF TimedTick, Tick, linkVars
    <3>2. CASE ~cable
      BY <1>1, <2>1, <2>2, <2>5, <3>1, <3>2, TickOutage
    <3>3. CASE cable /\ Behind
      BY <1>1, <2>1, <2>2, <2>5, <3>1, <3>3, TickLate
    <3>4. CASE cable /\ ~Behind
      BY <1>1, <2>1, <2>2, <2>5, <3>1, <3>4, TickFlow
    <3> QED
      BY <3>2, <3>3, <3>4
  <2>6. CASE TimedLink /\ Cut
    <3>1. cuts = 0 /\ cable /\ ~cable'
      BY <1>1, <2>6 DEF Cut, CutCable
    <3>2. ~Behind /\ Flow
      BY <2>2, <3>1 DEF Late
    <3> QED
      BY <2>1, <2>6, <3>1, <3>2, CutOutage
  <2>7. CASE TimedLink /\ Mend
    <3>1. ~cable /\ cable' /\ cuts' = cuts
      BY <2>7 DEF Mend, PlugCable
    <3>2. cuts = 1
      BY <1>1, <3>1 DEF ClocksAgree
    <3> QED
      BY <1>1, <2>1, <2>2, <2>7, <3>1, <3>2, MendWaits
  <2>8. CASE TimedLink /\ Deliver
    <3>1. cable /\ cable'
      BY <2>8 DEF Deliver, Retransmit
    <3> QED
      BY <1>1, <2>1, <2>2, <2>8, <3>1, DeliverWaits
  <2>9. CASE UNCHANGED timedVars
    <3>1. /\ UNCHANGED <<cable, cfd, sPc, cPc, cuts, cmdAge, sAge, out, mended, late, c2s, s2c,
                         c2sIn, s2cIn>>
          /\ Patience' = Patience
      BY <2>9 DEF timedVars, vars, timing, linkVars, serverVars, clientVars, Patience
    <3>2. Silence' = Silence /\ Before' = Before
      BY <3>1 DEF Silence, Before
    <3> QED
      BY <2>2, <3>1, <3>2 DEF Outage, Room, LastCommand, Late, OutageLimit, Flow, Behind
  <2> QED
    BY <2>3, <2>4, <2>5, <2>6, <2>7, <2>8, <2>9 DEF TimedNext, TimedLink
<1> QED
  BY <1>2, <1>3

LEMMA NextRecovers ==
  ASSUME TypeOK, TypeOK', QuitTimes, Calm, Calm', NewsIsTrue, StreamAligned, AnswerDue,
         InPace, Forbearing, "capture" \notin Faults, Recovers, [TimedNext]_timedVars
  PROVE  Recovers'
<1>1. Clocks /\ Clocks' /\ ClocksAgree /\ ClocksAgree'
  BY NextClocks DEF Calm, Recovers
<1>2. cuts' \in {cuts, cuts + 1} /\ cuts \in Nat
  BY <1>1
  DEF Clocks, TimedNext, TimedServer, TimedClient, User, TimedLink, Cut, Mend, Deliver,
      TimedTick,
      timing, timedVars
<1>3. ASSUME cuts' <= 1
      PROVE  NoneHalfOpen' /\ GivesUpAlone' /\ KeepsWaiting'
  <2>1. NoneHalfOpen /\ GivesUpAlone /\ KeepsWaiting
    BY <1>2, <1>3 DEF Recovers
  <2> QED
    BY <1>1, <1>3, <2>1, NextHalfOpen, NextGivesUpAlone, NextKeepsWaiting
<1> QED
  BY <1>1, <1>3 DEF Recovers

LEMMA InitRecovers == TimedInit => Recovers
<1> SUFFICES ASSUME TimedInit PROVE Recovers
  OBVIOUS
<1>1. /\ cfd = NoFd /\ sfd = NoFd /\ backlog = <<>> /\ cable
      /\ sPc = "accept" /\ cPc = "connect" /\ quitting = FALSE
      /\ readAge = 0 /\ respAge = 0 /\ sAge = 0 /\ out = 0 /\ mended = 0 /\ late = {}
  BY DEF TimedInit, Init, LinkInit, ServerInit, ClientInit
<1>2. ClocksAgree
  BY <1>1 DEF ClocksAgree, Patience
<1>3. \A k \in Conns : ~ServerHolds(k)
  BY <1>1, LinkAssumption DEF ServerHolds, Backlogged
<1> QED
  BY <1>1, <1>2, <1>3 DEF Recovers, NoneHalfOpen, GivesUpAlone, KeepsWaiting, Held

\* What the steps of the invariant rely on.
Dialogue ==
  TypeOK /\ QuitTimes /\ Calm /\ StreamAligned /\ NewsIsTrue /\ QuitPath /\ AnswerDue

LEMMA AlwaysDialogue ==
  InPace /\ "capture" \notin Faults /\ TimedSpec => []Dialogue
<1> SUFFICES ASSUME InPace, "capture" \notin Faults
             PROVE  TimedSpec => []Dialogue
  OBVIOUS
<1>1. Init => NewsIsTrue /\ QuitPath /\ AnswerDue
  BY LinkAssumption DEF Init, LinkInit, ServerInit, ClientInit, NewsIsTrue, QuitPath,
     AnswerDue,
     ServerHolds, Backlogged, Reading
<1>2. /\ TypeOK /\ StreamAligned /\ NewsIsTrue /\ QuitPath /\ AnswerDue /\ [Next]_vars
      => NewsIsTrue' /\ QuitPath' /\ AnswerDue'
  BY NextNews, NextQuitPath, NextAnswerDue
<1>3. /\ TypeOK /\ QuitTimes /\ Calm /\ StreamAligned /\ NewsIsTrue /\ QuitPath /\ AnswerDue
      => Dialogue
  BY DEF Dialogue
<1> QED
  BY TimedImplementsUntimed, TypeCorrect, StreamStaysAligned, AlwaysQuitTimes, AlwaysCalm,
     <1>1, <1>2, <1>3, PTL DEF Spec

\* The invariant of this module.
LEMMA AlwaysRecovers ==
  InPace /\ Forbearing /\ "capture" \notin Faults /\ TimedSpec => []Recovers
<1> SUFFICES ASSUME InPace, Forbearing, "capture" \notin Faults
             PROVE  TimedSpec => []Recovers
  OBVIOUS
<1>1. Dialogue /\ Dialogue' /\ Recovers /\ [TimedNext]_timedVars => Recovers'
  BY NextRecovers DEF Dialogue
<1> QED
  BY AlwaysDialogue, InitRecovers, <1>1, PTL DEF TimedSpec

\* After a first cut, whether the cable is back or not, the server is out of the
\* session before the client gives it up, for all durations in pace that are
\* forbearing (Client/inc/config.h:22-24).
THEOREM ServerLeavesFirst ==
  InPace /\ Forbearing /\ "capture" \notin Faults /\ TimedSpec => []ServerFreedFirst
<1>1. TypeOK /\ Recovers => ServerFreedFirst
  BY PaceTypes DEF Recovers, GivesUpAlone, Held, ServerHolds, ServerFreedFirst, TypeOK,
     ClientCallOK,
     Offline
<1>2. Dialogue => TypeOK
  BY DEF Dialogue
<1> QED
  BY AlwaysDialogue, AlwaysRecovers, <1>1, <1>2, PTL

\* Nor is a session left half open, for the same durations: a connection that the
\* client makes queues behind no other (README.md:164-170).
THEOREM NoneQueuesBehind ==
  InPace /\ Forbearing /\ "capture" \notin Faults /\ TimedSpec => []NoneLeftHalfOpen
<1>1. Recovers => NoneLeftHalfOpen
  BY DEF Recovers, NoneHalfOpen, NoneLeftHalfOpen
<1> QED
  BY AlwaysRecovers, <1>1, PTL
=============================================================================
