----------------------------- MODULE TimedSystem ----------------------------
(***************************************************************************)
(* StreamingSystem with durations. The programs are those of               *)
(* StreamingSystem, action for action; what is added is when: a recv()     *)
(* that expires does so after SO_RCVTIMEO, the next attempt comes          *)
(* RECONNECT_PERIOD_MS after the last, a capture takes at most             *)
(* CaptureTime, and time passes only while both programs wait. So the      *)
(* limits of the two config.h can be compared, which StreamingSystem       *)
(* leaves open.                                                            *)
(*                                                                         *)
(* Time is discrete; a run says how long its tick is. A step of a program  *)
(* that waits for nothing takes no time.                                   *)
(***************************************************************************)
EXTENDS StreamingSystem

CONSTANTS
  RecvPeriod,       \* RECV_TIMEOUT_MS, the same in both config.h
  ReconnectPeriod,  \* RECONNECT_PERIOD_MS
  CaptureTime,      \* the longest a capture takes
  Rto,              \* what TCP waits before it retransmits for the first time
  MaxOut,           \* bound: an outage counts no longer than this
  Resume,           \* how soon video must be back
  MaxCuts           \* bound: times the cable is cut

ASSUME TimedAssumption ==
  /\ RecvPeriod \in Nat \ {0} /\ ReconnectPeriod \in Nat \ {0}
  /\ CaptureTime \in Nat /\ Rto \in Nat /\ Resume \in Nat \ {0}
  /\ MaxOut \in Nat /\ MaxCuts \in Nat

VARIABLES
  sAge,      \* time the server has been in this recv() or capture
  cAge,      \* time the client has been in this recv(), or since its last attempt
  mended,    \* time since the cable was plugged in
  out,       \* how long TCP has retransmitted in vain when it was
  late,      \* connections with something to retransmit then
  clear,     \* time with the cable in and the server not blocked in send()
  quitAge,   \* time since q was read in a session
  cuts       \* history: times the cable was cut

timing == <<sAge, cAge, mended, out, late, clear, quitAge, cuts>>

timedVars == <<vars, timing>>

TimedInit ==
  /\ Init
  /\ sAge = 0 /\ cAge = 0 /\ mended = 0 /\ out = 0 /\ late = {}
  /\ clear = 0 /\ quitAge = 0 /\ cuts = 0

-----------------------------------------------------------------------------
(* The server.                                                             *)

\* receiveCommand() has nothing to read.
NoCommand == sPc = "recv" /\ c2sIn[sfd] = 0 /\ ~cGone[sfd]

\* Mutant of RecvAgain: the idle clock starts again with each recv().
RecvAgainRestartsClock ==
  /\ NoCommand /\ cmdAge < IdleTimeout
  /\ cmdAge' = 0
  /\ UNCHANGED <<sPc, frameId, light, pressed, answer, pressScene, presses, crashes>>
  /\ UNCHANGED linkVars

\* It expires below the idle limit: processNextCommand() goes back to it.
RecvAgain ==
  /\ NoCommand /\ cmdAge < IdleTimeout
  /\ UNCHANGED linkVars /\ UNCHANGED serverVars

\* sendAll() is blocked in send(), which has no timeout.
ServerStuck ==
  sPc \in Sending \cup {"ack"} /\ Len(s2c[sfd]) = StreamCap /\ ~cGone[sfd]

ServerMayWait ==
  \/ sPc = "accept" /\ backlog = <<>>
  \/ NoCommand /\ sAge < RecvPeriod
  \/ sPc = "capture" /\ sAge < CaptureTime
  \/ ServerStuck
  \/ sPc \in {"done", "down"}

TimedServer ==
  /\ NoCommand => sAge >= RecvPeriod
  /\ ServerStep \/ RecvAgain
  /\ sAge' = 0
  /\ UNCHANGED clientVars
  /\ UNCHANGED <<cAge, mended, out, late, clear, quitAge, cuts>>

-----------------------------------------------------------------------------
(* The client.                                                             *)

\* recv() has nothing to read.
NoAnswerYet ==
  cPc \in {"header"} \cup Reading /\ s2cIn[cfd] = 0 /\ ~sGone[cfd]

\* receiveAll() retries a recv() that expires before its deadline.
ReadAgain ==
  /\ cPc \in Reading /\ NoAnswerYet /\ readAge < LinkTimeout
  /\ UNCHANGED linkVars /\ UNCHANGED clientVars

\* The loop of connectToServer() waits in steps of UI_POLL_MS, with one more before
\* each attempt (client_app.cpp:112, 130-134); those 30 ms are below a run's tick
\* where the connection can be lost, and are left out.
ClientMayWait ==
  \/ NoAnswerYet /\ cAge < RecvPeriod
  \/ cPc = "pause" /\ cAge < ReconnectPeriod
  \/ cPc = "done"

\* Mutant of TimedClient: the socket is left non-blocking after connect(), and an
\* empty recv() returns at once.
TimedClientNonBlocking ==
  /\ cPc = "pause" => cAge >= ReconnectPeriod
  /\ ClientStep \/ ReadAgain
  /\ cAge' = 0
  /\ UNCHANGED serverVars
  /\ UNCHANGED <<sAge, mended, out, late, clear, quitAge, cuts>>

\* A call of the client ends: a recv() with nothing to read after SO_RCVTIMEO, the
\* wait between two attempts after RECONNECT_PERIOD_MS.
TimedClient ==
  /\ NoAnswerYet => cAge >= RecvPeriod
  /\ cPc = "pause" => cAge >= ReconnectPeriod
  /\ ClientStep \/ ReadAgain
  /\ cAge' = 0
  /\ UNCHANGED serverVars
  /\ UNCHANGED <<sAge, mended, out, late, clear, quitAge, cuts>>

User ==
  /\ QuitOffline \/ QuitOnline
  /\ cAge' = 0
  /\ UNCHANGED serverVars
  /\ UNCHANGED <<sAge, mended, out, late, clear, quitAge, cuts>>

-----------------------------------------------------------------------------
(* The cable and the clock.                                                *)

\* Something the kernels of connection k have not delivered.
Undelivered(k) ==
  \/ c2sIn[k] < Len(c2s[k])
  \/ IF k = cfd THEN s2cIn[k] < Len(s2c[k]) ELSE s2c[k] # <<>>
  \/ cGone[k] # (ServerHolds(k) /\ k # cfd)
  \/ sGone[k] # (k = cfd /\ ~ServerHolds(k))

\* TCP doubles its wait with each retransmission that fails, so the next one comes
\* no later after the cable is back than the first failed before.
LinkMayWait ==
  cable => \A k \in Conns : Undelivered(k) => k \in late /\ mended < out + Rto

Cut ==
  /\ "cable" \in Faults /\ cuts < MaxCuts /\ CutCable
  /\ cuts' = cuts + 1 /\ mended' = 0 /\ clear' = 0
  /\ out' = IF \E k \in late : Undelivered(k) THEN out + mended ELSE 0
  /\ UNCHANGED <<sAge, cAge, late, quitAge>>

Mend ==
  /\ "cable" \in Faults /\ PlugCable
  /\ late' = {k \in Conns : Undelivered(k)}
  /\ UNCHANGED <<sAge, cAge, mended, out, clear, quitAge, cuts>>

Deliver == (\E k \in Conns : Undelivered(k) /\ Retransmit(k)) /\ UNCHANGED timing

TimedLink ==
  /\ Cut \/ Mend \/ Deliver
  /\ UNCHANGED serverVars /\ UNCHANGED clientVars

\* The longest q may take: the deadline of requestShutdown() is looked at before
\* each answer, and each of the three reads of an answer has a deadline of its own,
\* looked at when a recv() expires.
QuitLimit == ShutdownTimeout + RecvPeriod + 3 * (LinkTimeout + RecvPeriod)

\* When TCP has retransmitted, and the client has tried once more.
Reunited == out + Rto + ReconnectPeriod

TimedTick ==
  /\ ServerMayWait /\ ClientMayWait /\ LinkMayWait
  /\ Tick
  /\ sAge' = IF sPc \in {"recv", "capture"} THEN sAge + 1 ELSE 0
  /\ cAge' = IF cPc \in {"pause", "header"} \cup Reading THEN cAge + 1 ELSE 0
  /\ mended' = IF cable THEN Older(mended, Reunited + 1) ELSE 0
  /\ out' = IF ~cable THEN Older(out, MaxOut) ELSE IF mended > Reunited THEN 0 ELSE out
  /\ late' = IF cable THEN {k \in late : Undelivered(k)} ELSE late
  /\ clear' = IF cable /\ ~ServerStuck THEN Older(clear, Resume) ELSE 0
  /\ quitAge' = IF quitting /\ cPc # "done"
                  THEN Older(quitAge, QuitLimit + 1) ELSE quitAge
  /\ UNCHANGED cuts

TimedNext == TimedServer \/ TimedClient \/ User \/ TimedLink \/ TimedTick

TimedSpec == TimedInit /\ [][TimedNext]_timedVars

-----------------------------------------------------------------------------
(* Properties.                                                             *)

\* The client is in a session and gets answers.
Streaming ==
  /\ cPc \notin Offline /\ display # "LINK_LOST"
  /\ respAge <= RecvPeriod + CaptureTime

\* The two programs find each other again, whatever was cut before and whatever it
\* left half open, and do not lose each other as long as the cable stays in: within
\* Resume if no send() is blocked, and within one attempt of the retransmission that
\* frees a blocked one (README.md:72-78,164-170).
VideoResumes ==
  /\ clear >= Resume \/ mended > Reunited
  /\ ~quitting /\ cPc # "done"
  => Streaming

\* After a cut, whether the cable is back or not, the server is out of the session
\* before the client gives it up (Client/inc/config.h:22-24), and no send() keeps it
\* there. After a second cut it may not be: between the two TCP may get the requests
\* through, and the answers only later.
ServerFreedFirst ==
  cuts <= 1 /\ cPc = "giveUp" => sfd # cfd

\* Until a second cut no session is left half open: the server holds no connection,
\* accepted or not, but the client's, so none that the client makes queues behind
\* another (README.md:164-170).
NoneLeftHalfOpen ==
  cuts <= 1 /\ cPc # "done" => \A k \in Conns : ServerHolds(k) => k = cfd

\* q ends the client within a known time, whatever is cut and when, if each block
\* arrives whole once it arrives (client_app.cpp:224-255, with the three reads of
\* 169, 196 and 205). A block that trickles in keeps its read alive past the deadline
\* of that read, as ReadBounded in Transfer says, and is excluded here.
QuitInTime == quitAge <= QuitLimit

\* While the cable holds, requests do not pile up: the client sends one for each
\* answer and one for each recv() that expires (client_app.cpp:138-151), and nothing
\* takes back the extra ones.
AnswersKeepUp ==
  cuts = 0 /\ cfd # NoFd => Outstanding <= 1

\* While the cable holds, q in a session stops the server too: the client waits for
\* STOP_ACK long enough for the server to get to the STOP behind the commands already
\* sent (client_app.cpp:228-231, Client/inc/config.h:78-81).
QuitReachesServer ==
  cuts = 0 /\ quitting /\ cPc = "done" => sPc # "accept"
=============================================================================
