--------------------------- MODULE StreamingSystem --------------------------
(***************************************************************************)
(* The two programs, the cable and the clock together.                     *)
(*                                                                         *)
(* Time is a Tick that ages every clock the programs are running. Nothing  *)
(* relates the speed of a program to the length of a tick: any answer may  *)
(* be late and any timeout early, so what holds here holds for every value *)
(* of the periods and timeouts of the two config.h.                        *)
(***************************************************************************)
EXTENDS ClientApp, FiniteSets

vars == <<linkVars, serverVars, clientVars>>

Init == LinkInit /\ ServerInit /\ ClientInit

\* A connection is being served.
InSession == sPc \in {"recv", "expired", "capture", "ack"} \cup Sending

Tick ==
  /\ cmdAge' = IF InSession THEN Older(cmdAge, IdleTimeout) ELSE cmdAge
  /\ respAge' = IF cPc \notin Offline /\ ~quitting
                  THEN Older(respAge, LinkTimeout) ELSE respAge
  /\ readAge' = IF cPc \in Reading THEN Older(readAge, LinkTimeout) ELSE readAge
  /\ shutAge' = IF cPc \notin Offline /\ quitting
                  THEN Older(shutAge, ShutdownTimeout) ELSE shutAge
  /\ UNCHANGED linkVars
  /\ UNCHANGED <<sPc, frameId, light, pressed, answer, pressScene, presses, crashes>>
  /\ UNCHANGED <<cPc, quitting, display, response, cFrameId, frame, disk, launches>>

\* The cable and the kernels.
LinkStep ==
  /\ \/ "cable" \in Faults /\ (CutCable \/ PlugCable)
     \/ \E k \in Conns : Retransmit(k)
  /\ UNCHANGED serverVars /\ UNCHANGED clientVars

Next ==
  \/ (ServerStep \/ ServerEnv) /\ UNCHANGED clientVars
  \/ (ClientStep \/ ClientEnv) /\ UNCHANGED serverVars
  \/ LinkStep
  \/ Tick

Spec == Init /\ [][Next]_vars

\* Each program is scheduled, time passes, the kernels retransmit while the cable
\* is in. Nobody is obliged to press a key or a button, or to plug the cable in.
Fairness ==
  /\ WF_vars(ServerStep /\ UNCHANGED clientVars)
  /\ WF_vars(ClientStep /\ UNCHANGED serverVars)
  /\ WF_vars((\E k \in Conns : Retransmit(k))
             /\ UNCHANGED serverVars /\ UNCHANGED clientVars)
  /\ WF_vars(Tick)

FairSpec == Spec /\ Fairness

-----------------------------------------------------------------------------
(* Types.                                                                  *)

Blocks == [part : PartKinds, of : Answers, n : 0 .. FrameIds - 1]

LinkTypeOK ==
  /\ cable \in BOOLEAN /\ listening \in BOOLEAN
  /\ backlog \in Seq(Conns)
  /\ cfd \in Conns \cup {NoFd} /\ sfd \in Conns \cup {NoFd}
  /\ c2s \in [Conns -> Seq(Commands)] /\ s2c \in [Conns -> Seq(Blocks)]
  /\ c2sIn \in [Conns -> Nat] /\ s2cIn \in [Conns -> Nat]
  /\ cGone \in [Conns -> BOOLEAN] /\ sGone \in [Conns -> BOOLEAN]

\* What has arrived is part of what was written.
ArrivedOK == \A k \in Conns : c2sIn[k] <= Len(c2s[k]) /\ s2cIn[k] <= Len(s2c[k])

\* The backlog holds a connection once, within its limit, and not the one served.
BacklogOK ==
  /\ Len(backlog) <= Backlog
  /\ \A i, j \in 1 .. Len(backlog) : backlog[i] = backlog[j] => i = j
  /\ ~Backlogged(sfd)

ServerTypeOK ==
  /\ sPc \in ServerPcs
  /\ frameId \in 0 .. FrameIds - 1
  /\ light \in SceneStates /\ pressScene \in SceneStates
  /\ pressed \in BOOLEAN
  /\ answer \in FrameAnswers \cup {NoAnswer}
  /\ cmdAge \in 0 .. IdleTimeout
  /\ presses \in 0 .. MaxPresses /\ crashes \in 0 .. MaxCrashes

\* The server holds a connection from accept() to closeClient(), and has an
\* answer in hand exactly while it sends it.
ServerCallOK ==
  /\ (sfd = NoFd) <=> (sPc \in {"accept", "done", "down"})
  /\ (answer = NoAnswer) <=> (sPc \notin Sending)
  /\ sPc \in {"sendJpegSize", "sendImage"} => answer \in ImageAnswers

ClientTypeOK ==
  /\ cPc \in ClientPcs
  /\ quitting \in BOOLEAN
  /\ display \in DisplayStates
  /\ response \in FrameAnswers \cup {NoAnswer}
  /\ cFrameId \in 0 .. FrameIds - 1 /\ frame \in 0 .. FrameIds - 1
  /\ disk \in [0 .. FrameIds - 1 -> Nat]
  /\ respAge \in 0 .. LinkTimeout /\ readAge \in 0 .. LinkTimeout
  /\ shutAge \in 0 .. ShutdownTimeout
  /\ launches \in 1 .. MaxLaunches

\* The same for the client, from connect() to close().
ClientCallOK ==
  /\ (cfd = NoFd) <=> (cPc \in Offline)
  /\ (response = NoAnswer) <=> (cPc \notin Reading)
  /\ cPc \in {"jpegSize", "image"} => response \in ImageAnswers

\* Every variable has its type, and each program is in a call on its socket
\* exactly when it holds one.
TypeOK ==
  /\ LinkTypeOK /\ ArrivedOK /\ BacklogOK
  /\ ServerTypeOK /\ ServerCallOK
  /\ ClientTypeOK /\ ClientCallOK

-----------------------------------------------------------------------------
(* Safety.                                                                 *)

\* q may be the next block of the stream for the client: one it reads for what it
\* is, or one it does not read.
ClientExpects(q) ==
  CASE cPc = "frameId" -> q.part = "frameId" /\ q.of = response
    [] cPc \in {"jpegSize", "image"} -> q = Part(cPc, response, cFrameId)
    [] cPc = "giveUp"  -> TRUE
    [] OTHER           -> q.part = "header"

\* The block the server can write next on its connection.
ServerNext(q) ==
  CASE sPc = "sendHeader"  -> q = Part("header", answer, frameId)
    [] sPc = "sendFrameId" -> q = Part("frameId", answer, frameId)
    [] sPc = "sendJpegSize" -> q = Part("jpegSize", answer, frameId)
    [] sPc = "sendImage"   -> q = Part("image", answer, frameId)
    [] sPc \in {"expired", "exit"} -> FALSE
    [] OTHER               -> q.part = "header"

InOrder(s) == \A i \in 1 .. Len(s) - 1 : Follows(s[i], s[i + 1])

\* The two ends never lose step in the byte stream, whatever is lost, late or
\* abandoned: the client reads as a header only what was written as a header, as
\* the rest of an answer only the rest of that answer (client_app.cpp:161-222
\* against server_app.cpp:59-81), and nothing follows STOP_ACK.
StreamAligned ==
  cfd # NoFd =>
    /\ InOrder(s2c[cfd])
    /\ s2c[cfd] # <<>> => ClientExpects(s2c[cfd][1])
    /\ cfd = sfd => \A q \in Blocks : ServerNext(q) =>
         IF s2c[cfd] = <<>> THEN ClientExpects(q)
                            ELSE Follows(s2c[cfd][Len(s2c[cfd])], q)

\* connect() succeeds on a connection nobody has accepted (README.md:166-168): the
\* window keeps CONNEXION PERDUE until the server has accepted and answered, and
\* the client has nothing to read before that.
LiveOnlyIfAccepted ==
  /\ cPc \in {"connect", "pause"} => display = "LINK_LOST"
  /\ Backlogged(cfd) => /\ s2c[cfd] = <<>>
                        /\ display = "LINK_LOST"
                        /\ cPc \notin Reading

\* GET_FRAMEs the server has not finished answering, on the client's connection:
\* in the stream, in the server's hands, or answered and not read.
Outstanding ==
  Cardinality({i \in 1 .. Len(c2s[cfd]) : c2s[cfd][i] = "GET_FRAME"})
  + Cardinality({i \in 1 .. Len(s2c[cfd]) :
                   s2c[cfd][i].part = "header" /\ s2c[cfd][i].of \in FrameAnswers})
  + IF cfd = sfd /\ sPc \in {"capture", "sendHeader"} THEN 1 ELSE 0

\* The STOP of the client, or its acknowledgement, is still to come.
StopPending ==
  \/ \E i \in 1 .. Len(c2s[cfd]) : c2s[cfd][i] = "STOP"
  \/ cfd = sfd /\ sPc = "ack"
  \/ \E i \in 1 .. Len(s2c[cfd]) : s2c[cfd][i].of = "STOP_ACK"

\* Without a failing capture, the client never waits for an answer nobody owes it:
\* while it is in recv() on a connection the server holds, an answer to a
\* GET_FRAME is on its way or due, or, when it quits, the answer to STOP is.
\* (client_app.cpp:138-159, 224-255; server_app.cpp:123-140)
AnswerOwed ==
  cPc = "header" /\ ServerHolds(cfd) =>
    IF quitting THEN StopPending ELSE Outstanding >= 1

\* STOP_ACK is the last word of a session (server_app.cpp:132-135,192-194): it is
\* only sent to a client that is quitting, once every command was read, and the
\* server that sent it serves nobody again.
AckEndsEverything ==
  \A k \in Conns : \A i \in 1 .. Len(s2c[k]) :
    s2c[k][i].of = "STOP_ACK" =>
      /\ i = Len(s2c[k]) /\ c2s[k] = <<>>
      /\ k = cfd => quitting
      /\ sPc \in {"exit", "done", "down"} \/ crashes > 0

\* Files written since the client was started, one pair for each time.
Writes == UNION {{n} \X (1 .. disk[n]) : n \in DOMAIN disk}

Saves == Cardinality(Writes)

\* The images of pressed buttons on their way to the disk.
ReportsInFlight ==
  (IF sPc \in Sending /\ sfd = cfd /\ answer = "BUTTON_PRESS" THEN 1 ELSE 0)
  + (IF cfd = NoFd THEN 0
     ELSE Cardinality({i \in 1 .. Len(s2c[cfd]) :
            s2c[cfd][i].part = "image" /\ s2c[cfd][i].of = "BUTTON_PRESS"}))

\* A press is never reported twice (server_app.cpp:107-108, button.h:49-50): the
\* files, the images on their way to become files and the pending press are no
\* more than the presses made.
PressReportedOnce ==
  Saves + ReportsInFlight + (IF pressed THEN 1 ELSE 0) <= presses

\* No image takes the name of one already saved (image_store.cpp:38-39).
NoOverwrite == \A n \in DOMAIN disk : disk[n] <= 1

\* The images reach the client in the order they were taken, over reconnections,
\* cuts and light gaps: each carries a larger counter than every one before it.
\* (server_app.cpp:105; client_app.cpp:168-173)
ImagesInOrder ==
  [][cPc = "frameId" /\ cPc' = "jpegSize" => cFrameId' > cFrameId]_vars

\* After an image answer was read the window shows the image of the counter drawn
\* on it (client_app.cpp:178-221), as long as images can be decoded.
ShownImageIsCurrent ==
  display = "NORMAL" /\ cPc \in {"key", "send", "header"} =>
    ComposeFrame = <<"image", cFrameId>>

-----------------------------------------------------------------------------
(* Liveness.                                                               *)

\* Once q was read in a session the client ends, whatever became of the server,
\* of the cable and of the answers (client_app.cpp:224-255).
QuitTerminates == quitting ~> cPc = "done"

\* With the cable back for good, the server does not stay with a client that has
\* gone, even one that left it blocked in send() (server_app.cpp:142-166).
SessionReleased ==
  <>[]cable => (sfd # NoFd /\ sfd # cfd ~> sfd = NoFd \/ sfd = cfd)

\* With the cable out for good, the server leaves every session it can get out of
\* recv() in: only a send() that blocks keeps one (server_app.cpp:145-155).
CutReleasesServer ==
  <>[]~cable => <>[](sfd = NoFd \/ Len(s2c[sfd]) = StreamCap)

\* With the cable back for good, a STOP that was read ends the server, whether or
\* not its acknowledgement can be sent (server_app.cpp:118-121, 192-194).
StopStopsTheServer == <>[]cable => (sPc = "ack" ~> sPc \in {"done", "down"})

-----------------------------------------------------------------------------
(* What the documentation says and the code does not do.                   *)

\* server_app.cpp:93-95: a press made while the scene is in error triggers no
\* save, neither during the state nor when the scene is normal again.
DarkPressNeverSaved ==
  [][pressed /\ answer' = "BUTTON_PRESS" => pressScene = "NORMAL"]_vars

\* README.md:86-87 and server_app.cpp:107-108: a press that is consumed is always
\* paired with an image that reached the client; so no cut loses one.
PressSurvivesCut ==
  [][~cable /\ ReportsInFlight' < ReportsInFlight => Saves' > Saves]_vars
=============================================================================
