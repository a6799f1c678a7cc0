------------------------------ MODULE ServerApp -----------------------------
(***************************************************************************)
(* The server program: ServerApp (server_app.cpp) over TcpServer, with the *)
(* camera, the light monitor and the button latch it reads.                *)
(*                                                                         *)
(* sPc says which call the main thread is in. The button thread shares one *)
(* atomic boolean with it (button.h:52,75) and runs at any moment: Press.  *)
(* The camera and the light filter are inputs here: a capture succeeds or  *)
(* fails, and LightMonitor::update returns any scene.                      *)
(***************************************************************************)
EXTENDS TcpLink, Clock

CONSTANTS
  FrameIds,       \* number of values of _frameId (2^32 in the code)
  IdleTimeout,    \* CLIENT_IDLE_TIMEOUT_MS
  MaxPresses,     \* bound: presses of the button
  MaxCrashes,     \* bound: times the server process is killed
  Scenes,         \* bound: scenes LightMonitor::update may return
  Faults          \* the faults that may occur

FaultKinds ==
  {"cable", "capture", "decode", "disk", "crash", "wrap", "relaunch"}

ASSUME ServerAssumption ==
  /\ FrameIds \in Nat \ {0}
  /\ IdleTimeout \in Nat \ {0}
  /\ MaxPresses \in Nat /\ MaxCrashes \in Nat
  /\ Scenes \subseteq SceneStates
  /\ Faults \subseteq FaultKinds

VARIABLES
  sPc,          \* what the server's main thread is doing
  frameId,      \* _frameId
  light,        \* _light._state, as of the last update()
  pressed,      \* _button._pressed
  answer,       \* the header of the answer being sent, or NoAnswer
  cmdAge,       \* time since _lastCommand
  pressScene,   \* history: the scene in which the pending press was made
  presses,      \* history: presses the button thread has armed
  crashes       \* history: times the server was killed

serverVars == <<sPc, frameId, light, pressed, answer, cmdAge,
                pressScene, presses, crashes>>

Sending == {"sendHeader", "sendFrameId", "sendJpegSize", "sendImage"}

ServerPcs ==
  {"accept", "recv", "expired", "capture", "ack", "exit", "done", "down"} \cup Sending

NoAnswer == "none"

ServerInit ==
  /\ sPc = "accept" /\ frameId = 0 /\ light = "NORMAL" /\ pressed = FALSE
  /\ answer = NoAnswer /\ cmdAge = 0
  /\ pressScene = "NORMAL" /\ presses = 0 /\ crashes = 0

\* Mutant of WaitForClient: the image counter restarts with each client.
WaitForClientRestartsCounter ==
  /\ sPc = "accept"
  /\ ServerAccept
  /\ sPc' = "recv" /\ cmdAge' = 0 /\ frameId' = 0
  /\ UNCHANGED <<light, pressed, answer, pressScene, presses, crashes>>

\* waitForClient() returns and serveClient() starts the idle clock.
WaitForClient ==
  /\ sPc = "accept"
  /\ ServerAccept
  /\ sPc' = "recv" /\ cmdAge' = 0
  /\ UNCHANGED <<frameId, light, pressed, answer, pressScene, presses, crashes>>

\* Mutant of ReceiveCommand: a GET_FRAME can be read and left without an answer.
ReceiveCommandDropsGetFrame ==
  /\ sPc = "recv"
  /\ ServerRead
  /\ sPc' = IF Head(c2s[sfd]) = "STOP" THEN "ack" ELSE "recv"
  /\ cmdAge' = 0
  /\ UNCHANGED <<frameId, light, pressed, answer, pressScene, presses, crashes>>

\* receiveCommand() reads a command; dispatchCommand() starts its handler.
ReceiveCommand ==
  /\ sPc = "recv"
  /\ ServerRead
  /\ sPc' = IF Head(c2s[sfd]) = "STOP" THEN "ack" ELSE "capture"
  /\ cmdAge' = 0
  /\ UNCHANGED <<frameId, light, pressed, answer, pressScene, presses, crashes>>

\* serveClient() returns DISCONNECTED: closeClient(), then back to accept().
EndSession ==
  /\ ServerClose
  /\ sPc' = "accept" /\ answer' = NoAnswer
  /\ UNCHANGED <<frameId, light, pressed, cmdAge, pressScene, presses, crashes>>

\* Mutant of RecvTimeout: the idle limit is not looked at.
RecvTimeoutNeverEnds ==
  /\ sPc = "recv"
  /\ c2sIn[sfd] = 0 /\ ~cGone[sfd]
  /\ UNCHANGED linkVars /\ UNCHANGED serverVars

\* recv() expires with nothing to read. Only the idle limit ends the session.
RecvTimeout ==
  /\ sPc = "recv"
  /\ c2sIn[sfd] = 0 /\ ~cGone[sfd]
  /\ cmdAge >= IdleTimeout
  /\ sPc' = "expired"
  /\ UNCHANGED <<frameId, light, pressed, answer, cmdAge, pressScene, presses, crashes>>
  /\ UNCHANGED linkVars

\* The close that follows. A command may have arrived since recv() expired.
GiveUpClient == sPc = "expired" /\ EndSession

\* Mutant of RecvClosed: a recv() of 0 bytes is taken for an empty read, and the
\* session goes on without looking at the idle limit.
RecvClosedAsTimeout ==
  sPc = "recv" /\ ServerSeesClose /\ UNCHANGED linkVars /\ UNCHANGED serverVars

\* recv() returns 0 or an error.
RecvClosed == sPc = "recv" /\ ServerSeesClose /\ EndSession

\* captureJpeg() fails: no answer, and the pending press stays.
CaptureFails ==
  /\ sPc = "capture"
  /\ "capture" \in Faults
  /\ sPc' = "recv"
  /\ UNCHANGED <<frameId, light, pressed, answer, cmdAge, pressScene, presses, crashes>>
  /\ UNCHANGED linkVars

\* Mutant of NextFrameId: the counter is never advanced.
NextFrameIdStuck == frameId

\* The next image counter; the counter wraps at its width.
NextFrameId == (frameId + 1) % FrameIds

\* Mutant of AnswerGetFrame: the pending press is looked at and not taken.
AnswerGetFrameKeepsPress ==
  /\ sPc = "capture"
  /\ \E scene \in Scenes :
       /\ light' = scene
       /\ IF scene \in SceneErrors
            THEN answer' = scene /\ UNCHANGED frameId
            ELSE /\ frameId + 1 < FrameIds \/ "wrap" \in Faults
                 /\ frameId' = NextFrameId
                 /\ answer' = IF pressed THEN "BUTTON_PRESS" ELSE "FRAME_HDR"
  /\ sPc' = "sendHeader"
  /\ UNCHANGED <<pressed, pressScene, cmdAge, presses, crashes>>
  /\ UNCHANGED linkVars

\* handleGetFrame() from update() to the header it chooses. Every answer takes
\* the pending press; only an image reports it.
AnswerGetFrame ==
  /\ sPc = "capture"
  /\ \E scene \in Scenes :
       /\ light' = scene
       /\ IF scene \in SceneErrors
            THEN answer' = scene /\ UNCHANGED frameId
            ELSE /\ frameId + 1 < FrameIds \/ "wrap" \in Faults
                 /\ frameId' = NextFrameId
                 /\ answer' = IF pressed THEN "BUTTON_PRESS" ELSE "FRAME_HDR"
  /\ pressed' = FALSE /\ pressScene' = "NORMAL"
  /\ sPc' = "sendHeader"
  /\ UNCHANGED <<cmdAge, presses, crashes>>
  /\ UNCHANGED linkVars

\* sendHeader(): the header byte.
SendHeader ==
  /\ sPc = "sendHeader"
  /\ ServerWrite(Part("header", answer, frameId))
  /\ sPc' = "sendFrameId"
  /\ UNCHANGED <<frameId, light, pressed, answer, cmdAge, pressScene, presses, crashes>>

\* sendHeader(): the image counter, which ends NO_LIGHT and SENSOR_ERROR.
SendFrameId ==
  /\ sPc = "sendFrameId"
  /\ ServerWrite(Part("frameId", answer, frameId))
  /\ IF answer \in ImageAnswers
       THEN sPc' = "sendJpegSize" /\ UNCHANGED answer
       ELSE sPc' = "recv" /\ answer' = NoAnswer
  /\ UNCHANGED <<frameId, light, pressed, cmdAge, pressScene, presses, crashes>>

\* sendFrame(): the size of the JPEG.
SendJpegSize ==
  /\ sPc = "sendJpegSize"
  /\ ServerWrite(Part("jpegSize", answer, frameId))
  /\ sPc' = "sendImage"
  /\ UNCHANGED <<frameId, light, pressed, answer, cmdAge, pressScene, presses, crashes>>

\* sendFrame(): the JPEG itself, which ends the answer.
SendImage ==
  /\ sPc = "sendImage"
  /\ ServerWrite(Part("image", answer, frameId))
  /\ sPc' = "recv" /\ answer' = NoAnswer
  /\ UNCHANGED <<frameId, light, pressed, cmdAge, pressScene, presses, crashes>>

\* send() fails on a connection known to be gone.
ServerSendFails == sPc \in Sending /\ cGone[sfd] /\ EndSession

\* Mutant of HandleStop: the session goes on after the acknowledgement.
HandleStopKeepsServing ==
  /\ sPc = "ack"
  /\ \/ ServerWrite(Part("header", "STOP_ACK", 0))
     \/ cGone[sfd] /\ UNCHANGED linkVars
  /\ sPc' = "recv"
  /\ UNCHANGED <<frameId, light, pressed, answer, cmdAge, pressScene, presses, crashes>>

\* Mutant of HandleStop: the server stops only if the acknowledgement was sent.
HandleStopOnlyIfSent ==
  /\ sPc = "ack"
  /\ \/ ServerWrite(Part("header", "STOP_ACK", 0)) /\ sPc' = "exit"
     \/ cGone[sfd] /\ sPc' = "recv" /\ UNCHANGED linkVars
  /\ UNCHANGED <<frameId, light, pressed, answer, cmdAge, pressScene, presses, crashes>>

\* handleStop(): the result of the send is not looked at.
HandleStop ==
  /\ sPc = "ack"
  /\ \/ ServerWrite(Part("header", "STOP_ACK", 0))
     \/ cGone[sfd] /\ UNCHANGED linkVars
  /\ sPc' = "exit"
  /\ UNCHANGED <<frameId, light, pressed, answer, cmdAge, pressScene, presses, crashes>>

\* run() returns after closeClient(), and the destructors close the rest.
ServerExit ==
  /\ sPc = "exit"
  /\ ServerVanish
  /\ sPc' = "done"
  /\ UNCHANGED <<frameId, light, pressed, answer, cmdAge, pressScene, presses, crashes>>

\* The button thread accepts a press. One that is already pending keeps its scene
\* when it was made in the normal one.
Press ==
  /\ sPc \notin {"done", "down"}
  /\ presses < MaxPresses
  /\ presses' = presses + 1
  /\ pressed' = TRUE
  /\ pressScene' = IF pressed /\ pressScene = "NORMAL" THEN "NORMAL" ELSE light
  /\ UNCHANGED <<sPc, frameId, light, answer, cmdAge, crashes>>
  /\ UNCHANGED linkVars

\* The process is killed (ele4205-serveur stop, or a crash).
Crash ==
  /\ "crash" \in Faults /\ crashes < MaxCrashes
  /\ sPc \notin {"done", "down"}
  /\ ServerVanish
  /\ sPc' = "down" /\ crashes' = crashes + 1 /\ answer' = NoAnswer
  /\ UNCHANGED <<frameId, light, pressed, cmdAge, pressScene, presses>>

\* It is started again: ServerApp's constructor, then run().
Restart ==
  /\ sPc = "down" \/ (sPc = "done" /\ "relaunch" \in Faults)
  /\ ServerListen
  /\ sPc' = "accept" /\ frameId' = 0 /\ light' = "NORMAL" /\ pressed' = FALSE
  /\ answer' = NoAnswer /\ cmdAge' = 0 /\ pressScene' = "NORMAL"
  /\ UNCHANGED <<presses, crashes>>

\* One call of the main thread.
ServerStep ==
  \/ WaitForClient \/ ReceiveCommand \/ RecvTimeout \/ GiveUpClient \/ RecvClosed
  \/ CaptureFails \/ AnswerGetFrame
  \/ SendHeader \/ SendFrameId \/ SendJpegSize \/ SendImage \/ ServerSendFails
  \/ HandleStop \/ ServerExit

\* What happens to the server process from outside its main thread.
ServerEnv == Press \/ Crash \/ Restart
=============================================================================
