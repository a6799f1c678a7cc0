------------------------------ MODULE ClientApp -----------------------------
(***************************************************************************)
(* The client program: ClientApp (client_app.cpp) over TcpClient and       *)
(* ImageStore. It is single-threaded; cPc says which call it is in. It     *)
(* EXTENDS the server's module only to share its constants and the state   *)
(* of the link: the two programs have no other state in common.            *)
(***************************************************************************)
EXTENDS ServerApp

CONSTANTS
  LinkTimeout,      \* LINK_TIMEOUT_MS, also the deadline of receiveAll
  ShutdownTimeout,  \* SHUTDOWN_TIMEOUT_MS
  MaxCommands,      \* bound: commands written and not yet read
  MaxLaunches       \* bound: times the client is started

ASSUME ClientAssumption ==
  /\ LinkTimeout \in Nat \ {0} /\ ShutdownTimeout \in Nat \ {0}
  /\ MaxCommands \in Nat \ {0} /\ MaxLaunches \in Nat \ {0}

VARIABLES
  cPc,          \* what the client is doing
  quitting,     \* in requestShutdown()
  display,      \* _state, what the window shows
  response,     \* the header of the answer being read, or NoAnswer
  cFrameId,     \* _frameId, the counter read last
  frame,        \* the counter of the image in _frame (0: the empty frame)
  disk,         \* how many times capture_frame_<id>.jpg was written
  respAge,      \* time since _lastResponse
  readAge,      \* time since the receiveAll in progress started
  shutAge,      \* time since STOP was sent
  launches      \* history: times the client was started

clientVars == <<cPc, quitting, display, response, cFrameId, frame, disk,
                respAge, readAge, shutAge, launches>>

\* The socket is closed in these.
Offline == {"connect", "pause", "done"}

\* receiveAll() is in progress in these.
Reading == {"frameId", "jpegSize", "image"}

ClientPcs == Offline \cup {"send", "header", "key", "await", "giveUp"} \cup Reading

\* ImageStore::reset(): the directory is emptied, or made.
EmptyStore == [n \in 0 .. FrameIds - 1 |-> 0]

\* ImageStore::save(): the file of an image counter is written over.
SaveImage(n) == disk' = [disk EXCEPT ![n] = @ + 1]

\* It returns FALSE: no such file, or not all of it.
SaveFails == "disk" \in Faults /\ UNCHANGED disk

\* A client process as initialize() leaves it: an empty images/ directory, an
\* empty frame, CONNEXION PERDUE in the window.
ClientInit ==
  /\ cPc = "connect" /\ quitting = FALSE /\ display = "LINK_LOST"
  /\ response = NoAnswer /\ cFrameId = 0 /\ frame = 0
  /\ disk = EmptyStore
  /\ respAge = 0 /\ readAge = 0 /\ shutAge = 0
  /\ launches = 1

\* composeFrame(): the image received last, or the message of the state.
ComposeFrame == IF display = "NORMAL" THEN <<"image", frame>> ELSE <<display>>

-----------------------------------------------------------------------------
(* connectToServer().                                                      *)

\* An attempt succeeds; run() starts a session.
Connect ==
  /\ cPc = "connect"
  /\ Reachable
  /\ \E k \in Conns : ClientConnect(k)
  /\ cPc' = "send" /\ respAge' = 0
  /\ UNCHANGED <<quitting, display, response, cFrameId, frame, disk,
                 readAge, shutAge, launches>>

\* It is refused, or CONNECT_TIMEOUT_MS expires.
ConnectFails ==
  /\ cPc = "connect" /\ ~Reachable
  /\ cPc' = "pause"
  /\ UNCHANGED <<quitting, display, response, cFrameId, frame, disk,
                 respAge, readAge, shutAge, launches>>
  /\ UNCHANGED linkVars

\* RECONNECT_PERIOD_MS after the start of the attempt, the next one.
PauseOver ==
  /\ cPc = "pause"
  /\ cPc' = "connect"
  /\ UNCHANGED <<quitting, display, response, cFrameId, frame, disk,
                 respAge, readAge, shutAge, launches>>
  /\ UNCHANGED linkVars

\* The q key while there is no connection: run() returns, nothing is sent.
QuitOffline ==
  /\ cPc \in {"connect", "pause"}
  /\ cPc' = "done"
  /\ UNCHANGED <<quitting, display, response, cFrameId, frame, disk,
                 respAge, readAge, shutAge, launches>>
  /\ UNCHANGED linkVars

\* Mutant of LinkLost: the socket is not closed.
LinkLostKeepsSocket ==
  /\ cPc' = "connect" /\ display' = "LINK_LOST"
  /\ response' = NoAnswer /\ readAge' = 0
  /\ UNCHANGED <<quitting, cFrameId, frame, disk,
                 respAge, shutAge, launches>>
  /\ UNCHANGED linkVars

\* Mutant of LinkLost: the window keeps the state of the lost session.
LinkLostKeepsWindow ==
  /\ ClientClose
  /\ cPc' = "connect"
  /\ response' = NoAnswer /\ readAge' = 0
  /\ UNCHANGED <<quitting, display, cFrameId, frame, disk,
                 respAge, shutAge, launches>>

\* runSession() returns LINK_LOST: run() closes and connectToServer() shows
\* CONNEXION PERDUE.
LinkLost ==
  /\ ClientClose
  /\ cPc' = "connect" /\ display' = "LINK_LOST"
  /\ response' = NoAnswer /\ readAge' = 0
  /\ UNCHANGED <<quitting, cFrameId, frame, disk,
                 respAge, shutAge, launches>>

\* requestShutdown() returns, acknowledged or not; the process ends.
Finish ==
  /\ ClientClose
  /\ cPc' = "done" /\ response' = NoAnswer /\ readAge' = 0
  /\ UNCHANGED <<quitting, display, cFrameId, frame, disk,
                 respAge, shutAge, launches>>

\* A read failed: during requestShutdown() that ends the program.
Abandon == IF quitting THEN Finish ELSE LinkLost

-----------------------------------------------------------------------------
(* exchangeFrame(), handleResponse(), receiveImage().                      *)

SendGetFrame ==
  /\ cPc = "send"
  /\ Len(c2s[cfd]) < MaxCommands
  /\ ClientWrite("GET_FRAME")
  /\ cPc' = "header"
  /\ UNCHANGED <<quitting, display, response, cFrameId, frame, disk,
                 respAge, readAge, shutAge, launches>>

ClientSendFails == cPc = "send" /\ sGone[cfd] /\ LinkLost

\* A header is read. Only the answers to GET_FRAME have more to read.
ReceiveHeader ==
  /\ cPc = "header"
  /\ ClientRead
  /\ Head(s2c[cfd]).of \in FrameAnswers \/ ~quitting
  /\ IF Head(s2c[cfd]).of \in FrameAnswers
       THEN cPc' = "frameId" /\ response' = Head(s2c[cfd]).of
       ELSE cPc' = "key" /\ UNCHANGED response
  /\ respAge' = IF quitting THEN respAge ELSE 0
  /\ UNCHANGED <<quitting, display, cFrameId, frame, disk, readAge, shutAge, launches>>

\* requestShutdown() reads STOP_ACK.
ReceiveStopAck ==
  /\ cPc = "header" /\ quitting
  /\ s2cIn[cfd] > 0 /\ Head(s2c[cfd]).of = "STOP_ACK"
  /\ Finish

\* A read has expired for good; what arrives before the close is not read.
GivesUp ==
  /\ cPc' = "giveUp" /\ response' = NoAnswer /\ readAge' = 0
  /\ UNCHANGED <<quitting, display, cFrameId, frame, disk, respAge, shutAge, launches>>
  /\ UNCHANGED linkVars

GiveUpServer == cPc = "giveUp" /\ Abandon

\* Mutant of HeaderTimeout: one late answer ends the session.
HeaderTimeoutEndsSession ==
  /\ cPc = "header"
  /\ s2cIn[cfd] = 0 /\ ~sGone[cfd]
  /\ \/ /\ quitting /\ cPc' = "await"
        /\ UNCHANGED <<quitting, display, response, cFrameId, frame, disk,
                       respAge, readAge, shutAge, launches>>
        /\ UNCHANGED linkVars
     \/ ~quitting /\ GivesUp

\* recv() expires: one late answer is normal, LINK_TIMEOUT_MS of silence is not.
HeaderTimeout ==
  /\ cPc = "header"
  /\ s2cIn[cfd] = 0 /\ ~sGone[cfd]
  /\ \/ /\ quitting \/ respAge < LinkTimeout
        /\ cPc' = IF quitting THEN "await" ELSE "key"
        /\ UNCHANGED <<quitting, display, response, cFrameId, frame, disk,
                       respAge, readAge, shutAge, launches>>
        /\ UNCHANGED linkVars
     \/ ~quitting /\ respAge >= LinkTimeout /\ GivesUp

HeaderClosed == cPc = "header" /\ ClientSeesClose /\ Abandon

\* Where an answer leaves the client: the end of its cycle, or the loop of
\* requestShutdown().
AfterAnswer == IF quitting THEN "await" ELSE "key"

\* Mutant of ReceiveFrameId: every answer is taken to carry an image.
ReceiveFrameIdExpectsImage ==
  /\ cPc = "frameId"
  /\ ClientRead
  /\ cFrameId' = Head(s2c[cfd]).n
  /\ display' = IF response \in ImageAnswers THEN "NORMAL" ELSE response
  /\ cPc' = "jpegSize" /\ readAge' = 0
  /\ UNCHANGED <<quitting, response, frame, disk, respAge, shutAge, launches>>

\* The counter is kept and the display state set before any image is read.
ReceiveFrameId ==
  /\ cPc = "frameId"
  /\ ClientRead
  /\ cFrameId' = Head(s2c[cfd]).n
  /\ display' = IF response \in ImageAnswers THEN "NORMAL" ELSE response
  /\ IF response \in ImageAnswers
       THEN cPc' = "jpegSize" /\ UNCHANGED response
       ELSE cPc' = AfterAnswer /\ response' = NoAnswer
  /\ readAge' = 0
  /\ UNCHANGED <<quitting, frame, disk, respAge, shutAge, launches>>

\* receiveImage(): the size of the JPEG. Each read has a deadline of its own.
ReceiveJpegSize ==
  /\ cPc = "jpegSize"
  /\ ClientRead
  /\ cPc' = "image" /\ readAge' = 0
  /\ UNCHANGED <<quitting, display, response, cFrameId, frame, disk,
                 respAge, shutAge, launches>>

\* Mutant of ReceiveImage: an image that is saved is not shown.
ReceiveImageSavesOrShows ==
  /\ cPc = "image"
  /\ ClientRead
  /\ \/ /\ response = "BUTTON_PRESS" /\ SaveImage(cFrameId)
        /\ UNCHANGED frame
     \/ /\ response # "BUTTON_PRESS"
        /\ frame' = Head(s2c[cfd]).n
        /\ UNCHANGED disk
  /\ cPc' = AfterAnswer /\ response' = NoAnswer /\ readAge' = 0
  /\ UNCHANGED <<quitting, display, cFrameId, respAge, shutAge, launches>>

\* receiveImage(): the JPEG. It is saved, if that was asked for, before it is decoded;
\* neither a save nor a decoding that fails ends the session.
ReceiveImage ==
  /\ cPc = "image"
  /\ ClientRead
  /\ IF response = "BUTTON_PRESS" THEN SaveImage(cFrameId) \/ SaveFails
                                   ELSE UNCHANGED disk
  /\ \/ frame' = Head(s2c[cfd]).n
     \/ "decode" \in Faults /\ UNCHANGED frame
  /\ cPc' = AfterAnswer /\ response' = NoAnswer /\ readAge' = 0
  /\ UNCHANGED <<quitting, display, cFrameId, respAge, shutAge, launches>>

\* Mutant of ReadFails: an answer whose rest is late is given up like a late
\* header, and the session goes on.
ReadFailsKeepsSession ==
  /\ cPc \in Reading
  /\ s2cIn[cfd] = 0
  /\ \/ sGone[cfd] /\ Abandon
     \/ /\ ~sGone[cfd] /\ readAge >= LinkTimeout
        /\ cPc' = AfterAnswer /\ response' = NoAnswer /\ readAge' = 0
        /\ UNCHANGED <<quitting, display, cFrameId, frame, disk,
                       respAge, shutAge, launches>>
        /\ UNCHANGED linkVars

\* receiveAll() fails: the connection is closed, or its deadline has passed with
\* the data still missing.
ReadFails ==
  /\ cPc \in Reading
  /\ s2cIn[cfd] = 0
  /\ \/ sGone[cfd] /\ Abandon
     \/ ~sGone[cfd] /\ readAge >= LinkTimeout /\ GivesUp

\* Mutant of PollNoKey: the next cycle waits without asking.
PollNoKeySkipsSend ==
  /\ cPc = "key"
  /\ cPc' = "header"
  /\ UNCHANGED <<quitting, display, response, cFrameId, frame, disk,
                 respAge, readAge, shutAge, launches>>
  /\ UNCHANGED linkVars

\* displayAndPollKey() at the end of a cycle.
PollNoKey ==
  /\ cPc = "key"
  /\ cPc' = "send"
  /\ UNCHANGED <<quitting, display, response, cFrameId, frame, disk,
                 respAge, readAge, shutAge, launches>>
  /\ UNCHANGED linkVars

\* The q key: requestShutdown() sends STOP, whatever the result.
QuitOnline ==
  /\ cPc = "key"
  /\ \/ ClientWrite("STOP")
     \/ sGone[cfd] /\ UNCHANGED linkVars
  /\ cPc' = "await" /\ quitting' = TRUE /\ shutAge' = 0
  /\ UNCHANGED <<display, response, cFrameId, frame, disk,
                 respAge, readAge, launches>>

\* Mutant of AwaitAck: the deadline is not looked at.
AwaitAckForever ==
  /\ cPc = "await"
  /\ cPc' = "header"
  /\ UNCHANGED <<quitting, display, response, cFrameId, frame, disk,
                 respAge, readAge, shutAge, launches>>
  /\ UNCHANGED linkVars

\* The loop of requestShutdown() looks at its deadline before every recv().
AwaitAck ==
  /\ cPc = "await" /\ shutAge < ShutdownTimeout
  /\ cPc' = "header"
  /\ UNCHANGED <<quitting, display, response, cFrameId, frame, disk,
                 respAge, readAge, shutAge, launches>>
  /\ UNCHANGED linkVars

AckNotReceived == cPc = "await" /\ shutAge >= ShutdownTimeout /\ Finish

\* The client is started again; initialize() empties images/.
Relaunch ==
  /\ cPc = "done"
  /\ "relaunch" \in Faults /\ launches < MaxLaunches
  /\ cPc' = "connect" /\ quitting' = FALSE /\ display' = "LINK_LOST"
  /\ response' = NoAnswer /\ cFrameId' = 0 /\ frame' = 0
  /\ disk' = EmptyStore
  /\ respAge' = 0 /\ readAge' = 0 /\ shutAge' = 0
  /\ launches' = launches + 1
  /\ UNCHANGED linkVars

\* One call of the client, the keyboard aside.
ClientStep ==
  \/ Connect \/ ConnectFails \/ PauseOver
  \/ SendGetFrame \/ ClientSendFails
  \/ ReceiveHeader \/ ReceiveStopAck \/ HeaderTimeout \/ HeaderClosed
  \/ GiveUpServer
  \/ ReceiveFrameId \/ ReceiveJpegSize \/ ReceiveImage \/ ReadFails
  \/ PollNoKey \/ AwaitAck \/ AckNotReceived

\* What the user does.
ClientEnv == QuitOffline \/ QuitOnline \/ Relaunch
=============================================================================
