# Verification of the embedded client–server video streaming system

TLA+ models of the two programs of this repository (the server of the
Odroid-C2 in `Serveur/`, the client of the workstation in `Client/`), the TLC
configurations that check them on small instances, and theorems about them that
the TLAPS proof system checks for every value of the constants.

    tlc -config Session.cfg MCStreamingSystem.tla     # a run
    tlapm StreamingSystemProofs.tla                   # the proofs of the framing
    tlapm DialogueProofs.tla                          # the proofs of requests and answers
    tlapm ImageProofs.tla                             # the proofs of images and presses
    tlapm TimedSystemProofs.tla                       # the proofs with durations
    tlapm RecoveryProofs.tla                          # the proofs of who gives up first
    tlapm TransferProofs.tla                          # the proofs of the byte loops
    tlapm LightMonitorProofs.tla                      # the proofs of the light filter
    tlapm ButtonMonitorProofs.tla                     # the proofs of the debounce

Paths below are relative to the repository; `README.md:160` is the README of the
repository, not this file.

## 1. The system

### 1.1 Components, their state and their operations

| Component | State | Operations |
|---|---|---|
| **Server application** `server_app.cpp` | `_frameId` (images counted), the scene as last judged, the time of the last command | `run` / `waitForClient` / `serveClient` loop, `dispatchCommand`, `handleGetFrame`, `sendHeader`, `sendFrame`, `handleStop` |
| **Server socket** `tcp_server.cpp` | listening socket, `_clientFd` | `waitForClient` (an `accept()` that blocks), `receiveCommand` (`SO_RCVTIMEO`), `sendResponse` and `sendAll` (no timeout), `closeClient` |
| **Client application** `client_app.cpp` | the displayed state, `_frameId` last read, the frame shown, the time of the last answer | `run`, `connectToServer`, `runSession`, `exchangeFrame`, `handleResponse`, `receiveImage`, `requestShutdown`, `displayAndPollKey` |
| **Client socket** `tcp_client.cpp` | `_fd` | non-blocking `connect`, `send`, `receive`, `receiveAll` with its deadline, `close` |
| **Protocol** `protocol.h` (twice, identical) | none | the headers and what follows each |
| **Image store** `image_store.cpp` | the `images/` directory | `reset` at start, `save` under the image counter |
| **Button monitor** `button.cpp` | the GPIO line; in the thread `previous`, `pressSeen`, `_lastAccepted`; shared: the atomic `_pressed` | `watchLoop` at 1 kHz with debounce, `takePress` |
| **Light monitor** `light_monitor.cpp` | `_state`, `_candidate`, `_candidateSince` | `update`, `classify`, `readRaw` |
| **Camera** `camera.cpp` | the OpenCV capture | `captureJpeg`, which may fail |
| **Timing configuration** `config.h` (twice) | periods and limits | none |
| **Cycle reporter**, **init script**, **deployment and build files** | see section 8 | |

### 1.2 How they interact

The client drives everything: it writes `GET_FRAME` and reads one answer; it
writes `STOP` and reads until `STOP_ACK`. Answers are a byte stream, with
nothing but the header to tell one from another: the two programs agree on where
an answer ends only because both follow `protocol.h`. Inside the server the
main thread captures an image, lets the light monitor judge it against the
sensor, and takes the pending press of the button thread; those two threads
share one atomic boolean. The client names the files it saves with the counter
of the server. Between the programs are two kernels and a cable: `connect()`
succeeds on a connection the server has not accepted, a cable that is out is
silent, `send()` blocks when the buffers are full.

### 1.3 What is hard, and what correctness means

* **Byte stream.** `recv()` expires and the session goes on (`client_app.cpp:143-154`),
  so from then on every answer read belongs to an earlier request. A half-read
  answer must never be continued as a header: `StreamAligned`. `send()` and
  `recv()` take any part of what they are given: `BytesAligned`, `WholeBlocks`.
* **Accounting of answers.** With late answers, queued commands and `STOP`
  behind them, the client must never wait for an answer nobody owes:
  `AnswerOwed`, `AckEndsEverything`.
* **Half-open connections.** Accepted by the kernel and not by the server, given
  up by the client and still queued, cut without an error: `LiveOnlyIfAccepted`,
  `SessionReleased`, `CutReleasesServer`.
* **Limits against limits.** The client must give up later than the server, or
  each reconnection queues behind a connection nobody serves; the programs look at
  their deadlines only when a `recv()` expires: `ServerFreedFirst`, `NoneLeftHalfOpen`,
  `VideoResumes`, `ReadBounded`, `QuitInTime`.
* **Requests that pile up.** A `recv()` that expires leads to one more `GET_FRAME`
  and nothing takes one back: `AnswersKeepUp`, `QuitReachesServer`.
* **Shutdown** with the peer, the cable or the acknowledgement gone:
  `QuitTerminates`, `StopStopsTheServer`.
* **The press** crosses a thread, a queue of answers, a network and a disk:
  `PressReportedOnce`, and the documented promises that fail (section 6).
* **The image counter** outlives sessions, not the server; the window shows an
  image under a state set before it is received: `ImagesInOrder`,
  `ShownImageIsCurrent`, `NoOverwrite`.
* **Sampled filters.** The light filter samples only while an answer is being
  prepared, with a sensor read after the image was taken; the debounce samples a
  contact that bounces: `AdoptedUninterrupted`, `LastingSceneAdopted`,
  `OnceEachMove`, `SeenPressReported`.

`PROJECT.json` lists each hazard at its line with the properties that cover it,
and says why where none does.

## 2. Modules

    Protocol      Clock                     Protocol --- BlockStream
        \         /  \   \                      |            |  (abstract)
        TcpLink  /    \   \                   Transfer ------+
           \    /  LightMonitor  ButtonMonitor    |
          ServerApp                         TransferProofs    (theorems)
              |
          ClientApp
              |
        StreamingSystem --- MCStreamingSystem         (runs)
          |         |
          |   StreamingSystemProofs                   (theorems)
          |         |          \
          |   DialogueProofs   ImageProofs            (theorems)
          |                        |
        TimedSystem ------- TimedSystemProofs         (theorems)
               \                 |
                \      Config    RecoveryProofs       (theorems; also on DialogueProofs)
                 \    /
             MCTimedSystem                            (runs)

        LightMonitor --- LightMonitorProofs           (theorems)
        ButtonMonitor --- ButtonMonitorProofs         (theorems)

* **Protocol** — commands, headers, which block may follow which.
* **Clock** — the programs only ever compare the age of a date with one limit;
  an age stops growing at its limit.
* **TcpLink** — the two kernels and the cable, as far as the code relies on them:
  the backlog, a FIFO stream in each direction (`c2s`, `s2c`) of which a prefix
  has arrived (`c2sIn`, `s2cIn`), the news of a close (`cGone`, `sGone`), resets
  that drop data, retransmission when the cable is back. The operations the code
  calls (`ClientConnect`, `ServerWrite`, ...) are mapped to `tcp_client.cpp` and
  `tcp_server.cpp`; the kernels' own steps are marked external.
* **ServerApp** — one action per call of the main thread, and the button thread
  as `Press`, enabled at every moment. Camera and light are inputs: a capture may
  fail, `update()` may return any scene.
* **ClientApp** — one action per call of the client.
* **StreamingSystem** — both, the cable, and `Tick`; the fairness; all properties
  of the composition.
* **Config** — the durations of the two `config.h`, in milliseconds, and what
  their comments say of how they compare.
* **TimedSystem** — `StreamingSystem` on one clock. Its programs take the actions of
  `StreamingSystem` unchanged; added are the moment a `recv()` expires, the calls
  that are repeated after it, the pace of the attempts, the time a capture takes and
  how long TCP waits before it retransmits after an outage. Time passes only while both
  programs wait. `MCTimedSystem` gives it the durations of `Config` in ticks.
* **Transfer** — one direction of a connection byte by byte: the loops of
  `sendAll()` and `receiveAll()`, and the calls of `sendFrame()`,
  `handleResponse()` and `receiveImage()` that say how much each block is. A byte
  carries the block it belongs to and its place in it.
* **BlockStream** — what the programs rely on from those loops, a queue of whole
  blocks in the order of the protocol. `Transfer` implements it (`WholeBlocks`: a
  block is in the queue from its last byte sent to its last byte read), and the
  streams of `TcpLink` are such queues, cut where a connection ends.
* **LightMonitor**, **ButtonMonitor** — the two sampled filters in detail, each
  with the environment it samples. `ServerApp` uses what any of their behaviours
  look like from outside (any scene at any judgement, a press at any moment), so
  what holds of the composition does not depend on them.

### Correspondence with the code

`sPc` and `cPc` say which call a program is in:

| `sPc` | code | | `cPc` | code |
|---|---|---|---|---|
| `accept` | `waitForClient()` | | `connect`, `pause` | `connect()`, the wait of `connectToServer()` |
| `recv` | `receiveCommand()` in `serveClient()` | | `send` | `send(GET_FRAME)` in `exchangeFrame()` |
| `capture` | `handleGetFrame()` up to the choice of the header | | `header` | `receive()` of an answer |
| `sendHeader`, `sendFrameId`, `sendJpegSize`, `sendImage` | the `sendAll` calls of one answer | | `frameId`, `jpegSize`, `image` | the `receiveAll()` calls of the rest of it |
| `ack`, `exit` | `handleStop()`, the end of `run()` | | `key` | `displayAndPollKey()` |
| `expired` | from a `recv()` past the idle limit to `closeClient()` | | `giveUp` | from a read past its limit to `close()` |
| `done`, `down` | the process has ended, was killed | | `await`, `done` | the loop of `requestShutdown()`, the process has ended |

`requestShutdown()` reads answers with the same calls as a session, so `header`,
`frameId`, `jpegSize` and `image` are shared and `quitting` says which loop they return to.
A step that reads or writes the socket is atomic with the assignments that
follow it up to the next call that can block, because nothing else reads those
variables; the one variable another thread writes, `_pressed`, is read and
cleared by a single `exchange()` in the code. History variables (marked
*history* in the modules) appear in no guard of the code's own actions.

**Time.** In `StreamingSystem`, `Tick` ages the clocks that are running and nothing
relates a tick to the speed of a program: an answer may always be late and a
timeout early. What is proved or checked there holds for every value of the periods
in the two `config.h`. `TimedSystem` is where those values are compared: a step of a
program that waits for nothing takes no time, a call that waits takes as long as
its timeout or until it is answered, and every clock advances in the same tick. In
`ButtonMonitor` time is counted in the readings of the thread, in `Transfer` in
parts of one `SO_RCVTIMEO`.

## 3. Runs

Every run but the four of section 6 passes.

| Run | Distinct states | Question |
|---|---|---|
| `session` | about 1 202 000 | No faults; two presses, two queued commands, three scenes, late answers and quits at every moment: answers, acknowledgement, presses, order of images, the window |
| `restarts` | about 1 195 000 | Server killed and restarted, client relaunched, captures, saves and decodings that fail, the counter wrapping: types, alignment, `CONNEXION PERDUE`, presses |
| `liveness` | about 168 000 | With cuts and a crash: no answer is waited for that nobody owes and, under fairness, quits end, sessions are released, `STOP` stops |
| `recovery` | about 827 000 | The durations of the code on one clock, two cuts at any moment and of any length, two connections in the backlog besides the one served: how soon the video is back, who gives up first, whether a connection is left behind, how long `q` takes, and the alignment of the stream |
| `prompt` | about 40 000 | A camera at the rate asked of it, in steps of 20 ms: requests do not pile up, `q` reaches the server |
| `transfer` | about 26 000 | The byte loops with every cut of `send()` and `recv()`, images of 1 and 3 bytes, a cable in and out: alignment, the bound on a read, the refinement of `BlockStream`, the end of `sendAll()` |
| `light` | about 5 000 | The hold filter against every interleaving of room, image, sensor and time |
| `button` | about 2 000 | The debounce against every bounce and failed reading |

### Bounds, and why they are enough

* `Conns` — the connection the client holds, the one the server serves and one
  more abandoned in the backlog: three distinct connections in `recovery`, which has
  `Backlog = 2` (what Linux makes of the `listen(fd, 1)` of `tcp_server.cpp:53`);
  two connections and `Backlog = 1` in the untimed runs, so that the queue fills up.
  Identities are reused after both ends have closed.
* `StreamCap = 4` — one whole image answer (header, counter, size, image) and no more,
  so `send()` blocks in the middle of the next; 2 in `liveness`, so it blocks within one
  answer; 8 in `recovery`, so that some outages leave the server blocked and others, in which it has less left
  to send, do not. (`recovery` also passes with 4 and 30.)
* `MaxCommands` — 2 in `session`, so that answers fall behind by one and `STOP`
  is queued behind `GET_FRAME`; 1 in `restarts` and `liveness`. In the timed runs it
  is above what they reach (40 and 3), which the deadlock check shows: a client at
  the bound could not take its step. In `slowQuit` it is 40, above the 22
  captures that fit in `SHUTDOWN_TIMEOUT_MS` (67 ms each, 90 in its ticks of 30 ms).
* Timeouts of one tick in the untimed runs — an age is either under its limit or at it,
  which is all the code looks at.
* `FrameIds` — modulus of the counter; without the fault `wrap` it is a bound on
  the images taken. Three counters let two images follow one another; the code's
  2^32 is never wrapped in practice.
* `MaxPresses`, `MaxCrashes`, `MaxLaunches` — two presses (one pending while the
  other is on its way), one crash, two launches.
* `Faults` — which faults a run allows; their combinations are split over the
  runs to keep each below a few minutes. `Scenes` — the error scenes differ only
  by name in the composition; `session` has both.
* The timed runs have the durations of the code, rounded up to ticks (`Millis`): 500
  ms in `recovery`, so that all but `RECV_TIMEOUT_MS` and `CONNECT_TIMEOUT_MS` are
  exact, and a cut falls at every moment between two limits; 20 ms in `prompt`, where
  a capture (33 ms) must be told from a `recv()` (60 ms). (Without `VideoResumes`,
  `recovery` also passes with 250 ms and one cut, where the rounded durations are in the
  hypotheses of `RecoveryProofs`: at 500 ms they are one tick outside.)
* `Rto` is TCP's first wait before it retransmits (about 200 ms, 1 tick in `recovery`).
  It doubles with each retransmission that fails, so after an outage the next one comes
  no later than the time it has retransmitted in vain, and `Rto` more: `LinkMayWait`
  keeps this bound, in `out` (how long it has, over cuts with nothing delivered between
  them) and `late` (the connections this concerns; any other one is delivered at once).
  The two directions of a connection are retransmitted each in its time. `MaxOut` bounds
  `out` to 7 ticks, 3.5 s, longer than the client keeps a connection (3 s and one
  `recv()`). (`recovery` also passes with 14.)
* `Resume` is 4 ticks, half of `LINK_TIMEOUT_MS` and `Rto`, and one `recv()`: the longer
  an outage, the longer TCP may wait after it, and the sooner the client gives the
  session up. With 3 TLC finds `VideoResumes` violated. `MaxCuts` is 2: one that leaves
  connections half open and one that meets them.
* `Transfer`: fields of two bytes, so that they can be cut; images of one byte
  and of three; kernels that hold two bytes, fewer than any answer; a counter of two
  values; two `recv()` within the deadline.
* `LightMonitor`: `Hold = 2`, so there is an instant strictly inside the hold,
  three sensor values around the threshold (at it included) and one that cannot be
  read, two brightnesses (below the threshold and at it).
* `ButtonMonitor`: `Debounce = 4` over `Bounce = 2` and one failed reading: the
  assumption `Bounce + MaxFailed < Debounce` with one reading to spare (200 ms
  against contacts that settle in a few). Five movements: two presses and a half.

Symmetry over `Conns` is used in runs without temporal formulas of liveness only. In
the untimed composition a `Tick` (or a reading) is always possible, so that no run
deadlocks says nothing there of programs that wait for one another: the liveness
properties and `AnswerOwed` do. In `TimedSystem` a tick is possible only when both
programs wait, so a deadlock would show a call that can neither return nor wait.

### Fairness

`FairSpec` assumes weak fairness of the server's main thread, of the client's
thread, of the kernels' retransmission while the cable is in, and of `Tick`: the
operating system schedules both processes, TCP retransmits, time passes. Nothing
obliges anybody to press a key or the button, to plug the cable back in, or to
restart a killed server; `SessionReleased` and `StopStopsTheServer` say "with the
cable back for good" for that reason. `LightFairSpec` assumes that frames go on
being asked for, and strong fairness of `Tick`, which is disabled during a
judgement: time does not stand still because judgements are frequent.
`ButtonFairSpec` assumes only that the thread is scheduled. `TransferFairSpec` assumes
that both programs run, that time passes, and that TCP delivers while the cable is
in.

## 4. Properties

Safety of the composition (`StreamingSystem.tla`):

* `StreamAligned` — the client never takes a part of an answer for another, and
  nothing follows `STOP_ACK`.
* `LiveOnlyIfAccepted` — the window keeps `CONNEXION PERDUE` until the server has
  accepted the connection and answered.
* `AnswerOwed` — a client in `recv()` is owed an answer (if captures do not fail:
  one that fails answers nothing, and this is why `recv()` has a timeout).
* `AckEndsEverything` — `STOP_ACK` is the last block, sent with every command read
  (so the close that follows is not a reset that could drop it) and by a server
  that serves nobody again.
* `PressReportedOnce` — files, reports on their way and the pending press never
  exceed the presses.
* `NoOverwrite` — within one server process no file is written twice.
* `ImagesInOrder` — counters grow from one image read to the next, over any
  number of reconnections, within one server process and before the counter wraps.
* `ShownImageIsCurrent` — the frame shown is the one whose counter is drawn on it.

Liveness: `QuitTerminates`, `SessionReleased`, `CutReleasesServer`,
`StopStopsTheServer`. `CutReleasesServer` excepts a server blocked in `send()` on
full buffers: the idle limit is only looked at around `recv()`
(`server_app.cpp:145-155`), so while the cable stays out nothing in the program
takes it out of `send()`.

Time (`TimedSystem.tla`), with the durations of the two `config.h`:

* `VideoResumes` — whatever the cuts left half open, once the cable is back the client
  is in a session and answered within `Resume`, if no `send()` of the server is blocked,
  and within one attempt of the retransmission that frees a blocked one otherwise.
  `README.md:164-170` says that with the limits the other way round the two programs
  lose each other for good.
* `ServerFreedFirst` — when the client gives a session up after a cut, the server has
  left it already, whether the cable is back or not (`Client/inc/config.h:22-24`). No
  `send()` keeps it there: it only has to send the answer to the last request that got
  through, for which there is room. This is said of the first cut: after a second one TCP
  may get requests through between the two, and the answers only later, so that the server
  counts its limit from a request read late, or blocks in `send()`.
* `NoneLeftHalfOpen` — until a second cut the server holds no connection, accepted or
  queued, but the one of the client: what `README.md:164-170` wants the limits for, that
  no reconnection waits behind a session nobody uses.
* `QuitInTime` — `q` ends the client within `SHUTDOWN_TIMEOUT_MS`, one `recv()`, and
  three times `LINK_TIMEOUT_MS` and a `recv()`, 2000 + 60 + 3 * 3060 = 11240 ms: the
  deadline of `requestShutdown()` is looked at between answers, and the three reads of
  an answer, `frameId`, `jpegSize` and the image (`client_app.cpp:169,196,205`), have
  each their own. Blocks that trickle in are excluded: here a block arrives whole, while
  a `receiveAll()` that gets a byte now and then goes on past its deadline
  (`tcp_client.cpp:117-132`), by what `ReadBounded` says. The comment at
  `Client/inc/config.h:78` calls `SHUTDOWN_TIMEOUT_MS` the longest wait for `STOP_ACK`,
  which is exact only of the wait for a header.
* `AnswersKeepUp` — with a camera at its rate at most one request is in flight.
* `QuitReachesServer` — then `q` stops the server too.

Byte loops (`Transfer.tla`): `BytesAligned` (what is being reassembled is the
beginning of one block and the wire holds the rest of it and then what the protocol
says), `ReadBounded` (a read lasts its deadline and one `recv()` for each byte
received, and one more: `Client/inc/tcp_client.h:78` has it end at the deadline),
`WholeBlocks` (the refinement of `BlockStream`), `AnswerLeaves` (with the cable back
for good, `sendAll()` ends).

Filters: `AdoptedUninterrupted` (a scene is adopted only if the observation before found
it too and no other one was observed for the hold), `LastingSceneAdopted` (light);
`OnceEachMove`, `SeenPressReported` (button).

Every property of a passing run has a mutant in `PROJECT.json`: an operator, kept
beside the definition it would replace and introduced by "Mutant of", that
changes it as a plausible bug in the code would, and under which the same run
finds the property violated. They are not part of the model.

## 5. Proofs

For every value of the constants that satisfies the named assumptions of the modules:

| Theorem | Statement | Module |
|---|---|---|
| `TypeCorrect` | `Spec => []TypeOK` | `StreamingSystemProofs` |
| `WindowIsHonest` | `Spec => []LiveOnlyIfAccepted` | |
| `StreamStaysAligned` | `Spec => []StreamAligned` | |
| `AckIsTheEnd` | `"relaunch" \notin Faults /\ Spec => []AckEndsEverything` | `DialogueProofs` |
| `AnswerIsOwed` | `"capture" \notin Faults /\ Spec => []AnswerOwed` | |
| `WindowIsCurrent` | `"decode" \notin Faults /\ Spec => []ShownImageIsCurrent` | `ImageProofs` |
| `OrderIsKept` | `{"crash", "relaunch", "wrap"} \cap Faults = {} /\ Spec => ImagesInOrder` | |
| `NamesAreNew` | `{"crash", "relaunch", "wrap"} \cap Faults = {} /\ Spec => []NoOverwrite` | |
| `PressOnce` | `Spec => []PressReportedOnce` | |
| `TimedImplementsUntimed` | `TimedSpec => Spec` | `TimedSystemProofs` |
| `QuitIsPrompt` | `TimedSpec => []QuitInTime` | |
| `QuitStopsServer` | `InPace /\ TimedSpec => []QuitReachesServer` | |
| `RequestsDoNotPileUp` | `InPace /\ TimedSpec => []AnswersKeepUp` | |
| `ServerLeavesFirst` | `InPace /\ Forbearing /\ "capture" \notin Faults /\ TimedSpec => []ServerFreedFirst` | `RecoveryProofs` |
| `NoneQueuesBehind` | `InPace /\ Forbearing /\ "capture" \notin Faults /\ TimedSpec => []NoneLeftHalfOpen` | |
| `TransferTypeCorrect` | `TransferSpec => []TransferTypeOK` | `TransferProofs` |
| `ReadsStayBounded` | `TransferSpec => []ReadBounded` | |
| `BytesStayAligned` | `TransferSpec => []BytesAligned` | |
| `LightTypeCorrect` | `LightSpec => []LightTypeOK` | `LightMonitorProofs` |
| `ScenesAreAdoptedUninterrupted` | `LightSpec => AdoptedUninterrupted` | |
| `ButtonTypeCorrect` | `ButtonSpec => []ButtonTypeOK` | `ButtonMonitorProofs` |
| `MovementsAreReportedOnce` | `ButtonSpec => []OnceEachMove` | |

All the safety properties the passing runs check are proved, except `VideoResumes`.

### Hypotheses

The named assumptions of the modules: `LinkAssumption` (`NoFd` is
no connection, the backlog and the buffers hold something), `ServerAssumption` and
`ClientAssumption` (limits and bounds are naturals, positive where the code has a
positive constant; the scenes and faults come from their sets), `TransferAssumption`
(sizes are naturals, those the code has as positive constants positive),
`LightAssumption` (the hold is positive, a reading that fails is no value of the
sensor) and `ButtonAssumption` (what a contact bounces and fails to read ends before
the debounce does). `TimedAssumption` (durations are naturals, periods positive) says
nothing of how the durations compare.

The hypotheses on `Faults` are necessary, and say what the code relies on:

* `capture`: a capture that fails answers nothing, so a client may wait in vain until its
  `recv()` expires (`server_app.cpp:86-91`).
* `relaunch`: a server started again after a `STOP` serves, while a stream of the past
  may still hold the acknowledgement; and a client started again empties its directory
  and counts from 0, while its former connection still holds images.
* `crash`, `wrap`: the counter starts from 0 again with each server process, and after
  2^32 images. This is what the run `overwrite` shows.
* `decode`: an image that is not decoded leaves the previous frame in the window, under
  the new counter.

Cuts, connections refused or lost, saves that fail, cables that come back and every
interleaving are allowed in all of them, and crashes in those that do not exclude them.

`InPace == CaptureTime < RecvPeriod /\ RecvPeriod < IdleTimeout /\ StreamCap >= 4`: the
camera answers before `recv()` expires, the client asks again before the server gives up,
and the kernels have room for the four blocks of one answer. It holds of the two
`config.h` with a camera at the rate they ask for (33, 60 and 1000 ms); the run `slowQuit` has a `CaptureTime` above
`RecvPeriod`, and `QuitReachesServer` fails.

`Forbearing == 2 * (IdleTimeout + RecvPeriod + CaptureTime) + Rto < LinkTimeout`: the client
is patient enough for the server to reach its idle limit twice, once during the outage and
once while TCP waits as long again before it retransmits. With the two `config.h`, a camera
at the rate they ask for and the 200 ms of Linux it is 2386 ms against 3000. The comment at
`Client/inc/config.h:22-24` asks only that the one limit be longer than the other
(`ConfigAssumption`), which is not enough once TCP is counted: with limits of 3 and 8 ticks, a capture of 1 and a
`recv()` of 2, TLC finds `ServerFreedFirst` violated after one cut. `Forbearing`, which asks
for 14 there, is sufficient and not necessary: 9 is enough on that instance.

### Arguments

**Framing.** `TypeOK` is inductive, and is more than a typing: it says that what
has arrived is a prefix of what was written, that the backlog has no duplicates
and not the connection served, and that each program is in a call on its socket
exactly when it holds one. Without the last part the streams could not be
indexed by `cfd` and `sfd`. It is proved in two layers, one lemma per operation
of the link (`ConnectLinkOK` ... `RetransmitLinkOK`), then one per group of
actions of each program, citing the first.

`LiveOnlyIfAccepted` is inductive with `TypeOK`: its second part (a connection
still in the backlog has an empty answer stream, and its client is not reading
one) is what makes the first preserved when a header is read.

`StreamAligned` relates four things: the order inside the stream, the block the
client expects against the first one, the block the server writes next against
the last one, and, when the stream is empty, the server's next block against what
the client expects. It needs `LiveOnlyIfAccepted` at one step, `accept()`: the
server starts at a header, so the client of a connection that was waiting must
not be in the middle of an answer. `TypeOK /\ LiveOnlyIfAccepted /\ StreamAligned`
is the inductive invariant. The lemmas name the ways a stream changes: a block
appended, the first one read, a suffix dropped by a reset, a program that moves
without touching it.

**Requests and answers.** `DialogueProofs` first shows that every step is one operation
of `TcpLink` on the connection a program holds, or none (`LinkOperations`), and that the
news of a close is true (`NewsIsTrue`), so that the streams are followed operation by
operation and not action by action.

`AckEndsEverything` needs to know what leads to `STOP_ACK`: `StopDialogue` has that a
client that is quitting is on the path of `requestShutdown()` (`QuitPath`), that `STOP`
is the last command of every stream and the server that has read one has nothing left to
read (`StopIsLast`), and that `STOP_ACK` is last in its stream, with no command left, its
server on the way out or its connection released (`AckIsLast`).

`AnswerOwed` counts the answers due, and only says so of a client in `recv()`. `AnswerDue`
asks for one `GET_FRAME` on its way, in the server's hands or answered, and for `STOP` the
same in every state of the loop of `requestShutdown()`: an answer read in that loop leads
back to `recv()` without a new request. It uses `StopDialogue`: a server that reads `STOP`
drops nothing that is due, because `STOP` is last, and a server that ends has answered.

**Images.** `ShownImageIsCurrent` says nothing of a client between the counter and the
image. `Shown` extends it over the whole of an answer up to its counter, and
`StreamAligned` gives that an image is read under the header that announced it.

`ImagesInOrder` is a property of steps; `Counters` orders what is read, what is on the
way and what the server has counted: the counter last read is at most every counter of
the stream, which do not decrease and grow at each image, and these are at most the
server's; an image whose counter the client has not yet (`Asked`, or `Taken` on the
server's side) is strictly beyond. A connection lost in the middle of an answer keeps it,
because the server's counter never goes back. `NoOverwrite` follows with `NameIsFree`: no
file has a number above the one the client has read last.

**Presses.** `PressCount` is `PressReportedOnce` with the press in the server's hands
counted on the client's connection only; the press moves from the latch to the hands, the
stream, the client and the disk, and each step moves at most what it takes away. The
lemmas count the blocks of a kind in a stream (`Count`) when one is appended, read, or a
suffix is lost.

**Time.** `TimedImplementsUntimed` takes each action of `TimedSystem` to one of
`StreamingSystem` or a stutter, so that every theorem about `Spec` holds of `TimedSpec`.

`QuitInTime` bounds one age by three limits. `QuitTimes` says how much of the bound each
state of the client has used: the deadline of `requestShutdown()` before a header, one
`recv()` in it, the deadline of a read and the `recv()` in which it ends for each of the
three blocks that follow. Nothing of the server or the cable appears in it, and so it holds
whatever is cut.

`QuitReachesServer` and `AnswersKeepUp` follow from `Calm`: as long as the cable was never
cut, the dialogue is in one of a few phases — no connection (`Away`), one that waits for
`accept()` (`Queued`), one that is served (`Served`: at rest, the request just sent, the
capture, a capture that failed, the answer on its way), `STOP` just sent (`Stopping`), and
read (`Stopped`) — with what the streams hold and how the ages of the two programs compare
in each. `InPace` is used where one phase could outrun another: a `recv()` of the client
cannot expire during a capture (`cAge <= sAge <= CaptureTime < RecvPeriod`), nor the
server's limit be reached between two requests (`cmdAge <= cAge <= RecvPeriod`).

`ServerFreedFirst` compares two clocks that no message relates once the cable is out.
`Recovers` bounds the wait of the client (`Patience`) on a connection the server still
holds, in three situations. In the outage (`Outage`) the server reads at most the one
command that had arrived (`LastCommand`), so the client waits at most one capture longer
than the server is silent (`Silence`, which grows with every tick and ends at the idle
limit and one `recv()`); and the answer it may still be sending finds room (`Room`), so it
is never blocked. When the cable is back and something is undelivered (`Late`), the wait
grows with the time TCP takes, which is bounded by the length of the outage, which is
bounded by the same silence. When everything is delivered (`Flow`), an answer is due
(`AnswerDue`), there is nothing for both programs to wait for but a capture, and the wait is
what it was before (`Before`) and that capture. The state in which the cut finds the two
programs is that of `Calm`, the invariant of the dialogue on a sound cable: at most one
request is on its way. The sum of the three is what `Forbearing` keeps under `LinkTimeout`.
`NoneHalfOpen` goes with it by induction: the client leaves no connection the server holds
(`LeavesUnheld`), so each connection it makes is the only one, which is accepted at once.

**Bytes.** `ReadBounded` does not say how long the `recv()` in progress has lasted, so it is not
inductive. `ReadClock` is: the age of a read is at most its deadline, one `recv()` for
each byte in the buffer, and the age of this `recv()`, which is itself at most
`RecvPeriod`; and it is 0 at a header. Each byte adds one to the buffer exactly when
it sets the age of the `recv()` back; a `recv()` that expires goes on only below the
deadline.

`BytesAligned` says nothing of the server, so it is not inductive either: a byte
appended must follow the last one. `InStep` adds `SenderInStep`: the next byte the
server will send follows the last one on the wire or, when the wire is empty, is the
one the client is to read; and a sender between two answers has ended one. The proof
has a step for each action and, under the two that move bytes, one for a byte inside a
block and one for the last.

**Filters.** `AdoptedUninterrupted` follows from `CandidateAlone`: no scene but the candidate was
observed since it became the candidate. A judgement either observes the candidate or
starts a new one at age 0, and the ages grow together.

`OnceEachMove` is not inductive: nothing in it prevents a release from being accepted
when every movement is reported already. `NothingLeft` adds that then either nothing is
left to be read as a release (`Quiet`: the button is down and settled, or up and read as
such, or up after no press), or what is left of the bounce and of the failing readings
ends before the debounce (`Settling`). The acceptance itself establishes the second,
and this is the one place where `ButtonAssumption` is needed.

### Only model-checked

* `VideoResumes`: it is about any number of cuts and of connections left behind, and its
  bound is one for the durations of the code. It holds in `recovery`; after a first cut,
  that no connection is left behind is proved (`NoneQueuesBehind`).
* `WholeBlocks`: its mapping selects from the wire with `SelectSeq`, which is defined by
  recursion in the library and which the provers cannot unfold.
* All liveness, which needs fairness and `ENABLED`, out of the provers' reach:
  `QuitTerminates`, `SessionReleased`, `CutReleasesServer`, `StopStopsTheServer`,
  `LastingSceneAdopted`, `SeenPressReported`, `AnswerLeaves`.
* The properties of section 6, which the code does not have.

## 6. Where the documents and the code disagree

Four runs each check what a document or comment states and end in a
counterexample that the code allows:

| Run | The claim | What happens |
|---|---|---|
| `darkPress` | a press made in the dark saves nothing, even later (`server_app.cpp:93-95`) | made after the last dark answer and before the first normal one, it is reported: `BUTTON_PRESS` is chosen for it, whose image the client saves |
| `lostPress` | a press is always paired with a frame that reached the client (`README.md:86-87`) | it is taken before the image is sent; a cut then loses both |
| `overwrite` | the counter makes every file name unique (`image_store.cpp:38-39`) | a restarted server counts from 0 again and the client overwrites |
| `slowQuit` | `q` shuts both sides down (`README.md:146-147`), the delay leaves the server the time to answer what is queued before `STOP` (`Client/inc/config.h:79-80`) | behind a camera at half its rate requests pile up in front of `STOP` without limit, and the client leaves before the server reads it |

Other disagreements seen, without a run of their own: `q` while `CONNEXION PERDUE` is
shown ends the client only (`README.md:146-147` says both); two judgements a hold apart
adopt a scene whatever came between that nobody observed (`README.md:68-70` says a
flickering condition never reaches the client); a press that bounces and is held longer
than the debounce is reported twice (`button.cpp:91` says only the first release
counts); the latch is armed on the release (`button.cpp:83-96`), where the comment at
`Serveur/inc/button.h:58-59` has it armed on the transition to pressed; a
deadline called the longest wait is passed by what section 4 states
(`QuitInTime`, `ReadBounded`).

`README.md:164-165` also says that the server abandons a silent session after 2 s;
`Serveur/inc/config.h` has 1000 ms, which is what the timed runs use.

## 7. Plan

Done: the modules of section 2 — the link, both programs, both filters, the two
programs on one clock, the byte loops and the abstract specification they implement —
and the theorems of section 5.

Next, in this order:

1. **`VideoResumes`** for every value of the limits after a first cut, from `Recovers`; then
   with connections left behind, of which the server needs its idle limit for each.
2. **VideoService** — an abstract specification of what the user sees (images with
   growing counters, scene errors, the lost link, each press at most once, the
   shutdown), with `StreamingSystem` shown to implement it.

## 8. Abstractions, and what is not modelled

* In `StreamingSystem` and `TimedSystem` an answer is cut into the blocks the code
  sends and receives (header, counter, size, image) and a block arrives whole or
  not at all; `Transfer` shows the loops that make it so. The time of a read that
  trickles is in `Transfer` only (`ReadBounded`): in `TimedSystem` a block comes in one
  `recv()`.
* A `jpegSize` of 0, for which the client would skip the read and the save
  (`client_app.cpp:204,213`) and still call `imdecode()` on the empty buffer (line 216).
  `captureJpeg()` produces no empty image (it fails instead), so no module has one.
* The window is polled for 30 ms before each attempt to connect and while the client waits
  for the next (`client_app.cpp:112,130-134`), so two attempts may be up to 560 ms apart;
  `TimedSystem` has them `RECONNECT_PERIOD_MS` apart. The difference is an eighth of a
  tick of `recovery`, which rounds a `recv()` of 60 ms up to 500.
* In `TimedSystem` a `connect()` that succeeds takes no time, and one that fails is
  followed by the rest of `RECONNECT_PERIOD_MS`, within which it ends
  (`ConfigAssumption`). A write to a kernel with room takes no time.
* `GET_FRAME` and `STOP` are the only commands the client writes, so the default
  branch of `dispatchCommand()` is never taken; likewise for unknown headers.
* A reset whose packet is on its way during a cut is delivered like the news of
  an ordinary close when the cable is back.
* A connection given up by its client in the backlog stays there with its
  commands; the server accepts it and reads them. That includes a `STOP`, which
  then stops a server another client is waiting for.
* `accept()` does not fail. If it did (no descriptors left) the server would try
  again at once, without end.
* The constructors' failures end the program before it does anything.
* **Camera**: a capture succeeds with some brightness or fails, within a given time.
  OpenCV, the device and JPEG are external. **Window**: `composeFrame()` is modelled
  by which image or message it shows, not its pixels nor the seconds it writes in them.
* **Cycle reporter** (averages on the console) and logging: no other part depends on
  them.
* **Init script** `ele4205-serveur`: `stop` and `start` are `Crash` and `Restart` of the
  server. The PID file and the wait for the camera are not modelled: two `start` that
  overlap both pass `running()`, and the second server ends at its `bind()`, but the PID
  file may be left with its number; no document says what overlapping calls should do,
  so there is no property to check it against.
* **Deployment and build files**: no behaviour of the running system.
