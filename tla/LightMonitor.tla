----------------------------- MODULE LightMonitor ---------------------------
(***************************************************************************)
(* LightMonitor (light_monitor.cpp) with the camera and the sensor it      *)
(* compares. A scene is judged only while a GET_FRAME is being answered    *)
(* (server_app.cpp:83-98): first the image is captured, then the sensor    *)
(* file is read. The room changes at any moment, between the two as well,  *)
(* and any time may pass between two judgements: a session may be lost.    *)
(***************************************************************************)
EXTENDS Protocol, Clock

CONSTANTS
  Hold,            \* STATE_HOLD_MS
  Raws,            \* values the sensor file may hold
  NoRaw,           \* the file cannot be read
  RawThreshold,    \* LIGHT_RAW_THRESHOLD
  RawRises,        \* LIGHT_RAW_RISES
  Brightnesses,    \* mean brightness of an image
  ImageThreshold   \* IMAGE_DARK_THRESHOLD

ASSUME LightAssumption ==
  /\ Hold \in Nat \ {0}
  /\ Raws \subseteq Nat /\ NoRaw \notin Raws /\ RawThreshold \in Nat
  /\ RawRises \in BOOLEAN
  /\ Brightnesses \subseteq Nat /\ ImageThreshold \in Nat

VARIABLES
  raw,             \* what the sensor file holds now
  brightness,      \* what the camera sees now
  shot,            \* the brightness of the image captured, while it is judged
  judging,         \* between captureJpeg() and update()
  state,           \* _state
  candidate,       \* _candidate
  candidateAge,    \* time since _candidateSince
  observedAge      \* history: time since each scene was last observed

lightVars == <<raw, brightness, shot, judging, state, candidate, candidateAge,
               observedAge>>

\* classify(): neither threshold is itself dark, and without a sensor nothing is.
Classify(r, b) ==
  LET sensorDark == IF RawRises THEN r < RawThreshold ELSE r > RawThreshold
      imageDark == b < ImageThreshold
  IN CASE r = NoRaw -> "NORMAL"
       [] r # NoRaw /\ sensorDark /\ imageDark -> "NO_LIGHT"
       [] r # NoRaw /\ sensorDark # imageDark -> "SENSOR_ERROR"
       [] OTHER -> "NORMAL"

LightInit ==
  /\ raw \in Raws \cup {NoRaw} /\ brightness \in Brightnesses
  /\ shot = brightness /\ judging = FALSE
  /\ state = "NORMAL" /\ candidate = "NORMAL" /\ candidateAge = 0
  /\ observedAge = [s \in SceneStates |-> Hold]

\* captureJpeg(): the image that will be judged.
CaptureJpeg ==
  /\ ~judging
  /\ judging' = TRUE /\ shot' = brightness
  /\ UNCHANGED <<raw, brightness, state, candidate, candidateAge, observedAge>>

\* Mutant of Since: the hold is counted twice.
SinceCountedTwice(observed) == IF observed = candidate THEN 2 * candidateAge ELSE 0

\* Mutant of Since: a candidate that comes back is as old as the first time.
SinceFirstSeen(observed) ==
  IF observed # candidate /\ observed = state THEN 0 ELSE candidateAge

\* Mutant of Since: every observation starts the hold again.
SinceLastSeen(observed) == 0

\* The age of the candidate, once the scene observed is one.
Since(observed) == IF observed = candidate THEN candidateAge ELSE 0

\* update(): the sensor is read, the scene observed becomes the candidate, and is
\* adopted if it already was for Hold.
Update ==
  /\ judging
  /\ judging' = FALSE
  /\ LET observed == Classify(raw, shot)
     IN /\ candidate' = observed
        /\ candidateAge' = Since(observed)
        /\ state' = IF Since(observed) >= Hold THEN observed ELSE state
        /\ observedAge' = [observedAge EXCEPT ![observed] = 0]
  /\ UNCHANGED <<raw, brightness, shot>>

\* The light, or what the lens or the sensor gets of it, changes.
RoomChanges ==
  /\ raw' \in Raws \cup {NoRaw} /\ brightness' \in Brightnesses
  /\ UNCHANGED <<shot, judging, state, candidate, candidateAge, observedAge>>

\* A judgement is short against Hold: time passes between two of them.
Tick ==
  /\ ~judging
  /\ candidateAge' = Older(candidateAge, Hold)
  /\ observedAge' = [s \in SceneStates |-> Older(observedAge[s], Hold)]
  /\ UNCHANGED <<raw, brightness, shot, judging, state, candidate>>

LightNext == CaptureJpeg \/ Update \/ RoomChanges \/ Tick

LightSpec == LightInit /\ [][LightNext]_lightVars

\* GET_FRAMEs keep coming and time passes; the room changes as it likes.
LightFairSpec ==
  /\ LightSpec
  /\ WF_lightVars(CaptureJpeg) /\ WF_lightVars(Update) /\ SF_lightVars(Tick)

-----------------------------------------------------------------------------
\* The state is well formed; the ages stop at the hold (light_monitor.h:79-83).
LightTypeOK ==
  /\ raw \in Raws \cup {NoRaw} /\ brightness \in Brightnesses /\ shot \in Brightnesses
  /\ judging \in BOOLEAN
  /\ state \in SceneStates /\ candidate \in SceneStates
  /\ candidateAge \in 0 .. Hold
  /\ observedAge \in [SceneStates -> 0 .. Hold]

\* A scene is adopted only when the observation before found it too and no other one
\* was observed for Hold (light_monitor.cpp:54-62): a disturbance between two
\* observations makes it wait again, and one observation never suffices, however long
\* the gap before it.
AdoptedUninterrupted ==
  [][state' # state =>
       /\ candidate = state'
       /\ \A s \in SceneStates \ {state'} : observedAge'[s] >= Hold]_lightVars

\* What the room stays at is what is reported in the end, and for good
\* (light_monitor.cpp:51-64): neither the disturbances before nor the candidate they
\* left prevent it.
LastingSceneAdopted ==
  \A r \in Raws \cup {NoRaw}, b \in Brightnesses :
    <>[](raw = r /\ brightness = b) => <>[](state = Classify(r, b))
=============================================================================
