-------------------------- MODULE LightMonitorProofs ------------------------
(***************************************************************************)
(* The hold filter, for every hold, every sensor and every threshold: its  *)
(* types, and what it takes for a scene to be adopted.                     *)
(***************************************************************************)
EXTENDS LightMonitor, TLAPS

\* An age bounded by a limit stays so, and does not decrease.
LEMMA OlderBounded ==
  ASSUME NEW limit \in Nat, NEW age \in 0 .. limit
  PROVE  Older(age, limit) \in 0 .. limit /\ Older(age, limit) >= age
  BY DEF Older

\* Growing old together keeps an order.
LEMMA OlderMonotonic ==
  ASSUME NEW limit \in Nat, NEW a \in 0 .. limit, NEW b \in 0 .. limit, a <= b
  PROVE  Older(a, limit) <= Older(b, limit)
  BY DEF Older

\* classify() answers with a scene (light_monitor.cpp:27-49).
LEMMA ClassifyScene ==
  ASSUME NEW r, NEW b
  PROVE  Classify(r, b) \in SceneStates
  BY DEF Classify, SceneStates, SceneErrors

\* The age of a candidate that has just been observed is within the hold.
LEMMA SinceBounded ==
  ASSUME LightTypeOK, NEW s
  PROVE  Since(s) \in 0 .. Hold
  BY LightAssumption DEF LightTypeOK, Since

\* The state is well formed, whatever the hold, the sensor and the thresholds.
THEOREM LightTypeCorrect == LightSpec => []LightTypeOK
<1>1. LightInit => LightTypeOK
  <2>1. 0 \in 0 .. Hold /\ Hold \in 0 .. Hold
    BY LightAssumption
  <2>2. QED
    BY <2>1 DEF LightInit, LightTypeOK, SceneStates
<1>2. LightTypeOK /\ [LightNext]_lightVars => LightTypeOK'
  <2> SUFFICES ASSUME LightTypeOK, [LightNext]_lightVars PROVE LightTypeOK'
    OBVIOUS
  <2>1. CASE CaptureJpeg
    BY <2>1 DEF LightTypeOK, CaptureJpeg
  <2>2. CASE Update
    <3> DEFINE observed == Classify(raw, shot)
    <3>1. observed \in SceneStates
      BY ClassifyScene
    <3>2. Since(observed) \in 0 .. Hold
      BY SinceBounded
    <3> HIDE DEF observed
    <3>3. /\ candidate' = observed /\ candidateAge' = Since(observed)
          /\ state' = IF Since(observed) >= Hold THEN observed ELSE state
          /\ observedAge' = [observedAge EXCEPT ![observed] = 0]
          /\ judging' = FALSE /\ UNCHANGED <<raw, brightness, shot>>
      BY <2>2 DEF Update, observed
    <3>4. observedAge' \in [SceneStates -> 0 .. Hold]
      BY <3>1, <3>3, LightAssumption DEF LightTypeOK
    <3>5. QED
      BY <3>1, <3>2, <3>3, <3>4 DEF LightTypeOK
  <2>3. CASE RoomChanges
    BY <2>3 DEF LightTypeOK, RoomChanges
  <2>4. CASE Tick
    <3>1. candidateAge' \in 0 .. Hold
      BY <2>4, OlderBounded, LightAssumption DEF LightTypeOK, Tick
    <3>2. observedAge' \in [SceneStates -> 0 .. Hold]
      BY <2>4, OlderBounded, LightAssumption DEF LightTypeOK, Tick
    <3>3. QED
      BY <2>4, <3>1, <3>2 DEF LightTypeOK, Tick
  <2>5. CASE UNCHANGED lightVars
    BY <2>5 DEF LightTypeOK, lightVars
  <2>6. QED
    BY <2>1, <2>2, <2>3, <2>4, <2>5 DEF LightNext
<1>3. QED
  BY <1>1, <1>2, PTL DEF LightSpec

-----------------------------------------------------------------------------
\* The strengthening: nothing but the candidate was observed since it became one.
CandidateAlone ==
  \A s \in SceneStates \ {candidate} : observedAge[s] >= candidateAge

\* A judgement keeps it: the scene observed is the candidate, or a new one of age 0.
LEMMA UpdateCandidateAlone ==
  ASSUME LightTypeOK, CandidateAlone, Update
  PROVE  CandidateAlone'
<1> DEFINE observed == Classify(raw, shot)
<1>1. observed \in SceneStates
  BY ClassifyScene
<1> HIDE DEF observed
<1>2. /\ candidate' = observed /\ candidateAge' = Since(observed)
      /\ observedAge' = [observedAge EXCEPT ![observed] = 0]
  BY DEF Update, observed
<1> SUFFICES ASSUME NEW s \in SceneStates \ {observed}
             PROVE  observedAge[s] >= Since(observed)
  BY <1>1, <1>2 DEF CandidateAlone, LightTypeOK
<1>3. observedAge[s] \in 0 .. Hold
  BY DEF LightTypeOK
<1>4. CASE observed = candidate
  BY <1>4 DEF CandidateAlone, Since
<1>5. CASE observed # candidate
  BY <1>3, <1>5, LightAssumption DEF Since
<1>6. QED
  BY <1>4, <1>5

\* Time keeps it: the ages grow together.
LEMMA TickCandidateAlone ==
  ASSUME LightTypeOK, CandidateAlone, Tick
  PROVE  CandidateAlone'
<1> SUFFICES ASSUME NEW s \in SceneStates \ {candidate}
             PROVE  Older(observedAge[s], Hold) >= Older(candidateAge, Hold)
  BY DEF CandidateAlone, Tick
<1>1. observedAge[s] \in 0 .. Hold /\ candidateAge \in 0 .. Hold
  BY DEF LightTypeOK
<1>2. candidateAge <= observedAge[s]
  BY <1>1, LightAssumption DEF CandidateAlone
<1>3. Older(candidateAge, Hold) <= Older(observedAge[s], Hold)
  BY <1>1, <1>2, OlderMonotonic, LightAssumption
<1>4. QED
  BY <1>1, <1>3, OlderBounded, LightAssumption

\* CandidateAlone holds in every state.
LEMMA CandidateStaysAlone == LightSpec => []CandidateAlone
<1>1. LightInit => CandidateAlone
  BY LightAssumption DEF LightInit, CandidateAlone
<1>2. LightTypeOK /\ CandidateAlone /\ [LightNext]_lightVars => CandidateAlone'
  <2> SUFFICES ASSUME LightTypeOK, CandidateAlone, [LightNext]_lightVars
               PROVE  CandidateAlone'
    OBVIOUS
  <2>1. CASE CaptureJpeg \/ RoomChanges \/ UNCHANGED lightVars
    BY <2>1 DEF CandidateAlone, CaptureJpeg, RoomChanges, lightVars
  <2>2. CASE Update
    BY <2>2, UpdateCandidateAlone
  <2>3. CASE Tick
    BY <2>3, TickCandidateAlone
  <2>4. QED
    BY <2>1, <2>2, <2>3 DEF LightNext
<1>3. QED
  BY <1>1, <1>2, LightTypeCorrect, PTL DEF LightSpec

\* For every hold, a scene is adopted only when the observation before found it too
\* and no other one was observed for that long: one disturbance between two
\* observations makes it wait again, and one observation never suffices
\* (light_monitor.cpp:51-64).
THEOREM ScenesAreAdoptedUninterrupted == LightSpec => AdoptedUninterrupted
<1>1. ASSUME LightTypeOK, CandidateAlone, [LightNext]_lightVars, state' # state
      PROVE  /\ candidate = state'
             /\ \A s \in SceneStates \ {state'} : observedAge'[s] >= Hold
  <2>1. Update
    BY <1>1 DEF LightNext, CaptureJpeg, RoomChanges, Tick, lightVars
  <2> DEFINE observed == Classify(raw, shot)
  <2> HIDE DEF observed
  <2>2. /\ state' = observed /\ Since(observed) >= Hold
        /\ observedAge' = [observedAge EXCEPT ![observed] = 0]
    BY <1>1, <2>1 DEF Update, observed
  <2>3. observed = candidate /\ candidateAge >= Hold
    BY <2>2, LightAssumption DEF Since
  <2> SUFFICES ASSUME NEW s \in SceneStates \ {observed}
               PROVE  observedAge[s] >= Hold
    BY <1>1, <2>2, <2>3 DEF LightTypeOK
  <2>4. observedAge[s] >= candidateAge
    BY <1>1, <2>3 DEF CandidateAlone
  <2>5. observedAge[s] \in 0 .. Hold /\ candidateAge \in 0 .. Hold
    BY <1>1 DEF LightTypeOK
  <2>6. QED
    BY <2>3, <2>4, <2>5, LightAssumption
<1>2. LightTypeOK /\ CandidateAlone /\ [LightNext]_lightVars
      => [state' # state =>
            /\ candidate = state'
            /\ \A s \in SceneStates \ {state'} : observedAge'[s] >= Hold]_lightVars
  BY <1>1
<1>3. QED
  BY <1>2, LightTypeCorrect, CandidateStaysAlone, PTL DEF LightSpec, AdoptedUninterrupted
=============================================================================
