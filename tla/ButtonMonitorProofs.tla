-------------------------- MODULE ButtonMonitorProofs -----------------------
(***************************************************************************)
(* The debounce, for every debounce, every bounce shorter than it, any     *)
(* number of failed readings and of movements.                             *)
(***************************************************************************)
EXTENDS ButtonMonitor, TLAPS

\* An age stays within its limit.
LEMMA OlderInRange ==
  ASSUME NEW limit \in Nat, NEW age \in 0 .. limit
  PROVE  Older(age, limit) \in 0 .. limit
  BY DEF Older

\* A reading is a level or an error; an error leaves room for no more than MaxFailed,
\* and a contact that has settled reads as the finger holds it.
LEMMA ReadingCases ==
  ASSUME ButtonTypeOK, NEW v \in Readings
  PROVE  /\ \/ v = "error" /\ failed < MaxFailed
            \/ v # "error" /\ v \in Levels
         /\ v # "error" /\ bouncing = 0 => v = finger
  BY DEF Readings, Levels, ButtonTypeOK

\* The state is well formed, whatever the limits.
THEOREM ButtonTypeCorrect == ButtonSpec => []ButtonTypeOK
<1>1. ButtonInit => ButtonTypeOK
  <2> SUFFICES ASSUME ButtonInit PROVE ButtonTypeOK
    OBVIOUS
  <2>1. /\ 0 \in 0 .. Bounce /\ 0 \in 0 .. MaxFailed
        /\ Debounce \in 0 .. Debounce /\ 0 \in 0 .. MaxMoves /\ 0 \in Nat
    BY ButtonAssumption
  <2>2. QED
    BY <2>1 DEF ButtonInit, ButtonTypeOK, Levels
<1>2. ButtonTypeOK /\ [ButtonNext]_buttonVars => ButtonTypeOK'
  <2> SUFFICES ASSUME ButtonTypeOK, [ButtonNext]_buttonVars PROVE ButtonTypeOK'
    OBVIOUS
  <2>1. CASE Start
    <3>1. PICK v \in Readings : previous' = IF v = "error" THEN "down" ELSE v
      BY <2>1 DEF Start
    <3>2. previous' \in Levels
      BY <3>1, ReadingCases DEF Levels
    <3>3. QED
      BY <2>1, <3>2 DEF Start, ButtonTypeOK
  <2>2. CASE Poll
    <3>1. PICK v \in Readings :
            /\ failed' = IF v = "error" THEN failed + 1 ELSE 0
            /\ previous' = IF v = "error" THEN previous ELSE v
            /\ pressSeen' = PressSeen(v)
            /\ \/ latch' = TRUE /\ acceptedAge' = 0
               \/ acceptedAge' = Older(acceptedAge, Debounce) /\ UNCHANGED latch
      BY <2>2 DEF Poll, Accept
    <3>2. failed' \in 0 .. MaxFailed /\ previous' \in Levels
      BY <3>1, ReadingCases, ButtonAssumption DEF ButtonTypeOK
    <3>3. pressSeen' \in BOOLEAN
      BY <3>1 DEF PressSeen, ButtonTypeOK
    <3>4. acceptedAge' \in 0 .. Debounce /\ latch' \in BOOLEAN
      <4>1. CASE latch' = TRUE /\ acceptedAge' = 0
        BY <4>1, ButtonAssumption DEF ButtonTypeOK
      <4>2. CASE acceptedAge' = Older(acceptedAge, Debounce) /\ UNCHANGED latch
        <5>1. Older(acceptedAge, Debounce) \in 0 .. Debounce
          BY OlderInRange, ButtonAssumption DEF ButtonTypeOK
        <5>2. QED
          BY <4>2, <5>1 DEF ButtonTypeOK
      <4>3. QED
        BY <3>1, <4>1, <4>2
    <3>5. bouncing' \in 0 .. Bounce
      BY <2>2, ButtonAssumption DEF Poll, ButtonTypeOK
    <3>6. QED
      BY <2>2, <3>2, <3>3, <3>4, <3>5 DEF Poll, ButtonTypeOK
  <2>3. CASE TakePress
    <3>1. taken' \in Nat
      BY <2>3 DEF TakePress, ButtonTypeOK
    <3>2. QED
      BY <2>3, <3>1 DEF TakePress, ButtonTypeOK
  <2>4. CASE Move
    BY <2>4, ButtonAssumption DEF Move, ButtonTypeOK
  <2>5. CASE UNCHANGED buttonVars
    BY <2>5 DEF buttonVars, ButtonTypeOK
  <2>6. QED
    BY <2>1, <2>2, <2>3, <2>4, <2>5 DEF ButtonNext
<1>3. QED
  BY <1>1, <1>2, PTL DEF ButtonSpec

-----------------------------------------------------------------------------
\* The contact has settled and no release is left to be read: the button is down, or
\* up and read as such, or up after no press at all.
Quiet ==
  bouncing = 0 /\ (finger = "up" => previous = "up" \/ ~pressSeen)

\* What is left of the bounce, and the readings that may fail after it, end before
\* the debounce does.
Settling ==
  IF bouncing > 0
    THEN acceptedAge + 1 + bouncing + MaxFailed < Debounce
    ELSE acceptedAge + 1 + (MaxFailed - failed) < Debounce

\* The strengthening: once every movement is reported, none is left to be read for a
\* second time.
NothingLeft ==
  /\ OnceEachMove
  /\ ~running => ~pressSeen
  /\ Reports = moves => Quiet \/ Settling

\* A turn that accepts a release does so for a movement not reported yet, and starts
\* a debounce that outlasts what is left of its bounce.
LEMMA PollNothingLeft ==
  ASSUME ButtonTypeOK, NothingLeft, Poll
  PROVE  NothingLeft'
<1>1. PICK v \in Readings :
        /\ failed' = IF v = "error" THEN failed + 1 ELSE 0
        /\ previous' = IF v = "error" THEN previous ELSE v
        /\ pressSeen' = PressSeen(v)
        /\ IF /\ previous = "down" /\ v = "up" /\ pressSeen
              /\ Older(acceptedAge, Debounce) >= Debounce
             THEN Accept
             ELSE acceptedAge' = Older(acceptedAge, Debounce) /\ UNCHANGED latch
  BY DEF Poll
<1>2. /\ bouncing' = IF bouncing > 0 THEN bouncing - 1 ELSE 0
      /\ running /\ UNCHANGED <<finger, running, moves, taken>>
  BY DEF Poll
<1>3. /\ \/ v = "error" /\ failed < MaxFailed
         \/ v # "error" /\ v \in Levels
      /\ v # "error" /\ bouncing = 0 => v = finger
  BY ReadingCases
<1>4. /\ Debounce \in Nat /\ Bounce \in Nat /\ MaxFailed \in Nat
      /\ Bounce + MaxFailed < Debounce
      /\ bouncing \in 0 .. Bounce /\ failed \in 0 .. MaxFailed
      /\ acceptedAge \in 0 .. Debounce /\ moves \in Nat /\ taken \in Nat
  BY ButtonAssumption DEF ButtonTypeOK
<1>5. CASE /\ previous = "down" /\ v = "up" /\ pressSeen
           /\ Older(acceptedAge, Debounce) >= Debounce
  <2>1. latch' = TRUE /\ acceptedAge' = 0
    BY <1>1, <1>5 DEF Accept
  <2>2. ~Quiet
    BY <1>3, <1>5 DEF Quiet
  <2>3. ~Settling
    BY <1>4, <1>5 DEF Settling, Older
  <2>4. Reports < moves
    BY <2>2, <2>3, <1>4 DEF NothingLeft, OnceEachMove, Reports
  <2>5. Reports' <= moves'
    BY <1>2, <1>4, <2>1, <2>4 DEF Reports
  <2>6. CASE bouncing > 0
    BY <1>1, <1>2, <1>4, <1>5, <2>1, <2>5, <2>6 DEF NothingLeft, OnceEachMove, Settling
  <2>7. CASE bouncing = 0
    BY <1>1, <1>2, <1>5, <2>5, <2>7 DEF NothingLeft, OnceEachMove, Quiet
  <2>8. QED
    BY <1>4, <2>6, <2>7
<1>6. CASE ~(/\ previous = "down" /\ v = "up" /\ pressSeen
             /\ Older(acceptedAge, Debounce) >= Debounce)
  <2>1. acceptedAge' = Older(acceptedAge, Debounce) /\ UNCHANGED latch
    BY <1>1, <1>6
  <2>2. Reports' = Reports /\ moves' = moves
    BY <1>2, <2>1 DEF Reports
  <2>3. CASE Reports # moves
    BY <1>2, <2>2, <2>3 DEF NothingLeft, OnceEachMove
  <2>4. CASE Quiet
    <3>1. bouncing' = 0 /\ finger' = finger
      BY <1>2, <2>4 DEF Quiet
    <3>2. finger = "up" => previous' = "up" \/ ~pressSeen'
      BY <1>1, <1>3, <2>4 DEF Quiet, PressSeen
    <3>3. QED
      BY <1>2, <2>2, <3>1, <3>2 DEF NothingLeft, OnceEachMove, Quiet
  <2>5. CASE Settling /\ bouncing > 0
    BY <1>1, <1>2, <1>3, <1>4, <2>1, <2>2, <2>5
       DEF NothingLeft, OnceEachMove, Settling, Older
  <2>6. CASE Settling /\ bouncing = 0 /\ v = "error"
    BY <1>1, <1>2, <1>3, <1>4, <2>1, <2>2, <2>6
       DEF NothingLeft, OnceEachMove, Settling, Older
  <2>7. CASE bouncing = 0 /\ v # "error"
    BY <1>1, <1>2, <1>3, <2>2, <2>7 DEF NothingLeft, OnceEachMove, Quiet
  <2>8. QED
    BY <1>4, <2>3, <2>4, <2>5, <2>6, <2>7 DEF NothingLeft
<1>7. QED
  BY <1>5, <1>6

\* For every debounce longer than the bounce and the readings that fail with it, a
\* movement of the finger is reported at most once, and none is invented
\* (button.cpp:61-98).
THEOREM MovementsAreReportedOnce == ButtonSpec => []OnceEachMove
<1>1. ButtonInit => NothingLeft
  BY DEF ButtonInit, NothingLeft, OnceEachMove, Reports, Quiet
<1>2. ButtonTypeOK /\ NothingLeft /\ [ButtonNext]_buttonVars => NothingLeft'
  <2> SUFFICES ASSUME ButtonTypeOK, NothingLeft, [ButtonNext]_buttonVars
               PROVE  NothingLeft'
    OBVIOUS
  <2>1. CASE Start
    <3>1. Reports' = Reports /\ moves' = moves
      BY <2>1 DEF Start, Reports
    <3>2. Settling => Settling'
      BY <2>1 DEF Start, Settling
    <3>3. Quiet => Quiet'
      BY <2>1 DEF Start, NothingLeft, Quiet
    <3>4. running'
      BY <2>1 DEF Start
    <3>5. QED
      BY <3>1, <3>2, <3>3, <3>4 DEF NothingLeft, OnceEachMove
  <2>2. CASE Poll
    BY <2>2, PollNothingLeft
  <2>3. CASE TakePress
    <3>1. Reports' = Reports /\ moves' = moves
      BY <2>3, ButtonAssumption DEF TakePress, Reports, ButtonTypeOK
    <3>2. QED
      BY <2>3, <3>1 DEF TakePress, NothingLeft, OnceEachMove, Quiet, Settling
  <2>4. CASE Move
    <3>1. Reports' = Reports /\ moves' = moves + 1 /\ Reports \in Nat /\ moves \in Nat
      BY <2>4, ButtonAssumption DEF Move, Reports, ButtonTypeOK
    <3>2. QED
      BY <2>4, <3>1 DEF Move, NothingLeft, OnceEachMove
  <2>5. CASE UNCHANGED buttonVars
    BY <2>5 DEF buttonVars, NothingLeft, OnceEachMove, Reports, Quiet, Settling
  <2>6. QED
    BY <2>1, <2>2, <2>3, <2>4, <2>5 DEF ButtonNext
<1>3. NothingLeft => OnceEachMove
  BY DEF NothingLeft
<1>4. QED
  BY <1>1, <1>2, <1>3, ButtonTypeCorrect, PTL DEF ButtonSpec
=============================================================================
