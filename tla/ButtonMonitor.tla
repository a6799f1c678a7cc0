---------------------------- MODULE ButtonMonitor ---------------------------
(***************************************************************************)
(* ButtonMonitor (button.cpp): the thread that samples the line, and the   *)
(* latch the main thread empties. The finger moves the button; for a while *)
(* after each movement the contact bounces and the line reads anything.    *)
(*                                                                         *)
(* A step of the thread is one period of BUTTON_POLL_US and the reading    *)
(* after it, so time is counted in readings: the thread is never held up   *)
(* for as long as the debounce. The main thread and the finger act at any  *)
(* moment between two readings.                                            *)
(***************************************************************************)
EXTENDS Clock

CONSTANTS
  Debounce,       \* BUTTON_DEBOUNCE_MS, in readings
  Bounce,         \* readings during which a moved contact may bounce
  MaxFailed,      \* readings that may fail in a row
  MaxMoves        \* bound: movements of the finger

ASSUME ButtonAssumption ==
  /\ Debounce \in Nat /\ Bounce \in Nat /\ MaxFailed \in Nat /\ MaxMoves \in Nat
  /\ Bounce + MaxFailed < Debounce

VARIABLES
  finger,         \* the level the finger holds the button at
  bouncing,       \* readings for which the contact may still bounce
  failed,         \* readings that have failed in a row
  previous,       \* previous
  pressSeen,      \* pressSeen
  acceptedAge,    \* time since _lastAccepted
  latch,          \* _pressed
  running,        \* the thread is in its loop
  moves,          \* history: movements of the finger
  taken           \* history: times takePress() returned true

buttonVars == <<finger, bouncing, failed, previous, pressSeen, acceptedAge,
                latch, running, moves, taken>>

Levels == {"down", "up"}

\* What gpiod_line_get_value() may return; "error" is any negative value.
Readings == (IF failed < MaxFailed THEN {"error"} ELSE {})
            \cup (IF bouncing > 0 THEN Levels ELSE {finger})

ButtonInit ==
  /\ finger \in Levels /\ bouncing = 0 /\ failed = 0
  /\ previous = "up" /\ pressSeen = FALSE /\ acceptedAge = Debounce
  /\ latch = FALSE /\ running = FALSE
  /\ moves = 0 /\ taken = 0

\* The thread starts and takes its first reading; one that fails is taken for a
\* button held down.
Start ==
  /\ ~running
  /\ \E v \in Readings : previous' = IF v = "error" THEN "down" ELSE v
  /\ running' = TRUE
  /\ UNCHANGED <<finger, bouncing, failed, pressSeen, acceptedAge,
                 latch, moves, taken>>

\* Mutant of Accept: it is dated before the debounce.
AcceptDatedBack == latch' = TRUE /\ acceptedAge' = Debounce + 1

\* Mutant of Accept: an acceptance does not start the debounce.
AcceptNoDebounce == latch' = TRUE /\ acceptedAge' = Older(acceptedAge, Debounce)

\* A release that follows a press and is not a bounce of the last one accepted.
Accept == latch' = TRUE /\ acceptedAge' = 0

\* Mutant of PressSeen: a press is forgotten by the turn after it.
PressSeenThisTurn(v) == v = "down" /\ v # previous

\* pressSeen after a turn that reads v: it survives the turns that read nothing new.
PressSeen(v) == IF v \in {"error", previous} THEN pressSeen ELSE v = "down"

\* One turn of watchLoop(). An error or an unchanged level is skipped.
Poll ==
  /\ running
  /\ bouncing' = IF bouncing > 0 THEN bouncing - 1 ELSE 0
  /\ \E v \in Readings :
       /\ failed' = IF v = "error" THEN failed + 1 ELSE 0
       /\ previous' = IF v = "error" THEN previous ELSE v
       /\ pressSeen' = PressSeen(v)
       /\ IF /\ previous = "down" /\ v = "up" /\ pressSeen
             /\ Older(acceptedAge, Debounce) >= Debounce
            THEN Accept
            ELSE acceptedAge' = Older(acceptedAge, Debounce) /\ UNCHANGED latch
  /\ UNCHANGED <<finger, running, moves, taken>>

\* takePress(): one atomic exchange.
TakePress ==
  /\ latch' = FALSE
  /\ taken' = IF latch THEN taken + 1 ELSE taken
  /\ UNCHANGED <<finger, bouncing, failed, previous, pressSeen, acceptedAge,
                 running, moves>>

\* The finger presses or releases the button, at the earliest when the contact
\* has settled.
Move ==
  /\ moves < MaxMoves /\ bouncing = 0
  /\ finger' \in Levels \ {finger}
  /\ bouncing' = Bounce
  /\ moves' = moves + 1
  /\ UNCHANGED <<failed, previous, pressSeen, acceptedAge, latch, running, taken>>

ButtonNext == Start \/ Poll \/ TakePress \/ Move

ButtonSpec == ButtonInit /\ [][ButtonNext]_buttonVars

\* The thread is scheduled; nobody has to press, or to take the press.
ButtonFairSpec == ButtonSpec /\ WF_buttonVars(Start) /\ WF_buttonVars(Poll)

-----------------------------------------------------------------------------
\* The state is well formed; a debounce is counted up to its end (button.h:73-77).
ButtonTypeOK ==
  /\ finger \in Levels /\ bouncing \in 0 .. Bounce /\ failed \in 0 .. MaxFailed
  /\ previous \in Levels /\ pressSeen \in BOOLEAN
  /\ acceptedAge \in 0 .. Debounce
  /\ latch \in BOOLEAN /\ running \in BOOLEAN
  /\ moves \in 0 .. MaxMoves /\ taken \in Nat

\* Presses takePress() has reported or will report next.
Reports == taken + (IF latch THEN 1 ELSE 0)

\* A movement of the finger is reported at most once, however the contact bounces
\* and whatever the readings that fail, the first one included; without a movement
\* nothing is reported (button.cpp:61-98, button.h:52).
OnceEachMove == Reports <= moves

\* A press the thread has seen, with the debounce over, is reported once the button
\* stays released, whatever it bounced and failed to read in between
\* (button.cpp:69-98).
SeenPressReported ==
  <>[](finger = "up") => (pressSeen /\ acceptedAge = Debounce ~> acceptedAge = 0)
=============================================================================
