SPECIFICATION ButtonFairSpec

CONSTANTS
  Debounce = 4
  Bounce = 2
  MaxFailed = 1
  MaxMoves = 5

INVARIANTS
  ButtonTypeOK
  OnceEachMove

PROPERTIES
  SeenPressReported
