SPECIFICATION Spec

CONSTANTS
  k1 = k1  k2 = k2  k3 = k3
  NoFd = NoFd
  Conns <- TwoConns
  Backlog = 1
  StreamCap = 4
  FrameIds = 2
  IdleTimeout = 1
  LinkTimeout = 1
  ShutdownTimeout = 1
  MaxPresses = 1
  MaxCrashes = 1
  MaxCommands = 1
  MaxLaunches = 2
  Scenes = {"NORMAL", "NO_LIGHT"}
  Faults = {"capture", "decode", "disk", "crash", "relaunch", "wrap"}

SYMMETRY ConnSymmetry

INVARIANTS
  TypeOK
  StreamAligned
  LiveOnlyIfAccepted
  PressReportedOnce
