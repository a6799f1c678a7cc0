SPECIFICATION Spec

CONSTANTS
  k1 = k1  k2 = k2  k3 = k3
  NoFd = NoFd
  Conns <- TwoConns
  Backlog = 1
  StreamCap = 4
  FrameIds = 3
  IdleTimeout = 1
  LinkTimeout = 1
  ShutdownTimeout = 1
  MaxPresses = 1
  MaxCrashes = 0
  MaxCommands = 1
  MaxLaunches = 1
  Scenes = {"NORMAL", "NO_LIGHT"}
  Faults = {}

SYMMETRY ConnSymmetry

PROPERTIES
  DarkPressNeverSaved
