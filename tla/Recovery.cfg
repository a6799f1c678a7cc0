SPECIFICATION TimedSpec

CONSTANTS
  k1 = k1  k2 = k2  k3 = k3
  NoFd = NoFd
  Millis = 500
  Conns <- ThreeConns
  Backlog = 2
  StreamCap = 8
  FrameIds = 1
  IdleTimeout <- IdleTicks
  LinkTimeout <- LinkTicks
  ShutdownTimeout <- ShutdownTicks
  MaxPresses = 0
  MaxCrashes = 0
  MaxCommands = 40
  MaxLaunches = 1
  Scenes = {"NORMAL"}
  Faults = {"cable", "wrap"}
  RecvPeriod <- RecvTicks
  ReconnectPeriod <- ReconnectTicks
  CaptureTime = 0
  Rto = 1
  MaxOut = 7
  Resume <- ResumeTicks
  MaxCuts = 2

SYMMETRY ConnSymmetry

INVARIANTS
  StreamAligned
  LiveOnlyIfAccepted
  VideoResumes
  ServerFreedFirst
  NoneLeftHalfOpen
  QuitInTime
