SPECIFICATION TimedSpec

CONSTANTS
  k1 = k1  k2 = k2  k3 = k3
  NoFd = NoFd
  Millis = 20
  Conns <- ThreeConns
  Backlog = 1
  StreamCap = 4
  FrameIds = 1
  IdleTimeout <- IdleTicks
  LinkTimeout <- LinkTicks
  ShutdownTimeout <- ShutdownTicks
  MaxPresses = 0
  MaxCrashes = 0
  MaxCommands = 3
  MaxLaunches = 1
  Scenes = {"NORMAL"}
  Faults = {"capture", "wrap"}
  RecvPeriod <- RecvTicks
  ReconnectPeriod <- ReconnectTicks
  CaptureTime <- CaptureTicks
  Rto = 0
  MaxOut = 0
  Resume = 1
  MaxCuts = 0

INVARIANTS
  AnswersKeepUp
  QuitReachesServer
