SPECIFICATION FairSpec

CONSTANTS
  k1 = k1  k2 = k2  k3 = k3
  NoFd = NoFd
  Conns <- TwoConns
  Backlog = 1
  StreamCap = 2
  FrameIds = 1
  IdleTimeout = 1
  LinkTimeout = 1
  ShutdownTimeout = 1
  MaxPresses = 0
  MaxCrashes = 1
  MaxCommands = 1
  MaxLaunches = 1
  Scenes = {"NORMAL"}
  Faults = {"cable", "crash", "wrap"}

INVARIANTS
  AnswerOwed

PROPERTIES
  QuitTerminates
  SessionReleased
  CutReleasesServer
  StopStopsTheServer
