SPECIFICATION Spec
CHECK_DEADLOCK FALSE
CONSTANTS
  MaxStreamId = 3
  DefaultMaxConcurrent = 1
  MinIdle = 1
  MaxIdle = 2
  MaxReserved = 1
  MaxFlood = 2
  KeepClosed = FALSE
  Roles = {TRUE, FALSE}
  FastCb = {FALSE}
  InitialPeerMax = 1
  Calls = {"request", "headers", "push"}
  Frames = {"SETTINGS", "HEADERS", "PUSH_PROMISE", "RST_STREAM"}
  Faults = {"cancel"}
  Deps <- RootOnly
  LocalSettings = {}
  PeerSettings <- NoEntries
  MaxQueue = 1
INVARIANTS StateSound
