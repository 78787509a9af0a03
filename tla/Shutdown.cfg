SPECIFICATION Spec
CHECK_DEADLOCK FALSE
CONSTANTS
  MaxStreamId = 3
  DefaultMaxConcurrent = 9
  MinIdle = 1
  MaxIdle = 2
  MaxReserved = 1
  MaxFlood = 2
  KeepClosed = TRUE
  Roles = {TRUE, FALSE}
  FastCb = {FALSE}
  InitialPeerMax = 1
  Calls = {"goaway", "shutdown_notice", "request", "rst", "push", "set_next_id"}
  Frames = {"SETTINGS", "HEADERS", "GOAWAY"}
  Faults = {}
  Deps <- RootOnly
  LocalSettings = {}
  PeerSettings <- NoEntries
  MaxQueue = 1
INVARIANTS GoawayHonoured 
