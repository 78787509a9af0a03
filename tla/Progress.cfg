SPECIFICATION FairSpec
CHECK_DEADLOCK FALSE
CONSTANTS
  MaxStreamId = 1
  DefaultMaxConcurrent = 9
  MinIdle = 1
  MaxIdle = 2
  MaxReserved = 1
  MaxFlood = 1
  KeepClosed = TRUE
  Roles = {TRUE}
  FastCb = {FALSE}
  InitialPeerMax = 2
  Calls = {"headers", "terminate", "rst"}
  Frames = {"SETTINGS", "HEADERS"}
  Faults = {}
  Deps <- RootOnly
  LocalSettings = {}
  PeerSettings <- NoEntries
  MaxQueue = 2
INVARIANTS FloodBounded
PROPERTIES TerminationCompletes ResetCompletes
