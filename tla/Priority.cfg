SPECIFICATION Spec
CHECK_DEADLOCK FALSE
CONSTANTS
  MaxStreamId = 3
  DefaultMaxConcurrent = 9
  MinIdle = 1
  MaxIdle = 1
  MaxReserved = 1
  MaxFlood = 2
  KeepClosed = TRUE
  Roles = {TRUE, FALSE}
  FastCb = {FALSE}
  InitialPeerMax = 2
  Calls = {"request", "priority", "upgrade", "create_idle", "change_priority"}
  Frames = {"SETTINGS", "HEADERS", "PRIORITY"}
  Faults = {"too_long"}
  Deps <- OddAndEven
  LocalSettings = {}
  PeerSettings <- NoEntries
  MaxQueue = 1
INVARIANTS StateSound
 
