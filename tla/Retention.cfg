SPECIFICATION Spec
CHECK_DEADLOCK FALSE
CONSTANTS
  MaxStreamId = 5
  DefaultMaxConcurrent = 9
  MinIdle = 1
  MaxIdle = 2
  MaxReserved = 1
  MaxFlood = 2
  KeepClosed = TRUE
  Roles = {TRUE}
  FastCb = {FALSE}
  InitialPeerMax = 2
  Calls = {"settings", "ping"}
  Frames = {"SETTINGS", "SETTINGS_ACK", "HEADERS", "RST_STREAM", "PING"}
  Faults = {}
  Deps <- RootOnly
  LocalSettings <- LowerMcs
  PeerSettings <- NoEntries
  MaxQueue = 1
INVARIANTS StateSound
PROPERTIES RetentionBounded
