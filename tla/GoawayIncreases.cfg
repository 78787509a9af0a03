SPECIFICATION Spec
CHECK_DEADLOCK FALSE
CONSTANTS
  MaxStreamId = 3
  DefaultMaxConcurrent = 9
  MinIdle = 1
  MaxIdle = 2
  MaxReserved = 1
  MaxFlood = 2
  KeepClosed = TRUE
  Roles = {TRUE}
  FastCb = {FALSE}
  InitialPeerMax = 2
  Calls = {"goaway", "goaway_again", "terminate"}
  Frames = {"SETTINGS", "HEADERS"}
  Faults = {}
  Deps <- RootOnly
  LocalSettings = {}
  PeerSettings <- NoEntries
  MaxQueue = 2
PROPERTIES GoawayNeverIncreases
