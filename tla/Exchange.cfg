SPECIFICATION Spec
CHECK_DEADLOCK FALSE
CONSTANTS
  MaxStreamId = 1
  DefaultMaxConcurrent = 9
  MinIdle = 1
  MaxIdle = 2
  MaxReserved = 1
  MaxFlood = 2
  KeepClosed = TRUE
  Roles = {TRUE, FALSE}
  FastCb = {TRUE, FALSE}
  InitialPeerMax = 2
  Calls = {"request", "headers", "data", "rst", "resume"}
  Frames = {"SETTINGS", "HEADERS", "DATA", "RST_STREAM", "WINDOW_UPDATE", "MALFORMED"}
  Faults = {"http", "data_source", "header_field", "begin_headers", "overrun", "window", "window_overflow", "header_comp", "settings", "continuation", "compression"}
  Deps <- RootOnly
  LocalSettings = {}
  PeerSettings <- NoEntries
  MaxQueue = 2
INVARIANTS TypeOK StateSafe BooksExact
PROPERTIES StreamFrameOrder
