SPECIFICATION FairSpec

CONSTANTS
  Conns = {c1}
  Requests <- AllRequests
  Paths <- MCPaths
  Registered <- MCRegistered
  TlsEnabled = TRUE
  KeepAliveEnabled = TRUE
  KeepAliveMaxRequests = 3
  MaxPipelined = 1

INVARIANTS
  TypeOK
  ResponseStream
  RequestLimit
  TlsDiscipline

PROPERTIES
  AnnouncementKept
  WorkShrinks
  ImplementsSession
  EngagedSessionEnds
  SessionEnds

\* A session ends: when every connection is closed nothing is left to do.
CHECK_DEADLOCK FALSE
