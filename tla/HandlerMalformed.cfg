SPECIFICATION Spec

CONSTANTS
  Conns = {c1}
  Requests <- FewRequests
  Paths <- MCPaths
  Registered <- MCRegistered
  TlsEnabled = FALSE
  KeepAliveEnabled = TRUE
  KeepAliveMaxRequests = 2
  MaxPipelined = 1

INVARIANTS
  MalformedRequestLogged

\* A session ends: when every connection is closed nothing is left to do.
CHECK_DEADLOCK FALSE
