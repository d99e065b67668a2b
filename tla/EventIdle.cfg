SPECIFICATION WholeRequestsSpec

CONSTANTS
  Conns = {c1, c2, c3}
  Workers = {w1}
  NoConn = none
  PoolMayRefuse = TRUE
  Requests <- KeepOnly
  Paths <- MCPaths
  Registered <- MCRegistered
  TlsEnabled = FALSE
  KeepAliveEnabled = TRUE
  KeepAliveMaxRequests = 2
  MaxPipelined = 1


  

PROPERTIES
  RequestsNotBlockedByIdleSockets

\* When every connection is silent or refused nothing is left to do.
CHECK_DEADLOCK FALSE
