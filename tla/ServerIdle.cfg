SPECIFICATION FairServerSpec

CONSTANTS
  Conns = {c1, c2}
  Workers = {w1}
  MainThread = main
  NoConn = none
  PoolMayRefuse = FALSE
  Requests <- KeepOnly
  Paths <- MCPaths
  Registered <- MCRegistered
  TlsEnabled = FALSE
  KeepAliveEnabled = FALSE
  KeepAliveMaxRequests = 1
  MaxPipelined = 1

PROPERTIES
  RequestsNotBlockedByIdleConnections

\* When every client has come and gone nothing is left to do.
CHECK_DEADLOCK FALSE
