SPECIFICATION LiveServerSpec

CONSTANTS
  Conns = {c1, c2}
  Workers = {}
  MainThread = main
  NoConn = none
  PoolMayRefuse = FALSE
  Requests <- MCRequests
  Paths <- MCPaths
  Registered <- MCRegistered
  TlsEnabled = TRUE
  KeepAliveEnabled = TRUE
  KeepAliveMaxRequests = 2
  MaxPipelined = 1

PROPERTIES
  EveryConnectionServed

\* When every client has come and gone nothing is left to do.
CHECK_DEADLOCK FALSE
