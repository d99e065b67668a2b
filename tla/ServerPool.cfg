SPECIFICATION ServerSpec

CONSTANTS
  Conns = {c1, c2, c3}
  Workers = {w1, w2}
  MainThread = main
  NoConn = none
  PoolMayRefuse = TRUE
  Requests <- KeepOnly
  Paths <- MCPaths
  Registered <- MCRegistered
  TlsEnabled = FALSE
  KeepAliveEnabled = FALSE
  KeepAliveMaxRequests = 2
  MaxPipelined = 1

SYMMETRY Interchangeable

INVARIANTS
  OneThreadPerSession

PROPERTIES
  ImplementsWorkerPool

\* When every client has come and gone nothing is left to do.
CHECK_DEADLOCK FALSE
