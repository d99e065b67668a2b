SPECIFICATION EventSpec

CONSTANTS
  Conns = {c1, c2}
  Workers = {w1, w2}
  NoConn = none
  PoolMayRefuse = TRUE
  Requests <- MCRequests
  Paths <- MCPaths
  Registered <- MCRegistered
  TlsEnabled = TRUE
  KeepAliveEnabled = TRUE
  KeepAliveMaxRequests = 2
  MaxPipelined = 2

SYMMETRY Interchangeable

INVARIANTS
  EverySocketAccounted
  TlsDiscipline

\* When every connection is refused or closed nothing is left to do.
CHECK_DEADLOCK FALSE
