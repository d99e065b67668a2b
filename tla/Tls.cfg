SPECIFICATION FairTlsSpec

CONSTANTS
  client = client
  server = server
  Client = client
  Server = server
  MaxBytes <- MCMaxBytes
  MaxWrite = 3
  MaxRead = 2
  MaxWants = 1
  Capacity = 2
  TimedEnds <- MCServerOnly
  SocketEnds <- MCServerOnly

INVARIANTS
  TlsTypeOK
  StreamIntact
  FailureHasCause
  OrderlyClose

PROPERTIES
  ImplementsByteConnection
  RoundsShrink
  CallsEnd

\* Both ends may be gone.
CHECK_DEADLOCK FALSE
