SPECIFICATION FairExchangeSpec

CONSTANTS
  Answers <- MCAnswers
  Data <- MCData
  MaxCalls = 2
  ChunkSize = 3
  ServerThreads = 2
  Uninitialized = {0, 200}

INVARIANTS
  ExchangeTypeOK
  ResultIsTheAnswer
  FailsOnlyWithoutAnswer
  NoStandoff

PROPERTIES
  ImplementsRemoteCall
  EveryCallEnds

\* The caller may make no further call.
CHECK_DEADLOCK FALSE
