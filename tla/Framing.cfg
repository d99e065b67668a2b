SPECIFICATION FairSpec

CONSTANTS
  Streams <- MCStreams
  ChunkSize = 5

INVARIANTS
  TypeOK
  BytesConserved
  GivesUpOnlyOnPartOfARequest

PROPERTIES
  ImplementsFraming
  WholeRequestDelivered

\* The stream is finite: after the last request the reader stops.
CHECK_DEADLOCK FALSE
