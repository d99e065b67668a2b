SPECIFICATION Spec

CONSTANTS
  Streams <- ClientStreams
  ChunkSize = 5

INVARIANTS
  ClientBodyDelivered

\* The stream is finite: after the last request the reader stops.
CHECK_DEADLOCK FALSE
