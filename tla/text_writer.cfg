SPECIFICATION Spec
CONSTANTS
  NWriters = 3
  ChunkSize = 2
  MaxLines = 7
  MaxCalls = 2
INVARIANTS OnePlace FileInOrder
PROPERTY WriteReturns
\* A destroyed writer does nothing more.
CHECK_DEADLOCK FALSE
