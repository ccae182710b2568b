SPECIFICATION Spec
CONSTANTS
  Streams = {0, 1}
  BufferSizes = {2, 4, 8}
  MinCapacity = 1
  Chunk = 3
  AppendAnywhere = TRUE
  MaxBytes = 8
  MaxRead = 4
INVARIANT RoundTrip
