SPECIFICATION Spec
CONSTANTS
  NReaders = 2
  BlockSize = 2
  NParallel = 2
  NPrefetch = 2
  ParseBlock = 3
  Directories <- MCDirectories
  ReadDirs <- MCReadDirs
INVARIANT EachLineOneReader LinesOnceInOrder
PROPERTY CallsReturn
\* A caller may end, wait at the end of the stream, or close it too early.
CHECK_DEADLOCK FALSE
