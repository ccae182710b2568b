SPECIFICATION Spec
CONSTANTS
  FileSizes = {0, 2, 3}
  FileCounts = {0, 2, 3}
  MaxBytes = 6
  MaxIdx = 4
INVARIANT ReadyToWrite NothingLost
PROPERTY KeepsNewest
\* A process that has ended need not start again.
CHECK_DEADLOCK FALSE
