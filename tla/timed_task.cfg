SPECIFICATION Spec
CONSTANTS
  a = a
  b = b
  r = r
  OneShot = {b}
  Recurring = {r}
  Parent <- RSchedulesB
  Needs <- RNeedsB
  Delays = {0, 1}
  Interval = 1
  MaxLag = 1
  ClearWaiters = {c1}
  MaxWorkers = 3
  NoTask = NoTask
INVARIANTS OneHolder NoOversleep CancelHolds
PROPERTIES ClearMeansIdle TasksFallDue CallsReturn
\* A destroyed scheduler does nothing more.
CHECK_DEADLOCK FALSE
