SPECIFICATION Spec
CONSTANTS
  a = a
  b = b
  r = r
  OneShot = {a, b}
  Recurring = {}
  Parent <- NobodySchedules
  Needs <- ANeedsB
  Delays = {0}
  Interval = 1
  MaxLag = 1
  ClearWaiters = {c1}
  MaxWorkers = 3
  NoTask = NoTask
PROPERTIES TasksFallDue
\* A destroyed scheduler does nothing more.
CHECK_DEADLOCK FALSE
