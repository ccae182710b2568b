SPECIFICATION Spec
CONSTANTS
  Workers = {w1, w2}
  Funcs = {d1, d2, d3, d4}
  Free = Free
  Exited = Exited
  Pushers = {p1}
  ClearWaiters = {c1}
  BufferSize = 3
  SinkCapacity = 1
  NoInput = NoInput
  Unlocked = Unlocked
INVARIANTS TasksMatchEntries DeliveryOrder
PROPERTIES StopIsFinal ClearMeansDelivered InputsAreDelivered CallsReturn
