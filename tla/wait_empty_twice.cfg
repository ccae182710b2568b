SPECIFICATION Spec
CONSTANTS
  Pushers = {p1}
  FrontPoppers = {c1}
  BackPoppers = {}
  EmptyWaiters = {w1, w2}
  Items = {d1}
  NoItem = NoItem
  Capacities <- SmallCapacities
PROPERTY WaitEmptyReturns
