SPECIFICATION Spec
CONSTANTS
  Pushers = {p1, p2}
  FrontPoppers = {c1}
  BackPoppers = {c2}
  EmptyWaiters = {w1}
  Items = {d1, d2, d3, d4}
  NoItem = NoItem
  Capacities <- SmallCapacities
INVARIANTS TypeOK NoLostWakeup ExactlyOnceInOrder
PROPERTIES AllDelivered ImplementsBlockingQueue
