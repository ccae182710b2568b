SPECIFICATION UseSpec
CONSTANTS
  Workers = {w1, w2}
  Funcs = {f1, f2, f3}
  Free = Free
  Exited = Exited
  Keys <- TwoClasses
INVARIANTS UseTypeOK PoolNoLostWakeup EveryTaskOnce
PROPERTIES PriorityOrder TasksRun DestructorReturns
\* A destroyed pool does nothing more.
CHECK_DEADLOCK FALSE
