SPECIFICATION Spec
CONSTANTS
  MaxThreads = 3
  MaxDepth = 3
INVARIANTS TypeOK MutualExclusion CountersAgree
PROPERTIES WritersFirst CallsProgress
