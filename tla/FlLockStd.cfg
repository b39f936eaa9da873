CONSTANTS
  Workers = {w1, w2}
  Main = main
  NULL = null
  MaxNest = 2
  StoreOrders = {"owner"}
SPECIFICATION LockFairSpec
INVARIANTS MutualExclusion CounterIsNesting
PROPERTY LockObtained
