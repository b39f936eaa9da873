CONSTANTS
  Workers = {w1, w2}
  Main = main
  NULL = null
  MaxDepth = 2
  Nfds = 2
  PipeIndex = 1
  Capacity = 2
  PipeCapacity = 3
  MaxCalls = 2
  NestedBlocks = {TRUE, FALSE}
SPECIFICATION PipeFairSpec
INVARIANTS LockExcludes ReadNeverBlocks NoLostWakeup
PROPERTIES QueueDrains WaitReturns
