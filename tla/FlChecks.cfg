CONSTANTS
  Handlers = {a, b}
  MaxEntries = 3
  MaxDepth = 3
SPECIFICATION FairSpec
INVARIANTS ListsIntact NoneLeftOut
PROPERTIES CalledOnce PassEndsUnlessRemoving
