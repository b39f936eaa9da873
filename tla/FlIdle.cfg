CONSTANTS
  Handlers = {a, b, c}
  MaxEntries = 3
  MaxDepth = 2
SPECIFICATION IdleFairSpec
INVARIANTS RingClosed
PROPERTY InTurn
