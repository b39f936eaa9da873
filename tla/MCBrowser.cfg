CONSTANTS
  Items = {l1, l2, l3, l4}
  Texts = {1, 2}
  MaxLines = 3
  Spacing = 0
  Beyond = 0
SPECIFICATION Spec
INVARIANTS ListIntact FindsLines 
PROPERTY RowsSpec
SYMMETRY Alike
