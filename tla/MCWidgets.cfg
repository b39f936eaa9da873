CONSTANTS
  Win = win
  Widgets = {win, g, a, b}
  Groups = {win, g}
  NULL = null
  MaxStack = 3
  MaxCallbacks = 2
  Adding = FALSE
SPECIFICATION Spec
INVARIANTS NoDangling DeletedOnce TrackersTell NoneForgotten
SYMMETRY Alike
