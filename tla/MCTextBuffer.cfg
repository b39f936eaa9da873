CONSTANTS
  a = a
  c = c
  Newline = c
  Garbage = garbage
  Texts <- MCTexts
  PreferredGap = 1
  MaxLength = 3
  MaxEvents = 2
  MaxSelected = 1
SPECIFICATION Spec
INVARIANTS ListenersInSync SelectionFollows EventsKept LinesAgree
PROPERTY HistorySpec
