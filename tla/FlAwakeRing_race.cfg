CONSTANTS
  Workers = {w1, w2}
  Main = main
  Handlers = {h1, h2}
  Size = 3
  NULL = null
  FirstCallAlone = FALSE
SPECIFICATION FairSpec
PROPERTY AcceptedIsQueued
