CONSTANTS
  Callbacks = {a}
  Data = {null}
  NULL = null
  Delays = {0, 1}
  MaxTimers = 3
  MaxClock = 2
  MaxDepth = 2
SPECIFICATION FairSpec
INVARIANTS EachInOneList NoDrift NoOversleep
PROPERTIES EarliestDueFirst DueTimerRuns PassEnds
