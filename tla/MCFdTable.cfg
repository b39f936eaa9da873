CONSTANTS
  in = in
  out = out
  Fds = {3, 4}
  Written = {3}
  Events <- MCEvents
  EventsOf <- MCEventsOf
  MaxEntries = 2
  MaxDepth = 2
SPECIFICATION FairSpec
INVARIANT TableConsistent
PROPERTIES CalledOnce NoneSkipped ReadyServed
