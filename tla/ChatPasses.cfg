SPECIFICATION FairSpec
CONSTANTS
  p1 = p1  p2 = p2  e1 = e1  e2 = e2  e3 = e3
  Passes = {p1, p2}
  Events = {e1, e2}
  Generations = {1}
  MaxEvents = 1
  MaxTombstones = 1
  MaxFaults = 1
  NoPass = NoPass  Stale = Stale  NoEvent = NoEvent
CHECK_DEADLOCK FALSE
INVARIANT NothingLost
PROPERTY PassesEnd
