SPECIFICATION Spec
CONSTANTS
  p1 = p1  p2 = p2  e1 = e1  e2 = e2  e3 = e3
  Passes = {p1}
  Events = {e1, e2, e3}
  Generations = {1, 2}
  MaxEvents = 2
  MaxTombstones = 1
  MaxFaults = 1
  NoPass = NoPass  Stale = Stale  NoEvent = NoEvent
SYMMETRY Symmetry
CHECK_DEADLOCK FALSE
PROPERTIES RingsUnderItsRecord ImplementsDoorbell
