SPECIFICATION FairSpec
CONSTANTS
  p1 = p1  p2 = p2  p3 = p3  d1 = d1  d2 = d2  d3 = d3  b1 = b1  b2 = b2
  Procs = {p1, p2, p3}
  Dispatches = {d1}
  FamilyOf <- MCOnePrimary
  Bindings = {b1}
  RunIds <- MCRuns1
  Reserved <- MCNone
  MaxCrashes = 1
  NoProc = NoProc  NoRun = NoRun  NoRecord = NoRecord  NoBinding = NoBinding
CHECK_DEADLOCK FALSE
PROPERTIES EveryDeliveryEnds LocksComeFree
