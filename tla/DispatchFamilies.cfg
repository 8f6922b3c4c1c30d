SPECIFICATION Spec
CONSTANTS
  p1 = p1  p2 = p2  p3 = p3  d1 = d1  d2 = d2  d3 = d3  b1 = b1  b2 = b2
  Procs = {p1, p2}
  Dispatches = {d1, d2, d3}
  FamilyOf <- MCEachFamily
  Bindings = {b1, b2}
  RunIds <- MCRuns3
  Reserved <- MCReserved
  MaxCrashes = 2
  NoProc = NoProc  NoRun = NoRun  NoRecord = NoRecord  NoBinding = NoBinding
CHECK_DEADLOCK FALSE
SYMMETRY Symmetry
INVARIANTS NoVerdictWhileRunning OneTerminalArtifact
PROPERTY ImplementsOneShot
