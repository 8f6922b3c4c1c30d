SPECIFICATION Spec
CONSTANTS
  p1 = p1  p2 = p2  p3 = p3  c1 = c1  c2 = c2  g1 = g1  g2 = g2
  Owners = {p1, p2, p3}
  Main = p1
  Candidates = {c1, c2}
  Packages = {g1, g2}
  MaxCheckpoints = 2
  MaxFaults = 1
  NoOwner = NoOwner  Orphan = Orphan  NoCandidate = NoCandidate  NoPackage = NoPackage
CHECK_DEADLOCK FALSE
SYMMETRY Symmetry
INVARIANTS ProofRunsOnce ResultOnFinalSeal CompletedAnswerStands
PROPERTIES AmbiguityIsFrozen ImplementsLedger
