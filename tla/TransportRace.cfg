SPECIFICATION Spec
CONSTANTS
  s1 = s1  s2 = s2  p1 = p1  p2 = p2  p3 = p3
  Sites = {s1, s2}
  Procs = {p1, p2, p3}
  SiteOf <- MCTwoAndOne
  RunIds <- MCRuns2
  MaxFaults = 1
  Surfaces = {TRUE, FALSE}
  Base = Base  NoRef = NoRef  NoProc = NoProc  NoRun = NoRun
CHECK_DEADLOCK FALSE
SYMMETRY Symmetry
CONSTRAINT SecondIsRecovery
INVARIANTS ToldIsCanonical FirstTerminalSignalled RecoveryRestsOnConflict
PROPERTY ImplementsRegistry
