SPECIFICATION Spec
CONSTANTS
  p1 = p1  p2 = p2  r1 = r1  r2 = r2
  m = m  o = o  n = n  u = u  v = v  g0 = g0  g1 = g1  g2 = g2  g3 = g3  s = s  t = t
  Procs = {p1, p2}
  Edges = {u, v}
  Upgrades = {u, v}
  Version <- MCVersion
  SourceOf <- MCSource
  TargetOf <- MCTarget
  Base <- MCBase
  Control <- MCControl
  Task <- MCTask
  Rebinds <- MCRebinds
  Generations = {g0, g1, g2, g3}
  Tasks = {s, t}
  RunIds = {r1, r2}
  Tip = 1
  MaxFaults = 0
  NoProc = NoProc  NoEdge = NoEdge  NoRun = NoRun
SYMMETRY Symmetry
CHECK_DEADLOCK FALSE
INVARIANT HistoryReadable
