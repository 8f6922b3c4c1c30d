SPECIFICATION Spec
CONSTANTS
  Jobs = {j1, j2, j3, j4}
  Runs = {r1, r2, r3}
  Tasks = {t1}
  Ops <- AllOps
  Legacy = {r1, r2}
  Life = 1
  MaxClock = 1
  Root = Root
  NoJob = NoJob
  NoToken = NoToken
  NoPlan = NoPlan
  Before = Before
SYMMETRY Symmetry
CHECK_DEADLOCK FALSE
INVARIANTS RecoveryOnce TaskOnce
PROPERTIES NoPassStranded MoveIsOwned PassIsOwned ImplementsLine
