SPECIFICATION Spec
CONSTANTS
  o1 = o1
  o2 = o2
  t1 = t1
  t2 = t2
  Obj = {o1, o2}
  Null = Null
  Try = {t1, t2}
  Programs <- MCPrograms
SYMMETRY Symmetry
INVARIANTS
  TypeOK
  CountExact
  FinallyRuns
  InFlight
CHECK_DEADLOCK FALSE
