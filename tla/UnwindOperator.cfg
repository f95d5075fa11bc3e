SPECIFICATION Spec
CONSTANTS
  o1 = o1
  o2 = o2
  t1 = t1
  Obj = {o1, o2}
  Null = Null
  Try = {t1}
  Programs <- OperatorPrograms
SYMMETRY Symmetry
INVARIANTS
  SearchContinues
CHECK_DEADLOCK FALSE
