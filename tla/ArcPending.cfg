SPECIFICATION Spec
CONSTANTS
  a1 = a1
  a2 = a2
  a3 = a3
  Addr = {a1, a2}
  Null = Null
  Programs <- PendingPrograms
  MaxCount = 5
SYMMETRY Symmetry
INVARIANTS
  FreedOnce
CHECK_DEADLOCK FALSE
