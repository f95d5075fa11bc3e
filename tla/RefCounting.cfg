SPECIFICATION Spec
CONSTANTS
  a1 = a1
  a2 = a2
  a3 = a3
  Addr = {a1, a2, a3}
  Null = Null
  Programs <- MCPrograms
  MaxCount = 4
SYMMETRY Symmetry
INVARIANTS
  TypeOK
  CountExact
  FreedOnce
  NoOrphan
  WeakSafe
CHECK_DEADLOCK FALSE
