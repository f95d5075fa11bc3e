SPECIFICATION Spec
CONSTANTS
  None = None
  Programs <- MCPrograms
INVARIANT
  SuperCallsBase
CHECK_DEADLOCK FALSE
