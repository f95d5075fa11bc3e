SPECIFICATION Spec
CONSTANTS
  HeapBytes = 196
  AddressWords = 64
  Requests <- MCRequests
  StaticWords = {3, 20}
INVARIANTS
  TypeOK
  WellFormed
  Accounting
PROPERTY
  ImplementsContract
CHECK_DEADLOCK FALSE
