SPECIFICATION Spec
CONSTANTS
  HeapBytes = 132
  AddressWords = 64
  Requests <- TupleRequests
  StaticWords = {}
INVARIANT FreedIsAvailable
CHECK_DEADLOCK FALSE
