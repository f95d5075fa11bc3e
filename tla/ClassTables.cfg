SPECIFICATION FairSpec
CONSTANTS
  None = None
  Programs <- MCPrograms
INVARIANTS
  TypeOK
  SlotsKeepSignatures
  DispatchReachesNearest
  RefusesExactly
  LayoutSound
  DestructorsInSightRun
PROPERTY
  Finishes
CHECK_DEADLOCK FALSE
