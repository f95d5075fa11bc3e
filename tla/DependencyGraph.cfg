SPECIFICATION Spec
CONSTANTS
  Root = "r"
  Missing = "none"
  Active = 1
  Debug = 1
  Projects <- MCProjects
INVARIANTS
  TypeOK
  NoRecursion
  DiscoversReachable
  HighestSelected
  TopologicalPerVersion
  RequestsHonoured
  FailsForAReason
CHECK_DEADLOCK FALSE
