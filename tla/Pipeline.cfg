SPECIFICATION Spec
CONSTANT Jobs <- MCJobs
INVARIANTS
  ParsesBack
  SameBehaviour
PROPERTY Finishes
CHECK_DEADLOCK FALSE
