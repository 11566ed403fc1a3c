SPECIFICATION Spec
CONSTANTS
  None = None
  N = 1
INVARIANTS
  PageAgreesWithTheRun
CHECK_DEADLOCK FALSE
