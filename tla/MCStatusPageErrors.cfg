SPECIFICATION Spec
CONSTANTS
  None = None
  N = 1
INVARIANTS
  ErrorsAreAboutTheDocument
CHECK_DEADLOCK FALSE
