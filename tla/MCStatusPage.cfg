SPECIFICATION Spec
CONSTANTS
  None = None
  N = 2
INVARIANTS
  AnswersAreRead
  FailuresAreConfirmed
  ExitCodeIsSound
  GreenIsEarned
PROPERTIES
  Publishes
CHECK_DEADLOCK FALSE
