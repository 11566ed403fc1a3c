SPECIFICATION Spec
CONSTANTS
  None = None
  N = 3
  Samples = 2
  Stop = 2
  Gap = 1
  RoundWait = 3
  RoundWaitMax = 5
  Budget = 9
  Slow = 1
  RetryAfters = {2, 9}
  ListingWaits <- MCListingWaits
  LimitTries = 2
INVARIANTS
  TypeOK
  RequestsArePaced
  EndsInsideTheBudget
  EveryEntryIsReported
  MismatchIsNeverHidden
  MissingRestsOnTwoAnswers
  RoundsAreFair
PROPERTIES
  Terminates
CHECK_DEADLOCK FALSE
