SPECIFICATION CallSpec
CONSTANTS
  None = None
  Page = Page
  good = good
  bad = bad
  Times <- MCTimes
  Bytes = {good, bad}
  Right = {good}
  Failures <- MCFailures
  Waits = 1
  LimitTries = 2
  ReuseTries = 2
  Polls = 2
  VerifyTries = 2
INVARIANTS
  TypeOK
  NothingIsOverlooked
  RefusedOnEvidence
  SavesAreBounded
PROPERTIES
  ImplementsArchiving
  Terminates
CHECK_DEADLOCK FALSE
