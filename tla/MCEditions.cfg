SPECIFICATION Spec
CONSTANTS
  None = None
  Laws = {l1, l2}
  MaxDay = 3
  MaxPins = 2
INVARIANTS
  AnswersAreOfTheirDate
  UnchangedMeansUnamended
  AlarmsAreReal
  CurrentIsWatched
PROPERTIES
  HistoryStaysReachable
SYMMETRY Symmetry
CHECK_DEADLOCK FALSE
