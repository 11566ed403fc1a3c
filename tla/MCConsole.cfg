SPECIFICATION Spec
CONSTANTS
  None = None
  N = 3
  Docs = {d1, d2}
  MaxCalls = 2
  Interval = 2
INVARIANTS
  PinsWhatIsShown
PROPERTY CallsAreSpaced
SYMMETRY Symmetry
CHECK_DEADLOCK FALSE
