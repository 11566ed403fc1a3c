SPECIFICATION Spec
CONSTANTS
  None = None
  Nodes = {n1, n2}
  Sources = {s1}
  Officials = {o1, o2}
  Recipients = {r1}
  Conflicts = {c1}
  RecipientOf <- MCRecipientOf
  Persons = {p1}
  Entities = {e1}
  Filings = {f1}
  Records = {sc1, sc2}
  MaxEdits = 2
INVARIANTS
  RedAfterTheHookHasACause
  GreenMeansJoined
  NoConflictIsCountedTwice
SYMMETRY Symmetry
CHECK_DEADLOCK FALSE
