SPECIFICATION ConcurrentSpec
CONSTANTS
  None = None
  d1 = d1
  MaxId = 2
  Versions = {v1}
  Citations = {c1}
  Drifts = {d1}
  Captures = {k1, k2}
  Shows <- MCShows
  Notes = {n1}
  Operators = {o1, o2}
INVARIANTS
  CitedIsRecoverable
  
SYMMETRY Symmetry
CHECK_DEADLOCK FALSE
