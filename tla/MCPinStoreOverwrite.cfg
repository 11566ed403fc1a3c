SPECIFICATION ConcurrentSpec
CONSTANTS
  None = None
  d1 = d1
  MaxId = 2
  Versions = {v1, v2}
  Citations = {c1, c2}
  Drifts = {d1, d2}
  Captures = {k1}
  Shows <- MCShows
  Notes = {n1}
  Operators = {o1, o2}
INVARIANTS
  NeverOverwrites
CHECK_DEADLOCK FALSE
