SPECIFICATION SerialSpec
CONSTANTS
  None = None
  d1 = d1
  MaxId = 2
  Versions = {v1, v2, v3}
  Citations = {c1, c2}
  Drifts = {d1, d2}
  Captures = {k1, k2}
  Shows <- MCShows
  Notes = {n1}
  Operators = {o1}
INVARIANTS
  TypeOK
  RegisterLoads
  ArchivesReproduce
PROPERTIES
  LateRefusalIsADanglingLink
  ImplementsRegister
SYMMETRY Symmetry
CHECK_DEADLOCK FALSE
