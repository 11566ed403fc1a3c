SPECIFICATION Spec
CONSTANTS
  None = None
  Stray = Stray
  N = 2
INVARIANTS
  GreenRunsAreComplete
PROPERTIES
  OnlyPinnedBytesAppear
  ManifestOnlyGrows
