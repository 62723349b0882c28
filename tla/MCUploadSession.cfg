CONSTANTS
  h1 = h1
  h2 = h2
  Handlers <- MCTwo
  FileLength = 2
  MaxMishaps = 2
  MaxDisruptions = 2

SPECIFICATION FairSpec

INVARIANT OffsetTruthful
INVARIANT HandleMeansComplete
INVARIANT NoBytesLeftBehind
PROPERTY SessionCompletes
CHECK_DEADLOCK FALSE
