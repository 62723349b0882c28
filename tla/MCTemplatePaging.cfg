CONSTANTS
  Ids <- MCTemplates
  Limit = 2
  MaxTime = 1

SPECIFICATION FairPaging

INVARIANT NothingMissed
PROPERTY WalkEnds
CHECK_DEADLOCK FALSE
