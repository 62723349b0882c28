CONSTANTS
  e1 = e1
  Events <- MCEvents
  MaxAttempts = 3
  MaxRedeliveries = 1
  MaxDisruptions = 2

SPECIFICATION FairSpec

INVARIANT EveryAttemptLogged
PROPERTY KeepsContract
PROPERTY EventuallySettled
CHECK_DEADLOCK FALSE
