CONSTANTS
  Accounts = {1, 2}
  Numbers = {1, 2}
  Seed <- MCSeed
  Snapshot <- MCSnapshot
  SnapshotRules <- MCSnapshotRules
  SnapshotLog <- MCSnapshotLog
  Links <- MCLinks
  PageSize = 1
  MaxSteps = 2

SPECIFICATION Spec
CHECK_DEADLOCK FALSE

INVARIANT SnapshotIsCurrent
INVARIANT BadgeIsTrue
INVARIANT LogIsExact
INVARIANT PageIsShown
INVARIANT RedirectsEnd
