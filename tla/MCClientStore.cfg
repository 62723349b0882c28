CONSTANTS
  Messages = 2
  Rungs = 2
  Files <- OldFile
  MaxDisruptions = 2
  MaxFrames = 3

SPECIFICATION Spec

INVARIANT NothingInvented
INVARIANT SettledScreenIsCurrent
PROPERTY NeverBackwards
