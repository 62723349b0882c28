SPECIFICATION Spec
CONSTANTS
  a = a
  b = b
  c = c
  None = None
  Away = Away
  WaIds = {a, b}
  MaxPeople = 2
  MaxMessages = 2
  MaxMoves = 1
  MaxRaises = 2
  MaxVisits = 0
  MaxFrames = 1
  WithUserIds = TRUE
INVARIANTS
  HistoryStaysWithThePerson
  OneTimerPerIndicator
  ShownTypingIsTrue
PROPERTIES
  BubblesGo
CHECK_DEADLOCK FALSE
