SPECIFICATION Spec
SYMMETRY Symmetry
CONSTANTS
  a = a
  b = b
  c = c
  None = None
  Away = Away
  WaIds = {a, b, c}
  MaxPeople = 2
  MaxMessages = 1
  MaxMoves = 2
  MaxRaises = 0
  MaxVisits = 2
  MaxFrames = 2
  WithUserIds = FALSE
INVARIANTS
  ViewFollowsThePerson
  NobodyElsesMessages
CHECK_DEADLOCK FALSE
