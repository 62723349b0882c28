CONSTANTS
  o1 = o1
  o2 = o2
  p1 = p1
  p2 = p2
  r1 = r1
  r2 = r2
  Objects <- MCObjects
  Phones <- MCPhones
  SeededPhones <- MCSeededPhones
  Requests <- MCRequests
  MaxFailures = 1

SPECIFICATION MediaSpec
SYMMETRY Symmetry

INVARIANT NoFileLeftBehind
INVARIANT RowCanBeDownloaded
INVARIANT ExportIsConsistent
