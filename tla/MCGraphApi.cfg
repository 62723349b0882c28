CONSTANTS
  w1 = w1
  n1 = n1
  x = x
  d1 = d1
  d1b = d1b
  d2 = d2
  t1 = t1
  k1 = k1
  k2 = k2
  NoId = NoId
  UploadHandle = UploadHandle
  Ids = {w1, n1, x}
  Displays = {d1, d1b, d2}
  DigitsOf <- MCDigitsOf
  SeedWabas = {w1}
  SeedPhones = {n1}
  SeedOwner <- MCSeedOwner
  SeedDisplay <- MCSeedDisplay
  Registered = {t1}
  Strangers = {"none"}
  Strict = TRUE
  Targets = {"graph.all", "messages.send"}
  Counts = {2}
  RuleIds = {k1, k2}
  MaxOperations = 4
  MaxRestarts = 1
  MaxInFlight = 1

SPECIFICATION Spec
CHECK_DEADLOCK FALSE

INVARIANT RungsAgree
INVARIANT OneNumberPerMsisdn
INVARIANT OneIdOneObject
INVARIANT RulesKeepTheirPromise
