CONSTANTS
  t1 = t1
  t2 = t2
  w1 = w1
  Templates <- MCTemplates
  Seeded <- MCSeeded
  Wabas <- MCWabas
  SeedWabas <- MCWabas
  WabaOf <- MCWabaOf
  NameOf <- MCNameOf
  LanguageOf <- MCLanguageOf
  MaxEditions = 2
  MaxDisruptions = 2

SPECIFICATION FairSpec

INVARIANT ReviewedAsEdited
INVARIANT ManualStaysManual
INVARIANT HeardIsStatus
PROPERTY EventuallyReviewed
