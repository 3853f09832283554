SPECIFICATION FairSpec
CONSTANTS
  m1 = m1
  m2 = m2
  m3 = m3
  m4 = m4
  Call = {m1, m2, m3}
  MaxConcurrency = 2
  Interval = 2
  MaxRetries = 1
  HasFallback = TRUE
  Total = 2
  Cost = 1
  MaxDropped = 1
INVARIANTS
  TypeOK
  SlotsAccounted
  MainSpendBounded
PROPERTIES
  StartsSpaced
  CallsEnd
