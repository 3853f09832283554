SPECIFICATION FairSpec
CONSTANTS
  a1 = a1
  a2 = a2
  a3 = a3
  Caller = {a1, a2, a3}
  Threshold = 3
  Reset = 4
INVARIANTS
  TypeOK
  OpenExactlyAfterThreshold
PROPERTIES
  CoolDownHeld
  RecoversWhenHealthy
