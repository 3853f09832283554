SPECIFICATION FairSpec
CONSTANTS
  a1 = a1
  a2 = a2
  a3 = a3
  Caller = {a1, a2}
  Threshold = 2
  Reset = 2
  Faults = {"redis", "expire"}
  MaxFaults = 2
  None = None
INVARIANTS
  TypeOK
PROPERTIES
  ImplementsLocal
  RecoversWhenHealthy
