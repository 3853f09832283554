SPECIFICATION Spec
CONSTANTS
  r1 = r1
  r2 = r2
  r3 = r3
  w1 = w1
  w2 = w2
  None = None
  Request <- Requests
  SessionOf <- TwoSessions
  QueryOf <- OneQuery
  Sync = {r1, r2}
  Stream = {"normal"}
  Worker = {w1, w2}
  Concurrency = 1
  MaxDeliveries = 1
  Faults = {"redis", "crash", "loss", "expire"}
  MaxFaults = 2
SYMMETRY BothSymmetry
INVARIANTS
  TypeOK
  NoTaskVanishes
  ConcurrencyCapped
  AnswerOfSession
  OneTurnPerQuestion
