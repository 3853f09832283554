SPECIFICATION FairSpec
CONSTANTS
  r1 = r1
  r2 = r2
  r3 = r3
  w1 = w1
  w2 = w2
  None = None
  Request <- Requests
  SessionOf <- OneSession
  QueryOf <- TwoQueries
  Sync = {r1, r2}
  Stream = {"normal"}
  Worker = {w1}
  Concurrency = 1
  MaxDeliveries = 3
  Faults = {"redis", "crash", "loss", "stop"}
  MaxFaults = 1
PROPERTIES
  TasksFinish
  RequestsAnswered
