SPECIFICATION Spec
CONSTANTS
  t1 = t1
  t2 = t2
  t3 = t3
  x = x
  y = y
  Buyer = {x, y}
  w1 = w1
  w2 = w2
  None = None
  Turn <- Turns
  SessionOf <- Sessions
  QueryOf <- Queries
  Cacheable = {"advice"}
  Worker = {w1, w2}
  Pref = {"no plastic"}
  BucketLimit = 1
  Faults = {"turn", "store", "crash"}
  MaxEvents = 1
  MaxOverlaps = 1
ACTION_CONSTRAINT SessionsCommute
SYMMETRY ActorSymmetry
INVARIANTS
  TypeOK
  AnswerFits
  DialogueKept
  AnswerAfterQuestion
  EventsOnce
