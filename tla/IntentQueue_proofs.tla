------------------------- MODULE IntentQueue_proofs -------------------------
(***************************************************************************)
(* Theorems about IntentQueue for any requests, sessions, streams and      *)
(* workers, and any number of faults.                                      *)
(***************************************************************************)
EXTENDS IntentQueue, FiniteSetTheorems, TLAPS

InStream(t) == \E p \in Stream : t \in Range(unread[p])

-----------------------------------------------------------------------------
(* The inductive invariant. *)

(* The types of what belongs to a request, and of the rest. *)
RequestTypes ==
  /\ rpc \in [Request -> {"idle", "lookup", "enqueue", "setQueued", "wait", "returned"}]
  /\ task \in [Request -> Request \cup {None}]
  /\ answer \in [Request -> Request \cup {None, "error", "timeout"}]
  /\ \A r \in Request : rpc[r] \in {"setQueued", "wait"} => task[r] \in Request

RedisTypes ==
  /\ idem \in [Fingerprint -> Request \cup {None}]
  /\ unread \in [Stream -> Seq(Request)]
  /\ pending \subseteq Request /\ dead \subseteq Request
  /\ status \in [Request -> {"none", "queued", "running", "done", "failed"}]
  /\ wire \subseteq Request

WorkerTypes ==
  /\ flight \in [Worker -> SUBSET Request]
  /\ hpc \in [Request -> {"none", "start", "work", "record", "ack", "mark", "judge",
                          "drop", "over"}]
  /\ stopping \in [Worker -> BOOLEAN]
  /\ faults \in 0..MaxFaults
  /\ turns \in [Request -> Nat]
  /\ finished \subseteq Request
  /\ lapsed \subseteq Fingerprint
  /\ \A w \in Worker : IsFiniteSet(flight[w])

(* The key of a fingerprint names a request of it that is past the lookup; *)
(* while it has not lapsed, it names the one that was, or will be, sent.   *)
Keyed ==
  /\ \A f \in Fingerprint : idem[f] # None =>
       FingerprintOf(idem[f]) = f /\ rpc[idem[f]] \notin {"idle", "lookup"}
  /\ \A r \in Request : rpc[r] = "lookup" /\ FingerprintOf(r) \notin lapsed =>
       idem[FingerprintOf(r)] # None
  /\ \A r \in Request : (rpc[r] = "enqueue" \/ task[r] = r) /\ FingerprintOf(r) \notin lapsed =>
       idem[FingerprintOf(r)] = r

(* What the worker side knows of was sent by its own request, which is     *)
(* done with sending; a reused task has the question of the one reusing.   *)
Submitted ==
  /\ \A r \in Request : task[r] \in Request => FingerprintOf(task[r]) = FingerprintOf(r)
  /\ \A t \in Request : task[t] = t => rpc[t] \in {"setQueued", "wait", "returned"}
  /\ \A t \in Request : InStream(t) \/ hpc[t] # "none" \/ turns[t] > 0 => task[t] = t

(* An entry is in one place of one stream, and untouched while it is.      *)
Apart ==
  \A p, q \in Stream : \A i \in DOMAIN unread[p], j \in DOMAIN unread[q] :
    unread[p][i] = unread[q][j] => p = q /\ i = j

Once ==
  /\ Apart
  /\ \A t \in Request : InStream(t) => hpc[t] = "none"
  /\ \A t \in Request : InStream(t) \/ hpc[t] = "start" => turns[t] = 0
  /\ \A t \in Request : turns[t] <= 1

(* Only what is finished is recorded, announced and acknowledged, except   *)
(* for what is in the dead-letter stream.                                  *)
Worked ==
  /\ \A t \in Request : hpc[t] \in {"record", "ack"} \/ status[t] = "done" => t \in finished
  /\ \A t \in Request : hpc[t] = "drop" => t \in dead
  /\ wire \subseteq finished

QueueInv ==
  /\ RequestTypes /\ RedisTypes /\ WorkerTypes
  /\ Keyed /\ Submitted /\ Once /\ Worked
  /\ AnswerOfSession /\ NoTaskVanishes

-----------------------------------------------------------------------------
(* What a worker takes from the streams. *)

LEMMA RangeFinite ==
  ASSUME NEW S, NEW s \in Seq(S)
  PROVE  IsFiniteSet(Range(s)) /\ Cardinality(Range(s)) <= Len(s)
<1>1. IsFiniteSet(1..Len(s)) /\ Cardinality(1..Len(s)) = Len(s)
  <2>1. Len(s) \in Nat /\ 1 \in Int /\ Len(s) \in Int
    OBVIOUS
  <2>2. /\ IsFiniteSet(1..Len(s))
        /\ Cardinality(1..Len(s)) = IF 1 > Len(s) THEN 0 ELSE Len(s) - 1 + 1
    BY <2>1, FS_Interval
  <2> QED BY <2>1, <2>2
<1>2. s \in Surjection(1..Len(s), Range(s))
  BY DEF Surjection, Range
<1> QED BY <1>1, <1>2, FS_Surjection

(* The two parts of a sequence. *)
LEMMA Parts ==
  ASSUME NEW S, NEW s \in Seq(S), NEW n \in 0..Len(s)
  PROVE  /\ DOMAIN s = 1..Len(s)
         /\ DOMAIN SubSeq(s, 1, n) = 1..n
         /\ DOMAIN SubSeq(s, n + 1, Len(s)) = 1..(Len(s) - n)
         /\ SubSeq(s, 1, n) \in Seq(S) /\ Len(SubSeq(s, 1, n)) = n
         /\ \A i \in 1..n : SubSeq(s, 1, n)[i] = s[i]
         /\ SubSeq(s, n + 1, Len(s)) \in Seq(S) /\ Len(SubSeq(s, n + 1, Len(s))) = Len(s) - n
         /\ \A i \in 1..(Len(s) - n) : SubSeq(s, n + 1, Len(s))[i] = s[i + n]
OBVIOUS

LEMMA BatchBounds ==
  ASSUME RedisTypes, WorkerTypes, NEW w \in Worker
  PROVE  /\ Free(w) \in 0..Concurrency
         /\ \A p \in Stream : Batch(w, p) \in 0..Len(unread[p]) /\ Batch(w, p) <= Free(w)
<1>1. Cardinality(flight[w]) \in Nat
  BY FS_CardinalityType DEF WorkerTypes
<1>2. Free(w) \in 0..Concurrency
  BY <1>1, QueueAssumption DEF Free
<1>3. ASSUME NEW p \in Stream
      PROVE  Batch(w, p) \in 0..Len(unread[p]) /\ Batch(w, p) <= Free(w)
  <2>1. Len(unread[p]) \in Nat
    BY DEF RedisTypes
  <2> QED BY <1>2, <2>1, QueueAssumption DEF Batch, Minimum
<1> QED BY <1>2, <1>3

(* What is taken is a front part of each stream; the rest stays, in order. *)
LEMMA ReadMoves ==
  ASSUME RedisTypes, WorkerTypes, NEW w \in Worker, Read(w)
  PROVE  /\ unread' \in [Stream -> Seq(Request)]
         /\ \A p \in Stream : \A i \in DOMAIN unread'[p] :
              /\ i + Batch(w, p) \in DOMAIN unread[p]
              /\ unread'[p][i] = unread[p][i + Batch(w, p)]
         /\ \A t \in Taken(w) : \E p \in Stream : \E i \in 1..Batch(w, p) :
              i \in DOMAIN unread[p] /\ t = unread[p][i]
         /\ \A p \in Stream : \A t \in Range(unread[p]) :
              t \in Taken(w) \/ t \in Range(unread'[p])
<1> DEFINE n(p) == Batch(w, p)
<1>1. ASSUME NEW p \in Stream
      PROVE  n(p) \in 0..Len(unread[p]) /\ unread[p] \in Seq(Request)
  BY BatchBounds DEF RedisTypes
<1>2. \A p \in Stream : unread'[p] = SubSeq(unread[p], n(p) + 1, Len(unread[p]))
  BY DEF Read
<1> HIDE DEF n
<1>3. ASSUME NEW p \in Stream
      PROVE  /\ unread'[p] \in Seq(Request)
             /\ DOMAIN unread[p] = 1..Len(unread[p])
             /\ DOMAIN unread'[p] = 1..(Len(unread[p]) - n(p))
             /\ \A i \in 1..(Len(unread[p]) - n(p)) : unread'[p][i] = unread[p][i + n(p)]
  <2>1. unread'[p] = SubSeq(unread[p], n(p) + 1, Len(unread[p]))
    BY <1>2
  <2>2. unread[p] \in Seq(Request) /\ n(p) \in 0..Len(unread[p])
    BY <1>1
  <2>3. /\ DOMAIN unread[p] = 1..Len(unread[p])
        /\ DOMAIN SubSeq(unread[p], n(p) + 1, Len(unread[p])) = 1..(Len(unread[p]) - n(p))
        /\ SubSeq(unread[p], n(p) + 1, Len(unread[p])) \in Seq(Request)
        /\ \A i \in 1..(Len(unread[p]) - n(p)) :
             SubSeq(unread[p], n(p) + 1, Len(unread[p]))[i] = unread[p][i + n(p)]
    BY <2>2, Parts
  <2> QED BY <2>1, <2>3
<1>4. unread' \in [Stream -> Seq(Request)]
  BY <1>3 DEF Read
<1>5. ASSUME NEW p \in Stream, NEW i \in DOMAIN unread'[p]
      PROVE  i + n(p) \in DOMAIN unread[p] /\ unread'[p][i] = unread[p][i + n(p)]
  <2>1. Len(unread[p]) \in Nat /\ n(p) \in 0..Len(unread[p])
    BY <1>1
  <2>2. i \in 1..(Len(unread[p]) - n(p))
    BY <1>3
  <2> QED BY <1>3, <2>1, <2>2
<1>6. ASSUME NEW p \in Stream
      PROVE  /\ Range(SubSeq(unread[p], 1, n(p))) = {unread[p][i] : i \in 1..n(p)}
             /\ 1..n(p) \subseteq DOMAIN unread[p]
  <2>1. DOMAIN SubSeq(unread[p], 1, n(p)) = 1..n(p)
        /\ \A i \in 1..n(p) : SubSeq(unread[p], 1, n(p))[i] = unread[p][i]
        /\ SubSeq(unread[p], 1, n(p)) \in Seq(Request)
    BY <1>1, Parts
  <2>2. Range(SubSeq(unread[p], 1, n(p))) = {unread[p][i] : i \in 1..n(p)}
    BY <2>1 DEF Range
  <2>3. Len(unread[p]) \in Nat /\ n(p) \in 0..Len(unread[p])
    BY <1>1
  <2> QED BY <1>3, <2>2, <2>3
<1>7. Taken(w) = UNION {Range(SubSeq(unread[p], 1, n(p))) : p \in Stream}
  BY DEF Taken, n
<1>8. ASSUME NEW t \in Taken(w)
      PROVE  \E p \in Stream : \E i \in 1..n(p) : i \in DOMAIN unread[p] /\ t = unread[p][i]
  BY <1>6, <1>7
<1>9. ASSUME NEW p \in Stream, NEW t \in Range(unread[p])
      PROVE  t \in Taken(w) \/ t \in Range(unread'[p])
  <2>1. PICK i \in DOMAIN unread[p] : t = unread[p][i]
    BY DEF Range
  <2>2. CASE i \in 1..n(p)
    BY <1>6, <1>7, <2>1, <2>2
  <2>3. CASE i \notin 1..n(p)
    <3>1. Len(unread[p]) \in Nat /\ n(p) \in 0..Len(unread[p])
      BY <1>1
    <3>2. i \in 1..Len(unread[p])
      BY <1>3
    <3>3. i - n(p) \in 1..(Len(unread[p]) - n(p)) /\ (i - n(p)) + n(p) = i
      BY <2>3, <3>1, <3>2
    <3>4. i - n(p) \in DOMAIN unread'[p] /\ unread'[p][i - n(p)] = unread[p][i]
      BY <1>3, <3>3
    <3> QED BY <2>1, <3>4 DEF Range
  <2> QED BY <2>2, <2>3
<1> QED BY <1>4, <1>5, <1>8, <1>9 DEF n

LEMMA TakenInStream ==
  ASSUME RedisTypes, WorkerTypes, NEW w \in Worker, Read(w)
  PROVE  /\ Taken(w) \subseteq Request
         /\ \A t \in Taken(w) : InStream(t)
BY ReadMoves DEF InStream, Range, RedisTypes

LEMMA TakenFinite ==
  ASSUME RedisTypes, WorkerTypes, NEW w \in Worker
  PROVE  IsFiniteSet(Taken(w))
<1>1. ASSUME NEW p \in Stream
      PROVE  IsFiniteSet(Range(SubSeq(unread[p], 1, Batch(w, p))))
  <2>1. SubSeq(unread[p], 1, Batch(w, p)) \in Seq(Request)
    BY BatchBounds, Parts DEF RedisTypes
  <2> QED BY <2>1, RangeFinite
<1>2. CASE Stream = {}
  <2>1. Taken(w) = {}
    BY <1>2 DEF Taken
  <2> QED BY <2>1, FS_EmptySet
<1>3. CASE \E p \in Stream : Stream = {p}
  BY <1>1, <1>3 DEF Taken
<1>4. CASE Stream = {"normal", "large"}
  <2>1. Taken(w) = Range(SubSeq(unread["normal"], 1, Batch(w, "normal")))
                     \cup Range(SubSeq(unread["large"], 1, Batch(w, "large")))
    BY <1>4 DEF Taken
  <2> QED BY <1>1, <1>4, <2>1, FS_Union
<1>5. CASE "normal" \in Stream
  <2>1. Stream = {"normal"} \/ Stream = {"normal", "large"}
    BY <1>5, QueueAssumption
  <2> QED BY <1>3, <1>4, <1>5, <2>1
<1>6. CASE "normal" \notin Stream
  <2>1. Stream = {} \/ Stream = {"large"}
    BY <1>6, QueueAssumption
  <2> QED BY <1>2, <1>3, <2>1
<1> QED BY <1>5, <1>6

-----------------------------------------------------------------------------
(* Types *)

LEMMA TypeParts == RequestTypes /\ RedisTypes /\ WorkerTypes => TypeOK
BY DEF TypeOK, RequestTypes, RedisTypes, WorkerTypes

(* A step of a request or of a key, or one that neither notices. *)
LEMMA WorkersKeep ==
  ASSUME [Next]_vars
  PROVE  \/ \E r \in Request : Acquire(r) \/ RequestStep(r) \/ RequestFault(r) \/ Deliver(r)
         \/ \E f \in Fingerprint : Expire(f)
         \/ UNCHANGED <<idem, rpc, task, answer, lapsed>>
<1>1. ASSUME NEW t \in Request, HandlerStep(t) \/ HandlerFault(t) \/ Lose(t)
      PROVE  UNCHANGED <<idem, rpc, task, answer, lapsed>>
  BY <1>1 DEF HandlerStep, Start, Work, Record, Ack, MarkFailed, Judge, HandlerFault, Lose,
     apiVars
<1>2. ASSUME NEW w \in Worker, LoopStep(w) \/ Stop(w) \/ Crash(w)
      PROVE  UNCHANGED <<idem, rpc, task, answer, lapsed>>
  BY <1>2 DEF LoopStep, Read, Prune, Restart, Stop, Crash, apiVars
<1> QED BY <1>1, <1>2 DEF Next, Finished, vars

LEMMA KeyOfRequest ==
  ASSUME NEW r \in Request
  PROVE  FingerprintOf(r) \in Fingerprint
BY DEF FingerprintOf, Fingerprint

LEMMA GotoType ==
  ASSUME RequestTypes, NEW r \in Request,
         NEW phase \in {"idle", "lookup", "enqueue", "setQueued", "wait", "returned"},
         Goto(r, phase), phase \in {"setQueued", "wait"} => task'[r] \in Request,
         task' \in [Request -> Request \cup {None}],
         \A q \in Request \ {r} : task'[q] = task[q],
         answer' \in [Request -> Request \cup {None, "error", "timeout"}]
  PROVE  RequestTypes'
<1>1. rpc' = [rpc EXCEPT ![r] = phase]
  BY DEF Goto
<1>2. ASSUME NEW q \in Request, rpc'[q] \in {"setQueued", "wait"}
      PROVE  task'[q] \in Request
  BY <1>1, <1>2 DEF RequestTypes
<1> QED BY <1>1, <1>2 DEF RequestTypes

LEMMA StepRequestTypes ==
  ASSUME RequestTypes, RedisTypes, WorkerTypes, [Next]_vars
  PROVE  RequestTypes'
<1> DEFINE phases == {"idle", "lookup", "enqueue", "setQueued", "wait", "returned"}
<1> DEFINE same == task' = task /\ answer' = answer
<1>t. /\ task \in [Request -> Request \cup {None}]
      /\ answer \in [Request -> Request \cup {None, "error", "timeout"}]
  BY DEF RequestTypes
<1>1. ASSUME NEW r \in Request, Acquire(r)
      PROVE  RequestTypes'
  <2>1. PICK phase \in {"enqueue", "lookup"} : Goto(r, phase)
    BY <1>1 DEF Acquire
  <2>2. same
    BY <1>1 DEF Acquire
  <2> QED BY <1>t, <2>1, <2>2, GotoType
<1>2. ASSUME NEW r \in Request, Lookup(r)
      PROVE  RequestTypes'
  <2>1. idem[FingerprintOf(r)] \in Request \cup {None} /\ answer' = answer
    BY <1>2, KeyOfRequest DEF Lookup, RedisTypes
  <2>2. CASE idem[FingerprintOf(r)] = None
    <3>1. Goto(r, "enqueue") /\ task' = task
      BY <1>2, <2>2 DEF Lookup
    <3> QED BY <1>t, <2>1, <3>1, GotoType
  <2>3. CASE idem[FingerprintOf(r)] # None
    <3>1. Accepted(r) /\ task' = [task EXCEPT ![r] = idem[FingerprintOf(r)]]
      BY <1>2, <2>3 DEF Lookup
    <3>2. PICK phase \in {"wait", "returned"} : Goto(r, phase)
      BY <3>1 DEF Accepted
    <3>3. task'[r] \in Request /\ task' \in [Request -> Request \cup {None}]
          /\ \A q \in Request \ {r} : task'[q] = task[q]
      BY <1>t, <2>1, <2>3, <3>1
    <3> QED BY <1>t, <2>1, <3>2, <3>3, GotoType
  <2> QED BY <2>2, <2>3
<1>3. ASSUME NEW r \in Request, Enqueue(r)
      PROVE  RequestTypes'
  <2>1. Goto(r, "setQueued") /\ task' = [task EXCEPT ![r] = r] /\ answer' = answer
    BY <1>3 DEF Enqueue
  <2>2. task' \in [Request -> Request \cup {None}]
        /\ \A q \in Request \ {r} : task'[q] = task[q]
    BY <1>t, <2>1
  <2> QED BY <1>t, <2>1, <2>2, GotoType
<1>4. ASSUME NEW r \in Request, SetQueued(r)
      PROVE  RequestTypes'
  <2>1. PICK phase \in {"wait", "returned"} : Goto(r, phase)
    BY <1>4 DEF SetQueued, Accepted
  <2>2. same /\ task[r] \in Request
    BY <1>4 DEF SetQueued, RequestTypes
  <2> QED BY <1>t, <2>1, <2>2, GotoType
<1>5. ASSUME NEW r \in Request, Poll(r) \/ GiveUp(r)
      PROVE  RequestTypes'
  <2>1. PICK a \in Request \cup {"error", "timeout"} : Returned(r, a)
    BY <1>5 DEF Poll, GiveUp, RequestTypes
  <2>2. task' = task
    BY <1>5 DEF Poll, GiveUp
  <2>3. Goto(r, "returned") /\ answer' = [answer EXCEPT ![r] = a]
    BY <2>1 DEF Returned
  <2>4. answer' \in [Request -> Request \cup {None, "error", "timeout"}]
    BY <1>t, <2>3
  <2> QED BY <1>t, <2>2, <2>3, <2>4, GotoType
<1>6. ASSUME NEW r \in Request, RequestFault(r)
      PROVE  RequestTypes'
  <2>1. CASE Goto(r, "enqueue") /\ UNCHANGED answer
    <3>1. task' = task
      BY <1>6 DEF RequestFault
    <3> QED BY <1>t, <2>1, <3>1, GotoType
  <2>2. CASE Returned(r, "error")
    <3>1. task' = task
      BY <1>6 DEF RequestFault
    <3>2. Goto(r, "returned") /\ answer' = [answer EXCEPT ![r] = "error"]
      BY <2>2 DEF Returned
    <3>3. answer' \in [Request -> Request \cup {None, "error", "timeout"}]
      BY <1>t, <3>2
    <3> QED BY <1>t, <3>1, <3>2, <3>3, GotoType
  <2> QED BY <1>6, <2>1, <2>2 DEF RequestFault
<1>7. ASSUME NEW t \in Request, Deliver(t)
      PROVE  RequestTypes'
  BY <1>7 DEF Deliver, RequestTypes
<1>8. ASSUME UNCHANGED <<rpc, task, answer>>
      PROVE  RequestTypes'
  BY <1>8 DEF RequestTypes
<1>9. ASSUME NEW f \in Fingerprint, Expire(f)
      PROVE  RequestTypes'
  BY <1>8, <1>9 DEF Expire, apiVars
<1> QED
  BY <1>1, <1>2, <1>3, <1>4, <1>5, <1>6, <1>7, <1>8, <1>9, WorkersKeep DEF RequestStep

LEMMA StepRedisTypes ==
  ASSUME RequestTypes, RedisTypes, WorkerTypes, [Next]_vars
  PROVE  RedisTypes'
<1> USE DEF RedisTypes
<1>1. ASSUME NEW r \in Request, Acquire(r) \/ Lookup(r)
      PROVE  RedisTypes'
  BY <1>1, KeyOfRequest DEF Acquire, Lookup
<1>2. ASSUME NEW r \in Request, Enqueue(r)
      PROVE  RedisTypes'
  BY <1>2 DEF Enqueue
<1>3. ASSUME NEW r \in Request, SetQueued(r)
      PROVE  RedisTypes'
  BY <1>3 DEF SetQueued, SetStatus
<1>4. ASSUME NEW r \in Request, Poll(r) \/ GiveUp(r) \/ RequestFault(r)
      PROVE  RedisTypes'
  BY <1>4 DEF Poll, GiveUp, RequestFault
<1>5. ASSUME NEW t \in Request, Deliver(t) \/ Lose(t) \/ Work(t)
      PROVE  RedisTypes'
  BY <1>5 DEF Deliver, Lose, Work
<1>6. ASSUME NEW t \in Request, Start(t) \/ Record(t) \/ MarkFailed(t)
      PROVE  RedisTypes'
  BY <1>6 DEF Start, Record, MarkFailed, SetStatus
<1>7. ASSUME NEW t \in Request, Ack(t) \/ Judge(t) \/ HandlerFault(t)
      PROVE  RedisTypes'
  BY <1>7 DEF Ack, Judge, HandlerFault
<1>8. ASSUME NEW w \in Worker, Read(w)
      PROVE  RedisTypes'
  BY <1>8, ReadMoves, TakenInStream DEF Read
<1>9. ASSUME NEW w \in Worker, Prune(w) \/ Restart(w) \/ Stop(w) \/ Crash(w)
      PROVE  RedisTypes'
  BY <1>9 DEF Prune, Restart, Stop, Crash
<1>10. ASSUME NEW f \in Fingerprint, Expire(f)
       PROVE  RedisTypes'
  BY <1>10 DEF Expire
<1>11. CASE UNCHANGED vars
  BY <1>11 DEF vars
<1> QED
  BY <1>1, <1>2, <1>3, <1>4, <1>5, <1>6, <1>7, <1>8, <1>9, <1>10, <1>11
     DEF Next, RequestStep, HandlerStep, LoopStep, Finished

LEMMA StepWorkerTypes ==
  ASSUME RequestTypes, RedisTypes, WorkerTypes, [Next]_vars
  PROVE  WorkerTypes'
<1> USE QueueAssumption DEF WorkerTypes, workerVars
<1>1. ASSUME NEW r \in Request, Acquire(r) \/ RequestStep(r)
      PROVE  WorkerTypes'
  BY <1>1 DEF Acquire, RequestStep, Lookup, Enqueue, SetQueued, Poll, GiveUp
<1>2. ASSUME NEW r \in Request, RequestFault(r)
      PROVE  WorkerTypes'
  BY <1>2, KeyOfRequest DEF RequestFault, Fault
<1>3. ASSUME NEW t \in Request, Deliver(t)
      PROVE  WorkerTypes'
  BY <1>3 DEF Deliver
<1>4. ASSUME NEW t \in Request, Start(t)
      PROVE  WorkerTypes'
  BY <1>4 DEF Start, Handler
<1>5. ASSUME NEW t \in Request, Work(t) \/ Record(t) \/ Ack(t) \/ MarkFailed(t)
      PROVE  WorkerTypes'
  BY <1>5 DEF Work, Record, Ack, MarkFailed, Handler
<1>6. ASSUME NEW t \in Request, Judge(t)
      PROVE  WorkerTypes'
  BY <1>6 DEF Judge, Handler
<1>7. ASSUME NEW t \in Request, HandlerFault(t)
      PROVE  WorkerTypes'
  <2>1. AfterFault(hpc[t]) \in {"mark", "judge", "over"}
    BY <1>7 DEF HandlerFault, AfterFault
  <2> QED BY <1>7, <2>1 DEF HandlerFault, Fault, Handler
<1>8. ASSUME NEW t \in Request, Lose(t)
      PROVE  WorkerTypes'
  BY <1>8 DEF Lose, Fault
<1>9. ASSUME NEW w \in Worker, Read(w)
      PROVE  WorkerTypes'
  <2>1. Taken(w) \subseteq Request /\ IsFiniteSet(Taken(w))
    BY <1>9, TakenInStream, TakenFinite
  <2>2. IsFiniteSet(flight[w] \cup Taken(w))
    BY <2>1, FS_Union
  <2> QED BY <1>9, <2>1, <2>2 DEF Read
<1>10. ASSUME NEW w \in Worker, Prune(w) \/ Restart(w)
       PROVE  WorkerTypes'
  <2>1. IsFiniteSet(flight[w] \ Over(w)) /\ IsFiniteSet({})
    BY FS_Subset, FS_EmptySet
  <2> QED BY <1>10, <2>1 DEF Prune, Restart
<1>11. ASSUME NEW w \in Worker, Stop(w)
       PROVE  WorkerTypes'
  BY <1>11 DEF Stop, Fault
<1>12. ASSUME NEW w \in Worker, Crash(w)
       PROVE  WorkerTypes'
  BY <1>12, FS_EmptySet DEF Crash, Fault
<1>13. ASSUME NEW f \in Fingerprint, Expire(f)
       PROVE  WorkerTypes'
  BY <1>13 DEF Expire, Fault
<1>14. CASE UNCHANGED vars
  BY <1>14 DEF vars
<1> QED
  BY <1>1, <1>2, <1>3, <1>4, <1>5, <1>6, <1>7, <1>8, <1>9, <1>10, <1>11, <1>12, <1>13,
     <1>14 DEF Next, HandlerStep, LoopStep, Finished

-----------------------------------------------------------------------------
(* Keys *)

(* A step that adds no sender, touches no key and keeps what has lapsed.   *)
LEMMA KeyedKept ==
  ASSUME Keyed, RedisTypes, idem' = idem, lapsed \subseteq lapsed',
         \A r \in Request :
           /\ rpc'[r] = rpc[r] \/ rpc'[r] \notin {"idle", "lookup", "enqueue"}
           /\ task'[r] = r => task[r] = r \/ rpc[r] = "enqueue"
  PROVE  Keyed'
BY KeyOfRequest DEF Keyed, RedisTypes

LEMMA KeyedStep ==
  ASSUME QueueInv, [Next]_vars
  PROVE  Keyed'
<1> USE DEF QueueInv
<1>1. ASSUME NEW r \in Request, Acquire(r)
      PROVE  Keyed'
  BY <1>1, KeyOfRequest, QueueAssumption
     DEF Acquire, Keyed, Submitted, RequestTypes, RedisTypes, Goto
<1>2. ASSUME NEW r \in Request, Lookup(r)
      PROVE  Keyed'
  BY <1>2, KeyOfRequest, QueueAssumption
     DEF Lookup, Keyed, Submitted, RequestTypes, RedisTypes, Goto, Accepted
<1>3. ASSUME NEW r \in Request, Enqueue(r) \/ SetQueued(r) \/ Poll(r) \/ GiveUp(r)
      PROVE  Keyed'
  BY <1>3, KeyedKept
     DEF Enqueue, SetQueued, Poll, GiveUp, RequestTypes, Goto, Accepted, Returned
<1>4. ASSUME NEW r \in Request, RequestFault(r)
      PROVE  Keyed'
  BY <1>4, KeyOfRequest DEF RequestFault, Keyed, RequestTypes, RedisTypes, Goto, Returned
<1>5. ASSUME NEW t \in Request, Deliver(t)
      PROVE  Keyed'
  BY <1>5, KeyedKept DEF Deliver, RequestTypes
<1>6. ASSUME NEW f \in Fingerprint, Expire(f)
      PROVE  Keyed'
  BY <1>6 DEF Expire, Keyed, RedisTypes, apiVars
<1>7. ASSUME UNCHANGED <<idem, rpc, task, lapsed>>
      PROVE  Keyed'
  BY <1>7, KeyedKept
<1> QED
  BY <1>1, <1>2, <1>3, <1>4, <1>5, <1>6, <1>7, WorkersKeep DEF RequestStep

-----------------------------------------------------------------------------
(* Streams *)

LEMMA AppendFacts ==
  ASSUME NEW s \in Seq(Request), NEW r \in Request
  PROVE  /\ DOMAIN s = 1..Len(s) /\ Len(s) \in Nat
         /\ DOMAIN Append(s, r) = 1..(Len(s) + 1)
         /\ \A i \in 1..Len(s) : Append(s, r)[i] = s[i]
         /\ Append(s, r)[Len(s) + 1] = r
OBVIOUS

(* A new entry is the last of one stream; the others are as they were.     *)
LEMMA EnqueueAppends ==
  ASSUME RedisTypes, NEW r \in Request, Enqueue(r)
  PROVE  \E p \in Stream :
           /\ \A q \in Stream \ {p} : unread'[q] = unread[q]
           /\ DOMAIN unread[p] \subseteq DOMAIN unread'[p]
           /\ \A i \in DOMAIN unread[p] : unread'[p][i] = unread[p][i]
           /\ \A i, j \in DOMAIN unread'[p] \ DOMAIN unread[p] : i = j /\ unread'[p][i] = r
           /\ r \in Range(unread'[p])
<1>1. PICK p \in Stream : unread' = [unread EXCEPT ![p] = Append(@, r)]
  BY DEF Enqueue
<1>2. unread \in [Stream -> Seq(Request)] /\ unread[p] \in Seq(Request)
  BY DEF RedisTypes
<1>3. unread'[p] = Append(unread[p], r) /\ \A q \in Stream \ {p} : unread'[q] = unread[q]
  BY <1>1, <1>2
<1> DEFINE n == Len(unread[p])
<1>4. /\ n \in Nat /\ DOMAIN unread[p] = 1..n /\ DOMAIN unread'[p] = 1..(n + 1)
      /\ \A i \in 1..n : unread'[p][i] = unread[p][i]
      /\ unread'[p][n + 1] = r
  BY <1>2, <1>3, AppendFacts
<1> HIDE DEF n
<1>5. \A i \in 1..(n + 1) : i \in 1..n \/ i = n + 1
  BY <1>4
<1>6. 1..n \subseteq 1..(n + 1) /\ n + 1 \in 1..(n + 1)
  BY <1>4
<1>7. r \in Range(unread'[p])
  BY <1>4, <1>6 DEF Range
<1> QED BY <1>3, <1>4, <1>5, <1>6, <1>7

LEMMA EnqueueInStream ==
  ASSUME RedisTypes, NEW r \in Request, Enqueue(r)
  PROVE  \A t \in Request : InStream(t)' <=> InStream(t) \/ t = r
BY EnqueueAppends DEF InStream, Range

LEMMA ReadInStream ==
  ASSUME RedisTypes, WorkerTypes, NEW w \in Worker, Read(w)
  PROVE  \A t \in Request :
           /\ InStream(t)' => InStream(t)
           /\ InStream(t) => InStream(t)' \/ t \in Taken(w)
BY ReadMoves DEF InStream, Range

(* The steps that move no entry. *)
LEMMA StreamsKeep ==
  ASSUME [Next]_vars
  PROVE  \/ \E r \in Request : Enqueue(r)
         \/ \E w \in Worker : Read(w)
         \/ unread' = unread
<1>1. ASSUME NEW r \in Request, Acquire(r) \/ RequestStep(r) \/ RequestFault(r)
      PROVE  Enqueue(r) \/ unread' = unread
  BY <1>1 DEF Acquire, RequestStep, Lookup, SetQueued, Poll, GiveUp, RequestFault
<1>2. ASSUME NEW t \in Request, HandlerStep(t) \/ HandlerFault(t) \/ Deliver(t) \/ Lose(t)
      PROVE  unread' = unread
  BY <1>2 DEF HandlerStep, Start, Work, Record, Ack, MarkFailed, Judge, HandlerFault, Deliver,
     Lose
<1>3. ASSUME NEW w \in Worker, LoopStep(w) \/ Stop(w) \/ Crash(w)
      PROVE  Read(w) \/ unread' = unread
  BY <1>3 DEF LoopStep, Prune, Restart, Stop, Crash
<1>4. ASSUME NEW f \in Fingerprint, Expire(f)
      PROVE  unread' = unread
  BY <1>4 DEF Expire
<1> QED BY <1>1, <1>2, <1>3, <1>4 DEF Next, Finished, vars

-----------------------------------------------------------------------------
(* Submission *)

LEMMA StillNotInStream ==
  ASSUME unread' = unread
  PROVE  \A t : InStream(t)' <=> InStream(t)
BY DEF InStream, Range

(* A step that moves no entry and no task, and begins no work.             *)
LEMMA SubmittedKept ==
  ASSUME Submitted, RequestTypes, task' = task, unread' = unread,
         \A r \in Request :
           /\ rpc'[r] = rpc[r] \/ rpc'[r] \in {"wait", "returned"}
                \/ rpc[r] \in {"idle", "lookup"}
           /\ hpc'[r] # "none" \/ turns'[r] > 0 => hpc[r] # "none" \/ turns[r] > 0
  PROVE  Submitted'
<1>1. \A t \in Request : InStream(t)' <=> InStream(t)
  BY StillNotInStream
<1> QED BY <1>1 DEF Submitted, FingerprintOf

LEMMA SubmittedStep ==
  ASSUME QueueInv, [Next]_vars
  PROVE  Submitted'
<1> USE DEF QueueInv
<1>1. ASSUME NEW r \in Request, Acquire(r)
      PROVE  Submitted'
  <2>1. task' = task /\ unread' = unread /\ hpc' = hpc /\ turns' = turns
    BY <1>1 DEF Acquire, workerVars
  <2>2. \A q \in Request : rpc'[q] = rpc[q] \/ rpc[q] \in {"idle", "lookup"}
    BY <1>1 DEF Acquire, Goto, RequestTypes
  <2> QED BY <2>1, <2>2, SubmittedKept
<1>2. ASSUME NEW r \in Request, Lookup(r)
      PROVE  Submitted'
  <2>1. unread' = unread /\ hpc' = hpc /\ turns' = turns /\ rpc[r] = "lookup"
    BY <1>2 DEF Lookup, workerVars
  <2>2. \A q \in Request \ {r} : rpc'[q] = rpc[q]
    BY <1>2 DEF Lookup, Goto, Accepted, RequestTypes
  <2>3. CASE idem[FingerprintOf(r)] = None
    <3>1. task' = task
      BY <1>2, <2>3 DEF Lookup
    <3> QED BY <2>1, <2>2, <3>1, SubmittedKept
  <2>4. CASE idem[FingerprintOf(r)] # None
    <3> DEFINE previous == idem[FingerprintOf(r)]
    <3>1. task' = [task EXCEPT ![r] = previous]
      BY <1>2, <2>4 DEF Lookup
    <3>2. previous \in Request /\ FingerprintOf(previous) = FingerprintOf(r) /\ previous # r
      BY <2>1, <2>4, KeyOfRequest DEF Keyed, RedisTypes
    <3>3. task[r] # r /\ ~InStream(r) /\ hpc[r] = "none" /\ ~(turns[r] > 0)
      BY <2>1 DEF Submitted
    <3>4. \A q \in Request \ {r} : task'[q] = task[q]
      BY <3>1 DEF RequestTypes
    <3>5. task'[r] = previous
      BY <3>1 DEF RequestTypes
    <3>6. \A q \in Request : task'[q] \in Request => FingerprintOf(task'[q]) = FingerprintOf(q)
      BY <3>2, <3>4, <3>5 DEF Submitted
    <3>7. \A q \in Request : task'[q] = q => rpc'[q] \in {"setQueued", "wait", "returned"}
      BY <2>2, <3>2, <3>4, <3>5 DEF Submitted
    <3>8. \A q \in Request : InStream(q)' \/ hpc'[q] # "none" \/ turns'[q] > 0 => task'[q] = q
      BY <2>1, <3>3, <3>4, StillNotInStream DEF Submitted
    <3> QED BY <3>6, <3>7, <3>8 DEF Submitted, FingerprintOf
  <2> QED BY <2>3, <2>4
<1>3. ASSUME NEW r \in Request, Enqueue(r)
      PROVE  Submitted'
  <2>1. /\ task' = [task EXCEPT ![r] = r] /\ rpc' = [rpc EXCEPT ![r] = "setQueued"]
        /\ hpc' = hpc /\ turns' = turns
    BY <1>3 DEF Enqueue, Goto, workerVars
  <2>2. \A t \in Request : InStream(t)' <=> InStream(t) \/ t = r
    BY <1>3, EnqueueInStream
  <2> QED BY <2>1, <2>2 DEF Submitted, RequestTypes, FingerprintOf
<1>4. ASSUME NEW r \in Request, SetQueued(r) \/ Poll(r) \/ GiveUp(r) \/ RequestFault(r)
      PROVE  Submitted'
  <2>1. task' = task /\ unread' = unread /\ hpc' = hpc /\ turns' = turns
    BY <1>4 DEF SetQueued, Poll, GiveUp, RequestFault, workerVars
  <2>2. \A q \in Request : rpc'[q] = rpc[q] \/ rpc'[q] \in {"wait", "returned"}
          \/ rpc[q] \in {"idle", "lookup"}
    BY <1>4 DEF SetQueued, Poll, GiveUp, RequestFault, Accepted, Returned, Goto, RequestTypes
  <2> QED BY <2>1, <2>2, SubmittedKept
<1>5. ASSUME NEW t \in Request, Deliver(t)
      PROVE  Submitted'
  <2>1. task' = task /\ unread' = unread /\ hpc' = hpc /\ turns' = turns
    BY <1>5 DEF Deliver, workerVars
  <2>2. \A q \in Request : rpc'[q] = rpc[q] \/ rpc'[q] = "returned"
    BY <1>5 DEF Deliver, RequestTypes
  <2> QED BY <2>1, <2>2, SubmittedKept
<1>6. ASSUME NEW t \in Request, HandlerStep(t) \/ HandlerFault(t) \/ Lose(t)
      PROVE  Submitted'
  <2>1. task' = task /\ unread' = unread /\ rpc' = rpc
    BY <1>6 DEF HandlerStep, Start, Work, Record, Ack, MarkFailed, Judge, HandlerFault, Lose,
       apiVars
  <2>2. \A q \in Request \ {t} : hpc'[q] = hpc[q] /\ turns'[q] = turns[q]
    BY <1>6 DEF HandlerStep, Start, Work, Record, Ack, MarkFailed, Judge, HandlerFault, Lose,
       Handler, workerVars, WorkerTypes
  <2>3. hpc[t] # "none" \/ (hpc'[t] = hpc[t] /\ turns'[t] = turns[t])
    BY <1>6 DEF HandlerStep, Start, Work, Record, Ack, MarkFailed, Judge, HandlerFault, Lose,
       workerVars
  <2> QED BY <2>1, <2>2, <2>3, SubmittedKept
<1>7. ASSUME NEW w \in Worker, Read(w)
      PROVE  Submitted'
  <2>1. task' = task /\ rpc' = rpc /\ turns' = turns
        /\ \A t \in Request : hpc'[t] = IF t \in Taken(w) THEN "start" ELSE hpc[t]
    BY <1>7 DEF Read, apiVars
  <2>2. \A t \in Request : t \in Taken(w) \/ InStream(t)' => InStream(t)
    BY <1>7, TakenInStream, ReadInStream
  <2> QED BY <2>1, <2>2 DEF Submitted, FingerprintOf
<1>8. ASSUME NEW w \in Worker, Prune(w) \/ Restart(w) \/ Stop(w) \/ Crash(w)
      PROVE  Submitted'
  <2>1. task' = task /\ unread' = unread /\ rpc' = rpc /\ turns' = turns
    BY <1>8 DEF Prune, Restart, Stop, Crash, apiVars
  <2>2. \A t \in Request : hpc'[t] = hpc[t] \/ hpc'[t] = "none"
    BY <1>8 DEF Prune, Restart, Stop, Crash, WorkerTypes
  <2> QED BY <2>1, <2>2, SubmittedKept
<1>9. ASSUME UNCHANGED <<task, rpc, unread, hpc, turns>>
      PROVE  Submitted'
  BY <1>9, SubmittedKept
<1>10. ASSUME NEW f \in Fingerprint, Expire(f)
       PROVE  Submitted'
  BY <1>9, <1>10 DEF Expire, apiVars, workerVars
<1> QED
  BY <1>1, <1>2, <1>3, <1>4, <1>5, <1>6, <1>7, <1>8, <1>9, <1>10
     DEF Next, RequestStep, LoopStep, Finished, vars

-----------------------------------------------------------------------------
(* One turn *)

(* A step that moves no entry and begins no work.                          *)
LEMMA OnceKept ==
  ASSUME Once, unread' = unread, turns' = turns,
         \A t \in Request : /\ hpc'[t] = "start" => hpc[t] = "start"
                            /\ hpc[t] = "none" => hpc'[t] = "none"
  PROVE  Once'
<1>1. \A t \in Request : InStream(t)' <=> InStream(t)
  BY StillNotInStream
<1>2. Apart'
  BY DEF Once, Apart
<1>3. ASSUME NEW t \in Request, InStream(t)'
      PROVE  hpc'[t] = "none" /\ turns'[t] = 0
  <2>1. InStream(t)
    BY <1>1, <1>3
  <2> QED BY <2>1 DEF Once
<1>4. \A t \in Request : hpc'[t] = "start" => turns'[t] = 0
  BY DEF Once
<1>5. \A t \in Request : turns'[t] <= 1
  BY DEF Once
<1> QED BY <1>2, <1>3, <1>4, <1>5 DEF Once

LEMMA OnceStep ==
  ASSUME QueueInv, [Next]_vars
  PROVE  Once'
<1> USE DEF QueueInv
<1>1. ASSUME NEW r \in Request, Enqueue(r)
      PROVE  Once'
  <2>1. hpc' = hpc /\ turns' = turns /\ rpc[r] = "enqueue"
    BY <1>1 DEF Enqueue, workerVars
  <2>2. task[r] # r /\ ~InStream(r) /\ hpc[r] = "none" /\ ~(turns[r] > 0)
    BY <2>1 DEF Submitted
  <2>3. turns[r] = 0
    BY <2>2 DEF WorkerTypes
  <2>4. \A t \in Request : InStream(t)' <=> InStream(t) \/ t = r
    BY <1>1, EnqueueInStream
  <2>5. PICK p \in Stream :
           /\ \A q \in Stream \ {p} : unread'[q] = unread[q]
           /\ \A i \in DOMAIN unread[p] : unread'[p][i] = unread[p][i]
           /\ \A i, j \in DOMAIN unread'[p] \ DOMAIN unread[p] : i = j /\ unread'[p][i] = r
    BY <1>1, EnqueueAppends
  <2>6. \A q \in Stream : \A i \in DOMAIN unread[q] : unread[q][i] # r
    BY <2>2 DEF InStream, Range
  <2>7. ASSUME NEW q1 \in Stream, NEW q2 \in Stream, NEW i \in DOMAIN unread'[q1],
               NEW j \in DOMAIN unread'[q2], unread'[q1][i] = unread'[q2][j]
        PROVE  q1 = q2 /\ i = j
    <3>1. CASE unread'[q1][i] = r
      <4>1. ASSUME NEW q \in Stream, NEW k \in DOMAIN unread'[q], unread'[q][k] = r
            PROVE  q = p /\ k \notin DOMAIN unread[p]
        BY <2>5, <2>6, <4>1
      <4>2. q1 = p /\ i \notin DOMAIN unread[p]
        BY <3>1, <4>1
      <4>3. q2 = p /\ j \notin DOMAIN unread[p]
        BY <2>7, <3>1, <4>1
      <4> QED BY <2>5, <4>2, <4>3
    <3>2. CASE unread'[q1][i] # r
      <4>1. i \in DOMAIN unread[q1] /\ unread'[q1][i] = unread[q1][i]
        BY <2>5, <3>2
      <4>2. j \in DOMAIN unread[q2] /\ unread'[q2][j] = unread[q2][j]
        BY <2>5, <2>7, <3>2
      <4>3. unread[q1][i] = unread[q2][j]
        BY <2>7, <4>1, <4>2
      <4> QED BY <4>1, <4>2, <4>3 DEF Once, Apart
    <3> QED BY <3>1, <3>2
  <2>8. Apart'
    BY <2>7 DEF Apart
  <2> QED BY <2>1, <2>2, <2>3, <2>4, <2>8 DEF Once
<1>2. ASSUME NEW w \in Worker, Read(w)
      PROVE  Once'
  <2> DEFINE n(p) == Batch(w, p)
  <2>1. \A p \in Stream : n(p) \in Nat
    BY BatchBounds DEF RedisTypes
  <2>2. \A p \in Stream : unread'[p] \in Seq(Request)
    BY <1>2, ReadMoves
  <2>3. \A p \in Stream : \A i \in DOMAIN unread'[p] :
          i \in Nat \ {0} /\ i + n(p) \in DOMAIN unread[p]
            /\ unread'[p][i] = unread[p][i + n(p)]
    <3>1. \A p \in Stream : \A i \in DOMAIN unread'[p] : i \in Nat \ {0}
      BY <2>2
    <3> QED BY <1>2, <3>1, ReadMoves
  <2>4. \A t \in Taken(w) : \E p \in Stream : \E i \in 1..n(p) :
          i \in DOMAIN unread[p] /\ t = unread[p][i]
    BY <1>2, ReadMoves
  <2>5. turns' = turns
        /\ \A t \in Request : hpc'[t] = IF t \in Taken(w) THEN "start" ELSE hpc[t]
    BY <1>2 DEF Read
  <2> HIDE DEF n
  <2>6. ASSUME NEW t \in Taken(w)
        PROVE  ~InStream(t)'
    <3>p. PICK p \in Stream : \E i \in 1..n(p) : i \in DOMAIN unread[p] /\ t = unread[p][i]
      BY <2>4
    <3>1. PICK i \in 1..n(p) : i \in DOMAIN unread[p] /\ t = unread[p][i]
      BY <3>p
    <3>2. ASSUME NEW q \in Stream, NEW j \in DOMAIN unread'[q], t = unread'[q][j]
          PROVE  FALSE
      <4>0. j + n(q) \in DOMAIN unread[q] /\ unread[p][i] = unread[q][j + n(q)]
        BY <2>3, <3>1, <3>2
      <4>1. p = q /\ i = j + n(q)
        BY <3>1, <4>0 DEF Once, Apart
      <4>2. n(q) \in Nat /\ j \in Nat \ {0} /\ i \in 1..n(q)
        BY <2>1, <2>3, <3>1, <4>1
      <4> QED BY <4>1, <4>2
    <3> QED BY <3>2 DEF InStream, Range
  <2>7. ASSUME NEW p \in Stream, NEW q \in Stream, NEW i \in DOMAIN unread'[p],
               NEW j \in DOMAIN unread'[q], unread'[p][i] = unread'[q][j]
        PROVE  p = q /\ i = j
    <3>0. /\ i + n(p) \in DOMAIN unread[p] /\ j + n(q) \in DOMAIN unread[q]
          /\ unread[p][i + n(p)] = unread[q][j + n(q)]
      BY <2>3, <2>7
    <3>1. p = q /\ i + n(p) = j + n(q)
      BY <3>0 DEF Once, Apart
    <3>2. n(p) \in Nat /\ i \in Nat /\ j \in Nat
      BY <2>1, <2>3
    <3> QED BY <3>1, <3>2
  <2>8. \A t \in Request : InStream(t)' => InStream(t) /\ t \notin Taken(w)
    BY <1>2, <2>6, ReadInStream
  <2>9. \A t \in Taken(w) : t \in Request /\ turns[t] = 0
    BY <1>2, TakenInStream DEF Once
  <2>10. Apart'
    BY <2>7 DEF Apart
  <2> QED BY <2>5, <2>8, <2>9, <2>10 DEF Once
<1>3. ASSUME NEW t \in Request, Start(t)
      PROVE  Once'
  <2>1. unread' = unread /\ hpc[t] = "start"
        /\ turns' = [turns EXCEPT ![t] = @ + 1] /\ hpc' = [hpc EXCEPT ![t] = "work"]
    BY <1>3 DEF Start, Handler
  <2>2. \A q \in Request : InStream(q)' <=> InStream(q)
    BY <2>1, StillNotInStream
  <2>3. turns[t] = 0 /\ ~InStream(t)
    BY <2>1 DEF Once
  <2>4. Apart'
    BY <2>1 DEF Once, Apart
  <2> QED BY <2>1, <2>2, <2>3, <2>4 DEF Once, WorkerTypes
<1>4. ASSUME NEW t \in Request, Work(t) \/ Record(t) \/ Ack(t) \/ MarkFailed(t) \/ Judge(t)
      PROVE  Once'
  <2>1. unread' = unread /\ turns' = turns
    BY <1>4 DEF Work, Record, Ack, MarkFailed, Judge
  <2>2. \A q \in Request : /\ hpc'[q] = "start" => hpc[q] = "start"
                           /\ hpc[q] = "none" => hpc'[q] = "none"
    BY <1>4 DEF Work, Record, Ack, MarkFailed, Judge, Handler, WorkerTypes
  <2> QED BY <2>1, <2>2, OnceKept
<1>5. ASSUME NEW t \in Request, HandlerFault(t)
      PROVE  Once'
  <2>1. unread' = unread /\ turns' = turns
    BY <1>5 DEF HandlerFault
  <2>2. AfterFault(hpc[t]) \in {"mark", "judge", "over"}
    BY <1>5 DEF HandlerFault, AfterFault
  <2>3. \A q \in Request : /\ hpc'[q] = "start" => hpc[q] = "start"
                           /\ hpc[q] = "none" => hpc'[q] = "none"
    BY <1>5, <2>2 DEF HandlerFault, Handler, WorkerTypes
  <2> QED BY <2>1, <2>3, OnceKept
<1>6. ASSUME NEW w \in Worker, Prune(w) \/ Restart(w) \/ Stop(w) \/ Crash(w)
      PROVE  Once'
  <2>1. unread' = unread /\ turns' = turns
    BY <1>6 DEF Prune, Restart, Stop, Crash
  <2>2. \A t \in Request : hpc'[t] = hpc[t] \/ hpc'[t] = "none"
    BY <1>6 DEF Prune, Restart, Stop, Crash
  <2> QED BY <2>1, <2>2, OnceKept
<1>7. ASSUME UNCHANGED <<unread, hpc, turns>>
      PROVE  Once'
  BY <1>7, OnceKept
<1>8. ASSUME NEW r \in Request, Acquire(r) \/ Lookup(r) \/ SetQueued(r) \/ Poll(r)
                              \/ GiveUp(r) \/ RequestFault(r)
      PROVE  Once'
  BY <1>7, <1>8 DEF Acquire, Lookup, SetQueued, Poll, GiveUp, RequestFault, workerVars
<1>9. ASSUME NEW t \in Request, Deliver(t) \/ Lose(t)
      PROVE  Once'
  BY <1>7, <1>9 DEF Deliver, Lose, workerVars
<1>10. ASSUME NEW f \in Fingerprint, Expire(f)
       PROVE  Once'
  BY <1>7, <1>10 DEF Expire, workerVars
<1> QED
  BY <1>1, <1>2, <1>3, <1>4, <1>5, <1>6, <1>7, <1>8, <1>9, <1>10
     DEF Next, RequestStep, HandlerStep, LoopStep, Finished, vars

-----------------------------------------------------------------------------
(* Work and answers *)

LEMMA WorkedKept ==
  ASSUME Worked, finished \subseteq finished', dead \subseteq dead', wire' \subseteq wire,
         \A t \in Request :
           /\ hpc'[t] \in {"record", "ack", "drop"} => hpc'[t] = hpc[t]
           /\ status'[t] = "done" => status[t] = "done"
  PROVE  Worked'
BY DEF Worked

LEMMA WorkedStep ==
  ASSUME QueueInv, [Next]_vars
  PROVE  Worked'
<1> USE DEF QueueInv
<1>1. ASSUME NEW r \in Request, Acquire(r) \/ RequestStep(r) \/ RequestFault(r)
      PROVE  Worked'
  <2>1. finished' = finished /\ dead' = dead /\ wire' = wire /\ hpc' = hpc
    BY <1>1 DEF Acquire, RequestStep, Lookup, Enqueue, SetQueued, Poll, GiveUp, RequestFault,
       workerVars
  <2>2. status' = status \/ status' = [status EXCEPT ![r] = "queued"]
    BY <1>1 DEF Acquire, RequestStep, Lookup, Enqueue, SetQueued, Poll, GiveUp, RequestFault,
       SetStatus
  <2>3. \A t \in Request : status'[t] = "done" => status[t] = "done"
    BY <2>2 DEF RedisTypes
  <2> QED BY <2>1, <2>3, WorkedKept
<1>2. ASSUME NEW t \in Request, Deliver(t) \/ Lose(t)
      PROVE  Worked'
  BY <1>2, WorkedKept DEF Deliver, Lose, workerVars
<1>3. ASSUME NEW t \in Request, Start(t) \/ MarkFailed(t)
      PROVE  Worked'
  <2>1. finished' = finished /\ dead' = dead /\ wire' = wire
    BY <1>3 DEF Start, MarkFailed
  <2>2. \A q \in Request : /\ hpc'[q] \in {"record", "ack", "drop"} => hpc'[q] = hpc[q]
                           /\ status'[q] = "done" => status[q] = "done"
    BY <1>3 DEF Start, MarkFailed, SetStatus, Handler, RedisTypes, WorkerTypes
  <2> QED BY <2>1, <2>2, WorkedKept
<1>4. ASSUME NEW t \in Request, Work(t)
      PROVE  Worked'
  BY <1>4 DEF Work, Handler, Worked, WorkerTypes
<1>5. ASSUME NEW t \in Request, Record(t)
      PROVE  Worked'
  BY <1>5 DEF Record, SetStatus, Handler, Worked, RedisTypes, WorkerTypes
<1>6. ASSUME NEW t \in Request, Ack(t)
      PROVE  Worked'
  <2>1. finished' = finished /\ dead' = dead /\ wire' = wire /\ status' = status
    BY <1>6 DEF Ack
  <2>2. \A q \in Request : hpc'[q] \in {"record", "ack", "drop"} => hpc'[q] = hpc[q]
    BY <1>6 DEF Ack, Handler, WorkerTypes
  <2> QED BY <2>1, <2>2, WorkedKept
<1>7. ASSUME NEW t \in Request, Judge(t)
      PROVE  Worked'
  BY <1>7 DEF Judge, Handler, Worked, WorkerTypes
<1>8. ASSUME NEW t \in Request, HandlerFault(t)
      PROVE  Worked'
  <2>1. AfterFault(hpc[t]) \in {"mark", "judge", "over"}
    BY <1>8 DEF HandlerFault, AfterFault
  <2>2. \A q \in Request : hpc'[q] \in {"record", "ack", "drop"} => hpc'[q] = hpc[q]
    BY <1>8, <2>1 DEF HandlerFault, Handler, WorkerTypes
  <2> QED BY <1>8, <2>2, WorkedKept DEF HandlerFault
<1>9. ASSUME NEW w \in Worker, LoopStep(w) \/ Stop(w) \/ Crash(w)
      PROVE  Worked'
  <2>1. finished' = finished /\ dead' = dead /\ wire' = wire /\ status' = status
    BY <1>9 DEF LoopStep, Read, Prune, Restart, Stop, Crash
  <2>2. \A t \in Request : hpc'[t] = hpc[t] \/ hpc'[t] \in {"start", "none"}
    BY <1>9 DEF LoopStep, Read, Prune, Restart, Stop, Crash
  <2> QED BY <2>1, <2>2, WorkedKept
<1>10. ASSUME NEW f \in Fingerprint, Expire(f)
       PROVE  Worked'
  BY <1>10, WorkedKept DEF Expire, workerVars
<1>11. CASE UNCHANGED vars
  BY <1>11, WorkedKept DEF vars
<1> QED
  BY <1>1, <1>2, <1>3, <1>4, <1>5, <1>6, <1>7, <1>8, <1>9, <1>10, <1>11
     DEF Next, HandlerStep, Finished

(* What is finished stays finished, so that only a new answer can be wrong. *)
LEMMA FinishedGrows ==
  ASSUME [Next]_vars
  PROVE  finished \subseteq finished'
<1>1. ASSUME NEW r \in Request, Acquire(r) \/ RequestStep(r) \/ RequestFault(r)
      PROVE  finished' = finished
  BY <1>1 DEF Acquire, RequestStep, Lookup, Enqueue, SetQueued, Poll, GiveUp, RequestFault
<1>2. ASSUME NEW t \in Request, HandlerStep(t) \/ HandlerFault(t) \/ Deliver(t) \/ Lose(t)
      PROVE  finished \subseteq finished'
  BY <1>2 DEF HandlerStep, Start, Work, Record, Ack, MarkFailed, Judge, HandlerFault, Deliver,
     Lose
<1>3. ASSUME NEW w \in Worker, LoopStep(w) \/ Stop(w) \/ Crash(w)
      PROVE  finished' = finished
  BY <1>3 DEF LoopStep, Read, Prune, Restart, Stop, Crash
<1>4. ASSUME NEW f \in Fingerprint, Expire(f)
      PROVE  finished' = finished
  BY <1>4 DEF Expire
<1> QED BY <1>1, <1>2, <1>3, <1>4 DEF Next, Finished, vars

LEMMA AnswerStep ==
  ASSUME QueueInv, [Next]_vars
  PROVE  AnswerOfSession'
<1> USE DEF QueueInv
<1>1. finished \subseteq finished'
  BY FinishedGrows
<1>2. ASSUME NEW r \in Request, Poll(r)
      PROVE  AnswerOfSession'
  <2>1. \A q \in Request \ {r} : answer'[q] = answer[q]
    BY <1>2 DEF Poll, Returned, RequestTypes
  <2>2. task[r] \in Request /\ FingerprintOf(task[r]) = FingerprintOf(r)
    BY <1>2 DEF Poll, RequestTypes, Submitted
  <2>3. CASE status[task[r]] = "done" /\ Returned(r, task[r])
    <3>1. answer'[r] = task[r] /\ task[r] \in finished
      BY <2>2, <2>3 DEF Returned, RequestTypes, Worked
    <3> QED BY <1>1, <2>1, <2>2, <3>1 DEF AnswerOfSession, FingerprintOf
  <2>4. CASE Returned(r, "error")
    <3>1. answer'[r] \notin Request
      BY <2>4, QueueAssumption DEF Returned, RequestTypes
    <3> QED BY <1>1, <2>1, <3>1 DEF AnswerOfSession
  <2> QED BY <1>2, <2>3, <2>4 DEF Poll
<1>3. ASSUME NEW r \in Request, GiveUp(r) \/ RequestFault(r)
      PROVE  AnswerOfSession'
  <2>1. /\ \A q \in Request \ {r} : answer'[q] = answer[q]
        /\ answer'[r] = answer[r] \/ answer'[r] \in {"error", "timeout"}
    BY <1>3 DEF GiveUp, RequestFault, Returned, RequestTypes
  <2> QED BY <1>1, <2>1, QueueAssumption DEF AnswerOfSession
<1>4. ASSUME NEW t \in Request, Deliver(t)
      PROVE  AnswerOfSession'
  <2>1. t \in finished
    BY <1>4 DEF Deliver, Worked
  <2>2. \A q \in Request :
          \/ answer'[q] = answer[q]
          \/ answer'[q] = t /\ SessionOf[q] = SessionOf[t]
    BY <1>4 DEF Deliver
  <2> QED BY <1>1, <2>1, <2>2 DEF AnswerOfSession
<1>5. ASSUME answer' = answer
      PROVE  AnswerOfSession'
  BY <1>1, <1>5 DEF AnswerOfSession
<1>6. ASSUME NEW r \in Request, Acquire(r) \/ Lookup(r) \/ Enqueue(r) \/ SetQueued(r)
      PROVE  AnswerOfSession'
  BY <1>5, <1>6 DEF Acquire, Lookup, Enqueue, SetQueued
<1>7. ASSUME NEW f \in Fingerprint, Expire(f)
      PROVE  AnswerOfSession'
  BY <1>5, <1>7 DEF Expire, apiVars
<1> QED BY <1>2, <1>3, <1>4, <1>5, <1>6, <1>7, WorkersKeep DEF RequestStep

-----------------------------------------------------------------------------
(* Entries *)

Somewhere(t) == InStream(t) \/ t \in pending \cup dead \cup finished

LEMMA SomewhereIsSafe == NoTaskVanishes <=> \A t \in Request : task[t] = t => Somewhere(t)
BY DEF NoTaskVanishes, Enqueued, Somewhere, InStream

LEMMA SomewhereIsSafeNext ==
  ASSUME \A t \in Request : task'[t] = t => Somewhere(t)'
  PROVE  NoTaskVanishes'
BY DEF NoTaskVanishes, Enqueued, Somewhere, InStream

(* A step that acknowledges nothing and sends nothing.                     *)
LEMMA EntriesKept ==
  ASSUME NoTaskVanishes, unread' = unread, pending \subseteq pending', dead \subseteq dead',
         finished \subseteq finished', \A t \in Request : task'[t] = t => task[t] = t
  PROVE  NoTaskVanishes'
<1>1. \A t \in Request : task[t] = t => Somewhere(t)
  BY SomewhereIsSafe
<1>2. \A t : InStream(t)' <=> InStream(t)
  BY StillNotInStream
<1>3. \A t \in Request : task'[t] = t => Somewhere(t)'
  BY <1>1, <1>2 DEF Somewhere
<1> QED BY <1>3, SomewhereIsSafeNext

LEMMA EntriesStep ==
  ASSUME QueueInv, [Next]_vars
  PROVE  NoTaskVanishes'
<1> USE DEF QueueInv
<1>0. \A t \in Request : task[t] = t => Somewhere(t)
  BY SomewhereIsSafe
<1>1. ASSUME NEW r \in Request, Lookup(r)
      PROVE  NoTaskVanishes'
  <2>1. /\ unread' = unread /\ pending' = pending /\ dead' = dead /\ finished' = finished
        /\ rpc[r] = "lookup"
    BY <1>1 DEF Lookup
  <2>2. \A q \in Request : task'[q] = task[q] \/ (q = r /\ task'[q] = idem[FingerprintOf(r)]
                                                /\ idem[FingerprintOf(r)] # None)
    BY <1>1 DEF Lookup, RequestTypes
  <2>3. idem[FingerprintOf(r)] # None => idem[FingerprintOf(r)] # r
    BY <2>1, KeyOfRequest DEF Keyed
  <2> QED BY <2>1, <2>2, <2>3, EntriesKept
<1>2. ASSUME NEW r \in Request, Enqueue(r)
      PROVE  NoTaskVanishes'
  <2>1. /\ pending' = pending /\ dead' = dead /\ finished' = finished
        /\ task' = [task EXCEPT ![r] = r]
    BY <1>2 DEF Enqueue
  <2>2. \A t \in Request : InStream(t)' <=> InStream(t) \/ t = r
    BY <1>2, EnqueueInStream
  <2>3. \A t \in Request : task'[t] = t => task[t] = t \/ t = r
    BY <2>1 DEF RequestTypes
  <2>4. \A t \in Request : task'[t] = t => Somewhere(t)'
    BY <1>0, <2>1, <2>2, <2>3 DEF Somewhere
  <2> QED BY <2>4, SomewhereIsSafeNext
<1>3. ASSUME NEW r \in Request, Acquire(r) \/ SetQueued(r) \/ Poll(r) \/ GiveUp(r)
                              \/ RequestFault(r) \/ Deliver(r) \/ Lose(r)
      PROVE  NoTaskVanishes'
  BY <1>3, EntriesKept DEF Acquire, SetQueued, Poll, GiveUp, RequestFault, Deliver, Lose, apiVars
<1>4. ASSUME NEW w \in Worker, Read(w)
      PROVE  NoTaskVanishes'
  <2>1. /\ pending' = pending \cup Taken(w) /\ dead' = dead /\ finished' = finished
        /\ task' = task
    BY <1>4 DEF Read, apiVars
  <2>2. \A t \in Request : InStream(t) => InStream(t)' \/ t \in Taken(w)
    BY <1>4, ReadInStream
  <2>3. \A t \in Request : task'[t] = t => Somewhere(t)'
    BY <1>0, <2>1, <2>2 DEF Somewhere
  <2> QED BY <2>3, SomewhereIsSafeNext
<1>5. ASSUME NEW w \in Worker, Prune(w) \/ Restart(w) \/ Stop(w) \/ Crash(w)
      PROVE  NoTaskVanishes'
  BY <1>5, EntriesKept DEF Prune, Restart, Stop, Crash, apiVars
<1>6. ASSUME NEW t \in Request, Ack(t)
      PROVE  NoTaskVanishes'
  <2>1. /\ unread' = unread /\ pending' = pending \ {t} /\ dead' = dead
        /\ finished' = finished /\ task' = task
    BY <1>6 DEF Ack, apiVars
  <2>2. t \in dead \cup finished
    BY <1>6 DEF Ack, Worked
  <2>3. \A q : InStream(q)' <=> InStream(q)
    BY <2>1, StillNotInStream
  <2>4. \A q \in Request : task'[q] = q => Somewhere(q)'
    BY <1>0, <2>1, <2>2, <2>3 DEF Somewhere
  <2> QED BY <2>4, SomewhereIsSafeNext
<1>7. ASSUME NEW t \in Request, Start(t) \/ Work(t) \/ Record(t) \/ MarkFailed(t)
                              \/ Judge(t) \/ HandlerFault(t)
      PROVE  NoTaskVanishes'
  BY <1>7, EntriesKept DEF Start, Work, Record, MarkFailed, Judge, HandlerFault, apiVars
<1>8. ASSUME NEW f \in Fingerprint, Expire(f)
      PROVE  NoTaskVanishes'
  BY <1>8, EntriesKept DEF Expire, apiVars
<1>9. CASE UNCHANGED vars
  BY <1>9, EntriesKept DEF vars
<1> QED
  BY <1>1, <1>2, <1>3, <1>4, <1>5, <1>6, <1>7, <1>8, <1>9
     DEF Next, RequestStep, HandlerStep, LoopStep, Finished

-----------------------------------------------------------------------------
(* Theorems *)

LEMMA InvInit == Init => QueueInv
<1> SUFFICES ASSUME Init PROVE QueueInv
  OBVIOUS
<1> USE QueueAssumption DEF Init
<1>1. RequestTypes /\ RedisTypes
  BY DEF RequestTypes, RedisTypes
<1>2. WorkerTypes
  BY FS_EmptySet DEF WorkerTypes
<1>3. \A t : ~InStream(t)
  BY DEF InStream, Range
<1>4. Keyed /\ Submitted
  BY <1>3, KeyOfRequest DEF Keyed, Submitted
<1>5. Once
  BY <1>3 DEF Once, Apart
<1>6. Worked /\ AnswerOfSession /\ NoTaskVanishes
  BY DEF Worked, AnswerOfSession, NoTaskVanishes, Enqueued
<1> QED BY <1>1, <1>2, <1>4, <1>5, <1>6 DEF QueueInv

LEMMA InvStep == QueueInv /\ [Next]_vars => QueueInv'
<1> SUFFICES ASSUME QueueInv, [Next]_vars PROVE QueueInv'
  OBVIOUS
<1>1. RequestTypes' /\ RedisTypes' /\ WorkerTypes'
  BY StepRequestTypes, StepRedisTypes, StepWorkerTypes DEF QueueInv
<1> QED
  BY <1>1, KeyedStep, SubmittedStep, OnceStep, WorkedStep, AnswerStep, EntriesStep DEF QueueInv

LEMMA InvAlways == Spec => []QueueInv
BY InvInit, InvStep, PTL DEF Spec

(* Every variable has its type, and a request that waits has a task.       *)
THEOREM QueueTypeCorrect == Spec => []TypeOK
<1>1. QueueInv => TypeOK
  BY TypeParts DEF QueueInv
<1> QED BY <1>1, InvAlways, PTL

(* However often a question is submitted and whatever fails, no task has a *)
(* second turn, and a question whose key has not lapsed has one at most.   *)
THEOREM TurnsAreUnique == Spec => []OneTurnPerQuestion
<1>1. QueueInv => OneTurnPerQuestion
  <2> SUFFICES ASSUME QueueInv PROVE OneTurnPerQuestion
    OBVIOUS
  <2>1. \A t \in Request : turns[t] <= 1
    BY DEF QueueInv, Once
  <2>2. ASSUME NEW t \in Request, NEW u \in Request, turns[t] > 0, turns[u] > 0,
               FingerprintOf(t) = FingerprintOf(u), FingerprintOf(t) \notin lapsed
        PROVE  t = u
    <3>1. task[t] = t /\ task[u] = u
      BY <2>2 DEF QueueInv, Submitted
    <3>2. idem[FingerprintOf(t)] = t /\ idem[FingerprintOf(u)] = u
      BY <2>2, <3>1 DEF QueueInv, Keyed
    <3> QED BY <2>2, <3>2
  <2> QED BY <2>1, <2>2 DEF OneTurnPerQuestion
<1> QED BY <1>1, InvAlways, PTL

(* A text that is returned is of a finished turn of the own session.       *)
THEOREM AnswersFit == Spec => []AnswerOfSession
<1>1. QueueInv => AnswerOfSession
  BY DEF QueueInv
<1> QED BY <1>1, InvAlways, PTL

(* A submitted task is in a stream, pending, dead or finished.             *)
THEOREM TasksAreKept == Spec => []NoTaskVanishes
<1>1. QueueInv => NoTaskVanishes
  BY DEF QueueInv
<1> QED BY <1>1, InvAlways, PTL

-----------------------------------------------------------------------------
(* Load *)

FlightCapped == \A w \in Worker : Cardinality(flight[w]) <= Concurrency

(* From one stream a worker takes no more than it has room for.            *)
LEMMA TakenFits ==
  ASSUME NEW p, Stream = {p}, RedisTypes, WorkerTypes, NEW w \in Worker
  PROVE  Cardinality(Taken(w)) \in Nat /\ Cardinality(Taken(w)) <= Free(w)
<1> DEFINE batch == SubSeq(unread[p], 1, Batch(w, p))
<1>1. Taken(w) = Range(batch)
  BY DEF Taken
<1>2. unread[p] \in Seq(Request) /\ Batch(w, p) \in 0..Len(unread[p]) /\ Batch(w, p) <= Free(w)
  BY BatchBounds DEF RedisTypes
<1>3. batch \in Seq(Request) /\ Len(batch) = Batch(w, p)
  BY <1>2, Parts
<1>4. IsFiniteSet(Range(batch)) /\ Cardinality(Range(batch)) <= Batch(w, p)
  BY <1>3, RangeFinite
<1>5. Cardinality(Taken(w)) \in Nat
  BY <1>1, <1>4, FS_CardinalityType
<1>6. Free(w) \in Nat /\ Batch(w, p) \in Nat
  BY BatchBounds, <1>2
<1> QED BY <1>1, <1>2, <1>4, <1>5, <1>6

LEMMA FlightStep ==
  ASSUME NEW p, Stream = {p}, RedisTypes, WorkerTypes, FlightCapped, [Next]_vars
  PROVE  FlightCapped'
<1> USE DEF FlightCapped
<1>1. ASSUME NEW w \in Worker, Read(w)
      PROVE  FlightCapped'
  <2>1. flight' = [flight EXCEPT ![w] = @ \cup Taken(w)]
    BY <1>1 DEF Read
  <2>2. IsFiniteSet(flight[w]) /\ Cardinality(flight[w]) \in Nat
    BY FS_CardinalityType DEF WorkerTypes
  <2>3. IsFiniteSet(Taken(w)) /\ Cardinality(Taken(w)) \in Nat
        /\ Cardinality(Taken(w)) <= Free(w)
    BY TakenFinite, TakenFits
  <2>4. Cardinality(flight[w]) + Free(w) <= Concurrency /\ Free(w) \in Nat
    BY <2>2, BatchBounds, QueueAssumption DEF Free
  <2>5. Cardinality(flight[w] \cap Taken(w)) \in Nat
    BY <2>2, FS_Subset, FS_CardinalityType
  <2>6. Cardinality(flight[w] \cup Taken(w))
          = Cardinality(flight[w]) + Cardinality(Taken(w)) - Cardinality(flight[w] \cap Taken(w))
    BY <2>2, <2>3, FS_Union
  <2>7. Cardinality(flight[w] \cup Taken(w)) <= Concurrency
    BY <2>2, <2>3, <2>4, <2>5, <2>6, QueueAssumption
  <2> QED BY <2>1, <2>7 DEF WorkerTypes
<1>2. ASSUME NEW w \in Worker, Prune(w) \/ Restart(w) \/ Crash(w)
      PROVE  FlightCapped'
  <2>1. /\ \A v \in Worker \ {w} : flight'[v] = flight[v]
        /\ flight'[w] \subseteq flight[w]
    BY <1>2 DEF Prune, Restart, Crash, WorkerTypes
  <2>2. IsFiniteSet(flight[w]) /\ Cardinality(flight[w]) \in Nat
    BY FS_CardinalityType DEF WorkerTypes
  <2>3. Cardinality(flight'[w]) <= Cardinality(flight[w]) /\ Cardinality(flight'[w]) \in Nat
    BY <2>1, <2>2, FS_Subset, FS_CardinalityType
  <2>4. Cardinality(flight'[w]) <= Concurrency
    BY <2>2, <2>3, QueueAssumption
  <2> QED BY <2>1, <2>4
<1>3. ASSUME flight' = flight
      PROVE  FlightCapped'
  BY <1>3
<1>4. ASSUME NEW r \in Request, Acquire(r) \/ RequestStep(r) \/ RequestFault(r)
      PROVE  FlightCapped'
  BY <1>3, <1>4 DEF Acquire, RequestStep, Lookup, Enqueue, SetQueued, Poll, GiveUp,
     RequestFault, workerVars
<1>5. ASSUME NEW t \in Request, HandlerStep(t) \/ HandlerFault(t) \/ Deliver(t) \/ Lose(t)
      PROVE  FlightCapped'
  BY <1>3, <1>5 DEF HandlerStep, Start, Work, Record, Ack, MarkFailed, Judge, HandlerFault,
     Deliver, Lose, workerVars
<1>6. ASSUME NEW w \in Worker, Stop(w)
      PROVE  FlightCapped'
  BY <1>3, <1>6 DEF Stop
<1>7. ASSUME NEW f \in Fingerprint, Expire(f)
      PROVE  FlightCapped'
  BY <1>3, <1>7 DEF Expire, workerVars
<1> QED BY <1>1, <1>2, <1>3, <1>4, <1>5, <1>6, <1>7 DEF Next, LoopStep, Finished, vars

(* While one stream is in use, no worker runs more turns than it may.      *)
THEOREM LoadIsCapped == (\E p : Stream = {p}) => (Spec => []ConcurrencyCapped)
<1> SUFFICES ASSUME NEW p, Stream = {p} PROVE Spec => []ConcurrencyCapped
  OBVIOUS
<1>1. Init => FlightCapped
  BY FS_EmptySet, QueueAssumption DEF Init, FlightCapped
<1>2. QueueInv /\ FlightCapped /\ [Next]_vars => FlightCapped'
  BY FlightStep DEF QueueInv
<1>3. QueueInv /\ FlightCapped => ConcurrencyCapped
  <2> SUFFICES ASSUME QueueInv, FlightCapped, NEW w \in Worker
               PROVE  Cardinality({t \in flight[w] : Running(t)}) <= Concurrency
    BY DEF ConcurrencyCapped
  <2>1. IsFiniteSet(flight[w]) /\ Cardinality(flight[w]) <= Concurrency
    BY DEF QueueInv, WorkerTypes, FlightCapped
  <2>2. {t \in flight[w] : Running(t)} \subseteq flight[w]
    OBVIOUS
  <2>3. IsFiniteSet({t \in flight[w] : Running(t)})
        /\ Cardinality({t \in flight[w] : Running(t)}) <= Cardinality(flight[w])
    BY <2>1, <2>2, FS_Subset
  <2>4. /\ Cardinality(flight[w]) \in Nat
        /\ Cardinality({t \in flight[w] : Running(t)}) \in Nat
    BY <2>1, <2>3, FS_CardinalityType
  <2> QED BY <2>1, <2>3, <2>4, QueueAssumption
<1> QED BY <1>1, <1>2, <1>3, InvAlways, PTL DEF Spec

=============================================================================
