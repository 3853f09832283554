----------------------------- MODULE IntentQueue -----------------------------
(***************************************************************************)
(* Intents on their way from the API process to a worker and back: the     *)
(* idempotency key and the two Redis streams (_enqueue), the consume loop  *)
(* of RedisStreamTaskQueue with its handlers (worker.handle), the task     *)
(* status, and the two ways a waiting request learns its result            *)
(* (_await_result).                                                        *)
(*                                                                         *)
(* A request has the name of the task id it generates.  Every awaited      *)
(* Redis call is an action of its own; between two of them anything else   *)
(* may run, in this process or in another.                                 *)
(***************************************************************************)
EXTENDS Integers, Sequences, FiniteSets, Functions

CONSTANTS
  Request,        \* HTTP requests, and the task ids they generate
  SessionOf,      \* the shopping session of a request
  QueryOf,        \* what it asks
  Sync,           \* the requests that wait for the text; others return the id
  Stream,         \* the streams in use: a subset of {"normal", "large"}
  Worker,
  Concurrency,    \* worker_concurrency
  MaxDeliveries,  \* max_deliveries
  Faults,         \* subset of {"redis", "crash", "loss", "stop", "expire"}
  MaxFaults,      \* bound: faults of all kinds together
  None

ASSUME QueueAssumption ==
  /\ Sync \subseteq Request
  /\ Stream \subseteq {"normal", "large"}
  /\ Concurrency \in Nat \ {0}
  /\ MaxDeliveries \in Nat \ {0}
  /\ Faults \subseteq {"redis", "crash", "loss", "stop", "expire"}
  /\ MaxFaults \in Nat
  /\ Request \cap {None, "error", "timeout"} = {}

VARIABLES
  (* Redis *)
  idem,       \* idem[f]: the task id stored for fingerprint f, or None
  unread,     \* unread[p]: entries of stream p the group has not been given
  pending,    \* entries given to a consumer and not acknowledged
  dead,       \* entries of the dead-letter stream
  status,     \* status[t]: the task status, "none" before it is written
  (* the API process *)
  rpc,        \* the call each request makes next
  task,       \* the task id it got from _enqueue
  answer,     \* the task whose text it returned, "error" or "timeout"
  wire,       \* tasks whose final.result event is on its way
  (* the worker processes *)
  flight,     \* flight[w]: in_flight, which may hold handlers that are over
  hpc,        \* the call the handler of each entry makes next
  stopping,   \* stopping[w]: SIGTERM has arrived
  (* bound and history *)
  faults,
  turns,      \* turns[t]: agent turns begun for t
  finished,   \* tasks whose agent turn has run to its end
  lapsed      \* fingerprints whose key expired or was not read or written

apiVars == <<rpc, task, answer>>
workerVars == <<flight, hpc, stopping>>
vars == <<idem, unread, pending, dead, status, rpc, task, answer, wire, flight,
          hpc, stopping, faults, turns, finished, lapsed>>

Fingerprint == {<<SessionOf[r], QueryOf[r]>> : r \in Request}
FingerprintOf(r) == <<SessionOf[r], QueryOf[r]>>
Minimum(m, n) == IF m < n THEN m ELSE n

Init ==
  /\ idem = [f \in Fingerprint |-> None]
  /\ unread = [p \in Stream |-> <<>>]
  /\ pending = {} /\ dead = {}
  /\ status = [t \in Request |-> "none"]
  /\ rpc = [r \in Request |-> "idle"]
  /\ task = [r \in Request |-> None]
  /\ answer = [r \in Request |-> None]
  /\ wire = {}
  /\ flight = [w \in Worker |-> {}]
  /\ hpc = [t \in Request |-> "none"]
  /\ stopping = [w \in Worker |-> FALSE]
  /\ faults = 0
  /\ turns = [t \in Request |-> 0]
  /\ finished = {}
  /\ lapsed = {}

Fault(kind) ==
  /\ kind \in Faults
  /\ faults < MaxFaults
  /\ faults' = faults + 1

Goto(r, phase) == rpc' = [rpc EXCEPT ![r] = phase]
Handler(t, phase) == hpc' = [hpc EXCEPT ![t] = phase]
SetStatus(t, state) == status' = [status EXCEPT ![t] = state]

Returned(r, a) ==
  /\ Goto(r, "returned")
  /\ answer' = [answer EXCEPT ![r] = a]

(* _enqueue is over: the synchronous endpoint goes on to _await_result. *)
Accepted(r) == Goto(r, IF r \in Sync THEN "wait" ELSE "returned")

-----------------------------------------------------------------------------
(* _enqueue: the idempotency key, the stream entry, the status *)

(* Mutant: SET without NX. *)
AcquireAlways(r) ==
  /\ rpc[r] = "idle"
  /\ idem' = [idem EXCEPT ![FingerprintOf(r)] = r]
  /\ Goto(r, "enqueue")
  /\ UNCHANGED <<unread, pending, dead, status, task, answer, wire, workerVars,
                 faults, turns, finished, lapsed>>

(* set_if_absent *)
Acquire(r) ==
  /\ rpc[r] = "idle"
  /\ IF idem[FingerprintOf(r)] = None
       THEN idem' = [idem EXCEPT ![FingerprintOf(r)] = r] /\ Goto(r, "enqueue")
       ELSE idem' = idem /\ Goto(r, "lookup")
  /\ UNCHANGED <<unread, pending, dead, status, task, answer, wire, workerVars,
                 faults, turns, finished, lapsed>>

(* Mutant: the key is taken to be there still. *)
LookupUnchecked(r) ==
  /\ rpc[r] = "lookup"
  /\ task' = [task EXCEPT ![r] = idem[FingerprintOf(r)]]
  /\ Accepted(r)
  /\ UNCHANGED <<idem, unread, pending, dead, status, answer, wire, workerVars,
                 faults, turns, finished, lapsed>>

(* get_raw: a hit reuses the task; a key that has expired is no hit. *)
Lookup(r) ==
  /\ rpc[r] = "lookup"
  /\ LET previous == idem[FingerprintOf(r)] IN
       IF previous # None
         THEN Accepted(r) /\ task' = [task EXCEPT ![r] = previous]
         ELSE Goto(r, "enqueue") /\ task' = task
  /\ UNCHANGED <<idem, unread, pending, dead, status, answer, wire, workerVars,
                 faults, turns, finished, lapsed>>

(* xadd to the stream _queue_priority chooses.  The turn counter behind it *)
(* is a heuristic: any stream in use may be chosen.                        *)
Enqueue(r) ==
  /\ rpc[r] = "enqueue"
  /\ \E p \in Stream : unread' = [unread EXCEPT ![p] = Append(@, r)]
  /\ task' = [task EXCEPT ![r] = r]
  /\ Goto(r, "setQueued")
  /\ UNCHANGED <<idem, pending, dead, status, answer, wire, workerVars, faults,
                 turns, finished, lapsed>>

SetQueued(r) ==
  /\ rpc[r] = "setQueued"
  /\ SetStatus(r, "queued")
  /\ Accepted(r)
  /\ UNCHANGED <<idem, unread, pending, dead, task, answer, wire, workerVars,
                 faults, turns, finished, lapsed>>

-----------------------------------------------------------------------------
(* _await_result *)

(* No event for two seconds: get_status decides. *)
Poll(r) ==
  /\ rpc[r] = "wait"
  /\ \/ status[task[r]] = "done" /\ Returned(r, task[r])
     \/ status[task[r]] = "failed" /\ Returned(r, "error")
  /\ UNCHANGED <<idem, unread, pending, dead, status, task, wire, workerVars,
                 faults, turns, finished, lapsed>>

(* Mutant: no deadline; the request waits until the task has a result. *)
GiveUpOnFailure(r) ==
  /\ rpc[r] = "wait"
  /\ status[task[r]] = "failed"
  /\ Returned(r, "timeout")
  /\ UNCHANGED <<idem, unread, pending, dead, status, task, wire, workerVars,
                 faults, turns, finished, lapsed>>

(* queue_wait_seconds have passed. *)
GiveUp(r) ==
  /\ rpc[r] = "wait"
  /\ Returned(r, "timeout")
  /\ UNCHANGED <<idem, unread, pending, dead, status, task, wire, workerVars,
                 faults, turns, finished, lapsed>>

(* Mutant: events are handed to every subscriber. *)
DeliverToAll(t) ==
  LET Waiting == {r \in Request : rpc[r] = "wait"} IN
  /\ t \in wire
  /\ wire' = wire \ {t}
  /\ rpc' = [r \in Request |-> IF r \in Waiting THEN "returned" ELSE rpc[r]]
  /\ answer' = [r \in Request |-> IF r \in Waiting THEN t ELSE answer[r]]
  /\ UNCHANGED <<idem, unread, pending, dead, status, task, workerVars, faults,
                 turns, finished, lapsed>>

(* The backplane hands a final.result to every subscriber of the session.  *)
(* Pub/Sub keeps nothing for a request that subscribes later.              *)
Deliver(t) ==
  LET Waiting == {r \in Request : rpc[r] = "wait" /\ SessionOf[r] = SessionOf[t]} IN
  /\ t \in wire
  /\ wire' = wire \ {t}
  /\ rpc' = [r \in Request |-> IF r \in Waiting THEN "returned" ELSE rpc[r]]
  /\ answer' = [r \in Request |-> IF r \in Waiting THEN t ELSE answer[r]]
  /\ UNCHANGED <<idem, unread, pending, dead, status, task, workerVars, faults,
                 turns, finished, lapsed>>

-----------------------------------------------------------------------------
(* RedisStreamTaskQueue.consume *)

(* Mutant: the handlers in flight are not counted. *)
FreeIgnoringFlight(w) == Concurrency

Free(w) ==
  IF Cardinality(flight[w]) < Concurrency
    THEN Concurrency - Cardinality(flight[w]) ELSE 0

(* What xreadgroup returns from one stream: COUNT is a limit per stream. *)
Batch(w, p) == Minimum(Free(w), Len(unread[p]))

Taken(w) == UNION {Range(SubSeq(unread[p], 1, Batch(w, p))) : p \in Stream}

(* Mutant: the group is read with NOACK. *)
ReadNoAck(w) ==
  /\ ~stopping[w]
  /\ Taken(w) # {}
  /\ unread' = [p \in Stream |-> SubSeq(unread[p], Batch(w, p) + 1, Len(unread[p]))]
  /\ flight' = [flight EXCEPT ![w] = @ \cup Taken(w)]
  /\ hpc' = [t \in Request |-> IF t \in Taken(w) THEN "start" ELSE hpc[t]]
  /\ UNCHANGED <<idem, pending, dead, status, apiVars, wire, stopping, faults,
                 turns, finished, lapsed>>

(* xreadgroup with ">", then one handler task for each entry. *)
Read(w) ==
  /\ ~stopping[w]
  /\ Taken(w) # {}
  /\ unread' = [p \in Stream |-> SubSeq(unread[p], Batch(w, p) + 1, Len(unread[p]))]
  /\ pending' = pending \cup Taken(w)
  /\ flight' = [flight EXCEPT ![w] = @ \cup Taken(w)]
  /\ hpc' = [t \in Request |-> IF t \in Taken(w) THEN "start" ELSE hpc[t]]
  /\ UNCHANGED <<idem, dead, status, apiVars, wire, stopping, faults, turns, finished,
                 lapsed>>

Over(w) == {t \in flight[w] : hpc[t] = "over"}

(* Mutant: a full worker never looks at its handlers again. *)
PruneWhenQuiet(w) ==
  /\ ~stopping[w]
  /\ Over(w) # {}
  /\ \A p \in Stream : unread[p] = <<>>
  /\ Free(w) > 0
  /\ flight' = [flight EXCEPT ![w] = @ \ Over(w)]
  /\ UNCHANGED <<idem, unread, pending, dead, status, apiVars, wire, hpc, stopping,
                 faults, turns, finished, lapsed>>

(* in_flight is cleaned when no slot is free, or the read times out. *)
Prune(w) ==
  /\ ~stopping[w]
  /\ Over(w) # {}
  /\ Free(w) = 0 \/ \A p \in Stream : unread[p] = <<>>
  /\ flight' = [flight EXCEPT ![w] = @ \ Over(w)]
  /\ UNCHANGED <<idem, unread, pending, dead, status, apiVars, wire, hpc, stopping,
                 faults, turns, finished, lapsed>>

(* SIGTERM: no more reads; the process ends when its handlers are over *)
(* and is started again under a new consumer name.                     *)
Stop(w) ==
  /\ Fault("stop")
  /\ ~stopping[w]
  /\ stopping' = [stopping EXCEPT ![w] = TRUE]
  /\ UNCHANGED <<idem, unread, pending, dead, status, apiVars, wire, flight, hpc,
                 turns, finished, lapsed>>

Restart(w) ==
  /\ stopping[w]
  /\ Over(w) = flight[w]
  /\ stopping' = [stopping EXCEPT ![w] = FALSE]
  /\ flight' = [flight EXCEPT ![w] = {}]
  /\ UNCHANGED <<idem, unread, pending, dead, status, apiVars, wire, hpc, faults,
                 turns, finished, lapsed>>

-----------------------------------------------------------------------------
(* _handle_one and worker.handle *)

Start(t) ==
  /\ hpc[t] = "start"
  /\ SetStatus(t, "running")
  /\ turns' = [turns EXCEPT ![t] = @ + 1]
  /\ Handler(t, "work")
  /\ UNCHANGED <<idem, unread, pending, dead, apiVars, wire, flight, stopping,
                 faults, finished, lapsed>>

(* orchestrator.handle_intent returns in any case; a turn that failed      *)
(* publishes "error" instead of final.result and returns an error text.    *)
Work(t) ==
  /\ hpc[t] = "work"
  /\ finished' = finished \cup {t}
  /\ wire' \in {wire, wire \cup {t}}
  /\ Handler(t, "record")
  /\ UNCHANGED <<idem, unread, pending, dead, status, apiVars, flight, stopping,
                 faults, turns, lapsed>>

Record(t) ==
  /\ hpc[t] = "record"
  /\ SetStatus(t, "done")
  /\ Handler(t, "ack")
  /\ UNCHANGED <<idem, unread, pending, dead, apiVars, wire, flight, stopping,
                 faults, turns, finished, lapsed>>

Ack(t) ==
  /\ hpc[t] \in {"ack", "drop"}
  /\ pending' = pending \ {t}
  /\ Handler(t, "over")
  /\ UNCHANGED <<idem, unread, dead, status, apiVars, wire, flight, stopping,
                 faults, turns, finished, lapsed>>

MarkFailed(t) ==
  /\ hpc[t] = "mark"
  /\ SetStatus(t, "failed")
  /\ Handler(t, "judge")
  /\ UNCHANGED <<idem, unread, pending, dead, apiVars, wire, flight, stopping,
                 faults, turns, finished, lapsed>>

(* Every read asks for ">" and nothing claims a pending entry, so an entry *)
(* is delivered once and its handler runs with times_delivered = 1.        *)
TimesDelivered(t) == 1

(* The handler raised: dead letter, or stay pending. *)
Judge(t) ==
  /\ hpc[t] = "judge"
  /\ IF TimesDelivered(t) >= MaxDeliveries
       THEN dead' = dead \cup {t} /\ Handler(t, "drop")
       ELSE dead' = dead /\ Handler(t, "over")
  /\ UNCHANGED <<idem, unread, pending, status, apiVars, wire, flight, stopping,
                 faults, turns, finished, lapsed>>

-----------------------------------------------------------------------------
(* Failures *)

(* A Redis call of the API process fails.  The idempotency calls go on as  *)
(* if there were no key; xadd and the status calls answer with an error.   *)
RequestFault(r) ==
  /\ Fault("redis")
  /\ \/ rpc[r] \in {"idle", "lookup"} /\ Goto(r, "enqueue") /\ UNCHANGED answer
        /\ lapsed' = lapsed \cup {FingerprintOf(r)}
     \/ rpc[r] \in {"enqueue", "setQueued", "wait"} /\ Returned(r, "error")
        /\ UNCHANGED lapsed
  /\ UNCHANGED <<idem, unread, pending, dead, status, task, wire, workerVars,
                 turns, finished>>

AfterFault(phase) ==
  CASE phase = "record" -> "mark"
    [] phase \in {"start", "ack", "mark"} -> "judge"
    [] phase \in {"judge", "drop"} -> "over"

(* A Redis call of a handler fails: inside the try of worker.handle, inside *)
(* that of _handle_one, or outside both.                                    *)
HandlerFault(t) ==
  /\ Fault("redis")
  /\ hpc[t] \in {"start", "record", "ack", "mark", "judge", "drop"}
  /\ Handler(t, AfterFault(hpc[t]))
  /\ UNCHANGED <<idem, unread, pending, dead, status, apiVars, wire, flight,
                 stopping, turns, finished, lapsed>>

(* A worker process dies and is started again. *)
Crash(w) ==
  /\ Fault("crash")
  /\ hpc' = [t \in Request |->
               IF t \in flight[w] /\ hpc[t] # "over" THEN "none" ELSE hpc[t]]
  /\ flight' = [flight EXCEPT ![w] = {}]
  /\ stopping' = [stopping EXCEPT ![w] = FALSE]
  /\ UNCHANGED <<idem, unread, pending, dead, status, apiVars, wire, turns, finished,
                 lapsed>>

(* A broadcast fails: publish only logs it. *)
Lose(t) ==
  /\ Fault("loss")
  /\ t \in wire
  /\ wire' = wire \ {t}
  /\ UNCHANGED <<idem, unread, pending, dead, status, apiVars, workerVars, turns,
                 finished, lapsed>>

(* The idempotency key reaches its time to live. *)
Expire(f) ==
  /\ Fault("expire")
  /\ idem[f] # None
  /\ idem' = [idem EXCEPT ![f] = None]
  /\ lapsed' = lapsed \cup {f}
  /\ UNCHANGED <<unread, pending, dead, status, apiVars, wire, workerVars, turns,
                 finished>>

-----------------------------------------------------------------------------

RequestStep(r) ==
  Lookup(r) \/ Enqueue(r) \/ SetQueued(r) \/ Poll(r) \/ GiveUp(r)

HandlerStep(t) ==
  Start(t) \/ Work(t) \/ Record(t) \/ Ack(t) \/ MarkFailed(t) \/ Judge(t)

LoopStep(w) == Read(w) \/ Prune(w) \/ Restart(w)

(* Every request has returned and there is nothing left for a worker. *)
Finished ==
  /\ \A r \in Request : rpc[r] = "returned"
  /\ UNCHANGED vars

Next ==
  \/ \E r \in Request : Acquire(r) \/ RequestStep(r) \/ RequestFault(r)
  \/ \E t \in Request : HandlerStep(t) \/ HandlerFault(t) \/ Deliver(t) \/ Lose(t)
  \/ \E w \in Worker : LoopStep(w) \/ Stop(w) \/ Crash(w)
  \/ \E f \in Fingerprint : Expire(f)
  \/ Finished

Spec == Init /\ [][Next]_vars

(* The event loops run what is ready, a Redis call returns or raises, and *)
(* the deadline of a waiting request passes.                              *)
FairSpec ==
  /\ Spec
  /\ \A r \in Request : WF_vars(RequestStep(r)) /\ WF_vars(HandlerStep(r))
  /\ \A w \in Worker : WF_vars(Read(w)) /\ WF_vars(Prune(w)) /\ WF_vars(Restart(w))

-----------------------------------------------------------------------------
(* Properties *)

Enqueued(t) == task[t] = t
Running(t) == hpc[t] \notin {"none", "over"}

(* Every variable has its type, and a request that waits has a task to    *)
(* wait for, also when the key it hit expired between the two calls.      *)
TypeOK ==
  /\ idem \in [Fingerprint -> Request \cup {None}]
  /\ unread \in [Stream -> Seq(Request)]
  /\ pending \subseteq Request /\ dead \subseteq Request
  /\ status \in [Request -> {"none", "queued", "running", "done", "failed"}]
  /\ rpc \in [Request -> {"idle", "lookup", "enqueue", "setQueued", "wait", "returned"}]
  /\ task \in [Request -> Request \cup {None}]
  /\ \A r \in Request : rpc[r] = "wait" => task[r] \in Request
  /\ answer \in [Request -> Request \cup {None, "error", "timeout"}]
  /\ wire \subseteq Request
  /\ flight \in [Worker -> SUBSET Request]
  /\ hpc \in [Request -> {"none", "start", "work", "record", "ack", "mark", "judge",
                          "drop", "over"}]
  /\ stopping \in [Worker -> BOOLEAN]
  /\ faults \in 0..MaxFaults
  /\ turns \in [Request -> Nat]
  /\ finished \subseteq Request
  /\ lapsed \subseteq Fingerprint

(* One question is worked on at most once, however often it is submitted, *)
(* at the same time or later, and whatever worker dies: a second turn     *)
(* could place a second order.  A task never has a second turn; a second   *)
(* task for the question takes a key that expired, or a Redis error while  *)
(* the key was read or written.                                            *)
OneTurnPerQuestion ==
  /\ \A t \in Request : turns[t] <= 1
  /\ \A t, u \in Request :
       /\ turns[t] > 0 /\ turns[u] > 0
       /\ FingerprintOf(t) = FingerprintOf(u) /\ FingerprintOf(t) \notin lapsed
       => t = u

(* A submitted task is waiting in a stream, pending, finished or in the    *)
(* dead-letter stream, through crashes, shutdowns and Redis errors: only   *)
(* finished work and dead letters are acknowledged.                        *)
NoTaskVanishes ==
  \A t \in Request : Enqueued(t) =>
    \/ \E p \in Stream : t \in Range(unread[p])
    \/ t \in pending \cup dead \cup finished

(* A worker never runs more agent turns at once than its concurrency: the  *)
(* cap the load levelling rests on.  True when one stream is in use.       *)
ConcurrencyCapped ==
  \A w \in Worker : Cardinality({t \in flight[w] : Running(t)}) <= Concurrency

(* A handler that ended, or died, without acknowledging its entry. *)
Stranded(t) == t \in pending /\ hpc[t] \in {"none", "over"}

(* Every submitted task is worked on to its end, whatever else fails and   *)
(* though workers die, stop and start again: slots are handed back.  Only  *)
(* a task whose own handler was cut short is left behind.                  *)
TasksFinish ==
  \A t \in Request : Enqueued(t) ~> t \in finished \/ Stranded(t)

(* A synchronous request gets an answer, whatever dies or is lost: there   *)
(* is always the status, and the deadline.                                 *)
RequestsAnswered == \A r \in Request : rpc[r] = "wait" ~> rpc[r] = "returned"

(* An entry that was given to a worker and not acknowledged is worked on   *)
(* again, so that it ends finished or in the dead-letter stream.           *)
PendingRedelivered == \A t \in Request : t \in pending ~> t \notin pending

(* A text that a request returns is the text of a turn that has run to its *)
(* end, and of the request's own session: events are told apart by their   *)
(* session, a reused task by the fingerprint, which holds the session.     *)
AnswerOfSession ==
  \A r \in Request : answer[r] \in Request =>
    answer[r] \in finished /\ SessionOf[answer[r]] = SessionOf[r]

=============================================================================
