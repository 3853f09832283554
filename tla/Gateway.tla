------------------------------- MODULE Gateway -------------------------------
(***************************************************************************)
(* Calls of the language model through GatewayThrottle: the slot, the      *)
(* spacing of starts, retries with back-off, the fallback model, streams   *)
(* that hold their slot until they are read, and the token budget of one   *)
(* intent, whose agents share it.                                          *)
(***************************************************************************)
EXTENDS Integers, FiniteSets

CONSTANTS
  Call,            \* calls the agents of one intent make
  MaxConcurrency,  \* llm_max_concurrency
  Interval,        \* min_interval_seconds, in ticks of the clock
  MaxRetries,      \* max_transient_retries
  HasFallback,     \* a fallback model is configured
  Total,           \* total_limit of the budget; 0 turns it off
  Cost,            \* tokens a call uses when the gateway reports them
  MaxDropped       \* bound: streams dropped before their first chunk

ASSUME GatewayAssumption ==
  /\ IsFiniteSet(Call)
  /\ MaxConcurrency \in Int
  /\ Interval \in Nat
  /\ MaxRetries \in Nat
  /\ HasFallback \in BOOLEAN
  /\ Total \in Nat /\ Cost \in Nat
  /\ MaxDropped \in Nat

Slots == IF MaxConcurrency < 1 THEN 1 ELSE MaxConcurrency

VARIABLES
  pc,       \* what each call waits for
  free,     \* the value of the semaphore
  since,    \* ticks since _last_start, Interval standing for more
  wait,     \* wait[c]: what is left of the sleep in _space_out
  attempt,  \* attempt[c]: transient failures so far
  target,   \* target[c]: the model the request went to
  used,     \* TokenBudget.used
  mainUsed  \* history: the part of it the main model used

vars == <<pc, free, since, wait, attempt, target, used, mainUsed>>
budgetVars == <<used, mainUsed>>

Ended == {"done", "failed", "cancelled", "dropped"}
Phase == {"idle", "queue", "lock", "space", "upstream", "backoff", "last", "opened",
          "stream"} \cup Ended

(* The phases in which a call holds a slot; a dropped stream never ran the *)
(* finally block that would give it back.                                  *)
Held == {"lock", "space", "upstream", "backoff", "last", "opened", "stream", "dropped"}
InPhase(phases) == {c \in Call : pc[c] \in phases}

UpTo(bound, n) == IF n < bound THEN n ELSE bound

Init ==
  /\ pc = [c \in Call |-> "idle"]
  /\ free = Slots
  /\ since = Interval
  /\ wait = [c \in Call |-> 0]
  /\ attempt = [c \in Call |-> 0]
  /\ target = [c \in Call |-> "main"]
  /\ used = 0
  /\ mainUsed = 0

Goto(c, phase) == pc' = [pc EXCEPT ![c] = phase]

-----------------------------------------------------------------------------
(* TokenBudget *)

Remaining == IF used < Total THEN Total - used ELSE 0

(* Mutant: half of the budget left is still enough for the main model. *)
LenientTier ==
  CASE Total = 0             -> "main"
    [] 2 * Remaining >= Total -> "main"
    [] 5 * Remaining > Total  -> "lite"
    [] 20 * Remaining > Total -> "minimal"
    [] OTHER                 -> "fallback"

Tier ==
  CASE Total = 0             -> "main"
    [] 2 * Remaining > Total  -> "main"
    [] 5 * Remaining > Total  -> "lite"
    [] 20 * Remaining > Total -> "minimal"
    [] OTHER                 -> "fallback"

(* _charge_budget: usage that is missing or zero is not charged. *)
Charge(c, tokens) ==
  /\ used' = used + tokens
  /\ mainUsed' = IF target[c] = "main" THEN mainUsed + tokens ELSE mainUsed

-----------------------------------------------------------------------------
(* GatewayThrottle.slot *)

(* _invoke_upstream: the tier of this moment chooses the model; another    *)
(* model than main needs a fallback, and is announced on the event bus.    *)
Dispatch(c) ==
  /\ Goto(c, "upstream")
  /\ target' = [target EXCEPT ![c] =
                  IF Tier = "main" \/ ~HasFallback THEN "main" ELSE "lite"]

Request(c) ==
  /\ pc[c] = "idle"
  /\ Goto(c, "queue")
  /\ UNCHANGED <<free, since, wait, attempt, target, budgetVars>>

Acquire(c) ==
  /\ pc[c] = "queue"
  /\ free > 0
  /\ free' = free - 1
  /\ IF Interval = 0 THEN Dispatch(c) ELSE Goto(c, "lock") /\ UNCHANGED target
  /\ UNCHANGED <<since, wait, attempt, budgetVars>>

(* Mutant: no lock around the read of _last_start, the sleep and the write. *)
EnterUnlocked(c) ==
  /\ pc[c] = "lock"
  /\ wait' = [wait EXCEPT ![c] = Interval - since]
  /\ Goto(c, "space")
  /\ UNCHANGED <<free, since, attempt, target, budgetVars>>

(* The interval lock is acquired and the time left to sleep computed. *)
Enter(c) ==
  /\ pc[c] = "lock"
  /\ InPhase({"space"}) = {}
  /\ wait' = [wait EXCEPT ![c] = Interval - since]
  /\ Goto(c, "space")
  /\ UNCHANGED <<free, since, attempt, target, budgetVars>>

(* The sleep is over: _last_start is now, and the request is sent. *)
Start(c) ==
  /\ pc[c] = "space"
  /\ wait[c] = 0
  /\ since' = 0
  /\ Dispatch(c)
  /\ UNCHANGED <<free, wait, attempt, budgetVars>>

-----------------------------------------------------------------------------
(* _call_with_fallback and __call__ *)

(* Mutant: a call that fails keeps its slot. *)
FinishKeepingSlot(c, phase) ==
  /\ Goto(c, phase)
  /\ free' = IF phase = "failed" THEN free ELSE free + 1
  /\ UNCHANGED <<since, wait, attempt, target>>

(* The slot's context is left. *)
Finish(c, phase) ==
  /\ Goto(c, phase)
  /\ free' = free + 1
  /\ UNCHANGED <<since, wait, attempt, target>>

(* A response that is no stream. *)
Answer(c) ==
  /\ pc[c] \in {"upstream", "last"}
  /\ Finish(c, "done")
  /\ \E tokens \in {0, Cost} : Charge(c, tokens)

(* Mutant: the slot is released when the stream is returned. *)
OpenReleasing(c) ==
  /\ pc[c] \in {"upstream", "last"}
  /\ Finish(c, "opened")
  /\ UNCHANGED budgetVars

(* A stream: its generator takes the slot over. *)
Open(c) ==
  /\ pc[c] \in {"upstream", "last"}
  /\ Goto(c, "opened")
  /\ UNCHANGED <<free, since, wait, attempt, target, budgetVars>>

(* is_transient_error: retry after a pause, in the same slot, or ask the   *)
(* fallback model once.                                                    *)
Transient(c) ==
  /\ pc[c] = "upstream"
  /\ attempt[c] < MaxRetries \/ HasFallback
  /\ IF attempt[c] < MaxRetries
       THEN /\ attempt' = [attempt EXCEPT ![c] = @ + 1]
            /\ Goto(c, "backoff")
            /\ UNCHANGED target
       ELSE /\ target' = [target EXCEPT ![c] = "lite"]
            /\ Goto(c, "last")
            /\ UNCHANGED attempt
  /\ UNCHANGED <<free, since, wait, budgetVars>>

(* The pause is over.  The next attempt is not spaced out. *)
Retry(c) ==
  /\ pc[c] = "backoff"
  /\ Dispatch(c)
  /\ UNCHANGED <<free, since, wait, attempt, budgetVars>>

(* Any other error, or the last resort failed too. *)
Fail(c) ==
  /\ pc[c] \in {"upstream", "last"}
  /\ Finish(c, "failed")
  /\ UNCHANGED budgetVars

(* The turn is cancelled at one of the awaits. *)
Cancel(c) ==
  /\ \/ pc[c] \in Held \ {"opened", "stream", "dropped"} /\ Finish(c, "cancelled")
     \/ /\ pc[c] = "queue"
        /\ Goto(c, "cancelled")
        /\ UNCHANGED <<free, since, wait, attempt, target>>
  /\ UNCHANGED budgetVars

-----------------------------------------------------------------------------
(* _release_after_stream *)

(* The first chunk is asked for: from here on the finally block will run. *)
Read(c) ==
  /\ pc[c] = "opened"
  /\ Goto(c, "stream")
  /\ UNCHANGED <<free, since, wait, attempt, target, budgetVars>>

(* The stream is exhausted, breaks off, or is closed by its reader; the    *)
(* usage is charged if the last chunk read carries it.                     *)
Close(c) ==
  /\ pc[c] = "stream"
  /\ \E phase \in {"done", "failed", "cancelled"} : Finish(c, phase)
  /\ \E tokens \in {0, Cost} : Charge(c, tokens)

(* The reader goes away before it asks for a chunk: a generator that was   *)
(* never started has no finally block to run.                              *)
Drop(c) ==
  /\ pc[c] = "opened"
  /\ Cardinality(InPhase({"dropped"})) < MaxDropped
  /\ Goto(c, "dropped")
  /\ UNCHANGED <<free, since, wait, attempt, target, budgetVars>>

Tick ==
  /\ since < Interval \/ \E c \in Call : wait[c] > 0
  /\ since' = UpTo(Interval, since + 1)
  /\ wait' = [c \in Call |-> IF wait[c] > 0 THEN wait[c] - 1 ELSE 0]
  /\ UNCHANGED <<pc, free, attempt, target, budgetVars>>

-----------------------------------------------------------------------------

(* What the event loop and the gateway bring about for a call under way. *)
Progress(c) ==
  \/ Enter(c) \/ Start(c) \/ Answer(c) \/ Open(c) \/ Transient(c) \/ Retry(c)
  \/ Fail(c) \/ Read(c) \/ Close(c)

Finished == (\A c \in Call : pc[c] \in Ended) /\ UNCHANGED vars

Next ==
  \/ \E c \in Call :
       Request(c) \/ Acquire(c) \/ Progress(c) \/ Cancel(c) \/ Drop(c)
  \/ Tick
  \/ Finished

Spec == Init /\ [][Next]_vars

(* Time passes, the semaphore wakes who waits, a request to the gateway    *)
(* ends (the client has a timeout), and a stream is read to its end or     *)
(* closed.                                                                 *)
FairSpec ==
  /\ Spec
  /\ WF_vars(Tick)
  /\ \A c \in Call : WF_vars(Acquire(c)) /\ WF_vars(Progress(c))

-----------------------------------------------------------------------------
(* Properties *)

TypeOK ==
  /\ pc \in [Call -> Phase]
  /\ free \in 0..Slots
  /\ since \in 0..Interval
  /\ wait \in [Call -> 0..Interval]
  /\ attempt \in [Call -> 0..MaxRetries]
  /\ target \in [Call -> {"main", "lite"}]
  /\ used \in Nat /\ mainUsed \in Nat

(* Every slot is either free or held by one call, through answers,        *)
(* streams, retries, errors and cancellations: none is given back twice,  *)
(* and none is lost but by a stream that was dropped unread.  So no more  *)
(* requests than the limit are at the gateway at once.                    *)
SlotsAccounted == free + Cardinality(InPhase(Held)) = Slots

(* Two calls never start closer together than the minimum interval,       *)
(* however many wait for it at once and whoever of them is cancelled.     *)
SpacedStart == \A c \in Call : pc[c] = "space" /\ pc'[c] = "upstream" => since = Interval
StartsSpaced == [][SpacedStart]_vars

(* The main model never uses more than half of the budget and one call    *)
(* for each slot: a call charges when it ends, so the calls under way when *)
(* the half is reached come on top, but no others.                        *)
MainSpendBounded == Total > 0 /\ HasFallback => 2 * mainUsed < Total + 2 * Slots * Cost

(* Every call ends, as long as fewer streams than slots were dropped      *)
(* unread: a slot comes back from whatever ended.                         *)
CallsEnd ==
  \A c \in Call : pc[c] = "queue" ~>
    pc[c] \in Ended \/ Cardinality(InPhase({"dropped"})) >= Slots

=============================================================================
