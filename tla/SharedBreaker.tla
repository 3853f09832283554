---------------------------- MODULE SharedBreaker ----------------------------
(***************************************************************************)
(* SharedCircuitBreakerRegistry: the state of one tool in Redis, read and  *)
(* written by calls in several processes.  allow_async and                 *)
(* record_failure_async read the state, await, and write it back;          *)
(* record_success_async deletes it.                                        *)
(***************************************************************************)
EXTENDS Integers, FiniteSets

CONSTANTS Caller, Threshold, Reset,
  Faults,     \* a subset of {"redis", "expire"}
  MaxFaults,  \* bound: faults
  None        \* there is no key

ASSUME SharedAssumption ==
  /\ Threshold \in Nat \ {0}
  /\ Reset \in Nat \ {0}
  /\ Faults \subseteq {"redis", "expire"}
  /\ MaxFaults \in Nat

VARIABLES
  store,   \* the JSON value, or None
  copy,    \* copy[c]: the value c is about to write
  pc,      \* the call each caller makes next
  faults,
  streak, probe, cooling  \* history, as in CircuitBreaker

vars == <<store, copy, pc, faults, streak, probe, cooling>>

NotOpen == -1
UpTo(bound, n) == IF n < bound THEN n ELSE bound

State == [failures : 0..Threshold, age : {NotOpen} \cup 0..Reset, half : BOOLEAN]
Fresh == [failures |-> 0, age |-> NotOpen, half |-> FALSE]

ASSUME NoKeyAssumption == None \notin State

StateOf(value) == IF value = None THEN Fresh ELSE value

Init ==
  /\ store = None
  /\ copy = [c \in Caller |-> None]
  /\ pc = [c \in Caller |-> "idle"]
  /\ faults = 0
  /\ streak = 0
  /\ probe = {}
  /\ cooling = 0

Goto(c, phase) == pc' = [pc EXCEPT ![c] = phase]

(* allow_async, state read: allowed because there is nothing open. *)
AllowClosed(c) ==
  /\ pc[c] = "idle"
  /\ StateOf(store).age = NotOpen
  /\ Goto(c, "call")
  /\ UNCHANGED <<store, copy, faults, streak, probe, cooling>>

(* allow_async, state read: open, the call is answered with an error. *)
Reject(c) ==
  /\ pc[c] = "idle"
  /\ StateOf(store).age \in 0..(Reset - 1)
  /\ UNCHANGED vars

(* allow_async, state read: the cooling time is over. *)
AllowProbe(c) ==
  /\ pc[c] = "idle"
  /\ StateOf(store).age = Reset
  /\ copy' = [copy EXCEPT ![c] = [store EXCEPT !.half = TRUE]]
  /\ Goto(c, "allowSave")
  /\ UNCHANGED <<store, faults, streak, probe, cooling>>

SaveProbe(c) ==
  /\ pc[c] = "allowSave"
  /\ store' = copy[c]
  /\ copy' = [copy EXCEPT ![c] = None]
  /\ probe' = probe \cup {c}
  /\ Goto(c, "call")
  /\ UNCHANGED <<faults, streak, cooling>>

(* The tool call ends, is recorded next, or is cancelled. *)
Finish(c) ==
  /\ pc[c] = "call"
  /\ \E next \in {"delete", "failLoad"} : Goto(c, next)
  /\ UNCHANGED <<store, copy, faults, streak, probe, cooling>>

Abandon(c) ==
  /\ pc[c] = "call"
  /\ Goto(c, "idle")
  /\ probe' = probe \ {c}
  /\ UNCHANGED <<store, copy, faults, streak, cooling>>

(* Mutant: a success resets the count and leaves the breaker open. *)
RecordSuccessStaysOpen(c) ==
  /\ pc[c] = "delete"
  /\ store' = IF store = None THEN None ELSE [store EXCEPT !.failures = 0]
  /\ streak' = 0
  /\ probe' = probe \ {c}
  /\ Goto(c, "idle")
  /\ UNCHANGED <<copy, faults, cooling>>

RecordSuccess(c) ==
  /\ pc[c] = "delete"
  /\ store' = None
  /\ streak' = 0
  /\ probe' = probe \ {c}
  /\ Goto(c, "idle")
  /\ UNCHANGED <<copy, faults, cooling>>

(* The failure has its time stamp; the new state is about to be written. *)
Recorded(c, state) ==
  /\ copy' = [copy EXCEPT ![c] = state]
  /\ streak' = UpTo(Threshold, streak + 1)
  /\ probe' = probe \ {c}
  /\ cooling' = IF state.age = 0 THEN Reset ELSE cooling
  /\ Goto(c, "failSave")

(* Mutant: a failed probe leaves the half-open mark. *)
FailedStaysHalf(state) ==
  IF state.half
    THEN [state EXCEPT !.age = 0]
    ELSE LET n == state.failures + 1 IN
           [state EXCEPT !.failures = UpTo(Threshold, n),
                         !.age = IF n >= Threshold THEN 0 ELSE @]

(* What record_failure_async makes of the state it has read. *)
Failed(state) ==
  IF state.half
    THEN [state EXCEPT !.age = 0, !.half = FALSE]
    ELSE LET n == state.failures + 1 IN
           [state EXCEPT !.failures = UpTo(Threshold, n),
                         !.age = IF n >= Threshold THEN 0 ELSE @]

LoadFailure(c) ==
  /\ pc[c] = "failLoad"
  /\ Recorded(c, Failed(StateOf(store)))
  /\ UNCHANGED <<store, faults>>

SaveFailure(c) ==
  /\ pc[c] = "failSave"
  /\ store' = copy[c]
  /\ copy' = [copy EXCEPT ![c] = None]
  /\ Goto(c, "idle")
  /\ UNCHANGED <<faults, streak, probe, cooling>>

-----------------------------------------------------------------------------
(* Failures of the store: a read gives no state, a write is dropped. *)

Fault(kind) ==
  /\ kind \in Faults
  /\ faults < MaxFaults
  /\ faults' = faults + 1

LoadFault(c) ==
  /\ Fault("redis")
  /\ \/ pc[c] = "idle" /\ Goto(c, "call") /\ UNCHANGED <<copy, streak, probe, cooling>>
     \/ pc[c] = "failLoad" /\ Recorded(c, Failed(Fresh))
  /\ UNCHANGED store

SaveFault(c) ==
  /\ Fault("redis")
  /\ \/ pc[c] = "allowSave" /\ Goto(c, "call") /\ probe' = probe \cup {c}
     \/ pc[c] \in {"failSave", "delete"} /\ Goto(c, "idle") /\ probe' = probe \ {c}
  /\ copy' = [copy EXCEPT ![c] = None]
  /\ UNCHANGED <<store, streak, cooling>>

(* The key reaches its time to live, ten times the cooling time. *)
Expire ==
  /\ Fault("expire")
  /\ store # None
  /\ store' = None
  /\ UNCHANGED <<copy, pc, streak, probe, cooling>>

Older(value) ==
  IF StateOf(value).age = NotOpen THEN value
  ELSE [value EXCEPT !.age = UpTo(Reset, @ + 1)]

Tick ==
  /\ \/ cooling > 0
     \/ \E value \in {store} \cup {copy[c] : c \in Caller} : Older(value) # value
  /\ store' = Older(store)
  /\ copy' = [c \in Caller |-> Older(copy[c])]
  /\ cooling' = IF cooling = 0 THEN 0 ELSE cooling - 1
  /\ UNCHANGED <<pc, faults, streak, probe>>

-----------------------------------------------------------------------------

Step(c) ==
  \/ SaveProbe(c) \/ Finish(c) \/ RecordSuccess(c)
  \/ LoadFailure(c) \/ SaveFailure(c)

Next ==
  \/ \E c \in Caller :
       \/ AllowClosed(c) \/ AllowProbe(c) \/ Reject(c) \/ Step(c) \/ Abandon(c)
       \/ LoadFault(c) \/ SaveFault(c)
  \/ Expire \/ Tick

Spec == Init /\ [][Next]_vars

FairSpec ==
  /\ Spec
  /\ WF_vars(Tick)
  /\ \A c \in Caller : WF_vars(AllowClosed(c) \/ AllowProbe(c)) /\ WF_vars(Step(c))

-----------------------------------------------------------------------------
(* Properties *)

(* What the store holds, and what a caller is about to write there: an     *)
(* open breaker has counted up to the threshold and a half open one has    *)
(* cooled down, however reads and writes of several processes mix and      *)
(* whatever the store fails at.  Not so the age: the copy of a probe, made *)
(* when the breaker had cooled down, can be written over a later opening   *)
(* and cut its cooling time short.                                         *)
TypeOK ==
  /\ store \in State \cup {None}
  /\ copy \in [Caller -> State \cup {None}]
  /\ pc \in [Caller -> {"idle", "allowSave", "call", "delete", "failLoad", "failSave"}]
  /\ faults \in 0..MaxFaults
  /\ streak \in 0..Threshold
  /\ probe \subseteq Caller
  /\ cooling \in 0..Reset
  /\ \A value \in {store} \cup {copy[c] : c \in Caller} :
       /\ StateOf(value).half => StateOf(value).age = Reset
       /\ StateOf(value).age # NotOpen => StateOf(value).failures = Threshold

(* One caller at a time sees the breaker of CircuitBreaker: a probe is let *)
(* through when its mark is written, and a failure is recorded when it has *)
(* its time stamp.                                                         *)
View ==
  IF \E c \in Caller : pc[c] = "failSave"
    THEN copy[CHOOSE c \in Caller : pc[c] = "failSave"] ELSE StateOf(store)

Local == INSTANCE CircuitBreaker WITH
  failures <- View.failures,
  age <- View.age,
  probing <- View.half,
  pc <- [c \in Caller |->
           IF pc[c] \in {"idle", "allowSave", "failSave"} THEN "idle" ELSE "call"]

(* The store answers, nobody else is between a read and a write while one *)
(* caller steps, and what a probe is about to write has not been outdated. *)
Undisturbed ==
  /\ faults' = faults
  /\ pc' = pc \/ \A c \in Caller : pc[c] \in {"allowSave", "failSave"} => pc'[c] # pc[c]
  /\ \A c \in Caller :
       pc[c] = "allowSave" => copy[c] = [StateOf(store) EXCEPT !.half = TRUE]

(* Undisturbed steps are steps of the local breaker, whatever races and    *)
(* faults came before: apart from the window between a read and a write    *)
(* the shared registry is the local one, with its guarantees.              *)
ImplementsLocal ==
  /\ Local!Init
  /\ [][Undisturbed => [Local!Next]_(Local!vars)]_vars

(* If from some time on every call succeeds and agents go on calling, the *)
(* breaker is found closed again and again, though several callers write  *)
(* the store and the store itself fails before that.  It need not stay    *)
(* closed: a late mark of a probe can write the open state back.          *)
RecoversWhenHealthy ==
  <>[][\A c \in Caller :
         ~LoadFailure(c) /\ ~SaveFailure(c) /\ ~Abandon(c)]_vars
    => []<>(StateOf(store).age = NotOpen)

=============================================================================
