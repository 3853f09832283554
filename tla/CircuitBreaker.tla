--------------------------- MODULE CircuitBreaker ---------------------------
(***************************************************************************)
(* CircuitBreakerRegistry and ToolResilienceMiddleware.on_tool_call for    *)
(* one tool: the registry keeps a state of its own for each tool name.     *)
(*                                                                         *)
(* The tool runs between allow and the record of its outcome, and other    *)
(* agents of the process may call it meanwhile; allow and the two records  *)
(* contain no await.  A tool call that times out, raises or ends with an   *)
(* ERROR chunk is recorded as a failure.                                   *)
(***************************************************************************)
EXTENDS Integers

CONSTANTS
  Caller,     \* agent turns of the process that may call the tool
  Threshold,  \* failure_threshold
  Reset       \* reset_seconds, in ticks of the clock

ASSUME BreakerAssumption ==
  /\ Threshold \in Nat \ {0}
  /\ Reset \in Nat \ {0}

VARIABLES
  failures,  \* consecutive_failures; only failures >= Threshold matters above it
  age,       \* ticks since opened_at, Reset standing for more; NotOpen if None
  probing,   \* half_open_probing
  pc,        \* "idle", or "call" while the tool runs
  (* history *)
  streak,    \* outcomes recorded since the last success, Threshold for more
  probe,     \* calls that were let through after the cooling time
  cooling    \* ticks until reset_seconds have passed since the last opening

NotOpen == -1

vars == <<failures, age, probing, pc, streak, probe, cooling>>

UpTo(bound, n) == IF n < bound THEN n ELSE bound

Init ==
  /\ failures = 0
  /\ age = NotOpen
  /\ probing = FALSE
  /\ pc = [c \in Caller |-> "idle"]
  /\ streak = 0
  /\ probe = {}
  /\ cooling = 0

(* Mutant: only the first caller after the cooling time is let through. *)
AllowsOneProbe == age = NotOpen \/ (age = Reset /\ ~probing)

Allows == age = NotOpen \/ age = Reset

(* allow answers no: the caller gets an error and nothing changes. *)
Reject(c) ==
  /\ pc[c] = "idle"
  /\ ~Allows
  /\ UNCHANGED vars

(* allow answers yes and the tool is started. *)
Call(c) ==
  /\ pc[c] = "idle"
  /\ Allows
  /\ pc' = [pc EXCEPT ![c] = "call"]
  /\ probing' = (probing \/ age = Reset)
  /\ probe' = IF age = Reset THEN probe \cup {c} ELSE probe
  /\ UNCHANGED <<failures, age, streak, cooling>>

Ends(c) ==
  /\ pc[c] = "call"
  /\ pc' = [pc EXCEPT ![c] = "idle"]
  /\ probe' = probe \ {c}

(* Mutant: a success closes the breaker and keeps the count. *)
RecordSuccessKeepsCount(c) ==
  /\ Ends(c)
  /\ age' = NotOpen /\ probing' = FALSE /\ streak' = 0
  /\ UNCHANGED <<failures, cooling>>

(* record_success: a fresh state. *)
RecordSuccess(c) ==
  /\ Ends(c)
  /\ failures' = 0 /\ age' = NotOpen /\ probing' = FALSE /\ streak' = 0
  /\ UNCHANGED cooling

(* Mutant: a failed probe goes on counting and does not open again. *)
RecordFailureCounting(c) ==
  /\ Ends(c)
  /\ failures' = UpTo(Threshold, failures + 1)
  /\ age' = IF failures + 1 >= Threshold /\ ~probing THEN 0 ELSE age
  /\ probing' = FALSE
  /\ streak' = UpTo(Threshold, streak + 1)
  /\ cooling' = IF failures + 1 >= Threshold THEN Reset ELSE cooling

(* Mutant: a failed probe opens the breaker and leaves it half open. *)
RecordFailureStaysProbing(c) ==
  /\ Ends(c)
  /\ age' = IF probing \/ failures + 1 >= Threshold THEN 0 ELSE age
  /\ failures' = IF probing THEN failures ELSE UpTo(Threshold, failures + 1)
  /\ streak' = UpTo(Threshold, streak + 1)
  /\ cooling' = IF age' = 0 THEN Reset ELSE cooling
  /\ UNCHANGED probing

(* record_failure: a failed probe opens the breaker again. *)
RecordFailure(c) ==
  /\ Ends(c)
  /\ IF probing
       THEN age' = 0 /\ failures' = failures
       ELSE /\ failures' = UpTo(Threshold, failures + 1)
            /\ age' = IF failures + 1 >= Threshold THEN 0 ELSE age
  /\ probing' = FALSE
  /\ streak' = UpTo(Threshold, streak + 1)
  /\ cooling' = IF age' = 0 THEN Reset ELSE cooling

(* The turn is cancelled while the tool runs: no outcome is recorded. *)
Abandon(c) ==
  /\ Ends(c)
  /\ UNCHANGED <<failures, age, probing, streak, cooling>>

Tick ==
  /\ age \in 0..(Reset - 1) \/ cooling > 0
  /\ age' = IF age = NotOpen THEN NotOpen ELSE UpTo(Reset, age + 1)
  /\ cooling' = IF cooling = 0 THEN 0 ELSE cooling - 1
  /\ UNCHANGED <<failures, probing, pc, streak, probe>>

Next ==
  \/ \E c \in Caller :
       \/ Call(c) \/ Reject(c)
       \/ RecordSuccess(c) \/ RecordFailure(c) \/ Abandon(c)
  \/ Tick

Spec == Init /\ [][Next]_vars

(* Time passes, a tool call ends (it has a timeout), and the agents go on *)
(* calling the tool; the last is what the property is conditional on.     *)
FairSpec ==
  /\ Spec
  /\ WF_vars(Tick)
  /\ \A c \in Caller :
       WF_vars(Call(c)) /\ WF_vars(RecordSuccess(c) \/ RecordFailure(c))

-----------------------------------------------------------------------------
(* Properties *)

(* Every variable has its type; a probe can only be running in a breaker  *)
(* whose cooling time is over.                                            *)
TypeOK ==
  /\ failures \in 0..Threshold
  /\ age \in {NotOpen} \cup 0..Reset
  /\ probing \in BOOLEAN
  /\ pc \in [Caller -> {"idle", "call"}]
  /\ streak \in 0..Threshold
  /\ probe \subseteq {c \in Caller : pc[c] = "call"}
  /\ cooling \in 0..Reset
  /\ probing => age = Reset

(* The breaker is open, or half open, exactly when as many outcomes in a  *)
(* row as the threshold have been failures, in whatever order overlapping *)
(* calls end and whoever is cancelled.                                    *)
OpenExactlyAfterThreshold == age # NotOpen <=> streak = Threshold

(* After it has opened no call is let through for reset_seconds, unless a *)
(* call that was under way when it opened has succeeded since then.  The  *)
(* cooling time starts again with every opening, a failed probe included. *)
LetThroughWhenCool ==
  \A c \in Caller :
    pc[c] = "idle" /\ pc'[c] = "call" => cooling = 0 \/ streak < Threshold

CoolDownHeld == [][LetThroughWhenCool]_vars

(* If from some time on every call succeeds and agents go on calling, the *)
(* breaker closes for good, also when a probe was abandoned before that.  *)
RecoversWhenHealthy ==
  <>[][\A c \in Caller : ~RecordFailure(c) /\ ~Abandon(c)]_vars
    => <>[](age = NotOpen)

=============================================================================
