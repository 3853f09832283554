------------------------ MODULE CircuitBreaker_proofs ------------------------
(***************************************************************************)
(* Theorems about CircuitBreaker for any set of callers, any threshold and *)
(* any cooling time.                                                       *)
(***************************************************************************)
EXTENDS CircuitBreaker, TLAPS

(* The count of a closed breaker is the streak of failures; an open one     *)
(* has reached the threshold.                                              *)
CountInv ==
  /\ failures = streak
  /\ age # NotOpen <=> streak = Threshold

LEMMA InitCounts == Init => TypeOK /\ CountInv
<1> SUFFICES ASSUME Init PROVE TypeOK /\ CountInv
  OBVIOUS
<1> USE BreakerAssumption DEF Init, NotOpen
<1>1. pc \in [Caller -> {"idle", "call"}] /\ probe \subseteq {c \in Caller : pc[c] = "call"}
  OBVIOUS
<1>2. failures \in 0..Threshold /\ streak \in 0..Threshold /\ cooling \in 0..Reset
  OBVIOUS
<1>3. age \in {NotOpen} \cup 0..Reset /\ probing \in BOOLEAN /\ (probing => age = Reset)
  OBVIOUS
<1>4. CountInv
  BY DEF CountInv
<1> QED BY <1>1, <1>2, <1>3, <1>4 DEF TypeOK

(* The part of the type that the calls under way are in. *)
CallsTypeOK ==
  /\ pc \in [Caller -> {"idle", "call"}]
  /\ probe \subseteq {c \in Caller : pc[c] = "call"}

(* A call that ends leaves the others, and their probe marks, alone. *)
LEMMA EndsCalls ==
  ASSUME CallsTypeOK, NEW c \in Caller, Ends(c)
  PROVE  CallsTypeOK'
<1>1. pc' \in [Caller -> {"idle", "call"}]
  BY DEF Ends, CallsTypeOK
<1>2. \A d \in probe' : d \in Caller /\ d # c /\ pc[d] = "call"
  BY DEF Ends, CallsTypeOK
<1>3. \A d \in probe' : pc'[d] = "call"
  BY <1>2 DEF Ends, CallsTypeOK
<1> QED BY <1>1, <1>2, <1>3 DEF CallsTypeOK

LEMMA StepCounts ==
  TypeOK /\ CountInv /\ [Next]_vars => TypeOK' /\ CountInv'
<1> SUFFICES ASSUME TypeOK, CountInv, [Next]_vars
             PROVE  TypeOK' /\ CountInv'
  OBVIOUS
<1> USE BreakerAssumption DEF TypeOK, CountInv, NotOpen, UpTo
<1>1. ASSUME NEW c \in Caller, Call(c)
      PROVE  TypeOK' /\ CountInv'
  BY <1>1 DEF Call, Allows
<1>2. ASSUME NEW c \in Caller, Reject(c)
      PROVE  TypeOK' /\ CountInv'
  BY <1>2 DEF Reject, vars
<1>3. ASSUME NEW c \in Caller, RecordSuccess(c)
      PROVE  TypeOK' /\ CountInv'
  <2>1. CallsTypeOK'
    BY <1>3, EndsCalls DEF RecordSuccess, CallsTypeOK
  <2>2. /\ failures' = 0 /\ age' = NotOpen /\ probing' = FALSE
        /\ streak' = 0 /\ cooling' = cooling
    BY <1>3 DEF RecordSuccess
  <2>3. CountInv'
    BY <2>2
  <2>4. /\ failures' \in 0..Threshold /\ streak' \in 0..Threshold
        /\ age' \in {NotOpen} \cup 0..Reset /\ cooling' \in 0..Reset
    BY <2>2
  <2>5. probing' \in BOOLEAN /\ ~probing'
    BY <2>2
  <2> QED BY <2>1, <2>3, <2>4, <2>5 DEF CallsTypeOK
<1>4. ASSUME NEW c \in Caller, RecordFailure(c)
      PROVE  TypeOK' /\ CountInv'
  <2>1. CallsTypeOK'
    BY <1>4, EndsCalls DEF RecordFailure, CallsTypeOK
  <2>2. probing' = FALSE
    BY <1>4 DEF RecordFailure
  <2>3. streak' \in 0..Threshold /\ failures' = streak'
    <3>1. CASE probing
      BY <1>4, <3>1 DEF RecordFailure
    <3>2. CASE ~probing
      BY <1>4, <3>2 DEF RecordFailure
    <3> QED BY <3>1, <3>2
  <2>4. age' \in {NotOpen} \cup 0..Reset /\ (age' # NotOpen <=> streak' = Threshold)
    <3>1. CASE probing
      BY <1>4, <3>1 DEF RecordFailure
    <3>2. CASE ~probing
      BY <1>4, <3>2 DEF RecordFailure
    <3> QED BY <3>1, <3>2
  <2>5. cooling' \in 0..Reset
    BY <1>4 DEF RecordFailure
  <2> QED BY <2>1, <2>2, <2>3, <2>4, <2>5 DEF CallsTypeOK
<1>5. ASSUME NEW c \in Caller, Abandon(c)
      PROVE  TypeOK' /\ CountInv'
  BY <1>5 DEF Abandon, Ends
<1>6. CASE Tick
  BY <1>6 DEF Tick
<1>7. CASE UNCHANGED vars
  BY <1>7 DEF vars
<1> QED BY <1>1, <1>2, <1>3, <1>4, <1>5, <1>6, <1>7 DEF Next

(* Every variable keeps its type however calls overlap: the counts stay     *)
(* below the threshold, a probe is a call under way, and a breaker is only  *)
(* marked as probing when it has cooled down.                               *)
THEOREM BreakerTypes == Spec => []TypeOK
BY InitCounts, StepCounts, PTL DEF Spec

(* Whatever the order in which overlapping calls end, the breaker is open  *)
(* exactly when the last Threshold outcomes were failures, and a probe is  *)
(* only marked in a breaker that has cooled down.                          *)
THEOREM OpensExactly == Spec => [](TypeOK /\ OpenExactlyAfterThreshold)
<1>1. TypeOK /\ CountInv => TypeOK /\ OpenExactlyAfterThreshold
  BY DEF CountInv, OpenExactlyAfterThreshold
<1> QED BY InitCounts, StepCounts, <1>1, PTL DEF Spec

-----------------------------------------------------------------------------
(* The cooling time. *)

(* The cooling time runs with the age of a breaker that is not closed. *)
CoolingInv == age # NotOpen => cooling = Reset - age

LEMMA StepCools ==
  ASSUME TypeOK, CountInv, CoolingInv, [Next]_vars
  PROVE  CoolingInv' /\ (LetThroughWhenCool \/ UNCHANGED vars)
<1> USE BreakerAssumption DEF TypeOK, CountInv, CoolingInv, NotOpen
<1>1. ASSUME NEW c \in Caller, Call(c)
      PROVE  CoolingInv' /\ LetThroughWhenCool
  <2>1. cooling = 0 \/ streak < Threshold
    BY <1>1 DEF Call, Allows
  <2> QED BY <1>1, <2>1 DEF Call, LetThroughWhenCool
<1>2. ASSUME NEW c \in Caller, Reject(c)
      PROVE  CoolingInv' /\ UNCHANGED vars
  BY <1>2 DEF Reject, vars
<1>3. ASSUME NEW c \in Caller, Ends(c)
      PROVE  LetThroughWhenCool
  BY <1>3 DEF Ends, LetThroughWhenCool
<1>4. ASSUME NEW c \in Caller, RecordSuccess(c)
      PROVE  CoolingInv'
  BY <1>4 DEF RecordSuccess
<1>5. ASSUME NEW c \in Caller, RecordFailure(c)
      PROVE  CoolingInv'
  <2>1. CASE probing
    BY <1>5, <2>1 DEF RecordFailure
  <2>2. CASE ~probing
    BY <1>5, <2>2 DEF RecordFailure
  <2> QED BY <2>1, <2>2
<1>6. ASSUME NEW c \in Caller, Abandon(c)
      PROVE  CoolingInv'
  BY <1>6 DEF Abandon
<1>7. CASE Tick
  <2>1. CoolingInv'
    BY <1>7 DEF Tick, UpTo
  <2>2. LetThroughWhenCool
    BY <1>7 DEF Tick, LetThroughWhenCool
  <2> QED BY <2>1, <2>2
<1>8. CASE UNCHANGED vars
  BY <1>8 DEF vars
<1>9. ASSUME NEW c \in Caller, RecordSuccess(c) \/ RecordFailure(c) \/ Abandon(c)
      PROVE  CoolingInv' /\ LetThroughWhenCool
  BY <1>9, <1>3, <1>4, <1>5, <1>6 DEF RecordSuccess, RecordFailure, Abandon
<1> QED BY <1>1, <1>2, <1>7, <1>8, <1>9 DEF Next

(* No call is let through for reset_seconds after the breaker has opened,   *)
(* unless a call has succeeded since then.                                 *)
THEOREM CoolDownHolds == Spec => CoolDownHeld
<1>1. Init => TypeOK /\ CountInv /\ CoolingInv
  BY InitCounts DEF Init, CoolingInv
<1>2. TypeOK /\ CountInv /\ CoolingInv /\ [Next]_vars
        => (TypeOK /\ CountInv /\ CoolingInv)' /\ [LetThroughWhenCool]_vars
  BY StepCounts, StepCools
<1> QED BY <1>1, <1>2, PTL DEF Spec, CoolDownHeld

=============================================================================
