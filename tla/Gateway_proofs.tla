--------------------------- MODULE Gateway_proofs ---------------------------
(***************************************************************************)
(* Theorems about Gateway for any set of calls, any limit of concurrency,  *)
(* any interval, any number of retries and any budget.                     *)
(***************************************************************************)
EXTENDS Gateway, FiniteSetTheorems, TLAPS

LEMMA SlotsNat == Slots \in Nat \ {0}
BY GatewayAssumption DEF Slots

(* A set of calls is finite. *)
LEMMA CallsFinite ==
  ASSUME NEW phases
  PROVE  /\ IsFiniteSet(InPhase(phases))
         /\ Cardinality(InPhase(phases)) \in Nat
<1>1. InPhase(phases) \subseteq Call
  BY DEF InPhase
<1>2. IsFiniteSet(InPhase(phases))
  BY <1>1, GatewayAssumption, FS_Subset
<1> QED BY <1>2, FS_CardinalityType

-----------------------------------------------------------------------------
(* How a step changes the number of calls in some phases. *)

LEMMA Enters ==
  ASSUME pc \in [Call -> Phase], NEW c \in Call, NEW phases, NEW phase \in phases,
         pc[c] \notin phases, Goto(c, phase)
  PROVE  Cardinality(InPhase(phases)') = Cardinality(InPhase(phases)) + 1
<1>1. InPhase(phases)' = InPhase(phases) \cup {c}
  BY DEF InPhase, Goto
<1>2. c \notin InPhase(phases)
  BY DEF InPhase
<1> QED BY <1>1, <1>2, CallsFinite, FS_AddElement

LEMMA Leaves ==
  ASSUME pc \in [Call -> Phase], NEW c \in Call, NEW phases, NEW phase, phase \notin phases,
         pc[c] \in phases, Goto(c, phase)
  PROVE  /\ Cardinality(InPhase(phases)') = Cardinality(InPhase(phases)) - 1
         /\ Cardinality(InPhase(phases)) > 0
<1>1. InPhase(phases)' = InPhase(phases) \ {c}
  BY DEF InPhase, Goto
<1>2. c \in InPhase(phases)
  BY DEF InPhase
<1>3. Cardinality(InPhase(phases)') = Cardinality(InPhase(phases)) - 1
  BY <1>1, <1>2, CallsFinite, FS_RemoveElement
<1>4. Cardinality(InPhase(phases)) # 0
  BY <1>2, CallsFinite, FS_EmptySet
<1> QED BY <1>3, <1>4, CallsFinite

LEMMA Stays ==
  ASSUME pc \in [Call -> Phase], NEW c \in Call, NEW phases, NEW phase,
         phase \in phases <=> pc[c] \in phases, Goto(c, phase)
  PROVE  InPhase(phases)' = InPhase(phases)
BY DEF InPhase, Goto

-----------------------------------------------------------------------------
(* The type but for the semaphore, whose bound needs the slots accounted.  *)
CallsTypeOK ==
  /\ pc \in [Call -> Phase]
  /\ since \in 0..Interval
  /\ wait \in [Call -> 0..Interval]
  /\ attempt \in [Call -> 0..MaxRetries]
  /\ target \in [Call -> {"main", "lite"}]
  /\ used \in Nat /\ mainUsed \in Nat

LEMMA GotoType ==
  ASSUME pc \in [Call -> Phase], NEW c \in Call, NEW phase \in Phase, Goto(c, phase)
  PROVE  pc' \in [Call -> Phase]
BY DEF Goto

LEMMA ChargeType ==
  ASSUME used \in Nat, mainUsed \in Nat, NEW c \in Call, NEW tokens \in {0, Cost},
         Charge(c, tokens)
  PROVE  used' \in Nat /\ mainUsed' \in Nat
BY GatewayAssumption DEF Charge

LEMMA DispatchType ==
  ASSUME CallsTypeOK, NEW c \in Call, Dispatch(c)
  PROVE  pc' \in [Call -> Phase] /\ target' \in [Call -> {"main", "lite"}]
<1>1. "upstream" \in Phase
  BY DEF Phase
<1> QED BY <1>1, GotoType DEF Dispatch, CallsTypeOK

LEMMA StepTypes ==
  ASSUME CallsTypeOK, [Next]_vars
  PROVE  CallsTypeOK'
<1> USE GatewayAssumption DEF CallsTypeOK
<1>p. {"queue", "lock", "space", "upstream", "backoff", "last", "opened", "stream",
       "done", "failed", "cancelled", "dropped"} \subseteq Phase
  BY DEF Phase, Ended
<1>1. ASSUME NEW c \in Call, Request(c)  PROVE  CallsTypeOK'
  BY <1>1, <1>p, GotoType DEF Request, budgetVars
<1>2. ASSUME NEW c \in Call, Acquire(c)  PROVE  CallsTypeOK'
  <2>1. CASE Interval = 0
    BY <1>2, <2>1, DispatchType DEF Acquire, budgetVars
  <2>2. CASE Interval # 0
    BY <1>2, <2>2, <1>p, GotoType DEF Acquire, budgetVars
  <2> QED BY <2>1, <2>2
<1>3. ASSUME NEW c \in Call, Enter(c)  PROVE  CallsTypeOK'
  <2>1. pc' \in [Call -> Phase]
    BY <1>3, <1>p, GotoType DEF Enter
  <2>2. Interval - since \in 0..Interval
    OBVIOUS
  <2>3. wait' \in [Call -> 0..Interval]
    BY <1>3, <2>2 DEF Enter
  <2> QED BY <1>3, <2>1, <2>3 DEF Enter, budgetVars
<1>4. ASSUME NEW c \in Call, Start(c)  PROVE  CallsTypeOK'
  BY <1>4, DispatchType DEF Start, budgetVars
<1>5. ASSUME NEW c \in Call, NEW phase \in Ended, Finish(c, phase),
             \/ UNCHANGED budgetVars
             \/ \E tokens \in {0, Cost} : Charge(c, tokens)
      PROVE  CallsTypeOK'
  <2>1. pc' \in [Call -> Phase]
    BY <1>5, GotoType DEF Finish, Phase
  <2>2. used' \in Nat /\ mainUsed' \in Nat
    BY <1>5, ChargeType DEF budgetVars
  <2> QED BY <1>5, <2>1, <2>2 DEF Finish
<1>6. ASSUME NEW c \in Call, Open(c) \/ Read(c) \/ Drop(c)  PROVE  CallsTypeOK'
  BY <1>6, <1>p, GotoType DEF Open, Read, Drop, budgetVars
<1>7. ASSUME NEW c \in Call, Transient(c)  PROVE  CallsTypeOK'
  <2>1. pc' \in [Call -> Phase]
    BY <1>7, <1>p, GotoType DEF Transient
  <2>2. CASE attempt[c] < MaxRetries
    <3>1. attempt[c] + 1 \in 0..MaxRetries
      BY <2>2
    <3>2. attempt' \in [Call -> 0..MaxRetries] /\ UNCHANGED target
      BY <1>7, <2>2, <3>1 DEF Transient
    <3> QED BY <1>7, <2>1, <3>2 DEF Transient, budgetVars
  <2>3. CASE ~(attempt[c] < MaxRetries)
    BY <1>7, <2>1, <2>3 DEF Transient, budgetVars
  <2> QED BY <2>2, <2>3
<1>8. ASSUME NEW c \in Call, Retry(c)  PROVE  CallsTypeOK'
  BY <1>8, DispatchType DEF Retry, budgetVars
<1>9. ASSUME NEW c \in Call, Cancel(c)  PROVE  CallsTypeOK'
  <2>1. CASE Finish(c, "cancelled")
    BY <1>9, <2>1, <1>5 DEF Cancel, Ended
  <2>2. CASE Goto(c, "cancelled") /\ UNCHANGED <<free, since, wait, attempt, target>>
    BY <1>9, <2>2, <1>p, GotoType DEF Cancel, budgetVars
  <2> QED BY <1>9, <2>1, <2>2 DEF Cancel
<1>10. ASSUME Tick  PROVE  CallsTypeOK'
  <2>1. since' \in 0..Interval
    BY <1>10 DEF Tick, UpTo
  <2>2. \A c \in Call : (IF wait[c] > 0 THEN wait[c] - 1 ELSE 0) \in 0..Interval
    OBVIOUS
  <2>3. wait' \in [Call -> 0..Interval]
    BY <1>10, <2>2 DEF Tick
  <2> QED BY <1>10, <2>1, <2>3 DEF Tick, budgetVars
<1>11. ASSUME UNCHANGED vars  PROVE  CallsTypeOK'
  BY <1>11 DEF vars
<1>12. ASSUME NEW c \in Call, Answer(c) \/ Fail(c) \/ Close(c)  PROVE  CallsTypeOK'
  BY <1>12, <1>5 DEF Answer, Fail, Close, Ended
<1> QED BY <1>1, <1>2, <1>3, <1>4, <1>6, <1>7, <1>8, <1>9, <1>10, <1>11, <1>12
        DEF Next, Progress, Finished
-----------------------------------------------------------------------------
(* The slots: what a step does to the number of calls that hold one it     *)
(* does to the semaphore, the other way.                                   *)

LEMMA InitSlots == Init => CallsTypeOK /\ SlotsAccounted
<1> SUFFICES ASSUME Init PROVE CallsTypeOK /\ SlotsAccounted
  OBVIOUS
<1>1. CallsTypeOK
  BY GatewayAssumption DEF Init, CallsTypeOK, Phase
<1>2. InPhase(Held) = {}
  BY DEF Init, InPhase, Held
<1>3. Cardinality(InPhase(Held)) = 0
  BY <1>2, FS_EmptySet
<1>4. SlotsAccounted
  BY <1>3, SlotsNat DEF Init, SlotsAccounted
<1> QED BY <1>1, <1>4

(* A call that goes from one phase with a slot to another, or without one. *)
LEMMA SameSlots ==
  ASSUME CallsTypeOK, SlotsAccounted, NEW c \in Call, NEW phase,
         phase \in Held <=> pc[c] \in Held, Goto(c, phase), free' = free
  PROVE  SlotsAccounted'
<1>1. InPhase(Held)' = InPhase(Held)
  BY Stays DEF CallsTypeOK, Held
<1> QED BY <1>1 DEF SlotsAccounted, Slots, Held

LEMMA FinishSlots ==
  ASSUME CallsTypeOK, SlotsAccounted, free \in Int, NEW c \in Call, pc[c] \in Held,
         NEW phase, phase \notin Held, Finish(c, phase)
  PROVE  SlotsAccounted'
<1>1. Goto(c, phase) /\ free' = free + 1
  BY DEF Finish
<1>2. Cardinality(InPhase(Held)') = Cardinality(InPhase(Held)) - 1
  BY <1>1, Leaves DEF CallsTypeOK
<1> QED BY <1>1, <1>2, CallsFinite, SlotsNat DEF SlotsAccounted, Slots, Held

LEMMA StepSlots ==
  ASSUME CallsTypeOK, SlotsAccounted, free \in Int, [Next]_vars
  PROVE  SlotsAccounted' /\ free' \in Int
<1> USE SlotsNat
<1>h. /\ {"lock", "space", "upstream", "backoff", "last", "opened", "stream", "dropped"}
           \subseteq Held
      /\ "queue" \notin Held /\ "idle" \notin Held
      /\ "done" \notin Held /\ "failed" \notin Held /\ "cancelled" \notin Held
  BY DEF Held
<1>1. ASSUME NEW c \in Call, Request(c)  PROVE  SlotsAccounted' /\ free' \in Int
  BY <1>1, <1>h, SameSlots DEF Request
<1>2. ASSUME NEW c \in Call, Acquire(c)  PROVE  SlotsAccounted' /\ free' \in Int
  <2>1. PICK phase \in {"upstream", "lock"} : Goto(c, phase)
    BY <1>2 DEF Acquire, Dispatch
  <2>2. Cardinality(InPhase(Held)') = Cardinality(InPhase(Held)) + 1
    BY <1>2, <1>h, <2>1, Enters DEF Acquire, CallsTypeOK
  <2>3. free' = free - 1
    BY <1>2 DEF Acquire
  <2> QED BY <2>2, <2>3, CallsFinite DEF SlotsAccounted, Slots, Held
<1>3. ASSUME NEW c \in Call, Enter(c) \/ Start(c) \/ Open(c) \/ Retry(c) \/ Read(c) \/ Drop(c)
      PROVE  SlotsAccounted' /\ free' \in Int
  BY <1>3, <1>h, SameSlots DEF Enter, Start, Open, Retry, Read, Drop, Dispatch
<1>4. ASSUME NEW c \in Call, Transient(c)  PROVE  SlotsAccounted' /\ free' \in Int
  <2>1. PICK phase \in {"backoff", "last"} : Goto(c, phase)
    BY <1>4 DEF Transient
  <2> QED BY <1>4, <1>h, <2>1, SameSlots DEF Transient
<1>5. ASSUME NEW c \in Call, Answer(c) \/ Fail(c)  PROVE  SlotsAccounted' /\ free' \in Int
  <2>1. PICK phase \in {"done", "failed"} : Finish(c, phase)
    BY <1>5 DEF Answer, Fail
  <2>2. pc[c] \in Held
    BY <1>5, <1>h DEF Answer, Fail
  <2> QED BY <1>h, <2>1, <2>2, FinishSlots DEF Finish
<1>6. ASSUME NEW c \in Call, Close(c)  PROVE  SlotsAccounted' /\ free' \in Int
  <2>1. PICK phase \in {"done", "failed", "cancelled"} : Finish(c, phase)
    BY <1>6 DEF Close
  <2> QED BY <1>6, <1>h, <2>1, FinishSlots DEF Close, Finish
<1>7. ASSUME NEW c \in Call, Cancel(c)  PROVE  SlotsAccounted' /\ free' \in Int
  <2>1. CASE pc[c] \in Held /\ Finish(c, "cancelled")
    BY <1>h, <2>1, FinishSlots DEF Finish
  <2>2. CASE /\ pc[c] = "queue" /\ Goto(c, "cancelled")
             /\ UNCHANGED <<free, since, wait, attempt, target>>
    BY <1>h, <2>2, SameSlots
  <2> QED BY <1>7, <2>1, <2>2 DEF Cancel
<1>8. ASSUME Tick \/ UNCHANGED vars  PROVE  SlotsAccounted' /\ free' \in Int
  <2>1. pc' = pc /\ free' = free
    BY <1>8 DEF Tick, vars
  <2> QED BY <2>1 DEF SlotsAccounted, InPhase, Slots, Held
<1> QED BY <1>1, <1>2, <1>3, <1>4, <1>5, <1>6, <1>7, <1>8 DEF Next, Progress, Finished

LEMMA StepFree ==
  ASSUME free \in Nat, [Next]_vars
  PROVE  free' >= 0
<1>1. ASSUME NEW c \in Call, Acquire(c)  PROVE  free' >= 0
  BY <1>1 DEF Acquire
<1>2. ASSUME NEW c \in Call,
             Request(c) \/ Enter(c) \/ Start(c) \/ Open(c) \/ Transient(c) \/ Retry(c)
               \/ Read(c) \/ Drop(c)
      PROVE  free' >= 0
  BY <1>2 DEF Request, Enter, Start, Open, Transient, Retry, Read, Drop
<1>3. ASSUME NEW c \in Call, Answer(c) \/ Fail(c) \/ Close(c) \/ Cancel(c)
      PROVE  free' >= 0
  BY <1>3 DEF Answer, Fail, Close, Cancel, Finish
<1>4. ASSUME Tick \/ UNCHANGED vars  PROVE  free' >= 0
  BY <1>4 DEF Tick, vars
<1> QED BY <1>1, <1>2, <1>3, <1>4 DEF Next, Progress, Finished

LEMMA StepInv ==
  ASSUME TypeOK, SlotsAccounted, [Next]_vars
  PROVE  TypeOK' /\ SlotsAccounted'
<1>1. CallsTypeOK /\ free \in Nat
  BY SlotsNat DEF TypeOK, CallsTypeOK
<1>2. CallsTypeOK'
  BY <1>1, StepTypes
<1>3. SlotsAccounted' /\ free' \in Int
  BY <1>1, StepSlots
<1>4. free' >= 0
  BY <1>1, StepFree
<1>5. Cardinality(InPhase(Held)') \in Nat
  <2>1. InPhase(Held)' \subseteq Call
    BY DEF InPhase
  <2> QED BY <2>1, GatewayAssumption, FS_Subset, FS_CardinalityType
<1>6. free' \in 0..Slots
  BY <1>3, <1>4, <1>5, SlotsNat DEF SlotsAccounted, Slots, Held
<1> QED BY <1>2, <1>3, <1>6 DEF TypeOK, CallsTypeOK, Slots
(* Every variable keeps its type: with any number of calls, limits and     *)
(* faults the semaphore stays between nothing and all slots                *)
(* (GatewayThrottle.slot, _release_after_stream).                          *)
THEOREM TypeCorrect == Spec => []TypeOK
<1>1. Init => TypeOK /\ SlotsAccounted
  BY InitSlots, SlotsNat DEF Init, TypeOK, CallsTypeOK
<1>2. TypeOK /\ SlotsAccounted /\ [Next]_vars => TypeOK' /\ SlotsAccounted'
  BY StepInv
<1> QED BY <1>1, <1>2, PTL DEF Spec

(* Every slot is free or held by one call, for any number of calls and any *)
(* limit: none is given back twice, and none is lost but by a stream that  *)
(* was dropped unread (GatewayThrottle.slot, _release_after_stream).       *)
THEOREM SlotsAreAccounted == Spec => []SlotsAccounted
<1>1. Init => TypeOK /\ SlotsAccounted
  BY InitSlots, SlotsNat DEF Init, TypeOK, CallsTypeOK
<1>2. TypeOK /\ SlotsAccounted /\ [Next]_vars => TypeOK' /\ SlotsAccounted'
  BY StepInv
<1> QED BY <1>1, <1>2, PTL DEF Spec

-----------------------------------------------------------------------------
(* Who sleeps in _space_out is alone there, and sleeps until the interval  *)
(* is over: what is left of it is never less than what is left of the      *)
(* interval.                                                               *)
Spacing ==
  \A c \in Call : pc[c] = "space" =>
    /\ InPhase({"space"}) = {c}
    /\ wait[c] + since >= Interval

LEMMA StepSpacing ==
  ASSUME TypeOK, Spacing, [Next]_vars
  PROVE  Spacing' /\ (\A c \in Call : pc[c] = "space" /\ pc'[c] = "upstream" => since = Interval)
<1> USE GatewayAssumption DEF TypeOK
(* The others sleep as before if the clock is left alone. *)
<1>1. ASSUME NEW c \in Call, NEW phase \in Phase, phase # "space", Goto(c, phase),
             pc[c] # "space", UNCHANGED <<since, wait>>
      PROVE  Spacing'
  <2>1. \A d \in Call : pc'[d] = "space" <=> pc[d] = "space"
    BY <1>1 DEF Goto
  <2>2. InPhase({"space"})' = InPhase({"space"})
    BY <2>1 DEF InPhase
  <2> QED BY <1>1, <2>1, <2>2 DEF Spacing
(* Nobody sleeps once the one that slept is gone. *)
<1>2. ASSUME NEW c \in Call, NEW phase \in Phase, phase # "space", Goto(c, phase),
             pc[c] = "space"
      PROVE  Spacing'
  <2>1. InPhase({"space"}) = {c}
    BY <1>2 DEF Spacing
  <2>2. \A d \in Call : pc'[d] # "space"
    BY <1>2, <2>1 DEF Goto, InPhase
  <2> QED BY <2>2 DEF Spacing
<1>p. {"queue", "lock", "upstream", "backoff", "last", "opened", "stream",
       "done", "failed", "cancelled", "dropped"} \subseteq Phase
  BY DEF Phase, Ended
<1>3. ASSUME NEW c \in Call, Enter(c)  PROVE  Spacing'
  <2>1. \A d \in Call : pc[d] # "space"
    BY <1>3 DEF Enter, InPhase
  <2>2. InPhase({"space"})' = {c}
    BY <1>3, <2>1 DEF Enter, Goto, InPhase
  <2>3. wait'[c] = Interval - since /\ since' = since
    BY <1>3 DEF Enter
  <2>4. \A d \in Call : pc'[d] = "space" => d = c
    BY <1>3, <2>1 DEF Enter, Goto
  <2> QED BY <2>2, <2>3, <2>4 DEF Spacing
<1>4. ASSUME NEW c \in Call, Start(c)  PROVE  Spacing' /\ since = Interval
  <2>1. since = Interval
    BY <1>4 DEF Start, Spacing
  <2> QED BY <1>4, <1>p, <2>1, <1>2 DEF Start, Dispatch
<1>5. ASSUME NEW c \in Call,
             Request(c) \/ Acquire(c) \/ Answer(c) \/ Open(c) \/ Transient(c) \/ Retry(c)
               \/ Fail(c) \/ Read(c) \/ Close(c) \/ Drop(c)
      PROVE  Spacing' /\ \A d \in Call : pc[d] = "space" => pc'[d] = "space"
  <2>1. /\ pc[c] # "space" /\ UNCHANGED <<since, wait>>
        /\ \E phase \in Phase \ {"space"} : Goto(c, phase)
    BY <1>5, <1>p DEF Request, Acquire, Answer, Open, Transient, Retry, Fail, Read, Close, Drop,
                      Finish, Dispatch
  <2> QED BY <1>1, <2>1 DEF Goto
<1>6. ASSUME NEW c \in Call, Cancel(c)
      PROVE  Spacing' /\ \A d \in Call : pc[d] = "space" => pc'[d] # "upstream"
  <2>1. Goto(c, "cancelled") /\ UNCHANGED <<since, wait>>
    BY <1>6 DEF Cancel, Finish
  <2> QED BY <1>1, <1>2, <1>p, <2>1 DEF Goto
<1>7. ASSUME Tick  PROVE  Spacing' /\ pc' = pc
  <2>1. pc' = pc /\ since' = UpTo(Interval, since + 1)
    BY <1>7 DEF Tick
  <2>2. \A c \in Call : wait'[c] = IF wait[c] > 0 THEN wait[c] - 1 ELSE 0
    BY <1>7 DEF Tick
  <2>3. InPhase({"space"})' = InPhase({"space"})
    BY <2>1 DEF InPhase
  <2>4. \A c \in Call : wait[c] + since >= Interval => wait'[c] + since' >= Interval
    BY <2>1, <2>2 DEF UpTo
  <2> QED BY <2>1, <2>3, <2>4 DEF Spacing
<1>8. ASSUME UNCHANGED vars  PROVE  Spacing' /\ pc' = pc
  BY <1>8 DEF vars, Spacing, InPhase
<1>9. ASSUME NEW c \in Call, Enter(c)
      PROVE  \A d \in Call : pc[d] = "space" => pc'[d] # "upstream"
  BY <1>9 DEF Enter, Goto, InPhase
<1> QED
  BY <1>3, <1>4, <1>5, <1>6, <1>7, <1>8, <1>9 DEF Next, Progress, Finished

(* Two calls never start closer together than the minimum interval, for    *)
(* any number of calls and any interval, however they are cancelled        *)
(* (GatewayThrottle._space_out).                                           *)
THEOREM StartsAreSpaced == Spec => StartsSpaced
<1>1. Init => Spacing
  BY DEF Init, Spacing
<1>2. TypeOK /\ Spacing /\ [Next]_vars => Spacing' /\ [SpacedStart]_vars
  BY StepSpacing DEF SpacedStart
<1>3. Spec => []TypeOK
  BY TypeCorrect
<1> QED BY <1>1, <1>2, <1>3, PTL DEF Spec, StartsSpaced
-----------------------------------------------------------------------------
(* The calls that may yet charge the main model: each has a slot, and was  *)
(* sent while less than half of the budget was used.                       *)
MainCalls ==
  {c \in Call : /\ pc[c] \in {"upstream", "backoff", "last", "opened", "stream", "dropped"}
                /\ target[c] = "main"}

(* With what they may charge the main model stays within its bound. *)
SpendInv ==
  /\ mainUsed <= used
  /\ Total > 0 /\ HasFallback =>
       2 * mainUsed + 2 * Cost * Cardinality(MainCalls) < Total + 2 * Slots * Cost

LEMMA MainCallsFinite ==
  IsFiniteSet(MainCalls) /\ Cardinality(MainCalls) \in Nat
<1>1. MainCalls \subseteq Call
  BY DEF MainCalls
<1> QED BY <1>1, GatewayAssumption, FS_Subset, FS_CardinalityType

LEMMA TimesMonotone ==
  ASSUME NEW k \in Nat, NEW m \in Nat, NEW n \in Nat, m <= n
  PROVE  2 * k * m <= 2 * k * n
<1>1. PICK d \in Nat : n = m + d
  <2>1. n - m \in Nat /\ n = m + (n - m)
    OBVIOUS
  <2> QED BY <2>1
<1>2. 2 * k * n = 2 * k * m + 2 * k * d
  BY <1>1
<1>3. 2 * k * d \in Nat /\ 2 * k * m \in Nat
  OBVIOUS
<1> QED BY <1>2, <1>3

(* A step that sends nothing to the main model and charges it nothing. *)
LEMMA SpendLess ==
  ASSUME TypeOK, SpendInv, MainCalls' \subseteq MainCalls, mainUsed' = mainUsed,
         used' \in Nat, used <= used'
  PROVE  SpendInv'
<1>1. Cardinality(MainCalls') \in Nat /\ Cardinality(MainCalls') <= Cardinality(MainCalls)
  BY MainCallsFinite, FS_Subset, FS_CardinalityType
<1>2. 2 * Cost * Cardinality(MainCalls') <= 2 * Cost * Cardinality(MainCalls)
  BY <1>1, MainCallsFinite, TimesMonotone, GatewayAssumption
<1>3. /\ 2 * Cost * Cardinality(MainCalls') \in Int
      /\ 2 * Cost * Cardinality(MainCalls) \in Int
      /\ 2 * Slots * Cost \in Int
  BY <1>1, MainCallsFinite, SlotsNat, GatewayAssumption
<1>4. mainUsed' <= used'
  BY DEF SpendInv, TypeOK
<1>5. Total > 0 /\ HasFallback =>
        2 * mainUsed' + 2 * Cost * Cardinality(MainCalls') < Total + 2 * Slots * Cost
  BY <1>2, <1>3, GatewayAssumption DEF SpendInv, TypeOK
<1>6. Cardinality(MainCalls)' = Cardinality(MainCalls')
  OBVIOUS
<1> QED BY <1>4, <1>5, <1>6 DEF SpendInv, Slots

(* A request sent to the main model: half of the budget is still there. *)
LEMMA SpendDispatch ==
  ASSUME TypeOK, SlotsAccounted, TypeOK', SlotsAccounted', SpendInv, NEW c \in Call,
         Dispatch(c), UNCHANGED budgetVars
  PROVE  SpendInv'
<1>u. used' = used /\ mainUsed' = mainUsed
  BY DEF budgetVars
<1>1. CASE Tier = "main" /\ Total > 0 /\ HasFallback
  <2>1. 2 * used < Total
    BY <1>1, GatewayAssumption DEF Tier, Remaining, TypeOK
  <2>2. MainCalls' \subseteq InPhase(Held)'
    BY DEF MainCalls, InPhase, Held
  <2>3. InPhase(Held)' \subseteq Call
    BY DEF InPhase
  <2>4. /\ IsFiniteSet(InPhase(Held)')
        /\ Cardinality(InPhase(Held)') \in Nat /\ Cardinality(MainCalls') \in Nat
        /\ Cardinality(MainCalls') <= Cardinality(InPhase(Held)')
    BY <2>2, <2>3, GatewayAssumption, FS_Subset, FS_CardinalityType
  <2>5. Cardinality(InPhase(Held)') <= Slots
    BY <2>4, SlotsNat DEF SlotsAccounted, TypeOK, Slots, Held
  <2>6. 2 * Cost * Cardinality(MainCalls') <= 2 * Cost * Slots
    BY <2>4, <2>5, TimesMonotone, SlotsNat, GatewayAssumption
  <2>7. /\ 2 * Cost * Cardinality(MainCalls') \in Int
        /\ 2 * Cost * Slots \in Int /\ 2 * Cost * Slots = 2 * Slots * Cost
    BY <2>4, SlotsNat, GatewayAssumption
  <2>8. 2 * mainUsed' + 2 * Cost * Cardinality(MainCalls') < Total + 2 * Slots * Cost
    BY <2>1, <2>6, <2>7, <1>u, GatewayAssumption DEF SpendInv, TypeOK
  <2> QED BY <1>u, <2>8 DEF SpendInv, Slots
<1>2. CASE Tier # "main" /\ HasFallback
  <2>1. MainCalls' \subseteq MainCalls
    BY <1>2 DEF Dispatch, Goto, MainCalls, TypeOK
  <2> QED BY <1>u, <2>1, SpendLess DEF TypeOK
<1>3. CASE ~(Total > 0 /\ HasFallback)
  BY <1>3, <1>u DEF SpendInv
<1> QED BY <1>1, <1>2, <1>3

(* A call that ends and charges what it used. *)
LEMMA SpendCharge ==
  ASSUME TypeOK, SpendInv, NEW c \in Call, pc[c] \in {"upstream", "last", "stream"},
         NEW phase \in Ended \ {"dropped"}, Finish(c, phase),
         NEW tokens \in {0, Cost}, Charge(c, tokens)
  PROVE  SpendInv'
<1> USE GatewayAssumption DEF TypeOK
<1>1. used' \in Nat /\ used <= used'
  BY DEF Charge
<1>2. MainCalls' = MainCalls \ {c}
  BY DEF Finish, Goto, MainCalls, Ended
<1>3. CASE target[c] # "main"
  BY <1>1, <1>2, <1>3, SpendLess DEF Charge
<1>4. CASE target[c] = "main"
  <2>1. c \in MainCalls
    BY <1>4 DEF MainCalls
  <2>2. Cardinality(MainCalls') = Cardinality(MainCalls) - 1
    BY <1>2, <2>1, MainCallsFinite, FS_RemoveElement
  <2>3. mainUsed' = mainUsed + tokens /\ mainUsed' <= used'
    BY <1>4 DEF Charge, SpendInv
  <2>4. 2 * Cost * Cardinality(MainCalls') = 2 * Cost * Cardinality(MainCalls) - 2 * Cost
    BY <2>2, MainCallsFinite
  <2>5. 2 * Cost * Cardinality(MainCalls) \in Int /\ 2 * Slots * Cost \in Int
    BY MainCallsFinite, SlotsNat
  <2>6. Total > 0 /\ HasFallback =>
          2 * mainUsed' + 2 * Cost * Cardinality(MainCalls') < Total + 2 * Slots * Cost
    BY <2>3, <2>4, <2>5 DEF SpendInv
  <2> QED BY <2>3, <2>6 DEF SpendInv, Slots
<1> QED BY <1>3, <1>4

LEMMA StepSpend ==
  ASSUME TypeOK, SlotsAccounted, SpendInv, [Next]_vars
  PROVE  SpendInv'
<1>1. TypeOK' /\ SlotsAccounted'
  BY StepInv
<1> USE DEF TypeOK
(* No other call goes to the main model, and nothing is charged. *)
<1>2. ASSUME MainCalls' \subseteq MainCalls, UNCHANGED budgetVars  PROVE  SpendInv'
  BY <1>2, SpendLess DEF budgetVars
<1>3. ASSUME NEW c \in Call, Request(c) \/ Enter(c)  PROVE  SpendInv'
  BY <1>3, <1>2 DEF Request, Enter, Goto, MainCalls
<1>4. ASSUME NEW c \in Call, Acquire(c)  PROVE  SpendInv'
  <2>1. CASE Dispatch(c)
    BY <1>1, <1>4, <2>1, SpendDispatch DEF Acquire
  <2>2. CASE Goto(c, "lock") /\ UNCHANGED target
    BY <1>2, <1>4, <2>2 DEF Acquire, Goto, MainCalls
  <2> QED BY <1>4, <2>1, <2>2 DEF Acquire
<1>5. ASSUME NEW c \in Call, Start(c) \/ Retry(c)  PROVE  SpendInv'
  BY <1>1, <1>5, SpendDispatch DEF Start, Retry
<1>6. ASSUME NEW c \in Call, Answer(c) \/ Close(c)  PROVE  SpendInv'
  <2>1. \E phase \in Ended \ {"dropped"}, tokens \in {0, Cost} :
          /\ pc[c] \in {"upstream", "last", "stream"}
          /\ Finish(c, phase) /\ Charge(c, tokens)
    BY <1>6 DEF Answer, Close, Ended
  <2> QED BY <2>1, SpendCharge
<1>7. ASSUME NEW c \in Call, Open(c) \/ Read(c) \/ Drop(c) \/ Fail(c)  PROVE  SpendInv'
  BY <1>2, <1>7 DEF Open, Read, Drop, Fail, Finish, Goto, MainCalls
<1>8. ASSUME NEW c \in Call, Transient(c)  PROVE  SpendInv'
  BY <1>2, <1>8 DEF Transient, Goto, MainCalls
<1>9. ASSUME NEW c \in Call, Cancel(c)  PROVE  SpendInv'
  BY <1>2, <1>9 DEF Cancel, Finish, Goto, MainCalls
<1>10. ASSUME Tick \/ UNCHANGED vars  PROVE  SpendInv'
  BY <1>2, <1>10 DEF Tick, vars, budgetVars, MainCalls
<1> QED BY <1>3, <1>4, <1>5, <1>6, <1>7, <1>8, <1>9, <1>10 DEF Next, Progress, Finished

(* The main model never uses more than half of the budget and one call for *)
(* each slot, for any budget, any limit of concurrency and any number of   *)
(* calls (TokenBudget.tier, GatewayThrottle._invoke_upstream).             *)
THEOREM MainSpendIsBounded == Spec => []MainSpendBounded
<1>1. Init => SpendInv
  <2> SUFFICES ASSUME Init PROVE SpendInv
    OBVIOUS
  <2>1. MainCalls = {}
    BY DEF Init, MainCalls
  <2>2. Cardinality(MainCalls) = 0
    BY <2>1, FS_EmptySet
  <2>3. 2 * Slots * Cost \in Nat
    BY SlotsNat, GatewayAssumption
  <2> QED BY <2>2, <2>3, GatewayAssumption DEF Init, SpendInv
<1>2. TypeOK /\ SlotsAccounted /\ SpendInv /\ [Next]_vars => SpendInv'
  BY StepSpend
<1>3. TypeOK /\ SpendInv => MainSpendBounded
  <2> SUFFICES ASSUME TypeOK, SpendInv PROVE MainSpendBounded
    OBVIOUS
  <2>1. 2 * Cost * Cardinality(MainCalls) \in Nat /\ 2 * Slots * Cost \in Int
    BY MainCallsFinite, SlotsNat, GatewayAssumption
  <2> QED BY <2>1, GatewayAssumption DEF SpendInv, MainSpendBounded, TypeOK
<1>4. Spec => []TypeOK /\ []SlotsAccounted
  BY TypeCorrect, SlotsAreAccounted
<1> QED BY <1>1, <1>2, <1>3, <1>4, PTL DEF Spec

=============================================================================
