------------------------ MODULE SharedBreaker_proofs ------------------------
(***************************************************************************)
(* Theorems about SharedBreaker for any set of callers, any threshold and  *)
(* any cooling time, however many faults there are.                        *)
(***************************************************************************)
EXTENDS SharedBreaker, TLAPS

(* A state some process has written: a half open breaker has cooled down,  *)
(* and one that is not closed has counted up to the threshold.             *)
Sane(state) ==
  /\ state \in State
  /\ state.half => state.age = Reset
  /\ state.age # NotOpen => state.failures = Threshold

(* What is on its way into the store is such a state too, and the mark of  *)
(* a probe is that of a half open one.                                     *)
CopyInv ==
  /\ \A value \in {store} \cup {copy[c] : c \in Caller} : value # None => Sane(value)
  /\ \A c \in Caller : pc[c] \in {"allowSave", "failSave"} => copy[c] # None
  /\ \A c \in Caller : pc[c] = "allowSave" => copy[c].half

(* The record of a failure leaves a state of that kind. *)
LEMMA FreshSane == Sane(Fresh) /\ Fresh.age = NotOpen /\ ~Fresh.half
BY SharedAssumption DEF Sane, Fresh, State, NotOpen

LEMMA StateOfSane ==
  ASSUME CopyInv
  PROVE  Sane(StateOf(store)) /\ \A c \in Caller : Sane(StateOf(copy[c]))
BY FreshSane DEF CopyInv, StateOf

LEMMA FailedSane ==
  ASSUME NEW state, Sane(state)
  PROVE  /\ Sane(Failed(state)) /\ Failed(state) # None /\ ~Failed(state).half
         /\ Failed(state).failures =
              IF state.half THEN state.failures ELSE UpTo(Threshold, state.failures + 1)
         /\ Failed(state).age =
              IF state.half \/ state.failures + 1 >= Threshold THEN 0 ELSE state.age
<1> USE SharedAssumption DEF Sane, State, NotOpen, UpTo
<1>1. CASE state.half
  <2>1. Failed(state) = [failures |-> state.failures, age |-> 0, half |-> FALSE]
    BY <1>1 DEF Failed
  <2>2. Sane(Failed(state))
    BY <1>1, <2>1
  <2>3. Failed(state) # None
    BY <2>2, NoKeyAssumption
  <2> QED BY <1>1, <2>1, <2>2, <2>3
<1>2. CASE ~state.half
  <2> DEFINE n == state.failures + 1
  <2>1. Failed(state) = [failures |-> UpTo(Threshold, n),
                         age |-> IF n >= Threshold THEN 0 ELSE state.age, half |-> state.half]
    BY <1>2 DEF Failed
  <2>2. n \in Nat /\ UpTo(Threshold, n) \in 0..Threshold
          /\ (n >= Threshold => UpTo(Threshold, n) = Threshold)
    OBVIOUS
  <2>3. state.half = FALSE
    BY <1>2
  <2>4. Sane(Failed(state))
    BY <2>1, <2>2, <2>3
  <2> QED BY <1>2, <2>1, <2>2, <2>4, NoKeyAssumption
<1> QED BY <1>1, <1>2

(* The mark of a probe. *)
LEMMA MarkSane ==
  ASSUME NEW state, Sane(state), state.age = Reset
  PROVE  LET mark == [state EXCEPT !.half = TRUE]
         IN /\ Sane(mark) /\ mark # None /\ mark.half
            /\ mark.failures = state.failures /\ mark.age = state.age
<1>1. /\ state \in State /\ state.failures \in 0..Threshold
      /\ state.age \in {NotOpen} \cup 0..Reset
  BY DEF Sane, State
<1> DEFINE mark == [state EXCEPT !.half = TRUE]
<1>2. mark \in State /\ mark.half /\ mark.failures = state.failures /\ mark.age = state.age
  <2>1. mark \in State
    BY <1>1 DEF State
  <2>2. mark.half = TRUE
    BY <1>1 DEF State
  <2>3. mark.failures = state.failures
    BY <1>1 DEF State
  <2>4. mark.age = state.age
    BY <1>1 DEF State
  <2> QED BY <2>1, <2>2, <2>3, <2>4
<1> HIDE DEF mark
<1>3. Sane(mark)
  BY <1>1, <1>2 DEF Sane
<1> QED BY <1>2, <1>3, NoKeyAssumption DEF mark

LEMMA OlderSane ==
  ASSUME NEW value, value # None => Sane(value)
  PROVE  /\ Older(value) # None => Sane(Older(value))
         /\ Older(value) = None <=> value = None
         /\ StateOf(Older(value)).failures = StateOf(value).failures
         /\ StateOf(Older(value)).half = StateOf(value).half
         /\ StateOf(Older(value)).age =
              IF StateOf(value).age = NotOpen THEN NotOpen
              ELSE UpTo(Reset, StateOf(value).age + 1)
<1> USE SharedAssumption, NoKeyAssumption
<1>1. CASE StateOf(value).age = NotOpen
  BY <1>1 DEF Older
<1>2. CASE StateOf(value).age # NotOpen
  <2>1. value # None /\ Sane(value) /\ StateOf(value) = value
    BY <1>2, FreshSane DEF StateOf
  <2>2. Older(value) =
          [failures |-> value.failures, age |-> UpTo(Reset, value.age + 1), half |-> value.half]
    BY <1>2, <2>1 DEF Older, Sane, State
  <2>3. value.age \in 0..Reset
    BY <1>2, <2>1 DEF Sane, State
  <2>4. UpTo(Reset, value.age + 1) \in 0..Reset
           /\ (value.age = Reset => UpTo(Reset, value.age + 1) = Reset)
    BY <2>3 DEF UpTo
  <2>5. Sane(Older(value))
    BY <1>2, <2>1, <2>2, <2>4 DEF Sane, State, NotOpen
  <2>6. Older(value) # None
    BY <2>5 DEF Sane
  <2> QED BY <1>2, <2>1, <2>2, <2>5, <2>6 DEF StateOf
<1> QED BY <1>1, <1>2

-----------------------------------------------------------------------------
(* The types *)

Inv == TypeOK /\ CopyInv

LEMMA InitTypes == Init => Inv
<1> SUFFICES ASSUME Init PROVE Inv
  OBVIOUS
<1> USE SharedAssumption DEF Init
<1>1. CopyInv
  BY DEF CopyInv
<1>2. \A value \in {store} \cup {copy[c] : c \in Caller} : StateOf(value) = Fresh
  BY DEF StateOf
<1> QED BY <1>1, <1>2, FreshSane DEF Inv, TypeOK

LEMMA StepCopies ==
  ASSUME Inv, [Next]_vars
  PROVE  CopyInv'
<1> DEFINE Values == {store} \cup {copy[c] : c \in Caller}
<1> USE DEF Inv, Goto
<1>1. /\ \A c \in Caller : copy[c] # None => Sane(copy[c])
      /\ store # None => Sane(store)
      /\ pc \in [Caller -> {"idle", "allowSave", "call", "delete", "failLoad", "failSave"}]
      /\ copy \in [Caller -> State \cup {None}]
  BY DEF CopyInv, TypeOK
<1>2. ASSUME NEW c \in Caller, NEW phase \in {"idle", "call", "delete", "failLoad"},
             pc' = [pc EXCEPT ![c] = phase],
             store' \in {None, store, copy[c]},
             copy' \in {copy, [copy EXCEPT ![c] = None]}
      PROVE  CopyInv'
  <2>1. \A d \in Caller : d # c => pc'[d] = pc[d] /\ copy'[d] = copy[d]
    BY <1>1, <1>2
  <2>2. pc'[c] = phase /\ copy'[c] \in {copy[c], None}
    BY <1>1, <1>2
  <2> QED BY <1>1, <1>2, <2>1, <2>2 DEF CopyInv
<1>3. ASSUME NEW c \in Caller, NEW phase \in {"allowSave", "failSave"}, NEW state,
             Sane(state), state # None, phase = "allowSave" => state.half,
             store' = store, pc' = [pc EXCEPT ![c] = phase],
             copy' = [copy EXCEPT ![c] = state]
      PROVE  CopyInv'
  <2>1. \A d \in Caller : d # c => pc'[d] = pc[d] /\ copy'[d] = copy[d]
    BY <1>1, <1>3
  <2>2. pc'[c] = phase /\ copy'[c] = state
    BY <1>1, <1>3
  <2> QED BY <1>1, <1>3, <2>1, <2>2 DEF CopyInv
<1>4. ASSUME NEW c \in Caller, AllowProbe(c)
      PROVE  CopyInv'
  <2> DEFINE mark == [store EXCEPT !.half = TRUE]
  <2>1. store # None /\ Sane(store) /\ store.age = Reset
    BY <1>1, <1>4, FreshSane, SharedAssumption DEF AllowProbe, StateOf, NotOpen
  <2>2. Sane(mark) /\ mark # None /\ mark.half
    BY <2>1, MarkSane
  <2>3. store' = store /\ pc' = [pc EXCEPT ![c] = "allowSave"]
        /\ copy' = [copy EXCEPT ![c] = mark]
    BY <1>4 DEF AllowProbe
  <2> HIDE DEF mark
  <2> QED BY <1>3, <2>2, <2>3
<1>5. ASSUME NEW c \in Caller, NEW state, Sane(state), Recorded(c, Failed(state)), store' = store
      PROVE  CopyInv'
  <2>1. Sane(Failed(state)) /\ Failed(state) # None
    BY <1>5, FailedSane
  <2>2. pc' = [pc EXCEPT ![c] = "failSave"] /\ copy' = [copy EXCEPT ![c] = Failed(state)]
    BY <1>5 DEF Recorded
  <2> QED BY <1>3, <1>5, <2>1, <2>2
<1>6. ASSUME NEW c \in Caller, Step(c)
      PROVE  CopyInv'
  <2>1. CASE SaveProbe(c)
    BY <1>2, <2>1 DEF SaveProbe
  <2>2. CASE Finish(c)
    BY <1>2, <2>2 DEF Finish
  <2>3. CASE RecordSuccess(c)
    BY <1>2, <2>3 DEF RecordSuccess
  <2>4. CASE LoadFailure(c)
    BY <1>5, <2>4, StateOfSane DEF LoadFailure
  <2>5. CASE SaveFailure(c)
    BY <1>2, <2>5 DEF SaveFailure
  <2> QED BY <1>6, <2>1, <2>2, <2>3, <2>4, <2>5 DEF Step
<1>7. ASSUME NEW c \in Caller, AllowClosed(c) \/ Abandon(c)
      PROVE  CopyInv'
  BY <1>2, <1>7 DEF AllowClosed, Abandon
<1>8. ASSUME NEW c \in Caller, LoadFault(c)
      PROVE  CopyInv'
  BY <1>2, <1>5, <1>8, FreshSane DEF LoadFault
<1>9. ASSUME NEW c \in Caller, SaveFault(c)
      PROVE  CopyInv'
  BY <1>2, <1>9 DEF SaveFault
<1>10. CASE Expire
  BY <1>1, <1>10 DEF Expire, CopyInv
<1>11. CASE Tick
  <2>1. store' = Older(store) /\ pc' = pc /\ \A c \in Caller : copy'[c] = Older(copy[c])
    BY <1>11 DEF Tick
  <2>2. store' # None => Sane(store')
    BY <1>1, <2>1, OlderSane
  <2>3. \A c \in Caller : copy'[c] # None => Sane(copy'[c])
    BY <1>1, <2>1, OlderSane
  <2>4. \A c \in Caller : copy'[c] = None <=> copy[c] = None
    BY <1>1, <2>1, OlderSane
  <2>5. \A c \in Caller : copy[c] # None => copy'[c].half = copy[c].half
    BY <1>1, <2>1, <2>4, OlderSane DEF StateOf
  <2> QED BY <2>1, <2>2, <2>3, <2>4, <2>5 DEF CopyInv
<1>12. CASE UNCHANGED vars
  BY <1>1, <1>12 DEF vars, CopyInv
<1> QED
  BY <1>4, <1>6, <1>7, <1>8, <1>9, <1>10, <1>11, <1>12 DEF Next, Reject

LEMMA StepTypes ==
  ASSUME Inv, [Next]_vars
  PROVE  TypeOK'
<1> DEFINE Phases == {"idle", "allowSave", "call", "delete", "failLoad", "failSave"}
           Kinds == /\ store' \in State \cup {None}
                    /\ copy' \in [Caller -> State \cup {None}]
                    /\ pc' \in [Caller -> Phases]
                    /\ faults' \in 0..MaxFaults
                    /\ streak' \in 0..Threshold
                    /\ probe' \subseteq Caller
                    /\ cooling' \in 0..Reset
<1>1. CopyInv'
  BY StepCopies
<1>2. \A value \in {store'} \cup {copy'[c] : c \in Caller} : Sane(StateOf(value))
  BY <1>1, FreshSane DEF CopyInv, StateOf
<1>3. SUFFICES Kinds
  BY <1>2 DEF TypeOK, Sane
<1> USE SharedAssumption DEF Inv, TypeOK, Goto, Fault
<1>4. \A c \in Caller : copy[c] \in State \cup {None}
  OBVIOUS
<1>5. ASSUME NEW c \in Caller, NEW state, Sane(state), Recorded(c, Failed(state)), store' = store,
             faults' \in 0..MaxFaults
      PROVE  Kinds
  <2>1. Failed(state) \in State
    BY <1>5, FailedSane DEF Sane
  <2>2. cooling' \in 0..Reset /\ streak' \in 0..Threshold
    BY <1>5 DEF Recorded, UpTo
  <2> QED BY <1>5, <2>1, <2>2 DEF Recorded
<1>6. ASSUME NEW c \in Caller, AllowProbe(c)
      PROVE  Kinds
  <2>1. store # None /\ Sane(store) /\ store.age = Reset
    BY <1>6, FreshSane DEF AllowProbe, StateOf, NotOpen, CopyInv
  <2>2. [store EXCEPT !.half = TRUE] \in State
    BY <2>1, MarkSane DEF Sane
  <2> QED BY <1>6, <2>2 DEF AllowProbe
<1>7. ASSUME NEW c \in Caller, AllowClosed(c) \/ SaveProbe(c) \/ Finish(c) \/ Abandon(c)
      PROVE  Kinds
  BY <1>4, <1>7 DEF AllowClosed, SaveProbe, Finish, Abandon
<1>8. ASSUME NEW c \in Caller, RecordSuccess(c) \/ SaveFailure(c)
      PROVE  Kinds
  BY <1>4, <1>8 DEF RecordSuccess, SaveFailure
<1>9. ASSUME NEW c \in Caller, LoadFailure(c)
      PROVE  Kinds
  BY <1>5, <1>9, StateOfSane DEF LoadFailure
<1>10. ASSUME NEW c \in Caller, LoadFault(c)
       PROVE  Kinds
  <2>1. faults' \in 0..MaxFaults
    BY <1>10 DEF LoadFault
  <2> QED BY <1>5, <1>10, <2>1, FreshSane DEF LoadFault
<1>11. ASSUME NEW c \in Caller, SaveFault(c)
       PROVE  Kinds
  BY <1>11 DEF SaveFault
<1>12. CASE Expire
  BY <1>12 DEF Expire
<1>13. CASE Tick
  <2>1. store' \in State \cup {None}
    BY <1>1 DEF CopyInv, Sane
  <2>2. \A c \in Caller : copy'[c] \in State \cup {None}
    BY <1>1 DEF CopyInv, Sane
  <2>3. copy' = [c \in Caller |-> copy'[c]]
    BY <1>13 DEF Tick
  <2>4. copy' \in [Caller -> State \cup {None}]
    BY <2>2, <2>3
  <2>5. cooling' \in 0..Reset
    BY <1>13 DEF Tick
  <2> QED BY <1>13, <2>1, <2>4, <2>5 DEF Tick
<1>14. CASE UNCHANGED vars
  BY <1>14 DEF vars
<1> QED
  BY <1>6, <1>7, <1>8, <1>9, <1>10, <1>11, <1>12, <1>13, <1>14 DEF Next, Reject, Step

LEMMA SharedInvariant == Spec => []Inv
<1>1. Inv /\ [Next]_vars => Inv'
  BY StepCopies, StepTypes DEF Inv
<1> QED BY <1>1, InitTypes, PTL DEF Spec

(* Every variable has its type, and whatever callers and faults race for   *)
(* the key, what it holds and what a caller is about to write there are    *)
(* states of the breaker: an open one has counted up to the threshold, and *)
(* a half open one has cooled down.  Nothing is said of how long it cools. *)
THEOREM SharedTypes == Spec => []TypeOK
BY SharedInvariant, PTL DEF Inv

-----------------------------------------------------------------------------
(* The local breaker *)

(* In an undisturbed step that changes the phase of a caller no other is   *)
(* between its read and its write.                                         *)
LEMMA Alone ==
  ASSUME Inv, Undisturbed, NEW c \in Caller, NEW phase, phase # pc[c],
         pc' = [pc EXCEPT ![c] = phase]
  PROVE  \A d \in Caller \ {c} : /\ pc[d] \notin {"allowSave", "failSave"} /\ pc'[d] = pc[d]
BY DEF Undisturbed, Inv, TypeOK

LEMMA ViewOfStore ==
  ASSUME \A c \in Caller : pc[c] # "failSave"
  PROVE  View = StateOf(store)
BY DEF View

LEMMA ViewOfCopy ==
  ASSUME NEW c \in Caller, pc[c] = "failSave", \A d \in Caller \ {c} : pc[d] # "failSave"
  PROVE  View = copy[c]
BY DEF View

LEMMA StepImplements ==
  ASSUME Inv, [Next]_vars, Undisturbed
  PROVE  [Local!Next]_(Local!vars)
<1> DEFINE mapped == [c \in Caller |->
                       IF pc[c] \in {"idle", "allowSave", "failSave"} THEN "idle" ELSE "call"]
<1> USE DEF Goto
<1>1. Inv' /\ faults' = faults /\ faults \in Nat
  BY StepCopies, StepTypes, SharedAssumption DEF Inv, TypeOK, Undisturbed
<1>2. Sane(StateOf(store)) /\ pc \in
        [Caller -> {"idle", "allowSave", "call", "delete", "failLoad", "failSave"}]
  BY StateOfSane DEF Inv, TypeOK
<1>3. ASSUME NEW c \in Caller, AllowClosed(c)
      PROVE  Local!Call(c)
  <2>1. \A d \in Caller : pc[d] # "failSave" /\ pc'[d] # "failSave"
    BY <1>2, <1>3, Alone DEF AllowClosed
  <2>2. View = StateOf(store) /\ View' = StateOf(store) /\ store' = store
    BY <1>3, <2>1 DEF AllowClosed, View, StateOf
  <2>3. mapped' = [mapped EXCEPT ![c] = "call"] /\ mapped[c] = "idle"
    BY <1>2, <1>3 DEF AllowClosed
  <2>4. View.age = NotOpen /\ ~View.half /\ View.age # Reset /\ View.half \in BOOLEAN
    BY <1>2, <1>3, <2>2, SharedAssumption DEF AllowClosed, Sane, State, NotOpen
  <2> QED BY <1>3, <2>2, <2>3, <2>4
          DEF AllowClosed, Local!Call, Local!Allows, Local!NotOpen, NotOpen
<1>4. ASSUME NEW c \in Caller, AllowProbe(c)
      PROVE  UNCHANGED Local!vars
  <2>1. \A d \in Caller : pc[d] # "failSave" /\ pc'[d] # "failSave"
    BY <1>2, <1>4, Alone DEF AllowProbe
  <2>2. View = StateOf(store) /\ View' = StateOf(store)
    BY <1>4, <2>1 DEF AllowProbe, View, StateOf
  <2>3. mapped' = mapped
    BY <1>2, <1>4 DEF AllowProbe
  <2> QED BY <1>4, <2>2, <2>3 DEF AllowProbe, Local!vars
<1>5. ASSUME NEW c \in Caller, SaveProbe(c)
      PROVE  Local!Call(c)
  <2>1. \A d \in Caller : pc[d] # "failSave" /\ pc'[d] # "failSave"
    BY <1>2, <1>5, Alone DEF SaveProbe
  <2>2. /\ copy[c] = [StateOf(store) EXCEPT !.half = TRUE] /\ store' = copy[c]
        /\ copy[c] # None /\ copy[c].half /\ Sane(copy[c])
    BY <1>5 DEF SaveProbe, Undisturbed, Inv, CopyInv
  <2>3. View = StateOf(store) /\ View' = copy[c]
    BY <2>1, <2>2 DEF View, StateOf
  <2>4. mapped' = [mapped EXCEPT ![c] = "call"] /\ mapped[c] = "idle"
    BY <1>2, <1>5 DEF SaveProbe
  <2>5. /\ View'.failures = View.failures /\ View'.age = View.age /\ View'.half = TRUE
        /\ View.age = Reset
    <3> DEFINE state == StateOf(store)
    <3>1. state \in State
      BY <1>2 DEF Sane
    <3> HIDE DEF state
    <3>2. copy[c] = [state EXCEPT !.half = TRUE]
      BY <2>2 DEF state
    <3>3. copy[c].failures = state.failures
      BY <3>1, <3>2 DEF State
    <3>4. copy[c].age = state.age
      BY <3>1, <3>2 DEF State
    <3>5. copy[c].half = TRUE
      BY <3>1, <3>2 DEF State
    <3>6. copy[c].age = Reset
      BY <2>2 DEF Sane
    <3> QED BY <2>3, <3>3, <3>4, <3>5, <3>6 DEF state
  <2> QED BY <1>5, <2>4, <2>5 DEF SaveProbe, Local!Call, Local!Allows
<1>6. ASSUME NEW c \in Caller, Finish(c)
      PROVE  UNCHANGED Local!vars
  <2>1. PICK next \in {"delete", "failLoad"} : pc' = [pc EXCEPT ![c] = next]
    BY <1>6 DEF Finish
  <2>2. \A d \in Caller : pc[d] # "failSave" /\ pc'[d] # "failSave"
    BY <1>2, <1>6, <2>1, Alone DEF Finish
  <2>3. View = StateOf(store) /\ View' = StateOf(store)
    BY <1>6, <2>2 DEF Finish, View, StateOf
  <2>4. mapped' = mapped
    BY <1>2, <1>6, <2>1 DEF Finish
  <2> QED BY <1>6, <2>3, <2>4 DEF Finish, Local!vars
<1>7. ASSUME NEW c \in Caller, Abandon(c)
      PROVE  Local!Abandon(c)
  <2>1. \A d \in Caller : pc[d] # "failSave" /\ pc'[d] # "failSave"
    BY <1>2, <1>7, Alone DEF Abandon
  <2>2. View = StateOf(store) /\ View' = StateOf(store)
    BY <1>7, <2>1 DEF Abandon, View, StateOf
  <2>3. mapped' = [mapped EXCEPT ![c] = "idle"] /\ mapped[c] = "call"
    BY <1>2, <1>7 DEF Abandon
  <2> QED BY <1>7, <2>2, <2>3 DEF Abandon, Local!Abandon, Local!Ends
<1>8. ASSUME NEW c \in Caller, RecordSuccess(c)
      PROVE  Local!RecordSuccess(c)
  <2>1. \A d \in Caller : pc[d] # "failSave" /\ pc'[d] # "failSave"
    BY <1>2, <1>8, Alone DEF RecordSuccess
  <2>2. View' = Fresh
    BY <1>8, <2>1 DEF RecordSuccess, View, StateOf
  <2>3. mapped' = [mapped EXCEPT ![c] = "idle"] /\ mapped[c] = "call"
    BY <1>2, <1>8 DEF RecordSuccess
  <2> QED BY <1>8, <2>2, <2>3
          DEF RecordSuccess, Local!RecordSuccess, Local!Ends, Local!NotOpen, NotOpen, Fresh
<1>9. ASSUME NEW c \in Caller, LoadFailure(c)
      PROVE  Local!RecordFailure(c)
  <2> DEFINE state == StateOf(store)
  <2>1. /\ pc[c] = "failLoad" /\ pc' = [pc EXCEPT ![c] = "failSave"]
        /\ copy' = [copy EXCEPT ![c] = Failed(state)]
        /\ streak' = UpTo(Threshold, streak + 1) /\ probe' = probe \ {c}
        /\ cooling' = IF Failed(state).age = 0 THEN Reset ELSE cooling
    BY <1>9 DEF LoadFailure, Recorded
  <2>2. \A d \in Caller \ {c} : pc[d] # "failSave" /\ pc'[d] # "failSave"
    BY <1>2, <2>1, Alone
  <2>3. View = state
    BY <2>1, <2>2 DEF View
  <2>4. View' = Failed(state)
    <3>1. pc'[c] = "failSave" /\ copy'[c] = Failed(state)
      BY <1>2, <2>1 DEF Inv, TypeOK
    <3> HIDE DEF state
    <3> QED BY <2>2, <3>1 DEF View
  <2>5. mapped' = [mapped EXCEPT ![c] = "idle"] /\ mapped[c] = "call"
    BY <1>2, <2>1
  <2>6. Sane(state)
    BY <1>2
  <2> HIDE DEF state
  <2>7. /\ ~Failed(state).half /\ Failed(state).half \in BOOLEAN
        /\ Failed(state).failures =
             IF state.half THEN state.failures ELSE UpTo(Threshold, state.failures + 1)
        /\ Failed(state).age =
             IF state.half \/ state.failures + 1 >= Threshold THEN 0 ELSE state.age
    BY <2>6, FailedSane DEF Sane, State
  <2>8. Local!Ends(c)
    BY <2>1, <2>5 DEF Local!Ends
  <2>9. View'.half = FALSE
    BY <2>4, <2>7
  <2>10. CASE state.half
    <3>1. View'.age = 0 /\ View'.failures = View.failures
      BY <2>3, <2>4, <2>7, <2>10
    <3> QED BY <2>1, <2>3, <2>4, <2>8, <2>9, <2>10, <3>1
            DEF Local!RecordFailure, Local!UpTo, UpTo
  <2>11. CASE ~state.half
    <3>1. /\ View'.age = IF View.failures + 1 >= Threshold THEN 0 ELSE View.age
          /\ View'.failures = UpTo(Threshold, View.failures + 1)
      BY <2>3, <2>4, <2>7, <2>11
    <3> QED BY <2>1, <2>3, <2>4, <2>8, <2>9, <2>11, <3>1
            DEF Local!RecordFailure, Local!UpTo, UpTo
  <2> QED BY <2>10, <2>11
<1>10. ASSUME NEW c \in Caller, SaveFailure(c)
       PROVE  UNCHANGED Local!vars
  <2>1. \A d \in Caller \ {c} : pc[d] # "failSave" /\ pc'[d] # "failSave"
    BY <1>2, <1>10, Alone DEF SaveFailure
  <2>2. View = copy[c]
    BY <1>10, <2>1 DEF SaveFailure, View
  <2>3. View' = copy[c]
    <3>1. \A d \in Caller : pc'[d] # "failSave"
      BY <1>2, <1>10, <2>1 DEF SaveFailure
    <3>2. copy[c] # None /\ store' = copy[c]
      BY <1>10 DEF SaveFailure, Inv, CopyInv
    <3> QED BY <3>1, <3>2 DEF View, StateOf
  <2>4. mapped' = mapped
    BY <1>2, <1>10 DEF SaveFailure
  <2> QED BY <1>10, <2>2, <2>3, <2>4 DEF SaveFailure, Local!vars
<1>11. ASSUME NEW c \in Caller, LoadFault(c) \/ SaveFault(c)
       PROVE  FALSE
  BY <1>1, <1>11 DEF LoadFault, SaveFault, Fault
<1>12. CASE Expire
  BY <1>1, <1>12 DEF Expire, Fault
<1>13. CASE Tick
  <2> DEFINE busy == \E c \in Caller : pc[c] = "failSave"
             saver == CHOOSE c \in Caller : pc[c] = "failSave"
  <2>1. /\ pc' = pc /\ streak' = streak /\ probe' = probe
        /\ store' = Older(store) /\ \A c \in Caller : copy'[c] = Older(copy[c])
        /\ cooling' = IF cooling = 0 THEN 0 ELSE cooling - 1
    BY <1>13 DEF Tick
  <2>2. /\ View \in State /\ View'.failures = View.failures /\ View'.half = View.half
        /\ View'.age = IF View.age = NotOpen THEN NotOpen ELSE UpTo(Reset, View.age + 1)
    <3>1. CASE busy
      <4>1. saver \in Caller /\ pc[saver] = "failSave"
        BY <3>1
      <4>2. View = copy[saver] /\ View' = copy'[saver]
        BY <2>1, <3>1 DEF View
      <4> HIDE DEF saver
      <4>3. copy[saver] # None /\ Sane(copy[saver]) /\ copy'[saver] = Older(copy[saver])
        BY <2>1, <4>1 DEF Inv, CopyInv
      <4>4. Older(copy[saver]) # None
        BY <4>3, OlderSane
      <4> QED BY <4>2, <4>3, <4>4, OlderSane DEF StateOf, Sane
    <3>2. CASE ~busy
      <4>1. View = StateOf(store) /\ View' = StateOf(Older(store))
        BY <2>1, <3>2 DEF View, StateOf
      <4>2. store # None => Sane(store)
        BY DEF Inv, CopyInv
      <4> QED BY <1>2, <4>1, <4>2, OlderSane DEF Sane
    <3> QED BY <3>1, <3>2
  <2>3. mapped' = mapped
    BY <2>1
  <2> HIDE DEF mapped
  <2>4. View.age \in {NotOpen} \cup 0..Reset /\ cooling \in 0..Reset
    BY <2>2 DEF State, Inv, TypeOK
  <2>5. CASE View.age \in 0..(Reset - 1) \/ cooling > 0
    <3>1. Local!Tick
      BY <2>1, <2>2, <2>3, <2>5
         DEF Local!Tick, Local!NotOpen, Local!UpTo, NotOpen, UpTo, mapped
    <3> QED BY <3>1 DEF Local!Next
  <2>6. CASE ~(View.age \in 0..(Reset - 1) \/ cooling > 0)
    <3>1. cooling' = cooling /\ View'.age = View.age
      BY <2>1, <2>2, <2>4, <2>6, SharedAssumption DEF UpTo, NotOpen
    <3> QED BY <2>1, <2>2, <2>3, <3>1 DEF Local!vars, mapped
  <2> QED BY <2>5, <2>6
<1>14. CASE UNCHANGED vars
  <2>1. View' = View
    BY <1>14 DEF vars, View, StateOf
  <2> QED BY <1>14, <2>1 DEF vars, Local!vars
<1> HIDE DEF mapped
<1> QED
  BY <1>3, <1>4, <1>5, <1>6, <1>7, <1>8, <1>9, <1>10, <1>11, <1>12, <1>13, <1>14
     DEF Next, Reject, Step, Local!Next

(* A tool's breaker in Redis is the breaker of one process, but for the     *)
(* window between a read and a write: every step during which the store    *)
(* answers and no other caller is in that window is a step of the local    *)
(* breaker on the state that the caller sees, whatever came before.        *)
THEOREM SharedImplementsLocal == Spec => ImplementsLocal
<1>1. Init => Local!Init
  <2> SUFFICES ASSUME Init PROVE Local!Init
    OBVIOUS
  <2>1. View = Fresh
    BY DEF Init, View, StateOf
  <2> QED BY <2>1 DEF Init, Local!Init, Local!NotOpen, NotOpen, Fresh
<1>2. Inv /\ [Next]_vars => [Undisturbed => [Local!Next]_(Local!vars)]_vars
  BY StepImplements
<1> QED BY <1>1, <1>2, SharedInvariant, PTL DEF Spec, ImplementsLocal

=============================================================================
