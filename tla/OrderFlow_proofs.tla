-------------------------- MODULE OrderFlow_proofs --------------------------
(***************************************************************************)
(* Theorems about OrderFlow for any set of clients, SKUs, products and     *)
(* quantities and any bounds.                                              *)
(***************************************************************************)
EXTENDS OrderFlow, TLAPS

-----------------------------------------------------------------------------
(* What the helpers do. *)

(* The other clients' requests are where they were. *)
OthersWait(c) ==
  \A d \in Client \ {c} : /\ pc'[d] = pc[d] /\ draft'[d] = draft[d]
                          /\ oid'[d] = oid[d] /\ at'[d] = at[d]

(* Saving keeps the type of the table, shrinks nothing, and changes at     *)
(* most the saved row.                                                     *)
LEMMA MergeType ==
  ASSUME NEW S, NEW table \in Seq(S), NEW o \in S, NEW k \in 1..(Len(table) + 1)
  PROVE  /\ Merge(table, k, o) \in Seq(S)
         /\ Len(Merge(table, k, o)) >= Len(table)
         /\ \A i \in DOMAIN Merge(table, k, o) :
              \/ Merge(table, k, o)[i] = o
              \/ i \in DOMAIN table /\ Merge(table, k, o)[i] = table[i]
<1>1. CASE k > Len(table)
  BY <1>1 DEF Merge
<1>2. CASE k <= Len(table)
  BY <1>2 DEF Merge
<1> QED BY <1>1, <1>2

(* A stock write of a natural number keeps the types of the catalogue. *)
LEMMA WriteStockType ==
  ASSUME CatalogTypeOK, NEW s \in Sku, NEW n \in Nat, WriteStock(s, n)
  PROVE  CatalogTypeOK'
BY DEF WriteStock, CatalogTypeOK

(* Returning leaves the request of c idle, with an empty draft. *)
LEMMA ReturnStep ==
  ASSUME RequestTypeOK, NEW c \in Client, Return(c)
  PROVE  /\ RequestTypeOK'
         /\ pc'[c] = "idle" /\ draft'[c].lines = <<>>
         /\ OthersWait(c)
BY DEF Return, RequestTypeOK, EmptyDraft, Order, Status, Phase, OthersWait

(* Unwinding leaves c idle, or about to put its last line back. *)
LEMMA UnwindStep ==
  ASSUME RequestTypeOK, NEW c \in Client, Unwind(c)
  PROVE  /\ RequestTypeOK'
         /\ \/ pc'[c] = "idle" /\ draft'[c].lines = <<>>
            \/ /\ pc'[c] = "undo" /\ draft'[c] = draft[c]
               /\ at'[c] \in 1..Len(draft[c].lines)
         /\ OthersWait(c)
<1>1. CASE draft[c].lines = <<>>
  BY <1>1, ReturnStep DEF Unwind
<1>2. CASE draft[c].lines # <<>>
  <2>1. draft[c].lines \in Seq(Line)
    BY DEF RequestTypeOK, Order
  <2>2. Len(draft[c].lines) \in Nat /\ Len(draft[c].lines) # 0
    BY <1>2, <2>1
  <2>3. /\ pc' = [pc EXCEPT ![c] = "undo"]
        /\ at' = [at EXCEPT ![c] = Len(draft[c].lines)]
        /\ draft' = draft /\ oid' = oid
    BY <1>2 DEF Unwind
  <2>4. RequestTypeOK'
    BY <2>2, <2>3 DEF RequestTypeOK, Phase, Placing
  <2>5. pc'[c] = "undo" /\ draft'[c] = draft[c] /\ at'[c] \in 1..Len(draft[c].lines)
    BY <2>2, <2>3 DEF RequestTypeOK
  <2>6. OthersWait(c)
    BY <2>3 DEF OthersWait, RequestTypeOK
  <2> QED BY <2>4, <2>5, <2>6
<1> QED BY <1>1, <1>2

(* A line of a draft is a line, with a card. *)
LEMMA LineAt ==
  ASSUME RequestTypeOK, NEW c \in Client, NEW i \in 1..Len(draft[c].lines)
  PROVE  /\ draft[c].lines \in Seq(Line) /\ i \in 1..Len(draft[c].lines)
         /\ draft[c].lines[i].card \in Card
<1>1. draft[c].lines \in Seq(Line)
  BY DEF RequestTypeOK, Order
<1>2. draft[c].lines[i] \in Line
  BY <1>1
<1> QED BY <1>1, <1>2 DEF Line

(* The lines of a draft are a sequence. *)
LEMMA LinesType ==
  ASSUME RequestTypeOK, NEW c \in Client
  PROVE  draft[c].lines \in Seq(Line) /\ Len(draft[c].lines) \in Nat
<1>1. draft[c] \in Order
  BY DEF RequestTypeOK
<1>2. draft[c].lines \in Seq(Line)
  BY <1>1 DEF Order
<1> QED BY <1>2

(* A request moves to its next call. *)
LEMMA MoveStep ==
  ASSUME RequestTypeOK, NEW c \in Client, NEW p \in Phase,
         pc' = [pc EXCEPT ![c] = p],
         draft' \in [Client -> Order], \A d \in Client \ {c} : draft'[d] = draft[d],
         oid' \in [Client -> Nat], \A d \in Client \ {c} : oid'[d] = oid[d],
         at' \in [Client -> Nat], \A d \in Client \ {c} : at'[d] = at[d]
  PROVE  RequestTypeOK' /\ OthersWait(c) /\ pc'[c] = p
<1>1. pc' \in [Client -> Phase] /\ pc'[c] = p /\ \A d \in Client \ {c} : pc'[d] = pc[d]
  BY DEF RequestTypeOK
<1> QED BY <1>1 DEF RequestTypeOK, OthersWait

(* Reserving appends one line to the draft of c, and to no other draft. *)
LEMMA AppendLine ==
  ASSUME RequestTypeOK, NEW c \in Client, NEW line \in Line,
         draft' = [draft EXCEPT ![c].lines = Append(@, line)]
  PROVE  /\ draft' \in [Client -> Order]
         /\ draft'[c].lines = Append(draft[c].lines, line)
         /\ Len(draft'[c].lines) = Len(draft[c].lines) + 1
         /\ Len(draft[c].lines) \in Nat
         /\ draft'[c].lines # <<>>
         /\ \A d \in Client \ {c} : draft'[d] = draft[d]
<1>1. draft[c] \in Order /\ draft[c].lines \in Seq(Line)
  BY DEF RequestTypeOK, Order
<1>2. Append(draft[c].lines, line) \in Seq(Line)
  BY <1>1
<1>3. draft' = [draft EXCEPT ![c] = [draft[c] EXCEPT !.lines = Append(draft[c].lines, line)]]
  OBVIOUS
<1>4. [draft[c] EXCEPT !.lines = Append(draft[c].lines, line)] \in Order
  BY <1>1, <1>2 DEF Order
<1>5. draft' \in [Client -> Order]
  BY <1>3, <1>4 DEF RequestTypeOK
<1>6. draft'[c].lines = Append(draft[c].lines, line)
  BY <1>1, <1>3 DEF RequestTypeOK, Order
<1>7. \A d \in Client \ {c} : draft'[d] = draft[d]
  BY <1>3 DEF RequestTypeOK
<1>8. /\ Len(Append(draft[c].lines, line)) = Len(draft[c].lines) + 1
      /\ Len(draft[c].lines) \in Nat
      /\ Append(draft[c].lines, line) # <<>>
  BY <1>1
<1> QED BY <1>5, <1>6, <1>7, <1>8

(* A step of one client leaves the others' phases sound. *)
LEMMA PhaseStep ==
  ASSUME TypeOK, PhaseOK, NEW c \in Client, OthersWait(c), RequestOK(c)',
         \A d \in Client \ {c} : cart'[d] = cart[d],
         orders' = orders
  PROVE  PhaseOK'
<1>1. ASSUME NEW d \in Client, d # c
      PROVE  RequestOK(d)'
  <2>1. RequestOK(d)
    BY DEF PhaseOK
  <2>2. /\ pc'[d] = pc[d] /\ draft'[d] = draft[d] /\ oid'[d] = oid[d]
        /\ at'[d] = at[d] /\ cart'[d] = cart[d]
    BY <1>1 DEF OthersWait
  <2> QED BY <2>1, <2>2 DEF RequestOK, Idle, Cancelling
<1>2. \A d \in Client : RequestOK(d)'
  BY <1>1
<1> QED BY <1>2 DEF PhaseOK

(* A step that leaves requests, carts and orders alone. *)
LEMMA PhaseStutter ==
  ASSUME PhaseOK, UNCHANGED <<requestVars, cart, orders>>
  PROVE  PhaseOK'
<1>1. pc' = pc /\ draft' = draft /\ oid' = oid /\ at' = at /\ cart' = cart /\ orders' = orders
  BY DEF requestVars
<1> QED BY <1>1 DEF PhaseOK, RequestOK, Idle

(* Putting the units of a card back keeps the types of the catalogue. *)
LEMMA RestoreType ==
  ASSUME CatalogTypeOK, NEW card \in Card, WriteStock(card.sku, PutBack(card))
  PROVE  CatalogTypeOK'
<1>1. card.sku \in Sku /\ card.quantity \in Nat
  BY ConstantsAssumption DEF Card
<1>2. stock[card.sku] \in Nat
  BY <1>1 DEF CatalogTypeOK
<1>3. PutBack(card) \in Nat
  BY <1>1, <1>2 DEF PutBack
<1> QED BY <1>1, <1>3, WriteStockType

(* A request that fails: it unwinds or returns and changes nothing else. *)
LEMMA FailedStep ==
  ASSUME TypeOK, PhaseOK, NEW c \in Client, Unwind(c) \/ Return(c),
         UNCHANGED <<catalogVars, orders, cart, requests, changes, supply, spent,
                     receipts>>
  PROVE  TypeOK' /\ PhaseOK'
<1>1. /\ RequestTypeOK' /\ OthersWait(c)
      /\ \/ pc'[c] = "idle" /\ draft'[c].lines = <<>>
         \/ /\ pc'[c] = "undo" /\ draft'[c] = draft[c]
            /\ at'[c] \in 1..Len(draft[c].lines)
  BY UnwindStep, ReturnStep DEF TypeOK
<1>2. CatalogTypeOK'
  BY DEF TypeOK, CatalogTypeOK, catalogVars
<1>3. TypeOK'
  BY <1>1, <1>2 DEF TypeOK
<1>4. RequestOK(c)'
  BY <1>1 DEF RequestOK, Idle, Cancelling
<1> QED BY <1>1, <1>3, <1>4, PhaseStep

(* A demo scenario changes the catalogue and no request. *)
LEMMA ScenarioStep ==
  ASSUME TypeOK, PhaseOK, NEW scenario, MayChange(scenario),
         CatalogTypeOK', supply' \in [Sku -> Int]
  PROVE  TypeOK' /\ PhaseOK'
<1>1. RequestTypeOK'
  BY DEF TypeOK, MayChange, requestVars, RequestTypeOK
<1>2. changes' \in 0..MaxScenarios
  BY ConstantsAssumption DEF TypeOK, MayChange
<1>3. TypeOK'
  BY <1>1, <1>2 DEF TypeOK, MayChange
<1>4. PhaseOK'
  BY PhaseStutter DEF MayChange
<1> QED BY <1>3, <1>4

-----------------------------------------------------------------------------
(* TypeOK and PhaseOK are inductive together. *)

LEMMA InitSafe == Init => TypeOK /\ PhaseOK
BY ConstantsAssumption
   DEF Init, TypeOK, CatalogTypeOK, RequestTypeOK, PhaseOK, RequestOK, Idle, Phase,
       Cancelling, EmptyDraft, Order, Status, Line, Card, Receipt


(* Catalogue, requests, orders and carts by parts, the counters together. *)
LEMMA StepSafe == TypeOK /\ PhaseOK /\ [Next]_vars => TypeOK' /\ PhaseOK'
<1> SUFFICES ASSUME TypeOK, PhaseOK, [Next]_vars
             PROVE  TypeOK' /\ PhaseOK'
  OBVIOUS
<1> USE ConstantsAssumption
<1>0. CatalogTypeOK /\ RequestTypeOK
  BY DEF TypeOK
<1>1. ASSUME NEW c \in Client, AcceptCard(c)
      PROVE  TypeOK' /\ PhaseOK'
  <2>1. /\ CatalogTypeOK' /\ RequestTypeOK' /\ OthersWait(c)
        /\ pc[c] = "idle" /\ pc'[c] = "idle" /\ draft'[c] = draft[c]
    BY <1>0, <1>1 DEF AcceptCard, Idle, CatalogTypeOK, RequestTypeOK, OthersWait,
                      catalogVars, requestVars
  <2>2. PICK s \in Sku, q \in Quantities :
          cart' = [cart EXCEPT ![c] = Append(@, [sku |-> s, quantity |-> q,
                                       version |-> version[s], price |-> price[s]])]
    BY <1>1 DEF AcceptCard
  <2>3. [sku |-> s, quantity |-> q, version |-> version[s], price |-> price[s]] \in Card
    BY <1>0 DEF CatalogTypeOK, Card
  <2>4. /\ cart' \in [Client -> Seq(Card)]
        /\ \A d \in Client \ {c} : cart'[d] = cart[d]
    BY <2>2, <2>3 DEF TypeOK
  <2>5. TypeOK'
    BY <1>1, <2>1, <2>4 DEF AcceptCard, TypeOK
  <2>6. RequestOK(c)'
    BY <2>1 DEF RequestOK, PhaseOK, Idle, Cancelling
  <2> QED BY <1>1, <2>1, <2>4, <2>5, <2>6, PhaseStep DEF AcceptCard
<1>2. ASSUME NEW c \in Client, ForgetCards(c)
      PROVE  TypeOK' /\ PhaseOK'
  <2>1. /\ CatalogTypeOK' /\ RequestTypeOK' /\ OthersWait(c)
        /\ pc[c] = "idle" /\ pc'[c] = "idle" /\ draft'[c] = draft[c]
    BY <1>0, <1>2 DEF ForgetCards, Idle, CatalogTypeOK, RequestTypeOK, OthersWait,
                      catalogVars, requestVars
  <2>2. /\ cart' \in [Client -> Seq(Card)]
        /\ \A d \in Client \ {c} : cart'[d] = cart[d]
    BY <1>2 DEF ForgetCards, TypeOK
  <2>3. TypeOK'
    BY <1>2, <2>1, <2>2 DEF ForgetCards, TypeOK
  <2>4. RequestOK(c)'
    BY <2>1 DEF RequestOK, PhaseOK, Idle, Cancelling
  <2> QED BY <1>2, <2>1, <2>2, <2>3, <2>4, PhaseStep DEF ForgetCards
<1>3. ASSUME NEW c \in Client, BeginPlace(c)
      PROVE  TypeOK' /\ PhaseOK'
  <2>1. CatalogTypeOK' /\ RequestTypeOK' /\ OthersWait(c) /\ pc'[c] = "reserve"
    BY <1>0, <1>3 DEF BeginPlace, CatalogTypeOK, RequestTypeOK, OthersWait,
                      catalogVars, Phase, Placing
  <2>2. TypeOK'
    BY <1>3, <2>1 DEF BeginPlace, TypeOK
  <2>3. /\ draft'[c].lines = <<>> /\ cart'[c] = cart[c]
        /\ cart[c] \in Seq(Card) /\ cart[c] # <<>>
    BY <1>3 DEF BeginPlace, PhaseOK, RequestOK, TypeOK
  <2>4. RequestOK(c)'
    BY <2>1, <2>3 DEF RequestOK, Idle, Cancelling
  <2> QED BY <1>3, <2>1, <2>2, <2>4, PhaseStep DEF BeginPlace
<1>4. ASSUME NEW c \in Client, BeginCancel(c)
      PROVE  TypeOK' /\ PhaseOK'
  <2>1. PICK k \in DOMAIN orders :
          /\ oid' = [oid EXCEPT ![c] = k]
          /\ draft' = [draft EXCEPT ![c] = [orders[k] EXCEPT !.status = "CANCELLED"]]
    BY <1>4 DEF BeginCancel
  <2>2. k \in Nat /\ orders[k] \in Order /\ orders[k].lines # <<>>
    BY DEF TypeOK, PhaseOK
  <2>3. /\ [orders[k] EXCEPT !.status = "CANCELLED"] \in Order
        /\ [orders[k] EXCEPT !.status = "CANCELLED"].lines = orders[k].lines
    BY <2>2 DEF Order, Status
  <2>4. /\ CatalogTypeOK' /\ RequestTypeOK' /\ OthersWait(c)
        /\ pc'[c] = "restore" /\ at'[c] = 1 /\ draft'[c].lines = orders[k].lines
    BY <1>0, <1>4, <2>1, <2>2, <2>3 DEF BeginCancel, CatalogTypeOK, RequestTypeOK,
       OthersWait, catalogVars, Phase, Cancelling
  <2>5. TypeOK'
    <3>1. requests' \in 0..MaxRequests
      BY <1>4 DEF BeginCancel, TypeOK
    <3>2. UNCHANGED <<orders, cart, changes, supply, spent, receipts>>
      BY <1>4 DEF BeginCancel
    <3> QED BY <2>4, <3>1, <3>2 DEF TypeOK
  <2>6. orders[k].lines \in Seq(Line)
    BY <2>2 DEF Order
  <2>7. oid'[c] = k /\ k \in 1..Len(orders) /\ Len(orders) \in Nat /\ orders' = orders
    BY <1>0, <1>4, <2>1 DEF BeginCancel, RequestTypeOK, TypeOK
  <2>8. RequestOK(c)'
    BY <2>2, <2>4, <2>6, <2>7 DEF RequestOK, Idle, Cancelling
  <2> QED BY <1>4, <2>4, <2>5, <2>8, PhaseStep DEF BeginCancel
<1>5. ASSUME NEW c \in Client, Reserve(c)
      PROVE  TypeOK' /\ PhaseOK'
  <2> DEFINE card == NextCard(c)
  <2>1. /\ draft[c] \in Order /\ draft[c].lines \in Seq(Line) /\ cart[c] \in Seq(Card)
        /\ Len(draft[c].lines) < Len(cart[c])
    BY <1>5 DEF Reserve, TypeOK, RequestTypeOK, PhaseOK, RequestOK, Order
  <2>2. card \in Card
    BY <2>1 DEF NextCard
  <2>3. Deducted(card) \in Nat /\ WriteStock(card.sku, Deducted(card))
    <3>1. Reservable(card) /\ WriteStock(card.sku, Deducted(card))
      BY <1>5 DEF Reserve
    <3>2. card.quantity <= stock[card.sku]
      BY <3>1 DEF Reservable
    <3>3. card.sku \in Sku /\ card.quantity \in Nat
      BY <2>2, ConstantsAssumption DEF Card
    <3>4. stock[card.sku] \in Nat
      BY <1>0, <3>3 DEF CatalogTypeOK
    <3>5. Deducted(card) \in Nat
      BY <3>2, <3>3, <3>4 DEF Deducted
    <3> QED BY <3>1, <3>5
  <2>4. CatalogTypeOK'
    BY <1>0, <2>2, <2>3, WriteStockType DEF Card
  <2>5. [card |-> card, price |-> price[card.sku]] \in Line
    BY <1>0, <2>2 DEF CatalogTypeOK, Card, Line
  <2>6. /\ draft' = [draft EXCEPT ![c].lines =
                       Append(@, [card |-> card, price |-> price[card.sku]])]
        /\ pc' = [pc EXCEPT ![c] = IF Len(draft[c].lines) + 1 = Len(cart[c])
                                     THEN "number" ELSE "reserve"]
        /\ spent' = spent \cup {<<card.sku, card.version>>}
        /\ UNCHANGED <<orders, cart, oid, at, requests, changes, supply, receipts>>
    BY <1>5 DEF Reserve
  <2>7. /\ draft' \in [Client -> Order]
        /\ Len(draft'[c].lines) = Len(draft[c].lines) + 1 /\ Len(draft[c].lines) \in Nat
        /\ draft'[c].lines # <<>>
        /\ \A d \in Client \ {c} : draft'[d] = draft[d]
    BY <1>0, <2>5, <2>6, AppendLine
  <2>8. RequestTypeOK' /\ OthersWait(c)
    <3>1. (IF Len(draft[c].lines) + 1 = Len(cart[c]) THEN "number" ELSE "reserve") \in Phase
      BY DEF Phase, Placing
    <3>2. /\ oid' = oid /\ oid \in [Client -> Nat]
          /\ at' = at /\ at \in [Client -> Nat]
      BY <1>0, <2>6 DEF RequestTypeOK
    <3> QED BY <1>0, <2>6, <2>7, <3>1, <3>2, MoveStep
  <2>9. spent' \subseteq Sku \X Nat
    <3>1. spent \subseteq Sku \X Nat
      BY DEF TypeOK
    <3>2. <<card.sku, card.version>> \in Sku \X Nat
      BY <2>2 DEF Card
    <3> QED BY <2>6, <3>1, <3>2
  <2>10. TypeOK'
    BY <2>4, <2>6, <2>8, <2>9 DEF TypeOK
  <2>11. RequestOK(c)'
    <3>1. /\ pc'[c] = IF Len(draft[c].lines) + 1 = Len(cart[c]) THEN "number" ELSE "reserve"
          /\ cart'[c] = cart[c] /\ Len(cart[c]) \in Nat
      BY <1>0, <2>1, <2>6 DEF RequestTypeOK
    <3> QED BY <2>1, <2>7, <3>1 DEF RequestOK, Idle, Cancelling
  <2> QED BY <2>6, <2>8, <2>10, <2>11, PhaseStep
<1>6. ASSUME NEW c \in Client, RejectItem(c)
      PROVE  TypeOK' /\ PhaseOK'
  BY <1>6, FailedStep DEF RejectItem
<1>7. ASSUME NEW c \in Client, AssignId(c)
      PROVE  TypeOK' /\ PhaseOK'
  <2>1. draft[c] \in Order /\ draft[c].lines # <<>> /\ Len(orders) \in Nat
    BY <1>7 DEF AssignId, TypeOK, RequestTypeOK, PhaseOK, RequestOK
  <2>2. /\ draft' \in [Client -> Order] /\ draft'[c].lines = draft[c].lines
        /\ \A d \in Client \ {c} : draft'[d] = draft[d]
    <3>1. draft' = [draft EXCEPT ![c] = [draft[c] EXCEPT !.status = "CONFIRMED"]]
      BY <1>7 DEF AssignId
    <3>2. /\ [draft[c] EXCEPT !.status = "CONFIRMED"] \in Order
          /\ [draft[c] EXCEPT !.status = "CONFIRMED"].lines = draft[c].lines
      BY <2>1 DEF Order, Status
    <3> QED BY <1>0, <3>1, <3>2 DEF RequestTypeOK
  <2>3. /\ CatalogTypeOK' /\ RequestTypeOK' /\ OthersWait(c)
        /\ pc'[c] = "save" /\ oid'[c] = Len(orders) + 1
    <3>1. CatalogTypeOK'
      BY <1>0, <1>7 DEF AssignId, CatalogTypeOK, catalogVars
    <3>2. oid' = [oid EXCEPT ![c] = Len(orders) + 1] /\ at' = at
      BY <1>7 DEF AssignId, NextOrderId
    <3>3. /\ oid' \in [Client -> Nat] /\ oid'[c] = Len(orders) + 1
          /\ \A d \in Client \ {c} : oid'[d] = oid[d]
          /\ at' \in [Client -> Nat]
      BY <1>0, <2>1, <3>2 DEF RequestTypeOK
    <3>4. pc' = [pc EXCEPT ![c] = "save"] /\ "save" \in Phase
      BY <1>7 DEF AssignId, Phase, Placing
    <3> QED BY <1>0, <2>2, <3>1, <3>2, <3>3, <3>4, MoveStep
  <2>4. TypeOK'
    BY <1>7, <2>3 DEF AssignId, TypeOK
  <2>5. RequestOK(c)'
    BY <1>7, <2>1, <2>2, <2>3 DEF AssignId, RequestOK, Idle, Cancelling
  <2> QED BY <1>7, <2>3, <2>4, <2>5, PhaseStep DEF AssignId
<1>8. ASSUME NEW c \in Client, RejectCurrency(c)
      PROVE  TypeOK' /\ PhaseOK'
  BY <1>8, FailedStep DEF RejectCurrency
<1>9. ASSUME NEW c \in Client, Save(c)
      PROVE  TypeOK' /\ PhaseOK'
  <2>1. /\ orders \in Seq(Order) /\ draft[c] \in Order /\ draft[c].lines # <<>>
        /\ oid[c] \in 1..(Len(orders) + 1)
    <3>1. orders \in Seq(Order) /\ draft[c] \in Order
      BY <1>0 DEF TypeOK, RequestTypeOK
    <3>2. RequestOK(c) /\ pc[c] \in {"save", "saveCancel"}
      BY <1>9 DEF Save, PhaseOK
    <3> QED BY <3>1, <3>2 DEF RequestOK, Cancelling
  <2>2. /\ orders' \in Seq(Order)
        /\ Len(orders') >= Len(orders)
        /\ \A i \in DOMAIN orders' :
             orders'[i] = draft[c] \/ (i \in DOMAIN orders /\ orders'[i] = orders[i])
    BY <1>9, <2>1, MergeType DEF Save
  <2>3. CatalogTypeOK' /\ RequestTypeOK' /\ OthersWait(c) /\ pc'[c] = "reply"
    BY <1>0, <1>9 DEF Save, CatalogTypeOK, RequestTypeOK, OthersWait, catalogVars, Phase
  <2>4. TypeOK'
    BY <1>9, <2>2, <2>3 DEF Save, TypeOK
  <2>5. \A k \in DOMAIN orders' : orders'[k].lines # <<>>
    BY <2>1, <2>2 DEF PhaseOK
  <2>6. ASSUME NEW d \in Client
        PROVE  RequestOK(d)'
    <3>1. RequestOK(d) /\ draft'[d] = draft[d] /\ cart'[d] = cart[d] /\ at'[d] = at[d]
          /\ oid'[d] = oid[d]
      BY <1>9 DEF Save, PhaseOK
    <3>2. d # c => pc'[d] = pc[d]
      BY <2>3 DEF OthersWait
    <3>3. oid[d] \in 1..(Len(orders) + 1) => oid'[d] \in 1..(Len(orders') + 1)
      BY <2>1, <2>2, <3>1
    <3> QED BY <2>1, <2>3, <3>1, <3>2, <3>3 DEF RequestOK, Idle, Cancelling
  <2> QED BY <2>4, <2>5, <2>6 DEF PhaseOK
<1>10. ASSUME NEW c \in Client, Reply(c)
       PROVE  TypeOK' /\ PhaseOK'
  <2>1. receipts' \in [Client -> SUBSET Receipt]
    <3>1. [oid |-> oid[c], lines |-> draft[c].lines] \in Receipt
      BY <1>0 DEF RequestTypeOK, Receipt, Order
    <3> QED BY <1>10, <3>1 DEF Reply, TypeOK
  <2>2. CatalogTypeOK'
    BY <1>0, <1>10 DEF Reply, CatalogTypeOK, catalogVars
  <2>3. /\ RequestTypeOK' /\ OthersWait(c)
        /\ pc'[c] = "idle" /\ draft'[c].lines = <<>>
    BY <1>0, <1>10, ReturnStep DEF Reply
  <2>4. TypeOK'
    BY <1>10, <2>1, <2>2, <2>3 DEF Reply, TypeOK
  <2>5. RequestOK(c)'
    BY <2>3 DEF RequestOK, Idle, Cancelling
  <2> QED BY <1>10, <2>3, <2>4, <2>5, PhaseStep DEF Reply
<1>11. ASSUME NEW c \in Client, UndoLine(c)
       PROVE  TypeOK' /\ PhaseOK'
  <2>1. /\ draft[c].lines \in Seq(Line) /\ at[c] \in 1..Len(draft[c].lines)
        /\ draft[c].lines[at[c]].card \in Card
    <3>1. at[c] \in 1..Len(draft[c].lines)
      BY <1>11 DEF UndoLine, PhaseOK, RequestOK
    <3> QED BY <1>0, <3>1, LineAt
  <2>2. CatalogTypeOK'
    BY <1>0, <1>11, <2>1, RestoreType DEF UndoLine
  <2>3. CASE at[c] = 1
    <3>1. /\ RequestTypeOK' /\ OthersWait(c)
          /\ pc'[c] = "idle" /\ draft'[c].lines = <<>>
      BY <1>0, <1>11, <2>3, ReturnStep DEF UndoLine
    <3>2. RequestOK(c)'
      BY <3>1 DEF RequestOK, Idle, Cancelling
    <3> QED BY <1>11, <2>2, <3>1, <3>2, PhaseStep DEF UndoLine, TypeOK
  <2>4. CASE at[c] # 1
    <3>1. at' = [at EXCEPT ![c] = @ - 1] /\ pc' = pc /\ draft' = draft /\ oid' = oid
      BY <1>11, <2>4 DEF UndoLine
    <3>2. at[c] - 1 \in 1..Len(draft[c].lines) /\ at[c] - 1 \in Nat
      BY <2>1, <2>4
    <3>3. RequestTypeOK' /\ OthersWait(c) /\ at'[c] = at[c] - 1
      BY <1>0, <3>1, <3>2 DEF RequestTypeOK, OthersWait
    <3>4. RequestOK(c)'
      BY <1>11, <3>1, <3>2, <3>3 DEF UndoLine, RequestOK, Idle, Cancelling
    <3> QED BY <1>11, <2>2, <3>3, <3>4, PhaseStep DEF UndoLine, TypeOK
  <2> QED BY <2>3, <2>4
<1>12. ASSUME NEW c \in Client, RestoreLine(c)
       PROVE  TypeOK' /\ PhaseOK'
  <2>1. /\ draft[c].lines \in Seq(Line) /\ at[c] \in 1..Len(draft[c].lines)
        /\ draft[c].lines[at[c]].card \in Card
    <3>1. at[c] \in 1..Len(draft[c].lines)
      BY <1>12 DEF RestoreLine, PhaseOK, RequestOK
    <3> QED BY <1>0, <3>1, LineAt
  <2>2. CatalogTypeOK'
    BY <1>0, <1>12, <2>1, RestoreType DEF RestoreLine
  <2>3. /\ RequestTypeOK' /\ OthersWait(c) /\ at'[c] = at[c] + 1
        /\ draft'[c] = draft[c] /\ oid'[c] = oid[c]
        /\ pc'[c] = IF at[c] = Len(draft[c].lines) THEN "saveCancel" ELSE "restore"
    BY <1>0, <1>12, <2>1 DEF RestoreLine, RequestTypeOK, OthersWait, Phase, Cancelling
  <2>4. TypeOK'
    BY <1>12, <2>2, <2>3 DEF RestoreLine, TypeOK
  <2>5. RequestOK(c)'
    <3>1. draft[c].lines # <<>> /\ Len(draft[c].lines) \in Nat
      BY <2>1
    <3>2. oid[c] \in 1..(Len(orders) + 1) /\ orders' = orders
      BY <1>12 DEF RestoreLine, PhaseOK, RequestOK, Cancelling
    <3> QED BY <2>1, <2>3, <3>1, <3>2 DEF RequestOK, Idle, Cancelling
  <2> QED BY <1>12, <2>3, <2>4, <2>5, PhaseStep DEF RestoreLine
<1>13. ASSUME NEW c \in Client, DbFault(c)
       PROVE  TypeOK' /\ PhaseOK'
  BY <1>13, FailedStep DEF DbFault
<1>14. ASSUME NEW c \in Client, Timeout(c)
       PROVE  TypeOK' /\ PhaseOK'
  BY <1>14, FailedStep DEF Timeout
<1>15. CASE RaisePrice
  <2>1. CatalogTypeOK'
    BY <1>0, <1>15 DEF RaisePrice, CatalogTypeOK
  <2> QED BY <1>15, <2>1, ScenarioStep DEF RaisePrice, TypeOK
<1>16. CASE SellOut
  <2>1. CatalogTypeOK'
    BY <1>0, <1>16, WriteStockType DEF SellOut
  <2>2. supply' \in [Sku -> Int]
    BY <1>0, <1>16 DEF SellOut, CatalogTypeOK, TypeOK
  <2> QED BY <1>16, <2>1, <2>2, ScenarioStep DEF SellOut
<1>17. CASE TakeOffShelf
  <2>1. CatalogTypeOK'
    BY <1>0, <1>17 DEF TakeOffShelf, CatalogTypeOK
  <2> QED BY <1>17, <2>1, ScenarioStep DEF TakeOffShelf, TypeOK
<1>18. CASE Reset
  <2>1. CatalogTypeOK'
    BY <1>18 DEF Reset, CatalogTypeOK
  <2>2. supply' \in [Sku -> Int]
    <3>1. supply \in [Sku -> Int] /\ stock \in [Sku -> Nat]
      BY <1>0 DEF TypeOK, CatalogTypeOK
    <3>2. supply' = [s \in Sku |-> supply[s] + SeedStock[s] - stock[s]]
      BY <1>18 DEF Reset
    <3> QED BY <3>1, <3>2
  <2> QED BY <1>18, <2>1, <2>2, ScenarioStep DEF Reset
<1>19. CASE UNCHANGED vars
  <2>1. TypeOK'
    BY <1>19 DEF vars, TypeOK, CatalogTypeOK, RequestTypeOK
  <2>2. PhaseOK'
    BY <1>19, PhaseStutter DEF vars, requestVars
  <2> QED BY <2>1, <2>2
<1> QED
  BY <1>1, <1>2, <1>3, <1>4, <1>5, <1>6, <1>7, <1>8, <1>9, <1>10, <1>11, <1>12,
     <1>13, <1>14, <1>15, <1>16, <1>17, <1>18, <1>19 DEF Next, Step, Scenario

(* No interleaving of placements, cancellations, faults and demo scenarios *)
(* makes a stock value negative or leaves a request in an impossible phase. *)
THEOREM TypeCorrect == Spec => [](TypeOK /\ PhaseOK)
BY InitSafe, StepSafe, PTL DEF Spec

-----------------------------------------------------------------------------
(* The confirmation card.  Without a reset versions only grow, a price     *)
(* changes only with a new version, and a spent version is in the past.    *)

CardCurrent(card) ==
  /\ card.version <= version[card.sku]
  /\ card.version = version[card.sku] => card.price = price[card.sku]

CardsCurrent == \A c \in Client : \A i \in DOMAIN cart[c] : CardCurrent(cart[c][i])

SpentIsPast == \A x \in spent : x[2] < version[x[1]]

CardInv == CardsCurrent /\ SpentIsPast /\ PriceHonoured

(* A step without a reset: no version shrinks, and a price changes only    *)
(* together with its version.                                              *)
VersionsGrow ==
  \A s \in Sku : /\ version[s] <= version'[s]
                 /\ version[s] = version'[s] => price'[s] = price[s]

(* No draft gains a line. *)
LinesKept == \A d \in Client : draft'[d].lines \in {draft[d].lines, <<>>}

LEMMA CatalogKept ==
  ASSUME TypeOK, UNCHANGED catalogVars
  PROVE  VersionsGrow
BY DEF TypeOK, CatalogTypeOK, catalogVars, VersionsGrow

LEMMA WriteGrows ==
  ASSUME TypeOK, NEW s \in Sku, NEW n, WriteStock(s, n)
  PROVE  VersionsGrow /\ version'[s] = version[s] + 1
BY DEF TypeOK, CatalogTypeOK, WriteStock, VersionsGrow

LEMMA FailedLines ==
  ASSUME TypeOK, NEW c \in Client, Unwind(c) \/ Return(c)
  PROVE  LinesKept
<1>1. draft'[c].lines \in {draft[c].lines, <<>>} /\ OthersWait(c)
  BY UnwindStep, ReturnStep DEF TypeOK
<1> QED BY <1>1 DEF LinesKept, OthersWait

LEMMA CartKept ==
  ASSUME TypeOK, TypeOK', CardsCurrent, VersionsGrow, cart' = cart
  PROVE  CardsCurrent'
<1>1. ASSUME NEW card \in Card, CardCurrent(card)
      PROVE  /\ card.version <= version'[card.sku]
             /\ card.version = version'[card.sku] => card.price = price'[card.sku]
  <2>1. card.sku \in Sku /\ card.version \in Nat
    BY DEF Card
  <2>2. version[card.sku] \in Nat /\ version'[card.sku] \in Nat
    BY <2>1 DEF TypeOK, CatalogTypeOK
  <2> QED BY <1>1, <2>1, <2>2 DEF CardCurrent, VersionsGrow
<1>2. \A c \in Client : \A i \in DOMAIN cart[c] :
        cart[c][i] \in Card /\ CardCurrent(cart[c][i])
  BY DEF TypeOK, CardsCurrent
<1> QED BY <1>1, <1>2 DEF CardsCurrent, CardCurrent

LEMMA SpentKept ==
  ASSUME TypeOK, TypeOK', SpentIsPast, VersionsGrow, spent' = spent
  PROVE  SpentIsPast'
<1>1. ASSUME NEW x \in spent
      PROVE  x[2] < version'[x[1]]
  <2>1. x[1] \in Sku /\ x[2] \in Nat /\ x[2] < version[x[1]]
    BY DEF TypeOK, SpentIsPast
  <2>2. version[x[1]] \in Nat /\ version'[x[1]] \in Nat /\ version[x[1]] <= version'[x[1]]
    BY <2>1 DEF TypeOK, CatalogTypeOK, VersionsGrow
  <2> QED BY <2>1, <2>2
<1> QED BY <1>1 DEF SpentIsPast

(* When no draft gains a line, no card is spent and no price has to be     *)
(* honoured anew.                                                          *)
LEMMA NothingBought ==
  ASSUME TypeOK, LinesKept
  PROVE  SpendsFreshCard /\ (PriceHonoured /\ orders' = orders => PriceHonoured')
<1>1. ASSUME NEW d \in Client
      PROVE  ~(Len(draft'[d].lines) > Len(draft[d].lines))
  <2>1. Len(draft[d].lines) \in Nat
    BY LinesType DEF TypeOK
  <2>2. Len(draft'[d].lines) \in {Len(draft[d].lines), 0}
    BY DEF LinesKept
  <2> QED BY <2>1, <2>2
<1>2. SpendsFreshCard
  BY <1>1 DEF SpendsFreshCard
<1>3. PriceHonoured /\ orders' = orders => PriceHonoured'
  BY DEF PriceHonoured, HonouredLines, LinesKept
<1> QED BY <1>2, <1>3

(* Most steps add no card, spend no card and leave the orders alone. *)
LEMMA QuietStep ==
  ASSUME TypeOK, TypeOK', CardInv, VersionsGrow, LinesKept,
         UNCHANGED <<orders, cart, spent>>
  PROVE  CardInv' /\ SpendsFreshCard
BY CartKept, SpentKept, NothingBought DEF CardInv

(* Without a reset, every step keeps CardInv and spends only fresh cards. *)
LEMMA CardStep ==
  ASSUME "reset" \notin Scenarios, TypeOK, PhaseOK, TypeOK', CardInv, [Next]_vars
  PROVE  CardInv' /\ SpendsFreshCard
<1>1. ASSUME NEW c \in Client, AcceptCard(c)
      PROVE  CardInv' /\ SpendsFreshCard
  <2>1. UNCHANGED catalogVars /\ LinesKept /\ orders' = orders /\ spent' = spent
    BY <1>1 DEF AcceptCard, requestVars, LinesKept
  <2>2. VersionsGrow
    BY <2>1, CatalogKept
  <2>3. PICK s \in Sku, q \in Quantities :
          cart' = [cart EXCEPT ![c] = Append(@, [sku |-> s, quantity |-> q,
                                       version |-> version[s], price |-> price[s]])]
    BY <1>1 DEF AcceptCard
  <2> DEFINE new == [sku |-> s, quantity |-> q, version |-> version[s], price |-> price[s]]
  <2>4. new \in Card /\ CardCurrent(new)
    BY DEF Card, CardCurrent, TypeOK, CatalogTypeOK
  <2>5. ASSUME NEW d \in Client, NEW i \in DOMAIN cart'[d]
        PROVE  CardCurrent(cart'[d][i])
    <3>1. CASE d # c
      BY <2>3, <3>1 DEF TypeOK, CardInv, CardsCurrent
    <3>2. CASE d = c
      <4>1. cart'[c] = Append(cart[c], new) /\ cart[c] \in Seq(Card)
        BY <2>3 DEF TypeOK
      <4>2. cart'[c][i] = new \/ (i \in DOMAIN cart[c] /\ cart'[c][i] = cart[c][i])
        BY <2>4, <3>2, <4>1
      <4> QED BY <2>4, <3>2, <4>2 DEF CardInv, CardsCurrent
    <3> QED BY <3>1, <3>2
  <2>6. CardsCurrent'
    BY <2>1, <2>5 DEF CardsCurrent, CardCurrent, catalogVars
  <2> QED BY <2>1, <2>2, <2>6, SpentKept, NothingBought DEF CardInv
<1>2. ASSUME NEW c \in Client, ForgetCards(c)
      PROVE  CardInv' /\ SpendsFreshCard
  <2>1. UNCHANGED catalogVars /\ LinesKept /\ orders' = orders /\ spent' = spent
    BY <1>2 DEF ForgetCards, requestVars, LinesKept
  <2>2. VersionsGrow
    BY <2>1, CatalogKept
  <2>3. cart' = [cart EXCEPT ![c] = <<>>]
    BY <1>2 DEF ForgetCards
  <2>4. CardsCurrent'
    BY <2>1, <2>3 DEF CardInv, CardsCurrent, CardCurrent, catalogVars, TypeOK
  <2> QED BY <2>1, <2>2, <2>4, SpentKept, NothingBought DEF CardInv
<1>3. ASSUME NEW c \in Client, BeginPlace(c)
      PROVE  CardInv' /\ SpendsFreshCard
  BY <1>3, CatalogKept, QuietStep DEF BeginPlace, LinesKept
<1>4. ASSUME NEW c \in Client, BeginCancel(c)
      PROVE  CardInv' /\ SpendsFreshCard
  <2>1. VersionsGrow /\ UNCHANGED <<orders, cart, spent>>
    BY <1>4, CatalogKept DEF BeginCancel
  <2>2. PICK k \in DOMAIN orders :
          draft' = [draft EXCEPT ![c] = [orders[k] EXCEPT !.status = "CANCELLED"]]
    BY <1>4 DEF BeginCancel
  <2>3. orders[k] \in Order
    BY DEF TypeOK
  <2>4. draft'[c].lines = orders[k].lines /\ \A d \in Client \ {c} : draft'[d] = draft[d]
    BY <2>2, <2>3 DEF TypeOK, RequestTypeOK, Order
  <2>5. PriceHonoured'
    BY <2>1, <2>4 DEF CardInv, PriceHonoured, HonouredLines
  <2>6. SpendsFreshCard
    <3>1. ASSUME NEW d \in Client, pc[d] = "reserve"
          PROVE  ~(Len(draft'[d].lines) > Len(draft[d].lines))
      <4>1. draft'[d] = draft[d]
        BY <1>4, <2>4, <3>1 DEF BeginCancel, Idle
      <4>2. Len(draft[d].lines) \in Nat
        BY LinesType DEF TypeOK
      <4> QED BY <4>1, <4>2
    <3> QED BY <3>1 DEF SpendsFreshCard
  <2> QED BY <2>1, <2>5, <2>6, CartKept, SpentKept DEF CardInv
<1>5. ASSUME NEW c \in Client, Reserve(c)
      PROVE  CardInv' /\ SpendsFreshCard
  <2> DEFINE card == NextCard(c)
  <2> DEFINE line == [card |-> card, price |-> price[card.sku]]
  <2>1. /\ Len(draft[c].lines) + 1 \in DOMAIN cart[c]
        /\ card \in Card
    <3>1. /\ draft[c].lines \in Seq(Line) /\ cart[c] \in Seq(Card)
          /\ Len(draft[c].lines) < Len(cart[c])
      BY <1>5 DEF Reserve, TypeOK, RequestTypeOK, PhaseOK, RequestOK, Order
    <3> QED BY <3>1 DEF NextCard
  <2>2. CardCurrent(card)
    BY <2>1 DEF CardInv, CardsCurrent, NextCard
  <2>3. /\ card.version = version[card.sku] /\ WriteStock(card.sku, Deducted(card))
        /\ draft' = [draft EXCEPT ![c].lines = Append(@, line)]
        /\ spent' = spent \cup {<<card.sku, card.version>>}
        /\ orders' = orders /\ cart' = cart
    BY <1>5 DEF Reserve, Reservable
  <2>4. card.sku \in Sku /\ card.version \in Nat
    BY <2>1 DEF Card
  <2>5. VersionsGrow /\ version'[card.sku] = version[card.sku] + 1
    BY <2>3, <2>4, WriteGrows
  <2>6. line \in Line /\ line.price = line.card.price
    BY <2>1, <2>2, <2>3, <2>4 DEF CardCurrent, Line, TypeOK, CatalogTypeOK
  <2>7. /\ draft'[c].lines = Append(draft[c].lines, line)
        /\ \A d \in Client \ {c} : draft'[d] = draft[d]
    BY <2>3, <2>6, AppendLine DEF TypeOK
  <2>8. PriceHonoured'
    <3>1. draft[c].lines \in Seq(Line) /\ HonouredLines(draft[c].lines)
      BY LinesType DEF TypeOK, CardInv, PriceHonoured
    <3>2. HonouredLines(Append(draft[c].lines, line))
      BY <2>6, <3>1 DEF HonouredLines
    <3>3. \A d \in Client : HonouredLines(draft'[d].lines)
      BY <2>7, <3>2 DEF CardInv, PriceHonoured
    <3> QED BY <2>3, <3>3 DEF CardInv, PriceHonoured, HonouredLines
  <2>9. SpentIsPast'
    <3>1. ASSUME NEW x \in spent
          PROVE  x[2] < version'[x[1]]
      <4>1. x[1] \in Sku /\ x[2] \in Nat /\ x[2] < version[x[1]]
        BY DEF TypeOK, CardInv, SpentIsPast
      <4>2. /\ version[x[1]] \in Nat /\ version'[x[1]] \in Nat
            /\ version[x[1]] <= version'[x[1]]
        BY <2>5, <4>1 DEF TypeOK, CatalogTypeOK, VersionsGrow
      <4> QED BY <4>1, <4>2
    <3>2. card.version < version'[card.sku]
      BY <2>3, <2>4, <2>5
    <3> QED BY <2>3, <3>1, <3>2 DEF SpentIsPast
  <2>10. SpendsFreshCard
    <3>1. <<card.sku, card.version>> \notin spent
      <4>1. version[card.sku] \in Nat /\ ~(card.version < version[card.sku])
        BY <2>3, <2>4 DEF TypeOK, CatalogTypeOK
      <4> QED BY <4>1 DEF CardInv, SpentIsPast
    <3>2. \A d \in Client \ {c} : ~(Len(draft'[d].lines) > Len(draft[d].lines))
      <4>1. \A d \in Client : Len(draft[d].lines) \in Nat
        BY LinesType DEF TypeOK
      <4>2. \A d \in Client \ {c} : draft'[d] = draft[d]
        BY <2>7
      <4> QED BY <4>1, <4>2
    <3> QED BY <3>1, <3>2 DEF SpendsFreshCard
  <2> QED BY <2>3, <2>5, <2>8, <2>9, <2>10, CartKept DEF CardInv
<1>6. ASSUME NEW c \in Client, RejectItem(c)
      PROVE  CardInv' /\ SpendsFreshCard
  BY <1>6, CatalogKept, FailedLines, QuietStep DEF RejectItem
<1>7. ASSUME NEW c \in Client, AssignId(c)
      PROVE  CardInv' /\ SpendsFreshCard
  <2>1. LinesKept
    BY <1>7 DEF AssignId, LinesKept, TypeOK, RequestTypeOK, Order
  <2> QED BY <1>7, <2>1, CatalogKept, QuietStep DEF AssignId
<1>8. ASSUME NEW c \in Client, RejectCurrency(c)
      PROVE  CardInv' /\ SpendsFreshCard
  BY <1>8, CatalogKept, FailedLines, QuietStep DEF RejectCurrency
<1>9. ASSUME NEW c \in Client, Save(c)
      PROVE  CardInv' /\ SpendsFreshCard
  <2>1. VersionsGrow /\ LinesKept /\ UNCHANGED <<cart, draft, spent>>
    BY <1>9, CatalogKept DEF Save, LinesKept
  <2>2. orders \in Seq(Order) /\ draft[c] \in Order /\ oid[c] \in 1..(Len(orders) + 1)
    BY <1>9 DEF Save, TypeOK, RequestTypeOK, PhaseOK, RequestOK, Cancelling
  <2>3. \A i \in DOMAIN orders' :
          orders'[i] = draft[c] \/ (i \in DOMAIN orders /\ orders'[i] = orders[i])
    BY <1>9, <2>2, MergeType DEF Save
  <2>4. PriceHonoured'
    BY <2>1, <2>3 DEF CardInv, PriceHonoured, HonouredLines
  <2> QED BY <2>1, <2>4, CartKept, SpentKept, NothingBought DEF CardInv
<1>10. ASSUME NEW c \in Client, Reply(c)
       PROVE  CardInv' /\ SpendsFreshCard
  BY <1>10, CatalogKept, FailedLines, QuietStep DEF Reply
<1>11. ASSUME NEW c \in Client, UndoLine(c)
       PROVE  CardInv' /\ SpendsFreshCard
  <2>1. draft[c].lines[at[c]].card.sku \in Sku
    <3>1. at[c] \in 1..Len(draft[c].lines)
      BY <1>11 DEF UndoLine, PhaseOK, RequestOK
    <3> QED BY <3>1, LineAt DEF TypeOK, Card
  <2>2. VersionsGrow
    BY <1>11, <2>1, WriteGrows DEF UndoLine
  <2>3. LinesKept
    BY <1>11, FailedLines DEF UndoLine, LinesKept
  <2> QED BY <1>11, <2>2, <2>3, QuietStep DEF UndoLine
<1>12. ASSUME NEW c \in Client, RestoreLine(c)
       PROVE  CardInv' /\ SpendsFreshCard
  <2>1. draft[c].lines[at[c]].card.sku \in Sku
    <3>1. at[c] \in 1..Len(draft[c].lines)
      BY <1>12 DEF RestoreLine, PhaseOK, RequestOK
    <3> QED BY <3>1, LineAt DEF TypeOK, Card
  <2>2. VersionsGrow
    BY <1>12, <2>1, WriteGrows DEF RestoreLine
  <2> QED BY <1>12, <2>2, QuietStep DEF RestoreLine, LinesKept
<1>13. ASSUME NEW c \in Client, DbFault(c)
       PROVE  CardInv' /\ SpendsFreshCard
  BY <1>13, CatalogKept, FailedLines, QuietStep DEF DbFault
<1>14. ASSUME NEW c \in Client, Timeout(c)
       PROVE  CardInv' /\ SpendsFreshCard
  BY <1>14, CatalogKept, FailedLines, QuietStep DEF Timeout
<1>15. CASE RaisePrice
  <2>1. VersionsGrow
    <3>1. /\ version' = [version EXCEPT ![Target] = @ + 1]
          /\ price' = [price EXCEPT ![Target] = @ + Rise]
      BY <1>15 DEF RaisePrice
    <3>2. version \in [Sku -> Nat] /\ price \in [Sku -> Nat]
      BY DEF TypeOK, CatalogTypeOK
    <3>3. ASSUME NEW s \in Sku
          PROVE  /\ version[s] <= version'[s]
                 /\ version[s] = version'[s] => price'[s] = price[s]
      <4>1. CASE s = Target
        BY <3>1, <3>2, <4>1
      <4>2. CASE s # Target
        BY <3>1, <3>2, <4>2
      <4> QED BY <4>1, <4>2
    <3> QED BY <3>3 DEF VersionsGrow
  <2> QED BY <1>15, <2>1, QuietStep DEF RaisePrice, MayChange, requestVars, LinesKept
<1>16. CASE SellOut
  <2>1. VersionsGrow
    BY <1>16, WriteGrows, ConstantsAssumption DEF SellOut
  <2> QED BY <1>16, <2>1, QuietStep DEF SellOut, MayChange, requestVars, LinesKept
<1>17. CASE TakeOffShelf
  <2>1. VersionsGrow
    BY <1>17 DEF TakeOffShelf, TypeOK, CatalogTypeOK, VersionsGrow
  <2> QED BY <1>17, <2>1, QuietStep DEF TakeOffShelf, MayChange, requestVars, LinesKept
<1>18. CASE Reset
  BY <1>18 DEF Reset, MayChange
<1>19. CASE UNCHANGED vars
  BY <1>19, CatalogKept, QuietStep DEF vars, catalogVars, LinesKept
<1> QED
  BY <1>1, <1>2, <1>3, <1>4, <1>5, <1>6, <1>7, <1>8, <1>9, <1>10, <1>11, <1>12,
     <1>13, <1>14, <1>15, <1>16, <1>17, <1>18, <1>19 DEF Next, Step, Scenario

LEMMA CardInit == Init => CardInv
BY DEF Init, CardInv, CardsCurrent, SpentIsPast, PriceHonoured, HonouredLines, EmptyDraft

(* While the catalogue is not reset, every reserved line and every stored *)
(* order line has the price on the card the buyer confirmed, whatever     *)
(* price changes, other buyers and failures come between.                 *)
THEOREM PricesHonoured == "reset" \notin Scenarios => (Spec => []PriceHonoured)
<1> SUFFICES ASSUME "reset" \notin Scenarios
             PROVE  Spec => []PriceHonoured
  OBVIOUS
<1>1. Init => TypeOK /\ PhaseOK /\ CardInv
  BY InitSafe, CardInit
<1>2. TypeOK /\ PhaseOK /\ CardInv /\ [Next]_vars => (TypeOK /\ PhaseOK /\ CardInv)'
  BY StepSafe, CardStep
<1>3. CardInv => PriceHonoured
  BY DEF CardInv
<1> QED BY <1>1, <1>2, <1>3, PTL DEF Spec

(* While the catalogue is not reset, a card that has bought never buys    *)
(* again, after any number of retries.                                    *)
THEOREM CardsSpentOnce == "reset" \notin Scenarios => (Spec => CardSpentOnce)
<1> SUFFICES ASSUME "reset" \notin Scenarios
             PROVE  Spec => CardSpentOnce
  OBVIOUS
<1>1. Init => TypeOK /\ PhaseOK /\ CardInv
  BY InitSafe, CardInit
<1>2. TypeOK /\ PhaseOK /\ CardInv /\ [Next]_vars
        => (TypeOK /\ PhaseOK /\ CardInv)' /\ SpendsFreshCard
  BY StepSafe, CardStep
<1>3. TypeOK /\ PhaseOK /\ CardInv /\ [Next]_vars => [SpendsFreshCard]_vars
  BY <1>2
<1> QED BY <1>1, <1>2, <1>3, PTL DEF Spec, CardSpentOnce

-----------------------------------------------------------------------------
(* Requests that run one at a time, as over the in-memory repositories.  A *)
(* request then knows which row of the order table is its own: the id it   *)
(* was given is the next one, and the order it cancels is still confirmed. *)

OrderKnown(c) ==
  /\ pc[c] = "save" => oid[c] = Len(orders) + 1 /\ draft[c].status = "CONFIRMED"
  /\ pc[c] = "reply" => oid[c] \in DOMAIN orders /\ orders[oid[c]] = draft[c]
  /\ pc[c] \in Cancelling =>
       /\ oid[c] \in DOMAIN orders
       /\ orders[oid[c]].status = "CONFIRMED"
       /\ draft[c].status = "CANCELLED"
       /\ draft[c].lines = orders[oid[c]].lines

AloneInv == (\A c \in Client : OrderKnown(c)) /\ OrderDurable

(* Storing a cancellation finds the order confirmed. *)
CancelsConfirmed ==
  \A c \in Client :
    pc[c] = "saveCancel" /\ pc'[c] = "reply" => orders[oid[c]].status = "CONFIRMED"

(* In these phases a request does not depend on the order table. *)
Apart == {"idle", "reserve", "number", "undo"}

LEMMA AloneApart ==
  ASSUME NEW b, Client = {b}, AloneInv, orders' = orders, receipts' = receipts,
         pc'[b] \in Apart
  PROVE  AloneInv'
<1>1. OrderKnown(b)'
  BY DEF OrderKnown, Apart, Cancelling
<1>2. OrderDurable'
  BY DEF AloneInv, OrderDurable
<1> QED BY <1>1, <1>2 DEF AloneInv

LEMMA AloneStill ==
  ASSUME AloneInv, orders' = orders, receipts' = receipts, pc' = pc, oid' = oid,
         draft' = draft
  PROVE  AloneInv'
BY DEF AloneInv, OrderKnown, OrderDurable

(* What saving does: a new row at the end, or one row overwritten. *)
LEMMA MergeRows ==
  ASSUME NEW table \in Seq(Order), NEW o \in Order, NEW k \in 1..(Len(table) + 1)
  PROVE  /\ DOMAIN Merge(table, k, o) = DOMAIN table \cup {k}
         /\ Merge(table, k, o)[k] = o
         /\ \A i \in DOMAIN table : i # k => Merge(table, k, o)[i] = table[i]
<1>1. CASE k = Len(table) + 1
  BY <1>1 DEF Merge
<1>2. CASE k <= Len(table)
  BY <1>2 DEF Merge
<1> QED BY <1>1, <1>2

LEMMA AloneStep ==
  ASSUME NEW b, Client = {b}, TypeOK, PhaseOK, AloneInv, [Next]_vars
  PROVE  AloneInv' /\ CancelsConfirmed
<1>0. /\ TypeOK' /\ PhaseOK' /\ RequestTypeOK /\ b \in Client /\ OrderKnown(b)
      /\ orders \in Seq(Order) /\ draft[b] \in Order /\ draft[b].lines \in Seq(Line)
  BY StepSafe, LinesType DEF TypeOK, RequestTypeOK, AloneInv
<1>1. CancelsConfirmed
  BY DEF CancelsConfirmed, AloneInv, OrderKnown, Cancelling
<1>2. ASSUME AcceptCard(b) \/ ForgetCards(b) PROVE AloneInv'
  BY <1>2, AloneStill DEF AcceptCard, ForgetCards, requestVars
<1>3. ASSUME BeginPlace(b) PROVE AloneInv'
  <2>1. pc'[b] = "reserve" /\ orders' = orders /\ receipts' = receipts
    BY <1>0, <1>3 DEF BeginPlace, RequestTypeOK
  <2> QED BY <2>1, AloneApart DEF Apart
<1>4. ASSUME Reserve(b) PROVE AloneInv'
  <2>1. pc'[b] \in Apart /\ orders' = orders /\ receipts' = receipts
    BY <1>0, <1>4 DEF Reserve, RequestTypeOK, Apart
  <2> QED BY <2>1, AloneApart
<1>5. ASSUME Unwind(b) \/ Return(b), orders' = orders, receipts' = receipts
      PROVE  AloneInv'
  <2>1. pc'[b] \in Apart
    BY <1>0, <1>5, UnwindStep, ReturnStep DEF Apart
  <2> QED BY <1>5, <2>1, AloneApart
<1>6. ASSUME RejectItem(b) \/ RejectCurrency(b) \/ DbFault(b) \/ Timeout(b)
      PROVE  AloneInv'
  BY <1>5, <1>6 DEF RejectItem, RejectCurrency, DbFault, Timeout
<1>7. ASSUME UndoLine(b) PROVE AloneInv'
  <2>1. pc[b] = "undo" /\ orders' = orders /\ receipts' = receipts
    BY <1>7 DEF UndoLine
  <2>2. pc'[b] \in Apart
    BY <1>0, <1>7, <2>1, ReturnStep DEF UndoLine, Apart
  <2> QED BY <2>1, <2>2, AloneApart
<1>8. ASSUME AssignId(b) PROVE AloneInv'
  <2>1. /\ pc'[b] = "save" /\ oid'[b] = Len(orders) + 1 /\ draft'[b].status = "CONFIRMED"
        /\ orders' = orders /\ receipts' = receipts
    BY <1>0, <1>8 DEF AssignId, NextOrderId, RequestTypeOK, Order
  <2>2. OrderKnown(b)'
    BY <2>1 DEF OrderKnown, Cancelling
  <2> QED BY <2>1, <2>2 DEF AloneInv, OrderDurable
<1>9. ASSUME BeginCancel(b) PROVE AloneInv'
  <2>1. PICK k \in DOMAIN orders :
          /\ orders[k].status = "CONFIRMED"
          /\ oid' = [oid EXCEPT ![b] = k]
          /\ draft' = [draft EXCEPT ![b] = [orders[k] EXCEPT !.status = "CANCELLED"]]
    BY <1>9 DEF BeginCancel
  <2>2. orders[k] \in Order
    BY <1>0
  <2>3. /\ pc'[b] = "restore" /\ oid'[b] = k
        /\ draft'[b].status = "CANCELLED" /\ draft'[b].lines = orders[k].lines
        /\ orders' = orders /\ receipts' = receipts
    BY <1>0, <1>9, <2>1, <2>2 DEF BeginCancel, RequestTypeOK, Order
  <2>4. OrderKnown(b)'
    BY <2>1, <2>3 DEF OrderKnown, Cancelling
  <2> QED BY <2>3, <2>4 DEF AloneInv, OrderDurable
<1>10. ASSUME RestoreLine(b) PROVE AloneInv'
  <2>1. /\ pc[b] = "restore" /\ pc'[b] \in Cancelling /\ oid' = oid /\ draft' = draft
        /\ orders' = orders /\ receipts' = receipts
    BY <1>0, <1>10 DEF RestoreLine, RequestTypeOK, Cancelling
  <2>2. OrderKnown(b)'
    BY <1>0, <2>1 DEF OrderKnown, Cancelling
  <2> QED BY <2>1, <2>2 DEF AloneInv, OrderDurable
<1>11. ASSUME Save(b) PROVE AloneInv'
  <2>1. /\ pc[b] \in {"save", "saveCancel"} /\ pc'[b] = "reply" /\ oid' = oid
        /\ draft' = draft /\ receipts' = receipts
        /\ orders' = Merge(orders, oid[b], draft[b])
    BY <1>0, <1>11 DEF Save, RequestTypeOK
  <2>2. oid[b] \in 1..(Len(orders) + 1)
    BY <1>0, <2>1 DEF PhaseOK, RequestOK, Cancelling
  <2>3. /\ DOMAIN orders' = DOMAIN orders \cup {oid[b]} /\ orders'[oid[b]] = draft[b]
        /\ \A i \in DOMAIN orders : i # oid[b] => orders'[i] = orders[i]
    <3>1. /\ DOMAIN Merge(orders, oid[b], draft[b]) = DOMAIN orders \cup {oid[b]}
          /\ Merge(orders, oid[b], draft[b])[oid[b]] = draft[b]
          /\ \A i \in DOMAIN orders :
               i # oid[b] => Merge(orders, oid[b], draft[b])[i] = orders[i]
      BY <1>0, <2>2, MergeRows
    <3> QED BY <2>1, <3>1
  <2>4. OrderKnown(b)'
    BY <2>1, <2>3 DEF OrderKnown, Cancelling
  <2>5. ASSUME NEW r \in receipts[b]
        PROVE  /\ r.oid \in DOMAIN orders'
               /\ orders'[r.oid].owner = b
               /\ orders'[r.oid].lines = r.lines
    <3>1. /\ r.oid \in DOMAIN orders /\ orders[r.oid].owner = b
          /\ orders[r.oid].lines = r.lines
      BY <1>0 DEF AloneInv, OrderDurable
    <3>2. CASE r.oid # oid[b]
      BY <2>3, <3>1, <3>2
    <3>3. CASE r.oid = oid[b]
      <4>1. pc[b] # "save"
        BY <1>0, <3>1, <3>3 DEF OrderKnown
      <4>2. draft[b].lines = orders[oid[b]].lines
        BY <1>0, <2>1, <4>1 DEF OrderKnown, Cancelling
      <4>3. draft[b].owner = b
        BY <1>0 DEF Order
      <4> QED BY <2>3, <3>1, <3>3, <4>2, <4>3
    <3> QED BY <3>2, <3>3
  <2>6. OrderDurable'
    BY <2>1, <2>5 DEF OrderDurable
  <2> QED BY <2>4, <2>6 DEF AloneInv
<1>12. ASSUME Reply(b) PROVE AloneInv'
  <2> DEFINE new == [oid |-> oid[b], lines |-> draft[b].lines]
  <2>1. /\ pc[b] = "reply" /\ orders' = orders /\ Return(b)
        /\ receipts' \in {receipts, [receipts EXCEPT ![b] = @ \cup {new}]}
    BY <1>12 DEF Reply
  <2>2. oid[b] \in DOMAIN orders /\ orders[oid[b]] = draft[b]
    BY <1>0, <2>1 DEF OrderKnown
  <2>3. draft[b].owner = b /\ pc'[b] = "idle"
    BY <1>0, <2>1, ReturnStep DEF Order
  <2>4. OrderKnown(b)'
    BY <2>3 DEF OrderKnown, Cancelling
  <2>5. \A r \in receipts'[b] : r \in receipts[b] \/ r = new
    BY <1>0, <2>1 DEF TypeOK
  <2>6. OrderDurable'
    <3>1. ASSUME NEW r \in receipts'[b]
          PROVE  /\ r.oid \in DOMAIN orders
                 /\ orders[r.oid].owner = b
                 /\ orders[r.oid].lines = r.lines
      <4>1. CASE r \in receipts[b]
        BY <1>0, <4>1 DEF AloneInv, OrderDurable
      <4>2. CASE r = new
        BY <2>2, <2>3, <4>2
      <4> QED BY <2>5, <4>1, <4>2
    <3> QED BY <2>1, <3>1 DEF OrderDurable
  <2> QED BY <2>4, <2>6 DEF AloneInv
<1>13. CASE Scenario
  BY <1>1, <1>13, AloneStill DEF Scenario, RaisePrice, SellOut, TakeOffShelf, Reset, MayChange,
     requestVars
<1>14. CASE UNCHANGED vars
  BY <1>1, <1>14, AloneStill DEF vars
<1> QED
  BY <1>0, <1>1, <1>2, <1>3, <1>4, <1>6, <1>7, <1>8, <1>9, <1>10, <1>11, <1>12,
     <1>13, <1>14 DEF Next, Step

LEMMA InitAlone == Init => AloneInv
BY DEF Init, AloneInv, OrderKnown, OrderDurable, Cancelling

(* With requests that run one at a time, what a buyer was told is confirmed *)
(* stays in the order table under its id, whatever fails: ids are not given *)
(* twice, a failed placement leaves no row, and cancelling keeps the lines. *)
THEOREM OrdersDurable == (\E b : Client = {b}) => (Spec => []OrderDurable)
<1> SUFFICES ASSUME NEW b, Client = {b}
             PROVE  Spec => []OrderDurable
  OBVIOUS
<1>1. Init => TypeOK /\ PhaseOK /\ AloneInv
  BY InitSafe, InitAlone
<1>2. TypeOK /\ PhaseOK /\ AloneInv /\ [Next]_vars => (TypeOK /\ PhaseOK /\ AloneInv)'
  BY StepSafe, AloneStep
<1>3. AloneInv => OrderDurable
  BY DEF AloneInv
<1> QED BY <1>1, <1>2, <1>3, PTL DEF Spec

(* With requests that run one at a time no order is cancelled twice: the    *)
(* double cancellation needs two requests that read the order before either *)
(* has stored it.                                                           *)
THEOREM CancelsOnce == (\E b : Client = {b}) => (Spec => CancelOnlyConfirmed)
<1> SUFFICES ASSUME NEW b, Client = {b}
             PROVE  Spec => CancelOnlyConfirmed
  OBVIOUS
<1>1. Init => TypeOK /\ PhaseOK /\ AloneInv
  BY InitSafe, InitAlone
<1>2. TypeOK /\ PhaseOK /\ AloneInv /\ [Next]_vars
        => (TypeOK /\ PhaseOK /\ AloneInv)' /\ [CancelsConfirmed]_vars
  BY StepSafe, AloneStep
<1> QED BY <1>1, <1>2, PTL DEF Spec, CancelOnlyConfirmed, CancelsConfirmed

=============================================================================
