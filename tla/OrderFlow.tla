------------------------------ MODULE OrderFlow ------------------------------
(***************************************************************************)
(* Orders and stock over the SQL repositories: PlaceOrderUseCase,          *)
(* CancelOrderUseCase, SqlProductRepository, SqlOrderRepository and the    *)
(* demo catalogue scenarios, which run beside them.                        *)
(*                                                                         *)
(* A client is one tool call or HTTP request in flight.  Between two       *)
(* awaited repository calls any other client may run, so every awaited     *)
(* call (one database transaction) is an action of its own.  With a single  *)
(* client requests run one at a time, as they do over the in-memory        *)
(* repositories, whose coroutines never suspend.                           *)
(***************************************************************************)
EXTENDS Integers, Sequences

CONSTANTS
  Client,        \* tool calls and HTTP requests that may be in flight together
  Sku,           \* rows of the SKU table
  Product,       \* rows of the product table
  ProductOf,     \* the product a SKU belongs to
  CurrencyOf,    \* the currency a SKU is priced in
  Target,        \* the SKU the demo scenarios change (_TARGET_SKU_ID)
  SeedStock,     \* stock of the seed data
  SeedPrice,     \* price of the seed data, in minor units
  Rise,          \* what the price-rise scenario adds
  Quantities,    \* quantities a buyer may ask for, 0 included
  MaxLines,      \* bound: cards of one order
  MaxRequests,   \* bound: place and cancel requests started
  MaxScenarios,  \* bound: demo scenarios applied
  Ops,           \* requests the buyers make: a subset of {"place", "cancel"}
  Scenarios,     \* demo scenarios that may be applied
  Faults         \* a subset of {"db", "timeout"}

ASSUME ConstantsAssumption ==
  /\ Target \in Sku
  /\ ProductOf \in [Sku -> Product]
  /\ SeedStock \in [Sku -> Nat]
  /\ SeedPrice \in [Sku -> Nat]
  /\ Rise \in Nat \ {0}
  /\ Quantities \subseteq Nat
  /\ MaxLines \in Nat /\ MaxRequests \in Nat /\ MaxScenarios \in Nat
  /\ Ops \subseteq {"place", "cancel"}
  /\ Scenarios \subseteq {"price-rise", "out-of-stock", "off-shelf", "reset"}
  /\ Faults \subseteq {"db", "timeout"}

VARIABLES
  (* the database *)
  stock, version, price,  \* one value for each SKU row
  listed,                 \* listed[p]: product p is ACTIVE
  orders,                 \* the order table; order n is GBX-<n>
  (* one buyer conversation for each client *)
  cart,                   \* the confirmation cards the buyer has accepted
  (* the request in flight for each client *)
  pc,                     \* the call it makes next; "idle" when there is none
  draft,                  \* the Order aggregate it is building or cancelling
  oid,                    \* the order id it read
  at,                     \* the next line to put back into stock
  (* bounds *)
  requests, changes,
  (* history, read by properties only *)
  supply,                 \* units the catalogue has put on sale
  spent,                  \* <<sku, version>> of every accepted card
  receipts                \* what each buyer was told is confirmed

catalogVars == <<stock, version, price, listed>>
requestVars == <<pc, draft, oid, at>>
vars == <<stock, version, price, listed, orders, cart, pc, draft, oid, at,
          requests, changes, supply, spent, receipts>>

-----------------------------------------------------------------------------
(* Types *)

Card == [sku : Sku, quantity : Quantities, version : Nat, price : Nat]
Line == [card : Card, price : Nat]
Status == {"DRAFT", "CONFIRMED", "CANCELLED"}
Order == [owner : Client, lines : Seq(Line), status : Status]
Receipt == [oid : Nat, lines : Seq(Line)]

Placing == {"reserve", "number", "save", "undo"}
Cancelling == {"restore", "saveCancel"}
Phase == {"idle", "reply"} \cup Placing \cup Cancelling

EmptyDraft(c) == [owner |-> c, lines |-> <<>>, status |-> "DRAFT"]

Init ==
  /\ stock = SeedStock
  /\ version = [s \in Sku |-> 1]
  /\ price = SeedPrice
  /\ listed = [p \in Product |-> TRUE]
  /\ orders = <<>>
  /\ cart = [c \in Client |-> <<>>]
  /\ pc = [c \in Client |-> "idle"]
  /\ draft = [c \in Client |-> EmptyDraft(c)]
  /\ oid = [c \in Client |-> 0]
  /\ at = [c \in Client |-> 0]
  /\ requests = 0
  /\ changes = 0
  /\ supply = SeedStock
  /\ spent = {}
  /\ receipts = [c \in Client |-> {}]

-----------------------------------------------------------------------------
(* Helpers *)

Idle(c) == pc[c] = "idle"
Quiet == \A c \in Client : Idle(c)

(* Mutant: a stock write that keeps the version. *)
WriteStockSameVersion(s, n) ==
  /\ stock' = [stock EXCEPT ![s] = n]
  /\ UNCHANGED <<version, price, listed>>

(* Every write of a stock value also takes the next version. *)
WriteStock(s, n) ==
  /\ stock' = [stock EXCEPT ![s] = n]
  /\ version' = [version EXCEPT ![s] = @ + 1]
  /\ UNCHANGED <<price, listed>>

(* The request of c returns or raises to its caller. *)
Return(c) ==
  /\ pc' = [pc EXCEPT ![c] = "idle"]
  /\ draft' = [draft EXCEPT ![c] = EmptyDraft(c)]
  /\ oid' = [oid EXCEPT ![c] = 0]
  /\ at' = [at EXCEPT ![c] = 0]

(* Mutant: a failed placement raises without putting anything back. *)
RaiseAtOnce(c) == Return(c)

(* "except Exception": put the reserved lines back, the last one first. *)
Unwind(c) ==
  IF draft[c].lines = <<>>
    THEN Return(c)
    ELSE /\ pc' = [pc EXCEPT ![c] = "undo"]
         /\ at' = [at EXCEPT ![c] = Len(draft[c].lines)]
         /\ UNCHANGED <<draft, oid>>

NextCard(c) == cart[c][Len(draft[c].lines) + 1]

(* Mutant: the UPDATE has no lower bound on the stock. *)
ReservableUnbounded(card) ==
  /\ card.quantity > 0
  /\ listed[ProductOf[card.sku]]
  /\ card.version = version[card.sku]

(* The guards of reserve_stock, and again of its conditional UPDATE. *)
Reservable(card) ==
  /\ card.quantity > 0
  /\ listed[ProductOf[card.sku]]
  /\ card.version = version[card.sku]
  /\ card.quantity <= stock[card.sku]

(* Mutant: the quantity is not part of the UPDATE. *)
DeductedOnce(card) == stock[card.sku] - 1

(* The stock value reserve_stock writes, and the one restore_stock writes. *)
Deducted(card) == stock[card.sku] - card.quantity
PutBack(card) == stock[card.sku] + card.quantity

(* Order.__post_init__: all lines in one currency. *)
OneCurrency(lines) ==
  \A i, j \in DOMAIN lines :
    CurrencyOf[lines[i].card.sku] = CurrencyOf[lines[j].card.sku]

(* Mutant: the last id instead of the next one. *)
LastOrderId == IF orders = <<>> THEN 1 ELSE Len(orders)

(* next_order_id: the number of stored orders plus one. *)
NextOrderId == Len(orders) + 1

(* Mutant: a plain insert for every save. *)
InsertOnly(table, k, o) == Append(table, o)

(* db.merge: insert the order, or overwrite the one with the same id. *)
Merge(table, k, o) ==
  IF k > Len(table) THEN Append(table, o) ELSE [table EXCEPT ![k] = o]

-----------------------------------------------------------------------------
(* The buyer's conversation: a search shows a card, the buyer accepts it. *)

AcceptCard(c) ==
  /\ Idle(c)
  /\ Len(cart[c]) < MaxLines
  /\ \E s \in Sku, q \in Quantities :
       /\ listed[ProductOf[s]]
       /\ cart' = [cart EXCEPT ![c] = Append(@,
                     [sku |-> s, quantity |-> q,
                      version |-> version[s], price |-> price[s]])]
  /\ UNCHANGED <<catalogVars, requestVars, orders, requests, changes, supply,
                 spent, receipts>>

(* A new search replaces the cards; until then a retry reuses them. *)
ForgetCards(c) ==
  /\ Idle(c)
  /\ cart[c] # <<>>
  /\ cart' = [cart EXCEPT ![c] = <<>>]
  /\ UNCHANGED <<catalogVars, requestVars, orders, requests, changes, supply,
                 spent, receipts>>

-----------------------------------------------------------------------------
(* PlaceOrderUseCase.execute *)

BeginPlace(c) ==
  /\ "place" \in Ops
  /\ Idle(c)
  /\ cart[c] # <<>>
  /\ requests < MaxRequests
  /\ requests' = requests + 1
  /\ pc' = [pc EXCEPT ![c] = "reserve"]
  /\ UNCHANGED <<catalogVars, orders, cart, draft, oid, at, changes, supply,
                 spent, receipts>>

(* reserve_stock commits: the line takes the price read in that transaction. *)
Reserve(c) ==
  /\ pc[c] = "reserve"
  /\ LET card == NextCard(c) IN
       /\ Reservable(card)
       /\ WriteStock(card.sku, Deducted(card))
       /\ draft' = [draft EXCEPT ![c].lines =
                      Append(@, [card |-> card, price |-> price[card.sku]])]
       /\ spent' = spent \cup {<<card.sku, card.version>>}
  /\ pc' = [pc EXCEPT ![c] = IF Len(draft[c].lines) + 1 = Len(cart[c])
                               THEN "number" ELSE "reserve"]
  /\ UNCHANGED <<orders, cart, oid, at, requests, changes, supply, receipts>>

(* Mutant: a rejected item is tried again with the same card, for ever. *)
RetryItem(c) ==
  /\ pc[c] = "reserve"
  /\ ~Reservable(NextCard(c))
  /\ UNCHANGED vars

(* reserve_stock raises ValueError. *)
RejectItem(c) ==
  /\ pc[c] = "reserve"
  /\ ~Reservable(NextCard(c))
  /\ Unwind(c)
  /\ UNCHANGED <<catalogVars, orders, cart, requests, changes, supply, spent,
                 receipts>>

(* next_order_id, then Order.place, which confirms the order. *)
AssignId(c) ==
  /\ pc[c] = "number"
  /\ OneCurrency(draft[c].lines)
  /\ oid' = [oid EXCEPT ![c] = NextOrderId]
  /\ draft' = [draft EXCEPT ![c].status = "CONFIRMED"]
  /\ pc' = [pc EXCEPT ![c] = "save"]
  /\ UNCHANGED <<catalogVars, orders, cart, at, requests, changes, supply,
                 spent, receipts>>

(* Order.place raises: the lines are in more than one currency. *)
RejectCurrency(c) ==
  /\ pc[c] = "number"
  /\ ~OneCurrency(draft[c].lines)
  /\ Unwind(c)
  /\ UNCHANGED <<catalogVars, orders, cart, requests, changes, supply, spent,
                 receipts>>

(* SqlOrderRepository.save commits, for a new order and for a cancelled one. *)
Save(c) ==
  /\ pc[c] \in {"save", "saveCancel"}
  /\ orders' = Merge(orders, oid[c], draft[c])
  /\ pc' = [pc EXCEPT ![c] = "reply"]
  /\ UNCHANGED <<catalogVars, cart, draft, oid, at, requests, changes, supply,
                 spent, receipts>>

(* The snapshot reaches the caller. *)
Reply(c) ==
  /\ pc[c] = "reply"
  /\ receipts' = IF draft[c].status = "CONFIRMED"
                   THEN [receipts EXCEPT ![c] = @ \cup
                           {[oid |-> oid[c], lines |-> draft[c].lines]}]
                   ELSE receipts
  /\ Return(c)
  /\ UNCHANGED <<catalogVars, orders, cart, requests, changes, supply, spent>>

(* One restore_stock of the compensation loop. *)
UndoLine(c) ==
  /\ pc[c] = "undo"
  /\ LET card == draft[c].lines[at[c]].card IN
       WriteStock(card.sku, PutBack(card))
  /\ IF at[c] = 1
       THEN Return(c)
       ELSE /\ at' = [at EXCEPT ![c] = @ - 1]
            /\ UNCHANGED <<pc, draft, oid>>
  /\ UNCHANGED <<orders, cart, requests, changes, supply, spent, receipts>>

-----------------------------------------------------------------------------
(* CancelOrderUseCase.execute *)

(* find_by_id returns a fresh copy; order.cancel changes only that copy. *)
BeginCancel(c) ==
  /\ "cancel" \in Ops
  /\ Idle(c)
  /\ requests < MaxRequests
  /\ requests' = requests + 1
  /\ \E k \in DOMAIN orders :
       /\ orders[k].status = "CONFIRMED"
       /\ oid' = [oid EXCEPT ![c] = k]
       /\ draft' = [draft EXCEPT ![c] = [orders[k] EXCEPT !.status = "CANCELLED"]]
  /\ at' = [at EXCEPT ![c] = 1]
  /\ pc' = [pc EXCEPT ![c] = "restore"]
  /\ UNCHANGED <<catalogVars, orders, cart, changes, supply, spent, receipts>>

RestoreLine(c) ==
  /\ pc[c] = "restore"
  /\ LET card == draft[c].lines[at[c]].card IN
       WriteStock(card.sku, PutBack(card))
  /\ at' = [at EXCEPT ![c] = @ + 1]
  /\ pc' = [pc EXCEPT ![c] = IF at[c] = Len(draft[c].lines)
                               THEN "saveCancel" ELSE "restore"]
  /\ UNCHANGED <<orders, cart, draft, oid, requests, changes, supply, spent,
                 receipts>>

-----------------------------------------------------------------------------
(* Failures *)

(* A repository call raises ("database is locked"): placing compensates, *)
(* the compensation loop itself and cancelling do not.                   *)
DbFault(c) ==
  /\ "db" \in Faults
  /\ \/ pc[c] \in {"reserve", "number", "save"} /\ Unwind(c)
     \/ pc[c] \in {"undo", "restore", "saveCancel"} /\ Return(c)
  /\ UNCHANGED <<catalogVars, orders, cart, requests, changes, supply, spent,
                 receipts>>

(* asyncio.wait_for gives up on the tool call.  CancelledError is not an *)
(* Exception: nothing is compensated, and a call already handed to the   *)
(* database has committed.  A crash of the process leaves the same.      *)
Timeout(c) ==
  /\ "timeout" \in Faults
  /\ ~Idle(c)
  /\ Return(c)
  /\ UNCHANGED <<catalogVars, orders, cart, requests, changes, supply, spent,
                 receipts>>

-----------------------------------------------------------------------------
(* DemoCatalogUseCase.execute: the upstream platform changes the facts. *)

MayChange(scenario) ==
  /\ scenario \in Scenarios
  /\ changes < MaxScenarios
  /\ changes' = changes + 1
  /\ UNCHANGED <<requestVars, orders, cart, requests, spent, receipts>>

(* Mutant: the price changes and the version does not. *)
RaisePriceSameVersion ==
  /\ MayChange("price-rise")
  /\ price' = [price EXCEPT ![Target] = @ + Rise]
  /\ UNCHANGED <<stock, version, listed, supply>>

RaisePrice ==
  /\ MayChange("price-rise")
  /\ price' = [price EXCEPT ![Target] = @ + Rise]
  /\ version' = [version EXCEPT ![Target] = @ + 1]
  /\ UNCHANGED <<stock, listed, supply>>

SellOut ==
  /\ MayChange("out-of-stock")
  /\ WriteStock(Target, 0)
  /\ supply' = [supply EXCEPT ![Target] = @ - stock[Target]]

(* update_product_status does not touch the SKU versions. *)
TakeOffShelf ==
  /\ MayChange("off-shelf")
  /\ listed' = [listed EXCEPT ![ProductOf[Target]] = FALSE]
  /\ UNCHANGED <<stock, version, price, supply>>

(* replace_all(seed): versions start again at one; orders stay. *)
Reset ==
  /\ MayChange("reset")
  /\ stock' = SeedStock
  /\ version' = [s \in Sku |-> 1]
  /\ price' = SeedPrice
  /\ listed' = [p \in Product |-> TRUE]
  /\ supply' = [s \in Sku |-> supply[s] + SeedStock[s] - stock[s]]

-----------------------------------------------------------------------------

(* What a request does once it has begun. *)
Step(c) ==
  \/ Reserve(c) \/ RejectItem(c)
  \/ AssignId(c) \/ RejectCurrency(c)
  \/ Save(c) \/ Reply(c) \/ UndoLine(c)
  \/ RestoreLine(c)

Scenario == RaisePrice \/ SellOut \/ TakeOffShelf \/ Reset

Next ==
  \/ \E c \in Client :
       \/ AcceptCard(c) \/ ForgetCards(c)
       \/ BeginPlace(c) \/ BeginCancel(c)
       \/ Step(c)
       \/ DbFault(c) \/ Timeout(c)
  \/ Scenario

Spec == Init /\ [][Next]_vars

(* The event loop runs every task that is ready, and a database call *)
(* returns or raises within its busy timeout.                        *)
FairSpec == Spec /\ \A c \in Client : WF_vars(Step(c))

-----------------------------------------------------------------------------
(* Properties *)

(* Every variable has its type; in particular no stock value is ever      *)
(* negative, whatever the interleaving of reservations (the stock >= n    *)
(* condition of the UPDATE in reserve_stock).                             *)
CatalogTypeOK ==
  /\ stock \in [Sku -> Nat]
  /\ version \in [Sku -> Nat]
  /\ price \in [Sku -> Nat]
  /\ listed \in [Product -> BOOLEAN]

RequestTypeOK ==
  /\ pc \in [Client -> Phase]
  /\ draft \in [Client -> Order]
  /\ oid \in [Client -> Nat]
  /\ at \in [Client -> Nat]

TypeOK ==
  /\ CatalogTypeOK
  /\ RequestTypeOK
  /\ orders \in Seq(Order)
  /\ cart \in [Client -> Seq(Card)]
  /\ requests \in 0..MaxRequests
  /\ changes \in 0..MaxScenarios
  /\ supply \in [Sku -> Int]
  /\ spent \subseteq Sku \X Nat
  /\ receipts \in [Client -> SUBSET Receipt]

(* What a request knows in each phase: the cards it still has to reserve, *)
(* the lines it still has to put back, the id it will store its order by. *)
(* TypeOK is inductive together with it.                                  *)
RequestOK(c) ==
  /\ Idle(c) => draft[c].lines = <<>>
  /\ pc[c] = "reserve" => Len(draft[c].lines) < Len(cart[c])
  /\ pc[c] \in {"number", "save", "saveCancel", "reply"} => draft[c].lines # <<>>
  /\ pc[c] \in {"undo", "restore"} => at[c] \in 1..Len(draft[c].lines)
  /\ pc[c] \in {"save"} \cup Cancelling => oid[c] \in 1..(Len(orders) + 1)

PhaseOK ==
  /\ \A c \in Client : RequestOK(c)
  /\ \A k \in DOMAIN orders : orders[k].lines # <<>>

(* The price of every reserved line, and of every line of a stored order, *)
(* is the price on the card the buyer confirmed: reserve_stock accepts a  *)
(* card only at its own version, and every price change takes a new one.  *)
(* True as long as the catalogue is not reset.                            *)
HonouredLines(lines) == \A i \in DOMAIN lines : lines[i].price = lines[i].card.price

PriceHonoured ==
  /\ \A c \in Client : HonouredLines(draft[c].lines)
  /\ \A k \in DOMAIN orders : HonouredLines(orders[k].lines)

SpendsFreshCard ==
  \A c \in Client :
    pc[c] = "reserve" /\ Len(draft'[c].lines) > Len(draft[c].lines)
      => <<NextCard(c).sku, NextCard(c).version>> \notin spent

(* A confirmation card buys at most once, even when the buyer's agent     *)
(* calls again with the same card after a timeout, a rejection or a       *)
(* success: a reservation takes a new version, and so does giving it back.*)
CardSpentOnce == [][SpendsFreshCard]_vars

(* What a buyer was told is confirmed is in the order table, under the    *)
(* id the buyer was given, with the buyer's lines.                        *)
OrderDurable ==
  \A c \in Client : \A r \in receipts[c] :
    /\ r.oid \in DOMAIN orders
    /\ orders[r.oid].owner = c
    /\ orders[r.oid].lines = r.lines

(* An order is CONFIRMED in the table when its cancellation is stored: no *)
(* order is cancelled, and its stock given back, a second time.           *)
CancelOnlyConfirmed ==
  [][\A c \in Client :
       pc[c] = "saveCancel" /\ pc'[c] = "reply"
         => orders[oid[c]].status = "CONFIRMED"]_vars

(* Every request that has begun returns or raises to its caller.          *)
RequestReturns == \A c \in Client : ~Idle(c) ~> Idle(c)

=============================================================================
