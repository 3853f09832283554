---------------------------- MODULE OrderAccounts ----------------------------
(***************************************************************************)
(* The stock accounts of OrderFlow: where the units put on sale are, over  *)
(* all clients and orders.                                                 *)
(***************************************************************************)
EXTENDS OrderFlow, OrderUnits

(* A server has finitely many requests in flight. *)
ASSUME ClientAssumption == IsFiniteSet(Client)

FirstLines(c, n) == SubSeq(draft[c].lines, 1, n)

(* Lines reserved by a placement that has not stored its order yet. *)
HeldLines(c) ==
  CASE pc[c] \in {"reserve", "number", "save"} -> draft[c].lines
    [] pc[c] = "undo" -> FirstLines(c, at[c])
    [] OTHER -> <<>>

(* Lines already back in stock of an order whose cancellation is not stored. *)
GivenLines(c) ==
  CASE pc[c] = "restore" -> FirstLines(c, at[c] - 1)
    [] pc[c] = "saveCancel" -> draft[c].lines
    [] OTHER -> <<>>

(* Lines of a stored order whose buyer is about to be told. *)
PendingLines(c) ==
  IF pc[c] = "reply" /\ draft[c].status = "CONFIRMED" THEN draft[c].lines ELSE <<>>

ConfirmedLines(k) == IF orders[k].status = "CONFIRMED" THEN orders[k].lines ELSE <<>>

Told == UNION {{c} \X receipts[c] : c \in Client}

Held(s) == Total([c \in Client |-> HeldLines(c)], s)
GivenBack(s) == Total([c \in Client |-> GivenLines(c)], s)
Pending(s) == Total([c \in Client |-> PendingLines(c)], s)

(* Units of the confirmed orders in the table. *)
Sold(s) == Total([k \in DOMAIN orders |-> ConfirmedLines(k)], s)

(* Units buyers have been told are theirs, or are about to be told. *)
Promised(s) == Total([t \in Told |-> t[2].lines], s) + Pending(s)

-----------------------------------------------------------------------------

(* No unit is promised twice: what is in stock, held by a placement in    *)
(* flight and promised to buyers never exceeds what was put on sale.      *)
(* Holds for placements in any interleaving, with database faults,        *)
(* timeouts and colliding order ids, which can only lose units.           *)
NoOversell == \A s \in Sku : stock[s] + Held(s) + Promised(s) <= supply[s]

(* Every unit put on sale is in stock, held by a placement, or in a       *)
(* confirmed order: no unit is lost and none appears, after every step of *)
(* every placement, compensation and cancellation that runs on its own.   *)
StockExact ==
  \A s \in Sku : stock[s] + Held(s) - GivenBack(s) + Sold(s) = supply[s]

(* When no request is in flight nothing that was reserved is missing:     *)
(* reserved lines are put back when a placement fails.                    *)
NothingLeaked == Quiet => \A s \in Sku : stock[s] + Sold(s) >= supply[s]

-----------------------------------------------------------------------------
(* Requests that run alone implement the ledger.  A placement takes effect *)
(* when its order is stored, a cancellation when it is stored; until then  *)
(* reserved and given-back units still count as they did before.           *)

Ledger == INSTANCE OrderLedger WITH
  available <- [s \in Sku |-> stock[s] + Held(s) - GivenBack(s)],
  supply <- supply,
  book <- orders

ImplementsLedger == Ledger!Spec

=============================================================================
