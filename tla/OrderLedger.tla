----------------------------- MODULE OrderLedger -----------------------------
(***************************************************************************)
(* What the order component promises its buyers: placing takes all lines   *)
(* of an order out of stock and files the order, or does nothing;          *)
(* cancelling puts all lines of a confirmed order back and files that, or  *)
(* does nothing; filed orders change in no other way.                      *)
(***************************************************************************)
EXTENDS OrderUnits

CONSTANT Sku

VARIABLES
  available,   \* units that can still be ordered, for each SKU
  supply,      \* units the catalogue has put on sale so far
  book         \* the orders, in the order they were filed

ledger == <<available, supply, book>>

Init ==
  /\ available \in [Sku -> Nat]
  /\ supply = available
  /\ book = <<>>

Place ==
  /\ Len(book') = Len(book) + 1
  /\ SubSeq(book', 1, Len(book)) = book
  /\ LET filed == book'[Len(book')] IN
       /\ filed.status = "CONFIRMED"
       /\ \A s \in Sku : Units(filed.lines, s) <= available[s]
       /\ available' = [s \in Sku |-> available[s] - Units(filed.lines, s)]
  /\ UNCHANGED supply

Cancel ==
  /\ \E k \in DOMAIN book :
       /\ book[k].status = "CONFIRMED"
       /\ book' = [book EXCEPT ![k].status = "CANCELLED"]
       /\ available' = [s \in Sku |-> available[s] + Units(book[k].lines, s)]
  /\ UNCHANGED supply

(* The catalogue itself changes how much is on sale. *)
Source ==
  /\ \A s \in Sku : supply'[s] - supply[s] = available'[s] - available[s]
  /\ UNCHANGED book

Next == Place \/ Cancel \/ Source

Spec == Init /\ [][Next]_ledger

=============================================================================
