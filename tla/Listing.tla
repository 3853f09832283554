------------------------------- MODULE Listing -------------------------------
(***************************************************************************)
(* Sets put in order, and the items of a sequence at some of its places.   *)
(* An order is a set of pairs <<x, y>>, x before y.  What sorted() and     *)
(* list comprehensions with an if do is written with these, and not with   *)
(* folds and permutations, so that theorems can be stated about it.        *)
(***************************************************************************)
EXTENDS Integers, FiniteSets

(* Irreflexive, transitive, and total on a set. *)
StrictOrder(set, order) ==
  /\ \A x \in set : <<x, x>> \notin order
  /\ \A x, y \in set : x # y => <<x, y>> \in order \/ <<y, x>> \in order
  /\ \A x, y, z \in set : <<x, y>> \in order /\ <<y, z>> \in order => <<x, z>> \in order

(* How many members of a set come before x. *)
Ahead(x, set, order) == Cardinality({y \in set : <<y, x>> \in order})

(* The members of a set, in order. *)
InOrder(set, order) ==
  [i \in 1..Cardinality(set) |-> CHOOSE x \in set : Ahead(x, set, order) = i - 1]

(* Numbers put in order, the best first and equals as they are numbered. *)
Ranked(numbers, Better(_, _)) ==
  InOrder(numbers, {pair \in numbers \X numbers :
    \/ Better(pair[1], pair[2])
    \/ ~Better(pair[2], pair[1]) /\ pair[1] < pair[2]})

Ascending(numbers) == Ranked(numbers, LAMBDA i, j : i < j)

(* The items of a sequence at some places, in the order of the sequence. *)
KeepPlaces(seq, places) ==
  LET order == Ascending(places) IN [n \in DOMAIN order |-> seq[order[n]]]

=============================================================================
