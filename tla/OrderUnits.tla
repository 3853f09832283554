----------------------------- MODULE OrderUnits -----------------------------
(***************************************************************************)
(* Counting the units that order lines stand for.  A unit is named by its  *)
(* line and its number in that line, so that counts are cardinalities.     *)
(***************************************************************************)
EXTENDS Integers, Sequences, FiniteSets

(* The units of SKU s in a sequence of order lines. *)
UnitsIn(lines, s) ==
  {u \in UNION {{i} \X (1..lines[i].card.quantity) : i \in DOMAIN lines} :
     lines[u[1]].card.sku = s}

Units(lines, s) == Cardinality(UnitsIn(lines, s))

(* The units of SKU s in several sequences of lines, f[k] for every key k. *)
UnitsOfAll(f, s) == UNION {{k} \X UnitsIn(f[k], s) : k \in DOMAIN f}

Total(f, s) == Cardinality(UnitsOfAll(f, s))

=============================================================================
