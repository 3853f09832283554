------------------------ MODULE OrderAccounts_proofs ------------------------
(***************************************************************************)
(* Theorems about the stock accounts of OrderAccounts, for any set of      *)
(* clients, SKUs, products and quantities and any bounds.                  *)
(***************************************************************************)
EXTENDS OrderAccounts, OrderFlow_proofs, FiniteSetTheorems

-----------------------------------------------------------------------------
(* Counting units. *)

(* A finite family of finite sets has a finite union. *)
LEMMA FiniteFamily ==
  ASSUME NEW K, IsFiniteSet(K), NEW f, \A k \in K : IsFiniteSet(f[k])
  PROVE  IsFiniteSet(UNION {f[k] : k \in K})
<1> DEFINE S == {f[k] : k \in K}
           g == [k \in K |-> f[k]]
<1>1. g \in Surjection(K, S)
  BY DEF Surjection
<1>2. IsFiniteSet(S)
  <2> HIDE DEF S, g
  <2> QED BY <1>1, FS_Surjection
<1>3. \A T \in S : IsFiniteSet(T)
  OBVIOUS
<1> HIDE DEF S
<1>4. IsFiniteSet(UNION S)
  BY <1>2, <1>3, FS_UNION
<1> QED BY <1>4 DEF S

LEMMA CountTo ==
  ASSUME NEW n \in Nat
  PROVE  IsFiniteSet(1..n) /\ Cardinality(1..n) = n
<1>1. /\ IsFiniteSet(1..n)
      /\ Cardinality(1..n) = IF 1 > n THEN 0 ELSE n - 1 + 1
  BY FS_Interval
<1>2. (IF 1 > n THEN 0 ELSE n - 1 + 1) = n
  OBVIOUS
<1> QED BY <1>1, <1>2

(* The cards of a sequence of lines ask for natural numbers of units. *)
LEMMA LineQuantity ==
  ASSUME NEW lines \in Seq(Line), NEW i \in DOMAIN lines
  PROVE  lines[i].card.quantity \in Nat /\ lines[i].card.sku \in Sku
<1>1. lines[i] \in Line
  OBVIOUS
<1>2. lines[i].card \in Card
  BY <1>1 DEF Line
<1> QED BY <1>2, ConstantsAssumption DEF Card

(* A sequence of lines stands for finitely many units. *)
LEMMA UnitsFinite ==
  ASSUME NEW lines \in Seq(Line), NEW s
  PROVE  IsFiniteSet(UnitsIn(lines, s)) /\ Units(lines, s) \in Nat
<1> DEFINE K == DOMAIN lines
           f == [i \in K |-> {i} \X (1..lines[i].card.quantity)]
           All == UNION {f[i] : i \in K}
<1>1. IsFiniteSet(K)
  <2>1. K = 1..Len(lines) /\ Len(lines) \in Nat
    OBVIOUS
  <2> QED BY <2>1, FS_Interval
<1>2. ASSUME NEW i \in K PROVE IsFiniteSet(f[i])
  <2>1. IsFiniteSet(1..lines[i].card.quantity)
    BY LineQuantity, FS_Interval
  <2>2. IsFiniteSet({i})
    BY FS_Singleton
  <2>3. IsFiniteSet({i} \X (1..lines[i].card.quantity))
    BY <2>1, <2>2, FS_Product
  <2> QED BY <2>3
<1>3. IsFiniteSet(All)
  <2> HIDE DEF K, f
  <2> QED BY <1>1, <1>2, FiniteFamily
<1>4. UnitsIn(lines, s) \in SUBSET All
  BY DEF UnitsIn
<1>5. IsFiniteSet(UnitsIn(lines, s))
  <2> HIDE DEF All
  <2> QED BY <1>3, <1>4, FS_Subset
<1> QED BY <1>5, FS_CardinalityType DEF Units

LEMMA UnitsMember ==
  ASSUME NEW lines, NEW s, NEW u
  PROVE  u \in UnitsIn(lines, s) <=>
           \E i \in DOMAIN lines : \E n \in 1..lines[i].card.quantity :
             u = <<i, n>> /\ lines[i].card.sku = s
BY DEF UnitsIn

(* No lines, no units. *)
LEMMA UnitsNone ==
  ASSUME NEW s
  PROVE  UnitsIn(<<>>, s) = {} /\ Units(<<>>, s) = 0
<1>1. UnitsIn(<<>>, s) = {}
  BY UnitsMember
<1> QED BY <1>1, FS_EmptySet DEF Units

(* One more line adds its quantity to the units of its SKU. *)
LineUnits(line, s) == IF line.card.sku = s THEN line.card.quantity ELSE 0

LEMMA UnitsAppend ==
  ASSUME NEW lines \in Seq(Line), NEW line \in Line, NEW s
  PROVE  /\ Units(Append(lines, line), s) = Units(lines, s) + LineUnits(line, s)
         /\ LineUnits(line, s) \in Nat
<1> DEFINE more == Append(lines, line)
           k == Len(lines) + 1
           new == {k} \X (1..line.card.quantity)
<1>1. /\ more \in Seq(Line) /\ Len(more) = k /\ more[k] = line /\ Len(lines) \in Nat
      /\ DOMAIN more = DOMAIN lines \cup {k} /\ k \notin DOMAIN lines
      /\ \A i \in DOMAIN lines : more[i] = lines[i]
  OBVIOUS
<1>2. line.card.quantity \in Nat
  BY <1>1, LineQuantity
<1>3. IsFiniteSet(UnitsIn(lines, s)) /\ Cardinality(UnitsIn(lines, s)) \in Nat
  BY UnitsFinite DEF Units
<1>4. IsFiniteSet(new) /\ Cardinality(new) = line.card.quantity
  <2>1. /\ IsFiniteSet(1..line.card.quantity)
        /\ Cardinality(1..line.card.quantity) = line.card.quantity
    BY <1>2, CountTo
  <2>2. IsFiniteSet({k}) /\ Cardinality({k}) = 1
    BY FS_Singleton
  <2>3. /\ IsFiniteSet(new)
        /\ Cardinality(new) = Cardinality({k}) * Cardinality(1..line.card.quantity)
    BY <2>1, <2>2, FS_Product
  <2> QED BY <1>2, <2>1, <2>2, <2>3
<1>5. UnitsIn(lines, s) \cap new = {}
  <2>1. ASSUME NEW u \in UnitsIn(lines, s) PROVE u \notin new
    <3>1. PICK i \in DOMAIN lines : \E n \in 1..lines[i].card.quantity : u = <<i, n>>
      BY UnitsMember
    <3>2. u[1] = i /\ i # k
      BY <1>1, <3>1
    <3> QED BY <3>2
  <2> QED BY <2>1
<1> HIDE DEF more, k
<1>6. CASE line.card.sku = s
  <2>1. UnitsIn(more, s) = UnitsIn(lines, s) \cup new
    <3>1. \A u : u \in UnitsIn(more, s) =>
            u \in UnitsIn(lines, s) \/ u \in new
      BY <1>1, UnitsMember
    <3>2. \A u : u \in UnitsIn(lines, s) => u \in UnitsIn(more, s)
      BY <1>1, UnitsMember
    <3>3. \A u : u \in new => u \in UnitsIn(more, s)
      BY <1>1, <1>6, UnitsMember
    <3> QED BY <3>1, <3>2, <3>3
  <2> HIDE DEF new
  <2>2. Cardinality(UnitsIn(more, s)) =
          Cardinality(UnitsIn(lines, s)) + Cardinality(new) - Cardinality({})
    BY <1>3, <1>4, <1>5, <2>1, FS_Union
  <2> QED BY <1>2, <1>3, <1>4, <1>6, <2>2, FS_EmptySet DEF Units, LineUnits, more
<1>7. CASE line.card.sku # s
  <2>1. UnitsIn(more, s) = UnitsIn(lines, s)
    <3>1. \A u : u \in UnitsIn(more, s) => u \in UnitsIn(lines, s)
      BY <1>1, <1>7, UnitsMember
    <3>2. \A u : u \in UnitsIn(lines, s) => u \in UnitsIn(more, s)
      BY <1>1, UnitsMember
    <3> QED BY <3>1, <3>2
  <2> QED BY <1>3, <1>7, <2>1 DEF Units, LineUnits, more
<1> QED BY <1>6, <1>7

(* The first lines of an order, one at a time. *)
LEMMA FirstOnes ==
  ASSUME NEW lines \in Seq(Line)
  PROVE  /\ SubSeq(lines, 1, 0) = <<>>
         /\ SubSeq(lines, 1, Len(lines)) = lines
         /\ \A n \in 0..Len(lines) : SubSeq(lines, 1, n) \in Seq(Line)
         /\ \A n \in 1..Len(lines) :
              /\ SubSeq(lines, 1, n) = Append(SubSeq(lines, 1, n - 1), lines[n])
              /\ lines[n] \in Line
<1>1. \A n \in 1..Len(lines) :
         SubSeq(lines, 1, n) = Append(SubSeq(lines, 1, n - 1), lines[n])
  <2> SUFFICES ASSUME NEW n \in 1..Len(lines)
               PROVE  SubSeq(lines, 1, n) = Append(SubSeq(lines, 1, n - 1), lines[n])
    OBVIOUS
  <2>1. /\ SubSeq(lines, 1, n) \in Seq(Line)
        /\ Len(SubSeq(lines, 1, n)) = n
        /\ \A i \in 1..n : SubSeq(lines, 1, n)[i] = lines[i]
    OBVIOUS
  <2>2. /\ SubSeq(lines, 1, n - 1) \in Seq(Line)
        /\ Len(SubSeq(lines, 1, n - 1)) = n - 1
        /\ \A i \in 1..(n - 1) : SubSeq(lines, 1, n - 1)[i] = lines[i]
    OBVIOUS
  <2>3. /\ Append(SubSeq(lines, 1, n - 1), lines[n]) \in Seq(Line)
        /\ Len(Append(SubSeq(lines, 1, n - 1), lines[n])) = n
        /\ \A i \in 1..n : Append(SubSeq(lines, 1, n - 1), lines[n])[i] = lines[i]
    BY <2>2
  <2> QED BY <2>1, <2>3
<1>2. SubSeq(lines, 1, Len(lines)) = lines
  OBVIOUS
<1>3. SubSeq(lines, 1, 0) = <<>>
  OBVIOUS
<1>4. \A n \in 0..Len(lines) : SubSeq(lines, 1, n) \in Seq(Line)
  OBVIOUS
<1>5. \A n \in 1..Len(lines) : lines[n] \in Line
  OBVIOUS
<1> QED BY <1>1, <1>2, <1>3, <1>4, <1>5

(* Families of lines, one sequence for every key. *)
LEMMA FamilyMember ==
  ASSUME NEW f, NEW s, NEW x
  PROVE  x \in UnitsOfAll(f, s) <=>
           \E k \in DOMAIN f : \E u \in UnitsIn(f[k], s) : x = <<k, u>>
BY DEF UnitsOfAll

(* The units of the other keys. *)
UnitsOfOthers(f, k, s) == {x \in UnitsOfAll(f, s) : x[1] # k}

(* The units of one key of a family are as many as those of its lines, and *)
(* they are apart from those of the other keys.                            *)
LEMMA FamilySplit ==
  ASSUME NEW K, IsFiniteSet(K), NEW f \in [K -> Seq(Line)], NEW k \in K, NEW s
  PROVE  /\ Cardinality(UnitsOfOthers(f, k, s)) \in Nat /\ Units(f[k], s) \in Nat
         /\ Total(f, s) = Cardinality(UnitsOfOthers(f, k, s)) + Units(f[k], s)
<1> DEFINE others == UnitsOfOthers(f, k, s)
           mine == {k} \X UnitsIn(f[k], s)
           g == [j \in K |-> {j} \X UnitsIn(f[j], s)]
<1>1. \A j \in K : IsFiniteSet(g[j])
  <2> SUFFICES ASSUME NEW j \in K PROVE IsFiniteSet(g[j])
    OBVIOUS
  <2>1. IsFiniteSet(UnitsIn(f[j], s)) /\ IsFiniteSet({j})
    BY UnitsFinite, FS_Singleton
  <2>2. IsFiniteSet({j} \X UnitsIn(f[j], s))
    BY <2>1, FS_Product
  <2> QED BY <2>2
<1>2. IsFiniteSet(UnitsOfAll(f, s))
  <2>1. UnitsOfAll(f, s) = UNION {g[j] : j \in K}
    BY DEF UnitsOfAll
  <2>2. IsFiniteSet(UNION {g[j] : j \in K})
    <3> HIDE DEF g
    <3> QED BY <1>1, FiniteFamily
  <2> QED BY <2>1, <2>2
<1>3. UnitsIn(f[k], s) = UnitsIn(f[k], s) /\ IsFiniteSet(UnitsIn(f[k], s))
      /\ Units(f[k], s) \in Nat
  BY UnitsFinite
<1>4. IsFiniteSet(mine) /\ Cardinality(mine) = Units(f[k], s)
  <2>1. IsFiniteSet({k}) /\ Cardinality({k}) = 1
    BY FS_Singleton
  <2>2. /\ IsFiniteSet(mine)
        /\ Cardinality(mine) = Cardinality({k}) * Cardinality(UnitsIn(f[k], s))
    BY <1>3, <2>1, FS_Product
  <2> QED BY <1>3, <2>1, <2>2 DEF Units
<1>5. IsFiniteSet(others) /\ Cardinality(others) \in Nat
  <2>1. others \in SUBSET UnitsOfAll(f, s)
    BY DEF UnitsOfOthers
  <2> HIDE DEF others
  <2>2. IsFiniteSet(others)
    BY <1>2, <2>1, FS_Subset
  <2> QED BY <2>2, FS_CardinalityType
<1>6. UnitsOfAll(f, s) = others \cup mine
  <2>1. ASSUME NEW x \in UnitsOfAll(f, s), x[1] = k PROVE x \in mine
    BY <2>1, FamilyMember
  <2>2. ASSUME NEW x \in mine PROVE x \in UnitsOfAll(f, s)
    BY FamilyMember
  <2> QED BY <2>1, <2>2 DEF UnitsOfOthers
<1>7. others \cap mine = {}
  BY DEF UnitsOfOthers
<1> HIDE DEF mine, others
<1>8. Cardinality(others \cup mine) = Cardinality(others) + Cardinality(mine) - Cardinality({})
  BY <1>4, <1>5, <1>7, FS_Union
<1>9. Total(f, s) = Cardinality(others) + Units(f[k], s)
  BY <1>3, <1>4, <1>5, <1>6, <1>8, FS_EmptySet DEF Total
<1> QED BY <1>3, <1>5, <1>9 DEF others

(* When only the lines of one key change, only their units count. *)
LEMMA OthersSame ==
  ASSUME NEW f, NEW g, DOMAIN f = DOMAIN g, NEW k, NEW s,
         \A j \in DOMAIN f : j # k => g[j] = f[j]
  PROVE  UnitsOfOthers(g, k, s) = UnitsOfOthers(f, k, s)
<1> DEFINE fo == UnitsOfOthers(f, k, s)
           go == UnitsOfOthers(g, k, s)
<1>1. ASSUME NEW x \in fo PROVE x \in go
  <2>1. PICK j \in DOMAIN f : \E u \in UnitsIn(f[j], s) : x = <<j, u>>
    BY FamilyMember DEF UnitsOfOthers
  <2>2. j # k /\ g[j] = f[j]
    BY <2>1 DEF UnitsOfOthers
  <2> QED BY <2>1, <2>2, FamilyMember DEF UnitsOfOthers
<1>2. ASSUME NEW x \in go PROVE x \in fo
  <2>1. PICK j \in DOMAIN f : \E u \in UnitsIn(g[j], s) : x = <<j, u>>
    BY FamilyMember DEF UnitsOfOthers
  <2>2. j # k /\ g[j] = f[j]
    BY <2>1 DEF UnitsOfOthers
  <2> QED BY <2>1, <2>2, FamilyMember DEF UnitsOfOthers
<1> QED BY <1>1, <1>2

(* The units of the other keys are those of the family without the key. *)
LEMMA OthersBefore ==
  ASSUME NEW f, NEW g, NEW k, k \notin DOMAIN f, DOMAIN g = DOMAIN f \cup {k},
         \A j \in DOMAIN f : g[j] = f[j], NEW s
  PROVE  UnitsOfOthers(g, k, s) = UnitsOfAll(f, s)
<1>1. ASSUME NEW x \in UnitsOfOthers(g, k, s) PROVE x \in UnitsOfAll(f, s)
  <2>1. PICK j \in DOMAIN g : \E u \in UnitsIn(g[j], s) : x = <<j, u>>
    BY FamilyMember DEF UnitsOfOthers
  <2>2. j \in DOMAIN f /\ g[j] = f[j]
    BY <2>1 DEF UnitsOfOthers
  <2> QED BY <2>1, <2>2, FamilyMember
<1>2. ASSUME NEW x \in UnitsOfAll(f, s) PROVE x \in UnitsOfOthers(g, k, s)
  <2>1. PICK j \in DOMAIN f : \E u \in UnitsIn(f[j], s) : x = <<j, u>>
    BY FamilyMember
  <2>2. j # k /\ j \in DOMAIN g /\ g[j] = f[j]
    BY <2>1
  <2> QED BY <2>1, <2>2, FamilyMember DEF UnitsOfOthers
<1> QED BY <1>1, <1>2

(* A finite family of lines has finitely many units, those of a key among *)
(* them.                                                                   *)
LEMMA TotalPart ==
  ASSUME NEW K, IsFiniteSet(K), NEW f \in [K -> Seq(Line)], NEW s
  PROVE  Total(f, s) \in Nat /\ \A k \in K : Units(f[k], s) \in 0..Total(f, s)
<1>1. \A k \in K : Total(f, s) \in Nat /\ Units(f[k], s) \in 0..Total(f, s)
  BY FamilySplit
<1>2. K = {} => Total(f, s) \in Nat
  BY FS_EmptySet DEF Total, UnitsOfAll
<1> QED BY <1>1, <1>2

(* A family without lines has no units. *)
LEMMA TotalNone ==
  ASSUME NEW f, \A k \in DOMAIN f : f[k] = <<>>, NEW s
  PROVE  Total(f, s) = 0
<1>1. UnitsOfAll(f, s) = {}
  BY FamilyMember, UnitsNone
<1> QED BY <1>1, FS_EmptySet DEF Total

-----------------------------------------------------------------------------
(* The accounts from one state to the next. *)

(* The lines an account counts are sequences of lines. *)
LinesTyped ==
  \A c \in Client : /\ HeldLines(c) \in Seq(Line) /\ GivenLines(c) \in Seq(Line)
                    /\ PendingLines(c) \in Seq(Line)

LEMMA LinesHaveType == TypeOK /\ PhaseOK => LinesTyped
<1> SUFFICES ASSUME TypeOK, PhaseOK, NEW c \in Client
             PROVE  /\ HeldLines(c) \in Seq(Line) /\ GivenLines(c) \in Seq(Line)
                    /\ PendingLines(c) \in Seq(Line)
  BY DEF LinesTyped
<1>1. draft[c].lines \in Seq(Line) /\ Len(draft[c].lines) \in Nat /\ RequestOK(c)
  BY LinesType DEF TypeOK, PhaseOK
<1>2. \A n \in 0..Len(draft[c].lines) : FirstLines(c, n) \in Seq(Line)
  BY <1>1, FirstOnes DEF FirstLines
<1>3. HeldLines(c) \in Seq(Line)
  BY <1>1, <1>2 DEF HeldLines, RequestOK
<1>4. GivenLines(c) \in Seq(Line)
  BY <1>1, <1>2 DEF GivenLines, RequestOK
<1>5. PendingLines(c) \in Seq(Line)
  BY <1>1 DEF PendingLines
<1> QED BY <1>3, <1>4, <1>5

LEMMA LinesKeepType == TypeOK' /\ PhaseOK' => LinesTyped'
BY LinesHaveType, PTL

(* The requests of the other clients count for what they did. *)
LEMMA AccountStep ==
  ASSUME LinesTyped, LinesTyped', NEW c \in Client, OthersWait(c), NEW s
  PROVE  /\ Held(s)' - Units(HeldLines(c)', s) = Held(s) - Units(HeldLines(c), s)
         /\ GivenBack(s)' - Units(GivenLines(c)', s) = GivenBack(s) - Units(GivenLines(c), s)
         /\ Pending(s)' - Units(PendingLines(c)', s) = Pending(s) - Units(PendingLines(c), s)
<1>1. \A d \in Client \ {c} :
        /\ HeldLines(d)' = HeldLines(d) /\ GivenLines(d)' = GivenLines(d)
        /\ PendingLines(d)' = PendingLines(d)
  BY DEF OthersWait, HeldLines, GivenLines, PendingLines, FirstLines
<1>2. PICK h, g, p :
        /\ h = [d \in Client |-> HeldLines(d)'] /\ g = [d \in Client |-> GivenLines(d)']
        /\ p = [d \in Client |-> PendingLines(d)']
  OBVIOUS
<1>3. /\ h \in [Client -> Seq(Line)] /\ g \in [Client -> Seq(Line)]
      /\ p \in [Client -> Seq(Line)]
  BY <1>2 DEF LinesTyped
<1>4. Held(s)' = Total(h, s) /\ GivenBack(s)' = Total(g, s) /\ Pending(s)' = Total(p, s)
  BY <1>2 DEF Held, GivenBack, Pending, Total, UnitsOfAll, UnitsIn
<1>5. PICK h0, g0, p0 :
        /\ h0 = [d \in Client |-> HeldLines(d)] /\ g0 = [d \in Client |-> GivenLines(d)]
        /\ p0 = [d \in Client |-> PendingLines(d)]
  OBVIOUS
<1>6. /\ h0 \in [Client -> Seq(Line)] /\ g0 \in [Client -> Seq(Line)]
      /\ p0 \in [Client -> Seq(Line)]
  BY <1>5 DEF LinesTyped
<1>7. Held(s) = Total(h0, s) /\ GivenBack(s) = Total(g0, s) /\ Pending(s) = Total(p0, s)
  BY <1>5 DEF Held, GivenBack, Pending
<1>8. ASSUME NEW f \in [Client -> Seq(Line)], NEW f0 \in [Client -> Seq(Line)],
             \A d \in Client : d # c => f[d] = f0[d]
      PROVE  Total(f, s) - Units(f[c], s) = Total(f0, s) - Units(f0[c], s)
  <2>1. UnitsOfOthers(f, c, s) = UnitsOfOthers(f0, c, s)
    <3>1. DOMAIN f = DOMAIN f0 /\ \A d \in DOMAIN f0 : d # c => f[d] = f0[d]
      BY <1>8
    <3> QED BY <3>1, OthersSame
  <2>2. /\ Cardinality(UnitsOfOthers(f, c, s)) \in Nat /\ Units(f[c], s) \in Nat
        /\ Total(f, s) = Cardinality(UnitsOfOthers(f, c, s)) + Units(f[c], s)
    BY FamilySplit, ClientAssumption
  <2>3. /\ Units(f0[c], s) \in Nat
        /\ Total(f0, s) = Cardinality(UnitsOfOthers(f0, c, s)) + Units(f0[c], s)
    BY FamilySplit, ClientAssumption
  <2> QED BY <2>1, <2>2, <2>3
<1>9. Total(h, s) - Units(h[c], s) = Total(h0, s) - Units(h0[c], s)
  <2>1. \A d \in Client : d # c => h[d] = h0[d]
    BY <1>1, <1>2, <1>5
  <2> QED BY <1>3, <1>6, <1>8, <2>1
<1>10. Total(g, s) - Units(g[c], s) = Total(g0, s) - Units(g0[c], s)
  <2>1. \A d \in Client : d # c => g[d] = g0[d]
    BY <1>1, <1>2, <1>5
  <2> QED BY <1>3, <1>6, <1>8, <2>1
<1>11. Total(p, s) - Units(p[c], s) = Total(p0, s) - Units(p0[c], s)
  <2>1. \A d \in Client : d # c => p[d] = p0[d]
    BY <1>1, <1>2, <1>5
  <2> QED BY <1>3, <1>6, <1>8, <2>1
<1> QED BY <1>2, <1>4, <1>5, <1>7, <1>9, <1>10, <1>11

(* Every account is a natural number, and what a client has in one is part *)
(* of it.                                                                  *)
LEMMA AccountType ==
  ASSUME LinesTyped, NEW s
  PROVE  /\ Held(s) \in Nat /\ GivenBack(s) \in Nat /\ Pending(s) \in Nat
         /\ \A c \in Client :
              /\ Units(HeldLines(c), s) \in 0..Held(s)
              /\ Units(GivenLines(c), s) \in 0..GivenBack(s)
              /\ Units(PendingLines(c), s) \in 0..Pending(s)
<1>1. PICK h0, g0, p0 :
        /\ h0 = [d \in Client |-> HeldLines(d)] /\ g0 = [d \in Client |-> GivenLines(d)]
        /\ p0 = [d \in Client |-> PendingLines(d)]
  OBVIOUS
<1>2. /\ h0 \in [Client -> Seq(Line)] /\ g0 \in [Client -> Seq(Line)]
      /\ p0 \in [Client -> Seq(Line)]
  BY <1>1 DEF LinesTyped
<1>3. Held(s) = Total(h0, s) /\ GivenBack(s) = Total(g0, s) /\ Pending(s) = Total(p0, s)
  BY <1>1 DEF Held, GivenBack, Pending
<1>4. Total(h0, s) \in Nat /\ Total(g0, s) \in Nat /\ Total(p0, s) \in Nat
  BY <1>2, TotalPart, ClientAssumption
<1>5. \A c \in Client : Units(h0[c], s) \in 0..Total(h0, s)
  BY <1>2, TotalPart, ClientAssumption
<1>6. \A c \in Client : Units(g0[c], s) \in 0..Total(g0, s)
  BY <1>2, TotalPart, ClientAssumption
<1>7. \A c \in Client : Units(p0[c], s) \in 0..Total(p0, s)
  BY <1>2, TotalPart, ClientAssumption
<1> QED BY <1>1, <1>3, <1>4, <1>5, <1>6, <1>7

(* What a placement or cancellation takes out of stock it holds, and what  *)
(* it puts back it has given: the units of c do not change hands.          *)
KeepsUnits(c) ==
  \A s \in Sku :
    stock'[s] + Units(HeldLines(c)', s) - Units(GivenLines(c)', s)
      = stock[s] + Units(HeldLines(c), s) - Units(GivenLines(c), s)

(* A stock write, unit by unit. *)
LEMMA WriteStockUnits ==
  ASSUME CatalogTypeOK, NEW t \in Sku, NEW n, WriteStock(t, n), NEW s \in Sku
  PROVE  stock'[s] = IF s = t THEN n ELSE stock[s]
BY DEF CatalogTypeOK, WriteStock

(* A client whose lines stay where they are. *)
LEMMA KeepsStill ==
  ASSUME NEW c \in Client, stock' = stock,
         HeldLines(c)' = HeldLines(c), GivenLines(c)' = GivenLines(c)
  PROVE  KeepsUnits(c)
BY DEF KeepsUnits

LEMMA ReserveUnits ==
  ASSUME TypeOK, PhaseOK, NEW c \in Client, Reserve(c)
  PROVE  KeepsUnits(c) /\ OthersWait(c) /\ PendingLines(c)' = PendingLines(c)
<1> DEFINE card == NextCard(c)
           line == [card |-> card, price |-> price[card.sku]]
<1>1. RequestTypeOK /\ CatalogTypeOK
  BY DEF TypeOK
<1>2. draft[c].lines \in Seq(Line) /\ cart[c] \in Seq(Card)
  BY LinesType DEF TypeOK
<1>3. card \in Card
  <2>1. Len(draft[c].lines) < Len(cart[c]) /\ Len(draft[c].lines) \in Nat
    BY <1>2 DEF Reserve, PhaseOK, RequestOK
  <2> QED BY <1>2, <2>1 DEF NextCard
<1>4. line \in Line /\ card.sku \in Sku /\ card.quantity \in Nat
  BY <1>1, <1>3, ConstantsAssumption DEF Card, Line, CatalogTypeOK
<1>5. /\ pc[c] = "reserve" /\ pc' = [pc EXCEPT ![c] = IF Len(draft[c].lines) + 1 = Len(cart[c])
                               THEN "number" ELSE "reserve"]
      /\ draft' = [draft EXCEPT ![c].lines = Append(@, line)]
      /\ WriteStock(card.sku, Deducted(card))
      /\ oid' = oid /\ at' = at
  BY DEF Reserve
<1>6. /\ draft'[c].lines = Append(draft[c].lines, line)
      /\ \A d \in Client \ {c} : draft'[d] = draft[d]
  BY <1>1, <1>4, <1>5, AppendLine
<1>7. pc'[c] \in {"reserve", "number"} /\ \A d \in Client \ {c} : pc'[d] = pc[d]
  BY <1>1, <1>5 DEF RequestTypeOK
<1>8. OthersWait(c)
  BY <1>5, <1>6, <1>7 DEF OthersWait
<1>9. /\ HeldLines(c) = draft[c].lines /\ HeldLines(c)' = Append(draft[c].lines, line)
      /\ GivenLines(c) = <<>> /\ GivenLines(c)' = <<>>
      /\ PendingLines(c) = <<>> /\ PendingLines(c)' = <<>>
  BY <1>5, <1>6, <1>7 DEF HeldLines, GivenLines, PendingLines
<1>10. ASSUME NEW s \in Sku
       PROVE  stock'[s] + Units(HeldLines(c)', s) - Units(GivenLines(c)', s)
                = stock[s] + Units(HeldLines(c), s) - Units(GivenLines(c), s)
  <2>1. /\ Units(Append(draft[c].lines, line), s)
             = Units(draft[c].lines, s) + LineUnits(line, s)
        /\ Units(draft[c].lines, s) \in Nat /\ LineUnits(line, s) \in Nat
    BY <1>2, <1>4, UnitsAppend, UnitsFinite
  <2>2. LineUnits(line, s) = IF card.sku = s THEN card.quantity ELSE 0
    BY DEF LineUnits
  <2> HIDE DEF line
  <2>3. stock'[s] = IF s = card.sku THEN stock[card.sku] - card.quantity ELSE stock[s]
    BY <1>1, <1>4, <1>5, WriteStockUnits DEF Deducted
  <2>4. stock[s] \in Nat /\ stock[card.sku] \in Nat
    BY <1>1, <1>4 DEF CatalogTypeOK
  <2>5. stock'[s] + LineUnits(line, s) = stock[s]
    BY <1>4, <2>2, <2>3, <2>4
  <2> QED BY <1>9, <2>1, <2>3, <2>4, <2>5, UnitsNone, <1>4
<1> QED BY <1>8, <1>9, <1>10 DEF KeepsUnits

(* Unwinding a placement keeps its lines, for UndoLine to put back. *)
LEMMA UnwindUnits ==
  ASSUME TypeOK, PhaseOK, NEW c \in Client, Unwind(c), pc[c] \in {"reserve", "number", "save"},
         stock' = stock
  PROVE  /\ KeepsUnits(c) /\ OthersWait(c)
         /\ PendingLines(c)' = <<>> /\ PendingLines(c) = <<>>
<1>1. draft[c].lines \in Seq(Line) /\ RequestTypeOK
  BY LinesType DEF TypeOK
<1>2. OthersWait(c)
  BY <1>1, UnwindStep
<1>3. HeldLines(c) = draft[c].lines /\ GivenLines(c) = <<>> /\ PendingLines(c) = <<>>
  BY DEF HeldLines, GivenLines, PendingLines
<1>4. HeldLines(c)' = draft[c].lines /\ GivenLines(c)' = <<>> /\ PendingLines(c)' = <<>>
  <2>1. CASE draft[c].lines = <<>>
    <3>1. pc'[c] = "idle"
      BY <1>1, <2>1, ReturnStep DEF Unwind
    <3> QED BY <2>1, <3>1 DEF HeldLines, GivenLines, PendingLines
  <2>2. CASE draft[c].lines # <<>>
    <3>1. pc'[c] = "undo" /\ draft'[c] = draft[c] /\ at'[c] = Len(draft[c].lines)
      BY <1>1, <2>2 DEF Unwind, RequestTypeOK
    <3>2. HeldLines(c)' = SubSeq(draft[c].lines, 1, Len(draft[c].lines))
      BY <3>1 DEF HeldLines, FirstLines
    <3> QED BY <1>1, <3>1, <3>2, FirstOnes DEF GivenLines, PendingLines
  <2> QED BY <2>1, <2>2
<1> QED BY <1>2, <1>3, <1>4, KeepsStill

(* Putting line n of c back adds its units to the stock. *)
LEMMA PutBackUnits ==
  ASSUME TypeOK, NEW c \in Client, NEW n \in 1..Len(draft[c].lines),
         WriteStock(draft[c].lines[n].card.sku, PutBack(draft[c].lines[n].card)),
         NEW s \in Sku
  PROVE  /\ stock'[s] + Units(FirstLines(c, n - 1), s) = stock[s] + Units(FirstLines(c, n), s)
         /\ Units(FirstLines(c, n), s) \in Nat /\ Units(FirstLines(c, n - 1), s) \in Nat
         /\ stock'[s] \in Nat /\ stock[s] \in Nat
         /\ FirstLines(c, 0) = <<>> /\ FirstLines(c, Len(draft[c].lines)) = draft[c].lines
<1> DEFINE line == draft[c].lines[n]
<1>1. RequestTypeOK /\ CatalogTypeOK /\ draft[c].lines \in Seq(Line)
  BY LinesType DEF TypeOK
<1>2. line \in Line /\ line.card.sku \in Sku /\ line.card.quantity \in Nat
  BY <1>1, LineQuantity
<1>3. /\ FirstLines(c, n) = Append(FirstLines(c, n - 1), line)
      /\ FirstLines(c, n - 1) \in Seq(Line)
      /\ FirstLines(c, 0) = <<>> /\ FirstLines(c, Len(draft[c].lines)) = draft[c].lines
  BY <1>1, FirstOnes DEF FirstLines
<1> HIDE DEF line
<1>4. /\ Units(FirstLines(c, n), s) = Units(FirstLines(c, n - 1), s) + LineUnits(line, s)
      /\ Units(FirstLines(c, n - 1), s) \in Nat /\ LineUnits(line, s) \in Nat
  BY <1>2, <1>3, UnitsAppend, UnitsFinite
<1>5. stock'[s] = IF s = line.card.sku THEN stock[line.card.sku] + line.card.quantity
                                       ELSE stock[s]
  BY <1>1, <1>2, WriteStockUnits DEF PutBack, line
<1>6. stock[s] \in Nat /\ stock[line.card.sku] \in Nat
  BY <1>1, <1>2 DEF CatalogTypeOK
<1>7. stock'[s] = stock[s] + LineUnits(line, s)
  BY <1>2, <1>5, <1>6 DEF LineUnits
<1>8. stock'[s] \in Nat /\ Units(FirstLines(c, n), s) \in Nat
  BY <1>4, <1>6, <1>7
<1>9. stock'[s] + Units(FirstLines(c, n - 1), s) = stock[s] + Units(FirstLines(c, n), s)
  BY <1>4, <1>6, <1>7
<1> QED BY <1>3, <1>4, <1>6, <1>8, <1>9

LEMMA UndoUnits ==
  ASSUME TypeOK, PhaseOK, NEW c \in Client, UndoLine(c)
  PROVE  KeepsUnits(c) /\ OthersWait(c) /\ PendingLines(c)' = <<>> /\ PendingLines(c) = <<>>
<1>1. /\ pc[c] = "undo" /\ at[c] \in 1..Len(draft[c].lines) /\ RequestTypeOK
      /\ WriteStock(draft[c].lines[at[c]].card.sku, PutBack(draft[c].lines[at[c]].card))
  BY DEF UndoLine, PhaseOK, RequestOK, TypeOK
<1>2. HeldLines(c) = FirstLines(c, at[c]) /\ GivenLines(c) = <<>> /\ PendingLines(c) = <<>>
  BY <1>1 DEF HeldLines, GivenLines, PendingLines
<1>3. /\ HeldLines(c)' = FirstLines(c, at[c] - 1)
      /\ GivenLines(c)' = <<>> /\ PendingLines(c)' = <<>> /\ OthersWait(c)
  <2>1. CASE at[c] = 1
    <3>1. pc'[c] = "idle" /\ OthersWait(c)
      BY <1>1, <2>1, ReturnStep DEF UndoLine
    <3>2. FirstLines(c, at[c] - 1) = <<>>
      <4>1. draft[c].lines \in Seq(Line)
        BY <1>1, LinesType
      <4> QED BY <2>1, <4>1, FirstOnes DEF FirstLines
    <3> QED BY <3>1, <3>2 DEF HeldLines, GivenLines, PendingLines
  <2>2. CASE at[c] # 1
    <3>1. at' = [at EXCEPT ![c] = @ - 1] /\ pc' = pc /\ draft' = draft /\ oid' = oid
      BY <2>2 DEF UndoLine
    <3>2. at'[c] = at[c] - 1 /\ \A d \in Client \ {c} : at'[d] = at[d]
      BY <1>1, <3>1 DEF RequestTypeOK
    <3> QED BY <1>1, <3>1, <3>2
            DEF HeldLines, GivenLines, PendingLines, FirstLines, OthersWait
  <2> QED BY <2>1, <2>2
<1>4. ASSUME NEW s \in Sku
      PROVE  stock'[s] + Units(HeldLines(c)', s) - Units(GivenLines(c)', s)
               = stock[s] + Units(HeldLines(c), s) - Units(GivenLines(c), s)
  <2>1. /\ stock'[s] + Units(FirstLines(c, at[c] - 1), s)
             = stock[s] + Units(FirstLines(c, at[c]), s)
        /\ Units(FirstLines(c, at[c]), s) \in Nat /\ Units(FirstLines(c, at[c] - 1), s) \in Nat
        /\ stock'[s] \in Nat /\ stock[s] \in Nat
    BY <1>1, PutBackUnits
  <2> QED BY <1>2, <1>3, <2>1, UnitsNone
<1> QED BY <1>2, <1>3, <1>4 DEF KeepsUnits

LEMMA RestoreUnits ==
  ASSUME TypeOK, PhaseOK, NEW c \in Client, RestoreLine(c)
  PROVE  KeepsUnits(c) /\ OthersWait(c) /\ PendingLines(c)' = <<>> /\ PendingLines(c) = <<>>
<1>1. /\ pc[c] = "restore" /\ at[c] \in 1..Len(draft[c].lines) /\ RequestTypeOK
      /\ WriteStock(draft[c].lines[at[c]].card.sku, PutBack(draft[c].lines[at[c]].card))
      /\ at' = [at EXCEPT ![c] = @ + 1] /\ draft' = draft /\ oid' = oid
      /\ pc' = [pc EXCEPT ![c] = IF at[c] = Len(draft[c].lines)
                                   THEN "saveCancel" ELSE "restore"]
  BY DEF RestoreLine, PhaseOK, RequestOK, TypeOK
<1>2. HeldLines(c) = <<>> /\ GivenLines(c) = FirstLines(c, at[c] - 1) /\ PendingLines(c) = <<>>
  BY <1>1 DEF HeldLines, GivenLines, PendingLines
<1>3. /\ pc'[c] = IF at[c] = Len(draft[c].lines) THEN "saveCancel" ELSE "restore"
      /\ at'[c] - 1 = at[c] /\ OthersWait(c)
  BY <1>1 DEF RequestTypeOK, OthersWait
<1>4. draft[c].lines \in Seq(Line)
  BY <1>1, LinesType
<1>5. HeldLines(c)' = <<>> /\ PendingLines(c)' = <<>> /\ GivenLines(c)' = FirstLines(c, at[c])
  <2>1. CASE at[c] = Len(draft[c].lines)
    BY <1>1, <1>3, <1>4, <2>1, FirstOnes DEF HeldLines, GivenLines, PendingLines, FirstLines
  <2>2. CASE at[c] # Len(draft[c].lines)
    BY <1>1, <1>3, <2>2 DEF HeldLines, GivenLines, PendingLines, FirstLines
  <2> QED BY <2>1, <2>2
<1>6. ASSUME NEW s \in Sku
      PROVE  stock'[s] + Units(HeldLines(c)', s) - Units(GivenLines(c)', s)
               = stock[s] + Units(HeldLines(c), s) - Units(GivenLines(c), s)
  <2>1. /\ stock'[s] + Units(FirstLines(c, at[c] - 1), s)
             = stock[s] + Units(FirstLines(c, at[c]), s)
        /\ Units(FirstLines(c, at[c]), s) \in Nat /\ Units(FirstLines(c, at[c] - 1), s) \in Nat
        /\ stock'[s] \in Nat /\ stock[s] \in Nat
    BY <1>1, PutBackUnits
  <2> QED BY <1>2, <1>5, <2>1, UnitsNone
<1> QED BY <1>2, <1>3, <1>5, <1>6 DEF KeepsUnits

(* The other lines are as they were: accounts follow those of c alone. *)
LEMMA FamiliesType ==
  LinesTyped => \A s : Held(s) \in Nat /\ GivenBack(s) \in Nat /\ Pending(s) \in Nat
BY AccountType

LEMMA FamiliesKeepType ==
  LinesTyped' => (\A s : Held(s) \in Nat /\ GivenBack(s) \in Nat /\ Pending(s) \in Nat)'
BY FamiliesType, PTL

(* No request moves: no account does. *)
LEMMA AccountsStill ==
  ASSUME pc' = pc, draft' = draft, at' = at, NEW s
  PROVE  Held(s)' = Held(s) /\ GivenBack(s)' = GivenBack(s) /\ Pending(s)' = Pending(s)
BY DEF Held, GivenBack, Pending, HeldLines, GivenLines, PendingLines, FirstLines,
       Total, UnitsOfAll, UnitsIn

(* Returning leaves nothing held, given or pending. *)
LEMMA ReturnUnits ==
  ASSUME TypeOK, NEW c \in Client, Return(c)
  PROVE  /\ HeldLines(c)' = <<>> /\ GivenLines(c)' = <<>> /\ PendingLines(c)' = <<>>
         /\ OthersWait(c)
<1>1. pc'[c] = "idle" /\ OthersWait(c)
  BY ReturnStep DEF TypeOK
<1> QED BY <1>1 DEF HeldLines, GivenLines, PendingLines

(* Units of the receipts buyers have. *)
ToldUnits(s) == Total([t \in Told |-> t[2].lines], s)

ReceiptsFinite == \A c \in Client : IsFiniteSet(receipts[c])

LEMMA ToldType ==
  ASSUME TypeOK, ReceiptsFinite
  PROVE  /\ IsFiniteSet(Told)
         /\ [t \in Told |-> t[2].lines] \in [Told -> Seq(Line)]
         /\ \A s : ToldUnits(s) \in Nat
<1> DEFINE f == [c \in Client |-> {c} \X receipts[c]]
<1>1. \A c \in Client : IsFiniteSet(f[c])
  <2> SUFFICES ASSUME NEW c \in Client PROVE IsFiniteSet(f[c])
    OBVIOUS
  <2>1. IsFiniteSet({c} \X receipts[c])
    BY FS_Singleton, FS_Product DEF ReceiptsFinite
  <2> QED BY <2>1
<1>2. IsFiniteSet(UNION {f[c] : c \in Client})
  <2> HIDE DEF f
  <2> QED BY <1>1, FiniteFamily, ClientAssumption
<1>3. Told = UNION {f[c] : c \in Client}
  BY DEF Told
<1>4. IsFiniteSet(Told)
  BY <1>2, <1>3
<1>5. \A t \in Told : t[2].lines \in Seq(Line)
  <2>1. ASSUME NEW t \in Told PROVE t[2].lines \in Seq(Line)
    <3>1. PICK c \in Client : t[2] \in receipts[c]
      BY DEF Told
    <3>2. t[2] \in Receipt
      BY <3>1 DEF TypeOK
    <3> QED BY <3>2 DEF Receipt
  <2> QED BY <2>1
<1>6. [t \in Told |-> t[2].lines] \in [Told -> Seq(Line)]
  BY <1>5
<1>7. \A s : ToldUnits(s) \in Nat
  BY <1>4, <1>6, TotalPart DEF ToldUnits
<1> QED BY <1>4, <1>6, <1>7

LEMMA ToldKeepsType ==
  TypeOK' /\ ReceiptsFinite' => (\A s : ToldUnits(s) \in Nat)'
<1>1. TypeOK /\ ReceiptsFinite => \A s : ToldUnits(s) \in Nat
  BY ToldType
<1> QED BY <1>1, PTL

(* A reply turns what is pending into a receipt. *)
LEMMA ReplyUnits ==
  ASSUME TypeOK, ReceiptsFinite, NEW c \in Client, Reply(c), NEW s
  PROVE  /\ ReceiptsFinite'
         /\ ToldUnits(s)' <= ToldUnits(s) + Units(PendingLines(c), s)
         /\ HeldLines(c) = <<>> /\ GivenLines(c) = <<>>
<1> DEFINE r == [oid |-> oid[c], lines |-> draft[c].lines]
<1>0. pc[c] = "reply"
  BY DEF Reply
<1>1. HeldLines(c) = <<>> /\ GivenLines(c) = <<>>
  BY <1>0 DEF HeldLines, GivenLines
<1>2. draft[c].lines \in Seq(Line)
  BY LinesType DEF TypeOK
<1>3. receipts \in [Client -> SUBSET Receipt]
  BY DEF TypeOK
<1>4. /\ IsFiniteSet(Told) /\ ToldUnits(s) \in Nat
      /\ [t \in Told |-> t[2].lines] \in [Told -> Seq(Line)]
  BY ToldType
<1>5. CASE draft[c].status = "CONFIRMED"
  <2>1. receipts' = [receipts EXCEPT ![c] = @ \cup {r}]
    BY <1>5 DEF Reply
  <2>2. ReceiptsFinite'
    <3>1. IsFiniteSet(receipts[c] \cup {r})
      BY FS_AddElement DEF ReceiptsFinite
    <3> HIDE DEF r
    <3> QED BY <1>3, <2>1, <3>1 DEF ReceiptsFinite
  <2>3. Told' = Told \cup {<<c, r>>}
    <3> HIDE DEF r
    <3>1. /\ receipts'[c] = receipts[c] \cup {r}
          /\ \A d \in Client : d # c => receipts'[d] = receipts[d]
      BY <1>3, <2>1
    <3>2. ASSUME NEW x \in Told' PROVE x \in Told \cup {<<c, r>>}
      <4>1. PICK d \in Client : x \in {d} \X receipts'[d]
        BY DEF Told
      <4> QED BY <3>1, <4>1 DEF Told
    <3>3. Told \subseteq Told'
      BY <3>1 DEF Told
    <3>4. <<c, r>> \in Told'
      BY <3>1 DEF Told
    <3> QED BY <3>2, <3>3, <3>4
  <2>4. PICK T, g : T = Told' /\ g = [t \in T |-> t[2].lines]
    OBVIOUS
  <2>5. ToldUnits(s)' = Total(g, s)
    BY <2>4 DEF ToldUnits, Total, UnitsOfAll, UnitsIn
  <2>6. PendingLines(c) = draft[c].lines
    BY <1>0, <1>5 DEF PendingLines
  <2>7. CASE <<c, r>> \in Told
    <3>1. Told' = Told
      BY <2>3, <2>7
    <3>2. ToldUnits(s)' = ToldUnits(s)
      BY <2>4, <2>5, <3>1 DEF ToldUnits
    <3>3. Units(PendingLines(c), s) \in Nat
      BY <1>2, <2>6, UnitsFinite
    <3> QED BY <1>1, <1>4, <2>2, <3>2, <3>3
  <2>8. CASE <<c, r>> \notin Told
    <3>1. g \in [Told \cup {<<c, r>>} -> Seq(Line)] /\ g[<<c, r>>] = draft[c].lines
      BY <1>2, <1>4, <2>3, <2>4
    <3>2. PICK f : f = [t \in Told |-> t[2].lines]
      OBVIOUS
    <3>3. f \in [Told -> Seq(Line)] /\ \A t \in Told : g[t] = f[t]
      BY <1>4, <2>3, <2>4, <3>2
    <3> HIDE DEF r
    <3>4. Total(g, s) = Total(f, s) + Units(draft[c].lines, s)
      <4>1. PICK k : k = <<c, r>>
        OBVIOUS
      <4>2. /\ DOMAIN f = Told /\ DOMAIN g = DOMAIN f \cup {k} /\ k \notin DOMAIN f
            /\ k \in DOMAIN g /\ g \in [DOMAIN g -> Seq(Line)]
            /\ g[k] = draft[c].lines /\ \A j \in DOMAIN f : g[j] = f[j]
        BY <1>4, <2>8, <3>1, <3>3, <4>1
      <4>3. UnitsOfOthers(g, k, s) = UnitsOfAll(f, s)
        BY <4>2, OthersBefore
      <4>4. IsFiniteSet(DOMAIN g)
        BY <1>4, <4>2, FS_AddElement
      <4>5. Total(g, s) = Cardinality(UnitsOfOthers(g, k, s)) + Units(g[k], s)
        BY <4>2, <4>4, FamilySplit
      <4> QED BY <4>2, <4>3, <4>5 DEF Total
    <3>5. Total(f, s) = ToldUnits(s)
      BY <3>2 DEF ToldUnits
    <3>6. Units(draft[c].lines, s) \in Nat
      BY <1>2, UnitsFinite
    <3> QED BY <1>1, <1>4, <2>2, <2>5, <2>6, <3>4, <3>5, <3>6
  <2> QED BY <2>7, <2>8
<1>6. CASE draft[c].status # "CONFIRMED"
  <2>1. receipts' = receipts
    BY <1>6 DEF Reply
  <2>2. PendingLines(c) = <<>>
    BY <1>6 DEF PendingLines
  <2>3. ToldUnits(s)' = ToldUnits(s)
    BY <2>1 DEF ToldUnits, Told, Total, UnitsOfAll, UnitsIn
  <2> QED BY <1>1, <1>4, <2>1, <2>2, <2>3, UnitsNone DEF ReceiptsFinite
<1> QED BY <1>5, <1>6

LEMMA ToldStill ==
  ASSUME receipts' = receipts, NEW s
  PROVE  ToldUnits(s)' = ToldUnits(s) /\ (ReceiptsFinite => ReceiptsFinite')
BY DEF ToldUnits, Told, Total, UnitsOfAll, UnitsIn, ReceiptsFinite

-----------------------------------------------------------------------------
(* Units are promised once.  Without cancellations a unit leaves the stock *)
(* when it is reserved, is held until the order is stored, and is then     *)
(* promised; the faults can only lose it on the way.                       *)

NoCancelling == \A c \in Client : pc[c] \notin Cancelling

PromiseInv == NoOversell /\ NoCancelling /\ ReceiptsFinite

(* Nothing of c is multiplied: what it takes out of stock is what it holds, *)
(* and what it promises is what it held.                                   *)
LosesOnly(c) ==
  \A s \in Sku :
    stock'[s] + Units(HeldLines(c)', s) + Units(PendingLines(c)', s) + ToldUnits(s)'
      <= stock[s] + Units(HeldLines(c), s) + Units(PendingLines(c), s) + ToldUnits(s)

LEMMA PromiseStep ==
  ASSUME TypeOK, PhaseOK, TypeOK', PhaseOK', PromiseInv, NEW c \in Client, OthersWait(c),
         LosesOnly(c), pc'[c] \notin Cancelling, ReceiptsFinite', supply' = supply
  PROVE  PromiseInv'
<1>1. LinesTyped /\ LinesTyped'
  BY LinesHaveType, LinesKeepType
<1>2. NoCancelling'
  BY DEF PromiseInv, NoCancelling, OthersWait
<1>3. ASSUME NEW s \in Sku
      PROVE  stock'[s] + Held(s)' + Promised(s)' <= supply'[s]
  <2>1. /\ Held(s)' - Units(HeldLines(c)', s) = Held(s) - Units(HeldLines(c), s)
        /\ Pending(s)' - Units(PendingLines(c)', s) = Pending(s) - Units(PendingLines(c), s)
    BY <1>1, AccountStep
  <2>2. /\ Held(s) \in Nat /\ Pending(s) \in Nat /\ Held(s)' \in Nat /\ Pending(s)' \in Nat
    BY <1>1, FamiliesType, FamiliesKeepType
  <2>3. /\ Units(HeldLines(c), s) \in Nat /\ Units(PendingLines(c), s) \in Nat
        /\ Units(HeldLines(c)', s) \in Nat /\ Units(PendingLines(c)', s) \in Nat
    BY <1>1, UnitsFinite DEF LinesTyped
  <2>4. ToldUnits(s) \in Nat /\ ToldUnits(s)' \in Nat
    BY ToldType, ToldKeepsType DEF PromiseInv
  <2>5. Promised(s) = ToldUnits(s) + Pending(s) /\ Promised(s)' = ToldUnits(s)' + Pending(s)'
    BY DEF Promised, ToldUnits
  <2>6. stock[s] \in Nat /\ stock'[s] \in Nat /\ supply[s] \in Int
    BY DEF TypeOK, CatalogTypeOK
  <2>7. stock'[s] + Units(HeldLines(c)', s) + Units(PendingLines(c)', s) + ToldUnits(s)'
          <= stock[s] + Units(HeldLines(c), s) + Units(PendingLines(c), s) + ToldUnits(s)
    BY DEF LosesOnly
  <2>8. stock[s] + Held(s) + Promised(s) <= supply[s]
    BY DEF PromiseInv, NoOversell
  <2>9. /\ Held(s)' = Held(s) - Units(HeldLines(c), s) + Units(HeldLines(c)', s)
        /\ Pending(s)' = Pending(s) - Units(PendingLines(c), s) + Units(PendingLines(c)', s)
    BY <2>1, <2>2, <2>3
  <2> QED BY <2>2, <2>3, <2>4, <2>5, <2>6, <2>7, <2>8, <2>9
<1> QED BY <1>2, <1>3 DEF PromiseInv, NoOversell

(* A request that keeps its units and its promises. *)
LEMMA KeepsPromises ==
  ASSUME TypeOK, PhaseOK, TypeOK', PhaseOK', PromiseInv, NEW c \in Client, OthersWait(c),
         KeepsUnits(c), PendingLines(c)' = PendingLines(c), pc'[c] \notin Cancelling,
         receipts' = receipts, supply' = supply
  PROVE  PromiseInv'
<1>1. LinesTyped /\ LinesTyped'
  BY LinesHaveType, LinesKeepType
<1>2. GivenLines(c) = <<>> /\ GivenLines(c)' = <<>>
  BY DEF PromiseInv, NoCancelling, GivenLines, Cancelling
<1>3. ASSUME NEW s \in Sku
      PROVE  stock'[s] + Units(HeldLines(c)', s) + Units(PendingLines(c)', s) + ToldUnits(s)'
               <= stock[s] + Units(HeldLines(c), s) + Units(PendingLines(c), s) + ToldUnits(s)
  <2>1. stock'[s] + Units(HeldLines(c)', s) - Units(GivenLines(c)', s)
          = stock[s] + Units(HeldLines(c), s) - Units(GivenLines(c), s)
    BY DEF KeepsUnits
  <2>2. Units(GivenLines(c)', s) = 0 /\ Units(GivenLines(c), s) = 0
    BY <1>2, UnitsNone
  <2>3. ToldUnits(s)' = ToldUnits(s) /\ ToldUnits(s) \in Nat
    BY ToldStill, ToldType DEF PromiseInv
  <2>4. stock[s] \in Nat /\ stock'[s] \in Nat
    BY DEF TypeOK, CatalogTypeOK
  <2>5. /\ Units(HeldLines(c), s) \in Nat /\ Units(PendingLines(c), s) \in Nat
        /\ Units(HeldLines(c)', s) \in Nat
    BY <1>1, UnitsFinite DEF LinesTyped
  <2> QED BY <2>1, <2>2, <2>3, <2>4, <2>5
<1>4. ReceiptsFinite'
  BY ToldStill DEF PromiseInv
<1> QED BY <1>3, <1>4, PromiseStep DEF LosesOnly

(* A request that gives up: what it holds is lost, or put back. *)
LEMMA GivesUp ==
  ASSUME TypeOK, PhaseOK, TypeOK', PhaseOK', PromiseInv, NEW c \in Client, Return(c),
         stock' = stock, receipts' = receipts, supply' = supply
  PROVE  PromiseInv'
<1>1. /\ HeldLines(c)' = <<>> /\ PendingLines(c)' = <<>> /\ OthersWait(c)
      /\ pc'[c] \notin Cancelling
  BY ReturnUnits, ReturnStep DEF TypeOK, Cancelling
<1>2. LinesTyped
  BY LinesHaveType
<1>3. ASSUME NEW s \in Sku
      PROVE  stock'[s] + Units(HeldLines(c)', s) + Units(PendingLines(c)', s) + ToldUnits(s)'
               <= stock[s] + Units(HeldLines(c), s) + Units(PendingLines(c), s) + ToldUnits(s)
  <2>1. Units(HeldLines(c)', s) = 0 /\ Units(PendingLines(c)', s) = 0
    BY <1>1, UnitsNone
  <2>2. ToldUnits(s)' = ToldUnits(s) /\ ToldUnits(s) \in Nat
    BY ToldStill, ToldType DEF PromiseInv
  <2>3. stock[s] \in Nat /\ Units(HeldLines(c), s) \in Nat /\ Units(PendingLines(c), s) \in Nat
    BY <1>2, UnitsFinite DEF LinesTyped, TypeOK, CatalogTypeOK
  <2> QED BY <2>1, <2>2, <2>3
<1>4. ReceiptsFinite'
  BY ToldStill DEF PromiseInv
<1> QED BY <1>1, <1>3, <1>4, PromiseStep DEF LosesOnly

(* The catalogue accounts for every unit it adds or takes away. *)
LEMMA ScenarioUnits ==
  ASSUME TypeOK, Scenario
  PROVE  /\ UNCHANGED requestVars /\ receipts' = receipts /\ orders' = orders
         /\ \A s \in Sku : supply'[s] - stock'[s] = supply[s] - stock[s]
<1>1. CatalogTypeOK /\ supply \in [Sku -> Int] /\ Target \in Sku
  BY ConstantsAssumption DEF TypeOK
<1>2. UNCHANGED requestVars /\ receipts' = receipts /\ orders' = orders
  BY DEF Scenario, RaisePrice, SellOut, TakeOffShelf, Reset, MayChange
<1>3. ASSUME NEW s \in Sku
      PROVE  supply'[s] - stock'[s] = supply[s] - stock[s]
  <2>1. CASE RaisePrice \/ TakeOffShelf
    BY <2>1 DEF RaisePrice, TakeOffShelf
  <2>2. CASE SellOut
    <3>1. stock' = [stock EXCEPT ![Target] = 0]
          /\ supply' = [supply EXCEPT ![Target] = @ - stock[Target]]
      BY <2>2 DEF SellOut, WriteStock
    <3>2. stock[s] \in Nat /\ supply[s] \in Int
      BY <1>1 DEF CatalogTypeOK
    <3>3. CASE s = Target
      BY <1>1, <3>1, <3>2, <3>3 DEF CatalogTypeOK
    <3>4. CASE s # Target
      BY <1>1, <3>1, <3>2, <3>4 DEF CatalogTypeOK
    <3> QED BY <3>3, <3>4
  <2>3. CASE Reset
    <3>1. stock'[s] = SeedStock[s] /\ supply'[s] = supply[s] + SeedStock[s] - stock[s]
      BY <2>3 DEF Reset
    <3>2. stock[s] \in Nat /\ supply[s] \in Int /\ SeedStock[s] \in Nat
      BY <1>1, ConstantsAssumption DEF CatalogTypeOK
    <3> QED BY <3>1, <3>2
  <2> QED BY <2>1, <2>2, <2>3 DEF Scenario
<1> QED BY <1>2, <1>3

(* The requests stand still while the catalogue moves. *)
LEMMA PromisesStill ==
  ASSUME TypeOK, PhaseOK, TypeOK', PromiseInv, UNCHANGED requestVars, receipts' = receipts,
         \A s \in Sku : supply'[s] - stock'[s] = supply[s] - stock[s]
  PROVE  PromiseInv'
<1>0. pc' = pc /\ draft' = draft /\ at' = at
  BY DEF requestVars
<1>1. NoCancelling'
  BY <1>0 DEF PromiseInv, NoCancelling
<1>2. ReceiptsFinite'
  BY ToldStill DEF PromiseInv
<1>3. ASSUME NEW s \in Sku
      PROVE  stock'[s] + Held(s)' + Promised(s)' <= supply'[s]
  <2>1. Held(s)' = Held(s) /\ Pending(s)' = Pending(s) /\ ToldUnits(s)' = ToldUnits(s)
    BY <1>0, AccountsStill, ToldStill
  <2>2. Promised(s) = ToldUnits(s) + Pending(s) /\ Promised(s)' = ToldUnits(s)' + Pending(s)'
    BY DEF Promised, ToldUnits
  <2>3. stock[s] + Held(s) + Promised(s) <= supply[s]
    BY DEF PromiseInv, NoOversell
  <2>4. /\ stock[s] \in Nat /\ stock'[s] \in Nat /\ supply[s] \in Int /\ supply'[s] \in Int
        /\ supply'[s] - stock'[s] = supply[s] - stock[s]
    BY DEF TypeOK, CatalogTypeOK
  <2>5. Held(s) \in Nat /\ Pending(s) \in Nat /\ ToldUnits(s) \in Nat
    BY LinesHaveType, FamiliesType, ToldType DEF PromiseInv
  <2> QED BY <2>1, <2>2, <2>3, <2>4, <2>5
<1> QED BY <1>1, <1>2, <1>3 DEF PromiseInv, NoOversell

LEMMA PromisesKept ==
  ASSUME "cancel" \notin Ops, TypeOK, PhaseOK, PromiseInv, [Next]_vars
  PROVE  PromiseInv'
<1>0. TypeOK' /\ PhaseOK' /\ LinesTyped /\ CatalogTypeOK /\ RequestTypeOK
  BY StepSafe, LinesHaveType DEF TypeOK
<1>1. ASSUME NEW c \in Client, AcceptCard(c) \/ ForgetCards(c)
      PROVE  PromiseInv'
  <2>1. UNCHANGED requestVars /\ receipts' = receipts /\ stock' = stock /\ supply' = supply
    BY <1>1 DEF AcceptCard, ForgetCards, catalogVars
  <2> QED BY <1>0, <2>1, PromisesStill
<1>2. ASSUME NEW c \in Client, BeginPlace(c)
      PROVE  PromiseInv'
  <2>1. /\ pc[c] = "idle" /\ pc'[c] = "reserve" /\ draft' = draft /\ oid' = oid /\ at' = at
        /\ \A d \in Client \ {c} : pc'[d] = pc[d]
        /\ receipts' = receipts /\ stock' = stock /\ supply' = supply
    BY <1>0, <1>2 DEF BeginPlace, Idle, RequestTypeOK, catalogVars
  <2>2. draft[c].lines = <<>>
    BY <2>1 DEF PhaseOK, RequestOK, Idle
  <2>3. /\ HeldLines(c)' = HeldLines(c) /\ GivenLines(c)' = GivenLines(c)
        /\ PendingLines(c)' = PendingLines(c) /\ OthersWait(c) /\ pc'[c] \notin Cancelling
    BY <2>1, <2>2 DEF HeldLines, GivenLines, PendingLines, OthersWait, Cancelling
  <2>4. KeepsUnits(c)
    BY <2>1, <2>3, KeepsStill
  <2> QED BY <1>0, <2>1, <2>3, <2>4, KeepsPromises
<1>3. ASSUME NEW c \in Client, BeginCancel(c)
      PROVE  PromiseInv'
  BY <1>3 DEF BeginCancel
<1>4. ASSUME NEW c \in Client, Reserve(c)
      PROVE  PromiseInv'
  <2>1. KeepsUnits(c) /\ OthersWait(c) /\ PendingLines(c)' = PendingLines(c)
    BY <1>4, ReserveUnits
  <2>2. receipts' = receipts /\ supply' = supply /\ pc'[c] \notin Cancelling
    BY <1>0, <1>4 DEF Reserve, RequestTypeOK, Cancelling
  <2> QED BY <1>0, <2>1, <2>2, KeepsPromises
<1>5. ASSUME NEW c \in Client, Unwind(c), pc[c] \in {"reserve", "number", "save"},
             stock' = stock, receipts' = receipts, supply' = supply
      PROVE  PromiseInv'
  <2>1. /\ KeepsUnits(c) /\ OthersWait(c) /\ PendingLines(c)' = PendingLines(c)
    BY <1>5, UnwindUnits
  <2>2. pc'[c] \notin Cancelling
    BY <1>0, <1>5, UnwindStep DEF Cancelling
  <2> QED BY <1>0, <1>5, <2>1, <2>2, KeepsPromises
<1>6. ASSUME NEW c \in Client, RejectItem(c) \/ RejectCurrency(c)
      PROVE  PromiseInv'
  BY <1>5, <1>6 DEF RejectItem, RejectCurrency, catalogVars
<1>7. ASSUME NEW c \in Client, AssignId(c)
      PROVE  PromiseInv'
  <2>1. /\ pc[c] = "number" /\ pc'[c] = "save" /\ stock' = stock
        /\ receipts' = receipts /\ supply' = supply
        /\ draft'[c].lines = draft[c].lines /\ OthersWait(c)
    BY <1>0, <1>7 DEF AssignId, RequestTypeOK, Order, OthersWait, catalogVars
  <2>2. /\ HeldLines(c)' = HeldLines(c) /\ GivenLines(c)' = GivenLines(c)
        /\ PendingLines(c)' = PendingLines(c) /\ pc'[c] \notin Cancelling
    BY <2>1 DEF HeldLines, GivenLines, PendingLines, Cancelling
  <2>3. KeepsUnits(c)
    BY <2>1, <2>2, KeepsStill
  <2> QED BY <1>0, <2>1, <2>2, <2>3, KeepsPromises
<1>8. ASSUME NEW c \in Client, Save(c)
      PROVE  PromiseInv'
  <2>1. /\ pc[c] = "save" /\ pc'[c] = "reply" /\ stock' = stock /\ draft' = draft
        /\ receipts' = receipts /\ supply' = supply /\ OthersWait(c)
    <3>1. pc[c] # "saveCancel"
      BY DEF PromiseInv, NoCancelling, Cancelling
    <3> QED BY <1>0, <1>8, <3>1 DEF Save, RequestTypeOK, OthersWait, catalogVars
  <2>2. /\ HeldLines(c) = draft[c].lines /\ HeldLines(c)' = <<>> /\ PendingLines(c) = <<>>
        /\ PendingLines(c)' \in {draft[c].lines, <<>>} /\ pc'[c] \notin Cancelling
    BY <2>1 DEF HeldLines, PendingLines, Cancelling
  <2>3. ReceiptsFinite'
    BY <2>1, ToldStill DEF PromiseInv
  <2>4. LosesOnly(c)
    <3>1. ASSUME NEW s \in Sku
          PROVE  stock'[s] + Units(HeldLines(c)', s) + Units(PendingLines(c)', s)
                     + ToldUnits(s)'
                   <= stock[s] + Units(HeldLines(c), s) + Units(PendingLines(c), s)
                        + ToldUnits(s)
      <4>1. Units(HeldLines(c)', s) = 0 /\ Units(PendingLines(c), s) = 0
        BY <2>2, UnitsNone
      <4>2. Units(HeldLines(c), s) \in Nat /\ stock[s] \in Nat
        BY <1>0, UnitsFinite DEF LinesTyped, CatalogTypeOK
      <4>3. Units(PendingLines(c)', s) \in {Units(HeldLines(c), s), 0}
        BY <2>2, UnitsNone
      <4>4. ToldUnits(s)' = ToldUnits(s) /\ ToldUnits(s) \in Nat
        BY <2>1, ToldStill, ToldType DEF PromiseInv
      <4> QED BY <2>1, <4>1, <4>2, <4>3, <4>4
    <3> QED BY <3>1 DEF LosesOnly
  <2> QED BY <1>0, <2>1, <2>2, <2>3, <2>4, PromiseStep
<1>9. ASSUME NEW c \in Client, Reply(c)
      PROVE  PromiseInv'
  <2>1. Return(c) /\ stock' = stock /\ supply' = supply
    BY <1>9 DEF Reply, catalogVars
  <2>2. /\ HeldLines(c)' = <<>> /\ PendingLines(c)' = <<>> /\ OthersWait(c)
        /\ pc'[c] \notin Cancelling
    BY <1>0, <2>1, ReturnUnits, ReturnStep DEF Cancelling
  <2>3. ReceiptsFinite'
    BY <1>9, ReplyUnits DEF PromiseInv
  <2>4. LosesOnly(c)
    <3>1. ASSUME NEW s \in Sku
          PROVE  stock'[s] + Units(HeldLines(c)', s) + Units(PendingLines(c)', s)
                     + ToldUnits(s)'
                   <= stock[s] + Units(HeldLines(c), s) + Units(PendingLines(c), s)
                        + ToldUnits(s)
      <4>1. Units(HeldLines(c)', s) = 0 /\ Units(PendingLines(c)', s) = 0
        BY <2>2, UnitsNone
      <4>2. /\ Units(HeldLines(c), s) \in Nat /\ stock[s] \in Nat
            /\ Units(PendingLines(c), s) \in Nat
        BY <1>0, UnitsFinite DEF LinesTyped, CatalogTypeOK
      <4>3. ToldUnits(s)' <= ToldUnits(s) + Units(PendingLines(c), s)
        BY <1>9, ReplyUnits DEF PromiseInv
      <4>4. ToldUnits(s)' \in Nat /\ ToldUnits(s) \in Nat
        BY <1>0, <2>3, ToldKeepsType, ToldType DEF PromiseInv
      <4> QED BY <2>1, <4>1, <4>2, <4>3, <4>4
    <3> QED BY <3>1 DEF LosesOnly
  <2> QED BY <1>0, <2>1, <2>2, <2>3, <2>4, PromiseStep
<1>10. ASSUME NEW c \in Client, UndoLine(c)
       PROVE  PromiseInv'
  <2>1. KeepsUnits(c) /\ OthersWait(c) /\ PendingLines(c)' = PendingLines(c)
    BY <1>10, UndoUnits
  <2>2. receipts' = receipts /\ supply' = supply
    BY <1>10 DEF UndoLine
  <2>3. pc'[c] \notin Cancelling
    <3>1. pc[c] = "undo" /\ pc'[c] \in {pc[c], "idle"}
      BY <1>0, <1>10, ReturnStep DEF UndoLine
    <3> QED BY <3>1 DEF Cancelling
  <2> QED BY <1>0, <2>1, <2>2, <2>3, KeepsPromises
<1>11. ASSUME NEW c \in Client, RestoreLine(c)
       PROVE  PromiseInv'
  BY <1>11 DEF RestoreLine, PromiseInv, NoCancelling, Cancelling
<1>12. ASSUME NEW c \in Client, DbFault(c)
       PROVE  PromiseInv'
  <2>1. stock' = stock /\ receipts' = receipts /\ supply' = supply
    BY <1>12 DEF DbFault, catalogVars
  <2>2. Return(c) \/ (Unwind(c) /\ pc[c] \in {"reserve", "number", "save"})
    BY <1>12 DEF DbFault
  <2> QED BY <1>0, <1>5, <2>1, <2>2, GivesUp
<1>13. ASSUME NEW c \in Client, Timeout(c)
       PROVE  PromiseInv'
  <2>1. Return(c) /\ stock' = stock /\ receipts' = receipts /\ supply' = supply
    BY <1>13 DEF Timeout, catalogVars
  <2> QED BY <1>0, <2>1, GivesUp
<1>14. CASE Scenario
  BY <1>0, <1>14, ScenarioUnits, PromisesStill
<1>15. CASE UNCHANGED vars
  <2>1. UNCHANGED requestVars /\ receipts' = receipts /\ stock' = stock /\ supply' = supply
    BY <1>15 DEF vars, requestVars
  <2> QED BY <1>0, <2>1, PromisesStill
<1> QED
  BY <1>1, <1>2, <1>3, <1>4, <1>6, <1>7, <1>8, <1>9, <1>10, <1>11, <1>12, <1>13,
     <1>14, <1>15 DEF Next, Step

LEMMA InitPromises == Init => PromiseInv
<1> SUFFICES ASSUME Init PROVE PromiseInv
  OBVIOUS
<1>1. LinesTyped
  BY InitSafe, LinesHaveType
<1>2. NoCancelling
  BY DEF Init, NoCancelling, Cancelling
<1>3. ReceiptsFinite
  BY FS_EmptySet DEF Init, ReceiptsFinite
<1>4. ASSUME NEW s \in Sku
      PROVE  stock[s] + Held(s) + Promised(s) <= supply[s]
  <2>1. Held(s) = 0 /\ Pending(s) = 0
    BY TotalNone DEF Init, Held, Pending, HeldLines, PendingLines
  <2>2. ToldUnits(s) = 0
    <3>1. Told = {}
      BY DEF Init, Told
    <3> QED BY <3>1, TotalNone DEF ToldUnits
  <2>3. stock[s] \in Nat /\ stock[s] = supply[s]
    BY ConstantsAssumption DEF Init
  <2> QED BY <2>1, <2>2, <2>3 DEF Promised, ToldUnits
<1> QED BY <1>2, <1>3, <1>4 DEF PromiseInv, NoOversell

(* While nobody cancels, no unit is promised to two buyers, for any number *)
(* of placements in flight, any interleaving of their reservations and     *)
(* compensations, colliding order ids, database faults, timeouts and every *)
(* change of the catalogue.                                                *)
THEOREM UnitsPromisedOnce == "cancel" \notin Ops => (Spec => []NoOversell)
<1> SUFFICES ASSUME "cancel" \notin Ops
             PROVE  Spec => []NoOversell
  OBVIOUS
<1>1. Init => TypeOK /\ PhaseOK /\ PromiseInv
  BY InitSafe, InitPromises
<1>2. TypeOK /\ PhaseOK /\ PromiseInv /\ [Next]_vars => (TypeOK /\ PhaseOK /\ PromiseInv)'
  BY StepSafe, PromisesKept
<1>3. PromiseInv => NoOversell
  BY DEF PromiseInv
<1> QED BY <1>1, <1>2, <1>3, PTL DEF Spec

-----------------------------------------------------------------------------
(* Requests that run one at a time, over a database that answers.  What can *)
(* still be ordered changes only when an order is filed or cancelled, or    *)
(* with the catalogue.                                                      *)

Free(s) == stock[s] + Held(s) - GivenBack(s)

Files(filed) ==
  /\ orders' = Append(orders, filed) /\ filed.status = "CONFIRMED"
  /\ filed.lines \in Seq(Line) /\ supply' = supply
  /\ \A s \in Sku : /\ Units(filed.lines, s) <= Free(s)
                    /\ Free(s)' = Free(s) - Units(filed.lines, s)

Cancels(k) ==
  /\ orders[k].status = "CONFIRMED"
  /\ orders' = [orders EXCEPT ![k].status = "CANCELLED"]
  /\ supply' = supply
  /\ \A s \in Sku : Free(s)' = Free(s) + Units(orders[k].lines, s)

Supplies ==
  /\ orders' = orders
  /\ \A s \in Sku : supply'[s] - supply[s] = Free(s)' - Free(s)

Waits == orders' = orders /\ supply' = supply /\ \A s \in Sku : Free(s)' = Free(s)

LEMMA FreeType == TypeOK /\ PhaseOK => \A s \in Sku : Free(s) \in Int
<1> SUFFICES ASSUME TypeOK, PhaseOK, NEW s \in Sku PROVE Free(s) \in Int
  OBVIOUS
<1>1. stock[s] \in Nat /\ Held(s) \in Nat /\ GivenBack(s) \in Nat
  BY LinesHaveType, FamiliesType DEF TypeOK, CatalogTypeOK
<1> QED BY <1>1 DEF Free

(* How the free units move with those of one client. *)
LEMMA FreeStep ==
  ASSUME TypeOK, PhaseOK, TypeOK', PhaseOK', NEW c \in Client, OthersWait(c), NEW s \in Sku
  PROVE  /\ Free(s)' = Free(s)
              + (stock'[s] + Units(HeldLines(c)', s) - Units(GivenLines(c)', s))
              - (stock[s] + Units(HeldLines(c), s) - Units(GivenLines(c), s))
         /\ Free(s) \in Int /\ Free(s)' \in Int /\ stock[s] \in Nat /\ stock'[s] \in Nat
         /\ Units(HeldLines(c), s) \in Nat /\ Units(GivenLines(c), s) \in Nat
         /\ Units(HeldLines(c)', s) \in Nat /\ Units(GivenLines(c)', s) \in Nat
<1>1. LinesTyped /\ LinesTyped'
  BY LinesHaveType, LinesKeepType
<1>2. stock[s] \in Nat /\ stock'[s] \in Nat
  BY DEF TypeOK, CatalogTypeOK
<1>3. /\ Held(s) \in Nat /\ GivenBack(s) \in Nat
      /\ Held(s)' \in Nat /\ GivenBack(s)' \in Nat
  BY <1>1, FamiliesType, FamiliesKeepType
<1>4. /\ Units(HeldLines(c), s) \in Nat /\ Units(GivenLines(c), s) \in Nat
      /\ Units(HeldLines(c)', s) \in Nat /\ Units(GivenLines(c)', s) \in Nat
  BY <1>1, UnitsFinite DEF LinesTyped
<1>5. /\ Held(s)' - Units(HeldLines(c)', s) = Held(s) - Units(HeldLines(c), s)
      /\ GivenBack(s)' - Units(GivenLines(c)', s) = GivenBack(s) - Units(GivenLines(c), s)
  BY <1>1, AccountStep
<1>6. Free(s) = stock[s] + Held(s) - GivenBack(s)
      /\ Free(s)' = stock'[s] + Held(s)' - GivenBack(s)'
  BY DEF Free
<1> QED BY <1>2, <1>3, <1>4, <1>5, <1>6

LEMMA WaitsKeeping ==
  ASSUME TypeOK, PhaseOK, TypeOK', PhaseOK', NEW c \in Client, OthersWait(c),
         KeepsUnits(c), orders' = orders, supply' = supply
  PROVE  Waits
<1>1. ASSUME NEW s \in Sku PROVE Free(s)' = Free(s)
  BY FreeStep DEF KeepsUnits
<1> QED BY <1>1 DEF Waits

(* With one client its lines are the whole account. *)
LEMMA AloneAccounts ==
  ASSUME NEW b, Client = {b}, TypeOK, PhaseOK, NEW s \in Sku
  PROVE  /\ GivenLines(b) = <<>> => Units(HeldLines(b), s) <= Free(s)
<1>1. ASSUME GivenLines(b) = <<>> PROVE GivenBack(s) = 0
  BY <1>1, TotalNone DEF GivenBack
<1>2. Units(HeldLines(b), s) \in 0..Held(s) /\ Held(s) \in Nat
  BY LinesHaveType, AccountType
<1>3. stock[s] \in Nat
  BY DEF TypeOK, CatalogTypeOK
<1> QED BY <1>1, <1>2, <1>3 DEF Free

LEMMA AloneKinds ==
  ASSUME NEW b, Client = {b}, Faults = {}, TypeOK, PhaseOK, AloneInv, [Next]_vars
  PROVE  \/ \E filed \in Order : Files(filed)
         \/ \E k \in DOMAIN orders : Cancels(k)
         \/ Supplies
         \/ Waits
<1>0. /\ TypeOK' /\ PhaseOK' /\ LinesTyped /\ CatalogTypeOK /\ RequestTypeOK
      /\ b \in Client /\ OrderKnown(b) /\ orders \in Seq(Order)
      /\ draft[b] \in Order /\ draft[b].lines \in Seq(Line)
  BY StepSafe, LinesHaveType, LinesType DEF TypeOK, RequestTypeOK, AloneInv
<1>1. ASSUME pc' = pc, draft' = draft, at' = at, stock' = stock, orders' = orders,
             supply' = supply
      PROVE  Waits
  BY <1>1, AccountsStill DEF Waits, Free
<1>2. ASSUME AcceptCard(b) \/ ForgetCards(b) PROVE Waits
  BY <1>1, <1>2 DEF AcceptCard, ForgetCards, requestVars, catalogVars
<1>3. ASSUME BeginPlace(b) PROVE Waits
  <2>1. /\ pc[b] = "idle" /\ pc'[b] = "reserve" /\ draft' = draft
        /\ stock' = stock /\ orders' = orders /\ supply' = supply /\ OthersWait(b)
    BY <1>0, <1>3 DEF BeginPlace, Idle, RequestTypeOK, OthersWait, catalogVars
  <2>2. draft[b].lines = <<>>
    BY <1>0, <2>1 DEF PhaseOK, RequestOK, Idle
  <2>3. HeldLines(b)' = HeldLines(b) /\ GivenLines(b)' = GivenLines(b)
    BY <2>1, <2>2 DEF HeldLines, GivenLines
  <2> QED BY <1>0, <2>1, <2>3, KeepsStill, WaitsKeeping
<1>4. ASSUME BeginCancel(b) PROVE Waits
  <2>1. PICK k \in DOMAIN orders :
          draft' = [draft EXCEPT ![b] = [orders[k] EXCEPT !.status = "CANCELLED"]]
    BY <1>4 DEF BeginCancel
  <2>2. orders[k] \in Order
    BY <1>0
  <2>3. draft'[b].lines = orders[k].lines /\ orders[k].lines \in Seq(Line)
    BY <1>0, <2>1, <2>2 DEF RequestTypeOK, Order
  <2>4. /\ pc[b] = "idle" /\ pc'[b] = "restore" /\ at'[b] = 1
        /\ stock' = stock /\ orders' = orders /\ supply' = supply
    BY <1>0, <1>4 DEF BeginCancel, Idle, RequestTypeOK, catalogVars
  <2>5. HeldLines(b)' = <<>> /\ GivenLines(b)' = SubSeq(draft'[b].lines, 1, 0)
    BY <2>4 DEF HeldLines, GivenLines, FirstLines
  <2>6. HeldLines(b) = <<>> /\ GivenLines(b) = <<>> /\ GivenLines(b)' = <<>>
    BY <2>3, <2>4, <2>5, FirstOnes DEF HeldLines, GivenLines
  <2>7. OthersWait(b)
    BY DEF OthersWait
  <2> QED BY <1>0, <2>4, <2>5, <2>6, <2>7, KeepsStill, WaitsKeeping
<1>5. ASSUME Reserve(b) PROVE Waits
  <2>1. orders' = orders /\ supply' = supply
    BY <1>5 DEF Reserve
  <2> QED BY <1>0, <1>5, <2>1, ReserveUnits, WaitsKeeping
<1>6. ASSUME RejectItem(b) \/ RejectCurrency(b) PROVE Waits
  <2>1. /\ Unwind(b) /\ pc[b] \in {"reserve", "number", "save"}
        /\ stock' = stock /\ orders' = orders /\ supply' = supply
    BY <1>6 DEF RejectItem, RejectCurrency, catalogVars
  <2> QED BY <1>0, <2>1, UnwindUnits, WaitsKeeping
<1>7. ASSUME AssignId(b) PROVE Waits
  <2>1. /\ pc[b] = "number" /\ pc'[b] = "save" /\ stock' = stock
        /\ orders' = orders /\ supply' = supply /\ draft'[b].lines = draft[b].lines
    BY <1>0, <1>7 DEF AssignId, RequestTypeOK, Order, catalogVars
  <2>2. HeldLines(b)' = HeldLines(b) /\ GivenLines(b)' = GivenLines(b) /\ OthersWait(b)
    BY <2>1 DEF HeldLines, GivenLines, OthersWait
  <2> QED BY <1>0, <2>1, <2>2, KeepsStill, WaitsKeeping
<1>8. ASSUME Save(b), pc[b] = "save" PROVE \E filed \in Order : Files(filed)
  <2>1. /\ pc'[b] = "reply" /\ stock' = stock /\ supply' = supply /\ draft' = draft
        /\ orders' = Merge(orders, oid[b], draft[b])
        /\ oid[b] = Len(orders) + 1 /\ draft[b].status = "CONFIRMED"
    BY <1>0, <1>8 DEF Save, OrderKnown, RequestTypeOK, catalogVars
  <2>2. orders' = Append(orders, draft[b])
    BY <1>0, <2>1 DEF Merge
  <2>3. /\ HeldLines(b) = draft[b].lines /\ GivenLines(b) = <<>>
        /\ HeldLines(b)' = <<>> /\ GivenLines(b)' = <<>> /\ OthersWait(b)
    BY <1>8, <2>1 DEF HeldLines, GivenLines, OthersWait
  <2>4. ASSUME NEW s \in Sku
        PROVE  /\ Units(draft[b].lines, s) <= Free(s)
               /\ Free(s)' = Free(s) - Units(draft[b].lines, s)
    <3>1. Units(draft[b].lines, s) <= Free(s)
      BY <2>3, AloneAccounts
    <3>2. Free(s)' = Free(s) + (stock'[s] + Units(HeldLines(b)', s) - Units(GivenLines(b)', s))
                       - (stock[s] + Units(HeldLines(b), s) - Units(GivenLines(b), s))
          /\ Free(s) \in Int /\ stock[s] \in Nat /\ Units(HeldLines(b), s) \in Nat
      BY <1>0, <2>3, FreeStep
    <3>3. Units(<<>>, s) = 0
      BY UnitsNone
    <3> QED BY <2>1, <2>3, <3>1, <3>2, <3>3
  <2>5. Files(draft[b])
    BY <1>0, <2>1, <2>2, <2>4 DEF Files
  <2> QED BY <1>0, <2>5
<1>9. ASSUME Save(b), pc[b] # "save" PROVE \E k \in DOMAIN orders : Cancels(k)
  <2>1. /\ pc[b] = "saveCancel" /\ pc'[b] = "reply" /\ stock' = stock /\ supply' = supply
        /\ draft' = draft /\ orders' = Merge(orders, oid[b], draft[b])
    BY <1>0, <1>9 DEF Save, RequestTypeOK, catalogVars
  <2>2. /\ oid[b] \in DOMAIN orders /\ orders[oid[b]].status = "CONFIRMED"
        /\ draft[b].status = "CANCELLED" /\ draft[b].lines = orders[oid[b]].lines
    BY <1>0, <2>1 DEF OrderKnown, Cancelling
  <2>3. orders[oid[b]] \in Order
    BY <1>0, <2>2
  <2>4. draft[b] = [orders[oid[b]] EXCEPT !.status = "CANCELLED"]
    BY <1>0, <2>2, <2>3 DEF Order
  <2>5. orders' = [orders EXCEPT ![oid[b]].status = "CANCELLED"]
    <3>1. ~(oid[b] > Len(orders))
      BY <1>0, <2>2
    <3>2. orders' = [orders EXCEPT ![oid[b]] = draft[b]]
      BY <2>1, <3>1 DEF Merge
    <3> QED BY <2>4, <3>2
  <2>6. /\ HeldLines(b) = <<>> /\ GivenLines(b) = draft[b].lines
        /\ HeldLines(b)' = <<>> /\ GivenLines(b)' = <<>> /\ OthersWait(b)
    BY <2>1 DEF HeldLines, GivenLines, OthersWait
  <2>7. ASSUME NEW s \in Sku
        PROVE  Free(s)' = Free(s) + Units(orders[oid[b]].lines, s)
    <3>1. Free(s)' = Free(s) + (stock'[s] + Units(HeldLines(b)', s) - Units(GivenLines(b)', s))
                       - (stock[s] + Units(HeldLines(b), s) - Units(GivenLines(b), s))
          /\ Free(s) \in Int /\ stock[s] \in Nat /\ Units(GivenLines(b), s) \in Nat
      BY <1>0, <2>6, FreeStep
    <3>2. Units(<<>>, s) = 0
      BY UnitsNone
    <3> QED BY <2>1, <2>2, <2>6, <3>1, <3>2
  <2>8. Cancels(oid[b])
    BY <2>1, <2>2, <2>5, <2>7 DEF Cancels
  <2> QED BY <2>2, <2>8
<1>10. ASSUME Reply(b) PROVE Waits
  <2>1. /\ pc[b] = "reply" /\ Return(b) /\ stock' = stock /\ orders' = orders
        /\ supply' = supply
    BY <1>10 DEF Reply, catalogVars
  <2>2. HeldLines(b)' = HeldLines(b) /\ GivenLines(b)' = GivenLines(b) /\ OthersWait(b)
    BY <1>0, <2>1, ReturnUnits DEF HeldLines, GivenLines
  <2> QED BY <1>0, <2>1, <2>2, KeepsStill, WaitsKeeping
<1>11. ASSUME UndoLine(b) PROVE Waits
  <2>1. orders' = orders /\ supply' = supply
    BY <1>11 DEF UndoLine
  <2> QED BY <1>0, <1>11, <2>1, UndoUnits, WaitsKeeping
<1>12. ASSUME RestoreLine(b) PROVE Waits
  <2>1. orders' = orders /\ supply' = supply
    BY <1>12 DEF RestoreLine
  <2> QED BY <1>0, <1>12, <2>1, RestoreUnits, WaitsKeeping
<1>13. ~DbFault(b) /\ ~Timeout(b)
  BY DEF DbFault, Timeout
<1>14. CASE Scenario
  <2>1. /\ pc' = pc /\ draft' = draft /\ at' = at /\ orders' = orders
        /\ \A s \in Sku : supply'[s] - stock'[s] = supply[s] - stock[s]
    BY <1>14, ScenarioUnits DEF requestVars
  <2>2. ASSUME NEW s \in Sku
        PROVE  supply'[s] - supply[s] = Free(s)' - Free(s)
    <3>1. Held(s)' = Held(s) /\ GivenBack(s)' = GivenBack(s)
      BY <2>1, AccountsStill
    <3>2. Held(s) \in Nat /\ GivenBack(s) \in Nat
      BY <1>0, FamiliesType
    <3>3. /\ stock[s] \in Nat /\ stock'[s] \in Nat /\ supply[s] \in Int /\ supply'[s] \in Int
      BY <1>0 DEF TypeOK, CatalogTypeOK
    <3>4. supply'[s] - stock'[s] = supply[s] - stock[s]
      BY <2>1
    <3>5. Free(s)' = stock'[s] + Held(s) - GivenBack(s)
      BY <3>1 DEF Free
    <3> QED BY <3>2, <3>3, <3>4, <3>5 DEF Free
  <2> QED BY <2>1, <2>2 DEF Supplies
<1>15. CASE UNCHANGED vars
  BY <1>1, <1>15 DEF vars
<1> QED
  BY <1>0, <1>2, <1>3, <1>4, <1>5, <1>6, <1>7, <1>8, <1>9, <1>10, <1>11, <1>12,
     <1>13, <1>14, <1>15 DEF Next, Step

-----------------------------------------------------------------------------
(* Every unit has a place. *)

SoldLines == [k \in DOMAIN orders |-> ConfirmedLines(k)]

LEMMA SoldFamily ==
  TypeOK => /\ IsFiniteSet(DOMAIN SoldLines) /\ DOMAIN SoldLines = DOMAIN orders
            /\ SoldLines \in [DOMAIN SoldLines -> Seq(Line)]
            /\ \A s : Sold(s) = Total(SoldLines, s) /\ Sold(s) \in Nat
<1> SUFFICES ASSUME TypeOK
             PROVE  /\ IsFiniteSet(DOMAIN SoldLines) /\ DOMAIN SoldLines = DOMAIN orders
                    /\ SoldLines \in [DOMAIN SoldLines -> Seq(Line)]
                    /\ \A s : Sold(s) = Total(SoldLines, s) /\ Sold(s) \in Nat
  OBVIOUS
<1>1. DOMAIN SoldLines = DOMAIN orders /\ DOMAIN orders = 1..Len(orders)
      /\ Len(orders) \in Nat
  BY DEF TypeOK, SoldLines
<1>2. IsFiniteSet(DOMAIN SoldLines)
  BY <1>1, CountTo
<1>3. \A k \in DOMAIN orders : ConfirmedLines(k) \in Seq(Line)
  <2>1. \A k \in DOMAIN orders : orders[k] \in Order
    BY DEF TypeOK
  <2> QED BY <2>1 DEF ConfirmedLines, Order
<1>4. SoldLines \in [DOMAIN SoldLines -> Seq(Line)]
  BY <1>3 DEF SoldLines
<1>5. \A s : Sold(s) = Total(SoldLines, s)
  BY DEF Sold, SoldLines
<1>6. \A s : Total(SoldLines, s) \in Nat
  BY <1>2, <1>4, TotalPart
<1> QED BY <1>1, <1>2, <1>4, <1>5, <1>6

LEMMA SoldFamilyNext ==
  TypeOK' => (/\ IsFiniteSet(DOMAIN SoldLines) /\ DOMAIN SoldLines = DOMAIN orders
              /\ SoldLines \in [DOMAIN SoldLines -> Seq(Line)]
              /\ \A s : Sold(s) = Total(SoldLines, s) /\ Sold(s) \in Nat)'
BY SoldFamily, PTL

(* Filing a confirmed order sells its units. *)
LEMMA FilesSells ==
  ASSUME TypeOK, TypeOK', NEW filed, Files(filed), NEW s \in Sku
  PROVE  Sold(s)' = Sold(s) + Units(filed.lines, s)
<1> DEFINE k == Len(orders) + 1
<1>1. orders \in Seq(Order) /\ orders' \in Seq(Order) /\ orders' = Append(orders, filed)
  BY DEF TypeOK, Files
<1>2. /\ DOMAIN orders' = DOMAIN orders \cup {k} /\ k \notin DOMAIN orders
      /\ orders'[k] = filed /\ \A j \in DOMAIN orders : orders'[j] = orders[j]
  BY <1>1
<1> HIDE DEF k
<1>3. PICK f, g : f = SoldLines /\ g = SoldLines'
  OBVIOUS
<1>4. /\ DOMAIN f = DOMAIN orders /\ Sold(s) = Total(f, s) /\ Sold(s) \in Nat
  BY <1>3, SoldFamily
<1>5. /\ DOMAIN g = DOMAIN orders' /\ IsFiniteSet(DOMAIN g) /\ g \in [DOMAIN g -> Seq(Line)]
      /\ Sold(s)' = Total(g, s)
  <2>1. /\ DOMAIN SoldLines' = DOMAIN orders' /\ IsFiniteSet(DOMAIN SoldLines')
        /\ SoldLines' \in [DOMAIN SoldLines' -> Seq(Line)]
    BY SoldFamilyNext
  <2>2. Sold(s)' = Total(g, s)
    BY <1>3 DEF Sold, SoldLines, Total, UnitsOfAll, UnitsIn
  <2> QED BY <1>3, <2>1, <2>2
<1>6. /\ \A j \in DOMAIN f : g[j] = f[j]
      /\ g[k] = filed.lines
  BY <1>2, <1>3 DEF SoldLines, ConfirmedLines, Files
<1>7. UnitsOfOthers(g, k, s) = UnitsOfAll(f, s)
  <2>1. k \notin DOMAIN f /\ DOMAIN g = DOMAIN f \cup {k}
    BY <1>2, <1>4, <1>5
  <2> QED BY <1>6, <2>1, OthersBefore
<1>8. Total(g, s) = Cardinality(UnitsOfOthers(g, k, s)) + Units(g[k], s)
  <2>1. k \in DOMAIN g
    BY <1>2, <1>5
  <2> QED BY <1>5, <2>1, FamilySplit
<1> QED BY <1>4, <1>5, <1>6, <1>7, <1>8 DEF Total

(* Storing a cancellation takes the units of the order out of the book. *)
LEMMA CancelsReturns ==
  ASSUME TypeOK, TypeOK', NEW k \in DOMAIN orders, Cancels(k), NEW s \in Sku
  PROVE  /\ Sold(s)' = Sold(s) - Units(orders[k].lines, s)
         /\ Units(orders[k].lines, s) \in Nat
<1>1. /\ orders \in Seq(Order) /\ orders[k] \in Order
      /\ orders' = [orders EXCEPT ![k].status = "CANCELLED"]
  BY DEF TypeOK, Cancels
<1>2. /\ DOMAIN orders' = DOMAIN orders /\ orders'[k].status = "CANCELLED"
      /\ \A j \in DOMAIN orders : j # k => orders'[j] = orders[j]
  BY <1>1 DEF Order
<1>3. PICK f, g : f = SoldLines /\ g = SoldLines'
  OBVIOUS
<1>4. /\ DOMAIN f = DOMAIN orders /\ IsFiniteSet(DOMAIN f) /\ f \in [DOMAIN f -> Seq(Line)]
      /\ Sold(s) = Total(f, s)
  BY <1>3, SoldFamily
<1>5. /\ DOMAIN g = DOMAIN orders' /\ IsFiniteSet(DOMAIN g) /\ g \in [DOMAIN g -> Seq(Line)]
      /\ Sold(s)' = Total(g, s)
  <2>1. /\ DOMAIN SoldLines' = DOMAIN orders' /\ IsFiniteSet(DOMAIN SoldLines')
        /\ SoldLines' \in [DOMAIN SoldLines' -> Seq(Line)]
    BY SoldFamilyNext
  <2>2. Sold(s)' = Total(g, s)
    BY <1>3 DEF Sold, SoldLines, Total, UnitsOfAll, UnitsIn
  <2> QED BY <1>3, <2>1, <2>2
<1>6. /\ f[k] = orders[k].lines /\ g[k] = <<>>
      /\ \A j \in DOMAIN f : j # k => g[j] = f[j]
  BY <1>2, <1>3 DEF SoldLines, ConfirmedLines, Cancels
<1>7. UnitsOfOthers(g, k, s) = UnitsOfOthers(f, k, s)
  <2>1. DOMAIN f = DOMAIN g
    BY <1>2, <1>4, <1>5
  <2> QED BY <1>6, <2>1, OthersSame
<1>8. /\ Total(f, s) = Cardinality(UnitsOfOthers(f, k, s)) + Units(f[k], s)
      /\ Cardinality(UnitsOfOthers(f, k, s)) \in Nat /\ Units(f[k], s) \in Nat
  BY <1>4, FamilySplit
<1>9. Total(g, s) = Cardinality(UnitsOfOthers(g, k, s)) + Units(g[k], s)
  <2>1. k \in DOMAIN g
    BY <1>2, <1>5
  <2> QED BY <1>5, <2>1, FamilySplit
<1>10. Units(<<>>, s) = 0
  BY UnitsNone
<1> QED BY <1>4, <1>5, <1>6, <1>7, <1>8, <1>9, <1>10

LEMMA SoldStill ==
  ASSUME orders' = orders, NEW s
  PROVE  Sold(s)' = Sold(s)
BY DEF Sold, ConfirmedLines, Total, UnitsOfAll, UnitsIn

LEMMA FreeKeepsType == TypeOK' /\ PhaseOK' => (\A s \in Sku : Free(s) \in Int)'
BY FreeType, PTL

LEMMA StockStep ==
  ASSUME NEW b, Client = {b}, Faults = {}, TypeOK, PhaseOK, AloneInv, StockExact,
         [Next]_vars
  PROVE  StockExact'
<1>0. TypeOK' /\ PhaseOK'
  BY StepSafe
<1>1. ASSUME NEW s \in Sku, Free(s)' + Sold(s)' = supply'[s]
      PROVE  stock'[s] + Held(s)' - GivenBack(s)' + Sold(s)' = supply'[s]
  BY <1>1 DEF Free
<1>2. ASSUME NEW s \in Sku
      PROVE  /\ Free(s) + Sold(s) = supply[s] /\ Free(s) \in Int /\ Sold(s) \in Nat
             /\ supply[s] \in Int /\ supply'[s] \in Int
  <2>1. Free(s) \in Int /\ Sold(s) \in Nat
    BY FreeType, SoldFamily
  <2>2. supply[s] \in Int /\ supply'[s] \in Int
    BY <1>0 DEF TypeOK
  <2>3. Free(s) + Sold(s) = supply[s]
    BY DEF StockExact, Free
  <2> QED BY <2>1, <2>2, <2>3
<1>3. ASSUME NEW s \in Sku PROVE Free(s)' \in Int
  BY <1>0, FreeKeepsType
<1>4. ASSUME NEW s \in Sku PROVE Free(s)' + Sold(s)' = supply'[s]
  <2>1. ASSUME NEW filed \in Order, Files(filed)
        PROVE  Free(s)' + Sold(s)' = supply'[s]
    <3>1. Sold(s)' = Sold(s) + Units(filed.lines, s)
      BY <1>0, <2>1, FilesSells
    <3>2. /\ Free(s)' = Free(s) - Units(filed.lines, s) /\ supply' = supply
          /\ Units(filed.lines, s) \in Nat
      BY <2>1, UnitsFinite DEF Files
    <3> QED BY <1>2, <3>1, <3>2
  <2>2. ASSUME NEW k \in DOMAIN orders, Cancels(k)
        PROVE  Free(s)' + Sold(s)' = supply'[s]
    <3>1. /\ Sold(s)' = Sold(s) - Units(orders[k].lines, s)
          /\ Units(orders[k].lines, s) \in Nat
      BY <1>0, <2>2, CancelsReturns
    <3>2. Free(s)' = Free(s) + Units(orders[k].lines, s) /\ supply' = supply
      BY <2>2 DEF Cancels
    <3> QED BY <1>2, <3>1, <3>2
  <2>3. CASE Supplies
    <3>1. Sold(s)' = Sold(s) /\ supply'[s] - supply[s] = Free(s)' - Free(s)
      BY <2>3, SoldStill DEF Supplies
    <3>2. /\ Free(s) + Sold(s) = supply[s] /\ Free(s) \in Int /\ Sold(s) \in Nat
          /\ supply[s] \in Int /\ supply'[s] \in Int /\ Free(s)' \in Int
      BY <1>2, <1>3
    <3> QED BY <3>1, <3>2
  <2>4. CASE Waits
    BY <1>2, <2>4, SoldStill DEF Waits
  <2> QED BY <2>1, <2>2, <2>3, <2>4, AloneKinds
<1> QED BY <1>1, <1>4 DEF StockExact

LEMMA InitAccounts ==
  ASSUME Init, NEW s
  PROVE  Held(s) = 0 /\ GivenBack(s) = 0 /\ Sold(s) = 0
<1>1. Held(s) = 0 /\ GivenBack(s) = 0
  BY TotalNone DEF Init, Held, GivenBack, HeldLines, GivenLines
<1>2. Sold(s) = 0
  <2>1. DOMAIN orders = {}
    BY DEF Init
  <2> QED BY <2>1, TotalNone DEF Sold
<1> QED BY <1>1, <1>2

LEMMA InitExact == Init => StockExact
<1> SUFFICES ASSUME Init, NEW s \in Sku
             PROVE  stock[s] + Held(s) - GivenBack(s) + Sold(s) = supply[s]
  BY DEF StockExact
<1>1. stock[s] \in Nat /\ supply[s] = stock[s]
  BY ConstantsAssumption DEF Init
<1> QED BY <1>1, InitAccounts

(* With requests that run one at a time over a database that answers, no   *)
(* unit is lost and none appears, after every step of every placement,     *)
(* compensation, cancellation and change of the catalogue.                 *)
THEOREM StockIsExact ==
  (\E b : Client = {b}) /\ Faults = {} => (Spec => []StockExact)
<1> SUFFICES ASSUME NEW b, Client = {b}, Faults = {}
             PROVE  Spec => []StockExact
  OBVIOUS
<1>1. Init => TypeOK /\ PhaseOK /\ AloneInv /\ StockExact
  BY InitSafe, InitAlone, InitExact
<1>2. TypeOK /\ PhaseOK /\ AloneInv /\ StockExact /\ [Next]_vars
        => (TypeOK /\ PhaseOK /\ AloneInv /\ StockExact)'
  BY StepSafe, AloneStep, StockStep
<1> QED BY <1>1, <1>2, PTL DEF Spec

(* With requests that run one at a time over a database that answers, a    *)
(* failed placement has put all it reserved back by the time it returns:   *)
(* the leak needs a timeout, a fault, or requests that overlap.            *)
THEOREM NothingIsLeaked ==
  (\E b : Client = {b}) /\ Faults = {} => (Spec => []NothingLeaked)
<1> SUFFICES ASSUME NEW b, Client = {b}, Faults = {}
             PROVE  Spec => []NothingLeaked
  OBVIOUS
<1>1. TypeOK /\ StockExact => NothingLeaked
  <2> SUFFICES ASSUME TypeOK, StockExact, Quiet, NEW s \in Sku
               PROVE  stock[s] + Sold(s) >= supply[s]
    BY DEF NothingLeaked
  <2>1. Held(s) = 0 /\ GivenBack(s) = 0
    BY TotalNone DEF Quiet, Idle, Held, GivenBack, HeldLines, GivenLines
  <2>2. stock[s] \in Nat /\ Sold(s) \in Nat /\ supply[s] \in Int
    BY SoldFamily DEF TypeOK, CatalogTypeOK
  <2>3. stock[s] + Held(s) - GivenBack(s) + Sold(s) = supply[s]
    BY DEF StockExact
  <2> QED BY <2>1, <2>2, <2>3
<1>2. Spec => []StockExact
  BY StockIsExact
<1> QED BY <1>1, <1>2, TypeCorrect, PTL

-----------------------------------------------------------------------------
(* The refinement of the ledger, step by step. *)

LEMMA LedgerUnits ==
  ASSUME NEW lines, NEW s
  PROVE  Ledger!Units(lines, s) = Units(lines, s)
BY DEF Ledger!Units, Ledger!UnitsIn, Units, UnitsIn, Ledger!Cardinality, Cardinality

Available == [s \in Sku |-> stock[s] + Held(s) - GivenBack(s)]

LEMMA LedgerStep ==
  ASSUME NEW b, Client = {b}, Faults = {}, TypeOK, PhaseOK, AloneInv, [Next]_vars
  PROVE  [Ledger!Next]_(Ledger!ledger)
<1>0. TypeOK' /\ orders \in Seq(Order)
  BY StepSafe DEF TypeOK
<1>1. /\ DOMAIN Available = Sku /\ \A s \in Sku : Available[s] = Free(s)
      /\ DOMAIN Available' = Sku /\ \A s \in Sku : Available'[s] = Free(s)'
      /\ Available' = [s \in Sku |-> Free(s)']
  BY DEF Available, Free
<1>2. ASSUME NEW filed \in Order, Files(filed)
      PROVE  Ledger!Place
  <2>1. /\ orders' = Append(orders, filed)
        /\ Len(orders') = Len(orders) + 1 /\ SubSeq(orders', 1, Len(orders)) = orders
        /\ orders'[Len(orders')] = filed
    BY <1>0, <1>2 DEF Files
  <2>2. /\ filed.status = "CONFIRMED" /\ supply' = supply
        /\ \A s \in Sku : Ledger!Units(filed.lines, s) <= Available[s]
    BY <1>1, <1>2, LedgerUnits DEF Files
  <2>3. Available' = [s \in Sku |-> Available[s] - Ledger!Units(filed.lines, s)]
    <3>1. \A s \in Sku : Free(s)' = Available[s] - Ledger!Units(filed.lines, s)
      BY <1>1, <1>2, LedgerUnits DEF Files
    <3> QED BY <1>1, <3>1
  <2> QED BY <2>1, <2>2, <2>3 DEF Ledger!Place, Available
<1>3. ASSUME NEW k \in DOMAIN orders, Cancels(k)
      PROVE  Ledger!Cancel
  <2>1. /\ orders[k].status = "CONFIRMED" /\ supply' = supply
        /\ orders' = [orders EXCEPT ![k].status = "CANCELLED"]
    BY <1>3 DEF Cancels
  <2>2. Available' = [s \in Sku |-> Available[s] + Ledger!Units(orders[k].lines, s)]
    <3>1. \A s \in Sku : Free(s)' = Available[s] + Ledger!Units(orders[k].lines, s)
      BY <1>1, <1>3, LedgerUnits DEF Cancels
    <3> QED BY <1>1, <3>1
  <2> QED BY <2>1, <2>2 DEF Ledger!Cancel, Available
<1>4. CASE Supplies
  <2>1. /\ orders' = orders
        /\ \A s \in Sku : supply'[s] - supply[s] = Available'[s] - Available[s]
    BY <1>1, <1>4 DEF Supplies
  <2>2. Ledger!Source
    BY <2>1 DEF Ledger!Source, Available
  <2> QED BY <2>2 DEF Ledger!Next
<1>5. CASE Waits
  <2>1. orders' = orders /\ supply' = supply /\ Available' = Available
    <3>1. \A s \in Sku : Free(s)' = Free(s)
      BY <1>5 DEF Waits
    <3>2. Available' = [s \in Sku |-> Free(s)] /\ Available = [s \in Sku |-> Free(s)]
      BY <1>1, <3>1 DEF Available, Free
    <3> QED BY <1>5, <3>2 DEF Waits
  <2> QED BY <2>1 DEF Ledger!ledger, Available
<1> QED BY <1>2, <1>3, <1>4, <1>5, AloneKinds DEF Ledger!Next

LEMMA LedgerInit == Init => Ledger!Init
<1> SUFFICES ASSUME Init PROVE Ledger!Init
  OBVIOUS
<1>1. \A s \in Sku : stock[s] + Held(s) - GivenBack(s) = SeedStock[s]
  BY InitAccounts, ConstantsAssumption DEF Init
<1>2. Available = SeedStock
  BY <1>1, ConstantsAssumption DEF Available
<1>3. Available \in [Sku -> Nat] /\ supply = Available /\ orders = <<>>
  BY <1>2, ConstantsAssumption DEF Init
<1> QED BY <1>3 DEF Ledger!Init, Available

(* With requests that run one at a time over a database that answers the    *)
(* order component implements the ledger: the calls of a placement look     *)
(* like one step that takes all lines of the order and files it or does     *)
(* nothing, those of a cancellation like one step that puts all back.       *)
THEOREM OrdersImplementLedger ==
  (\E b : Client = {b}) /\ Faults = {} => (Spec => ImplementsLedger)
<1> SUFFICES ASSUME NEW b, Client = {b}, Faults = {}
             PROVE  Spec => ImplementsLedger
  OBVIOUS
<1>1. Init => TypeOK /\ PhaseOK /\ AloneInv
  BY InitSafe, InitAlone
<1>2. TypeOK /\ PhaseOK /\ AloneInv /\ [Next]_vars
        => (TypeOK /\ PhaseOK /\ AloneInv)' /\ [Ledger!Next]_(Ledger!ledger)
  BY StepSafe, AloneStep, LedgerStep
<1> QED BY <1>1, <1>2, LedgerInit, PTL DEF Spec, ImplementsLedger, Ledger!Spec

=============================================================================
