---------------------------- MODULE Rules_proofs ----------------------------
(***************************************************************************)
(* The rules of every topic for every case.                                *)
(*                                                                         *)
(* Prices: the quote of TariffSchedule stays within its roundings of the   *)
(* exact landed total, and never falls when the price of the article       *)
(* rises.  Products of two variables are kept apart as names while the     *)
(* solver does linear arithmetic on them.                                  *)
(*                                                                         *)
(* Product repositories: whatever products they hold and whatever is       *)
(* called, memory and database answer alike and still hold the same.  The  *)
(* rows of a product list its skus by id in one way only, so what is       *)
(* loaded is what was stored; and an UPDATE of one row is the change of    *)
(* one object.                                                             *)
(*                                                                         *)
(* Search, fusion, selection: a set put in order is a list of it, once     *)
(* each, in which what comes before is ahead; the first places of such a   *)
(* list are the best of the set; and a list filtered twice is filtered by  *)
(* both.                                                                   *)
(*                                                                         *)
(* Preferences and guards are histories.  What a store holds, and what a   *)
(* guard holds, is said by an operator on the history (Remembered; the     *)
(* calls, answers and words that are still alive), and a step more of the  *)
(* history changes both alike.                                             *)
(*                                                                         *)
(* Evaluation: sums are added up place by place.  What the first items of  *)
(* a ranking gain is never more than the gains of as many annotated items  *)
(* from the first on, nor does it fall when an item that gains more moves  *)
(* up; and discounts that fall leave it so.                                *)
(***************************************************************************)
EXTENDS Rules, FiniteSetTheorems, TLAPS

-----------------------------------------------------------------------------
(* Prices *)


(* Quotient and remainder.                                                 *)
LEMMA Division ==
  ASSUME NEW n \in Nat, NEW d \in Nat \ {0}
  PROVE  /\ n \div d \in Nat /\ n % d \in 0..(d - 1)
         /\ n = d * (n \div d) + (n % d)
OBVIOUS

(* A rounded quotient is off by no more than a half.                       *)
LEMMA RoundedNear ==
  ASSUME NEW n \in Nat, NEW d \in Nat \ {0}
  PROVE  /\ Rounded(n, d) \in Nat
         /\ 2 * (Rounded(n, d) * d) <= 2 * n + d
         /\ 2 * n <= 2 * (Rounded(n, d) * d) + d
<1> DEFINE q == n \div d  r == n % d
<1>1. q \in Nat /\ r \in 0..(d - 1) /\ n = d * q + r
  BY Division
<1>2. (Rounded(n, d) = q /\ 2 * r <= d) \/ (Rounded(n, d) = q + 1 /\ 2 * r >= d)
  BY <1>1 DEF Rounded
<1> HIDE DEF q, r
<1>3. q * d = d * q /\ (q + 1) * d = d * q + d
  BY <1>1
<1>4. QED BY <1>1, <1>2, <1>3

(* Rounding keeps the order.                                               *)
LEMMA RoundedMonotone ==
  ASSUME NEW n \in Nat, NEW m \in Nat, NEW d \in Nat \ {0}, n <= m
  PROVE  Rounded(n, d) <= Rounded(m, d)
<1> DEFINE q(i) == i \div d  r(i) == i % d
<1>1. \A i \in {n, m} : q(i) \in Nat /\ r(i) \in 0..(d - 1) /\ i = d * q(i) + r(i)
  BY Division
<1>2. \A i \in {n, m} : Rounded(i, d) = IF 2 * r(i) > d \/ (2 * r(i) = d /\ q(i) % 2 = 1)
                                         THEN q(i) + 1 ELSE q(i)
  BY DEF Rounded
<1> HIDE DEF q, r
<1>3. q(n) <= q(m)
  <2> SUFFICES ASSUME q(m) + 1 <= q(n) PROVE FALSE
    BY <1>1
  <2>1. d * (q(m) + 1) <= d * q(n)
    BY <1>1
  <2>2. d * (q(m) + 1) = d * q(m) + d
    BY <1>1
  <2>3. QED BY <1>1, <2>1, <2>2
<1>4. CASE q(n) = q(m)
  BY <1>1, <1>2, <1>4
<1>5. CASE q(n) < q(m)
  BY <1>1, <1>2, <1>5
<1>6. QED BY <1>1, <1>3, <1>4, <1>5

(* What divides is not rounded.                                            *)
LEMMA RoundedWhole ==
  ASSUME NEW k \in Nat, NEW d \in Nat \ {0}
  PROVE  Rounded(k * d, d) = k
<1>1. k * d \in Nat
  OBVIOUS
<1> DEFINE q == (k * d) \div d  r == (k * d) % d
<1>2. q \in Nat /\ r \in 0..(d - 1) /\ k * d = d * q + r
  BY <1>1, Division
<1>3. Rounded(k * d, d) = IF 2 * r > d \/ (2 * r = d /\ q % 2 = 1) THEN q + 1 ELSE q
  BY DEF Rounded
<1> HIDE DEF q, r
<1>4. q = k
  <2>1. ~(q + 1 <= k)
    <3> SUFFICES ASSUME q + 1 <= k PROVE FALSE
      OBVIOUS
    <3>1. d * (q + 1) <= d * k /\ d * (q + 1) = d * q + d /\ d * k = k * d
      BY <1>2
    <3>2. QED BY <1>2, <3>1
  <2>2. ~(k + 1 <= q)
    <3> SUFFICES ASSUME k + 1 <= q PROVE FALSE
      OBVIOUS
    <3>1. d * (k + 1) <= d * q /\ d * (k + 1) = d * k + d /\ d * k = k * d
      BY <1>2
    <3>2. QED BY <1>2, <3>1
  <2>3. QED BY <1>2, <2>1, <2>2
<1>5. r = 0
  BY <1>2, <1>4
<1>6. QED BY <1>3, <1>4, <1>5

(* What the proofs need of the rates: that freights are tens of fen, and that *)
(* no tariff is above 13%.                                                 *)
LEMMA Tables ==
  /\ \A c \in Currency : RateToCny[c] \in Nat \ {0}
  /\ RateToCny["CNY"] = 1000 /\ "CNY" \in Currency
  /\ \A p \in Destination : DeMinimis[p] \in Nat
  /\ \A p \in Destination : \E k \in Nat : BaseFreight[p] = 10 * k
  /\ \A c : \A p \in Destination : RateOf(p, c) \in 0..130
<1>1. \A c \in Currency : RateToCny[c] \in Nat \ {0}
  BY DEF Currency, RateToCny
<1>2. RateToCny["CNY"] = 1000 /\ "CNY" \in Currency
  BY DEF Currency, RateToCny
<1>3. \A p \in Destination : DeMinimis[p] \in Nat
  BY DEF Destination, TariffRate, DeMinimis
<1>4. \A p \in Destination : \E k \in Nat : BaseFreight[p] = 10 * k
  <2>1. 2500 = 10 * 250 /\ 6500 = 10 * 650 /\ 7500 = 10 * 750 /\ 4500 = 10 * 450
        /\ 4000 = 10 * 400
    OBVIOUS
  <2>2. QED BY <2>1 DEF Destination, TariffRate, BaseFreight
<1>5. \A c : \A p \in Destination : RateOf(p, c) \in 0..130
  BY DEF Destination, TariffRate, RateOf
<1>6. QED BY <1>1, <1>2, <1>3, <1>4, <1>5

(* A conversion is off by no more than half a minor unit of its target.    *)
LEMMA ConvertNear ==
  ASSUME NEW a \in Nat, NEW from \in Currency, NEW to \in Currency
  PROVE  /\ Convert(a, from, to) \in Nat
         /\ 2 * (Convert(a, from, to) * RateToCny[to]) <= 2 * (a * RateToCny[from]) + RateToCny[to]
         /\ 2 * (a * RateToCny[from]) <= 2 * (Convert(a, from, to) * RateToCny[to]) + RateToCny[to]
<1>1. RateToCny[from] \in Nat /\ RateToCny[to] \in Nat \ {0} /\ a * RateToCny[from] \in Nat
  <2>1. RateToCny[from] \in Nat /\ RateToCny[to] \in Nat \ {0}
    BY Tables
  <2>2. QED BY <2>1
<1>2. CASE from = to
  <2>1. Convert(a, from, to) = a
    BY <1>2 DEF Convert
  <2>2. QED BY <1>1, <1>2, <2>1
<1>3. CASE from # to
  <2>1. Convert(a, from, to) = Rounded(a * RateToCny[from], RateToCny[to])
    BY <1>3 DEF Convert
  <2>2. QED BY <1>1, <2>1, RoundedNear
<1>4. QED BY <1>2, <1>3

(* The same from CNY.                                                      *)
LEMMA FenNear ==
  ASSUME NEW fen \in Nat, NEW to \in Currency
  PROVE  /\ Convert(fen, "CNY", to) \in Nat
         /\ 2 * (Convert(fen, "CNY", to) * RateToCny[to]) <= 2 * (fen * 1000) + RateToCny[to]
         /\ 2 * (fen * 1000) <= 2 * (Convert(fen, "CNY", to) * RateToCny[to]) + RateToCny[to]
<1>1. "CNY" \in Currency /\ RateToCny["CNY"] = 1000
  BY Tables
<1>2. QED BY <1>1, ConvertNear

(* A conversion keeps the order.                                           *)
LEMMA ConvertMonotone ==
  ASSUME NEW a \in Nat, NEW b \in Nat, NEW from \in Currency, NEW to \in Currency, a <= b
  PROVE  Convert(a, from, to) <= Convert(b, from, to)
<1>1. RateToCny[from] \in Nat /\ RateToCny[to] \in Nat \ {0}
  BY Tables
<1>2. /\ a * RateToCny[from] \in Nat /\ b * RateToCny[from] \in Nat
      /\ a * RateToCny[from] <= b * RateToCny[from]
  BY <1>1
<1>3. Rounded(a * RateToCny[from], RateToCny[to]) <= Rounded(b * RateToCny[from], RateToCny[to])
  BY <1>1, <1>2, RoundedMonotone
<1>4. QED BY <1>3 DEF Convert

(* In whole fen, what of an amount is above the country's allowance. *)
ExactlyTaxable(a, from, country) ==
  LET above == a * RateToCny[from] - 1000 * DeMinimis[country] IN
  IF above > 0 THEN above \div 1000 ELSE 0

(* The rounding to fen takes the part above the allowance up by one at most. *)
LEMMA TaxableNear ==
  ASSUME NEW a \in Nat, NEW from \in Currency, NEW country \in Destination
  PROVE  /\ ExactlyTaxable(a, from, country) \in Nat
         /\ Taxable(a, from, country) \in {ExactlyTaxable(a, from, country),
                                           ExactlyTaxable(a, from, country) + 1}
<1> DEFINE worth == a * RateToCny[from]
           allowed == DeMinimis[country]
           whole == Convert(a, from, "CNY")
           above == worth - 1000 * allowed
<1>1. worth \in Nat /\ allowed \in Nat /\ above \in Int
  <2>1. RateToCny[from] \in Nat /\ DeMinimis[country] \in Nat
    BY Tables
  <2>2. QED BY <2>1
<1>2. whole \in Nat /\ 2 * (whole * 1000) <= 2 * worth + 1000
      /\ 2 * worth <= 2 * (whole * 1000) + 1000
  <2>1. "CNY" \in Currency /\ RateToCny["CNY"] = 1000
    BY Tables
  <2>2. QED BY <2>1, ConvertNear
<1>3. Taxable(a, from, country) = IF whole - allowed > 0 THEN whole - allowed ELSE 0
  BY DEF Taxable
<1>4. ExactlyTaxable(a, from, country) = IF above > 0 THEN above \div 1000 ELSE 0
  BY DEF ExactlyTaxable
<1>5. above = worth - 1000 * allowed
  OBVIOUS
<1>6. ASSUME above > 0
      PROVE  /\ above \div 1000 \in Nat
             /\ 1000 * (above \div 1000) <= above /\ above < 1000 * (above \div 1000) + 1000
  BY <1>1, <1>6
<1> HIDE DEF worth, allowed, whole, above
<1>7. QED BY <1>1, <1>2, <1>3, <1>4, <1>5, <1>6

(* The tariff in fen. *)
Levied(a, from, category, country) ==
  Rounded(Taxable(a, from, country) * RateOf(country, category), 1000)
Freight(country, quantity) == Rounded(BaseFreight[country] * (10 + 6 * (quantity - 1)), 10)

(* The freight is not rounded before it is converted.                      *)
LEMMA FreightExact ==
  ASSUME NEW country \in Destination, NEW quantity \in Nat \ {0}
  PROVE  /\ Freight(country, quantity) \in Nat
         /\ 1000 * Freight(country, quantity)
              = 100 * BaseFreight[country] * (10 + 6 * (quantity - 1))
<1>1. PICK k \in Nat : BaseFreight[country] = 10 * k
  BY Tables
<1> DEFINE share == 10 + 6 * (quantity - 1)
<1>2. share \in Nat
  OBVIOUS
<1>3. Freight(country, quantity) = Rounded(BaseFreight[country] * share, 10)
  BY DEF Freight
<1> HIDE DEF share
<1>4. k * share \in Nat /\ BaseFreight[country] * share = (k * share) * 10
  BY <1>1, <1>2
<1>5. Freight(country, quantity) = k * share
  BY <1>3, <1>4, RoundedWhole
<1>6. 100 * BaseFreight[country] * share = 1000 * (k * share)
  BY <1>1, <1>2
<1>7. QED BY <1>4, <1>5, <1>6 DEF share

(* The tariff is off by half a fen, and by the tariff on one fen more.     *)
LEMMA LeviedNear ==
  ASSUME NEW a \in Nat, NEW from \in Currency, NEW category, NEW country \in Destination
  PROVE  LET exact == ExactlyTaxable(a, from, country) * RateOf(country, category) IN
         /\ Levied(a, from, category, country) \in Nat /\ exact \in Nat
         /\ 2000 * Levied(a, from, category, country) <= 2 * exact + 1260
         /\ 2 * exact <= 2000 * Levied(a, from, category, country) + 1000
<1> DEFINE e == ExactlyTaxable(a, from, country)
           t == Taxable(a, from, country)
           rate == RateOf(country, category)
           levied == Levied(a, from, category, country)
<1>1. e \in Nat /\ t \in {e, e + 1}
  BY TaxableNear
<1>2. rate \in 0..130
  BY Tables
<1>3. levied = Rounded(t * rate, 1000)
  BY DEF Levied
<1> HIDE DEF e, t, rate, levied
<1>4. /\ t * rate \in Nat /\ e * rate \in Nat
      /\ e * rate <= t * rate /\ t * rate <= e * rate + 130
  <2>1. (e + 1) * rate = e * rate + rate
    BY <1>1, <1>2
  <2>2. e * rate \in Nat
    BY <1>1, <1>2
  <2>3. QED BY <1>1, <1>2, <2>1, <2>2
<1>5. /\ levied \in Nat /\ 2 * (levied * 1000) <= 2 * (t * rate) + 1000
      /\ 2 * (t * rate) <= 2 * (levied * 1000) + 1000
  <2> DEFINE whole == t * rate
  <2>1. whole \in Nat /\ levied = Rounded(whole, 1000)
    BY <1>3, <1>4
  <2> HIDE DEF whole
  <2>2. /\ levied \in Nat /\ 2 * (levied * 1000) <= 2 * whole + 1000
        /\ 2 * whole <= 2 * (levied * 1000) + 1000
    BY <2>1, RoundedNear
  <2>3. QED BY <2>2 DEF whole
<1>6. /\ levied \in Nat /\ e * rate \in Nat
      /\ 2000 * levied <= 2 * (e * rate) + 1260
      /\ 2 * (e * rate) <= 2000 * levied + 1000
  BY <1>4, <1>5
<1>7. QED BY <1>6 DEF e, rate, levied

(* A quote is three conversions.                                           *)
LEMMA TotalOfQuote ==
  ASSUME NEW a, NEW from, NEW category, NEW country, NEW quantity, NEW to
  PROVE  LET quote == Quote(a, from, category, country, quantity, to) IN
         /\ LandedTotal(quote) = Convert(a, from, to)
              + Convert(Freight(country, quantity), "CNY", to)
              + Convert(Levied(a, from, category, country), "CNY", to)
         /\ quote.tariff = Convert(Levied(a, from, category, country), "CNY", to)
         /\ quote.deMinimisApplied = (Taxable(a, from, country) = 0)
BY DEF LandedTotal, Quote, Freight, Levied

(* A landed total is close to the exact one.                               *)
LEMMA QuoteClose ==
  ASSUME NEW a \in Nat, NEW from \in Currency, NEW category, NEW country \in Destination,
         NEW quantity \in Nat \ {0}, NEW to \in Currency
  PROVE  CloseToExact(a, from, category, country, quantity, to)
<1> DEFINE rate == RateToCny[to]
           worth == a * RateToCny[from]
           freight == Freight(country, quantity)
           levied == Levied(a, from, category, country)
           exact == ExactlyTaxable(a, from, country) * RateOf(country, category)
           x == Convert(a, from, to)
           y == Convert(freight, "CNY", to)
           z == Convert(levied, "CNY", to)
           charged == 100 * BaseFreight[country] * (10 + 6 * (quantity - 1))
<1>1. rate \in Nat \ {0} /\ worth \in Nat
  <2>1. RateToCny[to] \in Nat \ {0} /\ RateToCny[from] \in Nat
    BY Tables
  <2>2. QED BY <2>1
<1>2. freight \in Nat /\ charged = 1000 * freight
  BY FreightExact
<1>3. /\ levied \in Nat /\ exact \in Nat
      /\ 2000 * levied <= 2 * exact + 1260 /\ 2 * exact <= 2000 * levied + 1000
  BY LeviedNear
<1>4. /\ x \in Nat /\ 2 * (x * rate) <= 2 * worth + rate /\ 2 * worth <= 2 * (x * rate) + rate
  BY ConvertNear
<1>5. /\ y \in Nat /\ 2 * (y * rate) <= 2 * (freight * 1000) + rate
      /\ 2 * (freight * 1000) <= 2 * (y * rate) + rate
  BY <1>2, FenNear
<1>6. /\ z \in Nat /\ 2 * (z * rate) <= 2 * (levied * 1000) + rate
      /\ 2 * (levied * 1000) <= 2 * (z * rate) + rate
  BY <1>3, FenNear
<1>7. LandedTotal(Quote(a, from, category, country, quantity, to)) = x + y + z
  BY TotalOfQuote
<1>8. ExactTotal(a, from, category, country, quantity) = worth + charged + exact
  <2> DEFINE above == worth - 1000 * DeMinimis[country]
             part == (above \div 1000) * RateOf(country, category)
  <2>1. exact = IF above > 0 THEN part ELSE 0
    <3>1. RateOf(country, category) \in Nat
      BY Tables
    <3>2. 0 * RateOf(country, category) = 0
      BY <3>1
    <3>3. QED BY <3>2 DEF ExactlyTaxable
  <2>2. ExactTotal(a, from, category, country, quantity)
          = worth + charged + (IF above > 0 THEN part ELSE 0)
    BY DEF ExactTotal
  <2> HIDE DEF exact, worth, charged, above, part
  <2>3. QED BY <2>1, <2>2
<1> DEFINE landed == LandedTotal(Quote(a, from, category, country, quantity, to))
           total == ExactTotal(a, from, category, country, quantity)
           off == landed * rate - total
<1>9. CloseToExact(a, from, category, country, quantity, to)
        <=> -(3 * rate + 2000) <= 2 * off /\ 2 * off <= 3 * rate + 2000
  BY DEF CloseToExact
<1>10. landed = x + y + z /\ total = worth + charged + exact
  BY <1>7, <1>8
<1> HIDE DEF rate, worth, freight, levied, exact, x, y, z, charged, landed, total
<1>11. (x + y + z) * rate = x * rate + y * rate + z * rate
  BY <1>1, <1>4, <1>5, <1>6
<1>12. x * rate \in Nat /\ y * rate \in Nat /\ z * rate \in Nat
  BY <1>1, <1>4, <1>5, <1>6
<1>13. off = x * rate + y * rate + z * rate - (worth + charged + exact)
  BY <1>1, <1>3, <1>4, <1>5, <1>6, <1>10, <1>11
<1> HIDE DEF off
<1>14. -(3 * rate + 2000) <= 2 * off /\ 2 * off <= 3 * rate + 2000
  BY <1>1, <1>2, <1>3, <1>4, <1>5, <1>6, <1>12, <1>13
<1>15. QED BY <1>9, <1>14

(* More is above the allowance of a dearer article.                        *)
LEMMA TaxableMonotone ==
  ASSUME NEW a \in Nat, NEW b \in Nat, NEW from \in Currency, NEW country \in Destination, a <= b
  PROVE  /\ Taxable(a, from, country) \in Nat /\ Taxable(b, from, country) \in Nat
         /\ Taxable(a, from, country) <= Taxable(b, from, country)
<1>1. DeMinimis[country] \in Nat /\ "CNY" \in Currency
  BY Tables
<1>2. /\ Convert(a, from, "CNY") \in Nat /\ Convert(b, from, "CNY") \in Nat
      /\ Convert(a, from, "CNY") <= Convert(b, from, "CNY")
  BY <1>1, ConvertNear, ConvertMonotone
<1>3. QED BY <1>1, <1>2 DEF Taxable

(* A dearer article is not landed cheaper.                                 *)
LEMMA QuoteMonotone ==
  ASSUME NEW a \in Nat, NEW b \in Nat, NEW from \in Currency, NEW category,
         NEW country \in Destination, NEW quantity \in Nat \ {0}, NEW to \in Currency
  PROVE  Monotone(a, b, from, category, country, quantity, to)
<1> SUFFICES ASSUME a <= b
             PROVE  Monotone(a, b, from, category, country, quantity, to)
  BY DEF Monotone
<1> DEFINE levied(i) == Levied(i, from, category, country)
           x(i) == Convert(i, from, to)
           y == Convert(Freight(country, quantity), "CNY", to)
           z(i) == Convert(levied(i), "CNY", to)
           t(i) == Taxable(i, from, country)
           rate == RateOf(country, category)
<1>1. x(a) \in Nat /\ x(b) \in Nat /\ x(a) <= x(b)
  BY ConvertNear, ConvertMonotone
<1>2. y \in Nat
  BY FreightExact, Tables, ConvertNear
<1>3. t(a) \in Nat /\ t(b) \in Nat /\ t(a) <= t(b) /\ rate \in Nat
  <2>1. rate \in Nat
    BY Tables
  <2>2. t(a) \in Nat /\ t(b) \in Nat /\ t(a) <= t(b)
    BY TaxableMonotone
  <2>3. QED BY <2>1, <2>2
<1>4. levied(a) = Rounded(t(a) * rate, 1000) /\ levied(b) = Rounded(t(b) * rate, 1000)
  BY DEF Levied
<1>5. levied(a) \in Nat /\ levied(b) \in Nat /\ levied(a) <= levied(b)
  <2> HIDE DEF t, rate, levied
  <2>1. t(a) * rate \in Nat /\ t(b) * rate \in Nat /\ t(a) * rate <= t(b) * rate
    BY <1>3
  <2>2. QED BY <1>4, <2>1, RoundedNear, RoundedMonotone
<1>6. z(a) \in Nat /\ z(b) \in Nat /\ z(a) <= z(b)
  BY <1>5, Tables, ConvertNear, ConvertMonotone
<1>7. t(b) = 0 => z(a) = 0
  <2> SUFFICES ASSUME t(b) = 0 PROVE z(a) = 0
    OBVIOUS
  <2>1. t(a) * rate = 0
    <3> HIDE DEF t, rate
    <3>1. QED BY <1>3
  <2>2. levied(a) = 0
    BY <1>4, <2>1 DEF Rounded
  <2>3. Convert(0, "CNY", to) = 0
    <3>1. RateToCny["CNY"] \in Nat /\ RateToCny[to] \in Nat \ {0}
      BY Tables
    <3>2. 0 * RateToCny["CNY"] = 0 * RateToCny[to]
      BY <3>1
    <3>3. Rounded(0 * RateToCny[to], RateToCny[to]) = 0
      BY <3>1, RoundedWhole
    <3>4. QED BY <3>2, <3>3 DEF Convert
  <2>4. QED BY <2>2, <2>3
<1>8. \A i \in {a, b} :
        /\ LandedTotal(Quote(i, from, category, country, quantity, to)) = x(i) + y + z(i)
        /\ Quote(i, from, category, country, quantity, to).tariff = z(i)
        /\ Quote(i, from, category, country, quantity, to).deMinimisApplied = (t(i) = 0)
  BY TotalOfQuote
<1> HIDE DEF x, y, z, t, levied, rate
<1>9. x(a) + y + z(a) <= x(b) + y + z(b)
  BY <1>1, <1>2, <1>6
<1>10. QED BY <1>7, <1>8, <1>9 DEF Monotone

-----------------------------------------------------------------------------
(* Product repositories *)

(* An increasing map of 1..n to itself is the identity: it is injective,   *)
(* so it can neither run ahead nor fall behind.                            *)
LEMMA IncreasingIsIdentity ==
  ASSUME NEW n \in Nat, NEW h \in [1..n -> 1..n],
         \A i, j \in 1..n : i < j => h[i] < h[j], NEW i \in 1..n
  PROVE  h[i] = i
<1>0. /\ \A k \in 1..n : h[k] \in 1..n /\ h[k] \in Int
      /\ \A k, l \in 1..n : h[k] = h[l] => k = l
      /\ \A k \in 1..i : k \in 1..n /\ h[k] \in 1..h[i]
      /\ \A k \in i..n : k \in 1..n /\ h[k] \in h[i]..n
  <2>1. \A k \in 1..n : h[k] \in 1..n /\ h[k] \in Int
    OBVIOUS
  <2>2. \A k, l \in 1..n : k = l \/ k < l \/ l < k
    OBVIOUS
  <2>3. \A k \in (1..i) \cup (i..n) : k \in 1..n
    OBVIOUS
  <2>4. \A k \in 1..i : k = i \/ k < i
    OBVIOUS
  <2>5. \A k \in i..n : k = i \/ i < k
    OBVIOUS
  <2>6. ASSUME NEW k \in 1..i PROVE h[k] \in 1..h[i]
    <3>1. k \in 1..n /\ h[k] \in 1..n /\ h[i] \in 1..n
      BY <2>3
    <3>2. k = i \/ h[k] < h[i]
      BY <2>4, <3>1
    <3>3. QED BY <3>1, <3>2, SMTT(20)
  <2>7. ASSUME NEW k \in i..n PROVE h[k] \in h[i]..n
    <3>1. k \in 1..n /\ h[k] \in 1..n /\ h[i] \in 1..n
      BY <2>3
    <3>2. k = i \/ h[i] < h[k]
      BY <2>5, <3>1
    <3>3. QED BY <3>1, <3>2, SMTT(20)
  <2>8. \A k, l \in 1..n : h[k] = h[l] => k = l
    BY <2>1, <2>2
  <2>9. QED BY <2>1, <2>3, <2>6, <2>7, <2>8
<1>1. i <= h[i]
  <2> DEFINE low == [k \in 1..i |-> h[k]]
  <2>1. low \in Injection(1..i, 1..h[i])
    BY <1>0 DEF Injection, IsInjective
  <2>2. IsFiniteSet(1..h[i]) /\ Cardinality(1..h[i]) = h[i]
    <3>1. h[i] \in Nat /\ ~(1 > h[i]) /\ h[i] - 1 + 1 = h[i]
      OBVIOUS
    <3>2. QED BY <3>1, FS_Interval
  <2>3. Cardinality(1..i) = i
    <3>1. ~(1 > i) /\ i - 1 + 1 = i
      OBVIOUS
    <3>2. QED BY <3>1, FS_Interval
  <2> HIDE DEF low
  <2>4. Cardinality(1..i) <= Cardinality(1..h[i])
    BY <2>1, <2>2, FS_Injection
  <2>5. QED BY <2>2, <2>3, <2>4
<1>2. h[i] <= i
  <2> DEFINE high == [k \in i..n |-> h[k]]
  <2>1. high \in Injection(i..n, h[i]..n)
    BY <1>0 DEF Injection, IsInjective
  <2>2. IsFiniteSet(h[i]..n) /\ Cardinality(h[i]..n) = n - h[i] + 1
    <3>1. h[i] \in Int /\ ~(h[i] > n)
      BY <1>0
    <3>2. QED BY <3>1, FS_Interval
  <2>3. Cardinality(i..n) = n - i + 1
    <3>1. ~(i > n)
      OBVIOUS
    <3>2. QED BY <3>1, FS_Interval
  <2> HIDE DEF high
  <2>4. Cardinality(i..n) <= Cardinality(h[i]..n)
    BY <2>1, <2>2, FS_Injection
  <2>5. h[i] \in Nat
    OBVIOUS
  <2>6. QED BY <2>2, <2>3, <2>4, <2>5
<1>3. h[i] \in Nat
  OBVIOUS
<1>4. QED BY <1>1, <1>2, <1>3

(* Two sorted listings of a set by its ids are the same.                   *)
LEMMA SortedUnique ==
  ASSUME NEW n \in Nat, NEW S, \A x \in S : x.id \in Int,
         NEW f \in Surjection(1..n, S), NEW g \in Surjection(1..n, S), Sorted(f), Sorted(g)
  PROVE  f = g
<1>1. /\ DOMAIN f = 1..n /\ DOMAIN g = 1..n
      /\ \A i \in 1..n : f[i] \in S /\ g[i] \in S /\ f[i].id \in Int /\ g[i].id \in Int
      /\ \A x \in S : \E j \in 1..n : g[j] = x
  BY DEF Surjection
<1> DEFINE h == [i \in 1..n |-> CHOOSE j \in 1..n : g[j] = f[i]]
<1>2. \A i \in 1..n : h[i] \in 1..n /\ g[h[i]] = f[i]
  BY <1>1
<1>3. h \in [1..n -> 1..n]
  BY <1>2
<1> HIDE DEF h
<1>4. ASSUME NEW i \in 1..n, NEW k \in 1..n, i < k PROVE h[i] < h[k]
  <2>1. f[i].id < f[k].id
    BY <1>1, <1>4 DEF Sorted
  <2>2. g[h[i]].id < g[h[k]].id
    <3>1. f[i] = g[h[i]] /\ f[k] = g[h[k]]
      BY <1>2
    <3>2. QED BY <2>1, <3>1
  <2>3. h[i] # h[k]
    <3> SUFFICES ASSUME h[i] = h[k] PROVE FALSE
      OBVIOUS
    <3>1. g[h[i]].id \in Int /\ g[h[i]].id < g[h[i]].id
      BY <1>1, <1>2, <2>2
    <3>2. QED BY <3>1
  <2>4. ~(h[k] < h[i])
    <3> SUFFICES ASSUME h[k] < h[i] PROVE FALSE
      OBVIOUS
    <3>1. g[h[k]].id < g[h[i]].id
      BY <1>1, <1>2 DEF Sorted
    <3>2. g[h[k]].id \in Int /\ g[h[i]].id \in Int
      BY <1>1, <1>2
    <3>3. QED BY <2>2, <3>1, <3>2
  <2>5. h[i] \in Int /\ h[k] \in Int
    BY <1>2
  <2>6. QED BY <2>3, <2>4, <2>5
<1>5. \A i \in 1..n : h[i] = i
  BY <1>3, <1>4, IncreasingIsIdentity
<1>6. \A i \in 1..n : f[i] = g[i]
  BY <1>2, <1>5
<1>7. QED BY <1>6 DEF Surjection

(* ORDER BY the id finds the sorted listing.                               *)
LEMMA OrderByIdFinds ==
  ASSUME NEW n \in Nat, NEW S, \A x \in S : x.id \in Int,
         NEW seq \in Surjection(1..n, S), Sorted(seq)
  PROVE  OrderById(S) = seq
<1>1. seq \in [1..n -> S]
  BY DEF Surjection
<1>2. IsFiniteSet(1..n) /\ Cardinality(1..n) = n
  <2>1. (IF 1 > n THEN 0 ELSE n - 1 + 1) = n
    OBVIOUS
  <2>2. QED BY <2>1, FS_Interval
<1>3. \A f \in [1..n -> S] : Sorted(f) => f \in Injection(1..n, S)
  <2> SUFFICES ASSUME NEW f \in [1..n -> S], Sorted(f) PROVE IsInjective(f)
    BY DEF Injection
  <2>1. \A i \in 1..n : f[i].id \in Int
    OBVIOUS
  <2>2. \A i, j \in 1..n : i # j => i < j \/ j < i
    OBVIOUS
  <2>3. QED BY <2>1, <2>2 DEF Sorted, IsInjective
<1>4. IsFiniteSet(S) /\ Cardinality(S) = n
  <2>1. seq \in Bijection(1..n, S)
    BY <1>1, <1>3 DEF Bijection
  <2>2. QED BY <1>2, <2>1, FS_Bijection DEF ExistsBijection
<1>5. OrderById(S) \in [1..n -> S] /\ Sorted(OrderById(S))
  BY <1>1, <1>4 DEF OrderById
<1>6. OrderById(S) \in Surjection(1..n, S)
  BY <1>2, <1>3, <1>4, <1>5, FS_Injection
<1>7. QED BY <1>5, <1>6, SortedUnique

-----------------------------------------------------------------------------
(* Reading rows back *)

(* The rows of skus are those of the skus of the products.                 *)
LEMMA SkuRows ==
  ASSUME NEW store, IsStore(store), NEW row
  PROVE  row \in Rows(store).skus <=>
           \E id \in DOMAIN store : \E i \in DOMAIN store[id].skus :
             row = NewSkuRow(id, store[id].skus[i])
BY DEF Rows, ToSet

(* What is known of a product of a store: its skus have different ids.     *)
LEMMA StoredProduct ==
  ASSUME NEW product \in Stored
  PROVE  /\ product = [active |-> product.active, source |-> product.source,
                       skus |-> product.skus]
         /\ product.active \in BOOLEAN /\ product.source \in Source
         /\ product.skus \in Seq(Sku) /\ Sorted(product.skus)
         /\ \A i \in DOMAIN product.skus :
              /\ product.skus[i] \in Sku
              /\ \A j \in DOMAIN product.skus : product.skus[i].id = product.skus[j].id => i = j
<1>1. /\ product = [active |-> product.active, source |-> product.source,
                    skus |-> product.skus]
      /\ product.active \in BOOLEAN /\ product.source \in Source
      /\ product.skus \in Seq(Sku) /\ Sorted(product.skus)
  BY DEF Stored
<1>2. \A i \in DOMAIN product.skus : product.skus[i] \in Sku /\ product.skus[i].id \in Int
  <2>1. \A i \in DOMAIN product.skus : product.skus[i] \in Sku
    BY <1>1
  <2>2. \A sku \in Sku : sku.id \in Int
    BY DEF Sku
  <2>3. QED BY <2>1, <2>2
<1>3. \A i, j \in DOMAIN product.skus : i # j => i < j \/ j < i
  BY <1>1
<1>4. QED BY <1>1, <1>2, <1>3 DEF Sorted

(* A product read from its rows is the product (_load_product).            *)
LEMMA LoadsBack ==
  ASSUME NEW store, IsStore(store), NEW id \in DOMAIN store
  PROVE  Load(Rows(store), id) = store[id]
<1> DEFINE product == store[id]
           T == Rows(store)
           row == NewProductRow(id, product)
           S == {s \in T.skus : s.product = id}
           n == Len(product.skus)
           seq == [i \in 1..n |-> NewSkuRow(id, product.skus[i])]
<1>1. product \in Stored
  BY DEF IsStore
<1>2. /\ n \in Nat /\ DOMAIN product.skus = 1..n
      /\ \A i \in 1..n : product.skus[i] \in Sku
      /\ Sorted(product.skus)
  BY <1>1, StoredProduct
<1>3. (CHOOSE r \in T.products : r.id = id) = row
  BY DEF Rows, NewProductRow
<1>4. \A s : s \in S <=> \E i \in 1..n : s = NewSkuRow(id, product.skus[i])
  <2>1. \A s : s \in S <=> s \in T.skus /\ s.product = id
    OBVIOUS
  <2>2. \A k, sku : NewSkuRow(k, sku).product = k
    BY DEF NewSkuRow
  <2> HIDE DEF S
  <2>3. QED BY <1>2, <2>1, <2>2, SkuRows
<1> HIDE DEF S
<1>5. OrderById(S) = seq
  <2>1. seq \in Surjection(1..n, S)
    BY <1>4 DEF Surjection
  <2>2. \A i \in 1..n : seq[i].id = product.skus[i].id /\ seq[i].id \in Int
    BY <1>2 DEF NewSkuRow, Sku
  <2>3. Sorted(seq)
    BY <1>2, <2>2 DEF Sorted
  <2>4. \A s \in S : s.id \in Int
    BY <1>4, <2>2
  <2> HIDE DEF seq
  <2>5. QED BY <1>2, <2>1, <2>3, <2>4, OrderByIdFinds
<1>6. [i \in DOMAIN seq |-> [id |-> seq[i].id, price |-> seq[i].price,
                             stock |-> seq[i].stock, version |-> seq[i].version]]
        = product.skus
  <2>1. \A i \in 1..n :
          [id |-> seq[i].id, price |-> seq[i].price, stock |-> seq[i].stock,
           version |-> seq[i].version] = product.skus[i]
    <3> SUFFICES ASSUME NEW i \in 1..n
                 PROVE  [id |-> seq[i].id, price |-> seq[i].price, stock |-> seq[i].stock,
                         version |-> seq[i].version] = product.skus[i]
      OBVIOUS
    <3> DEFINE sku == product.skus[i]
    <3>1. sku \in Sku
      BY <1>2
    <3> HIDE DEF sku, product
    <3>2. sku = [id |-> sku.id, price |-> sku.price, stock |-> sku.stock,
                 version |-> sku.version]
      BY <3>1 DEF Sku
    <3>3. seq[i] = NewSkuRow(id, sku)
      BY DEF sku
    <3>4. QED BY <3>2, <3>3 DEF NewSkuRow, sku
  <2>2. product.skus = [i \in 1..n |-> product.skus[i]]
    BY <1>1, <1>2, StoredProduct
  <2>3. DOMAIN seq = 1..n
    OBVIOUS
  <2> HIDE DEF seq, product, n
  <2>4. QED BY <2>1, <2>2, <2>3
<1>7. ToDomain(T, row) = [active |-> product.active, source |-> product.source,
                          skus |-> product.skus]
  <2>1. row.id = id /\ row.active = product.active /\ row.source = product.source
    BY DEF NewProductRow
  <2>2. ToDomain(T, row) =
          [active |-> product.active, source |-> product.source,
           skus |-> [i \in DOMAIN OrderById(S) |->
             [id |-> OrderById(S)[i].id, price |-> OrderById(S)[i].price,
              stock |-> OrderById(S)[i].stock, version |-> OrderById(S)[i].version]]]
    BY <2>1 DEF ToDomain, S
  <2> HIDE DEF seq, product, T, row
  <2>3. QED BY <1>5, <1>6, <2>2
<1>8. QED BY <1>1, <1>3, <1>7, StoredProduct DEF Load

(* A product has one row, and a missing one none.                          *)
LEMMA ProductRows ==
  ASSUME NEW store, NEW id
  PROVE  /\ id \in DOMAIN store => ProductRow(Rows(store), id) = {NewProductRow(id, store[id])}
         /\ id \notin DOMAIN store => ProductRow(Rows(store), id) = {}
BY DEF ProductRow, Rows, NewProductRow

(* What is found in the rows is what is found in memory, in the order      *)
(* asked for.                                                              *)
LEMMA FindsBack ==
  ASSUME NEW store, IsStore(store), NEW ids
  PROVE  SqlFindByIds(Rows(store), ids) = MemFindByIds(store, ids)
<1> DEFINE found == [id \in {row.id : row \in Rows(store).products} |-> Load(Rows(store), id)]
<1>1. {row.id : row \in Rows(store).products} = DOMAIN store
  <2>1. Rows(store).products = {NewProductRow(id, store[id]) : id \in DOMAIN store}
    BY DEF Rows
  <2>2. \A id, product : NewProductRow(id, product).id = id
    BY DEF NewProductRow
  <2>3. \A id : id \in {row.id : row \in Rows(store).products} <=> id \in DOMAIN store
    BY <2>1, <2>2
  <2>4. QED BY <2>3
<1>2. found = store
  <2>1. store = [id \in DOMAIN store |-> store[id]]
    BY DEF IsStore
  <2>2. QED BY <1>1, <2>1, LoadsBack
<1> HIDE DEF found
<1>3. QED BY <1>2 DEF SqlFindByIds, MemFindByIds, found

-----------------------------------------------------------------------------
(* What a change of one product does to the rows *)

(* A store stays one when a product of it is replaced.                     *)
LEMMA PutStored ==
  ASSUME NEW store, IsStore(store), NEW id \in DOMAIN store, NEW product \in Stored
  PROVE  LET next == [store EXCEPT ![id] = product] IN
         /\ IsStore(next) /\ DOMAIN next = DOMAIN store
         /\ next[id] = product /\ \A k \in DOMAIN store : k # id => next[k] = store[k]
BY DEF IsStore

(* Its row of products is replaced.                                        *)
LEMMA PutProducts ==
  ASSUME NEW store, IsStore(store), NEW id \in DOMAIN store, NEW product \in Stored
  PROVE  Rows([store EXCEPT ![id] = product]).products
           = (Rows(store).products \ {NewProductRow(id, store[id])})
               \cup {NewProductRow(id, product)}
<1> DEFINE next == [store EXCEPT ![id] = product]
<1>1. /\ DOMAIN next = DOMAIN store /\ next[id] = product
      /\ \A k \in DOMAIN store : k # id => next[k] = store[k]
  BY PutStored
<1>2. /\ Rows(next).products = {NewProductRow(k, next[k]) : k \in DOMAIN next}
      /\ Rows(store).products = {NewProductRow(k, store[k]) : k \in DOMAIN store}
  BY DEF Rows
<1>3. \A k, p : NewProductRow(k, p).id = k
  BY DEF NewProductRow
<1> HIDE DEF next
<1>4. \A row : row \in Rows(next).products <=>
        \/ row \in Rows(store).products /\ row # NewProductRow(id, store[id])
        \/ row = NewProductRow(id, product)
  BY <1>1, <1>2, <1>3
<1>5. QED BY <1>4 DEF next

(* So are its rows of skus, and no other.                                  *)
LEMMA PutSkus ==
  ASSUME NEW store, IsStore(store), NEW id \in DOMAIN store, NEW product \in Stored, NEW row
  PROVE  row \in Rows([store EXCEPT ![id] = product]).skus <=>
           \/ row \in Rows(store).skus /\ row.product # id
           \/ \E i \in DOMAIN product.skus : row = NewSkuRow(id, product.skus[i])
<1> DEFINE next == [store EXCEPT ![id] = product]
<1>1. /\ IsStore(next) /\ DOMAIN next = DOMAIN store /\ next[id] = product
      /\ \A k \in DOMAIN store : k # id => next[k] = store[k]
  BY PutStored
<1>2. \A k, sku : NewSkuRow(k, sku).product = k
  BY DEF NewSkuRow
<1> HIDE DEF next
<1>3. row \in Rows(next).skus <=>
        \E k \in DOMAIN next : \E i \in DOMAIN next[k].skus : row = NewSkuRow(k, next[k].skus[i])
  BY <1>1, SkuRows
<1>4. row \in Rows(store).skus <=>
        \E k \in DOMAIN store : \E i \in DOMAIN store[k].skus :
          row = NewSkuRow(k, store[k].skus[i])
  BY SkuRows
<1>5. QED BY <1>1, <1>2, <1>3, <1>4 DEF next

(* Rows of skus stay as they are when the skus do.                         *)
LEMMA SameSkus ==
  ASSUME NEW store, IsStore(store), NEW id \in DOMAIN store, NEW product \in Stored,
         product.skus = store[id].skus
  PROVE  Rows([store EXCEPT ![id] = product]).skus = Rows(store).skus
<1>1. \A k, sku : NewSkuRow(k, sku).product = k
  BY DEF NewSkuRow
<1>2. \A row : row \in Rows([store EXCEPT ![id] = product]).skus <=>
           \/ row \in Rows(store).skus /\ row.product # id
           \/ \E i \in DOMAIN product.skus : row = NewSkuRow(id, product.skus[i])
  BY PutSkus
<1>3. \A row : row \in Rows(store).skus <=>
        \E k \in DOMAIN store : \E i \in DOMAIN store[k].skus :
          row = NewSkuRow(k, store[k].skus[i])
  BY SkuRows
<1> DEFINE mine(row) == \E i \in DOMAIN store[id].skus : row = NewSkuRow(id, store[id].skus[i])
<1>4. \A row : mine(row) => row \in Rows(store).skus
  BY <1>3
<1>5. \A row : row \in Rows(store).skus /\ row.product = id => mine(row)
  BY <1>1, <1>3
<1>6. \A row : row \in Rows([store EXCEPT ![id] = product]).skus <=> row \in Rows(store).skus
  <2>1. \A row : row \in Rows([store EXCEPT ![id] = product]).skus <=>
           (row \in Rows(store).skus /\ row.product # id) \/ mine(row)
    BY <1>2
  <2> HIDE DEF mine
  <2>2. QED BY <1>4, <1>5, <2>1
<1>7. QED BY <1>6

(* One sku is replaced: so is its row. *)
LEMMA OneSku ==
  ASSUME NEW store, IsStore(store), NEW id \in DOMAIN store, NEW product \in Stored,
         NEW i \in DOMAIN store[id].skus, NEW sku,
         product.skus = [store[id].skus EXCEPT ![i] = sku]
  PROVE  Rows([store EXCEPT ![id] = product]).skus
           = (Rows(store).skus \ {NewSkuRow(id, store[id].skus[i])}) \cup {NewSkuRow(id, sku)}
<1> DEFINE skus == store[id].skus
           after == Rows([store EXCEPT ![id] = product]).skus
           before == Rows(store).skus
<1>1. \A k, s : NewSkuRow(k, s).product = k /\ NewSkuRow(k, s).id = s.id
  BY DEF NewSkuRow
<1>2. \A row : row \in after <=>
           \/ row \in before /\ row.product # id
           \/ \E j \in DOMAIN product.skus : row = NewSkuRow(id, product.skus[j])
  BY PutSkus
<1>3. \A row : row \in before <=>
        \E k \in DOMAIN store : \E j \in DOMAIN store[k].skus :
          row = NewSkuRow(k, store[k].skus[j])
  BY SkuRows
<1>4. store[id] \in Stored
  BY DEF IsStore
<1>5. /\ \A j, k \in DOMAIN skus : skus[j].id = skus[k].id => j = k
      /\ i \in DOMAIN skus
  BY <1>4, StoredProduct
<1>6. DOMAIN product.skus = DOMAIN skus
      /\ \A j \in DOMAIN skus : product.skus[j] = IF j = i THEN sku ELSE skus[j]
  OBVIOUS
<1>7. \A row : row \in before <=>
        \/ row \in before /\ row.product # id
        \/ \E j \in DOMAIN skus : row = NewSkuRow(id, skus[j])
  BY <1>1, <1>3
<1> HIDE DEF skus, after, before
<1>8. \A j \in DOMAIN skus : j # i => NewSkuRow(id, skus[j]) # NewSkuRow(id, skus[i])
  BY <1>1, <1>5
<1>9. \A row : row \in after <=>
        \/ row \in before /\ row # NewSkuRow(id, skus[i])
        \/ row = NewSkuRow(id, sku)
  BY <1>1, <1>2, <1>5, <1>6, <1>7, <1>8
<1>10. after = (before \ {NewSkuRow(id, skus[i])}) \cup {NewSkuRow(id, sku)}
  BY <1>9
<1>11. QED BY <1>10 DEF after, before, skus

(* Looking for a sku. *)
LEMMA SkuFound ==
  ASSUME NEW store, IsStore(store), NEW id \in DOMAIN store, NEW name,
         NEW i \in Places(store[id], name)
  PROVE  /\ i \in DOMAIN store[id].skus /\ store[id].skus[i] \in Sku
         /\ store[id].skus[i].id = name
         /\ FindSku(store[id], name) = store[id].skus[i]
         /\ SkuRow(Rows(store), name, id) = {NewSkuRow(id, store[id].skus[i])}
<1> DEFINE skus == store[id].skus
<1>1. store[id] \in Stored
  BY DEF IsStore
<1>2. /\ \A j \in DOMAIN skus : skus[j] \in Sku
      /\ \A j, k \in DOMAIN skus : skus[j].id = skus[k].id => j = k
  BY <1>1, StoredProduct
<1>3. i \in DOMAIN skus /\ skus[i].id = name
  BY DEF Places
<1>4. FindSku(store[id], name) = skus[i]
  BY <1>2, <1>3 DEF FindSku, Places
<1>5. \A k, s : NewSkuRow(k, s).product = k /\ NewSkuRow(k, s).id = s.id
  BY DEF NewSkuRow
<1>6. \A row : row \in Rows(store).skus <=>
        \E k \in DOMAIN store : \E j \in DOMAIN store[k].skus :
          row = NewSkuRow(k, store[k].skus[j])
  BY SkuRows
<1>7. \A row : row \in SkuRow(Rows(store), name, id) <=>
        row \in Rows(store).skus /\ row.id = name /\ row.product = id
  BY DEF SkuRow
<1>8. \A row : row \in SkuRow(Rows(store), name, id) <=>
        \E j \in DOMAIN skus : row = NewSkuRow(id, skus[j]) /\ skus[j].id = name
  BY <1>5, <1>6, <1>7
<1> HIDE DEF skus
<1>9. \A row : row \in SkuRow(Rows(store), name, id) <=> row = NewSkuRow(id, skus[i])
  BY <1>2, <1>3, <1>8
<1>10. QED BY <1>2, <1>3, <1>4, <1>9 DEF skus

(* A sku is missing in memory just when it has no row.                     *)
LEMMA SkuMissing ==
  ASSUME NEW store, IsStore(store), NEW call
  PROVE  MemMissing(store, call) <=> SkuRow(Rows(store), call.sku, call.product) = {}
<1> DEFINE id == call.product
<1>1. \A k, s : NewSkuRow(k, s).product = k /\ NewSkuRow(k, s).id = s.id
  BY DEF NewSkuRow
<1>2. \A row : row \in Rows(store).skus <=>
        \E k \in DOMAIN store : \E j \in DOMAIN store[k].skus :
          row = NewSkuRow(k, store[k].skus[j])
  BY SkuRows
<1>3. ASSUME MemMissing(store, call) PROVE SkuRow(Rows(store), call.sku, id) = {}
  <2>1. id \in DOMAIN store => \A j \in DOMAIN store[id].skus : store[id].skus[j].id # call.sku
    BY <1>3 DEF MemMissing, Places
  <2>2. QED BY <1>1, <1>2, <2>1 DEF SkuRow
<1>4. ASSUME ~MemMissing(store, call) PROVE SkuRow(Rows(store), call.sku, id) # {}
  <2>1. id \in DOMAIN store /\ Places(store[id], call.sku) # {}
    BY <1>4 DEF MemMissing
  <2>2. PICK i \in Places(store[id], call.sku) : TRUE
    BY <2>1
  <2>3. SkuRow(Rows(store), call.sku, id) = {NewSkuRow(id, store[id].skus[i])}
    BY <2>1, SkuFound
  <2>4. QED BY <2>3
<1>5. QED BY <1>3, <1>4

(* A sku changes: the product stays in order. *)
LEMMA SkuChanges ==
  ASSUME NEW store, IsStore(store), NEW id \in DOMAIN store, NEW name,
         NEW i \in Places(store[id], name), NEW new \in Sku, new.id = name
  PROVE  LET product == WithSku(store[id], new) IN
         /\ product \in Stored
         /\ product.active = store[id].active /\ product.source = store[id].source
         /\ product.skus = [store[id].skus EXCEPT ![i] = NewVersion(new)]
<1> DEFINE old == store[id]
           skus == store[id].skus
           changed == NewVersion(new)
           product == WithSku(old, new)
           after == [skus EXCEPT ![i] = changed]
<1>1. old \in Stored
  BY DEF IsStore
<1>2. /\ old = [active |-> old.active, source |-> old.source, skus |-> old.skus]
      /\ old.active \in BOOLEAN /\ old.source \in Source
      /\ skus \in Seq(Sku) /\ Sorted(skus)
      /\ \A j, k \in DOMAIN skus : skus[j].id = skus[k].id => j = k
  BY <1>1, StoredProduct
<1>3. i \in DOMAIN skus /\ skus[i].id = name
  BY DEF Places
<1>4. changed \in Sku /\ changed.id = name
  BY DEF Sku, NewVersion
<1>5. product = [active |-> old.active, source |-> old.source,
                 skus |-> [j \in DOMAIN skus |-> IF skus[j].id = new.id THEN changed
                                                 ELSE skus[j]]]
  <2> DEFINE listed == [j \in DOMAIN skus |-> IF skus[j].id = new.id THEN changed
                                              ELSE skus[j]]
  <2>1. product = [old EXCEPT !.skus = listed]
    BY DEF WithSku
  <2>2. \A p, x : p = [active |-> p.active, source |-> p.source, skus |-> p.skus] =>
          [p EXCEPT !.skus = x] = [active |-> p.active, source |-> p.source, skus |-> x]
    OBVIOUS
  <2> HIDE DEF old, listed, product
  <2>3. QED BY <1>2, <2>1, <2>2 DEF listed
<1> HIDE DEF old, changed, skus, product
<1>6. [j \in DOMAIN skus |-> IF skus[j].id = new.id THEN changed ELSE skus[j]] = after
  <2>1. \A j \in DOMAIN skus : skus[j].id = new.id <=> j = i
    BY <1>2, <1>3
  <2>2. QED BY <1>2, <2>1
<1>7. after \in Seq(Sku)
  BY <1>2, <1>3, <1>4
<1>8. Sorted(after)
  <2>1. DOMAIN after = DOMAIN skus /\ \A j \in DOMAIN skus : after[j].id = skus[j].id
    BY <1>2, <1>3, <1>4
  <2> HIDE DEF after
  <2>2. QED BY <1>2, <2>1 DEF Sorted
<1>9. product = [active |-> old.active, source |-> old.source, skus |-> after]
  BY <1>5, <1>6
<1> HIDE DEF after
<1>10. product \in Stored
  BY <1>2, <1>7, <1>8, <1>9 DEF Stored
<1>11. QED BY <1>9, <1>10 DEF product, old, skus, after, changed

-----------------------------------------------------------------------------
(* The operations *)

(* One field of a record is changed. *)
With(record, field, value) == [record EXCEPT ![field] = value]

(* A new version is a change of one field.                                 *)
LEMMA VersionField ==
  ASSUME NEW record PROVE NewVersion(record) = With(record, "version", record.version + 1)
BY DEF NewVersion, With

(* A sku with one field changed.                                           *)
LEMMA ChangedSku ==
  ASSUME NEW sku, NEW v,
         sku = [id |-> sku.id, price |-> sku.price, stock |-> sku.stock,
                version |-> sku.version]
  PROVE  /\ [sku EXCEPT !.price = v] = [id |-> sku.id, price |-> v, stock |-> sku.stock,
                                        version |-> sku.version]
         /\ [sku EXCEPT !.stock = v] = [id |-> sku.id, price |-> sku.price, stock |-> v,
                                        version |-> sku.version]
         /\ [sku EXCEPT !.version = v] = [id |-> sku.id, price |-> sku.price,
                                          stock |-> sku.stock, version |-> v]
OBVIOUS

(* A row of a sku with one field changed.                                  *)
LEMMA ChangedRow ==
  ASSUME NEW row, NEW v,
         row = [id |-> row.id, product |-> row.product, price |-> row.price,
                stock |-> row.stock, version |-> row.version]
  PROVE  /\ [row EXCEPT !.price = v] = [id |-> row.id, product |-> row.product, price |-> v,
                                        stock |-> row.stock, version |-> row.version]
         /\ [row EXCEPT !.stock = v] = [id |-> row.id, product |-> row.product,
                                        price |-> row.price, stock |-> v,
                                        version |-> row.version]
         /\ [row EXCEPT !.version = v] = [id |-> row.id, product |-> row.product,
                                          price |-> row.price, stock |-> row.stock,
                                          version |-> v]
OBVIOUS

IsSku(sku) ==
  sku = [id |-> sku.id, price |-> sku.price, stock |-> sku.stock, version |-> sku.version]

(* The row of a changed sku is its row, changed. *)
LEMMA RowFollows ==
  ASSUME NEW id, NEW field \in {"price", "stock", "version"}, NEW sku, NEW v, IsSku(sku)
  PROVE  /\ IsSku(With(sku, field, v))
         /\ With(sku, field, v).id = sku.id
         /\ field # "version" => With(sku, field, v).version = sku.version
         /\ With(NewSkuRow(id, sku), field, v) = NewSkuRow(id, With(sku, field, v))
<1> DEFINE row == NewSkuRow(id, sku)
           new == [sku EXCEPT ![field] = v]
<1>1. /\ sku = [id |-> sku.id, price |-> sku.price, stock |-> sku.stock,
                version |-> sku.version]
      /\ row = [id |-> row.id, product |-> row.product, price |-> row.price,
                stock |-> row.stock, version |-> row.version]
      /\ row.id = sku.id /\ row.product = id /\ row.price = sku.price
      /\ row.stock = sku.stock /\ row.version = sku.version
  BY DEF NewSkuRow, IsSku
<1> DEFINE changed == [row EXCEPT ![field] = v]
<1> HIDE DEF row
<1> SUFFICES /\ new = [id |-> new.id, price |-> new.price, stock |-> new.stock,
                       version |-> new.version]
             /\ new.id = sku.id /\ (field # "version" => new.version = sku.version)
             /\ changed = NewSkuRow(id, new)
  BY DEF IsSku, With, row
<1>2. CASE field = "price"
  <2>1. new = [sku EXCEPT !.price = v] /\ changed = [row EXCEPT !.price = v]
    BY <1>2
  <2>2. /\ new = [id |-> sku.id, price |-> v, stock |-> sku.stock, version |-> sku.version]
        /\ changed = [id |-> row.id, product |-> row.product, price |-> v,
                      stock |-> row.stock, version |-> row.version]
    BY <1>1, <2>1, ChangedSku, ChangedRow
  <2> HIDE DEF new, changed
  <2>3. QED BY <1>1, <1>2, <2>2 DEF NewSkuRow
<1>3. CASE field = "stock"
  <2>1. new = [sku EXCEPT !.stock = v] /\ changed = [row EXCEPT !.stock = v]
    BY <1>3
  <2>2. /\ new = [id |-> sku.id, price |-> sku.price, stock |-> v, version |-> sku.version]
        /\ changed = [id |-> row.id, product |-> row.product, price |-> row.price,
                      stock |-> v, version |-> row.version]
    BY <1>1, <2>1, ChangedSku, ChangedRow
  <2> HIDE DEF new, changed
  <2>3. QED BY <1>1, <1>3, <2>2 DEF NewSkuRow
<1>4. CASE field = "version"
  <2>1. new = [sku EXCEPT !.version = v] /\ changed = [row EXCEPT !.version = v]
    BY <1>4
  <2>2. /\ new = [id |-> sku.id, price |-> sku.price, stock |-> sku.stock, version |-> v]
        /\ changed = [id |-> row.id, product |-> row.product, price |-> row.price,
                      stock |-> row.stock, version |-> v]
    BY <1>1, <2>1, ChangedSku, ChangedRow
  <2> HIDE DEF new, changed
  <2>3. QED BY <1>1, <1>4, <2>2 DEF NewSkuRow
<1>5. QED BY <1>2, <1>3, <1>4

(* A sku and its row are updated alike, with a new version of both.        *)
LEMMA UpdatedRow ==
  ASSUME NEW sku \in Sku, NEW id, NEW field \in {"price", "stock"}, NEW v \in Int
  PROVE  /\ NewVersion(With(NewSkuRow(id, sku), field, v))
              = NewSkuRow(id, NewVersion(With(sku, field, v)))
         /\ With(sku, field, v) \in Sku /\ With(sku, field, v).id = sku.id
<1>1. IsSku(sku)
  BY DEF Sku, IsSku
<1>2. /\ IsSku(With(sku, field, v)) /\ With(sku, field, v).id = sku.id
      /\ With(NewSkuRow(id, sku), field, v) = NewSkuRow(id, With(sku, field, v))
  BY <1>1, RowFollows
<1>3. With(sku, field, v) \in Sku
  BY DEF With, Sku
<1>4. NewSkuRow(id, With(sku, field, v)).version = With(sku, field, v).version
  BY DEF NewSkuRow
<1>5. QED BY <1>2, <1>3, <1>4, RowFollows, VersionField

(* The tables are what their rows of products and of skus are.             *)
LEMMA RowsRecord ==
  ASSUME NEW store
  PROVE  /\ Rows(store) = [products |-> Rows(store).products, skus |-> Rows(store).skus]
         /\ \A products, skus :
              Rows(store).products = products /\ Rows(store).skus = skus
                => Rows(store) = [products |-> products, skus |-> skus]
BY DEF Rows

(* An UPDATE of one row of skus.                                           *)
LEMMA UpdateOneSku ==
  ASSUME NEW store, NEW row, NEW field, NEW value
  PROVE  UpdateSkus(Rows(store), {row}, field, value)
           = [products |-> Rows(store).products,
              skus |-> (Rows(store).skus \ {row})
                         \cup {NewVersion(With(row, field, value[row]))}]
<1>1. \A T, x : T = [products |-> T.products, skus |-> T.skus]
        => [T EXCEPT !.skus = x] = [products |-> T.products, skus |-> x]
  OBVIOUS
<1> DEFINE new(r) == NewVersion(With(r, field, value[r]))
<1>2. UpdateSkus(Rows(store), {row}, field, value)
        = [Rows(store) EXCEPT !.skus = (Rows(store).skus \ {row}) \cup {new(r) : r \in {row}}]
  BY DEF UpdateSkus, With
<1> HIDE DEF new
<1>3. {new(r) : r \in {row}} = {new(row)}
  OBVIOUS
<1>4. UpdateSkus(Rows(store), {row}, field, value)
        = [products |-> Rows(store).products,
           skus |-> (Rows(store).skus \ {row}) \cup {new(row)}]
  BY <1>1, <1>2, <1>3, RowsRecord
<1>5. QED BY <1>4 DEF new

(* An UPDATE of one row of products.                                       *)
LEMMA UpdateOneProduct ==
  ASSUME NEW products, NEW skus, NEW row, NEW new
  PROVE  UpdateProducts([products |-> products, skus |-> skus], {row}, new)
           = [products |-> (products \ {row}) \cup {new[row]}, skus |-> skus]
BY DEF UpdateProducts

(* An update of a sku in the database is the change of the object. *)
LEMMA Rewritten ==
  ASSUME NEW store, IsStore(store), NEW id \in DOMAIN store, NEW name,
         NEW i \in Places(store[id], name), NEW field \in {"price", "stock"},
         NEW v \in Int, NEW row, row = NewSkuRow(id, store[id].skus[i]),
         NEW product, product = WithSku(store[id], With(store[id].skus[i], field, v))
  PROVE  /\ product \in Stored /\ product.active = store[id].active
         /\ Rows([store EXCEPT ![id] = product])
              = [products |-> Rows(store).products,
                 skus |-> (Rows(store).skus \ {row}) \cup {NewVersion(With(row, field, v))}]
<1> DEFINE sku == store[id].skus[i]
           new == With(sku, field, v)
           changed == NewVersion(new)
           next == [store EXCEPT ![id] = product]
<1>1. sku \in Sku /\ sku.id = name /\ i \in DOMAIN store[id].skus
  BY SkuFound
<1>2. /\ NewVersion(With(row, field, v)) = NewSkuRow(id, changed)
      /\ new \in Sku /\ new.id = name
  <2>1. row = NewSkuRow(id, sku)
    OBVIOUS
  <2> HIDE DEF sku
  <2>2. QED BY <1>1, <2>1, UpdatedRow
<1>3. /\ product \in Stored
      /\ product.active = store[id].active /\ product.source = store[id].source
      /\ product.skus = [store[id].skus EXCEPT ![i] = changed]
  <2>1. product = WithSku(store[id], new)
    OBVIOUS
  <2> HIDE DEF new
  <2>2. QED BY <1>2, <2>1, SkuChanges
<1> HIDE DEF changed, new
<1>4. Rows(next).skus = (Rows(store).skus \ {row}) \cup {NewSkuRow(id, changed)}
  BY <1>1, <1>3, OneSku
<1>5. Rows(next).products = Rows(store).products
  <2>1. NewProductRow(id, product) = NewProductRow(id, store[id])
    BY <1>3 DEF NewProductRow
  <2>2. NewProductRow(id, store[id]) \in Rows(store).products
    BY DEF Rows
  <2>3. Rows(next).products = (Rows(store).products \ {NewProductRow(id, store[id])})
                                \cup {NewProductRow(id, product)}
    BY <1>3, PutProducts
  <2>4. QED BY <2>1, <2>2, <2>3
<1> HIDE DEF next
<1>6. Rows(next) = [products |-> Rows(store).products,
                    skus |-> (Rows(store).skus \ {row}) \cup {NewSkuRow(id, changed)}]
  BY <1>4, <1>5, RowsRecord
<1>7. QED BY <1>2, <1>3, <1>6 DEF next

(* What two answers have in common, but for the reason of a refusal. *)
Same(mem, sql) ==
  sql.product = mem.product /\ sql.store = Rows(mem.store) /\ IsStore(mem.store)
Alike(mem, sql) == sql.error = mem.error /\ Same(mem, sql)

(* What both refuse, for reasons of their own or for the same one.         *)
LEMMA RefusedAlike ==
  ASSUME NEW store, IsStore(store), NEW error, NEW other
  PROVE  /\ Same(Refuse(store, error), Refuse(Rows(store), other))
         /\ Alike(Refuse(store, error), Refuse(Rows(store), error))
BY DEF Alike, Same, Refuse, Answer

(* The reasons for which memory and database refuse a call that restores   *)
(* stock or sets a field.                                                  *)
MemReason(store, call) == IF MemMissing(store, call) THEN MemMisses(store, call) ELSE "negative"
SqlReason(call) == IF Negative(call) THEN "negative" ELSE "no_sku"

LEMMA ReasonsAreTrue ==
  ASSUME NEW store, NEW call, call.op \in {"restore", "price", "stock"}
  PROVE  /\ MemMissing(store, call) \/ Negative(call) =>
              ReasonsAgree(store, call, MemReason(store, call), SqlReason(call))
         /\ ~(MemMissing(store, call) \/ Negative(call)) =>
              ReasonsAgree(store, call, "none", "none")
<1>1. /\ "no_product" \in Wrong(store, call) <=> call.product \notin DOMAIN store
      /\ "no_sku" \in Wrong(store, call) <=> MemMissing(store, call)
      /\ "negative" \in Wrong(store, call) <=> Negative(call)
      /\ Wrong(store, call) \subseteq {"no_product", "no_sku", "negative"}
  BY DEF Wrong
<1>2. call.product \notin DOMAIN store => MemMissing(store, call)
  BY DEF MemMissing
<1>3. CASE MemMissing(store, call)
  <2>1. /\ MemReason(store, call) \in Wrong(store, call)
        /\ MemReason(store, call) # "negative"
    BY <1>1, <1>3 DEF MemReason, MemMisses
  <2>2. /\ SqlReason(call) \in Wrong(store, call)
        /\ "negative" \in Wrong(store, call) => SqlReason(call) = "negative"
    BY <1>1, <1>3 DEF SqlReason
  <2>3. QED BY <1>3, <2>1, <2>2 DEF ReasonsAgree
<1>4. CASE ~MemMissing(store, call) /\ Negative(call)
  <2>1. Wrong(store, call) = {"negative"}
    BY <1>1, <1>2, <1>4
  <2>2. MemReason(store, call) = "negative" /\ SqlReason(call) = "negative"
    BY <1>4 DEF MemReason, SqlReason
  <2>3. QED BY <1>4, <2>1, <2>2 DEF ReasonsAgree
<1>5. CASE ~MemMissing(store, call) /\ ~Negative(call)
  <2>1. Wrong(store, call) = {}
    BY <1>1, <1>2, <1>5
  <2>2. QED BY <1>5, <2>1 DEF ReasonsAgree
<1>6. QED BY <1>3, <1>4, <1>5

(* What memory puts in place and the database writes, once the rows agree. *)
LEMMA PutAlike ==
  ASSUME NEW store, IsStore(store), NEW id \in DOMAIN store, NEW product \in Stored, NEW after,
         Rows([store EXCEPT ![id] = product]) = after
  PROVE  /\ Alike(MemPut(store, id, product), Answer(after, "none", Load(after, id)))
         /\ Alike(Answer([store EXCEPT ![id] = product], "none", Nothing),
                  Answer(after, "none", Nothing))
<1> DEFINE next == [store EXCEPT ![id] = product]
<1>1. IsStore(next) /\ id \in DOMAIN next /\ next[id] = product
  BY PutStored
<1>2. MemPut(store, id, product) = Answer(next, "none", product)
  BY DEF MemPut
<1> HIDE DEF next
<1>3. Load(after, id) = product
  BY <1>1, LoadsBack DEF next
<1>4. Rows(next) = after
  BY DEF next
<1>5. QED BY <1>1, <1>2, <1>3, <1>4 DEF Alike, Same, Answer, next


(* reserve_stock: both check in the same order, the database by the        *)
(* condition of its UPDATE.                                                *)
LEMMA ReserveAlike ==
  ASSUME NEW store, IsStore(store), NEW call, call.quantity \in Int
  PROVE  Alike(MemReserve(store, call), SqlReserve(Rows(store), call))
<1> DEFINE id == call.product
           T == Rows(store)
           skus == SkuRow(T, call.sku, id)
           fits == {r \in skus : r.stock >= call.quantity
                                 /\ (call.version = NoVersion \/ r.version = call.version)}
           value == [r \in fits |-> r.stock - call.quantity]
           after == UpdateSkus(T, fits, "stock", value)
<1>1. SqlReserve(T, call) =
        IF call.quantity <= 0 THEN Refuse(T, "quantity")
        ELSE IF ProductRow(T, id) = {} THEN Refuse(T, "no_product")
        ELSE IF \E row \in ProductRow(T, id) : ~row.active THEN Refuse(T, "off_shelf")
        ELSE IF skus = {} THEN Refuse(T, "no_sku")
        ELSE IF call.version # NoVersion /\ \E r \in skus : r.version # call.version
          THEN Refuse(T, "changed")
        ELSE IF fits = {} THEN Refuse(T, "short")
        ELSE Answer(after, "none", Load(after, id))
  BY DEF SqlReserve
<1>2. /\ id \in DOMAIN store => ProductRow(T, id) = {NewProductRow(id, store[id])}
      /\ id \notin DOMAIN store => ProductRow(T, id) = {}
  BY ProductRows
<1>3. \A k, p : NewProductRow(k, p).active = p.active
  BY DEF NewProductRow
<1>4. MemMissing(store, call) <=> skus = {}
  BY SkuMissing
<1>5. \A error : Alike(Refuse(store, error), Refuse(T, error))
  BY RefusedAlike
<1> HIDE DEF T, skus, fits, value, after
<1>6. CASE call.quantity <= 0 \/ id \notin DOMAIN store
  BY <1>1, <1>2, <1>5, <1>6 DEF MemReserve, T
<1>7. CASE call.quantity > 0 /\ id \in DOMAIN store /\ ~store[id].active
  <2>1. ProductRow(T, id) # {} /\ \E row \in ProductRow(T, id) : ~row.active
    BY <1>2, <1>3, <1>7
  <2>2. QED BY <1>1, <1>5, <1>7, <2>1 DEF MemReserve, T
<1>8. CASE call.quantity > 0 /\ id \in DOMAIN store /\ store[id].active
  <2>1. ProductRow(T, id) # {} /\ ~\E row \in ProductRow(T, id) : ~row.active
    BY <1>2, <1>3, <1>8
  <2>2. CASE MemMissing(store, call)
    BY <1>1, <1>4, <1>5, <1>8, <2>1, <2>2 DEF MemReserve, T
  <2>3. CASE ~MemMissing(store, call)
    <3>1. PICK i \in Places(store[id], call.sku) : TRUE
      BY <2>3 DEF MemMissing
    <3> DEFINE sku == store[id].skus[i]
               row == NewSkuRow(id, sku)
               left == sku.stock - call.quantity
    <3>2. FindSku(store[id], call.sku) = sku /\ skus = {row} /\ sku \in Sku
      BY <1>8, SkuFound DEF skus, T
    <3>3. row.stock = sku.stock /\ row.version = sku.version
      BY DEF NewSkuRow
    <3>4. sku.stock \in Int /\ left \in Int
      BY <3>2 DEF Sku
    <3> DEFINE late == call.version # NoVersion /\ sku.version # call.version
    <3> HIDE DEF sku, row
    <3>5. MemReserve(store, call) =
            IF late THEN Refuse(store, "changed")
            ELSE IF sku.stock < call.quantity THEN Refuse(store, "short")
            ELSE MemPut(store, id, WithSku(store[id], [sku EXCEPT !.stock = @ - call.quantity]))
      BY <1>8, <2>3, <3>2 DEF MemReserve
    <3>6. SqlReserve(T, call) =
            IF late THEN Refuse(T, "changed")
            ELSE IF fits = {} THEN Refuse(T, "short")
            ELSE Answer(after, "none", Load(after, id))
      BY <1>1, <1>8, <2>1, <3>2, <3>3
    <3>7. CASE late
      BY <1>5, <3>5, <3>6, <3>7 DEF T
    <3>8. CASE ~late /\ sku.stock < call.quantity
      <4>1. fits = {}
        BY <3>2, <3>3, <3>4, <3>8 DEF fits
      <4> HIDE DEF late
      <4>2. QED BY <1>5, <3>5, <3>6, <3>8, <4>1 DEF T
    <3>9. CASE ~late /\ ~(sku.stock < call.quantity)
      <4>1. fits = {row}
        BY <3>2, <3>3, <3>4, <3>9 DEF fits
      <4>2. value[row] = left
        BY <3>3, <4>1 DEF value
      <4>3. [sku EXCEPT !.stock = @ - call.quantity] = With(sku, "stock", left)
        BY DEF With
      <4> DEFINE product == WithSku(store[id], With(sku, "stock", left))
      <4> HIDE DEF left, late
      <4>4. product \in Stored /\ Rows([store EXCEPT ![id] = product]) = after
        <5>1. "stock" \in {"price", "stock"}
          OBVIOUS
        <5>2. row = NewSkuRow(id, store[id].skus[i])
          BY DEF row, sku
        <5>3. product = WithSku(store[id], With(store[id].skus[i], "stock", left))
          BY DEF sku
        <5> HIDE DEF product
        <5>4. /\ product \in Stored
              /\ Rows([store EXCEPT ![id] = product])
                   = [products |-> T.products,
                      skus |-> (T.skus \ {row}) \cup {NewVersion(With(row, "stock", left))}]
          BY <1>8, <3>4, <5>1, <5>2, <5>3, Rewritten DEF T
        <5>5. after = [products |-> T.products,
                       skus |-> (T.skus \ {row}) \cup {NewVersion(With(row, "stock", left))}]
          BY <4>1, <4>2, UpdateOneSku DEF T, after
        <5>6. QED BY <5>4, <5>5
      <4>5. Alike(MemPut(store, id, product), Answer(after, "none", Load(after, id)))
        <5> HIDE DEF product
        <5>1. QED BY <1>8, <4>4, PutAlike
      <4>6. QED BY <3>5, <3>6, <3>9, <4>1, <4>3, <4>5 DEF T
    <3>10. QED BY <3>7, <3>8, <3>9
  <2>4. QED BY <2>2, <2>3
<1>9. QED BY <1>6, <1>7, <1>8

(* restore_stock                                                           *)
LEMMA RestoreAlike ==
  ASSUME NEW store, IsStore(store), NEW call, call.quantity \in Int, call.op = "restore"
  PROVE  LET mem == MemRestore(store, call)  sql == SqlRestore(Rows(store), call) IN
         Same(mem, sql) /\ ReasonsAgree(store, call, mem.error, sql.error)
<1> DEFINE id == call.product
           T == Rows(store)
           skus == SkuRow(T, call.sku, id)
           value == [r \in skus |-> r.stock + call.quantity]
<1>1. SqlRestore(T, call) =
        IF Negative(call) THEN Refuse(T, "negative")
        ELSE IF skus = {} THEN Refuse(T, "no_sku")
        ELSE Answer(UpdateSkus(T, skus, "stock", value), "none", Nothing)
  BY DEF SqlRestore
<1>2. MemMissing(store, call) <=> skus = {}
  BY SkuMissing
<1>3. /\ Same(Refuse(store, MemReason(store, call)), Refuse(T, SqlReason(call)))
      /\ Refuse(store, MemReason(store, call)).error = MemReason(store, call)
      /\ Refuse(T, SqlReason(call)).error = SqlReason(call)
  BY RefusedAlike DEF Refuse, Answer
<1> HIDE DEF T, skus, value
<1>4. CASE MemMissing(store, call) \/ Negative(call)
  <2>1. /\ MemRestore(store, call) = Refuse(store, MemReason(store, call))
        /\ SqlRestore(T, call) = Refuse(T, SqlReason(call))
    BY <1>1, <1>2, <1>4 DEF MemRestore, MemReason, SqlReason
  <2>2. ReasonsAgree(store, call, MemReason(store, call), SqlReason(call))
    BY <1>4, ReasonsAreTrue
  <2>3. QED BY <1>3, <2>1, <2>2 DEF T
<1>5. CASE ~(MemMissing(store, call) \/ Negative(call))
  <2>1. id \in DOMAIN store /\ Places(store[id], call.sku) # {}
    BY <1>5 DEF MemMissing
  <2>2. PICK i \in Places(store[id], call.sku) : TRUE
    BY <2>1
  <2> DEFINE sku == store[id].skus[i]
             row == NewSkuRow(id, sku)
             more == sku.stock + call.quantity
  <2>3. FindSku(store[id], call.sku) = sku /\ skus = {row} /\ sku \in Sku
    BY <2>1, SkuFound DEF skus, T
  <2>4. row.stock = sku.stock
    BY DEF NewSkuRow
  <2>5. more \in Int
    BY <2>3 DEF Sku
  <2> HIDE DEF sku, row
  <2>6. value[row] = more
    BY <2>3, <2>4 DEF value
  <2>7. [sku EXCEPT !.stock = @ + call.quantity] = With(sku, "stock", more)
    BY DEF With
  <2> DEFINE product == WithSku(store[id], With(sku, "stock", more))
             after == UpdateSkus(T, skus, "stock", value)
  <2>8. MemRestore(store, call) = Answer([store EXCEPT ![id] = product], "none", Nothing)
    BY <1>5, <2>3, <2>7 DEF MemRestore
  <2> HIDE DEF more
  <2>9. product \in Stored /\ Rows([store EXCEPT ![id] = product]) = after
    <3>1. "stock" \in {"price", "stock"}
      OBVIOUS
    <3>2. row = NewSkuRow(id, store[id].skus[i])
      BY DEF row, sku
    <3>3. product = WithSku(store[id], With(store[id].skus[i], "stock", more))
      BY DEF sku
    <3> HIDE DEF product
    <3>4. /\ product \in Stored
          /\ Rows([store EXCEPT ![id] = product])
               = [products |-> T.products,
                  skus |-> (T.skus \ {row}) \cup {NewVersion(With(row, "stock", more))}]
      BY <2>1, <2>5, <3>1, <3>2, <3>3, Rewritten DEF T
    <3>5. after = [products |-> T.products,
                   skus |-> (T.skus \ {row}) \cup {NewVersion(With(row, "stock", more))}]
      BY <2>3, <2>6, UpdateOneSku DEF T
    <3>6. QED BY <3>4, <3>5
  <2> HIDE DEF product, after
  <2>10. Alike(Answer([store EXCEPT ![id] = product], "none", Nothing),
               Answer(after, "none", Nothing))
    BY <2>1, <2>9, PutAlike
  <2>11. SqlRestore(T, call) = Answer(after, "none", Nothing)
    BY <1>1, <1>2, <1>5 DEF after
  <2>12. ReasonsAgree(store, call, "none", "none")
    BY <1>5, ReasonsAreTrue
  <2>13. QED BY <2>8, <2>10, <2>11, <2>12 DEF T, Alike, Answer
<1>6. QED BY <1>4, <1>5

(* What makes a product one of a store.                                    *)
LEMMA StoredRecord ==
  ASSUME NEW active \in BOOLEAN, NEW source \in Source, NEW skus \in Seq(Sku), Sorted(skus)
  PROVE  [active |-> active, source |-> source, skus |-> skus] \in Stored
BY DEF Stored

(* update_sku_price and update_sku_stock: the sku, and then the source of  *)
(* the product.                                                            *)
LEMMA UpdateAlike ==
  ASSUME NEW store, IsStore(store), NEW call, NEW field \in {"price", "stock"},
         call.value \in Int, call.op \in {"price", "stock"}
  PROVE  LET mem == MemUpdate(store, call, field)  sql == SqlUpdate(Rows(store), call, field) IN
         Same(mem, sql) /\ ReasonsAgree(store, call, mem.error, sql.error)
<1> DEFINE id == call.product
           T == Rows(store)
           skus == SkuRow(T, call.sku, id)
           products == ProductRow(T, id)
           value == [r \in skus |-> call.value]
           demo == [r \in products |-> [r EXCEPT !.source = "demo_scenario"]]
           after == UpdateProducts(UpdateSkus(T, skus, field, value), products, demo)
<1>1. SqlUpdate(T, call, field) =
        IF Negative(call) THEN Refuse(T, "negative")
        ELSE IF skus = {} THEN Refuse(T, "no_sku")
        ELSE Answer(after, "none", Load(after, id))
  BY DEF SqlUpdate
<1>2. MemMissing(store, call) <=> skus = {}
  BY SkuMissing
<1>3. /\ Same(Refuse(store, MemReason(store, call)), Refuse(T, SqlReason(call)))
      /\ Refuse(store, MemReason(store, call)).error = MemReason(store, call)
      /\ Refuse(T, SqlReason(call)).error = SqlReason(call)
  BY RefusedAlike DEF Refuse, Answer
<1> HIDE DEF T, skus, value, demo, after
<1>4. CASE MemMissing(store, call) \/ Negative(call)
  <2>1. /\ MemUpdate(store, call, field) = Refuse(store, MemReason(store, call))
        /\ SqlUpdate(T, call, field) = Refuse(T, SqlReason(call))
    BY <1>1, <1>2, <1>4 DEF MemUpdate, MemReason, SqlReason
  <2>2. ReasonsAgree(store, call, MemReason(store, call), SqlReason(call))
    BY <1>4, ReasonsAreTrue
  <2>3. QED BY <1>3, <2>1, <2>2 DEF T
<1>5. CASE ~(MemMissing(store, call) \/ Negative(call))
  <2>1. id \in DOMAIN store /\ Places(store[id], call.sku) # {}
    BY <1>5 DEF MemMissing
  <2>2. PICK i \in Places(store[id], call.sku) : TRUE
    BY <2>1
  <2> DEFINE sku == store[id].skus[i]
             row == NewSkuRow(id, sku)
             new == With(sku, field, call.value)
             rewritten == WithSku(store[id], new)
             product == [rewritten EXCEPT !.source = "demo_scenario"]
             place == NewProductRow(id, store[id])
  <2>3. FindSku(store[id], call.sku) = sku /\ skus = {row} /\ sku \in Sku
    BY <2>1, SkuFound DEF skus, T
  <2>4. products = {place}
    BY <2>1, ProductRows DEF T
  <2> HIDE DEF products
  <2>5. MemUpdate(store, call, field) = MemPut(store, id, product)
    <3> HIDE DEF sku
    <3>1. QED BY <1>5, <2>3 DEF MemUpdate, With
  <2>6. /\ rewritten \in Stored
        /\ rewritten.active = store[id].active
        /\ Rows([store EXCEPT ![id] = rewritten])
             = [products |-> T.products,
                skus |-> (T.skus \ {row}) \cup {NewVersion(With(row, field, call.value))}]
    <3>1. /\ row = NewSkuRow(id, store[id].skus[i])
          /\ rewritten = WithSku(store[id], With(store[id].skus[i], field, call.value))
      OBVIOUS
    <3> HIDE DEF row, rewritten
    <3>2. QED BY <2>1, <3>1, Rewritten DEF T
  <2> HIDE DEF sku, row, new, rewritten
  <2>7. /\ product \in Stored /\ product.skus = rewritten.skus
        /\ product.active = store[id].active /\ product.source = "demo_scenario"
    <3>1. rewritten = [active |-> rewritten.active, source |-> rewritten.source,
                       skus |-> rewritten.skus]
          /\ rewritten.active \in BOOLEAN /\ rewritten.skus \in Seq(Sku)
          /\ Sorted(rewritten.skus)
      BY <2>6, StoredProduct
    <3>2. product = [active |-> rewritten.active, source |-> "demo_scenario",
                     skus |-> rewritten.skus]
      <4>1. \A p, v : p = [active |-> p.active, source |-> p.source, skus |-> p.skus] =>
              [p EXCEPT !.source = v] = [active |-> p.active, source |-> v, skus |-> p.skus]
        OBVIOUS
      <4>2. QED BY <3>1, <4>1
    <3> HIDE DEF product
    <3>3. "demo_scenario" \in Source
      BY DEF Source
    <3>4. product \in Stored
      BY <3>1, <3>2, <3>3, StoredRecord
    <3>5. QED BY <2>6, <3>2, <3>4
  <2>8. demo[place] = NewProductRow(id, product)
    <3>1. demo[place] = [place EXCEPT !.source = "demo_scenario"]
      BY <2>4 DEF demo
    <3> HIDE DEF product
    <3>2. QED BY <2>7, <3>1 DEF NewProductRow
  <2> HIDE DEF product, place
  <2>9. after = [products |-> (T.products \ {place}) \cup {NewProductRow(id, product)},
                 skus |-> (T.skus \ {row}) \cup {NewVersion(With(row, field, call.value))}]
    <3>1. value[row] = call.value
      BY <2>3 DEF value
    <3>2. UpdateSkus(T, skus, field, value)
            = [products |-> T.products,
               skus |-> (T.skus \ {row}) \cup {NewVersion(With(row, field, call.value))}]
      BY <2>3, <3>1, UpdateOneSku DEF T
    <3>3. QED BY <2>4, <2>8, <3>2, UpdateOneProduct DEF after
  <2> DEFINE next == [store EXCEPT ![id] = rewritten]
             last == [store EXCEPT ![id] = product]
  <2>10. last = [next EXCEPT ![id] = product] /\ IsStore(next) /\ next[id] = rewritten
         /\ id \in DOMAIN next
    <3>1. last = [next EXCEPT ![id] = product]
      OBVIOUS
    <3>2. QED BY <2>1, <2>6, <3>1, PutStored
  <2>11. Rows(last).skus = Rows(next).skus
    <3> HIDE DEF next, last
    <3>1. QED BY <2>7, <2>10, SameSkus
  <2>12. Rows(last).products = (T.products \ {place}) \cup {NewProductRow(id, product)}
    BY <2>1, <2>7, PutProducts DEF T, place
  <2>13. Rows(last) = after
    <3> HIDE DEF last
    <3>1. Rows(next).skus
            = (T.skus \ {row}) \cup {NewVersion(With(row, field, call.value))}
      BY <2>6
    <3> HIDE DEF next
    <3>2. QED BY <2>9, <2>11, <2>12, <3>1, RowsRecord
  <2>14. Alike(MemPut(store, id, product), Answer(after, "none", Load(after, id)))
    BY <2>1, <2>7, <2>13, PutAlike
  <2>15. SqlUpdate(T, call, field) = Answer(after, "none", Load(after, id))
    BY <1>1, <1>2, <1>5
  <2>16. ReasonsAgree(store, call, "none", "none")
    BY <1>5, ReasonsAreTrue
  <2>17. QED BY <2>5, <2>14, <2>15, <2>16 DEF T, Alike, MemPut, Answer
<1>6. QED BY <1>4, <1>5

(* update_status                                                           *)
LEMMA StatusAlike ==
  ASSUME NEW store, IsStore(store), NEW call, call.value \in BOOLEAN
  PROVE  Alike(MemStatus(store, call), SqlStatus(Rows(store), call))
<1> DEFINE id == call.product
           T == Rows(store)
           products == ProductRow(T, id)
           demo == [r \in products |->
                      [r EXCEPT !.active = call.value, !.source = "demo_scenario"]]
           after == UpdateProducts(T, products, demo)
<1>1. SqlStatus(T, call) =
        IF products = {} THEN Refuse(T, "no_product")
        ELSE Answer(after, "none", Load(after, id))
  BY DEF SqlStatus
<1>2. /\ id \in DOMAIN store => products = {NewProductRow(id, store[id])}
      /\ id \notin DOMAIN store => products = {}
  BY ProductRows
<1>3. Alike(Refuse(store, "no_product"), Refuse(T, "no_product"))
  BY RefusedAlike
<1> HIDE DEF T, products, demo, after
<1>4. CASE id \notin DOMAIN store
  BY <1>1, <1>2, <1>3, <1>4 DEF MemStatus, T
<1>5. CASE id \in DOMAIN store
  <2> DEFINE old == store[id]
             product == [old EXCEPT !.active = call.value, !.source = "demo_scenario"]
             place == NewProductRow(id, old)
  <2>1. MemStatus(store, call) = MemPut(store, id, product)
    BY <1>5 DEF MemStatus
  <2>2. old \in Stored
    BY <1>5 DEF IsStore
  <2>3. /\ old = [active |-> old.active, source |-> old.source, skus |-> old.skus]
        /\ old.skus \in Seq(Sku) /\ Sorted(old.skus)
    BY <2>2, StoredProduct
  <2> HIDE DEF old
  <2>4. product = [active |-> call.value, source |-> "demo_scenario", skus |-> old.skus]
    <3> DEFINE one == [old EXCEPT !.active = call.value]
    <3>1. \A p, v : p = [active |-> p.active, source |-> p.source, skus |-> p.skus] =>
            /\ [p EXCEPT !.active = v] = [active |-> v, source |-> p.source, skus |-> p.skus]
            /\ [p EXCEPT !.source = v] = [active |-> p.active, source |-> v, skus |-> p.skus]
      OBVIOUS
    <3>2. one = [active |-> call.value, source |-> old.source, skus |-> old.skus]
      BY <2>3, <3>1
    <3>3. product = [one EXCEPT !.source = "demo_scenario"]
      OBVIOUS
    <3> HIDE DEF one, product
    <3>4. QED BY <3>1, <3>2, <3>3
  <2>5. /\ product.active = call.value /\ product.source = "demo_scenario"
        /\ product.skus = old.skus /\ product \in Stored
    <3> HIDE DEF product
    <3>1. "demo_scenario" \in Source
      BY DEF Source
    <3>2. product \in Stored
      BY <2>3, <2>4, <3>1, StoredRecord
    <3>3. QED BY <2>4, <3>2
  <2>6. demo[place] = NewProductRow(id, product)
    <3> DEFINE one == [place EXCEPT !.active = call.value]
    <3>1. \A r, v : r = [id |-> r.id, active |-> r.active, source |-> r.source] =>
            /\ [r EXCEPT !.active = v] = [id |-> r.id, active |-> v, source |-> r.source]
            /\ [r EXCEPT !.source = v] = [id |-> r.id, active |-> r.active, source |-> v]
      OBVIOUS
    <3>2. place = [id |-> place.id, active |-> place.active, source |-> place.source]
          /\ place.id = id
      BY DEF NewProductRow
    <3>3. demo[place] = [place EXCEPT !.active = call.value, !.source = "demo_scenario"]
      BY <1>2, <1>5 DEF demo, old
    <3> HIDE DEF place
    <3>4. one = [id |-> id, active |-> call.value, source |-> place.source]
      BY <3>1, <3>2
    <3>5. demo[place] = [one EXCEPT !.source = "demo_scenario"]
      BY <3>3
    <3> HIDE DEF one, product
    <3>6. demo[place] = [id |-> id, active |-> call.value, source |-> "demo_scenario"]
      BY <3>1, <3>4, <3>5
    <3>7. QED BY <2>5, <3>6 DEF NewProductRow
  <2> HIDE DEF product, place
  <2>7. after = [products |-> (T.products \ {place}) \cup {NewProductRow(id, product)},
                 skus |-> T.skus]
    <3>1. products = {place} /\ T = [products |-> T.products, skus |-> T.skus]
      BY <1>2, <1>5, RowsRecord DEF place, old, T
    <3>2. QED BY <2>6, <3>1, UpdateOneProduct DEF after
  <2> DEFINE last == [store EXCEPT ![id] = product]
  <2>8. Rows(last).skus = T.skus
    BY <1>5, <2>5, SameSkus DEF T, old
  <2>9. Rows(last).products = (T.products \ {place}) \cup {NewProductRow(id, product)}
    BY <1>5, <2>5, PutProducts DEF T, place, old
  <2>10. Rows(last) = after
    <3> HIDE DEF last
    <3>1. QED BY <2>7, <2>8, <2>9, RowsRecord
  <2>11. Alike(MemPut(store, id, product), Answer(after, "none", Load(after, id)))
    BY <1>5, <2>5, <2>10, PutAlike
  <2>12. QED BY <1>1, <1>2, <1>5, <2>1, <2>11 DEF T
<1>6. QED BY <1>4, <1>5

(* seed_if_empty and the replacement of all products.                      *)
LEMMA FilledAlike ==
  ASSUME NEW store, IsStore(store), NEW call, IsStore(call.value)
  PROVE  /\ Alike(MemSeed(store, call.value), SqlSeed(Rows(store), call.value))
         /\ Alike(Answer(call.value, "none", Nothing),
                  Answer(Rows(call.value), "none", Nothing))
<1>1. Rows(store).products = {} <=> DOMAIN store = {}
  BY DEF Rows
<1>2. Alike(Answer(call.value, "none", Nothing), Answer(Rows(call.value), "none", Nothing))
  BY DEF Alike, Same, Answer
<1>3. Alike(Refuse(store, "not_empty"), Refuse(Rows(store), "not_empty"))
  BY RefusedAlike
<1>4. QED BY <1>1, <1>2, <1>3 DEF MemSeed, SqlSeed

(* A call of the memory and the same call of the database. *)
LEMMA StoresAlike ==
  ASSUME NEW store, IsStore(store), NEW call, IsCall(call), NEW ids
  PROVE  SameStep(store, call, ids)
<1> DEFINE mem == MemCall(store, call)
           sql == SqlCall(Rows(store), call)
           Both == Same(mem, sql) /\ ReasonsAgree(store, call, mem.error, sql.error)
<1>1. ASSUME Alike(mem, sql), call.op \notin {"restore", "price", "stock"}
      PROVE  Both
  BY <1>1 DEF Alike, ReasonsAgree
<1>2. Both
  <2>1. CASE call.op = "reserve" /\ call.quantity \in Int
    BY <1>1, <2>1, ReserveAlike DEF MemCall, SqlCall
  <2>2. CASE call.op = "restore" /\ call.quantity \in Int
    BY <2>2, RestoreAlike DEF MemCall, SqlCall
  <2>3. CASE call.op \in {"price", "stock"} /\ call.value \in Int
    <3>1. mem = MemUpdate(store, call, call.op) /\ sql = SqlUpdate(Rows(store), call, call.op)
      BY <2>3 DEF MemCall, SqlCall
    <3>2. QED BY <2>3, <3>1, UpdateAlike
  <2>4. CASE call.op = "status" /\ call.value \in BOOLEAN
    BY <1>1, <2>4, StatusAlike DEF MemCall, SqlCall
  <2>5. CASE call.op = "seed" /\ IsStore(call.value)
    BY <1>1, <2>5, FilledAlike DEF MemCall, SqlCall
  <2>6. CASE call.op = "replace" /\ IsStore(call.value)
    BY <1>1, <2>6, FilledAlike DEF MemCall, SqlCall
  <2>7. QED BY <2>1, <2>2, <2>3, <2>4, <2>5, <2>6 DEF IsCall
<1>3. SameStep(store, call, ids) <=>
        /\ ReasonsAgree(store, call, mem.error, sql.error)
        /\ sql.product = mem.product
        /\ sql.store = Rows(mem.store)
        /\ SqlFindByIds(sql.store, ids) = MemFindByIds(mem.store, ids)
  BY DEF SameStep
<1> HIDE DEF mem, sql
<1>4. QED BY <1>2, <1>3, FindsBack DEF Same

-----------------------------------------------------------------------------
(* Listings *)

(* What a set put in order is. *)
Lists(list, set, order) ==
  LET n == Cardinality(set) IN
  /\ n \in Nat /\ list \in [1..n -> set]
  /\ \A x \in set : \E i \in 1..n : list[i] = x
  /\ \A i, j \in 1..n : i < j => <<list[i], list[j]>> \in order

(* A set put in order is listed once, each member after those before it.   *)
LEMMA InOrderLists ==
  ASSUME NEW S, IsFiniteSet(S), NEW R, StrictOrder(S, R)
  PROVE  Lists(InOrder(S, R), S, R)
<1> DEFINE n == Cardinality(S)
           before(x) == {y \in S : <<y, x>> \in R}
           ahead == [x \in S |-> Ahead(x, S, R)]
           list == InOrder(S, R)
<1>1. n \in Nat
  BY FS_CardinalityType
<1>2. ASSUME NEW x \in S
      PROVE  IsFiniteSet(before(x)) /\ ahead[x] = Cardinality(before(x)) /\ ahead[x] \in 0..(n - 1)
  <2>1. before(x) \in SUBSET S /\ before(x) # S
    BY DEF StrictOrder
  <2>2. IsFiniteSet(before(x)) /\ Cardinality(before(x)) <= n /\ Cardinality(before(x)) # n
    BY <2>1, FS_Subset
  <2>3. Cardinality(before(x)) \in Nat
    BY <2>2, FS_CardinalityType
  <2>4. ahead[x] = Cardinality(before(x))
    BY DEF Ahead
  <2> HIDE DEF before, ahead, n
  <2>5. QED BY <1>1, <2>2, <2>3, <2>4
<1>3. ASSUME NEW x \in S, NEW y \in S, <<x, y>> \in R PROVE ahead[x] < ahead[y]
  <2>1. before(x) \in SUBSET before(y) /\ x \in before(y) /\ x \notin before(x)
    BY <1>3 DEF StrictOrder
  <2>2. IsFiniteSet(before(y)) /\ before(x) # before(y)
    BY <1>2, <2>1
  <2> HIDE DEF before
  <2>3. Cardinality(before(x)) <= Cardinality(before(y))
        /\ Cardinality(before(x)) # Cardinality(before(y))
    BY <2>1, <2>2, FS_Subset
  <2>4. /\ ahead[x] = Cardinality(before(x)) /\ ahead[x] \in 0..(n - 1)
        /\ ahead[y] = Cardinality(before(y)) /\ ahead[y] \in 0..(n - 1)
    BY <1>2
  <2> HIDE DEF ahead, n
  <2>5. QED BY <1>1, <2>3, <2>4
<1> HIDE DEF before
<1>4. ASSUME NEW i \in 1..n PROVE \E x \in S : ahead[x] = i - 1
  <2>1. DOMAIN ahead = S /\ ahead \in [S -> 0..(n - 1)]
    BY <1>2
  <2> HIDE DEF ahead
  <2>2. \A x, y \in S : ahead[x] = ahead[y] => x = y
    <3> SUFFICES ASSUME NEW x \in S, NEW y \in S, ahead[x] = ahead[y], x # y PROVE FALSE
      OBVIOUS
    <3>1. ahead[x] < ahead[y] \/ ahead[y] < ahead[x]
      BY <1>3 DEF StrictOrder
    <3>2. ahead[x] \in Int /\ ahead[y] \in Int
      BY <2>1
    <3>3. QED BY <3>1, <3>2
  <2>3. ahead \in Injection(S, 0..(n - 1))
    BY <2>1, <2>2 DEF Injection, IsInjective
  <2>4. IsFiniteSet(0..(n - 1)) /\ Cardinality(0..(n - 1)) = n
    <3>1. 0 \in Int /\ n - 1 \in Int /\ (IF 0 > n - 1 THEN 0 ELSE (n - 1) - 0 + 1) = n
      BY <1>1
    <3> HIDE DEF n
    <3>2. QED BY <3>1, FS_Interval
  <2>5. ahead \in Surjection(S, 0..(n - 1))
    BY <2>3, <2>4, FS_Injection
  <2>6. i - 1 \in 0..(n - 1)
    BY <1>1
  <2>7. QED BY <2>5, <2>6 DEF Surjection
<1>5. \A i \in 1..n : list[i] \in S /\ ahead[list[i]] = i - 1
  <2> SUFFICES ASSUME NEW i \in 1..n PROVE list[i] \in S /\ ahead[list[i]] = i - 1
    OBVIOUS
  <2>1. list[i] = CHOOSE x \in S : Ahead(x, S, R) = i - 1
    BY DEF InOrder
  <2>2. \E x \in S : Ahead(x, S, R) = i - 1
    BY <1>4
  <2> HIDE DEF list
  <2>3. list[i] \in S /\ Ahead(list[i], S, R) = i - 1
    BY <2>1, <2>2
  <2>4. QED BY <2>3
<1>6. list \in [1..n -> S]
  <2>1. list = [i \in 1..n |-> list[i]]
    BY DEF InOrder
  <2>2. QED BY <1>5, <2>1
<1> HIDE DEF list
<1>7. ASSUME NEW x \in S PROVE \E i \in 1..n : list[i] = x
  <2>1. ahead[x] \in 0..(n - 1)
    BY <1>2
  <2> HIDE DEF ahead
  <2>2. ahead[x] + 1 \in 1..n /\ (ahead[x] + 1) - 1 = ahead[x]
    BY <1>1, <2>1
  <2> DEFINE y == list[ahead[x] + 1]
  <2>3. y \in S /\ ahead[y] = ahead[x]
    BY <1>5, <2>2
  <2>4. y = x
    <3> SUFFICES ASSUME y # x PROVE FALSE
      OBVIOUS
    <3>1. ahead[x] < ahead[y] \/ ahead[y] < ahead[x]
      BY <1>3, <2>3 DEF StrictOrder
    <3>2. QED BY <2>1, <2>3, <3>1
  <2>5. QED BY <2>2, <2>4
<1>8. ASSUME NEW i \in 1..n, NEW j \in 1..n, i < j PROVE <<list[i], list[j]>> \in R
  <2>1. /\ list[i] \in S /\ list[j] \in S
        /\ ahead[list[i]] = i - 1 /\ ahead[list[j]] = j - 1
    BY <1>5
  <2> HIDE DEF ahead
  <2>2. list[i] # list[j]
    BY <1>1, <1>8, <2>1
  <2>3. ~(<<list[j], list[i]>> \in R)
    <3> SUFFICES ASSUME <<list[j], list[i]>> \in R PROVE FALSE
      OBVIOUS
    <3>1. ahead[list[j]] < ahead[list[i]]
      BY <1>3, <2>1
    <3>2. QED BY <1>8, <2>1, <3>1
  <2>4. QED BY <2>1, <2>2, <2>3 DEF StrictOrder
<1>9. QED BY <1>1, <1>6, <1>7, <1>8 DEF Lists, list

(* at lists k numbers, from the least to the greatest.                     *)
Climbs(at, k, P) ==
  /\ k \in Nat /\ at \in [1..k -> P]
  /\ \A p \in P : \E n \in 1..k : at[n] = p
  /\ \A i, j \in 1..k : i < j => at[i] < at[j]

(* There is one such list.                                                 *)
LEMMA ClimbUnique ==
  ASSUME NEW n, NEW P, P \subseteq Int, NEW f, NEW g, Climbs(f, n, P), Climbs(g, n, P)
  PROVE  f = g
<1>1. /\ n \in Nat /\ f \in [1..n -> P] /\ g \in [1..n -> P]
      /\ \A x \in P : \E j \in 1..n : g[j] = x
      /\ \A i, j \in 1..n : i < j => f[i] < f[j]
      /\ \A i, j \in 1..n : i < j => g[i] < g[j]
  BY DEF Climbs
<1>2. \A i \in 1..n : f[i] \in Int /\ g[i] \in Int /\ f[i] \in P
  BY <1>1
<1> DEFINE h == [i \in 1..n |-> CHOOSE j \in 1..n : g[j] = f[i]]
<1>3. \A i \in 1..n : h[i] \in 1..n /\ g[h[i]] = f[i]
  BY <1>1, <1>2
<1>4. h \in [1..n -> 1..n]
  BY <1>3
<1> HIDE DEF h
<1>5. ASSUME NEW i \in 1..n, NEW k \in 1..n, i < k PROVE h[i] < h[k]
  <2> DEFINE a == h[i]
             b == h[k]
  <2>1. a \in 1..n /\ b \in 1..n /\ g[a] = f[i] /\ g[b] = f[k]
    BY <1>3
  <2>2. f[i] < f[k] /\ f[i] \in Int /\ f[k] \in Int
    BY <1>1, <1>2, <1>5
  <2> HIDE DEF a, b
  <2>3. g[a] < g[b] /\ g[a] \in Int /\ g[b] \in Int
    BY <2>1, <2>2
  <2>4. ~(b < a) /\ a # b
    BY <1>1, <2>1, <2>3
  <2>5. a < b
    BY <1>1, <2>1, <2>4
  <2>6. QED BY <2>5 DEF a, b
<1>6. \A i \in 1..n : h[i] = i
  BY <1>1, <1>4, <1>5, IncreasingIsIdentity
<1>7. \A i \in 1..n : f[i] = g[i]
  BY <1>3, <1>6
<1>8. QED BY <1>1, <1>7

(* The places kept are the places asked for, from the first to the last.   *)
Keeps(kept, seq, P) ==
  LET k == Cardinality(P) IN
  \E at : Climbs(at, k, P) /\ kept = [n \in 1..k |-> seq[at[n]]]

(* What is kept is read at places that climb. *)
LEMMA KeepPlacesKeeps ==
  ASSUME NEW m \in Nat, NEW seq, NEW P \in SUBSET (1..m)
  PROVE  Keeps(KeepPlaces(seq, P), seq, P)
<1> DEFINE R == {pair \in P \X P : \/ pair[1] < pair[2]
                                   \/ ~(pair[2] < pair[1]) /\ pair[1] < pair[2]}
           at == InOrder(P, R)
           k == Cardinality(P)
<1>1. IsFiniteSet(P)
  <2>1. IsFiniteSet(1..m)
    BY FS_Interval
  <2>2. QED BY <2>1, FS_Subset
<1>2. \A i, j \in P : <<i, j>> \in R <=> i < j
  OBVIOUS
<1>3. KeepPlaces(seq, P) = [n \in DOMAIN at |-> seq[at[n]]]
  BY DEF KeepPlaces, Ascending, Ranked
<1>4. P \subseteq Int
  OBVIOUS
<1> HIDE DEF R
<1>5. StrictOrder(P, R)
  BY <1>2, <1>4 DEF StrictOrder
<1>6. Lists(at, P, R)
  BY <1>1, <1>5, InOrderLists
<1> HIDE DEF at
<1>7. k \in Nat /\ at \in [1..k -> P]
  BY <1>6 DEF Lists
<1>8. \A p \in P : \E n \in 1..k : at[n] = p
  BY <1>6 DEF Lists
<1>9. \A i, j \in 1..k : i < j => at[i] < at[j]
  BY <1>2, <1>6, <1>7 DEF Lists
<1>10. KeepPlaces(seq, P) = [n \in 1..k |-> seq[at[n]]]
  BY <1>3, <1>7
<1> HIDE DEF k
<1>11. Climbs(at, k, P)
  BY <1>7, <1>8, <1>9 DEF Climbs
<1>12. QED BY <1>10, <1>11 DEF Keeps, k

(* The places of a set, once listed, say what is kept.                     *)
KeptBy(kept, seq, k, at) == kept = [n \in 1..k |-> seq[at[n]]]

(* It is read at any list of the places that climbs, there being only one. *)
LEMMA PlacesKept ==
  ASSUME NEW m \in Nat, NEW seq, NEW P \in SUBSET (1..m), NEW k, NEW at, Climbs(at, k, P)
  PROVE  Cardinality(P) = k /\ KeptBy(KeepPlaces(seq, P), seq, k, at)
<1>1. P \subseteq Int /\ k \in Nat /\ at \in [1..k -> P]
  BY DEF Climbs
<1>2. at \in Bijection(1..k, P)
  <2>1. \A i \in 1..k : at[i] \in Int
    BY <1>1
  <2>2. \A i, j \in 1..k : i # j => i < j \/ j < i
    BY <1>1
  <2>3. \A i, j \in 1..k : at[i] = at[j] => i = j
    BY <2>1, <2>2 DEF Climbs
  <2>4. QED BY <1>1, <2>3 DEF Climbs, Bijection, Injection, Surjection, IsInjective
<1>3. Cardinality(P) = k
  <2>1. IsFiniteSet(1..k) /\ (IF 1 > k THEN 0 ELSE k - 1 + 1) = k
    BY <1>1, FS_Interval
  <2>2. Cardinality(1..k) = k
    BY <1>1, <2>1, FS_Interval
  <2>3. QED BY <1>2, <2>1, <2>2, FS_Bijection DEF ExistsBijection
<1>4. Keeps(KeepPlaces(seq, P), seq, P)
  BY KeepPlacesKeeps
<1>5. PICK by : Climbs(by, k, P) /\ KeepPlaces(seq, P) = [n \in 1..k |-> seq[by[n]]]
  BY <1>3, <1>4 DEF Keeps
<1>6. by = at
  BY <1>1, <1>5, ClimbUnique
<1>7. QED BY <1>3, <1>5, <1>6 DEF KeptBy

(* A sequence of members of a set, none of them twice.                     *)
Once(seq, T) == seq \in Seq(T) /\ \A i, j \in DOMAIN seq : seq[i] = seq[j] => i = j

(* A set put in order is a list of it without repetitions. *)
LEMMA ListsOnce ==
  ASSUME NEW S, NEW R, StrictOrder(S, R), NEW list, Lists(list, S, R)
  PROVE  /\ Once(list, S) /\ ToSet(list) = S /\ Len(list) = Cardinality(S)
         /\ DOMAIN list = 1..Len(list)
<1> DEFINE n == Cardinality(S)
<1>1. /\ n \in Nat /\ list \in [1..n -> S]
      /\ \A x \in S : \E i \in 1..n : list[i] = x
      /\ \A i, j \in 1..n : i < j => <<list[i], list[j]>> \in R
  BY DEF Lists
<1> HIDE DEF n
<1>2. list \in Seq(S) /\ Len(list) = n /\ DOMAIN list = 1..n
  BY <1>1
<1>3. ToSet(list) = S
  <2>1. \A x : x \in ToSet(list) <=> x \in S
    BY <1>1, <1>2 DEF ToSet
  <2>2. QED BY <2>1
<1>4. ASSUME NEW i \in 1..n, NEW j \in 1..n, list[i] = list[j] PROVE i = j
  <2>1. i < j \/ j < i \/ i = j
    OBVIOUS
  <2>2. ~(i < j) /\ ~(j < i)
    BY <1>1, <1>4 DEF StrictOrder
  <2>3. QED BY <2>1, <2>2
<1>5. QED BY <1>2, <1>3, <1>4 DEF Once, n

(* What is kept of a list without repetitions has none. *)
LEMMA OnceKept ==
  ASSUME NEW T, NEW seq, Once(seq, T), NEW P \in SUBSET DOMAIN seq
  PROVE  /\ Once(KeepPlaces(seq, P), T)
         /\ ToSet(KeepPlaces(seq, P)) = {seq[p] : p \in P}
         /\ Len(KeepPlaces(seq, P)) = Cardinality(P)
<1> DEFINE k == Cardinality(P)
           m == Len(seq)
           kept == KeepPlaces(seq, P)
<1>1. m \in Nat /\ seq \in [1..m -> T] /\ DOMAIN seq = 1..m
  BY DEF Once
<1>2. P \in SUBSET (1..m)
  BY <1>1
<1>0. PICK at : Climbs(at, k, P) /\ kept = [n \in 1..k |-> seq[at[n]]]
  <2>1. Keeps(kept, seq, P)
    BY <1>1, <1>2, KeepPlacesKeeps
  <2>2. QED BY <2>1 DEF Keeps
<1>3. /\ at \in [1..k -> P]
      /\ kept = [n \in 1..k |-> seq[at[n]]]
      /\ \A p \in P : \E n \in 1..k : at[n] = p
      /\ \A i, j \in 1..k : i < j => at[i] < at[j]
  BY <1>0 DEF Climbs
<1>4. k \in Nat
  BY <1>0 DEF Climbs
<1> HIDE DEF k, m, kept
<1>5. kept \in [1..k -> T] /\ \A n \in 1..k : at[n] \in 1..m /\ kept[n] = seq[at[n]]
  BY <1>1, <1>2, <1>3
<1>6. kept \in Seq(T) /\ Len(kept) = k /\ DOMAIN kept = 1..k
  BY <1>4, <1>5
<1>7. ASSUME NEW i \in 1..k, NEW j \in 1..k, kept[i] = kept[j] PROVE i = j
  <2>1. at[i] = at[j]
    BY <1>1, <1>5, <1>7 DEF Once
  <2>2. i < j \/ j < i \/ i = j
    BY <1>4
  <2>3. at[i] \in Int /\ at[j] \in Int
    BY <1>5
  <2>4. QED BY <1>3, <2>1, <2>2, <2>3
<1>8. \A x : x \in ToSet(kept) <=> x \in {seq[p] : p \in P}
  <2>1. \A x : x \in ToSet(kept) <=> \E n \in 1..k : x = seq[at[n]]
    BY <1>5, <1>6 DEF ToSet
  <2>2. QED BY <1>3, <2>1
<1>9. QED BY <1>6, <1>7, <1>8 DEF Once, kept, k

(* The first of a ranking.                                                 *)
LEMMA OnceTop ==
  ASSUME NEW T, NEW seq, Once(seq, T), NEW n \in Nat
  PROVE  /\ Once(Top(n, seq), T)
         /\ Len(Top(n, seq)) <= n /\ Len(Top(n, seq)) <= Len(seq)
         /\ Len(Top(n, seq)) < n => Top(n, seq) = seq
         /\ n > 0 /\ seq # <<>> => Top(n, seq) # <<>>
         /\ DOMAIN Top(n, seq) \subseteq DOMAIN seq
         /\ \A i \in DOMAIN Top(n, seq) : Top(n, seq)[i] = seq[i]
         /\ \A i \in DOMAIN seq \ DOMAIN Top(n, seq), j \in DOMAIN Top(n, seq) : j < i
         /\ ToSet(Top(n, seq)) \subseteq ToSet(seq)
<1> DEFINE m == Len(seq)
           k == IF m < n THEN m ELSE n
           top == Top(n, seq)
<1>1. m \in Nat /\ seq \in [1..m -> T] /\ DOMAIN seq = 1..m
  BY DEF Once
<1>2. top = SubSeq(seq, 1, k)
  BY DEF Top
<1>4. seq \in Seq(T)
  BY DEF Once
<1> HIDE DEF m, top
<1>3. k \in Nat /\ k <= m /\ k <= n /\ (k < n => k = m) /\ (n > 0 /\ m > 0 => k > 0)
  BY <1>1
<1> HIDE DEF k
<1>5. top = [i \in 1..k |-> seq[i]]
  <2>1. \A i \in 1..k : i \in 1..m
    BY <1>1, <1>3
  <2>2. SubSeq(seq, 1, k) = [i \in 1..(k - 1 + 1) |-> seq[i + 1 - 1]]
    BY <1>1, <1>3, <1>4
  <2>3. k - 1 + 1 = k /\ \A i \in 1..k : i + 1 - 1 = i
    BY <1>3
  <2>4. QED BY <1>2, <2>2, <2>3
<1>6. 1..k \subseteq 1..m
  BY <1>1, <1>3
<1>7. top \in [1..k -> T]
  BY <1>1, <1>5, <1>6
<1>8. top \in Seq(T) /\ Len(top) = k /\ DOMAIN top = 1..k
  BY <1>3, <1>7
<1>9. Once(top, T)
  BY <1>1, <1>5, <1>6, <1>8 DEF Once
<1>10. k < n => top = seq
  BY <1>1, <1>3, <1>5
<1>11. n > 0 /\ seq # <<>> => top # <<>>
  <2>1. seq # <<>> => m > 0
    BY <1>1, <1>4 DEF m
  <2>2. QED BY <1>3, <1>8, <2>1
<1>12. \A i \in (1..m) \ (1..k), j \in 1..k : j < i
  BY <1>1, <1>3
<1>13. ToSet(top) \subseteq ToSet(seq)
  BY <1>1, <1>5, <1>6, <1>8 DEF ToSet
<1>14. \A i \in DOMAIN top : top[i] = seq[i]
  BY <1>5
<1>15. QED BY <1>1, <1>3, <1>6, <1>8, <1>9, <1>10, <1>11, <1>12, <1>13, <1>14 DEF m, top

(* A list without repetitions is as long as it has items. *)
LEMMA OnceCount ==
  ASSUME NEW T, NEW seq, Once(seq, T)
  PROVE  IsFiniteSet(ToSet(seq)) /\ Cardinality(ToSet(seq)) = Len(seq)
<1> DEFINE n == Len(seq)
<1>1. n \in Nat /\ seq \in [1..n -> T] /\ DOMAIN seq = 1..n
  BY DEF Once
<1> HIDE DEF n
<1>2. seq \in Bijection(1..n, ToSet(seq))
  <2>1. seq \in [1..n -> ToSet(seq)] /\ \A x \in ToSet(seq) : \E i \in 1..n : seq[i] = x
    BY <1>1 DEF ToSet
  <2>2. \A i, j \in 1..n : seq[i] = seq[j] => i = j
    BY <1>1 DEF Once
  <2>3. QED BY <2>1, <2>2 DEF Bijection, Injection, Surjection, IsInjective
<1>3. IsFiniteSet(1..n) /\ Cardinality(1..n) = n
  <2>1. (IF 1 > n THEN 0 ELSE n - 1 + 1) = n
    BY <1>1
  <2>2. QED BY <1>1, <2>1, FS_Interval
<1>4. QED BY <1>2, <1>3, FS_Bijection DEF ExistsBijection, n

(* It is one of any set its items are of. *)
LEMMA OnceAmong ==
  ASSUME NEW T, NEW U, NEW seq, Once(seq, T), ToSet(seq) \subseteq U
  PROVE  Once(seq, U)
<1> DEFINE n == Len(seq)
<1>1. n \in Nat /\ seq \in [1..n -> T] /\ DOMAIN seq = 1..n
  BY DEF Once
<1> HIDE DEF n
<1>2. seq \in [1..n -> U]
  BY <1>1 DEF ToSet
<1>3. seq \in Seq(U)
  BY <1>1, <1>2
<1>4. QED BY <1>3 DEF Once

(* It is empty if nothing is on it. *)
LEMMA OnceNone ==
  ASSUME NEW T, NEW seq, Once(seq, T)
  PROVE  seq = <<>> <=> ToSet(seq) = {}
<1> DEFINE n == Len(seq)
<1>1. n \in Nat /\ seq \in [1..n -> T] /\ DOMAIN seq = 1..n
  BY DEF Once
<1>2. seq = <<>> <=> n = 0
  BY DEF Once
<1> HIDE DEF n
<1>3. n # 0 => 1 \in DOMAIN seq
  BY <1>1
<1>4. QED BY <1>1, <1>2, <1>3 DEF ToSet

(* The empty list has no repetitions. *)
LEMMA OnceEmpty ==
  ASSUME NEW T
  PROVE  Once(<<>>, T)
BY DEF Once

-----------------------------------------------------------------------------
(* Search *)

(* Ranking by a number, equals as they are numbered.                       *)
LEMMA NumbersOrdered ==
  ASSUME NEW S \in SUBSET Int, NEW f, \A x \in S : f[x] \in Int
  PROVE  StrictOrder(S, {pair \in S \X S :
           \/ f[pair[1]] > f[pair[2]]
           \/ ~(f[pair[2]] > f[pair[1]]) /\ pair[1] < pair[2]})
<1> DEFINE R == {pair \in S \X S : \/ f[pair[1]] > f[pair[2]]
                                   \/ ~(f[pair[2]] > f[pair[1]]) /\ pair[1] < pair[2]}
<1>1. \A x, y \in S : <<x, y>> \in R <=>
         f[x] > f[y] \/ (~(f[y] > f[x]) /\ x < y)
  OBVIOUS
<1>2. S \subseteq Int
  OBVIOUS
<1> HIDE DEF R
<1>3. \A x \in S : <<x, x>> \notin R
  BY <1>1, <1>2
<1>4. \A x, y \in S : x # y => <<x, y>> \in R \/ <<y, x>> \in R
  BY <1>1, <1>2
<1>5. \A x, y, z \in S : <<x, y>> \in R /\ <<y, z>> \in R => <<x, z>> \in R
  BY <1>1, <1>2
<1>6. StrictOrder(S, R)
  BY <1>3, <1>4, <1>5 DEF StrictOrder
<1>7. QED BY <1>6 DEF R

(* A fraction that is at least a second one, which is at least a third.    *)
LEMMA FractionsCompare ==
  ASSUME NEW a \in Nat, NEW b \in Nat \ {0}, NEW c \in Nat, NEW d \in Nat \ {0},
         NEW e \in Nat, NEW f \in Nat \ {0}, a * d >= c * b, c * f >= e * d
  PROVE  /\ a * f >= e * b
         /\ a * d > c * b \/ c * f > e * d => a * f > e * b
<1>1. /\ (a * d) * f >= (c * b) * f /\ (c * f) * b >= (e * d) * b
      /\ a * d > c * b => (a * d) * f > (c * b) * f
      /\ c * f > e * d => (c * f) * b > (e * d) * b
  <2>1. \A x, y \in Int, z \in Nat \ {0} : (x >= y => x * z >= y * z) /\ (x > y => x * z > y * z)
    OBVIOUS
  <2>2. a * d \in Int /\ c * b \in Int /\ c * f \in Int /\ e * d \in Int
    OBVIOUS
  <2>3. QED BY <2>1, <2>2
<1>2. (a * d) * f = (a * f) * d /\ (c * b) * f = (c * f) * b /\ (e * d) * b = (e * b) * d
  OBVIOUS
<1>3. \A x, y \in Int, z \in Nat \ {0} : (x * z >= y * z => x >= y) /\ (x * z > y * z => x > y)
  OBVIOUS
<1>4. /\ a * f \in Int /\ e * b \in Int /\ (a * f) * d \in Int /\ (c * f) * b \in Int
      /\ (e * b) * d \in Int
  OBVIOUS
<1>5. /\ (a * f) * d >= (e * b) * d
      /\ a * d > c * b \/ c * f > e * d => (a * f) * d > (e * b) * d
  BY <1>1, <1>2, <1>4
<1>6. QED BY <1>3, <1>4, <1>5

Fraction(x) == x[1] \in Nat /\ x[2] \in Nat \ {0}

(* Fractions are compared strictly, and what neither is above is passed    *)
(* on.                                                                     *)
LEMMA AboveOrders ==
  ASSUME NEW x, NEW y, NEW z, Fraction(x), Fraction(y), Fraction(z)
  PROVE  /\ ~Above(x, x)
         /\ ~(Above(x, y) /\ Above(y, x))
         /\ ~Above(y, x) /\ ~Above(z, y) =>
              ~Above(z, x) /\ (Above(x, y) \/ Above(y, z) => Above(x, z))
<1> DEFINE a == x[1]
           b == x[2]
           c == y[1]
           d == y[2]
           e == z[1]
           f == z[2]
<1>1. /\ a \in Nat /\ b \in Nat \ {0} /\ c \in Nat /\ d \in Nat \ {0}
      /\ e \in Nat /\ f \in Nat \ {0}
  BY DEF Fraction
<1>2. /\ Above(x, x) <=> a * b > a * b
      /\ Above(x, y) <=> a * d > c * b
      /\ Above(y, x) <=> c * b > a * d
      /\ Above(y, z) <=> c * f > e * d
      /\ Above(z, y) <=> e * d > c * f
      /\ Above(x, z) <=> a * f > e * b
      /\ Above(z, x) <=> e * b > a * f
  BY DEF Above
<1> HIDE DEF a, b, c, d, e, f
<1>3. /\ a * b \in Int /\ a * d \in Int /\ c * b \in Int /\ c * f \in Int /\ e * d \in Int
      /\ a * f \in Int /\ e * b \in Int
  BY <1>1
<1>4. /\ a * d >= c * b /\ c * f >= e * d =>
           /\ a * f >= e * b
           /\ a * d > c * b \/ c * f > e * d => a * f > e * b
  BY <1>1, FractionsCompare
<1>5. QED BY <1>2, <1>3, <1>4

(* Ranking by a fraction, equals as they are numbered.                     *)
LEMMA FractionsOrdered ==
  ASSUME NEW S \in SUBSET Int, NEW f, \A x \in S : Fraction(f[x])
  PROVE  StrictOrder(S, {pair \in S \X S :
           \/ Above(f[pair[1]], f[pair[2]])
           \/ ~Above(f[pair[2]], f[pair[1]]) /\ pair[1] < pair[2]})
<1> DEFINE R == {pair \in S \X S : \/ Above(f[pair[1]], f[pair[2]])
                                   \/ ~Above(f[pair[2]], f[pair[1]]) /\ pair[1] < pair[2]}
<1>1. \A x, y \in S : <<x, y>> \in R <=>
         Above(f[x], f[y]) \/ (~Above(f[y], f[x]) /\ x < y)
  OBVIOUS
<1>2. S \subseteq Int
  OBVIOUS
<1> HIDE DEF R
<1>3. \A x \in S : <<x, x>> \notin R
  BY <1>1, <1>2, AboveOrders
<1>4. \A x, y \in S : x # y => <<x, y>> \in R \/ <<y, x>> \in R
  BY <1>1, <1>2, AboveOrders
<1>5. ASSUME NEW x \in S, NEW y \in S, NEW z \in S, <<x, y>> \in R, <<y, z>> \in R
      PROVE  <<x, z>> \in R
  <2>1. Fraction(f[x]) /\ Fraction(f[y]) /\ Fraction(f[z]) /\ x \in Int /\ y \in Int /\ z \in Int
    BY <1>2
  <2>2. /\ Above(f[x], f[y]) \/ (~Above(f[y], f[x]) /\ x < y)
        /\ Above(f[y], f[z]) \/ (~Above(f[z], f[y]) /\ y < z)
    BY <1>1, <1>5
  <2>3. /\ ~(Above(f[x], f[y]) /\ Above(f[y], f[x]))
        /\ ~(Above(f[y], f[z]) /\ Above(f[z], f[y]))
    BY <2>1, AboveOrders
  <2>4. ~Above(f[y], f[x]) /\ ~Above(f[z], f[y]) =>
          ~Above(f[z], f[x]) /\ (Above(f[x], f[y]) \/ Above(f[y], f[z]) => Above(f[x], f[z]))
    BY <2>1, AboveOrders
  <2>5. Above(f[x], f[z]) \/ (~Above(f[z], f[x]) /\ x < z)
    BY <2>1, <2>2, <2>3, <2>4
  <2>6. QED BY <1>1, <2>5
<1>6. StrictOrder(S, R)
  BY <1>3, <1>4, <1>5 DEF StrictOrder
<1>7. QED BY <1>6 DEF R

(* The place of a product in a ranking without repetition. *)
LEMMA RankScoreAt ==
  ASSUME NEW T, NEW ranking, Once(ranking, T), NEW p
  PROVE  /\ p \notin ToSet(ranking) => RankScore(p, ranking) = <<0, 1>>
         /\ \A i \in DOMAIN ranking : ranking[i] = p => RankScore(p, ranking) = <<1, RrfK + i>>
         /\ Fraction(RankScore(p, ranking))
<1> DEFINE places == {i \in DOMAIN ranking : ranking[i] = p}
           n == Len(ranking)
<1>1. n \in Nat /\ ranking \in [1..n -> T] /\ DOMAIN ranking = 1..n
  BY DEF Once
<1>2. RankScore(p, ranking) = IF places = {} THEN <<0, 1>> ELSE Weight(CHOOSE i \in places : TRUE)
  BY DEF RankScore
<1>3. p \notin ToSet(ranking) => places = {}
  BY <1>1 DEF ToSet
<1>4. ASSUME NEW i \in DOMAIN ranking, ranking[i] = p
      PROVE  RankScore(p, ranking) = <<1, RrfK + i>>
  <2>1. i \in places /\ \A j \in places : j = i
    BY <1>1, <1>4 DEF Once
  <2> HIDE DEF places
  <2>2. (CHOOSE j \in places : TRUE) = i
    BY <2>1
  <2>3. QED BY <1>2, <2>1, <2>2 DEF Weight
<1>5. Fraction(<<0, 1>>)
  BY DEF Fraction
<1>6. \A i \in DOMAIN ranking : Fraction(<<1, RrfK + i>>)
  <2> SUFFICES ASSUME NEW i \in 1..n PROVE Fraction(<<1, RrfK + i>>)
    BY <1>1
  <2>1. RrfK + i \in Nat \ {0}
    BY SearchAssumption
  <2>2. QED BY <2>1 DEF Fraction
<1>7. p \in ToSet(ranking) => \E i \in DOMAIN ranking : ranking[i] = p
  BY <1>1 DEF ToSet
<1>8. Fraction(RankScore(p, ranking))
  BY <1>2, <1>3, <1>4, <1>5, <1>6, <1>7
<1>9. QED BY <1>2, <1>3, <1>4, <1>8

(* The sum of fractions is a fraction. *)
LEMMA PlusFraction ==
  ASSUME NEW x, NEW y, Fraction(x), Fraction(y)
  PROVE  Fraction(Plus(x, y))
<1> DEFINE a == x[1]
           b == x[2]
           c == y[1]
           d == y[2]
<1>1. a \in Nat /\ b \in Nat \ {0} /\ c \in Nat /\ d \in Nat \ {0}
  BY DEF Fraction
<1>2. Plus(x, y) = <<a * d + c * b, b * d>>
  BY DEF Plus
<1> HIDE DEF a, b, c, d
<1>3. a * d + c * b \in Nat /\ b * d \in Nat \ {0}
  BY <1>1
<1>4. QED BY <1>2, <1>3 DEF Fraction

(* The order of a fusion. *)
FusedIds(one, other) == ToSet(one) \cup ToSet(other)
FusedOrder(one, other) ==
  {pair \in FusedIds(one, other) \X FusedIds(one, other) :
    \/ Above(RrfScore(pair[1], one, other), RrfScore(pair[2], one, other))
    \/ /\ ~Above(RrfScore(pair[2], one, other), RrfScore(pair[1], one, other))
       /\ pair[1] < pair[2]}

FusedList(one, other) == InOrder(FusedIds(one, other), FusedOrder(one, other))

(* The fused list is all the products of two rankings in a strict order.   *)
LEMMA FuseRanks ==
  ASSUME NEW D, D \subseteq Nat, NEW one, Once(one, D), NEW other, Once(other, D)
  PROVE  /\ StrictOrder(FusedIds(one, other), FusedOrder(one, other))
         /\ Lists(FusedList(one, other), FusedIds(one, other), FusedOrder(one, other))
         /\ Once(FusedList(one, other), D)
         /\ ToSet(FusedList(one, other)) = FusedIds(one, other)
         /\ Fuse(one, other) = Top(RecallTopN, FusedList(one, other))
<1> DEFINE ids == FusedIds(one, other)
           score == [p \in ids |-> RrfScore(p, one, other)]
           order == FusedOrder(one, other)
           byScore == {pair \in ids \X ids :
             \/ Above(score[pair[1]], score[pair[2]])
             \/ ~Above(score[pair[2]], score[pair[1]]) /\ pair[1] < pair[2]}
<1>1. ids \subseteq D
  BY DEF ToSet, Once, FusedIds
<1>2. ids \in SUBSET Int
  <2> HIDE DEF ids
  <2>1. Nat \subseteq Int
    OBVIOUS
  <2>2. QED BY <1>1, <2>1
<1>3. IsFiniteSet(ids)
  BY OnceCount, FS_Union DEF FusedIds
<1>4. \A p \in ids : Fraction(score[p])
  BY RankScoreAt, PlusFraction DEF RrfScore
<1>5. order = byScore
  BY DEF FusedOrder
<1>6. StrictOrder(ids, order)
  <2> HIDE DEF ids, score, order
  <2>1. QED BY <1>2, <1>4, <1>5, FractionsOrdered
<1>7. Fuse(one, other) = Top(RecallTopN, InOrder(ids, order))
  BY DEF Fuse, Ranked, FusedOrder, FusedIds
<1> HIDE DEF ids, order
<1>8. Lists(InOrder(ids, order), ids, order)
  BY <1>3, <1>6, InOrderLists
<1>9. Once(InOrder(ids, order), ids) /\ ToSet(InOrder(ids, order)) = ids
  BY <1>6, <1>8, ListsOnce
<1>10. Once(InOrder(ids, order), D)
  BY <1>1, <1>9, OnceAmong
<1>11. QED BY <1>6, <1>7, <1>8, <1>9, <1>10 DEF ids, order, FusedList

(* Every recall names products of the catalogue, none twice. *)
LEMMA RecallOnce ==
  ASSUME NEW query, IsQuery(query)
  PROVE  /\ Once(VectorRecall(query), DOMAIN query.catalog)
         /\ Once(WordRecall(query), DOMAIN query.catalog)
         /\ Once(Recall(query), DOMAIN query.catalog)
<1> DEFINE ids == DOMAIN query.catalog
<1>1. ids \in SUBSET Nat /\ ids \subseteq Nat /\ IsFiniteSet(ids)
  BY DEF IsQuery
<1>2. Once(VectorRecall(query), ids)
  <2>1. CASE query.vector = Failing
    BY <2>1, OnceEmpty DEF VectorRecall
  <2>2. CASE query.vector # Failing
    <3> DEFINE nearest == Top(RecallTopN, query.vector)
               known == {i \in DOMAIN nearest : nearest[i] \in ids}
    <3>1. Once(query.vector, Nat)
      BY <2>2 DEF IsQuery, IsInjective, Once
    <3>2. Once(nearest, Nat)
      BY <3>1, SearchAssumption, OnceTop
    <3>3. VectorRecall(query) = KeepPlaces(nearest, known)
      BY <2>2 DEF VectorRecall
    <3>4. known \in SUBSET DOMAIN nearest /\ {nearest[i] : i \in known} \subseteq ids
      OBVIOUS
    <3> HIDE DEF nearest, known
    <3>5. /\ Once(KeepPlaces(nearest, known), Nat)
          /\ ToSet(KeepPlaces(nearest, known)) \subseteq ids
      BY <3>2, <3>4, OnceKept
    <3>6. QED BY <3>3, <3>5, OnceAmong
  <2>3. QED BY <2>1, <2>2
<1>3. Once(WordRecall(query), ids)
  <2> DEFINE listed == {p \in ids : query.catalog[p].active /\ query.words[p] > 0}
             f == query.words
             order == {pair \in listed \X listed :
               \/ f[pair[1]] > f[pair[2]]
               \/ ~(f[pair[2]] > f[pair[1]]) /\ pair[1] < pair[2]}
  <2>1. listed \in SUBSET ids /\ listed \in SUBSET Int /\ \A p \in listed : f[p] \in Int
    BY <1>1 DEF IsQuery
  <2>2. WordRecall(query) = Top(RecallTopN, InOrder(listed, order))
    BY DEF WordRecall, Ranked
  <2>3. StrictOrder(listed, order)
    <3> HIDE DEF listed, f
    <3>1. QED BY <2>1, NumbersOrdered
  <2> HIDE DEF listed, order
  <2>4. IsFiniteSet(listed)
    BY <1>1, <2>1, FS_Subset
  <2>5. Once(InOrder(listed, order), listed) /\ ToSet(InOrder(listed, order)) = listed
    BY <2>3, <2>4, InOrderLists, ListsOnce
  <2>6. Once(InOrder(listed, order), ids)
    BY <2>1, <2>5, OnceAmong
  <2>7. QED BY <2>2, <2>6, SearchAssumption, OnceTop
<1>4. Once(Fuse(VectorRecall(query), WordRecall(query)), ids)
  <2> DEFINE one == VectorRecall(query)
             other == WordRecall(query)
             list == FusedList(one, other)
  <2> HIDE DEF one, other
  <2>1. Once(list, ids) /\ Fuse(one, other) = Top(RecallTopN, list)
    BY <1>1, <1>2, <1>3, FuseRanks DEF one, other
  <2>2. Once(Top(RecallTopN, list), ids)
    BY <2>1, SearchAssumption, OnceTop
  <2>3. QED BY <2>1, <2>2 DEF one, other
<1>5. QED BY <1>2, <1>3, <1>4 DEF Recall

(* The items of a sequence in another order are the same items.            *)
Reorders(new, seq, list, n) ==
  /\ n = Len(seq) /\ list \in [1..n -> 1..n]
  /\ \A i, j \in 1..n : list[i] = list[j] => i = j
  /\ \A k \in 1..n : \E i \in 1..n : list[i] = k
  /\ new = [i \in 1..n |-> seq[list[i]]]

(* A list put in another order is still the same items, once each.         *)
LEMMA OnceReordered ==
  ASSUME NEW T, NEW seq, Once(seq, T), NEW n, NEW list, NEW new, Reorders(new, seq, list, n)
  PROVE  Once(new, T) /\ ToSet(new) = ToSet(seq) /\ DOMAIN new = 1..n
<1>1. n \in Nat /\ seq \in [1..n -> T] /\ DOMAIN seq = 1..n
  BY DEF Once, Reorders
<1>2. /\ \A i \in 1..n : list[i] \in 1..n
      /\ \A i, j \in 1..n : list[i] = list[j] => i = j
      /\ \A k \in 1..n : \E i \in 1..n : list[i] = k
      /\ new = [i \in 1..n |-> seq[list[i]]]
  BY DEF Reorders
<1>3. new \in [1..n -> T] /\ \A i \in 1..n : new[i] = seq[list[i]]
  BY <1>1, <1>2
<1>4. new \in Seq(T) /\ DOMAIN new = 1..n
  BY <1>1, <1>3
<1>5. ASSUME NEW i \in 1..n, NEW j \in 1..n, new[i] = new[j] PROVE i = j
  <2>1. \A k, l \in 1..n : seq[k] = seq[l] => k = l
    BY <1>1 DEF Once
  <2> DEFINE k == list[i]
             l == list[j]
  <2>2. k \in 1..n /\ l \in 1..n /\ seq[k] = seq[l]
    BY <1>2, <1>3, <1>5
  <2> HIDE DEF k, l
  <2>3. k = l
    BY <2>1, <2>2, Zenon
  <2>4. QED BY <1>2, <2>3 DEF k, l
<1>6. ASSUME NEW x \in ToSet(seq) PROVE x \in ToSet(new)
  <2>1. PICK k \in 1..n : x = seq[k]
    BY <1>1 DEF ToSet
  <2>2. PICK i \in 1..n : list[i] = k
    BY <1>2
  <2>3. QED BY <1>3, <1>4, <2>1, <2>2 DEF ToSet
<1>7. ASSUME NEW x \in ToSet(new) PROVE x \in ToSet(seq)
  BY <1>1, <1>2, <1>3, <1>4 DEF ToSet
<1>8. QED BY <1>4, <1>5, <1>6, <1>7 DEF Once

(* What is reranked is what was given, the better score first.             *)
LEMMA RerankedOnce ==
  ASSUME NEW query, IsQuery(query), NEW eligible, Once(eligible, DOMAIN query.catalog)
  PROVE  LET reranked == Reranked(eligible, query) IN
         /\ Once(reranked, DOMAIN query.catalog) /\ ToSet(reranked) = ToSet(eligible)
         /\ RerankApplied(eligible, query) =>
              \A i, j \in DOMAIN reranked :
                i < j => query.reranker[reranked[i]] >= query.reranker[reranked[j]]
<1> DEFINE reranked == Reranked(eligible, query)
           ids == DOMAIN query.catalog
<1>1. CASE ~RerankApplied(eligible, query)
  BY <1>1 DEF Reranked
<1>2. CASE RerankApplied(eligible, query)
  <2> DEFINE n == Len(eligible)
             f == [i \in DOMAIN eligible |-> query.reranker[eligible[i]]]
             order == {pair \in (1..n) \X (1..n) :
               \/ f[pair[1]] > f[pair[2]]
               \/ ~(f[pair[2]] > f[pair[1]]) /\ pair[1] < pair[2]}
             list == InOrder(1..n, order)
  <2>1. n \in Nat /\ eligible \in [1..n -> ids] /\ DOMAIN eligible = 1..n
    BY DEF Once
  <2>2. \A i \in 1..n : f[i] = query.reranker[eligible[i]] /\ f[i] \in Int
    BY <1>2, <2>1 DEF IsQuery, RerankApplied
  <2>3. \A i, j \in 1..n : <<i, j>> \in order <=> f[i] > f[j] \/ (~(f[j] > f[i]) /\ i < j)
    OBVIOUS
  <2>4. Ranked(DOMAIN eligible,
          LAMBDA i, j : query.reranker[eligible[i]] > query.reranker[eligible[j]]) = list
    <3> DEFINE given == {pair \in (1..n) \X (1..n) :
          \/ query.reranker[eligible[pair[1]]] > query.reranker[eligible[pair[2]]]
          \/ /\ ~(query.reranker[eligible[pair[2]]] > query.reranker[eligible[pair[1]]])
             /\ pair[1] < pair[2]}
    <3>1. given = order
      BY <2>2
    <3>2. Ranked(DOMAIN eligible,
          LAMBDA i, j : query.reranker[eligible[i]] > query.reranker[eligible[j]])
          = InOrder(DOMAIN eligible, given)
      BY <2>1 DEF Ranked
    <3> HIDE DEF given, order
    <3>3. QED BY <2>1, <3>1, <3>2
  <2>5. reranked = [i \in DOMAIN eligible |-> eligible[list[i]]]
    BY <1>2, <2>4 DEF Reranked
  <2>6. StrictOrder(1..n, order) /\ Lists(list, 1..n, order)
    <3>1. 1..n \in SUBSET Int /\ IsFiniteSet(1..n)
      BY <2>1, FS_Interval
    <3> HIDE DEF f, n
    <3>2. StrictOrder(1..n, order)
      BY <2>2, <3>1, NumbersOrdered
    <3> HIDE DEF order
    <3>3. QED BY <3>1, <3>2, InOrderLists
  <2>7. Cardinality(1..n) = n
    <3> HIDE DEF n
    <3>1. (IF 1 > n THEN 0 ELSE n - 1 + 1) = n
      BY <2>1
    <3>2. QED BY <2>1, <3>1, FS_Interval
  <2> HIDE DEF n, f, order, list, reranked
  <2>8. Once(list, 1..n) /\ ToSet(list) = 1..n /\ Len(list) = n /\ DOMAIN list = 1..n
    BY <2>6, <2>7, ListsOnce
  <2>9. \A i, j \in 1..n : i < j => <<list[i], list[j]>> \in order
    BY <2>6, <2>7 DEF Lists
  <2>10. \A i \in 1..n : list[i] \in 1..n
    BY <2>6, <2>7 DEF Lists
  <2>11. /\ reranked = [i \in 1..n |-> eligible[list[i]]]
         /\ \A i \in 1..n : reranked[i] = eligible[list[i]]
    BY <2>1, <2>5
  <2>12. /\ list \in [1..n -> 1..n] /\ n = Len(eligible)
         /\ \A i, j \in 1..n : list[i] = list[j] => i = j
         /\ \A k \in 1..n : \E i \in 1..n : list[i] = k
    BY <2>6, <2>7, <2>8 DEF Lists, Once, n
  <2>13. /\ Once(reranked, ids) /\ ToSet(reranked) = ToSet(eligible)
         /\ DOMAIN reranked = 1..n
    <3>1. Once(eligible, ids)
      OBVIOUS
    <3>2. Reorders(reranked, eligible, list, n)
      BY <2>11, <2>12 DEF Reorders
    <3> HIDE DEF ids
    <3>3. QED BY <3>1, <3>2, OnceReordered
  <2>15. ASSUME NEW i \in 1..n, NEW j \in 1..n, i < j
         PROVE  query.reranker[reranked[i]] >= query.reranker[reranked[j]]
    <3> DEFINE x == list[i]
               y == list[j]
    <3>0. x \in 1..n /\ y \in 1..n /\ <<x, y>> \in order
      BY <2>9, <2>10, <2>15
    <3>4. f[x] \in Int /\ f[y] \in Int /\ (f[x] > f[y] \/ ~(f[y] > f[x]))
      <4> HIDE DEF x, y
      <4>1. QED BY <2>2, <2>3, <3>0
    <3>1. f[list[i]] \in Int /\ f[list[j]] \in Int /\ ~(f[list[j]] > f[list[i]])
      BY <3>4
    <3>2. /\ query.reranker[reranked[i]] = f[list[i]]
          /\ query.reranker[reranked[j]] = f[list[j]]
      BY <2>2, <2>10, <2>11
    <3>3. QED BY <3>1, <3>2
  <2>16. QED BY <2>13, <2>15 DEF reranked
<1>3. QED BY <1>1, <1>2

(* A product is rejected for a reason, or suits the buyer. *)
LEMMA SuitsUnlessRejected ==
  ASSUME NEW query, IsQuery(query), NEW p \in DOMAIN query.catalog,
         query.cap # NoCap => query.currency \in Currency
  PROVE  RejectReason(p, query) = "none" <=> Suits(p, query)
<1> DEFINE price == PriceIn(p, query)
<1>1. query.cap # NoCap => price \in Int /\ query.cap \in Int
  <2>1. query.catalog[p].price \in Nat /\ query.catalog[p].currency \in Currency
    BY DEF IsQuery
  <2>2. query.cap # NoCap => query.cap \in Int
    BY DEF IsQuery
  <2>3. QED BY <2>1, <2>2, ConvertNear DEF PriceIn
<1>2. RejectReason(p, query) = "none" <=>
        /\ query.catalog[p].active
        /\ query.shipTo = "any" \/ query.shipTo \in query.catalog[p].shipsTo
        /\ query.cap = NoCap \/ ~(price > query.cap)
  BY DEF RejectReason
<1>3. Suits(p, query) <=>
        /\ query.catalog[p].active
        /\ query.shipTo = "any" \/ query.shipTo \in query.catalog[p].shipsTo
        /\ query.cap = NoCap \/ price <= query.cap
  BY DEF Suits
<1> HIDE DEF price
<1>4. query.cap # NoCap => (price <= query.cap <=> ~(price > query.cap))
  BY <1>1
<1>5. QED BY <1>2, <1>3, <1>4

(* The answer to any query honours it. *)
LEMMA AnswersHonour ==
  ASSUME NEW query, IsQuery(query)
  PROVE  Honours(query, Execute(query))
<1> DEFINE ids == DOMAIN query.catalog
           recalled == Recall(query)
           pool == ToSet(recalled)
           good == {i \in DOMAIN recalled : RejectReason(recalled[i], query) = "none"}
           bad == {i \in DOMAIN recalled : RejectReason(recalled[i], query) # "none"}
           eligible == Eligible(recalled, query)
           reranked == Reranked(eligible, query)
           allBad == KeepPlaces(recalled, bad)
           rejected == FilteredOut(recalled, query)
           hits == Top(query.topK, reranked)
           result == Execute(query)
           suiting == {p \in pool : Suits(p, query)}
<1>1. result = Result(recalled, reranked, rejected, query)
  BY DEF Execute
<1>2. CASE Refused(recalled, query)
  <2>1. result.error
    BY <1>1, <1>2 DEF Result
  <2> HIDE DEF result
  <2>2. Honours(query, result)
    BY <2>1 DEF Honours
  <2>3. QED BY <2>2 DEF result
<1>3. CASE ~Refused(recalled, query)
  <2>1. /\ result.error = FALSE
        /\ result.hits = [i \in DOMAIN hits |-> [id |-> hits[i], landed |-> Landed(hits[i], query)]]
        /\ result.rerankApplied = RerankApplied(reranked, query)
        /\ result.strategy = Strategy(RerankApplied(reranked, query), query)
        /\ result.filteredOut = [i \in DOMAIN rejected |->
             [id |-> rejected[i], reason |-> RejectReason(rejected[i], query)]]
    <3> HIDE DEF reranked, rejected, recalled
    <3>1. QED BY <1>1, <1>3 DEF Result
  <2>2. query.topK \in Nat /\ query.topK > 0
    BY <1>3 DEF Refused, IsQuery
  <2>3. \A p \in pool : query.cap # NoCap => query.currency \in Currency
    BY <1>3 DEF Refused
  <2>4. Once(recalled, ids)
    BY RecallOnce
  <2> HIDE DEF recalled, result
  <2>5. recalled \in [DOMAIN recalled -> ids]
    BY <2>4 DEF Once
  <2>6. pool \subseteq ids /\ \A i \in DOMAIN recalled : recalled[i] \in pool
    BY <2>5 DEF ToSet
  <2>7. \A p \in pool : RejectReason(p, query) = "none" <=> Suits(p, query)
    BY <2>3, <2>6, SuitsUnlessRejected
  <2>8. Once(eligible, ids) /\ ToSet(eligible) = {recalled[i] : i \in good}
    BY <2>4, OnceKept DEF Eligible
  <2>9. Once(allBad, ids) /\ ToSet(allBad) = {recalled[i] : i \in bad}
    BY <2>4, OnceKept
  <2>10. {recalled[i] : i \in good} = suiting
    <3>1. \A x : x \in {recalled[i] : i \in good} <=> x \in suiting
      BY <2>6, <2>7 DEF ToSet
    <3>2. QED BY <3>1
  <2>11. {recalled[i] : i \in bad} = pool \ suiting
    <3>1. \A x : x \in {recalled[i] : i \in bad} <=> x \in pool \ suiting
      BY <2>6, <2>7 DEF ToSet
    <3>2. QED BY <3>1
  <2> HIDE DEF good, bad, eligible, allBad
  <2>12. /\ Once(reranked, ids) /\ ToSet(reranked) = suiting
         /\ RerankApplied(eligible, query) =>
              \A i, j \in DOMAIN reranked :
                i < j => query.reranker[reranked[i]] >= query.reranker[reranked[j]]
    BY <2>8, <2>10, RerankedOnce
  <2>13. RerankApplied(reranked, query) => RerankApplied(eligible, query)
    <3>1. reranked # <<>> => eligible # <<>>
      BY <2>8, <2>10, <2>12, OnceNone
    <3> HIDE DEF reranked
    <3>2. QED BY <3>1 DEF RerankApplied
  <2>14. rejected = Top(FilteredOutLimit, allBad)
    BY DEF FilteredOut, allBad, bad
  <2> HIDE DEF reranked, rejected
  <2>15. /\ Once(rejected, ids) /\ ToSet(rejected) \subseteq pool \ suiting
         /\ allBad # <<>> => rejected # <<>>
    <3>1. FilteredOutLimit \in Nat /\ FilteredOutLimit > 0
      BY SearchAssumption
    <3>2. QED BY <2>9, <2>11, <2>14, <3>1, OnceTop
  <2>16. /\ Once(hits, ids) /\ ToSet(hits) \subseteq suiting
         /\ Len(hits) < query.topK => hits = reranked
         /\ reranked # <<>> => hits # <<>>
         /\ DOMAIN hits \subseteq DOMAIN reranked
         /\ \A i \in DOMAIN hits : hits[i] = reranked[i]
         /\ \A i \in DOMAIN reranked \ DOMAIN hits, j \in DOMAIN hits : j < i
    BY <2>2, <2>12, OnceTop
  <2> HIDE DEF hits, suiting, pool, ids
  <2> DEFINE hitIds == {result.hits[i].id : i \in DOMAIN result.hits}
             outIds == {result.filteredOut[i].id : i \in DOMAIN result.filteredOut}
  <2>17. hitIds = ToSet(hits) /\ DOMAIN result.hits = DOMAIN hits
    <3>1. /\ DOMAIN result.hits = DOMAIN hits
          /\ \A i \in DOMAIN hits : result.hits[i].id = hits[i]
      BY <2>1
    <3>2. \A x : x \in hitIds <=> x \in ToSet(hits)
      BY <3>1 DEF ToSet
    <3>3. QED BY <3>1, <3>2
  <2>18. outIds = ToSet(rejected)
    <3>1. /\ DOMAIN result.filteredOut = DOMAIN rejected
          /\ \A i \in DOMAIN rejected : result.filteredOut[i].id = rejected[i]
      BY <2>1
    <3>2. \A x : x \in outIds <=> x \in ToSet(rejected)
      BY <3>1 DEF ToSet
    <3>3. QED BY <3>2
  <2>19. Len(result.hits) = Len(hits)
    <3> DEFINE n == Len(hits)
    <3>1. n \in Nat /\ DOMAIN hits = 1..n
      BY <2>16 DEF Once
    <3> HIDE DEF n
    <3>2. \A card : card = [i \in 1..n |-> card[i]] => Len(card) = n
      BY <3>1
    <3>3. result.hits = [i \in 1..n |-> result.hits[i]]
      BY <2>1, <3>1
    <3>4. QED BY <3>2, <3>3 DEF n
  <2> HIDE DEF hitIds, outIds
  <2>20. \A p \in hitIds : p \in ids /\ Suits(p, query)
    BY <2>6, <2>16, <2>17 DEF suiting
  <2>21. Cardinality(hitIds) = Len(result.hits)
    BY <2>16, <2>17, <2>19, OnceCount
  <2>22. Len(result.hits) < query.topK => hitIds = suiting
    BY <2>12, <2>16, <2>17, <2>19
  <2>23. ASSUME result.rerankApplied, NEW p \in hitIds, NEW q \in pool \ hitIds, Suits(q, query)
         PROVE  query.reranker[p] >= query.reranker[q]
    <3>1. q \in ToSet(reranked)
      BY <2>12, <2>23 DEF suiting
    <3>2. PICK j \in DOMAIN reranked : q = reranked[j]
      BY <3>1 DEF ToSet
    <3>3. PICK i \in DOMAIN hits : p = hits[i]
      BY <2>17, <2>23 DEF ToSet
    <3>4. j \notin DOMAIN hits
      BY <2>16, <2>17, <2>23, <3>2 DEF ToSet
    <3>5. i < j /\ i \in DOMAIN reranked /\ p = reranked[i]
      BY <2>16, <3>2, <3>3, <3>4
    <3>6. RerankApplied(eligible, query)
      BY <2>1, <2>13, <2>23
    <3>7. QED BY <2>12, <3>2, <3>5, <3>6
  <2>24. \A p \in outIds : p \in pool /\ ~Suits(p, query)
    BY <2>15, <2>18 DEF suiting
  <2>25. ASSUME hitIds = {}, pool # {} PROVE outIds # {}
    <3>1. \A s : Once(s, ids) => (s = <<>> <=> ToSet(s) = {})
      BY OnceNone
    <3>2. hits = <<>>
      BY <2>16, <2>17, <2>25, <3>1
    <3>3. suiting = {}
      BY <2>12, <2>16, <3>1, <3>2
    <3>4. allBad # <<>>
      BY <2>9, <2>11, <2>25, <3>1, <3>3
    <3>5. QED BY <2>15, <2>18, <3>1, <3>4
  <2>26. result.strategy = "bm25" => VectorRecall(query) = <<>>
    BY <2>1 DEF Strategy
  <2>27. Honours(query, result)
    BY <2>20, <2>21, <2>22, <2>23, <2>24, <2>25, <2>26
       DEF Honours, hitIds, outIds, pool, suiting, ids, recalled
  <2>28. QED BY <2>27 DEF result
<1>4. QED BY <1>2, <1>3

-----------------------------------------------------------------------------
(* Fusion *)

(* A product has one place in a ranking, or the one given for none.        *)
LEMMA PlaceOf ==
  ASSUME NEW T, NEW ranking, Once(ranking, T), NEW p, NEW missing
  PROVE  /\ \A i \in DOMAIN ranking : ranking[i] = p =>
              Contains(ranking, p) /\ Place(p, ranking, missing) = i
         /\ p \notin ToSet(ranking) => Place(p, ranking, missing) = missing
         /\ p \in ToSet(ranking) => \E i \in DOMAIN ranking : ranking[i] = p
<1>1. DOMAIN ranking = 1..Len(ranking)
  BY DEF Once
<1>2. Contains(ranking, p) <=> \E i \in DOMAIN ranking : ranking[i] = p
  BY <1>1 DEF Contains
<1>3. p \in ToSet(ranking) <=> \E i \in DOMAIN ranking : ranking[i] = p
  BY DEF ToSet
<1>4. ASSUME NEW i \in DOMAIN ranking, ranking[i] = p PROVE Place(p, ranking, missing) = i
  <2>1. \A j \in DOMAIN ranking : ranking[j] = p => j = i
    BY <1>4 DEF Once
  <2>2. (CHOOSE j \in DOMAIN ranking : ranking[j] = p) = i
    BY <1>4, <2>1
  <2>3. QED BY <1>2, <1>4, <2>2 DEF Place
<1>5. QED BY <1>2, <1>3, <1>4 DEF Place

(* What a ranking places before another product scores more in it.         *)
LEMMA RankAhead ==
  ASSUME NEW T, NEW ranking, Once(ranking, T), NEW p, NEW q, NEW missing \in Nat,
         missing > Len(ranking), Place(p, ranking, missing) <= Place(q, ranking, missing)
  PROVE  /\ ~Above(RankScore(q, ranking), RankScore(p, ranking))
         /\ p # q /\ q \in ToSet(ranking) =>
              Above(RankScore(p, ranking), RankScore(q, ranking))
<1> DEFINE x == RankScore(p, ranking)
           y == RankScore(q, ranking)
           n == Len(ranking)
<1>1. n \in Nat /\ DOMAIN ranking = 1..n
  BY DEF Once
<1>2. Fraction(x) /\ Fraction(y)
  BY RankScoreAt
<1>3. CASE q \notin ToSet(ranking)
  <2>1. y = <<0, 1>>
    BY <1>3, RankScoreAt
  <2> HIDE DEF x, y
  <2>2. y[1] = 0 /\ y[2] = 1 /\ x[1] \in Nat /\ x[2] \in Nat
    BY <1>2, <2>1 DEF Fraction
  <2>3. ~Above(y, x)
    BY <2>2 DEF Above
  <2>4. QED BY <1>3, <2>3 DEF x, y
<1>4. CASE q \in ToSet(ranking)
  <2>1. PICK j \in DOMAIN ranking : ranking[j] = q
    BY <1>4, PlaceOf
  <2>2. Place(q, ranking, missing) = j /\ y = <<1, RrfK + j>>
    BY <2>1, PlaceOf, RankScoreAt
  <2>3. p \in ToSet(ranking)
    <3> SUFFICES ASSUME p \notin ToSet(ranking) PROVE FALSE
      OBVIOUS
    <3>1. Place(p, ranking, missing) = missing
      BY PlaceOf
    <3>2. j \in 1..n /\ missing <= j /\ missing > n
      BY <1>1, <2>2, <3>1
    <3> HIDE DEF n
    <3>3. QED BY <1>1, <3>2
  <2>4. PICK i \in DOMAIN ranking : ranking[i] = p
    BY <2>3, PlaceOf
  <2>5. Place(p, ranking, missing) = i /\ x = <<1, RrfK + i>>
    BY <2>4, PlaceOf, RankScoreAt
  <2>6. i \in Nat /\ j \in Nat /\ i <= j /\ (p # q => i # j) /\ RrfK \in Nat
    BY <1>1, <2>1, <2>2, <2>4, <2>5, SearchAssumption
  <2> HIDE DEF x, y
  <2>7. /\ Above(y, x) <=> 1 * (RrfK + i) > 1 * (RrfK + j)
        /\ Above(x, y) <=> 1 * (RrfK + j) > 1 * (RrfK + i)
    BY <2>2, <2>5 DEF Above
  <2>8. ~Above(y, x) /\ (p # q => Above(x, y))
    BY <2>6, <2>7
  <2>9. QED BY <2>8 DEF x, y
<1>5. QED BY <1>3, <1>4

(* Sums of fractions, cleared of their denominators. *)
LEMMA SumsCompare ==
  ASSUME NEW a \in Nat, NEW b \in Nat \ {0}, NEW c \in Nat, NEW d \in Nat \ {0},
         NEW e \in Nat, NEW f \in Nat \ {0}, NEW g \in Nat, NEW h \in Nat \ {0},
         a * d >= c * b, e * h >= g * f, a * d > c * b \/ e * h > g * f
  PROVE  (a * f + e * b) * (d * h) > (c * h + g * d) * (b * f)
<1> DEFINE u == a * d
           v == c * b
           w == e * h
           x == g * f
           y == f * h
           z == b * d
<1>1. (a * f + e * b) * (d * h) = u * y + w * z
  <2>1. (a * f + e * b) * (d * h) = (a * f) * (d * h) + (e * b) * (d * h)
    OBVIOUS
  <2>2. (a * f) * (d * h) = u * y /\ (e * b) * (d * h) = w * z
    OBVIOUS
  <2> HIDE DEF u, w, y, z
  <2>3. QED BY <2>1, <2>2
<1>2. (c * h + g * d) * (b * f) = v * y + x * z
  <2>1. (c * h + g * d) * (b * f) = (c * h) * (b * f) + (g * d) * (b * f)
    OBVIOUS
  <2>2. (c * h) * (b * f) = v * y /\ (g * d) * (b * f) = x * z
    OBVIOUS
  <2> HIDE DEF v, x, y, z
  <2>3. QED BY <2>1, <2>2
<1>3. u \in Nat /\ v \in Nat /\ w \in Nat /\ x \in Nat /\ y \in Nat \ {0} /\ z \in Nat \ {0}
  OBVIOUS
<1>4. u >= v /\ w >= x /\ (u > v \/ w > x)
  OBVIOUS
<1> HIDE DEF u, v, w, x, y, z
<1>5. \A k, l \in Nat, m \in Nat \ {0} : (k >= l => k * m >= l * m) /\ (k > l => k * m > l * m)
  OBVIOUS
<1>6. u * y >= v * y /\ w * z >= x * z /\ (u * y > v * y \/ w * z > x * z)
  BY <1>3, <1>4, <1>5
<1>7. u * y \in Nat /\ v * y \in Nat /\ w * z \in Nat /\ x * z \in Nat
  BY <1>3
<1>8. u * y + w * z > v * y + x * z
  BY <1>6, <1>7
<1>9. QED BY <1>1, <1>2, <1>8

(* A sum is above another if no part is below and one is above. *)
LEMMA PlusAbove ==
  ASSUME NEW x, NEW y, NEW z, NEW w, Fraction(x), Fraction(y), Fraction(z), Fraction(w),
         ~Above(y, x), ~Above(w, z), Above(x, y) \/ Above(z, w)
  PROVE  Above(Plus(x, z), Plus(y, w))
<1> DEFINE a == x[1]
           b == x[2]
           c == y[1]
           d == y[2]
           e == z[1]
           f == z[2]
           g == w[1]
           h == w[2]
<1>1. /\ a \in Nat /\ b \in Nat \ {0} /\ c \in Nat /\ d \in Nat \ {0}
      /\ e \in Nat /\ f \in Nat \ {0} /\ g \in Nat /\ h \in Nat \ {0}
  BY DEF Fraction
<1>2. /\ ~(c * b > a * d) /\ ~(g * f > e * h)
      /\ a * d > c * b \/ e * h > g * f
  BY DEF Above
<1>3. Above(Plus(x, z), Plus(y, w)) <=>
        (a * f + e * b) * (d * h) > (c * h + g * d) * (b * f)
  BY DEF Above, Plus
<1> HIDE DEF a, b, c, d, e, f, g, h
<1>4. a * d >= c * b /\ e * h >= g * f
  <2>1. a * d \in Int /\ c * b \in Int /\ e * h \in Int /\ g * f \in Int
    BY <1>1
  <2>2. QED BY <1>2, <2>1
<1>5. QED BY <1>1, <1>2, <1>3, <1>4, SumsCompare

(* What both rankings place ahead is ahead in their fusion, and in it.     *)
LEMMA FusionRespects ==
  ASSUME NEW one, Once(one, Nat), NEW other, Once(other, Nat)
  PROVE  Respects(one, other, Fuse(one, other))
<1> DEFINE ids == FusedIds(one, other)
           order == FusedOrder(one, other)
           list == FusedList(one, other)
           fused == Fuse(one, other)
           missing == Len(one) + Len(other) + 1
<1>1. /\ StrictOrder(ids, order) /\ Lists(list, ids, order)
      /\ Once(list, Nat) /\ ToSet(list) = ids /\ fused = Top(RecallTopN, list)
  <2>1. Nat \subseteq Nat
    OBVIOUS
  <2>2. QED BY <2>1, FuseRanks
<1>2. missing \in Nat /\ missing > Len(one) /\ missing > Len(other)
  <2>1. Len(one) \in Nat /\ Len(other) \in Nat
    BY DEF Once
  <2>2. QED BY <2>1
<1> SUFFICES ASSUME NEW q \in ToSet(fused), NEW p \in ids, p # q,
                    Place(p, one, missing) <= Place(q, one, missing),
                    Place(p, other, missing) <= Place(q, other, missing)
             PROVE  /\ Contains(fused, p)
                    /\ Place(p, fused, missing) < Place(q, fused, missing)
  BY DEF Respects, FusedIds
<1> HIDE DEF list, fused, missing
<1>3. /\ Once(fused, Nat) /\ ToSet(fused) \subseteq ToSet(list)
      /\ DOMAIN fused \subseteq DOMAIN list
      /\ \A i \in DOMAIN fused : fused[i] = list[i]
      /\ \A i \in DOMAIN list \ DOMAIN fused, j \in DOMAIN fused : j < i
  BY <1>1, SearchAssumption, OnceTop
<1>4. Above(RrfScore(p, one, other), RrfScore(q, one, other))
  <2>1. /\ ~Above(RankScore(q, one), RankScore(p, one))
        /\ q \in ToSet(one) => Above(RankScore(p, one), RankScore(q, one))
    BY <1>2, RankAhead
  <2>2. /\ ~Above(RankScore(q, other), RankScore(p, other))
        /\ q \in ToSet(other) => Above(RankScore(p, other), RankScore(q, other))
    BY <1>2, RankAhead
  <2>3. q \in ids
    BY <1>1, <1>3
  <2>4. /\ Fraction(RankScore(p, one)) /\ Fraction(RankScore(q, one))
        /\ Fraction(RankScore(p, other)) /\ Fraction(RankScore(q, other))
    BY RankScoreAt
  <2>5. QED BY <2>1, <2>2, <2>3, <2>4, PlusAbove DEF RrfScore, FusedIds
<1>5. q \in ids /\ <<p, q>> \in order
  BY <1>1, <1>3, <1>4 DEF FusedOrder
<1> HIDE DEF order, ids
<1>6. <<q, p>> \notin order
  BY <1>1, <1>5 DEF StrictOrder
<1>7. PICK j \in DOMAIN fused : q = fused[j]
  BY DEF ToSet
<1>8. PICK i \in DOMAIN list : p = list[i]
  BY <1>1 DEF ToSet
<1>9. i \in Int /\ j \in Int /\ j \in DOMAIN list /\ q = list[j]
  <2>1. \A k \in DOMAIN list : k \in Int
    BY <1>1 DEF Lists
  <2>2. QED BY <1>3, <1>7, <2>1
<1>10. i < j
  <2>1. DOMAIN list = 1..Cardinality(ids)
    BY <1>1 DEF Lists
  <2>2. ~(j < i)
    BY <1>1, <1>6, <1>8, <1>9, <2>1 DEF Lists
  <2>3. QED BY <1>8, <1>9, <2>2
<1>11. i \in DOMAIN fused /\ fused[i] = p
  BY <1>3, <1>7, <1>8, <1>9, <1>10
<1>12. Contains(fused, p) /\ Place(p, fused, missing) = i /\ Place(q, fused, missing) = j
  BY <1>3, <1>7, <1>11, PlaceOf
<1>13. QED BY <1>10, <1>12

-----------------------------------------------------------------------------
(* Preferences *)

PlacesAt(at, Q) == {at[q] : q \in Q}

(* What is kept of what was kept.                                          *)
KeptTwice(seq, P, at, Q) ==
  /\ KeepPlaces(KeepPlaces(seq, P), Q) = KeepPlaces(seq, PlacesAt(at, Q))
  /\ Cardinality(PlacesAt(at, Q)) = Cardinality(Q)

(* Keeping some of what was kept is keeping those places of the whole.     *)
LEMMA KeptOfKept ==
  ASSUME NEW m \in Nat, NEW seq, NEW P, P \subseteq 1..m, NEW k, NEW at, Climbs(at, k, P),
         NEW Q, Q \subseteq 1..k
  PROVE  KeptTwice(seq, P, at, Q)
<1> DEFINE kept == KeepPlaces(seq, P)
           c == Cardinality(Q)
           image == {at[q] : q \in Q}
<1>1. /\ k \in Nat /\ at \in [1..k -> P]
      /\ \A i, j \in 1..k : i < j => at[i] < at[j]
  BY DEF Climbs
<1>2. kept = [n \in 1..k |-> seq[at[n]]]
  <2>1. KeptBy(kept, seq, k, at)
    BY PlacesKept
  <2> HIDE DEF kept
  <2>2. QED BY <2>1 DEF KeptBy
<1>3. PICK bt : Climbs(bt, c, Q) /\ KeepPlaces(kept, Q) = [n \in 1..c |-> kept[bt[n]]]
  BY <1>1, KeepPlacesKeeps DEF Keeps
<1> HIDE DEF c, kept
<1>4. /\ c \in Nat /\ bt \in [1..c -> Q]
      /\ \A q \in Q : \E n \in 1..c : bt[n] = q
      /\ \A i, j \in 1..c : i < j => bt[i] < bt[j]
  BY <1>3 DEF Climbs
<1>5. \A n \in 1..c : bt[n] \in 1..k /\ bt[n] \in Q
  BY <1>4
<1> DEFINE ct == [n \in 1..c |-> at[bt[n]]]
<1>6. Climbs(ct, c, image)
  <2>1. ct \in [1..c -> image]
    BY <1>5
  <2>2. \A x \in image : \E n \in 1..c : ct[n] = x
    BY <1>4
  <2>3. \A i, j \in 1..c : i < j => ct[i] < ct[j]
    <3> SUFFICES ASSUME NEW i \in 1..c, NEW j \in 1..c, i < j PROVE ct[i] < ct[j]
      OBVIOUS
    <3> DEFINE a == bt[i]
               b == bt[j]
    <3>1. a \in 1..k /\ b \in 1..k /\ a < b
      BY <1>4, <1>5
    <3>2. ct[i] = at[a] /\ ct[j] = at[b]
      OBVIOUS
    <3> HIDE DEF a, b, ct
    <3>3. QED BY <1>1, <3>1, <3>2
  <2> HIDE DEF ct, image
  <2>4. QED BY <1>4, <2>1, <2>2, <2>3 DEF Climbs
<1>7. image \in SUBSET (1..m)
  BY <1>1
<1>8. KeepPlaces(kept, Q) = [n \in 1..c |-> seq[ct[n]]]
  <2>1. \A n \in 1..c : kept[bt[n]] = seq[ct[n]]
    BY <1>2, <1>5
  <2>2. QED BY <1>3, <2>1
<1> HIDE DEF ct, image
<1>9. KeepPlaces(seq, image) = [n \in 1..c |-> seq[ct[n]]]
  <2>1. KeptBy(KeepPlaces(seq, image), seq, c, ct)
    BY <1>6, <1>7, PlacesKept
  <2>2. QED BY <2>1 DEF KeptBy
<1>10. Cardinality(image) = c
  BY <1>6, <1>7, PlacesKept
<1>11. KeepPlaces(kept, Q) = KeepPlaces(seq, image)
  BY <1>8, <1>9
<1>12. QED BY <1>10, <1>11 DEF kept, c, image, PlacesAt, KeptTwice

(* The k best places.                                                      *)
LEMMA BestPlacesBest ==
  ASSUME NEW m \in Nat, NEW scores, DOMAIN scores = 1..m, \A i \in 1..m : scores[i] \in Int,
         NEW k \in 0..m
  PROVE  /\ BestPlaces(scores, k) \subseteq 1..m /\ Cardinality(BestPlaces(scores, k)) = k
         /\ \A i \in BestPlaces(scores, k), j \in (1..m) \ BestPlaces(scores, k) :
              scores[i] >= scores[j]
<1> DEFINE R == {pair \in (1..m) \X (1..m) :
             \/ scores[pair[1]] > scores[pair[2]]
             \/ ~(scores[pair[2]] > scores[pair[1]]) /\ pair[1] < pair[2]}
           list == InOrder(1..m, R)
           best == BestPlaces(scores, k)
<1>1. best = {list[n] : n \in 1..k}
  BY DEF BestPlaces, Ranked
<1>2. \A x, y \in 1..m : <<x, y>> \in R =>
         scores[x] > scores[y] \/ ~(scores[y] > scores[x])
  OBVIOUS
<1>3. StrictOrder(1..m, R) /\ IsFiniteSet(1..m) /\ Cardinality(1..m) = m
  <2>1. 1..m \in SUBSET Int
    OBVIOUS
  <2>2. StrictOrder(1..m, R)
    BY <2>1, NumbersOrdered
  <2>3. IsFiniteSet(1..m) /\ (IF 1 > m THEN 0 ELSE m - 1 + 1) = m
    BY FS_Interval
  <2>4. Cardinality(1..m) = m
    BY <2>3, FS_Interval
  <2>5. QED BY <2>2, <2>3, <2>4
<1> HIDE DEF R
<1>4. Lists(list, 1..m, R)
  BY <1>3, InOrderLists
<1> HIDE DEF list, best
<1>5. /\ list \in [1..m -> 1..m]
      /\ \A x \in 1..m : \E i \in 1..m : list[i] = x
      /\ \A i, j \in 1..m : i < j => <<list[i], list[j]>> \in R
  BY <1>3, <1>4 DEF Lists
<1>6. \A i, j \in 1..m : list[i] = list[j] => i = j
  <2>1. Once(list, 1..m)
    BY <1>3, <1>4, ListsOnce
  <2>2. DOMAIN list = 1..m
    BY <1>5
  <2>3. QED BY <2>1, <2>2 DEF Once
<1>7. 1..k \subseteq 1..m /\ k \in Nat
  OBVIOUS
<1>8. best \subseteq 1..m
  BY <1>1, <1>5, <1>7
<1>9. Cardinality(best) = k
  <2> DEFINE f == [n \in 1..k |-> list[n]]
  <2>1. f \in Bijection(1..k, best)
    BY <1>1, <1>5, <1>6, <1>7 DEF Bijection, Injection, Surjection, IsInjective
  <2>2. IsFiniteSet(1..k) /\ (IF 1 > k THEN 0 ELSE k - 1 + 1) = k
    BY <1>7, FS_Interval
  <2>3. Cardinality(1..k) = k
    BY <1>7, <2>2, FS_Interval
  <2> HIDE DEF f
  <2>4. QED BY <2>1, <2>2, <2>3, FS_Bijection DEF ExistsBijection
<1>10. ASSUME NEW i \in best, NEW j \in (1..m) \ best PROVE scores[i] >= scores[j]
  <2>1. PICK a \in 1..k : i = list[a]
    BY <1>1
  <2>2. PICK b \in 1..m : j = list[b]
    BY <1>5
  <2>3. b \notin 1..k
    BY <1>1, <2>2
  <2>4. a < b /\ a \in 1..m
    BY <2>3
  <2>5. i \in 1..m /\ j \in 1..m /\ <<i, j>> \in R
    BY <1>5, <1>8, <2>1, <2>2, <2>4
  <2>6. scores[i] \in Int /\ scores[j] \in Int /\ (scores[i] > scores[j] \/ ~(scores[j] > scores[i]))
    BY <1>2, <2>5
  <2>7. QED BY <2>6
<1>11. QED BY <1>8, <1>9, <1>10 DEF best

(* The places of likes and of dislikes. *)
LikeAt(prefs) == {i \in DOMAIN prefs : prefs[i].kind # "dislike"}

(* Likes after dislikes are what is left without the dislikes.             *)
LEMMA LikesAfter ==
  ASSUME NEW T, NEW first \in Seq(T), NEW rest \in Seq(T),
         \A i \in DOMAIN first : first[i].kind = "dislike",
         \A i \in DOMAIN rest : rest[i].kind # "dislike"
  PROVE  Likes(first \o rest) = rest
<1> DEFINE a == Len(first)
           b == Len(rest)
           all == first \o rest
           P == LikeAt(all)
           at == [n \in 1..b |-> a + n]
<1>1. /\ a \in Nat /\ b \in Nat /\ DOMAIN first = 1..a /\ DOMAIN rest = 1..b
      /\ DOMAIN all = 1..(a + b)
      /\ \A i \in 1..a : all[i] = first[i]
      /\ \A n \in 1..b : all[a + n] = rest[n]
  OBVIOUS
<1>2. rest = [n \in 1..b |-> rest[n]]
  OBVIOUS
<1> HIDE DEF a, b, all
<1>3. \A i \in 1..(a + b) : i \in 1..a \/ \E n \in 1..b : i = a + n
  <2> SUFFICES ASSUME NEW i \in 1..(a + b), i \notin 1..a PROVE \E n \in 1..b : i = a + n
    OBVIOUS
  <2>1. i - a \in 1..b /\ i = a + (i - a)
    BY <1>1
  <2>2. QED BY <2>1
<1>4. \A n \in 1..b : a + n \in 1..(a + b)
  BY <1>1
<1>5. \A i : i \in P <=> \E n \in 1..b : i = a + n
  <2>1. \A n \in 1..b : a + n \in P
    BY <1>1, <1>4 DEF LikeAt
  <2>2. \A i \in P : i \in 1..(a + b) /\ i \notin 1..a
    BY <1>1 DEF LikeAt
  <2> HIDE DEF P
  <2>3. QED BY <1>3, <2>1, <2>2
<1>6. P \in SUBSET (1..(a + b)) /\ a + b \in Nat
  BY <1>1 DEF LikeAt
<1> HIDE DEF P
<1>7. Climbs(at, b, P)
  <2>1. at \in [1..b -> P] /\ \A n \in 1..b : at[n] = a + n
    BY <1>5
  <2> HIDE DEF at
  <2>2. \A p \in P : \E n \in 1..b : at[n] = p
    BY <1>5, <2>1
  <2>3. \A i, j \in 1..b : i < j => at[i] < at[j]
    BY <1>1, <2>1
  <2>4. QED BY <1>1, <2>1, <2>2, <2>3 DEF Climbs
<1>8. KeepPlaces(all, P) = [n \in 1..b |-> all[at[n]]]
  <2> HIDE DEF at
  <2>1. KeptBy(KeepPlaces(all, P), all, b, at)
    BY <1>6, <1>7, PlacesKept
  <2>2. QED BY <2>1 DEF KeptBy
<1>9. KeepPlaces(all, P) = rest
  BY <1>1, <1>2, <1>8
<1>10. QED BY <1>9 DEF Likes, P, LikeAt, all

(* The best of what was kept, as places of the sequence it was kept from.  *)
Chosen(I, P, at, n, scores) ==
  \A i \in I, j \in P \ I : \E q, r \in 1..n : i = at[q] /\ j = at[r] /\ scores[q] >= scores[r]

Scores(scores, n) == DOMAIN scores = 1..n /\ \A i \in 1..n : scores[i] \in Int

BestKept(seq, P, at, n, scores, k) ==
  \E I \in SUBSET P :
    /\ Cardinality(I) = k /\ Chosen(I, P, at, n, scores)
    /\ KeepPlaces(KeepPlaces(seq, P), BestPlaces(scores, k)) = KeepPlaces(seq, I)

(* The best of what was kept are places of the whole, none worse than      *)
(* another.                                                                *)
LEMMA BestOfKept ==
  ASSUME NEW m \in Nat, NEW seq, NEW P, P \subseteq 1..m, NEW n, NEW at, Climbs(at, n, P),
         NEW scores, Scores(scores, n),
         NEW k \in 0..n
  PROVE  BestKept(seq, P, at, n, scores, k)
<1> DEFINE Q == BestPlaces(scores, k)
           I == PlacesAt(at, Q)
<1>1. n \in Nat /\ at \in [1..n -> P] /\ \A p \in P : \E q \in 1..n : at[q] = p
  BY DEF Climbs
<1>2. /\ Q \subseteq 1..n /\ Cardinality(Q) = k
      /\ \A i \in Q, j \in (1..n) \ Q : scores[i] >= scores[j]
  BY <1>1, BestPlacesBest DEF Scores
<1> HIDE DEF Q
<1>3. /\ KeepPlaces(KeepPlaces(seq, P), Q) = KeepPlaces(seq, I)
      /\ Cardinality(I) = Cardinality(Q)
  <2>1. KeptTwice(seq, P, at, Q)
    BY <1>2, KeptOfKept
  <2>2. QED BY <2>1 DEF KeptTwice
<1>4. I \in SUBSET P
  BY <1>1, <1>2 DEF PlacesAt
<1>5. Chosen(I, P, at, n, scores)
  <2> SUFFICES ASSUME NEW i \in I, NEW j \in P \ I
               PROVE  \E q, r \in 1..n : i = at[q] /\ j = at[r] /\ scores[q] >= scores[r]
    BY DEF Chosen
  <2>1. PICK q \in Q : i = at[q]
    BY DEF PlacesAt
  <2>2. PICK r \in 1..n : j = at[r]
    BY <1>1
  <2>3. r \notin Q
    BY <2>2 DEF PlacesAt
  <2>4. q \in 1..n /\ scores[q] >= scores[r]
    BY <1>2, <2>3
  <2>5. QED BY <2>1, <2>2, <2>4
<1>6. QED BY <1>2, <1>3, <1>4, <1>5 DEF Q, BestKept

(* What a selection takes: the likes at some places.                       *)
Picks(prefs, relevance, k, I) ==
  /\ I \in SUBSET LikeAt(prefs)
  /\ Cardinality(I) <= k \/ I = {}
  /\ Cardinality(I) < k => I = LikeAt(prefs)
  /\ \A i \in I, j \in LikeAt(prefs) \ I :
       Worth(prefs[i], relevance) >= Worth(prefs[j], relevance)

(* The preferences of a buyer are a list without repetitions. *)
LEMMA OnceListed ==
  ASSUME NEW prefs, NEW relevance, NEW k, IsSelection(prefs, relevance, k)
  PROVE  Once(prefs, ToSet(prefs))
BY DEF Once, IsSelection

(* Of no places nothing is kept. *)
LEMMA NothingKept ==
  ASSUME NEW T, NEW seq, Once(seq, T)
  PROVE  KeepPlaces(seq, {}) = <<>>
<1>1. {} \in SUBSET DOMAIN seq
  OBVIOUS
<1>2. Once(KeepPlaces(seq, {}), T) /\ ToSet(KeepPlaces(seq, {})) = {seq[p] : p \in {}}
  BY <1>1, OnceKept
<1>3. QED BY <1>2, OnceNone

(* What is selected is the dislikes and the likes at the picked places.    *)
LEMMA SelectPicks ==
  ASSUME NEW prefs, NEW relevance, NEW k, IsSelection(prefs, relevance, k)
  PROVE  \E I : /\ Picks(prefs, relevance, k, I)
                /\ Select(prefs, relevance, k) = Dislikes(prefs) \o KeepPlaces(prefs, I)
<1> DEFINE P == LikeAt(prefs)
           m == Len(prefs)
           likes == Likes(prefs)
           first == Dislikes(prefs)
           T == ToSet(prefs)
           n == Cardinality(P)
<1>1. Once(prefs, T)
  BY OnceListed
<1>2. /\ k \in Int /\ m \in Nat /\ DOMAIN prefs = 1..m
      /\ \A i \in 1..m : /\ prefs[i].at \in Int
                         /\ relevance \notin {Unranked, RankingFails} =>
                              relevance[prefs[i].statement] \in Int
  BY DEF IsSelection
<1>3. P \in SUBSET (1..m) /\ P \in SUBSET DOMAIN prefs
  BY <1>2 DEF LikeAt
<1>4. likes = KeepPlaces(prefs, P)
  BY DEF Likes, LikeAt
<1>5. Len(likes) = n
  BY <1>1, <1>3, <1>4, OnceKept
<1>6. first \in Seq(T)
  <2>1. {i \in DOMAIN prefs : prefs[i].kind = "dislike"} \in SUBSET DOMAIN prefs
    OBVIOUS
  <2>2. QED BY <1>1, <2>1, OnceKept DEF Dislikes, Once
<1>7. PICK at : Climbs(at, n, P) /\ likes = [i \in 1..n |-> prefs[at[i]]]
  <2>1. Keeps(KeepPlaces(prefs, P), prefs, P)
    BY <1>2, <1>3, KeepPlacesKeeps
  <2>2. QED BY <1>4, <2>1 DEF Keeps
<1>8. n \in Nat /\ at \in [1..n -> P] /\ DOMAIN likes = 1..n
  BY <1>7 DEF Climbs
<1> HIDE DEF P, n, likes, first, m
<1>9. CASE k <= 0
  <2>1. Picks(prefs, relevance, k, {})
    BY <1>2, <1>9, FS_EmptySet DEF Picks
  <2>2. first \o <<>> = first
    BY <1>6
  <2>3. KeepPlaces(prefs, {}) = <<>>
    BY <1>1, NothingKept
  <2>4. Select(prefs, relevance, k) = first
    BY <1>9 DEF Select, first
  <2>5. QED BY <2>1, <2>2, <2>3, <2>4 DEF first
<1>10. CASE k > 0 /\ n <= k
  <2>1. Picks(prefs, relevance, k, P)
    BY <1>2, <1>8, <1>10 DEF Picks, P, n
  <2>2. Select(prefs, relevance, k) = first \o likes
    BY <1>2, <1>5, <1>10 DEF Select, first, likes
  <2>3. QED BY <1>4, <2>1, <2>2 DEF first
<1>11. CASE k > 0 /\ ~(n <= k)
  <2> DEFINE dated == relevance \in {Unranked, RankingFails}
             scores == IF dated THEN [i \in 1..n |-> likes[i].at]
                       ELSE [i \in 1..n |-> relevance[likes[i].statement]]
  <2>1. Select(prefs, relevance, k) = first \o KeepPlaces(likes, BestPlaces(scores, k))
    <3>1. CASE relevance = Unranked
      <4>1. Select(prefs, relevance, k) = first \o LatestFirst(likes, k)
        BY <1>2, <1>5, <1>11, <3>1 DEF Select, first, likes
      <4>2. LatestFirst(likes, k) = KeepPlaces(likes, BestPlaces(scores, k))
        BY <1>8, <3>1 DEF LatestFirst
      <4>3. QED BY <4>1, <4>2
    <3>2. CASE relevance # Unranked
      <4>1. Select(prefs, relevance, k) = first \o RankByRelevance(likes, relevance, k)
        BY <1>2, <1>5, <1>11, <3>2 DEF Select, first, likes
      <4>2. RankByRelevance(likes, relevance, k) = KeepPlaces(likes, BestPlaces(scores, k))
        BY <1>8, <3>2 DEF LatestFirst, RankByRelevance
      <4>3. QED BY <4>1, <4>2
    <3>3. QED BY <3>1, <3>2
  <2>2. \A i \in 1..n : likes[i] = prefs[at[i]] /\ at[i] \in 1..m
    BY <1>3, <1>7, <1>8
  <2>3. /\ DOMAIN scores = 1..n
        /\ \A i \in 1..n : scores[i] \in Int /\ scores[i] = Worth(prefs[at[i]], relevance)
    <3>1. CASE dated
      BY <1>2, <2>2, <3>1 DEF Worth
    <3>2. CASE ~dated
      BY <1>2, <2>2, <3>2 DEF Worth
    <3>3. QED BY <3>1, <3>2
  <2> HIDE DEF scores
  <2>4. k \in 0..n
    BY <1>2, <1>8, <1>11
  <2>5. PICK I \in SUBSET P :
           /\ Cardinality(I) = k /\ Chosen(I, P, at, n, scores)
           /\ KeepPlaces(KeepPlaces(prefs, P), BestPlaces(scores, k)) = KeepPlaces(prefs, I)
    <3>1. Scores(scores, n)
      BY <2>3 DEF Scores
    <3>2. m \in Nat /\ P \in SUBSET (1..m) /\ Climbs(at, n, P)
      BY <1>2, <1>3, <1>7
    <3>3. BestKept(prefs, P, at, n, scores, k)
      BY <2>4, <3>1, <3>2, BestOfKept
    <3>4. QED BY <3>3 DEF BestKept
  <2>6. ASSUME NEW i \in I, NEW j \in P \ I
        PROVE  Worth(prefs[i], relevance) >= Worth(prefs[j], relevance)
    <3>1. PICK q \in 1..n, r \in 1..n : i = at[q] /\ j = at[r] /\ scores[q] >= scores[r]
      BY <2>5 DEF Chosen
    <3>2. QED BY <2>3, <3>1
  <2>7. Picks(prefs, relevance, k, I)
    BY <1>2, <2>5, <2>6 DEF Picks, P
  <2>8. QED BY <1>4, <2>1, <2>5, <2>7 DEF first
<1>12. QED BY <1>2, <1>8, <1>9, <1>10, <1>11

(* What the selection promises.                                            *)
LEMMA SelectionChosenWell ==
  ASSUME NEW prefs, NEW relevance, NEW k, IsSelection(prefs, relevance, k)
  PROVE  ChosenWell(prefs, relevance, k)
<1> DEFINE P == LikeAt(prefs)
           D == {i \in DOMAIN prefs : prefs[i].kind = "dislike"}
           first == Dislikes(prefs)
           T == ToSet(prefs)
           chosen == Select(prefs, relevance, k)
<1>1. Once(prefs, T) /\ k \in Int
  BY OnceListed DEF IsSelection
<1>2. PICK I : Picks(prefs, relevance, k, I) /\ chosen = first \o KeepPlaces(prefs, I)
  BY SelectPicks
<1> DEFINE rest == KeepPlaces(prefs, I)
<1>3. P \in SUBSET DOMAIN prefs /\ D \in SUBSET DOMAIN prefs /\ I \in SUBSET DOMAIN prefs
      /\ I \in SUBSET P
  BY <1>2 DEF Picks, LikeAt
<1>4. first \in Seq(T) /\ ToSet(first) = {prefs[p] : p \in D}
  BY <1>1, <1>3, OnceKept DEF Dislikes, Once
<1>5. rest \in Seq(T) /\ Once(rest, T) /\ ToSet(rest) = {prefs[p] : p \in I} /\ Len(rest) = Cardinality(I)
  BY <1>1, <1>3, OnceKept DEF Once
<1>6. ToSet(Likes(prefs)) = {prefs[p] : p \in P} /\ Likes(prefs) = KeepPlaces(prefs, P)
  <2>1. Likes(prefs) = KeepPlaces(prefs, P)
    BY DEF Likes, LikeAt
  <2>2. QED BY <1>1, <1>3, <2>1, OnceKept
<1>7. \A p \in D : prefs[p].kind = "dislike"
  OBVIOUS
<1>8. \A p \in P : prefs[p].kind # "dislike"
  BY DEF LikeAt
<1> HIDE DEF P, D, first, chosen, rest
<1>9. \A i \in DOMAIN first : first[i].kind = "dislike"
  BY <1>4, <1>7 DEF ToSet
<1>10. \A i \in DOMAIN rest : rest[i].kind # "dislike"
  <2>1. \A i \in DOMAIN rest : rest[i] \in ToSet(rest)
    BY DEF ToSet
  <2>2. QED BY <1>3, <1>5, <1>8, <2>1
<1>11. Likes(chosen) = rest
  <2>1. Likes(first \o rest) = rest
    BY <1>4, <1>5, <1>9, <1>10, LikesAfter
  <2>2. QED BY <1>2, <2>1 DEF rest
<1>12. Len(rest) <= k \/ rest = <<>>
  <2>1. CASE I = {}
    <3>1. ToSet(rest) = {}
      BY <1>5, <2>1
    <3>2. QED BY <1>5, <3>1, OnceNone
  <2>2. QED BY <1>2, <1>5, <2>1 DEF Picks
<1>13. Len(rest) < k => ToSet(Likes(prefs)) \ ToSet(rest) = {}
  BY <1>2, <1>5, <1>6 DEF Picks, P
<1>14. I = {i \in DOMAIN prefs : Contains(rest, prefs[i])}
  <2>1. \A x : Contains(rest, x) <=> x \in ToSet(rest)
    <3>1. DOMAIN rest = 1..Len(rest)
      BY <1>5
    <3>2. QED BY <3>1 DEF Contains, ToSet
  <2>2. \A i, j \in DOMAIN prefs : prefs[i] = prefs[j] => i = j
    BY <1>1 DEF Once
  <2>3. \A i : i \in I <=> i \in DOMAIN prefs /\ Contains(rest, prefs[i])
    BY <1>3, <1>5, <2>1, <2>2
  <2>4. QED BY <2>3
<1>15. ASSUME NEW p \in ToSet(rest), NEW q \in ToSet(Likes(prefs)) \ ToSet(rest)
       PROVE  Worth(p, relevance) >= Worth(q, relevance)
  <2>1. PICK i \in I : p = prefs[i]
    BY <1>5
  <2>2. PICK j \in P : q = prefs[j]
    BY <1>6
  <2>3. j \notin I
    BY <1>5, <2>2
  <2>4. QED BY <1>2, <2>1, <2>2, <2>3 DEF Picks, P
<1>16. rest = KeepPlaces(prefs, {i \in DOMAIN prefs : Contains(rest, prefs[i])})
  BY <1>14 DEF rest
<1>17. chosen = first \o rest
  BY <1>2 DEF rest
<1>18. QED
  BY <1>11, <1>12, <1>13, <1>15, <1>16, <1>17 DEF ChosenWell, chosen, first

(* The items of a list come after those of the one it is appended to.      *)
LEMMA Joined ==
  ASSUME NEW T, NEW first \in Seq(T), NEW rest \in Seq(T)
  PROVE  /\ Len(first \o rest) = Len(first) + Len(rest)
         /\ \A n \in 1..Len(rest) : (first \o rest)[Len(first) + n] = rest[n]
OBVIOUS

(* Two items joined. *)
LEMMA TwoParts ==
  ASSUME NEW x, NEW y
  PROVE  <<x>> \o <<y>> = <<x, y>>
<1> DEFINE X == {x, y}
           a == <<x>>
           b == <<y>>
           c == a \o b
<1>1. a \in Seq(X) /\ b \in Seq(X) /\ Len(a) = 1 /\ Len(b) = 1 /\ a[1] = x /\ b[1] = y
  OBVIOUS
<1> HIDE DEF a, b, X
<1>2. c \in Seq(X) /\ Len(c) = 2 /\ c[1] = x /\ c[2] = y
  <2>1. c \in Seq(X)
    BY <1>1
  <2>2. Len(c) = 1 + 1
    BY <1>1, Joined
  <2>3. c[1] = a[1]
    BY <1>1
  <2>4. c[1 + 1] = b[1]
    <3>1. \A n \in 1..Len(b) : c[Len(a) + n] = b[n]
      BY <1>1, Joined, SMTT(20)
    <3>2. QED BY <1>1, <3>1
  <2> HIDE DEF c
  <2>5. QED BY <1>1, <2>1, <2>2, <2>3, <2>4
<1>3. <<x, y>> = [i \in 1..2 |-> IF i = 1 THEN x ELSE y]
  OBVIOUS
<1> HIDE DEF c
<1>4. c = [i \in 1..2 |-> c[i]]
  BY <1>2
<1>5. \A i \in 1..2 : c[i] = IF i = 1 THEN x ELSE y
  BY <1>2
<1>6. QED BY <1>3, <1>4, <1>5 DEF c, a, b

(* A sub-agent is told what the turn was told. *)
LEMMA SelectionToldTheSame ==
  ASSUME NEW prefs, NEW relevance, NEW k, IsSelection(prefs, relevance, k)
  PROVE  ToldTheSame(prefs, relevance, k)
<1> DEFINE T == ToSet(prefs)
           first == Dislikes(prefs)
           chosen == Select(prefs, relevance, k)
<1>1. Once(prefs, T) /\ prefs # Unreadable
  BY OnceListed DEF IsSelection
<1>2. PICK I : Picks(prefs, relevance, k, I) /\ chosen = first \o KeepPlaces(prefs, I)
  BY SelectPicks
<1>3. first \in Seq(T) /\ KeepPlaces(prefs, I) \in Seq(T)
  <2>1. {i \in DOMAIN prefs : prefs[i].kind = "dislike"} \in SUBSET DOMAIN prefs
        /\ I \in SUBSET DOMAIN prefs
    BY <1>2 DEF Picks, LikeAt
  <2>2. QED BY <1>1, <2>1, OnceKept DEF Dislikes, Once
<1> HIDE DEF first, chosen
<1>4. first # <<>> => chosen # <<>>
  <2> SUFFICES ASSUME first # <<>> PROVE chosen # <<>>
    OBVIOUS
  <2>1. Len(first) \in Nat /\ Len(first) # 0 /\ Len(KeepPlaces(prefs, I)) \in Nat
    BY <1>3
  <2>2. Len(chosen) = Len(first) + Len(KeepPlaces(prefs, I))
    BY <1>2, <1>3
  <2>3. Len(chosen) # Len(<<>>)
    BY <2>1, <2>2
  <2>4. QED BY <2>3
<1>5. ASSUME NEW agent \in {"search_agent", "trade_agent", "other"}, NEW known \in BOOLEAN
      PROVE  /\ agent = "search_agent" /\ known /\ first # <<>> =>
                  Dispatch(agent, known, prefs, relevance, k) = <<chosen, "demands">>
             /\ Dispatch(agent, known, Unreadable, relevance, k) = <<"demands">> <=> agent # "other"
  <2>1. agent = "search_agent" /\ known /\ first # <<>> =>
          Dispatch(agent, known, prefs, relevance, k) = <<chosen, "demands">>
    <3> SUFFICES ASSUME agent = "search_agent", known, first # <<>>
                 PROVE  Dispatch(agent, known, prefs, relevance, k) = <<chosen, "demands">>
      OBVIOUS
    <3>1. Hint(agent, known, prefs, relevance, k) = chosen
      BY <1>1 DEF Hint, chosen
    <3>2. <<chosen>> \o <<"demands">> = <<chosen, "demands">>
      BY TwoParts
    <3>3. QED BY <1>4, <3>1, <3>2 DEF Dispatch
  <2>2. Dispatch(agent, known, Unreadable, relevance, k) = <<"demands">> <=> agent # "other"
    <3>1. Hint(agent, known, Unreadable, relevance, k) = <<>>
      BY DEF Hint
    <3>2. <<>> \o <<"demands">> = <<"demands">> /\ <<"unknown agent">> # <<"demands">>
      OBVIOUS
    <3>3. QED BY <3>1, <3>2 DEF Dispatch
  <2>3. QED BY <2>1, <2>2
<1>6. QED BY <1>5 DEF ToldTheSame, first, chosen

-----------------------------------------------------------------------------
(* Preference stores *)

(* The places that climb, named. *)
LEMMA KeptAt ==
  ASSUME NEW m \in Nat, NEW P, P \subseteq 1..m, NEW seq
  PROVE  \E at : Climbs(at, Cardinality(P), P)
                /\ KeptBy(KeepPlaces(seq, P), seq, Cardinality(P), at)
<1>1. Keeps(KeepPlaces(seq, P), seq, P)
  BY KeepPlacesKeeps
<1>2. QED BY <1>1 DEF Keeps, KeptBy

(* What is kept depends on the places kept.                                *)
AgreeOn(seq, other, P) == \A p \in P : seq[p] = other[p]

(* Two lists that agree on the places keep the same. *)
LEMMA KeepSame ==
  ASSUME NEW m \in Nat, NEW P, P \subseteq 1..m, NEW seq, NEW other, AgreeOn(seq, other, P)
  PROVE  KeepPlaces(seq, P) = KeepPlaces(other, P)
<1> DEFINE k == Cardinality(P)
<1>0. PICK at : Climbs(at, k, P) /\ KeptBy(KeepPlaces(seq, P), seq, k, at)
  BY KeptAt
<1>1. Climbs(at, k, P) /\ KeepPlaces(seq, P) = [n \in 1..k |-> seq[at[n]]]
  BY <1>0 DEF KeptBy
<1>2. KeptBy(KeepPlaces(other, P), other, k, at)
  BY <1>1, PlacesKept
<1>3. at \in [1..k -> P]
  BY <1>1 DEF Climbs
<1> HIDE DEF k
<1>4. \A n \in 1..k : seq[at[n]] = other[at[n]]
  BY <1>3 DEF AgreeOn
<1>5. QED BY <1>1, <1>2, <1>4 DEF KeptBy

(* What is found in what is kept. *)
Found(list, x) == \E n \in DOMAIN list : list[n] = x

Among(seq, P, x) == \E p \in P : seq[p] = x

(* What is kept is what is at the places, as much as there are places.     *)
LEMMA KeptFound ==
  ASSUME NEW m \in Nat, NEW P, P \subseteq 1..m, NEW seq
  PROVE  /\ Cardinality(P) \in Nat /\ DOMAIN KeepPlaces(seq, P) = 1..Cardinality(P)
         /\ \A x : Found(KeepPlaces(seq, P), x) <=> Among(seq, P, x)
         /\ \A U : (\A p \in P : seq[p] \in U) =>
              KeepPlaces(seq, P) \in Seq(U) /\ Len(KeepPlaces(seq, P)) = Cardinality(P)
<1> DEFINE k == Cardinality(P)
           kept == KeepPlaces(seq, P)
<1>0. PICK at : Climbs(at, k, P) /\ KeptBy(kept, seq, k, at)
  BY KeptAt
<1>1. Climbs(at, k, P) /\ kept = [n \in 1..k |-> seq[at[n]]]
  BY <1>0 DEF KeptBy
<1>2. /\ k \in Nat /\ at \in [1..k -> P] /\ \A p \in P : \E n \in 1..k : at[n] = p
  BY <1>1 DEF Climbs
<1> HIDE DEF k, kept
<1>3. DOMAIN kept = 1..k /\ \A n \in 1..k : kept[n] = seq[at[n]] /\ at[n] \in P
  BY <1>1, <1>2
<1>4. ASSUME NEW x PROVE Found(kept, x) <=> Among(seq, P, x)
  <2>1. Found(kept, x) <=> \E n \in 1..k : seq[at[n]] = x
    BY <1>3 DEF Found
  <2>2. QED BY <1>2, <1>3, <2>1 DEF Among
<1>5. ASSUME NEW U, \A p \in P : seq[p] \in U PROVE kept \in Seq(U) /\ Len(kept) = k
  <2>1. kept \in [1..k -> U]
    BY <1>1, <1>3, <1>5
  <2>2. QED BY <1>2, <2>1
<1>6. QED BY <1>2, <1>3, <1>4, <1>5 DEF k, kept

(* One place more.                                                         *)
LEMMA KeepNext ==
  ASSUME NEW m \in Nat, NEW P, P \subseteq 1..m, NEW seq, NEW U,
         \A p \in P : seq[p] \in U, seq[m + 1] \in U
  PROVE  KeepPlaces(seq, P \cup {m + 1}) = Append(KeepPlaces(seq, P), seq[m + 1])
<1> DEFINE k == Cardinality(P)
           kept == KeepPlaces(seq, P)
           q == m + 1
           R == P \cup {q}
<1>0. PICK at : Climbs(at, k, P) /\ KeptBy(kept, seq, k, at)
  BY KeptAt
<1>1. Climbs(at, k, P) /\ kept = [n \in 1..k |-> seq[at[n]]]
  BY <1>0 DEF KeptBy
<1>2. /\ k \in Nat /\ at \in [1..k -> P] /\ \A p \in P : \E n \in 1..k : at[n] = p
      /\ \A i, j \in 1..k : i < j => at[i] < at[j]
  BY <1>1 DEF Climbs
<1>3. kept \in Seq(U) /\ Len(kept) = k
  BY KeptFound
<1> HIDE DEF k, kept
<1>4. \A n \in 1..k : at[n] \in P /\ at[n] \in 1..m /\ at[n] < q
  <2>1. \A n \in 1..k : at[n] \in P
    BY <1>2
  <2>2. \A p \in P : p \in 1..m /\ p < q
    OBVIOUS
  <2> HIDE DEF q
  <2>3. QED BY <2>1, <2>2
<1> DEFINE bt == [n \in 1..(k + 1) |-> IF n <= k THEN at[n] ELSE q]
<1>5. /\ \A n \in 1..k : bt[n] = at[n] /\ n \in 1..(k + 1)
      /\ bt[k + 1] = q /\ k + 1 \in 1..(k + 1)
      /\ \A n \in 1..(k + 1) : n \in 1..k \/ n = k + 1
  BY <1>2
<1>6. Climbs(bt, k + 1, R)
  <2>1. bt \in [1..(k + 1) -> R]
    BY <1>2
  <2> HIDE DEF bt
  <2>2. \A p \in R : \E n \in 1..(k + 1) : bt[n] = p
    BY <1>2, <1>5
  <2>3. \A i, j \in 1..(k + 1) : i < j => bt[i] < bt[j]
    <3> SUFFICES ASSUME NEW i \in 1..(k + 1), NEW j \in 1..(k + 1), i < j PROVE bt[i] < bt[j]
      OBVIOUS
    <3>1. i \in 1..k
      BY <1>2
    <3>2. CASE j \in 1..k
      BY <1>2, <1>5, <3>1, <3>2
    <3>3. CASE j = k + 1
      BY <1>4, <1>5, <3>1, <3>3
    <3>4. QED BY <1>5, <3>2, <3>3
  <2>4. k + 1 \in Nat
    BY <1>2
  <2> HIDE DEF R
  <2>5. QED BY <2>1, <2>2, <2>3, <2>4 DEF Climbs
<1>7. R \subseteq 1..q /\ q \in Nat
  OBVIOUS
<1> HIDE DEF R, bt
<1>8. KeptBy(KeepPlaces(seq, R), seq, k + 1, bt)
  <2> HIDE DEF q
  <2>1. QED BY <1>6, <1>7, PlacesKept
<1> DEFINE longer == KeepPlaces(seq, R)
<1>9. longer = [n \in 1..(k + 1) |-> seq[bt[n]]]
  BY <1>8 DEF KeptBy
<1> HIDE DEF longer, q
<1>10. \A n \in 1..k : longer[n] = kept[n]
  BY <1>1, <1>5, <1>9
<1>11. longer[k + 1] = seq[q]
  BY <1>5, <1>9
<1>12. Append(kept, seq[q]) = [n \in 1..(k + 1) |-> IF n = k + 1 THEN seq[q] ELSE kept[n]]
  <2>1. seq[q] \in U
    BY DEF q
  <2>2. QED BY <1>3, <2>1
<1>13. longer = Append(kept, seq[q])
  BY <1>2, <1>5, <1>9, <1>10, <1>11, <1>12
<1>14. QED BY <1>13 DEF longer, kept, R, q

(* What is left without a statement. *)
Without(list, statement) == {i \in DOMAIN list : list[i].statement # statement}

LeftWithout(kept, seq, P, statement) ==
  LET left == KeepPlaces(kept, Without(kept, statement)) IN
  /\ left = KeepPlaces(seq, {p \in P : seq[p].statement # statement})
  /\ Len(left) < Len(kept) <=> \E p \in P : seq[p].statement = statement

(* Dropping a statement from what was kept is keeping the places without   *)
(* it.                                                                     *)
LEMMA KeptWithout ==
  ASSUME NEW m \in Nat, NEW P, P \subseteq 1..m, NEW seq, NEW statement
  PROVE  LeftWithout(KeepPlaces(seq, P), seq, P, statement)
<1> DEFINE k == Cardinality(P)
           kept == KeepPlaces(seq, P)
           Q == Without(kept, statement)
           left == KeepPlaces(kept, Q)
           R == {p \in P : seq[p].statement # statement}
<1>0. PICK at : Climbs(at, k, P) /\ KeptBy(kept, seq, k, at)
  BY KeptAt
<1>1. Climbs(at, k, P) /\ kept = [n \in 1..k |-> seq[at[n]]]
  BY <1>0 DEF KeptBy
<1>2. /\ k \in Nat /\ at \in [1..k -> P] /\ \A p \in P : \E n \in 1..k : at[n] = p
  BY <1>1 DEF Climbs
<1> HIDE DEF k
<1>3. DOMAIN kept = 1..k /\ \A n \in 1..k : kept[n] = seq[at[n]] /\ at[n] \in P
  BY <1>1, <1>2
<1>4. Q \subseteq 1..k /\ \A n \in 1..k : n \in Q <=> seq[at[n]].statement # statement
  BY <1>3 DEF Without
<1>5. KeptTwice(seq, P, at, Q)
  <2> HIDE DEF Q
  <2>1. QED BY <1>1, <1>4, KeptOfKept
<1>6. PlacesAt(at, Q) = R
  <2> HIDE DEF Q, kept
  <2>1. \A q \in Q : at[q] \in R
    BY <1>3, <1>4
  <2>2. ASSUME NEW p \in R PROVE \E q \in Q : p = at[q]
    <3>1. PICK n \in 1..k : at[n] = p
      BY <1>2
    <3>2. n \in Q
      BY <1>4, <3>1
    <3>3. QED BY <3>1, <3>2
  <2> HIDE DEF R
  <2>3. \A p : p \in PlacesAt(at, Q) <=> p \in R
    BY <2>1, <2>2 DEF PlacesAt
  <2>4. QED BY <2>3
<1>7. left = KeepPlaces(seq, R)
  BY <1>5, <1>6 DEF KeptTwice
<1>8. Len(kept) = k
  BY <1>2, <1>3
<1>9. Len(left) = Cardinality(Q)
  <2> HIDE DEF kept, Q
  <2>1. DOMAIN left = 1..Cardinality(Q) /\ Cardinality(Q) \in Nat
    BY <1>2, <1>4, KeptFound
  <2> HIDE DEF left
  <2>2. QED BY <2>1
<1>10. Cardinality(Q) < k <=> Q # 1..k
  <2>1. IsFiniteSet(1..k) /\ (IF 1 > k THEN 0 ELSE k - 1 + 1) = k
    BY <1>2, FS_Interval
  <2>2. Cardinality(1..k) = k
    BY <1>2, <2>1, FS_Interval
  <2> HIDE DEF Q
  <2>3. IsFiniteSet(Q) /\ Cardinality(Q) <= k /\ (Cardinality(Q) = k => Q = 1..k)
    BY <1>4, <2>1, <2>2, FS_Subset
  <2>4. Cardinality(Q) \in Nat
    BY <2>3, FS_CardinalityType
  <2>5. QED BY <1>2, <2>2, <2>3, <2>4
<1>11. Q # 1..k <=> \E p \in P : seq[p].statement = statement
  <2> HIDE DEF Q, kept
  <2>1. Q # 1..k <=> \E n \in 1..k : n \notin Q
    BY <1>4
  <2>2. QED BY <1>2, <1>3, <1>4, <2>1
<1> HIDE DEF left, kept, Q
<1>12. Len(left) < Len(kept) <=> \E p \in P : seq[p].statement = statement
  BY <1>8, <1>9, <1>10, <1>11
<1>13. QED BY <1>7, <1>12 DEF left, kept, Q, LeftWithout

(* What may be said, and of what. *)
Sayings == {Saying(call, time) : call \in PreferenceCall, time \in Nat}
Said == {saying.pref : saying \in Sayings}

(* The rows of a table have ids of their own, all below the next.          *)
Ids(table) == {row.id : row \in table.rows}
PrefAt(table) == [id \in Ids(table) |-> (CHOOSE row \in table.rows : row.id = id).pref]

IsTable(table) ==
  /\ table = [rows |-> table.rows, nextId |-> table.nextId]
  /\ table.nextId \in Nat \ {0} /\ Ids(table) \subseteq 1..(table.nextId - 1)
  /\ \A row, other \in table.rows : row.id = other.id => row = other
  /\ \A row \in table.rows : row.pref \in Said

(* A row is found by its id. *)
LEMMA RowStored ==
  ASSUME NEW table, IsTable(table), NEW row \in table.rows
  PROVE  row.id \in Ids(table) /\ PrefAt(table)[row.id] = row.pref
<1>1. row.id \in Ids(table)
  BY DEF Ids
<1> DEFINE other == CHOOSE r \in table.rows : r.id = row.id
<1>2. other \in table.rows /\ other.id = row.id
  OBVIOUS
<1> HIDE DEF other
<1>3. other = row
  BY <1>2 DEF IsTable
<1>4. PrefAt(table)[row.id] = other.pref
  BY <1>1 DEF PrefAt, other
<1>5. QED BY <1>1, <1>3, <1>4

(* The list of a table, and what is on it. *)
LEMMA TableListed ==
  ASSUME NEW table, IsTable(table)
  PROVE  /\ SqlList(table) = KeepPlaces(PrefAt(table), Ids(table))
         /\ \A id \in Ids(table) : PrefAt(table)[id] \in Said
         /\ \A x : Found(SqlList(table), x) <=> \E row \in table.rows : row.pref = x
<1>1. SqlList(table) = KeepPlaces(PrefAt(table), Ids(table))
  BY DEF SqlList, PrefAt, Ids
<1>2. table.nextId - 1 \in Nat /\ Ids(table) \subseteq 1..(table.nextId - 1)
  BY DEF IsTable
<1>3. \A x : Found(SqlList(table), x) <=> \E id \in Ids(table) : PrefAt(table)[id] = x
  <2>1. \A x : Found(SqlList(table), x) <=> Among(PrefAt(table), Ids(table), x)
    BY <1>1, <1>2, KeptFound
  <2>2. QED BY <2>1 DEF Among
<1>4. \A row \in table.rows : row.id \in Ids(table) /\ PrefAt(table)[row.id] = row.pref
  BY RowStored
<1>5. \A id \in Ids(table) : \E row \in table.rows : row.id = id
  BY DEF Ids
<1>6. \A id \in Ids(table) : PrefAt(table)[id] \in Said
  BY <1>4, <1>5 DEF IsTable
<1>7. \A x : Found(SqlList(table), x) <=> \E row \in table.rows : row.pref = x
  BY <1>3, <1>4, <1>5
<1>8. QED BY <1>1, <1>6, <1>7

(* A row more is an item more of the list.                                 *)
LEMMA SqlAppends ==
  ASSUME NEW table, IsTable(table), NEW pref \in Said
  PROVE  /\ IsTable(SqlAppend(table, pref))
         /\ SqlList(SqlAppend(table, pref)) = JsonAppend(SqlList(table), pref)
<1> DEFINE twin == \E row \in table.rows : Twins(row.pref, pref)
           list == SqlList(table)
           new == SqlAppend(table, pref)
<1>1. twin <=> \E i \in DOMAIN list : Twins(list[i], pref)
  <2>1. \A x : Found(list, x) <=> \E row \in table.rows : row.pref = x
    BY TableListed
  <2> HIDE DEF list
  <2>2. (\E i \in DOMAIN list : Twins(list[i], pref)) <=> \E x : Found(list, x) /\ Twins(x, pref)
    BY DEF Found
  <2>3. QED BY <2>1, <2>2
<1>2. CASE twin
  <2>1. new = [table EXCEPT !.nextId = table.nextId + 1]
    BY <1>2 DEF SqlAppend
  <2>2. SqlList(new) = list /\ new.rows = table.rows
    <3>1. table.rows = new.rows
      BY <2>1
    <3> HIDE DEF new
    <3>2. QED BY <3>1 DEF SqlList
  <2>3. IsTable(new)
    <3>1. new = [rows |-> table.rows, nextId |-> table.nextId + 1]
      BY <2>1 DEF IsTable
    <3>2. new.nextId = table.nextId + 1 /\ new = [rows |-> new.rows, nextId |-> new.nextId]
      BY <3>1
    <3> HIDE DEF new
    <3>3. new.nextId \in Nat \ {0} /\ \A id \in 1..(table.nextId - 1) : id \in 1..(new.nextId - 1)
      BY <3>2 DEF IsTable
    <3>4. Ids(new) = Ids(table)
      BY <2>2 DEF Ids
    <3>5. QED BY <2>2, <3>2, <3>3, <3>4 DEF IsTable
  <2>4. JsonAppend(list, pref) = list
    BY <1>1, <1>2 DEF JsonAppend
  <2>5. QED BY <2>2, <2>3, <2>4
<1>3. CASE ~twin
  <2> DEFINE m == table.nextId - 1
             q == table.nextId
             row1 == [id |-> q, pref |-> pref]
  <2>1. m \in Nat /\ q = m + 1 /\ q \in Nat \ {0} /\ Ids(table) \subseteq 1..m
    BY DEF IsTable
  <2>2. new = [rows |-> table.rows \cup {row1}, nextId |-> q + 1]
    BY <1>3 DEF SqlAppend
  <2>3. /\ new.rows = table.rows \cup {row1} /\ new.nextId = q + 1
        /\ new = [rows |-> new.rows, nextId |-> new.nextId]
    BY <2>2
  <2>4. row1.id = q /\ row1.pref = pref
    OBVIOUS
  <2> HIDE DEF new, row1
  <2>5. Ids(new) = Ids(table) \cup {q}
    <3>1. \A id : id \in Ids(new) <=> id \in Ids(table) \cup {q}
      BY <2>3, <2>4 DEF Ids
    <3>2. QED BY <3>1
  <2>6. \A row \in table.rows : row.id \in 1..m
    BY <2>1 DEF Ids
  <2>7. IsTable(new)
    <3>1. \A row, other \in new.rows : row.id = other.id => row = other
      <4>1. \A row \in table.rows : row.id # row1.id
        BY <2>1, <2>4, <2>6
      <4>2. QED BY <2>3, <4>1 DEF IsTable
    <3>2. \A row \in new.rows : row.pref \in Said
      BY <2>3, <2>4 DEF IsTable
    <3>3. new.nextId \in Nat \ {0} /\ Ids(new) \subseteq 1..(new.nextId - 1)
      BY <2>1, <2>3, <2>5
    <3>4. QED BY <2>3, <3>1, <3>2, <3>3 DEF IsTable
  <2>8. AgreeOn(PrefAt(table), PrefAt(new), Ids(table))
    <3> SUFFICES ASSUME NEW id \in Ids(table) PROVE PrefAt(table)[id] = PrefAt(new)[id]
      BY DEF AgreeOn
    <3>1. PICK row \in table.rows : row.id = id
      BY DEF Ids
    <3>2. row \in new.rows
      BY <2>3
    <3>3. PrefAt(table)[row.id] = row.pref /\ PrefAt(new)[row.id] = row.pref
      BY <2>7, <3>2, RowStored
    <3>4. QED BY <3>1, <3>3
  <2>9. PrefAt(new)[q] = pref
    <3>1. row1 \in new.rows
      BY <2>3
    <3>2. PrefAt(new)[row1.id] = row1.pref
      BY <2>7, <3>1, RowStored
    <3>3. QED BY <2>4, <3>2
  <2>10. \A id \in Ids(table) : PrefAt(new)[id] \in Said
    BY <2>8, TableListed DEF AgreeOn
  <2> DEFINE seq == PrefAt(new)
             P == Ids(table)
  <2>11. KeepPlaces(seq, P) = list
    <3>1. KeepPlaces(PrefAt(table), P) = KeepPlaces(seq, P)
      <4> HIDE DEF seq, P, m
      <4>1. P \subseteq 1..m /\ m \in Nat /\ AgreeOn(PrefAt(table), seq, P)
        BY <2>1, <2>8 DEF P, seq
      <4>2. QED BY <4>1, KeepSame
    <3>2. QED BY <3>1, TableListed
  <2>12. KeepPlaces(seq, P \cup {m + 1}) = Append(KeepPlaces(seq, P), seq[m + 1])
    <3>1. P \subseteq 1..m /\ m \in Nat /\ (\A p \in P : seq[p] \in Said) /\ seq[m + 1] \in Said
      BY <2>1, <2>9, <2>10
    <3> HIDE DEF seq, P, m
    <3>2. QED BY <3>1, KeepNext
  <2>13. SqlList(new) = KeepPlaces(seq, P \cup {m + 1})
    BY <2>1, <2>5, <2>7, TableListed
  <2>14. SqlList(new) = Append(list, pref)
    BY <2>1, <2>9, <2>11, <2>12, <2>13
  <2>15. JsonAppend(list, pref) = Append(list, pref)
    BY <1>1, <1>3 DEF JsonAppend
  <2> HIDE DEF seq, P, list
  <2>16. QED BY <2>7, <2>14, <2>15 DEF new, list
<1>4. QED BY <1>2, <1>3

(* Rows less are items less of the list.                                   *)
DeletesAlike(sql, json) ==
  IsTable(sql.table) /\ SqlList(sql.table) = json.file /\ sql.deleted = json.deleted

(* A DELETE does to the list of a table what the file does to its own.     *)
LEMMA SqlDeletes ==
  ASSUME NEW table, IsTable(table), NEW statement
  PROVE  DeletesAlike(SqlDelete(table, statement), JsonDelete(SqlList(table), statement))
<1> DEFINE list == SqlList(table)
           left == KeepPlaces(list, Without(list, statement))
           hit == {row \in table.rows : row.pref.statement = statement}
           new == SqlDelete(table, statement).table
           seq == PrefAt(table)
           P == Ids(table)
           m == table.nextId - 1
           R == {p \in P : seq[p].statement # statement}
<1>1. /\ JsonDelete(list, statement) = [deleted |-> Len(left) < Len(list), file |-> left]
      /\ new = [table EXCEPT !.rows = table.rows \ hit]
      /\ SqlDelete(table, statement).deleted = (hit # {})
  BY DEF JsonDelete, SqlDelete, Without
<1>2. m \in Nat /\ P \subseteq 1..m
  BY DEF IsTable
<1>3. list = KeepPlaces(seq, P)
  BY TableListed
<1>4. \A row \in table.rows : row.id \in P /\ seq[row.id] = row.pref
  BY RowStored
<1>5. \A id \in P : \E row \in table.rows : row.id = id
  BY DEF Ids
<1> HIDE DEF seq, P, m, list, new
<1>6. left = KeepPlaces(seq, R) /\ (Len(left) < Len(list) <=> \E p \in P : seq[p].statement = statement)
  <2>1. LeftWithout(list, seq, P, statement)
    BY <1>2, <1>3, KeptWithout
  <2>2. QED BY <2>1 DEF LeftWithout
<1>7. (\E p \in P : seq[p].statement = statement) <=> hit # {}
  BY <1>4, <1>5
<1>8. /\ new.rows = table.rows \ hit /\ new.nextId = table.nextId
      /\ new = [rows |-> new.rows, nextId |-> new.nextId]
  BY <1>1 DEF IsTable
<1>9. Ids(new) = R
  <2>1. \A id : id \in Ids(new) <=> \E row \in table.rows : row \notin hit /\ row.id = id
    BY <1>8 DEF Ids
  <2>2. \A row \in table.rows : row \notin hit <=> row.id \in R
    BY <1>4
  <2>3. \A id \in R : \E row \in table.rows : row.id = id
    BY <1>5
  <2> HIDE DEF R, hit
  <2>4. \A id : id \in Ids(new) <=> id \in R
    BY <2>1, <2>2, <2>3
  <2>5. QED BY <2>4
<1>10. R \subseteq P
  OBVIOUS
<1> HIDE DEF R, hit, left
<1>11. IsTable(new)
  BY <1>2, <1>8, <1>9, <1>10 DEF IsTable, m, P
<1>12. AgreeOn(PrefAt(new), seq, R)
  <2> SUFFICES ASSUME NEW id \in R PROVE PrefAt(new)[id] = seq[id]
    BY DEF AgreeOn
  <2>1. PICK row \in new.rows : row.id = id
    BY <1>9 DEF Ids
  <2>2. row \in table.rows
    BY <1>8, <2>1
  <2>3. PrefAt(new)[row.id] = row.pref
    BY <1>11, RowStored
  <2>4. QED BY <1>4, <2>1, <2>2, <2>3
<1>13. SqlList(new) = KeepPlaces(PrefAt(new), R)
  BY <1>9, <1>11, TableListed
<1>14. KeepPlaces(PrefAt(new), R) = KeepPlaces(seq, R)
  <2>1. R \subseteq 1..m
    BY <1>2, <1>10
  <2>2. QED BY <1>2, <1>12, <2>1, KeepSame
<1>15. SqlList(new) = left
  BY <1>6, <1>13, <1>14
<1>16. (hit # {}) = (Len(left) < Len(list))
  BY <1>6, <1>7
<1>17. QED BY <1>1, <1>11, <1>15, <1>16 DEF new, list, DeletesAlike

(* Whatever was remembered and not forgotten is wanted, from the first     *)
(* time it was said since.                                                 *)
Represented(calls) ==
  \A j \in DOMAIN calls :
    calls[j].tool = "remember" /\ Lasting(calls, j, Len(calls)) =>
      \E i \in Wanted(calls) : Twins(calls[i].pref, calls[j].pref)

PrefsOf(calls) == [i \in DOMAIN calls |-> calls[i].pref]

(* A call remembers or forgets something that can be said. *)
LEMMA SayingsAre ==
  \A call \in Sayings : call.tool \in {"remember", "forget"} /\ call.pref \in Said
BY PreferenceAssumption DEF Sayings, Said, Saying

(* A call more.                                                            *)
LEMMA CallAppended ==
  ASSUME NEW calls \in Seq(Sayings), NEW call \in Sayings
  PROVE  LET n == Len(calls)  more == Append(calls, call) IN
         /\ n \in Nat /\ DOMAIN calls = 1..n /\ more \in Seq(Sayings)
         /\ Len(more) = n + 1 /\ DOMAIN more = 1..(n + 1)
         /\ more[n + 1] = call /\ \A i \in 1..n : more[i] = calls[i]
OBVIOUS

(* What is remembered was said, by a call that is wanted. *)
LEMMA RememberedSaid ==
  ASSUME NEW calls \in Seq(Sayings)
  PROVE  /\ Remembered(calls) = KeepPlaces(PrefsOf(calls), Wanted(calls))
         /\ Wanted(calls) \subseteq 1..Len(calls) /\ Len(calls) \in Nat
         /\ \A i \in Wanted(calls) : PrefsOf(calls)[i] = calls[i].pref /\ calls[i].pref \in Said
<1>1. DOMAIN calls = 1..Len(calls) /\ Len(calls) \in Nat /\ \A i \in 1..Len(calls) : calls[i] \in Sayings
  OBVIOUS
<1>2. Wanted(calls) \subseteq 1..Len(calls)
  BY <1>1 DEF Wanted
<1>3. Remembered(calls) = KeepPlaces(PrefsOf(calls), Wanted(calls))
  BY DEF Remembered, PrefsOf
<1>4. \A i \in 1..Len(calls) : PrefsOf(calls)[i] = calls[i].pref /\ calls[i].pref \in Said
  BY <1>1, SayingsAre DEF PrefsOf
<1>5. QED BY <1>1, <1>2, <1>3, <1>4

(* Something is remembered: it is new only if it is not remembered yet.    *)
LEMMA RememberOne ==
  ASSUME NEW calls \in Seq(Sayings), Represented(calls),
         NEW call \in Sayings, call.tool = "remember"
  PROVE  /\ Represented(Append(calls, call))
         /\ Remembered(Append(calls, call)) = JsonAppend(Remembered(calls), call.pref)
<1> DEFINE n == Len(calls)
           more == Append(calls, call)
           twin == \E i \in Wanted(calls) : Twins(calls[i].pref, call.pref)
           f == PrefsOf(more)
           W == Wanted(calls)
           list == Remembered(calls)
<1>1. /\ n \in Nat /\ DOMAIN calls = 1..n /\ more \in Seq(Sayings)
      /\ Len(more) = n + 1 /\ DOMAIN more = 1..(n + 1)
      /\ more[n + 1] = call /\ \A i \in 1..n : more[i] = calls[i]
  BY CallAppended
<1> HIDE DEF n, more
<1>2. ASSUME NEW i \in 1..n, NEW k \in 0..n PROVE Lasting(more, i, k) <=> Lasting(calls, i, k)
  <2>1. \A j \in (i + 1)..k : more[j] = calls[j]
    BY <1>1
  <2>2. more[i] = calls[i]
    BY <1>1
  <2>3. QED BY <2>1, <2>2 DEF Lasting
<1>3. ASSUME NEW i \in 1..n PROVE Lasting(more, i, n + 1) <=> Lasting(calls, i, n)
  <2>1. Lasting(more, i, n + 1) <=> Lasting(more, i, n)
    <3>1. \A j \in (i + 1)..(n + 1) : j \in (i + 1)..n \/ j = n + 1
      BY <1>1
    <3>2. (i + 1)..n \subseteq (i + 1)..(n + 1)
      BY <1>1
    <3>3. more[n + 1].tool # "forget"
      BY <1>1
    <3>4. QED BY <3>1, <3>2, <3>3 DEF Lasting
  <2>2. n \in 0..n
    BY <1>1
  <2>3. QED BY <1>2, <2>1, <2>2
<1>4. Lasting(more, n + 1, n + 1)
  BY <1>1 DEF Lasting
<1>5. ASSUME NEW i \in 1..n PROVE i \in Wanted(more) <=> i \in W
  <2>1. \A j \in 1..(i - 1) : /\ j \in 1..n /\ more[j] = calls[j]
                              /\ Lasting(more, j, i - 1) <=> Lasting(calls, j, i - 1)
    <3>1. i - 1 \in 0..n /\ 1..(i - 1) \subseteq 1..n
      BY <1>1
    <3>2. QED BY <1>1, <1>2, <3>1
  <2>2. more[i] = calls[i] /\ i \in DOMAIN more /\ i \in DOMAIN calls
    BY <1>1
  <2>3. Lasting(more, i, Len(more)) <=> Lasting(calls, i, Len(calls))
    BY <1>1, <1>3 DEF n
  <2>4. QED BY <2>1, <2>2, <2>3 DEF Wanted
<1>6. n + 1 \in Wanted(more) <=> ~twin
  <2>1. n + 1 \in Wanted(more) <=>
          \A j \in 1..n : calls[j].tool = "remember" /\ Twins(calls[j].pref, call.pref)
                          => ~Lasting(calls, j, n)
    <3>1. n + 1 - 1 = n /\ n + 1 \in DOMAIN more /\ n \in 0..n
      BY <1>1
    <3>2. n + 1 \in Wanted(more) <=>
            \A j \in 1..n : more[j].tool = "remember" /\ Twins(more[j].pref, call.pref)
                            => ~Lasting(more, j, n)
      BY <1>1, <1>4, <3>1 DEF Wanted
    <3>3. \A j \in 1..n : more[j] = calls[j] /\ (Lasting(more, j, n) <=> Lasting(calls, j, n))
      BY <1>1, <1>2, <3>1
    <3>4. QED BY <3>2, <3>3
  <2>2. CASE twin
    <3>1. PICK i \in Wanted(calls) : Twins(calls[i].pref, call.pref)
      BY <2>2
    <3>2. i \in 1..n /\ calls[i].tool = "remember" /\ Lasting(calls, i, n)
      BY <1>1, <3>1 DEF Wanted, n
    <3>3. QED BY <2>1, <2>2, <3>1, <3>2
  <2>3. CASE ~twin
    <3> SUFFICES ASSUME NEW j \in 1..n, calls[j].tool = "remember", Twins(calls[j].pref, call.pref),
                        Lasting(calls, j, n)
                 PROVE  FALSE
      BY <2>1, <2>3
    <3>1. PICK i \in Wanted(calls) : Twins(calls[i].pref, calls[j].pref)
      BY <1>1 DEF Represented, n
    <3>2. Twins(calls[i].pref, call.pref)
      BY <3>1 DEF Twins
    <3>3. QED BY <2>3, <3>1, <3>2
  <2>4. QED BY <2>2, <2>3
<1>7. W \subseteq 1..n /\ \A i \in W : calls[i].pref \in Said
  BY <1>1, RememberedSaid DEF n
<1>8. \A i \in Wanted(more) : i \in 1..n \/ i = n + 1
  <2>1. Wanted(more) \subseteq 1..(n + 1)
    BY <1>1 DEF Wanted
  <2>2. QED BY <1>1, <2>1
<1> HIDE DEF W
<1>9. Wanted(more) = IF twin THEN W ELSE W \cup {n + 1}
  <2> HIDE DEF twin
  <2>1. n + 1 \notin W
    BY <1>1, <1>7
  <2>2. \A i : i \in Wanted(more) <=> i \in IF twin THEN W ELSE W \cup {n + 1}
    BY <1>5, <1>6, <1>7, <1>8, <2>1
  <2>3. QED BY <2>2
<1>10. Represented(more)
  <2> SUFFICES ASSUME NEW j \in 1..(n + 1), more[j].tool = "remember", Lasting(more, j, n + 1)
               PROVE  \E i \in Wanted(more) : Twins(more[i].pref, more[j].pref)
    BY <1>1 DEF Represented
  <2>1. \A i \in W : i \in Wanted(more) /\ more[i] = calls[i]
    BY <1>1, <1>7, <1>9
  <2>2. CASE j \in 1..n
    <3>1. calls[j].tool = "remember" /\ Lasting(calls, j, n)
      BY <1>1, <1>3, <2>2
    <3>2. PICK i \in W : Twins(calls[i].pref, calls[j].pref)
      BY <1>1, <2>2, <3>1 DEF Represented, n, W
    <3>3. more[j] = calls[j]
      BY <1>1, <2>2
    <3>4. QED BY <2>1, <3>2, <3>3
  <2>3. CASE j = n + 1
    <3>1. CASE twin
      BY <1>1, <2>1, <2>3, <3>1 DEF W
    <3>2. CASE ~twin
      BY <1>6, <2>3, <3>2 DEF Twins
    <3>3. QED BY <3>1, <3>2
  <2>4. QED BY <1>1, <2>2, <2>3
<1>11. twin <=> \E i \in DOMAIN list : Twins(list[i], call.pref)
  <2>1. \A x : Found(list, x) <=> Among(PrefsOf(calls), W, x)
    <3>1. list = KeepPlaces(PrefsOf(calls), W)
      BY RememberedSaid DEF W
    <3>2. QED BY <1>1, <1>7, <3>1, KeptFound
  <2>2. \A i \in W : PrefsOf(calls)[i] = calls[i].pref
    BY RememberedSaid DEF W
  <2> HIDE DEF list
  <2>3. (\E i \in DOMAIN list : Twins(list[i], call.pref))
          <=> \E x : Found(list, x) /\ Twins(x, call.pref)
    BY DEF Found
  <2>4. (\E x : Found(list, x) /\ Twins(x, call.pref)) <=> \E i \in W : Twins(calls[i].pref, call.pref)
    BY <2>1, <2>2 DEF Among
  <2>5. QED BY <2>3, <2>4 DEF W
<1>12. KeepPlaces(f, W) = list
  <2>1. AgreeOn(PrefsOf(calls), f, W)
    <3>1. \A i \in 1..n : PrefsOf(calls)[i] = f[i]
      BY <1>1 DEF PrefsOf
    <3>2. QED BY <1>7, <3>1 DEF AgreeOn
  <2> HIDE DEF f
  <2>2. KeepPlaces(PrefsOf(calls), W) = KeepPlaces(f, W)
    BY <1>1, <1>7, <2>1, KeepSame
  <2>3. QED BY <2>2, RememberedSaid DEF W
<1>13. Remembered(more) = KeepPlaces(f, Wanted(more))
  BY DEF Remembered, PrefsOf
<1>14. CASE twin
  <2>1. Remembered(more) = list
    BY <1>9, <1>12, <1>13, <1>14
  <2>2. JsonAppend(list, call.pref) = list
    BY <1>11, <1>14 DEF JsonAppend
  <2>3. QED BY <1>10, <2>1, <2>2 DEF more
<1>15. CASE ~twin
  <2>1. f[n + 1] = call.pref /\ call.pref \in Said
    BY <1>1, SayingsAre DEF PrefsOf
  <2>2. \A i \in W : f[i] \in Said
    <3>1. \A i \in 1..n : f[i] = calls[i].pref
      BY <1>1 DEF PrefsOf
    <3>2. QED BY <1>7, <3>1
  <2> HIDE DEF f
  <2>3. KeepPlaces(f, W \cup {n + 1}) = Append(KeepPlaces(f, W), f[n + 1])
    BY <1>1, <1>7, <2>1, <2>2, KeepNext
  <2>4. Remembered(more) = Append(list, call.pref)
    BY <1>9, <1>12, <1>13, <1>15, <2>1, <2>3
  <2>5. JsonAppend(list, call.pref) = Append(list, call.pref)
    BY <1>11, <1>15 DEF JsonAppend
  <2>6. QED BY <1>10, <2>4, <2>5 DEF more
<1>16. QED BY <1>14, <1>15

(* Something is forgotten: what was remembered of it, and nothing else.    *)
LEMMA ForgetOne ==
  ASSUME NEW calls \in Seq(Sayings), Represented(calls),
         NEW call \in Sayings, call.tool = "forget"
  PROVE  /\ Represented(Append(calls, call))
         /\ Remembered(Append(calls, call))
              = JsonDelete(Remembered(calls), call.pref.statement).file
<1> DEFINE n == Len(calls)
           more == Append(calls, call)
           f == PrefsOf(more)
           g == PrefsOf(calls)
           s == call.pref.statement
           W == Wanted(calls)
           R == {i \in W : g[i].statement # s}
           list == Remembered(calls)
<1>1. /\ n \in Nat /\ DOMAIN calls = 1..n /\ more \in Seq(Sayings)
      /\ Len(more) = n + 1 /\ DOMAIN more = 1..(n + 1)
      /\ more[n + 1] = call /\ \A i \in 1..n : more[i] = calls[i]
  BY CallAppended
<1>2. \A i \in 1..n : g[i] = calls[i].pref /\ f[i] = calls[i].pref
  BY <1>1 DEF PrefsOf
<1> HIDE DEF n, more, f, g
<1>3. ASSUME NEW i \in 1..n, NEW k \in 0..n PROVE Lasting(more, i, k) <=> Lasting(calls, i, k)
  <2>1. \A j \in (i + 1)..k : more[j] = calls[j]
    BY <1>1
  <2>2. more[i] = calls[i]
    BY <1>1
  <2>3. QED BY <2>1, <2>2 DEF Lasting
<1>4. ASSUME NEW i \in 1..n
      PROVE  Lasting(more, i, n + 1) <=> Lasting(calls, i, n) /\ calls[i].pref.statement # s
  <2>1. Lasting(more, i, n + 1) <=> Lasting(more, i, n) /\ calls[i].pref.statement # s
    <3>1. \A j \in (i + 1)..(n + 1) : j \in (i + 1)..n \/ j = n + 1
      BY <1>1
    <3>2. (i + 1)..n \subseteq (i + 1)..(n + 1) /\ n + 1 \in (i + 1)..(n + 1)
      BY <1>1
    <3>3. more[n + 1].tool = "forget" /\ more[n + 1].pref.statement = s /\ more[i] = calls[i]
      BY <1>1
    <3> HIDE DEF s
    <3>4. QED BY <3>1, <3>2, <3>3 DEF Lasting
  <2>2. n \in 0..n
    BY <1>1
  <2> HIDE DEF s
  <2>3. QED BY <1>3, <2>1, <2>2
<1> HIDE DEF s
<1>5. ASSUME NEW i \in 1..n
      PROVE  i \in Wanted(more) <=> i \in W /\ calls[i].pref.statement # s
  <2>1. \A j \in 1..(i - 1) : /\ j \in 1..n /\ more[j] = calls[j]
                              /\ Lasting(more, j, i - 1) <=> Lasting(calls, j, i - 1)
    <3>1. i - 1 \in 0..n /\ 1..(i - 1) \subseteq 1..n
      BY <1>1
    <3>2. QED BY <1>1, <1>3, <3>1
  <2>2. more[i] = calls[i] /\ i \in DOMAIN more /\ i \in DOMAIN calls
    BY <1>1
  <2>3. Lasting(more, i, Len(more)) <=> Lasting(calls, i, Len(calls)) /\ calls[i].pref.statement # s
    BY <1>1, <1>4 DEF n
  <2>4. QED BY <2>1, <2>2, <2>3 DEF Wanted
<1>6. n + 1 \notin Wanted(more)
  BY <1>1 DEF Wanted
<1>7. W \subseteq 1..n
  BY RememberedSaid DEF n
<1>8. Wanted(more) = R
  <2>1. \A i \in Wanted(more) : i \in 1..n
    <3>1. Wanted(more) \subseteq 1..(n + 1)
      BY <1>1 DEF Wanted
    <3>2. QED BY <1>1, <1>6, <3>1
  <2> HIDE DEF W
  <2>2. \A i : i \in Wanted(more) <=> i \in R
    BY <1>2, <1>5, <1>7, <2>1
  <2>3. QED BY <2>2
<1>9. Represented(more)
  <2> SUFFICES ASSUME NEW j \in 1..(n + 1), more[j].tool = "remember", Lasting(more, j, n + 1)
               PROVE  \E i \in Wanted(more) : Twins(more[i].pref, more[j].pref)
    BY <1>1 DEF Represented
  <2>1. j \in 1..n
    BY <1>1
  <2>2. calls[j].tool = "remember" /\ Lasting(calls, j, n) /\ calls[j].pref.statement # s
    BY <1>1, <1>4, <2>1
  <2>3. PICK i \in W : Twins(calls[i].pref, calls[j].pref)
    BY <1>1, <2>1, <2>2 DEF Represented, n
  <2>4. i \in 1..n /\ calls[i].pref.statement # s
    BY <1>7, <2>2, <2>3 DEF Twins
  <2>5. i \in Wanted(more)
    BY <1>5, <2>3, <2>4
  <2>6. QED BY <1>1, <2>1, <2>3, <2>4, <2>5
<1>10. list = KeepPlaces(g, W)
  BY RememberedSaid DEF g
<1> HIDE DEF W, list
<1>11. LeftWithout(list, g, W, s)
  BY <1>1, <1>7, <1>10, KeptWithout
<1>12. JsonDelete(list, s).file = KeepPlaces(g, R)
  BY <1>11 DEF JsonDelete, LeftWithout, Without
<1>13. AgreeOn(g, f, R) /\ R \subseteq 1..n
  BY <1>2, <1>7 DEF AgreeOn
<1> HIDE DEF R
<1>14. KeepPlaces(g, R) = KeepPlaces(f, R)
  BY <1>1, <1>13, KeepSame
<1>15. Remembered(more) = KeepPlaces(f, Wanted(more))
  BY DEF Remembered, PrefsOf, f
<1>16. QED BY <1>8, <1>9, <1>12, <1>14, <1>15 DEF more, list, s

-----------------------------------------------------------------------------
(* Both stores and what was said. *)
StoresInv(said) ==
  /\ said.calls \in Seq(Sayings) /\ Represented(said.calls)
  /\ IsTable(said.sql)
  /\ said.json = SqlList(said.sql) /\ said.json = Remembered(said.calls)
  /\ said.answer.json = said.answer.sql

(* Of no places of anything nothing is kept. *)
LEMMA NothingKeptNowhere ==
  ASSUME NEW seq
  PROVE  KeepPlaces(seq, {}) = <<>>
<1>1. 0 \in Nat /\ {} \subseteq 1..0
  OBVIOUS
<1>2. DOMAIN KeepPlaces(seq, {}) = 1..0 /\ KeepPlaces(seq, {}) \in Seq({})
  <2>1. Cardinality({}) = 0
    BY FS_EmptySet
  <2>2. QED BY <1>1, <2>1, KeptFound
<1>3. QED BY <1>2

(* Before a word is said both stores hold nothing. *)
LEMMA NothingSaidYet == StoresInv(NothingSaid)
<1> DEFINE t == [rows |-> {}, nextId |-> 1]
<1>1. /\ NothingSaid.calls = <<>> /\ NothingSaid.json = <<>> /\ NothingSaid.sql = t
      /\ NothingSaid.answer.json = NothingSaid.answer.sql
  BY DEF NothingSaid
<1>2. <<>> \in Seq(Sayings) /\ Len(<<>>) = 0 /\ DOMAIN <<>> = {}
  OBVIOUS
<1>3. Represented(<<>>)
  BY <1>2 DEF Represented
<1>4. Remembered(<<>>) = <<>>
  <2>1. Wanted(<<>>) = {}
    BY <1>2 DEF Wanted
  <2>2. QED BY <2>1, NothingKeptNowhere DEF Remembered
<1>5. t.rows = {} /\ t.nextId = 1 /\ t = [rows |-> t.rows, nextId |-> t.nextId]
  OBVIOUS
<1> HIDE DEF t
<1>6. IsTable(t)
  BY <1>5 DEF IsTable, Ids
<1>7. SqlList(t) = <<>>
  <2>1. {row.id : row \in t.rows} = {}
    BY <1>5
  <2>2. QED BY <2>1, NothingKeptNowhere DEF SqlList
<1>8. QED BY <1>1, <1>2, <1>3, <1>4, <1>6, <1>7 DEF StoresInv

(* A call of either tool leaves both stores with what was said. *)
LEMMA CallKeepsStores ==
  ASSUME NEW said, StoresInv(said), NEW call \in Sayings
  PROVE  StoresInv(Call(said, call))
<1> DEFINE new == Call(said, call)
           s == call.pref.statement
<1>1. /\ said.calls \in Seq(Sayings) /\ Represented(said.calls) /\ IsTable(said.sql)
      /\ said.json = SqlList(said.sql) /\ said.json = Remembered(said.calls)
  BY DEF StoresInv
<1>2. call.tool \in {"remember", "forget"} /\ call.pref \in Said
  BY SayingsAre
<1>3. Append(said.calls, call) \in Seq(Sayings)
  BY <1>1
<1>4. CASE call.tool = "remember"
  <2>1. /\ new.calls = Append(said.calls, call) /\ new.json = JsonAppend(said.json, call.pref)
        /\ new.sql = SqlAppend(said.sql, call.pref) /\ new.answer.json = new.answer.sql
    BY <1>4 DEF Call, Remember
  <2>2. /\ IsTable(SqlAppend(said.sql, call.pref))
        /\ SqlList(SqlAppend(said.sql, call.pref)) = JsonAppend(SqlList(said.sql), call.pref)
    BY <1>1, <1>2, SqlAppends
  <2>3. /\ Represented(Append(said.calls, call))
        /\ Remembered(Append(said.calls, call)) = JsonAppend(Remembered(said.calls), call.pref)
    BY <1>1, <1>4, RememberOne
  <2> HIDE DEF new
  <2>4. new.json = SqlList(new.sql) /\ new.json = Remembered(new.calls)
    BY <1>1, <2>1, <2>2, <2>3
  <2>5. StoresInv(new)
    BY <1>3, <2>1, <2>2, <2>3, <2>4 DEF StoresInv
  <2>6. QED BY <2>5 DEF new
<1>5. CASE call.tool = "forget"
  <2> DEFINE json == JsonDelete(said.json, s)
             sql == SqlDelete(said.sql, s)
  <2>1. /\ new.calls = Append(said.calls, call) /\ new.json = json.file /\ new.sql = sql.table
        /\ new.answer.json = (IF json.deleted THEN "deleted" ELSE json.file)
        /\ new.answer.sql = (IF sql.deleted THEN "deleted" ELSE SqlList(sql.table))
    BY <1>5 DEF Call, Forget
  <2>2. IsTable(sql.table) /\ SqlList(sql.table) = json.file /\ sql.deleted = json.deleted
    <3>1. DeletesAlike(sql, json)
      BY <1>1, SqlDeletes
    <3> HIDE DEF sql, json
    <3>2. QED BY <3>1 DEF DeletesAlike
  <2>3. /\ Represented(Append(said.calls, call))
        /\ Remembered(Append(said.calls, call)) = json.file
    BY <1>1, <1>5, ForgetOne
  <2> HIDE DEF new, json, sql
  <2>4. StoresInv(new)
    BY <1>3, <2>1, <2>2, <2>3 DEF StoresInv
  <2>5. QED BY <2>4 DEF new
<1>6. QED BY <1>2, <1>4, <1>5

-----------------------------------------------------------------------------
(* The last of a list *)

(* How many of the last n there are. *)
Few(n, m) == IF m > n THEN n ELSE m

TheLast(last, n, seq, m, T) ==
  LET few == Few(n, m) IN
  /\ few \in Nat /\ few <= n /\ few <= m
  /\ last \in Seq(T) /\ Len(last) = few
  /\ last = [i \in 1..few |-> seq[m - few + i]]

(* The last ones are read from the end. *)
LEMMA LastOnesAre ==
  ASSUME NEW T, NEW seq \in Seq(T), NEW n \in Nat
  PROVE  TheLast(LastOnes(n, seq), n, seq, Len(seq), T)
<1> DEFINE m == Len(seq)
           k == Few(n, m)
           first == IF m > n THEN m - n + 1 ELSE 1
           last == LastOnes(n, seq)
<1>1. m \in Nat /\ DOMAIN seq = 1..m /\ seq \in [1..m -> T]
  OBVIOUS
<1>2. last = SubSeq(seq, first, m)
  BY DEF LastOnes
<1> HIDE DEF m, last
<1>3. k \in Nat /\ k <= n /\ k <= m /\ first = m - k + 1 /\ first \in 1..(m + 1)
  BY <1>1 DEF Few
<1> HIDE DEF k, first
<1>4. SubSeq(seq, first, m) = [i \in 1..(m - first + 1) |-> seq[i + first - 1]]
  BY <1>1, <1>3
<1>5. m - first + 1 = k /\ \A i \in 1..k : i + first - 1 = m - k + i /\ m - k + i \in 1..m
  BY <1>1, <1>3
<1>6. last = [i \in 1..k |-> seq[m - k + i]]
  BY <1>2, <1>4, <1>5
<1>7. last \in [1..k -> T]
  BY <1>1, <1>5, <1>6
<1>8. last \in Seq(T) /\ Len(last) = k
  BY <1>3, <1>7
<1>9. QED BY <1>3, <1>6, <1>8 DEF k, m, last, TheLast

(* The last ones of a list that grows need the last ones before only.      *)
LEMMA LastOnesNext ==
  ASSUME NEW T, NEW seq \in Seq(T), NEW x \in T, NEW n \in Nat \ {0}
  PROVE  LastOnes(n, Append(LastOnes(n, seq), x)) = LastOnes(n, Append(seq, x))
<1> DEFINE m == Len(seq)
           k == Few(n, m)
           last == LastOnes(n, seq)
           all == Append(seq, x)
           some == Append(last, x)
           k1 == Few(n, m + 1)
           k2 == Few(n, k + 1)
<1>1. m \in Nat /\ k \in Nat /\ k <= m /\ last \in Seq(T) /\ Len(last) = k
      /\ last = [i \in 1..k |-> seq[m - k + i]]
  <2>1. TheLast(last, n, seq, m, T)
    BY LastOnesAre
  <2> HIDE DEF last
  <2>2. QED BY <2>1 DEF TheLast
<1>2. /\ all \in Seq(T) /\ Len(all) = m + 1 /\ all[m + 1] = x
      /\ \A i \in 1..m : all[i] = seq[i]
  OBVIOUS
<1>3. /\ some \in Seq(T) /\ Len(some) = k + 1 /\ some[k + 1] = x
      /\ \A i \in 1..k : some[i] = last[i]
  <2> HIDE DEF last, k, m
  <2>1. QED BY <1>1
<1> HIDE DEF last, all, some
<1>4. LastOnes(n, all) = [i \in 1..k1 |-> all[m + 1 - k1 + i]]
  <2>1. TheLast(LastOnes(n, all), n, all, m + 1, T)
    BY <1>2, LastOnesAre
  <2> HIDE DEF k1
  <2>2. QED BY <2>1 DEF TheLast, k1
<1> DEFINE l == k + 1
<1>5. LastOnes(n, some) = [i \in 1..k2 |-> some[l - k2 + i]]
  <2>1. TheLast(LastOnes(n, some), n, some, l, T)
    BY <1>3, LastOnesAre
  <2>2. k2 = Few(n, l)
    OBVIOUS
  <2> HIDE DEF l, k2
  <2>3. LastOnes(n, some) = [i \in 1..Few(n, l) |-> some[l - Few(n, l) + i]]
    BY <2>1 DEF TheLast
  <2>4. LastOnes(n, some) = [i \in 1..k2 |-> some[l - k2 + i]]
    BY <2>2, <2>3
  <2>5. QED BY <2>4
<1>6. k1 = k2 /\ k2 \in Nat /\ k2 <= k + 1 /\ k2 > 0
  BY <1>1 DEF Few
<1>7. l = k + 1
  OBVIOUS
<1> HIDE DEF k, k1, k2, l, m
<1>8. ASSUME NEW i \in 1..k2 PROVE all[m + 1 - k2 + i] = some[l - k2 + i]
  <2>1. CASE i = k2
    <3>1. m + 1 - k2 + i = m + 1 /\ l - k2 + i = k + 1
      BY <1>1, <1>6, <1>7, <2>1
    <3>2. QED BY <1>2, <1>3, <3>1
  <2>2. CASE i < k2
    <3> DEFINE p == l - k2 + i
    <3>1. p \in 1..k /\ m + 1 - k2 + i = m - k + p /\ m - k + p \in 1..m
      BY <1>1, <1>6, <1>7, <2>2
    <3> HIDE DEF p
    <3>2. some[p] = last[p] /\ last[p] = seq[m - k + p] /\ all[m - k + p] = seq[m - k + p]
      BY <1>1, <1>2, <1>3, <3>1
    <3>3. QED BY <3>1, <3>2 DEF p
  <2>3. QED BY <1>6, <2>1, <2>2
<1>9. QED BY <1>4, <1>5, <1>6, <1>8 DEF all, some, last

(* Places in order are what is kept of the numbers themselves.             *)
Itself == [i \in Nat |-> i]

(* Places put in order, as something kept. *)
LEMMA AscendingKept ==
  ASSUME NEW m \in Nat, NEW P, P \subseteq 1..m
  PROVE  Ascending(P) = KeepPlaces(Itself, P)
<1> DEFINE R == {pair \in P \X P : \/ pair[1] < pair[2]
                                   \/ ~(pair[2] < pair[1]) /\ pair[1] < pair[2]}
           at == Ascending(P)
           k == Cardinality(P)
<1>1. at = InOrder(P, R)
  BY DEF Ascending, Ranked
<1>2. KeepPlaces(Itself, P) = [n \in DOMAIN at |-> Itself[at[n]]]
  BY DEF KeepPlaces
<1>3. IsFiniteSet(P)
  <2>1. IsFiniteSet(1..m)
    BY FS_Interval
  <2>2. QED BY <2>1, FS_Subset
<1>4. \A i, j \in P : <<i, j>> \in R <=> i < j
  OBVIOUS
<1>5. P \subseteq Nat
  OBVIOUS
<1> HIDE DEF R
<1>6. StrictOrder(P, R)
  BY <1>4, <1>5 DEF StrictOrder
<1>7. Lists(at, P, R)
  BY <1>1, <1>3, <1>6, InOrderLists
<1> HIDE DEF at
<1>8. at \in [1..k -> P]
  BY <1>7 DEF Lists
<1> HIDE DEF k
<1>9. DOMAIN at = 1..k /\ \A n \in 1..k : Itself[at[n]] = at[n]
  BY <1>5, <1>8 DEF Itself
<1>10. [n \in DOMAIN at |-> Itself[at[n]]] = [n \in 1..k |-> at[n]]
  BY <1>9
<1>11. at = [n \in 1..k |-> at[n]]
  BY <1>8
<1>12. QED BY <1>2, <1>10, <1>11 DEF at

(* What is kept is what is at the places in order. *)
InOrderAt(at, k, P) ==
  k \in Nat /\ at \in Seq(P) /\ Len(at) = k /\ DOMAIN at = 1..k /\ ToSet(at) = P

(* The places put in order are all of them, and what is kept is at them.   *)
LEMMA KeptInOrder ==
  ASSUME NEW m \in Nat, NEW P, P \subseteq 1..m, NEW seq
  PROVE  /\ InOrderAt(Ascending(P), Cardinality(P), P)
         /\ KeptBy(KeepPlaces(seq, P), seq, Cardinality(P), Ascending(P))
<1> DEFINE at == Ascending(P)
           k == Cardinality(P)
<1>1. KeepPlaces(seq, P) = [n \in DOMAIN at |-> seq[at[n]]]
  BY DEF KeepPlaces
<1>2. at = KeepPlaces(Itself, P)
  BY AscendingKept
<1>3. \A p \in P : Itself[p] \in P /\ Itself[p] = p
  BY DEF Itself
<1>4. k \in Nat /\ DOMAIN at = 1..k /\ at \in Seq(P) /\ Len(at) = k
  BY <1>2, <1>3, KeptFound
<1>5. \A x : Found(at, x) <=> Among(Itself, P, x)
  BY <1>2, KeptFound
<1> HIDE DEF at
<1>6. ToSet(at) = P
  <2>1. \A x : x \in ToSet(at) <=> Found(at, x)
    BY <1>4 DEF ToSet, Found
  <2>2. \A x : Among(Itself, P, x) <=> x \in P
    BY <1>3 DEF Among
  <2>3. \A x : x \in ToSet(at) <=> x \in P
    BY <1>5, <2>1, <2>2
  <2>4. QED BY <2>3
<1>7. QED BY <1>1, <1>4, <1>6 DEF at, InOrderAt, KeptBy

(* The last of what is kept is what is at the last places.                 *)
LastAt(last, places, n, seq, P) ==
  /\ Len(places) = Few(n, Cardinality(P)) /\ places \in Seq(P)
  /\ last = [i \in 1..Len(places) |-> seq[places[i]]]

(* The last of what is kept is at the last of the places. *)
LEMMA LastKept ==
  ASSUME NEW m \in Nat, NEW P, P \subseteq 1..m, NEW seq, NEW n \in Nat, NEW U,
         \A p \in P : seq[p] \in U
  PROVE  LastAt(LastOnes(n, KeepPlaces(seq, P)), LastOnes(n, Ascending(P)), n, seq, P)
<1> DEFINE at == Ascending(P)
           kept == KeepPlaces(seq, P)
           places == LastOnes(n, at)
           last == LastOnes(n, kept)
           k == Cardinality(P)
           f == Few(n, k)
<1>1. k \in Nat /\ at \in Seq(P) /\ Len(at) = k /\ DOMAIN at = 1..k
      /\ kept = [i \in 1..k |-> seq[at[i]]]
  <2>1. InOrderAt(at, k, P) /\ KeptBy(kept, seq, k, at)
    BY KeptInOrder
  <2> HIDE DEF at, kept, k
  <2>2. QED BY <2>1 DEF InOrderAt, KeptBy
<1>2. kept \in Seq(U) /\ Len(kept) = k
  BY KeptFound
<1> HIDE DEF at, kept, k
<1>3. f \in Nat /\ f <= k /\ places \in Seq(P) /\ Len(places) = f
      /\ places = [i \in 1..f |-> at[k - f + i]]
  <2>1. TheLast(places, n, at, k, P)
    BY <1>1, LastOnesAre
  <2> HIDE DEF places
  <2>2. QED BY <2>1 DEF TheLast
<1>4. last = [i \in 1..f |-> kept[k - f + i]]
  <2>1. TheLast(last, n, kept, k, U)
    BY <1>2, LastOnesAre
  <2> HIDE DEF last
  <2>2. QED BY <2>1 DEF TheLast
<1> HIDE DEF f, places, last
<1>5. ASSUME NEW i \in 1..f PROVE kept[k - f + i] = seq[places[i]]
  <2>1. k - f + i \in 1..k
    BY <1>1, <1>3
  <2>2. kept[k - f + i] = seq[at[k - f + i]]
    BY <1>1, <2>1
  <2>3. QED BY <1>3, <2>2
<1>6. last = [i \in 1..f |-> seq[places[i]]]
  BY <1>4, <1>5
<1>7. QED BY <1>3, <1>6 DEF places, last, at, kept, f, k, LastAt

(* A tool is repeated so often at the end of a list if the last calls are  *)
(* its.                                                                    *)
LEMMA RepeatedAtTheEnd ==
  ASSUME NEW T, NEW calls \in Seq(T), NEW tool, NEW r \in Nat \ {0}
  PROVE  TrailingRepeat(calls, tool) >= r <=>
           Len(calls) >= r /\ \A j \in (Len(calls) - r + 1)..Len(calls) : calls[j] = tool
<1> DEFINE m == Len(calls)
           S == {i \in 1..m : \A j \in i..m : calls[j] = tool}
           low == m - r + 1
<1>1. m \in Nat /\ DOMAIN calls = 1..m
  OBVIOUS
<1>2. TrailingRepeat(calls, tool) = Cardinality(S)
  BY <1>1 DEF TrailingRepeat
<1> HIDE DEF m
<1>3. low \in Int
  BY <1>1
<1>4. ASSUME NEW a \in Int, NEW b \in Int
      PROVE  IsFiniteSet(a..b) /\ Cardinality(a..b) = IF a > b THEN 0 ELSE b - a + 1
  BY FS_Interval
<1>5. S \subseteq 1..m /\ IsFiniteSet(S)
  <2>1. IsFiniteSet(1..m)
    BY <1>1, <1>4
  <2>2. QED BY <2>1, FS_Subset
<1>6. Cardinality(S) \in Nat
  BY <1>5, FS_CardinalityType
<1>7. ASSUME m >= r, \A j \in low..m : calls[j] = tool PROVE Cardinality(S) >= r
  <2>1. low..m \subseteq S
    BY <1>1, <1>7
  <2> HIDE DEF S
  <2>2. Cardinality(low..m) <= Cardinality(S)
    BY <1>5, <2>1, FS_Subset
  <2>3. Cardinality(low..m) = IF low > m THEN 0 ELSE m - low + 1
    BY <1>1, <1>3, <1>4
  <2>4. Cardinality(low..m) = r
    BY <1>1, <1>7, <2>3
  <2>5. QED BY <1>6, <2>2, <2>4
<1>8. ASSUME Cardinality(S) >= r PROVE m >= r /\ \A j \in low..m : calls[j] = tool
  <2>1. m >= r
    <3> HIDE DEF S
    <3>1. IsFiniteSet(1..m) /\ Cardinality(1..m) = IF 1 > m THEN 0 ELSE m - 1 + 1
      BY <1>1, <1>4
    <3>2. Cardinality(1..m) = m
      BY <1>1, <3>1
    <3>3. Cardinality(S) <= m
      BY <1>5, <3>1, <3>2, FS_Subset
    <3>4. QED BY <1>1, <1>6, <1>8, <3>3
  <2>2. low \in S
    <3> SUFFICES ASSUME low \notin S PROVE FALSE
      OBVIOUS
    <3>1. low \in 1..m
      BY <1>1, <2>1
    <3>2. \A i \in S : i > low
      <4> SUFFICES ASSUME NEW i \in S, ~(i > low) PROVE FALSE
        OBVIOUS
      <4>1. low..m \subseteq i..m
        BY <1>1, <3>1
      <4>2. low \in S
        BY <3>1, <4>1
      <4>3. QED BY <4>2
    <3>3. S \subseteq (low + 1)..m
      BY <1>1, <1>3, <3>2
    <3> HIDE DEF S
    <3>4. IsFiniteSet((low + 1)..m)
          /\ Cardinality((low + 1)..m) = IF low + 1 > m THEN 0 ELSE m - (low + 1) + 1
      <4>1. low + 1 \in Int /\ m \in Int
        BY <1>1, <1>3
      <4> HIDE DEF low
      <4>2. QED BY <1>4, <4>1
    <3>5. Cardinality(S) <= Cardinality((low + 1)..m)
      BY <3>3, <3>4, FS_Subset
    <3>6. Cardinality((low + 1)..m) = r - 1
      BY <1>1, <3>1, <3>4
    <3>7. QED BY <1>6, <1>8, <3>5, <3>6
  <2>3. QED BY <2>1, <2>2
<1> HIDE DEF S
<1>9. QED BY <1>2, <1>7, <1>8 DEF m

-----------------------------------------------------------------------------
(* What the guards have seen *)

(* An entry of the log is an event and what was said of it.                *)
Alive(log, s, kinds) ==
  {j \in 1..Len(log) : /\ log[j][1].session = s
                       /\ \A k \in j..Len(log) : ~Forgets(log[k][1], s, kinds)}

(* The places of a session that are of a set of entries, and what they say. *)
PlacesOf(log, s, kinds, G) == {j \in Alive(log, s, kinds) : log[j] \in G}

Recalled(log, s, kinds, f, G) ==
  KeepPlaces([j \in 1..Len(log) |-> f[log[j]]], PlacesOf(log, s, kinds, G))

(* An entry more. *)
PlacesAfter(places, before, m, entry, s, kinds, G) ==
  /\ before \subseteq 1..m
  /\ Forgets(entry[1], s, kinds) => places = {}
  /\ ~Forgets(entry[1], s, kinds) /\ entry[1].session = s /\ entry \in G =>
       places = before \cup {m + 1}
  /\ ~Forgets(entry[1], s, kinds) /\ ~(entry[1].session = s /\ entry \in G) => places = before

(* After an entry a place is gone, or one more, or all is as before.       *)
LEMMA PlacesNext ==
  ASSUME NEW W, NEW log \in Seq(W), NEW entry \in W, NEW s, NEW kinds, NEW G
  PROVE  PlacesAfter(PlacesOf(Append(log, entry), s, kinds, G), PlacesOf(log, s, kinds, G),
                     Len(log), entry, s, kinds, G)
<1> DEFINE m == Len(log)
           new == Append(log, entry)
           now == PlacesOf(new, s, kinds, G)
           before == PlacesOf(log, s, kinds, G)
<1>1. /\ m \in Nat /\ Len(new) = m + 1 /\ new[m + 1] = entry
      /\ \A j \in 1..m : new[j] = log[j]
  OBVIOUS
<1>2. \A j : j \in before <=>
        /\ j \in 1..m /\ log[j][1].session = s /\ log[j] \in G
        /\ \A k \in j..m : ~Forgets(log[k][1], s, kinds)
  BY DEF PlacesOf, Alive
<1>3. \A j : j \in now <=>
        /\ j \in 1..(m + 1) /\ new[j][1].session = s /\ new[j] \in G
        /\ \A k \in j..(m + 1) : ~Forgets(new[k][1], s, kinds)
  BY <1>1 DEF PlacesOf, Alive
<1> HIDE DEF m, new, now, before
<1>4. before \subseteq 1..m
  BY <1>2
<1>5. ASSUME Forgets(entry[1], s, kinds) PROVE now = {}
  <2>1. \A j \in 1..(m + 1) : m + 1 \in j..(m + 1)
    BY <1>1
  <2>2. QED BY <1>1, <1>3, <1>5, <2>1
<1>6. ASSUME ~Forgets(entry[1], s, kinds)
      PROVE  /\ m + 1 \in now <=> entry[1].session = s /\ entry \in G
             /\ \A j \in 1..m : j \in now <=> j \in before
  <2>1. m + 1 \in now <=> entry[1].session = s /\ entry \in G
    <3>1. m + 1 \in 1..(m + 1) /\ (m + 1)..(m + 1) = {m + 1}
      BY <1>1
    <3>2. QED BY <1>1, <1>3, <1>6, <3>1
  <2>2. ASSUME NEW j \in 1..m PROVE j \in now <=> j \in before
    <3>1. j..(m + 1) = (j..m) \cup {m + 1} /\ \A k \in j..m : new[k] = log[k]
      BY <1>1
    <3>2. j \in 1..(m + 1) /\ new[j] = log[j]
      BY <1>1
    <3>3. (\A k \in j..(m + 1) : ~Forgets(new[k][1], s, kinds))
            <=> \A k \in j..m : ~Forgets(log[k][1], s, kinds)
      BY <1>1, <1>6, <3>1
    <3>4. QED BY <1>2, <1>3, <3>2, <3>3
  <2>3. QED BY <2>1, <2>2
<1>7. now \subseteq (1..m) \cup {m + 1} /\ m + 1 \notin before
  BY <1>1, <1>3, <1>4
<1>8. ASSUME ~Forgets(entry[1], s, kinds), entry[1].session = s /\ entry \in G
      PROVE  now = before \cup {m + 1}
  BY <1>4, <1>6, <1>7, <1>8
<1>9. ASSUME ~Forgets(entry[1], s, kinds), ~(entry[1].session = s /\ entry \in G)
      PROVE  now = before
  BY <1>4, <1>6, <1>7, <1>9
<1>10. QED BY <1>4, <1>5, <1>8, <1>9 DEF PlacesAfter, now, before, m, new

(* What is said by it comes last, if it is not the end of it all. *)
RecalledAfter(now, before, entry, s, kinds, f, G) ==
  /\ Forgets(entry[1], s, kinds) => now = <<>>
  /\ ~Forgets(entry[1], s, kinds) /\ entry[1].session = s /\ entry \in G =>
       now = Append(before, f[entry])
  /\ ~Forgets(entry[1], s, kinds) /\ ~(entry[1].session = s /\ entry \in G) => now = before

(* After an entry nothing is recalled, or one more, or what was before.    *)
LEMMA RecalledNext ==
  ASSUME NEW W, NEW log \in Seq(W), NEW entry \in W, NEW s, NEW kinds, NEW G, NEW U,
         NEW f \in [W -> U]
  PROVE  RecalledAfter(Recalled(Append(log, entry), s, kinds, f, G),
                       Recalled(log, s, kinds, f, G), entry, s, kinds, f, G)
<1> DEFINE m == Len(log)
           new == Append(log, entry)
           P == PlacesOf(log, s, kinds, G)
           Q == PlacesOf(new, s, kinds, G)
           said == [j \in 1..m |-> f[log[j]]]
           told == [j \in 1..Len(new) |-> f[new[j]]]
<1>1. /\ m \in Nat /\ Len(new) = m + 1 /\ new[m + 1] = entry
      /\ \A j \in 1..m : new[j] = log[j] /\ log[j] \in W
  OBVIOUS
<1>2. PlacesAfter(Q, P, m, entry, s, kinds, G)
  BY PlacesNext
<1>3. Recalled(log, s, kinds, f, G) = KeepPlaces(said, P)
  BY DEF Recalled
<1>4. Recalled(new, s, kinds, f, G) = KeepPlaces(told, Q)
  BY DEF Recalled
<1>5. /\ P \subseteq 1..m
      /\ Forgets(entry[1], s, kinds) => Q = {}
      /\ ~Forgets(entry[1], s, kinds) /\ entry[1].session = s /\ entry \in G =>
           Q = P \cup {m + 1}
      /\ ~Forgets(entry[1], s, kinds) /\ ~(entry[1].session = s /\ entry \in G) => Q = P
  BY <1>2 DEF PlacesAfter
<1>6. told[m + 1] = f[entry] /\ \A j \in 1..m : told[j] = said[j] /\ told[j] \in U
  BY <1>1
<1> HIDE DEF P, Q, said, told, new, m
<1>7. KeepPlaces(told, {}) = <<>>
  BY NothingKeptNowhere
<1>8. KeepPlaces(told, P) = KeepPlaces(said, P)
  <2>1. AgreeOn(told, said, P)
    BY <1>5, <1>6 DEF AgreeOn
  <2>2. QED BY <1>1, <1>5, <2>1, KeepSame
<1>9. KeepPlaces(told, P \cup {m + 1}) = Append(KeepPlaces(told, P), told[m + 1])
  <2>1. f[entry] \in U
    OBVIOUS
  <2>2. \A p \in P : told[p] \in U
    BY <1>5, <1>6
  <2>3. told[m + 1] \in U
    BY <1>6, <2>1
  <2>4. QED BY <1>1, <1>5, <2>2, <2>3, KeepNext
<1>10. QED BY <1>3, <1>4, <1>5, <1>6, <1>7, <1>8, <1>9 DEF RecalledAfter, new

(* What is recalled is said by the places. *)
SaidBy(said, U, P, m) ==
  P \subseteq 1..m /\ said \in Seq(U) /\ Cardinality(P) \in Nat /\ Len(said) = Cardinality(P)

(* As much is recalled as there are places. *)
LEMMA RecalledIs ==
  ASSUME NEW W, NEW log \in Seq(W), NEW s, NEW kinds, NEW G, NEW U, NEW f \in [W -> U]
  PROVE  SaidBy(Recalled(log, s, kinds, f, G), U, PlacesOf(log, s, kinds, G), Len(log))
<1> DEFINE P == PlacesOf(log, s, kinds, G)
           said == [j \in 1..Len(log) |-> f[log[j]]]
<1>1. Len(log) \in Nat /\ \A j \in 1..Len(log) : log[j] \in W
  OBVIOUS
<1>2. P \subseteq 1..Len(log)
  BY DEF PlacesOf, Alive
<1>3. Recalled(log, s, kinds, f, G) = KeepPlaces(said, P)
  BY DEF Recalled
<1> HIDE DEF P
<1>4. \A p \in P : said[p] \in U
  BY <1>1, <1>2
<1> HIDE DEF said
<1>5. SaidBy(KeepPlaces(said, P), U, P, Len(log))
  BY <1>1, <1>2, <1>4, KeptFound DEF SaidBy
<1>6. QED BY <1>3, <1>5 DEF P

(* A guard holds what it was told: all the calls, or the last of them; how *)
(* many answers there were and the last of them; how many of the last were *)
(* empty; and what the first of the turns was begun with.                  *)
EmptyAtTheEnd(n, answers) ==
  /\ n \in Nat /\ n <= Len(answers)
  /\ \A i \in (Len(answers) - n + 1)..Len(answers) : answers[i] = "empty"
  /\ n < Len(answers) => answers[Len(answers) - n] # "empty"

IsTrace(trace) ==
  trace = [request |-> trace.request, rounds |-> trace.rounds, recent |-> trace.recent,
           empty |-> trace.empty]

FirstOf(begun) == IF begun = <<>> THEN {} ELSE {begun[1]}

Traces(trace, words, answers, begun) ==
  /\ IsTrace(trace)
  /\ trace.rounds = Len(words) /\ trace.recent = LastOnes(3, words)
  /\ EmptyAtTheEnd(trace.empty, answers)
  /\ trace.request = FirstOf(begun)

Holds(guard, called, calls, words, answers, begun) ==
  /\ guard = [called |-> guard.called, calls |-> guard.calls, trace |-> guard.trace]
  /\ guard.called = called /\ guard.calls = LastOnes(Window, calls)
  /\ Traces(guard.trace, words, answers, begun)

(* The trace of no turn is that of no answers. *)
LEMMA NoTraceYet == Traces(NoTrace, <<>>, <<>>, <<>>) /\ LastOnes(Window, <<>>) = <<>>
<1>1. /\ NoTrace.request = {} /\ NoTrace.rounds = 0 /\ NoTrace.recent = <<>>
      /\ NoTrace.empty = 0 /\ IsTrace(NoTrace)
  BY DEF NoTrace, IsTrace
<1>2. Len(<<>>) = 0
  OBVIOUS
<1>3. ASSUME NEW n \in Nat PROVE LastOnes(n, <<>>) = <<>>
  <2>1. TheLast(LastOnes(n, <<>>), n, <<>>, Len(<<>>), {})
    <3>1. <<>> \in Seq({})
      OBVIOUS
    <3>2. QED BY <3>1, LastOnesAre
  <2>2. Few(n, 0) = 0
    BY DEF Few
  <2>3. LastOnes(n, <<>>) \in Seq({}) /\ Len(LastOnes(n, <<>>)) = 0
    BY <1>2, <2>1, <2>2 DEF TheLast
  <2>4. QED BY <2>3
<1>4. EmptyAtTheEnd(0, <<>>)
  BY <1>2 DEF EmptyAtTheEnd
<1>5. QED BY <1>1, <1>2, <1>3, <1>4, HarnessAssumption DEF Traces, FirstOf

(* A new guard holds nothing. *)
LEMMA FreshHolds == Holds(Fresh, <<>>, <<>>, <<>>, <<>>, <<>>)
<1>1. /\ Fresh.called = <<>> /\ Fresh.calls = <<>> /\ Fresh.trace = NoTrace
      /\ Fresh = [called |-> Fresh.called, calls |-> Fresh.calls, trace |-> Fresh.trace]
  BY DEF Fresh
<1>2. QED BY <1>1, NoTraceYet DEF Holds

(* An answer more is one more, the last, and empty or not. *)
LEMMA ObserveTraces ==
  ASSUME NEW T, NEW words \in Seq(T), NEW A, NEW answers \in Seq(A), NEW begun, NEW trace,
         Traces(trace, words, answers, begun), NEW about \in T, NEW answer \in A
  PROVE  Traces(Observe(trace, answer, about), Append(words, about), Append(answers, answer),
                begun)
<1> DEFINE new == Observe(trace, answer, about)
           m == Len(answers)
           more == Append(answers, answer)
<1>1. /\ IsTrace(trace)
      /\ trace.rounds = Len(words) /\ trace.recent = LastOnes(3, words)
      /\ EmptyAtTheEnd(trace.empty, answers)
      /\ trace.request = FirstOf(begun)
  BY DEF Traces
<1>2. /\ new.request = trace.request /\ new.rounds = trace.rounds + 1
      /\ new.recent = LastOnes(3, Append(trace.recent, about))
      /\ new.empty = (IF answer = "empty" THEN trace.empty + 1 ELSE 0)
      /\ IsTrace(new)
  <2> DEFINE r == trace.request
             c == trace.rounds
             l == trace.recent
             e == trace.empty
             d == IF answer = "empty" THEN e + 1 ELSE 0
             l1 == LastOnes(3, Append(l, about))
  <2>1. trace = [request |-> r, rounds |-> c, recent |-> l, empty |-> e]
    BY <1>1 DEF IsTrace
  <2>2. new = [trace EXCEPT !.rounds = c + 1, !.recent = l1, !.empty = d]
    BY DEF Observe
  <2> HIDE DEF new, r, c, l, e, l1, d
  <2>3. new = [request |-> r, rounds |-> c + 1, recent |-> l1, empty |-> d]
    BY <2>1, <2>2
  <2>4. IsTrace(new) /\ new.request = r /\ new.rounds = c + 1 /\ new.recent = l1
        /\ new.empty = d
    BY <2>3 DEF IsTrace
  <2>5. QED BY <2>4 DEF r, c, l, e, l1, d
<1> HIDE DEF new
<1>3. new.rounds = Len(Append(words, about))
  BY <1>1, <1>2
<1>4. new.recent = LastOnes(3, Append(words, about))
  <2>1. LastOnes(3, Append(LastOnes(3, words), about)) = LastOnes(3, Append(words, about))
    BY LastOnesNext
  <2>2. QED BY <1>1, <1>2, <2>1
<1>5. EmptyAtTheEnd(new.empty, more)
  <2> DEFINE e == trace.empty
             d == new.empty
  <2>1. /\ m \in Nat /\ Len(more) = m + 1 /\ more[m + 1] = answer
        /\ \A i \in 1..m : more[i] = answers[i]
    OBVIOUS
  <2>2. /\ e \in Nat /\ e <= m
        /\ \A i \in (m - e + 1)..m : answers[i] = "empty"
        /\ e < m => answers[m - e] # "empty"
    BY <1>1 DEF EmptyAtTheEnd
  <2>3. d = (IF answer = "empty" THEN e + 1 ELSE 0)
    BY <1>2
  <2> HIDE DEF m, more, e, d
  <2>4. CASE answer = "empty"
    <3>1. d = e + 1 /\ d \in Nat /\ d <= m + 1
      BY <2>1, <2>2, <2>3, <2>4
    <3>2. \A i \in (m + 1 - d + 1)..(m + 1) :
             i = m + 1 \/ (i \in (m - e + 1)..m /\ i \in 1..m)
      BY <2>1, <2>2, <3>1
    <3>3. \A i \in (m + 1 - d + 1)..(m + 1) : more[i] = "empty"
      BY <2>1, <2>2, <2>4, <3>2
    <3>4. ASSUME d < m + 1 PROVE more[m + 1 - d] # "empty"
      <4>1. e < m /\ m + 1 - d = m - e /\ m - e \in 1..m
        BY <2>1, <2>2, <3>1, <3>4
      <4>2. more[m - e] = answers[m - e]
        BY <2>1, <4>1
      <4>3. QED BY <2>2, <4>1, <4>2
    <3>5. QED BY <2>1, <3>1, <3>3, <3>4 DEF EmptyAtTheEnd, d
  <2>5. CASE answer # "empty"
    <3>1. d = 0
      BY <2>3, <2>5
    <3>2. (m + 1 - 0 + 1)..(m + 1) = {} /\ m + 1 - 0 = m + 1
      BY <2>1
    <3>3. QED BY <2>1, <2>5, <3>1, <3>2 DEF EmptyAtTheEnd, d
  <2>6. QED BY <2>4, <2>5
<1>6. QED BY <1>1, <1>2, <1>3, <1>4, <1>5 DEF new, more, Traces

(* A call that is let through is one more, and no other is.                *)
LEMMA CalledHolds ==
  ASSUME NEW C, NEW calls \in Seq(C), NEW called, NEW words, NEW answers, NEW begun,
         NEW guard, NEW guarded, NEW event,
         Holds(guard, called, calls, words, answers, begun), event.tool \in C,
         event.tool \in guarded, "rejected" \notin Notices(guard, event, guarded)
  PROVE  Holds(Called(guard, event, guarded), Append(called, event.tool),
               Append(calls, event.tool), words, answers, begun)
<1> DEFINE new == Called(guard, event, guarded)
           c == guard.called
           l == guard.calls
           t == guard.trace
           looked == LastOnes(Window, Append(l, event.tool))
<1>1. /\ guard = [called |-> c, calls |-> l, trace |-> t]
      /\ c = called /\ l = LastOnes(Window, calls) /\ Traces(t, words, answers, begun)
  BY DEF Holds
<1>2. new = [guard EXCEPT !.called = Append(c, event.tool), !.calls = looked]
  BY DEF Called, Looked
<1>3. looked = LastOnes(Window, Append(calls, event.tool))
  <2>1. LastOnes(Window, Append(LastOnes(Window, calls), event.tool))
          = LastOnes(Window, Append(calls, event.tool))
    BY LastOnesNext, HarnessAssumption
  <2>2. QED BY <1>1, <2>1
<1> HIDE DEF new, c, l, t, looked
<1>4. new = [called |-> Append(called, event.tool), calls |-> looked, trace |-> t]
  BY <1>1, <1>2
<1>5. new.called = Append(called, event.tool) /\ new.calls = looked /\ new.trace = t
      /\ new = [called |-> new.called, calls |-> new.calls, trace |-> new.trace]
  BY <1>4
<1>6. QED BY <1>1, <1>3, <1>5 DEF Holds, new

(* A tool has answered. *)
LEMMA AnsweredHolds ==
  ASSUME NEW T, NEW words \in Seq(T), NEW A, NEW answers \in Seq(A), NEW begun,
         NEW called, NEW calls, NEW guard, NEW event,
         Holds(guard, called, calls, words, answers, begun),
         event.about \in T, event.answer \in A
  PROVE  Holds(Answered(guard, event), called, calls, Append(words, event.about),
               Append(answers, event.answer), begun)
<1> DEFINE new == Answered(guard, event)
           trace == Observe(guard.trace, event.answer, event.about)
           c == guard.called
           l == guard.calls
           t == guard.trace
<1>1. /\ guard = [called |-> c, calls |-> l, trace |-> t]
      /\ c = called /\ l = LastOnes(Window, calls) /\ Traces(t, words, answers, begun)
  BY DEF Holds
<1>2. Traces(trace, Append(words, event.about), Append(answers, event.answer), begun)
  BY <1>1, ObserveTraces
<1>3. new = [guard EXCEPT !.trace = trace]
  BY DEF Answered
<1> HIDE DEF new, trace, c, l, t
<1>4. new = [called |-> c, calls |-> l, trace |-> trace]
  BY <1>1, <1>3
<1>5. new.called = c /\ new.calls = l /\ new.trace = trace
      /\ new = [called |-> new.called, calls |-> new.calls, trace |-> new.trace]
  BY <1>4
<1>6. QED BY <1>1, <1>2, <1>5 DEF Holds, new

(* A turn begins. *)
LEMMA BeginHolds ==
  ASSUME NEW T, NEW begun \in Seq(T), NEW called, NEW calls, NEW words, NEW answers,
         NEW guard, NEW event, Holds(guard, called, calls, words, answers, begun),
         event.about \in T
  PROVE  Holds(BeginTurn(guard, event), called, calls, words, answers,
               Append(begun, event.about))
<1> DEFINE trace == StartTurn(guard.trace, event)
           new == BeginTurn(guard, event)
           c == guard.called
           l == guard.calls
           t == guard.trace
           more == Append(begun, event.about)
<1>1. /\ guard = [called |-> c, calls |-> l, trace |-> t]
      /\ c = called /\ l = LastOnes(Window, calls) /\ Traces(t, words, answers, begun)
  BY DEF Holds
<1>2. IsTrace(t) /\ t.request = FirstOf(begun)
  BY <1>1 DEF Traces
<1>3. FirstOf(more) = (IF begun = <<>> THEN {event.about} ELSE FirstOf(begun))
  <2> DEFINE about == event.about
  <2>1. about \in T /\ more = Append(begun, about)
    OBVIOUS
  <2> HIDE DEF about, more
  <2>2. more # <<>>
    BY <2>1
  <2>3. CASE begun = <<>>
    <3>1. more[1] = about
      BY <2>1, <2>3
    <3>2. QED BY <2>2, <2>3, <3>1 DEF FirstOf, about
  <2>4. CASE begun # <<>>
    <3>1. more[1] = begun[1]
      BY <2>1, <2>4
    <3>2. QED BY <2>2, <2>4, <3>1 DEF FirstOf
  <2>5. QED BY <2>3, <2>4
<1>4. /\ IsTrace(trace) /\ trace.rounds = t.rounds /\ trace.recent = t.recent
      /\ trace.empty = t.empty /\ trace.request = FirstOf(more)
  <2>1. CASE begun = <<>>
    <3>1. trace = [t EXCEPT !.request = {event.about}]
      BY <1>2, <2>1 DEF StartTurn, FirstOf
    <3>2. t = [request |-> t.request, rounds |-> t.rounds, recent |-> t.recent,
               empty |-> t.empty]
      BY <1>2 DEF IsTrace
    <3> HIDE DEF trace, t, more
    <3>3. trace = [request |-> {event.about}, rounds |-> t.rounds, recent |-> t.recent,
                   empty |-> t.empty]
      BY <3>1, <3>2
    <3>4. QED BY <1>3, <2>1, <3>3 DEF IsTrace
  <2>2. CASE begun # <<>>
    <3>1. t.request # {}
      BY <1>2, <2>2 DEF FirstOf
    <3>2. trace = t
      BY <3>1 DEF StartTurn
    <3> HIDE DEF trace, t, more
    <3>3. QED BY <1>2, <1>3, <2>2, <3>2
  <2>3. QED BY <2>1, <2>2
<1>5. new = [guard EXCEPT !.trace = trace]
  BY DEF BeginTurn
<1> HIDE DEF new, trace, c, l, t, more
<1>6. Traces(trace, words, answers, more)
  BY <1>1, <1>4 DEF Traces
<1>7. new = [called |-> c, calls |-> l, trace |-> trace]
  BY <1>1, <1>5
<1>8. new.called = c /\ new.calls = l /\ new.trace = trace
      /\ new = [called |-> new.called, calls |-> new.calls, trace |-> new.trace]
  BY <1>7
<1>9. QED BY <1>1, <1>6, <1>8 DEF Holds, new, more

(* A turn ends. *)
LEMMA EndHolds ==
  ASSUME NEW called, NEW calls, NEW words, NEW answers, NEW begun, NEW guard,
         Holds(guard, called, calls, words, answers, begun)
  PROVE  Holds(EndTurn(guard), called, <<>>, <<>>, <<>>, <<>>)
<1> DEFINE new == EndTurn(guard)
<1>1. /\ guard = [called |-> guard.called, calls |-> guard.calls, trace |-> guard.trace]
      /\ guard.called = called
  BY DEF Holds
<1>2. /\ new.called = called /\ new.calls = <<>> /\ new.trace = NoTrace
      /\ new = [called |-> new.called, calls |-> new.calls, trace |-> new.trace]
  <2> DEFINE c == guard.calls
             t == guard.trace
  <2>1. guard = [called |-> called, calls |-> c, trace |-> t]
    BY <1>1
  <2>2. new = [guard EXCEPT !.calls = <<>>, !.trace = NoTrace]
    BY DEF EndTurn
  <2> HIDE DEF new, c, t
  <2>3. new = [called |-> called, calls |-> <<>>, trace |-> NoTrace]
    BY <2>1, <2>2
  <2>4. QED BY <2>3
<1> HIDE DEF new
<1>3. Holds(new, called, <<>>, <<>>, <<>>, <<>>)
  BY <1>2, NoTraceYet DEF Holds
<1>4. QED BY <1>3 DEF new

(* The entries of a log of events, those of a kind, and what they say.     *)
Notice == {"rejected", "warning", "loop", "schema", "forgotten", "empty"}
Entry(events) == events \X SUBSET Notice

Calls(events) == {entry \in Entry(events) : entry[1].kind = "call"}
Replies(events) == {entry \in Entry(events) : entry[1].kind = "answer"}
Starts(events) == {entry \in Entry(events) : entry[1].kind = "begin"}
Passing(events, guarded) ==
  {entry \in Calls(events) : entry[1].tool \in guarded /\ "rejected" \notin entry[2]}

ToolIn(events) == [entry \in Entry(events) |-> entry[1].tool]
AboutIn(events) == [entry \in Entry(events) |-> entry[1].about]
AnswerIn(events) == [entry \in Entry(events) |-> entry[1].answer]

Tools(events) == {event.tool : event \in events}
Abouts(events) == {event.about : event \in events}
Answers(events) == {event.answer : event \in events}

(* Every entry says a tool, some words and an answer. *)
LEMMA EntriesSay ==
  ASSUME NEW events
  PROVE  /\ ToolIn(events) \in [Entry(events) -> Tools(events)]
         /\ AboutIn(events) \in [Entry(events) -> Abouts(events)]
         /\ AnswerIn(events) \in [Entry(events) -> Answers(events)]
<1>1. \A entry \in Entry(events) : entry[1] \in events
  BY DEF Entry
<1>2. ToolIn(events) \in [Entry(events) -> Tools(events)]
  BY <1>1 DEF ToolIn, Tools
<1>3. AboutIn(events) \in [Entry(events) -> Abouts(events)]
  BY <1>1 DEF AboutIn, Abouts
<1>4. AnswerIn(events) \in [Entry(events) -> Answers(events)]
  BY <1>1 DEF AnswerIn, Answers
<1>5. QED BY <1>2, <1>3, <1>4

(* What a session has done, and what its turns were begun with. *)
AllCalled(log, events, guarded, s) ==
  Recalled(log, s, {}, ToolIn(events), Passing(events, guarded))
TurnCalls(log, events, guarded, s) ==
  Recalled(log, s, {"end"}, ToolIn(events), Passing(events, guarded))
TurnWords(log, events, s) == Recalled(log, s, {"end"}, AboutIn(events), Replies(events))
TurnAnswers(log, events, s) == Recalled(log, s, {"end"}, AnswerIn(events), Replies(events))
TurnBegun(log, events, s) == Recalled(log, s, {"end"}, AboutIn(events), Starts(events))

SeenBy(guard, log, events, guarded, s) ==
  Holds(guard, AllCalled(log, events, guarded, s), TurnCalls(log, events, guarded, s),
        TurnWords(log, events, s), TurnAnswers(log, events, s), TurnBegun(log, events, s))

(* What a session has done is said by its entries. *)
LEMMA SeenAre ==
  ASSUME NEW events, NEW log \in Seq(Entry(events)), NEW guarded, NEW s
  PROVE  /\ AllCalled(log, events, guarded, s) \in Seq(Tools(events))
         /\ TurnCalls(log, events, guarded, s) \in Seq(Tools(events))
         /\ TurnWords(log, events, s) \in Seq(Abouts(events))
         /\ TurnAnswers(log, events, s) \in Seq(Answers(events))
         /\ TurnBegun(log, events, s) \in Seq(Abouts(events))
<1>1. AllCalled(log, events, guarded, s) \in Seq(Tools(events))
  BY EntriesSay, RecalledIs DEF SaidBy, AllCalled
<1>2. TurnCalls(log, events, guarded, s) \in Seq(Tools(events))
  BY EntriesSay, RecalledIs DEF SaidBy, TurnCalls
<1>3. TurnWords(log, events, s) \in Seq(Abouts(events))
  BY EntriesSay, RecalledIs DEF SaidBy, TurnWords
<1>4. TurnAnswers(log, events, s) \in Seq(Answers(events))
  BY EntriesSay, RecalledIs DEF SaidBy, TurnAnswers
<1>5. TurnBegun(log, events, s) \in Seq(Abouts(events))
  BY EntriesSay, RecalledIs DEF SaidBy, TurnBegun
<1>6. QED BY <1>1, <1>2, <1>3, <1>4, <1>5

SeenAfter(new, log, entry, events, guarded, s) ==
  /\ RecalledAfter(AllCalled(new, events, guarded, s), AllCalled(log, events, guarded, s),
                   entry, s, {}, ToolIn(events), Passing(events, guarded))
  /\ RecalledAfter(TurnCalls(new, events, guarded, s), TurnCalls(log, events, guarded, s),
                   entry, s, {"end"}, ToolIn(events), Passing(events, guarded))
  /\ RecalledAfter(TurnWords(new, events, s), TurnWords(log, events, s),
                   entry, s, {"end"}, AboutIn(events), Replies(events))
  /\ RecalledAfter(TurnAnswers(new, events, s), TurnAnswers(log, events, s),
                   entry, s, {"end"}, AnswerIn(events), Replies(events))
  /\ RecalledAfter(TurnBegun(new, events, s), TurnBegun(log, events, s),
                   entry, s, {"end"}, AboutIn(events), Starts(events))

(* What a session has done, after an entry. *)
LEMMA SeenNext ==
  ASSUME NEW events, NEW log \in Seq(Entry(events)), NEW entry \in Entry(events),
         NEW guarded, NEW s
  PROVE  SeenAfter(Append(log, entry), log, entry, events, guarded, s)
<1> DEFINE new == Append(log, entry)
<1>1. RecalledAfter(AllCalled(new, events, guarded, s), AllCalled(log, events, guarded, s),
                    entry, s, {}, ToolIn(events), Passing(events, guarded))
  BY EntriesSay, RecalledNext DEF AllCalled
<1>2. RecalledAfter(TurnCalls(new, events, guarded, s), TurnCalls(log, events, guarded, s),
                    entry, s, {"end"}, ToolIn(events), Passing(events, guarded))
  BY EntriesSay, RecalledNext DEF TurnCalls
<1>3. RecalledAfter(TurnWords(new, events, s), TurnWords(log, events, s),
                    entry, s, {"end"}, AboutIn(events), Replies(events))
  BY EntriesSay, RecalledNext DEF TurnWords
<1>4. RecalledAfter(TurnAnswers(new, events, s), TurnAnswers(log, events, s),
                    entry, s, {"end"}, AnswerIn(events), Replies(events))
  BY EntriesSay, RecalledNext DEF TurnAnswers
<1>5. RecalledAfter(TurnBegun(new, events, s), TurnBegun(log, events, s),
                    entry, s, {"end"}, AboutIn(events), Starts(events))
  BY EntriesSay, RecalledNext DEF TurnBegun
<1>6. QED BY <1>1, <1>2, <1>3, <1>4, <1>5 DEF SeenAfter

(* The guard of a session after the process started again. *)
LEMMA SeenAfterRestart ==
  ASSUME NEW events, NEW log \in Seq(Entry(events)), NEW entry \in Entry(events),
         NEW guarded, NEW s, entry[1].kind = "restart"
  PROVE  SeenBy(Fresh, Append(log, entry), events, guarded, s)
<1> DEFINE new == Append(log, entry)
<1>1. \A kinds : Forgets(entry[1], s, kinds)
  BY DEF Forgets
<1>2. SeenAfter(new, log, entry, events, guarded, s)
  BY SeenNext
<1> HIDE DEF new
<1>3. /\ AllCalled(new, events, guarded, s) = <<>> /\ TurnCalls(new, events, guarded, s) = <<>>
      /\ TurnWords(new, events, s) = <<>> /\ TurnAnswers(new, events, s) = <<>>
      /\ TurnBegun(new, events, s) = <<>>
  BY <1>1, <1>2 DEF SeenAfter, RecalledAfter
<1>4. QED BY <1>3, FreshHolds DEF SeenBy, new

(* Another session's event, a check, or a call that is not let through.    *)
Unseen(entry, events, guarded, s) ==
  /\ ~Forgets(entry[1], s, {}) /\ ~Forgets(entry[1], s, {"end"})
  /\ \/ entry[1].session # s
     \/ entry \notin Passing(events, guarded) \cup Replies(events) \cup Starts(events)

(* What is not seen changes nothing. *)
LEMMA SeenAfterUnseen ==
  ASSUME NEW events, NEW log \in Seq(Entry(events)), NEW entry \in Entry(events),
         NEW guarded, NEW s, NEW guard, SeenBy(guard, log, events, guarded, s),
         Unseen(entry, events, guarded, s)
  PROVE  SeenBy(guard, Append(log, entry), events, guarded, s)
<1> DEFINE new == Append(log, entry)
<1>1. SeenAfter(new, log, entry, events, guarded, s)
  BY SeenNext
<1> HIDE DEF new
<1>2. /\ AllCalled(new, events, guarded, s) = AllCalled(log, events, guarded, s)
      /\ TurnCalls(new, events, guarded, s) = TurnCalls(log, events, guarded, s)
  BY <1>1 DEF SeenAfter, RecalledAfter, Unseen
<1>3. /\ TurnWords(new, events, s) = TurnWords(log, events, s)
      /\ TurnAnswers(new, events, s) = TurnAnswers(log, events, s)
      /\ TurnBegun(new, events, s) = TurnBegun(log, events, s)
  BY <1>1 DEF SeenAfter, RecalledAfter, Unseen
<1>4. QED BY <1>2, <1>3 DEF SeenBy, new

(* A turn that begins is seen by what it asks for. *)
LEMMA SeenAfterBegin ==
  ASSUME NEW events, NEW log \in Seq(Entry(events)), NEW entry \in Entry(events),
         NEW guarded, NEW s, NEW guard, SeenBy(guard, log, events, guarded, s),
         entry[1].kind = "begin", entry[1].session = s
  PROVE  SeenBy(BeginTurn(guard, entry[1]), Append(log, entry), events, guarded, s)
<1> DEFINE new == Append(log, entry)
<1>1. ~Forgets(entry[1], s, {}) /\ ~Forgets(entry[1], s, {"end"})
  BY DEF Forgets
<1>2. /\ entry \in Starts(events) /\ AboutIn(events)[entry] = entry[1].about
      /\ entry \notin Passing(events, guarded) /\ entry \notin Replies(events)
  BY DEF Starts, Replies, Calls, Passing, AboutIn
<1>3. SeenAfter(new, log, entry, events, guarded, s)
  BY SeenNext
<1>4. TurnBegun(log, events, s) \in Seq(Abouts(events)) /\ entry[1].about \in Abouts(events)
  BY SeenAre DEF Abouts, Entry
<1> HIDE DEF new
<1>5. /\ AllCalled(new, events, guarded, s) = AllCalled(log, events, guarded, s)
      /\ TurnCalls(new, events, guarded, s) = TurnCalls(log, events, guarded, s)
      /\ TurnWords(new, events, s) = TurnWords(log, events, s)
      /\ TurnAnswers(new, events, s) = TurnAnswers(log, events, s)
      /\ TurnBegun(new, events, s) = Append(TurnBegun(log, events, s), entry[1].about)
  BY <1>1, <1>2, <1>3 DEF SeenAfter, RecalledAfter
<1>6. Holds(BeginTurn(guard, entry[1]), AllCalled(log, events, guarded, s),
            TurnCalls(log, events, guarded, s), TurnWords(log, events, s),
            TurnAnswers(log, events, s), Append(TurnBegun(log, events, s), entry[1].about))
  BY <1>4, BeginHolds DEF SeenBy
<1>7. QED BY <1>5, <1>6 DEF SeenBy, new

(* A turn that ends leaves what was called, and nothing of the turns.      *)
LEMMA SeenAfterEnd ==
  ASSUME NEW events, NEW log \in Seq(Entry(events)), NEW entry \in Entry(events),
         NEW guarded, NEW s, NEW guard, SeenBy(guard, log, events, guarded, s),
         entry[1].kind = "end", entry[1].session = s
  PROVE  SeenBy(EndTurn(guard), Append(log, entry), events, guarded, s)
<1> DEFINE new == Append(log, entry)
<1>1. ~Forgets(entry[1], s, {}) /\ Forgets(entry[1], s, {"end"})
  BY DEF Forgets
<1>2. entry \notin Passing(events, guarded)
  BY DEF Calls, Passing
<1>3. SeenAfter(new, log, entry, events, guarded, s)
  BY SeenNext
<1> HIDE DEF new
<1>4. /\ AllCalled(new, events, guarded, s) = AllCalled(log, events, guarded, s)
      /\ TurnCalls(new, events, guarded, s) = <<>>
      /\ TurnWords(new, events, s) = <<>> /\ TurnAnswers(new, events, s) = <<>>
      /\ TurnBegun(new, events, s) = <<>>
  BY <1>1, <1>2, <1>3 DEF SeenAfter, RecalledAfter
<1>5. Holds(EndTurn(guard), AllCalled(log, events, guarded, s), <<>>, <<>>, <<>>, <<>>)
  BY EndHolds DEF SeenBy
<1>6. QED BY <1>4, <1>5 DEF SeenBy, new

(* A call is seen if it was let through. *)
LEMMA SeenAfterCall ==
  ASSUME NEW events, NEW log \in Seq(Entry(events)), NEW event \in events,
         NEW told \in SUBSET Notice, NEW guarded, NEW s, NEW guard,
         SeenBy(guard, log, events, guarded, s), told = Notices(guard, event, guarded),
         event.kind = "call", event.session = s
  PROVE  SeenBy(Called(guard, event, guarded), Append(log, <<event, told>>), events, guarded, s)
<1> DEFINE entry == <<event, told>>
           new == Append(log, entry)
           after == Called(guard, event, guarded)
           called == AllCalled(log, events, guarded, s)
           calls == TurnCalls(log, events, guarded, s)
           words == TurnWords(log, events, s)
           answers == TurnAnswers(log, events, s)
           begun == TurnBegun(log, events, s)
<1>1. entry \in Entry(events) /\ entry[1] = event /\ entry[2] = told
  BY DEF Entry
<1> HIDE DEF entry
<1>2. ~Forgets(event, s, {}) /\ ~Forgets(event, s, {"end"})
  BY DEF Forgets
<1>3. /\ entry \notin Replies(events) /\ entry \notin Starts(events)
      /\ entry \in Passing(events, guarded) <=> event.tool \in guarded /\ "rejected" \notin told
  BY <1>1 DEF Calls, Starts, Replies, Passing
<1>4. CASE event.tool \notin guarded \/ "rejected" \in told
  <2>1. after = guard
    BY <1>4 DEF Called
  <2>2. Unseen(entry, events, guarded, s)
    BY <1>1, <1>2, <1>3, <1>4 DEF Unseen
  <2> HIDE DEF after
  <2>3. QED BY <1>1, <2>1, <2>2, SeenAfterUnseen DEF after, entry
<1>5. CASE event.tool \in guarded /\ "rejected" \notin told
  <2>1. ToolIn(events)[entry] = event.tool
    BY <1>1 DEF ToolIn
  <2>2. SeenAfter(new, log, entry, events, guarded, s)
    BY <1>1, SeenNext
  <2>3. calls \in Seq(Tools(events)) /\ event.tool \in Tools(events)
    BY SeenAre DEF Tools
  <2> HIDE DEF new, after
  <2>4. /\ AllCalled(new, events, guarded, s) = Append(called, event.tool)
        /\ TurnCalls(new, events, guarded, s) = Append(calls, event.tool)
        /\ TurnWords(new, events, s) = words /\ TurnAnswers(new, events, s) = answers
        /\ TurnBegun(new, events, s) = begun
    BY <1>1, <1>2, <1>3, <1>5, <2>1, <2>2 DEF SeenAfter, RecalledAfter
  <2>5. Holds(guard, called, calls, words, answers, begun)
    BY DEF SeenBy
  <2> HIDE DEF called, calls, words, answers, begun
  <2>6. Holds(after, Append(called, event.tool), Append(calls, event.tool), words, answers,
              begun)
    BY <1>5, <2>3, <2>5, CalledHolds DEF after
  <2>7. SeenBy(after, new, events, guarded, s)
    BY <2>4, <2>6 DEF SeenBy
  <2>8. QED BY <2>7 DEF new, after, entry
<1>6. QED BY <1>4, <1>5

(* An answer is seen by its words and whether it is empty. *)
LEMMA SeenAfterAnswer ==
  ASSUME NEW events, NEW log \in Seq(Entry(events)), NEW entry \in Entry(events),
         NEW guarded, NEW s, NEW guard, SeenBy(guard, log, events, guarded, s),
         entry[1].kind = "answer", entry[1].session = s
  PROVE  SeenBy(Answered(guard, entry[1]), Append(log, entry), events, guarded, s)
<1> DEFINE new == Append(log, entry)
           event == entry[1]
<1>1. ~Forgets(event, s, {}) /\ ~Forgets(event, s, {"end"})
  BY DEF Forgets
<1>2. /\ entry \in Replies(events) /\ AboutIn(events)[entry] = event.about
      /\ AnswerIn(events)[entry] = event.answer
      /\ entry \notin Passing(events, guarded) /\ entry \notin Starts(events)
  BY DEF Starts, Replies, Calls, Passing, AboutIn, AnswerIn
<1>3. SeenAfter(new, log, entry, events, guarded, s)
  BY SeenNext
<1>4. /\ TurnWords(log, events, s) \in Seq(Abouts(events)) /\ event.about \in Abouts(events)
      /\ TurnAnswers(log, events, s) \in Seq(Answers(events))
      /\ event.answer \in Answers(events)
  BY SeenAre DEF Abouts, Answers, Entry
<1> HIDE DEF new, event
<1>5. /\ AllCalled(new, events, guarded, s) = AllCalled(log, events, guarded, s)
      /\ TurnCalls(new, events, guarded, s) = TurnCalls(log, events, guarded, s)
      /\ TurnWords(new, events, s) = Append(TurnWords(log, events, s), event.about)
      /\ TurnAnswers(new, events, s) = Append(TurnAnswers(log, events, s), event.answer)
      /\ TurnBegun(new, events, s) = TurnBegun(log, events, s)
  BY <1>1, <1>2, <1>3 DEF SeenAfter, RecalledAfter, event
<1>6. Holds(Answered(guard, event), AllCalled(log, events, guarded, s),
            TurnCalls(log, events, guarded, s), Append(TurnWords(log, events, s), event.about),
            Append(TurnAnswers(log, events, s), event.answer), TurnBegun(log, events, s))
  BY <1>4, AnsweredHolds DEF SeenBy
<1>7. QED BY <1>5, <1>6 DEF SeenBy, new, event

(* What is recalled is what the places say, and its last what the last do. *)
Says(said, log, f, P) ==
  /\ \A x : Contains(said, x) <=> \E j \in P : f[log[j]] = x
  /\ said = <<>> <=> P = {}

(* What is recalled is what the places say. *)
LEMMA RecalledSays ==
  ASSUME NEW W, NEW log \in Seq(W), NEW s, NEW kinds, NEW G, NEW U, NEW f \in [W -> U]
  PROVE  Says(Recalled(log, s, kinds, f, G), log, f, PlacesOf(log, s, kinds, G))
<1>0. SaidBy(Recalled(log, s, kinds, f, G), U, PlacesOf(log, s, kinds, G), Len(log))
  BY RecalledIs
<1> DEFINE m == Len(log)
           P == PlacesOf(log, s, kinds, G)
           told == [j \in 1..m |-> f[log[j]]]
           said == Recalled(log, s, kinds, f, G)
<1>1. m \in Nat /\ P \subseteq 1..m
  BY DEF PlacesOf, Alive
<1>2. said = KeepPlaces(told, P)
  BY DEF Recalled
<1>3. \A j \in 1..m : told[j] = f[log[j]]
  OBVIOUS
<1>4. said \in Seq(U) /\ Cardinality(P) \in Nat /\ Len(said) = Cardinality(P)
  BY <1>0 DEF SaidBy
<1> HIDE DEF P, told, m, said
<1>5. \A x : Found(said, x) <=> Among(told, P, x)
  BY <1>1, <1>2, KeptFound
<1>6. DOMAIN said = 1..Len(said)
  BY <1>4
<1>7. \A x : Contains(said, x) <=> \E j \in P : f[log[j]] = x
  <2>1. \A x : Contains(said, x) <=> Found(said, x)
    BY <1>6 DEF Contains, Found
  <2>2. \A x : Among(told, P, x) <=> \E j \in P : f[log[j]] = x
    BY <1>1, <1>3 DEF Among
  <2>3. QED BY <1>5, <2>1, <2>2
<1>8. said = <<>> <=> P = {}
  <2>1. IsFiniteSet(P)
    <3>1. IsFiniteSet(1..m)
      BY <1>1, FS_Interval
    <3>2. QED BY <1>1, <3>1, FS_Subset
  <2>2. Cardinality(P) = 0 <=> P = {}
    BY <2>1, FS_EmptySet
  <2>3. said = <<>> <=> Len(said) = 0
    BY <1>4
  <2>4. QED BY <1>4, <2>2, <2>3
<1>9. QED BY <1>7, <1>8 DEF Says, said, P

SaysLast(last, places, n, log, f, P) ==
  /\ Len(places) = Few(n, Cardinality(P)) /\ places \in Seq(P)
  /\ last = [i \in 1..Len(places) |-> f[log[places[i]]]]

(* The last recalled is what the last places say. *)
LEMMA RecalledSaysLast ==
  ASSUME NEW W, NEW log \in Seq(W), NEW s, NEW kinds, NEW G, NEW U, NEW f \in [W -> U],
         NEW n \in Nat
  PROVE  SaysLast(LastOnes(n, Recalled(log, s, kinds, f, G)),
                  LastOnes(n, Ascending(PlacesOf(log, s, kinds, G))), n, log, f,
                  PlacesOf(log, s, kinds, G))
<1> DEFINE m == Len(log)
           P == PlacesOf(log, s, kinds, G)
           told == [j \in 1..m |-> f[log[j]]]
           places == LastOnes(n, Ascending(P))
           last == LastOnes(n, Recalled(log, s, kinds, f, G))
<1>1. m \in Nat /\ P \subseteq 1..m /\ \A j \in 1..m : log[j] \in W
  BY DEF PlacesOf, Alive
<1>2. last = LastOnes(n, KeepPlaces(told, P))
  BY DEF Recalled
<1>3. \A j \in 1..m : told[j] = f[log[j]] /\ told[j] \in U
  BY <1>1
<1> HIDE DEF P, told, m
<1>4. \A p \in P : told[p] \in U
  BY <1>1, <1>3
<1>5. LastAt(last, places, n, told, P)
  BY <1>1, <1>2, <1>4, LastKept
<1> HIDE DEF places, last
<1>6. /\ Len(places) = Few(n, Cardinality(P)) /\ places \in Seq(P)
      /\ last = [i \in 1..Len(places) |-> told[places[i]]]
  BY <1>5 DEF LastAt
<1>7. \A i \in 1..Len(places) : told[places[i]] = f[log[places[i]]]
  <2>1. \A i \in 1..Len(places) : places[i] \in P
    BY <1>6
  <2>2. \A p \in P : told[p] = f[log[p]]
    BY <1>1, <1>3
  <2>3. QED BY <2>1, <2>2
<1>8. QED BY <1>6, <1>7 DEF SaysLast, places, last, P

(* The first recalled is what the first place says. *)
SaysFirst(said, places, log, f, P) ==
  /\ places = <<>> <=> said = <<>>
  /\ said # <<>> => places[1] \in P /\ said[1] = f[log[places[1]]]

(* The first recalled is what the first place says. *)
LEMMA RecalledSaysFirst ==
  ASSUME NEW W, NEW log \in Seq(W), NEW s, NEW kinds, NEW G, NEW U, NEW f \in [W -> U]
  PROVE  SaysFirst(Recalled(log, s, kinds, f, G), Ascending(PlacesOf(log, s, kinds, G)),
                   log, f, PlacesOf(log, s, kinds, G))
<1> DEFINE m == Len(log)
           P == PlacesOf(log, s, kinds, G)
           k == Cardinality(P)
           told == [j \in 1..m |-> f[log[j]]]
           places == Ascending(P)
           said == Recalled(log, s, kinds, f, G)
<1>1. m \in Nat /\ P \subseteq 1..m
  BY DEF PlacesOf, Alive
<1>2. said = KeepPlaces(told, P)
  BY DEF Recalled
<1>3. \A j \in 1..m : told[j] = f[log[j]]
  OBVIOUS
<1> HIDE DEF P, told, m, places, said, k
<1>4. InOrderAt(places, k, P) /\ KeptBy(KeepPlaces(told, P), told, k, places)
  BY <1>1, KeptInOrder DEF places, k
<1>5. k \in Nat /\ places \in Seq(P) /\ Len(places) = k /\ said = [n \in 1..k |-> told[places[n]]]
  BY <1>2, <1>4 DEF InOrderAt, KeptBy
<1>6. places = <<>> <=> k = 0
  BY <1>5
<1>7. said = <<>> <=> k = 0
  <2>1. DOMAIN said = 1..k
    BY <1>5
  <2>2. k = 0 => said = <<>>
    BY <1>5
  <2>3. k # 0 => 1 \in DOMAIN said
    BY <1>5, <2>1
  <2>4. QED BY <2>2, <2>3
<1>8. k # 0 => places[1] \in P /\ said[1] = f[log[places[1]]]
  <2> SUFFICES ASSUME k # 0 PROVE places[1] \in P /\ said[1] = f[log[places[1]]]
    OBVIOUS
  <2>1. 1 \in 1..k /\ places[1] \in P
    BY <1>5
  <2>2. said[1] = told[places[1]]
    BY <1>5, <2>1
  <2>3. told[places[1]] = f[log[places[1]]]
    BY <1>1, <1>3, <2>1
  <2>4. QED BY <2>1, <2>2, <2>3
<1>9. QED BY <1>6, <1>7, <1>8 DEF SaysFirst, places, said, P

(* The log, and what happened lately in it. *)
LogOf(history, said) == [j \in 1..Len(history) |-> <<history[j], said[j]>>]

(* The log pairs every event with what was said of it. *)
LEMMA LogIs ==
  ASSUME NEW events, NEW history \in Seq(events), NEW said \in Seq(SUBSET Notice),
         Len(said) = Len(history)
  PROVE  /\ LogOf(history, said) \in Seq(Entry(events))
         /\ Len(LogOf(history, said)) = Len(history)
         /\ \A j \in 1..Len(history) : LogOf(history, said)[j] = <<history[j], said[j]>>
<1>1. \A j \in 1..Len(history) : <<history[j], said[j]>> \in Entry(events)
  BY DEF Entry
<1>2. LogOf(history, said) \in [1..Len(history) -> Entry(events)]
  BY <1>1 DEF LogOf
<1>3. Len(history) \in Nat
  OBVIOUS
<1>4. QED BY <1>2, <1>3 DEF LogOf

(* An event more is an entry more. *)
LEMMA LogNext ==
  ASSUME NEW events, NEW history \in Seq(events), NEW said \in Seq(SUBSET Notice),
         Len(said) = Len(history), NEW event \in events, NEW told \in SUBSET Notice
  PROVE  LogOf(Append(history, event), Append(said, told))
           = Append(LogOf(history, said), <<event, told>>)
<1> DEFINE m == Len(history)
           log == LogOf(history, said)
           new == LogOf(Append(history, event), Append(said, told))
           entry == <<event, told>>
<1>1. /\ m \in Nat /\ Len(Append(history, event)) = m + 1
      /\ Append(history, event)[m + 1] = event /\ Append(said, told)[m + 1] = told
      /\ \A j \in 1..m : /\ Append(history, event)[j] = history[j]
                         /\ Append(said, told)[j] = said[j]
  OBVIOUS
<1>2. new = [j \in 1..(m + 1) |-> <<Append(history, event)[j], Append(said, told)[j]>>]
  BY <1>1 DEF LogOf
<1>3. log \in Seq(Entry(events)) /\ Len(log) = m /\ \A j \in 1..m : log[j] = <<history[j], said[j]>>
  BY LogIs
<1>4. entry \in Entry(events)
  BY DEF Entry
<1>5. \A j \in 1..(m + 1) : new[j] = IF j = m + 1 THEN entry ELSE log[j]
  <2>1. new[m + 1] = entry
    BY <1>1, <1>2
  <2> HIDE DEF m, log, entry
  <2>2. ASSUME NEW j \in 1..m PROVE new[j] = log[j]
    <3>1. j \in 1..(m + 1)
      BY <1>1
    <3>2. new[j] = <<Append(history, event)[j], Append(said, told)[j]>>
      BY <1>2, <3>1
    <3>3. QED BY <1>1, <1>3, <3>2
  <2>3. QED BY <1>1, <2>1, <2>2
<1> DEFINE more == Append(log, entry)
<1>6. /\ more = [j \in 1..(m + 1) |-> more[j]]
      /\ \A j \in 1..(m + 1) : more[j] = IF j = m + 1 THEN entry ELSE log[j]
  <2> HIDE DEF m, log, entry
  <2>1. more \in Seq(Entry(events)) /\ Len(more) = m + 1
    BY <1>1, <1>3, <1>4
  <2>2. \A j \in 1..(m + 1) : more[j] = IF j = m + 1 THEN entry ELSE log[j]
    BY <1>1, <1>3, <1>4
  <2> HIDE DEF more
  <2>3. QED BY <2>1, <2>2
<1>7. new = [j \in 1..(m + 1) |-> new[j]]
  BY <1>2
<1> HIDE DEF m, new, more, entry, log
<1>8. new = more
  BY <1>5, <1>6, <1>7
<1>9. QED BY <1>8 DEF new, more, log, entry

LatelyAre(history, said, events, guarded, log, i, s, kinds) ==
  LET lately == Lately(history, i, s, kinds) IN
  /\ OfKind(history, lately, "answer") = PlacesOf(log, s, kinds, Replies(events))
  /\ OfKind(history, lately, "begin") = PlacesOf(log, s, kinds, Starts(events))
  /\ Through(history, said, lately, guarded) = PlacesOf(log, s, kinds, Passing(events, guarded))

(* What happened lately is at the places of the log that are still alive.  *)
LEMMA LatelyFound ==
  ASSUME NEW events, NEW history \in Seq(events), NEW said \in Seq(SUBSET Notice),
         Len(said) = Len(history), NEW event \in events, NEW told \in SUBSET Notice,
         NEW guarded, NEW s, NEW kinds
  PROVE  LatelyAre(Append(history, event), Append(said, told), events, guarded,
                   LogOf(history, said), Len(history) + 1, s, kinds)
<1> DEFINE m == Len(history)
           log == LogOf(history, said)
           h == Append(history, event)
           t == Append(said, told)
           lately == Lately(h, m + 1, s, kinds)
           alive == Alive(log, s, kinds)
<1>1. m \in Nat /\ m + 1 - 1 = m /\ \A j \in 1..m : h[j] = history[j] /\ t[j] = said[j]
  OBVIOUS
<1>2. /\ log \in Seq(Entry(events)) /\ Len(log) = m
      /\ \A j \in 1..m : log[j] = <<history[j], said[j]>>
  BY LogIs
<1> HIDE DEF m, log, h, t
<1>3. \A j \in 1..m : log[j][1] = h[j] /\ log[j][2] = t[j] /\ log[j] \in Entry(events)
  BY <1>1, <1>2
<1>4. lately = alive
  <2>1. \A j : j \in lately <=> /\ j \in 1..m /\ h[j].session = s
                                /\ \A k \in j..m : ~Forgets(h[k], s, kinds)
    BY <1>1 DEF Lately
  <2>2. \A j : j \in alive <=> /\ j \in 1..m /\ log[j][1].session = s
                               /\ \A k \in j..m : ~Forgets(log[k][1], s, kinds)
    BY <1>2 DEF Alive
  <2>3. \A j \in 1..m : \A k \in j..m : k \in 1..m
    BY <1>1
  <2> HIDE DEF lately, alive
  <2>4. \A j : j \in lately <=> j \in alive
    BY <1>3, <2>1, <2>2, <2>3
  <2>5. QED BY <2>4
<1>5. alive \subseteq 1..m
  BY <1>2 DEF Alive
<1> HIDE DEF lately, alive
<1>6. \A j \in alive : /\ log[j] \in Replies(events) <=> h[j].kind = "answer"
                       /\ log[j] \in Starts(events) <=> h[j].kind = "begin"
                       /\ log[j] \in Passing(events, guarded) <=>
                            /\ h[j].kind = "call" /\ h[j].tool \in guarded
                            /\ "rejected" \notin t[j]
  BY <1>3, <1>5 DEF Replies, Starts, Calls, Passing
<1>7. OfKind(h, alive, "answer") = PlacesOf(log, s, kinds, Replies(events))
  BY <1>6 DEF OfKind, PlacesOf, alive
<1>8. OfKind(h, alive, "begin") = PlacesOf(log, s, kinds, Starts(events))
  BY <1>6 DEF OfKind, PlacesOf, alive
<1>9. Through(h, t, alive, guarded) = PlacesOf(log, s, kinds, Passing(events, guarded))
  BY <1>6 DEF Through, OfKind, PlacesOf, alive
<1>10. QED BY <1>4, <1>7, <1>8, <1>9 DEF LatelyAre, m, h, t, log, lately

(* A turn that has its session to itself is held to what it did, and that  *)
(* is all that was done lately: an end since it began would be that of a   *)
(* turn that ran beside it.                                                *)
LEMMA HeldIsLately ==
  ASSUME NEW history, NEW i \in Nat, i > 0, \A j \in 1..i : Lawful(history, j),
         history[i].kind \in {"call", "answer", "check"}
  PROVE  HeldTo(history, i) = Lately(history, i, history[i].session, {"end"})
<1> DEFINE s == history[i].session
           n == history[i].turn
           own == Own(history, i)
           lately == Lately(history, i, s, {"end"})
<1> SUFFICES ASSUME Alone(history, i) PROVE own = lately
  BY DEF HeldTo
<1>1. Begun(history, i, s, n) # {}
  <2>1. Lawful(history, i)
    OBVIOUS
  <2>2. QED BY <2>1 DEF Lawful
<1>2. ASSUME NEW b \in Begun(history, i, s, n), NEW j \in 1..(i - 1), NEW r,
             Begins(history[j], s, r), r # n
      PROVE  \E k \in (j + 1)..(b - 1) : EndsTurn(history[k], s, r)
  <2>1. history[j].turn = r /\ history[j].turn # n /\ Begins(history[j], s, history[j].turn)
    BY <1>2 DEF Begins
  <2>2. QED BY <2>1 DEF Alone
<1>3. \A b \in Begun(history, i, s, n) :
        b \in 1..(i - 1) /\ \A k \in (b + 1)..(i - 1) : ~EndsTurn(history[k], s, n)
  BY DEF Begun
<1>4. ASSUME NEW j \in own PROVE j \in lately
  <2>1. j \in 1..(i - 1) /\ history[j].session = s /\ history[j].turn = n
    BY DEF Own
  <2>2. PICK b \in Begun(history, i, s, n) : b <= j
    BY DEF Own
  <2>3. ASSUME NEW k \in j..(i - 1), Forgets(history[k], s, {"end"}) PROVE FALSE
    <3>1. history[b].kind = "begin"
      BY DEF Begun, Begins
    <3>2. history[k].kind \in {"restart", "end"}
      BY <2>3 DEF Forgets
    <3>3. k # b
      BY <3>1, <3>2
    <3>4. k \in 1..i /\ k \in (b + 1)..(i - 1) /\ b \in 1..(i - 1)
      BY <1>3, <2>1, <2>2, <3>3
    <3>5. CASE history[k].kind = "restart"
      <4>1. EndsTurn(history[k], s, n)
        BY <3>5 DEF EndsTurn
      <4>2. QED BY <1>3, <3>4, <4>1
    <3>6. CASE history[k].kind = "end"
      <4> DEFINE r == history[k].turn
      <4>1. history[k].session = s
        BY <2>3, <3>6 DEF Forgets
      <4>2. r # n
        <5>1. r = n => EndsTurn(history[k], s, n)
          BY <3>6, <4>1 DEF EndsTurn
        <5>2. QED BY <1>3, <3>4, <5>1
      <4>3. Begun(history, k, s, r) # {}
        <5>1. Lawful(history, k)
          BY <3>4
        <5>2. QED BY <3>6, <4>1, <5>1 DEF Lawful
      <4> HIDE DEF r
      <4>4. PICK c \in 1..(k - 1) :
              /\ Begins(history[c], s, r)
              /\ \A l \in (c + 1)..(k - 1) : ~EndsTurn(history[l], s, r)
        BY <4>3 DEF Begun
      <4>5. c \in 1..(i - 1)
        BY <3>4, <4>4
      <4>6. PICK l \in (c + 1)..(b - 1) : EndsTurn(history[l], s, r)
        BY <1>2, <4>2, <4>4, <4>5
      <4>7. l \in (c + 1)..(k - 1)
        BY <3>4, <4>4, <4>5, <4>6
      <4>8. QED BY <4>4, <4>6, <4>7
    <3>7. QED BY <3>2, <3>5, <3>6
  <2>4. QED BY <2>1, <2>3 DEF Lately
<1>5. ASSUME NEW j \in lately PROVE j \in own
  <2>1. /\ j \in 1..(i - 1) /\ history[j].session = s
        /\ \A k \in j..(i - 1) : ~Forgets(history[k], s, {"end"})
    BY DEF Lately
  <2> DEFINE r == history[j].turn
  <2>2. \A k \in j..(i - 1) : ~EndsTurn(history[k], s, r)
    BY <2>1 DEF EndsTurn, Forgets
  <2>3. \E c \in 1..j : /\ Begins(history[c], s, r)
                        /\ \A k \in (c + 1)..(j - 1) : ~EndsTurn(history[k], s, r)
    <3>1. CASE history[j].kind = "begin"
      <4>1. j \in 1..j /\ (j + 1)..(j - 1) = {}
        BY <2>1
      <4>2. Begins(history[j], s, r)
        BY <2>1, <3>1 DEF Begins
      <4>3. QED BY <4>1, <4>2
    <3>2. CASE history[j].kind # "begin"
      <4>1. Lawful(history, j) /\ j \in j..(i - 1)
        BY <2>1
      <4>2. history[j].kind \notin {"restart", "end"}
        BY <2>1, <4>1 DEF Forgets
      <4>3. Begun(history, j, s, r) # {}
        BY <2>1, <3>2, <4>1, <4>2 DEF Lawful
      <4>4. PICK c \in 1..(j - 1) :
              /\ Begins(history[c], s, r)
              /\ \A k \in (c + 1)..(j - 1) : ~EndsTurn(history[k], s, r)
        BY <4>3 DEF Begun
      <4>5. c \in 1..j
        BY <2>1, <4>4
      <4>6. QED BY <4>4, <4>5
    <3>3. QED BY <3>1, <3>2
  <2> HIDE DEF r
  <2>4. PICK c \in 1..j : /\ Begins(history[c], s, r)
                          /\ \A k \in (c + 1)..(j - 1) : ~EndsTurn(history[k], s, r)
    BY <2>3
  <2>5. c \in 1..(i - 1) /\ c <= j /\ \A k \in (c + 1)..(i - 1) : ~EndsTurn(history[k], s, r)
    <3>1. c \in 1..(i - 1) /\ c <= j
      BY <2>1, <2>4
    <3>2. \A k \in (c + 1)..(i - 1) : k \in (c + 1)..(j - 1) \/ k \in j..(i - 1)
      BY <2>1, <2>4
    <3>3. QED BY <2>2, <2>4, <3>1, <3>2
  <2>6. r = n
    <3> SUFFICES ASSUME r # n PROVE FALSE
      OBVIOUS
    <3>1. PICK b : b \in Begun(history, i, s, n)
      BY <1>1
    <3>2. PICK k \in (c + 1)..(b - 1) : EndsTurn(history[k], s, r)
      BY <1>2, <2>4, <2>5, <3>1
    <3>3. k \in (c + 1)..(i - 1)
      BY <1>3, <2>5, <3>1, <3>2
    <3>4. QED BY <2>5, <3>2, <3>3
  <2>7. c \in Begun(history, i, s, n)
    BY <2>4, <2>5, <2>6 DEF Begun
  <2>8. QED BY <2>1, <2>5, <2>6, <2>7 DEF Own, r
<1> HIDE DEF own, lately
<1>6. QED BY <1>4, <1>5

(* What was lawful stays so. *)
LEMMA LawfulStays ==
  ASSUME NEW T, NEW history \in Seq(T), NEW event \in T, NEW j \in 1..Len(history),
         Lawful(history, j)
  PROVE  Lawful(Append(history, event), j)
<1> DEFINE m == Len(history)
           h == Append(history, event)
<1>1. m \in Nat /\ j \in 1..m /\ \A k \in 1..m : h[k] = history[k]
  OBVIOUS
<1> HIDE DEF h, m
<1>2. h[j] = history[j] /\ \A k \in 1..(j - 1) : h[k] = history[k]
  BY <1>1
<1>3. ASSUME NEW s, NEW n PROVE Begun(h, j, s, n) = Begun(history, j, s, n)
  <2>1. \A b \in 1..(j - 1) : \A k \in (b + 1)..(j - 1) : k \in 1..(j - 1)
    BY <1>1
  <2>2. \A b \in 1..(j - 1) : /\ Begins(h[b], s, n) <=> Begins(history[b], s, n)
                              /\ (\A k \in (b + 1)..(j - 1) : ~EndsTurn(h[k], s, n)) <=>
                                   \A k \in (b + 1)..(j - 1) : ~EndsTurn(history[k], s, n)
    BY <1>2, <2>1
  <2>3. QED BY <2>2 DEF Begun
<1> DEFINE e == history[j]
           begun == Begun(history, j, e.session, e.turn)
<1>4. \A b \in begun : \A k \in b..(j - 1) : k \in 1..(j - 1)
  BY <1>1 DEF Begun
<1> HIDE DEF begun
<1>5. Begun(h, j, e.session, e.turn) = begun
  BY <1>3 DEF begun
<1> DEFINE CheckedIn(g, b) == \E k \in b..(j - 1) : /\ g[k].kind = "check"
                                                 /\ g[k].session = e.session
                                                 /\ g[k].turn = e.turn
<1>6. \A b \in begun : CheckedIn(h, b) <=> CheckedIn(history, b)
  BY <1>2, <1>4
<1>7. \/ e.kind = "restart"
      \/ e.kind = "begin" /\ begun = {}
      \/ e.kind = "end" /\ begun # {}
      \/ e.kind \in {"call", "answer", "check"} /\ \E b \in begun : ~CheckedIn(history, b)
  BY DEF Lawful, begun
<1> HIDE DEF CheckedIn
<1>8. \/ e.kind = "restart"
      \/ e.kind = "begin" /\ begun = {}
      \/ e.kind = "end" /\ begun # {}
      \/ e.kind \in {"call", "answer", "check"} /\ \E b \in begun : ~CheckedIn(h, b)
  BY <1>6, <1>7
<1>9. h[j] = e
  BY <1>2
<1> HIDE DEF e
<1>10. Lawful(h, j)
  BY <1>5, <1>8, <1>9 DEF Lawful, CheckedIn
<1>11. QED BY <1>10 DEF h

(* What the guards say. *)
LEMMA SaidOfCalls ==
  ASSUME NEW guard, NEW event, NEW guarded
  PROVE  /\ Notices(guard, event, guarded) \in SUBSET Notice
         /\ SchemaNotice(event, guarded) \in SUBSET Notice
         /\ "rejected" \in Notices(guard, event, guarded) <=>
              /\ event.tool \in guarded /\ event.tool = "order" /\ guard.called # <<>>
              /\ ~Contains(guard.called, "search")
         /\ "loop" \in Notices(guard, event, guarded) <=>
              /\ event.tool \in guarded /\ "rejected" \notin Notices(guard, event, guarded)
              /\ TrailingRepeat(Looked(guard, event.tool), event.tool) >= RepeatThreshold
<1> DEFINE verdict == Sequencing(guard, event.tool)
           told == Notices(guard, event, guarded)
<1>1. verdict = "rejected" <=> /\ event.tool = "order" /\ guard.called # <<>>
                               /\ ~Contains(guard.called, "search")
  <2>1. DOMAIN Prerequisite = {"order", "cancel"} /\ Prerequisite["order"] = "search"
    BY DEF Prerequisite
  <2>2. CASE event.tool = "order"
    BY <2>1, <2>2 DEF Sequencing, HardReject
  <2>3. CASE event.tool # "order"
    BY <2>3 DEF Sequencing, HardReject
  <2>4. QED BY <2>2, <2>3
<1>2. event.tool \notin guarded => told = {}
  BY DEF Notices
<1>3. event.tool \in guarded /\ verdict = "rejected" => told = {"rejected"}
  BY DEF Notices
<1>4. event.tool \in guarded /\ verdict # "rejected" =>
        /\ told \subseteq {"warning", "loop"}
        /\ "loop" \in told <=>
             TrailingRepeat(Looked(guard, event.tool), event.tool) >= RepeatThreshold
  BY DEF Notices
<1> HIDE DEF verdict, told
<1>5. told \in SUBSET Notice
  BY <1>2, <1>3, <1>4 DEF Notice
<1>6. "rejected" \in told <=> event.tool \in guarded /\ verdict = "rejected"
  BY <1>2, <1>3, <1>4
<1>7. "loop" \in told <=>
        /\ event.tool \in guarded /\ "rejected" \notin told
        /\ TrailingRepeat(Looked(guard, event.tool), event.tool) >= RepeatThreshold
  BY <1>2, <1>3, <1>4, <1>6
<1>8. SchemaNotice(event, guarded) \in SUBSET Notice
  BY DEF SchemaNotice, Notice
<1>9. QED BY <1>1, <1>5, <1>6, <1>7, <1>8 DEF told

(* A loop is the last calls and this one. *)
LEMMA LoopIsTheLast ==
  ASSUME NEW T, NEW calls \in Seq(T), NEW tool \in T
  PROVE  TrailingRepeat(LastOnes(Window, Append(calls, tool)), tool) >= RepeatThreshold <=>
           /\ Len(LastOnes(RepeatThreshold - 1, calls)) = RepeatThreshold - 1
           /\ \A i \in 1..(RepeatThreshold - 1) : LastOnes(RepeatThreshold - 1, calls)[i] = tool
<1> DEFINE m == Len(calls)
           l == m + 1
           r == RepeatThreshold
           p == r - 1
           all == Append(calls, tool)
           looked == LastOnes(Window, all)
           last == LastOnes(p, calls)
           w == Few(Window, l)
           f == Few(p, m)
<1>1. /\ m \in Nat /\ all \in Seq(T) /\ Len(all) = l /\ all[l] = tool
      /\ \A i \in 1..m : all[i] = calls[i]
  OBVIOUS
<1>2. r \in Nat /\ r > 0 /\ Window \in Nat /\ r <= Window /\ p \in Nat /\ p = r - 1
  BY HarnessAssumption
<1>3. l = m + 1
  OBVIOUS
<1> HIDE DEF m, l, r, p, all, looked, last
<1>4. /\ looked \in Seq(T) /\ Len(looked) = w
      /\ looked = [i \in 1..w |-> all[l - w + i]]
  <2>1. TheLast(looked, Window, all, l, T)
    BY <1>1, <1>2, LastOnesAre DEF looked
  <2>2. QED BY <2>1 DEF TheLast
<1>5. Len(last) = f /\ last = [i \in 1..f |-> calls[m - f + i]]
  <2>1. TheLast(last, p, calls, m, T)
    BY <1>2, LastOnesAre DEF last, m
  <2>2. QED BY <2>1 DEF TheLast
<1>6. /\ w \in Nat /\ w <= l /\ f \in Nat /\ f <= m
      /\ w >= r <=> m >= p
      /\ f = p <=> m >= p
  BY <1>1, <1>2, <1>3 DEF Few
<1> HIDE DEF w, f
<1>7. TrailingRepeat(looked, tool) >= r <=>
        w >= r /\ \A j \in (w - r + 1)..w : looked[j] = tool
  <2>1. r \in Nat \ {0}
    BY <1>2
  <2>2. TrailingRepeat(looked, tool) >= r <=>
          Len(looked) >= r /\ \A j \in (Len(looked) - r + 1)..Len(looked) : looked[j] = tool
    BY <1>4, <2>1, RepeatedAtTheEnd
  <2>3. QED BY <1>4, <2>2
<1>8. ASSUME m >= p
      PROVE  (\A j \in (w - r + 1)..w : looked[j] = tool) <=> (\A i \in 1..p : last[i] = tool)
  <2>1. f = p /\ w >= r
    BY <1>6, <1>8
  <2>2. ASSUME NEW i \in 1..p
        PROVE  /\ w - r + i \in (w - r + 1)..w /\ looked[w - r + i] = last[i]
    <3> DEFINE q == m - p + i
               j == w - r + i
    <3>1. q \in 1..m /\ j \in 1..w /\ l - w + j = q /\ j \in (w - r + 1)..w
      BY <1>1, <1>2, <1>3, <1>6, <1>8, <2>1
    <3>2. last[i] = calls[q]
      BY <1>5, <2>1
    <3> HIDE DEF q, j
    <3>3. looked[j] = all[l - w + j]
      BY <1>4, <3>1
    <3>4. looked[j] = calls[q]
      BY <1>1, <3>1, <3>3
    <3>5. QED BY <3>1, <3>2, <3>4 DEF j
  <2>3. looked[w] = tool
    <3>1. w \in 1..w /\ l - w + w = l
      BY <1>2, <1>3, <1>1, <1>6, <2>1
    <3>2. looked[w] = all[l - w + w]
      BY <1>4, <3>1
    <3>3. QED BY <1>1, <3>1, <3>2
  <2>4. ASSUME NEW j \in (w - r + 1)..w, j # w
        PROVE  j - w + r \in 1..p /\ w - r + (j - w + r) = j
    BY <1>2, <1>6, <2>1, <2>4
  <2>5. ASSUME \A j \in (w - r + 1)..w : looked[j] = tool PROVE \A i \in 1..p : last[i] = tool
    BY <2>2, <2>5
  <2>6. ASSUME \A i \in 1..p : last[i] = tool, NEW j \in (w - r + 1)..w PROVE looked[j] = tool
    <3>1. CASE j = w
      BY <2>3, <3>1
    <3>2. CASE j # w
      <4> DEFINE i == j - w + r
      <4>1. i \in 1..p /\ w - r + i = j
        BY <2>4, <3>2
      <4> HIDE DEF i
      <4>2. looked[w - r + i] = last[i]
        BY <2>2, <4>1
      <4>3. QED BY <2>6, <4>1, <4>2
    <3>3. QED BY <3>1, <3>2
  <2>7. QED BY <2>5, <2>6
<1>9. TrailingRepeat(looked, tool) >= r <=> Len(last) = p /\ \A i \in 1..p : last[i] = tool
  BY <1>5, <1>6, <1>7, <1>8
<1>10. QED BY <1>9 DEF looked, all, last, r, p

(* A call is refused, and found to be a loop, for what was done before.    *)
LEMMA CallIsGuarded ==
  ASSUME NEW events, NEW history \in Seq(events), NEW said \in Seq(SUBSET Notice),
         Len(said) = Len(history), NEW event \in events, event.kind = "call",
         \A j \in 1..(Len(history) + 1) : Lawful(Append(history, event), j),
         NEW guarded, NEW guard,
         SeenBy(guard, LogOf(history, said), events, guarded, event.session),
         NEW told, told = Notices(guard, event, guarded)
  PROVE  CallGuarded(Append(history, event), Append(said, told), Len(history) + 1, guarded)
<1> DEFINE m == Len(history)
           s == event.session
           log == LogOf(history, said)
           h == Append(history, event)
           t == Append(said, told)
           tools == ToolIn(events)
           before == PlacesOf(log, s, {}, Passing(events, guarded))
           turn == PlacesOf(log, s, {"end"}, Passing(events, guarded))
           called == AllCalled(log, events, guarded, s)
           calls == TurnCalls(log, events, guarded, s)
           p == RepeatThreshold - 1
           latest == LastOnes(p, Ascending(turn))
           last == LastOnes(p, calls)
<1>1. told \in SUBSET Notice
  BY SaidOfCalls
<1>2. /\ m \in Nat /\ h[m + 1] = event /\ t[m + 1] = told
      /\ \A j \in 1..m : h[j] = history[j]
  BY <1>1
<1>3. /\ log \in Seq(Entry(events)) /\ Len(log) = m
      /\ \A j \in 1..m : log[j] = <<history[j], said[j]>> /\ log[j] \in Entry(events)
  BY LogIs
<1>4. Through(h, t, Lately(h, m + 1, s, {}), guarded) = before
  BY <1>1, LatelyFound DEF LatelyAre
<1>5. Through(h, t, HeldTo(h, m + 1), guarded) = turn
  <2>1. m + 1 \in Nat /\ m + 1 > 0 /\ h[m + 1].kind \in {"call", "answer", "check"}
    BY <1>2
  <2>2. (\A j \in 1..(m + 1) : Lawful(h, j)) /\ h[m + 1].session = s
    BY <1>2
  <2>3. Through(h, t, Lately(h, m + 1, s, {"end"}), guarded) = turn
    BY <1>1, LatelyFound DEF LatelyAre
  <2> HIDE DEF h, m, s, t, turn
  <2>4. HeldTo(h, m + 1) = Lately(h, m + 1, h[m + 1].session, {"end"})
    BY <2>1, <2>2, HeldIsLately
  <2>5. QED BY <2>2, <2>3, <2>4
<1>6. guard.called = called /\ guard.calls = LastOnes(Window, calls)
  BY DEF SeenBy, Holds
<1>7. p \in Nat /\ p = RepeatThreshold - 1 /\ Window \in Nat \ {0}
  BY HarnessAssumption
<1>8. before \subseteq 1..m /\ turn \subseteq 1..m
  BY <1>3 DEF PlacesOf, Alive
<1>9. calls \in Seq(Tools(events)) /\ event.tool \in Tools(events)
  BY <1>3, SeenAre DEF Tools
<1>10. tools \in [Entry(events) -> Tools(events)]
  BY EntriesSay
<1>11. \A j \in 1..m : tools[log[j]] = h[j].tool
  BY <1>2, <1>3 DEF ToolIn
<1>12. Says(called, log, tools, before)
  BY <1>3, <1>10, RecalledSays DEF AllCalled
<1>13. SaysLast(last, latest, p, log, tools, turn)
  BY <1>3, <1>7, <1>10, RecalledSaysLast DEF TurnCalls
<1> HIDE DEF m, s, log, h, t, tools, before, turn, called, calls, p, latest, last
<1>14. "rejected" \in told <=>
         /\ event.tool \in guarded \cap {"order"} /\ before # {}
         /\ \A j \in before : h[j].tool # "search"
  <2>1. "rejected" \in told <=>
          /\ event.tool \in guarded /\ event.tool = "order" /\ called # <<>>
          /\ ~Contains(called, "search")
    BY <1>6, SaidOfCalls
  <2>2. Contains(called, "search") <=> \E j \in before : h[j].tool = "search"
    BY <1>8, <1>11, <1>12 DEF Says
  <2>3. called = <<>> <=> before = {}
    BY <1>12 DEF Says
  <2>4. QED BY <2>1, <2>2, <2>3
<1>15. "loop" \in told <=>
         /\ event.tool \in guarded /\ "rejected" \notin told
         /\ Len(latest) = p
         /\ \A j \in ToSet(latest) : h[j].tool = event.tool
  <2>1. Looked(guard, event.tool) = LastOnes(Window, Append(calls, event.tool))
    <3>1. LastOnes(Window, Append(LastOnes(Window, calls), event.tool))
            = LastOnes(Window, Append(calls, event.tool))
      BY <1>7, <1>9, LastOnesNext
    <3>2. QED BY <1>6, <3>1 DEF Looked
  <2>2. TrailingRepeat(LastOnes(Window, Append(calls, event.tool)), event.tool)
          >= RepeatThreshold
          <=> Len(last) = p /\ \A i \in 1..p : last[i] = event.tool
    BY <1>9, LoopIsTheLast DEF last, p
  <2>3. /\ latest \in Seq(turn) /\ last = [i \in 1..Len(latest) |-> tools[log[latest[i]]]]
    BY <1>13 DEF SaysLast
  <2>4. Len(latest) \in Nat /\ Len(last) = Len(latest)
    BY <2>3
  <2>5. \A i \in 1..Len(latest) : latest[i] \in 1..m /\ last[i] = h[latest[i]].tool
    <3>1. \A i \in 1..Len(latest) : latest[i] \in turn
      BY <2>3
    <3>2. QED BY <1>8, <1>11, <2>3, <3>1
  <2>6. ToSet(latest) = {latest[i] : i \in 1..Len(latest)}
    BY <2>3 DEF ToSet
  <2>7. (\A j \in ToSet(latest) : h[j].tool = event.tool)
          <=> \A i \in 1..Len(latest) : last[i] = event.tool
    BY <2>5, <2>6
  <2>8. "loop" \in told <=>
          /\ event.tool \in guarded /\ "rejected" \notin told
          /\ Len(last) = p /\ \A i \in 1..p : last[i] = event.tool
    BY <2>1, <2>2, SaidOfCalls
  <2>9. QED BY <2>4, <2>7, <2>8
<1>16. CallGuarded(h, t, m + 1, guarded)
  BY <1>2, <1>4, <1>5, <1>14, <1>15 DEF CallGuarded, latest, s, p
<1>17. QED BY <1>16 DEF h, t, m

(* What a check reports of a trace. *)
LEMMA SaidOfTurns ==
  ASSUME NEW trace
  PROVE  /\ Reported(trace) \in SUBSET Notice
         /\ "empty" \in Reported(trace) <=> Due(trace) /\ trace.empty >= EmptyLimit
         /\ "forgotten" \in Reported(trace) <=>
              /\ Due(trace) /\ trace.recent # <<>>
              /\ \E about \in trace.request : Misses(about, UNION ToSet(trace.recent))
<1>1. Signals(trace) \subseteq {"forgotten", "empty"}
  BY DEF Signals
<1>2. "empty" \in Signals(trace) <=> trace.empty >= EmptyLimit
  BY DEF Signals
<1>3. "forgotten" \in Signals(trace) <=>
        /\ trace.recent # <<>>
        /\ \E about \in trace.request : Misses(about, UNION ToSet(trace.recent))
  BY DEF Signals
<1>4. QED BY <1>1, <1>2, <1>3 DEF Reported, Notice

(* So many of the last answers were empty if the last few were.            *)
LEMMA EmptyAreTheLast ==
  ASSUME NEW T, NEW answers \in Seq(T), NEW n, EmptyAtTheEnd(n, answers)
  PROVE  n >= EmptyLimit <=>
           /\ Len(LastOnes(EmptyLimit, answers)) = EmptyLimit
           /\ \A i \in 1..EmptyLimit : LastOnes(EmptyLimit, answers)[i] = "empty"
<1> DEFINE m == Len(answers)
           e == EmptyLimit
           last == LastOnes(e, answers)
           f == Few(e, m)
<1>1. e \in Nat \ {0} /\ m \in Nat
  BY HarnessAssumption
<1>2. /\ n \in Nat /\ n <= m /\ \A i \in (m - n + 1)..m : answers[i] = "empty"
      /\ n < m => answers[m - n] # "empty"
  BY DEF EmptyAtTheEnd
<1>3. TheLast(last, e, answers, m, T)
  BY <1>1, LastOnesAre
<1> HIDE DEF m, e, last, f
<1>4. Len(last) = f /\ last = [i \in 1..f |-> answers[m - f + i]]
  BY <1>3 DEF TheLast, f
<1>5. f = e <=> m >= e
  BY <1>1 DEF Few, f
<1>6. ASSUME n >= e PROVE Len(last) = e /\ \A i \in 1..e : last[i] = "empty"
  <2>1. f = e
    BY <1>1, <1>2, <1>5, <1>6
  <2>2. \A i \in 1..e : m - e + i \in (m - n + 1)..m
    BY <1>1, <1>2, <1>6
  <2>3. QED BY <1>2, <1>4, <2>1, <2>2
<1>7. ASSUME Len(last) = e, \A i \in 1..e : last[i] = "empty", n < e PROVE FALSE
  <2>1. f = e /\ m >= e
    BY <1>4, <1>5, <1>7
  <2>2. n < m /\ e - n \in 1..e /\ m - e + (e - n) = m - n
    BY <1>1, <1>2, <1>7, <2>1
  <2>3. last[e - n] = answers[m - e + (e - n)]
    BY <1>4, <2>1, <2>2
  <2>4. QED BY <1>2, <1>7, <2>2, <2>3
<1>8. n >= e <=> Len(last) = e /\ \A i \in 1..e : last[i] = "empty"
  BY <1>1, <1>2, <1>6, <1>7
<1>9. QED BY <1>8 DEF last, e

(* A turn is reported exactly for the answers and the request it is held to. *)
LEMMA TurnIsJudged ==
  ASSUME NEW events, NEW history \in Seq(events), NEW said \in Seq(SUBSET Notice),
         Len(said) = Len(history), NEW event \in events, event.kind = "check",
         \A j \in 1..(Len(history) + 1) : Lawful(Append(history, event), j),
         NEW guarded, NEW guard,
         SeenBy(guard, LogOf(history, said), events, guarded, event.session),
         NEW told, told = Reported(guard.trace)
  PROVE  TurnJudged(Append(history, event), Append(said, told), Len(history) + 1)
<1> DEFINE m == Len(history)
           s == event.session
           log == LogOf(history, said)
           h == Append(history, event)
           t == Append(said, told)
           P == PlacesOf(log, s, {"end"}, Replies(events))
           B == PlacesOf(log, s, {"end"}, Starts(events))
           first == Ascending(B)
           latest == LastOnes(EmptyLimit, Ascending(P))
           three == LastOnes(3, Ascending(P))
           heard == UNION {h[j].about : j \in ToSet(three)}
           words == TurnWords(log, events, s)
           answers == TurnAnswers(log, events, s)
           begun == TurnBegun(log, events, s)
           trace == guard.trace
           f == AboutIn(events)
           g == AnswerIn(events)
           due == P # {} /\ Cardinality(P) % CheckInterval = 0
<1>1. told \in SUBSET Notice
  BY SaidOfTurns
<1>2. /\ m \in Nat /\ h[m + 1] = event /\ t[m + 1] = told
      /\ \A j \in 1..m : h[j] = history[j] /\ t[j] = said[j]
  BY <1>1
<1>3. /\ log \in Seq(Entry(events)) /\ Len(log) = m
      /\ \A j \in 1..m : log[j] = <<history[j], said[j]>> /\ log[j] \in Entry(events)
  BY LogIs
<1>4. LatelyAre(h, t, events, guarded, log, m + 1, s, {"end"})
  BY <1>1, LatelyFound
<1>5. HeldTo(h, m + 1) = Lately(h, m + 1, s, {"end"})
  <2>1. m + 1 \in Nat /\ m + 1 > 0 /\ h[m + 1].kind \in {"call", "answer", "check"}
    BY <1>2
  <2>2. \A j \in 1..(m + 1) : Lawful(h, j)
    OBVIOUS
  <2>3. h[m + 1].session = s
    BY <1>2
  <2> HIDE DEF h, m
  <2>4. HeldTo(h, m + 1) = Lately(h, m + 1, h[m + 1].session, {"end"})
    BY <2>1, <2>2, HeldIsLately
  <2>5. QED BY <2>3, <2>4
<1>6. /\ OfKind(h, HeldTo(h, m + 1), "answer") = P
      /\ OfKind(h, HeldTo(h, m + 1), "begin") = B
  BY <1>4, <1>5 DEF LatelyAre
<1>7. /\ trace.rounds = Len(words) /\ trace.recent = LastOnes(3, words)
      /\ EmptyAtTheEnd(trace.empty, answers) /\ trace.request = FirstOf(begun)
  BY DEF SeenBy, Holds, Traces
<1>8. P \subseteq 1..m /\ B \subseteq 1..m
  BY <1>3 DEF PlacesOf, Alive
<1>9. f \in [Entry(events) -> Abouts(events)] /\ g \in [Entry(events) -> Answers(events)]
  BY EntriesSay
<1>10. \A j \in 1..m : f[log[j]] = h[j].about /\ g[log[j]] = h[j].answer
  BY <1>2, <1>3 DEF AboutIn, AnswerIn
<1>11. Cardinality(P) \in Nat /\ words \in Seq(Abouts(events)) /\ Len(words) = Cardinality(P)
  <2>1. SaidBy(words, Abouts(events), P, Len(log))
    BY <1>3, <1>9, RecalledIs DEF TurnWords
  <2>2. QED BY <2>1 DEF SaidBy
<1>12. SaysLast(LastOnes(3, words), three, 3, log, f, P)
  BY <1>3, <1>9, RecalledSaysLast DEF TurnWords
<1>13. SaysLast(LastOnes(EmptyLimit, answers), latest, EmptyLimit, log, g, P)
  BY <1>3, <1>9, HarnessAssumption, RecalledSaysLast DEF TurnAnswers
<1>14. SaysFirst(begun, first, log, f, B)
  BY <1>3, <1>9, RecalledSaysFirst DEF TurnBegun
<1>15. answers \in Seq(Answers(events))
  BY <1>3, SeenAre
<1>16. IsFiniteSet(P)
  <2>1. IsFiniteSet(1..m)
    BY <1>2, FS_Interval
  <2>2. QED BY <1>8, <2>1, FS_Subset
<1> HIDE DEF m, s, log, h, t, P, B, first, latest, three, heard, words, answers, begun, trace, f, g
<1>17. Due(trace) <=> due
  <2>1. P = {} <=> Cardinality(P) = 0
    BY <1>16, FS_EmptySet
  <2>2. QED BY <1>7, <1>11, <2>1 DEF Due
<1> HIDE DEF due
<1>18. "empty" \in told <=>
         /\ due /\ Len(latest) = EmptyLimit
         /\ \A j \in ToSet(latest) : h[j].answer = "empty"
  <2> DEFINE last == LastOnes(EmptyLimit, answers)
  <2>1. "empty" \in told <=> due /\ trace.empty >= EmptyLimit
    BY <1>17, SaidOfTurns DEF trace
  <2>2. trace.empty >= EmptyLimit <=>
          Len(last) = EmptyLimit /\ \A i \in 1..EmptyLimit : last[i] = "empty"
    BY <1>7, <1>15, EmptyAreTheLast
  <2> HIDE DEF last
  <2>3. latest \in Seq(P) /\ last = [i \in 1..Len(latest) |-> g[log[latest[i]]]]
    BY <1>13 DEF SaysLast, last
  <2>4. Len(latest) \in Nat /\ Len(last) = Len(latest)
        /\ ToSet(latest) = {latest[i] : i \in 1..Len(latest)}
    BY <2>3 DEF ToSet
  <2>5. \A i \in 1..Len(latest) : last[i] = h[latest[i]].answer
    <3>1. \A i \in 1..Len(latest) : latest[i] \in P
      BY <2>3
    <3>2. QED BY <1>8, <1>10, <2>3, <3>1
  <2>6. (\A j \in ToSet(latest) : h[j].answer = "empty")
          <=> \A i \in 1..Len(latest) : last[i] = "empty"
    BY <2>4, <2>5
  <2>7. QED BY <2>1, <2>2, <2>4, <2>6
<1>19. UNION ToSet(trace.recent) = heard
  <2> DEFINE last == trace.recent
  <2>1. three \in Seq(P) /\ last = [i \in 1..Len(three) |-> f[log[three[i]]]]
    BY <1>7, <1>12 DEF SaysLast
  <2> HIDE DEF last
  <2>2. ToSet(three) = {three[i] : i \in 1..Len(three)}
    <3>1. three \in Seq(P)
      BY <2>1
    <3> HIDE DEF three
    <3>2. DOMAIN three = 1..Len(three)
      BY <3>1
    <3>3. QED BY <3>2 DEF ToSet
  <2>3. ToSet(last) = {f[log[three[i]]] : i \in 1..Len(three)}
    BY <2>1 DEF ToSet
  <2>4. \A i \in 1..Len(three) : f[log[three[i]]] = h[three[i]].about
    <3>1. \A i \in 1..Len(three) : three[i] \in P
      BY <2>1
    <3>2. QED BY <1>8, <1>10, <3>1
  <2>5. ToSet(last) = {h[j].about : j \in ToSet(three)}
    BY <2>2, <2>3, <2>4
  <2>6. QED BY <2>5 DEF last, heard
<1>20. due => trace.recent # <<>>
  <2> SUFFICES ASSUME due PROVE trace.recent # <<>>
    OBVIOUS
  <2> DEFINE last == trace.recent
             k == Few(3, Len(words))
  <2>1. Cardinality(P) # 0
    BY <1>16, FS_EmptySet DEF due
  <2>2. TheLast(LastOnes(3, words), 3, words, Len(words), Abouts(events))
    BY <1>11, LastOnesAre
  <2>3. Len(last) = k
    BY <1>7, <2>2 DEF TheLast
  <2>4. k > 0
    BY <1>11, <2>1 DEF Few
  <2>5. Len(<<>>) = 0
    OBVIOUS
  <2> HIDE DEF last, k
  <2>6. last # <<>>
    BY <2>3, <2>4, <2>5
  <2>7. QED BY <2>6 DEF last
<1>21. (\E about \in trace.request : Misses(about, heard))
         <=> first # <<>> /\ Misses(h[first[1]].about, heard)
  <2>1. CASE begun = <<>>
    BY <1>7, <1>14, <2>1 DEF FirstOf, SaysFirst
  <2>2. CASE begun # <<>>
    <3>1. /\ first # <<>> /\ trace.request = {begun[1]} /\ first[1] \in B
          /\ begun[1] = f[log[first[1]]]
      BY <1>7, <1>14, <2>2 DEF FirstOf, SaysFirst
    <3>2. begun[1] = h[first[1]].about
      BY <1>8, <1>10, <3>1
    <3>3. QED BY <3>1, <3>2
  <2>3. QED BY <2>1, <2>2
<1>22. "forgotten" \in told <=> due /\ first # <<>> /\ Misses(h[first[1]].about, heard)
  <2>1. "forgotten" \in told <=>
          /\ due /\ trace.recent # <<>>
          /\ \E about \in trace.request : Misses(about, heard)
    BY <1>17, <1>19, SaidOfTurns DEF trace
  <2>2. QED BY <1>20, <1>21, <2>1
<1>23. TurnJudged(h, t, m + 1)
  BY <1>2, <1>6, <1>18, <1>22 DEF TurnJudged, latest, three, first, heard, due
<1>24. QED BY <1>23 DEF h, t, m

(* The guards hold of every session what it has done.                      *)
HistoryIs(done) ==
  /\ done = [events |-> done.events, guarded |-> done.guarded, history |-> done.history,
             guards |-> done.guards, said |-> done.said]
  /\ \A event \in done.events :
       event.kind \in {"begin", "call", "answer", "check", "end", "restart"}
         /\ event.session \in Session
  /\ done.history \in Seq(done.events) /\ done.said \in Seq(SUBSET Notice)
  /\ Len(done.said) = Len(done.history)
  /\ \A j \in 1..Len(done.history) : Lawful(done.history, j)
  /\ done.guards = [s \in Session |-> done.guards[s]]

GuardsHold(done) ==
  \A s \in Session :
    SeenBy(done.guards[s], LogOf(done.history, done.said), done.events, done.guarded, s)

LastGuarded(done) ==
  done.history # <<>> =>
    LET i == Len(done.history)  kind == done.history[i].kind IN
    /\ kind = "call" => CallGuarded(done.history, done.said, i, done.guarded)
    /\ kind = "check" => TurnJudged(done.history, done.said, i)

(* Before anything happens nothing is held of any session. *)
LEMMA NothingSeen ==
  ASSUME NEW case \in GuardCase
  PROVE  LET done == NothingDone(case.events, case.guarded)
         IN  HistoryIs(done) /\ GuardsHold(done) /\ LastGuarded(done)
<1> DEFINE done == NothingDone(case.events, case.guarded)
           log == LogOf(<<>>, <<>>)
<1>1. /\ done.events = case.events /\ done.guarded = case.guarded /\ done.history = <<>>
      /\ done.said = <<>> /\ done.guards = Start
      /\ done = [events |-> done.events, guarded |-> done.guarded, history |-> done.history,
                 guards |-> done.guards, said |-> done.said]
  BY DEF NothingDone
<1> HIDE DEF done
<1>2. done.guards = [s \in Session |-> done.guards[s]] /\ \A s \in Session : done.guards[s] = Fresh
  BY <1>1 DEF Start
<1>3. HistoryIs(done)
  <2>1. \A event \in done.events :
          event.kind \in {"begin", "call", "answer", "check", "end", "restart"}
            /\ event.session \in Session
    BY <1>1, GuardAssumption
  <2>2. /\ done.history \in Seq(done.events) /\ done.said \in Seq(SUBSET Notice)
        /\ Len(done.said) = Len(done.history) /\ 1..Len(done.history) = {}
    BY <1>1
  <2>3. QED BY <1>1, <1>2, <2>1, <2>2 DEF HistoryIs
<1>4. ASSUME NEW s PROVE SeenBy(Fresh, log, done.events, done.guarded, s)
  <2>1. Len(log) = 0
    BY DEF LogOf
  <2>2. \A kinds : Alive(log, s, kinds) = {}
    BY <2>1 DEF Alive
  <2> HIDE DEF log
  <2>3. \A kinds, G : PlacesOf(log, s, kinds, G) = {}
    BY <2>2 DEF PlacesOf
  <2>4. \A kinds, f, G : Recalled(log, s, kinds, f, G) = <<>>
    BY <2>3, NothingKeptNowhere DEF Recalled
  <2>5. /\ AllCalled(log, done.events, done.guarded, s) = <<>>
        /\ TurnCalls(log, done.events, done.guarded, s) = <<>>
        /\ TurnWords(log, done.events, s) = <<>> /\ TurnAnswers(log, done.events, s) = <<>>
        /\ TurnBegun(log, done.events, s) = <<>>
    BY <2>4 DEF AllCalled, TurnCalls, TurnWords, TurnAnswers, TurnBegun
  <2>6. QED BY <2>5, FreshHolds DEF SeenBy
<1>5. GuardsHold(done)
  BY <1>1, <1>2, <1>4 DEF GuardsHold
<1>6. LastGuarded(done)
  BY <1>1 DEF LastGuarded
<1>7. QED BY <1>3, <1>5, <1>6 DEF done

(* An event leaves every guard with what its session has done, and is      *)
(* itself told the truth.                                                  *)
LEMMA HandleSeen ==
  ASSUME NEW done, HistoryIs(done), GuardsHold(done), NEW event \in done.events,
         Lawful(Append(done.history, event), Len(done.history) + 1)
  PROVE  HistoryIs(Handle(done, event)) /\ GuardsHold(Handle(done, event))
           /\ LastGuarded(Handle(done, event))
<1> DEFINE events == done.events
           guarded == done.guarded
           history == done.history
           said == done.said
           guards == done.guards
           new == Handle(done, event)
           after == Guards(guards, event, guarded)
           told == Told(guards, event, guarded)
           s == event.session
           log == LogOf(history, said)
           entry == <<event, told>>
           more == LogOf(Append(history, event), Append(said, told))
           kinds == {"begin", "call", "answer", "check", "end", "restart"}
<1>1. /\ done = [events |-> events, guarded |-> guarded, history |-> history,
                 guards |-> guards, said |-> said]
      /\ \A e \in events : e.kind \in kinds /\ e.session \in Session
      /\ history \in Seq(events) /\ said \in Seq(SUBSET Notice) /\ Len(said) = Len(history)
      /\ guards = [r \in Session |-> guards[r]]
  BY DEF HistoryIs
<1>2. \A r \in Session : SeenBy(guards[r], log, events, guarded, r)
  BY DEF GuardsHold
<1>3. new = [done EXCEPT !.history = Append(history, event), !.guards = after,
                         !.said = Append(said, told)]
  BY DEF Handle
<1>4. \A j \in 1..(Len(history) + 1) : Lawful(Append(history, event), j)
  <2>1. \A j \in 1..Len(history) : Lawful(history, j)
    BY DEF HistoryIs
  <2>2. event \in events /\ Len(history) \in Nat
    BY <1>1
  <2> HIDE DEF events, history
  <2>3. \A j \in 1..Len(history) : Lawful(Append(history, event), j)
    BY <1>1, <2>1, <2>2, LawfulStays
  <2>4. QED BY <2>2, <2>3 DEF history
<1> HIDE DEF events, guarded, history, said, guards, new, log
<1>5. event \in events /\ event.kind \in kinds /\ s \in Session
  BY <1>1 DEF events
<1>6. /\ event.kind = "call" => told = Notices(guards[s], event, guarded)
      /\ event.kind = "answer" => told = SchemaNotice(event, guarded)
      /\ event.kind = "check" => told = Reported(guards[s].trace)
      /\ event.kind \in {"begin", "end", "restart"} => told = {}
  BY <1>5 DEF Told
<1>7. /\ event.kind = "restart" => after = Start
      /\ event.kind = "begin" => after = [guards EXCEPT ![s] = BeginTurn(guards[s], event)]
      /\ event.kind = "call" =>
           after = [guards EXCEPT ![s] = Called(guards[s], event, guarded)]
      /\ event.kind = "answer" => after = [guards EXCEPT ![s] = Answered(guards[s], event)]
      /\ event.kind = "check" => after = guards
      /\ event.kind = "end" => after = [guards EXCEPT ![s] = EndTurn(guards[s])]
  BY <1>5 DEF Guards
<1> HIDE DEF told, after
<1>8. told \in SUBSET Notice
  <2>1. event.kind = "call" => told \in SUBSET Notice
    BY <1>6, SaidOfCalls
  <2>2. event.kind = "answer" => told \in SUBSET Notice
    BY <1>6 DEF SchemaNotice, Notice
  <2>3. event.kind = "check" => told \in SUBSET Notice
    BY <1>6, SaidOfTurns
  <2>4. event.kind \in {"begin", "end", "restart"} => told \in SUBSET Notice
    BY <1>6
  <2>5. QED BY <1>5, <2>1, <2>2, <2>3, <2>4
<1>9. new = [events |-> events, guarded |-> guarded, history |-> Append(history, event),
             guards |-> after, said |-> Append(said, told)]
  BY <1>1, <1>3
<1>10. /\ new.events = events /\ new.guarded = guarded /\ new.history = Append(history, event)
       /\ new.guards = after /\ new.said = Append(said, told)
       /\ new = [events |-> new.events, guarded |-> new.guarded, history |-> new.history,
                 guards |-> new.guards, said |-> new.said]
  BY <1>9
<1>11. log \in Seq(Entry(events)) /\ more = Append(log, entry)
  BY <1>1, <1>5, <1>8, LogIs, LogNext, SMTT(20) DEF log
<1>12. entry \in Entry(events) /\ entry[1] = event /\ entry[2] = told
  BY <1>5, <1>8 DEF Entry
<1> HIDE DEF more, entry, kinds
<1>13. \A r \in Session : event.kind # "restart" /\ r # s => Unseen(entry, events, guarded, r)
  BY <1>12 DEF Unseen, Forgets
<1>14. SeenBy(guards[s], log, events, guarded, s)
  BY <1>2, <1>5
<1>15. after = [r \in Session |-> after[r]]
       /\ \A r \in Session : SeenBy(after[r], more, events, guarded, r)
  <2>1. CASE event.kind = "restart"
    <3>1. after = [r \in Session |-> after[r]] /\ \A r \in Session : after[r] = Fresh
      BY <1>7, <2>1 DEF Start
    <3>2. \A r : SeenBy(Fresh, more, events, guarded, r)
      BY <1>11, <1>12, <2>1, SeenAfterRestart
    <3>3. QED BY <3>1, <3>2
  <2>2. ASSUME event.kind # "restart", NEW guard, SeenBy(guard, more, events, guarded, s),
               after = [guards EXCEPT ![s] = guard]
        PROVE  after = [r \in Session |-> after[r]]
               /\ \A r \in Session : SeenBy(after[r], more, events, guarded, r)
    <3>1. /\ after = [r \in Session |-> after[r]] /\ after[s] = guard
          /\ \A r \in Session : r # s => after[r] = guards[r]
      BY <1>1, <1>5, <2>2
    <3>2. \A r \in Session : r # s => SeenBy(guards[r], more, events, guarded, r)
      BY <1>2, <1>11, <1>12, <1>13, <2>2, SeenAfterUnseen
    <3>3. QED BY <2>2, <3>1, <3>2
  <2>3. CASE event.kind = "begin"
    <3>1. SeenBy(BeginTurn(guards[s], event), more, events, guarded, s)
      BY <1>11, <1>12, <1>14, <2>3, SeenAfterBegin
    <3>2. QED BY <1>7, <2>2, <2>3, <3>1
  <2>4. CASE event.kind = "call"
    <3>1. SeenBy(Called(guards[s], event, guarded), Append(log, <<event, told>>), events,
                 guarded, s)
      BY <1>5, <1>6, <1>8, <1>11, <1>14, <2>4, SeenAfterCall
    <3>2. SeenBy(Called(guards[s], event, guarded), more, events, guarded, s)
      BY <1>11, <3>1 DEF entry
    <3>3. QED BY <1>7, <2>2, <2>4, <3>2
  <2>5. CASE event.kind = "answer"
    <3>1. SeenBy(Answered(guards[s], event), more, events, guarded, s)
      BY <1>11, <1>12, <1>14, <2>5, SeenAfterAnswer
    <3>2. QED BY <1>7, <2>2, <2>5, <3>1
  <2>6. CASE event.kind = "check"
    <3>1. Unseen(entry, events, guarded, s)
      BY <1>12, <2>6 DEF Unseen, Forgets, Passing, Calls, Replies, Starts
    <3>2. SeenBy(guards[s], more, events, guarded, s)
      BY <1>11, <1>12, <1>14, <3>1, SeenAfterUnseen
    <3>3. after = [guards EXCEPT ![s] = guards[s]]
      BY <1>1, <1>7, <2>6
    <3>4. QED BY <2>2, <2>6, <3>2, <3>3
  <2>7. CASE event.kind = "end"
    <3>1. SeenBy(EndTurn(guards[s]), more, events, guarded, s)
      BY <1>11, <1>12, <1>14, <2>7, SeenAfterEnd
    <3>2. QED BY <1>7, <2>2, <2>7, <3>1
  <2>8. QED BY <1>5, <2>1, <2>3, <2>4, <2>5, <2>6, <2>7 DEF kinds
<1>16. HistoryIs(new)
  <2>1. /\ new.history \in Seq(events) /\ new.said \in Seq(SUBSET Notice)
        /\ Len(new.said) = Len(new.history) /\ Len(new.history) = Len(history) + 1
    BY <1>1, <1>5, <1>8, <1>10
  <2>2. \A j \in 1..Len(new.history) : Lawful(new.history, j)
    BY <1>4, <1>10, <2>1
  <2>3. QED BY <1>1, <1>10, <1>15, <2>1, <2>2 DEF HistoryIs, kinds
<1>17. GuardsHold(new)
  BY <1>10, <1>15 DEF GuardsHold, more
<1>18. LastGuarded(new)
  <2> DEFINE i == Len(history) + 1
  <2>1. Len(new.history) = i /\ new.history[i] = event
    BY <1>1, <1>5, <1>10
  <2>2. SeenBy(guards[s], LogOf(history, said), events, guarded, s)
    BY <1>14 DEF log
  <2>3. event.kind = "call" =>
          CallGuarded(Append(history, event), Append(said, told), i, guarded)
    BY <1>1, <1>4, <1>5, <1>6, <2>2, CallIsGuarded
  <2>4. event.kind = "check" => TurnJudged(Append(history, event), Append(said, told), i)
    BY <1>1, <1>4, <1>5, <1>6, <2>2, TurnIsJudged
  <2> HIDE DEF i
  <2>5. QED BY <1>10, <2>1, <2>3, <2>4 DEF LastGuarded
<1>19. QED BY <1>16, <1>17, <1>18 DEF new

-----------------------------------------------------------------------------
(* Places one after another *)

(* Of numbers that are not all missing there is a least.                   *)
LEMMA LeastPlace ==
  ASSUME NEW m \in Nat, NEW P, P \subseteq 1..m, P # {}
  PROVE  \E i \in P : \A j \in P : i <= j
<1> DEFINE k == Cardinality(P)
           kept == KeepPlaces(Itself, P)
<1>1. PICK at : Climbs(at, k, P)
  <2>1. Keeps(kept, Itself, P)
    BY KeepPlacesKeeps
  <2>2. QED BY <2>1 DEF Keeps
<1> HIDE DEF k, kept
<1>2. /\ k \in Nat /\ at \in [1..k -> P]
      /\ \A p \in P : \E n \in 1..k : at[n] = p
      /\ \A i, j \in 1..k : i < j => at[i] < at[j]
  BY <1>1 DEF Climbs
<1>3. 1 \in 1..k
  <2>1. PICK p \in P : TRUE
    OBVIOUS
  <2>2. PICK n \in 1..k : at[n] = p
    BY <1>2
  <2>3. QED BY <1>2, <2>2
<1>4. \A p \in P : at[1] <= p
  <2>1. \A n \in 1..k : n = 1 \/ 1 < n
    BY <1>2
  <2>2. \A n \in 1..k : at[n] \in Int
    <3>1. ASSUME NEW n \in 1..k PROVE at[n] \in 1..m
      BY <1>2
    <3>2. QED BY <3>1
  <2>3. QED BY <1>2, <1>3, <2>1, <2>2
<1>5. QED BY <1>2, <1>3, <1>4

(* What holds at 0 and at the place after each place where it holds.       *)
LEMMA PlaceByPlace ==
  ASSUME NEW m \in Nat, NEW P, 0 \in P, \A i \in 1..m : i - 1 \in P => i \in P
  PROVE  0..m \subseteq P
<1> DEFINE Q == (1..m) \ P
<1>1. SUFFICES ASSUME Q # {} PROVE FALSE
  <2>1. Q = {} => \A i \in 0..m : i \in P
    OBVIOUS
  <2>2. QED BY <1>1, <2>1
<1>2. PICK i \in Q : \A j \in Q : i <= j
  BY <1>1, LeastPlace
<1>3. i - 1 \in 0..m /\ i - 1 \notin Q
  BY <1>2
<1>4. i - 1 \in P
  BY <1>3
<1>5. QED BY <1>2, <1>4

(* Quotients keep the order of what is divided, and turn around that of    *)
(* what it is divided by.                                                  *)
LEMMA QuotientMonotone ==
  ASSUME NEW n \in Nat, NEW m \in Nat, NEW d \in Nat \ {0}, n <= m
  PROVE  n \div d \in Nat /\ m \div d \in Nat /\ n \div d <= m \div d
<1> DEFINE q == n \div d  r == n % d  p == m \div d  s == m % d
<1>1. q \in Nat /\ p \in Nat /\ r \in 0..(d - 1) /\ s \in 0..(d - 1) /\ n = d * q + r /\ m = d * p + s
  BY Division
<1> HIDE DEF q, r, p, s
<1>2. SUFFICES ASSUME p < q PROVE FALSE
  BY <1>1 DEF p, q
<1>3. d * q >= d * (p + 1)
  <2>1. q - (p + 1) \in Nat
    BY <1>1, <1>2
  <2>2. d * (q - (p + 1)) >= 0
    BY <2>1
  <2>3. d * (q - (p + 1)) = d * q - d * (p + 1)
    BY <1>1
  <2>4. d * q \in Int /\ d * (p + 1) \in Int
    BY <1>1
  <2>5. QED BY <2>2, <2>3, <2>4
<1>4. d * (p + 1) = d * p + d /\ d * p \in Int /\ d * q \in Int
  BY <1>1
<1>5. QED BY <1>1, <1>3, <1>4

(* It falls as the divisor rises. *)
LEMMA DivisorMonotone ==
  ASSUME NEW n \in Nat, NEW d \in Nat \ {0}, NEW e \in Nat \ {0}, d <= e
  PROVE  n \div e <= n \div d
<1> DEFINE q == n \div e  r == n % e
<1>1. q \in Nat /\ r \in 0..(e - 1) /\ n = e * q + r
  BY Division
<1> HIDE DEF r
<1>2. n >= d * q
  <2> HIDE DEF q
  <2>1. (e - d) * q >= 0 /\ (e - d) * q = e * q - d * q /\ e * q \in Int /\ d * q \in Int
    BY <1>1
  <2>2. QED BY <1>1, <2>1
<1> HIDE DEF q
<1>3. d * q \in Nat
  BY <1>1
<1>4. (d * q) \div d = q
  BY <1>1
<1>5. (d * q) \div d <= n \div d
  BY <1>2, <1>3, QuotientMonotone
<1>6. QED BY <1>4, <1>5 DEF q

-----------------------------------------------------------------------------
(* The judged regression *)

(* The criteria that are met.                                              *)
MetOf(level) == {i \in DOMAIN level : level[i]}

(* Part of a whole number of parts.                                        *)
LEMMA PartOf ==
  ASSUME NEW L \in Nat \ {0}, NEW c \in 0..L, NEW e \in 0..L
  PROVE  /\ (Full * c) \div L \in 0..Full
         /\ (Full * c) \div L = Full => c = L
         /\ c <= e => (Full * c) \div L <= (Full * e) \div L
         /\ (Full * L) \div L = Full
<1>1. Full = 5040
  BY DEF Full
<1> HIDE DEF Full
<1>2. Full * c \in Nat /\ Full * e \in Nat /\ Full * L \in Nat
  BY <1>1
<1>3. Full * c <= Full * L
  BY <1>1
<1>4. (Full * L) \div L = Full
  BY <1>1
<1>5. (Full * c) \div L \in Nat /\ (Full * c) \div L <= Full
  BY <1>2, <1>3, <1>4, QuotientMonotone
<1>6. ASSUME (Full * c) \div L = Full PROVE c = L
  <2>1. Full * c = L * Full + ((Full * c) % L) /\ (Full * c) % L \in 0..(L - 1)
    BY <1>2, <1>6, Division
  <2>2. (Full * c) % L >= 0
    BY <2>1
  <2>3. Full * c >= Full * L
    BY <1>1, <2>1, <2>2
  <2>4. QED BY <1>1, <2>3
<1>7. ASSUME c <= e PROVE (Full * c) \div L <= (Full * e) \div L
  <2>1. Full * c <= Full * e
    BY <1>1, <1>7
  <2>2. QED BY <1>2, <2>1, QuotientMonotone
<1>8. QED BY <1>1, <1>4, <1>5, <1>6, <1>7, SMTT(20)

(* The ratio of a level: full only if all is met, and no less for one      *)
(* criterion more.                                                         *)
LEMMA RatioOf ==
  ASSUME NEW level \in Seq(BOOLEAN)
  PROVE  /\ \A i \in DOMAIN level : [level EXCEPT ![i] = TRUE] \in Seq(BOOLEAN)
         /\ Ratio(level) \in 0..Full
         /\ Ratio(level) = Full => \A i \in DOMAIN level : level[i]
         /\ \A i \in DOMAIN level : Ratio(level) <= Ratio([level EXCEPT ![i] = TRUE])
<1> DEFINE L == Len(level)
           c == Cardinality(MetOf(level))
<1>1. L \in Nat /\ level \in [1..L -> BOOLEAN] /\ DOMAIN level = 1..L
  OBVIOUS
<1>2. ASSUME NEW i \in DOMAIN level PROVE [level EXCEPT ![i] = TRUE] \in Seq(BOOLEAN)
  <2>1. [level EXCEPT ![i] = TRUE] \in [1..L -> BOOLEAN]
    BY <1>1
  <2>2. QED BY <1>1, <2>1
<1>3. IsFiniteSet(1..L) /\ Cardinality(1..L) = L
  <2>1. (IF 1 > L THEN 0 ELSE L - 1 + 1) = L
    BY <1>1
  <2>2. QED BY <1>1, <2>1, FS_Interval, SMTT(20)
<1>4. CASE L = 0
  <2>1. level = <<>>
    BY <1>1, <1>4
  <2>2. Ratio(level) = Full
    BY <2>1 DEF Ratio
  <2>3. Full \in 0..Full
    BY DEF Full
  <2>4. DOMAIN level = {}
    BY <1>1, <1>4
  <2>5. QED BY <2>2, <2>3, <2>4
<1>5. CASE L # 0
  <2>1. \A met : met \subseteq 1..L => /\ IsFiniteSet(met) /\ Cardinality(met) \in 0..L
                                       /\ Cardinality(met) = L => met = 1..L
    <3>1. ASSUME NEW met, met \subseteq 1..L
          PROVE  /\ IsFiniteSet(met) /\ Cardinality(met) \in 0..L
                 /\ Cardinality(met) = L => met = 1..L
      <4>1. /\ IsFiniteSet(met) /\ Cardinality(met) <= Cardinality(1..L)
            /\ Cardinality(met) = Cardinality(1..L) => met = 1..L
        BY <1>3, <3>1, FS_Subset
      <4>2. Cardinality(met) \in Nat
        BY <4>1, FS_CardinalityType
      <4>3. QED BY <1>1, <1>3, <4>1, <4>2
    <3>2. QED BY <3>1
  <2>2. level # <<>>
    BY <1>1, <1>5
  <2>3. Ratio(level) = (Full * c) \div L
    BY <2>2 DEF Ratio, MetOf
  <2>4. MetOf(level) \subseteq 1..L
    BY <1>1 DEF MetOf
  <2>5. c \in 0..L /\ (c = L => MetOf(level) = 1..L)
    BY <2>1, <2>4
  <2> HIDE DEF c
  <2>6. Ratio(level) \in 0..Full /\ (Ratio(level) = Full => c = L)
    BY <1>1, <1>5, <2>3, <2>5, PartOf
  <2>7. Ratio(level) = Full => \A i \in DOMAIN level : level[i]
    <3>1. MetOf(level) = 1..L => \A i \in 1..L : level[i]
      BY <1>1 DEF MetOf
    <3> HIDE DEF L
    <3>2. QED BY <1>1, <2>5, <2>6, <3>1
  <2>8. ASSUME NEW i \in DOMAIN level PROVE Ratio(level) <= Ratio([level EXCEPT ![i] = TRUE])
    <3> DEFINE more == [level EXCEPT ![i] = TRUE]
    <3>1. more \in [1..L -> BOOLEAN]
      BY <1>1
    <3>2. Len(more) = L /\ more # <<>>
      BY <1>1, <1>5, <3>1
    <3>3. MetOf(level) \subseteq MetOf(more) /\ MetOf(more) \subseteq 1..L
      BY <1>1 DEF MetOf
    <3>4. Ratio(more) = (Full * Cardinality(MetOf(more))) \div L
      BY <3>2 DEF Ratio, MetOf
    <3>5. c <= Cardinality(MetOf(more)) /\ Cardinality(MetOf(more)) \in 0..L
      BY <2>1, <3>3, FS_Subset DEF c
    <3> HIDE DEF more, L
    <3>6. QED BY <1>1, <1>5, <2>3, <2>5, <3>4, <3>5, PartOf DEF more
  <2>9. QED BY <2>6, <2>7, <2>8
<1>6. QED BY <1>4, <1>5, <1>2

(* The score does not fall with a ratio.                                   *)
LEMMA ScoreRises ==
  ASSUME NEW a \in 0..Full, NEW b \in 0..Full, NEW c \in 0..Full,
         NEW x \in 0..Full, NEW y \in 0..Full, NEW z \in 0..Full, a <= x, b <= y, c <= z
  PROVE  /\ (50 * a + 35 * b + 15 * c + 252) \div 504 \in Int
         /\ (50 * x + 35 * y + 15 * z + 252) \div 504 \in Int
         /\ (50 * a + 35 * b + 15 * c + 252) \div 504 <= (50 * x + 35 * y + 15 * z + 252) \div 504
<1> DEFINE s == 50 * a + 35 * b + 15 * c + 252
           t == 50 * x + 35 * y + 15 * z + 252
<1>1. s \in Nat /\ t \in Nat /\ s <= t
  BY SMTT(20) DEF Full
<1> HIDE DEF s, t
<1>2. s \div 504 <= t \div 504 /\ s \div 504 \in Nat /\ t \div 504 \in Nat
  BY <1>1, QuotientMonotone
<1>3. QED BY <1>2 DEF s, t

(* An answer is one that came before any other but transient errors.       *)
LEMMA AnswerOfJudge ==
  ASSUME NEW answers, NEW retries \in Nat, CallJudge(answers, retries) = "answer"
  PROVE  \E n \in 1..retries : /\ answers[n] = "answer"
                               /\ \A i \in 1..(n - 1) : answers[i] = "transient"
<1> DEFINE stops == {i \in 1..retries : answers[i] # "transient"}
           first == CHOOSE i \in stops : \A j \in stops : i <= j
<1>1. stops # {} /\ answers[first] = "answer"
  BY DEF CallJudge
<1>2. \E i \in stops : \A j \in stops : i <= j
  BY <1>1, LeastPlace
<1>3. first \in stops /\ \A j \in stops : first <= j
  BY <1>2
<1> HIDE DEF first
<1>4. first \in 1..retries
  BY <1>3
<1>5. ASSUME NEW i \in 1..(first - 1) PROVE answers[i] = "transient"
  <2>1. i \in 1..retries /\ ~(first <= i)
    BY <1>4
  <2>2. QED BY <1>3, <2>1
<1>6. QED BY <1>1, <1>4, <1>5

(* What a case is given for the judge's answer.                            *)
LEMMA AnyCaseJudged ==
  ASSUME NEW case, IsJudged(case)
  PROVE  CaseJudged(case)
<1>1. /\ case.retries \in Nat /\ case.judged.p0 \in Seq(BOOLEAN)
      /\ case.judged.p1 \in Seq(BOOLEAN) /\ case.judged.p2 \in Seq(BOOLEAN)
  BY DEF IsJudged
<1>2. case.judged \in [p0 : Seq(BOOLEAN), p1 : Seq(BOOLEAN), p2 : Seq(BOOLEAN)]
  BY DEF IsJudged
<1> SUFFICES ASSUME Outcome(case, case.judged) = "PASS"
             PROVE  /\ case.health = "cached" => case.allow
                    /\ \E n \in 1..case.retries :
                         /\ case.answers[n] = "answer"
                         /\ \A i \in 1..(n - 1) : case.answers[i] = "transient"
                    /\ \A i \in DOMAIN case.judged.p0 : case.judged.p0[i]
                    /\ \A level \in {"p1", "p2"} : \A i \in DOMAIN case.judged[level] :
                         Outcome(case, [case.judged EXCEPT ![level][i] = TRUE]) = "PASS"
  BY DEF CaseJudged
<1> DEFINE judge == CallJudge(case.answers, case.retries)
<1>3. MayRun(case.health, case.allow) /\ judge = "answer" /\ RunCase(case.judged) = "PASS"
  BY DEF Outcome, Verdict
<1> HIDE DEF judge
<1>4. case.health = "cached" => case.allow
  BY <1>3 DEF MayRun
<1>5. Ratio(case.judged.p0) = Full /\ ScoreCase(case.judged).score >= 700
  <2>1. ScoreCase(case.judged).p0 /\ ScoreCase(case.judged).score >= 700
    BY <1>3 DEF RunCase
  <2>2. ScoreCase(case.judged).p0 <=> Ratio(case.judged.p0) = Full
    BY DEF ScoreCase
  <2>3. QED BY <2>1, <2>2
<1>6. \A i \in DOMAIN case.judged.p0 : case.judged.p0[i]
  BY <1>1, <1>5, RatioOf
<1>7. ASSUME NEW level \in {"p1", "p2"}, NEW i \in DOMAIN case.judged[level]
      PROVE  Outcome(case, [case.judged EXCEPT ![level][i] = TRUE]) = "PASS"
  <2> DEFINE more == [case.judged EXCEPT ![level][i] = TRUE]
  <2>1. /\ Ratio(case.judged.p0) \in 0..Full /\ Ratio(case.judged.p1) \in 0..Full
        /\ Ratio(case.judged.p2) \in 0..Full
    BY <1>1, RatioOf
  <2>2. /\ Ratio(more.p0) = Ratio(case.judged.p0)
        /\ Ratio(more.p1) \in 0..Full /\ Ratio(case.judged.p1) <= Ratio(more.p1)
        /\ Ratio(more.p2) \in 0..Full /\ Ratio(case.judged.p2) <= Ratio(more.p2)
    <3>1. CASE level = "p1"
      <4>1. /\ more.p0 = case.judged.p0 /\ more.p2 = case.judged.p2
            /\ more.p1 = [case.judged.p1 EXCEPT ![i] = TRUE]
        BY <1>2, <3>1
      <4>2. more.p1 \in Seq(BOOLEAN)
        <5>1. case.judged.p1 \in Seq(BOOLEAN) /\ i \in DOMAIN case.judged.p1
          BY <1>1, <3>1
        <5>2. [case.judged.p1 EXCEPT ![i] = TRUE] \in Seq(BOOLEAN)
          BY <5>1, RatioOf
        <5>3. QED BY <4>1, <5>2
      <4>3. Ratio(case.judged.p1) <= Ratio(more.p1) /\ Ratio(more.p1) \in 0..Full
        BY <1>1, <3>1, <4>1, <4>2, RatioOf
      <4>4. Ratio(case.judged.p2) <= Ratio(case.judged.p2)
        BY <2>1
      <4>5. QED BY <2>1, <4>1, <4>3, <4>4
    <3>2. CASE level = "p2"
      <4>1. /\ more.p0 = case.judged.p0 /\ more.p1 = case.judged.p1
            /\ more.p2 = [case.judged.p2 EXCEPT ![i] = TRUE]
        BY <1>2, <3>2
      <4>2. more.p2 \in Seq(BOOLEAN)
        <5>1. case.judged.p2 \in Seq(BOOLEAN) /\ i \in DOMAIN case.judged.p2
          BY <1>1, <3>2
        <5>2. [case.judged.p2 EXCEPT ![i] = TRUE] \in Seq(BOOLEAN)
          BY <5>1, RatioOf
        <5>3. QED BY <4>1, <5>2
      <4>3. Ratio(case.judged.p2) <= Ratio(more.p2) /\ Ratio(more.p2) \in 0..Full
        BY <1>1, <3>2, <4>1, <4>2, RatioOf
      <4>4. Ratio(case.judged.p1) <= Ratio(case.judged.p1)
        BY <2>1
      <4>5. QED BY <2>1, <4>1, <4>3, <4>4
    <3>3. QED BY <3>1, <3>2
  <2> HIDE DEF more
  <2>3. /\ ScoreCase(case.judged).score \in Int /\ ScoreCase(more).score \in Int
        /\ ScoreCase(case.judged).score <= ScoreCase(more).score
    <3>1. /\ Ratio(case.judged.p0) <= Ratio(more.p0) /\ Ratio(more.p0) \in 0..Full
      BY <2>1, <2>2
    <3> DEFINE a == Ratio(case.judged.p0)  b == Ratio(case.judged.p1)
               c == Ratio(case.judged.p2)
               x == Ratio(more.p0)  y == Ratio(more.p1)  z == Ratio(more.p2)
    <3>2. /\ ScoreCase(case.judged).score = (50 * a + 35 * b + 15 * c + 252) \div 504
          /\ ScoreCase(more).score = (50 * x + 35 * y + 15 * z + 252) \div 504
      BY DEF ScoreCase
    <3>3. /\ a \in 0..Full /\ b \in 0..Full /\ c \in 0..Full
          /\ x \in 0..Full /\ y \in 0..Full /\ z \in 0..Full /\ a <= x /\ b <= y /\ c <= z
      BY <2>1, <2>2, <3>1
    <3> HIDE DEF a, b, c, x, y, z
    <3>4. QED BY <3>2, <3>3, ScoreRises
  <2>4. RunCase(more) = "PASS"
    <3>1. ScoreCase(more).p0
      BY <1>5, <2>2 DEF ScoreCase
    <3>2. ScoreCase(more).score >= 700
      BY <1>5, <2>3
    <3>3. QED BY <3>1, <3>2 DEF RunCase
  <2>5. QED BY <1>3, <2>4 DEF Outcome, Verdict, judge, more
<1>8. QED BY <1>1, <1>3, <1>4, <1>6, <1>7, AnswerOfJudge DEF judge

-----------------------------------------------------------------------------
(* Blame *)

(* What is reported, as a set of its ids.                                  *)
LEMMA IdsAre ==
  ASSUME NEW places
  PROVE  ToSet(IdsOf(places)) = {places[i].id : i \in DOMAIN places}
BY DEF IdsOf, ToSet

(* Who asks in CNY and gets an honest answer is blamed for the constraints *)
(* only by a case the dataset check rejects, or one that annotates a       *)
(* product priced in another currency.                                     *)
LEMMA AnyBlameEarned ==
  ASSUME NEW query, IsQuery(query), Honours(query, Execute(query))
  PROVE  BlameEarned(query)
<1> DEFINE result == Execute(query)
           hits == ToSet(IdsOf(result.hits))
           out == ToSet(IdsOf(result.filteredOut))
           listed == OnShelf(query)
<1> SUFFICES ASSUME query.currency = "CNY", ~result.error,
                    NEW relevant \in Annotation,
                    FilterOf(query, relevant) = "wrong",
                    Valid(CaseOf(query, relevant), listed)
             PROVE  \E p \in ToSet(relevant) : listed[p].currency # "CNY"
  BY DEF BlameEarned
<1>1. /\ query.currency = "CNY" /\ ~result.error
      /\ FilterOf(query, relevant) = "wrong" /\ Valid(CaseOf(query, relevant), listed)
  OBVIOUS
<1>2. /\ DOMAIN listed = {p \in DOMAIN query.catalog : query.catalog[p].active}
      /\ \A p \in DOMAIN listed : listed[p] = query.catalog[p]
  BY DEF OnShelf, Restrict
<1>3. /\ \A p \in hits : Suits(p, query)
      /\ \A p \in out : ~Suits(p, query)
  <2>1. /\ \A p \in {result.hits[i].id : i \in DOMAIN result.hits} : Suits(p, query)
        /\ \A p \in {result.filteredOut[i].id : i \in DOMAIN result.filteredOut} : ~Suits(p, query)
    BY <1>1 DEF Honours
  <2> HIDE DEF result
  <2>2. QED BY <2>1, IdsAre
<1> DEFINE case == CaseOf(query, relevant)
<1>4. /\ case.shipTo = query.shipTo /\ case.cap = query.cap /\ case.relevant = relevant
  BY DEF CaseOf
<1>5. CheckFilter(case, IdsOf(result.hits), IdsOf(result.filteredOut), listed) = "wrong"
  BY <1>1 DEF FilterOf, Judged
<1> HIDE DEF case, result, listed
<1>6. \/ /\ query.shipTo # "any"
         /\ \E p \in hits \cap DOMAIN listed : query.shipTo \notin listed[p].shipsTo
      \/ ToSet(relevant) \cap out # {}
  <2>1. \/ /\ case.shipTo # "any"
           /\ \E p \in hits \cap DOMAIN listed : case.shipTo \notin listed[p].shipsTo
        \/ ToSet(case.relevant) \cap out # {}
    BY <1>5 DEF CheckFilter
  <2>2. QED BY <1>4, <2>1
<1>7. ~(/\ query.shipTo # "any"
        /\ \E p \in hits \cap DOMAIN listed : query.shipTo \notin listed[p].shipsTo)
  BY <1>2, <1>3 DEF Suits
<1>8. PICK p \in ToSet(relevant) : p \in out
  BY <1>6, <1>7
<1>9. ~Contradicts(p, case, listed)
  BY <1>1, <1>4 DEF Valid, case
<1>10. /\ p \in DOMAIN listed
       /\ query.cap # NoCap /\ listed[p].currency = "CNY" => ~(listed[p].price > query.cap)
       /\ query.shipTo # "any" => query.shipTo \in listed[p].shipsTo
  BY <1>4, <1>9 DEF Contradicts
<1>11. p \in DOMAIN query.catalog /\ query.catalog[p].active /\ listed[p] = query.catalog[p]
  BY <1>2, <1>10
<1>12. query.cap # NoCap /\ ~(PriceIn(p, query) <= query.cap)
  BY <1>3, <1>8, <1>10, <1>11 DEF Suits
<1>13. ASSUME listed[p].currency = "CNY" PROVE FALSE
  <2>1. PriceIn(p, query) = query.catalog[p].price
    BY <1>1, <1>11, <1>13 DEF PriceIn, Convert
  <2>2. query.catalog[p].price \in Nat /\ query.cap \in Int
    BY <1>11, <1>12 DEF IsQuery
  <2>3. ~(query.catalog[p].price > query.cap)
    BY <1>10, <1>11, <1>12, <1>13
  <2>4. QED BY <1>12, <2>1, <2>2, <2>3
<1>14. QED BY <1>8, <1>13

-----------------------------------------------------------------------------
(* Sums *)

(* What has been added up after each place.                                *)
Adds(sum, terms, n) ==
  /\ sum \in [0..n -> Int] /\ sum[0] = 0
  /\ \A i \in 1..n : sum[i] = sum[i - 1] + terms[i]

(* Numbers can be added up one after another. *)
LEMMA SumsExist ==
  ASSUME NEW n \in Nat, NEW terms, \A i \in 1..n : terms[i] \in Int
  PROVE  \E sum : Adds(sum, terms, n)
<1> DEFINE P == {m \in 0..n : \E sum : Adds(sum, terms, m)}
<1>1. 0 \in P
  <2> DEFINE sum == [i \in 0..0 |-> 0]
  <2>1. sum \in [0..0 -> Int] /\ sum[0] = 0 /\ 1..0 = {}
    OBVIOUS
  <2> HIDE DEF sum
  <2>2. Adds(sum, terms, 0)
    BY <2>1 DEF Adds
  <2>3. QED BY <2>2
<1>2. ASSUME NEW m \in 1..n, m - 1 \in P PROVE m \in P
  <2>1. PICK sum : Adds(sum, terms, m - 1)
    BY <1>2
  <2> DEFINE more == [i \in 0..m |-> IF i = m THEN sum[m - 1] + terms[m] ELSE sum[i]]
  <2>2. sum \in [0..(m - 1) -> Int] /\ terms[m] \in Int /\ sum[0] = 0
    BY <2>1 DEF Adds
  <2>3. \A i \in 0..m : i = m \/ i \in 0..(m - 1)
    OBVIOUS
  <2>4. sum[m - 1] \in Int
    BY <2>2
  <2>5. more \in [0..m -> Int]
    BY <2>2, <2>3, <2>4
  <2>6. more[0] = 0 /\ more[m] = sum[m - 1] + terms[m]
    BY <2>2
  <2>7. \A i \in 0..(m - 1) : more[i] = sum[i]
    OBVIOUS
  <2> HIDE DEF more
  <2>8. ASSUME NEW i \in 1..m PROVE more[i] = more[i - 1] + terms[i]
    <3>1. i - 1 \in 0..(m - 1) /\ (i = m \/ i \in 1..(m - 1))
      OBVIOUS
    <3>2. i \in 1..(m - 1) => sum[i] = sum[i - 1] + terms[i] /\ i \in 0..(m - 1)
      BY <2>1 DEF Adds
    <3>3. QED BY <2>6, <2>7, <3>1, <3>2
  <2>9. Adds(more, terms, m)
    BY <2>5, <2>6, <2>8 DEF Adds
  <2>10. QED BY <2>9
<1> HIDE DEF P
<1>3. 0..n \subseteq P
  BY <1>1, <1>2, PlaceByPlace
<1>4. n \in P
  BY <1>3
<1>5. QED BY <1>4 DEF P

(* The last of what has been added up is the total.                        *)
LEMMA TotalOf ==
  ASSUME NEW n \in Nat, NEW terms, DOMAIN terms = 1..n, Len(terms) = n,
         NEW sum, Adds(sum, terms, n)
  PROVE  Total(terms) = sum[n] /\ Total(terms) \in Int
<1> DEFINE Adding(f) == f = [i \in 0..n |-> IF i = 0 THEN 0 ELSE f[i - 1] + terms[i]]
           chosen == CHOOSE f : Adding(f)
<1>1. Adding(sum)
  <2>1. sum = [i \in 0..n |-> sum[i]]
    BY DEF Adds
  <2>2. \A i \in 0..n : sum[i] = IF i = 0 THEN 0 ELSE sum[i - 1] + terms[i]
    BY DEF Adds
  <2>3. QED BY <2>1, <2>2
<1>2. Adding(chosen)
  BY <1>1
<1>3. Total(terms) = chosen[n]
  BY DEF Total
<1> HIDE DEF chosen
<1>4. /\ \A i \in 0..n : chosen[i] = IF i = 0 THEN 0 ELSE chosen[i - 1] + terms[i]
  BY <1>2
<1> DEFINE P == {i \in 0..n : chosen[i] = sum[i]}
<1>5. 0 \in P
  BY <1>4 DEF Adds
<1>6. ASSUME NEW i \in 1..n, i - 1 \in P PROVE i \in P
  <2>1. chosen[i] = chosen[i - 1] + terms[i] /\ sum[i] = sum[i - 1] + terms[i]
    BY <1>4 DEF Adds
  <2>2. QED BY <1>6, <2>1
<1> HIDE DEF P
<1>7. 0..n \subseteq P
  BY <1>5, <1>6, PlaceByPlace
<1>8. chosen[n] = sum[n] /\ sum[n] \in Int
  BY <1>7 DEF P, Adds
<1>9. QED BY <1>3, <1>8

-----------------------------------------------------------------------------
(* Repetitions *)

(* A list without its repetitions has none, and is no longer.              *)
LEMMA DedupOnce ==
  ASSUME NEW T, NEW seq \in Seq(T)
  PROVE  Once(Dedup(seq), T) /\ Len(Dedup(seq)) <= Len(seq)
<1> DEFINE m == Len(seq)
           P == {i \in DOMAIN seq : \A j \in 1..(i - 1) : seq[j] # seq[i]}
           k == Cardinality(P)
           kept == KeepPlaces(seq, P)
<1>1. m \in Nat /\ seq \in [1..m -> T] /\ DOMAIN seq = 1..m
  OBVIOUS
<1>2. P \subseteq 1..m /\ \A i \in P : \A j \in 1..(i - 1) : seq[j] # seq[i]
  BY <1>1
<1>3. Dedup(seq) = kept
  BY DEF Dedup
<1> HIDE DEF m, P, kept
<1>4. PICK at : Climbs(at, k, P) /\ kept = [n \in 1..k |-> seq[at[n]]]
  <2>1. Keeps(KeepPlaces(seq, P), seq, P)
    BY <1>1, <1>2, KeepPlacesKeeps
  <2>2. QED BY <2>1 DEF Keeps, kept
<1>5. /\ k \in Nat /\ at \in [1..k -> P]
      /\ \A i, j \in 1..k : i < j => at[i] < at[j]
  BY <1>4 DEF Climbs
<1>6. k <= m
  <2>1. IsFiniteSet(1..m) /\ (IF 1 > m THEN 0 ELSE m - 1 + 1) = m
    BY <1>1, FS_Interval
  <2>2. Cardinality(1..m) = m
    BY <1>1, <2>1, FS_Interval
  <2>3. P \in SUBSET (1..m)
    BY <1>2
  <2>4. Cardinality(P) <= Cardinality(1..m)
    BY <2>1, <2>3, FS_Subset
  <2>5. QED BY <2>2, <2>4
<1> HIDE DEF k
<1>7. \A n \in 1..k : at[n] \in 1..m
  BY <1>2, <1>5
<1>8. kept \in [1..k -> T]
  BY <1>1, <1>4, <1>7
<1>9. kept \in Seq(T) /\ Len(kept) = k /\ DOMAIN kept = 1..k
  BY <1>5, <1>8
<1>10. ASSUME NEW i \in 1..k, NEW j \in 1..k, i < j PROVE kept[i] # kept[j]
  <2>1. at[i] < at[j] /\ at[i] \in 1..m /\ at[j] \in 1..m /\ at[j] \in P
    BY <1>5, <1>7, <1>10
  <2>2. at[i] \in 1..(at[j] - 1)
    BY <2>1
  <2>3. seq[at[i]] # seq[at[j]]
    BY <1>2, <2>1, <2>2
  <2>4. QED BY <1>4, <2>3
<1>11. \A i, j \in 1..k : kept[i] = kept[j] => i = j
  <2>1. \A i, j \in 1..k : i < j \/ j < i \/ i = j
    BY <1>5
  <2>2. QED BY <1>10, <2>1
<1>12. QED BY <1>3, <1>6, <1>9, <1>11 DEF Once, m

(* A list without repetitions stays as it is.                              *)
LEMMA DedupSame ==
  ASSUME NEW T, NEW seq, Once(seq, T)
  PROVE  Dedup(seq) = seq
<1> DEFINE m == Len(seq)
           P == {i \in DOMAIN seq : \A j \in 1..(i - 1) : seq[j] # seq[i]}
           at == [n \in 1..m |-> n]
<1>1. m \in Nat /\ seq \in [1..m -> T] /\ DOMAIN seq = 1..m
  BY DEF Once
<1>2. P = 1..m
  <2>1. ASSUME NEW i \in 1..m, NEW j \in 1..(i - 1) PROVE seq[j] # seq[i]
    <3>1. j \in 1..m /\ j # i
      BY <1>1
    <3>2. QED BY <1>1, <3>1 DEF Once
  <2>2. QED BY <1>1, <2>1
<1>3. Dedup(seq) = KeepPlaces(seq, P)
  BY DEF Dedup
<1> HIDE DEF m, P
<1>4. Climbs(at, m, P)
  BY <1>1, <1>2 DEF Climbs
<1>5. KeptBy(KeepPlaces(seq, P), seq, m, at)
  BY <1>1, <1>2, <1>4, PlacesKept
<1>6. KeepPlaces(seq, P) = [n \in 1..m |-> seq[n]]
  BY <1>5 DEF KeptBy
<1>7. QED BY <1>1, <1>3, <1>6

(* Nothing is repeated after the first time. *)
LEMMA DedupTwice ==
  ASSUME NEW seq, seq \in Seq(ToSet(seq))
  PROVE  Dedup(Dedup(seq)) = Dedup(seq)
<1>1. Once(Dedup(seq), ToSet(seq))
  BY DedupOnce
<1>2. QED BY <1>1, DedupSame

(* The chunks of documents are of those documents, source or not. *)
LEMMA ChunksName ==
  ASSUME NEW documents, documents \in Seq(ToSet(documents))
  PROVE  [i \in DOMAIN Chunks(documents) |-> SourceOf(Chunks(documents)[i])] = documents
<1>1. DOMAIN Chunks(documents) = DOMAIN documents
  BY DEF Chunks
<1>2. \A i \in DOMAIN documents : SourceOf(Chunks(documents)[i]) = documents[i]
  BY DEF Chunks, SourceOf
<1>3. documents = [i \in DOMAIN documents |-> documents[i]]
  OBVIOUS
<1>4. QED BY <1>1, <1>2, <1>3

(* What is retrieved twice counts once, also as chunks of a document.      *)
LEMMA AnyRepeatsCountOnce ==
  ASSUME NEW case, IsRanking(case)
  PROVE  RepeatsCountOnce(case)
<1> DEFINE ranked == Dedup(case.retrieved)
<1>1. case.retrieved \in Seq(ToSet(case.retrieved))
  BY DEF IsRanking
<1>2. Dedup(ranked) = ranked
  BY <1>1, DedupTwice
<1>3. TopK(ranked, case.k) = TopK(case.retrieved, case.k)
  BY <1>2 DEF TopK
<1>4. Metrics(case.retrieved, case.relevant, case.k) = Metrics(ranked, case.relevant, case.k)
  BY <1>2, <1>3 DEF Metrics, RecallAtK, Mrr, NdcgAtK
<1>5. Dedup([i \in DOMAIN Chunks(case.retrieved) |-> SourceOf(Chunks(case.retrieved)[i])]) = ranked
  BY <1>1, ChunksName
<1> HIDE DEF ranked
<1>6. CheckFilter(Unconstrained(case), ranked, <<>>, <<>>) = "unchecked"
  BY DEF CheckFilter, Unconstrained
<1>7. JudgedDocuments(Unconstrained(case), Chunks(case.retrieved), case.k)
        = ResultOf(ranked, case)
  BY <1>5, <1>6 DEF JudgedDocuments, ResultOf, Judged
<1>8. QED BY <1>4, <1>7 DEF RepeatsCountOnce, ranked

(* The same numbers add up to the same.                                    *)
LEMMA SumsSame ==
  ASSUME NEW n \in Nat, NEW m \in Nat, NEW l \in Nat, l <= n, l <= m,
         NEW sum, NEW terms, Adds(sum, terms, n), NEW sum2, NEW terms2, Adds(sum2, terms2, m),
         \A i \in 1..l : terms[i] = terms2[i]
  PROVE  \A i \in 0..l : sum[i] = sum2[i]
<1> DEFINE P == {i \in 0..l : sum[i] = sum2[i]}
<1>1. 0 \in P
  BY DEF Adds
<1>2. ASSUME NEW i \in 1..l, i - 1 \in P PROVE i \in P
  <2>1. i \in 1..n /\ i \in 1..m
    OBVIOUS
  <2>2. sum[i] = sum[i - 1] + terms[i] /\ sum2[i] = sum2[i - 1] + terms2[i]
    BY <2>1 DEF Adds
  <2>3. QED BY <1>2, <2>2
<1> HIDE DEF P
<1>3. 0..l \subseteq P
  BY <1>1, <1>2, PlaceByPlace
<1>4. QED BY <1>3 DEF P

(* From a place on where all numbers are at least zero the sum does not    *)
(* fall, and where all are at most zero it does not rise.                  *)
LEMMA SumRises ==
  ASSUME NEW n \in Nat, NEW sum, NEW terms, Adds(sum, terms, n), NEW p \in 0..n,
         \A i \in 1..n : terms[i] \in Int
  PROVE  /\ (\A i \in (p + 1)..n : terms[i] >= 0) => \A q \in p..n : sum[p] <= sum[q]
         /\ (\A i \in (p + 1)..n : terms[i] <= 0) => \A q \in p..n : sum[q] <= sum[p]
<1>1. sum \in [0..n -> Int]
  BY DEF Adds
<1>2. ASSUME \A i \in (p + 1)..n : terms[i] >= 0 PROVE \A q \in p..n : sum[p] <= sum[q]
  <2> DEFINE P == {i \in 0..n : i >= p => sum[p] <= sum[i]}
  <2>1. 0 \in P
    BY <1>1
  <2>2. ASSUME NEW i \in 1..n, i - 1 \in P PROVE i \in P
    <3>1. sum[i] = sum[i - 1] + terms[i] /\ terms[i] \in Int
      BY DEF Adds
    <3>2. sum[i] \in Int /\ sum[i - 1] \in Int /\ sum[p] \in Int
      BY <1>1
    <3>3. CASE i > p
      <4>1. i \in (p + 1)..n /\ i - 1 >= p
        BY <3>3
      <4>2. terms[i] >= 0 /\ sum[p] <= sum[i - 1]
        BY <1>2, <2>2, <4>1
      <4>3. QED BY <3>1, <3>2, <4>2
    <3>4. CASE i <= p
      BY <3>2, <3>4
    <3>5. QED BY <3>3, <3>4
  <2> HIDE DEF P
  <2>3. 0..n \subseteq P
    BY <2>1, <2>2, PlaceByPlace
  <2>4. QED BY <2>3 DEF P
<1>3. ASSUME \A i \in (p + 1)..n : terms[i] <= 0 PROVE \A q \in p..n : sum[q] <= sum[p]
  <2> DEFINE P == {i \in 0..n : i >= p => sum[i] <= sum[p]}
  <2>1. 0 \in P
    BY <1>1
  <2>2. ASSUME NEW i \in 1..n, i - 1 \in P PROVE i \in P
    <3>1. sum[i] = sum[i - 1] + terms[i] /\ terms[i] \in Int
      BY DEF Adds
    <3>2. sum[i] \in Int /\ sum[i - 1] \in Int /\ sum[p] \in Int
      BY <1>1
    <3>3. CASE i > p
      <4>1. i \in (p + 1)..n /\ i - 1 >= p
        BY <3>3
      <4>2. terms[i] <= 0 /\ sum[i - 1] <= sum[p]
        BY <1>3, <2>2, <4>1
      <4>3. QED BY <3>1, <3>2, <4>2
    <3>4. CASE i <= p
      BY <3>2, <3>4
    <3>5. QED BY <3>3, <3>4
  <2> HIDE DEF P
  <2>3. 0..n \subseteq P
    BY <2>1, <2>2, PlaceByPlace
  <2>4. QED BY <2>3 DEF P
<1>4. QED BY <1>2, <1>3

(* One number more adds itself to every sum from its place on.             *)
LEMMA SumWithOne ==
  ASSUME NEW n \in Nat, NEW p \in 1..n,
         NEW sum, NEW terms, Adds(sum, terms, n), NEW sum2, NEW terms2, Adds(sum2, terms2, n),
         terms[p] = 0, terms2[p] \in Int, \A i \in 1..n : i # p => terms2[i] = terms[i],
         \A i \in 1..n : terms[i] \in Int
  PROVE  sum2[n] = sum[n] + terms2[p]
<1> DEFINE P == {i \in 0..n : sum2[i] = IF i >= p THEN sum[i] + terms2[p] ELSE sum[i]}
<1>1. sum \in [0..n -> Int] /\ sum2 \in [0..n -> Int]
  BY DEF Adds
<1>2. 0 \in P
  BY DEF Adds
<1>3. ASSUME NEW i \in 1..n, i - 1 \in P PROVE i \in P
  <2>1. sum[i] = sum[i - 1] + terms[i] /\ sum2[i] = sum2[i - 1] + terms2[i]
    BY DEF Adds
  <2>2. sum[i - 1] \in Int /\ sum2[i - 1] \in Int /\ terms[i] \in Int /\ terms2[i] \in Int
    BY <1>1, SMTT(20)
  <2>3. CASE i = p
    <3>1. sum2[i - 1] = sum[i - 1]
      BY <1>3, <2>3
    <3>2. QED BY <2>1, <2>2, <2>3, <3>1
  <2>4. CASE i # p
    <3>1. terms2[i] = terms[i] /\ (i - 1 >= p <=> i >= p)
      BY <2>4
    <3>2. QED BY <1>3, <2>1, <2>2, <3>1
  <2>5. QED BY <2>3, <2>4
<1> HIDE DEF P
<1>4. 0..n \subseteq P
  BY <1>2, <1>3, PlaceByPlace
<1>5. n \in P
  BY <1>4
<1>6. QED BY <1>5 DEF P

-----------------------------------------------------------------------------
(* Gains *)

(* What an annotated item gains is by its place; what is not annotated     *)
(* gains nothing.                                                          *)
LEMMA GainOf ==
  ASSUME NEW T, NEW relevant, Once(relevant, T)
  PROVE  /\ \A p \in 1..Len(relevant) : Gain(relevant[p], relevant) = Len(relevant) + 1 - p
         /\ \A x : /\ Gain(x, relevant) \in 0..Len(relevant)
                   /\ x \notin ToSet(relevant) => Gain(x, relevant) = 0
                   /\ x \in ToSet(relevant) => Gain(x, relevant) > 0
<1> DEFINE L == Len(relevant)
           places(x) == {i \in DOMAIN relevant : relevant[i] = x}
<1>1. L \in Nat /\ DOMAIN relevant = 1..L /\ \A i, j \in 1..L : relevant[i] = relevant[j] => i = j
  BY DEF Once
<1> HIDE DEF L
<1>2. ASSUME NEW p \in 1..L PROVE Gain(relevant[p], relevant) = L + 1 - p
  <2>1. places(relevant[p]) = {p}
    BY <1>1
  <2>2. (CHOOSE i \in {p} : TRUE) = p
    OBVIOUS
  <2>3. QED BY <2>1, <2>2 DEF Gain, L
<1>3. ASSUME NEW x, x \notin ToSet(relevant) PROVE Gain(x, relevant) = 0
  <2>1. places(x) = {}
    BY <1>3 DEF ToSet
  <2>2. QED BY <2>1 DEF Gain
<1>4. ASSUME NEW x, x \in ToSet(relevant) PROVE Gain(x, relevant) \in 1..L
  <2>1. PICK p \in 1..L : x = relevant[p]
    BY <1>1, <1>4 DEF ToSet
  <2>2. Gain(x, relevant) = L + 1 - p
    BY <1>2, <2>1
  <2>3. QED BY <1>1, <2>2
<1>5. \A x : /\ Gain(x, relevant) \in 0..L
             /\ x \notin ToSet(relevant) => Gain(x, relevant) = 0
             /\ x \in ToSet(relevant) => Gain(x, relevant) > 0
  <2>1. ASSUME NEW x PROVE /\ Gain(x, relevant) \in 0..L
                           /\ x \notin ToSet(relevant) => Gain(x, relevant) = 0
                           /\ x \in ToSet(relevant) => Gain(x, relevant) > 0
    <3>1. CASE x \in ToSet(relevant)
      <4>1. Gain(x, relevant) \in 1..L
        BY <1>4, <3>1
      <4>2. QED BY <1>1, <3>1, <4>1
    <3>2. CASE x \notin ToSet(relevant)
      <4>1. Gain(x, relevant) = 0
        BY <1>3, <3>2
      <4>2. QED BY <1>1, <3>2, <4>1
    <3>3. QED BY <3>1, <3>2
  <2>2. QED BY <2>1
<1>6. QED BY <1>2, <1>5 DEF L

(* The gains of the places of a set, and of the first places.              *)
GainsOf(S, L) == [p \in 1..L |-> IF p \in S THEN L + 1 - p ELSE 0]
Descending(L, n) == [i \in 1..n |-> IF i <= L THEN L + 1 - i ELSE 0]

(* How many there are of some of the first numbers.                        *)
LEMMA CountPlaces ==
  ASSUME NEW n \in Nat, NEW S, S \subseteq 1..n
  PROVE  IsFiniteSet(S) /\ Cardinality(S) \in 0..n
<1>1. IsFiniteSet(1..n) /\ (IF 1 > n THEN 0 ELSE n - 1 + 1) = n
  BY FS_Interval
<1>2. Cardinality(1..n) = n
  BY <1>1, FS_Interval
<1>3. S \in SUBSET (1..n)
  OBVIOUS
<1>4. IsFiniteSet(S) /\ Cardinality(S) <= Cardinality(1..n)
  BY <1>1, <1>3, FS_Subset
<1>5. Cardinality(S) \in Nat
  BY <1>4, FS_CardinalityType
<1>6. QED BY <1>2, <1>4, <1>5

(* The gains of some places are at most those of as many first places.     *)
LEMMA FirstPlacesGainMost ==
  ASSUME NEW L \in Nat, NEW n \in Nat, L <= n, NEW S, S \subseteq 1..L,
         NEW sum, Adds(sum, GainsOf(S, L), L), NEW top, Adds(top, Descending(L, n), n)
  PROVE  sum[L] <= top[Cardinality(S)]
<1> DEFINE upTo(p) == S \cap (1..p)
           P == {p \in 0..L : sum[p] <= top[Cardinality(upTo(p))]}
<1>1. sum \in [0..L -> Int] /\ top \in [0..n -> Int] /\ sum[0] = 0 /\ top[0] = 0
  BY DEF Adds
<1>2. 0 \in P
  <2>1. upTo(0) = {}
    OBVIOUS
  <2>2. Cardinality(upTo(0)) = 0
    BY <2>1, FS_EmptySet
  <2> HIDE DEF upTo
  <2>3. QED BY <1>1, <2>2
<1>3. ASSUME NEW p \in 1..L, p - 1 \in P PROVE p \in P
  <2> DEFINE c == Cardinality(upTo(p - 1))
  <2>1. IsFiniteSet(upTo(p - 1)) /\ c \in 0..(p - 1)
    <3>1. upTo(p - 1) \subseteq 1..(p - 1) /\ p - 1 \in Nat
      OBVIOUS
    <3> HIDE DEF upTo
    <3>2. QED BY <3>1, CountPlaces
  <2>2. sum[p - 1] <= top[c]
    BY <1>3
  <2>3. sum[p] = sum[p - 1] + (IF p \in S THEN L + 1 - p ELSE 0)
    BY DEF Adds, GainsOf
  <2>4. sum[p - 1] \in Int /\ sum[p] \in Int /\ top[c] \in Int
    <3>1. c \in 0..n
      BY <2>1
    <3>2. QED BY <1>1, <3>1
  <2>5. CASE p \notin S
    <3>1. upTo(p) = upTo(p - 1)
      BY <2>5
    <3>2. sum[p] = sum[p - 1]
      BY <2>3, <2>4, <2>5
    <3> HIDE DEF upTo
    <3>3. QED BY <2>2, <3>1, <3>2
  <2>6. CASE p \in S
    <3>1. upTo(p) = upTo(p - 1) \cup {p} /\ p \notin upTo(p - 1)
      BY <2>6
    <3>2. Cardinality(upTo(p)) = c + 1
      <4> HIDE DEF upTo
      <4>1. QED BY <2>1, <3>1, FS_AddElement
    <3> HIDE DEF upTo, c
    <3>3. c + 1 \in 1..n /\ c + 1 <= L /\ c + 1 - 1 = c
      BY <2>1
    <3>4. top[c + 1] = top[c] + (L + 1 - (c + 1))
      <4>1. PICK i \in 1..n : i = c + 1
        BY <3>3
      <4>2. top[i] = top[i - 1] + Descending(L, n)[i]
        BY DEF Adds
      <4>3. Descending(L, n)[i] = L + 1 - i
        BY <3>3, <4>1 DEF Descending
      <4>4. i - 1 = c
        BY <3>3, <4>1, <2>1
      <4>5. QED BY <4>1, <4>2, <4>3, <4>4
    <3>5. sum[p] = sum[p - 1] + (L + 1 - p)
      BY <2>3, <2>6
    <3>6. sum[p] <= top[c + 1]
      BY <2>1, <2>2, <2>4, <3>4, <3>5
    <3>7. QED BY <3>2, <3>6
  <2>7. QED BY <2>5, <2>6
<1> HIDE DEF P
<1>4. 0..L \subseteq P
  BY <1>2, <1>3, PlaceByPlace
<1>5. L \in P
  BY <1>4
<1>6. upTo(L) = S
  OBVIOUS
<1> HIDE DEF upTo
<1>7. QED BY <1>5, <1>6 DEF P

-----------------------------------------------------------------------------
(* The places of a list whose items are among the first j of another. *)
FoundAt(j, ranked, relevant) ==
  {p \in 1..Len(relevant) : \E i \in 1..j : ranked[i] = relevant[p]}

(* What the first items of a ranking gain together, each retrieved once,   *)
(* is what the places they have among the annotated items gain.            *)
LEMMA GainsAdd ==
  ASSUME NEW T, NEW relevant, Once(relevant, T), NEW U, NEW ranked, Once(ranked, U),
         NEW gains, \A i \in 1..Len(ranked) : gains[i] = Gain(ranked[i], relevant),
         NEW sum, Adds(sum, gains, Len(ranked))
  PROVE  \A j \in 0..Len(ranked) :
           /\ Cardinality(FoundAt(j, ranked, relevant)) <= j
           /\ \E V : /\ Adds(V, GainsOf(FoundAt(j, ranked, relevant), Len(relevant)), Len(relevant))
                     /\ V[Len(relevant)] = sum[j]
<1> DEFINE L == Len(relevant)
           m == Len(ranked)
           S(j) == FoundAt(j, ranked, relevant)
           Q(j) == /\ Cardinality(S(j)) <= j
                   /\ \E V : Adds(V, GainsOf(S(j), L), L) /\ V[L] = sum[j]
           P == {j \in 0..m : Q(j)}
<1>1. /\ L \in Nat /\ m \in Nat /\ DOMAIN relevant = 1..L /\ DOMAIN ranked = 1..m
      /\ \A i, j \in 1..L : relevant[i] = relevant[j] => i = j
      /\ \A i, j \in 1..m : ranked[i] = ranked[j] => i = j
  BY DEF Once
<1>2. sum \in [0..m -> Int] /\ sum[0] = 0 /\ \A i \in 1..m : sum[i] = sum[i - 1] + gains[i]
  BY DEF Adds
<1>3. \A j : S(j) \subseteq 1..L
  BY DEF FoundAt
<1>4. \A p \in 1..L : Gain(relevant[p], relevant) = L + 1 - p
  BY GainOf
<1>5. \A x : x \notin ToSet(relevant) => Gain(x, relevant) = 0
  BY GainOf
<1>6. S(0) = {}
  BY DEF FoundAt
<1>7. ASSUME NEW j \in 1..m, NEW q \in 1..L, ranked[j] = relevant[q]
      PROVE  S(j) = S(j - 1) \cup {q} /\ q \notin S(j - 1)
  BY <1>1, <1>7 DEF FoundAt
<1>8. ASSUME NEW j \in 1..m, ranked[j] \notin ToSet(relevant)
      PROVE  S(j) = S(j - 1)
  <2>1. \A p \in 1..L : relevant[p] \in ToSet(relevant)
    BY <1>1 DEF ToSet
  <2>2. QED BY <1>1, <1>8, <2>1 DEF FoundAt
<1> HIDE DEF L, m, S
<1>9. \A j : \A i \in 1..L : GainsOf(S(j), L)[i] = (IF i \in S(j) THEN L + 1 - i ELSE 0)
  BY DEF GainsOf
<1>10. \A j : \A i \in 1..L : GainsOf(S(j), L)[i] \in Int
  BY <1>1, <1>9
<1>11. 0 \in P
  <2>1. PICK V : Adds(V, GainsOf(S(0), L), L)
    BY <1>1, <1>10, SumsExist
  <2>2. \A i \in (0 + 1)..L : GainsOf(S(0), L)[i] = 0
    BY <1>1, <1>6, <1>9
  <2>3. /\ (\A i \in (0 + 1)..L : GainsOf(S(0), L)[i] >= 0) => \A q \in 0..L : V[0] <= V[q]
        /\ (\A i \in (0 + 1)..L : GainsOf(S(0), L)[i] <= 0) => \A q \in 0..L : V[q] <= V[0]
    <3> DEFINE g == GainsOf(S(0), L)
    <3>1. \A i \in 1..L : g[i] \in Int
      BY <1>10
    <3>2. Adds(V, g, L) /\ 0 \in 0..L
      BY <1>1, <2>1
    <3> HIDE DEF g
    <3>3. /\ (\A i \in (0 + 1)..L : g[i] >= 0) => \A q \in 0..L : V[0] <= V[q]
          /\ (\A i \in (0 + 1)..L : g[i] <= 0) => \A q \in 0..L : V[q] <= V[0]
      BY <1>1, <3>1, <3>2, SumRises
    <3>4. QED BY <3>3 DEF g
  <2>4. V[0] <= V[L] /\ V[L] <= V[0] /\ V[0] = 0 /\ V[L] \in Int
    <3>1. L \in 0..L
      BY <1>1
    <3>2. V[0] = 0 /\ V[L] \in Int
      BY <2>1, <3>1 DEF Adds
    <3>3. QED BY <2>2, <2>3, <3>1, <3>2
  <2>5. V[L] = sum[0]
    BY <1>2, <2>4
  <2>6. Cardinality(S(0)) = 0
    BY <1>6, FS_EmptySet
  <2>7. QED BY <1>1, <2>1, <2>5, <2>6
<1>12. ASSUME NEW j \in 1..m, j - 1 \in P PROVE j \in P
  <2>1. Cardinality(S(j - 1)) <= j - 1 /\ IsFiniteSet(S(j - 1)) /\ Cardinality(S(j - 1)) \in Nat
    <3>1. IsFiniteSet(S(j - 1)) /\ Cardinality(S(j - 1)) \in 0..L
      BY <1>1, <1>3, CountPlaces
    <3>2. QED BY <1>12, <3>1
  <2>2. PICK V : Adds(V, GainsOf(S(j - 1), L), L) /\ V[L] = sum[j - 1]
    BY <1>12
  <2>3. sum[j] = sum[j - 1] + gains[j] /\ gains[j] = Gain(ranked[j], relevant)
    BY <1>2 DEF m
  <2>4. sum[j - 1] \in Int /\ j - 1 \in 0..m
    BY <1>1, <1>2
  <2>5. CASE ranked[j] \notin ToSet(relevant)
    <3>1. S(j) = S(j - 1)
      BY <1>8, <2>5
    <3>2. sum[j] = sum[j - 1]
      BY <1>5, <2>3, <2>4, <2>5
    <3>3. Cardinality(S(j)) <= j
      BY <2>1, <3>1
    <3>4. QED BY <2>2, <3>1, <3>2, <3>3
  <2>6. CASE ranked[j] \in ToSet(relevant)
    <3>1. PICK q \in 1..L : ranked[j] = relevant[q]
      BY <1>1, <2>6 DEF ToSet
    <3>2. S(j) = S(j - 1) \cup {q} /\ q \notin S(j - 1)
      BY <1>7, <3>1
    <3>3. Cardinality(S(j)) = Cardinality(S(j - 1)) + 1
      BY <2>1, <3>2, FS_AddElement
    <3>4. PICK W : Adds(W, GainsOf(S(j), L), L)
      BY <1>1, <1>10, SumsExist
    <3>5. gains[j] = L + 1 - q
      BY <1>4, <2>3, <3>1
    <3>6. /\ GainsOf(S(j - 1), L)[q] = 0 /\ GainsOf(S(j), L)[q] = L + 1 - q
          /\ \A i \in 1..L : i # q => GainsOf(S(j), L)[i] = GainsOf(S(j - 1), L)[i]
      BY <1>9, <3>2
    <3>7. W[L] = V[L] + (L + 1 - q)
      <4> DEFINE g == GainsOf(S(j - 1), L)
                 h == GainsOf(S(j), L)
      <4>1. /\ Adds(V, g, L) /\ Adds(W, h, L) /\ g[q] = 0 /\ h[q] \in Int
            /\ \A i \in 1..L : i # q => h[i] = g[i]
            /\ \A i \in 1..L : g[i] \in Int
        BY <1>10, <2>2, <3>4, <3>6
      <4>2. L \in Nat
        BY <1>1
      <4> HIDE DEF g, h, P, Q
      <4>3. W[L] = V[L] + h[q]
        BY <4>1, <4>2, SumWithOne
      <4>4. QED BY <3>6, <4>3 DEF h
    <3>8. W[L] = sum[j]
      BY <2>2, <2>3, <3>5, <3>7
    <3>9. Cardinality(S(j)) <= j
      BY <2>1, <3>3
    <3>10. QED BY <3>4, <3>8, <3>9
  <2>7. QED BY <2>5, <2>6
<1> HIDE DEF P
<1>13. 0..m \subseteq P
  BY <1>1, <1>11, <1>12, PlaceByPlace
<1>14. \A j \in 0..m : Q(j)
  BY <1>13 DEF P
<1>15. QED BY <1>14 DEF L, m, S

(* The first items of a ranking gain together no more than as many of the  *)
(* annotated items from the first on.                                      *)
LEMMA GainsBelow ==
  ASSUME NEW T, NEW relevant, Once(relevant, T), NEW U, NEW ranked, Once(ranked, U),
         NEW gains, \A i \in 1..Len(ranked) : gains[i] = Gain(ranked[i], relevant),
         NEW sum, Adds(sum, gains, Len(ranked)),
         NEW n \in Nat, Len(relevant) <= n, Len(ranked) <= n,
         NEW top, Adds(top, Descending(Len(relevant), n), n)
  PROVE  \A j \in 0..Len(ranked) : sum[j] <= top[j]
<1> DEFINE L == Len(relevant)
           d == Descending(L, n)
<1>1. L \in Nat /\ Len(ranked) \in Nat
  BY DEF Once
<1>2. \A i \in 1..n : d[i] \in Int /\ d[i] >= 0
  BY <1>1 DEF Descending
<1>3. TAKE j \in 0..Len(ranked)
<1> DEFINE S == FoundAt(j, ranked, relevant)
           c == Cardinality(S)
<1>4. c <= j /\ \E V : Adds(V, GainsOf(S, L), L) /\ V[L] = sum[j]
  BY GainsAdd
<1>5. S \subseteq 1..L
  BY DEF FoundAt
<1> HIDE DEF L, d, S
<1>6. c \in 0..L
  BY <1>1, <1>5, CountPlaces
<1>7. sum[j] <= top[c]
  <2>1. PICK V : Adds(V, GainsOf(S, L), L) /\ V[L] = sum[j]
    BY <1>4
  <2>2. Adds(top, Descending(L, n), n)
    BY DEF L
  <2>3. L <= n
    BY DEF L
  <2>4. V[L] <= top[c]
    BY <1>1, <1>5, <2>1, <2>2, <2>3, FirstPlacesGainMost
  <2>5. QED BY <2>1, <2>4
<1>8. top[c] <= top[j]
  <2>1. Adds(top, d, n)
    BY DEF d, L
  <2>2. c \in 0..n /\ j \in c..n
    BY <1>1, <1>4, <1>6
  <2>3. \A i \in (c + 1)..n : d[i] >= 0
    BY <1>2, <2>2
  <2>4. \A i \in 1..n : d[i] \in Int
    BY <1>2
  <2>5. \A q \in c..n : top[c] <= top[q]
    BY <2>1, <2>2, <2>3, <2>4, SumRises
  <2>6. QED BY <2>2, <2>5
<1>9. sum[j] \in Int /\ top[c] \in Int /\ top[j] \in Int
  <2>1. c \in 0..n /\ j \in 0..n
    BY <1>1, <1>4, <1>6
  <2>2. QED BY <2>1 DEF Adds
<1>10. QED BY <1>7, <1>8, <1>9

-----------------------------------------------------------------------------
(* Discounted gains *)
Gains(ranked, relevant) == [i \in 1..Len(ranked) |-> Gain(ranked[i], relevant)]
Discounted(gains, n) == [i \in 1..n |-> gains[i] * Discount[i]]

(* The first sums are the sums of the first numbers. *)
LEMMA FirstSums ==
  ASSUME NEW n \in Nat, NEW m \in 0..n, NEW sum, NEW terms, Adds(sum, terms, n)
  PROVE  Adds([i \in 0..m |-> sum[i]], terms, m)
BY DEF Adds

(* What is above zero is, discounted. *)
LEMMA DiscountsAre ==
  /\ Len(Discount) \in Nat
  /\ \A i \in 1..Len(Discount) : Discount[i] \in Nat /\ Discount[i] > 0
  /\ \A i \in 1..Len(Discount) : i > 1 => Discount[i - 1] >= Discount[i]
<1>1. /\ Discount \in Seq(Nat \ {0})
      /\ \A i, j \in DOMAIN Discount : i <= j => Discount[i] >= Discount[j]
  BY DiscountAssumption
<1>2. Len(Discount) \in Nat /\ DOMAIN Discount = 1..Len(Discount)
  BY <1>1
<1>3. \A i \in 1..Len(Discount) : Discount[i] \in Nat \ {0}
  BY <1>1
<1>4. ASSUME NEW i \in 1..Len(Discount), i > 1 PROVE Discount[i - 1] >= Discount[i]
  <2>1. PICK j \in 1..Len(Discount) : j = i - 1
    BY <1>2, <1>4
  <2>2. j <= i
    BY <1>2, <2>1
  <2>3. Discount[j] >= Discount[i]
    BY <1>1, <1>2, <2>2
  <2>4. QED BY <2>1, <2>3
<1>5. \A i \in 1..Len(Discount) : Discount[i] \in Nat /\ Discount[i] > 0
  BY <1>3
<1>6. QED BY <1>2, <1>4, <1>5

(* If no sum of the first numbers is above another's, it is not above it   *)
(* when the numbers are discounted.                                        *)
LEMMA FallingDiscounts ==
  ASSUME NEW n \in Nat, n <= Len(Discount),
         NEW f, NEW g, \A i \in 1..n : f[i] \in Int /\ g[i] \in Int,
         NEW F, Adds(F, f, n), NEW G, Adds(G, g, n), \A i \in 0..n : F[i] <= G[i],
         NEW FF, Adds(FF, Discounted(f, n), n), NEW GG, Adds(GG, Discounted(g, n), n)
  PROVE  FF[n] <= GG[n]
<1>1. /\ F \in [0..n -> Int] /\ G \in [0..n -> Int] /\ FF \in [0..n -> Int] /\ GG \in [0..n -> Int]
      /\ F[0] = 0 /\ G[0] = 0 /\ FF[0] = 0 /\ GG[0] = 0
  BY DEF Adds
<1>2. /\ \A i \in 1..n : Discount[i] \in Nat
      /\ \A i \in 1..n : i > 1 => Discount[i - 1] >= Discount[i]
  BY DiscountsAre
<1> DEFINE P == {i \in 0..n : IF i = 0 THEN FF[i] - GG[i] <= 0
                              ELSE FF[i] - GG[i] <= Discount[i] * (F[i] - G[i])}
<1>3. 0 \in P
  BY <1>1
<1>4. ASSUME NEW i \in 1..n, i - 1 \in P PROVE i \in P
  <2>1. /\ F[i] = F[i - 1] + f[i] /\ G[i] = G[i - 1] + g[i]
        /\ FF[i] = FF[i - 1] + f[i] * Discount[i] /\ GG[i] = GG[i - 1] + g[i] * Discount[i]
    BY DEF Adds, Discounted
  <2> DEFINE d == F[i - 1] - G[i - 1]  w == Discount[i]  x == f[i]  y == g[i]
             e == FF[i - 1] - GG[i - 1]
  <2>2. /\ d \in Int /\ w \in Nat /\ x \in Int /\ y \in Int /\ e \in Int /\ d <= 0
    BY <1>1, <1>2, SMTT(20)
  <2>3. e <= w * d
    <3>1. CASE i = 1
      <4>1. e <= 0 /\ d = 0
        BY <1>1, <3>1
      <4> HIDE DEF d, w, e
      <4>2. w * d = 0
        BY <2>2, <4>1
      <4>3. QED BY <2>2, <4>1, <4>2
    <3>2. CASE i # 1
      <4> DEFINE v == Discount[i - 1]
      <4>1. e <= v * d /\ v >= w /\ v \in Nat
        BY <1>2, <1>4, <3>2
      <4> HIDE DEF d, w, e, v
      <4>2. (v - w) * d <= 0 /\ (v - w) * d = v * d - w * d /\ v * d \in Int /\ w * d \in Int
        <5>1. v - w \in Nat
          BY <2>2, <4>1
        <5>2. \A a \in Nat, b \in Int : b <= 0 => a * b <= 0
          OBVIOUS
        <5>3. QED BY <2>2, <4>1, <5>1, <5>2
      <4>3. QED BY <2>2, <4>1, <4>2
    <3>3. QED BY <3>1, <3>2
  <2>4. FF[i] - GG[i] = e + (x * w - y * w)
    <3>1. FF[i - 1] \in Int /\ GG[i - 1] \in Int
      BY <1>1
    <3>2. \A a, b \in Int : a * b \in Int
      OBVIOUS
    <3>3. x * w \in Int /\ y * w \in Int
      BY <2>2, <3>2
    <3>4. QED BY <2>1, <3>1, <3>3
  <2>5. F[i] - G[i] = d + (x - y)
    <3>1. F[i - 1] \in Int /\ G[i - 1] \in Int /\ f[i] \in Int /\ g[i] \in Int
      BY <1>1
    <3>2. F[i] = F[i - 1] + f[i] /\ G[i] = G[i - 1] + g[i]
      BY <2>1
    <3>3. QED BY <3>1, <3>2
  <2>6. Discount[i] * (F[i] - G[i]) = w * (d + (x - y))
    BY <2>5
  <2> HIDE DEF d, w, x, y, e
  <2>7. w * (d + (x - y)) = w * d + (x * w - y * w)
    BY <2>2
  <2>8. e + (x * w - y * w) <= w * d + (x * w - y * w)
    <3>1. w * d \in Int /\ x * w \in Int /\ y * w \in Int
      BY <2>2
    <3>2. QED BY <2>2, <2>3, <3>1
  <2>9. FF[i] - GG[i] <= Discount[i] * (F[i] - G[i])
    BY <2>4, <2>6, <2>7, <2>8
  <2>10. QED BY <2>9
<1> HIDE DEF P
<1>5. 0..n \subseteq P
  BY <1>3, <1>4, PlaceByPlace
<1>6. n \in P
  BY <1>5
<1>7. CASE n = 0
  BY <1>1, <1>7
<1>8. CASE n # 0
  <2> DEFINE d == F[n] - G[n]  w == Discount[n]  e == FF[n] - GG[n]
  <2>1. e <= w * d /\ d \in Int /\ d <= 0 /\ w \in Nat /\ e \in Int
    BY <1>1, <1>2, <1>6, <1>8 DEF P
  <2> HIDE DEF d, w, e
  <2>2. w * d <= 0 /\ w * d \in Int
    <3>1. \A a \in Nat, b \in Int : b <= 0 => a * b <= 0
      OBVIOUS
    <3>2. QED BY <2>1, <3>1
  <2>3. e <= 0
    BY <2>1, <2>2
  <2>4. FF[n] \in Int /\ GG[n] \in Int
    BY <1>1
  <2>5. QED BY <2>3, <2>4 DEF e
<1>9. QED BY <1>7, <1>8

(* The discounted gain of a ranking is a sum of numbers none of which is   *)
(* below zero.                                                             *)
LEMMA DcgSum ==
  ASSUME NEW T, NEW relevant, Once(relevant, T),
         NEW U, NEW ranked, Once(ranked, U), Len(ranked) <= Len(Discount)
  PROVE  /\ \A i \in 1..Len(ranked) :
              /\ Gains(ranked, relevant)[i] \in 0..Len(relevant)
              /\ Discounted(Gains(ranked, relevant), Len(ranked))[i] \in Nat
         /\ \E sum : /\ Adds(sum, Discounted(Gains(ranked, relevant), Len(ranked)), Len(ranked))
                     /\ sum[Len(ranked)] = Dcg(ranked, relevant)
         /\ Dcg(ranked, relevant) \in Nat
<1> DEFINE m == Len(ranked)
           g == Gains(ranked, relevant)
           d == Discounted(g, m)
<1>1. m \in Nat /\ DOMAIN ranked = 1..m /\ Len(relevant) \in Nat
  BY DEF Once
<1>2. \A i \in 1..m : g[i] \in 0..Len(relevant)
  <2>1. \A x : Gain(x, relevant) \in 0..Len(relevant)
    BY GainOf
  <2>2. QED BY <2>1 DEF Gains
<1>3. \A i \in 1..m : d[i] \in Nat
  <2>1. ASSUME NEW i \in 1..m PROVE d[i] \in Nat
    <3>1. d[i] = g[i] * Discount[i]
      BY DEF Discounted
    <3>2. g[i] \in Nat
      BY <1>1, <1>2
    <3>3. Discount[i] \in Nat
      <4>1. i \in 1..Len(Discount)
        BY <1>1, DiscountsAre
      <4>2. QED BY <4>1, DiscountsAre
    <3> HIDE DEF g, d
    <3>4. QED BY <3>1, <3>2, <3>3
  <2>2. QED BY <2>1
<1>4. Dcg(ranked, relevant) = Total(d)
  <2>1. [i \in DOMAIN ranked |-> Gain(ranked[i], relevant) * Discount[i]] = d
    BY <1>1 DEF Gains, Discounted
  <2>2. QED BY <2>1 DEF Dcg
<1>5. DOMAIN d = 1..m /\ Len(d) = m
  BY <1>1 DEF Discounted
<1> HIDE DEF m, g, d
<1>6. PICK sum : Adds(sum, d, m)
  <2>1. \A i \in 1..m : d[i] \in Int
    BY <1>3
  <2>2. QED BY <1>1, <2>1, SumsExist
<1>7. Total(d) = sum[m]
  BY <1>1, <1>5, <1>6, TotalOf
<1>8. sum[0] = 0 /\ sum[m] \in Int
  <2>1. m \in 0..m
    BY <1>1
  <2>2. QED BY <1>6, <2>1 DEF Adds
<1>9. sum[0] <= sum[m]
  <2>1. 0 \in 0..m /\ m \in 0..m
    BY <1>1
  <2>2. (\A i \in 1..m : d[i] \in Int) /\ \A i \in (0 + 1)..m : d[i] >= 0
    BY <1>3
  <2>3. \A q \in 0..m : sum[0] <= sum[q]
    BY <1>1, <1>6, <2>1, <2>2, SumRises
  <2>4. QED BY <2>1, <2>3
<1>10. sum[m] \in Nat
  BY <1>8, <1>9
<1>11. QED BY <1>2, <1>3, <1>4, <1>6, <1>7, <1>10 DEF m, g, d

(* No ranking of so many items gains more than the annotated items as they *)
(* are annotated, and those gain something.                                *)
LEMMA DcgBelow ==
  ASSUME NEW T, NEW relevant, Once(relevant, T), Len(relevant) <= Len(Discount),
         NEW U, NEW ranked, Once(ranked, U), Len(ranked) <= Len(Discount), NEW k \in Nat
  PROVE  /\ Dcg(Top(k, ranked), relevant) <= Dcg(Top(k, relevant), relevant)
         /\ k > 0 /\ relevant # <<>> => Dcg(Top(k, relevant), relevant) > 0
<1> DEFINE L == Len(relevant)
           N == Len(Discount)
           a == Top(k, ranked)
           b == Top(k, relevant)
           m == Len(a)
           n == Len(b)
           g == Gains(a, relevant)
           ideal == Descending(L, N)
           dd == Discounted(ideal, N)
<1>1. /\ L \in Nat /\ N \in Nat /\ L <= N
      /\ Once(a, U) /\ Once(b, T) /\ m \in Nat /\ n \in Nat
      /\ m <= k /\ m <= N /\ n <= k /\ n <= L /\ (n < k => n = L)
      /\ (k > 0 /\ relevant # <<>> => n > 0)
  <2>1. L \in Nat /\ N \in Nat /\ Len(ranked) \in Nat
    BY DiscountsAre DEF Once
  <2>2. Once(a, U) /\ m <= k /\ m <= Len(ranked)
    BY OnceTop
  <2>3. Once(b, T) /\ n <= k /\ n <= L /\ (n < k => b = relevant)
        /\ (k > 0 /\ relevant # <<>> => b # <<>>)
    BY OnceTop
  <2>4. m \in Nat /\ n \in Nat
    BY <2>2, <2>3 DEF Once
  <2>5. b # <<>> => n > 0
    BY <2>3, <2>4 DEF Once
  <2>6. QED BY <2>1, <2>2, <2>3, <2>4, <2>5
<1>2. \A i \in 1..N : ideal[i] = (IF i <= L THEN L + 1 - i ELSE 0)
  BY DEF Descending
<1>3. \A i \in 1..N : dd[i] = ideal[i] * Discount[i] /\ dd[i] \in Nat
  <2>1. ASSUME NEW i \in 1..N PROVE dd[i] = ideal[i] * Discount[i] /\ dd[i] \in Nat
    <3>1. dd[i] = ideal[i] * Discount[i]
      BY DEF Discounted
    <3>2. ideal[i] \in Nat
      BY <1>1, <1>2
    <3>3. Discount[i] \in Nat
      BY DiscountsAre
    <3> HIDE DEF ideal, dd
    <3>4. QED BY <3>1, <3>2, <3>3
  <2>2. QED BY <2>1
<1>4. \A p \in 1..L : Gain(relevant[p], relevant) = L + 1 - p
  BY GainOf
<1>5. /\ \A i \in 1..m : g[i] \in 0..L
      /\ \E sum : Adds(sum, Discounted(g, m), m) /\ sum[m] = Dcg(a, relevant)
  BY <1>1, DcgSum
<1>6. /\ \A i \in 1..n : Discounted(Gains(b, relevant), n)[i] = dd[i]
      /\ \E sum : Adds(sum, Discounted(Gains(b, relevant), n), n) /\ sum[n] = Dcg(b, relevant)
  <2>1. n <= N
    BY <1>1
  <2>2. ASSUME NEW i \in 1..n PROVE Discounted(Gains(b, relevant), n)[i] = dd[i]
    <3>1. b[i] = relevant[i]
      <4>1. i \in DOMAIN b
        BY <1>1 DEF Once
      <4>2. QED BY <4>1, OnceTop
    <3>2. i \in 1..L /\ i \in 1..N
      BY <1>1
    <3>3. Gains(b, relevant)[i] = L + 1 - i
      BY <1>4, <3>1, <3>2 DEF Gains
    <3>4. QED BY <1>2, <1>3, <3>2, <3>3 DEF Discounted
  <2>3. QED BY <1>1, <2>1, <2>2, DcgSum
<1>7. \A i \in 1..m : g[i] = Gain(a[i], relevant)
  BY DEF Gains
<1>8. \A i \in 1..m : Discounted(g, m)[i] = g[i] * Discount[i]
  BY DEF Discounted
<1>9. /\ \A i \in 1..N : Discount[i] \in Nat /\ Discount[i] > 0
      /\ \A i \in 1..N : i > 1 => Discount[i - 1] >= Discount[i]
  BY DiscountsAre
<1>10. \A i \in 1..N : ideal[i] \in Int /\ dd[i] \in Int /\ dd[i] >= 0 /\ (i > L => dd[i] <= 0)
  <2>1. ASSUME NEW i \in 1..N, i > L PROVE dd[i] <= 0
    <3>1. ideal[i] = 0 /\ Discount[i] \in Nat
      BY <1>1, <1>2, <1>9, <2>1
    <3>2. dd[i] = ideal[i] * Discount[i]
      BY <1>3
    <3> HIDE DEF ideal, dd
    <3>3. QED BY <3>1, <3>2
  <2>2. QED BY <1>1, <1>2, <1>3, <2>1
<1>11. PICK top : Adds(top, Descending(L, N), N)
  BY <1>1, <1>10, SumsExist
<1>12. PICK DD : Adds(DD, dd, N)
  <2>1. \A i \in 1..N : dd[i] \in Int
    BY <1>10
  <2> HIDE DEF dd
  <2>2. QED BY <1>1, <2>1, SumsExist
<1>13. PICK F : Adds(F, g, m)
  <2>1. \A i \in 1..m : g[i] \in Int
    BY <1>1, <1>5
  <2> HIDE DEF g
  <2>2. QED BY <1>1, <2>1, SumsExist
<1> HIDE DEF g, dd, L, N, m, n, ideal
<1>14. \A j \in 0..m : F[j] <= top[j]
  <2>1. /\ \A i \in 1..Len(a) : g[i] = Gain(a[i], relevant)
        /\ Adds(F, g, Len(a)) /\ Len(relevant) <= N /\ Len(a) <= N
        /\ Adds(top, Descending(Len(relevant), N), N)
    BY <1>1, <1>7, <1>11, <1>13 DEF L, m
  <2> HIDE DEF a
  <2>2. \A j \in 0..Len(a) : F[j] <= top[j]
    BY <1>1, <2>1, GainsBelow
  <2>3. QED BY <2>2 DEF m
<1>15. PICK FF : Adds(FF, Discounted(g, m), m) /\ FF[m] = Dcg(a, relevant)
  BY <1>5
<1>16. FF[m] <= DD[m]
  <2> DEFINE topM == [i \in 0..m |-> top[i]]
             DDM == [i \in 0..m |-> DD[i]]
  <2>1. m \in 0..N
    BY <1>1
  <2>2. Adds(topM, ideal, m) /\ Adds(DDM, dd, m)
    BY <1>1, <1>11, <1>12, <2>1, FirstSums DEF ideal
  <2>3. Adds(DDM, Discounted(ideal, m), m)
    <3>1. \A i \in 1..m : Discounted(ideal, m)[i] = dd[i]
      BY <1>1, <1>3 DEF Discounted
    <3> HIDE DEF DDM
    <3>2. QED BY <2>2, <3>1 DEF Adds
  <2>4. /\ \A i \in 1..m : g[i] \in Int /\ ideal[i] \in Int
        /\ \A i \in 0..m : F[i] <= topM[i]
        /\ Adds(F, g, m) /\ Adds(FF, Discounted(g, m), m) /\ m <= Len(Discount)
    BY <1>1, <1>5, <1>10, <1>13, <1>14, <1>15 DEF N
  <2> HIDE DEF topM, DDM
  <2>5. FF[m] <= DDM[m]
    BY <1>1, <2>2, <2>3, <2>4, FallingDiscounts
  <2>6. DDM[m] = DD[m]
    BY <1>1 DEF DDM
  <2>7. QED BY <2>5, <2>6
<1>17. Dcg(b, relevant) = DD[n]
  <2> DEFINE db == Discounted(Gains(b, relevant), n)
  <2>1. PICK sum : Adds(sum, db, n) /\ sum[n] = Dcg(b, relevant)
    BY <1>6
  <2>2. \A i \in 1..n : db[i] = dd[i]
    BY <1>6
  <2> HIDE DEF db
  <2>3. \A i \in 0..n : sum[i] = DD[i]
    BY <1>1, <1>12, <2>1, <2>2, SumsSame, SMTT(20)
  <2>4. QED BY <1>1, <2>1, <2>3
<1>18. DD[m] <= DD[n]
  <2>1. CASE m <= n
    <3>1. m \in 0..N /\ n \in m..N
      BY <1>1, <2>1
    <3>2. (\A i \in (m + 1)..N : dd[i] >= 0) /\ \A i \in 1..N : dd[i] \in Int
      BY <1>1, <1>10
    <3>3. \A q \in m..N : DD[m] <= DD[q]
      BY <1>1, <1>12, <3>1, <3>2, SumRises
    <3>4. QED BY <3>1, <3>3
  <2>2. CASE m > n
    <3>1. n \in 0..N /\ m \in n..N /\ n = L
      BY <1>1, <2>2
    <3>2. (\A i \in (n + 1)..N : dd[i] <= 0) /\ \A i \in 1..N : dd[i] \in Int
      BY <1>1, <1>10, <3>1
    <3>3. \A q \in n..N : DD[q] <= DD[n]
      BY <1>1, <1>12, <3>1, <3>2, SumRises
    <3>4. QED BY <3>1, <3>3
  <2>3. QED BY <1>1, <2>1, <2>2
<1>19. DD \in [0..N -> Int] /\ DD[0] = 0 /\ \A i \in 1..N : DD[i] = DD[i - 1] + dd[i]
  BY <1>12 DEF Adds
<1>20. Dcg(a, relevant) <= Dcg(b, relevant)
  <2>1. m \in 0..N /\ n \in 0..N /\ m \in 0..m
    BY <1>1
  <2>2. DD[m] \in Int /\ DD[n] \in Int /\ FF[m] \in Int
    BY <1>15, <1>19, <2>1 DEF Adds
  <2>3. QED BY <1>15, <1>16, <1>17, <1>18, <2>2
<1>21. ASSUME n > 0 PROVE Dcg(b, relevant) > 0
  <2>1. 1 \in 1..N /\ 1 \in 0..N /\ n \in 1..N /\ L > 0 /\ n \in 0..N
    BY <1>1, <1>21
  <2>2. DD[1] = DD[1 - 1] + dd[1] /\ 1 - 1 = 0
    BY <1>19, <2>1
  <2>3. dd[1] > 0
    <3>1. dd[1] = ideal[1] * Discount[1]
      BY <1>3, <2>1
    <3>2. ideal[1] \in Nat /\ ideal[1] > 0
      BY <1>1, <1>2, <2>1
    <3>3. Discount[1] \in Nat /\ Discount[1] > 0
      BY <1>9, <2>1
    <3>4. QED BY <3>1, <3>2, <3>3
  <2>4. DD[1] <= DD[n]
    <3>1. (\A i \in (1 + 1)..N : dd[i] >= 0) /\ \A i \in 1..N : dd[i] \in Int
      BY <1>1, <1>10
    <3>2. \A q \in 1..N : DD[1] <= DD[q]
      BY <1>1, <1>12, <2>1, <3>1, SumRises
    <3>3. QED BY <2>1, <3>2
  <2>5. DD[1] \in Int /\ DD[n] \in Int /\ dd[1] \in Int
    BY <1>10, <1>19, <2>1
  <2>6. DD[1] > 0
    BY <1>19, <2>2, <2>3, <2>5
  <2>7. QED BY <1>17, <2>4, <2>5, <2>6
<1>22. QED BY <1>1, <1>20, <1>21

-----------------------------------------------------------------------------
(* Metrics *)

(* What a ranking recalls, each item retrieved once. *)
LEMMA RecallIs ==
  ASSUME NEW T, NEW relevant, Once(relevant, T), NEW U, NEW ranked, Once(ranked, U), NEW k \in Int
  PROVE  /\ k <= 0 \/ relevant = <<>> => RecallAtK(ranked, relevant, k) = 0
         /\ ~(k <= 0 \/ relevant = <<>>) =>
              /\ Len(relevant) \in Nat \ {0}
              /\ Cardinality(ToSet(Top(k, ranked)) \cap ToSet(relevant)) \in 0..Len(relevant)
              /\ RecallAtK(ranked, relevant, k) =
                   (Full * Cardinality(ToSet(Top(k, ranked)) \cap ToSet(relevant)))
                     \div Len(relevant)
<1> DEFINE found == ToSet(Top(k, ranked)) \cap ToSet(relevant)
<1>1. CASE k <= 0 \/ relevant = <<>>
  BY <1>1 DEF RecallAtK
<1>2. CASE ~(k <= 0 \/ relevant = <<>>)
  <2>1. TopK(ranked, k) = Top(k, ranked)
    BY DedupSame DEF TopK
  <2>2. IsFiniteSet(ToSet(relevant)) /\ Cardinality(ToSet(relevant)) = Len(relevant)
    BY OnceCount
  <2>3. Len(relevant) \in Nat \ {0}
    BY <1>2 DEF Once
  <2>4. found \in SUBSET ToSet(relevant)
    OBVIOUS
  <2> HIDE DEF found
  <2>5. IsFiniteSet(found) /\ Cardinality(found) <= Cardinality(ToSet(relevant))
    BY <2>2, <2>4, FS_Subset
  <2>6. Cardinality(found) \in 0..Len(relevant)
    BY <2>2, <2>3, <2>5, FS_CardinalityType
  <2>7. RecallAtK(ranked, relevant, k) = (Full * Cardinality(found)) \div Len(relevant)
    BY <1>2, <2>1, <2>2 DEF RecallAtK, found
  <2>8. QED BY <1>2, <2>3, <2>6, <2>7 DEF found
<1>3. QED BY <1>1, <1>2

(* The place that counts is that of the first item annotated. *)
LEMMA MrrIs ==
  ASSUME NEW relevant, NEW U, NEW ranked, Once(ranked, U)
  PROVE  \/ /\ Mrr(ranked, relevant) = 0
            /\ \A j \in 1..Len(ranked) : ~Contains(relevant, ranked[j])
         \/ \E i \in 1..Len(ranked) :
              /\ Mrr(ranked, relevant) = Full \div i /\ Contains(relevant, ranked[i])
              /\ \A j \in 1..Len(ranked) : Contains(relevant, ranked[j]) => i <= j
<1> DEFINE hits == {i \in DOMAIN ranked : Contains(relevant, ranked[i])}
<1>1. Len(ranked) \in Nat /\ DOMAIN ranked = 1..Len(ranked)
  BY DEF Once
<1>2. Mrr(ranked, relevant) =
        IF hits = {} THEN 0 ELSE Full \div (CHOOSE i \in hits : \A j \in hits : i <= j)
  <2>1. Dedup(ranked) = ranked
    BY DedupSame
  <2>2. QED BY <2>1 DEF Mrr
<1>3. CASE hits = {}
  <2>1. \A j \in 1..Len(ranked) : ~Contains(relevant, ranked[j])
    BY <1>1, <1>3
  <2>2. QED BY <1>2, <1>3, <2>1
<1>4. CASE hits # {}
  <2>1. hits \subseteq 1..Len(ranked)
    BY <1>1
  <2> DEFINE first == CHOOSE i \in hits : \A j \in hits : i <= j
  <2>2. first \in hits /\ \A j \in hits : first <= j
    <3> HIDE DEF hits
    <3>1. \E i \in hits : \A j \in hits : i <= j
      BY <1>1, <1>4, <2>1, LeastPlace
    <3>2. QED BY <3>1
  <2> HIDE DEF first
  <2>3. Mrr(ranked, relevant) = Full \div first
    BY <1>2, <1>4 DEF first
  <2>4. \A j \in 1..Len(ranked) : Contains(relevant, ranked[j]) => first <= j
    BY <1>1, <2>2
  <2>5. QED BY <2>1, <2>2, <2>3, <2>4
<1>5. QED BY <1>3, <1>4

(* What a ranking gains of what could be gained, each item retrieved once. *)
LEMMA NdcgIs ==
  ASSUME NEW T, NEW relevant, Once(relevant, T), Len(relevant) <= Len(Discount),
         NEW U, NEW ranked, Once(ranked, U), Len(ranked) <= Len(Discount), NEW k \in Int
  PROVE  /\ k <= 0 \/ relevant = <<>> => NdcgAtK(ranked, relevant, k) = 0
         /\ ~(k <= 0 \/ relevant = <<>>) =>
              /\ Dcg(Top(k, relevant), relevant) \in Nat \ {0}
              /\ Dcg(Top(k, ranked), relevant) \in 0..Dcg(Top(k, relevant), relevant)
              /\ NdcgAtK(ranked, relevant, k) =
                   (Full * Dcg(Top(k, ranked), relevant)) \div Dcg(Top(k, relevant), relevant)
<1>1. CASE k <= 0 \/ relevant = <<>>
  BY <1>1 DEF NdcgAtK
<1>2. CASE ~(k <= 0 \/ relevant = <<>>)
  <2>1. TopK(ranked, k) = Top(k, ranked)
    BY DedupSame DEF TopK
  <2>2. k \in Nat /\ k > 0 /\ relevant # <<>>
    BY <1>2
  <2>3. /\ Once(Top(k, ranked), U) /\ Len(Top(k, ranked)) <= Len(ranked)
        /\ Once(Top(k, relevant), T) /\ Len(Top(k, relevant)) <= Len(relevant)
    BY <2>2, OnceTop
  <2>4. Len(Top(k, ranked)) <= Len(Discount) /\ Len(Top(k, relevant)) <= Len(Discount)
    <3>1. /\ Len(Top(k, ranked)) \in Nat /\ Len(Top(k, relevant)) \in Nat
          /\ Len(ranked) \in Nat /\ Len(relevant) \in Nat /\ Len(Discount) \in Nat
      BY <2>3, DiscountsAre DEF Once
    <3>2. QED BY <2>3, <3>1
  <2>5. Dcg(Top(k, ranked), relevant) \in Nat /\ Dcg(Top(k, relevant), relevant) \in Nat
    BY <2>3, <2>4, DcgSum
  <2>6. /\ Dcg(Top(k, ranked), relevant) <= Dcg(Top(k, relevant), relevant)
        /\ Dcg(Top(k, relevant), relevant) > 0
    BY <2>2, DcgBelow
  <2>7. NdcgAtK(ranked, relevant, k) =
          (Full * Dcg(Top(k, ranked), relevant)) \div Dcg(Top(k, relevant), relevant)
    BY <1>2, <2>1 DEF NdcgAtK
  <2>8. QED BY <1>2, <2>5, <2>6, <2>7
<1>3. QED BY <1>1, <1>2

(* What a case evaluates. *)
LEMMA RankingIs ==
  ASSUME NEW case, IsRanking(case)
  PROVE  /\ Once(Dedup(case.retrieved), ToSet(case.retrieved))
         /\ Len(Dedup(case.retrieved)) <= Len(Discount)
         /\ Once(case.relevant, ToSet(case.relevant)) /\ Len(case.relevant) <= Len(Discount)
         /\ case.k \in Int
<1>1. /\ case.retrieved \in Seq(ToSet(case.retrieved)) /\ Len(case.retrieved) <= Len(Discount)
      /\ case.relevant \in Seq(ToSet(case.relevant)) /\ Len(case.relevant) <= Len(Discount)
      /\ IsInjective(case.relevant) /\ case.k \in Int
  BY DEF IsRanking
<1>2. Once(Dedup(case.retrieved), ToSet(case.retrieved))
      /\ Len(Dedup(case.retrieved)) <= Len(case.retrieved)
  BY <1>1, DedupOnce
<1>3. Once(case.relevant, ToSet(case.relevant))
  BY <1>1 DEF Once, IsInjective
<1>4. Len(Dedup(case.retrieved)) <= Len(Discount)
  <2>1. Len(Dedup(case.retrieved)) \in Nat /\ Len(case.retrieved) \in Nat /\ Len(Discount) \in Nat
    BY <1>1, <1>2, DiscountsAre DEF Once
  <2>2. QED BY <1>1, <1>2, <2>1
<1>5. QED BY <1>1, <1>2, <1>3, <1>4

(* Every metric is a number, at most full. *)
LEMMA MetricsBounded ==
  ASSUME NEW T, NEW relevant, Once(relevant, T), Len(relevant) <= Len(Discount),
         NEW U, NEW ranked, Once(ranked, U), Len(ranked) <= Len(Discount), NEW k \in Int
  PROVE  /\ RecallAtK(ranked, relevant, k) \in 0..Full
         /\ Mrr(ranked, relevant) \in 0..Full
         /\ NdcgAtK(ranked, relevant, k) \in 0..Full
<1>1. 0 \in 0..Full
  BY DEF Full
<1>2. RecallAtK(ranked, relevant, k) \in 0..Full
  <2>1. CASE k <= 0 \/ relevant = <<>>
    BY <1>1, <2>1, RecallIs
  <2>2. CASE ~(k <= 0 \/ relevant = <<>>)
    <3> DEFINE c == Cardinality(ToSet(Top(k, ranked)) \cap ToSet(relevant))
    <3>1. /\ Len(relevant) \in Nat \ {0} /\ c \in 0..Len(relevant)
          /\ RecallAtK(ranked, relevant, k) = (Full * c) \div Len(relevant)
      BY <2>2, RecallIs
    <3> HIDE DEF c
    <3>2. (Full * c) \div Len(relevant) \in 0..Full
      BY <3>1, PartOf
    <3>3. QED BY <3>1, <3>2
  <2>3. QED BY <2>1, <2>2
<1>3. Mrr(ranked, relevant) \in 0..Full
  <2>1. CASE Mrr(ranked, relevant) = 0
    BY <1>1, <2>1
  <2>2. CASE Mrr(ranked, relevant) # 0
    <3>1. PICK i \in 1..Len(ranked) : Mrr(ranked, relevant) = Full \div i
      BY <2>2, MrrIs
    <3>2. Full \in Nat /\ i \in Nat \ {0} /\ 1 \in Nat \ {0} /\ 1 <= i
      BY DEF Once, Full
    <3>3. Full \div i <= Full \div 1
      BY <3>2, DivisorMonotone
    <3>4. Full \div i \in Nat
      BY <3>2, Division
    <3>5. Full \div 1 = Full
      BY DEF Full
    <3>6. QED BY <3>1, <3>2, <3>3, <3>4, <3>5
  <2>3. QED BY <2>1, <2>2
<1>4. NdcgAtK(ranked, relevant, k) \in 0..Full
  <2>1. CASE k <= 0 \/ relevant = <<>>
    BY <1>1, <2>1, NdcgIs
  <2>2. CASE ~(k <= 0 \/ relevant = <<>>)
    <3> DEFINE c == Dcg(Top(k, ranked), relevant)
               d == Dcg(Top(k, relevant), relevant)
    <3>1. d \in Nat \ {0} /\ c \in 0..d /\ NdcgAtK(ranked, relevant, k) = (Full * c) \div d
      BY <2>2, NdcgIs
    <3> HIDE DEF c, d
    <3>2. (Full * c) \div d \in 0..Full
      BY <3>1, PartOf
    <3>3. QED BY <3>1, <3>2
  <2>3. QED BY <2>1, <2>2
<1>5. QED BY <1>2, <1>3, <1>4

(* Nothing scores more than full, and the annotated ranking scores full. *)
LEMMA AnyAtMostFull ==
  ASSUME NEW case, IsRanking(case)
  PROVE  AtMostFull(case)
<1> DEFINE ranked == Dedup(case.retrieved)
           relevant == case.relevant
           k == case.k
           U == ToSet(case.retrieved)
           T == ToSet(case.relevant)
<1>1. /\ Once(ranked, U) /\ Len(ranked) <= Len(Discount)
      /\ Once(relevant, T) /\ Len(relevant) <= Len(Discount) /\ k \in Int
  BY RankingIs
<1> HIDE DEF ranked, relevant, k, U, T
<1>2. NoWorse(Metrics(ranked, relevant, k), <<Full, Full, Full>>)
  <2>1. /\ RecallAtK(ranked, relevant, k) <= Full /\ Mrr(ranked, relevant) <= Full
        /\ NdcgAtK(ranked, relevant, k) <= Full
    <3>1. /\ RecallAtK(ranked, relevant, k) \in 0..Full /\ Mrr(ranked, relevant) \in 0..Full
          /\ NdcgAtK(ranked, relevant, k) \in 0..Full
      BY <1>1, MetricsBounded
    <3>2. QED BY <3>1
  <2>2. QED BY <2>1 DEF NoWorse, Metrics
<1>3. ASSUME TopK(ranked, k) = Top(k, relevant), relevant # <<>>, k > 0
      PROVE  NdcgAtK(ranked, relevant, k) = Full
  <2> DEFINE d == Dcg(Top(k, relevant), relevant)
  <2>1. TopK(ranked, k) = Top(k, ranked)
    BY <1>1, DedupSame DEF TopK
  <2>2. /\ d \in Nat \ {0}
        /\ NdcgAtK(ranked, relevant, k) = (Full * Dcg(Top(k, ranked), relevant)) \div d
    BY <1>1, <1>3, NdcgIs
  <2>3. Dcg(Top(k, ranked), relevant) = d
    BY <1>3, <2>1
  <2>4. 0 \in 0..d
    BY <2>2
  <2> HIDE DEF d
  <2>5. (Full * d) \div d = Full
    BY <2>2, <2>4, PartOf
  <2>6. QED BY <2>2, <2>5, <2>3
<1>4. QED BY <1>2, <1>3 DEF AtMostFull, ranked, relevant, k

-----------------------------------------------------------------------------
(* A ranking with two neighbours exchanged *)

(* It holds the same items, each once. *)
LEMMA ExchangedIs ==
  ASSUME NEW U, NEW ranked, Once(ranked, U), NEW i \in 1..(Len(ranked) - 1)
  PROVE  /\ Once(Exchanged(ranked, i), U) /\ Len(Exchanged(ranked, i)) = Len(ranked)
         /\ i \in 1..Len(ranked) /\ i + 1 \in 1..Len(ranked)
         /\ \A j \in 1..Len(ranked) :
              Exchanged(ranked, i)[j] = IF j = i THEN ranked[i + 1]
                                        ELSE IF j = i + 1 THEN ranked[i] ELSE ranked[j]
<1> DEFINE m == Len(ranked)
           better == Exchanged(ranked, i)
<1>1. m \in Nat /\ DOMAIN ranked = 1..m /\ ranked \in Seq(U)
      /\ \A a, b \in 1..m : ranked[a] = ranked[b] => a = b
  BY DEF Once
<1>2. i \in 1..m /\ i + 1 \in 1..m /\ i # i + 1
  BY <1>1
<1>3. \A a \in 1..m : ranked[a] \in U
  BY <1>1
<1>4. better \in Seq(U) /\ Len(better) = m /\ DOMAIN better = 1..m
  <2>1. better \in [1..m -> U]
    BY <1>1, <1>2, <1>3 DEF Exchanged
  <2>2. QED BY <1>1, <2>1
<1>5. \A j \in 1..m : better[j] = IF j = i THEN ranked[i + 1]
                                  ELSE IF j = i + 1 THEN ranked[i] ELSE ranked[j]
  BY <1>1, <1>2 DEF Exchanged
<1> HIDE DEF better, m
<1>6. \A a, b \in 1..m : better[a] = better[b] => a = b
  BY <1>1, <1>2, <1>5
<1>7. Once(better, U)
  BY <1>4, <1>6 DEF Once
<1>8. QED BY <1>2, <1>4, <1>5, <1>7 DEF better, m

(* The first items of a list. *)
LEMMA TopIs ==
  ASSUME NEW U, NEW ranked \in Seq(U), NEW k \in Nat
  PROVE  \E q \in 0..Len(ranked) :
           /\ q = (IF Len(ranked) < k THEN Len(ranked) ELSE k)
           /\ Len(Top(k, ranked)) = q /\ DOMAIN Top(k, ranked) = 1..q
           /\ \A j \in 1..q : Top(k, ranked)[j] = ranked[j]
           /\ ToSet(Top(k, ranked)) = {ranked[j] : j \in 1..q}
<1> DEFINE q == IF Len(ranked) < k THEN Len(ranked) ELSE k
           top == Top(k, ranked)
<1>1. q \in 0..Len(ranked) /\ Len(ranked) \in Nat
  OBVIOUS
<1>2. top = SubSeq(ranked, 1, q)
  BY DEF Top
<1> HIDE DEF q, top
<1>3. Len(top) = q /\ DOMAIN top = 1..q /\ \A j \in 1..q : top[j] = ranked[j]
  BY <1>1, <1>2
<1>4. ToSet(top) = {ranked[j] : j \in 1..q}
  BY <1>3 DEF ToSet
<1>5. QED BY <1>1, <1>3, <1>4 DEF q, top

(* Recall. *)
LEMMA RecallExchanged ==
  ASSUME NEW T, NEW relevant, Once(relevant, T), NEW U, NEW ranked, Once(ranked, U),
         NEW k \in Int, NEW i \in 1..(Len(ranked) - 1), ranked[i + 1] \in ToSet(relevant)
  PROVE  RecallAtK(ranked, relevant, k) <= RecallAtK(Exchanged(ranked, i), relevant, k)
<1> DEFINE better == Exchanged(ranked, i)
           m == Len(ranked)
<1>1. /\ Once(better, U) /\ Len(better) = m /\ i \in 1..m /\ i + 1 \in 1..m
      /\ \A j \in 1..m : better[j] = IF j = i THEN ranked[i + 1]
                                     ELSE IF j = i + 1 THEN ranked[i] ELSE ranked[j]
  BY ExchangedIs
<1>2. m \in Nat /\ \A a, b \in 1..m : ranked[a] = ranked[b] => a = b
  BY DEF Once
<1> HIDE DEF better
<1>3. CASE k <= 0 \/ relevant = <<>>
  <2>1. RecallAtK(ranked, relevant, k) = 0 /\ RecallAtK(better, relevant, k) = 0
    BY <1>1, <1>3, RecallIs
  <2>2. QED BY <2>1 DEF better
<1>4. CASE ~(k <= 0 \/ relevant = <<>>)
  <2> DEFINE q == IF m < k THEN m ELSE k
             R == ToSet(relevant)
             A == ToSet(Top(k, ranked)) \cap R
             B == ToSet(Top(k, better)) \cap R
  <2>1. k \in Nat /\ q \in Nat /\ q <= m
    BY <1>2, <1>4
  <2>2. A = {ranked[j] : j \in 1..q} \cap R /\ B = {better[j] : j \in 1..q} \cap R
    <3>1. ranked \in Seq(U) /\ better \in Seq(U)
      BY <1>1 DEF Once
    <3>2. ToSet(Top(k, ranked)) = {ranked[j] : j \in 1..q}
      BY <2>1, <3>1, TopIs
    <3>3. ToSet(Top(k, better)) = {better[j] : j \in 1..q}
      BY <1>1, <2>1, <3>1, TopIs
    <3>4. QED BY <3>2, <3>3
  <2>3. /\ Len(relevant) \in Nat \ {0} /\ Cardinality(A) \in 0..Len(relevant)
        /\ RecallAtK(ranked, relevant, k) = (Full * Cardinality(A)) \div Len(relevant)
    BY <1>4, RecallIs
  <2>4. /\ Cardinality(B) \in 0..Len(relevant)
        /\ RecallAtK(better, relevant, k) = (Full * Cardinality(B)) \div Len(relevant)
    BY <1>1, <1>4, RecallIs
  <2>5. IsFiniteSet(A) /\ IsFiniteSet(B)
    <3>1. IsFiniteSet(R)
      BY OnceCount
    <3>2. A \in SUBSET R /\ B \in SUBSET R
      OBVIOUS
    <3> HIDE DEF A, B, R
    <3>3. QED BY <3>1, <3>2, FS_Subset
  <2>6. ranked[i + 1] \in R
    OBVIOUS
  <2> HIDE DEF A, B, R, q
  <2>7. Cardinality(A) <= Cardinality(B)
    <3>1. CASE q < i
      <4>1. \A j \in 1..q : better[j] = ranked[j]
        BY <1>1, <1>2, <2>1, <3>1
      <4>2. A = B
        BY <2>2, <4>1
      <4>3. QED BY <2>3, <4>2
    <3>2. CASE q > i
      <4>1. i \in 1..q /\ i + 1 \in 1..q
        BY <1>1, <1>2, <2>1, <3>2
      <4>2. \A j \in 1..q : \E l \in 1..q : better[l] = ranked[j]
        <5>1. better[i + 1] = ranked[i] /\ better[i] = ranked[i + 1]
          BY <1>1, <1>2
        <5>2. \A j \in 1..q : j # i /\ j # i + 1 => better[j] = ranked[j]
          BY <1>1, <2>1
        <5>3. QED BY <4>1, <5>1, <5>2
      <4>3. A \subseteq B
        BY <2>2, <4>2
      <4>4. QED BY <2>5, <4>3, FS_Subset
    <3>3. CASE q = i
      <4> DEFINE x == ranked[i]
                 y == ranked[i + 1]
      <4>1. y \notin A
        BY <1>1, <1>2, <2>1, <2>2, <3>3
      <4>2. (A \ {x}) \cup {y} \subseteq B
        <5>1. y \in B
          <6>1. better[i] = y /\ i \in 1..q
            BY <1>1, <1>2, <3>3
          <6>2. QED BY <2>2, <2>6, <6>1
        <5>2. ASSUME NEW z \in A, z # x PROVE z \in B
          <6>1. PICK j \in 1..q : z = ranked[j]
            BY <2>2
          <6>2. j # i /\ j # i + 1 /\ j \in 1..m
            BY <1>1, <1>2, <2>1, <3>3, <5>2, <6>1
          <6>3. better[j] = z
            BY <1>1, <6>1, <6>2
          <6>4. z \in R
            BY <2>2
          <6>5. QED BY <2>2, <6>3, <6>4
        <5>3. QED BY <5>1, <5>2
      <4> HIDE DEF x, y
      <4> DEFINE C == A \ {x}
      <4>3. IsFiniteSet(C) /\ Cardinality(C) >= Cardinality(A) - 1 /\ Cardinality(C) \in Nat
        <5>1. CASE x \in A
          <6>1. IsFiniteSet(C) /\ Cardinality(C) = Cardinality(A) - 1
            BY <2>5, <5>1, FS_RemoveElement
          <6>2. Cardinality(C) \in Nat
            BY <6>1, FS_CardinalityType
          <6>3. QED BY <2>3, <6>1, <6>2
        <5>2. CASE x \notin A
          <6>1. C = A
            BY <5>2
          <6> HIDE DEF C
          <6>2. Cardinality(A) \in Int /\ Cardinality(A) >= Cardinality(A) - 1
                /\ Cardinality(A) \in Nat
            BY <2>3
          <6>3. QED BY <2>5, <6>1, <6>2
        <5>3. QED BY <5>1, <5>2
      <4>4. y \notin C
        BY <4>1
      <4> HIDE DEF C
      <4>5. IsFiniteSet(C \cup {y}) /\ Cardinality(C \cup {y}) = Cardinality(C) + 1
        BY <4>3, <4>4, FS_AddElement
      <4>6. Cardinality(C \cup {y}) <= Cardinality(B)
        <5>1. C \cup {y} \in SUBSET B
          BY <4>2 DEF C
        <5>2. QED BY <2>5, <5>1, FS_Subset
      <4>7. Cardinality(A) \in Int /\ Cardinality(B) \in Int
        BY <2>3, <2>4
      <4>8. QED BY <4>3, <4>5, <4>6, <4>7
    <3>4. i \in Int /\ q \in Int
      BY <2>1
    <3>5. QED BY <3>1, <3>2, <3>3, <3>4
  <2>8. (Full * Cardinality(A)) \div Len(relevant) <= (Full * Cardinality(B)) \div Len(relevant)
    BY <2>3, <2>4, <2>7, PartOf
  <2>9. QED BY <2>3, <2>4, <2>8 DEF better
<1>5. QED BY <1>3, <1>4

(* Mean reciprocal rank. *)
LEMMA MrrExchanged ==
  ASSUME NEW T, NEW relevant, Once(relevant, T), NEW U, NEW ranked, Once(ranked, U),
         NEW i \in 1..(Len(ranked) - 1), Contains(relevant, ranked[i + 1])
  PROVE  Mrr(ranked, relevant) <= Mrr(Exchanged(ranked, i), relevant)
<1> DEFINE better == Exchanged(ranked, i)
           m == Len(ranked)
<1>1. /\ Once(better, U) /\ Len(better) = m /\ i \in 1..m /\ i + 1 \in 1..m
      /\ \A j \in 1..m : better[j] = IF j = i THEN ranked[i + 1]
                                     ELSE IF j = i + 1 THEN ranked[i] ELSE ranked[j]
  BY ExchangedIs
<1>2. m \in Nat
  BY DEF Once
<1>3. PICK h \in 1..m : /\ Mrr(ranked, relevant) = Full \div h /\ Contains(relevant, ranked[h])
                        /\ \A j \in 1..m : Contains(relevant, ranked[j]) => h <= j
  BY <1>1, MrrIs
<1>4. h <= i + 1
  BY <1>1, <1>3
<1> HIDE DEF better
<1>5. \E j \in 1..m : Contains(relevant, better[j]) /\ j <= h
  <2>1. CASE h < i
    <3>1. better[h] = ranked[h]
      BY <1>1, <2>1
    <3>2. QED BY <1>3, <3>1
  <2>2. CASE h >= i
    <3>1. better[i] = ranked[i + 1]
      BY <1>1
    <3>2. QED BY <1>1, <2>2, <3>1
  <2>3. QED BY <2>1, <2>2
<1>6. PICK g \in 1..m : /\ Mrr(better, relevant) = Full \div g
                        /\ \A j \in 1..m : Contains(relevant, better[j]) => g <= j
  BY <1>1, <1>5, MrrIs
<1>7. g <= h
  BY <1>5, <1>6
<1>8. Full \in Nat /\ g \in Nat \ {0} /\ h \in Nat \ {0}
  BY DEF Full
<1>9. Full \div h <= Full \div g
  BY <1>7, <1>8, DivisorMonotone
<1>10. QED BY <1>3, <1>6, <1>9 DEF better

-----------------------------------------------------------------------------
(* Discounted gain. *)
LEMMA DcgExchanged ==
  ASSUME NEW T, NEW relevant, Once(relevant, T),
         NEW U, NEW ranked, Once(ranked, U), Len(ranked) <= Len(Discount), NEW k \in Nat,
         NEW i \in 1..(Len(ranked) - 1),
         Gain(ranked[i], relevant) <= Gain(ranked[i + 1], relevant)
  PROVE  Dcg(Top(k, ranked), relevant) <= Dcg(Top(k, Exchanged(ranked, i)), relevant)
<1> DEFINE better == Exchanged(ranked, i)
           m == Len(ranked)
           a == Top(k, ranked)
           b == Top(k, better)
           q == IF m < k THEN m ELSE k
           g == Gains(a, relevant)
           h == Gains(b, relevant)
           v(x) == Gain(x, relevant)
<1>1. /\ Once(better, U) /\ Len(better) = m /\ i \in 1..m /\ i + 1 \in 1..m
      /\ \A j \in 1..m : better[j] = IF j = i THEN ranked[i + 1]
                                     ELSE IF j = i + 1 THEN ranked[i] ELSE ranked[j]
  BY ExchangedIs
<1>2. m \in Nat /\ q \in Nat /\ q <= m /\ Len(Discount) \in Nat /\ q <= Len(Discount)
      /\ ranked \in Seq(U) /\ better \in Seq(U)
  BY <1>1, DiscountsAre DEF Once
<1>3. Once(a, U) /\ Once(b, U)
  BY <1>1, OnceTop
<1> HIDE DEF better, a, b
<1>4. Len(a) = q /\ \A j \in 1..q : a[j] = ranked[j]
  BY <1>2, TopIs DEF a
<1>5. Len(b) = q /\ \A j \in 1..q : b[j] = better[j]
  BY <1>1, <1>2, TopIs, SMTT(20) DEF b
<1>6. \A x : v(x) \in Nat
  <2>1. \A x : Gain(x, relevant) \in 0..Len(relevant)
    BY GainOf
  <2>2. Len(relevant) \in Nat
    BY DEF Once
  <2>3. QED BY <2>1, <2>2
<1>7. v(ranked[i]) <= v(ranked[i + 1])
  OBVIOUS
<1> HIDE DEF q
<1>8. /\ \A j \in 1..q : g[j] = v(ranked[j]) /\ g[j] \in Int
      /\ \A j \in 1..q : h[j] = v(better[j]) /\ h[j] \in Int
  <2>1. \A j \in 1..q : g[j] = v(ranked[j])
    BY <1>4 DEF Gains
  <2>2. \A j \in 1..q : h[j] = v(better[j])
    BY <1>5 DEF Gains
  <2> HIDE DEF g, h
  <2>3. \A j \in 1..q : g[j] \in Int /\ h[j] \in Int
    BY <1>6, <2>1, <2>2
  <2>4. QED BY <2>1, <2>2, <2>3
<1>9. PICK FF : Adds(FF, Discounted(g, q), q) /\ FF[q] = Dcg(a, relevant)
  <2>1. \E sum : Adds(sum, Discounted(g, Len(a)), Len(a)) /\ sum[Len(a)] = Dcg(a, relevant)
    BY <1>2, <1>3, <1>4, DcgSum
  <2>2. QED BY <1>4, <2>1
<1>10. PICK GG : Adds(GG, Discounted(h, q), q) /\ GG[q] = Dcg(b, relevant)
  <2>1. \E sum : Adds(sum, Discounted(h, Len(b)), Len(b)) /\ sum[Len(b)] = Dcg(b, relevant)
    BY <1>2, <1>3, <1>5, DcgSum
  <2>2. QED BY <1>5, <2>1
<1> HIDE DEF g, h, v, m
<1>11. PICK F : Adds(F, g, q)
  BY <1>2, <1>8, SumsExist
<1>12. PICK G : Adds(G, h, q)
  BY <1>2, <1>8, SumsExist
<1>13. /\ F \in [0..q -> Int] /\ F[0] = 0 /\ \A j \in 1..q : F[j] = F[j - 1] + g[j]
       /\ G \in [0..q -> Int] /\ G[0] = 0 /\ \A j \in 1..q : G[j] = G[j - 1] + h[j]
  BY <1>11, <1>12 DEF Adds
<1> DEFINE more == v(ranked[i + 1]) - v(ranked[i])
           P == {j \in 0..q : G[j] = F[j] + IF j = i THEN more ELSE 0}
<1>14. more \in Nat
  BY <1>6, <1>7
<1>15. i \in Nat /\ i > 0 /\ i + 1 # i
  BY <1>1, <1>2
<1>16. 0 \in P
  BY <1>2, <1>13, <1>15
<1>17. ASSUME NEW j \in 1..q, j - 1 \in P PROVE j \in P
  <2>1. /\ F[j] = F[j - 1] + g[j] /\ G[j] = G[j - 1] + h[j]
        /\ F[j - 1] \in Int /\ F[j] \in Int /\ G[j - 1] \in Int /\ G[j] \in Int
    <3>1. j - 1 \in 0..q /\ j \in 0..q
      BY <1>2
    <3>2. QED BY <1>13, <3>1
  <2>2. G[j - 1] = F[j - 1] + IF j - 1 = i THEN more ELSE 0
    BY <1>17
  <2>3. g[j] = v(ranked[j]) /\ h[j] = v(better[j]) /\ g[j] \in Int /\ h[j] \in Int /\ j \in 1..m
    BY <1>2, <1>8
  <2>4. v(ranked[i]) \in Int /\ v(ranked[i + 1]) \in Int
    BY <1>6
  <2>5. CASE j = i
    <3>1. better[j] = ranked[i + 1] /\ j - 1 # i
      BY <1>1, <1>15, <2>3, <2>5
    <3>2. h[j] = g[j] + more
      BY <2>3, <2>4, <2>5, <3>1
    <3> HIDE DEF more
    <3>3. G[j - 1] = F[j - 1]
      BY <2>1, <2>2, <3>1
    <3>4. G[j] = F[j] + more
      <4>1. more \in Int /\ g[j] \in Int
        BY <1>14, <2>3
      <4>2. QED BY <2>1, <3>2, <3>3, <4>1, SMTT(20)
    <3>5. QED BY <2>5, <3>4
  <2>6. CASE j = i + 1
    <3>1. better[j] = ranked[i] /\ j - 1 = i /\ j # i
      BY <1>1, <1>15, <2>3, <2>6
    <3>2. g[j] = h[j] + more
      BY <2>3, <2>4, <2>6, <3>1
    <3> HIDE DEF more
    <3>3. G[j] = F[j]
      BY <1>14, <2>1, <2>2, <2>3, <3>1, <3>2, SMTT(20)
    <3>4. QED BY <2>1, <3>1, <3>3
  <2>7. CASE j # i /\ j # i + 1
    <3>1. better[j] = ranked[j] /\ j - 1 # i
      BY <1>1, <1>15, <2>3, <2>7
    <3>2. g[j] = h[j]
      BY <2>3, <3>1
    <3> HIDE DEF more
    <3>3. G[j] = F[j]
      BY <2>1, <2>2, <2>3, <3>1, <3>2
    <3>4. QED BY <2>1, <2>7, <3>3
  <2>8. QED BY <2>5, <2>6, <2>7
<1> HIDE DEF P, more
<1>18. 0..q \subseteq P
  BY <1>2, <1>16, <1>17, PlaceByPlace
<1>19. \A j \in 0..q : F[j] <= G[j]
  <2>1. TAKE j \in 0..q
  <2>2. G[j] = F[j] + IF j = i THEN more ELSE 0
    BY <1>18 DEF P
  <2>3. F[j] \in Int
    BY <1>13
  <2>4. QED BY <1>14, <2>2, <2>3
<1>20. FF[q] <= GG[q]
  <2>1. \A j \in 1..q : g[j] \in Int /\ h[j] \in Int
    BY <1>8
  <2>2. QED BY <1>2, <1>9, <1>10, <1>11, <1>12, <1>19, <2>1, FallingDiscounts
<1>21. QED BY <1>9, <1>10, <1>20 DEF a, b, better

(* A ranking whose annotated items rank higher scores no worse. *)
LEMMA MetricsExchanged ==
  ASSUME NEW T, NEW relevant, Once(relevant, T), Len(relevant) <= Len(Discount),
         NEW U, NEW ranked, Once(ranked, U), Len(ranked) <= Len(Discount), NEW k \in Int,
         NEW i \in 1..(Len(ranked) - 1),
         Gain(ranked[i], relevant) < Gain(ranked[i + 1], relevant)
  PROVE  /\ Once(Exchanged(ranked, i), U) /\ Len(Exchanged(ranked, i)) <= Len(Discount)
         /\ RecallAtK(ranked, relevant, k) <= RecallAtK(Exchanged(ranked, i), relevant, k)
         /\ Mrr(ranked, relevant) <= Mrr(Exchanged(ranked, i), relevant)
         /\ NdcgAtK(ranked, relevant, k) <= NdcgAtK(Exchanged(ranked, i), relevant, k)
<1> DEFINE better == Exchanged(ranked, i)
<1>1. Once(better, U) /\ Len(better) = Len(ranked)
  BY ExchangedIs
<1>2. Len(better) <= Len(Discount)
  BY <1>1
<1>3. \A x : /\ Gain(x, relevant) \in 0..Len(relevant)
             /\ x \notin ToSet(relevant) => Gain(x, relevant) = 0
  BY GainOf
<1>4. Len(relevant) \in Nat /\ DOMAIN relevant = 1..Len(relevant)
  BY DEF Once
<1>5. Gain(ranked[i], relevant) \in Nat /\ Gain(ranked[i + 1], relevant) \in Nat
  BY <1>3, <1>4
<1>6. ranked[i + 1] \in ToSet(relevant)
  <2>1. Gain(ranked[i + 1], relevant) # 0
    BY <1>5
  <2>2. QED BY <1>3, <2>1
<1>7. Contains(relevant, ranked[i + 1])
  BY <1>4, <1>6 DEF Contains, ToSet
<1>8. Gain(ranked[i], relevant) <= Gain(ranked[i + 1], relevant)
  BY <1>5
<1>9. RecallAtK(ranked, relevant, k) <= RecallAtK(better, relevant, k)
  BY <1>6, RecallExchanged
<1>10. Mrr(ranked, relevant) <= Mrr(better, relevant)
  BY <1>7, MrrExchanged
<1>11. NdcgAtK(ranked, relevant, k) <= NdcgAtK(better, relevant, k)
  <2> HIDE DEF better
  <2>1. CASE k <= 0 \/ relevant = <<>>
    <3>1. NdcgAtK(ranked, relevant, k) = 0 /\ NdcgAtK(better, relevant, k) = 0
      BY <1>1, <1>2, <2>1, NdcgIs
    <3>2. QED BY <3>1
  <2>2. CASE ~(k <= 0 \/ relevant = <<>>)
    <3> DEFINE d == Dcg(Top(k, relevant), relevant)
               c == Dcg(Top(k, ranked), relevant)
               e == Dcg(Top(k, better), relevant)
    <3>1. /\ d \in Nat \ {0} /\ c \in 0..d
          /\ NdcgAtK(ranked, relevant, k) = (Full * c) \div d
      BY <2>2, NdcgIs
    <3>2. e \in 0..d /\ NdcgAtK(better, relevant, k) = (Full * e) \div d
      BY <1>1, <1>2, <2>2, NdcgIs
    <3>3. c <= e
      <4>1. k \in Nat
        BY <2>2
      <4>2. QED BY <1>8, <4>1, DcgExchanged DEF better
    <3> HIDE DEF c, d, e
    <3>4. (Full * c) \div d <= (Full * e) \div d
      BY <3>1, <3>2, <3>3, PartOf
    <3>5. QED BY <3>1, <3>2, <3>4
  <2>3. QED BY <2>1, <2>2
<1>12. QED BY <1>1, <1>2, <1>9, <1>10, <1>11

-----------------------------------------------------------------------------
(* Aggregates *)
Field == {"recall", "mrr", "ndcg"}

(* The sum of one number. *)
LEMMA SumOfOne ==
  ASSUME NEW terms, DOMAIN terms = 1..1, Len(terms) = 1, terms[1] \in Int
  PROVE  Total(terms) = terms[1]
<1> DEFINE sum == [n \in 0..1 |-> IF n = 0 THEN 0 ELSE terms[1]]
<1>1. Adds(sum, terms, 1)
  <2>1. sum \in [0..1 -> Int] /\ sum[0] = 0
    OBVIOUS
  <2>2. ASSUME NEW i \in 1..1 PROVE sum[i] = sum[i - 1] + terms[i]
    <3>1. i = 1 /\ sum[1] = terms[1] /\ sum[1 - 1] = 0
      OBVIOUS
    <3> HIDE DEF sum
    <3>2. QED BY <3>1
  <2> HIDE DEF sum
  <2>3. QED BY <2>1, <2>2 DEF Adds
<1> HIDE DEF sum
<1>2. Total(terms) = sum[1]
  <2>1. 1 \in Nat
    OBVIOUS
  <2>2. QED BY <1>1, <2>1, TotalOf
<1>3. sum[1] = terms[1]
  BY DEF sum
<1>4. QED BY <1>2, <1>3

(* The sum of two numbers. *)
LEMMA SumOfTwo ==
  ASSUME NEW terms, DOMAIN terms = 1..2, Len(terms) = 2, terms[1] \in Int, terms[2] \in Int
  PROVE  Total(terms) = terms[1] + terms[2]
<1> DEFINE sum == [n \in 0..2 |-> IF n = 0 THEN 0 ELSE IF n = 1 THEN terms[1]
                                  ELSE terms[1] + terms[2]]
<1>1. Adds(sum, terms, 2)
  <2>1. sum \in [0..2 -> Int] /\ sum[0] = 0
    OBVIOUS
  <2>2. ASSUME NEW i \in 1..2 PROVE sum[i] = sum[i - 1] + terms[i]
    <3>1. /\ i = 1 \/ i = 2
          /\ sum[1] = terms[1] /\ sum[1 - 1] = 0
          /\ sum[2] = terms[1] + terms[2] /\ sum[2 - 1] = terms[1]
      OBVIOUS
    <3> HIDE DEF sum
    <3>2. QED BY <3>1
  <2> HIDE DEF sum
  <2>3. QED BY <2>1, <2>2 DEF Adds
<1> HIDE DEF sum
<1>2. Total(terms) = sum[2]
  <2>1. 2 \in Nat
    OBVIOUS
  <2>2. QED BY <1>1, <2>1, TotalOf
<1>3. sum[2] = terms[1] + terms[2]
  BY DEF sum
<1>4. QED BY <1>2, <1>3

(* What one result comes to. *)
LEMMA EvaluateOne ==
  ASSUME NEW r, r.recall \in Nat
  PROVE  Evaluate(<<r>>).recall = r.recall
<1> DEFINE terms == [i \in DOMAIN <<r>> |-> <<r>>[i]["recall"]]
<1>1. DOMAIN terms = 1..1 /\ Len(terms) = 1 /\ terms[1] = r.recall
  OBVIOUS
<1>2. Total(terms) = r.recall
  <2> HIDE DEF terms
  <2>1. QED BY <1>1, SumOfOne
<1>3. Len(<<r>>) = 1
  OBVIOUS
<1>4. Evaluate(<<r>>).recall = IF Len(<<r>>) = 0 THEN 0 ELSE Total(terms) \div Len(<<r>>)
  BY DEF Evaluate
<1> HIDE DEF terms
<1>5. r.recall \div 1 = r.recall
  OBVIOUS
<1>6. QED BY <1>2, <1>3, <1>4, <1>5

(* What two results come to. *)
LEMMA EvaluateTwo ==
  ASSUME NEW r, NEW s, \A field \in Field : r[field] \in Nat /\ s[field] \in Nat
  PROVE  /\ Evaluate(<<r, s>>).count = 2
         /\ Evaluate(<<r, s>>).recall = (r.recall + s.recall) \div 2
         /\ Evaluate(<<r, s>>).mrr = (r.mrr + s.mrr) \div 2
         /\ Evaluate(<<r, s>>).ndcg = (r.ndcg + s.ndcg) \div 2
<1> DEFINE both == <<r, s>>
           terms(field) == [i \in DOMAIN both |-> both[i][field]]
<1>1. Len(both) = 2 /\ DOMAIN both = 1..2 /\ both[1] = r /\ both[2] = s
  OBVIOUS
<1> HIDE DEF both
<1>2. ASSUME NEW field \in Field PROVE Total(terms(field)) = r[field] + s[field]
  <2>1. /\ DOMAIN terms(field) = 1..2 /\ Len(terms(field)) = 2
        /\ terms(field)[1] = r[field] /\ terms(field)[2] = s[field]
    BY <1>1
  <2>2. r[field] \in Int /\ s[field] \in Int
    OBVIOUS
  <2> HIDE DEF terms
  <2>3. QED BY <2>1, <2>2, SumOfTwo
<1>3. /\ Evaluate(both).count = Len(both)
      /\ Evaluate(both).recall = IF Len(both) = 0 THEN 0 ELSE Total(terms("recall")) \div Len(both)
      /\ Evaluate(both).mrr = IF Len(both) = 0 THEN 0 ELSE Total(terms("mrr")) \div Len(both)
      /\ Evaluate(both).ndcg = IF Len(both) = 0 THEN 0 ELSE Total(terms("ndcg")) \div Len(both)
  BY DEF Evaluate
<1>4. /\ Total(terms("recall")) = r.recall + s.recall
      /\ Total(terms("mrr")) = r.mrr + s.mrr /\ Total(terms("ndcg")) = r.ndcg + s.ndcg
  BY <1>2 DEF Field
<1> HIDE DEF terms
<1>5. QED BY <1>1, <1>3, <1>4 DEF both

(* The result of a ranking is its metrics. *)
LEMMA ResultIs ==
  ASSUME NEW case, NEW seq
  PROVE  /\ ResultOf(seq, case).recall = RecallAtK(seq, case.relevant, case.k)
         /\ ResultOf(seq, case).mrr = Mrr(seq, case.relevant)
         /\ ResultOf(seq, case).ndcg = NdcgAtK(seq, case.relevant, case.k)
         /\ ResultOf(seq, case).kind = "a"
BY DEF ResultOf, Judged, Unconstrained

(* Aggregates that are no worse release no less. *)
LEMMA GateRises ==
  ASSUME NEW one, NEW other, NEW thresholds, one.count = 2, other.count = 2,
         \A field \in Field : /\ one[field] \in Int /\ other[field] \in Int
                              /\ one[field] <= other[field] /\ thresholds[field] \in Int
  PROVE  /\ Grade(Gate(one, thresholds)) <= Grade(Gate(other, thresholds))
         /\ Released({Gate(one, thresholds)}) => Released({Gate(other, thresholds)})
<1>1. /\ one.recall \in Int /\ other.recall \in Int /\ one.recall <= other.recall
      /\ one.mrr \in Int /\ other.mrr \in Int /\ one.mrr <= other.mrr
      /\ one.ndcg \in Int /\ other.ndcg \in Int /\ one.ndcg <= other.ndcg
      /\ thresholds.recall \in Int /\ thresholds.mrr \in Int /\ thresholds.ndcg \in Int
  BY DEF Field
<1>2. Grade("BLOCK") = 0 /\ Grade("WARN") = 1 /\ Grade("PASS") = 2
  BY DEF Grade
<1>3. CASE one.recall < thresholds.recall \/ one.mrr < thresholds.mrr
  <2>1. Gate(one, thresholds) = "BLOCK"
    BY <1>3 DEF Gate
  <2>2. Gate(other, thresholds) \in {"BLOCK", "WARN", "PASS"}
    BY DEF Gate
  <2>3. QED BY <1>2, <2>1, <2>2 DEF Released
<1>4. CASE ~(one.recall < thresholds.recall \/ one.mrr < thresholds.mrr)
  <2>1. ~(other.recall < thresholds.recall \/ other.mrr < thresholds.mrr)
    BY <1>1, <1>4
  <2>2. Gate(one, thresholds) = IF one.ndcg < thresholds.ndcg THEN "WARN" ELSE "PASS"
    BY <1>4 DEF Gate
  <2>3. Gate(other, thresholds) = IF other.ndcg < thresholds.ndcg THEN "WARN" ELSE "PASS"
    BY <2>1 DEF Gate
  <2>4. QED BY <1>1, <1>2, <2>2, <2>3 DEF Released
<1>5. QED BY <1>3, <1>4

(* A mean rises with what is averaged. *)
LEMMA MeanRises ==
  ASSUME NEW a \in Nat, NEW b \in Nat, NEW c \in Nat, a <= b
  PROVE  /\ (a + c) \div 2 \in Nat /\ (b + c) \div 2 \in Nat
         /\ (a + c) \div 2 <= (b + c) \div 2
<1> DEFINE n == a + c
           m == b + c
<1>1. n \in Nat /\ m \in Nat /\ n <= m /\ 2 \in Nat \ {0}
  OBVIOUS
<1> HIDE DEF n, m
<1>2. n \div 2 \in Nat /\ m \div 2 \in Nat /\ n \div 2 <= m \div 2
  BY <1>1, QuotientMonotone
<1>3. QED BY <1>2 DEF n, m

(* A search that ranks an annotated item higher scores no worse, and loses *)
(* no release.                                                             *)
LEMMA AnyHigherIsBetter ==
  ASSUME NEW case, IsRanking(case)
  PROVE  HigherIsBetter(case)
<1> DEFINE ranked == Dedup(case.retrieved)
           relevant == case.relevant
           k == case.k
           U == ToSet(case.retrieved)
           T == ToSet(case.relevant)
<1>1. /\ Once(ranked, U) /\ Len(ranked) <= Len(Discount)
      /\ Once(relevant, T) /\ Len(relevant) <= Len(Discount) /\ k \in Int
  BY RankingIs
<1>2. \A field \in Field : case.beside[field] \in Nat /\ case.thresholds[field] \in Int
  BY DEF IsRanking, Field
<1> HIDE DEF ranked, relevant, k, U, T
<1>3. ASSUME NEW i \in 1..(Len(ranked) - 1), Gain(ranked[i], relevant) < Gain(ranked[i + 1], relevant)
      PROVE  LET better == Exchanged(ranked, i) IN
             /\ NoWorse(Metrics(ranked, relevant, k), Metrics(better, relevant, k))
             /\ Grade(ReleaseOf(ranked, case)) <= Grade(ReleaseOf(better, case))
             /\ Released({ReleaseOf(ranked, case)}) => Released({ReleaseOf(better, case)})
  <2> DEFINE better == Exchanged(ranked, i)
             r == ResultOf(ranked, case)
             b == ResultOf(better, case)
             s == case.beside
             one == Evaluate(<<r, s>>)
             other == Evaluate(<<b, s>>)
  <2>1. /\ Once(better, U) /\ Len(better) <= Len(Discount)
        /\ RecallAtK(ranked, relevant, k) <= RecallAtK(better, relevant, k)
        /\ Mrr(ranked, relevant) <= Mrr(better, relevant)
        /\ NdcgAtK(ranked, relevant, k) <= NdcgAtK(better, relevant, k)
    BY <1>1, <1>3, MetricsExchanged
  <2> HIDE DEF better
  <2>2. NoWorse(Metrics(ranked, relevant, k), Metrics(better, relevant, k))
    BY <2>1 DEF NoWorse, Metrics
  <2>3. \A field \in Field : r[field] \in Nat /\ b[field] \in Nat /\ r[field] <= b[field]
    <3>1. /\ RecallAtK(ranked, relevant, k) \in 0..Full /\ Mrr(ranked, relevant) \in 0..Full
          /\ NdcgAtK(ranked, relevant, k) \in 0..Full
      BY <1>1, MetricsBounded
    <3>2. /\ RecallAtK(better, relevant, k) \in 0..Full /\ Mrr(better, relevant) \in 0..Full
          /\ NdcgAtK(better, relevant, k) \in 0..Full
      BY <1>1, <2>1, MetricsBounded
    <3>3. /\ r.recall = RecallAtK(ranked, relevant, k) /\ r.mrr = Mrr(ranked, relevant)
          /\ r.ndcg = NdcgAtK(ranked, relevant, k)
          /\ b.recall = RecallAtK(better, relevant, k) /\ b.mrr = Mrr(better, relevant)
          /\ b.ndcg = NdcgAtK(better, relevant, k)
      BY ResultIs DEF relevant, k
    <3> HIDE DEF r, b
    <3>4. \A x \in 0..Full : x \in Nat
      BY DEF Full
    <3>5. QED BY <2>1, <3>1, <3>2, <3>3, <3>4 DEF Field
  <2> HIDE DEF r, b, s
  <2>4. \A field \in Field : s[field] \in Nat
    BY <1>2 DEF s
  <2>5. /\ one.count = 2 /\ one.recall = (r.recall + s.recall) \div 2
        /\ one.mrr = (r.mrr + s.mrr) \div 2 /\ one.ndcg = (r.ndcg + s.ndcg) \div 2
    BY <2>3, <2>4, EvaluateTwo
  <2>6. /\ other.count = 2 /\ other.recall = (b.recall + s.recall) \div 2
        /\ other.mrr = (b.mrr + s.mrr) \div 2 /\ other.ndcg = (b.ndcg + s.ndcg) \div 2
    BY <2>3, <2>4, EvaluateTwo
  <2> HIDE DEF one, other
  <2>7. \A field \in Field : /\ one[field] \in Int /\ other[field] \in Int
                             /\ one[field] <= other[field] /\ case.thresholds[field] \in Int
    <3>1. ASSUME NEW field \in Field
          PROVE  one[field] \in Int /\ other[field] \in Int /\ one[field] <= other[field]
      <4> DEFINE x == r[field]
                 y == b[field]
                 z == s[field]
      <4>1. x \in Nat /\ y \in Nat /\ z \in Nat /\ x <= y
        BY <2>3, <2>4
      <4>2. one[field] = (x + z) \div 2 /\ other[field] = (y + z) \div 2
        BY <2>5, <2>6 DEF Field
      <4> HIDE DEF x, y, z
      <4>3. /\ (x + z) \div 2 \in Nat /\ (y + z) \div 2 \in Nat
            /\ (x + z) \div 2 <= (y + z) \div 2
        BY <4>1, MeanRises
      <4>4. QED BY <4>2, <4>3
    <3>2. QED BY <1>2, <3>1
  <2>8. ReleaseOf(ranked, case) = Gate(one, case.thresholds)
        /\ ReleaseOf(better, case) = Gate(other, case.thresholds)
    BY DEF ReleaseOf, Results, one, other, r, b, s
  <2>9. /\ Grade(Gate(one, case.thresholds)) <= Grade(Gate(other, case.thresholds))
        /\ Released({Gate(one, case.thresholds)}) => Released({Gate(other, case.thresholds)})
    BY <2>5, <2>6, <2>7, GateRises
  <2>10. QED BY <2>2, <2>8, <2>9 DEF better
<1>4. QED BY <1>3 DEF HigherIsBetter, ranked, relevant, k

-----------------------------------------------------------------------------
(* Two results whose kinds are one are evaluated together, and others each *)
(* for itself.                                                             *)
LEMMA KindsOfTwo ==
  ASSUME NEW r, NEW s
  PROVE  /\ DOMAIN ByKind(<<r, s>>) = {r.kind, s.kind}
         /\ r.kind = s.kind => ByKind(<<r, s>>)[r.kind] = Evaluate(<<r, s>>)
         /\ r.kind # s.kind => /\ ByKind(<<r, s>>)[r.kind] = Evaluate(<<r>>)
                               /\ ByKind(<<r, s>>)[s.kind] = Evaluate(<<s>>)
<1> DEFINE both == <<r, s>>
           P(kind) == {i \in DOMAIN both : both[i].kind = kind}
           kinds == {x.kind : x \in ToSet(both)}
<1>1. Len(both) = 2 /\ DOMAIN both = 1..2 /\ both[1] = r /\ both[2] = s
  OBVIOUS
<1>2. ByKind(both) = [kind \in kinds |-> Evaluate(KeepPlaces(both, P(kind)))]
  BY DEF ByKind
<1>3. ToSet(both) = {r, s}
  BY DEF ToSet
<1>4. kinds = {r.kind, s.kind}
  BY <1>3
<1> HIDE DEF both, kinds
<1>5. \A kind : P(kind) \in SUBSET (1..2)
  BY <1>1
<1>6. ASSUME r.kind = s.kind PROVE KeepPlaces(both, P(r.kind)) = both
  <2> DEFINE at == [n \in 1..2 |-> n]
  <2>1. P(r.kind) = 1..2
    BY <1>1, <1>6
  <2> HIDE DEF P
  <2>2. Climbs(at, 2, P(r.kind))
    BY <2>1 DEF Climbs
  <2>3. KeptBy(KeepPlaces(both, P(r.kind)), both, 2, at)
    <3> HIDE DEF at
    <3>1. 2 \in Nat
      OBVIOUS
    <3>2. QED BY <1>5, <2>2, <3>1, PlacesKept
  <2>4. KeepPlaces(both, P(r.kind)) = [n \in 1..2 |-> both[n]]
    BY <2>3 DEF KeptBy
  <2>5. both = [n \in 1..2 |-> both[n]]
    BY DEF both
  <2>6. QED BY <2>4, <2>5
<1>7. ASSUME NEW i \in 1..2, NEW kind, P(kind) = {i} PROVE KeepPlaces(both, P(kind)) = <<both[i]>>
  <2> DEFINE at == [n \in 1..1 |-> i]
  <2> HIDE DEF P
  <2>1. Climbs(at, 1, P(kind))
    BY <1>7 DEF Climbs
  <2>2. KeptBy(KeepPlaces(both, P(kind)), both, 1, at)
    <3> HIDE DEF at
    <3>1. 2 \in Nat
      OBVIOUS
    <3>2. QED BY <1>5, <2>1, <3>1, PlacesKept
  <2>3. KeepPlaces(both, P(kind)) = [n \in 1..1 |-> both[i]]
    BY <2>2 DEF KeptBy
  <2>4. <<both[i]>> = [n \in 1..1 |-> both[i]]
    OBVIOUS
  <2>5. QED BY <2>3, <2>4
<1>8. ASSUME r.kind # s.kind
      PROVE  /\ KeepPlaces(both, P(r.kind)) = <<r>> /\ KeepPlaces(both, P(s.kind)) = <<s>>
  <2>1. P(r.kind) = {1} /\ P(s.kind) = {2}
    BY <1>1, <1>8
  <2>2. 1 \in 1..2 /\ 2 \in 1..2
    OBVIOUS
  <2> HIDE DEF P
  <2>3. QED BY <1>1, <1>7, <2>1, <2>2
<1> HIDE DEF P
<1>9. DOMAIN ByKind(both) = {r.kind, s.kind}
  BY <1>2, <1>4
<1>10. \A kind \in kinds : ByKind(both)[kind] = Evaluate(KeepPlaces(both, P(kind)))
  BY <1>2
<1>11. QED BY <1>4, <1>6, <1>8, <1>9, <1>10 DEF both

(* The whole lies between its kinds. *)
LEMMA AnyBetweenItsKinds ==
  ASSUME NEW case, IsRanking(case)
  PROVE  BetweenItsKinds(case)
<1> DEFINE ranked == Dedup(case.retrieved)
           r == ResultOf(ranked, case)
           s == case.beside
           kinds == ByKind(<<r, s>>)
           whole == Evaluate(<<r, s>>)
<1>1. \A field \in Field : r[field] \in Nat
  <2>1. /\ RecallAtK(ranked, case.relevant, case.k) \in 0..Full
        /\ Mrr(ranked, case.relevant) \in 0..Full
        /\ NdcgAtK(ranked, case.relevant, case.k) \in 0..Full
    <3> HIDE DEF ranked
    <3>1. /\ Once(ranked, ToSet(case.retrieved)) /\ Len(ranked) <= Len(Discount)
          /\ Once(case.relevant, ToSet(case.relevant)) /\ Len(case.relevant) <= Len(Discount)
          /\ case.k \in Int
      BY RankingIs DEF ranked
    <3>2. QED BY <3>1, MetricsBounded
  <2>2. \A x \in 0..Full : x \in Nat
    BY DEF Full
  <2>3. /\ r.recall = RecallAtK(ranked, case.relevant, case.k)
        /\ r.mrr = Mrr(ranked, case.relevant)
        /\ r.ndcg = NdcgAtK(ranked, case.relevant, case.k)
    BY ResultIs
  <2> HIDE DEF r, ranked
  <2>4. QED BY <2>1, <2>2, <2>3 DEF Field
<1>2. \A field \in Field : s[field] \in Nat
  BY DEF IsRanking, Field
<1> HIDE DEF r, s
<1>3. r.recall \in Nat /\ s.recall \in Nat
  BY <1>1, <1>2 DEF Field
<1>4. whole.recall = (r.recall + s.recall) \div 2
  BY <1>1, <1>2, EvaluateTwo
<1>5. /\ DOMAIN kinds = {r.kind, s.kind}
      /\ r.kind = s.kind => kinds[r.kind] = whole
      /\ r.kind # s.kind => kinds[r.kind] = Evaluate(<<r>>) /\ kinds[s.kind] = Evaluate(<<s>>)
  BY KindsOfTwo
<1> HIDE DEF kinds, whole
<1>6. \E low, high \in DOMAIN kinds :
        kinds[low].recall <= whole.recall /\ whole.recall <= kinds[high].recall
  <2> DEFINE x == r.recall
             y == s.recall
             z == (x + y) \div 2
  <2>1. x \in Nat /\ y \in Nat
    BY <1>3
  <2> HIDE DEF x, y
  <2>2. z \in Nat /\ (x <= y => x <= z /\ z <= y) /\ (y <= x => y <= z /\ z <= x)
    BY <2>1
  <2>3. whole.recall = z
    BY <1>4 DEF x, y
  <2> HIDE DEF z
  <2>4. CASE r.kind = s.kind
    <3>1. whole.recall <= whole.recall
      BY <2>2, <2>3
    <3>2. QED BY <1>5, <2>4, <3>1
  <2>5. CASE r.kind # s.kind
    <3>1. kinds[r.kind].recall = x /\ kinds[s.kind].recall = y
      BY <1>3, <1>5, <2>5, EvaluateOne DEF x, y
    <3>2. CASE x <= y
      BY <1>5, <2>2, <2>3, <3>1, <3>2
    <3>3. CASE y <= x
      BY <1>5, <2>2, <2>3, <3>1, <3>3
    <3>4. QED BY <2>1, <3>2, <3>3
  <2>6. QED BY <2>4, <2>5
<1>7. QED BY <1>6 DEF BetweenItsKinds, Results, kinds, whole, r, s

(* All of it holds of every case. *)
LEMMA AnyRankingScored ==
  ASSUME NEW case, IsRanking(case)
  PROVE  RankingScored(case)
BY AnyRepeatsCountOnce, AnyBetweenItsKinds, AnyAtMostFull, AnyHigherIsBetter DEF RankingScored

-----------------------------------------------------------------------------
(* The specification *)

(* The case at hand is one of its topic.                                   *)
Asked ==
  /\ topic = "price" => input \in PriceCase \cup {NoCase}
  /\ topic = "search" => input \in SearchCase \cup {NoCase}
  /\ topic = "fusion" => input \in FusionCase \cup {NoCase}
  /\ topic = "selection" => input \in SelectionCase \cup {NoCase}
  /\ topic = "stores" => input \in StoreCase \cup {NoCase}
  /\ topic = "ranking" => input \in RankingCase \cup {NoCase}
  /\ topic = "judgement" => input \in JudgementCase \cup {NoCase}

(* The case at hand is always one of its topic. *)
LEMMA AskedOfTheTopic == Spec => []Asked
<1>1. Init => Asked
  BY DEF Init, Asked
<1>2. ASSUME Asked, [Next]_vars PROVE Asked'
  <2>1. CASE Price
    BY <2>1 DEF Price, Opened, Asked
  <2>2. CASE Find
    BY <2>2 DEF Find, Opened, Asked
  <2>3. CASE FuseTwo
    BY <2>3 DEF FuseTwo, Opened, Asked
  <2>4. CASE SelectSome
    BY <2>4 DEF SelectSome, Opened, Asked
  <2>5. CASE Store
    BY <2>5 DEF Store, Opened, Asked
  <2>6. CASE Rank
    BY <2>6 DEF Rank, Opened, Asked
  <2>7. CASE Judge
    BY <2>7 DEF Judge, Opened, Asked
  <2>8. CASE Listen \/ Say \/ Watch \/ Happen
    <3>1. topic \in {"preferences", "guards"} /\ UNCHANGED topic
      BY <2>8 DEF Listen, Say, Watch, Happen, Opened, Tried
    <3>2. QED BY <3>1 DEF Asked
  <2>9. CASE Again
    BY <1>2, <2>9 DEF Again, Asked
  <2>10. CASE UNCHANGED vars
    BY <1>2, <2>10 DEF vars, Asked
  <2>11. QED
    BY <1>2, <2>1, <2>2, <2>3, <2>4, <2>5, <2>6, <2>7, <2>8, <2>9, <2>10 DEF Next
<1>3. QED BY <1>1, <1>2, PTL DEF Spec

(* What the stores hold is what was said, from its first word on.          *)
Heard == Tried("preferences") => StoresInv(input)

(* Whatever is said, both stores have heard it. *)
LEMMA StoresHaveHeard == Spec => []Heard
<1>1. Init => Heard
  BY DEF Init, Heard, Tried
<1>2. ASSUME Heard, [Next]_vars PROVE Heard'
  <2>1. CASE Listen
    BY <2>1, NothingSaidYet DEF Listen, Heard
  <2>2. CASE Say
    <3>1. Tried("preferences") /\ StoresInv(input)
      BY <1>2, <2>2 DEF Say, Heard
    <3>2. PICK call \in PreferenceCall : input' = Call(input, Saying(call, Len(input.calls) + 1))
      BY <2>2 DEF Say
    <3> DEFINE said == Saying(call, Len(input.calls) + 1)
    <3>3. Len(input.calls) + 1 \in Nat
      <4>1. input.calls \in Seq(Sayings)
        BY <3>1 DEF StoresInv
      <4>2. QED BY <4>1
    <3>4. said \in Sayings
      BY <3>3 DEF Sayings
    <3> HIDE DEF said
    <3>5. StoresInv(Call(input, said))
      BY <3>1, <3>4, CallKeepsStores
    <3>6. QED BY <3>2, <3>5 DEF said, Heard
  <2>3. CASE Price \/ Find \/ FuseTwo \/ SelectSome \/ Store \/ Watch \/ Happen \/ Rank \/ Judge
    <3>1. topic # "preferences" /\ UNCHANGED topic
      BY <2>3 DEF Price, Find, FuseTwo, SelectSome, Store, Watch, Happen, Rank, Judge,
                  Opened, Tried
    <3>2. QED BY <3>1 DEF Heard, Tried
  <2>4. CASE Again
    BY <2>4 DEF Again, Heard, Tried
  <2>5. CASE UNCHANGED vars
    BY <1>2, <2>5 DEF vars, Heard, Tried
  <2>6. QED BY <1>2, <2>1, <2>2, <2>3, <2>4, <2>5 DEF Next
<1>3. QED BY <1>1, <1>2, PTL DEF Spec

(* The guards of the history at hand hold what was done in it.             *)
Seen == Tried("guards") => HistoryIs(input) /\ GuardsHold(input) /\ LastGuarded(input)

(* Whatever happens, the guards have seen it. *)
LEMMA GuardsHaveSeen == Spec => []Seen
<1>1. Init => Seen
  BY DEF Init, Seen, Tried
<1>2. ASSUME Seen, [Next]_vars PROVE Seen'
  <2>1. CASE Watch
    <3>1. PICK case \in GuardCase : input' = NothingDone(case.events, case.guarded)
      BY <2>1 DEF Watch
    <3>2. LET done == NothingDone(case.events, case.guarded)
          IN  HistoryIs(done) /\ GuardsHold(done) /\ LastGuarded(done)
      BY NothingSeen
    <3>3. QED BY <3>1, <3>2 DEF Seen
  <2>2. CASE Happen
    <3>1. HistoryIs(input) /\ GuardsHold(input)
      BY <1>2, <2>2 DEF Happen, Seen
    <3>2. PICK event \in input.events :
            /\ Lawful(Append(input.history, event), Len(input.history) + 1)
            /\ input' = Handle(input, event)
      BY <2>2 DEF Happen
    <3>3. QED BY <3>1, <3>2, HandleSeen DEF Seen
  <2>3. CASE Price \/ Find \/ FuseTwo \/ SelectSome \/ Store \/ Listen \/ Say \/ Rank \/ Judge
    <3>1. topic # "guards" /\ UNCHANGED topic
      BY <2>3 DEF Price, Find, FuseTwo, SelectSome, Store, Listen, Say, Rank, Judge,
                  Opened, Tried
    <3>2. QED BY <3>1 DEF Seen, Tried
  <2>4. CASE Again
    BY <2>4 DEF Again, Seen, Tried
  <2>5. CASE UNCHANGED vars
    BY <1>2, <2>5 DEF vars, Seen, Tried
  <2>6. QED BY <1>2, <2>1, <2>2, <2>3, <2>4, <2>5 DEF Next
<1>3. QED BY <1>1, <1>2, PTL DEF Spec

(* For every amount, quantity, category, destination and pair of currencies, *)
(* what a buyer is quoted is what rates, freight and tariff come to but for *)
(* the rounding of each part, and a dearer article is never landed cheaper *)
(* (TariffSchedule.quote).                                                 *)
THEOREM AnyPriceIsFaithful == Spec => []LandedFaithful
<1>1. Asked => LandedFaithful
  <2> SUFFICES ASSUME Asked, Tried("price") PROVE LandedFaithful
    BY DEF LandedFaithful
  <2>1. input \in Quotable
    BY PriceAssumption DEF Tried, Asked
  <2>2. /\ input.low \in Nat /\ input.high \in Nat /\ input.from \in Currency
        /\ input.country \in Destination /\ input.quantity \in Nat \ {0}
        /\ input.to \in Currency
    BY <2>1 DEF Quotable
  <2>3. CloseToExact(input.low, input.from, input.category, input.country, input.quantity,
                     input.to)
    BY <2>2, QuoteClose
  <2>4. Monotone(input.low, input.high, input.from, input.category, input.country,
                 input.quantity, input.to)
    BY <2>2, QuoteMonotone
  <2>5. QED BY <2>3, <2>4 DEF LandedFaithful
<1>2. QED BY <1>1, AskedOfTheTopic, PTL

(* For every catalogue, query, recall and reranker, also when one or more  *)
(* of them fail: every hit of an answer is on the shelf and within the     *)
(* constraints, once, and the best of those that are; none is held back    *)
(* but for the count; a candidate reported as rejected is rejected; and an *)
(* answer without hits says what was taken out of it, if anything was      *)
(* (CatalogSearchUseCase.execute).                                         *)
THEOREM AnyAnswerHonoursTheQuery == Spec => []HitsHonourTheRequest
<1>1. Asked => HitsHonourTheRequest
  <2> SUFFICES ASSUME Asked, Tried("search") PROVE Honours(input, Execute(input))
    BY DEF HitsHonourTheRequest
  <2>1. IsQuery(input)
    BY SearchCaseAssumption DEF Tried, Asked
  <2>2. QED BY <2>1, AnswersHonour
<1>2. QED BY <1>1, AskedOfTheTopic, PTL

(* For every two rankings without repetitions, of whatever lengths: a      *)
(* product that both place before another is before it in their fusion,    *)
(* and is not dropped for it (_rrf_fuse).                                  *)
THEOREM AnyFusionRespectsBoth == Spec => []FusionRespectsBoth
<1>1. Asked => FusionRespectsBoth
  <2> SUFFICES ASSUME Asked, Tried("fusion")
               PROVE  Respects(input.one, input.other, Fuse(input.one, input.other))
    BY DEF FusionRespectsBoth
  <2>1. /\ input.one \in Seq(Nat) /\ IsInjective(input.one)
        /\ input.other \in Seq(Nat) /\ IsInjective(input.other)
    BY FusionCaseAssumption DEF Tried, Asked
  <2>2. Once(input.one, Nat) /\ Once(input.other, Nat)
    BY <2>1 DEF Once, IsInjective
  <2>3. QED BY <2>2, FusionRespects
<1>2. QED BY <1>1, AskedOfTheTopic, PTL

(* Whatever a buyer prefers, however few preferences a turn has room for,  *)
(* and whether or not their relevance can be told: every dislike goes into *)
(* the turn, first and in order, and of the likes no more than k, in their *)
(* order, none of which is less relevant (or older, if relevance is not    *)
(* known) than one left out; a sub-agent that searches is told the same,   *)
(* and one whose buyer's preferences cannot be read still does its work    *)
(* (PreferenceSelector.select, task_dispatch).                             *)
THEOREM DislikesAlwaysKept == Spec => []DislikesKept
<1>1. Asked => DislikesKept
  <2> SUFFICES ASSUME Asked, Tried("selection")
               PROVE  /\ ChosenWell(input.prefs, input.relevance, input.k)
                      /\ ToldTheSame(input.prefs, input.relevance, input.k)
    BY DEF DislikesKept
  <2>1. IsSelection(input.prefs, input.relevance, input.k)
    BY SelectionCaseAssumption DEF Tried, Asked
  <2>2. QED BY <2>1, SelectionChosenWell, SelectionToldTheSame
<1>2. QED BY <1>1, AskedOfTheTopic, PTL

(* Whatever a buyer has remembered and forgotten, in whatever order and    *)
(* however often: a JSON file and a table have answered alike and hold the *)
(* same list, which is what was said and not forgotten since, each once    *)
(* and in the order it was first said (PreferenceStore).                   *)
THEOREM PreferencesAlwaysAgree == Spec => []PreferenceStoresAgree
<1>1. Heard => PreferenceStoresAgree
  BY DEF Heard, StoresInv, PreferenceStoresAgree
<1>2. QED BY <1>1, StoresHaveHeard, PTL

(* Whatever products a store holds and whichever call is made of it, with  *)
(* whatever arguments: memory and database refuse the same, return the     *)
(* same product, leave the same rows and find the same products            *)
(* afterwards, in the order asked for.  A call that restores stock or sets *)
(* a field is refused by each for something that is wrong with it, though  *)
(* not always for the same thing; any other for the same (ReasonsAgree;    *)
(* ProductRepository).                                                     *)
THEOREM AnyStoresAgree == Spec => []ProductStoresAgree
<1>1. Asked => ProductStoresAgree
  <2> SUFFICES ASSUME Asked, Tried("stores")
               PROVE  SameStep(input.store, input.call, input.ids)
    BY DEF ProductStoresAgree
  <2>1. IsStore(input.store) /\ IsCall(input.call)
    BY StoreAssumption DEF Tried, Asked
  <2>2. QED BY <2>1, StoresAlike
<1>2. QED BY <1>1, AskedOfTheTopic, PTL

(* For every history of turns of any number of sessions, overlapping or    *)
(* not, with restarts, and whichever tools are guarded: an order is        *)
(* refused to a session exactly if it was seen to act without a search     *)
(* since the process started; a turn that has its session to itself is     *)
(* found to loop and to drift exactly by its own calls, answers and        *)
(* request, though the reset of an earlier turn comes after its check;     *)
(* and one that overlaps another of its session by what they all did since *)
(* the last of them ended (HarnessToolMiddleware, DriftDetector,           *)
(* handle_intent).                                                         *)
THEOREM GuardsAlwaysSeeTheTurn == Spec => []GuardsSeeTheTurn
<1>1. Seen => GuardsSeeTheTurn
  BY DEF Seen, LastGuarded, GuardsSeeTheTurn
<1>2. QED BY <1>1, GuardsHaveSeen, PTL

(* For every ranking, annotation, count and threshold, and every answer of *)
(* a judge: what is retrieved twice counts once; an annotated product      *)
(* ranked higher scores no worse in any metric and never loses a release;  *)
(* nothing scores more than full, and the annotated ranking scores full;   *)
(* the whole lies between its kinds; a case passes only on an answer of    *)
(* the judge that came before any final error, and no criterion more that  *)
(* is met makes it fail; and a search in CNY is blamed for its constraints *)
(* only by a case that is itself at fault, or that annotates a product     *)
(* priced in another currency (metrics.py, eval_regression.py).            *)
THEOREM BetterAlwaysScoredBetter == Spec => []BetterIsScoredBetter
<1>1. Asked => BetterIsScoredBetter
  <2> SUFFICES ASSUME Asked PROVE BetterIsScoredBetter
    OBVIOUS
  <2>1. ASSUME Tried("search") PROVE BlameEarned(input)
    <3>1. IsQuery(input)
      BY <2>1, SearchCaseAssumption DEF Tried, Asked
    <3>2. Honours(input, Execute(input))
      BY <3>1, AnswersHonour
    <3>3. QED BY <3>1, <3>2, AnyBlameEarned
  <2>2. ASSUME Tried("ranking") PROVE RankingScored(input)
    <3>1. IsRanking(input)
      BY <2>2, RankingAssumption DEF Tried, Asked
    <3>2. QED BY <3>1, AnyRankingScored
  <2>3. ASSUME Tried("judgement") PROVE CaseJudged(input)
    <3>1. IsJudged(input)
      BY <2>3, JudgementAssumption DEF Tried, Asked
    <3>2. QED BY <3>1, AnyCaseJudged
  <2>4. QED BY <2>1, <2>2, <2>3 DEF BetterIsScoredBetter
<1>2. QED BY <1>1, AskedOfTheTopic, PTL

=============================================================================
