------------------------------ MODULE Pricing ------------------------------
(***************************************************************************)
(* What a buyer pays for a product delivered abroad: Money in minor units, *)
(* the exchange rates (ExchangeRateTable) and the rules for freight and    *)
(* tariff (TariffSchedule).                                                *)
(*                                                                         *)
(* Rates are thousandths, so every amount is exact until it is rounded.    *)
(* The code computes with floats, which may round an exact half the other  *)
(* way.                                                                    *)
(***************************************************************************)
EXTENDS Integers

RateToCny == [CNY |-> 1000, USD |-> 7100, EUR |-> 7800, GBP |-> 9100, JPY |-> 48,
              HKD |-> 910, AUD |-> 4700, CAD |-> 5200, SGD |-> 5300]
Currency == DOMAIN RateToCny

(* Categories without a rate of their own have the country's general one. *)
TariffRate == [
  CN |-> [digital |-> 130, other |-> 90],
  US |-> [digital |-> 0, travel |-> 75, outdoor |-> 75, home |-> 50, other |-> 60],
  EU |-> [other |-> 120],
  JP |-> [other |-> 80],
  SG |-> [other |-> 70]]
Destination == DOMAIN TariffRate

DeMinimis == [CN |-> 500000, US |-> 568000, EU |-> 117000, JP |-> 50000, SG |-> 212000]
BaseFreight == [CN |-> 2500, US |-> 6500, EU |-> 7500, JP |-> 4500, SG |-> 4000]

(* Python's round: to the nearest, a half to the even neighbour. *)
Rounded(n, d) ==
  LET q == n \div d  r == 2 * (n % d) IN
  IF r > d \/ (r = d /\ q % 2 = 1) THEN q + 1 ELSE q

(* An amount in the currency it already has is not rounded. *)
Convert(amount, from, to) ==
  IF from = to THEN amount ELSE Rounded(amount * RateToCny[from], RateToCny[to])

RateOf(country, category) ==
  IF category \in DOMAIN TariffRate[country] THEN TariffRate[country][category]
                                             ELSE TariffRate[country].other

(* Mutant: above the allowance everything is taxed. *)
TaxableWhole(amount, from, country) ==
  IF Convert(amount, from, "CNY") > DeMinimis[country] THEN Convert(amount, from, "CNY") ELSE 0

(* What the tariff is levied on, in CNY. *)
Taxable(amount, from, country) ==
  LET above == Convert(amount, from, "CNY") - DeMinimis[country] IN
  IF above > 0 THEN above ELSE 0

(* TariffSchedule.quote; an article more adds 60% of the freight. *)
Quote(amount, from, category, country, quantity, to) ==
  LET freight == Rounded(BaseFreight[country] * (10 + 6 * (quantity - 1)), 10)
      taxable == Taxable(amount, from, country)
  IN
  [subtotal |-> Convert(amount, from, to),
   freight |-> Convert(freight, "CNY", to),
   tariff |-> Convert(Rounded(taxable * RateOf(country, category), 1000), "CNY", to),
   deMinimisApplied |-> taxable = 0]

(* What may be quoted, at two prices: Money is not negative, an article is   *)
(* ordered at least once.                                                  *)
Quotable ==
  [low : Nat, high : Nat, from : Currency, category : STRING, country : Destination,
   quantity : Nat \ {0}, to : Currency]

LandedTotal(quote) == quote.subtotal + quote.freight + quote.tariff

-----------------------------------------------------------------------------
(* The landed total without any rounding, in thousandths of CNY fen (but   *)
(* for less than one fen, as the tariff is taken of whole fen).            *)
ExactTotal(amount, from, category, country, quantity) ==
  LET worth == amount * RateToCny[from]
      above == worth - 1000 * DeMinimis[country]
  IN
  worth + 100 * BaseFreight[country] * (10 + 6 * (quantity - 1))
    + (IF above > 0 THEN (above \div 1000) * RateOf(country, category) ELSE 0)

(* The roundings of a quote add up to no more than one and a half minor    *)
(* units of its currency and a fen.                                        *)
CloseToExact(amount, from, category, country, quantity, to) ==
  LET total == LandedTotal(Quote(amount, from, category, country, quantity, to))
      off == total * RateToCny[to] - ExactTotal(amount, from, category, country, quantity)
  IN
  -(3 * RateToCny[to] + 2000) <= 2 * off /\ 2 * off <= 3 * RateToCny[to] + 2000

(* A dearer article is not landed cheaper, on either side of an allowance. *)
Monotone(lower, higher, from, category, country, quantity, to) ==
  lower <= higher =>
    /\ LandedTotal(Quote(lower, from, category, country, quantity, to))
         <= LandedTotal(Quote(higher, from, category, country, quantity, to))
    /\ Quote(higher, from, category, country, quantity, to).deMinimisApplied
         => Quote(lower, from, category, country, quantity, to).tariff = 0

=============================================================================
