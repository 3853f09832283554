---------------------------- MODULE MCOrderFlow ----------------------------
(* Small instances of OrderFlow for TLC. *)
EXTENDS OrderAccounts, TLC

CONSTANTS c1, c2, s1, s2, s3, p1, p2

Clients == {c1, c2}
Skus == {s1, s2}
Products == {p1, p2}
ProductMap == (s1 :> p1) @@ (s2 :> p2)
CurrencyMap == (s1 :> "CNY") @@ (s2 :> "CNY")
StockMap == (s1 :> 3) @@ (s2 :> 2)
PriceMap == (s1 :> 2) @@ (s2 :> 1)

(* A third SKU, of the second product, priced in another currency. *)
MoreSkus == {s1, s2, s3}
MoreProducts == ProductMap @@ (s3 :> p2)
MoreCurrencies == CurrencyMap @@ (s3 :> "USD")
MoreStock == StockMap @@ (s3 :> 2)
MorePrices == PriceMap @@ (s3 :> 1)

(* The two clients are interchangeable in every safety run. *)
ClientSymmetry == Permutations(Clients)

=============================================================================
