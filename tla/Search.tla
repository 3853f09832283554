------------------------------- MODULE Search -------------------------------
(***************************************************************************)
(* Catalogue search (CatalogSearchUseCase.execute): recall by vectors and  *)
(* by words, fusion of the two rankings, the hard constraints, reranking,  *)
(* and what is said of candidates the constraints took out.                *)
(*                                                                         *)
(* A product is named by its id, a number.  A query is a record:           *)
(*   catalog  what the repository holds: [active, shipsTo, price, currency,*)
(*            category] of each product; the vector index may know others  *)
(*   vector   the ids the index ranks, or Failing                         *)
(*   words    the score of each product for the words of the query         *)
(*   reranker NoReranker, Failing, or the score it gives each product      *)
(*   hybrid, shipTo ("any" if not given), cap (NoCap if not given),        *)
(*   currency, topK                                                        *)
(***************************************************************************)
EXTENDS Pricing, Listing, SequencesExt

CONSTANTS
  RecallTopN,        \* candidates each recall gives
  FilteredOutLimit,  \* rejected candidates that are reported
  RrfK,              \* the smoothing constant of the fusion
  NoCap,             \* no price cap
  NoReranker,        \* reranking is not configured
  Failing            \* the index, or the reranker, fails

ASSUME SearchAssumption ==
  RecallTopN \in Nat \ {0} /\ FilteredOutLimit \in Nat \ {0} /\ RrfK \in Nat \ {0}

Top(n, ranking) == SubSeq(ranking, 1, IF Len(ranking) < n THEN Len(ranking) ELSE n)

(* _vector_recall: the order of the index, without what the repository     *)
(* does not hold any more; off-shelf products are among them.              *)
VectorRecall(query) ==
  IF query.vector = Failing THEN <<>>
  ELSE LET nearest == Top(RecallTopN, query.vector) IN
       KeepPlaces(nearest, {i \in DOMAIN nearest : nearest[i] \in DOMAIN query.catalog})

(* _bm25_recall looks at active products only. *)
WordRecall(query) ==
  LET listed == {p \in DOMAIN query.catalog : query.catalog[p].active /\ query.words[p] > 0}
  IN Top(RecallTopN, Ranked(listed, LAMBDA p, q : query.words[p] > query.words[q]))

(* Scores of the fusion are fractions <<numerator, denominator>>. *)
Above(x, y) == x[1] * y[2] > y[1] * x[2]
Plus(x, y) == <<x[1] * y[2] + y[1] * x[2], x[2] * y[2]>>

(* Mutant: the last of a ranking has most weight. *)
WeightByRank(rank) == <<RrfK + rank, 1>>

Weight(rank) == <<1, RrfK + rank>>

RankScore(p, ranking) ==
  LET places == {i \in DOMAIN ranking : ranking[i] = p} IN
  IF places = {} THEN <<0, 1>> ELSE Weight(CHOOSE i \in places : TRUE)

RrfScore(p, one, other) == Plus(RankScore(p, one), RankScore(p, other))

(* _rrf_fuse *)
Fuse(one, other) ==
  Top(RecallTopN, Ranked(ToSet(one) \cup ToSet(other),
    LAMBDA p, q : Above(RrfScore(p, one, other), RrfScore(q, one, other))))

(* The hybrid search fuses; the other takes words only for want of vectors. *)
Recall(query) ==
  LET vector == VectorRecall(query) IN
  IF vector = <<>> THEN WordRecall(query)
  ELSE IF query.hybrid THEN Fuse(vector, WordRecall(query)) ELSE vector

PriceIn(p, query) == Convert(query.catalog[p].price, query.catalog[p].currency, query.currency)

(* Mutant: whether a product is on the shelf is left to the recall. *)
RejectReasonOfOffer(p, query) ==
  IF query.shipTo # "any" /\ query.shipTo \notin query.catalog[p].shipsTo
    THEN "ship_to_unavailable"
  ELSE IF query.cap # NoCap /\ PriceIn(p, query) > query.cap THEN "over_price_cap"
  ELSE "none"

(* _reject_reason *)
RejectReason(p, query) ==
  IF ~query.catalog[p].active THEN "off_shelf"
  ELSE IF query.shipTo # "any" /\ query.shipTo \notin query.catalog[p].shipsTo
    THEN "ship_to_unavailable"
  ELSE IF query.cap # NoCap /\ PriceIn(p, query) > query.cap THEN "over_price_cap"
  ELSE "none"

Eligible(recalled, query) ==
  KeepPlaces(recalled, {i \in DOMAIN recalled : RejectReason(recalled[i], query) = "none"})

FilteredOut(recalled, query) ==
  Top(FilteredOutLimit,
      KeepPlaces(recalled, {i \in DOMAIN recalled : RejectReason(recalled[i], query) # "none"}))

(* _rerank: a stable sort; a failure keeps the order. *)
RerankApplied(eligible, query) == eligible # <<>> /\ query.reranker \notin {NoReranker, Failing}

Reranked(eligible, query) ==
  LET order == Ranked(DOMAIN eligible,
        LAMBDA i, j : query.reranker[eligible[i]] > query.reranker[eligible[j]])
  IN IF RerankApplied(eligible, query) THEN [i \in DOMAIN eligible |-> eligible[order[i]]]
     ELSE eligible

(* recall_strategy.  What was reranked is called an embedding recall, also *)
(* when words alone were matched.                                          *)
Strategy(reranked, query) ==
  LET recalled == IF VectorRecall(query) = <<>> THEN "bm25"
                  ELSE IF query.hybrid THEN "hybrid_rrf" ELSE "embedding_only"
  IN
  IF ~reranked THEN recalled
  ELSE IF recalled = "hybrid_rrf" THEN "hybrid_rrf_rerank" ELSE "embedding_rerank"

(* _to_card: without tariff rules or a rate it is said there is no price. *)
Landed(p, query) ==
  LET product == query.catalog[p] IN
  IF query.shipTo = "any" THEN "none"
  ELSE IF query.shipTo \notin Destination \/ query.currency \notin Currency THEN "unavailable"
  ELSE Quote(product.price, product.currency, product.category, query.shipTo, 1, query.currency)

(* ProductSearchSpec refuses a count that is not positive.  A currency     *)
(* without a rate fails the search that compares or reports a price.       *)
Refused(recalled, query) ==
  \/ query.topK <= 0
  \/ /\ query.currency \notin Currency
     /\ \E p \in ToSet(recalled) :
          \/ query.cap # NoCap \/ ~query.catalog[p].active
          \/ query.shipTo # "any" /\ query.shipTo \notin query.catalog[p].shipsTo

(* The answer to a query, from the products recalled, those of them within *)
(* the constraints, in the order of the answer, and those reported as not. *)
Result(recalled, eligible, rejected, query) ==
  LET hits == Top(query.topK, eligible)
      reranked == RerankApplied(eligible, query)
  IN
  IF Refused(recalled, query) THEN [error |-> TRUE]
  ELSE [error |-> FALSE,
        hits |-> [i \in DOMAIN hits |-> [id |-> hits[i], landed |-> Landed(hits[i], query)]],
        totalCandidates |-> Len(eligible),
        strategy |-> Strategy(reranked, query),
        rerankApplied |-> reranked,
        filteredOut |-> [i \in DOMAIN rejected |->
          [id |-> rejected[i], reason |-> RejectReason(rejected[i], query)]]]

Execute(query) ==
  LET recalled == Recall(query) IN
  Result(recalled, Reranked(Eligible(recalled, query), query), FilteredOut(recalled, query),
         query)

-----------------------------------------------------------------------------
(* What the search is given: products on offer at a known rate, an index   *)
(* that has each product once, and scores that can be compared.            *)
IsQuery(query) ==
  LET ids == DOMAIN query.catalog IN
  /\ ids \subseteq Nat /\ IsFiniteSet(ids)
  /\ \A p \in ids : /\ query.catalog[p].price \in Nat /\ query.catalog[p].currency \in Currency
                   /\ query.words[p] \in Int
  /\ query.vector = Failing \/ (query.vector \in Seq(Nat) /\ IsInjective(query.vector))
  /\ query.reranker \in {NoReranker, Failing} \/ \A p \in ids : query.reranker[p] \in Int
  /\ query.cap = NoCap \/ query.cap \in Int
  /\ query.topK \in Int

=============================================================================
