------------------------------- MODULE Rules --------------------------------
(***************************************************************************)
(* The rules of the system that are functions of what they are given:      *)
(* prices, search, preferences, the product repositories, the guards and   *)
(* the evaluation.  A behaviour takes up a topic and tries one case of it  *)
(* after another; each invariant says what the rules of a topic promise    *)
(* for every case.                                                         *)
(***************************************************************************)
EXTENDS Search, Preferences, ProductStores, Harness, Evaluation

CONSTANTS
  PriceCase,       \* two prices to quote, of Quotable
  SearchCase,      \* a query of Search
  Annotation,      \* lists of products annotated for a query
  FusionCase,      \* [one, other], two rankings
  SelectionCase,   \* [prefs, relevance, k]
  PreferenceCall,  \* [tool, kind, statement], a call of a preference tool
  StoreCase,       \* [store, call, ids]
  GuardCase,       \* [events, guarded]: what may happen, and the guarded tools
  RankingCase,     \* [retrieved, relevant, k, beside, thresholds]
  JudgementCase,   \* [health, allow, answers, retries, judged]
  NoCase,
  MaxCalls,        \* bound: calls of preference tools in a row
  MaxEvents        \* bound: events of sessions in a row

ASSUME PriceAssumption == PriceCase \subseteq Quotable
ASSUME SearchCaseAssumption == \A query \in SearchCase : IsQuery(query)
ASSUME FusionCaseAssumption ==
  \A case \in FusionCase : \A ranking \in {case.one, case.other} :
    ranking \in Seq(Nat) /\ IsInjective(ranking)
ASSUME SelectionCaseAssumption ==
  \A case \in SelectionCase : IsSelection(case.prefs, case.relevance, case.k)
ASSUME PreferenceAssumption == \A call \in PreferenceCall : call.tool \in {"remember", "forget"}
ASSUME StoreAssumption == \A case \in StoreCase : IsStore(case.store) /\ IsCall(case.call)
ASSUME GuardAssumption ==
  \A case \in GuardCase : \A event \in case.events :
    /\ event.kind \in {"begin", "call", "answer", "check", "end", "restart"}
    /\ event.session \in Session
ASSUME RankingAssumption == \A case \in RankingCase : IsRanking(case)
ASSUME JudgementAssumption == \A case \in JudgementCase : IsJudged(case)

VARIABLES topic, input
vars == <<topic, input>>

Topic == {"price", "search", "fusion", "selection", "preferences", "stores", "guards",
          "ranking", "judgement"}

Init == topic \in Topic /\ input = NoCase

(* The next case of a topic. *)
Opened(name) == topic = name /\ input = NoCase
Tried(name) == topic = name /\ input # NoCase

Price == Opened("price") /\ input' \in PriceCase /\ UNCHANGED topic
Find == Opened("search") /\ input' \in SearchCase /\ UNCHANGED topic
FuseTwo == Opened("fusion") /\ input' \in FusionCase /\ UNCHANGED topic
SelectSome == Opened("selection") /\ input' \in SelectionCase /\ UNCHANGED topic
Store == Opened("stores") /\ input' \in StoreCase /\ UNCHANGED topic
Rank == Opened("ranking") /\ input' \in RankingCase /\ UNCHANGED topic
Judge == Opened("judgement") /\ input' \in JudgementCase /\ UNCHANGED topic

(* A buyer says one thing after another.  What is said has a time.         *)
Listen == Opened("preferences") /\ input' = NothingSaid /\ UNCHANGED topic
Saying(call, time) ==
  [tool |-> call.tool, pref |-> [kind |-> call.kind, statement |-> call.statement, at |-> time]]
Say ==
  /\ Tried("preferences") /\ Len(input.calls) < MaxCalls
  /\ \E call \in PreferenceCall : input' = Call(input, Saying(call, Len(input.calls) + 1))
  /\ UNCHANGED topic

(* Sessions take turns, which may overlap, and the process starts again.   *)
Watch ==
  /\ Opened("guards") /\ UNCHANGED topic
  /\ \E case \in GuardCase : input' = NothingDone(case.events, case.guarded)
Happen ==
  /\ Tried("guards") /\ Len(input.history) < MaxEvents
  /\ \E event \in input.events :
       /\ Lawful(Append(input.history, event), Len(input.history) + 1)
       /\ input' = Handle(input, event)
  /\ UNCHANGED topic

Again == input # NoCase /\ input' = NoCase /\ UNCHANGED topic

Next == Price \/ Find \/ FuseTwo \/ SelectSome \/ Listen \/ Say \/ Store \/ Watch \/ Happen
        \/ Rank \/ Judge \/ Again
Spec == Init /\ [][Next]_vars

-----------------------------------------------------------------------------
(* What a buyer is quoted is what the rates, the freight and the tariff    *)
(* come to, but for the rounding of each part, and a dearer article is     *)
(* never landed cheaper, also across a tariff allowance (TariffSchedule).  *)
LandedFaithful ==
  Tried("price") =>
    /\ CloseToExact(input.low, input.from, input.category, input.country, input.quantity,
                    input.to)
    /\ Monotone(input.low, input.high, input.from, input.category, input.country,
                input.quantity, input.to)

(* What the buyer asked for. *)
Suits(p, query) ==
  LET product == query.catalog[p] IN
  /\ product.active
  /\ query.shipTo \in product.shipsTo \cup {"any"}
  /\ query.cap = NoCap \/ PriceIn(p, query) <= query.cap

Honours(query, result) ==
  LET ids == {result.hits[i].id : i \in DOMAIN result.hits}
      rejected == {result.filteredOut[i].id : i \in DOMAIN result.filteredOut}
      pool == ToSet(Recall(query))
  IN
  ~result.error =>
    /\ \A p \in ids : p \in DOMAIN query.catalog /\ Suits(p, query)
    /\ Cardinality(ids) = Len(result.hits)
    /\ Len(result.hits) < query.topK => ids = {p \in pool : Suits(p, query)}
    /\ result.rerankApplied =>
         \A p \in ids, q \in pool \ ids :
           Suits(q, query) => query.reranker[p] >= query.reranker[q]
    /\ \A p \in rejected : p \in pool /\ ~Suits(p, query)
    /\ ids = {} /\ pool # {} => rejected # {}
    /\ result.strategy = "bm25" => VectorRecall(query) = <<>>

(* Whichever recall failed, and however the answer was reranked: every hit *)
(* is on the shelf and within the constraints, once, and the best of those *)
(* that are; none is held back but for the count; a candidate reported as  *)
(* rejected is rejected; and an answer without hits says what was taken    *)
(* out of it, if anything was (CatalogSearchUseCase.execute).              *)
HitsHonourTheRequest == Tried("search") => Honours(input, Execute(input))

Place(p, ranking, missing) ==
  IF Contains(ranking, p) THEN CHOOSE i \in DOMAIN ranking : ranking[i] = p ELSE missing

Respects(one, other, fused) ==
  LET place(p, ranking) == Place(p, ranking, Len(one) + Len(other) + 1)
      ahead(p, q) == place(p, one) <= place(q, one) /\ place(p, other) <= place(q, other)
  IN
  \A q \in ToSet(fused), p \in ToSet(one) \cup ToSet(other) :
    p # q /\ ahead(p, q) => Contains(fused, p) /\ place(p, fused) < place(q, fused)

(* A product that both recalls place before another is before it in their  *)
(* fusion, and is not dropped for it (_rrf_fuse).                          *)
FusionRespectsBoth ==
  Tried("fusion") => Respects(input.one, input.other, Fuse(input.one, input.other))

-----------------------------------------------------------------------------
(* What a like is chosen for. *)
Worth(pref, relevance) ==
  IF relevance \in {Unranked, RankingFails} THEN pref.at ELSE relevance[pref.statement]

ChosenWell(prefs, relevance, k) ==
  LET chosen == Select(prefs, relevance, k)
      likes == Likes(chosen)
      left == ToSet(Likes(prefs)) \ ToSet(likes)
  IN
  /\ chosen = Dislikes(prefs) \o likes
  /\ Len(likes) <= k \/ likes = <<>>
  /\ Len(likes) < k => left = {}
  /\ likes = KeepPlaces(prefs, {i \in DOMAIN prefs : Contains(likes, prefs[i])})
  /\ \A p \in ToSet(likes), q \in left : Worth(p, relevance) >= Worth(q, relevance)

ToldTheSame(prefs, relevance, k) ==
  \A agent \in {"search_agent", "trade_agent", "other"}, known \in BOOLEAN :
    LET told(stored) == Dispatch(agent, known, stored, relevance, k) IN
    /\ agent = "search_agent" /\ known /\ Dislikes(prefs) # <<>> =>
         told(prefs) = <<Select(prefs, relevance, k), "demands">>
    /\ told(Unreadable) = <<"demands">> <=> agent # "other"

(* However few preferences a turn has room for, and whether or not their   *)
(* relevance can be told: every dislike goes into it, first and in order,  *)
(* and of the likes no more than k, none of which is less relevant (or     *)
(* older, if relevance is not known) than one left out.  A sub-agent that  *)
(* searches is told the same, and one whose buyer's preferences cannot be  *)
(* read still does its work (PreferenceSelector.select, task_dispatch).    *)
DislikesKept ==
  Tried("selection") => /\ ChosenWell(input.prefs, input.relevance, input.k)
                        /\ ToldTheSame(input.prefs, input.relevance, input.k)

(* Whatever a buyer has remembered and forgotten, a JSON file and a table  *)
(* answer alike and hold the same list, which is what was said and not     *)
(* forgotten since, each once and in the order it was first said           *)
(* (PreferenceStore).                                                      *)
PreferenceStoresAgree ==
  Tried("preferences") =>
    /\ input.json = SqlList(input.sql)
    /\ input.json = Remembered(input.calls)
    /\ input.answer.json = input.answer.sql

(* A call does to the objects in memory what it does to the rows of the    *)
(* database: the same is refused, the same product is returned and found   *)
(* afterwards, and every change is a new version of the sku in both.  The  *)
(* reason given is the same, but for a call that restores stock or sets a  *)
(* field: a product that is missing is named as such by the memory only,   *)
(* by the database as a missing sku, and if two things are wrong the       *)
(* memory names what is missing and the database the negative number       *)
(* (ProductRepository).                                                    *)
ProductStoresAgree == Tried("stores") => SameStep(input.store, input.call, input.ids)

(* An order is refused only to a session that was seen to act without a    *)
(* search since the process started, whatever other sessions and earlier   *)
(* turns did.  A turn that has its session to itself is found to loop by   *)
(* its own calls and to drift by its own answers and its own request,      *)
(* though what earlier turns left was reset only after they were checked.  *)
(* Turns of a session that overlap are not told apart: such a turn is held *)
(* to what all of them did since the last of them ended, and to the first  *)
(* request of that time (HarnessToolMiddleware, DriftDetector,             *)
(* handle_intent).                                                         *)
GuardsSeeTheTurn ==
  Tried("guards") /\ input.history # <<>> =>
    LET i == Len(input.history)  kind == input.history[i].kind IN
    /\ kind = "call" => CallGuarded(input.history, input.said, i, input.guarded)
    /\ kind = "check" => TurnJudged(input.history, input.said, i)

-----------------------------------------------------------------------------
Grade(verdict) == CASE verdict = "BLOCK" -> 0 [] verdict = "WARN" -> 1 [] verdict = "PASS" -> 2

(* The result of a query that retrieves seq, and what a release is told of *)
(* it beside another.                                                      *)
Unconstrained(case) == [shipTo |-> "any", cap |-> NoCap, relevant |-> case.relevant, kind |-> "a"]
ResultOf(seq, case) == Judged(Unconstrained(case), [hits |-> seq, filteredOut |-> <<>>], <<>>, case.k)
Results(seq, case) == <<ResultOf(seq, case), case.beside>>
ReleaseOf(seq, case) == Gate(Evaluate(Results(seq, case)), case.thresholds)

(* The chunks of documents, of which the first has no source. *)
Chunks(documents) ==
  [i \in DOMAIN documents |->
    [document |-> documents[i], source |-> IF i = 1 THEN "none" ELSE documents[i]]]

RepeatsCountOnce(case) ==
  LET ranked == Dedup(case.retrieved) IN
  /\ Metrics(case.retrieved, case.relevant, case.k) = Metrics(ranked, case.relevant, case.k)
  /\ JudgedDocuments(Unconstrained(case), Chunks(case.retrieved), case.k) = ResultOf(ranked, case)

BetweenItsKinds(case) ==
  LET results == Results(Dedup(case.retrieved), case)
      kinds == ByKind(results)
  IN
  \E low, high \in DOMAIN kinds :
    kinds[low].recall <= Evaluate(results).recall /\ Evaluate(results).recall <= kinds[high].recall

AtMostFull(case) ==
  LET ranked == Dedup(case.retrieved) IN
  /\ NoWorse(Metrics(ranked, case.relevant, case.k), <<Full, Full, Full>>)
  /\ TopK(ranked, case.k) = Top(case.k, case.relevant) /\ case.relevant # <<>> /\ case.k > 0
     => NdcgAtK(ranked, case.relevant, case.k) = Full

HigherIsBetter(case) ==
  LET ranked == Dedup(case.retrieved) IN
  \A i \in 1..(Len(ranked) - 1) :
    Gain(ranked[i], case.relevant) < Gain(ranked[i + 1], case.relevant) =>
      LET better == Exchanged(ranked, i) IN
      /\ NoWorse(Metrics(ranked, case.relevant, case.k), Metrics(better, case.relevant, case.k))
      /\ Grade(ReleaseOf(ranked, case)) <= Grade(ReleaseOf(better, case))
      /\ Released({ReleaseOf(ranked, case)}) => Released({ReleaseOf(better, case)})

(* A search that ranks an annotated product higher scores no worse in any  *)
(* metric and never loses a release; what is retrieved twice counts once,  *)
(* also as chunks of a document; the whole lies between its kinds; nothing *)
(* scores more than full, and the annotated ranking scores full            *)
(* (metrics.py).                                                           *)
RankingScored(case) ==
  RepeatsCountOnce(case) /\ BetweenItsKinds(case) /\ AtMostFull(case) /\ HigherIsBetter(case)

(* A case passes only if no cache answers for the agent, unless that is    *)
(* allowed, on an answer of the judge that came before any final error,    *)
(* with every criterion of the first level; and a criterion more that is   *)
(* met never makes it fail (eval_regression.py).                           *)
Outcome(case, judged) ==
  IF MayRun(case.health, case.allow)
    THEN Verdict(CallJudge(case.answers, case.retries), judged) ELSE "refused"

CaseJudged(case) ==
  Outcome(case, case.judged) = "PASS" =>
    /\ case.health = "cached" => case.allow
    /\ \E n \in 1..case.retries : /\ case.answers[n] = "answer"
                                  /\ \A i \in 1..(n - 1) : case.answers[i] = "transient"
    /\ \A i \in DOMAIN case.judged.p0 : case.judged.p0[i]
    /\ \A level \in {"p1", "p2"} : \A i \in DOMAIN case.judged[level] :
         Outcome(case, [case.judged EXCEPT ![level][i] = TRUE]) = "PASS"

(* A search in CNY is blamed for its constraints only by a case that the   *)
(* dataset check would not have let through, or that annotates a product   *)
(* priced in another currency (check_filter, validate_products).           *)
OnShelf(query) ==
  Restrict(query.catalog, {p \in DOMAIN query.catalog : query.catalog[p].active})
CaseOf(query, relevant) ==
  [shipTo |-> query.shipTo, cap |-> query.cap, relevant |-> relevant, kind |-> "a"]
IdsOf(products) == [i \in DOMAIN products |-> products[i].id]
FilterOf(query, relevant) ==
  LET result == Execute(query) IN
  Judged(CaseOf(query, relevant),
         [hits |-> IdsOf(result.hits), filteredOut |-> IdsOf(result.filteredOut)],
         OnShelf(query), query.topK).filter

BlameEarned(query) ==
  query.currency = "CNY" /\ ~Execute(query).error =>
    \A relevant \in Annotation :
      FilterOf(query, relevant) = "wrong" =>
        \/ ~Valid(CaseOf(query, relevant), OnShelf(query))
        \/ \E p \in ToSet(relevant) : OnShelf(query)[p].currency # "CNY"

(* What is better is scored no worse, by the recall metrics and by the     *)
(* judged regression, and nothing is blamed for a fault of the dataset.    *)
BetterIsScoredBetter ==
  /\ Tried("search") => BlameEarned(input)
  /\ Tried("ranking") => RankingScored(input)
  /\ Tried("judgement") => CaseJudged(input)

=============================================================================
