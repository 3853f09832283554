------------------------------ MODULE MCRules ------------------------------
(* The cases of Rules for TLC. *)
EXTENDS Rules

UpTo(set, n) == UNION {[1..m -> set] : m \in 0..n}
Distinct(seqs) == {s \in seqs : \A i, j \in DOMAIN s : s[i] = s[j] => i = j}

-----------------------------------------------------------------------------
(* Amounts on both sides of the tariff allowances. *)
Amount == {0, 1, 99, 6410, 15000, 80000, 80001, 117150}
MCPriceCase ==
  [low : Amount, high : Amount, from : {"CNY", "USD", "EUR", "JPY"},
   category : {"outdoor", "digital", "food"}, country : Destination, quantity : 1..2,
   to : {"CNY", "USD", "JPY"}]

Good == [active |-> TRUE, shipsTo |-> {"US", "SG"}, price |-> 1000, currency |-> "USD",
         category |-> "outdoor"]
Kinds == {"missing", "good", "off", "dear", "domestic"}
Offer(kind, p) ==
  CASE kind = "good" -> Good
    [] kind = "off" -> [Good EXCEPT !.active = FALSE]
    [] kind = "dear" -> IF p = 1 THEN [Good EXCEPT !.price = 9000]
                        ELSE [Good EXCEPT !.price = 63900, !.currency = "CNY"]
    [] kind = "domestic" -> [Good EXCEPT !.shipsTo = {"CN"}]
Catalogs == {[p \in {q \in 1..4 : kinds[q] # "missing"} |-> Offer(kinds[p], p)] :
               kinds \in [1..4 -> Kinds]}
Buyers == {[shipTo |-> "any", cap |-> NoCap, currency |-> "CNY", topK |-> 3],
           [shipTo |-> "US", cap |-> 10000, currency |-> "CNY", topK |-> 3],
           [shipTo |-> "US", cap |-> 1500, currency |-> "USD", topK |-> 1],
           [shipTo |-> "US", cap |-> NoCap, currency |-> "XXX", topK |-> 2],
           [shipTo |-> "BR", cap |-> NoCap, currency |-> "CNY", topK |-> 0]}
MCSearchCase ==
  {[catalog |-> c, vector |-> v, words |-> w, reranker |-> r, hybrid |-> h,
    shipTo |-> b.shipTo, cap |-> b.cap, currency |-> b.currency, topK |-> b.topK] :
     c \in Catalogs, v \in {Failing, <<2, 4, 1, 3>>, <<3, 1>>},
     w \in {<<1, 0, 2, 1>>, <<0, 2, 0, 2>>}, r \in {NoReranker, Failing, <<1, 3, 2, 3>>},
     h \in BOOLEAN, b \in Buyers}

Rankings == Distinct(UpTo(1..4, 3))
MCFusionCase == [one : Rankings, other : Rankings]

-----------------------------------------------------------------------------
(* Preferences said one after another; at is when. *)
MCSelectionCase ==
  {[prefs |-> [i \in DOMAIN s |-> [kind |-> s[i][1], statement |-> i, at |-> s[i][2]]],
    relevance |-> r, k |-> k] :
     s \in UpTo(Kind \X (1..2), 4), r \in {Unranked, RankingFails} \cup [1..4 -> 0..1], k \in -1..3}

MCPreferenceCall ==
  [tool : {"remember"}, kind : Kind, statement : {"plastic", "wood"}]
  \cup [tool : {"forget"}, kind : {"like"}, statement : {"plastic", "wood"}]
(* One product of two skus, one of one. *)
SkuOf(id, stock, version) == [id |-> id, price |-> 5, stock |-> stock, version |-> version]
Product(skus, active) == [active |-> active, source |-> "demo_seed", skus |-> skus]
Two(id1, id2) == {Product(<<SkuOf(id1, n, v), SkuOf(id2, m, 1)>>, a) :
                    n \in 0..2, m \in 0..1, v \in 1..2, a \in BOOLEAN}
Stores == {<<>>} \cup {1 :> p : p \in Two(11, 12)}
          \cup {1 :> p @@ 2 :> Product(<<SkuOf(21, 1, 1)>>, TRUE) : p \in Two(11, 12)}
StoreCalls ==
  [op : {"reserve"}, product : 1..2, sku : {11, 12, 21}, quantity : 0..2,
   version : {NoVersion, 1, 2}]
  \cup [op : {"restore"}, product : 1..2, sku : {11, 12, 21}, quantity : -1..1]
  \cup [op : {"price", "stock"}, product : 1..2, sku : {11, 12, 21}, value : -1..2]
  \cup [op : {"status"}, product : 1..2, value : BOOLEAN]
  \cup [op : {"seed", "replace"}, value : {1 :> Product(<<SkuOf(11, 2, 1)>>, TRUE)}]
MCStoreCase == [store : Stores, call : StoreCalls, ids : {<<2, 3, 1>>}]

-----------------------------------------------------------------------------
(* Two turns of a session, which may overlap, and one of another: calls    *)
(* with a restart between them, and answers that drift or not.             *)
Event(kind, turn) == [kind |-> kind, session |-> turn[1], turn |-> turn[2], about |-> {}]
CallOf(turn, tool) == Event("call", turn) @@ [tool |-> tool]
AnswerOf(turn, answer, about) ==
  [Event("answer", turn) EXCEPT !.about = about] @@ [tool |-> "search", answer |-> answer]
BeginOf(turn, about) == [Event("begin", turn) EXCEPT !.about = about]
First == <<"a", 1>>
Second == <<"a", 2>>
Other == <<"b", 1>>
Acts == {BeginOf(turn, {1}) : turn \in {First, Second, Other}}
        \cup {CallOf(First, tool) : tool \in {"search", "order", "dispatch"}}
        \cup {CallOf(Second, "dispatch"), CallOf(Other, "search")}
        \cup {Event("end", turn) : turn \in {First, Second}} \cup {Event("restart", First)}
Drifts == {BeginOf(First, 1..5), BeginOf(Second, 6..10)}
          \cup {AnswerOf(turn, "empty", {}) : turn \in {First, Second}}
          \cup {AnswerOf(First, "good", {1}), AnswerOf(Second, "good", {6})}
          \cup {Event(kind, turn) : kind \in {"check", "end"}, turn \in {First, Second}}
MCGuardCase ==
  [events : {Acts}, guarded : {MainAgentGuards, Checked \cup {"dispatch"}}]
  \cup [events : {Drifts}, guarded : {MainAgentGuards}]

-----------------------------------------------------------------------------
MCAnnotation == {<<1>>, <<2, 3>>, <<4, 1, 2>>}
MCDiscount == <<1000, 631, 500, 431, 387, 356>>
Scored(recall, mrr, ndcg) ==
  [recall |-> recall, mrr |-> mrr, ndcg |-> ndcg, filter |-> "unchecked", kind |-> "b"]
MCRankingCase ==
  [retrieved : UpTo({"a", "b", "c", "x"}, 4), relevant : Distinct(UpTo({"a", "b", "c"}, 3)),
   k : {0, 2, 3}, beside : {Scored(Full, Full, Full), Scored(0, Full, 2520)},
   thresholds : {[recall |-> 3780, mrr |-> 3276, ndcg |-> 3528]}]

MCJudgementCase ==
  [health : {"cached", "uncached", "unknown"}, allow : BOOLEAN,
   answers : [1..3 -> {"answer", "transient", "final"}], retries : {3},
   judged : [p0 : UpTo(BOOLEAN, 2), p1 : UpTo(BOOLEAN, 3), p2 : UpTo(BOOLEAN, 1)]]

=============================================================================
