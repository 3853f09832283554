----------------------------- MODULE Evaluation -----------------------------
(***************************************************************************)
(* The two evaluations a release goes through: the recall metrics and      *)
(* their gate (scripts/eval/metrics.py, run_product_recall.py), and the    *)
(* regression that lets a model judge conversations (eval_regression.py).  *)
(*                                                                         *)
(* Scores are integers of 0..Full: fractions are exact for up to seven     *)
(* items.                                                                  *)
(***************************************************************************)
EXTENDS Search, FiniteSets

CONSTANT Discount   \* 1 / log2(i + 1) of each place i, in thousandths, for so many places

ASSUME DiscountAssumption ==
  /\ Discount \in Seq(Nat \ {0})
  /\ \A i, j \in DOMAIN Discount : i <= j => Discount[i] >= Discount[j]

Full == 5040

(* The sum of a sequence of numbers. *)
Total(numbers) ==
  LET sum[n \in 0..Len(numbers)] == IF n = 0 THEN 0 ELSE sum[n - 1] + numbers[n]
  IN sum[Len(numbers)]

(* _dedup_keep_order *)
Dedup(seq) ==
  KeepPlaces(seq, {i \in DOMAIN seq : \A j \in 1..(i - 1) : seq[j] # seq[i]})

TopK(retrieved, k) == Top(k, Dedup(retrieved))

RecallAtK(retrieved, relevant, k) ==
  IF k <= 0 \/ relevant = <<>> THEN 0
  ELSE (Full * Cardinality(ToSet(TopK(retrieved, k)) \cap ToSet(relevant)))
         \div Cardinality(ToSet(relevant))

(* mrr looks at everything retrieved. *)
Mrr(retrieved, relevant) ==
  LET ranked == Dedup(retrieved)
      hits == {i \in DOMAIN ranked : Contains(relevant, ranked[i])}
  IN IF hits = {} THEN 0 ELSE Full \div (CHOOSE i \in hits : \A j \in hits : i <= j)

(* Mutant: the last annotated item gains most. *)
GainReversed(item, relevant) ==
  LET places == {i \in DOMAIN relevant : relevant[i] = item} IN
  IF places = {} THEN 0 ELSE CHOOSE i \in places : TRUE

(* The first annotated item gains most. *)
Gain(item, relevant) ==
  LET places == {i \in DOMAIN relevant : relevant[i] = item} IN
  IF places = {} THEN 0 ELSE Len(relevant) + 1 - (CHOOSE i \in places : TRUE)

Dcg(ranked, relevant) ==
  Total([i \in DOMAIN ranked |-> Gain(ranked[i], relevant) * Discount[i]])

NdcgAtK(retrieved, relevant, k) ==
  IF k <= 0 \/ relevant = <<>> THEN 0
  ELSE (Full * Dcg(TopK(retrieved, k), relevant)) \div Dcg(Top(k, relevant), relevant)

-----------------------------------------------------------------------------
(* check_filter: "unchecked" without a constraint.  A product the          *)
(* repository does not list as active is not looked at.                    *)
CheckFilter(case, hits, filteredOut, listed) ==
  IF case.shipTo = "any" /\ case.cap = NoCap THEN "unchecked"
  ELSE IF \/ /\ case.shipTo # "any"
             /\ \E p \in ToSet(hits) \cap DOMAIN listed : case.shipTo \notin listed[p].shipsTo
          \/ ToSet(case.relevant) \cap ToSet(filteredOut) # {}
    THEN "wrong" ELSE "right"

(* run_dataset: one query. *)
Judged(case, answer, listed, k) ==
  [recall |-> RecallAtK(answer.hits, case.relevant, k),
   mrr |-> Mrr(answer.hits, case.relevant),
   ndcg |-> NdcgAtK(answer.hits, case.relevant, k),
   filter |-> CheckFilter(case, answer.hits, answer.filteredOut, listed),
   kind |-> case.kind]

(* A question to the knowledge base, whose hits are chunks of documents.   *)
SourceOf(chunk) == IF chunk.source # "none" THEN chunk.source ELSE chunk.document

JudgedDocuments(case, chunks, k) ==
  LET retrieved == Dedup([i \in DOMAIN chunks |-> SourceOf(chunks[i])]) IN
  [recall |-> RecallAtK(retrieved, case.relevant, k), mrr |-> Mrr(retrieved, case.relevant),
   ndcg |-> NdcgAtK(retrieved, case.relevant, k), filter |-> "unchecked", kind |-> case.kind]

(* validate_products: what the products on the shelf say against a case.   *)
(* A cap is compared with prices in CNY only.                              *)
Contradicts(p, case, listed) ==
  \/ p \notin DOMAIN listed
  \/ case.cap # NoCap /\ listed[p].currency = "CNY" /\ listed[p].price > case.cap
  \/ case.shipTo # "any" /\ case.shipTo \notin listed[p].shipsTo

Valid(case, listed) ==
  /\ case.relevant # <<>> /\ Cardinality(ToSet(case.relevant)) = Len(case.relevant)
  /\ \A p \in ToSet(case.relevant) : ~Contradicts(p, case, listed)

(* evaluate: every query weighs the same. *)
Evaluate(results) ==
  LET count == Len(results)
      checked == {i \in DOMAIN results : results[i].filter # "unchecked"}
      right == {i \in checked : results[i].filter = "right"}
      mean(field) ==
        IF count = 0 THEN 0 ELSE Total([i \in DOMAIN results |-> results[i][field]]) \div count
  IN
  [count |-> count, recall |-> mean("recall"), mrr |-> mean("mrr"), ndcg |-> mean("ndcg"),
   filterAccuracy |-> IF checked = {} THEN Full
                      ELSE (Full * Cardinality(right)) \div Cardinality(checked)]

(* by_kind *)
ByKind(results) ==
  [kind \in {r.kind : r \in ToSet(results)} |->
    Evaluate(KeepPlaces(results, {i \in DOMAIN results : results[i].kind = kind}))]

(* gate: how far constraints were kept is reported, but stops nothing. *)
Gate(aggregate, thresholds) ==
  IF \/ aggregate.count = 0
     \/ aggregate.recall < thresholds.recall \/ aggregate.mrr < thresholds.mrr THEN "BLOCK"
  ELSE IF aggregate.ndcg < thresholds.ndcg THEN "WARN" ELSE "PASS"

(* main: the exit code. *)
Released(verdicts) == "BLOCK" \notin verdicts

-----------------------------------------------------------------------------
(* score_case, in thousandths; a level without criteria counts as passed,  *)
(* so that a judge who answers {} passes the case.                         *)
Ratio(level) ==
  IF level = <<>> THEN Full
  ELSE (Full * Cardinality({i \in DOMAIN level : level[i]})) \div Len(level)

ScoreCase(judged) ==
  [score |-> (50 * Ratio(judged.p0) + 35 * Ratio(judged.p1) + 15 * Ratio(judged.p2) + 252)
               \div 504,
   p0 |-> Ratio(judged.p0) = Full]

(* call_judge: the first answer, unless an error is final or the last. *)
CallJudge(answers, retries) ==
  LET stops == {i \in 1..retries : answers[i] # "transient"} IN
  IF stops = {} THEN "error" ELSE answers[CHOOSE i \in stops : \A j \in stops : i <= j]

(* run_case: the verdict of the judge. *)
RunCase(judged) ==
  IF ScoreCase(judged).p0 /\ ScoreCase(judged).score >= 700 THEN "PASS" ELSE "FAIL"

(* main: an exception is the verdict of the case. *)
Verdict(judge, judged) == IF judge # "answer" THEN "ERROR" ELSE RunCase(judged)

(* _guard_semantic_cache: without a health report it runs. *)
MayRun(health, allow) == health # "cached" \/ allow

-----------------------------------------------------------------------------
(* What is evaluated: items retrieved, items annotated, each once, and no  *)
(* more of either than there are discounts, beside the result of another   *)
(* query; and a case with criteria of three levels, each met or not.       *)
IsRanking(case) ==
  /\ case.retrieved \in Seq(ToSet(case.retrieved)) /\ Len(case.retrieved) <= Len(Discount)
  /\ case.relevant \in Seq(ToSet(case.relevant)) /\ Len(case.relevant) <= Len(Discount)
  /\ IsInjective(case.relevant) /\ case.k \in Int
  /\ \A field \in {"recall", "mrr", "ndcg"} :
       case.beside[field] \in Nat /\ case.thresholds[field] \in Int

IsJudged(case) ==
  /\ case.retries \in Nat
  /\ case.judged \in [p0 : Seq(BOOLEAN), p1 : Seq(BOOLEAN), p2 : Seq(BOOLEAN)]

(* The ranking with the items at places i and i + 1 exchanged. *)
Exchanged(seq, i) == [seq EXCEPT ![i] = seq[i + 1], ![i + 1] = seq[i]]

Metrics(retrieved, relevant, k) ==
  <<RecallAtK(retrieved, relevant, k), Mrr(retrieved, relevant),
    NdcgAtK(retrieved, relevant, k)>>

NoWorse(one, other) == \A m \in DOMAIN one : one[m] <= other[m]

=============================================================================
