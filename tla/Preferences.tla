---------------------------- MODULE Preferences ----------------------------
(***************************************************************************)
(* A buyer's long-term preferences: the two stores that keep them, as a    *)
(* JSON file and as rows of a table, the tools that change them, and the   *)
(* selection of those that go into a turn (PreferenceSelector).            *)
(*                                                                         *)
(* A preference is [kind, statement, at], at being created_at.             *)
(***************************************************************************)
EXTENDS Integers, Listing, SequencesExt

CONSTANTS
  Unranked,       \* the selector has no embedding, or is told not to use it
  RankingFails,   \* the embedding fails
  Unreadable      \* the store does not answer

Kind == {"like", "dislike"}
Twins(pref, other) == pref.kind = other.kind /\ pref.statement = other.statement

-----------------------------------------------------------------------------
(* JsonFilePreferenceStore: a sequence, rewritten as a whole. *)

(* Mutant: a statement is kept once, of whichever kind. *)
JsonAppendStatement(file, pref) ==
  IF \E i \in DOMAIN file : file[i].statement = pref.statement
    THEN file ELSE Append(file, pref)

JsonAppend(file, pref) ==
  IF \E i \in DOMAIN file : Twins(file[i], pref)
    THEN file ELSE Append(file, pref)

JsonDelete(file, statement) ==
  LET remaining == KeepPlaces(file, {i \in DOMAIN file : file[i].statement # statement}) IN
  [deleted |-> Len(remaining) < Len(file), file |-> remaining]

(* SqlPreferenceStore: rows [id, pref], one for each kind and statement;   *)
(* an insert that meets its twin is rolled back, but has used its id.      *)
SqlAppend(table, pref) ==
  IF \E row \in table.rows : Twins(row.pref, pref)
    THEN [table EXCEPT !.nextId = @ + 1]
    ELSE [rows |-> table.rows \cup {[id |-> table.nextId, pref |-> pref]},
          nextId |-> table.nextId + 1]

SqlDelete(table, statement) ==
  LET hit == {row \in table.rows : row.pref.statement = statement} IN
  [deleted |-> hit # {}, table |-> [table EXCEPT !.rows = @ \ hit]]

SqlList(table) ==
  LET ids == {row.id : row \in table.rows}
      stored == [id \in ids |-> (CHOOSE row \in table.rows : row.id = id).pref]
  IN KeepPlaces(stored, ids)

(* remember_preference_tool and forget_preference_tool, over both stores.  *)
(* A statement that is not there is answered with the list there is.       *)
NothingSaid ==
  [calls |-> <<>>, json |-> <<>>, sql |-> [rows |-> {}, nextId |-> 1],
   answer |-> [json |-> "none", sql |-> "none"]]

Remember(said, call) ==
  [calls |-> Append(said.calls, call),
   json |-> JsonAppend(said.json, call.pref), sql |-> SqlAppend(said.sql, call.pref),
   answer |-> [json |-> "saved", sql |-> "saved"]]

Forget(said, call) ==
  LET json == JsonDelete(said.json, call.pref.statement)
      sql == SqlDelete(said.sql, call.pref.statement)
  IN
  [calls |-> Append(said.calls, call), json |-> json.file, sql |-> sql.table,
   answer |-> [json |-> IF json.deleted THEN "deleted" ELSE json.file,
               sql |-> IF sql.deleted THEN "deleted" ELSE SqlList(sql.table)]]

Call(said, call) ==
  IF call.tool = "remember" THEN Remember(said, call) ELSE Forget(said, call)

(* What a buyer who said all this wants remembered: what was remembered    *)
(* and not forgotten since, in the order it was first said.                *)
Lasting(calls, i, n) ==
  \A j \in (i + 1)..n :
    ~(calls[j].tool = "forget" /\ calls[j].pref.statement = calls[i].pref.statement)

Wanted(calls) ==
  {i \in DOMAIN calls :
    /\ calls[i].tool = "remember" /\ Lasting(calls, i, Len(calls))
    /\ \A j \in 1..(i - 1) :
         calls[j].tool = "remember" /\ Twins(calls[j].pref, calls[i].pref)
         => ~Lasting(calls, j, i - 1)}

Remembered(calls) == KeepPlaces([i \in DOMAIN calls |-> calls[i].pref], Wanted(calls))

-----------------------------------------------------------------------------
(* PreferenceSelector *)

Likes(prefs) == KeepPlaces(prefs, {i \in DOMAIN prefs : prefs[i].kind # "dislike"})
Dislikes(prefs) == KeepPlaces(prefs, {i \in DOMAIN prefs : prefs[i].kind = "dislike"})

(* The k best places by their scores, earlier places first among equals.   *)
BestPlaces(scores, k) ==
  LET order == Ranked(DOMAIN scores, LAMBDA i, j : scores[i] > scores[j])
  IN {order[n] : n \in 1..k}

(* _latest_first *)
LatestFirst(likes, k) ==
  KeepPlaces(likes, BestPlaces([i \in DOMAIN likes |-> likes[i].at], k))

(* _rank_by_relevance; relevance maps statements to similarities.          *)
RankByRelevance(likes, relevance, k) ==
  IF relevance = RankingFails THEN LatestFirst(likes, k)
  ELSE KeepPlaces(likes,
         BestPlaces([i \in DOMAIN likes |-> relevance[likes[i].statement]], k))

(* Mutant: the best of all preferences, also of the dislikes. *)
SelectBest(prefs, relevance, k) ==
  IF k <= 0 THEN Dislikes(prefs)
  ELSE IF Len(prefs) <= k THEN Dislikes(prefs) \o Likes(prefs)
  ELSE IF relevance = Unranked THEN LatestFirst(prefs, k)
  ELSE RankByRelevance(prefs, relevance, k)

(* select *)
Select(prefs, relevance, k) ==
  LET likes == Likes(prefs) IN
  IF k <= 0 THEN Dislikes(prefs)
  ELSE Dislikes(prefs) \o
    (IF Len(likes) <= k THEN likes
     ELSE IF relevance = Unranked THEN LatestFirst(likes, k)
     ELSE RankByRelevance(likes, relevance, k))

(* What is selected from: the preferences of a buyer as a store lists      *)
(* them, each once, and how relevant each is, if that can be told.         *)
IsSelection(prefs, relevance, k) ==
  /\ prefs # Unreadable /\ prefs \in Seq(ToSet(prefs)) /\ k \in Int
  /\ \A i, j \in DOMAIN prefs :
       prefs[i].kind = prefs[j].kind /\ prefs[i].statement = prefs[j].statement => i = j
  /\ \A i \in DOMAIN prefs :
       /\ prefs[i].kind \in Kind /\ prefs[i].at \in Int
       /\ relevance \in {Unranked, RankingFails} \/ relevance[prefs[i].statement] \in Int

-----------------------------------------------------------------------------
(* _preference_hint of task_dispatch: stored are the preferences of the    *)
(* buyer, or Unreadable; a turn without a buyer has none.  A hint with     *)
(* nothing in it is no hint.                                               *)
Hint(agent, known, stored, relevance, k) ==
  IF agent # "search_agent" \/ ~known \/ stored = Unreadable THEN <<>>
  ELSE Select(stored, relevance, k)

(* task_dispatch: what the new agent is told, the hint before the demands. *)
Dispatch(agent, known, stored, relevance, k) ==
  IF agent \notin {"search_agent", "trade_agent"} THEN <<"unknown agent">>
  ELSE LET hint == Hint(agent, known, stored, relevance, k) IN
       (IF hint = <<>> THEN <<>> ELSE <<hint>>) \o <<"demands">>

=============================================================================
