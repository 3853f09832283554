---------------------------- MODULE Conversation ----------------------------
(***************************************************************************)
(* Turns of shopping sessions in the worker processes (handle_intent): the *)
(* agent of a session in SessionRegistry and its snapshot in the session   *)
(* store, the buyer's preferences and the hint that brings them into the   *)
(* agent's memory, the semantic cache of answers, the event trace of a     *)
(* turn and the conversation record.                                       *)
(*                                                                         *)
(* Every awaited call is a step.  An agent has the name of the turn that   *)
(* built it, an answer that of the turn that gave it.                      *)
(***************************************************************************)
EXTENDS Integers, FiniteSets, SequencesExt

CONSTANTS
  Turn,
  Buyer,
  SessionOf, QueryOf,  \* of each turn
  Cacheable,    \* the queries that ask for stable advice
  Worker,
  Pref,         \* preferences a buyer may have
  BucketLimit,  \* entries a bucket of the cache keeps
  Faults,       \* subset of {"turn", "store", "crash"}
  MaxEvents,    \* bound: faults, preferences remembered or forgotten, and
                \* turns that overlap another of their session
  MaxOverlaps,  \* bound: turns that begin while another is under way
  None

ASSUME ConversationAssumption ==
  /\ BucketLimit \in Nat \ {0}
  /\ Faults \subseteq {"turn", "store", "crash"}
  /\ MaxEvents \in Nat /\ MaxOverlaps \in Nat
  /\ IsFiniteSet(Turn)
  /\ None \notin Turn \cup Worker /\ "error" \notin Turn
  /\ None \notin [memory : SUBSET Turn, told : SUBSET Pref]

Session == {SessionOf[t] : t \in Turn}
Key == Buyer \X SUBSET Pref
NoAgent == [memory |-> {}, told |-> {}]

VARIABLES
  buyer,     \* buyer[s]: whose session it is
  (* the stores *)
  prefs,     \* prefs[b]: the buyer's preferences
  bucket,    \* bucket[k]: answers cached for a buyer and a preference scope
  stored,    \* stored[s]: the snapshot of the session's agent, or None
  log,       \* log[s]: the rows of the session's record, read by turn_index
  recorded,  \* recorded[t]: how often the outcome of t is in the event record
  (* the worker processes *)
  registry,  \* registry[w][s]: the agent of the session, or None
  injected,  \* injected[w][s]: the preferences last put into the inputs
  agents,    \* agents[a]: the turns an agent remembers, the preferences it was told
  (* the turns *)
  pc, worker, agent,
  history,   \* history[t]: the agent had a context when the turn began
  scope,     \* scope[t]: the preference scope last read
  copy,      \* copy[t]: the bucket t has loaded
  said,      \* said[t]: the answer t returned, or "error"
  trace,     \* trace[t]: outcomes the event trace of t has seen
  index,     \* index[t]: the turn_index about to be written
  (* bounds and history *)
  events, overlaps,
  basis,     \* basis[t]: the preferences the answer of t was made with, or,
             \* for a cached answer, those it was found under
  crossed,   \* turns that overlapped another turn of their session
  shaken     \* turns with a failed read, or a preference changed by another turn

BuyerOf(t) == buyer[SessionOf[t]]

stores == <<buyer, prefs, bucket, stored, log, recorded>>
process == <<registry, injected, agents>>
local == <<worker, agent, history, scope, copy, said, trace, index, basis>>
overlap == <<overlaps, crossed>>
vars == <<stores, process, pc, local, events, overlap, shaken>>

Init ==
  /\ buyer \in [Session -> Buyer]
  /\ \E known \in SUBSET Pref : prefs = [b \in Buyer |-> known]
  /\ bucket = [k \in Key |-> <<>>]
  /\ stored = [s \in Session |-> None]
  /\ log = [s \in Session |-> {}]
  /\ recorded = [t \in Turn |-> 0]
  /\ registry = [w \in Worker |-> [s \in Session |-> None]]
  /\ injected = [w \in Worker |-> [s \in Session |-> {}]]
  /\ agents = [a \in Turn |-> NoAgent]
  /\ pc = [t \in Turn |-> "idle"]
  /\ worker = [t \in Turn |-> None]
  /\ agent = [t \in Turn |-> None]
  /\ history = [t \in Turn |-> FALSE]
  /\ scope = [t \in Turn |-> {}]
  /\ copy = [t \in Turn |-> <<>>]
  /\ said = [t \in Turn |-> None]
  /\ trace = [t \in Turn |-> {}]
  /\ index = [t \in Turn |-> 0]
  /\ events = 0 /\ overlaps = 0
  /\ basis = [t \in Turn |-> {}]
  /\ crossed = {} /\ shaken = {}

Goto(t, phase) == pc' = [pc EXCEPT ![t] = phase]
Open == {t \in Turn : pc[t] \notin {"idle", "over", "dead"}}
Recording == {"touch", "questionSave", "reply", "replySave", "events"}
Traced == {t \in Open : pc[t] \notin Recording}

Event == events < MaxEvents /\ events' = events + 1
Fault(kind) == kind \in Faults /\ Event

-----------------------------------------------------------------------------
(* SessionRegistry.get_or_create *)

(* The turn has its agent.  Only a first question for stable advice may be *)
(* answered from the cache.                                                *)
Bind(t, a, snapshot) ==
  /\ agent' = [agent EXCEPT ![t] = a]
  /\ history' = [history EXCEPT ![t] = snapshot.memory # {}]
  /\ Goto(t, IF snapshot.memory = {} /\ QueryOf[t] \in Cacheable THEN "scope" ELSE "inputs")

Begin(t, w) ==
  LET a == registry[w][SessionOf[t]]
      others == {u \in Open : SessionOf[u] = SessionOf[t]}
  IN
  /\ pc[t] = "idle"
  /\ overlaps' = IF Open = {} THEN overlaps ELSE overlaps + 1
  /\ overlaps' <= MaxOverlaps
  /\ worker' = [worker EXCEPT ![t] = w]
  /\ IF others = {} THEN UNCHANGED <<crossed, events>>
                    ELSE Event /\ crossed' = crossed \cup others \cup {t}
  /\ IF a # None THEN Bind(t, a, agents[a])
                 ELSE Goto(t, "restore") /\ UNCHANGED <<agent, history>>
  /\ UNCHANGED <<stores, process, scope, copy, said, trace, index, basis, shaken>>

Built(t, snapshot) ==
  /\ agents' = [agents EXCEPT ![t] = snapshot]
  /\ registry' = [registry EXCEPT ![worker[t]][SessionOf[t]] = t]
  /\ Bind(t, t, snapshot)
  /\ UNCHANGED <<stores, injected, worker, scope, copy, said, trace, index, basis, overlap>>

(* Mutant: every agent starts afresh. *)
RestoreNothing(t) ==
  /\ pc[t] = "restore"
  /\ Built(t, NoAgent)
  /\ UNCHANGED <<events, shaken>>

(* Mutant: the new agent is used but not put into the registry. *)
RestoreUnregistered(t) ==
  /\ pc[t] = "restore"
  /\ agents' = [agents EXCEPT ![t] = NoAgent]
  /\ Bind(t, t, NoAgent)
  /\ UNCHANGED <<stores, registry, injected, worker, scope, copy, said, trace, index, basis,
                 events, overlap, shaken>>

(* The snapshot is loaded; the agent built from it replaces one that       *)
(* another turn has put into the registry meanwhile.                       *)
Restore(t) ==
  /\ pc[t] = "restore"
  /\ Built(t, IF stored[SessionOf[t]] = None THEN NoAgent ELSE stored[SessionOf[t]])
  /\ UNCHANGED <<events, shaken>>

-----------------------------------------------------------------------------
(* _lookup_cache *)

(* _preference_scope: all preferences of the buyer, not the selected ones. *)
ReadScope(t) ==
  /\ pc[t] \in {"scope", "remember"}
  /\ scope' = [scope EXCEPT ![t] = prefs[BuyerOf(t)]]
  /\ Goto(t, IF pc[t] = "scope" THEN "lookup" ELSE "load")
  /\ UNCHANGED <<stores, process, worker, agent, history, copy, said, trace, index, basis,
                 events, overlap, shaken>>

(* Mutant: the bucket does not depend on the preferences. *)
BucketOfBuyer(t) == <<BuyerOf(t), {}>>

BucketKey(t) == <<BuyerOf(t), scope[t]>>

(* The places of the bucket that hold an answer to the question. *)
Hits(t) ==
  {i \in DOMAIN bucket[BucketKey(t)] : QueryOf[bucket[BucketKey(t)][i]] = QueryOf[t]}

(* Mutant: events go to every subscriber of the process. *)
PublishToAll(t, answer) ==
  /\ said' = [said EXCEPT ![t] = answer]
  /\ trace' = [u \in Turn |->
       IF u \in Traced /\ worker[u] = worker[t] THEN trace[u] \cup {t} ELSE trace[u]]

(* final.result or error reaches the traces of the session in this process. *)
Publish(t, answer) ==
  /\ said' = [said EXCEPT ![t] = answer]
  /\ trace' = [u \in Turn |->
       IF u \in Traced /\ worker[u] = worker[t] /\ SessionOf[u] = SessionOf[t]
         THEN trace[u] \cup {t} ELSE trace[u]]

(* SemanticCache.lookup: the first of the best matches. *)
Lookup(t) ==
  /\ pc[t] = "lookup"
  /\ IF Hits(t) # {}
       THEN /\ Publish(t, bucket[BucketKey(t)][Min(Hits(t))])
            /\ basis' = [basis EXCEPT ![t] = scope[t]]
            /\ Goto(t, "persist")
       ELSE Goto(t, "inputs") /\ UNCHANGED <<said, trace, basis>>
  /\ scope' = [scope EXCEPT ![t] = {}]
  /\ UNCHANGED <<stores, process, worker, agent, history, copy, index, events,
                 overlap, shaken>>

-----------------------------------------------------------------------------
(* _build_inputs and the agent's reply *)

(* The agent takes the question into its memory, and the hint if the       *)
(* preferences are others than the last ones the session was given.        *)
Ask(t, known) ==
  LET w == worker[t]  s == SessionOf[t]
      hint == known # {} /\ injected[w][s] # known
  IN
  /\ injected' = IF hint THEN [injected EXCEPT ![w][s] = known] ELSE injected
  /\ agents' = [agents EXCEPT ![agent[t]] =
       [memory |-> @.memory \cup {t}, told |-> IF hint THEN known ELSE @.told]]
  /\ Goto(t, "turn")
  /\ UNCHANGED <<stores, registry, local, overlap>>

BuildInputs(t) ==
  /\ pc[t] = "inputs"
  /\ Ask(t, prefs[BuyerOf(t)])
  /\ UNCHANGED <<events, shaken>>

(* remember_preference_tool, forget_preference_tool: the agent knows what  *)
(* it changed.  Turns of the buyer that are between the hint and the cache *)
(* are answered with other preferences than they are cached with.          *)
Prefer(t, p) ==
  LET b == BuyerOf(t)
      known == IF p \in prefs[b] THEN prefs[b] \ {p} ELSE prefs[b] \cup {p}
  IN
  /\ pc[t] = "turn"
  /\ Event
  /\ prefs' = [prefs EXCEPT ![b] = known]
  /\ agents' = [agents EXCEPT ![agent[t]].told = known]
  /\ shaken' = shaken \cup
       {u \in Open \ {t} : BuyerOf(u) = b /\ pc[u] \in {"turn", "remember"}}
  /\ UNCHANGED <<buyer, bucket, stored, log, recorded, registry, injected, pc, local, overlap>>

Answer(t) ==
  /\ pc[t] = "turn"
  /\ Publish(t, t)
  /\ basis' = [basis EXCEPT ![t] = agents[agent[t]].told]
  /\ Goto(t, IF history[t] \/ QueryOf[t] \notin Cacheable THEN "persist" ELSE "remember")
  /\ UNCHANGED <<stores, process, worker, agent, history, scope, copy, index, events,
                 overlap, shaken>>

(* The turn fails, also after its retries, which put nothing more into the *)
(* agent's memory.                                                         *)
Fail(t) ==
  /\ pc[t] = "turn"
  /\ Fault("turn")
  /\ Publish(t, "error")
  /\ Goto(t, "persist")
  /\ UNCHANGED <<stores, process, worker, agent, history, scope, copy, index, basis, overlap,
                 shaken>>

-----------------------------------------------------------------------------
(* _remember_cache *)

Load(t) ==
  /\ pc[t] = "load"
  /\ copy' = [copy EXCEPT ![t] = bucket[BucketKey(t)]]
  /\ Goto(t, "fill")
  /\ UNCHANGED <<stores, process, worker, agent, history, scope, said, trace, index, basis,
                 events, overlap, shaken>>

LastOf(n, seq) == SubSeq(seq, IF Len(seq) > n THEN Len(seq) - n + 1 ELSE 1, Len(seq))

Fill(t) ==
  /\ pc[t] = "fill"
  /\ bucket' = [bucket EXCEPT ![BucketKey(t)] = LastOf(BucketLimit, Append(copy[t], t))]
  /\ copy' = [copy EXCEPT ![t] = <<>>]
  /\ scope' = [scope EXCEPT ![t] = {}]
  /\ Goto(t, "persist")
  /\ UNCHANGED <<buyer, prefs, stored, log, recorded, process, worker, agent, history, said,
                 trace, index, basis, events, overlap, shaken>>

-----------------------------------------------------------------------------
(* The end of the turn: SessionRegistry.persist, _record_conversation *)

(* The snapshot is that of the registry's agent, which may be another one  *)
(* than the turn used.                                                     *)
Persist(t) ==
  /\ pc[t] = "persist"
  /\ stored' = [stored EXCEPT ![SessionOf[t]] = agents[registry[worker[t]][SessionOf[t]]]]
  /\ agent' = [agent EXCEPT ![t] = None]
  /\ Goto(t, "touch")
  /\ UNCHANGED <<buyer, prefs, bucket, log, recorded, process, worker, history, scope, copy,
                 said, trace, index, basis, events, overlap, shaken>>

(* The record ends, complete or given up. *)
Leave(t) ==
  /\ Goto(t, "over")
  /\ trace' = [trace EXCEPT ![t] = {}] /\ index' = [index EXCEPT ![t] = 0]
  /\ UNCHANGED <<worker, agent, history, scope, copy, said, basis>>

(* touch_session changes nothing else here, and is one step with what      *)
(* follows it.  Two first turns insert the same row, and one of them gives *)
(* up its record.                                                          *)
TouchFails(t) ==
  /\ pc[t] = "touch"
  /\ t \in crossed
  /\ Leave(t)
  /\ UNCHANGED <<stores, process, events, overlap, shaken>>

MaxIndex(s) == Max({0} \cup {row.index : row \in log[s]})

(* Mutant: the row takes the maximum itself. *)
ReadLastIndex(t) ==
  /\ pc[t] \in {"touch", "reply"}
  /\ index' = [index EXCEPT ![t] = MaxIndex(SessionOf[t])]
  /\ Goto(t, IF pc[t] = "touch" THEN "questionSave" ELSE "replySave")
  /\ UNCHANGED <<stores, process, worker, agent, history, scope, copy, said, trace, basis,
                 events, overlap, shaken>>

(* append_turn: the maximum is read, *)
ReadIndex(t) ==
  /\ pc[t] \in {"touch", "reply"}
  /\ index' = [index EXCEPT ![t] = MaxIndex(SessionOf[t]) + 1]
  /\ Goto(t, IF pc[t] = "touch" THEN "questionSave" ELSE "replySave")
  /\ UNCHANGED <<stores, process, worker, agent, history, scope, copy, said, trace, basis,
                 events, overlap, shaken>>

(* and the row is written. *)
AppendTurn(t) ==
  LET role == IF pc[t] = "questionSave" THEN "buyer" ELSE "agent"
      s == SessionOf[t]
  IN
  /\ pc[t] \in {"questionSave", "replySave"}
  /\ log' = [log EXCEPT ![s] = @ \cup {[turn |-> t, role |-> role, index |-> index[t]]}]
  /\ index' = [index EXCEPT ![t] = 0]
  /\ Goto(t, IF pc[t] = "questionSave" THEN "reply" ELSE "events")
  /\ UNCHANGED <<buyer, prefs, bucket, stored, recorded, process, worker, agent, history, scope,
                 copy, said, trace, basis, events, overlap, shaken>>

AppendEvents(t) ==
  /\ pc[t] = "events"
  /\ recorded' = [u \in Turn |-> IF u \in trace[t] THEN recorded[u] + 1 ELSE recorded[u]]
  /\ Leave(t)
  /\ UNCHANGED <<buyer, prefs, bucket, stored, log, process, events, overlap, shaken>>

-----------------------------------------------------------------------------
(* Failures *)

(* A snapshot that cannot be read is none; preferences that cannot be read *)
(* are none, for the scope and for the hint.                               *)
ReadFault(t) ==
  /\ Fault("store")
  /\ shaken' = shaken \cup {t}
  /\ \/ pc[t] = "restore" /\ Built(t, NoAgent)
     \/ pc[t] = "inputs" /\ Ask(t, {})
     \/ /\ pc[t] \in {"scope", "remember"}
        /\ scope' = [scope EXCEPT ![t] = {}]
        /\ Goto(t, IF pc[t] = "scope" THEN "lookup" ELSE "load")
        /\ UNCHANGED <<stores, process, worker, agent, history, copy, said, trace, index,
                       basis, overlap>>

(* A cache that fails is a miss or keeps nothing; a snapshot is not saved; *)
(* the rest of the record is given up.                                     *)
WriteFault(t) ==
  /\ Fault("store")
  /\ \/ /\ \/ pc[t] = "lookup" /\ Goto(t, "inputs")
           \/ pc[t] \in {"load", "fill"} /\ Goto(t, "persist")
           \/ pc[t] = "persist" /\ Goto(t, "touch")
        /\ UNCHANGED local
     \/ pc[t] \in Recording /\ Leave(t)
  /\ shaken' = shaken \cup {t}
  /\ UNCHANGED <<stores, process, overlap>>

(* A worker dies with its agents and is started again. *)
Crash(w) ==
  /\ Fault("crash")
  /\ registry' = [registry EXCEPT ![w] = [s \in Session |-> None]]
  /\ injected' = [injected EXCEPT ![w] = [s \in Session |-> {}]]
  /\ LET dead == {t \in Open : worker[t] = w}
         Reset(f, value) == [t \in Turn |-> IF t \in dead THEN value ELSE f[t]]
     IN
     /\ pc' = Reset(pc, "dead") /\ agent' = Reset(agent, None)
     /\ scope' = Reset(scope, {}) /\ copy' = Reset(copy, <<>>)
     /\ trace' = Reset(trace, {}) /\ index' = Reset(index, 0)
  /\ agents' = [a \in Turn |-> IF worker[a] = w THEN NoAgent ELSE agents[a]]
  /\ UNCHANGED <<stores, worker, history, said, basis, overlap, shaken>>

-----------------------------------------------------------------------------

Step(t) ==
  \/ Restore(t) \/ ReadScope(t) \/ Lookup(t) \/ BuildInputs(t) \/ Answer(t) \/ Fail(t)
  \/ Load(t) \/ Fill(t) \/ Persist(t) \/ TouchFails(t) \/ ReadIndex(t)
  \/ AppendTurn(t) \/ AppendEvents(t)

Finished == (\A t \in Turn : pc[t] \in {"over", "dead"}) /\ UNCHANGED vars

Next ==
  \/ \E t \in Turn :
       \/ \E w \in Worker : Begin(t, w)
       \/ Step(t)
       \/ \E p \in Pref : Prefer(t, p)
       \/ ReadFault(t) \/ WriteFault(t)
  \/ \E w \in Worker : Crash(w)
  \/ Finished

Spec == Init /\ [][Next]_vars

-----------------------------------------------------------------------------
(* Properties *)

Phase == {"idle", "restore", "scope", "lookup", "inputs", "turn", "remember", "load", "fill",
          "persist", "over", "dead"} \cup Recording

(* Every variable has its type, and a turn that ends has an agent in the  *)
(* registry to be saved.                                                  *)
TypeOK ==
  /\ buyer \in [Session -> Buyer]
  /\ prefs \in [Buyer -> SUBSET Pref]
  /\ \A k \in Key : bucket[k] \in Seq(Turn) /\ Len(bucket[k]) <= BucketLimit
  /\ stored \in [Session -> [memory : SUBSET Turn, told : SUBSET Pref] \cup {None}]
  /\ log \in [Session ->
       SUBSET [turn : Turn, role : {"buyer", "agent"}, index : 1..(2 * Cardinality(Turn))]]
  /\ recorded \in [Turn -> Nat]
  /\ registry \in [Worker -> [Session -> Turn \cup {None}]]
  /\ injected \in [Worker -> [Session -> SUBSET Pref]]
  /\ agents \in [Turn -> [memory : SUBSET Turn, told : SUBSET Pref]]
  /\ pc \in [Turn -> Phase]
  /\ worker \in [Turn -> Worker \cup {None}]
  /\ agent \in [Turn -> Turn \cup {None}]
  /\ said \in [Turn -> Turn \cup {None, "error"}]
  /\ \A t \in Turn : pc[t] = "persist" => registry[worker[t]][SessionOf[t]] # None

(* The turns of a session have never overlapped. *)
Orderly(s) == \A t \in Turn : SessionOf[t] = s => t \notin crossed

(* An answer from the cache was given to the same buyer for the same      *)
(* question, is no error and no answer that leans on an earlier turn, and *)
(* was made with the preferences it is found under.  The last fails when  *)
(* another session changes the preferences while the first turn runs,     *)
(* when a store cannot be read, and in a session whose turns overlap or   *)
(* have overlapped: its agent may not know a hint the session was given.  *)
AnswerFits ==
  \A t, u \in Turn : said[t] = u /\ u # t =>
    /\ BuyerOf(u) = BuyerOf(t) /\ QueryOf[u] = QueryOf[t]
    /\ said[u] = u /\ ~history[u]
    /\ u \notin shaken /\ Orderly(SessionOf[u]) => basis[u] = basis[t]

(* A session whose turns follow one another on one worker forgets nothing: *)
(* every turn that was answered and saved is in the snapshot, also after   *)
(* crashes of the worker.  Turns that are served by two workers, or        *)
(* overlap, lose each other's memory.                                      *)
OneWorker(s) == \A t, u \in Turn :
  SessionOf[t] = s /\ SessionOf[u] = s /\ worker[t] # None /\ worker[u] # None
    => worker[t] = worker[u] /\ t \notin crossed \cup shaken

Saved(t) == pc[t] \in Recording \cup {"over"}

DialogueKept ==
  \A t \in Turn : OneWorker(SessionOf[t]) /\ Saved(t) /\ said[t] = t =>
    t \in stored[SessionOf[t]].memory

(* In the record, read by turn_index, an answer comes after its question,  *)
(* though two turns of a session can take the same index, and no answer is *)
(* without its question.                                                   *)
AnswerAfterQuestion ==
  \A s \in Session : \A reply \in log[s] : reply.role = "agent" =>
    \E question \in log[s] :
      /\ question.turn = reply.turn /\ question.role = "buyer"
      /\ question.index < reply.index

(* The outcome of a turn is recorded once, unless another turn of its      *)
(* session overlapped it (its trace has the outcome too), the record was   *)
(* given up or the worker died.                                            *)
EventsOnce ==
  \A t \in Turn :
    /\ pc[t] = "over" /\ t \notin crossed \cup shaken => recorded[t] = 1
    /\ t \notin crossed => recorded[t] <= 1

=============================================================================
