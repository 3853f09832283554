------------------------- MODULE Conversation_proofs -------------------------
(***************************************************************************)
(* Theorems about Conversation for any finite set of turns, any sessions,  *)
(* buyers, preferences and worker processes.                               *)
(***************************************************************************)
EXTENDS Conversation, FiniteSetTheorems, TLAPS

(* Turns of a phase.  A turn is Bound while it uses an agent, Asked while  *)
(* the agent has its question in its memory, Published when its outcome is *)
(* in its trace, and Early before that.                                    *)
Early == {"idle", "restore", "scope", "lookup", "inputs", "turn"}
Filling == {"remember", "load", "fill"}
Bound == {"scope", "lookup", "inputs", "turn", "persist"} \cup Filling
Published == Filling \cup {"persist"} \cup Recording

(* The processes: an agent in a registry was built by a turn of that       *)
(* session in that process, and so was the agent a turn uses.              *)
BuiltBy(a, w, s) ==
  a \in Turn /\ worker[a] = w /\ SessionOf[a] = s /\ pc[a] \notin {"idle", "restore"}

ProcessInv ==
  /\ \A t \in Turn : IF pc[t] = "idle" THEN worker[t] = None ELSE worker[t] \in Worker
  /\ \A w \in Worker, s \in Session : registry[w][s] # None => BuiltBy(registry[w][s], w, s)
  /\ \A t \in Turn : pc[t] \in Bound =>
       /\ BuiltBy(agent[t], worker[t], SessionOf[t])
       /\ registry[worker[t]][SessionOf[t]] # None

(* Two turns of a session that are open together have overlapped; in an    *)
(* orderly session a turn uses the agent of the registry.                  *)
OverlapInv ==
  /\ \A t \in crossed : t \in Turn /\ pc[t] # "idle"
  /\ \A t, u \in Open : SessionOf[t] = SessionOf[u] /\ t # u => t \in crossed /\ u \in crossed
  /\ \A t \in Turn : pc[t] \in Bound /\ Orderly(SessionOf[t]) =>
       agent[t] = registry[worker[t]][SessionOf[t]]

(* What is in a trace, and so in the record, is the outcome of the turn    *)
(* itself or of one that overlapped it.                                    *)
TraceInv ==
  /\ \A t, u \in Turn : t \in trace[u] /\ t # u => t \in crossed
  /\ \A t \in Turn : pc[t] \in Published => t \in trace[t]
  /\ \A t \in Turn : t \notin crossed /\ pc[t] # "over" => recorded[t] = 0
EventsInv == TraceInv /\ EventsOnce

(* The record of a session: its rows, and the index a turn has read.       *)
Row == [turn : Turn, role : {"buyer", "agent"}, index : Nat]

RowOK(row, s) ==
  /\ SessionOf[row.turn] = s
  /\ row.index \in 1..Cardinality(log[s])
  /\ row.role = "buyer" => pc[row.turn] \in {"reply", "replySave", "events", "over", "dead"}
  /\ row.role = "agent" => pc[row.turn] \in {"events", "over", "dead"}

RowsInv ==
  \A s \in Session :
    /\ log[s] \subseteq Row /\ IsFiniteSet(log[s])
    /\ \A row \in log[s] : RowOK(row, s)
    /\ \A row, twin \in log[s] : row.turn = twin.turn /\ row.role = twin.role => row = twin

QuestionOf(t) == {row \in log[SessionOf[t]] : row.turn = t /\ row.role = "buyer"}

IndexInv ==
  \A t \in Turn :
    /\ pc[t] \in {"questionSave", "replySave"} =>
         index[t] \in 1..(Cardinality(log[SessionOf[t]]) + 1)
    /\ pc[t] \in {"reply", "replySave"} => QuestionOf(t) # {}
    /\ pc[t] = "replySave" => \A row \in QuestionOf(t) : row.index < index[t]

RecordInv == RowsInv /\ IndexInv /\ AnswerAfterQuestion

(* What agents remember.  An agent or a snapshot without memory was told   *)
(* nothing; an orderly session was given no hint before it has an agent    *)
(* with a memory.                                                          *)
EmptyInv ==
  /\ \A a \in Turn : agents[a].memory = {} => agents[a].told = {}
  /\ \A s \in Session : stored[s] # None /\ stored[s].memory = {} => stored[s].told = {}

Asked(t) == pc[t] \in {"turn"} \cup Filling \/ (pc[t] = "persist" /\ said[t] = t)

AskedInv == \A t \in Turn : Asked(t) => t \in agents[agent[t]].memory

HintInv ==
  /\ \A t \in Turn : pc[t] = "restore" /\ Orderly(SessionOf[t]) =>
       registry[worker[t]][SessionOf[t]] = None
  /\ \A w \in Worker, s \in Session : Orderly(s) /\ injected[w][s] # {} =>
       registry[w][s] # None /\ agents[registry[w][s]].memory # {}
  /\ \A t \in Turn :
       pc[t] \in {"scope", "lookup", "inputs"} /\ ~history[t] /\ Orderly(SessionOf[t])
         => agents[agent[t]].memory = {}

MemoryInv == EmptyInv /\ AskedInv /\ HintInv

(* The snapshot of an orderly session, and the agent built from it, know   *)
(* every turn that was answered and saved.                                 *)
DialogueInv ==
  \A t \in Turn : OneWorker(SessionOf[t]) /\ Saved(t) /\ said[t] = t =>
    /\ stored[SessionOf[t]] # None /\ t \in stored[SessionOf[t]].memory
    /\ \A w \in Worker : registry[w][SessionOf[t]] # None =>
         t \in agents[registry[w][SessionOf[t]]].memory

(* Answers that may be reused, in the cache and on their way into it.      *)
Sound(t) == t \notin shaken /\ Orderly(SessionOf[t])

Reusable(u, key) ==
  /\ u \in Turn /\ said[u] = u /\ ~history[u]
  /\ key[1] = BuyerOf(u)
  /\ Sound(u) => basis[u] = key[2]

CacheInv ==
  /\ \A k \in Key : \A i \in DOMAIN bucket[k] : Reusable(bucket[k][i], k)
  /\ \A t \in Turn : pc[t] = "fill" =>
       \A i \in DOMAIN copy[t] : Reusable(copy[t][i], BucketKey(t))

SaidInv ==
  /\ \A t \in Turn : pc[t] \in Early => said[t] = None
  /\ \A t \in Turn : pc[t] \in Filling => said[t] = t /\ ~history[t]

(* The preferences an answer to a first question is made with are those it *)
(* is cached with.                                                         *)
KnownInv ==
  \A t \in Turn : Sound(t) =>
    /\ pc[t] = "turn" /\ ~history[t] => agents[agent[t]].told = prefs[BuyerOf(t)]
    /\ pc[t] = "remember" => basis[t] = prefs[BuyerOf(t)]
    /\ pc[t] \in {"load", "fill"} => basis[t] = scope[t]

-----------------------------------------------------------------------------
(* Types *)

TurnTypes ==
  /\ pc \in [Turn -> Phase]
  /\ worker \in [Turn -> Worker \cup {None}]
  /\ agent \in [Turn -> Turn \cup {None}]
  /\ history \in [Turn -> BOOLEAN]
  /\ said \in [Turn -> Turn \cup {None, "error"}]
  /\ scope \in [Turn -> SUBSET Pref]
  /\ basis \in [Turn -> SUBSET Pref]
  /\ copy \in [Turn -> Seq(Turn)]
  /\ trace \in [Turn -> SUBSET Turn]
  /\ index \in [Turn -> Nat]

Snapshot == [memory : SUBSET Turn, told : SUBSET Pref]

ProcessTypes ==
  /\ registry \in [Worker -> [Session -> Turn \cup {None}]]
  /\ injected \in [Worker -> [Session -> SUBSET Pref]]
  /\ agents \in [Turn -> Snapshot]

StoreTypes ==
  /\ buyer \in [Session -> Buyer]
  /\ prefs \in [Buyer -> SUBSET Pref]
  /\ bucket \in [Key -> Seq(Turn)]
  /\ \A k \in Key : Len(bucket[k]) <= BucketLimit
  /\ stored \in [Session -> Snapshot \cup {None}]
  /\ log \in [Session -> SUBSET Row]
  /\ recorded \in [Turn -> Nat]

Types == TurnTypes /\ ProcessTypes /\ StoreTypes

LEMMA SessionType == \A t \in Turn : SessionOf[t] \in Session
BY DEF Session

LEMMA KeyType ==
  ASSUME Types, NEW t \in Turn
  PROVE  BuyerOf(t) \in Buyer /\ BucketKey(t) \in Key
         /\ BucketKey(t)[1] = BuyerOf(t) /\ BucketKey(t)[2] = scope[t]
BY SessionType DEF Types, StoreTypes, TurnTypes, BuyerOf, BucketKey, Key

(* The least element of a set of natural numbers, and the greatest of a    *)
(* bounded one.                                                            *)
LEMMA LeastExists ==
  ASSUME NEW S \in SUBSET Nat, S # {}
  PROVE  \E x \in S : \A y \in S : x <= y
<1> DEFINE Below(x) == 0..x
           Family == {Below(x) : x \in S}
<1>1. \A x \in S : Below(x) \in FiniteSubsetsOf(Nat)
  BY FS_Interval DEF FiniteSubsetsOf
<1>2. Family \subseteq FiniteSubsetsOf(Nat) /\ Family # {}
  BY <1>1
<1>3. PICK B \in Family : \A C \in Family : <<C, B>> \notin StrictSubsetOrdering(Nat)
  <2> HIDE DEF Family
  <2> QED BY <1>2, FS_StrictSubsetOrderingWellFounded, WFMin
<1>4. PICK x \in S : B = Below(x)
  BY <1>3
<1>5. \A y \in S : ~(y < x)
  <2> SUFFICES ASSUME NEW y \in S, y < x PROVE FALSE
    OBVIOUS
  <2>1. <<Below(y), Below(x)>> \notin StrictSubsetOrdering(Nat)
    BY <1>3, <1>4
  <2>2. Below(y) \subseteq Below(x) /\ x \in Below(x) /\ x \notin Below(y)
    BY S \subseteq Nat
  <2>3. Below(y) \in SUBSET Nat /\ Below(x) \in SUBSET Nat
    OBVIOUS
  <2> HIDE DEF Below
  <2>4. <<Below(y), Below(x)>> \in StrictSubsetOrdering(Nat)
    BY <2>2, <2>3 DEF StrictSubsetOrdering
  <2> QED BY <2>1, <2>4
<1> QED BY <1>5

LEMMA MinIn ==
  ASSUME NEW S \in SUBSET Nat, S # {}
  PROVE  Min(S) \in S
BY LeastExists DEF Min

LEMMA MaxIn ==
  ASSUME NEW S \in SUBSET Nat, S # {}, NEW n \in Nat, \A x \in S : x <= n
  PROVE  Max(S) \in S /\ \A y \in S : y <= Max(S)
<1> DEFINE Gaps == {n - x : x \in S}
<1>1. Gaps \subseteq Nat /\ Gaps # {}
  <2>1. \A x \in S : n - x \in Nat
    OBVIOUS
  <2> QED BY <2>1
<1>2. PICK d \in Gaps : \A e \in Gaps : d <= e
  <2> HIDE DEF Gaps
  <2> QED BY <1>1, LeastExists
<1>3. PICK x \in S : d = n - x
  BY <1>2
<1>4. \A y \in S : y <= x
  <2> TAKE y \in S
  <2>1. n - y \in Gaps
    OBVIOUS
  <2>2. d <= n - y
    BY <1>2, <2>1
  <2> QED BY <1>3, <2>2
<1>5. \E z \in S : \A y \in S : z >= y
  BY <1>4
<1> QED BY <1>5 DEF Max

LEMMA IndexBounds ==
  ASSUME RowsInv, NEW s \in Session
  PROVE  /\ Cardinality(log[s]) \in Nat
         /\ MaxIndex(s) \in 0..Cardinality(log[s])
         /\ \A row \in log[s] : row.index <= MaxIndex(s)
<1> DEFINE S == {0} \cup {row.index : row \in log[s]}
<1>1. Cardinality(log[s]) \in Nat
  BY FS_CardinalityType DEF RowsInv
<1>2. S \in SUBSET Nat /\ S # {} /\ \A x \in S : x <= Cardinality(log[s])
  BY <1>1 DEF RowsInv, RowOK
<1>3. Max(S) \in S /\ \A y \in S : y <= Max(S)
  <2> HIDE DEF S
  <2> QED BY <1>1, <1>2, MaxIn
<1>4. MaxIndex(s) = Max(S)
  BY DEF MaxIndex
<1> QED BY <1>1, <1>2, <1>3, <1>4

LEMMA LastOfType ==
  ASSUME NEW q \in Seq(Turn), NEW t \in Turn
  PROVE  /\ LastOf(BucketLimit, Append(q, t)) \in Seq(Turn)
         /\ Len(LastOf(BucketLimit, Append(q, t))) <= BucketLimit
         /\ \A i \in DOMAIN LastOf(BucketLimit, Append(q, t)) :
              \/ LastOf(BucketLimit, Append(q, t))[i] = t
              \/ \E j \in DOMAIN q : LastOf(BucketLimit, Append(q, t))[i] = q[j]
<1> DEFINE long == Append(q, t)
           first == IF Len(long) > BucketLimit THEN Len(long) - BucketLimit + 1 ELSE 1
<1>1. BucketLimit \in Nat /\ BucketLimit # 0
  BY ConversationAssumption
<1>2. /\ long \in Seq(Turn) /\ Len(long) = Len(q) + 1 /\ Len(q) \in Nat
      /\ \A i \in 1..Len(q) : long[i] = q[i]
      /\ long[Len(q) + 1] = t
  OBVIOUS
<1> HIDE DEF long
<1>3. first \in 1..Len(long) /\ Len(long) - first + 1 <= BucketLimit
  BY <1>1, <1>2
<1> HIDE DEF first
<1>4. /\ SubSeq(long, first, Len(long)) \in Seq(Turn)
      /\ Len(SubSeq(long, first, Len(long))) = Len(long) - first + 1
      /\ \A i \in 1..(Len(long) - first + 1) :
           SubSeq(long, first, Len(long))[i] = long[first + i - 1]
  BY <1>2, <1>3
<1>5. LastOf(BucketLimit, Append(q, t)) = SubSeq(long, first, Len(long))
  BY DEF LastOf, long, first
<1>6. \A i \in 1..Len(long) : long[i] = t \/ \E j \in DOMAIN q : long[i] = q[j]
  BY <1>2
<1>7. \A i \in 1..(Len(long) - first + 1) : first + i - 1 \in 1..Len(long)
  BY <1>2, <1>3
<1> QED BY <1>2, <1>3, <1>4, <1>5, <1>6, <1>7

(* What is found in a bucket is a place of it. *)
LEMMA FoundType ==
  ASSUME Types, NEW t \in Turn, Hits(t) # {}
  PROVE  /\ Min(Hits(t)) \in DOMAIN bucket[BucketKey(t)]
         /\ bucket[BucketKey(t)][Min(Hits(t))] \in Turn
         /\ QueryOf[bucket[BucketKey(t)][Min(Hits(t))]] = QueryOf[t]
<1>1. bucket[BucketKey(t)] \in Seq(Turn)
  BY KeyType DEF Types, StoreTypes
<1>2. Hits(t) \in SUBSET Nat
  BY <1>1 DEF Hits
<1>3. Min(Hits(t)) \in Hits(t)
  BY <1>2, MinIn
<1>4. \A i \in Hits(t) : i \in DOMAIN bucket[BucketKey(t)]
                         /\ QueryOf[bucket[BucketKey(t)][i]] = QueryOf[t]
  BY DEF Hits
<1>5. \A i \in DOMAIN bucket[BucketKey(t)] : bucket[BucketKey(t)][i] \in Turn
  BY <1>1
<1> QED BY <1>3, <1>4, <1>5

LEMMA StepTurnTypes ==
  ASSUME Types, RowsInv, ProcessInv, [Next]_vars
  PROVE  TurnTypes'
<1> USE DEF TurnTypes, Goto, Phase, Recording
<1> USE DEF Types
<1>1. ASSUME NEW t \in Turn, NEW w \in Worker, Begin(t, w)
      PROVE  TurnTypes'
  <2>1. registry[w][SessionOf[t]] \in Turn \cup {None}
    BY SessionType DEF ProcessTypes
  <2> QED BY <1>1, <2>1 DEF Begin, Bind
<1>2. ASSUME NEW t \in Turn, NEW snapshot, Built(t, snapshot)
      PROVE  TurnTypes'
  BY <1>2 DEF Built, Bind
<1>3. ASSUME NEW t \in Turn, ReadScope(t)
      PROVE  TurnTypes'
  BY <1>3, KeyType DEF ReadScope, StoreTypes
<1>4. ASSUME NEW t \in Turn, NEW answer \in Turn \cup {"error"}, Publish(t, answer)
      PROVE  said' \in [Turn -> Turn \cup {None, "error"}] /\ trace' \in [Turn -> SUBSET Turn]
  BY <1>4 DEF Publish
<1>5. ASSUME NEW t \in Turn, Lookup(t)
      PROVE  TurnTypes'
  <2>1. CASE Hits(t) # {}
    BY <1>4, <1>5, <2>1, FoundType DEF Lookup
  <2>2. CASE Hits(t) = {}
    BY <1>5, <2>2 DEF Lookup
  <2> QED BY <2>1, <2>2
<1>6. ASSUME NEW t \in Turn, NEW known, Ask(t, known)
      PROVE  TurnTypes'
  BY <1>6 DEF Ask, local
<1>7. ASSUME NEW t \in Turn, Answer(t)
      PROVE  TurnTypes'
  <2>1. agents[agent[t]].told \in SUBSET Pref
    BY <1>7 DEF Answer, ProcessInv, Bound, BuiltBy, ProcessTypes, Snapshot
  <2> QED BY <1>4, <1>7, <2>1 DEF Answer
<1>8. ASSUME NEW t \in Turn, Fail(t)
      PROVE  TurnTypes'
  BY <1>4, <1>8 DEF Fail
<1>9. ASSUME NEW t \in Turn, Load(t)
      PROVE  TurnTypes'
  BY <1>9, KeyType DEF Load, StoreTypes
<1>10. ASSUME NEW t \in Turn, Fill(t)
       PROVE  TurnTypes'
  BY <1>10 DEF Fill
<1>11. ASSUME NEW t \in Turn, Persist(t)
       PROVE  TurnTypes'
  BY <1>11 DEF Persist
<1>12. ASSUME NEW t \in Turn, Leave(t)
       PROVE  TurnTypes'
  BY <1>12 DEF Leave
<1>13. ASSUME NEW t \in Turn, ReadIndex(t)
       PROVE  TurnTypes'
  BY <1>13, IndexBounds, SessionType DEF ReadIndex
<1>14. ASSUME NEW t \in Turn, AppendTurn(t)
       PROVE  TurnTypes'
  BY <1>14 DEF AppendTurn
<1>15. ASSUME NEW t \in Turn, NEW p \in Pref, Prefer(t, p)
       PROVE  TurnTypes'
  BY <1>15 DEF Prefer, local
<1>16. ASSUME NEW t \in Turn, ReadFault(t)
       PROVE  TurnTypes'
  BY <1>2, <1>6, <1>16 DEF ReadFault
<1>17. ASSUME NEW t \in Turn, WriteFault(t)
       PROVE  TurnTypes'
  BY <1>12, <1>17 DEF WriteFault, local
<1>18. ASSUME NEW w \in Worker, Crash(w)
       PROVE  TurnTypes'
  BY <1>18 DEF Crash
<1>19. CASE UNCHANGED vars
  BY <1>19 DEF vars, local
<1> QED
  BY <1>1, <1>2, <1>3, <1>5, <1>6, <1>7, <1>8, <1>9, <1>10, <1>11, <1>12, <1>13, <1>14, <1>15,
     <1>16, <1>17, <1>18, <1>19
     DEF Next, Step, Restore, BuildInputs, TouchFails, AppendEvents, Finished

LEMMA StepProcessTypes ==
  ASSUME Types, ProcessInv, [Next]_vars
  PROVE  ProcessTypes'
<1> USE DEF Types, ProcessTypes, Snapshot
<1> USE SessionType
<1>1. ASSUME NEW t \in Turn, NEW snapshot \in Snapshot, Built(t, snapshot)
      PROVE  ProcessTypes'
  BY <1>1 DEF Built
<1>2. ASSUME NEW t \in Turn, Restore(t)
      PROVE  ProcessTypes'
  BY <1>1, <1>2 DEF Restore, StoreTypes, NoAgent
<1>3. ASSUME NEW t \in Turn, NEW known \in SUBSET Pref, Ask(t, known)
      PROVE  ProcessTypes'
  <2>1. injected' \in [Worker -> [Session -> SUBSET Pref]]
    BY <1>3 DEF Ask
  <2>2. agents' \in [Turn -> Snapshot]
    BY <1>3 DEF Ask
  <2> QED BY <1>3, <2>1, <2>2 DEF Ask
<1>4. ASSUME NEW t \in Turn, BuildInputs(t)
      PROVE  ProcessTypes'
  BY <1>3, <1>4, KeyType DEF BuildInputs, StoreTypes
<1>5. ASSUME NEW t \in Turn, NEW p \in Pref, Prefer(t, p)
      PROVE  ProcessTypes'
  <2>1. prefs[BuyerOf(t)] \in SUBSET Pref
    BY KeyType DEF StoreTypes
  <2>2. PICK known \in SUBSET Pref : agents' = [agents EXCEPT ![agent[t]].told = known]
    BY <1>5, <2>1 DEF Prefer
  <2>3. \A a \in Turn : [agents[a] EXCEPT !.told = known] \in Snapshot
    OBVIOUS
  <2>4. agents' = [a \in Turn |->
                     IF a = agent[t] THEN [agents[a] EXCEPT !.told = known] ELSE agents[a]]
    BY <2>2
  <2>5. agents' \in [Turn -> Snapshot]
    BY <2>3, <2>4
  <2> QED BY <1>5, <2>5 DEF Prefer
<1>6. ASSUME NEW t \in Turn, ReadFault(t)
      PROVE  ProcessTypes'
  BY <1>1, <1>3, <1>6 DEF ReadFault, NoAgent, process
<1>7. ASSUME NEW w \in Worker, Crash(w)
      PROVE  ProcessTypes'
  BY <1>7 DEF Crash, NoAgent
<1>8. CASE UNCHANGED process
  BY <1>8 DEF process
<1> QED
  BY <1>2, <1>4, <1>5, <1>6, <1>7, <1>8
     DEF Next, Step, Finished, vars, Begin, ReadScope, Lookup, Answer, Fail, Load, Fill, Persist,
         TouchFails, ReadIndex, AppendTurn, AppendEvents, WriteFault

LEMMA StepStoreTypes ==
  ASSUME Types, ProcessInv, [Next]_vars
  PROVE  StoreTypes'
<1> USE DEF Types, StoreTypes
<1>1. ASSUME NEW t \in Turn, Fill(t)
      PROVE  StoreTypes'
  <2>1. copy[t] \in Seq(Turn)
    BY DEF TurnTypes
  <2>2. /\ LastOf(BucketLimit, Append(copy[t], t)) \in Seq(Turn)
        /\ Len(LastOf(BucketLimit, Append(copy[t], t))) <= BucketLimit
    BY <2>1, LastOfType
  <2> QED BY <1>1, <2>2 DEF Fill
<1>2. ASSUME NEW t \in Turn, Persist(t)
      PROVE  StoreTypes'
  <2>1. agents[registry[worker[t]][SessionOf[t]]] \in Snapshot
    BY <1>2, SessionType DEF Persist, ProcessInv, Bound, BuiltBy, ProcessTypes
  <2> QED BY <1>2, <2>1 DEF Persist
<1>3. ASSUME NEW t \in Turn, AppendTurn(t)
      PROVE  StoreTypes'
  <2>1. \A role \in {"buyer", "agent"} : [turn |-> t, role |-> role, index |-> index[t]] \in Row
    BY DEF Row, TurnTypes
  <2> QED BY <1>3, <2>1 DEF AppendTurn
<1>4. ASSUME NEW t \in Turn, AppendEvents(t)
      PROVE  StoreTypes'
  BY <1>4 DEF AppendEvents
<1>5. ASSUME NEW t \in Turn, NEW p \in Pref, Prefer(t, p)
      PROVE  StoreTypes'
  BY <1>5, KeyType DEF Prefer
<1>6. CASE UNCHANGED stores
  BY <1>6 DEF stores
<1> QED
  BY <1>1, <1>2, <1>3, <1>4, <1>5, <1>6
     DEF Next, Step, Finished, vars, Begin, Restore, Built, ReadScope, Lookup, BuildInputs, Ask,
         Answer, Fail, Load, TouchFails, ReadIndex, ReadFault, WriteFault, Crash

LEMMA StepTypes ==
  ASSUME Types, RowsInv, ProcessInv, [Next]_vars
  PROVE  Types'
BY StepTurnTypes, StepProcessTypes, StepStoreTypes DEF Types

-----------------------------------------------------------------------------
(* Processes and overlapping turns *)

(* A step of a turn that has begun and has been given its agent. *)
Onward(t) ==
  /\ UNCHANGED <<worker, registry, crossed>>
  /\ pc[t] \notin {"idle", "restore", "over", "dead"}
  /\ \E phase \in Phase :
       /\ Goto(t, phase)
       /\ phase \notin {"idle", "restore", "dead"}
       /\ phase \in Bound => pc[t] \in Bound /\ agent'[t] = agent[t]
  /\ \A u \in Turn \ {t} : agent'[u] = agent[u]

GivenAgent(t) == pc[t] = "restore" /\ \E snapshot \in Snapshot : Built(t, snapshot)

(* What a step does to the processes. *)
LEMMA StepKinds ==
  ASSUME Types, [Next]_vars
  PROVE  \/ \E t \in Turn, w \in Worker : Begin(t, w)
         \/ \E t \in Turn : GivenAgent(t)
         \/ \E t \in Turn : Onward(t)
         \/ \E w \in Worker : Crash(w)
         \/ UNCHANGED <<pc, worker, agent, registry, crossed>>
<1> DEFINE Kinds == \/ \E t \in Turn, w \in Worker : Begin(t, w)
                    \/ \E t \in Turn : GivenAgent(t)
                    \/ \E t \in Turn : Onward(t)
                    \/ \E w \in Worker : Crash(w)
                    \/ UNCHANGED <<pc, worker, agent, registry, crossed>>
<1> USE DEF Phase, Recording, Bound, Filling, process, overlap
<1>1. ASSUME NEW t \in Turn, Restore(t)
      PROVE  GivenAgent(t)
  <2>1. NoAgent \in Snapshot
           /\ (stored[SessionOf[t]] # None => stored[SessionOf[t]] \in Snapshot)
    BY SessionType DEF NoAgent, Snapshot, Types, StoreTypes
  <2> QED BY <1>1, <2>1 DEF Restore, GivenAgent
<1>2. ASSUME NEW t \in Turn, Leave(t), pc[t] \in Recording, UNCHANGED <<registry, crossed>>
      PROVE  Onward(t)
  BY <1>2 DEF Leave, Onward, Goto
<1>3. ASSUME NEW t \in Turn,
             \/ ReadScope(t) \/ Lookup(t) \/ BuildInputs(t) \/ Answer(t) \/ Fail(t)
             \/ Load(t) \/ Fill(t)
      PROVE  Onward(t)
  <2>1. CASE ReadScope(t)
    BY <2>1 DEF ReadScope, Onward, Goto
  <2>2. CASE Lookup(t)
    BY <2>2 DEF Lookup, Onward, Goto
  <2>3. CASE BuildInputs(t)
    BY <2>3 DEF BuildInputs, Ask, Onward, Goto, local
  <2>4. CASE Answer(t)
    BY <2>4 DEF Answer, Onward, Goto
  <2>5. CASE Fail(t)
    BY <2>5 DEF Fail, Onward, Goto
  <2>6. CASE Load(t)
    BY <2>6 DEF Load, Onward, Goto
  <2>7. CASE Fill(t)
    BY <2>7 DEF Fill, Onward, Goto
  <2> QED BY <1>3, <2>1, <2>2, <2>3, <2>4, <2>5, <2>6, <2>7
<1>4. ASSUME NEW t \in Turn,
             \/ Persist(t) \/ TouchFails(t) \/ ReadIndex(t) \/ AppendTurn(t) \/ AppendEvents(t)
      PROVE  Onward(t)
  <2>1. CASE Persist(t)
    <3>1. \A u \in Turn \ {t} : agent'[u] = agent[u]
      BY <2>1 DEF Persist, Types, TurnTypes
    <3> QED BY <2>1, <3>1 DEF Persist, Onward, Goto
  <2>2. CASE TouchFails(t)
    BY <1>2, <2>2 DEF TouchFails
  <2>3. CASE ReadIndex(t)
    <3>1. CASE pc[t] = "touch"
      BY <2>3, <3>1 DEF ReadIndex, Onward, Goto
    <3>2. CASE pc[t] = "reply"
      BY <2>3, <3>2 DEF ReadIndex, Onward, Goto
    <3> QED BY <2>3, <3>1, <3>2 DEF ReadIndex
  <2>4. CASE AppendTurn(t)
    <3>1. CASE pc[t] = "questionSave"
      BY <2>4, <3>1 DEF AppendTurn, Onward, Goto
    <3>2. CASE pc[t] = "replySave"
      BY <2>4, <3>2 DEF AppendTurn, Onward, Goto
    <3> QED BY <2>4, <3>1, <3>2 DEF AppendTurn
  <2>5. CASE AppendEvents(t)
    BY <1>2, <2>5 DEF AppendEvents
  <2> QED BY <1>4, <2>1, <2>2, <2>3, <2>4, <2>5
<1>5. ASSUME NEW t \in Turn, NEW p \in Pref, Prefer(t, p)
      PROVE  UNCHANGED <<pc, worker, agent, registry, crossed>>
  BY <1>5 DEF Prefer, local
<1>6. ASSUME NEW t \in Turn, ReadFault(t)
      PROVE  GivenAgent(t) \/ Onward(t)
  <2>1. CASE pc[t] = "restore" /\ Built(t, NoAgent)
    BY <2>1 DEF GivenAgent, NoAgent, Snapshot
  <2>2. CASE pc[t] = "inputs" /\ Ask(t, {})
    BY <2>2 DEF Ask, Onward, Goto, local
  <2>3. CASE pc[t] \in {"scope", "remember"}
    BY <1>6, <2>3 DEF ReadFault, Onward, Goto
  <2> QED BY <1>6, <2>1, <2>2, <2>3 DEF ReadFault
<1>7. ASSUME NEW t \in Turn, WriteFault(t)
      PROVE  Onward(t)
  <2>1. CASE pc[t] \in Recording /\ Leave(t)
    BY <1>2, <1>7, <2>1 DEF WriteFault
  <2>2. CASE ~(pc[t] \in Recording /\ Leave(t))
    BY <1>7, <2>2 DEF WriteFault, Onward, Goto, local
  <2> QED BY <2>1, <2>2
<1>8. CASE UNCHANGED vars
  BY <1>8 DEF vars, local
<1> HIDE DEF Phase, Recording, Bound, Filling, process, overlap
<1>9. ASSUME NEW t \in Turn, Step(t)
      PROVE  Kinds
  BY <1>1, <1>3, <1>4, <1>9 DEF Step
<1> QED BY <1>5, <1>6, <1>7, <1>8, <1>9 DEF Next, Finished

LEMMA StepProcess ==
  ASSUME Types, ProcessInv, [Next]_vars
  PROVE  ProcessInv'
<1> USE SessionType, ConversationAssumption DEF ProcessInv, BuiltBy
<1>1. ASSUME NEW t \in Turn, NEW w \in Worker, Begin(t, w)
      PROVE  ProcessInv'
  <2> DEFINE a == registry[w][SessionOf[t]]
  <2>1. /\ pc[t] = "idle" /\ registry' = registry
        /\ worker' = [worker EXCEPT ![t] = w]
        /\ \A u \in Turn \ {t} : pc'[u] = pc[u] /\ agent'[u] = agent[u]
        /\ pc'[t] \in {"restore", "scope", "inputs"}
        /\ pc'[t] # "restore" => a # None /\ agent'[t] = a
    BY <1>1 DEF Begin, Bind, Goto, process, Types, TurnTypes
  <2>2. \A b, s : \A v \in Worker :
          b # t /\ BuiltBy(b, v, s) => BuiltBy(b, v, s)'
    BY <2>1 DEF Types, TurnTypes
  <2>3. \A v \in Worker, s \in Session : registry[v][s] # t
    BY <2>1
  <2>4. \A v \in Worker, s \in Session : registry'[v][s] # None => BuiltBy(registry[v][s], v, s)'
    <3> SUFFICES ASSUME NEW v \in Worker, NEW s \in Session, registry'[v][s] # None
                 PROVE  BuiltBy(registry[v][s], v, s)'
      OBVIOUS
    <3>1. registry'[v][s] = registry[v][s] /\ registry[v][s] # t /\ BuiltBy(registry[v][s], v, s)
      BY <2>1, <2>3
    <3> QED BY <2>1, <3>1 DEF Types, TurnTypes
  <2>5. \A u \in Turn : IF pc'[u] = "idle" THEN worker'[u] = None ELSE worker'[u] \in Worker
    BY <2>1 DEF Types, TurnTypes
  <2>6. ASSUME NEW u \in Turn, u # t, pc[u] \in Bound
        PROVE  /\ BuiltBy(agent[u], worker[u], SessionOf[u])'
               /\ registry'[worker'[u]][SessionOf[u]] # None
    <3>1. worker[u] \in Worker /\ worker'[u] = worker[u] /\ agent'[u] = agent[u]
      BY <2>1, <2>6 DEF Types, TurnTypes, Bound, Filling
    <3>2. BuiltBy(agent[u], worker[u], SessionOf[u]) /\ agent[u] # t
      BY <2>1, <2>6
    <3>3. BuiltBy(agent[u], worker[u], SessionOf[u])'
      BY <2>2, <3>1, <3>2
    <3> QED BY <2>1, <2>6, <3>1, <3>3
  <2>7. pc'[t] \in Bound =>
          BuiltBy(agent[t], worker[t], SessionOf[t])' /\ registry'[worker'[t]][SessionOf[t]] # None
    BY <2>1, <2>4 DEF Bound, Filling, Types, TurnTypes
  <2>8. \A u \in Turn : pc'[u] \in Bound =>
          BuiltBy(agent[u], worker[u], SessionOf[u])' /\ registry'[worker'[u]][SessionOf[u]] # None
    BY <2>1, <2>6, <2>7
  <2> QED BY <2>1, <2>4, <2>5, <2>8
<1>2. ASSUME NEW t \in Turn, GivenAgent(t)
      PROVE  ProcessInv'
  <2>1. /\ pc[t] = "restore" /\ worker' = worker /\ worker[t] \in Worker
        /\ registry' = [registry EXCEPT ![worker[t]][SessionOf[t]] = t]
        /\ \A u \in Turn \ {t} : pc'[u] = pc[u] /\ agent'[u] = agent[u]
        /\ pc'[t] \in {"scope", "inputs"} /\ agent'[t] = t
    BY <1>2 DEF GivenAgent, Built, Bind, Goto, Types, TurnTypes
  <2>2. \A b, v, s : BuiltBy(b, v, s) => BuiltBy(b, v, s)'
    BY <2>1
  <2>3. BuiltBy(t, worker[t], SessionOf[t])'
    BY <2>1
  <2>4. \A v \in Worker, s \in Session :
          registry'[v][s] = IF v = worker[t] /\ s = SessionOf[t] THEN t ELSE registry[v][s]
    BY <2>1 DEF Types, ProcessTypes
  <2>5. \A v \in Worker, s \in Session :
          registry'[v][s] # None => BuiltBy(registry[v][s], v, s)'
    <3> SUFFICES ASSUME NEW v \in Worker, NEW s \in Session, registry'[v][s] # None
                 PROVE  BuiltBy(registry[v][s], v, s)'
      OBVIOUS
    <3>1. CASE v = worker[t] /\ s = SessionOf[t]
      <4>1. registry'[v][s] = t
        BY <2>4, <3>1
      <4> QED BY <2>1, <3>1, <4>1
    <3>2. CASE ~(v = worker[t] /\ s = SessionOf[t])
      <4>1. registry'[v][s] = registry[v][s] /\ BuiltBy(registry[v][s], v, s)
        BY <2>4, <3>2
      <4> QED BY <2>1, <4>1
    <3> QED BY <3>1, <3>2
  <2>6. ASSUME NEW u \in Turn, pc'[u] \in Bound
        PROVE  /\ BuiltBy(agent[u], worker[u], SessionOf[u])'
               /\ registry'[worker'[u]][SessionOf[u]] # None
    <3>1. CASE u = t
      BY <2>1, <2>3, <2>4, <3>1
    <3>2. CASE u # t
      <4>1. pc[u] \in Bound /\ worker[u] \in Worker /\ agent'[u] = agent[u]
        BY <2>1, <2>6, <3>2 DEF Bound, Filling
      <4> QED BY <2>1, <2>2, <2>4, <4>1
    <3> QED BY <3>1, <3>2
  <2> QED BY <2>1, <2>5, <2>6
<1>3. ASSUME NEW t \in Turn, Onward(t)
      PROVE  ProcessInv'
  <2>1. /\ registry' = registry /\ worker' = worker
        /\ pc[t] \notin {"idle", "restore"} /\ pc'[t] \notin {"idle", "restore"}
        /\ \A u \in Turn \ {t} : pc'[u] = pc[u] /\ agent'[u] = agent[u]
        /\ pc'[t] \in Bound => pc[t] \in Bound /\ agent'[t] = agent[t]
    BY <1>3 DEF Onward, Goto, Types, TurnTypes
  <2>2. \A b, v, s : BuiltBy(b, v, s) => BuiltBy(b, v, s)'
    BY <2>1
  <2>3. \A u \in Turn : pc'[u] \in Bound => pc[u] \in Bound /\ agent'[u] = agent[u]
    BY <2>1
  <2> QED BY <2>1, <2>2, <2>3
<1>4. ASSUME NEW w \in Worker, Crash(w)
      PROVE  ProcessInv'
  <2>1. /\ worker' = worker
        /\ registry' = [registry EXCEPT ![w] = [s \in Session |-> None]]
        /\ \A u \in Turn : \/ pc'[u] = pc[u] /\ agent'[u] = agent[u]
                           \/ u \in Open /\ worker[u] = w /\ pc'[u] = "dead"
        /\ \A u \in Open : worker[u] = w => pc'[u] = "dead"
    BY <1>4 DEF Crash, Open
  <2>2. \A b, v, s : BuiltBy(b, v, s) => BuiltBy(b, v, s)'
    BY <2>1
  <2>3. \A v \in Worker, s \in Session :
          registry'[v][s] = IF v = w THEN None ELSE registry[v][s]
    BY <2>1 DEF Types, ProcessTypes
  <2>4. \A u \in Turn : IF pc'[u] = "idle" THEN worker'[u] = None ELSE worker'[u] \in Worker
    BY <2>1 DEF Open
  <2>5. ASSUME NEW u \in Turn, pc'[u] \in Bound
        PROVE  /\ BuiltBy(agent[u], worker[u], SessionOf[u])'
               /\ registry'[worker'[u]][SessionOf[u]] # None
    <3>1. u \in Open /\ pc'[u] = pc[u] /\ agent'[u] = agent[u] /\ worker[u] # w
             /\ worker[u] \in Worker
      BY <2>1, <2>5 DEF Bound, Filling, Open
    <3>2. BuiltBy(agent[u], worker[u], SessionOf[u])
      BY <2>5, <3>1
    <3> QED BY <2>1, <2>2, <2>3, <2>5, <3>1, <3>2
  <2> QED BY <2>2, <2>3, <2>4, <2>5
<1>5. CASE UNCHANGED <<pc, worker, agent, registry, crossed>>
  BY <1>5
<1> QED BY <1>1, <1>2, <1>3, <1>4, <1>5, StepKinds

LEMMA StepOverlap ==
  ASSUME Types, ProcessInv, OverlapInv, [Next]_vars
  PROVE  OverlapInv' /\ crossed \subseteq crossed'
<1> DEFINE Paired == \A t, u \in Open :
                       SessionOf[t] = SessionOf[u] /\ t # u => t \in crossed /\ u \in crossed
           Begun == \A t \in crossed : t \in Turn /\ pc[t] # "idle"
           Used(t) == pc[t] \in Bound /\ Orderly(SessionOf[t]) =>
                        agent[t] = registry[worker[t]][SessionOf[t]]
<1> USE SessionType
<1>1. SUFFICES Begun' /\ Paired' /\ (\A t \in Turn : Used(t)') /\ crossed \subseteq crossed'
  BY DEF OverlapInv
<1>2. Begun /\ Paired /\ \A t \in Turn : Used(t)
  BY DEF OverlapInv
<1>3. \A s : crossed \subseteq crossed' /\ Orderly(s)' => Orderly(s)
  BY DEF Orderly
<1>4. ASSUME NEW t \in Turn, NEW w \in Worker, Begin(t, w)
      PROVE  Begun' /\ Paired' /\ (\A u \in Turn : Used(u)') /\ crossed \subseteq crossed'
  <2> DEFINE others == {u \in Open : SessionOf[u] = SessionOf[t]}
  <2>1. /\ pc[t] = "idle" /\ registry' = registry
        /\ worker' = [worker EXCEPT ![t] = w]
        /\ \A u \in Turn \ {t} : pc'[u] = pc[u] /\ agent'[u] = agent[u]
        /\ pc'[t] \in {"restore", "scope", "inputs"}
        /\ pc'[t] # "restore" => agent'[t] = registry[w][SessionOf[t]]
    BY <1>4 DEF Begin, Bind, Goto, process, Types, TurnTypes
  <2>2. crossed' = IF others = {} THEN crossed ELSE crossed \cup others \cup {t}
    BY <1>4 DEF Begin
  <2>3. Open' = Open \cup {t} /\ t \notin Open
    BY <2>1 DEF Open
  <2>4. Paired'
    <3> SUFFICES ASSUME NEW u \in Open', NEW v \in Open', SessionOf[u] = SessionOf[v], u # v
                 PROVE  u \in crossed' /\ v \in crossed'
      OBVIOUS
    <3>1. CASE u \in Open /\ v \in Open
      BY <1>2, <2>2, <3>1
    <3>2. CASE u = t \/ v = t
      <4>1. u \in others \cup {t} /\ v \in others \cup {t} /\ others # {}
        BY <2>3, <3>2
      <4> QED BY <2>2, <4>1
    <3> QED BY <2>3, <3>1, <3>2
  <2>5. ASSUME NEW u \in Turn PROVE Used(u)'
    <3>1. CASE u = t
      BY <2>1, <3>1 DEF Bound, Filling, Types, TurnTypes
    <3>2. CASE u # t
      BY <1>2, <1>3, <2>1, <2>2, <3>2 DEF Types, TurnTypes
    <3> QED BY <3>1, <3>2
  <2>6. Begun'
    BY <1>2, <2>1, <2>2 DEF Open, Types, TurnTypes
  <2> QED BY <2>2, <2>4, <2>5, <2>6
<1>5. ASSUME NEW t \in Turn, GivenAgent(t)
      PROVE  Begun' /\ Paired' /\ (\A u \in Turn : Used(u)') /\ crossed \subseteq crossed'
  <2>1. /\ pc[t] = "restore" /\ worker' = worker /\ worker[t] \in Worker
        /\ registry' = [registry EXCEPT ![worker[t]][SessionOf[t]] = t]
        /\ \A u \in Turn \ {t} : pc'[u] = pc[u] /\ agent'[u] = agent[u]
        /\ pc'[t] \in {"scope", "inputs"} /\ agent'[t] = t
        /\ crossed' = crossed
    BY <1>5 DEF GivenAgent, Built, Bind, Goto, Types, TurnTypes, ProcessInv, overlap
  <2>2. Open' = Open /\ t \in Open
    BY <2>1 DEF Open
  <2>3. \A v \in Worker, s \in Session :
          registry'[v][s] = IF v = worker[t] /\ s = SessionOf[t] THEN t ELSE registry[v][s]
    BY <2>1 DEF Types, ProcessTypes
  <2>4. ASSUME NEW u \in Turn, pc'[u] \in Bound, Orderly(SessionOf[u])'
        PROVE  agent'[u] = registry'[worker'[u]][SessionOf[u]]
    <3>1. CASE u = t
      BY <2>1, <2>3, <3>1
    <3>2. CASE u # t
      <4>1. pc[u] \in Bound /\ Orderly(SessionOf[u]) /\ u \in Open /\ worker[u] \in Worker
        BY <1>3, <2>1, <2>4, <3>2 DEF Bound, Filling, Open, ProcessInv
      <4>2. SessionOf[u] # SessionOf[t]
        BY <1>2, <2>2, <3>2, <4>1 DEF Orderly
      <4> QED BY <1>2, <2>1, <2>3, <3>2, <4>1, <4>2
    <3> QED BY <3>1, <3>2
  <2>5. Begun'
    BY <1>2, <2>1
  <2> QED BY <1>2, <2>1, <2>2, <2>4, <2>5
<1>6. ASSUME NEW t \in Turn, Onward(t)
      PROVE  Begun' /\ Paired' /\ (\A u \in Turn : Used(u)') /\ crossed \subseteq crossed'
  <2>1. /\ registry' = registry /\ worker' = worker /\ crossed' = crossed
        /\ t \in Open
        /\ \A u \in Turn \ {t} : pc'[u] = pc[u] /\ agent'[u] = agent[u]
        /\ pc'[t] \in Bound => pc[t] \in Bound /\ agent'[t] = agent[t]
    BY <1>6 DEF Onward, Goto, Types, TurnTypes, Open
  <2>2. Open' \subseteq Open
    BY <2>1 DEF Open
  <2>3. \A u \in Turn : pc'[u] \in Bound => pc[u] \in Bound /\ agent'[u] = agent[u]
    BY <2>1
  <2>4. Begun'
    BY <1>2, <1>6, <2>1 DEF Onward, Goto, Types, TurnTypes
  <2> QED BY <1>2, <1>3, <2>1, <2>2, <2>3, <2>4
<1>7. ASSUME NEW w \in Worker, Crash(w)
      PROVE  Begun' /\ Paired' /\ (\A u \in Turn : Used(u)') /\ crossed \subseteq crossed'
  <2>1. /\ worker' = worker /\ crossed' = crossed
        /\ registry' = [registry EXCEPT ![w] = [s \in Session |-> None]]
        /\ \A u \in Turn : \/ pc'[u] = pc[u] /\ agent'[u] = agent[u]
                           \/ u \in Open /\ worker[u] = w /\ pc'[u] = "dead"
        /\ \A u \in Open : worker[u] = w => pc'[u] = "dead"
    BY <1>7 DEF Crash, Open, overlap
  <2>2. Open' \subseteq Open
    BY <2>1 DEF Open
  <2>3. \A v \in Worker, s \in Session :
          registry'[v][s] = IF v = w THEN None ELSE registry[v][s]
    BY <2>1 DEF Types, ProcessTypes
  <2>4. ASSUME NEW u \in Turn, pc'[u] \in Bound, Orderly(SessionOf[u])'
        PROVE  agent'[u] = registry'[worker'[u]][SessionOf[u]]
    <3>1. u \in Open /\ pc'[u] = pc[u] /\ agent'[u] = agent[u] /\ worker[u] # w
             /\ worker[u] \in Worker
      BY <2>1, <2>4 DEF Bound, Filling, Open, ProcessInv
    <3> QED BY <1>2, <1>3, <2>1, <2>3, <2>4, <3>1
  <2>5. Begun'
    BY <1>2, <2>1
  <2> QED BY <1>2, <2>1, <2>2, <2>4, <2>5
<1>8. CASE UNCHANGED <<pc, worker, agent, registry, crossed>>
  BY <1>8 DEF OverlapInv, Open, Orderly
<1> QED BY <1>4, <1>5, <1>6, <1>7, <1>8, StepKinds

-----------------------------------------------------------------------------
(* The event record *)

(* A step that publishes nothing and ends no turn. *)
LEMMA EventsKept ==
  ASSUME EventsInv, crossed \subseteq crossed', shaken \subseteq shaken',
         trace' = trace, recorded' = recorded,
         \A t \in Turn : pc'[t] \in Published => pc[t] \in Published,
         \A t \in Turn : pc'[t] = "over" <=> pc[t] = "over"
  PROVE  EventsInv'
BY DEF EventsInv, TraceInv, EventsOnce

LEMMA PublishEvents ==
  ASSUME Types, OverlapInv, EventsInv, UNCHANGED <<worker, recorded, crossed, shaken>>,
         NEW t \in Turn, NEW answer, Publish(t, answer), t \in Traced, pc'[t] # "over",
         \A u \in Turn \ {t} : pc'[u] = pc[u]
  PROVE  EventsInv'
<1> USE DEF EventsInv, TraceInv
<1>1. \A u \in Turn : trace'[u] =
        IF u \in Traced /\ worker[u] = worker[t] /\ SessionOf[u] = SessionOf[t]
          THEN trace[u] \cup {t} ELSE trace[u]
  BY DEF Publish
<1>2. \A u \in Traced : u # t /\ SessionOf[u] = SessionOf[t] => t \in crossed
  BY DEF OverlapInv, Traced
<1>3. \A u, v \in Turn : u \in trace'[v] /\ u # v => u \in crossed'
  <2> SUFFICES ASSUME NEW u \in Turn, NEW v \in Turn, u \in trace'[v], u # v
               PROVE  u \in crossed
    OBVIOUS
  <2>1. CASE u \in trace[v]
    BY <2>1
  <2>2. CASE u \notin trace[v]
    <3>1. u = t /\ v \in Traced /\ SessionOf[v] = SessionOf[t]
      BY <1>1, <2>2
    <3> QED BY <1>2, <3>1
  <2> QED BY <2>1, <2>2
<1>4. \A u \in Turn : pc'[u] \in Published => u \in trace'[u]
  BY <1>1
<1>5. \A u \in Turn : u \notin crossed /\ pc'[u] # "over" => recorded'[u] = 0
  BY DEF Traced, Open
<1>6. EventsOnce'
  BY DEF EventsOnce
<1> QED BY <1>3, <1>4, <1>5, <1>6

LEMMA LeaveEvents ==
  ASSUME Types, EventsInv, NEW t \in Turn, Leave(t), recorded' = recorded,
         crossed \subseteq crossed', shaken \subseteq shaken',
         pc[t] # "over", t \in crossed' \cup shaken'
  PROVE  EventsInv'
<1> USE DEF EventsInv, TraceInv
<1>1. /\ trace' = [trace EXCEPT ![t] = {}] /\ pc'[t] = "over"
      /\ \A u \in Turn \ {t} : pc'[u] = pc[u]
  BY DEF Leave, Goto, Types, TurnTypes
<1>2. \A u, v \in Turn : u \in trace'[v] => u \in trace[v]
  BY <1>1 DEF Types, TurnTypes
<1>3. \A u \in Turn : pc'[u] \in Published => u \in trace'[u]
  BY <1>1 DEF Published, Filling, Recording, Types, TurnTypes
<1>4. \A u \in Turn : u \notin crossed' => recorded[u] <= 1
  BY DEF EventsOnce
<1>5. EventsOnce'
  BY <1>1, <1>4 DEF EventsOnce
<1> QED BY <1>1, <1>2, <1>3, <1>5

LEMMA RecordEvents ==
  ASSUME Types, EventsInv, NEW t \in Turn, AppendEvents(t)
  PROVE  EventsInv'
<1> USE DEF EventsInv, TraceInv
<1>1. /\ trace' = [trace EXCEPT ![t] = {}] /\ pc[t] = "events" /\ pc'[t] = "over"
      /\ \A u \in Turn \ {t} : pc'[u] = pc[u]
      /\ crossed' = crossed /\ shaken' = shaken
      /\ \A u \in Turn : recorded'[u] = IF u \in trace[t] THEN recorded[u] + 1 ELSE recorded[u]
  BY DEF AppendEvents, Leave, Goto, Types, TurnTypes, overlap
<1>2. t \in trace[t]
  BY <1>1 DEF Published, Recording
<1>3. \A u \in Turn \ {t} : u \notin crossed => recorded'[u] = recorded[u]
  BY <1>1
<1>4. t \notin crossed => recorded'[t] = 1
  BY <1>1, <1>2
<1>5. EventsOnce'
  BY <1>1, <1>3, <1>4 DEF EventsOnce
<1>6. \A u \in Turn : pc'[u] \in Published => u \in trace'[u]
  BY <1>1 DEF Published, Filling, Recording, Types, TurnTypes
<1>7. \A u, v \in Turn : u \in trace'[v] => u \in trace[v]
  BY <1>1 DEF Types, TurnTypes
<1> QED BY <1>1, <1>3, <1>5, <1>6, <1>7

LEMMA StepEvents ==
  ASSUME Types, ProcessInv, OverlapInv, EventsInv, [Next]_vars
  PROVE  EventsInv'
<1> USE DEF Goto, overlap
<1> DEFINE Quiet == /\ UNCHANGED <<trace, recorded>>
                    /\ crossed \subseteq crossed' /\ shaken \subseteq shaken'
                    /\ \A u \in Turn : pc'[u] \in Published => pc[u] \in Published
                    /\ \A u \in Turn : pc'[u] = "over" <=> pc[u] = "over"
<1>1. Quiet => EventsInv'
  BY EventsKept
<1>2. ASSUME NEW t \in Turn, NEW phase \in Phase \ {"over"}, Goto(t, phase),
             phase \in Published => pc[t] \in Published,
             pc[t] # "over", UNCHANGED <<trace, recorded>>,
             crossed \subseteq crossed', shaken \subseteq shaken'
      PROVE  EventsInv'
  BY <1>1, <1>2 DEF Types, TurnTypes
<1> USE DEF Published, Filling, Recording, Phase
<1>3. ASSUME NEW t \in Turn, NEW w \in Worker, Begin(t, w)
      PROVE  EventsInv'
  <2>1. crossed \subseteq crossed' /\ shaken' = shaken /\ UNCHANGED <<trace, recorded>>
    BY <1>3 DEF Begin, stores
  <2> QED BY <1>2, <1>3, <2>1 DEF Begin, Bind
<1>4. ASSUME NEW t \in Turn, NEW snapshot, pc[t] = "restore", Built(t, snapshot),
             shaken \subseteq shaken'
      PROVE  EventsInv'
  <2>1. UNCHANGED <<trace, recorded, crossed>>
    BY <1>4 DEF Built, stores
  <2>2. CASE snapshot.memory = {} /\ QueryOf[t] \in Cacheable
    BY <1>2, <1>4, <2>1, <2>2 DEF Built, Bind
  <2>3. CASE ~(snapshot.memory = {} /\ QueryOf[t] \in Cacheable)
    BY <1>2, <1>4, <2>1, <2>3 DEF Built, Bind
  <2> QED BY <2>2, <2>3
<1>5. ASSUME NEW t \in Turn, NEW known, pc[t] = "inputs", Ask(t, known), shaken \subseteq shaken'
      PROVE  EventsInv'
  <2>1. UNCHANGED <<trace, recorded, crossed>> /\ pc' = [pc EXCEPT ![t] = "turn"]
    BY <1>5 DEF Ask, stores, local
  <2>2. "turn" \in Phase /\ "turn" # "over" /\ "turn" \notin Published
    OBVIOUS
  <2> QED BY <1>2, <1>5, <2>1, <2>2
<1>6. ASSUME NEW t \in Turn, Lookup(t)
      PROVE  EventsInv'
  <2>1. CASE Hits(t) # {}
    <3>1. t \in Traced /\ pc'[t] = "persist" /\ \A u \in Turn \ {t} : pc'[u] = pc[u]
      BY <1>6, <2>1 DEF Lookup, Traced, Open, Types, TurnTypes
    <3> QED BY <1>6, <2>1, <3>1, PublishEvents DEF Lookup, stores
  <2>2. CASE Hits(t) = {}
    BY <1>2, <1>6, <2>2 DEF Lookup, stores
  <2> QED BY <2>1, <2>2
<1>7. ASSUME NEW t \in Turn, Answer(t) \/ Fail(t)
      PROVE  EventsInv'
  <2>1. t \in Traced /\ pc'[t] # "over" /\ \A u \in Turn \ {t} : pc'[u] = pc[u]
    BY <1>7 DEF Answer, Fail, Traced, Open, Types, TurnTypes
  <2>2. UNCHANGED <<worker, recorded, crossed, shaken>>
    BY <1>7 DEF Answer, Fail, stores
  <2>3. Publish(t, t) \/ Publish(t, "error")
    BY <1>7 DEF Answer, Fail
  <2> QED BY <2>1, <2>2, <2>3, PublishEvents
<1>8. ASSUME NEW t \in Turn, ReadScope(t) \/ Load(t) \/ Fill(t) \/ Persist(t)
      PROVE  EventsInv'
  BY <1>2, <1>8 DEF ReadScope, Load, Fill, Persist, stores
<1>9. ASSUME NEW t \in Turn, ReadIndex(t)
      PROVE  EventsInv'
  <2>1. CASE pc[t] = "touch"
    BY <1>2, <1>9, <2>1 DEF ReadIndex, stores
  <2>2. CASE pc[t] = "reply"
    BY <1>2, <1>9, <2>2 DEF ReadIndex, stores
  <2> QED BY <1>9, <2>1, <2>2 DEF ReadIndex
<1>10. ASSUME NEW t \in Turn, AppendTurn(t)
       PROVE  EventsInv'
  <2>1. CASE pc[t] = "questionSave"
    BY <1>2, <1>10, <2>1 DEF AppendTurn
  <2>2. CASE pc[t] = "replySave"
    BY <1>2, <1>10, <2>2 DEF AppendTurn
  <2> QED BY <1>10, <2>1, <2>2 DEF AppendTurn
<1>11. ASSUME NEW t \in Turn, TouchFails(t)
       PROVE  EventsInv'
  BY <1>11, LeaveEvents DEF TouchFails, stores
<1>12. ASSUME NEW t \in Turn, NEW p \in Pref, Prefer(t, p)
       PROVE  EventsInv'
  BY <1>1, <1>12 DEF Prefer, local
<1>13. ASSUME NEW t \in Turn, ReadFault(t)
       PROVE  EventsInv'
  <2>1. CASE pc[t] \in {"scope", "remember"}
    BY <1>2, <1>4, <1>5, <1>13, <2>1 DEF ReadFault, stores
  <2>2. CASE pc[t] \notin {"scope", "remember"}
    BY <1>4, <1>5, <1>13, <2>2 DEF ReadFault
  <2> QED BY <2>1, <2>2
<1>14. ASSUME NEW t \in Turn, WriteFault(t)
       PROVE  EventsInv'
  <2>1. /\ shaken' = shaken \cup {t} /\ recorded' = recorded /\ crossed' = crossed
    BY <1>14 DEF WriteFault, stores
  <2>2. CASE pc[t] \in Recording /\ Leave(t)
    BY <2>1, <2>2, LeaveEvents
  <2>3. CASE ~(pc[t] \in Recording /\ Leave(t))
    <3>1. trace' = trace
      BY <1>14, <2>3 DEF WriteFault, local
    <3>2. CASE pc[t] = "lookup"
      BY <1>2, <1>14, <2>1, <2>3, <3>1, <3>2 DEF WriteFault
    <3>3. CASE pc[t] \in {"load", "fill"}
      BY <1>2, <1>14, <2>1, <2>3, <3>1, <3>3 DEF WriteFault
    <3>4. CASE pc[t] = "persist"
      BY <1>2, <1>14, <2>1, <2>3, <3>1, <3>4 DEF WriteFault
    <3> QED BY <1>14, <2>3, <3>2, <3>3, <3>4 DEF WriteFault
  <2> QED BY <2>2, <2>3
<1>15. ASSUME NEW w \in Worker, Crash(w)
       PROVE  EventsInv'
  <2>1. /\ recorded' = recorded /\ crossed' = crossed /\ shaken' = shaken
        /\ \A u \in Turn : \/ pc'[u] = pc[u] /\ trace'[u] = trace[u]
                           \/ pc'[u] = "dead" /\ trace'[u] = {} /\ pc[u] # "over"
    BY <1>15 DEF Crash, Open, stores
  <2>2. \A u \in Turn : pc'[u] = "over" <=> pc[u] = "over"
    BY <2>1
  <2>3. /\ \A u, v \in Turn : u \in trace'[v] => u \in trace[v]
        /\ \A u \in Turn : pc'[u] \in Published => pc[u] \in Published /\ trace'[u] = trace[u]
    BY <2>1
  <2> QED BY <2>1, <2>2, <2>3 DEF EventsInv, TraceInv, EventsOnce
<1>16. CASE UNCHANGED vars
  BY <1>1, <1>16 DEF vars, stores, local
<1> HIDE DEF Published, Filling, Recording, Phase
<1>17. ASSUME NEW t \in Turn, Step(t)
       PROVE  EventsInv'
  BY <1>4, <1>5, <1>6, <1>7, <1>8, <1>9, <1>10, <1>11, <1>17, RecordEvents
     DEF Step, Restore, BuildInputs
<1> QED BY <1>3, <1>12, <1>13, <1>14, <1>15, <1>16, <1>17 DEF Next, Finished

-----------------------------------------------------------------------------
(* The conversation record *)

(* A step that writes no row and reads no index. *)
RecordQuiet(t) ==
  /\ pc'[t] \in {"questionSave", "reply", "replySave"} =>
       pc'[t] = pc[t] /\ index'[t] = index[t]
  /\ pc[t] \in {"reply", "replySave", "events", "over", "dead"} =>
       pc'[t] \in {"reply", "replySave", "events", "over", "dead"}
  /\ pc[t] \in {"events", "over", "dead"} => pc'[t] \in {"events", "over", "dead"}

LEMMA RecordKept ==
  ASSUME RecordInv, log' = log, \A t \in Turn : RecordQuiet(t)
  PROVE  RecordInv'
<1> USE DEF RecordInv, RecordQuiet
<1>1. AnswerAfterQuestion'
  BY DEF AnswerAfterQuestion
<1>2. RowsInv'
  BY DEF RowsInv, RowOK, Row
<1>3. IndexInv'
  BY DEF IndexInv, QuestionOf
<1> QED BY <1>1, <1>2, <1>3

LEMMA StepRecordKinds ==
  ASSUME Types, [Next]_vars
  PROVE  \/ log' = log /\ \A t \in Turn : RecordQuiet(t)
         \/ \E t \in Turn : ReadIndex(t) \/ AppendTurn(t)
<1> DEFINE Quiet == log' = log /\ \A t \in Turn : RecordQuiet(t)
<1> USE DEF Goto, RecordQuiet, Types, TurnTypes, stores, local
<1>1. ASSUME NEW t \in Turn, NEW w \in Worker, Begin(t, w)
      PROVE  Quiet
  BY <1>1 DEF Begin, Bind
<1>2. ASSUME NEW t \in Turn, NEW snapshot, pc[t] = "restore", Built(t, snapshot)
      PROVE  Quiet
  BY <1>2 DEF Built, Bind
<1>3. ASSUME NEW t \in Turn, NEW known, pc[t] = "inputs", Ask(t, known)
      PROVE  Quiet
  BY <1>3 DEF Ask
<1>4. ASSUME NEW t \in Turn, Lookup(t)
      PROVE  Quiet
  BY <1>4 DEF Lookup
<1>5. ASSUME NEW t \in Turn, ReadScope(t) \/ Answer(t) \/ Fail(t)
      PROVE  Quiet
  BY <1>5 DEF ReadScope, Answer, Fail
<1>6. ASSUME NEW t \in Turn, Load(t) \/ Fill(t) \/ Persist(t)
      PROVE  Quiet
  BY <1>6 DEF Load, Fill, Persist
<1>7. ASSUME NEW t \in Turn, Leave(t), log' = log
      PROVE  Quiet
  BY <1>7 DEF Leave
<1>8. ASSUME NEW t \in Turn, TouchFails(t) \/ AppendEvents(t)
      PROVE  Quiet
  BY <1>7, <1>8 DEF TouchFails, AppendEvents
<1>9. ASSUME NEW t \in Turn, NEW p \in Pref, Prefer(t, p)
      PROVE  Quiet
  BY <1>9 DEF Prefer
<1>10. ASSUME NEW t \in Turn, ReadFault(t)
       PROVE  Quiet
  BY <1>2, <1>3, <1>10 DEF ReadFault
<1>11. ASSUME NEW t \in Turn, WriteFault(t)
       PROVE  Quiet
  <2>1. CASE pc[t] \in Recording /\ Leave(t)
    BY <1>7, <1>11, <2>1 DEF WriteFault
  <2>2. CASE ~(pc[t] \in Recording /\ Leave(t))
    BY <1>11, <2>2 DEF WriteFault
  <2> QED BY <2>1, <2>2
<1>12. ASSUME NEW w \in Worker, Crash(w)
       PROVE  Quiet
  BY <1>12 DEF Crash, Open
<1>13. CASE UNCHANGED vars
  BY <1>13 DEF vars
<1> HIDE DEF Goto, RecordQuiet, Types, TurnTypes, stores, local
<1>14. ASSUME NEW t \in Turn, Step(t)
       PROVE  Quiet \/ ReadIndex(t) \/ AppendTurn(t)
  BY <1>2, <1>3, <1>4, <1>5, <1>6, <1>8, <1>14 DEF Step, Restore, BuildInputs
<1> QED BY <1>1, <1>9, <1>10, <1>11, <1>12, <1>13, <1>14 DEF Next, Finished

(* The index that is read is greater than that of every row. *)
LEMMA ReadRecord ==
  ASSUME Types, RecordInv, NEW t \in Turn, ReadIndex(t)
  PROVE  RecordInv'
<1> USE DEF RecordInv
<1> DEFINE s == SessionOf[t]
<1>1. /\ log' = log /\ index'[t] = MaxIndex(s) + 1
      /\ \A u \in Turn \ {t} : pc'[u] = pc[u] /\ index'[u] = index[u]
      /\ \/ pc[t] = "touch" /\ pc'[t] = "questionSave"
         \/ pc[t] = "reply" /\ pc'[t] = "replySave"
  BY DEF ReadIndex, Goto, Types, TurnTypes, stores
<1>2. /\ index'[t] \in 1..(Cardinality(log[s]) + 1)
      /\ \A row \in log[s] : row.index \in Nat /\ row.index < index'[t]
  <2>1. \A row \in log[s] : row.index \in Nat
    BY SessionType DEF RowsInv, Row
  <2> HIDE DEF s
  <2>2. s \in Session
    BY SessionType DEF s
  <2> QED BY <1>1, <2>1, <2>2, IndexBounds
<1>3. RowsInv'
  BY <1>1 DEF RowsInv, RowOK, Row
<1>4. IndexInv'
  BY <1>1, <1>2 DEF IndexInv, QuestionOf
<1>5. AnswerAfterQuestion'
  BY <1>1 DEF AnswerAfterQuestion
<1> QED BY <1>3, <1>4, <1>5

LEMMA AppendRecord ==
  ASSUME Types, RecordInv, NEW t \in Turn, AppendTurn(t)
  PROVE  RecordInv'
<1> USE DEF RecordInv
<1> DEFINE s == SessionOf[t]
           role == IF pc[t] = "questionSave" THEN "buyer" ELSE "agent"
           new == [turn |-> t, role |-> role, index |-> index[t]]
<1>1. s \in Session
  BY SessionType
<1>2. /\ log' = [log EXCEPT ![s] = log[s] \cup {new}]
      /\ \A u \in Turn \ {t} : pc'[u] = pc[u] /\ index'[u] = index[u]
      /\ \/ pc[t] = "questionSave" /\ role = "buyer" /\ pc'[t] = "reply"
         \/ pc[t] = "replySave" /\ role = "agent" /\ pc'[t] = "events"
  BY DEF AppendTurn, Goto, Types, TurnTypes
<1>3. /\ log'[s] = log[s] \cup {new}
      /\ \A r \in Session : r # s => log'[r] = log[r]
  BY <1>1, <1>2 DEF Types, StoreTypes
<1>4. /\ new \in Row /\ new.turn = t /\ new.role = role /\ new.index = index[t]
      /\ index[t] \in 1..(Cardinality(log[s]) + 1)
  BY <1>2 DEF Row, IndexInv, Types, TurnTypes
<1> HIDE DEF new, role
<1>5. \A row \in log[s] : ~(row.turn = t /\ row.role = role)
  BY <1>1, <1>2 DEF RowsInv, RowOK
<1>6. /\ Cardinality(log[s]) \in Nat /\ IsFiniteSet(log'[s])
      /\ Cardinality(log'[s]) = Cardinality(log[s]) + 1
  <2>1. IsFiniteSet(log[s]) /\ new \notin log[s]
    BY <1>1, <1>4, <1>5 DEF RowsInv
  <2> QED BY <1>3, <2>1, FS_AddElement, FS_CardinalityType
<1>7. \A r \in Session : /\ Cardinality(log[r]) \in Nat /\ Cardinality(log'[r]) \in Nat
                           /\ Cardinality(log[r]) <= Cardinality(log'[r])
  <2> TAKE r \in Session
  <2>1. Cardinality(log[r]) \in Nat
    BY FS_CardinalityType DEF RowsInv
  <2>2. CASE r = s
    BY <1>6, <2>2
  <2>3. CASE r # s
    BY <1>3, <2>1, <2>3
  <2> QED BY <2>2, <2>3
<1>8. \A r \in Session : \A row \in log[r] : RowOK(row, r)'
  <2> SUFFICES ASSUME NEW r \in Session, NEW row \in log[r] PROVE RowOK(row, r)'
    OBVIOUS
  <2>1. RowOK(row, r) /\ row.turn \in Turn
    BY DEF RowsInv, Row
  <2>2. row.index \in 1..Cardinality(log'[r])
    BY <1>7, <2>1 DEF RowOK
  <2>3. CASE row.turn = t
    BY <1>2, <2>1, <2>2, <2>3 DEF RowOK
  <2>4. CASE row.turn # t
    BY <1>2, <2>1, <2>2, <2>4 DEF RowOK
  <2> QED BY <2>3, <2>4
<1>9. \A row : row = new => RowOK(row, s)'
  <2> TAKE row
  <2>1. new.index \in 1..Cardinality(log'[s])
    BY <1>4, <1>6
  <2>2. CASE row = new
    BY <1>2, <1>4, <2>1, <2>2 DEF RowOK
  <2> QED BY <2>2
<1>10. RowsInv'
  <2> SUFFICES ASSUME NEW r \in Session
               PROVE  /\ log'[r] \subseteq Row /\ IsFiniteSet(log'[r])
                      /\ \A row \in log'[r] : RowOK(row, r)'
                      /\ \A row, twin \in log'[r] :
                           row.turn = twin.turn /\ row.role = twin.role => row = twin
    BY DEF RowsInv
  <2>1. CASE r = s
    <3>1. log'[s] \subseteq Row
      BY <1>1, <1>3, <1>4 DEF RowsInv
    <3>2. \A row \in log'[s] : RowOK(row, s)'
      BY <1>1, <1>3, <1>8, <1>9
    <3>3. \A row, twin \in log'[s] :
            row.turn = twin.turn /\ row.role = twin.role => row = twin
      BY <1>1, <1>3, <1>4, <1>5 DEF RowsInv
    <3> QED BY <1>6, <2>1, <3>1, <3>2, <3>3
  <2>2. CASE r # s
    BY <1>3, <1>8, <2>2 DEF RowsInv
  <2> QED BY <2>1, <2>2
<1>11. \A u \in Turn \ {t} : QuestionOf(u)' = QuestionOf(u)
  BY <1>3, <1>4, SessionType DEF QuestionOf
<1>12. IndexInv'
  <2> SUFFICES ASSUME NEW u \in Turn
               PROVE  /\ pc'[u] \in {"questionSave", "replySave"} =>
                           index'[u] \in 1..(Cardinality(log'[SessionOf[u]]) + 1)
                      /\ pc'[u] \in {"reply", "replySave"} => QuestionOf(u)' # {}
                      /\ pc'[u] = "replySave" =>
                           \A row \in QuestionOf(u)' : row.index < index'[u]
    BY DEF IndexInv
  <2>1. CASE u = t
    <3>1. pc'[t] = "reply" => new \in QuestionOf(t)'
      BY <1>2, <1>3, <1>4 DEF QuestionOf
    <3> QED BY <1>2, <2>1, <3>1
  <2>2. CASE u # t
    <3>1. /\ Cardinality(log[SessionOf[u]]) \in Nat
          /\ Cardinality(log'[SessionOf[u]]) \in Nat
          /\ Cardinality(log[SessionOf[u]]) <= Cardinality(log'[SessionOf[u]])
      BY <1>7, SessionType
    <3>2. pc'[u] = pc[u] /\ index'[u] = index[u] /\ QuestionOf(u)' = QuestionOf(u)
      BY <1>2, <1>11, <2>2
    <3>3. \A n : n \in 1..(Cardinality(log[SessionOf[u]]) + 1) =>
                   n \in 1..(Cardinality(log'[SessionOf[u]]) + 1)
      BY <3>1
    <3> QED BY <3>2, <3>3 DEF IndexInv
  <2> QED BY <2>1, <2>2
<1>13. AnswerAfterQuestion'
  <2> SUFFICES ASSUME NEW r \in Session, NEW reply \in log'[r], reply.role = "agent"
               PROVE  \E question \in log'[r] :
                        /\ question.turn = reply.turn /\ question.role = "buyer"
                        /\ question.index < reply.index
    BY DEF AnswerAfterQuestion
  <2>1. CASE reply \in log[r]
    <3>1. log[r] \subseteq log'[r]
      BY <1>3
    <3> QED BY <2>1, <3>1 DEF AnswerAfterQuestion
  <2>2. CASE reply \notin log[r]
    <3>1. r = s /\ reply = new /\ pc[t] = "replySave"
      BY <1>2, <1>3, <1>4, <2>2
    <3>2. PICK question \in QuestionOf(t) : question.index < index[t]
      BY <3>1 DEF IndexInv
    <3> QED BY <1>3, <1>4, <3>1, <3>2 DEF QuestionOf
  <2> QED BY <2>1, <2>2
<1> QED BY <1>10, <1>12, <1>13

LEMMA StepRecord ==
  ASSUME Types, RecordInv, [Next]_vars
  PROVE  RecordInv'
BY StepRecordKinds, RecordKept, ReadRecord, AppendRecord

(* A record has at most a question and an answer of each turn. *)
LEMMA RecordSize ==
  ASSUME RecordInv, NEW s \in Session
  PROVE  Cardinality(log[s]) <= 2 * Cardinality(Turn)
<1> DEFINE Places == Turn \X {"buyer", "agent"}
           f == [row \in log[s] |-> <<row.turn, row.role>>]
<1>1. IsFiniteSet({"buyer", "agent"}) /\ Cardinality({"buyer", "agent"}) = 2
  <2>1. {"buyer", "agent"} = {"buyer"} \cup {"agent"}
    OBVIOUS
  <2>2. IsFiniteSet({"buyer"}) /\ Cardinality({"buyer"}) = 1
    BY FS_Singleton
  <2> QED BY <2>1, <2>2, FS_AddElement
<1>2. /\ IsFiniteSet(Places) /\ Cardinality(Places) = Cardinality(Turn) * 2
  BY <1>1, FS_Product, ConversationAssumption
<1>3. f \in Injection(log[s], Places)
  <2>1. f \in [log[s] -> Places]
    BY DEF RecordInv, RowsInv, Row
  <2>2. \A row, twin \in log[s] : f[row] = f[twin] => row = twin
    BY DEF RecordInv, RowsInv
  <2> QED BY <2>1, <2>2 DEF Injection, IsInjective
<1>4. Cardinality(log[s]) <= Cardinality(Places)
  <2> HIDE DEF f, Places
  <2> QED BY <1>2, <1>3, FS_Injection
<1> QED BY <1>2, <1>4, FS_CardinalityType, ConversationAssumption

-----------------------------------------------------------------------------
(* Answers and the cache *)

(* What no step changes: the buyers, and the answer of a turn that has one; *)
(* turns do not become orderly again.                                       *)
LEMMA StepStable ==
  ASSUME Types, ProcessInv, [Next]_vars
  PROVE  /\ buyer' = buyer /\ shaken \subseteq shaken'
         /\ \A t \in Turn : worker[t] # None => worker'[t] = worker[t]
         /\ \A t \in Turn : pc[t] \notin Early =>
              /\ pc'[t] \notin Early
              /\ said'[t] = said[t] /\ history'[t] = history[t] /\ basis'[t] = basis[t]
<1> DEFINE Kept(t) == pc[t] \notin Early =>
                        /\ pc'[t] \notin Early
                        /\ said'[t] = said[t] /\ history'[t] = history[t] /\ basis'[t] = basis[t]
           Stable == /\ buyer' = buyer /\ shaken \subseteq shaken'
                     /\ \A t \in Turn : worker[t] # None => worker'[t] = worker[t]
                     /\ \A t \in Turn : Kept(t)
<1> USE DEF Goto, Types, TurnTypes, stores, local, Early
<1>1. ASSUME NEW t \in Turn, NEW w \in Worker, Begin(t, w)
      PROVE  Stable
  BY <1>1 DEF Begin, Bind, ProcessInv
<1>2. ASSUME NEW t \in Turn, NEW snapshot, pc[t] = "restore", Built(t, snapshot),
             shaken \subseteq shaken'
      PROVE  Stable
  BY <1>2 DEF Built, Bind
<1>3. ASSUME NEW t \in Turn, NEW known, pc[t] = "inputs", Ask(t, known), shaken \subseteq shaken'
      PROVE  Stable
  BY <1>3 DEF Ask
<1>4. ASSUME NEW t \in Turn, NEW answer, Publish(t, answer)
      PROVE  \A u \in Turn \ {t} : said'[u] = said[u]
  BY <1>4 DEF Publish
<1>5. ASSUME NEW t \in Turn, Lookup(t)
      PROVE  Stable
  <2>1. CASE Hits(t) # {}
    <3>1. \A u \in Turn \ {t} : said'[u] = said[u]
      BY <1>4, <1>5, <2>1 DEF Lookup
    <3> QED BY <1>5, <2>1, <3>1 DEF Lookup
  <2>2. CASE Hits(t) = {}
    BY <1>5, <2>2 DEF Lookup
  <2> QED BY <2>1, <2>2
<1>6. ASSUME NEW t \in Turn, Answer(t) \/ Fail(t)
      PROVE  Stable
  <2>1. \A u \in Turn \ {t} : said'[u] = said[u]
    BY <1>4, <1>6 DEF Answer, Fail
  <2> QED BY <1>6, <2>1 DEF Answer, Fail
<1>7. ASSUME NEW t \in Turn, ReadScope(t) \/ Load(t) \/ Fill(t) \/ Persist(t)
      PROVE  Stable
  BY <1>7 DEF ReadScope, Load, Fill, Persist
<1>8. ASSUME NEW t \in Turn, Leave(t), pc[t] \in Recording, buyer' = buyer,
             shaken \subseteq shaken'
      PROVE  Stable
  BY <1>8 DEF Leave, Recording
<1>9. ASSUME NEW t \in Turn, TouchFails(t) \/ AppendEvents(t)
      PROVE  Stable
  BY <1>8, <1>9 DEF TouchFails, AppendEvents, Recording
<1>10. ASSUME NEW t \in Turn, ReadIndex(t) \/ AppendTurn(t)
       PROVE  Stable
  BY <1>10 DEF ReadIndex, AppendTurn
<1>11. ASSUME NEW t \in Turn, NEW p \in Pref, Prefer(t, p)
       PROVE  Stable
  BY <1>11 DEF Prefer
<1>12. ASSUME NEW t \in Turn, ReadFault(t)
       PROVE  Stable
  BY <1>2, <1>3, <1>12 DEF ReadFault
<1>13. ASSUME NEW t \in Turn, WriteFault(t)
       PROVE  Stable
  <2>1. CASE pc[t] \in Recording /\ Leave(t)
    BY <1>8, <1>13, <2>1 DEF WriteFault
  <2>2. CASE ~(pc[t] \in Recording /\ Leave(t))
    BY <1>13, <2>2 DEF WriteFault
  <2> QED BY <2>1, <2>2
<1>14. ASSUME NEW w \in Worker, Crash(w)
       PROVE  Stable
  BY <1>14 DEF Crash, Open
<1>15. CASE UNCHANGED vars
  BY <1>15 DEF vars
<1> HIDE DEF Goto, Types, TurnTypes, stores, local, Early
<1>16. ASSUME NEW t \in Turn, Step(t)
       PROVE  Stable
  BY <1>2, <1>3, <1>5, <1>6, <1>7, <1>9, <1>10, <1>16 DEF Step, Restore, BuildInputs
<1> QED BY <1>1, <1>11, <1>12, <1>13, <1>14, <1>15, <1>16 DEF Next, Finished

LEMMA StepOrder ==
  ASSUME Types, ProcessInv, OverlapInv, [Next]_vars
  PROVE  /\ \A s : Orderly(s)' => Orderly(s)
         /\ \A s : OneWorker(s)' => OneWorker(s)
         /\ \A t : Sound(t)' => Sound(t)
         /\ \A t \in Turn : BuyerOf(t)' = BuyerOf(t)
<1>1. crossed \subseteq crossed' /\ shaken \subseteq shaken' /\ buyer' = buyer
      /\ \A t \in Turn : worker[t] # None => worker'[t] = worker[t]
  BY StepOverlap, StepStable
<1>2. \A s : Orderly(s)' => Orderly(s)
  BY <1>1 DEF Orderly
<1>3. \A s : OneWorker(s)' => OneWorker(s)
  BY <1>1 DEF OneWorker
<1>4. \A t \in Turn : BuyerOf(t)' = BuyerOf(t)
  BY <1>1 DEF BuyerOf
<1> QED BY <1>1, <1>2, <1>3, <1>4 DEF Sound

(* An answer that may be reused stays one. *)
LEMMA ReusableKept ==
  ASSUME Types, ProcessInv, OverlapInv, SaidInv, [Next]_vars,
         NEW u, NEW key, Reusable(u, key)
  PROVE  Reusable(u, key)'
<1>1. u \in Turn /\ said[u] = u /\ u # None
  BY ConversationAssumption DEF Reusable
<1>2. pc[u] \notin Early
  BY <1>1 DEF SaidInv
<1>3. said'[u] = said[u] /\ history'[u] = history[u] /\ basis'[u] = basis[u]
  BY <1>1, <1>2, StepStable
<1> QED BY <1>1, <1>3, StepOrder DEF Reusable

(* A step that answers nothing and leaves the cache alone. *)
AnswerQuiet ==
  /\ UNCHANGED <<said, basis, bucket>>
  /\ \A t \in Turn :
       /\ pc'[t] \in Filling => pc[t] \in Filling
       /\ pc'[t] = "fill" => pc[t] = "fill" /\ copy'[t] = copy[t] /\ scope'[t] = scope[t]

LEMMA StepAnswerKinds ==
  ASSUME Types, [Next]_vars
  PROVE  \/ AnswerQuiet
         \/ \E t \in Turn : \/ Lookup(t) /\ Hits(t) # {}
                            \/ Answer(t) \/ Fail(t) \/ Load(t) \/ Fill(t)
<1> USE DEF AnswerQuiet, Goto, Types, TurnTypes, stores, local, Filling
<1>1. ASSUME NEW t \in Turn, NEW w \in Worker, Begin(t, w)
      PROVE  AnswerQuiet
  BY <1>1 DEF Begin, Bind
<1>2. ASSUME NEW t \in Turn, NEW snapshot, pc[t] = "restore", Built(t, snapshot)
      PROVE  AnswerQuiet
  BY <1>2 DEF Built, Bind
<1>3. ASSUME NEW t \in Turn, NEW known, pc[t] = "inputs", Ask(t, known)
      PROVE  AnswerQuiet
  BY <1>3 DEF Ask
<1>4. ASSUME NEW t \in Turn, Lookup(t), Hits(t) = {}
      PROVE  AnswerQuiet
  BY <1>4 DEF Lookup
<1>5. ASSUME NEW t \in Turn, ReadScope(t) \/ Persist(t)
      PROVE  AnswerQuiet
  BY <1>5 DEF ReadScope, Persist
<1>6. ASSUME NEW t \in Turn, Leave(t), bucket' = bucket
      PROVE  AnswerQuiet
  BY <1>6 DEF Leave
<1>7. ASSUME NEW t \in Turn, TouchFails(t) \/ AppendEvents(t)
      PROVE  AnswerQuiet
  BY <1>6, <1>7 DEF TouchFails, AppendEvents
<1>8. ASSUME NEW t \in Turn, ReadIndex(t) \/ AppendTurn(t)
      PROVE  AnswerQuiet
  BY <1>8 DEF ReadIndex, AppendTurn
<1>9. ASSUME NEW t \in Turn, NEW p \in Pref, Prefer(t, p)
      PROVE  AnswerQuiet
  BY <1>9 DEF Prefer
<1>10. ASSUME NEW t \in Turn, ReadFault(t)
       PROVE  AnswerQuiet
  BY <1>2, <1>3, <1>10 DEF ReadFault
<1>11. ASSUME NEW t \in Turn, WriteFault(t)
       PROVE  AnswerQuiet
  <2>1. CASE pc[t] \in Recording /\ Leave(t)
    BY <1>6, <1>11, <2>1 DEF WriteFault
  <2>2. CASE ~(pc[t] \in Recording /\ Leave(t))
    BY <1>11, <2>2 DEF WriteFault
  <2> QED BY <2>1, <2>2
<1>12. ASSUME NEW w \in Worker, Crash(w)
       PROVE  AnswerQuiet
  BY <1>12 DEF Crash, Open
<1>13. CASE UNCHANGED vars
  BY <1>13 DEF vars
<1> HIDE DEF AnswerQuiet, Goto, Types, TurnTypes, stores, local, Filling
<1>14. ASSUME NEW t \in Turn, Step(t)
       PROVE  \/ AnswerQuiet
              \/ Lookup(t) /\ Hits(t) # {}
              \/ Answer(t) \/ Fail(t) \/ Load(t) \/ Fill(t)
  BY <1>2, <1>3, <1>4, <1>5, <1>7, <1>8, <1>14 DEF Step, Restore, BuildInputs
<1> QED BY <1>1, <1>9, <1>10, <1>11, <1>12, <1>13, <1>14 DEF Next, Finished

LEMMA StepSaid ==
  ASSUME Types, ProcessInv, SaidInv, [Next]_vars
  PROVE  SaidInv'
<1> DEFINE Given(t) == /\ pc[t] \in Early => said[t] = None
                       /\ pc[t] \in Filling => said[t] = t /\ ~history[t]
<1> USE DEF SaidInv, Early, Filling
<1>1. \A t \in Turn : pc'[t] \in Early => pc[t] \in Early
  BY StepStable
<1>2. ASSUME NEW t \in Turn, pc[t] \in Filling
      PROVE  said'[t] = said[t] /\ history'[t] = history[t]
  BY <1>2, StepStable
<1>3. CASE AnswerQuiet
  BY <1>1, <1>2, <1>3 DEF AnswerQuiet
<1>4. ASSUME NEW t \in Turn, NEW answer, Publish(t, answer), pc'[t] \notin Early,
             pc'[t] \in Filling => answer = t /\ ~history'[t],
             \A u \in Turn \ {t} : pc'[u] = pc[u]
      PROVE  SaidInv'
  <2>1. /\ said'[t] = answer
        /\ \A u \in Turn \ {t} : said'[u] = said[u]
    BY <1>4 DEF Publish, Types, TurnTypes
  <2>2. \A u \in Turn \ {t} : Given(u)'
    BY <1>2, <1>4, <2>1
  <2>3. Given(t)'
    BY <1>4, <2>1
  <2> QED BY <2>2, <2>3
<1>5. ASSUME NEW t \in Turn, Lookup(t), Hits(t) # {}
      PROVE  SaidInv'
  <2>1. pc'[t] = "persist" /\ \A u \in Turn \ {t} : pc'[u] = pc[u]
    BY <1>5 DEF Lookup, Goto, Types, TurnTypes
  <2> QED BY <1>4, <1>5, <2>1 DEF Lookup
<1>6. ASSUME NEW t \in Turn, Answer(t)
      PROVE  SaidInv'
  <2>1. /\ pc'[t] = IF history[t] \/ QueryOf[t] \notin Cacheable THEN "persist" ELSE "remember"
        /\ \A u \in Turn \ {t} : pc'[u] = pc[u]
        /\ history' = history /\ Publish(t, t)
    BY <1>6 DEF Answer, Goto, Types, TurnTypes
  <2> QED BY <1>4, <2>1
<1>7. ASSUME NEW t \in Turn, Fail(t)
      PROVE  SaidInv'
  <2>1. pc'[t] = "persist" /\ \A u \in Turn \ {t} : pc'[u] = pc[u]
    BY <1>7 DEF Fail, Goto, Types, TurnTypes
  <2> QED BY <1>4, <1>7, <2>1 DEF Fail
<1>8. ASSUME NEW t \in Turn, Load(t) \/ Fill(t)
      PROVE  SaidInv'
  <2>1. /\ said' = said /\ history' = history /\ pc[t] \in Filling
        /\ pc'[t] \in {"fill", "persist"} /\ \A u \in Turn \ {t} : pc'[u] = pc[u]
    BY <1>8 DEF Load, Fill, Goto, Types, TurnTypes
  <2> QED BY <1>1, <2>1
<1> QED BY <1>3, <1>5, <1>6, <1>7, <1>8, StepAnswerKinds

LEMMA StepCache ==
  ASSUME Types, ProcessInv, OverlapInv, SaidInv, KnownInv, CacheInv, [Next]_vars
  PROVE  CacheInv'
<1> DEFINE Sane(q, k) == \A i \in DOMAIN q : Reusable(q[i], k)
<1>1. \A u, k : Reusable(u, k) => Reusable(u, k)'
  BY ReusableKept
<1>2. \A t \in Turn : scope'[t] = scope[t] => BucketKey(t)' = BucketKey(t)
  BY StepOrder DEF BucketKey
<1>3. CASE AnswerQuiet
  BY <1>1, <1>2, <1>3 DEF CacheInv, AnswerQuiet
<1>4. ASSUME NEW t \in Turn, Load(t)
      PROVE  CacheInv'
  <2>1. /\ copy'[t] = bucket[BucketKey(t)] /\ bucket' = bucket /\ scope' = scope
        /\ \A u \in Turn \ {t} : pc'[u] = pc[u] /\ copy'[u] = copy[u]
    BY <1>4 DEF Load, Goto, Types, TurnTypes, stores
  <2>2. \A i \in DOMAIN copy'[t] : Reusable(copy'[t][i], BucketKey(t))
    BY <2>1, KeyType DEF CacheInv
  <2>3. \A u \in Turn : BucketKey(u)' = BucketKey(u)
    BY <1>2, <2>1
  <2>4. \A u \in Turn : pc'[u] = "fill" =>
          \A i \in DOMAIN copy'[u] : Reusable(copy'[u][i], BucketKey(u))
    BY <2>1, <2>2 DEF CacheInv
  <2>5. \A u \in Turn : pc'[u] = "fill" =>
          \A i \in DOMAIN copy'[u] : Reusable(copy[u][i], BucketKey(u))'
    BY <1>1, <2>3, <2>4
  <2> QED BY <1>1, <2>1, <2>5 DEF CacheInv
<1>5. ASSUME NEW t \in Turn, Fill(t)
      PROVE  CacheInv'
  <2> DEFINE q == LastOf(BucketLimit, Append(copy[t], t))
             key == BucketKey(t)
  <2>1. /\ bucket' = [bucket EXCEPT ![key] = q]
        /\ pc[t] = "fill" /\ pc'[t] = "persist"
        /\ \A u \in Turn \ {t} : pc'[u] = pc[u] /\ copy'[u] = copy[u] /\ scope'[u] = scope[u]
    BY <1>5 DEF Fill, Goto, Types, TurnTypes
  <2>2. Reusable(t, key)
    BY <2>1, KeyType DEF SaidInv, KnownInv, Reusable, Filling
  <2>3. \A i \in DOMAIN q : q[i] = t \/ \E j \in DOMAIN copy[t] : q[i] = copy[t][j]
    BY LastOfType DEF Types, TurnTypes
  <2> HIDE DEF q
  <2>4. \A i \in DOMAIN q : Reusable(q[i], key)
    BY <2>1, <2>2, <2>3 DEF CacheInv
  <2>5. \A k \in Key : bucket'[k] = IF k = key THEN q ELSE bucket[k]
    BY <2>1 DEF Types, StoreTypes
  <2> HIDE DEF key
  <2>6. \A k \in Key : \A i \in DOMAIN bucket'[k] : Reusable(bucket'[k][i], k)
    BY <2>4, <2>5 DEF CacheInv
  <2>7. \A k \in Key : \A i \in DOMAIN bucket'[k] : Reusable(bucket[k][i], k)'
    BY <1>1, <2>6
  <2>8. \A u \in Turn : pc'[u] = "fill" =>
          \A i \in DOMAIN copy'[u] : Reusable(copy[u][i], BucketKey(u))'
    BY <1>1, <1>2, <2>1 DEF CacheInv
  <2> QED BY <2>7, <2>8 DEF CacheInv
<1>6. ASSUME NEW t \in Turn, (Lookup(t) /\ Hits(t) # {}) \/ Answer(t) \/ Fail(t)
      PROVE  CacheInv'
  <2>1. /\ bucket' = bucket /\ copy' = copy /\ pc'[t] # "fill"
        /\ \A u \in Turn \ {t} : pc'[u] = pc[u] /\ scope'[u] = scope[u]
    BY <1>6 DEF Lookup, Answer, Fail, Goto, Types, TurnTypes, stores
  <2> QED BY <1>1, <1>2, <2>1 DEF CacheInv
<1> QED BY <1>3, <1>4, <1>5, <1>6, StepAnswerKinds

LEMMA StepFits ==
  ASSUME Types, ProcessInv, OverlapInv, SaidInv, CacheInv, AnswerFits, [Next]_vars
  PROVE  AnswerFits'
<1> DEFINE Fits(t, u) == said[t] = u /\ u # t =>
             /\ BuyerOf(u) = BuyerOf(t) /\ QueryOf[u] = QueryOf[t]
             /\ said[u] = u /\ ~history[u]
             /\ Sound(u) => basis[u] = basis[t]
<1> USE DEF Sound
<1>1. \A t, u \in Turn : Fits(t, u)
  BY DEF AnswerFits
<1>2. ASSUME NEW t \in Turn, NEW u \in Turn, said[t] = u
      PROVE  Fits(t, u)'
  <2>1. pc[t] \notin Early /\ said'[t] = u /\ basis'[t] = basis[t]
    BY <1>2, StepStable, ConversationAssumption DEF SaidInv
  <2>2. CASE u = t
    BY <2>2
  <2>3. CASE u # t
    <3>1. pc[u] \notin Early
      BY <1>1, <1>2, <2>3, ConversationAssumption DEF SaidInv
    <3>2. said'[u] = said[u] /\ history'[u] = history[u] /\ basis'[u] = basis[u]
      BY <3>1, StepStable
    <3> QED BY <1>1, <1>2, <2>1, <2>3, <3>2, StepOrder
  <2> QED BY <2>2, <2>3
<1>3. CASE said' = said
  BY <1>2, <1>3 DEF AnswerFits
<1>4. ASSUME NEW t \in Turn, NEW answer, Publish(t, answer),
             \A u \in Turn : answer = u => Fits(t, u)'
      PROVE  AnswerFits'
  <2>1. said'[t] = answer /\ \A v \in Turn \ {t} : said'[v] = said[v]
    BY <1>4 DEF Publish, Types, TurnTypes
  <2>2. \A v, u \in Turn : said'[v] = u => Fits(v, u)'
    BY <1>2, <1>4, <2>1
  <2> QED BY <2>2 DEF AnswerFits
<1>5. ASSUME NEW t \in Turn, Lookup(t), Hits(t) # {}
      PROVE  AnswerFits'
  <2> DEFINE key == BucketKey(t)
             found == bucket[key][Min(Hits(t))]
  <2>1. Publish(t, found) /\ basis' = [basis EXCEPT ![t] = scope[t]]
    BY <1>5 DEF Lookup
  <2>2. /\ key \in Key /\ Min(Hits(t)) \in DOMAIN bucket[key]
        /\ found \in Turn /\ QueryOf[found] = QueryOf[t]
        /\ key[1] = BuyerOf(t) /\ key[2] = scope[t]
    BY <1>5, FoundType, KeyType
  <2> HIDE DEF key
  <2>3. Reusable(found, key)
    BY <2>2 DEF CacheInv
  <2>4. basis'[t] = key[2]
    BY <2>1, <2>2 DEF Types, TurnTypes
  <2>5. \A u \in Turn : found = u => Reusable(u, key)
    BY <2>3
  <2> HIDE DEF found
  <2>6. ASSUME NEW u \in Turn, found = u, NEW k, k = key
        PROVE  Fits(t, u)'
    <3>1. Reusable(u, k)'
      BY <2>5, <2>6, ReusableKept
    <3>2. BuyerOf(u)' = BuyerOf(u) /\ BuyerOf(t)' = BuyerOf(t) /\ BuyerOf(t) = k[1]
      BY <2>2, <2>6, StepOrder
    <3>3. QueryOf[u] = QueryOf[t] /\ basis'[t] = k[2]
      BY <2>2, <2>4, <2>6
    <3> QED BY <3>1, <3>2, <3>3 DEF Reusable
  <2> QED BY <1>4, <2>1, <2>6
<1>6. ASSUME NEW t \in Turn, Answer(t)
      PROVE  AnswerFits'
  <2>1. Publish(t, t)
    BY <1>6 DEF Answer
  <2>2. \A u \in Turn : t = u => Fits(t, u)'
    OBVIOUS
  <2> QED BY <1>4, <2>1, <2>2
<1>7. ASSUME NEW t \in Turn, Fail(t)
      PROVE  AnswerFits'
  <2>1. Publish(t, "error") /\ "error" \notin Turn
    BY <1>7, ConversationAssumption DEF Fail
  <2> QED BY <1>4, <2>1
<1>8. ASSUME NEW t \in Turn, Load(t) \/ Fill(t)
      PROVE  AnswerFits'
  BY <1>3, <1>8 DEF Load, Fill
<1> QED BY <1>3, <1>5, <1>6, <1>7, <1>8, StepAnswerKinds DEF AnswerQuiet

-----------------------------------------------------------------------------
(* What agents remember *)

(* Turns that use the same agent are of the same session and overlap. *)
LEMMA AgentShared ==
  ASSUME ProcessInv, OverlapInv, NEW t \in Turn, NEW u \in Turn, t # u,
         pc[t] \in Bound, pc[u] \in Bound, agent[t] = agent[u]
  PROVE  SessionOf[t] = SessionOf[u] /\ ~Orderly(SessionOf[t]) /\ ~Orderly(SessionOf[u])
<1>1. SessionOf[t] = SessionOf[u]
  BY DEF ProcessInv, BuiltBy
<1>2. t \in Open /\ u \in Open
  BY DEF Open, Bound, Filling
<1> QED BY <1>1, <1>2 DEF OverlapInv, Orderly

(* The name of a new agent is used by nobody. *)
LEMMA AgentNew ==
  ASSUME ProcessInv, NEW t \in Turn, pc[t] \in {"idle", "restore"}
  PROVE  /\ \A u \in Turn : pc[u] \in Bound => agent[u] # t
         /\ \A w \in Worker, s \in Session : registry[w][s] # None => registry[w][s] # t
BY DEF ProcessInv, BuiltBy

(* A step after which agents remember what they did. *)
MemoryQuiet ==
  /\ UNCHANGED <<process, prefs>>
  /\ stored' = stored \/ \E t \in Turn : Persist(t)
  /\ \A t \in Turn :
       /\ pc'[t] \in Bound =>
            pc[t] \in Bound /\ agent'[t] = agent[t] /\ history'[t] = history[t]
       /\ pc'[t] \in {"scope", "lookup", "inputs"} => pc[t] \in {"scope", "lookup", "inputs"}
       /\ pc'[t] \in {"idle", "restore", "turn"} => pc'[t] = pc[t] /\ worker'[t] = worker[t]
       /\ Asked(t)' => Asked(t)

(* The agent of a turn is built, and takes a question. *)
NewAgent(t, snapshot) ==
  /\ pc[t] = "restore" /\ Built(t, snapshot)
  /\ \/ snapshot = NoAgent /\ (stored[SessionOf[t]] = None \/ t \in shaken')
     \/ snapshot = stored[SessionOf[t]] /\ stored[SessionOf[t]] # None

Question(t, known) ==
  /\ pc[t] = "inputs" /\ Ask(t, known)
  /\ known \in SUBSET Pref
  /\ known = prefs[BuyerOf(t)] \/ t \in shaken'

LEMMA StepMemoryKinds ==
  ASSUME Types, ProcessInv, SaidInv, CacheInv, [Next]_vars
  PROVE  \/ \E t \in Turn, w \in Worker : Begin(t, w)
         \/ \E t \in Turn, snapshot \in Snapshot : NewAgent(t, snapshot)
         \/ \E t \in Turn, known \in SUBSET Pref : Question(t, known)
         \/ \E t \in Turn, p \in Pref : Prefer(t, p)
         \/ \E w \in Worker : Crash(w)
         \/ MemoryQuiet
<1> DEFINE Kinds == \/ \E t \in Turn, w \in Worker : Begin(t, w)
                    \/ \E t \in Turn, snapshot \in Snapshot : NewAgent(t, snapshot)
                    \/ \E t \in Turn, known \in SUBSET Pref : Question(t, known)
                    \/ \E t \in Turn, p \in Pref : Prefer(t, p)
                    \/ \E w \in Worker : Crash(w)
                    \/ MemoryQuiet
<1>1. ASSUME NEW t \in Turn, Restore(t)
      PROVE  Kinds
  <2> DEFINE snapshot == IF stored[SessionOf[t]] = None THEN NoAgent ELSE stored[SessionOf[t]]
  <2>1. snapshot \in Snapshot
    BY SessionType DEF NoAgent, Snapshot, Types, StoreTypes
  <2>2. NewAgent(t, snapshot)
    BY <1>1 DEF Restore, NewAgent
  <2> QED BY <2>1, <2>2
<1>2. ASSUME NEW t \in Turn, BuildInputs(t)
      PROVE  Kinds
  <2>1. prefs[BuyerOf(t)] \in SUBSET Pref
    BY KeyType DEF Types, StoreTypes
  <2>2. Question(t, prefs[BuyerOf(t)])
    BY <1>2, <2>1 DEF BuildInputs, Question
  <2> QED BY <2>1, <2>2
<1>3. ASSUME NEW t \in Turn, ReadFault(t)
      PROVE  Kinds
  <2>1. t \in shaken'
    BY <1>3 DEF ReadFault
  <2>2. CASE pc[t] = "restore" /\ Built(t, NoAgent)
    <3>1. NewAgent(t, NoAgent) /\ NoAgent \in Snapshot
      BY <2>1, <2>2 DEF NewAgent, NoAgent, Snapshot
    <3> QED BY <3>1
  <2>3. CASE pc[t] = "inputs" /\ Ask(t, {})
    <3>1. Question(t, {}) /\ {} \in SUBSET Pref
      BY <2>1, <2>3 DEF Question
    <3> QED BY <3>1
  <2>4. CASE pc[t] \in {"scope", "remember"}
    <3>1. /\ UNCHANGED <<process, prefs, stored, worker, agent, history, said>>
          /\ pc' = [pc EXCEPT ![t] = IF pc[t] = "scope" THEN "lookup" ELSE "load"]
      BY <1>3, <2>4 DEF ReadFault, stores, Goto
    <3> QED BY <2>4, <3>1 DEF MemoryQuiet, Asked, Bound, Filling, Types, TurnTypes
  <2> QED BY <1>3, <2>2, <2>3, <2>4 DEF ReadFault
<1> USE DEF MemoryQuiet, Asked, Bound, Filling, Goto, Types, TurnTypes, stores, local
<1>4. ASSUME NEW t \in Turn, NEW answer, Publish(t, answer)
      PROVE  said'[t] = answer /\ \A u \in Turn \ {t} : said'[u] = said[u]
  BY <1>4 DEF Publish
<1>5. ASSUME NEW t \in Turn, Lookup(t)
      PROVE  MemoryQuiet
  <2>1. CASE Hits(t) # {}
    <3> DEFINE found == bucket[BucketKey(t)][Min(Hits(t))]
    <3>1. said[found] = found /\ found \in Turn
      BY <2>1, FoundType, KeyType DEF CacheInv, Reusable
    <3>2. said[t] = None
      BY <1>5 DEF Lookup, SaidInv, Early
    <3>3. found # t
      BY <3>1, <3>2, ConversationAssumption
    <3>4. said'[t] = found /\ \A u \in Turn \ {t} : said'[u] = said[u]
      BY <1>4, <1>5, <2>1 DEF Lookup
    <3> HIDE DEF found
    <3> QED BY <1>5, <2>1, <3>3, <3>4 DEF Lookup
  <2>2. CASE Hits(t) = {}
    BY <1>5, <2>2 DEF Lookup
  <2> QED BY <2>1, <2>2
<1>6. ASSUME NEW t \in Turn, Answer(t)
      PROVE  MemoryQuiet
  <2>1. \A u \in Turn \ {t} : said'[u] = said[u]
    BY <1>4, <1>6 DEF Answer
  <2> QED BY <1>6, <2>1 DEF Answer
<1>7. ASSUME NEW t \in Turn, Fail(t)
      PROVE  MemoryQuiet
  <2>1. \A u \in Turn \ {t} : said'[u] = said[u]
    BY <1>4, <1>7 DEF Fail
  <2> QED BY <1>7, <2>1 DEF Fail
<1>8. ASSUME NEW t \in Turn, ReadScope(t) \/ Load(t) \/ ReadIndex(t) \/ AppendTurn(t)
      PROVE  MemoryQuiet
  BY <1>8 DEF ReadScope, Load, ReadIndex, AppendTurn
<1>9. ASSUME NEW t \in Turn, Fill(t)
      PROVE  MemoryQuiet
  BY <1>9 DEF Fill, SaidInv
<1>10. ASSUME NEW t \in Turn, Persist(t)
       PROVE  MemoryQuiet
  <2>1. /\ UNCHANGED <<process, prefs, worker, history, said>>
        /\ pc' = [pc EXCEPT ![t] = "touch"] /\ agent' = [agent EXCEPT ![t] = None]
    BY <1>10 DEF Persist
  <2> QED BY <1>10, <2>1
<1>11. ASSUME NEW t \in Turn, Leave(t), UNCHANGED <<process, prefs, stored>>
       PROVE  MemoryQuiet
  BY <1>11 DEF Leave
<1>12. ASSUME NEW t \in Turn, TouchFails(t) \/ AppendEvents(t)
       PROVE  MemoryQuiet
  BY <1>11, <1>12 DEF TouchFails, AppendEvents
<1>13. ASSUME NEW t \in Turn, WriteFault(t)
       PROVE  MemoryQuiet
  <2>1. CASE pc[t] \in Recording /\ Leave(t)
    BY <1>11, <1>13, <2>1 DEF WriteFault
  <2>2. CASE ~(pc[t] \in Recording /\ Leave(t))
    BY <1>13, <2>2 DEF WriteFault, SaidInv
  <2> QED BY <2>1, <2>2
<1>14. CASE UNCHANGED vars
  BY <1>14 DEF vars
<1> HIDE DEF MemoryQuiet, Asked, Bound, Filling, Goto, Types, TurnTypes, stores, local
<1>15. ASSUME NEW t \in Turn, Step(t)
       PROVE  Kinds
  BY <1>1, <1>2, <1>5, <1>6, <1>7, <1>8, <1>9, <1>10, <1>12, <1>15 DEF Step
<1> QED BY <1>3, <1>13, <1>14, <1>15 DEF Next, Finished

LEMMA BoundAgent ==
  ASSUME Types, ProcessInv, NEW t \in Turn, pc[t] \in Bound
  PROVE  /\ agent[t] \in Turn /\ worker[t] \in Worker /\ worker[agent[t]] = worker[t]
         /\ registry[worker[t]][SessionOf[t]] \in Turn
<1>1. pc[t] # "idle"
  BY DEF Bound, Filling
<1>2. worker[t] \in Worker
  BY <1>1 DEF ProcessInv
<1> QED BY <1>2, SessionType DEF ProcessInv, BuiltBy, Types, ProcessTypes

(* The agents after a question, and after a preference is changed. *)
LEMMA QuestionAgents ==
  ASSUME Types, ProcessInv, NEW t \in Turn, NEW known \in SUBSET Pref, Question(t, known)
  PROVE  LET hint == known # {} /\ injected[worker[t]][SessionOf[t]] # known
         IN
         /\ agents'[agent[t]].memory = agents[agent[t]].memory \cup {t}
         /\ agents'[agent[t]].told = IF hint THEN known ELSE agents[agent[t]].told
         /\ \A a \in Turn : a # agent[t] => agents'[a] = agents[a]
         /\ \A w \in Worker, s \in Session :
              injected'[w][s] = IF hint /\ w = worker[t] /\ s = SessionOf[t]
                                  THEN known ELSE injected[w][s]
         /\ pc' = [pc EXCEPT ![t] = "turn"]
         /\ UNCHANGED <<stores, registry, local, overlap>>
<1>1. pc[t] \in Bound
  BY DEF Question, Bound
<1>2. agent[t] \in Turn /\ worker[t] \in Worker /\ SessionOf[t] \in Session
  BY <1>1, BoundAgent, SessionType
<1> QED BY <1>2 DEF Question, Ask, Goto, Types, ProcessTypes

LEMMA PreferAgents ==
  ASSUME Types, ProcessInv, NEW t \in Turn, NEW p \in Pref, Prefer(t, p)
  PROVE  /\ \A a \in Turn : agents'[a].memory = agents[a].memory
         /\ \A a \in Turn : a # agent[t] => agents'[a] = agents[a]
         /\ agents'[agent[t]].told = prefs'[BuyerOf(t)]
         /\ \A b \in Buyer : b # BuyerOf(t) => prefs'[b] = prefs[b]
         /\ UNCHANGED <<registry, injected, stored, pc, local>>
<1>1. pc[t] \in Bound
  BY DEF Prefer, Bound
<1>2. agent[t] \in Turn /\ BuyerOf(t) \in Buyer
  BY <1>1, BoundAgent, KeyType
<1> DEFINE b == BuyerOf(t)
           known == IF p \in prefs[b] THEN prefs[b] \ {p} ELSE prefs[b] \cup {p}
<1>3. /\ prefs' = [prefs EXCEPT ![b] = known]
      /\ agents' = [agents EXCEPT ![agent[t]].told = known]
      /\ UNCHANGED <<registry, injected, stored, pc, local>>
  BY DEF Prefer
<1> HIDE DEF known, b
<1>4. agents' = [a \in Turn |->
                   IF a = agent[t] THEN [agents[a] EXCEPT !.told = known] ELSE agents[a]]
  BY <1>3 DEF Types, ProcessTypes
<1>5. \A a \in Turn : /\ [agents[a] EXCEPT !.told = known].memory = agents[a].memory
                      /\ [agents[a] EXCEPT !.told = known].told = known
  BY DEF Types, ProcessTypes, Snapshot
<1>6. /\ \A a \in Turn : agents'[a].memory = agents[a].memory
      /\ \A a \in Turn : a # agent[t] => agents'[a] = agents[a]
      /\ agents'[agent[t]].told = known
  BY <1>2, <1>4, <1>5
<1>7. prefs'[b] = known /\ \A c \in Buyer : c # b => prefs'[c] = prefs[c]
  BY <1>2, <1>3 DEF Types, StoreTypes, b
<1> QED BY <1>3, <1>6, <1>7 DEF b

LEMMA NewAgents ==
  ASSUME Types, ProcessInv, NEW t \in Turn, NEW snapshot \in Snapshot, NewAgent(t, snapshot)
  PROVE  /\ agents'[t] = snapshot
         /\ \A a \in Turn : a # t => agents'[a] = agents[a]
         /\ \A w \in Worker, s \in Session :
              registry'[w][s] = IF w = worker[t] /\ s = SessionOf[t] THEN t ELSE registry[w][s]
         /\ UNCHANGED <<stores, injected, worker, said, crossed>>
         /\ pc'[t] \in {"scope", "inputs"} /\ agent'[t] = t
         /\ ~history'[t] => snapshot.memory = {}
         /\ \A u \in Turn \ {t} :
              pc'[u] = pc[u] /\ agent'[u] = agent[u] /\ history'[u] = history[u]
BY SessionType
   DEF NewAgent, Built, Bind, Goto, Types, TurnTypes, ProcessTypes, ProcessInv, stores, overlap

LEMMA CrashAgents ==
  ASSUME Types, ProcessInv, NEW w \in Worker, Crash(w)
  PROVE  /\ \A a \in Turn : agents'[a] = IF worker[a] = w THEN NoAgent ELSE agents[a]
         /\ \A v \in Worker, s \in Session :
              /\ registry'[v][s] = IF v = w THEN None ELSE registry[v][s]
              /\ injected'[v][s] = IF v = w THEN {} ELSE injected[v][s]
         /\ \A u \in Turn : pc'[u] # "dead" => pc'[u] = pc[u] /\ agent'[u] = agent[u]
                                               /\ scope'[u] = scope[u]
         /\ \A u \in Turn : pc'[u] \notin {"idle", "over", "dead"} => worker[u] # w
         /\ UNCHANGED <<stores, worker, history, said, basis, crossed, shaken>>
BY DEF Crash, Open, Types, ProcessTypes, stores, overlap

LEMMA StepEmpty ==
  ASSUME Types, ProcessInv, SaidInv, CacheInv, EmptyInv, AskedInv, [Next]_vars
  PROVE  EmptyInv'
<1> USE DEF EmptyInv
<1>1. ASSUME NEW t \in Turn, NEW w \in Worker, Begin(t, w)
      PROVE  EmptyInv'
  BY <1>1 DEF Begin, stores, process
<1>2. ASSUME NEW t \in Turn, NEW snapshot \in Snapshot, NewAgent(t, snapshot)
      PROVE  EmptyInv'
  <2>1. snapshot.memory = {} => snapshot.told = {}
    BY <1>2, SessionType DEF NewAgent, NoAgent
  <2> QED BY <1>2, <2>1, NewAgents DEF stores
<1>3. ASSUME NEW t \in Turn, NEW known \in SUBSET Pref, Question(t, known)
      PROVE  EmptyInv'
  <2>1. agents'[agent[t]].memory # {}
    BY <1>3, QuestionAgents
  <2>2. stored' = stored /\ \A a \in Turn : a # agent[t] => agents'[a] = agents[a]
    BY <1>3, QuestionAgents DEF stores
  <2> QED BY <2>1, <2>2
<1>4. ASSUME NEW t \in Turn, NEW p \in Pref, Prefer(t, p)
      PROVE  EmptyInv'
  <2>1. agents[agent[t]].memory # {}
    BY <1>4 DEF Prefer, AskedInv, Asked
  <2> QED BY <1>4, <2>1, PreferAgents
<1>5. ASSUME NEW w \in Worker, Crash(w)
      PROVE  EmptyInv'
  BY <1>5, CrashAgents DEF NoAgent, stores
<1>6. CASE MemoryQuiet
  <2>1. CASE stored' = stored
    BY <1>6, <2>1 DEF MemoryQuiet, process
  <2>2. ASSUME NEW t \in Turn, Persist(t)
        PROVE  EmptyInv'
    <3> DEFINE saved == registry[worker[t]][SessionOf[t]]
    <3>1. saved \in Turn
      BY <2>2, BoundAgent DEF Persist, Bound
    <3>2. /\ stored' = [stored EXCEPT ![SessionOf[t]] = agents[saved]]
          /\ agents' = agents
      BY <2>2 DEF Persist, process
    <3> HIDE DEF saved
    <3>3. \A s \in Session : stored'[s] = stored[s] \/ stored'[s] = agents[saved]
      BY <3>2 DEF Types, StoreTypes
    <3> QED BY <3>1, <3>2, <3>3
  <2> QED BY <1>6, <2>1, <2>2 DEF MemoryQuiet
<1> QED BY <1>1, <1>2, <1>3, <1>4, <1>5, <1>6, StepMemoryKinds

LEMMA StepAsked ==
  ASSUME Types, ProcessInv, SaidInv, CacheInv, AskedInv, [Next]_vars
  PROVE  AskedInv'
<1> DEFINE Knows(u) == Asked(u) => u \in agents[agent[u]].memory
<1> SUFFICES ASSUME NEW u \in Turn PROVE Knows(u)'
  BY DEF AskedInv
<1>1. Knows(u)
  BY DEF AskedInv
<1>2. Asked(u) => pc[u] \in Bound
  BY DEF Asked, Bound
<1>3. ASSUME NEW t \in Turn, NEW w \in Worker, Begin(t, w)
      PROVE  Knows(u)'
  <2>1. /\ pc'[t] \in {"restore", "scope", "inputs"}
        /\ agents' = agents /\ said' = said
        /\ u # t => pc'[u] = pc[u] /\ agent'[u] = agent[u]
    BY <1>3 DEF Begin, Bind, Goto, Types, TurnTypes, process
  <2> QED BY <1>1, <2>1 DEF Asked, Filling
<1>4. ASSUME NEW t \in Turn, NEW snapshot \in Snapshot, NewAgent(t, snapshot)
      PROVE  Knows(u)'
  <2>1. CASE u = t
    BY <1>4, <2>1, NewAgents DEF Asked, Filling
  <2>2. CASE u # t
    <3>1. Asked(u) => agent[u] \in Turn \ {t}
      BY <1>2, <1>4, AgentNew, BoundAgent DEF NewAgent
    <3>2. Asked(u)' => Asked(u)
      BY <1>4, <2>2, NewAgents DEF Asked
    <3> QED BY <1>1, <1>4, <2>2, <3>1, <3>2, NewAgents
  <2> QED BY <2>1, <2>2
<1>5. ASSUME NEW t \in Turn, NEW known \in SUBSET Pref, Question(t, known)
      PROVE  Knows(u)'
  <2>1. agents'[agent[t]].memory = agents[agent[t]].memory \cup {t}
        /\ \A a \in Turn : a # agent[t] => agents'[a] = agents[a]
    BY <1>5, QuestionAgents
  <2>2. agent' = agent /\ said' = said /\ pc' = [pc EXCEPT ![t] = "turn"]
    BY <1>5, QuestionAgents DEF local
  <2>3. CASE u = t
    BY <2>1, <2>2, <2>3
  <2>4. CASE u # t
    <3>1. Asked(u)' => Asked(u)
      BY <2>2, <2>4 DEF Asked, Types, TurnTypes
    <3>2. Asked(u) => agent[u] \in Turn
      BY <1>2, BoundAgent
    <3> QED BY <1>1, <2>1, <2>2, <3>1, <3>2
  <2> QED BY <2>3, <2>4
<1>6. ASSUME NEW t \in Turn, NEW p \in Pref, Prefer(t, p)
      PROVE  Knows(u)'
  <2>1. Asked(u)' => Asked(u) /\ agent[u] \in Turn
    BY <1>2, <1>6, BoundAgent, PreferAgents DEF Asked, local
  <2> QED BY <1>1, <1>6, <2>1, PreferAgents DEF local
<1>7. ASSUME NEW w \in Worker, Crash(w)
      PROVE  Knows(u)'
  <2>1. Asked(u)' => Asked(u) /\ worker[u] # w /\ agent'[u] = agent[u]
    BY <1>7, CrashAgents DEF Asked, Filling
  <2>2. Asked(u) => agent[u] \in Turn /\ worker[agent[u]] = worker[u]
    BY <1>2, BoundAgent
  <2> QED BY <1>1, <1>7, <2>1, <2>2, CrashAgents
<1>8. CASE MemoryQuiet
  <2>1. Asked(u)' => Asked(u) /\ agent'[u] = agent[u]
    BY <1>8 DEF MemoryQuiet, Asked, Bound
  <2> QED BY <1>1, <1>8, <2>1 DEF MemoryQuiet, process
<1> QED BY <1>3, <1>4, <1>5, <1>6, <1>7, <1>8, StepMemoryKinds

LEMMA StepHint ==
  ASSUME Types, ProcessInv, OverlapInv, SaidInv, CacheInv, HintInv, [Next]_vars
  PROVE  HintInv'
<1> DEFINE Unbuilt(u) == pc[u] = "restore" /\ Orderly(SessionOf[u]) =>
                           registry[worker[u]][SessionOf[u]] = None
           Hinted(w, s) == Orderly(s) /\ injected[w][s] # {} =>
                             registry[w][s] # None /\ agents[registry[w][s]].memory # {}
           First(u) == pc[u] \in {"scope", "lookup", "inputs"} /\ ~history[u]
                         /\ Orderly(SessionOf[u]) => agents[agent[u]].memory = {}
           Hints == /\ \A u \in Turn : Unbuilt(u) /\ First(u)
                    /\ \A w \in Worker, s \in Session : Hinted(w, s)
<1>1. Hints
  BY DEF HintInv
<1>2. \A s : Orderly(s)' => Orderly(s)
  BY StepOrder
<1>3. \A w \in Worker, s \in Session : registry[w][s] # None =>
        registry[w][s] \in Turn /\ worker[registry[w][s]] = w
  BY DEF ProcessInv, BuiltBy
<1>4. \A u \in Turn : pc[u] \in {"scope", "lookup", "inputs"} =>
        pc[u] \in Bound /\ agent[u] \in Turn /\ worker[agent[u]] = worker[u]
  BY BoundAgent DEF Bound
<1>5. \A u \in Turn : pc[u] = "restore" => worker[u] \in Worker
  BY DEF ProcessInv
<1> USE SessionType
<1>6. ASSUME NEW t \in Turn, NEW w \in Worker, Begin(t, w)
      PROVE  Hints'
  <2>1. /\ registry' = registry /\ injected' = injected /\ agents' = agents
        /\ worker'[t] = w
        /\ \/ pc'[t] = "restore" /\ registry[w][SessionOf[t]] = None
           \/ /\ agent'[t] = registry[w][SessionOf[t]]
              /\ history'[t] = (agents[agent'[t]].memory # {})
              /\ pc'[t] \in {"scope", "inputs"}
        /\ \A u \in Turn \ {t} : /\ pc'[u] = pc[u] /\ agent'[u] = agent[u]
                                 /\ history'[u] = history[u] /\ worker'[u] = worker[u]
    BY <1>6 DEF Begin, Bind, Goto, process, Types, TurnTypes
  <2>2. \A u \in Turn : Unbuilt(u)'
    BY <1>1, <1>2, <2>1
  <2>3. \A u \in Turn : First(u)'
    BY <1>1, <1>2, <2>1
  <2> QED BY <1>1, <1>2, <2>1, <2>2, <2>3
<1>7. ASSUME NEW t \in Turn, NEW snapshot \in Snapshot, NewAgent(t, snapshot)
      PROVE  Hints'
  <2>1. t \in Open /\ pc[t] = "restore"
    BY <1>7 DEF NewAgent, Open
  <2>2. ASSUME NEW u \in Turn PROVE Unbuilt(u)'
    <3>1. CASE u = t
      BY <1>7, <3>1, NewAgents
    <3>2. CASE u # t /\ pc[u] = "restore" /\ Orderly(SessionOf[u])'
      <4>1. SessionOf[u] # SessionOf[t]
        BY <1>2, <2>1, <3>2 DEF Open, OverlapInv, Orderly
      <4> QED BY <1>1, <1>2, <1>5, <1>7, <3>2, <4>1, NewAgents
    <3> QED BY <1>7, <3>1, <3>2, NewAgents
  <2>3. ASSUME NEW w \in Worker, NEW s \in Session, Orderly(s)', injected'[w][s] # {}
        PROVE  registry'[w][s] # None /\ agents'[registry'[w][s]].memory # {}
    <3>1. registry[w][s] # None /\ agents[registry[w][s]].memory # {}
      BY <1>1, <1>2, <1>7, <2>3, NewAgents
    <3>2. ~(w = worker[t] /\ s = SessionOf[t])
      BY <1>1, <1>2, <2>1, <2>3, <3>1
    <3>3. registry[w][s] \in Turn \ {t}
      BY <1>3, <2>1, <3>1, AgentNew
    <3> QED BY <1>7, <3>1, <3>2, <3>3, NewAgents
  <2>4. ASSUME NEW u \in Turn PROVE First(u)'
    <3>1. CASE u = t
      <4>1. agents'[agent'[t]] = snapshot /\ (~history'[t] => snapshot.memory = {})
        BY <1>7, NewAgents
      <4> QED BY <3>1, <4>1
    <3>2. CASE u # t
      <4>1. pc[u] \in {"scope", "lookup", "inputs"} => agent[u] \in Turn \ {t}
        BY <1>4, <2>1, AgentNew
      <4> QED BY <1>1, <1>2, <1>7, <3>2, <4>1, NewAgents
    <3> QED BY <3>1, <3>2
  <2> QED BY <2>2, <2>3, <2>4
<1>8. ASSUME NEW t \in Turn, NEW known \in SUBSET Pref, Question(t, known)
      PROVE  Hints'
  <2>1. /\ pc' = [pc EXCEPT ![t] = "turn"] /\ registry' = registry
        /\ worker' = worker /\ agent' = agent /\ history' = history
    BY <1>8, QuestionAgents DEF local
  <2>2. pc[t] = "inputs" /\ pc[t] \in Bound
    BY <1>8 DEF Question, Bound
  <2>3. \A u \in Turn : Unbuilt(u)'
    BY <1>1, <1>2, <2>1 DEF Types, TurnTypes
  <2>4. \A a \in Turn : agents[a].memory # {} => agents'[a].memory # {}
    BY <1>8, QuestionAgents
  <2>5. ASSUME NEW w \in Worker, NEW s \in Session, Orderly(s)', injected'[w][s] # {}
        PROVE  registry'[w][s] # None /\ agents'[registry'[w][s]].memory # {}
    <3>1. CASE injected[w][s] # {}
      BY <1>1, <1>2, <1>3, <2>1, <2>4, <2>5, <3>1
    <3>2. CASE injected[w][s] = {}
      <4>1. w = worker[t] /\ s = SessionOf[t]
        BY <1>8, <2>5, <3>2, QuestionAgents
      <4>2. registry[w][s] = agent[t] /\ registry[w][s] \in Turn
        BY <1>2, <2>2, <2>5, <4>1, BoundAgent DEF OverlapInv
      <4>3. agents'[agent[t]].memory # {}
        BY <1>8, QuestionAgents
      <4> QED BY <2>1, <4>2, <4>3, ConversationAssumption
    <3> QED BY <3>1, <3>2
  <2>6. ASSUME NEW u \in Turn PROVE First(u)'
    <3>1. CASE u = t
      BY <2>1, <3>1 DEF Types, TurnTypes
    <3>2. CASE u # t /\ pc[u] \in {"scope", "lookup", "inputs"} /\ Orderly(SessionOf[u])'
      <4>1. agent[u] # agent[t]
        BY <1>2, <1>4, <2>2, <3>2, AgentShared
      <4>2. agents'[agent[u]] = agents[agent[u]]
        BY <1>4, <1>8, <3>2, <4>1, QuestionAgents
      <4> QED BY <1>1, <1>2, <2>1, <3>2, <4>2 DEF Types, TurnTypes
    <3> QED BY <2>1, <3>1, <3>2 DEF Types, TurnTypes
  <2> QED BY <2>3, <2>5, <2>6
<1>9. ASSUME NEW t \in Turn, NEW p \in Pref, Prefer(t, p)
      PROVE  Hints'
  <2>1. /\ UNCHANGED <<registry, injected, pc, worker, agent, history>>
        /\ \A a \in Turn : agents'[a].memory = agents[a].memory
    BY <1>9, PreferAgents DEF local
  <2> QED BY <1>1, <1>2, <1>3, <1>4, <2>1
<1>10. ASSUME NEW w \in Worker, Crash(w)
       PROVE  Hints'
  <2>1. ASSUME NEW u \in Turn PROVE Unbuilt(u)'
    BY <1>1, <1>2, <1>5, <1>10, CrashAgents
  <2>2. ASSUME NEW v \in Worker, NEW s \in Session PROVE Hinted(v, s)'
    BY <1>1, <1>2, <1>3, <1>10, CrashAgents
  <2>3. ASSUME NEW u \in Turn PROVE First(u)'
    BY <1>1, <1>2, <1>4, <1>10, CrashAgents
  <2> QED BY <2>1, <2>2, <2>3
<1>11. ASSUME MemoryQuiet PROVE Hints'
  <2>1. UNCHANGED <<registry, injected, agents>>
    BY <1>11 DEF MemoryQuiet, process
  <2>2. \A u \in Turn : Unbuilt(u)'
    BY <1>1, <1>2, <1>11, <2>1 DEF MemoryQuiet
  <2>3. \A u \in Turn : First(u)'
    BY <1>1, <1>2, <1>11, <2>1 DEF MemoryQuiet, Bound
  <2> QED BY <1>1, <1>2, <2>1, <2>2, <2>3
<1>12. Hints' => HintInv'
  BY DEF HintInv
<1> HIDE DEF Hints
<1> QED BY <1>6, <1>7, <1>8, <1>9, <1>10, <1>11, <1>12, StepMemoryKinds

(* How a turn comes to the phases in which its answer is cached and its    *)
(* agent saved, and how the preferences change.                            *)
LEMMA StepPhases ==
  ASSUME Types, [Next]_vars, NEW u \in Turn
  PROVE  /\ pc'[u] = "remember" => pc[u] = "remember" \/ Answer(u)
         /\ pc'[u] \in {"load", "fill"} =>
              \/ pc[u] \in {"load", "fill"} /\ scope'[u] = scope[u]
              \/ ReadScope(u) \/ u \in shaken'
         /\ Saved(u)' => Saved(u) \/ Persist(u) \/ u \in shaken'
         /\ prefs' = prefs \/ \E t \in Turn, p \in Pref : Prefer(t, p)
<1> DEFINE Known == /\ pc'[u] = "remember" => pc[u] = "remember" \/ Answer(u)
                    /\ pc'[u] \in {"load", "fill"} =>
                         \/ pc[u] \in {"load", "fill"} /\ scope'[u] = scope[u]
                         \/ ReadScope(u) \/ u \in shaken'
                    /\ Saved(u)' => Saved(u) \/ Persist(u) \/ u \in shaken'
                    /\ prefs' = prefs \/ \E t \in Turn, p \in Pref : Prefer(t, p)
<1> USE DEF Saved, Recording, Goto, Types, TurnTypes, stores, local
<1>1. ASSUME NEW t \in Turn, NEW w \in Worker, Begin(t, w)
      PROVE  Known
  BY <1>1 DEF Begin, Bind
<1>2. ASSUME NEW t \in Turn, NEW snapshot, pc[t] = "restore", Built(t, snapshot)
      PROVE  Known
  BY <1>2 DEF Built, Bind
<1>3. ASSUME NEW t \in Turn, NEW known, pc[t] = "inputs", Ask(t, known)
      PROVE  Known
  BY <1>3 DEF Ask
<1>4. ASSUME NEW t \in Turn, ReadScope(t)
      PROVE  Known
  BY <1>4 DEF ReadScope
<1>5. ASSUME NEW t \in Turn, Lookup(t) \/ Fail(t)
      PROVE  Known
  BY <1>5 DEF Lookup, Fail
<1>6. ASSUME NEW t \in Turn, Answer(t)
      PROVE  Known
  <2>1. /\ scope' = scope /\ prefs' = prefs
        /\ pc'[t] \in {"persist", "remember"} /\ \A v \in Turn \ {t} : pc'[v] = pc[v]
    BY <1>6 DEF Answer
  <2> QED BY <1>6, <2>1
<1>7. ASSUME NEW t \in Turn, Load(t) \/ Fill(t) \/ ReadIndex(t) \/ AppendTurn(t)
      PROVE  Known
  BY <1>7 DEF Load, Fill, ReadIndex, AppendTurn
<1>8. ASSUME NEW t \in Turn, Persist(t)
      PROVE  Known
  <2>1. /\ scope' = scope /\ prefs' = prefs
        /\ pc'[t] = "touch" /\ \A v \in Turn \ {t} : pc'[v] = pc[v]
    BY <1>8 DEF Persist
  <2> QED BY <1>8, <2>1
<1>9. ASSUME NEW t \in Turn, Leave(t), pc[t] \in Recording, prefs' = prefs
      PROVE  Known
  BY <1>9 DEF Leave
<1>10. ASSUME NEW t \in Turn, TouchFails(t) \/ AppendEvents(t)
       PROVE  Known
  BY <1>9, <1>10 DEF TouchFails, AppendEvents
<1>11. ASSUME NEW t \in Turn, NEW p \in Pref, Prefer(t, p)
       PROVE  Known
  <2>1. UNCHANGED <<pc, scope>>
    BY <1>11 DEF Prefer
  <2> QED BY <1>11, <2>1
<1>12. ASSUME NEW t \in Turn, ReadFault(t)
       PROVE  Known
  <2>1. t \in shaken'
    BY <1>12 DEF ReadFault
  <2>2. CASE pc[t] \in {"scope", "remember"}
    <3>1. /\ prefs' = prefs
          /\ \A v \in Turn \ {t} : pc'[v] = pc[v] /\ scope'[v] = scope[v]
          /\ pc'[t] \in {"lookup", "load"}
      BY <1>12, <2>2 DEF ReadFault
    <3> QED BY <2>1, <3>1
  <2>3. CASE pc[t] \notin {"scope", "remember"}
    BY <1>2, <1>3, <1>12, <2>3 DEF ReadFault
  <2> QED BY <2>2, <2>3
<1>13. ASSUME NEW t \in Turn, WriteFault(t)
       PROVE  Known
  <2>1. CASE pc[t] \in Recording /\ Leave(t)
    BY <1>9, <1>13, <2>1 DEF WriteFault
  <2>2. CASE ~(pc[t] \in Recording /\ Leave(t))
    <3>1. /\ t \in shaken' /\ prefs' = prefs /\ scope' = scope
          /\ \A v \in Turn \ {t} : pc'[v] = pc[v]
          /\ pc'[t] \in {"inputs", "persist", "touch"}
      BY <1>13, <2>2 DEF WriteFault
    <3> QED BY <3>1
  <2> QED BY <2>1, <2>2
<1>14. ASSUME NEW w \in Worker, Crash(w)
       PROVE  Known
  BY <1>14 DEF Crash, Open
<1>15. ASSUME UNCHANGED vars PROVE Known
  BY <1>15 DEF vars
<1> HIDE DEF Known, Saved, Recording, Goto, Types, TurnTypes, stores, local
<1>16. ASSUME NEW t \in Turn, Step(t)
       PROVE  Known
  BY <1>2, <1>3, <1>4, <1>5, <1>6, <1>7, <1>8, <1>10, <1>16 DEF Step, Restore, BuildInputs
<1>17. Known
  BY <1>1, <1>11, <1>12, <1>13, <1>14, <1>15, <1>16 DEF Next, Finished
<1> QED BY <1>17 DEF Known

LEMMA StepKnown ==
  ASSUME Types, ProcessInv, OverlapInv, SaidInv, CacheInv, MemoryInv, KnownInv, [Next]_vars
  PROVE  KnownInv'
<1> USE DEF MemoryInv
<1> SUFFICES ASSUME NEW u \in Turn, Sound(u)'
             PROVE  /\ pc'[u] = "turn" /\ ~history'[u] =>
                         agents'[agent'[u]].told = prefs'[BuyerOf(u)']
                    /\ pc'[u] = "remember" => basis'[u] = prefs'[BuyerOf(u)']
                    /\ pc'[u] \in {"load", "fill"} => basis'[u] = scope'[u]
  BY DEF KnownInv
<1>1. Sound(u) /\ Orderly(SessionOf[u]) /\ BuyerOf(u)' = BuyerOf(u) /\ u \notin shaken'
  BY StepOrder DEF Sound
<1>2. BuyerOf(u) \in Buyer
  BY KeyType
<1> DEFINE Told == pc'[u] = "turn" /\ ~history'[u] =>
                     agents'[agent'[u]].told = prefs'[BuyerOf(u)]
<1>3. pc[u] = "turn" => pc[u] \in Bound /\ agent[u] \in Turn /\ worker[agent[u]] = worker[u]
  BY BoundAgent DEF Bound
<1>4. pc[u] = "turn" /\ ~history[u] => agents[agent[u]].told = prefs[BuyerOf(u)]
  BY <1>1 DEF KnownInv
<1>5. ASSUME NEW t \in Turn, NEW p \in Pref, Prefer(t, p), t # u, pc[u] \in {"turn", "remember"}
      PROVE  prefs'[BuyerOf(u)] = prefs[BuyerOf(u)]
  <2>1. u \in Open
    BY <1>5 DEF Open
  <2>2. BuyerOf(u) # BuyerOf(t)
    BY <1>1, <1>5, <2>1 DEF Prefer
  <2> QED BY <1>2, <1>5, <2>2, PreferAgents
<1>6. Told
  <2>1. ASSUME NEW t \in Turn, NEW w \in Worker, Begin(t, w)
        PROVE  Told
    <3>1. /\ agents' = agents /\ prefs' = prefs /\ pc'[t] # "turn"
          /\ u # t => pc'[u] = pc[u] /\ agent'[u] = agent[u] /\ history'[u] = history[u]
      BY <2>1 DEF Begin, Bind, Goto, process, stores, Types, TurnTypes
    <3> QED BY <1>4, <3>1
  <2>2. ASSUME NEW t \in Turn, NEW snapshot \in Snapshot, NewAgent(t, snapshot)
        PROVE  Told
    <3>1. pc[u] = "turn" => agent[u] # t
      BY <1>3, <2>2, AgentNew DEF NewAgent
    <3>2. prefs' = prefs
      BY <2>2, NewAgents DEF stores
    <3>3. CASE u = t
      BY <2>2, <3>3, NewAgents
    <3>4. CASE u # t
      BY <1>3, <1>4, <2>2, <3>1, <3>2, <3>4, NewAgents
    <3> QED BY <3>3, <3>4
  <2>3. ASSUME NEW t \in Turn, NEW known \in SUBSET Pref, Question(t, known)
        PROVE  Told
    <3>1. /\ prefs' = prefs /\ agent' = agent /\ history' = history
          /\ pc' = [pc EXCEPT ![t] = "turn"]
      BY <2>3, QuestionAgents DEF stores, local
    <3>2. pc[t] = "inputs" /\ pc[t] \in Bound
      BY <2>3 DEF Question, Bound
    <3>3. CASE u # t
      <4>1. pc[u] = "turn" => agent[u] # agent[t]
        BY <1>1, <1>3, <3>2, <3>3, AgentShared
      <4>2. pc[u] = "turn" => agents'[agent[u]] = agents[agent[u]]
        BY <1>3, <2>3, <4>1, QuestionAgents
      <4> QED BY <1>4, <3>1, <3>3, <4>2 DEF Types, TurnTypes
    <3>4. CASE u = t /\ ~history[t]
      <4> DEFINE own == agents[agent[t]]
                 given == injected[worker[t]][SessionOf[t]]
      <4>1. own.memory = {} /\ own.told = {}
        BY <1>1, <3>2, <3>4, BoundAgent DEF HintInv, EmptyInv
      <4>2. given = {}
        <5>1. agent[t] = registry[worker[t]][SessionOf[t]]
          BY <1>1, <3>2, <3>4 DEF OverlapInv
        <5> QED BY <1>1, <3>2, <3>4, <4>1, <5>1, BoundAgent, SessionType DEF HintInv
      <4>3. known = prefs[BuyerOf(t)]
        BY <1>1, <2>3, <3>4 DEF Question
      <4>4. agents'[agent[t]].told = IF known # {} /\ given # known THEN known ELSE own.told
        BY <2>3, QuestionAgents
      <4> HIDE DEF own, given
      <4>5. agents'[agent[t]].told = known
        BY <4>1, <4>2, <4>4
      <4> QED BY <3>1, <3>4, <4>3, <4>5
    <3> QED BY <3>1, <3>3, <3>4
  <2>4. ASSUME NEW t \in Turn, NEW p \in Pref, Prefer(t, p)
        PROVE  Told
    <3>1. UNCHANGED <<pc, agent, history>>
      BY <2>4, PreferAgents DEF local
    <3>2. CASE u = t
      BY <2>4, <3>1, <3>2, PreferAgents
    <3>3. CASE u # t /\ pc[u] = "turn"
      <4>1. pc[t] \in Bound
        BY <2>4 DEF Prefer, Bound
      <4>2. agent[u] # agent[t]
        BY <1>1, <1>3, <3>3, <4>1, AgentShared
      <4>3. agents'[agent[u]] = agents[agent[u]]
        BY <1>3, <2>4, <3>3, <4>2, PreferAgents
      <4> QED BY <1>4, <1>5, <2>4, <3>1, <3>3, <4>3
    <3> QED BY <3>1, <3>2, <3>3
  <2>5. ASSUME NEW w \in Worker, Crash(w)
        PROVE  Told
    <3>1. prefs' = prefs /\ history' = history
      BY <2>5, CrashAgents DEF stores
    <3> QED BY <1>3, <1>4, <2>5, <3>1, CrashAgents
  <2>6. ASSUME MemoryQuiet
        PROVE  Told
    <3>1. agents' = agents /\ prefs' = prefs
      BY <2>6 DEF MemoryQuiet, process
    <3>2. pc'[u] = "turn" =>
            pc[u] = "turn" /\ agent'[u] = agent[u] /\ history'[u] = history[u]
      BY <2>6 DEF MemoryQuiet, Bound
    <3> QED BY <1>4, <3>1, <3>2
  <2> HIDE DEF Told
  <2> QED BY <2>1, <2>2, <2>3, <2>4, <2>5, <2>6, StepMemoryKinds
<1>7. pc'[u] = "remember" => basis'[u] = prefs'[BuyerOf(u)]
  <2>1. CASE pc[u] = "remember"
    <3>1. basis'[u] = basis[u] /\ basis[u] = prefs[BuyerOf(u)]
      BY <1>1, <2>1, StepStable DEF KnownInv, Early
    <3>2. ASSUME NEW t \in Turn, NEW p \in Pref, Prefer(t, p)
          PROVE  prefs'[BuyerOf(u)] = prefs[BuyerOf(u)]
      BY <1>5, <2>1, <3>2 DEF Prefer
    <3> QED BY <3>1, <3>2, StepPhases
  <2>2. CASE Answer(u) /\ pc'[u] = "remember"
    <3>1. ~history[u] /\ pc[u] = "turn" /\ basis'[u] = agents[agent[u]].told /\ prefs' = prefs
      BY <2>2 DEF Answer, Goto, stores, Types, TurnTypes
    <3> QED BY <1>4, <3>1
  <2> QED BY <2>1, <2>2, StepPhases
<1>8. pc'[u] \in {"load", "fill"} => basis'[u] = scope'[u]
  <2>1. CASE pc[u] \in {"load", "fill"} /\ scope'[u] = scope[u]
    BY <1>1, <2>1, StepStable DEF KnownInv, Early
  <2>2. CASE ReadScope(u) /\ pc'[u] \in {"load", "fill"}
    <3>1. /\ pc[u] = "remember" /\ basis'[u] = basis[u]
          /\ scope'[u] = prefs[BuyerOf(u)]
      BY <2>2 DEF ReadScope, Goto, Types, TurnTypes
    <3> QED BY <1>1, <3>1 DEF KnownInv
  <2> QED BY <1>1, <2>1, <2>2, StepPhases
<1> QED BY <1>1, <1>6, <1>7, <1>8

LEMMA StepDialogue ==
  ASSUME Types, ProcessInv, OverlapInv, SaidInv, CacheInv, MemoryInv, DialogueInv, [Next]_vars
  PROVE  DialogueInv'
<1> DEFINE Loaded(s, t) == \A w \in Worker : registry[w][s] # None =>
                             t \in agents[registry[w][s]].memory
           Stored(s, t) == stored[s] # None /\ t \in stored[s].memory
<1> SUFFICES ASSUME NEW t \in Turn, OneWorker(SessionOf[t])', Saved(t)', said'[t] = t
             PROVE  Stored(SessionOf[t], t)' /\ Loaded(SessionOf[t], t)'
  BY DEF DialogueInv
<1>1. PICK s \in Session : s = SessionOf[t]
  BY SessionType
<1>2. OneWorker(s) /\ \A u \in Turn : SessionOf[u] = s /\ worker'[u] # None => u \notin shaken'
  BY <1>1, StepOrder DEF OneWorker
<1>3. \A u \in Turn : SessionOf[u] = s /\ pc[u] # "idle" =>
        worker[u] \in Worker /\ worker'[u] # None /\ u \notin shaken'
  BY <1>2, StepStable, ConversationAssumption DEF ProcessInv
<1>4. t \notin shaken'
  <2>1. ProcessInv' /\ pc'[t] # "idle"
    BY StepProcess DEF Saved, Recording
  <2>2. worker'[t] \in Worker
    BY <2>1 DEF ProcessInv
  <2> QED BY <1>1, <1>2, <2>2, ConversationAssumption
<1>5. Saved(t) => said[t] = t
  BY StepStable DEF Saved, Recording, Early
<1>6. \A w \in Worker : registry[w][s] # None =>
        /\ registry[w][s] \in Turn /\ worker[registry[w][s]] = w
        /\ SessionOf[registry[w][s]] = s
  BY DEF ProcessInv, BuiltBy
<1>7. Saved(t) => Stored(s, t) /\ Loaded(s, t)
  BY <1>1, <1>2, <1>5 DEF DialogueInv
<1>8. CASE Saved(t)
  <2>1. Stored(s, t) /\ Loaded(s, t)
    BY <1>7, <1>8
  <2>2. ASSUME NEW u \in Turn, NEW w \in Worker, Begin(u, w)
        PROVE  Stored(s, t)' /\ Loaded(s, t)'
    BY <2>1, <2>2 DEF Begin, stores, process
  <2>3. ASSUME NEW u \in Turn, NEW snapshot \in Snapshot, NewAgent(u, snapshot)
        PROVE  Stored(s, t)' /\ Loaded(s, t)'
    <3>1. pc[u] = "restore" /\ stored' = stored /\ agents'[u] = snapshot
      BY <2>3, NewAgents DEF NewAgent, stores
    <3>2. CASE SessionOf[u] = s
      <4>1. snapshot = stored[s]
        BY <1>3, <2>1, <2>3, <3>1, <3>2 DEF NewAgent
      <4>2. ASSUME NEW w \in Worker, registry'[w][s] # None
            PROVE  t \in agents'[registry'[w][s]].memory
        <5>1. CASE w = worker[u]
          BY <2>1, <2>3, <3>1, <3>2, <4>1, <5>1, NewAgents
        <5>2. CASE w # worker[u]
          <6>1. registry'[w][s] = registry[w][s] /\ registry[w][s] # u
            BY <2>3, <3>1, <4>2, <5>2, AgentNew, NewAgents
          <6> QED BY <1>6, <2>1, <2>3, <4>2, <6>1, NewAgents
        <5> QED BY <5>1, <5>2
      <4> QED BY <2>1, <3>1, <4>2
    <3>3. CASE SessionOf[u] # s
      <4>1. ASSUME NEW w \in Worker, registry'[w][s] # None
            PROVE  t \in agents'[registry'[w][s]].memory
        <5>1. registry'[w][s] = registry[w][s]
          BY <2>3, <3>3, NewAgents
        <5>2. registry[w][s] # u
          BY <3>1, <4>1, <5>1, AgentNew
        <5> QED BY <1>6, <2>1, <2>3, <4>1, <5>1, <5>2, NewAgents
      <4> QED BY <2>1, <3>1, <4>1
    <3> QED BY <3>2, <3>3
  <2>4. ASSUME NEW u \in Turn, NEW known \in SUBSET Pref, Question(u, known)
        PROVE  Stored(s, t)' /\ Loaded(s, t)'
    <3>1. stored' = stored /\ registry' = registry
      BY <2>4, QuestionAgents DEF stores
    <3>2. \A a \in Turn : t \in agents[a].memory => t \in agents'[a].memory
      BY <2>4, QuestionAgents
    <3> QED BY <1>6, <2>1, <3>1, <3>2
  <2>5. ASSUME NEW u \in Turn, NEW p \in Pref, Prefer(u, p)
        PROVE  Stored(s, t)' /\ Loaded(s, t)'
    BY <1>6, <2>1, <2>5, PreferAgents
  <2>6. ASSUME NEW w \in Worker, Crash(w)
        PROVE  Stored(s, t)' /\ Loaded(s, t)'
    <3>1. stored' = stored
      BY <2>6, CrashAgents DEF stores
    <3> QED BY <1>6, <2>1, <2>6, <3>1, CrashAgents
  <2>7. ASSUME MemoryQuiet
        PROVE  Stored(s, t)' /\ Loaded(s, t)'
    <3>1. Loaded(s, t)'
      BY <2>1, <2>7 DEF MemoryQuiet, process
    <3>2. ASSUME NEW u \in Turn, Persist(u)
          PROVE  Stored(s, t)'
      <4>1. stored' = [stored EXCEPT
                ![SessionOf[u]] = agents[registry[worker[u]][SessionOf[u]]]]
        BY <3>2 DEF Persist
      <4>2. CASE SessionOf[u] # s
        BY <2>1, <4>1, <4>2 DEF Types, StoreTypes
      <4>3. CASE SessionOf[u] = s
        <5> DEFINE saved == registry[worker[u]][s]
        <5>1. saved \in Turn /\ worker[u] \in Worker
          BY <3>2, <4>3, BoundAgent DEF Persist, Bound
        <5>2. t \in agents[saved].memory /\ agents[saved] \in Snapshot
          BY <2>1, <5>1, ConversationAssumption DEF Types, ProcessTypes
        <5>3. stored'[s] = agents[saved]
          BY <4>1, <4>3 DEF Types, StoreTypes
        <5> HIDE DEF saved
        <5>4. agents[saved] # None
          BY <5>2, ConversationAssumption DEF Snapshot
        <5> QED BY <5>2, <5>3, <5>4
      <4> QED BY <4>2, <4>3
    <3> QED BY <2>1, <2>7, <3>1, <3>2 DEF MemoryQuiet
  <2> HIDE DEF Stored, Loaded
  <2> QED BY <1>1, <2>2, <2>3, <2>4, <2>5, <2>6, <2>7, StepMemoryKinds
<1>9. CASE Persist(t)
  <2>1. /\ pc[t] = "persist" /\ said[t] = t /\ UNCHANGED <<agents, registry>>
        /\ stored' = [stored EXCEPT ![s] = agents[registry[worker[t]][s]]]
    BY <1>1, <1>9 DEF Persist, process
  <2>2. pc[t] \in Bound /\ agent[t] \in Turn /\ worker[t] \in Worker
    BY <2>1, BoundAgent DEF Bound
  <2>3. Orderly(s)
    BY <1>2, ConversationAssumption DEF OneWorker, Orderly, OverlapInv, ProcessInv
  <2>4. agent[t] = registry[worker[t]][s]
    BY <1>1, <2>2, <2>3 DEF OverlapInv
  <2>5. t \in agents[agent[t]].memory
    BY <2>1 DEF MemoryInv, AskedInv, Asked
  <2>6. Stored(s, t)'
    <3>1. agents[agent[t]] \in Snapshot
      BY <2>2 DEF Types, ProcessTypes
    <3>2. stored'[s] = agents[agent[t]]
      BY <2>1, <2>4 DEF Types, StoreTypes
    <3>3. agents[agent[t]] # None
      BY <3>1, ConversationAssumption DEF Snapshot
    <3> QED BY <2>5, <3>2, <3>3
  <2>7. \A w \in Worker : registry[w][s] # None => w = worker[t]
    <3> TAKE w \in Worker
    <3>1. registry[w][s] # None =>
            registry[w][s] \in Turn /\ worker[registry[w][s]] = w /\ SessionOf[registry[w][s]] = s
      BY <1>6
    <3> QED BY <1>1, <1>2, <2>2, <3>1, ConversationAssumption DEF OneWorker
  <2>8. Loaded(s, t)'
    BY <2>1, <2>4, <2>5, <2>7
  <2> QED BY <1>1, <2>6, <2>8
<1> QED BY <1>1, <1>3, <1>4, <1>8, <1>9, StepPhases

-----------------------------------------------------------------------------
(* The invariant and the theorems *)

Inv == /\ Types /\ ProcessInv /\ OverlapInv /\ EventsInv /\ RecordInv
       /\ MemoryInv /\ DialogueInv /\ SaidInv /\ KnownInv /\ CacheInv /\ AnswerFits

LEMMA InitInv == Init => Inv
<1> SUFFICES ASSUME Init PROVE Inv
  OBVIOUS
<1> USE ConversationAssumption, SessionType DEF Init
<1>1. TurnTypes
  BY DEF TurnTypes, Phase
<1>2. ProcessTypes
  BY DEF ProcessTypes, NoAgent, Snapshot
<1>3. StoreTypes
  <2>1. \A k \in Key : bucket[k] = <<>> /\ Len(bucket[k]) = 0
    OBVIOUS
  <2>2. prefs \in [Buyer -> SUBSET Pref]
    OBVIOUS
  <2>3. bucket \in [Key -> Seq(Turn)]
    OBVIOUS
  <2>4. \A k \in Key : Len(bucket[k]) <= BucketLimit
    BY <2>1
  <2> QED BY <2>2, <2>3, <2>4 DEF StoreTypes
<1>4. ProcessInv
  BY DEF ProcessInv, Bound, Filling
<1>5. OverlapInv
  BY DEF OverlapInv, Open, Bound, Filling
<1>6. EventsInv
  BY DEF EventsInv, TraceInv, EventsOnce, Published, Filling, Recording
<1>7. RecordInv
  BY FS_EmptySet DEF RecordInv, RowsInv, IndexInv, AnswerAfterQuestion
<1>8. MemoryInv
  BY DEF MemoryInv, EmptyInv, AskedInv, HintInv, Asked, Filling, NoAgent
<1>9. DialogueInv
  BY DEF DialogueInv, Saved, Recording
<1>10. SaidInv
  BY DEF SaidInv, Filling
<1>11. KnownInv
  BY DEF KnownInv
<1>12. CacheInv
  BY DEF CacheInv
<1>13. AnswerFits
  BY DEF AnswerFits
<1> QED
  BY <1>1, <1>2, <1>3, <1>4, <1>5, <1>6, <1>7, <1>8, <1>9, <1>10, <1>11, <1>12, <1>13
     DEF Inv, Types

LEMMA NextInv == Inv /\ [Next]_vars => Inv'
<1> SUFFICES ASSUME Inv, [Next]_vars PROVE Inv'
  OBVIOUS
<1> USE DEF Inv
<1>1. Types' /\ ProcessInv' /\ OverlapInv' /\ EventsInv' /\ RecordInv'
  BY StepTypes, StepProcess, StepOverlap, StepEvents, StepRecord DEF RecordInv
<1>2. MemoryInv'
  BY StepEmpty, StepAsked, StepHint DEF MemoryInv
<1>3. SaidInv' /\ KnownInv' /\ CacheInv' /\ AnswerFits' /\ DialogueInv'
  BY StepSaid, StepKnown, StepCache, StepFits, StepDialogue
<1> QED BY <1>1, <1>2, <1>3

LEMMA ConversationInvariant == Spec => []Inv
BY InitInv, NextInv, PTL DEF Spec

LEMMA InvTypeOK == Inv => TypeOK
<1> SUFFICES ASSUME Inv PROVE TypeOK
  OBVIOUS
<1> USE DEF Inv
<1>1. log \in [Session ->
        SUBSET [turn : Turn, role : {"buyer", "agent"}, index : 1..(2 * Cardinality(Turn))]]
  <2>1. ASSUME NEW s \in Session, NEW row \in log[s]
        PROVE  row \in [turn : Turn, role : {"buyer", "agent"},
                        index : 1..(2 * Cardinality(Turn))]
    <3>1. row \in Row /\ row.index \in 1..Cardinality(log[s])
      BY DEF RecordInv, RowsInv, RowOK
    <3>2. Cardinality(log[s]) <= 2 * Cardinality(Turn) /\ Cardinality(log[s]) \in Nat
          /\ Cardinality(Turn) \in Nat
      BY RecordSize, FS_CardinalityType, ConversationAssumption DEF RecordInv, RowsInv
    <3>3. row.index \in 1..(2 * Cardinality(Turn))
      BY <3>1, <3>2
    <3> QED BY <3>1, <3>3 DEF Row
  <2> QED BY <2>1 DEF Types, StoreTypes
<1>2. \A t \in Turn : pc[t] = "persist" => registry[worker[t]][SessionOf[t]] # None
  BY DEF ProcessInv, Bound
<1>3. \A k \in Key : bucket[k] \in Seq(Turn) /\ Len(bucket[k]) <= BucketLimit
  BY DEF Types, StoreTypes
<1> QED
  BY <1>1, <1>2, <1>3 DEF TypeOK, Types, TurnTypes, ProcessTypes, StoreTypes, Snapshot

(* Every variable has its type; no bucket of the cache grows beyond its     *)
(* limit, no record beyond a question and an answer of every turn, and a    *)
(* turn that ends finds an agent in the registry for persist to save.       *)
THEOREM ConversationTypes == Spec => []TypeOK
BY ConversationInvariant, InvTypeOK, PTL

(* In the record of a session an answer is read after its question, however *)
(* many turns race for the same turn_index in append_turn and whichever of  *)
(* them fail or die between their reads and their writes.                   *)
THEOREM RecordOrdered == Spec => []AnswerAfterQuestion
<1>1. Inv => AnswerAfterQuestion
  BY DEF Inv, RecordInv
<1> QED BY <1>1, ConversationInvariant, PTL

(* append_events records the outcome of a turn once: twice never unless the *)
(* turn overlapped another one of its session, whose trace saw it too.      *)
THEOREM OutcomeRecordedOnce == Spec => []EventsOnce
<1>1. Inv => EventsOnce
  BY DEF Inv, EventsInv
<1> QED BY <1>1, ConversationInvariant, PTL

(* What the semantic cache returns is an answer to the same question of the *)
(* same buyer, was given without an earlier turn's context, and was made    *)
(* with the preferences it is found under.                                  *)
THEOREM CachedAnswerFits == Spec => []AnswerFits
<1>1. Inv => AnswerFits
  BY DEF Inv
<1> QED BY <1>1, ConversationInvariant, PTL

(* SessionRegistry forgets nothing of a session whose turns follow one      *)
(* another on one worker, whatever other sessions do and however often the  *)
(* worker dies.                                                             *)
THEOREM DialogueIsKept == Spec => []DialogueKept
<1>1. Inv => DialogueKept
  BY DEF Inv, DialogueInv, DialogueKept
<1> QED BY <1>1, ConversationInvariant, PTL
=============================================================================
