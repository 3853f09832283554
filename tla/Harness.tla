------------------------------ MODULE Harness ------------------------------
(***************************************************************************)
(* The guards around tool calls: SequencingTracker (an order needs a       *)
(* search), LoopDetector (the same tool again and again), the schema check *)
(* of an answer, and DriftDetector, which looks at what a turn was told.   *)
(*                                                                         *)
(* The first three are a middleware of a tool, and see the calls of the    *)
(* tools it is given to.  MainAgentFactory gives it to task_dispatch and   *)
(* to remember_ and forget_preference only, so that no guard ever sees a   *)
(* search or an order.  DriftDetector sees every answer of the main agent. *)
(*                                                                         *)
(* A history is a sequence of events of all sessions, each between two     *)
(* awaits.  The turns of a session may overlap; a guard knows the session  *)
(* of an event and not its turn.                                           *)
(*   begin    a turn begins; about is the words of its request             *)
(*   call     a tool is called, before it runs                             *)
(*   answer   it has answered: "good", "empty" (a search without hits),    *)
(*            "odd" (not of its schema) or "error"; about is the words of  *)
(*            a request the answer repeats                                 *)
(*   check    the reply is complete, and the turn is looked at             *)
(*   end      the turn is over and what was kept of it is reset, after the *)
(*            answer was cached, and the session and the conversation      *)
(*            stored; a turn that fails or is answered from the cache ends *)
(*            without a check                                              *)
(*   restart  the process starts again: the guards have forgotten all      *)
(* An answer is not matched to its call: no guard keeps both.              *)
(***************************************************************************)
EXTENDS Integers, FiniteSets, Listing, SequencesExt

CONSTANTS
  Session,
  RepeatThreshold,    \* calls in a row that are a loop
  Window,             \* calls the loop detector remembers
  CheckInterval,      \* drift is looked for if the answers are a multiple of it
  EmptyLimit          \* answers without hits in a row that are a drift

ASSUME HarnessAssumption ==
  /\ {RepeatThreshold, Window, CheckInterval, EmptyLimit} \subseteq Nat \ {0}
  /\ RepeatThreshold <= Window

Checked == {"search", "insight", "order", "query", "cancel"}
Prerequisite == [order |-> "search", cancel |-> "query"]
HardReject == {"order"}

(* The tools MainAgentFactory gives the middleware to. *)
MainAgentGuards == {"dispatch", "remember", "forget"}

NoTrace == [request |-> {}, rounds |-> 0, recent |-> <<>>, empty |-> 0]
Fresh == [called |-> <<>>, calls |-> <<>>, trace |-> NoTrace]
Start == [s \in Session |-> Fresh]

LastOnes(n, seq) == SubSeq(seq, IF Len(seq) > n THEN Len(seq) - n + 1 ELSE 1, Len(seq))

-----------------------------------------------------------------------------
(* SequencingTracker.check: refused only if something else was called. *)
Sequencing(guard, tool) ==
  IF tool \notin DOMAIN Prerequisite \/ Contains(guard.called, Prerequisite[tool]) THEN "none"
  ELSE IF tool \in HardReject /\ guard.called # <<>> THEN "rejected" ELSE "warning"

(* LoopDetector.record and trailing_repeat *)
Looked(guard, tool) == LastOnes(Window, Append(guard.calls, tool))
TrailingRepeat(calls, tool) ==
  Cardinality({i \in DOMAIN calls : \A j \in i..Len(calls) : calls[j] = tool})

(* check_schema: what is reported as an error is no breach of the schema. *)
SchemaFails(event) == event.tool \in Checked /\ event.answer = "odd"

(* HarnessToolMiddleware.on_tool_call: what the model is told before the   *)
(* tool runs, and of its answer.                                           *)
Notices(guard, event, guarded) ==
  LET verdict == Sequencing(guard, event.tool) IN
  IF event.tool \notin guarded THEN {}
  ELSE IF verdict = "rejected" THEN {"rejected"}
  ELSE {n \in {"warning", "loop"} :
         \/ n = "warning" /\ verdict = "warning"
         \/ n = "loop"
              /\ TrailingRepeat(Looked(guard, event.tool), event.tool) >= RepeatThreshold}

SchemaNotice(event, guarded) ==
  IF event.tool \in guarded /\ SchemaFails(event) THEN {"schema"} ELSE {}

(* A call is remembered before it runs, so a search that fails is a        *)
(* search; one refused is not.                                             *)
Called(guard, event, guarded) ==
  IF event.tool \notin guarded \/ "rejected" \in Notices(guard, event, guarded) THEN guard
  ELSE [guard EXCEPT !.called = Append(@, event.tool), !.calls = Looked(guard, event.tool)]

(* DriftDetector.observe_action, of the answer to a refused call as well.  *)
Observe(trace, answer, about) ==
  [trace EXCEPT !.rounds = @ + 1,
                !.recent = LastOnes(3, Append(@, about)),
                !.empty = IF answer = "empty" THEN @ + 1 ELSE 0]
Answered(guard, event) == [guard EXCEPT !.trace = Observe(@, event.answer, event.about)]

-----------------------------------------------------------------------------
(* DriftDetector.start_turn: a request that is kept stays, so a turn that  *)
(* begins while another of its session runs is held to that one's.         *)
StartTurn(trace, event) ==
  IF trace.request = {} THEN [trace EXCEPT !.request = {event.about}] ELSE trace
BeginTurn(guard, event) == [guard EXCEPT !.trace = StartTurn(@, event)]

Due(trace) == trace.rounds > 0 /\ trace.rounds % CheckInterval = 0

(* computational_signals.  No caller passes tokens or black-listed hits.   *)
Misses(about, heard) == 5 * Cardinality(about \cap heard) < Cardinality(about)
Signals(trace) ==
  {r \in {"forgotten", "empty"} :
    \/ r = "forgotten" /\ trace.recent # <<>>
         /\ \E about \in trace.request : Misses(about, UNION ToSet(trace.recent))
    \/ r = "empty" /\ trace.empty >= EmptyLimit}

(* DriftDetector.check; no judge is given to it. *)
Reported(trace) == IF Due(trace) THEN Signals(trace) ELSE {}

(* Mutant: what was called is forgotten with the turn. *)
EndTurnForgetting(guard) == Fresh

(* The end of a turn resets the calls and the trace of its session, not    *)
(* what was called: also those of another turn that is still running.      *)
EndTurn(guard) == [guard EXCEPT !.calls = <<>>, !.trace = NoTrace]

-----------------------------------------------------------------------------
(* One event: the guards after it, and what was said of it. *)
Guards(guards, event, guarded) ==
  LET s == event.session IN
  CASE event.kind = "begin" -> [guards EXCEPT ![s] = BeginTurn(guards[s], event)]
    [] event.kind = "call" -> [guards EXCEPT ![s] = Called(guards[s], event, guarded)]
    [] event.kind = "answer" -> [guards EXCEPT ![s] = Answered(guards[s], event)]
    [] event.kind = "check" -> guards
    [] event.kind = "end" -> [guards EXCEPT ![s] = EndTurn(guards[s])]
    [] event.kind = "restart" -> Start

Told(guards, event, guarded) ==
  CASE event.kind = "call" -> Notices(guards[event.session], event, guarded)
    [] event.kind = "answer" -> SchemaNotice(event, guarded)
    [] event.kind = "check" -> Reported(guards[event.session].trace)
    [] OTHER -> {}

NothingDone(events, guarded) ==
  [events |-> events, guarded |-> guarded, history |-> <<>>, guards |-> Start, said |-> <<>>]

Handle(done, event) ==
  [done EXCEPT !.history = Append(done.history, event),
               !.guards = Guards(done.guards, event, done.guarded),
               !.said = Append(done.said, Told(done.guards, event, done.guarded))]

(* A turn of a session ends, or is cut off; and where it began, if it runs *)
(* at place i.                                                             *)
EndsTurn(event, s, n) ==
  \/ event.kind = "restart"
  \/ event.kind = "end" /\ event.session = s /\ event.turn = n
Begins(event, s, n) == event.kind = "begin" /\ event.session = s /\ event.turn = n

Begun(history, i, s, n) ==
  {b \in 1..(i - 1) : /\ Begins(history[b], s, n)
                      /\ \A k \in (b + 1)..(i - 1) : ~EndsTurn(history[k], s, n)}

(* handle_intent: a turn begins, has its tools called and answered, may be *)
(* looked at when its reply is complete, and ends.                         *)
Lawful(history, i) ==
  LET event == history[i]
      begun == Begun(history, i, event.session, event.turn)
      checked(b) == \E k \in b..(i - 1) : /\ history[k].kind = "check"
                                         /\ history[k].session = event.session
                                         /\ history[k].turn = event.turn
  IN
  \/ event.kind = "restart"
  \/ event.kind = "begin" /\ begun = {}
  \/ event.kind = "end" /\ begun # {}
  \/ event.kind \in {"call", "answer", "check"} /\ \E b \in begun : ~checked(b)

-----------------------------------------------------------------------------
(* What should be said, read off the history.  What a session did before   *)
(* place i, since its guards last forgot.                                  *)
Forgets(event, s, kinds) ==
  \/ event.kind = "restart"
  \/ event.kind \in kinds /\ event.session = s

Lately(history, i, s, kinds) ==
  {j \in 1..(i - 1) : /\ history[j].session = s
                      /\ \A k \in j..(i - 1) : ~Forgets(history[k], s, kinds)}

(* What the turn of place i did itself; and whether it has its session to  *)
(* itself: every other turn was over when it began.                        *)
Own(history, i) ==
  LET s == history[i].session  n == history[i].turn IN
  {j \in 1..(i - 1) : /\ history[j].session = s /\ history[j].turn = n
                      /\ \E b \in Begun(history, i, s, n) : b <= j}

Alone(history, i) ==
  LET s == history[i].session  n == history[i].turn IN
  \A b \in Begun(history, i, s, n), j \in 1..(i - 1) :
    history[j].turn # n /\ Begins(history[j], s, history[j].turn) =>
      \E k \in (j + 1)..(b - 1) : EndsTurn(history[k], s, history[j].turn)

(* What a turn is held to: what it did itself if it is alone, and if turns *)
(* of a session overlap what they all did since the last of them ended.    *)
HeldTo(history, i) ==
  IF Alone(history, i) THEN Own(history, i)
  ELSE Lately(history, i, history[i].session, {"end"})

OfKind(history, places, kind) == {j \in places : history[j].kind = kind}

(* The calls that were let through. *)
Through(history, said, places, guarded) ==
  {j \in OfKind(history, places, "call") : history[j].tool \in guarded /\ "rejected" \notin said[j]}

(* An order is refused if the buyer's session has done something since the *)
(* start of the process, and no search; a loop is the last calls of the    *)
(* turn, this one too, being of one tool.                                  *)
CallGuarded(history, said, i, guarded) ==
  LET event == history[i]
      before == Through(history, said, Lately(history, i, event.session, {}), guarded)
      turn == Through(history, said, HeldTo(history, i), guarded)
      latest == LastOnes(RepeatThreshold - 1, Ascending(turn))
  IN
  /\ "rejected" \in said[i] <=>
       /\ event.tool \in guarded \cap {"order"} /\ before # {}
       /\ \A j \in before : history[j].tool # "search"
  /\ "loop" \in said[i] <=>
       /\ event.tool \in guarded /\ "rejected" \notin said[i]
       /\ Len(latest) = RepeatThreshold - 1
       /\ \A j \in ToSet(latest) : history[j].tool = event.tool

(* A turn is reported when as many answers as are due have come: if the    *)
(* last of them were empty, and if the last three repeat hardly a word of  *)
(* the request it was begun with.                                          *)
TurnJudged(history, said, i) ==
  LET places == HeldTo(history, i)
      answers == OfKind(history, places, "answer")
      begun == Ascending(OfKind(history, places, "begin"))
      due == answers # {} /\ Cardinality(answers) % CheckInterval = 0
      latest == LastOnes(EmptyLimit, Ascending(answers))
      heard == UNION {history[j].about : j \in ToSet(LastOnes(3, Ascending(answers)))}
  IN
  /\ "empty" \in said[i] <=>
       /\ due /\ Len(latest) = EmptyLimit
       /\ \A j \in ToSet(latest) : history[j].answer = "empty"
  /\ "forgotten" \in said[i] <=>
       due /\ begun # <<>> /\ Misses(history[begun[1]].about, heard)

=============================================================================
