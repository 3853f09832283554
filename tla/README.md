# Globex-Agent: specifications, model checking and proofs

Globex-Agent is a shopping assistant for cross-border trade: an HTTP and
WebSocket server takes a buyer's intent, a main agent with tools searches a
catalogue, quotes landed prices and places orders. This directory holds TLA+
specifications of the parts whose correctness depends on interleaving,
failures and order, TLC configurations that check them, and theorems checked
by TLAPS.

    tlc -config MCOrderRaces.cfg MCOrderFlow      # one model-checking run
    tlapm OrderFlow_proofs.tla                    # the proofs of a module

`PROJECT.json` lists the runs, the source lines of every definition, the
hazards and the theorems.

## The system and its parts

All paths are below `src/app/`.

| Part | State | Operations | Interacts with | Hard behaviour |
|---|---|---|---|---|
| Orders: `application/usecases/order_usecases.py`, `domain/order`, `application/tools/order_tools.py` | an `Order` aggregate in memory for each request | place, query, cancel | product and order repositories, one awaited transaction after another | interleaved requests, compensation, tool timeouts |
| SQL repositories: `infrastructure/persistence/sql` | products, SKUs with stock, price and version, orders, sessions, conversation, preferences | reserve, restore, update, replace, save, find, next id | used by orders, search, sessions | conditional UPDATE, merge, "database is locked" |
| Demo catalogue: `application/usecases/demo_catalog.py` | none | price rise, sold out, off shelf, reset | the product repository, beside running orders | changes between confirmation and order |
| In-memory and JSON stores: `infrastructure/persistence` | the same ports in one process | the same | the same | coroutines that never suspend |
| Task queue and worker: `infrastructure/queue`, `worker.py` | two Redis streams, a consumer group, dead letters, task status | enqueue, consume, acknowledge, dead-letter, stop | API process, orchestrator, Redis | crashes, at-least-once delivery, bounded concurrency |
| Intent endpoints: `presentation/server.py` | idempotency keys in Redis | enqueue, wait for the result | queue, cache, event bus | duplicate submissions, lost events, deadlines |
| Event bus and backplane: `infrastructure/eventbus.py`, `redis_stream_queue.py`, `presentation/connection.py` | subscriber queues | publish, deliver, broadcast, listen | worker to API to WebSocket | fire-and-forget tasks, reordering, loss |
| Tool resilience: `infrastructure/resilience.py` | breaker state for each tool | allow, record success, record failure, timeout | every tool call | overlapping calls, abandoned probes |
| Shared breaker: `infrastructure/shared_breaker.py` | the same state in Redis | the same, with read and write apart | several processes | lost updates, store faults, expiry |
| LLM access: `infrastructure/throttle.py`, `llm.py`, `transient.py`, `budget.py` | semaphore, last start, token budget | slot, space out, retry, fallback, consume | agents | streams that hold slots, retries |
| Sessions and orchestrator: `application/agents` | agents by session, agent state | get or create, persist, handle intent, retry | everything above | check, await, set |
| Semantic cache: `infrastructure/cache` | cached answers by scope | lookup, remember | orchestrator, preferences | stale scope |
| Harness: `infrastructure/harness_middleware.py`, `application/harness` | tool history by session | check order of calls, detect loops, detect drift, reset after a turn | tool calls | recorded before execution; check and reset apart |
| Search and prices: `catalog_search.py`, `domain/catalog`, `domain/shipping` | none | recall, fuse, filter, rerank, quote | repositories, vector index | degradation, hard filters |
| Preferences: `domain/buyer`, `application/memory`, tools | preferences by buyer | append, list, delete, select | orchestrator | duplicates |

What makes each correct, and where it is modelled:

* Orders: no unit of stock is promised twice, what was reserved is sold or put
  back, a buyer pays the price that was confirmed, a card buys once, and a
  confirmed order is in the table. `OrderFlow`, `OrderLedger`, `OrderAccounts`.
* Queue: a submitted task is worked on to its end and at most once for each
  question, at most `concurrency` at a time, and whoever waits gets an answer of
  its own session. `IntentQueue`.
* Breaker: open exactly when the last calls have failed, shut for the cooling
  time, closed again when the tool recovers. `CircuitBreaker`, `SharedBreaker`.
* Model calls: no slot is lost, starts keep their distance, the budget shifts calls
  to the cheap model in time, every call ends. `Gateway`.
* Conversations: a cached answer fits the buyer and the preferences it is reused
  under, a session keeps its memory, the record of a session is in order.
  `Conversation`.
* Rules: a quote is what rates, freight and tariff come to; a search honours the
  constraints whatever fails; dislikes are never dropped; the stores behind one port
  agree; guards hold a turn that is alone to what it did itself; better rankings score better. `Pricing`, `Search`,
  `Preferences`, `ProductStores`, `Harness`, `Evaluation`, brought together by `Rules`.

## Modules

| Module | What it is |
|---|---|
| `OrderFlow` | state machine of placing and cancelling orders beside the demo scenarios |
| `OrderUnits` | how many units a sequence of order lines stands for |
| `OrderAccounts` | where every unit of stock is in a state of `OrderFlow`; the refinement mapping |
| `OrderLedger` | abstract specification: placing and cancelling are atomic |
| `OrderFlow_proofs`, `OrderAccounts_proofs` | theorems about orders one by one, and about the stock they account for |
| `IntentQueue` | API process, Redis streams and workers |
| `IntentQueue_proofs` | theorems about `IntentQueue` |
| `CircuitBreaker` | local breaker of one tool and the middleware around it |
| `CircuitBreaker_proofs` | theorems about `CircuitBreaker` |
| `SharedBreaker` | the same breaker in Redis; refines `CircuitBreaker` |
| `SharedBreaker_proofs` | theorems about `SharedBreaker` |
| `Gateway` | calls of the language model: slots, spacing, retries, fallback, streams, budget |
| `Gateway_proofs` | theorems about `Gateway` |
| `Conversation` | turns of sessions: agents, snapshots, hints, semantic cache, traces, record |
| `Conversation_proofs` | theorems about `Conversation` |
| `Pricing`, `Search`, `Preferences`, `ProductStores`, `Harness`, `Evaluation` | pure rules, each with the reference definition it is compared with |
| `Listing` | sets put in order, and the items of a sequence at some of its places |
| `Rules` | state machine that tries the rules on one case after another, and lets what buyers say and what sessions do grow step by step |
| `Rules_proofs` | theorems about prices, search, preferences, the product repositories, the guards and the evaluation |
| `MC*` | instances for TLC |

An operator whose comment begins with "Mutant" is a variant of the definition
below it with a plausible mistake. No specification uses it: it documents which
mistake a property would catch.

### OrderFlow

`pc[c]` is the repository call that request `c` makes next, `draft[c]` the
`Order` it holds in memory, `oid[c]` the id it read, `at[c]` the loop variable
of the two loops over lines. Every awaited repository call is one SQL
transaction and one action:

| Action | Code |
|---|---|
| `BeginPlace`, `Reserve`, `RejectItem` | `create_order_tool`, the loop of `PlaceOrderUseCase.execute`, `reserve_stock` |
| `AssignId`, `RejectCurrency` | `next_order_id` and `Order.place` |
| `Save` | `SqlOrderRepository.save`, for both use cases |
| `UndoLine` | one `restore_stock` of the `except` block |
| `BeginCancel`, `RestoreLine` | `find_by_id` and `Order.cancel` on the copy, then the restore loop |
| `Reply` | the snapshot reaches the caller |
| `DbFault`, `Timeout` | a repository call raises; `asyncio.wait_for` cancels the tool, or the process dies |
| `RaisePrice`, `SellOut`, `TakeOffShelf`, `Reset` | the demo scenarios |

`OrderAccounts` counts units as elements of a set, each named by who holds it, its
line and its number in the line, so that a count is a cardinality.

With one client requests run one at a time. That is also the in-memory
implementation, whose coroutines never suspend.

Abstracted: the buyer and the agent are `AcceptCard` and `ForgetCards`: a card of
an active product with its current version enters the cart, and stays there for
retries until a new search. The two reads of `find_by_id`, and the read and the
write of a scenario, are one step each. Addresses, titles, totals and time stamps
are left out. Requests that fail before their first write (no such order, empty
item list, missing version) change nothing and are left out too.

### IntentQueue

A request and the task id it generates have one name. `rpc[r]` is the Redis call
that `_enqueue` or `_await_result` makes next; `hpc[t]` the call of the handler
of entry `t` (`worker.handle` inside `_handle_one`); `flight[w]` the set
`in_flight` of the consume loop, which keeps handlers that are over until it is
pruned.

| Action | Code |
|---|---|
| `Acquire`, `Lookup`, `Enqueue`, `SetQueued` | the four awaited calls of `_enqueue` |
| `Poll`, `GiveUp`, `Deliver` | the three ways out of `_await_result` |
| `Read`, `Prune`, `Stop`, `Restart` | the consume loop and the shutdown of a worker |
| `Start`, `Work`, `Record`, `MarkFailed` | `worker.handle` |
| `Ack`, `Judge` | `_handle_one` after the handler |
| `RequestFault`, `HandlerFault`, `Crash`, `Lose`, `Expire` | a Redis call fails, a worker dies, a broadcast is lost, the key expires |

`handle_intent` catches every exception and returns an error text, so a turn
that failed is recorded as done; it publishes `error` and no `final.result`
(`Work` chooses). `TimesDelivered` is one because every read asks for `>` and
`claim_stale` has no caller. The stream is chosen freely (the turn counter behind
`_queue_priority` is a heuristic), and a request may give up at any time after it
began to wait (time is abstracted). An entry whose payload cannot be parsed does
not occur: `enqueue` writes all of them. A restart of the API process is not an
action of its own; a Redis error at any call leaves the same state behind.

### CircuitBreaker and SharedBreaker

One tool; the registry keeps a separate state for each name. `age` is the time
since `opened_at`, stopped at `Reset` because only `elapsed < reset_seconds` is
ever tested; `failures` stops at `Threshold` for the same reason. Whether a tool
call times out, raises or ends with an ERROR chunk, it is recorded as a failure:
the outcome is chosen freely. `Abandon` is a turn that is cancelled while its tool
runs. `streak`, `probe` and `cooling` are history that only properties read.

In `SharedBreaker` the read and the write of the JSON value are two steps, a
failed read counts as no state, a failed write is dropped, and the key may expire.
A failure takes effect at its time stamp (`LoadFailure`), a probe when its mark is
written (`SaveProbe`). With one caller that is `CircuitBreaker`, through `View`.

### Gateway

One intent, whose agents share a `TokenBudget`, and the process-wide throttle.
`pc[c]` is where a call stands; `free` is the semaphore, `since` the time since the
last spaced start (stopped at the interval), `wait[c]` what is left of a sleep.

| Action | Code |
|---|---|
| `Request`, `Acquire`, `Enter`, `Start` | `GatewayThrottle.slot`: the semaphore, the interval lock, the sleep under it, `_last_start` |
| `Dispatch`, `Retry`, `Transient` | `_invoke_upstream` and `_call_with_fallback`: the tier picks the model, transient errors are retried in the same slot, then the fallback model is asked once |
| `Answer`, `Open`, `Fail` | the three ways out of `ThrottledChatModel.__call__` |
| `Read`, `Close`, `Drop` | `_release_after_stream`: a stream is read, ends or is closed, or is dropped before its first chunk |
| `Cancel` | the turn is cancelled at any await |
| `Charge` | `_charge_budget` |

Which errors are transient (`transient.py`) is a choice; the events that announce a
fallback, and the hint of the "minimal" tier, change no state.

### Conversation

`handle_intent` from `get_or_create` to the record; one action for each awaited
call. An agent has the name of the turn that built it and an answer that of the turn
that gave it, so that "who made what, knowing what" can be asked of every state.

| Action | Code |
|---|---|
| `Begin`, `Restore` | `SessionRegistry.get_or_create`: the check, the load, the set |
| `ReadScope`, `Lookup` | `_preference_scope`, `_lookup_cache` |
| `BuildInputs`, `Prefer`, `Answer`, `Fail` | `_build_inputs`, the agent's reply and its preference tools |
| `ReadScope`, `Load`, `Fill` | `_remember_cache`: read of the bucket and write of it |
| `Persist` | `SessionRegistry.persist` |
| `TouchFails`, `ReadIndex`, `AppendTurn`, `AppendEvents` | `_record_conversation` and the SQL conversation store |
| `ReadFault`, `WriteFault`, `Crash` | a store fails, a worker dies |

A similar query is an equal query, the time to live of a cached answer is left out,
and what the agent says is a choice.

### The rules

`Rules` picks a topic and tries each case of it; an invariant states what the rules of
that topic promise for every case. Of two topics a case is a history: what a buyer has
the preference tools do (`Listen`, `Say`), and what sessions do and when the process
starts again (`Watch`, `Happen`); each state is compared with what its history says. The definitions are translations of the functions
they name, with data reduced to what decides:

* `Pricing`: `Money`, `ExchangeRateTable`, `TariffSchedule.quote`, with rates in
  thousandths. The code multiplies floats, which may round an exact half the other way.
* `Search`: `CatalogSearchUseCase.execute`. The index and the reranker answer anything
  or fail; the score of a product for words is given. The scores of the fusion are
  fractions, compared exactly, where the code adds floats.
* `Preferences`: both preference stores, the two tools, `PreferenceSelector`, and what
  `task_dispatch` tells a sub-agent.
* `ProductStores`: every operation of the two product repositories, compared step by
  step through `Rows`, which makes tables of objects. Each refusal keeps the reason its
  repository gives and the place of its check: a restore or a change of price or stock is
  refused by the memory for a missing product, then a missing SKU, then a negative number,
  and by the database for a negative number, then for a missing SKU, also when it is the
  product that is missing.
* `Harness`: sequencing, loop and drift over histories of turns of several sessions, with
  restarts. A turn begins, has tools called and answered, is checked for drift and ends
  with the resets; each of these is an event of its own, as awaits lie between them, and
  events of other turns of the same session may come between any two. A guard knows the
  session of an event, not its turn, so both are in the history and only the session is
  used by the guards. An answer is not matched to a call: the drift detector sees answers
  only, the loop detector calls only. It models which tools `MainAgentFactory` gives the
  middleware to.
* `Evaluation`: recall, MRR, NDCG, the gate, the check of constraints and of the dataset,
  and the judged regression. Scores are integers of 0 to `Full`; `Discount` lists the
  discounts of NDCG in thousandths and is as long as the longest ranking evaluated.

## What the runs check

| Run | Shows | Size |
|---|---|---|
| `MCOrderRaces` | two clients, two lines, price rises, delisting, selling out, database faults, timeouts: `TypeOK` (stock never negative), `NoOversell`, `PriceHonoured`, `CardSpentOnce` | 323,000 states |
| `MCOrderAlone` | one client, placing and cancelling, three SKUs in two currencies, sold out and reset: `StockExact`, `OrderDurable`, `ImplementsLedger`, `RequestReturns` | 448,000 states |
| `MCQueueSafe` | three requests of two sessions, two of them the same question, two workers, any two of Redis error, crash, lost event, expired key; dead letters: `TypeOK`, `NoTaskVanishes`, `ConcurrencyCapped`, `AnswerOfSession`, `OneTurnPerQuestion` | 2,193,000 states |
| `MCQueueLive` | any one fault, fairness: `TasksFinish`, `RequestsAnswered` | 190,000 states |
| `MCBreaker` | three overlapping callers, fairness: `OpenExactlyAfterThreshold`, `CoolDownHeld`, `RecoversWhenHealthy`, `TypeOK` | 439 states |
| `MCSharedBreaker` | two callers, two store faults, fairness: `TypeOK`, `RecoversWhenHealthy`, `ImplementsLocal` | 8,200 states |
| `MCGateway` | three calls, two slots, a retry, a fallback, a dropped stream, fairness: `TypeOK`, `SlotsAccounted`, `MainSpendBounded`, `StartsSpaced`, `CallsEnd` | 165,000 states |
| `MCConversation` | three turns of two sessions on two workers, one fault, change of preferences or overlap: `TypeOK`, `AnswerFits`, `DialogueKept`, `AnswerAfterQuestion`, `EventsOnce` | 303,000 states |
| `MCRules` | all cases below: `LandedFaithful`, `HitsHonourTheRequest`, `FusionRespectsBoth`, `DislikesKept`, `PreferenceStoresAgree`, `ProductStoresAgree`, `GuardsSeeTheTurn`, `BetterIsScoredBetter` | 652,000 states |
| `MCOrderDoubleCancel` | violated: `CancelOnlyConfirmed` | |
| `MCOrderTimeoutLeak` | violated: `NothingLeaked` | |
| `MCQueuePending` | violated: `PendingRedelivered` | |

**Bounds.** Two clients with two lines each reserve the same SKU against a stock
of two or three, so that the second reservation fails before, between and after
the first; two requests are enough for a collision of any two steps, and one
scenario for a change at any point. Three requests of which two are the same
question cover a hit on the idempotency key at every point of the first
submission, with a third task to take a slot or a session's event from. Two
faults cover a failure of the recovery from a failure. Three callers with a
threshold of three or four cover a success, a failure and a probe that overlap.
Three model calls over two slots leave one waiting while one streams and one backs
off; the budget of two tokens is crossed by any two of them. Two turns of a session
and one of another, of the same buyer or not, cover an answer reused inside and
outside its session; one event puts a fault, a changed preference or an overlap at
every point. The bounds are constants of the modules: `MaxLines`, `MaxRequests`,
`MaxScenarios`, `MaxFaults`, `MaxDeliveries`, `MaxEvents`, `MaxCalls`, `MaxOverlaps`,
`MaxDropped`.

The cases of `MCRules`: amounts on both sides of every tariff allowance; catalogues of
up to four products that suit, are off the shelf, too dear or not shipped, with more
candidates than a recall gives and more rejected ones than are reported; all pairs of
rankings of up to three of four products; up to four preferences with equal dates and
equal relevance; up to five calls of the preference tools; one or two products of which
one has two SKUs, with every call and boundary value; histories of up to seven events of
two turns of a session, overlapping or not, and one of another, so that every verdict is
reached by a turn alone after an earlier one and by two that overlap; rankings of up to four items with repetitions; all answers of a judge over three
attempts. Each is one more than the windows, limits and thresholds it meets.

**Symmetry** is used in safety runs only: over clients, over workers, over buyers, and
over the two requests with the same question. `MCConversation` has an action constraint,
`SessionsCommute`, explained where it is defined: steps that touch one session only are
not interleaved with those of the other.

**Fairness.** `OrderFlow`: a request that has begun goes on, since the event loop
runs what is ready and a database call returns or raises within its busy timeout.
`IntentQueue`: the same for Redis calls; the deadline passes; a worker that was
stopped is started again; the faults, new requests and deliveries are not fair.
`CircuitBreaker`: time passes and a tool call ends, because it has a timeout; that
agents go on calling the tool is an assumption of the property, not of the code.
`Gateway`: time passes, the semaphore wakes who waits, a request to the model ends
because the client has a timeout, and a stream is read to its end or closed; a stream
that is dropped unread is not.

**Conditions.** `NoOversell` is checked without cancellations, `OrderDurable` and
`StockExact` with one client, because the gaps below break them otherwise.
`OneTurnPerQuestion` holds while the idempotency key lives and Redis answers the
calls that read and write it; the code lets requests through otherwise, by design.
`ConcurrencyCapped` is checked for one stream. `ImplementsLocal` is about steps during
which no other caller and no fault interferes. `AnswerFits`, `DialogueKept` and
`EventsOnce` name the turns they leave out (`crossed`, `shaken`): those that overlap a
turn of their session, and those a store failed for or whose buyer changed preferences
from another session. An answer is cached under the preferences it was made with only
if the turns of its session never overlapped (`Orderly`), not just its own turn: after an
overlap the registry may keep an agent that does not know a hint which the session counts
as given. `TasksFinish` leaves out a task
whose own handler was cut short.

## What is proved

### Orders

For every value of the constants that satisfies `ConstantsAssumption`:

* `TypeCorrect`: `Spec => [](TypeOK /\ PhaseOK)`. `TypeOK` alone is not inductive:
  that `NextCard(c)` is a card needs that a request in "reserve" has a card left;
  that `Merge` keeps a sequence needs that the id is at most one past its end; that
  a restored line exists needs the range of `at`. `PhaseOK` says these, and that no
  stored order is empty. Lemmas state what `Merge`, `WriteStock`, `Return`,
  `Unwind` and a save do; one step for each action uses them.
* `PricesHonoured`: `PriceHonoured` always holds if "reset" is not among the
  scenarios. The strengthening relates every card in every cart to the current
  row: versions of cards never exceed the row's, and a card at the row's version
  carries the row's price.
* `CardsSpentOnce`: under the same assumption a reservation never spends a version
  that was spent. The strengthening: every spent version is below its row's.

If there is one client, with all faults and scenarios:

* `OrdersDurable`: `OrderDurable`; `CancelsOnce`: `CancelOnlyConfirmed`, which
  `MCOrderDoubleCancel` refutes for two clients, so that the double cancellation needs
  their overlap. The strengthening `AloneInv` says that the order a request read is
  still in the table as it was read, and that the id it was given is free.

About the accounts, if there are finitely many clients (`ClientAssumption`):

* `UnitsPromisedOnce`: `NoOversell` if "cancel" is not among the operations, for any
  number of placements in flight, with colliding order ids, faults and timeouts. The
  invariant adds that nobody has units to give back and that receipts are finite sets.
* `StockIsExact`, `NothingIsLeaked`, `OrdersImplementLedger`: `StockExact`,
  `NothingLeaked` and `ImplementsLedger` if there is one client and no fault. The second
  is what `MCOrderTimeoutLeak` refutes with a timeout: the leak needs a fault or an
  overlap. The argument is that what is in stock and held, less what was given back, is
  changed by four kinds of steps only: one that files an order and gives up its held
  units to it, one that stores a cancellation and makes the given-back units free, one
  that changes the supply, and all others, which leave it as it is.

Both rest on lemmas about counts: what a line more adds (`UnitsAppend`), and that a total
is the part of one client and the rest (`FamilySplit`, `OthersSame`).

### Queue

For any requests, sessions, questions, streams, workers, concurrency and faults
(`QueueAssumption`), from one inductive invariant, `QueueInv`:

* `QueueTypeCorrect`: that a waiting request has a task needs that a request which sets
  the status has one; that what a worker takes is a part of a stream needs that it has
  finitely many handlers, so that its free slots are a number.
* `TurnsAreUnique`: `OneTurnPerQuestion`. `Once` says that an entry is in one place of
  one stream and untouched while it is there, `Submitted` that only what a request sent
  is worked on and that it sends once, `Keyed` that the key of a fingerprint names the
  one request that sends, until it lapses.
* `AnswersFit`: `AnswerOfSession`. `Worked` says that only finished turns are announced
  or recorded as done; `Submitted`, that a reused task has the same fingerprint.
* `TasksAreKept`: `NoTaskVanishes`. `Worked` says that a handler about to acknowledge
  has finished, or has put the entry into the dead-letter stream.
* `LoadIsCapped`: `ConcurrencyCapped` if one stream is in use; with two it fails, see
  below. What is taken fits into what is free (`TakenFits`).

Lemmas say what a read and an append do to the streams (`ReadMoves`, `EnqueueAppends`).

### Breakers

For any set of callers, any threshold and any cooling time
(`BreakerAssumption`):

* `BreakerTypes`, `OpensExactly`: `TypeOK` and `OpenExactlyAfterThreshold`; the
  inductive invariant adds that the count equals the streak of failures.
* `CoolDownHolds`: `CoolDownHeld`; the inductive invariant adds that the cooling
  time left is what the age of an open breaker leaves of it.
* `SharedTypes`: `TypeOK` of the shared breaker, whose last part says that every state
  in the store, and every copy that a caller carries from a read to a write, is one the
  breaker can be in. How long a breaker cools is no part of it (see Known gaps).
* `SharedImplementsLocal`: every undisturbed step of the shared breaker is a step of the
  local one, whatever races and faults came before. The proof has one step for each
  action and looks at who is between a read and a write, since `View` is the copy of that
  caller.

### Model calls

For any calls, any limit of concurrency, any interval, number of retries and budget
(`GatewayAssumption`):

* `TypeCorrect` and `SlotsAreAccounted` are proved together: that the semaphore stays
  below its limit needs that every slot is counted, and the count needs the types.
  Lemmas say how a step changes the number of calls in a set of phases (`Enters`,
  `Leaves`, `Stays`); each action is one of the three.
* `StartsAreSpaced`: the strengthening `Spacing` says that who sleeps for the interval
  sleeps alone, and no shorter than what is left of the interval. It fails without the
  lock, and holds when the sleeper is cancelled.
* `MainSpendIsBounded`: the strengthening `SpendInv` adds what the calls under way at
  the main model may yet charge; such a call was sent while less than half of the
  budget was used, and holds a slot.

### Conversations

For any turns, sessions, buyers, preferences, queries, workers and faults
(`ConversationAssumption`: finitely many turns, and names that differ), from one
inductive invariant, `Inv`:

* `ConversationTypes`: `TypeOK`. That a turn that ends has an agent to save needs that
  agents in a registry were built by that process for that session (`ProcessInv`).
* `RecordOrdered`: `AnswerAfterQuestion`. `RecordInv` says that indexes are bounded by
  the number of rows, so that the index a turn reads for its answer is above that of its
  question, whoever else writes in between.
* `OutcomeRecordedOnce`: `EventsOnce`. `TraceInv` says that only an overlapping turn has
  another's outcome in its trace, `OverlapInv` that open turns of a session overlap.
* `DialogueIsKept`: `DialogueKept`. `DialogueInv` adds that the agent in a registry knows
  what the snapshot knows, `MemoryInv` that a turn under way is in its agent's memory.
* `CachedAnswerFits`: `AnswerFits`. `CacheInv` says it of every bucket and of the copy of
  a bucket that a turn is about to write back; `KnownInv`, that in an orderly session the
  preferences an agent was told are those the answer is stored under; `HintInv`, that such
  a session was given no hint before it has an agent that remembers something. The attempt
  to prove the property showed that an earlier form of it, without `Orderly`, is false with
  three turns of a session.

### Prices

* `AnyPriceIsFaithful`: `LandedFaithful` for every amount, quantity, category,
  destination and pair of currencies (`PriceAssumption`), in the exact arithmetic of
  `Pricing`. A rounded quotient is off by no more than a half and keeps the order
  (`RoundedNear`, `RoundedMonotone`); a quote is three conversions, of an exact freight,
  of the amount, and of a tariff that is off by half a fen and the tariff on one fen.

### Search

For any catalogue, any answers of the index and the reranker or their failure, any
limits and smoothing constant (`SearchAssumption`; a query is `IsQuery`: prices at a
known rate, an index that lists a product once, scores that are integers):

* `AnyAnswerHonoursTheQuery`: `HitsHonourTheRequest`. A set put in order is a list of
  it, once each, in that order (`InOrderLists`, `ListsOnce`: by counting who
  is ahead); what is kept of such a list, or is its first places, is once each too
  (`OnceKept`, `OnceCount`), so that hits can be counted as a set.
* `AnyFusionRespectsBoth`: `FusionRespectsBoth` for any two rankings without repetitions
  (`FusionCaseAssumption`). Fractions are compared by cross-multiplying; a sum is above
  another if no part is below and one is above (`PlusAbove`).

### Preferences

* `DislikesAlwaysKept`: `DislikesKept` for any list of preferences, similarities and k
  (`SelectionCaseAssumption`: each preference once). What is selected is the dislikes and
  the likes at some places (`SelectPicks`), and those are the best (`BestOfKept`).
* `PreferencesAlwaysAgree`: `PreferenceStoresAgree` after any number of calls, whatever
  is said (`PreferenceAssumption` names the two tools). The inductive invariant
  `StoresInv` says that the ids of the table are below its next id, one row for each kind
  and statement, and that file and table list what is `Remembered` of the calls; an
  insert, a rolled-back insert and a delete each keep that (`RememberOne`, `ForgetOne`,
  `SqlAppends`, `SqlDeletes`).

### Product repositories

* `AnyStoresAgree`: `ProductStoresAgree` for every content of the repositories and every
  call with arguments of the right kind (`StoreAssumption`). A set of rows with ids has one
  sorted listing (`SortedUnique`, by counting: an increasing map of 1..n to itself is the
  identity), so what is loaded is what was stored (`LoadsBack`); replacing one sku of a
  product replaces one row (`OneSku`, `Rewritten`); then each operation is compared by
  cases of its checks, in the order they are made (`ReserveAlike` and its like). A
  reserve and a change of status are refused by both for the same reason. The reasons for
  a restore, a price and a stock are written down for each repository and shown to be
  true of the call, and to differ only in that the memory names what is missing before a
  negative number and the database the negative number first (`ReasonsAgree`,
  `ReasonsAreTrue`; `RestoreAlike`, `UpdateAlike`, `StatusAlike`).
  `StoreAssumption` asks for products whose skus are listed by id, as the seed has them:
  the database always lists them so, the memory as they were given. It does not ask that
  a sku is of one product only, which the key of the table requires: the proof does not
  need it. One call at a time is compared, from the same content.

### Guards

* `GuardsAlwaysSeeTheTurn`: `GuardsSeeTheTurn` after any history of turns and restarts of
  any sessions, overlapping or not, any tools guarded, any thresholds
  (`HarnessAssumption`, `GuardAssumption`). The inductive invariant `Seen` says what each
  guard holds, by the places of the history it still knows: all calls of the session that
  were let through since the start of the process; the last `Window` of those since a turn
  of the session last ended; the number, the last three and the trailing run without hits
  of the answers since then; the words of the first request since then. Each event
  changes both alike (`BeginHolds`, `AnsweredHolds` and their like). That is what turns
  of the session have done together. `HeldIsLately` makes it what one turn did: if every
  other turn was over when this one began, an end or an event since then would be that of
  a turn beside it, so what the guards hold is its own. It needs that turns begin before
  they do anything and end once, which `Lawful` says of each event when it happens and
  `LawfulStays` of the history from then on. Lemmas state what the last ones of a list are
  after one more (`LastOnesNext`) and that the loop detector's count is a run at the end
  (`RepeatedAtTheEnd`).

### Evaluation

* `BetterAlwaysScoredBetter`: `BetterIsScoredBetter` for any ranking, annotation, cut-off
  and thresholds, any discounts that never rise (`DiscountAssumption`; a case is
  `IsRanking`: what is annotated is annotated once, as the dataset check demands), any
  answers and criteria of a judge (`IsJudged`), and any query of the search. An induction
  over the places of a list is a proof about sets (`PlaceByPlace`: a set of places that
  holds 0 and, with a place, the next one holds them all; a least place outside it is
  refuted), so sums can be followed place by place (`Adds`, `TotalOf`). NDCG: the first
  items of a ranking gain no more than as many annotated items from the first on
  (`FirstPlacesGainMost`, `GainsBelow`), nor less after an item that gains more moves up;
  and what holds of all sums of first gains holds of the discounted total
  (`FallingDiscounts`, a summation by parts). Recall and MRR count and place sets of hits
  (`RecallExchanged`, `MrrExchanged`); aggregates, gate and verdict only rise with them
  (`EvaluateTwo`, `GateRises`, `ScoreRises`). That blame is earned (`AnyBlameEarned`) uses
  that the answer honours its query, and holds whatever products are annotated
  (`Annotation`).

### What is only model-checked

* Liveness (`RequestReturns`, `TasksFinish`, `RequestsAnswered`, `RecoversWhenHealthy`,
  `CallsEnd`, and `PendingRedelivered`, which a run refutes): TLAPS has no rules for
  fairness here.

Every other property of a passing run is a theorem, for all values of the constants or,
where a section above says so, for one client, one stream or no fault.

## Known gaps of the code

Three runs end in a violation and show a disagreement of code and documentation:

* `MCOrderDoubleCancel`: two cancellations of one order at once both restore its
  stock; the status check is on a copy read before several awaits.
* `MCOrderTimeoutLeak`: the tool timeout raises `CancelledError`, which
  `except Exception` in the placement does not catch; nothing is put back. A crash
  of the process does the same.
* `MCQueuePending`: nothing claims pending entries, so a task whose worker died is
  never delivered again, and `max_deliveries` is never reached above one.

The models show these as well; each appears when the condition named is lifted, or is
a definition that says it:

* Orders. Two placements in flight take the same order id and one order overwrites the
  other (`OrderDurable` with two clients; the docstring of `next_order_id` warns of the
  collision). A cancellation that fails before its save can be tried again and restores
  the stock twice (`StockExact` with database faults). A catalogue reset starts versions
  at one, so a card from before it can be honoured at another price (`PriceHonoured`
  with "price-rise" and "reset").
* Queue. `COUNT` limits each stream, so a read over two streams can exceed the
  concurrency (`ConcurrencyCapped` with both streams; `redis_stream_queue.py:131`). A
  failed `xadd` leaves an idempotency key for a task that was never submitted, and the
  same question waits until its deadline (`server.py:264`). `_enqueue` may overwrite
  "done" with "queued" (`server.py:275`). A waiting request takes the first
  `final.result` of its session, which may be that of another task.
* Breaker. The half-open breaker lets every caller through: `allow` sets
  `half_open_probing` and nothing reads it, though the module's docstring promises one
  probe (`resilience.py:8` and `:79`). A success of a call that began before the breaker
  opened closes it at once. In the shared breaker two failures can count as one, and a
  late write can bring a deleted state back. A late write can cut a cooling time short
  too: one caller reads the cooled state and is about to mark its probe, another probes
  and fails, which opens the breaker anew, and the first writes its older copy, cooled
  down (`AllowProbe`, `SaveProbe`; `shared_breaker.py:63-74`).
* Gateway. Retries and the fallback request are not spaced out, and a call keeps its slot
  while it backs off (`Retry`, `Transient`). A stream dropped before its first chunk never
  gives its slot back (`Drop`). The last tier asks the fallback model where the docstring
  of `budget.py` (line 14) says that the model is not called any more.
* Conversation. An answer is cached under the preferences of the moment it is stored, not
  those it was made with, and under none at all if they cannot be read (`ReadScope`,
  `ReadFault`; `shaken`). Overlapping turns of a session on one worker may run on two
  agents, of which the registry keeps one; each records the other's outcome, and one of
  two first turns may give up its record (`crossed`). Two workers keep an agent of the
  same session each, and neither learns of the other's turns (`OneWorker`). A turn
  answered from the cache is not in the agent's memory. After a buyer has forgotten all
  preferences the session still counts the old hint as given (`Ask`).
* Search. What was reranked is called an embedding recall, also if only words were
  matched (`Strategy`). Off-shelf products are reported as rejected only if the vector
  index still ranks them.
* Product repositories. A restore or a change of price or stock of a missing product is
  refused as "no such product" by the memory (`in_memory_repositories.py:102-106`) and as
  "no such SKU" by the database (`repositories.py:223`, `:245`, `:268`); a negative number
  is noticed last by the one and first by the other (`:209-210`, `:258-259`). A test on
  the memory sees other messages than the system gives (`ReasonsAgree`).
* Harness. The drift check of a turn (`orchestrator.py:172`) and the resets that end it
  (`:189-195`) are some awaits apart, and the guards know sessions, not turns. If turns of
  a session overlap, the end of one wipes the calls and answers of the other, those made
  between its own check and reset among them; before that the calls and answers of both
  are counted together, and a turn that begins while another runs is held to the other's
  request (`StartTurn`, `EndTurn`). A loop or a drift can so be missed, or found where no
  turn had one; `GuardsSeeTheTurn` says what such a turn is held to (`HeldTo`).
  `MainAgentFactory` gives the middleware to `task_dispatch`,
  `remember_preference` and `forget_preference` only, so no guard sees a search or an
  order, and an order without a search is not rejected (`MainAgentGuards`); three
  dispatches side by side count as a loop.
* Evaluation. A judge that answers `{}` passes a case (`Ratio`). Annotated products that
  were rejected are noticed only among those reported (`CheckFilter`,
  `FilteredOutLimit`). A case whose price cap excludes a product priced in another
  currency passes the dataset check (`BlameEarned` names the exception), and the check
  compares the cheapest SKU where the search compares the first. The gate does not look at
  how well constraints were kept (`Gate`).

Gaps the models do not contain, found on the way: a status write that fails before the
`try` of `worker.handle` leaves `in_flight` counted up (`worker.py:54`); the broadcasts of
two events of a session are tasks of their own and may be reordered (`eventbus.py:124`);
two processes may seed an empty catalogue at once, and the second commit fails
(`repositories.py:301`); a JSON preference file that cannot be parsed counts as empty and
is overwritten by the next append.

## Not modelled

* `claim_stale` and the sliding-window counter have no caller.
* The order of events on the way to the frontend and the WebSocket connections: nothing
  in the code waits for them.
* Conversation and session files in JSON: single writes of a single process.
* The embedding cache stores a pure function under a key of its input; a stale entry is a
  right one.
* The language model and what it says, prompts, permissions, content filters, tracing,
  settings, the composition root: no state that other parts depend on.
* The start-up of the knowledge base and of the vector index, the web search and the
  embedding client: external I/O. Seed data, frontend, rendering of reports.

What could follow: the composition of `Conversation` with `IntentQueue`, so that a
redelivered task repeats a turn.
