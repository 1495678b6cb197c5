# TLA+ model of the Bitcoin-ETF settlement platform

The repository is a settlement platform in Python: an in-process event bus over
PostgreSQL carries a trade from its creation through netting and settlement to
custody and the ledger, an outbox worker relays every recorded event to Kafka,
and around them stand an API gateway, a reconciliation engine, replay and
rebuild tools, simulated blockchain rails and MPC signing, and a handful of small
Kafka services.  This directory holds TLA+ modules of its core, the TLC runs that
check them on small instances, and theorems about them that TLAPS checks for
every instance.

## 1. Inventory

State is in PostgreSQL unless said otherwise.  "Hard" names what a test would
hardly reach.

| Component | State | Operations | Interacts with | Hard | Correct when |
| --- | --- | --- | --- | --- | --- |
| Event bus `core/event_bus.py`, wired by `core/bootstrap.py` and again by `run_demo.py` | subscriptions; the Python call stack | `subscribe`, `publish` | event store (call), handlers (call, which publish in turn) | recursion; an exception is swallowed by the nearest loop; a crash loses the stack | a trade runs once, its call tree returns, an exception in one handler does not keep the next from running |
| Event store `core/event_store.py` | `event_log` (unique `idempotency_key`), `outbox` | `persist_event` | bus, outbox worker (table) | concurrent copies, lost commit answers | one row per key, in both tables or in neither |
| State machine `events/state_machine.py` | none | `validate_transition` (called by nothing), `validate_settlement_state` | settlement engine | the table is not enforced | events and statuses keep to the tables all the same |
| Trade handlers `services/trade_ingestion.py`, `netting.py`, `custody.py` | none | one handler each | bus | a payload without `qty` | each publishes its child event once |
| Settlement engine `services/settlement.py` | `settlement_instructions`, `settlement_state_history` | five steps, each a transaction and an event | bus, MPC, blockchain | row and event in two transactions; unchecked updates; history literals | one instruction per trade, advancing one status at a time, with a true history |
| Ledger posting `services/ledger_posting.py` | `journal_entries` | one handler for three event types | bus, reconciliation (table) | half postings, double postings | debit and credit together, once per event |
| Outbox worker `core/outbox_worker.py` | `outbox` rows, row locks, a transaction per batch | `fetch_pending`, `mark_sent`, `mark_failed`, `mark_dlq` | event store (table), Kafka | several workers, crash between send and commit, retry limits | at-least-once, bounded copies and attempts, nothing left behind |
| Kafka producer `core/kafka_producer.py` | one producer per process; the topics | `publish_to_kafka`, `publish_to_dlq` | outbox worker | unobserved delivery failures | SENT means delivered |
| Reconciliation `services/reconciliation/main.py` | `reconciliation_results` | `run_reconciliation` | ledger (table) | two reads while the ledger posts; the verdict ignores the global imbalance | a mismatch means corruption |
| Replay and rebuild `core/replay.py` | none of its own | `replay`, `rebuild_state` | bus, every table | the stored event type is `str(EventType.X)`; separate reads | replay publishes every row, rebuild is one story |
| API gateway `services/api/app.py` | `api_keys`, `role_permissions`; audit topic | `authenticate`, `authorize`, `audit_log`, the endpoints | Kafka, ledger tables | interleaved requests, a key deactivated meanwhile, exceptions past the command | no command without the permission, no command without its record but one its client cannot count on |
| Blockchain rails `services/blockchain.py`, `services/settlement/main.py` | `_block_counter` per process | `simulate_broadcast`, `simulate_confirmation` | settlement engine | unlocked counter under threads | a later broadcast gets a later block |
| MPC `services/mpc_signing.py`, `mpc-gateway/`, `mpc-node/` | none | sign, combine | settlement engine | quorum counts | no signature from fewer than two nodes |
| Database helpers `core/db.py`, `db/`, `scripts/migrate.py` | schema, triggers | connections, migrations, `write_journal_entry` | all | migration order | append-only tables are never rewritten |
| ETF services `services/{etf_issuer,execution,custody,nav}/app.py`, `compliance-monitor/` | custody's `balance` and nav's `reserves`, in memory; each consumer's position | consume one topic, produce to the next or add up | Kafka | no offsets, a message without `cash` ends the issuer and one with a `cash` that is no number ends execution, repeated and lost messages | a request is filled once, and booked unless a fault takes its message |
| Helpers `shared/`, `commands/`, `core/workflow.py` | an `idempotency` table nobody creates | a few lines each | Kafka services | - | - |

`run_demo.py` drives the pipeline, then reconciliation and rebuild.  The bus never
calls Kafka: the outbox table is the only link between the pipeline and the relay.

## 2. Modules

| Module | Models | State and actions against the code |
| --- | --- | --- |
| `StateMachine` | `events/events.py`, `events/state_machine.py` | the tables and validators as constants and predicates |
| `Lifecycle` | the promise about one trade | abstract: a log per trade that follows `ALLOWED_TRANSITIONS` |
| `TradePipeline` | bus, event store, five handlers | `log`, `settlements`, `history`, `journal` are the tables, per trade; `pc`, `trade`, `settlement_id` a client's call tree.  One action per transaction: `Submit` (root `publish`), `PublishChild` (the handlers' `publish`), `CreateSettlement`, `Approve`, `Sign`, `Broadcast`, `Confirm` (the five steps), `PostLedger`; `Raise` is an exception before the commit, `Crash` the process' death |
| `EventBus` | the dispatch as it runs | `stack` of `publish()` frames over `Subscribers`, the table of `build_system()`; one action per transaction and one for each return.  Refines `TradePipeline`: `PointOf`, auxiliary, is the transaction a stack runs next |
| `Delivery` | the promise about one outbox row | abstract: copies, failures, and when a row may be settled |
| `OutboxRelay` | outbox worker and its sends | `outbox` the committed rows, `tx[w]` the images of the rows worker `w` has locked, `todo[w]` what is left of its batch; `fetch_pending`, `publish_to_kafka` with `mark_sent`, `mark_failed`, `mark_dlq`, `Commit`, `Crash`, `Restart`; `repeats` counts the messages a producer has sent twice.  Refines `Delivery` |
| `ChainRails` | `services/blockchain.py` under step 4 of the settlement | `block_counter` of the process, `rail[p]` and `height[p]` a thread inside `simulate_broadcast`, `block_number` the column; `increment` and `read_back` are its two statements, `WriteBlock` step 4's transaction |
| `Reconciliation` | `services/reconciliation/main.py` | `recon` the next statement, `replayed` and `actual` what the two reads found, `reconciliation_results` the table, `report` the answer; one action per statement, over the tables of `TradePipeline` |
| `Replay` | `core/replay.py` | `rebuild_state`'s four statements and what each returned; `replay(bus)` row by row, `StoredType` and `IsEventType` the two conversions of the event's type |
| `Platform` | composition | `TradePipeline` with the operator's jobs of `Reconciliation` and `Replay` beside it, as `run_demo.py` calls them |
| `KafkaTopics` | the topics and producers of the front office | `pending` a producer's memory, `topic` the log; delivered, delivered twice, given up, lost with the process.  Auxiliary: `duplicates` counts each request's repeated messages, `taken` the requests a fault has taken something from |
| `ApiGateway` | `services/api/app.py` | `request`, `stage`, `actor`, `status_code`, `answer`, `audit_trail` per request, `is_active` the column; a request has a key, a path, a method and an input.  One action per stretch between two awaits and one per outcome; `Deactivate` is the administrator's, in no code of the repository |
| `EtfServices` | `etf_issuer`, `execution`, `custody`, `nav` | `up`, `position` of the consumer, `booked` what custody and nav have added up; `Forward`, `Book`, `Poison` (the issuer at a body without `cash`, execution at one it cannot divide), crash and start |
| `FrontOffice` | composition | gateway and services, coupled by `KafkaTopics` alone; `idempotency_key` is what the bodies carry |
| `MC*` | instances for TLC | sets of model values, payloads, fault sets, request shapes; `MCChainRails` keeps, in `raised`, the trades a fault was injected in |
| `ChainRailsProofs`, `FrontOfficeProofs` | theorems about `ChainRails` and `FrontOffice` | section 4 |
| `SumLemmas`, `PlatformProofs` | what a sum over a finite set is, and theorems about `Platform` | section 4 |
| `EventBusProofs` | `EventBus` implements `TradePipeline` | section 4 |
| `TradePipelineProofs` | theorems about `TradePipeline` | section 4 |
| `LedgerProofs` | theorems about the journal of `TradePipeline` | section 4 |
| `OutboxRelayProofs` | theorems about `OutboxRelay` | section 4 |

**Abstractions.**  A trade is known by the key of its root event.  Child events carry
fresh keys, so their insert always succeeds and the tables can be kept per trade;
payloads are kept only where a property looks: `nav`, `qty` and whether `qty` is
there.  A transaction is atomic and its effects are visible from its commit; since
a trade is run by one call tree, READ COMMITTED shows no other interleaving to it.
The signature, hash, block number and timestamps a settlement step computes are left
out (the block number is in `ChainRails`); their failure is the `settlement` fault of that
step.  Amounts are exact integers, so the tolerance with which reconciliation compares its
floats is left out; the front office carries no amounts at all, a message standing for the
request it came from.  The headers and ids of tracing are left out.  The printed output is
left out, the printed backoff of the outbox worker included: nothing waits for it.

**Faults.**  `TradePipeline` takes a set `Faults`: `publish`, `settlement`, `ledger` let
the transactions of that kind raise before they commit, `indoubt` lets any commit take
effect and raise, `crash` kills a process.  `OutboxRelay`: `raise` lets a send raise
(no broker, no metadata), `lose` lets a send return without delivering: `flush()`
waits for the outcome of the future that `send()` returned, and nobody looks at it.  A job of
`Platform` may fail at any statement (`ReconFails`, `RebuildReturns`).  The version of
kafka-python is not pinned, so a producer may also repeat a message whose acknowledgement it lost, in
`OutboxRelay` as in `KafkaTopics`.  `MaxTroubles` bounds, in the relay, the workers that die and the
messages repeated; in the front office, the calls that raise, the messages repeated or given up, and the
processes killed.  What a client's own request does (a body that ends a service, a limit the database
refuses) is no fault, and is not bounded.

## 3. Runs

| Run | Instance | Shows |
| --- | --- | --- |
| `pipeline_faults` | two clients, two trades, every fault; 57 362 states | all safety and action properties of `TradePipeline`, the refinement of `Lifecycle` |
| `pipeline_isolation` | two threads through `ChainRails`, three trades, one without `qty`, `publish` and `settlement` faults; 81 595 states | a trade no exception was raised in reaches its end; every recorded accounting event is posted; a broadcast that begins later gets a higher block |
| `pipeline_atomic_claim` | no fault | violation: row and event are not one transaction (README.md:778) |
| `bus_refines` | two clients, two trades, every fault; 16 782 states | the stack of dispatch loops implements `TradePipeline`; each `publish()` returns |
| `relay_delivers` | two workers, three rows, batches of two, `MAX_RETRIES` 1, one trouble, `raise`; 209 157 states | type correctness, exclusive claims, bounds on copies, attempts and dead letters, the refinement of `Delivery`, every row settles |
| `relay_dead_letter` | two rows, `raise` | violation: a DLQ row without a message in the dead letter topic (README.md:793) |
| `relay_silent_loss` | two rows, `lose` | violation: a SENT row that was never delivered (README.md:784) |
| `platform_reads` | two clients, two trades, one without `qty`, `settlement` and `ledger` faults, one job; 244 000 states | every snapshot balances, no mismatch without new rows, the parts of a rebuild fit together |
| `recon_false_alarm` | the same | violation: a MISMATCH of an intact ledger (reconciliation/main.py:20) |
| `front_office` | two requests, a trader's and a signer's key, one trouble; 258 454 states | permitted commands only, none of a deactivated key, no command unrecorded or recorded as refused that its client was told of, no repeated fill, a creation is booked, no message ends a service twice |
| `audit_trail_claim` | the same, no trouble | violation: a client's 500 that the audit trail has as a 401, a 403 or not at all (README.md:804) |
| `idempotency_claim` | the same, no trouble | violation: an order sent again with its idempotency key is filled twice (README.md:230) |

**Why the bounds are enough.**  Two clients and two trades give every conflict the
pipeline has: copies of one trade race, and two trades run at once; a third client
can only repeat what a second does, as trades share no row.  The theorems of section 4
have no bound.  Of three rows with batches of two one is always left over, so two workers
overlap, the order of the fetch matters and a row waits behind failing ones;
`MAX_RETRIES` 1 (5 in the code) has both sides of the comparison, a retry and an exhausted
one; the limit of 100 only sizes the batch.  One crash, or one repeated message, suffices for the
bounds on copies and attempts to be reached, and they are stated for any number.

A job of the platform reads tables no other job writes, so one at a time is enough, and two
trades with different prices let postings of both fall between any two of its statements.  The
trade without `qty` stops early, so accounts are missing from one read and not from the next.
In the front office the first request is an order, and the second is the same order again, with its
idempotency key, or anything else: an order whose body has no `cash`, or one execution cannot divide; a
command of another permission; the reads, with a limit FastAPI refuses or the database does; a page of
the framework; the public path with another method.  So an order meets its own retry, a message that
ends a service before or behind it, and another client's request at every point.  One trouble puts one
fault anywhere, on top of those bodies; the theorems have no bound on troubles.

In `pipeline_isolation` a third trade lets one run undisturbed beside an exception in the second and
the missing `qty` of the third, on two threads.

**Fairness.**  `Scheduled` of `ChainRails` is weak fairness of a running call tree's
next step, the two statements of `simulate_broadcast` among them: a thread keeps being scheduled and a
transaction is answered or raises.  `Spec` of `EventBus` says the same of the dispatch loops.
Nobody is obliged to submit, retry or crash.  Weak fairness of a relay's `Work` says its
loop goes on while it lives.  No fairness restarts a dead worker (the compose file
has no restart policy for it), so `EveryRowSettles` promises nothing once every
worker is down.  `bus_refines` turns deadlock checking off: its clients may stop submitting
when every trade has been recorded, duplicates being left to `TradePipeline`.
`FairFrontSpec`: the gateway's event loop serves what it has received, a producer's thread delivers
what is in its memory, a running service consumes what is in its topic.  Nobody has to send
a request, deactivate a key, or start a dead service again.  `CreationIsBooked` therefore has the
hypothesis that each service is up again and again, and says what such an operator gets: every order is
booked but those in `taken`, which a fault or a restart took the message of.  `NoCrashLoop` has it
of each service by itself.  `front_office` turns deadlock checking off, as clients stop sending.

**Mutants.**  Each property of a passing run has a mutant in its module, a plausible
bug of the code it is about (`IsDuplicate_Never`: no unique key; `Raises_Swallowed`: a
handler that catches its own exception; `Claimable_NoLocks`: a SELECT without FOR
UPDATE; `mark_failed_Status`: the FAILED status schema.sql names; `HasKey_Inactive`: a key looked
up without `is_active = TRUE`; `Start_Earliest`: another `auto_offset_reset`; `Start_Committed`: a consumer group,
which would go on at the message that ended the service; `RequestRaises_Passed`: a swallowed failure of
the audit record), under which TLC finds that property violated.

## 4. Theorems

Every theorem is checked by tlapm to the last leaf.

`TradePipelineProofs`, for any sets of clients and trades, any integer amounts and any set
of faults (`PipelineAssumption`):

* `Invariance`: `Spec => []IInv`.  None of the properties is inductive: that a trade
  has one settlement depends on `create` being reached once, hence on where the one
  call tree that runs it is.  `IInv` says it: `OneRunner`; per trade, `log` is a prefix
  of the nine-event chain (`LogInv`), `history` a prefix of the five records and the
  row the last of them (`HistoryInv`), the log at most one settlement event behind the
  row and never ahead (`OrderInv`); per client, how long both prefixes are at each
  control point (`PointInv`), where the ledger handlers, which also run after an
  exception, know a lower bound only.  `LocalStep` reduces each action to its client and
  its trade.
* `TypeCorrect`, `RunsOnce`, `SettledOnce`, `EventsFollowRows`, `HistoryIsTrue`: the
  invariants `TypeOK`, `OneRunner`, `OneSettlement`, `EventFollowsRow`,
  `HistoryIsTheLifecycle` follow from `IInv`.
* `AdvancesByOne`, `NeverResumed`: the action properties.
* `Refinement`: `Spec => LC!Spec`; a step appends the event the table allows after the
  last one, or stutters.

`LedgerProofs`, on top of `IInv`:

* `LedgerInvariance`: `Spec => []JInv`.  That an event is posted once depends on the
  posting's handler being reached once, so `JInv` adds to `DoubleEntry` and `PostedOnce`
  that nothing a call tree still has `Ahead` of it is in the journal (`Unposted`).  A posting
  shrinks what is ahead (`AheadShrinks`), no two events share an account
  (`AccountsDisjoint`), and the two rows it appends are one balanced pair
  (`LegsShape`, `PairBalances`, `PairDiffers`).
* `LedgerBalances`, `NothingPostedTwice`: `DoubleEntry` and `PostedOnce`.

`OutboxRelayProofs`, for any set of workers, any finite set of rows, any batch limit, any
`MAX_RETRIES` and any bound on troubles (`RelayAssumption`; rows are numbers because the
fetch orders by id):

* `Invariance`: `Spec => []IInv`.  What a row says and what happened to it differ after a
  rollback, so the bounds are not inductive.  `Accounted` ties the copies and failures of a row
  to what its image says, up to one more for each crash and each repetition; `FreeInv` says it of the
  table for rows nobody holds, `ClaimsInv` of the image of a worker that holds the row,
  which is at most one attempt ahead of the table.
* `TypeCorrect`, `ClaimsExclude`, `FewCopies`, `FewAttempts`: `TypeOK`, `ClaimedOnce`,
  `CopiesBounded`, `AttemptsBounded`; `FewLetters`: `DeadLettersBounded`.
* `Refinement`: without the fault `lose`, `Spec => ImplementsDelivery`.  With it the statement is
  false: `relay_silent_loss` is the counterexample.

`ChainRailsProofs`, for any number of threads: `LaterBlocksAreHigher`.  `RailInv`: no height
given out and no block recorded is above the counter.  It is a monotone counter and no more: two threads that broadcast at once may
still get the same block; the property says what holds all the same.

`FrontOfficeProofs`, for any set of requests, keys, roles and shapes and any bound on troubles
(`GatewayAssumption`, `TroublesAssumption`):

* `Invariance`: `FrontSpec => []IInv`.  A command and a record speak of what was read
  steps before, so `IInv` carries along the stages of each request what authenticate and
  authorize found, what its trail holds and what it is answered (`Served`), and of each command in a topic
  that its request is past its endpoint and was permitted (`Effect`).  That a key active at the look-up was
  active when its request came needs that keys are only deactivated (`NoNewKeys`).
* `TypeCorrect`, `CommandsArePermitted`, `InactiveKeysCommandNothing`: the invariants `FrontTypeOK`,
  `OnlyPermittedTakesEffect`, `InactiveKeyIsPowerless`.
* `EffectsLeaveRecords`: `EffectsAreRecorded`.  An answer other than a 500 is in the trail, once, with its
  status and the key's name; a command is either so recorded and its client told, or its
  trail is empty and its client got a 500 or nothing, the gateway's death included.  More is not true
  (`EveryRequestAudited`, section 5).
* `FillsAreNotRepeated`: `FillsBounded`.  `Total` counts the messages that stand for a request, in
  memory or unread, from the gateway to execution-fills; a request has none before its
  endpoint runs and at most one plus its own repeated messages after (`Flows`).  Forwarding moves
  a message (`FlowAfterForward`), starting at the end, dying and giving up only lose some.

`EventBusProofs`, for any sets of clients and trades and any set of faults:

* `StacksAreNested`: `Spec => []StackInv`.  An event is published at one transaction of one
  handler, so the event of a frame says which frames wait below it (`Under`): a stack is known
  by its top frame, one of `Frames`, and `pc` is `PointOf` of it.
* `BusRefinesPipeline`: `Spec => ImplementsPipeline`.  `PointOf` looks down the stack for the
  topmost loop with anything left; `PointOfStack` replaces the search by `Below`, a table
  by the top frame's event.  Then `RunningMoves` says of each of the 16 transactions where
  advancing, publishing and an exception take the stack, by `ReturnsTable`, `PublishesTable` and
  `RaisesTable`: the tables `Returns` and `Raises` of `TradePipeline`, derived from
  `Subscribers`.  A handler or a `publish()` that returns leaves `PointOf` as it is
  (`ReturningMoves`, `PoppedMoves`), a stutter.  A crash of a client whose handlers are all done is one too.

`SumLemmas`: what `SumFunctionOnSet` of the community modules is, for integers over any finite
set.  It is defined by a CHOOSE of a recursive function, so first that function exists
(`TableExists`) and sums unfold one element at a time (`SumUnfolds`); then sums may take away,
add, subtract, count, and be grouped (`SumTakes`, `SumAdds`, `SumSubtracts`, `SumCounts`,
`SumByGroup`).  These need induction over sets.  The library's theorems about it have an operator as
parameter; here the predicate is a set instead (`Induction`, `SetInduction`), which loses nothing.

`PlatformProofs`, for any finite or infinite set of clients, trades and integer amounts, and
any bound on jobs:

* `PlatformInvariance`: `PlatformSpec => []PInv`.  A job keeps sums, not rows, and the tables
  grow under it, so `PInv` says whose sums they are: of `Snapshots`, sets of rows that are in
  the journal now and whose debits and credits sum alike.  What reconciliation read first is
  the grouped sums of one snapshot, what it read second the grouped balances of a larger one
  (`ReconInv`); `rebuild_state`
  read first the grouped sums of a snapshot, with no more rows than its last statement counts; no account
  has more rows than events that post to it, and no settlement event is counted more often
  than instructions at or past its status (`RebuildInv`).  A snapshot stays one because rows
  are only added, and the whole journal is one because a posting adds a balanced pair.  `PInv` includes
  `IInv` and `JInv`, as the order of a trade's transactions decides what a later statement can see.
* `PlatformTypes`, `MismatchesAreNewRows`, `ReadsBalance`, `RebuildIsOneStory`: the invariants
  `PlatformTypeOK`, `MismatchMeansNewRows`, `EveryReadBalances`, `RebuildHangsTogether`.

Every invariant, action property and refinement that a passing run checks is thereby
also a theorem.  Only model-checked: the liveness properties (`TradeCompletes`, `LoggedIsPosted`,
`DispatchEnds`, `EveryRowSettles`, `CreationIsBooked`, `NoCrashLoop`), which rest on
fairness, hence on ENABLED, and are out of the prover's reach.

## 5. Findings

* `BusinessAndEventAtomic`: README.md:778 promises one transaction for the business
  operation and its event; there are two.  What holds instead is `EventFollowsRow`.
* `DlqIsPublished`: the exception of `publish_to_dlq` is printed and the row is settled as
  DLQ, so the dead letter topic never gets it.
* `SentIsPublished`: a delivery that fails after `send()` returned is not noticed.
* `DiscrepancyMeansCorruption`: the view is read by a later statement than the journal, so
  a posting in between is recorded as a MISMATCH.  What holds is `MismatchMeansNewRows`.
* `EveryRequestAudited`: README.md:199 and README.md:804 say every request is logged with its status.
  The 401 and 403 of the middleware are logged as such and reach the client as 500 (app.py:139-153);
  a request whose endpoint raises is not logged (app.py:163).  What holds is `EffectsAreRecorded`.
* `KeyedOrdersFilledOnce`: README.md:230 says the issuer prevents duplicate processing by idempotency
  keys.  It reads `cash` and nothing else (etf_issuer/app.py:16-18).  What holds is `FillsBounded`: one
  fill for each time the order is sent, and one for each message a producer repeats.

Met while reading, with no run: `event_log` stores `str(event.type)`, which `EventType()` does not
parse, so `replay` raises at the first row of any log (modelled by `Replay.ReplayRow`; any one call shows
it); `validate_transition` is called by nothing; the creation body of README.md:488-495 has no `cash` and
ends the issuer (modelled by `Poison`; `NoCrashLoop` says that it does so once);
the status FAILED is never used (README.md:295, schema.sql:78); the backoff is printed
and not applied (README.md:293); the worker sends to `event-log` and `dlq-default`, the gateway to
`audit-trail`, where the README says `event_log`, `dlq_default` and `audit_trail`; messages carry neither
key nor event id (`kafka_producer.py:43`); reconciliation answers PASS whatever the global
imbalance; nothing consumes
settlement-commands; etf_issuer drops the request and trace ids; custody, nav and the block
counter start over with their process; `write_journal_entry` and `init_db` of `core/db.py` are called by
nothing and do not fit the schema.

## 6. Done and not modelled

All planned modules are written: the pipeline and its dispatch, the relay, the rails'
counter, reconciliation, replay and rebuild, the gateway and the ETF services.  Left for later:
a composition of `TradePipeline` and `OutboxRelay` over the one outbox table (no state but
that table's inserts is shared, and the relay's `Insert` already appends at any time)
and several jobs at once.

Not modelled, because no state outlives a call that a property could be about: MPC
signing (`mpc_signing.py`, `mpc-gateway/`, `mpc-node/`: two of three nodes drawn and hashed within one
call), the `/settle` endpoint of `services/settlement/main.py` (it calls the rails and keeps
nothing), `compliance-monitor/` (a health endpoint), hashes and simulated chain data.  Not modelled, because nothing calls them: `shared/`, `commands/`,
`core/workflow.py`, `write_journal_entry`.  Not modelled as outside the program's run:
migrations, topic creation, monitoring, compose files.  The append-only triggers of `db/schema.sql` forbid what
no code does, and are not modelled either.
