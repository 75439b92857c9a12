# A verification project for longbridge-platform-core

TLA+ specifications of the parts of the platform where money and background work
depend on the order of steps: the trade service's sagas and its outbox, the
scheduler's leadership and two of its jobs, the automatic orders of the quant path and
of the strategy monitor, the watchlist review, and the market service's push sessions.
Two modules compose them: from a decision of the quant path over the saga and the outbox
to the event inbox. TLC checks small instances; TLAPS proves, for every instance, the
safety properties, that the relay and the leadership keep the abstract promises that
others rely on, and that the composition keeps what was proved of its parts. Paths are
relative to the repository root; the lines behind each definition are in `PROJECT.json`
("map").

## 1. The system

About 600 files: some 82 000 lines of Python services and libraries, a Vue portal,
scripts and documents. Services share one MySQL database (with an optional read
replica), Redis, and optionally Kafka; they call each other over HTTP.

| Component | State | Operations | What makes it hard |
|---|---|---|---|
| Trade service, sagas (`legacy_trade_service/trade_submit_flow.py`, `trade_cancel_flow.py`, writers in `outbox.py`) | `trade_sagas`, `trade_saga_steps`, `trade_order_projections` | submit, cancel, order list with backfill | every write is its own transaction, broker calls whose answer is lost, a compensation that is itself a broker call, no recovery after a crash |
| Outbox relay (`outbox.py`, class `OutboxRelay`; `utils/kafka_bus.py`) | `trade_outbox_events`, `trade_event_inbox` | flush, repair, requeue, purge, consume | several flushers without locks, stale copies of `retry_count`, late deliveries, replica reads |
| Order risk check (`core/account/RiskManager.py`) | process-local counters | `check_order_risk` | checks what is filled, reserves nothing |
| Scheduler leadership (`apps/operations/scheduler-service/src/main.py`) | `scheduler_runtime_leases`, threads and events of each process | start, stop, renew, take over, release; start and stop of some twenty job runners | renewals that keep failing while the lease runs out, calls in flight during a stop, threads that outlive a join |
| Trend scan (`core/analysis/DailySymbolTrendScan*.py`, `core/platform/SystemTaskService.py`) | `system_task_policies` (cursor, dates), `scheduled_jobs` (running mark) | poll, run a batch, run by hand, edit in the task centre | paging over a list that changes, read-merge-write by three writers, defaults for a failed read, a mark that an interrupted run leaves |
| Strategy monitor (`core/analysis/StrategyMonitorService.py`, `PositionMonitorScheduler.py`) | strategies, alerts, `last_executed_at`, the run's order list | runs of the scheduler's instances or by hand, save and delete strategies | positions, order list and orders of different ages; a former leader's run beside the new one's; others who trade the position; alerts that silence, marks that put off |
| Quant automatic trading (`core/analysis/QuantTradingService.py`) | `quant_trade_decisions` | a cycle: guardrail, order check, submit, record | cycles overlap, check-then-act over two services, answers lost |
| Watchlist review (`core/analysis/AgentRunService.py`, `analysis-service`) | `agent_runs`, daemon threads | look up, create, claim, review, purchase, finish, override, clean up | find-then-create, writes tried twice, swallowed errors, people who override |
| Push session (`apps/market/market-service/src/push_hub.py`) | sockets, subscriptions, heartbeat and poller threads with their stop events | connect, leave, broadcast, subscribe, unsubscribe | threads that are told to stop and never joined, lists from before an await |
| Broker adapters (`core/broker`), circuit breaker (`utils/rate_limiter.py`), database access (`utils/DbUtil.py`) | caches, breakers, pools | calls with fallbacks | a fallback that looks like an answer, errors read as no row |
| Quotes and bars, sentiment, strategy and language-model services, snapshots, risk overview, users, gateway, portal, scripts | tables written by idempotent upserts, caches | fetch, compute, serve | mostly input and output; numeric correctness |

How they interact. The quant path (in the scheduler, the analysis service or a web
process) and the strategy monitor ask the trade service for the day's orders and post
submits to it; so does a watchlist review that decides to buy. The trade service loads a
price, runs the risk check, calls the broker, and records saga steps, outbox events and
projections. The relay thread of each trade-service process ships outbox rows to Kafka.
The scheduler starts the jobs of whichever instance holds the lease; the quant cycle, the
trend scan and the strategy monitor are among them, and each can also be run by hand,
whoever leads. The web portal holds a WebSocket to its user's push session and subscribes
over HTTP.

What makes each part correct:

- sagas: no order without a recorded risk check; the caller's answer, the saga, the
  outbox and the broker tell one story; a projection shows nothing that did not happen;
- relay: at-least-once delivery, nothing marked without delivery, nothing given up too
  early, nothing retried for ever, and operators discard only what was given up;
- leadership: one instance begins jobs, on a valid lease, and steps down before a lease
  it cannot renew runs out; somebody leads eventually;
- trend scan: a day that is called complete was scanned, and each day gets there;
- monitor and quant path: no second order for the same purpose, none beyond the position
  or the daily limit, and rules that are met are carried out; every exception has a
  named cause;
- review: one purchase for one key, decisions of people stand, no row is left undecided
  without a cause;
- push session: whoever needs a heartbeat or a poller has exactly one, and nobody else.

`PROJECT.json` lists every component and all hazards, each at its line.

## 2. Modules

| Module | Models | Correspondence |
|---|---|---|
| `EventDelivery` | the abstract promise of the outbox | an event is absent, owed, settled, parked or discarded; `Spec` is what one flusher on the primary keeps, `SharedSpec` what any number of them keep (`Overwrite` is a slower flusher's failure UPDATE) |
| `OutboxRelay` | `OutboxRelay`, `KafkaBus.publish`, the table, the replica | `Record` = `_insert_outbox`; `LoadCandidates`, `PublishAcked`/`PublishFailed`, `MarkPublished`/`MarkFailed` = `flush_pending`, one action per call that leaves the process; `Abandon` = an UPDATE that raises, or a crash; `RepairState`, `Requeue`, `Purge` = the methods behind the administrator's endpoints |
| `TradeSaga` | `_submit_order`, `_cancel_order` and the order list's backfill | one action per database transaction (`Write`, `Project`) and per broker call; `pc` is the place in the handler, `why` the failed step or the compensation's outcome; `OrderMoves` is how an order ends at the broker: filled, cancelled (also elsewhere, or at the end of its day) or rejected |
| `TradePipeline` | sagas, outbox and `_consume_loop` together | a step of a handler (`HandlerStep`) records its event in `EventDelivery`; `RelayStep` is the relay, with any number of flushers, and its operators; `ConsumeLoop` copies a message to `trade_event_inbox`, late, again or never |
| `ExclusiveLease` | the abstract promise of the leadership | a lease has a holder or none; who begins jobs holds it |
| `SchedulerLeadership` | `SchedulerLeadership`, `SchedulerRuntime`, the start and stop of a runner | the leadership thread (`loop`), a call of `stop()` (`stopping`), the job thread (`runner`) and the lock between them; `IntervalPasses` is the clock, and `UpsertRaises` a renewal that fails, any number of times in a row |
| `QuantAutoTrade` | `execute_watchlist_opportunities` and what it calls | a cycle's local variables (`todo`, `count`, `view`), the decision table, the broker's orders, submits in flight; what the trade service does meanwhile is left open (`OrderPlaced` before the answer, `LateOrder` after the caller gave up, `OrderEnds`) |
| `QuantPipeline` | the quant path with the trade service behind it | `QuantAutoTrade` and `TradePipeline` side by side: a handler starts when a cycle asks (`Asked`), the cycles see the broker's orders as `_find_active_broker_order` reads them (`Shown`), an answer is the handler's (`Answered`, `Raised`), a request may arrive after its caller gave up |
| `AgentRun` | the review endpoint, its thread, `AgentRunService`'s row, override and clean-up | one action per database call with its two attempts (`InsertOutcomes`, `Claim`, `Fallback`, `Finish`), one for the review with its purchase; `mine` is the id the service knows, `Copies` the rows that two INSERT attempts may leave |
| `TrendScan` | `DailySymbolTrendScanScheduler`, `run_batch`, `update_policy` | one action per statement on the policy row or the job row; `settings` is a run's copy of cursor and dates, `form` the task centre's |
| `StrategyMonitor` | `run_monitor`, `PositionMonitorScheduler`, `save_strategy`, `delete_strategy`, the submit's way through the trade service | one action per read or write that another actor can come between; each instance of the scheduler service has a run of its own and may begin it while another's is at work (`PollBeside`), `"manual"` is a run by hand; `view` is a run's order list, `seen` its positions; `OthersTrade` is everybody else on the account |
| `PushHub` | `LongbridgePushSession` and the socket's endpoint | handlers on the event loop are atomic between awaits; `place` is where each thread stands, with the two statements by which it tells of its end as actions of their own |
| `...Proofs` | theorems and lemmas, one module for each of `OutboxRelay`, `TradeSaga` (with `TradePipeline`), `SchedulerLeadership`, `QuantAutoTrade` (with `QuantPipeline`), `AgentRun`, `TrendScan`, `StrategyMonitor` and `PushHub` | |
| `MC...` | model values and symmetry for TLC | |

Conventions. A transaction that is reported as failed may have taken effect
(`get_db_connection` commits, then the answer is lost), and a broker call that raises
may have reached the broker. `DbUtil.fetch_one`, `query_one` and `fetch_all` answer an
error with no row, so every such read has the outcome "nothing". Timeouts are not
measured: whatever can take longer may take longer, and constants (`SlowJoins`,
`UseReplica`, `BrokerFails`) say which of it an instance allows. Operators marked
"Defect" are never part of a specification: each is a plausible error, and shows that
the property named beside it in `PROJECT.json` would notice.

Data left out: prices, amounts, cash, accounts (a module follows one account), wording
of messages, payloads. An order carries the name of its submit request because a
request places at most one. Variables called history remember what happened (failed
publishes, kinds of trouble, who bought) and influence no step, except where a count
implements a bound.

Causes. The code has no locks across services, so several properties have the form
"what must not happen has happened only if one of these named failures came before".
That is the strongest statement that is true of the code, and it is worth having because
everything else that the model lets happen is excluded as a cause: crashes, clean-ups,
runs by hand, stale due dates, retries, and every interleaving of them.

Time in the leadership. An interval is the longest time from one turn of a prompt loop to
the next: the renewal interval of five seconds and the calls of the round. `IntervalPasses`
waits until every live loop has turned in the interval and every `stop()` under way has
come past `stop_all`, unless `SlowJoins`; then it takes one from what is left of *every*
lease, whoever owns it and whether its owner's loop lives or not. A lease of twenty
seconds is `LeaseTerm` = 3 such intervals. So a live loop whose upserts keep raising does
lose its lease, another instance takes it over, and what must save the day is that the
`except` branch steps down. The safety properties are stated for `Prompt`: short joins, a
lease read on the primary, and a `LeaseTerm` of at least 3. Three is needed and enough:
one interval may pass between a renewal and the turn that fails, another before the loop
has stopped its threads. With `LeaseTerm` 2 and the proviso adapted to it, TLC finds a
leader whose lease has run out.

The monitor's runs and the change of leadership. `PositionMonitorScheduler.stop` waits two
seconds for its thread, and `SchedulerLeadership` shows that a busy job outlives the
hand-over. The next leader's thread looks for due strategies after twelve seconds, and
`last_run_at` and `last_executed_at` are written at the end of a run; so two runs that
send orders can be at work beside each other, each with an order list in which the other's
sell is missing. `overlap` records that this happened. What can come of the monitor's
orders that should not has one of five causes, and the properties say which: `blind` (a
failed order list was answered with an empty one), `lost` (the answer to a submit was
lost), `overlap`, `outdated` (the position changed between the positions and the submit)
and `crossed` (others traded the position while an order of the monitor was at work). The
first three are those of a second sell at work, and only `lost` is one of a second sell in
one run. A quote that fails is not a cause but an input: the cost price stands in for the
market's (`market = "unknown"`), and which rules it meets depends on the rule.

## 3. Runs

| Run | Instance | Shows |
|---|---|---|
| `outbox_two` | 3 flushers (two relays, an administrator), 1 event, MaxRetries 3, a replica that lags at will | published rows were delivered and dead letters earned, however old the lists are |
| `outbox_live` | 1 flusher, 2 events, primary, fairness | refinement of `EventDelivery`; every pending event is decided |
| `saga_core` | a submit, a cancel of it, a refused automatic submit, order lists, cached positions | the record against broker, answer and projection; every event in the outbox is true from its record on |
| `saga_cancelled` | a submit and a cancel | **violated**: "cancelled" is recorded before it is true |
| `leader_prompt` | 2 instances, prompt joins, a lease of 3 intervals | refinement of `ExclusiveLease`; a leader holds a lease that has not run out, also when its renewals fail over and over, and a stopped instance begins nothing |
| `leader_live` | 2 instances, a replica, fairness | somebody leads again after crashes, failed renewals and failed releases |
| `quant_day` | 2 cycles, 2 targets, limit 2 | the daily limit, the two barriers against repeats, and the bound on unrecorded orders |
| `quant_fallback` | 1 cycle, 1 target | **violated**: a failed order check does not block orders |
| `agent_review` | 2 requests, one of them outsized, 3 windows, 2 faults, 1 override | the causes of a second purchase and of a stuck row; decisions of people stand |
| `trend_scan` | 2 of 3 symbols listed at first, batches of one, 2 days, 2 events, fairness | completed days were scanned, marks have runs, the scan completes |
| `monitor_orders` | 2 instances and a run by hand, 2 rules on a position of 1, 2 orders, 2 events, fairness | no second sell at work, none beyond the position and none in the same run without its causes, and the rule is carried out |
| `push_session` | 2 sockets, 1 symbol, 2 threads of each kind, 1 broadcast, 1 failing send, fairness | one thread of a kind, wherever it is needed, and none when it is not |

Some formulas were checked by TLC on an instance of their own before they were proved, and
have a theorem instead of a standing run:

| Formula | Instance | States |
|---|---|---|
| `PipelineIInv`, `InboxIsTrue`, `InboxTellsOneStory`, `RejectionIsFinal`, and `Outbox!SharedSpec` as a property (`TradePipeline`) | 1 submit, no cancel, a working broker | 964 097 |
| `LinkIInv`, `DecisionIsBacked`, `LimitKeptAtTheBroker`, and `Spec` of `QuantAutoTrade` as a property (`QuantPipeline`) | 1 cycle, 1 target, no cancel, the relay idle | 59 917 |
| `SharedIInv`, `KeepsSharedPromise` (`OutboxRelay`) | 3 flushers and a replica with 1 event, as `outbox_two` without its symmetry; 2 flushers on the primary with 2 events, `RetryCap` 3 | 353 019; 1 867 606 |
| `StrandedIInv`, `NoRowIsStranded` (`OutboxRelay`) | 1 flusher on the primary | 32 796 |
| `NeverShort`, `MonitorIInv` (`StrategyMonitor`) | as `monitor_orders` | 1 056 349 |
| `TypeOK`, `LeaderHoldsTheLease`, `StoppedMeansStopped` (`SchedulerLeadership`) | as `leader_prompt` with 3 instances | 4 696 328 |
| `ServiceIsKept` (`PushHub`) | as `push_session` | 780 480 |
| `CursorIsHonest` (`TrendScan`) | as `trend_scan` | 332 796 |
| `RunsMoveForward` (`AgentRun`) | as `agent_review` | 4 935 162 |

The two compositions multiply the states of their parts; what an instance small enough for
a standing run would show is what the parts' runs show already, and the interesting cases
(two cycles, a cancel beside a submit, the relay in between) are covered by the theorems.

Bounds and why they suffice.

- Relay: three flushers are one more than a stale copy needs to meet a changed row, so
  that a third may act on what the second left; two events make a list with a rest;
  MaxRetries is 3, the least the code allows (`max(3, ...)`), and the back-off is only
  "later" or "due". `RetryCap` stops loading a row whose counter is 5, beyond every
  threshold; requeueing restarts the counter.
- Sagas: one submit and one cancel touch the same order, projection and broker;
  requests of different orders share only the positions the risk check reads. One order-list
  request is at work at a time: `fetched` is a copy of any age already, and a second copy
  would add another status that the order has had.
- Leadership: what two instances do to each other goes through the lease, and a third
  meets only the same row; three were checked as well (the table above). `LeaseTerm` 3 is
  explained in section 2.
- Quant: with two targets, two cycles and a limit of 2, four possible orders exceed it.
- Review: two requests are the least that can buy twice; `Outsized` is one whose payload
  is cut so that its row loses the key; a row is stranded after one window, so a
  clean-up can meet a row of the window before; two faults let both attempts at one call
  fail, or one fail and another lose its answer.
- Trend scan: with batches of one the cursor stops between any two symbols; the third
  symbol arrives, or one leaves, in between; two days let a cursor of yesterday meet
  today. `MaxEvents` (2) counts everything that people and failures do, so any two of
  them meet in one behaviour.
- Monitor: one rule that follows the market and one that is always met, so both can want
  the same position in one run; two orders are the least that can oversell, two instances
  the least that can overlap, and a position of one the least that both can want.
  `MaxOrders` ends the story, and `RuleIsCarriedOut` allows for that. A run beside another
  one, a trade of others, a failure, an edit or a run by hand each takes one of two
  events, so any two of them meet. Idle instances are alike, so a run that begins alone is
  the first one's (`FirstBegins`): this leaves out names, not behaviours.
- Push session: one thread of each kind that is ending and one that is starting is all
  that can meet, since a third needs the first to have ended; the second socket is the
  page that stays when the first leaves. `MaxFailures` bounds sends that fail on an open
  socket and handlers that die.

`CHECK_DEADLOCK FALSE` is used where the system really stops: all requests answered, all
cycles done, the last day over, all instances stopped, no page and no thread left.

The restriction to one flusher on the primary in `outbox_live` (`OneFlusherOnPrimary` in
the theorem) is needed: with two flushers the UPDATE of the slower one takes `published`
back, and a row may be sent again after it was published. That is at-least-once
delivery, which the code intends. What several flushers keep is stated as
`KeepsSharedPromise` and proved without the restriction.

### Fairness

- Relay: the publish loop keeps running (weak fairness of `LoadCandidates`); publish and
  the marking UPDATE finish if they are tried again and again (strong fairness: an error
  or a restart in between is possible any number of times, not always at the same place;
  `_publish_loop` catches exceptions and goes on); the clock runs; and operators stop
  requeueing at some time. Kafka is *not* assumed to work: decided includes dead letter.
- Leadership: threads run, the clock (`IntervalPasses`) and the replica move, the row is
  read truthfully if it is read again and again (strong fairness of that outcome of
  `ReadOwner`: `_loop` catches exceptions and retries every five seconds), and from some
  time on no upsert raises and nobody stops or kills instances. Nothing is assumed of
  leases: they run out because the clock moves.
- Trend scan: the polling thread polls while the task is on, a run that has begun takes
  its next statement (its failures are outcomes of the statement), the day ends, a form
  that was opened is saved. Nobody has to press a button.
- Monitor: some instance leads and its thread polls, a scheduler's run takes its next
  step, alerts grow old and periods pass. A run by hand need not end, an order need not
  arrive or fill, and nobody has to run, edit or cancel anything.
- Push session: only the threads are fair. They are daemon threads with a wait of at
  most ten seconds in the loop. Pages, broadcasts and subscriptions owe nothing.

The two job modules begin at a polling thread that is alive: `get_interval` and some
queries stand outside the loops' try blocks, and a database error there ends the thread
(the hazard at scheduler-service `main.py:708`). No property could promise that
it does not.

## 4. Divergences found

As runs with a violated property (details and quotations in `PROJECT.json`):

1. `saga_cancelled`: a cancel is recorded, announced and projected as done when the
   broker has accepted the request; the order may fill.
2. `quant_fallback`: the quant path's order check fails open: a broker failure becomes an
   empty list, although the documentation says that the order is skipped.

Met while modelling, and told here because no run is kept for them:

3. The position limit counts filled positions only and is checked without a reservation:
   two submits of one symbol pass the check before either order fills, and both fill.
4. With slow joins (`SlowJoins = TRUE`) `POST /runtime/stop` may be followed by a job
   start on the stopped instance: `stop()` waits two seconds, and a call in flight
   acquires the lease again. `StoppedMeansStopped` is stated for prompt joins.
5. `LeaderHasRunner` in `SchedulerLeadership` is not an invariant. An instance stops
   while a runner is busy with a job that outlasts the join, and leads again before the
   job ends: `start()` leaves the busy thread alone and does not clear its stop event, the
   thread ends after its job, and the leader has no runner for it until the next change
   of leadership.
6. A trend-scan run that dies or raises between its first statement and its last leaves
   `running` in `scheduled_jobs`, and the scheduler's poll does not begin a run while it is
   there: the scan stands still, over days, until somebody runs it by hand (`run_once` does
   not look at the mark) or a read of the row fails and reads as no row. The module allows
   all of this. `MarkHasARun` speaks of marks of runs that were not cut short, and
   `ScanCompletes` of behaviours in which none is.
7. `PushHub` knows the same pattern, and `missed` records it: a page that connects, or a
   symbol that is subscribed, while the previous thread has been told to stop but is not
   at its end (a heartbeat's wait is interrupted, so that is a moment; a poller finishes
   its requests first) is left to that thread and has none when it ends, until the next
   page connects or the next symbol is subscribed. `DemandIsServed` says that this is the
   only way to be without one.

## 5. Proofs

For all values of the constants that satisfy the named assumptions of each module
(finite sets of flushers, cycles and targets; bounds that are numbers; `MaxRetries` at
least 3; a name for nobody that is nobody's). The leadership's safety theorems are
implications: they speak of prompt joins and of leases read on the primary.

| Theorem | States | Argument |
|---|---|---|
| `TypeCorrect` | `Spec => []TypeOK` (relay) | inductive as it stands; lemmas give the type of each row operator |
| `PublishedDelivered` | `[]PublishedWasDelivered` | with `AckedWasDelivered`: a flusher at `acked` works on a delivered event; deliveries only grow |
| `DeadLetterEarned` | `[]DeadLetterWasEarned` | with `RetriesAreCovered`: the row's counter plus the failed publishes not yet written, every flusher's copy (plus one at `nacked`) and the replica's counter stay below the number of failed publishes |
| `RetryOvershootBounded` | `[]RetryOvershootIsBounded` | with `HoldersAreCounted`: each flusher that holds a row adds one at most, and a row is loaded only below the maximum (no run checks it separately) |
| `NoRowStranded` | `[]NoRowIsStranded` (it speaks of one flusher on the primary; no run) | `StrandedIInv`: the flusher's copy of `retry_count` is never behind the row, so the row is parked when its retries are used up and not left failed |
| `OutboxPromiseKept` | `OneFlusherOnPrimary => (Spec => ImplementsEventDelivery)` | step simulation under `PromiseIInv`: what the flusher holds is recorded and not published (`HeldIsOwed`), what it marks was delivered, what lingers was recorded; `PhaseOfRows` says what each row operator means for the promise |
| `SharedPromiseKept` | `Spec => KeepsSharedPromise`, without the proviso (no run) | step simulation under `SharedIInv`: lists, replica and producer buffers name recorded rows only, and what is marked published was delivered; a failure UPDATE over another flusher's success is the step `Overwrite` |
| `SagaTypes`, `GatedOrders`, `OneOutcome`, `CompletedHasEvidence`, `CancelTaken`, `AnswerOnRecord` | `[]` of the invariants of `saga_core` | `SagaIInv`: the stage of a handler (`EarlyStage`, `PlacedStage`, `UndoingStage`, `FailingStage`) fixes what its saga and its order can be |
| `AnnouncementsTrue` | `[]AnnouncementsAreTrue` | `StoryIInv`: with `SagaIInv`, what a handler has announced fixes where it may stand afterwards (`SubmitStory`, `CancelStory`), so that nothing follows that would take it back |
| `PipelineKeepsSagas`, `PipelineKeepsOutbox` | `PipelineSpec => Spec`, `PipelineSpec => Outbox!SharedSpec` | the pipeline maps to its parts; that a step of a handler is a step of the outbox needs that it records at most one event, which was not recorded before (`OneAnnouncement`) |
| `InboxTrue`, `InboxStory`, `RejectionFinal` | what consumers read (`TradePipeline`) | `PipelineIInv` (inbox within delivered within recorded), and the two theorems above carry `AnnouncementsTrue` and `OneOutcome` over |
| `ProjectionSound` | `[]ProjectionIsNotInvented` | `ProjectionIInv`: with `SagaIInv`, the order list's copy is as old as it may be and still true of the past (`CopyIsSound`) |
| `CompletedStays` | `CompletedIsLeftOnlyByCompensation` (an action property) | from `SagaIInv`: a handler that may fail is not one whose saga is completed, except in the compensation |
| `LeadershipTypes` | `[]TypeOK` (leadership) | inductive |
| `LeaderHoldsLease`, `OneInstance` | `[]LeaderHoldsTheLease`, `[]OneInstanceBegins` | `LeaseIInv`: what is left of the lease and the intervals that may have passed since its renewal (`Age`: one for the interval under way, one for a round that cannot renew it or a loop that has ended) make up the term (`Holds`), for every instance that may begin jobs and every true verdict; a stop demotes only after the loop has ended, and roles change under the lock; two holders of one row are the same instance |
| `LeasePromiseKept` | `Spec => ImplementsExclusiveLease` under the same proviso | step simulation under `LeaseIInv`: the holder of the abstract lease is the row's owner while the lease lasts; whoever may begin jobs leads on a lease that has not run out, since the clock may only take it to its end when its loop has turned or its stop is done (`IsLate`) |
| `StoppedStaysStopped` | `[]StoppedMeansStopped` | `StopIInv`: the part of the above in which the lease plays no role |
| `QuantTypes` | `[]TypeOK` (quant) | inductive; the day's count is a number because cycles and targets are finite |
| `RecordLagsByOne` | `[]OneUnrecordedOrderPerCycle` | `RecordIInv`: only a cycle that waits for an answer, saves, or broke down has an order without a row, and it is that of its last decision |
| `RepeatsExplained` | `[]RepeatTakesTwoFailures` | `RepeatIInv`: with `BarrierIInv` (what a cycle saw still covers every order that others have) and `OneAtATime` (no overlap means one cycle at work, and none while a late submit is under way) |
| `LimitKept` | `[]DailyLimitKept` | `LimitIInv`: the count of the cycle at work is the number of its source's rows; orders without a row are mapped one to one to the cycles that save or broke down |
| `QuantPipelineKeepsTrade` | `PipelineSpec => Trade!PipelineSpec` (`QuantPipeline`) | the cycles leave the service's variables alone |
| `PipelineKeepsCycles` | `PipelineSpec => Spec`: the sagas implement what `QuantAutoTrade` assumes | step simulation under `RecordIInv`, `LinkIInv` and `StoryIInv`: a handler before its broker call was asked and not given an answer, so the order it places is one that a cycle waits for (`OrderPlaced`) or gave up on (`LateOrder`) |
| `DecisionBacked`, `LimitKeptInTrade` | `[]DecisionIsBacked`, `[]LimitKeptAtTheBroker` | an executed row is a handler at `ok`, a failed one a handler that never began (`LinkIInv`); the stories of the saga and the inbox do the rest, and `LimitKept` comes over with the refinement |
| `TypeCorrect`, `StuckRunsHaveCauses`, `SecondPurchasesHaveCauses`, `DismissedRunsDoNotBuy` | `[]` of the invariants of `agent_review` | `RunIInv`: where a thread stands fixes what its row can be (`ThreadIsOrderly`), a dismissed row is never queued again (`DismissalHolds`), in the window of its key a row is too young for the clean-up (`RefusalIsKnown`), and the reason a look-up passed over a run stays (`PriorHasACause`) |
| `DecidedRunsAreLeftToPeople` | the action property of the same run | from `RunIInv`, action by action |
| `RowsMoveForward` | `RunsMoveForward` (an action property; no run) | from the same invariant, action by action: only the running-mark of a claim whose two attempts raised can take a row back |
| `TypeCorrect`, `CompletedMeansScanned` | `[]` of `TypeOK`, `CompletedDayIsScanned` (trend scan) | `ScanIInv`: every copy of the settings, in the table, a run or the form, claims no more than was scanned, where a run may count what it has in hand |
| `CursorSkipsNothing` | `[]CursorIsHonest` (no run) | `ScanIInv` of the table's own copy |
| `MarkIsTakenBack` | `[]MarkHasARun` | inductive with the types |
| `TypeCorrect`, `SellsAreOneAtATime`, `OversoldHasCauses`, `RunsSellOnce` | `[]` of the invariants of `monitor_orders` | `MonitorIInv`: the list is loaded once and before the first order (`RunIsOrderly`), without an overlap one scheduler's run is at work and nobody else has a list (`RunsAreApart`), a sell that was answered is in the list of its run (`SellIsNoted`, which needs no more than the run itself, so `RunsSellOnce` holds of overlapping runs too), and a list without a sell is true as long as only this run submits one (`ListIsTrue`); an order that exceeds the position does so because of what it was cut to or of what happened while it was at work |
| `ShortHasCauses` | `[]NeverShort` (no run) | the fill that would do it is of an order at work that exceeds the position (`OversoldHasACause` in `MonitorIInv`), and the causes are never forgotten |
| `TypeCorrect`, `ThreadsAreAlone`, `DemandsAreServed` | `[]` of the invariants of `push_session` | `HubIInv`: a thread that has not come to its end is the one the session knows (`ThreadsAreKnown`), it works on unless there is nothing to do or the request was missed (`DemandIsMet`), and only sockets that closed or failed are taken out (`OpenIsRegistered`) |
| `ServiceStays` | `ServiceIsKept` (an action property; no run) | from `HubIInv`, action by action: a start finds the thread at work under the session's reference and leaves it, a stop needs that nobody is left |

How the parts are put together. `TradePipeline` is an instance inside `QuantPipeline`
through `TradeSagaProofs`, so its theorems can be cited for the instance
(`Trade!PipelineStory`, `Trade!StepAdvances`); their assumptions on the constants are
proved for the instance first (`SentAssumptions`). A composition is then two facts: its
steps are steps of each part, and an invariant links the parts' variables. Every theorem
about a part that is stated for its specification holds in the composition by these.
`PipelineAssumption` is what `TradeSaga` assumes of its constants, and a hypothesis of the
four theorems about `QuantPipeline`. Sagas and relay meet in `EventDelivery`:
`PipelineKeepsOutbox` reaches `SharedSpec` from above, `SharedPromiseKept` from below, with
any number of flushers and with or without a replica. So the theorems about the inbox do
not depend on how many flushers run; that a settled event stays settled does
(`OutboxPromiseKept`).

Why the invariants have to be strengthened. `DeadLetterEarned`: the decision to park is
made on a copy, the property speaks of the row and of the past; the copy must be tied to
the failed publishes, and that needs the failures counted but not yet written (`Nacked`).
The sagas: not even their types are inductive, because `why` holds the failed step on
one path and the compensation's outcome on another, and each is a column of the record;
the stages keep the paths apart. The quant path and the monitor read the order list
before a loop of decisions, so the barrier must say that nobody else places anything
between the look and the submit, which holds only while runs do not overlap; in the
monitor that is a part of the invariant of its own (`RunsAreApart`). The leadership: a
lease that is valid now says nothing of the next interval, so the invariant counts how
many may have passed since the renewal. The trend scan: a completed day in the table comes from a run's copy,
which may have come from a form, so the claim must hold of all copies at once. The push
session: that a thread is needed and present is lost at the moment it is told to stop,
so the invariant has to say when that may happen. TLC checked every strengthening as an
invariant before it was proved.

Each `...Proofs` module is laid out the same way: lemmas on rows and cells, a lemma on
what one step may change, that other actors' invariants survive it, then one step of the
proof for each action.

Only model-checked: the liveness properties (`EveryEventIsDecided`, `SomebodyLeads`,
`ScanCompletes`, `RuleIsCarriedOut`, `IdleThreadsEnd`). Liveness under fairness is outside
what the prover can do and stays with TLC.

## 6. Not modelled

- Quotes and bars, sentiment, strategy, language-model, snapshot, risk-overview, user,
  gateway and portal code: computations, input and output, and idempotent upserts without
  a protocol. They are most of the repository's lines, and the reason why the models
  stand for a small share of them.
- Numeric rules: sizes, cash, ratios, indicators, back-testing, signals.
- The Longbridge and Tiger SDKs, MySQL, Kafka and Redis, except for what callers can
  observe.
- Saga recovery and resumption: there is none in the code.
- Partial fills: an order that is partly filled is still at work for every module, and
  quantities are left out except in the monitor, whose orders fill as a whole.
- The life cycle of the relay and consumer threads: they are started with the service and
  joined when it ends. A message that the consumer misses is missed for good
  (`auto_offset_reset` is latest), which `ConsumeLoop` allows.
- Deferred jobs of the analysis service (memory, Redis, database copies of a result): the
  copies are overwritten as a whole and the last one read is an answer of some age.
- The circuit breaker's transitions: callers see a call that fails. Placing and
  cancelling share one breaker, so the failures that make a compensation necessary may
  refuse it (a hazard in `PROJECT.json`); `Compensate` may fail for any reason.
- `last_run_date` and the loops of the job runners: what a second or a missing run does
  is in the modules of the jobs, whose polls may see stale or no rows.
- In the push session: poll intervals and cool-downs, the broadcast pause after a
  subscribe, candlestick subscriptions (they start no thread). Subscriptions belong to
  the user, not to the page, and survive its socket; that is how the code means it.
