# Verification of pumper

pumper is a scraping service: one process (`crates/server`) with an HTTP API, a
SQLite database, a pool of worker tasks that run scrape apps, a scheduler with
janitor ticks, and optional remote executors that claim work over HTTP. The
durable state is the database; everything else is rebuilt at boot. This directory
models the parts that decide whether a job runs, how often, under whose hand and
what is recorded of it, what is told to the outside about it, and the three
long-lived protocols the apps rest on: the crawl's checkpoints, the approval of an
irreversible action, and the politeness towards a host.

Contents: [inventory](#1-inventory), [modules](#2-modules-and-the-code-they-model),
[runs](#3-runs), [proofs](#4-proofs), [refuted statements](#5-statements-the-code-does-not-keep),
[limits](#6-not-modelled), [plan](#7-plan).

## 1. Inventory

| Component | State | Operations | Hard because |
|---|---|---|---|
| Job queue (`core/src/storage.rs`, `job.rs`) | `jobs` rows: status, attempts, max_attempts, executor_id, available_at, heartbeat_at, waiting_expires_at, error, cause_kind | enqueue, claim_next, claim_next_for_executor, complete, fail, fail_permanently, cancel, cancel_running, reset, await_input, resume, expire_waiting, retry, retry_bulk, heartbeat, recover_stuck, reap_stale | every operation is one SQL statement or two; holders of an attempt outlive it; `fail` reads and writes in separate statements |
| Worker pool (`server/src/worker.rs`, `main.rs`, `routes/jobs.rs`) | semaphore, per-app counts, spawned tasks, `job_cancels`, `CANCEL_INTENTS`, checkpoint rows | the claim loop, a task's life (register, load_restore, run, decide, write, clear, leave), DELETE/reset/resume/retry doors, drain, boot sweep | tasks of two attempts of one job overlap; DELETE and the drain fire one token with opposite meanings; a crash at any point |
| Executor plane (`server/src/executors.rs`, `routes/executors.rs`) | rows' executor_id, checkpoint rows, calls in flight | claim_job (count, then claim), heartbeat, checkpoint, finish | late, repeated and overtaken HTTP calls; each handler is several statements |
| Workflow runs (`server/src/workflow.rs`) | workflow_runs, workflow_steps, the jobs of the steps | start_run, on_step_terminal, advance, enqueue_step, cancel_run | several activations of `advance` work on one run from rows read earlier |
| Fan-out pool (`server/src/fanout.rs`) | in-flight counter, semaphore | placement, spawn, drain | a ticket must come back on return, on panic and on the inline path |
| Webhook deliveries (`server/src/webhook.rs`, `routes/webhooks.rs`) | webhook_deliveries rows | dispatch, the in-process ladder, drain tick (reclaim, scan, claim), replay | a send may outlive the claim it was made under; a crash may fall between claim and outcome |
| Event bus and log (`server/src/events.rs`, `state.rs`) | counter, ring, pending queue, `events` rows | emit, flush, requeue, prune, reseed at boot | several flushers; a full queue sheds; numbers restart from the log |
| Subscriptions (`server/src/subscriptions.rs`) | cursors | drain pass over a snapshot of targets, dispatch, advance | two passes, cursor writes after handoffs, failures in between |
| Live streams (`server/src/routes/events.rs`) | one connection's position | replay from ring or log, live loop, lag, reset | subscribe before replay; ring, log and channel overlap |
| Scheduler (`server/src/scheduler.rs`, `routes/schedules.rs`) | schedules rows, last pass | due decision, overlap guard, admission, enqueue, touch, misfires | a pass works from a snapshot while operators edit, runs hold slots and passes get lost |
| Approval ledger (`core/src/transactions.rs`, `apps/transact`, `routes/transactions.rs`) | transactions rows | dry run, stage, approve, reject, resume, commit, sweep; the jobs' reaper, cancel, suspension and expiry | the irreversible click and its record are two steps; doors read, then write |
| Crawl frontier (`core/src/crawl.rs`, `apps/crawl`) | host buckets, rotation, seen set, fingerprints, buffer, checkpoint | pop, fetch, expand, dedup, flush, checkpoint, resume | a kill between any two durable steps; several fetches in flight |
| Politeness governor (`core/src/governor.rs`, `tier.rs`, refresher, host weather) | host entries: next_slot, penalty, last_seen; `tier_memory` rows | acquire, try_acquire, penalize, reward, import, reset, evict, write-behind, boot with or without its restore | one entry moved by fetches, refresher, reset, imports and eviction while its copy is written behind |
| Health, fetch tiers, datasets, search, triggers, costs, mesh, plugins, apps, API reads | per component | | see PROJECT.json for each |

How they meet: the worker and the executors share nothing but the `jobs` rows; the
API doors act on the rows and, for a running job, on the worker's token registry;
`finalize` is the single exit through which the worker, the reaper and the executor
door call the workflow hook, triggers, webhooks and the event bus; workflow steps
and scheduled runs are ordinary jobs. The scheduler's tick calls the reaper, the
waiting-expiry sweep, the outbox drain and the webhook drain; boot calls
`recover_stuck`, reseeds the bus and restores the penalties. Webhook sends and
event handoffs run on the fan-out pool. The bus feeds the log, and the outbox and
the streams read both.

What makes each component correct:

* queue: every row keeps to the life of a job; a claim hands out a number nothing
  left over from earlier attempts carries (this is what the `(status, attempts)`
  fence rests on); budgets are never overdrawn; no two jobs run on one target; an
  abandoned row is found again.
* pool: a task whose attempt was superseded changes nothing; an operator's cancel
  beats the drain; permits and counts account for every task; shutdown ends.
* executor plane: what an executor says late lands nowhere; caps hold.
* workflow: a join fires once and on success of everything it waits for; the
  verdict of a run is what its steps say; runs close.
* deliveries: a row has one sender, but for those a stale reclaim overtakes; the ladder is
  as long as its cap says; what is settled stays settled; every logged delivery comes to rest.
* events: an event is logged, waiting or counted as dropped, unless it goes down with a
  request that is cancelled while it appends; a durable event is handed
  to every target that wants it, once unless something failed; a stream has no
  silent gap.
* scheduler: a firing runs once; runs do not stack; nothing is eaten as missed that
  never had its chance; an edit made before the re-read holds.
* ledger: nothing unapproved is clicked; what is clicked is what was approved; a key
  is submitted once, but for clicks nobody could record and attempts started beside a
  live one.
* crawl: a checkpoint buries nothing; no host starves; budgets span resumes; every
  seen URL settles.
* governor: requests to a host are an interval apart and wait out a rate limit; the
  stored penalty follows the live one; a reset sticks.

The `hazards` list of PROJECT.json places each difficulty at its source line and
names the properties that watch it.

## 2. Modules and the code they model

```
JobTable ──> JobQueue                                  JobQueueProofs
    ├──> WorkerPool                                    WorkerPoolProofs
    ├──> Transactions                                  TransactionsProofs
    └──> ExecutorPlane ──┬─> MCNode ──┐
Governor ────────────────┘            ├                NodeProofs
Crawl ────────────────────────────────┘
FanoutPool ──> Deliveries                              DeliveriesProofs
EventLog ──┬─> Outbox ──────┬─> EventPlane             EventPlaneProofs
           └─> EventStream ─┘
Workflow                                               WorkflowProofs
Scheduler                                              SchedulerProofs
MC*.tla  instances for TLC     (an arrow reads "is extended by"; the proofs at the
                                right extend the last module of their line;
                                NodeProofs extends MCNode and Crawl; all that
                                extend JobTable refine JobLifecycle)
```

**JobTable** is the table itself: variable `jobs`, and one operator for each
SQL statement's WHERE and SET clauses (`Fenced`, `TargetFree`, `Claimable`,
`ClaimedRow`, `Reset`, `Retry`, ...). Time is abstracted to what a statement
compares: `due` (available_at has passed), `fresh` (the heartbeat is younger than
the stale limit), `deadline`. `error` and `cause` hold the number of the attempt
whose failure was recorded, which is all that comparisons of the two need.

**JobQueue** adds who is talking to the table: `leases` (attempts in some task's
hands; a lease outlives the row's attempt after a reset or sweep), `scanned` (rows
a recovery sweep read and has still to verdict) and `verdicts` (calls of
`Storage::fail` between their read of the row and their write). One action per
statement or door; `FailRead`/`FailWrite` are the two halves of `fail`, and a
sweep is `RecoverStuck`/`ReapStale` followed by one `SweepFail` per row, because
other statements run in between.

**JobLifecycle** is the abstract specification: phases of a job and an attempt
counter, the moves it may make, exclusive targets. JobTable reads it off the rows
with `phase <- status`, `granted <- attempts` (`ImplementsLifecycle`), and each of the
four modules that issue the statements, JobQueue, WorkerPool, ExecutorPlane and
Transactions, implements it: whichever of its doors, tasks, sweeps and handlers writes a
row, the row keeps to its lifecycle.

**WorkerPool** models one server process: the claim loop holding a permit, tasks
with a program counter following `execute` (`registering` ... `leaving`), the
token registry `job_cancels`, the intent map, checkpoints with their
resume counter, the three-phase drain, crash and boot. A sweep, of the drain or of a
boot, gives its rows a verdict one by one and may stop short of the rest (`SweepCut`: the
row limit, the time budget or an error). `losses`, `promised` and `left` (the rows the
drain's sweep did not get to) are history variables for properties. Remote executors appear as claims and
finishes that may take a job from under a task.

**ExecutorPlane** models the HTTP doors: a poll reads counts and then claims;
checkpoint and finish calls are handlers in flight that check ownership, read and
write in separate steps; any number of late duplicates may be sent.

**Workflow** models one run of a plan `After`: the cells of `workflow_steps`,
the step jobs by status, activations of `advance` (`drivers[0]` opened the run,
`drivers[s]` is the hook of step s) each with the rows it read, the cancel
handler and its list of open steps, a crash with the boot sweep. The stored plan is
valid, deleted, or stale: after an upgrade its spec no longer validates, and `advance`
closes the run. `Events` says which outside events an instance allows (job or run
deleted, plan deleted, a statement that errors, a crash, an upgrade over it, a job that
ends before its id is recorded).

**FanoutPool** is `fanout::spawn`: the backlog read, the ticket, placement in a task
or inline when the backlog is full, the first-come semaphore, and the ticket's
release, also by a panic. **Deliveries** is one user of the pool: `rows` is the log,
`unit[u]` a sender with the row it carries and its in-process attempts, `drain` the
scheduler's tick (reclaim stale rows, scan, claim and send each), `route` a replay
request between read and claim. `SubscriptionIds` are the rows logged before their send
is owed (`dispatch_logged`), the others are logged by their sender. Time is the age of a
pending row in ticks: a send takes `SendTicks`, a row is stale after `StaleTicks`, whether
or not its sender still waits for a permit; `overtaken` is the history of rows reclaimed
from under a sender. `FaultBound` counts panics, crashes and failed statements.

**EventLog** is the bus and its log: the counter, the ring as the interval
`ringFrom..seq`, `pending` with its two shedding rules, `hand[f]` for each flusher
between taking a batch and appending it, `log` as one set of numbers per append, prune,
and a restart that reseeds the counter from the log. A flusher whose caller is dropped
inside the append takes its batch with it (`Cancelled`; history `lost`). **Outbox** is
`subscriptions::drain`: passes under `DRAIN_LOCK` that flush, snapshot the targets and
page through the log (`ORDER BY seq`, so a page is the set of its numbers), with a
dispatch that may fail, a cursor that is advanced at the end, targets added and removed
meanwhile. **EventStream** is `stream_events`: a connection that subscribes, reads the
latest number, replays from the ring or flushes and replays from the log, goes live, lags,
is reset; it may be dropped at any of these points, and the client keeps its Last-Event-ID
over disconnects. **EventPlane** composes the three: all consumers flush
the same queue and a restart hits all of them.

**Scheduler** is one scheduler task, statement by statement: a pass takes a snapshot
(`pass.snap`) and a cutoff, and for each schedule decides, re-reads the live row,
enqueues, touches and records skips; each statement may fail, a pass may be lost
whole, the process may restart. A schedule is its set of firing instants. `offered`
is the history of firings a pass had in hand.

**Transactions** is the ledger row of a key with the job attempts that stage and
commit (`tasks`), the two doors (`doors[d]` with the row they read), the live page
whose digest may drift, the expiry sweep, and what the job plane does to these jobs:
resumes, resets and retries by hand, DELETE of a queued, parked or running job, the
drain's suspension (a reset that does not look at the attempt), the expiry of a park, the
reaper, also of an attempt that is still at work, outcomes that could not be written,
errors and crashes at any step. A pass cut by its deadline may have clicked. `clicks`,
`signed`, `misquoted` and `mishaps` (clicks nobody recorded, live attempts that lost their
row, interventions by hand) are histories.

**Crawl** is one crawl job over its attempts: the frontier record (buckets, rotation
`order`, `seen`, per-host `taken`), fetches in flight, the sink buffer, the
fingerprints, `stored` (the durable checkpoint), and a kill at any point followed by a
resume. `lineage` (what became of a URL, which were fetched, how often each host was,
along the checkpoints resumed from) and `waits` are histories. Its initial predicate,
next-state relation and specification are `CrawlInit`, `CrawlNext` and `CrawlSpec`, and its
hosts `CrawlHosts`, so that one module can extend it together with the node.

**Governor** is the politeness plane: `host[h]` is the in-memory entry, `fetch[c]` a
task between `acquire` and its answer, `memory` the stored penalties, `keeper` the
write-behind pass between its snapshot and its statements, `reset` and `bundle` the
reset and import requests under way, `life` the process with its final flush and boot,
whose read of the stored penalties may fail (`BootForgets`). Time is discrete.

**MCNode** is the disjoint sum of ExecutorPlane and Governor: variable `side` picks
one of them in the initial state and the other one rests in its initial state. The two
share nothing in the code either; one TLC run explores both graphs and each property
speaks of its own half.

Definitions whose comment starts with "A fault:" are mutated forms used to show
that each property can fail; they take part in no specification.

## 3. Runs

Runs do not check deadlock: every one of these systems may rest with its jobs
terminal and its bounded counters used up.

| Run | Checks | States | Instance and why it is enough |
|---|---|---|---|
| `MCJobQueue` | `QueueInv`, `ImplementsLifecycle`, `FreshAttempt`, `OrphanRecovered` | 270,297 | one job, 3 attempts, budgets 1 and 2: a lease of attempt 1 can meet attempts 2 and 3, budgets run out and are extended |
| `MCWorkerPool` | `PoolInv`, `SoleCancelWins`, `StaleTaskHarmless` | 654,467 | one job, two attempts, two permits, resets and executor claims: a task left by a sweep or a reset overlaps the next one |
| `MCWorkerPoolShutdown` | `TargetMutex`, `SlotsAccounted`, `ShutdownEnds` | 1,137,406 | two jobs of one app capped at 1 and of one target, two permits: the cap binds before the permits do, and the local and the executor claim compete for the target |
| `MCWorkflow` | `RunInv`, `VerdictHonest`, `SkippedNeverRan` | 2,146,300 | two sources and their join under `continue`, every outside event and one crash, with or without an upgrade |
| `MCWorkflowLive` | `RunCloses` | 21,482 | a diamond of four steps with a step that may be refused and a plan that may be deleted |
| `MCDeliveries` | `DeliveryInv`, `SingleSender`, `LadderAccounted`, `SettledIsFinal`, `EverySendSettles` | 900,424 | two rows, a one-shot sink whose sender logs it and an HTTP sink logged before its send, one permit, two units: one send waits while the other runs, for longer than the stale limit if it must, so that a reclaim overtakes it; two rows due and a batch of one; one fault and one replay |
| `MCEventPlane` | `EventInv`, `NoDoubleHandoff`, `EveryEventHandedOff` | 716,622 | three events, a queue and a batch of two, two passes and a request that flushes, a target that wants some events; one storage error, one crash, cancelled flushes |
| `MCEventStream` | `RingViewWhole`, `ClientCatchesUp` | 603,572 | one client, three events, a ring of two and a channel of one: it lags, is evicted from the ring, resumes from a pruned log, meets a restart |
| `MCScheduler` | `FiringRunsOnce`, `ScheduleInv`, `MissedHadItsChance`, `EditHonoured`, `FireOnceRuns` | 516,732 | one schedule that fires at each of three instants, both policies, two runs, one fault and one edit: passes interact only through the row and its runs, so one row has the conflicts |
| `MCTransactions` | `LedgerInv`, `EvidenceFrozen`, `SubmitsOnce` | 2,466,719 | a job of three attempts (stage, commit, one more), two doors, two digests, one fault: the third attempt follows a lost click, or runs beside the second after the reaper or a suspension took its row |
| `MCCrawl` | `ResumeInv`, `HostFair`, `EveryUrlSettles` | 219,236 | five pages on two hosts, two fetches in flight, host budget 2, page budget 3, frontier of 4, checkpoint every 2: each budget binds, a near-duplicate, a revisit and a robots refusal happen; two kills |
| `MCNode` | `NodeInv`, `CheckpointNeverRegresses`, `BackoffHonoured`, `StoreFollows`, `ResetSticks` | 1,891,047 | executors: one job, two executors, two attempts, two calls in flight; governor: one host with and without an interval, two tasks, one of them also a refresher, three instants, two outside events (reset, import, pass, shutdown, crash, storage error, failed restore) |

Several invariants are conjunctions, named for what they watch:

* `QueueInv`: see [proofs](#4-proofs); `BudgetRespected` is one of its parts.
* `PoolInv`: types, `NoGhostToken` (a token in the registry belongs to a task),
  `DrainSettlesAll` (after the drain a task still owns its row only where the sweep was
  cut short of it), `SlotsAccounted`,
  `AttemptsApart`, `LoopInPhase`, `PromiseStands`.
* `RunInv`: types, `JoinFiresOnce`, `BarrierRespected`, `CellsSeeded`,
  `StartsClaimed`, `ReadingsHold`, `SkipsCaused`.
* `DeliveryInv`: types, `TicketsExact` (the counter equals the units that hold a ticket),
  `LineExact`, `UnitsPlaced`, `SendersBacked`, `SendersCounted` (of which `SingleSender`
  is a part), `LadderPaid`, `WaitsBounded`.
* `EventInv`: types, `EveryEventAccounted`, `EachInOnePlace`, `PassInStep`, `PageWhole`,
  `NoDurableSkip` (a cursor passes a durable event only after its handoff; events
  appended behind a cursor are the subject of `NeverSkipped`, section 5),
  `HandoffsCharged`, `ViewsInStep`.
* `ScheduleInv`: types, `RunsDoNotStack`, `SlotGuarded`, `PassCurrent`,
  `FiringsCharged`, `LeftDueWasOffered`, `EditsNumbered`.
* `LedgerInv`: types, `NoUnapprovedClick`, `RowsNamed`, `CommitsBacked`,
  `AttemptsApart`, `ChancesPaid`.
* `ResumeInv`: types, `CheckpointHonest`, `PrintsBacked`, `HostBudgetKept`, `Rotates`,
  `Placed`, `AttemptInPhase`, `MemoryHonest`, `FetchesCharged`.
* `NodeInv`: types of both halves; `CheckpointInv`; `PenaltyInv` (`MemoryExclusive`,
  `SnapshotTrue`, `StoreFollows`, `ResetSticks`); `SlotInv` (`SlotsSpaced`,
  `SlotsBelowNext`, `HoldBelowNext`).

All of them are inductive (`RunInv` together with `VerdictHonest`, `NodeInv` under the
hypothesis of its theorem): the parts that are
not properties in their own right are the strengthenings section 4 explains, and the
runs check them on every reachable state of the instance as the proofs show them on all.

**Bounds.** `AttemptBound`, `MaxAttempts`, `MaxCalls`, `MaxCost`, `MaxCrashes`,
`BatchCap`, `FaultBound`, `ReplayIds`, `ReplayBound`, `CrashBound`, `PruneBound`, `EditBound`,
`EventBound`, `MaxKills`, `MaxSeq`, `MaxRuns`, `MaxTime`, `QueueBound` cut the models;
the other numbers are the code's own limits made small. In MCDeliveries a send that waits
for another one and then takes its own time outlasts `StaleTicks`, as sends behind a full
backlog do in the code (51 s each, 1024 behind 16 permits, against 600 s): the properties
hold with senders overtaken. Its replay request is for the one-shot row (`ReplayIds`). In
MCNode `IdleTtl` is longer than the queue of slots `QueueBound` allows, as the code's
defaults assume; the refuted statement `EvictsOnlyIdle` is about what happens otherwise.

**Fairness.** `JobQueue!FairSpec`: clocks advance (weak fairness of `LeaseAges`);
the scheduler ticks forever and a stale row is eventually among those a sweep
takes (strong fairness of `Reap(j)`: a beat that arrives late may make the row
fresh again, so the scan is not continuously enabled; sweeps take the oldest rows
first, so a row passed over by a truncated sweep is reached later); a storage call
that began ends. Nothing is assumed of holders: they may beat or be silent, so the
property starts from rows whose holder has died. `WorkerPool!FairSpec`: the claim
loop and the drain's own timers make progress; tasks get no fairness at all, since
an app may never yield. `Workflow!FairSpec`: jobs end (the worker's own promise),
activations and the cancel handler run on; failures of a hook or of an enqueue are
allowed at any time in `MCWorkflow` but are not events of the liveness instance,
because `EndedJobClosesStep` shows that nothing makes up for them.
`Deliveries!FairSpec`: a sender's own timers fire (every send has a timeout), the
scheduler ticks, time passes. `EventPlane!FairSpec`: the drain ticks and a
connection's task is polled; nothing makes clients reconnect or events come.
`Scheduler!FairSpec`: a pass runs on and comes again, and a run settles (timeouts
and the reaper see to that); a parked run gets no fairness, a human may never answer.
`Crawl!CrawlFairSpec`: a fetch ends, a crawl-delay window closes, a killed job is claimed
again; kills are bounded.

## 4. Proofs

The theorems below hold for every value of the constants: any sets of jobs, executors,
schedules, keys, hosts, targets or clients, any plan, any queue, ring and page size, any
bound on attempts, faults and crashes. `S` stands for the specification.

| Module | Theorem | States |
|---|---|---|
| `JobQueueProofs` | `QueueInvariant` | `S => []QueueInv` |
| | `BudgetAlwaysRespected` | `S => []BudgetRespected` |
| | `TargetsExclusive` | `S => []TargetMutex` |
| | `AttemptsAreFresh` | `S => FreshAttempt` |
| | `QueueImplementsLifecycle` | `S => ImplementsLifecycle` |
| `WorkerPoolProofs` | `PoolInvariant` | `S => []PoolInv` |
| | `SlotsAlwaysAccounted` | `S => []SlotsAccounted` |
| | `SoleCancelAlwaysWins` | `S => []SoleCancelWins` |
| | `PoolTargetMutex` | `S => []TargetMutex` |
| | `StaleTasksHarmless` | `S => StaleTaskHarmless` |
| | `PoolImplementsLifecycle` | `S => ImplementsLifecycle` |
| `WorkflowProofs` | `RunInvariant` | `S => []RunInv` |
| | `VerdictAlwaysHonest` | `S => []VerdictHonest` |
| | `SkippedNeverRuns` | `S => []SkippedNeverRan`, if `OnFailure = "continue"` |
| `SchedulerProofs` | `ScheduleInvariant` | `S => []ScheduleInv` |
| | `FiringRunsOnceAlways` | `S => []FiringRunsOnce` |
| | `MissedHadItsChanceAlways` | `S => []MissedHadItsChance` |
| | `EditAlwaysHonoured` | `S => EditHonoured` |
| `TransactionsProofs` | `LedgerInvariant` | `S => []LedgerInv` |
| | `EvidenceStaysFrozen` | `S => []EvidenceFrozen` |
| | `SubmitsOnceAlways` | `S => []SubmitsOnce` |
| | `TransactImplementsLifecycle` | `S => ImplementsLifecycle` |
| `DeliveriesProofs` | `TicketsAlwaysExact` | `S => []TicketsExact` |
| | `DeliveryInvariant` | `S => []DeliveryInv` |
| | `OneSenderAlways` | `S => []SingleSender` |
| | `LadderAlwaysAccounted` | `S => []LadderAccounted` |
| | `SettledStaysFinal` | `S => SettledIsFinal` |
| `EventPlaneProofs` | `EventInvariant` | `S => []EventInv` |
| | `EveryEventAlwaysAccounted` | `S => []EveryEventAccounted` |
| | `NothingDurableSkipped` | `S => []NoDurableSkip` |
| | `HandoffsNeverDouble` | `S => []NoDoubleHandoff` |
| | `RingViewsStayWhole` | `S => []RingViewWhole` |
| `NodeProofs` | `PlaneInvariant` | `S => [](TypeOK /\ CheckpointInv)` of ExecutorPlane |
| | `CheckpointsNeverRegress` | `S => CheckpointNeverRegresses` |
| | `PlaneImplementsLifecycle` | `S => ImplementsLifecycle` of ExecutorPlane |
| | `PenaltyInvariant` | `PolitenessSpec => []PenaltyInv` of Governor |
| | `StoreAlwaysFollows` | `PolitenessSpec => []StoreFollows` |
| | `ResetAlwaysSticks` | `PolitenessSpec => []ResetSticks` |
| | `SlotsAlwaysSpaced` | `PolitenessSpec => []SlotsSpaced`, if `IdleOutlasts` |
| | `BackoffAlwaysHonoured` | `PolitenessSpec => BackoffHonoured`, if `IdleOutlasts` |
| | `NodeInvariant` | `NodeSpec => []NodeInv`, if `IdleOutlasts` |
| | `CrawlResumes` | `CrawlSpec => []ResumeInv` of Crawl |
| | `CheckpointsBuryNothing` | `CrawlSpec => []CheckpointHonest` |
| | `HostBudgetSpansResumes` | `CrawlSpec => []HostBudgetKept` |
| | `HostsServedFairly` | `CrawlSpec => []HostFair` |

**Assumptions.** Each module's constants have one or a few named ASSUMEs
(`NobodyAssumption`, `BoundAssumption`, `MaxAttemptsAssumption`, `AppAssumption`,
`ConcurrencyAssumption`, `LimitAssumption`, `PoolAssumption`, `DeliveryAssumption`,
`EventLogAssumption`, `OutboxAssumption`, `StreamAssumption`, `SchedulerAssumption`,
`TransactAssumption`, `WorkflowAssumption`, `GovernorAssumption`, `PlaneAssumption`,
`CrawlAssumption`).
They say that bounds are natural numbers, that sets which counters range over are
finite, that a set some request must pick from has a member, and that a value standing
for NULL is no proper value. TLC evaluates each of them in the runs. Some
theorems have a hypothesis of their own:

* `IdleOutlasts`: a host's entry is kept longer than its claimed slots and its back-off
  reach ahead, which the code takes for granted and does not enforce. `IDLE_TTL` is 3600 s and the default penalty cap 300 s, but the queue of
  slots has no bound; see the refuted `EvictsOnlyIdle`. `PenaltyInv` needs no such thing.
* `OnFailure = "continue"`: under `fail_fast` the statement is false, see section 5.

**JobQueue.** The inductive invariant is `QueueInv`, five parts: `TypeOK`;
`BudgetRespected` and `TargetMutex`, the two properties; and

* `VerdictsCurrent`: a verdict "queue again" that is still on its way either has
  been overtaken or lands on a row with budget left. `BudgetRespected` alone is
  not inductive, since `FailWrite` decides on a read made earlier; it works out
  because between the two the row's attempts cannot change without leaving
  `running`, and `reset`, `resume` and `retry` only raise `max_attempts`;
* `HandedOut`: whatever is left over names an attempt that was handed out. This is
  what makes the number of a new claim fresh.

The proof has one lemma per statement of the table (what it does to a row) and one
step per action; the refinement is shown by classifying the change each action makes
to a row as rest, move or grant, and using `TargetMutex'` for exclusivity.

The same classification shows that WorkerPool, ExecutorPlane and Transactions implement
the lifecycle. Their invariants do not speak of rows that were never inserted, so the
proofs add that such a row has had no attempt (`Unborn`; of ExecutorPlane it is part of
`CheckpointInv`), which is what makes an enqueue a move. The suspend arm of a task has no
fence on the attempt and still refines: it moves whatever attempt runs back to queued,
which is why it breaks `StaleWriteFenced` and not the lifecycle. The run `MCJobQueue`
checks `ImplementsLifecycle` of the queue; of the other three it is proved only.

**WorkerPool.** `DrainSettlesAll` follows a task's row from the scan to the verdict or to
the cut: a row that a task owns is in the sweep or was left behind by it. Permits are counted against tasks, so the proof has to know that a claim
adds a task the set did not hold: that is `AttemptsApart` (no two tasks carry one attempt
of a job, none is ahead of the row). `LoopInPhase` excludes that the loop still claims
while the drain counts permits, and keeps what the loop read of the caps current until it
claims. `SoleCancelWins` is about a task that has decided; `PromiseStands` carries the
promise from DELETE to that point: the token stays fired and the intent recorded while
the run is undecided, whoever else fires the token, since no other task of the job is
there to use the intent up. `StaleTaskHarmless` follows action by action from the fences.

**Workflow.** Cells move forward only, so an old reading is never wrong about a closed
cell (`ReadingsHold`). From it follow the barrier (a step an activation finds ready has
its predecessors closed for good) and the verdict (all cells read as closed are still
what they were). `StartsClaimed` says that the claim of a cell has one winner, hence one
job. `SkipsCaused` is what keeps a skipped step from having been ready under `continue`.
The spend of a run is a sum over its steps (`refresh_workflow_spend`); that a sum of
natural numbers over a finite set is a natural number is proved for the community
module's fold, by describing the fold as a function on subsets.

**Scheduler.** `RunsDoNotStack` is not inductive because guard and enqueue are steps
apart: `SlotGuarded` adds that a pass between them has a free slot and that only the
newest run is unsettled. `FiringsCharged` strengthens the count of runs per firing to
the instant before the next one: a firing still to be run has only runs that failures
paid for. `PassCurrent` says that the reference a pass copied is still the row's, so that
what it computes is what the row says; `LeftDueWasOffered` is `MissedHadItsChance`
between passes, and `EditsNumbered` what the mark of the re-read stands for.

**Transactions.** `CommitsBacked` (an attempt past its look at the row has an approved or
submitted row behind it) makes `NoUnapprovedClick` inductive; `RowsNamed` types the rows
that doors carry. For `SubmitsOnce` the proof counts chances of a click rather than
clicks: `ChancesPaid` bounds, for each key, the clicks made and the places one can still
come from (a job with a resumed input, a door about to resume one, an attempt that lost its
row) by one approval and the mishaps so far. A reaped or suspended attempt that is still at
work keeps its chance while its job keeps the resumed input: that second chance is the
mishap the step records, and an attempt that ended before its row was reaped leaves none
(`AttemptsApart`). Its steps are lemmas on how one moved task or row
changes the cardinality of the set of chances.

**Deliveries.** The pool and the log are separate inductions. `LineExact` (the waiting
line is the queued units, each once) gives the tickets. `SendersCounted` strengthens
`SingleSender` by the sender a claim may add: a row at rest has room for one more, and it
comes to rest when its sender ends or when a reclaim overtakes that sender, which counts.
`LadderPaid` charges a claim before it happens: to the cap, to the replay request, to the
fault that took the sender or to the reclaim that overtook it, and it counts the senders
that read `retry_count` before it came to the cap (`fail_delivery` writes what it decided
on that reading). `WaitsBounded` is the age a carried row can have: the time the units
ahead of it in the line can take. None of this supposes that sends are quick. Where they
are (`BacklogDrains`: all that can be under way are over before a row is stale, which the
shipped limits do not ensure), `QuickBacklogNeverOvertaken` shows that no sender is ever
overtaken and the statements hold without their exceptions.

**Event plane.** `EventInv` splits into the bus, the outbox and the streams; `BusMoves` in
the proofs is all that the readers need to know of a step of the bus, so each reader's
actions are checked once. `EveryEventAccounted` compares cardinalities, which needs that
queue, batches, log and what cancelled flushers took are disjoint and free of repetitions
(`EachInOnePlace`). That nothing is lost but what the counter says is refuted
(`EveryLossStated`): the theorem says what is, the dropped and the cancelled. A cursor
passes nothing durable because a page holds every row up to its last and everything
behind the pass was handed off (`PageWhole`); a row that lands during the pass is past
what it covers or counted as late. `PassInStep` is `DRAIN_LOCK`: one pass has targets in
hand, so `HandoffsCharged` can say that an event still ahead of a target was handed off
only as often as failures and restarts paid for. `ViewsInStep` says that a receiver is
never ahead of what its view has or will be given by the replay under way.

**Node.** `CheckpointInv` bounds a stored checkpoint by the attempts of its job.
`StoreFollows` and `ResetSticks` rest on `SnapshotTrue` (a pass writes the truth about
hosts not touched since it read; a boot that could not read the store touches every host
the store has a penalty of) and on `MemoryExclusive`, whose second half came out of
the proof: a host being reset is marked unsaved, or a pass that follows would settle it.
`SlotsSpaced` needs that the next slot is an interval past every slot held
(`SlotsBelowNext`) and `BackoffHonoured` that it is not before a back-off's end
(`HoldBelowNext`); both also bound how far ahead of the last visit these reach, which is
what an eviction meets.

**Crawl.** Admitting a page's links and rebuilding the frontier are folds over sequences.
The library's induction theorems take a predicate as a parameter, which the provers cannot
instantiate, so the proof climbs instead: a set of indices that holds the first and, with
each, the next holds all (`Climb`, from the least counterexample). `FoldExists` climbs over
the prefixes of a sequence to show that the community module's fold is the function its
recursive equation describes; `PushAllRun`, `RestoreRun` and `FlattenedRun` then give each
fold as a run of single steps that stays in any set the step does not leave, and the
properties of the fold follow: pushing takes nothing away and queues what it marks seen
(`PushAllGood`), a restore queues every URL it is given (`RestoreGood`), flattening the
buckets drops none (`FlattenedHolds`). `Rotates` (the rotation is the hosts with URLs
queued, each once, and a bucket holds its own host's URLs) makes a pop find what it looks
for (`PassedHosts`, `PopServes`). `MemoryHonest` is the checkpoint's honesty said of the
attempt, with the buffer between it and the sink: `AttemptInPhase` adds that the buffer is
empty when a save lands. `FetchesCharged` bounds fetches by the saved and the live budget
counters, a requeue giving back exactly what the pop took. `Placed` is fairness as an
invariant: a host's waits and its place in the rotation add up to no more than the hosts
there are, so `HostFair` holds. The proof found that `waits` kept counting for hosts whose
backlog a fruitless pop had dumped; with two hosts TLC could not tell, with three the
history would have overcounted. It is reset now where the rotation runs empty.

**Left to TLC.** Everything temporal under fairness, which this prover does not do:
`OrphanRecovered`, `ShutdownEnds`, `RunCloses`, `EverySendSettles`,
`EveryEventHandedOff`, `ClientCatchesUp`, `FireOnceRuns`, `EveryUrlSettles`.

## 5. Statements the code does not keep

The configurations named `*Refuted.cfg` check what a comment, a document or a test of
the repository says and the code does not do. Each names one property; the others of
its kind stand beside it in a comment, to be put in its place one at a time (with the
constants given there, if any). TLC finds a counterexample to each within
seconds or a few minutes.

| Configuration | Property | Line | What TLC shows, and what the repository says |
|---|---|---|---|
| `MCJobQueueRefuted` | `CauseMatchesError` | `core/src/storage.rs:1191` | The last attempt of an exhausted budget is failed through fail_permanently with no cause_kind, and COALESCE(?6, cause_kind) keeps the cause of an earlier attempt, so the row's error and cause_kind describe different failures. core/src/storage.rs:1104 says the reason's text is read at the call site, "which is what keeps the sentence and the type from describing different failures". |
| `MCJobQueueRefuted` | `ParkKeepsRetries` | `core/src/storage.rs:1363` | A claim counts an attempt, and resume grants headroom only when the budget is spent, so a parked attempt is one retry less. core/src/storage.rs:1348 says "a park costs no attempt: a job that waited an hour for a human still has every retry it started with". |
| `MCWorkerPoolRefuted` | `UserCancelWins` | `server/src/worker.rs:93` | Intents are keyed by job and forgotten outside the attempt test, so an earlier attempt's task that leaves erases the operator's cancel of the live attempt, which the drain then suspends. server/src/routes/jobs.rs:610 says "A cancel that reaches a run before it resolves still wins - user intent outranks the drain". |
| `MCWorkerPoolRefuted` | `CancelAnswerTrue` | `server/src/worker.rs:449` | The registry entry outlives the run's decision, so DELETE records an intent and answers `cancelled: true` to a run that has already finished another way. server/src/worker.rs:432 says "`User` - the run has not decided yet, so the recorded intent wins and the job will be cancelled". |
| `MCWorkerPoolRefuted` | `LiveTokenRegistered` | `server/src/worker.rs:74` | Registration is an unconditional insert inside the spawned task: a task spawned for an earlier attempt that starts late replaces the live attempt's token. server/src/worker.rs:66 says "Keyed by attempt so an overlapping re-claim (after a reset/reap) doesn't clobber or get clobbered by this task's registry entry". |
| `MCWorkerPoolRefuted` | `PoisonMeansFailures` | `server/src/worker.rs:505` | The hand-out is counted at every claim; an attempt that parks or is suspended keeps the row and its count, so a checkpoint is declared poisoned without a failure. server/src/worker.rs:503 says "a completing attempt clears the row, so the counter only ever reaches `max` through repeated failures". |
| `MCWorkerPoolRefuted` | `DrainStrandsNothing` | `core/src/storage.rs:1847` | The sweep of the drain stops at RECOVERY_SWEEP_LIMIT rows, after RECOVERY_SWEEP_BUDGET or at the first error, which worker.rs:319 only logs; the rest of the rows stays running when the process exits, until the next boot or the reaper. docs/features/runtime.md:35 says "whatever is still `running` at the deadline goes through the recovery verdict below [...] instead of being stranded". |
| `MCWorkerPoolRefuted` | `LiveCheckpointKept` | `server/src/worker.rs:2721` | finalize reads the row and clears the checkpoint in a second, unfenced statement; a retry and claim in between lose the live attempt's checkpoint. server/src/worker.rs:2718 says "A terminal job's checkpoint can never be resumed from again [...] drop it so the checkpoints table only holds live, resumable work". |
| `MCExecutorPlaneRefuted` | `FinishLandsOnItsAttempt` | `server/src/routes/executors.rs:410` | executor_finish checks the ownership of the attempt the body names, then reads the row again and finishes the attempt it finds there: a re-claim between the two is finished with the old attempt's result. server/src/routes/executors.rs:33 says "the late `finish` from the process everyone thought was dead matches no row and is refused with a `409` instead of overwriting a run that has already moved on". |
| `MCExecutorPlaneRefuted` | `CapRespected` | `server/src/routes/executors.rs:200` | The counts are read in one statement and the claim is another, so executors polling at the same time are all let in under the cap. server/src/routes/executors.rs:198 says "Cluster-wide caps, from the DB. The worker's in-memory map counts one process's jobs; with N executors it admitted N x the configured cap". |
| `MCExecutorPlaneRefuted` | `LocalRunsExcluded` | `core/src/storage.rs:1058` | claim_next does not clear executor_id, so a job re-queued after an executor's attempt and claimed locally still counts as running on executors. core/src/storage.rs:1055 says "Locally-claimed jobs (`executor_id IS NULL`) are deliberately excluded". |
| `MCWorkflowRefuted` | `EnvelopeKept` | `server/src/workflow.rs:944` | Every step readied in one round is given the envelope less what the run had spent when the round began, so parallel steps may together spend a multiple of it. server/src/workflow.rs:676 says "the sum of what the steps may spend can never exceed the run budget no matter how the spec was written". |
| `MCWorkflowRefuted` | `SkippedNeverRan` | `core/src/storage.rs:6174` | The cascade closes a step with finish_workflow_step, whose guard also accepts 'queued': a step another activation has claimed and enqueued since the rows were read is recorded as skipped while its job runs. docs/features/workflows.md:55 says fail_fast "skips **every** unstarted step", and the reason stored at server/src/workflow.rs:464 reads "so this step never started". |
| `MCWorkflowRefuted` | `EndedJobClosesStep` | `server/src/routes/jobs.rs:631` | cancel_job cancels a queued step job in place, and the worker's cancel arm returns without finalize: neither calls the hook, and the step, with its run, stays open. server/src/workflow.rs:15 says finalize_with_stages is "the one point every terminal path reaches, including the reaper's, the cancel door's and the shutdown drain's". |
| `MCWorkflowRefuted` | `EndedJobClosesStep` | `server/src/main.rs:304` | The boot sweep fails an exhausted step job without finalize, and a crash between a job's verdict and its hook is never made up for: no later event belongs to that step. docs/features/workflows.md:110 says "a boot needs no recovery beyond the next terminal event re-evaluating the barrier". |
| `MCWorkflowRefuted` | `EndedJobClosesStep` | `server/src/workflow.rs:981` | The job is claimable as soon as it is inserted, before set_workflow_step_job records it: a job that ends first is looked up in vain and its step is never closed. docs/features/workflows.md:88 says "A step job ends. `finalize_with_stages` calls `workflow::on_step_terminal`, which lands that cell's outcome". |
| `MCWorkflowRefuted` | `CancelLeavesNoOrphan` | `server/src/workflow.rs:992` | cancel_run works from a list of open steps and their job ids read once; a step claimed but not yet enqueued is closed without a job, and the activation then enqueues it. server/src/e2e/workflow_runs.rs:15 says "Cancel leaves no orphan. A run cancelled mid-flight closes every open step, and no queued step job survives to run afterwards". |
| `MCWorkerPoolRefuted` | `StaleWriteFenced` | `server/src/worker.rs:963` | The suspend arm calls reset, guarded on status alone, so a task whose attempt was superseded re-queues the row another attempt is running. docs/features/runtime.md:23 says "an orphaned task's late `complete`/`fail` matches no row and is discarded - the re-claimed attempt owns the outcome". |
| `MCDeliveriesRefuted` | `CrashLoopEnds` | `core/src/storage.rs:3290` | The cap is tested only where an outcome is recorded (fail_delivery); a row whose sender dies before that is reclaimed and claimed again at any retry_count. core/src/storage.rs:3279 says "a crash-looping row still reaches `dead` after the usual number of retries instead of cycling forever". |
| `MCDeliveriesRefuted` | `OnlyOrphansReclaimed` | `server/src/webhook.rs:899` | updated_at is written when the row is claimed, and the wait for a pool permit has no bound: a delivery queued longer than STALE_PENDING_SECS is reclaimed and gets a second sender. server/src/webhook.rs:895 says "only one that no longer has a sender is reclaimed". |
| `MCEventPlaneRefuted` | `NeverSkipped` | `server/src/events.rs:333` | Two flushers take consecutive batches and may append them in the other order; a cursor that reads the later batch first passes the earlier one. core/src/storage.rs:2528 says "an event is never skipped by an out-of-order write". |
| `MCEventPlaneRefuted` | `EveryLossStated` | `server/src/events.rs:340` | persist_pending empties the queue and awaits append_events; GET /events/log and a resuming stream await it inside the request, and a client that hangs up there drops the future with the batch: it is neither written, nor given back, nor counted. server/src/events.rs:28 says "a stated loss, not unbounded RSS and a silent one", and server/src/events.rs:325 "an event that could not be written is still owed". |
| `MCEventPlaneRefuted` | `NeverSkipped` | `server/src/state.rs:428` | The counter is reseeded from MAX(seq) of the log: numbers of events lost with the process are given out again, and a subscription created `from now` before the crash has a cursor past them. core/src/storage.rs:2527 says "two concurrent drains, or a drain racing a restart, can only ever move the cursor forward, so an event is never skipped". |
| `MCEventStreamRefuted` | `NoSilentGap` | `server/src/routes/events.rs:240` | The replay from the log checks only its first row for a gap; events the pending queue shed in the middle are passed over without a reset. server/src/routes/events.rs:38 says clients "recover the same way instead of dropping events silently". |
| `MCEventStreamRefuted` | `NoSilentGap` | `server/src/routes/events.rs:197` | A client's Last-Event-ID above the reseeded counter is taken as up to date, and the events that reuse those numbers are filtered as already seen. server/src/routes/events.rs:34 says "Every event carries a monotonic id". |
| `MCSchedulerRefuted` | `HeldFiringRuns` | `server/src/scheduler.rs:522` | Under the skip policy the held firing is older than last_pass at the next pass and is eaten as missed before the guard is asked again. server/src/scheduler.rs:521 says "the missed firing stays due and fires on the first tick after it finishes". |
| `MCTransactionsRefuted` | `SubmitsAtMostOnce` | `apps/transact/src/lib.rs:365` | Artifacts are written between the click and mark_submitted; an error or a crash there fails the attempt, whose retry finds the row still approved and clicks again. apps/transact/src/lib.rs:128 says a key "submits at most once - ever". |
| `MCTransactionsRefuted` | `QuoteIsWhatRuns` | `core/src/transactions.rs:395` | The quote is compared with the row as it was read and mark_approved tests the state alone: a re-stage in between is approved under the old quote. server/src/routes/transactions.rs:64 says quoting keeps a re-stage from releasing "an action against a bundle nobody looked at". |
| `MCTransactionsRefuted` | `CapKept` | `server/src/routes/transactions.rs:174` | The cap counts submitted rows at approval: approvals that have not submitted yet are not counted. core/src/config.rs:3406 says "Max transactions ONE profile may submit per rolling 24 hours". |
| `MCTransactionsRefuted` | `NoParkedOrphan` | `server/src/routes/transactions.rs:265` | The job cancelled is the one the row named when it was read; a job that staged the same key before or since stays parked. server/src/routes/transactions.rs:264 says "leaving it parked would hold its schedule slot forever". |
| `MCCrawlRefuted` | `InFlightRefetched` | `core/src/crawl.rs:1471` | A fetch in flight is in the saved queue and in the saved per-host count; on resume a host at its budget dumps it. core/src/crawl.rs:1463 says merging them "makes the resume idempotent: they are re-fetched". |
| `MCCrawlRefuted` | `CoverageHonest` | `apps/crawl/src/lib.rs:205` | Both truncation counters start at zero in every attempt, so a resumed crawl reports complete coverage of URLs an earlier attempt dumped. apps/crawl/src/lib.rs:195 says it tells "Whether this crawl saw the entire graph it discovered". |
| `MCCrawlRefuted` | `PrintsBounded` | `core/src/crawl.rs:1208` | `kept` starts at zero in every attempt while the restored fingerprints stay. docs/features/crawling.md:27 says "one per kept page, <= `max_pages`". |
| `MCNodeRefuted` | `QueuedPeersBackOff` | `core/src/governor.rs:200` | penalize moves next_slot only; a caller that already holds a slot sleeps until that slot and sends. core/src/governor.rs:177-178 says "the host's next slot is pushed out so already-queued peers back off too". |
| `MCNodeRefuted` | `EvictsOnlyIdle` | `core/src/governor.rs:311` | The sweep looks at last_seen and penalty and not at next_slot, so a host whose claimed slots reach further than IDLE_TTL ahead is forgotten while callers wait for them. core/src/governor.rs:295 calls it "idle-host eviction". |
| `MCNodeRefuted` | `PenaltySurvivesRestart` | `server/src/state.rs:470` | A load_penalties that fails is a warning: the process comes up without the penalties the table holds, and its first write-behind pass zeroes them there as well. server/src/state.rs:461 says "so politeness survives a restart". |
| `MCNodeRefuted` | `PenaltyCapped` | `core/src/governor.rs:256` | An import stores its penalty capped at 60 s only and restore_penalty applies no cap, so with penalty_cap_secs below that the boot exceeds it. core/src/config.rs:1855 says "Hard cap on the learned penalty." |

Two smaller observations made while translating, which no configuration is about:
`docs/features/crawling.md:15` says "the per-host page count is not persisted, so the
budget restarts on resume", while the checkpoint persists it (`HostBudgetKept` rests on that); and
the trim of a requeued batch in `events.rs` counts what it sheds as dropped but not in
`lifecycle_dropped`, whatever kind it was.

## 6. Not modelled

* Clocks, priorities and aging of the claim: which of the claimable jobs a claim picks
  is a free choice, so the models allow more than the code does. The backoff ladder of
  `requeue_after`: a delay is "not yet due" for an arbitrary time.
* JobQueue: idempotent enqueue, batch order, pruning of old rows.
* WorkerPool: `fail` is one step here (its halves are JobQueue's subject); the reaper
  is JobQueue's, ExecutorPlane's and Transactions'; several server processes on one
  database.
* ExecutorPlane: progress snapshots, the list of executors, authorization.
* Workflow: templating, a step's own budget cap, replay by idempotency key, scheduled
  runs, retry of a step job through its door. The drain's sweep does to a step job what
  `CrashAndBoot` does.
* Deliveries: payloads, signatures, sink resolution, the digest gate.
* Event plane: the per-job stream's filter, `last_error`, disabling a subscription.
* Scheduler: cron parsing, time zones, catalogue reconciliation, the pass heartbeat.
* Transactions: several profiles, `submit: false`, the contents of an evidence bundle.
  Heartbeats and clocks are the freedom of `Reap` and `ParkExpires`, the token registry the
  freedom of `AttemptStops`; both are told apart in JobQueue and WorkerPool. `fail` is one
  step. Stops and reaps of an attempt at work count against `FaultBound`, a reap of a row
  nobody holds does not.
* Crawl: URL filters and sitemaps, canonicalisation, the reset of a poisoned checkpoint.
* Governor: the disabled governor; jitter is an arbitrary delay after the slot.
* Everything marked `not_modelled` in PROJECT.json, with its reason. Most of the
  repository by lines is the scrape apps (one parser per public source), the dataset and
  search layers, configuration, browser and network engines and read-only routes: data
  transformations and I/O without a protocol of their own, which TLC has nothing to say
  about at their level of detail.

Out of the prover's reach, here and later: liveness under fairness, ENABLED, recursive
operators, and the library's induction theorems (Crawl's folds do without them, section 4).

## 7. Plan

All modules of the plan are written, and their safety properties are theorems. What is
left:

1. The fault of two flushers that append out of order is counted (`late`) and excluded from
   `NoDurableSkip`; a bound on how many events a pass can meet late would say more.
2. Components marked `not_modelled`, first the reactive triggers and the cost governor,
   which share the job queue's claims.
