# TLA+ verification of CarbonShift

CarbonShift accepts deferrable requests with a deadline, lets a batch solver choose for each a
time slot and a model flavour that keep carbon cost low within a QoS error budget, hands the
request to an executor when its slot comes, and forwards the executor's result to the caller.
In emulation mode a *provider* service owns the slot clock and closes a slot only when all work
of it is finished.

The repository also has an offline side: a generator that replays a scenario through the same
scheduler on a virtual clock, and the N-shift benchmark that compares the scheduler with
whole-scenario strategies and reports tables.

This directory holds TLA+ models of these parts, TLC configurations that check them on small
instances, and TLAPS proofs of the main invariants for every instance. `PROJECT.json` lists
components, runs, mutants, the definition-to-source map, hazards, findings and theorems.

## 1. Inventory

| Component | State | Operations | Interacts with |
|---|---|---|---|
| `SharedState` (`rust/src/engine/shared_state.rs`) | pending queue, assignments, current slot, virtual clock, flush request, tier ladder and revision, rollback counters, error sums | `add_request`, `claim_…_for_profile`, `requeue_…_front`, `try_add_assignments_checked`, `request/clear_pending_flush`, `replace_capacity_tiers`, `correct_assignment_*` | everything; one mutex, one RwLock, atomics |
| Main loop (`engine/scheduler.rs`) | locals read at different times in an iteration; `SchedulerMutableState` | read counts, tick, choose a pass, dispatch, clear flush | spawns batch workers |
| Batch workers (`engine/scheduler.rs`, `scheduler/solve.rs`) | claimed batch, snapshot, consecutive rollbacks | solve, commit or roll back, requeue, release | commit into `SharedState` under the tier read guard |
| Service handlers (`service/handlers.rs`) | tracked requests, `closed_through_slot` | submit, callback, close-slot, advance-slot, set tiers | the engine, the dispatcher, the executor |
| Dispatcher (`service/dispatcher.rs`) | due list of a tick | tick, dispatch, record failure, back off | executor over HTTP |
| Executor (`services/executor/app`) | jobs by id, slot queue, clock | submit, run one job, post callback, advance | service callback |
| Provider (`services/provider/app`) | slot clock, desync latch | announce, close, rollover, fan out with retries | service, executor, clients |
| Client (`services/client/app`) | plans, processed slots, tracker | tick, send batch, callback, sweep timeouts | service, provider |
| DP solver (`engine/dp_solver.rs`, `scheduler/solve.rs`) | layers of states, warm-start solution | expand, prune, time out, filter, greedy fallback | called by batch workers |
| Swarm solvers (`engine/online_swarm.rs`, `online_swarmerge.rs`) | a learned state per profile | solve in place, or on a clone and merge its delta; discard on a new ladder | called by swarm workers under the scheduler mutex |
| Error accounts (`engine/shared_state.rs`) | running error sum per profile and for the fleet | record at commit, correct at callback, averages for the hard constraint | solver workers, callback handler |
| Generator and scenario (`sim/`) | last processed slot | emit a slot in chunks, wait for the drain | queue, virtual clock |
| N-shift (`bin/nshift`) | run, logs, tables | run a strategy, stop, schedule the rest late, recompute costs, windows, summary | starts generator and scheduler |
| Recovery (`scheduler/recovery.rs`), QoS registry (`service/state.rs`) | mock pools, profiles | see `PROJECT.json` | called by workers or handlers |

What is hard here: the main loop acts on values it read before other threads ran; workers solve
on a snapshot and commit later; admission races the close barrier; the submit poll, the
dispatcher and the callback handler write one status; HTTP answers get lost after the peer
acted; the executor keeps its idempotency keys in memory; slots end at a finite horizon.

What makes the parts correct:

* engine: nothing accepted is lost, doubled or overtaken within its profile; one batch per
  profile, at most the configured workers; no unforced commit above the priced tier; every
  rollback is somebody else's progress; accepted work is eventually assigned;
* barrier: an acknowledged slot is complete, and stays complete and sealed;
* lifecycle: a job runs once per executor life, a caller hears once, a reported result is
  final, attempts are bounded, every request ends;
* solvers: the search is exact unless pruned or cut off, and then never worse than the sequential
  solution; learning counts each committed batch once and no rejected one;
* error accounts: the sums say what the assignments say, each request counted once; a profile
  overspends by at most one batch;
* offline runs: every slot is emitted, every request is reported once, bills follow from placements.

## 2. Modules

| Module | Role |
|---|---|
| `BatchScheduler` | `SharedState`, main loop, batch workers, admission, close-slot's engine side, slot advance, tier replacement, shutdown |
| `FifoService` | what the engine promises its callers; `BatchScheduler` implements it |
| `RequestLifecycle` | tracked requests, submit poll, dispatcher, executor queue, callback, full close barrier |
| `QosLedger` | error accounts and measured results |
| `DpSolver` | the layered search and the pipeline around it |
| `SwarmSolver`, `SwarmWorkers` | bandit and ant colony as operators; the workers that share and train their state |
| `SimulationRun` | generator, main loop with the virtual clock, batch worker and runner of one offline run |
| `OfflineStrategies`, `RunReport`, `NshiftStudy` | whole-scenario strategies; from logs to tables; the benchmark that composes both |
| `BatchScheduler_proofs` | theorems about the engine, in four parts: queue and barrier; plans and the service implemented; clocks and windows; tiers and rollbacks |
| `RequestLifecycle_proofs`, `QosLedger_proofs`, `SimulationRun_proofs`, `DpSolver_proofs`, `SwarmWorkers_proofs`, `NshiftStudy_proofs` | theorems about the modules they are named after; the last also about `OfflineStrategies` and `RunReport` |
| `FoldLemmas` | lemmas on sums over finite sets, folds over sequences, extremes and ranks |
| `MC*` | instances for TLC |

Operators whose comment starts with *Mutant* are plausible wrong versions of the definition that
follows them. No specification uses them; `PROJECT.json` names the property each one breaks.

### BatchScheduler

A step is one critical section or one atomic access. `main_loop` is cut at each of its shared
reads: pending count, active workers, clock, `set_current_slot`, flush flag, choice of the pass,
one turn of `dispatch_batch_workers` at a time, the two reads of
`has_retryable_profile_pending`, and the end of the iteration where the flush is withdrawn. Its
locals are the record `loop`. A worker is a record `thread[w]` that goes through `start` (tier guard taken),
`solve`, `commit`, `mark`, `release`; a rollback returns it to `solve`.

Correspondence and abstractions:

* `pending` is kept per profile. The code has one queue and claims a profile's first requests
  from it; the order between profiles is never observed.
* A solve returns *any* placement that `prepare_solve`'s windows allow and that covers the whole
  batch (`Placements`), because which one is cheapest depends on floating-point costs. It is
  infeasible exactly when some request has an empty window: the greedy fallback places anything
  else, ignoring the error budget by design.
* `storedDeadline` is the deadline kept with an assignment. For a re-planned request it is the
  capped one, so it shrinks from re-plan to re-plan, as in the code.
* Wall time may gain several slots in one iteration (`LoopReadClock`), as it does after a slow one.
* Tier multipliers are naturals; only their order matters to the commit check.
* `seenRevision` stands for "the online learning state was discarded for this ladder".
* The provider calls close-slot, and advance-slot after a successful close, one at a time
  (`_advance_lock` in `provider/app/main.py`). `advance_to_next_slot` is two steps, so the main
  loop can store an old slot between them. Its final wait for the queue changes no state.
* Engine-side `close_slot` acknowledges on the `unscheduled` count alone: an over-approximation,
  since the code also waits for callbacks. `RequestLifecycle` has the complete condition.
* `dispatch_batch_workers`' re-check of a queue that shrank between count and claim is dead:
  only the loop thread claims. It is not modelled.
* `accepted`, `committed`, `acked` are history variables.

Not in this module: `skip_empty_slots` (see `SimulationRun`), swarm strategies (`SwarmWorkers`),
statistics other than batches and rollbacks.

`ImplementsFifoService` maps `committed` to the served order and `assigned` to the placements:
every step of the engine is a stutter, an acceptance, or the service of the profile's next batch
as a whole. A commit may move earlier work of its own profile and nothing else.

### RequestLifecycle

The engine is reduced to `EngineCommit`: some slot of the request's window, never moved again
(locked future assignments, the default). `entry[r]` holds status, the claim
(`executor_callback_received`), failed attempts, and whether the backoff gate is closed. A dispatch
is `DispatchSend` (the executor takes the job or not, and the answer arrives or not) followed by
`DispatchOk` or `DispatchError`; anything may happen in between, the job's callback included. The
executor's `job` map is both its queue and its idempotency keys, lost by `ExecutorRestart`.
`executor_callback` is claim, then, with the mutex released, correction, then final status and
notification. The close poll copies the assignments (`closing.seen`) before it locks the table.

Abstractions: an executor is configured (no dry run); the executor's own clock is left open, so
a job handed over may start at any time; the caller's notification is counted when it is sent,
not when it arrives; a dispatch tick reads slot, assignments and table together; the error branch of
`execute_at_for_slot` is left out, since assigned slots lie in the horizon and no configured
slot length overflows the clock.

### QosLedger

Commits add a request's predicted error to two running sums; a callback takes five steps
(claim, correct the error, read the cost, scale the cost, store the result), each under its own
lock, and may be delivered twice. A worker's flavours come from the averages at its snapshot.
`policy` is chosen in `Init` so that one run covers locked and movable assignments. Costs only
count how often they were scaled.

### DpSolver

A solve is one behaviour: sequential (warm) solution, then per layer expand, prune and time
limit, then the threshold filter and `solve_dp`'s coverage by search, greedy fallback or requeue.
A state keeps every cheapest path to its key, since ties are broken by a hash map. Weighted
counts are in thousandths, as the code's keys have them. The reference definition is `AllPlans`:
all complete plans, priced afresh.

### SwarmSolver and SwarmWorkers

Random draws are nondeterministic, estimates are sums and counts (an average is compared by cross
multiplication), pheromone is the list of its deposits. The serialized worker trains in place
before it commits; the merge worker trains a clone and merges after. What a solve may return is
the set of states reached by folding the batch, one request at a time, from a set with one state.
The error of a slot is a sum and a number, as the code's weighted averages are. `lessons` is a
history variable against which the learned states are compared.

### SimulationRun

Four threads, each read of shared state a step. A turn of the main loop takes 0, 1 or 3 ticks of
wall time, slots have two. Limits of 60 s and 5 s strike only in the configurations that say so.

### OfflineStrategies, RunReport and NshiftStudy

One strategy is run per behaviour. In `OfflineStrategies` a step places one request; an ant is a
pass with its own books.

`RunReport` is `run_single_n` with the batch worker. The worker claims, commits, appends the run's
row, appends one row per assignment and gives its place back, each a step of its own. Its record
`hand` keeps its stage, its batch, the slot of the claim and the rows not yet logged. The runner
stops, reads the runs file, reads the assignments file and reports, again each a step. `Stop` does
not wait: it stands both for a worker found idle and for five seconds that ran out, and `left`
notes the batch still in the worker's hands. The worker goes on after it, between the reads too.
The run ends with the report, since nothing logged later is read (the files are deleted).

Two kinds of run are told apart by `strategy`. `"online"` is DP and greedy of the batch-size
sweep: a request goes to a slot between its claim and its capped deadline, and unlocked
assignments may move. `"online_swarm"` is bandit and colony: `valid_slots` starts at the arrival
and ignores the clock, so a slot *before* the claim is possible, and nothing moves. Which slot is
chosen is left open; that there is one, and that a batch is planned as a whole, is what `dp`,
`swarm` and the engine's runs show. Merge mode trains after its commit and before its log, which
no table sees.

`NshiftStudy` runs the batch scheduler or a whole-scenario strategy and converts the result to
tables, as `main` does.

## 3. Runs

| Run | Property | Bounds and why they suffice |
|---|---|---|
| `contention` | `RevisionCurrent`, `RollbacksPaidFor`, `PricedTierHonoured` | three profiles with one request each, one slot, two workers, a tier limit of one, one ladder replacement: two batches collide, one is refused, and the third meets both |
| `barrier` | `TypeOK`, `ReservationsMatch`, `FifoConservation`, `WindowRespected`, `AckedSlotComplete`, `AckedSlotSealed`, `ImplementsFifoService` | two profiles, three requests, one of them early for the next slot (so a batch can be infeasible and be requeued), two slots, window 0, two workers, manual clock |
| `liveness` | `EventuallyAssigned`, `ReplanKeepsOnTime` | two profiles sharing one worker, so a flush always leaves work behind; timeouts on; future assignments unlocked, so the second batch of a profile re-plans the first. With two slots a request is re-planned for one shrunk deadline at most; `ReplanSafe` proves it for longer chains |
| `close_drains` | `CloseDrains` (violated) | one profile, two requests, batch size two |
| `lifecycle_barrier` | `TypeOK`, `AttemptsBounded`, `ExecutedOnce`, `ForwardedOnce`, `AckedWorkFinished`, `CallbackIsFinal` | two requests, one of which may move to the second slot, two retries, lost answers and callbacks, one restart of the executor |
| `lifecycle_liveness` | `EventuallyTerminal` | two requests in a slot each, two retries, no lost callback |
| `status` | `DispatchedStaysDispatched` (violated) | one request |
| `qos` | `TypeOK`, `LedgerBalanced`, `OverspendOneBatch`, `MeasuredOnce` | three requests of two profiles, two workers, two deliveries, errors on both sides of the threshold, batches of two locked and of one movable |
| `dp` | `Optimal`, `SearchSound`, `RecordedPrices`, `OnlyStuckBatchesReturn` | every batch of up to two requests of three kinds and of three of two kinds (exact), up to three of three kinds (pruned, with time limit), histories that are empty, spent and diluted by mocks: the smallest in which a layer has more states than `k` and merging matters |
| `swarm` | `SerializedNeverRollsBack`, `OneCostCurve`, `TrainedOnCommitted`, `BudgetKeptOrFallback`, `NoUnseenTier` | four requests of two profiles in two slots, batches of two, one ladder replacement, one rollback before a commit is forced |
| `simulation` | `ScenarioReplayed`, `NumbersAlways100`, `RunEnds` | three slots, up to five requests, an empty slot, a straggler in the last, turns that sleep through a slot |
| `study` | `BilledByOccupancy`, `ErrorBudgetKept`, `LeastFoundKept`, `TablesComplete`, `TablesTruthful` | every scenario of three requests (five for greedy, which needs three in a slot to pass two tier limits), two ants in two iterations. Batch runs of three requests, batches of two: with DP or greedy and moves, and with bandit or colony; deadlines at the arrival, past the horizon and before the arrival; a stop in every stage of the worker, with and without pending requests, and worker steps between the two reads |

`SearchSound`, `ScenarioReplayed`, `LeastFoundKept`, `TablesComplete` and `TablesTruthful` are
conjunctions of named parts. The type invariants of `DpSolver`, `SimulationRun`, `NshiftStudy` and
`SwarmWorkers` are parts of `SearchSound`, `ScenarioReplayed`, `TablesComplete` and
`SerializedNeverRollsBack`.

Deadlock checking is off because every instance ends: requests, slots, replacements and restarts
are finite and the service may be stopped. `MaxReplacements`, `MaxRestarts`, `MaxElapsed` and
`MaxRuns` are the only bounds that do not stand for a setting of the program.

### Fairness

`BatchScheduler!FairSpec`: weak fairness of the loop thread and of each worker (the operating
system schedules threads, and every wait is a sleep or a short critical section), and strong fairness of the
clock tick, which is a read of wall time by a loop that keeps running. No fairness for callers,
operators, the provider or shutdown. Weak fairness of `LoopStep` as a whole suffices because at most one
of its disjuncts is enabled at a time, apart from the tick's own choice.

`RequestLifecycle!FairSpec`: weak fairness of the engine, the submit handlers, backoff timers,
callback handlers, dispatcher, executor worker thread and clock. `CallbackLost` and restarts are
excluded from the liveness run by its constants: the code never resends a callback, so without
that the property is false by design.

`SimulationRun!FairSpec`: weak fairness of the four threads, strong fairness of a tick that gains
time: the wall clock does not stop, but single turns may be too short to be seen. `RunEnds` is
stated for batches of one, since a partial batch may wait for ever (section 4).

## 4. Findings

* **A flush can be lost** (`close_drains`). `main_loop` reads `pending_count` and
  `active_workers` (scheduler.rs:318-319), then the flush flag (373), and withdraws the flush if
  the *old* counts were zero (477). A request admitted and a flush requested between those reads
  lose the flush: under the manual clock the partial batch waits, and close-slot polls until its 120 s
  timeout. The close has to be repeated to make progress. The comments say the flush cleared is a "completed" one
  (shared_state.rs:390) and that close-slot "polls until the slot is drained"
  (handlers.rs:739-740).
* **Scheduled overwrites Dispatched** (`status`). The submit poll reads the assignment, the
  dispatcher sends the request and marks it `Dispatched`, then the poll writes `Scheduled`
  (handlers.rs:1504-1508). The dispatcher sends it again; only the executor's idempotency key
  prevents a second run (`ExecutedOnce`). The same write can revive a request the dispatcher had
  given up, which is why `AttemptsBounded` allows one attempt more than `executor_max_retries`.

Other places where comments and code disagree, met while modelling. The properties state what the
code does guarantee; no run is kept for these.

* Offline clock: the skip of an empty slot uses counts read before the generator queued the slot's
  requests (scheduler.rs:454, comment 332-333 and 462-464); a partial batch that arrives after its
  slot's flush holds the clock and is not flushed again (403, comments 334-338 and 582-583); the
  age that triggers a timeout flush subtracts Unix time from virtual time and is always zero
  (shared_state.rs:485 with types.rs:43; config.rs:35).
* End of a run: idle workers are read before the pending count (nshift/main.rs:1712, comment
  1708-1709); `stop` gives up after 5 s, and a batch not yet in the log is then in no table
  (scheduler.rs:238; "always 100%", nshift/main.rs:1793-1795). `NumbersAlways100` and
  `TablesComplete` allow that one batch, and nothing else, to be missing. If its rows are logged
  between the two reads they carry batch number 0, as drained requests do (main.rs:494).
* Lateness in the tables: baseline, bandit and colony write 0 without looking (main.rs:803, 1078),
  which is false for a deadline before the arrival; a drained request reports its distance from
  the last slot, not from the slot it is shown in (1584-1587). `LatenessTold` says exactly that.
* Online bandit and colony may choose a slot before the one they were claimed in
  (online_swarm.rs:77), so the reported queue wait may exceed the final wait (main.rs:500-501).
  What `LateOnlyWhenClaimedLate` says of them is therefore stated about the arrival.
* DP solver: a pruned search may return nothing although a plan exists (dp_solver.rs:442, comment
  216-217); the fallback ignores the slots held by requests planned again (solve.rs:514, comments
  368-369 and dp_solver.rs:784-787).
* Swarm workers: two batches solved on one snapshot pay for the same position within a tier
  (shared_state.rs:856; handlers.rs:250-252). `NoUnseenTier` is about tiers for that reason.
* Error accounts: re-planning leaves the old error in the sums, and the callback then corrects
  from the new one (shared_state.rs:714 and 195-224, comment 705-707); a measured error can be
  overwritten by a re-plan (223, comment 702-704). The sums of `LedgerBalanced` and
  `MeasuredOnce` are therefore stated for locked assignments, the default; the counts hold for both.
* Offline strategies: greedy cheapest checks the global error only after adding a request
  (nshift/main.rs:905, comment 844) and centres its window on the arrival (941, comment 845); the
  bandit falls back in the slot it chose though another had a feasible flavour
  (nshift/swarm.rs:230, comment 16-18), and untried slots look worst with the configured initial
  value (206, comment 136).
* Tables: a request moved by a later batch keeps the slot and flavour of its first row
  (nshift/main.rs:741, comment 707-709); drained requests are priced only among themselves (1577,
  comment 702-704).
* Recovery: `solve.rs:608-615` and `857-864` pass the solve mode where `consume_mock_pool`
  compares a recovery mode, so the pool is never consumed.

## 5. Proofs

All theorems hold for any number of requests, profiles, slots and workers, under the `ASSUME`s of
the modules: positive sizes, arrival not after deadline inside the horizon (`submit_request`
ensures both), a finite set of requests, well-typed ladders, scenarios whose requests are
distinct, flavour lists that are not empty. Three theorems need more and say so in their statement:

* `PricedAsSolved` takes every ladder to be ascending. `force_set_capacity_tiers` refuses any other
  (handlers.rs:274); the ladder the service starts with is not validated.
* `SealedWhenLocked` takes future assignments to be locked. Without that a re-plan may move a
  request out of an acknowledged slot, and TLC refutes `AckedSlotSealed`.
* `LeastKept` takes the ladder of the benchmark to be ascending, for greedy cheapest: where a later
  position is cheaper, a slot passed over may undercut the one chosen afterwards.

| Theorem | States | Inductive invariant |
|---|---|---|
| `BatchScheduler_proofs!TypeCorrect` | `TypeOK` | itself |
| `…!Reservations` | `ReservationsMatch` | with `TypeOK` |
| `…!Fifo` | `FifoConservation` | with `ReservationsMatch` |
| `…!Revision` | `RevisionCurrent` | with `TypeOK` |
| `…!CloseBarrier` | `AckedSlotComplete` | `BarrierInv` |
| `…!PlansSound` | `PlacementInv` | with `Fifo`, `AcceptedInv` |
| `…!Refinement` | `ImplementsFifoService` | step by step, from the above |
| `…!InsideWindow` | `WindowRespected` | `ClockInv`, `TimelyInv` |
| `…!ReplanSafe` | `ReplanKeepsOnTime` | the same |
| `…!SealedWhenLocked` | `AckedSlotSealed` | `BarrierInv`, `ClockInv`, `PlacementInv` |
| `…!PricedAsSolved` | `PricedTierHonoured` | with `TypeOK` |
| `…!RollbacksPaid` | `RollbacksPaidFor` | `PaidInv`, with `PlacementInv` |
| `RequestLifecycle_proofs!TypeCorrect` | `TypeOK` | itself |
| `…!NotifiedOnce` | `ForwardedOnce` | `ClaimInv` |
| `…!ResultIsFinal` | `CallbackIsFinal` | `ClaimInv` |
| `…!ClosedSlotFinished` | `AckedWorkFinished` | `BarrierInv` |
| `…!RunOnce` | `ExecutedOnce` | `RunsInv` |
| `…!RetriesBounded` | `AttemptsBounded` | `RetryInv` |
| `QosLedger_proofs!TypeCorrect` | `TypeOK` | `TypeInv` |
| `…!MeasuredExactlyOnce` | `MeasuredOnce` | `MeasuredInv` |
| `…!AccountsBalanced` | `LedgerBalanced` | `BalancedInv` |
| `…!OverspendBounded` | `OverspendOneBatch` | `OverspendInv` |
| `SimulationRun_proofs!Replayed` | `ScenarioReplayed` | `RunInv` |
| `…!Complete` | `NumbersAlways100` | `RunInv` |
| `DpSolver_proofs!Invariance` | `Inv` | itself |
| `…!SearchIsSound` | `SearchSound` | `Inv` |
| `…!ExactWithoutPruning` | `Optimal` | `Inv` |
| `…!PricesRecorded` | `RecordedPrices` | `Inv` |
| `…!ReturnsOnlyStuck` | `OnlyStuckBatchesReturn` | `Inv` |
| `SwarmWorkers_proofs!Invariance` | `Inv` | itself |
| `…!SerializedRollbackFree` | `SerializedNeverRollsBack` | `Inv` |
| `…!CostsOfOneCurve` | `OneCostCurve` | `Inv` |
| `…!BudgetsKept` | `BudgetKeptOrFallback` | `Inv` |
| `…!TrainsOnCommitted` | `TrainedOnCommitted` | `Inv` |
| `…!TiersSeen` | `NoUnseenTier` | `Inv` |
| `NshiftStudy_proofs!PassCorrect` | `PassInv` | itself |
| `…!OccupancyBills` | `BilledByOccupancy` | `PassInv`, `BilledInv` |
| `…!NothingPlannedLate` | `NothingLate` | `PassInv`, `TimelyInv` |
| `…!BudgetKept` | `ErrorBudgetKept` | `PassInv`, `BudgetInv` |
| `…!LeastKept` | `LeastFoundKept` | `PassInv`, `LeastInv`, `Content` |
| `…!StudyRunsStrategies` | `StudySpec => Spec` | step by step |
| `…!TablesAreComplete` | `TablesComplete` | `StudyInv` |
| `…!TablesAreTruthful` | `TablesTruthful` | `StudyInv` |

The arguments, and why the invariants are what they are:

**Engine.** The work in the types is in `cap_deadline`, whose result stays in the horizon, and in the
dispatch step, characterised once by `DispatchStep`. By `ReservationsMatch` at most one worker
holds a batch of a profile, so the profile's line can be written as *committed, held batch,
pending*: claiming splits it, requeueing and committing move the held part. A worker that passed
`start` excludes the writer of the ladder. `AckedSlotComplete` alone is not inductive, as a new
admission could break it; `BarrierInv` adds `FenceHolds`: under the manual clock the fence covers
every acknowledged slot and the slot being closed, so the admission check applies.

**Plans.** `PlacementInv` is about a plan that waits in a worker's hands while others commit: it
places exactly its batch and work that was assigned before, of its own profile, inside the windows of
its own slot, and work it moves had a slot not before the solve's. With locked future
assignments it places nothing but the batch. What other workers do meanwhile cannot spoil this, since nothing assigned is
withdrawn and no other worker has the profile. With `FifoConservation` and `AcceptedInv` (a line
holds requests of its profile, once each) a commit is then exactly one step of `FifoService`.

**Windows.** Two clocks, two arguments. Under the manual clock `ManualClocks` says that no thread's
slot is ahead of the provider and the provider at most one past the last acknowledged slot. Under
wall time slots only grow, and a worker's slot is not ahead of the clock. `TimelyInv` says of each
assignment that it is not before its arrival; under the manual clock that slot and stored deadline
are within the request's own deadline; under wall time that a stored deadline past the request's
own belongs to a request that is already late: the clock and every worker that holds a batch of
its profile are past the own deadline too. `WindowRespected` is therefore proved under the manual clock, as it is
stated, and `ReplanKeepsOnTime` in both modes: a chain of re-plans, each with a deadline shrunk by
the last, never moves a request that was on time past its own deadline. `SealedWhenLocked` needs the fence
and the clocks, not the deadlines.

**Prices.** `PricedAsSolved` is an action property of the commit check: `TierBreach` compares the
actual count of a slot with the expected one on the ladder in force. A count not above the expected
one costs no more, since the ladder ascends (`MultiplierMonotone`), and what the commit leaves in
the slot is at most the count that was compared. For `RollbacksPaidFor`, which speaks of locked
future assignments, `PaidInv` keeps an account: rollbacks so far, plus workers whose plan is
already stale, are at most (workers - 1) times (batches processed plus workers that have committed and not yet
counted it). A rollback needs a stale plan, and only another worker's commit makes a plan stale.

**Lifecycle.** `ClaimInv`: notifications sent, plus the handler between claim and finish, are at
most one, and none without a claim. `ResultIsFinal` is an action property, from `EntryStep`, which
sums up how every action may change an entry. `BarrierInv` adds that what the poll copied is
still true and that fence and clock never fall behind an acknowledgement: a commit after it
concerns a request that arrived after the slot. `RunsInv`: a job that is not yet running has not
run in this life of the executor, so `ExecutedOnce` is per life, as the keys are in memory.
`RetryInv`: a request whose attempts are spent is out of the dispatcher's hands until the submit
poll's late mark revives it, and that mark is made once.

**Folds.** The community modules sum over a set in an order left open by a `CHOOSE` and fold a
sequence through its index set; the library's induction theorems take operators as parameters.
`FoldLemmas` proves what is needed by induction over the *set* of the numbers a statement holds for.
For sums: of a larger set, of a changed or shifted function, by groups, and bounds. For sequences:
`Left(F, base, s)`, the last value of a recursive function over the length of `s`, has the laws of
a fold (`LeftLaws`), and `IndexFoldValue` shows that `FoldLeft` of an operator that agrees with `F`
equals it. `Ranking` says how many members of a finite set precede one.

**Error accounts.**
`BalancedInv` says of each account what `LedgerBalanced` does. `OnceInv` adds to
`MeasuredOnce` where each callback is: at most one delivery works on a request (`CallsApart`), and
between its steps the assignment holds what it has read (`CallsUnderway`). `OverspendInv`: a
prepared batch either may use only flavours within the mean budget, or its profile is within
budget now; as one worker serves a profile, nobody spends in between.

**Offline run.** `RunInv` has five parts besides the types. `ClockInv`: the generator's slot is
not ahead of the clamped clock, what it has processed is one behind while it emits, and a turn
about to dispatch has the clock's slot. `PlaceInv`: the requests emitted so far are those in the
queue, in the worker's hands, solved or late, each in one of these. `SlotInv` and `LogInv` follow a
batch. `StageInv` says what each stage of the runner can rely on: once it has left phase 1 the generator
has nothing more to emit; without a limit striking the queue is empty and the worker idle at the
stages that need it. TLC showed that a first `PlaceInv` was too weak: late requests must also be
apart from the batch in hand. `SolveEffect` shows that the branch for a batch
beyond the horizon is never taken.

**DP search.** The code builds a key and a cost request by request; the reference counts whole
plans. `PlanKey` and `Bill` are the key and the cost of a whole plan, counted afresh from sets of
positions. `KeyNext` and `BillNext` show that one more request takes them exactly to what the
search computes, mock replacement, error window and tier positions included. A state is `Good` when
each of its paths has the state's key and cost in this sense. The other half of the invariant is a
bound: `Bounded` says that some state of the layer has a given plan's key at no more than its bill.
It survives expansion because equal keys have equal successors (the key omits nothing that later
choices depend on) and merging because the cheapest of a key is kept. It holds for every plan
while nothing is pruned, whence `Optimal`; it always holds for the warm path, which pruning keeps:
as a layer has one state per key (`KeysApart`), keeping the warm key keeps a state no dearer than the
warm path, whence `SearchSound`. `FoundInv` carries both through filter and time limit, `DoneInv`
says that what the coverage check returns, by search or greedy fallback, is a path, whence
`RecordedPrices`. The sequential solution and the greedy fallback are folds; `Left` replaces them by
recursions over the requests placed. `Tiers` are well typed by `SearchAssumption`: the service
refuses multipliers that are not positive (handlers.rs:265).

**Swarm workers.** `Inv` says of a worker: it is alone with its profile; it works under the ladder in
force (`Current`); its context counts no more than the log, exactly the log if batches are
serialized, and all its own profile has committed (`Reads`); its plan is priced on the ladder and keeps
positions and budgets against that context (`Plans`). `Lines` keeps requests apart, in queue, batch and log.
A serialized commit then cannot be refused, since context and log agree. `Kept` carries the
budgets of plans into the log: nobody else commits for the profile, so the window the plan was
checked against is the window it is committed into. For the learned states, `Knowledge` is what
the committed lessons teach in their order, from a fresh state. `Trained`: a profile's estimates
equal it, unless a worker is between training and commit (serialized) or between commit and merge; then
`Learns` says by which one step they differ. The merge case rests on two lemmas about the
operators, that absorbing a clone's delta is teaching its lesson, for sums and counts of the bandit as for the
deposits of the colony. A replaced ladder empties lessons and estimates together.

**Offline strategies.** `PassInv` has the shape of a pass: rows are the first requests' placements, kept
solutions are complete or absent. `BilledInv` says that the books of the pass at hand count its
rows, so that each bill is that of the position taken; a second ant's books start empty. `BudgetInv`
multiplies the averages out: the error sum is at most the budget times the number, plus one
request's excess for greedy cheapest. `LeastInv` ties the least ant found to a solution kept.
`Content` says that no row of greedy cheapest has a cheaper slot *now*; later placements only raise
prices on an ascending ladder, so it stays true.

**Benchmark.** `StudyRunsStrategies` maps every step of `NshiftStudy` to a step or stutter of
`OfflineStrategies`, so what is proved there holds of a benchmark run. `StudyInv` adds `RunInv` for
the batch scheduler's run and `TablesInv` for what is said of the tables once there are any.
`RunInv` has four parts. `WorkTypes`. `WorkPlaces`: a request is pending, in the worker's hands or
committed. `LogInv`: a committed request whose new row is not in the log is in the hands of a worker
that has the row still to append; each new row was logged as it was claimed (`Claimed`: not late
unless claimed late, and no later move has changed that). `ReadInv`: once the scheduler is stopped the
worker holds nothing but what it was left with; so a row logged after the runs were read, and a
request that is neither pending nor among the rows read, belong to that batch. `TablesComplete` follows at the
report, whichever steps the worker took between the reads. Each window's set of rows is worked out row by row from the
groups it strings together (`WindowRows`). The rows of a plan
are its requests by rank (`Ranking`), so each is logged once. Prices follow the rank among the
committed of a slot, which is the order of the rows shown there only where nothing moves.

Model-checked only: `EventuallyAssigned`, `EventuallyTerminal` and `RunEnds`. Liveness under fairness
is outside what TLAPS does here. Every safety property of a passing run is a theorem.

## 6. Not modelled

* Provider fan-out and the client (Python): only the provider's order of calls is in the models,
  close before advance, one at a time. Retried advances are a listed hazard without a property.
* Recovery mode: its pool enters `DpSolver` as the `mocks` of an input; refill is not modelled.
* QoS registry (written at start), configuration, wire types, server wiring, the metrics no table reads, visualizer,
  CSV and JSON files, the `simulate` binary's monitor, experiment drivers: no shared state of
  their own, or plain input and output.
* Executor and service clocks beyond the slot number; dry-run dispatch; status queries.

`PROJECT.json` gives the reason for each component and, under `hazards`, the risks no property covers.

## 7. Plan

Done: the engine core and the service it implements, the request lifecycle, the error accounts,
the solvers, the offline run and the benchmark; theorems for every safety property of all of them.
Left, in this order:

1. `SlotFanout`: provider clock, announce, close and rollover, peers with lost answers and retries.
2. `ClientTracker`: ticks, callbacks and timeouts of the client's plans.
3. The mock pools of the recovery mode, and the forecast update of the slot advance.

## 8. Running

    tlc -workers 2 -config MCBatchScheduler_barrier.cfg MCBatchScheduler
    tlapm BatchScheduler_proofs.tla

A module of proofs is checked on its own; the ones it EXTENDS are checked by their own call. From
nothing a module takes between one minute and about ten; `SwarmWorkers_proofs` is the longest.
