--------------------------- MODULE BatchScheduler ---------------------------
(***************************************************************************)
(* The scheduling engine of CarbonShift: the pending queue and committed    *)
(* assignments of SharedState, the main loop of BatchScheduler, the batch   *)
(* workers it spawns, and the service handlers that act on the same state   *)
(* (admission behind the close-slot fence, close-slot, slot advance,        *)
(* replacement of the capacity tiers, shutdown).                            *)
(*                                                                          *)
(* A step is one critical section of the code: what happens between the     *)
(* acquisition and the release of a mutex, or one atomic load or store.     *)
(* The main loop keeps what it read in locals while other threads run, so   *)
(* its locals are state here (variable loop).                               *)
(*                                                                          *)
(* Which slot and flavour the solver prefers is left open: a solve may      *)
(* return any placement the solver's windows allow (rust/src/engine/        *)
(* scheduler/solve.rs).  QoS profiles are numbered in the order of their    *)
(* ids, the order the round-robin cursor uses.                              *)
(***************************************************************************)
EXTENDS Integers, Sequences, FiniteSets, FiniteSetsExt, Functions

CONSTANTS
  NumProfiles,        \* QoS profiles registered with the service
  Requests,           \* request ids the service may be asked to accept
  ProfileOf,          \* Request::qos_profile_id
  ArrivalOf,          \* Request::arrival_slot
  DeadlineOf,         \* Request::deadline_slot
  TotalSlots,         \* Config::total_slots, the planning horizon
  WindowFuture,       \* AssignmentPolicy::error_window_future
  BatchSize,          \* SolverConfig::batch_size
  MaxWorkers,         \* SolverConfig::max_batch_solver_parallelism
  RollbackMax,        \* SolverConfig::rollback_max_consecutive
  LockFuture,         \* SolverConfig::dp_lock_future_assignments
  BatchTimeout,       \* batch_timeout_secs > 0
  ManualClock,        \* SimulationConfig::manual_clock
  Ladders,            \* capacity-tier ladders an operator may install
  MaxReplacements     \* bound: replacements of the ladder in one behaviour

Profiles == 1 .. NumProfiles
Slots == 0 .. TotalSlots - 1
Workers == 1 .. MaxWorkers
NoSlot == -1
NoLimit == -1          \* max_requests: None

\* A capacity tier prices every request of a slot that holds at most
\* maxRequests of them.
CapacityTier == [maxRequests : Nat \cup {NoLimit}, multiplier : Nat]

ASSUME SizeAssumption ==
  /\ NumProfiles \in Nat \ {0}
  /\ TotalSlots \in Nat \ {0}
  /\ BatchSize \in Nat \ {0}
  /\ MaxWorkers \in Nat \ {0}
  /\ WindowFuture \in Nat
  /\ RollbackMax \in Nat
  /\ MaxReplacements \in Nat

ASSUME FlagAssumption ==
  /\ LockFuture \in BOOLEAN
  /\ BatchTimeout \in BOOLEAN
  /\ ManualClock \in BOOLEAN

\* submit_request refuses a deadline before the arrival slot, and
\* deadline_slot_from_slack never goes past the horizon.
ASSUME RequestAssumption ==
  /\ IsFiniteSet(Requests)
  /\ ProfileOf \in [Requests -> Profiles]
  /\ ArrivalOf \in [Requests -> Slots]
  /\ DeadlineOf \in [Requests -> Slots]
  /\ \A r \in Requests : ArrivalOf[r] <= DeadlineOf[r]

ASSUME LadderAssumption ==
  /\ Ladders # {}
  /\ Ladders \subseteq Seq(CapacityTier)

VARIABLES
  \* SharedState
  pending,            \* [Profiles -> Seq(Requests)]: Inner::pending, by profile
  assigned,           \* [Requests -> slot or NoSlot]: Inner::assignments
  storedDeadline,     \* deadline_slot kept with the assignment
  currentSlot,        \* Inner::current_slot
  virtualSlot,        \* virtual_elapsed_ms in whole slots
  flushSlot,          \* flush_requested_slot
  tiers,              \* capacity_tiers (the RwLock's value)
  tierRevision,       \* capacity_tier_revision
  totalRollbacks,     \* Inner::total_rollbacks
  maxConsecutive,     \* Inner::max_consecutive_rollbacks_seen
  rolledBackIds,      \* Inner::rolled_back_request_ids
  \* SchedulerMutableState
  activeWorkers,      \* active_workers
  activeProfiles,     \* active_profiles
  lastInfeasible,     \* last_infeasible, <<NoSlot, 0>> where absent
  lastDispatched,     \* last_dispatched_profile, 0 for None
  seenRevision,       \* capacity_tier_revision as the workers know it
  batchesProcessed,   \* stats.batches_processed
  \* threads
  running,            \* the running flag
  loop,               \* locals of main_loop
  thread,             \* batch worker threads
  \* service handlers
  closedThrough,      \* AppState::closed_through_slot
  closing,            \* the close_slot call in progress
  advance,            \* slot advance_to_next_slot has computed, not yet stored
  providerSlot,       \* the provider's slot, numbered from the engine's slot 0
  \* history, read by properties only
  accepted,           \* per profile, requests in the order they were accepted
  committed,          \* per profile, requests in the order they were committed
  acked               \* last slot whose close_slot call succeeded

sharedVars == <<pending, assigned, storedDeadline>>
clockVars == <<currentSlot, virtualSlot>>
tierVars == <<tiers, tierRevision>>
rollbackVars == <<totalRollbacks, maxConsecutive, rolledBackIds>>
reservationVars == <<activeWorkers, activeProfiles>>
mutableVars == <<lastInfeasible, lastDispatched, seenRevision, batchesProcessed>>
serviceVars == <<closedThrough, closing, advance, providerSlot, acked>>
historyVars == <<accepted, committed>>

vars == <<sharedVars, clockVars, flushSlot, tierVars, rollbackVars,
          reservationVars, mutableVars, running, loop, thread, serviceVars,
          historyVars>>

-----------------------------------------------------------------------------
(* Locals of the threads. *)

LoopPc == {"top", "active", "clock", "slot", "flush", "choose", "dispatch",
           "counts", "backlog", "end", "stopped"}
Passes == {"none", "full", "flush", "timeout"}

ThreadPc == {"idle", "start", "solve", "commit", "mark", "release"}

\* The states in which a worker owns the requests of its batch.
Holding == {"start", "solve", "commit"}
\* The states in which a worker holds the read guard of the tier ladder.
Guarded == {"solve", "commit", "mark"}

IdleLoop ==
  [pc |-> "top", hasPending |-> FALSE, active |-> 0, slot |-> 0,
   closeFlush |-> FALSE, pass |-> "none", counts |-> [p \in Profiles |-> 0],
   lastFlushSlot |-> NoSlot, flushBacklog |-> FALSE]

NoPlan == [r \in Requests |-> NoSlot]
ZeroCounts == [s \in Slots |-> 0]

IdleThread ==
  [pc |-> "idle", profile |-> 1, slot |-> 0, count |-> 0, batch |-> << >>,
   plan |-> NoPlan, baseline |-> ZeroCounts, rollbacks |-> 0,
   scheduled |-> FALSE]

Accepted(r) == \E i \in DOMAIN accepted[ProfileOf[r]] :
                  accepted[ProfileOf[r]][i] = r

HasPending == \E p \in Profiles : pending[p] # << >>

-----------------------------------------------------------------------------
(* Capacity tiers. *)

\* The multiplier of the first tier that admits the count; the last tier
\* prices a count no tier admits, and an empty ladder prices nothing.
capacity_multiplier_for_count(count, ladder) ==
  LET admits == {i \in DOMAIN ladder : \/ ladder[i].maxRequests = NoLimit
                                       \/ count <= ladder[i].maxRequests}
  IN CASE admits # {} -> ladder[Min(admits)].multiplier
       [] admits = {} /\ ladder # << >> -> ladder[Len(ladder)].multiplier
       [] OTHER -> 1

Occupancy(s) == Cardinality({r \in Requests : assigned[r] = s})

-----------------------------------------------------------------------------
(* The solver: placements a solve may return. *)

WindowEnd(slot) == Min({slot + WindowFuture, TotalSlots - 1})

\* Mutant: the request's own deadline is forgotten.
CapWindowOnly(d, slot) == Min({WindowEnd(slot), TotalSlots - 1})

cap_deadline(d, slot) ==
  Min({Max({d, slot}), WindowEnd(slot), TotalSlots - 1})

\* Mutant: a request may be placed before it arrives.
WindowFromSlot(arrival, deadline, slot) == slot .. cap_deadline(deadline, slot)

\* Slots in which a solve run for `slot` may place a request.
PlacementWindow(arrival, deadline, slot) ==
  Max({arrival, slot}) .. cap_deadline(deadline, slot)

\* Requests of the batch's profile whose committed slot has not passed: they
\* are re-planned with the batch unless future assignments are locked.
Movable(profile, slot) ==
  IF LockFuture THEN {}
  ELSE {r \in Requests : /\ assigned[r] # NoSlot
                         /\ assigned[r] >= slot
                         /\ ProfileOf[r] = profile}

\* Mutant: the baseline leaves out the other profiles' work.
BaselineOwnProfile(profile, slot) ==
  [s \in Slots |->
     Cardinality({r \in Requests \ Movable(profile, slot) :
                    /\ assigned[r] = s /\ s >= slot
                    /\ ProfileOf[r] = profile})]

\* Occupancy a solve takes as given: future assignments that do not move.
BaselineCounts(profile, slot) ==
  [s \in Slots |->
     Cardinality({r \in Requests \ Movable(profile, slot) :
                    assigned[r] = s /\ s >= slot})]

\* Mutant: a solve may leave requests of the batch out.
PlacementsPartial(batch, profile, slot) ==
  LET some == Range(batch) \cup Movable(profile, slot)
  IN {plan \in [Requests -> Slots \cup {NoSlot}] :
        \A r \in Requests : plan[r] # NoSlot =>
          /\ r \in some
          /\ plan[r] \in PlacementWindow(ArrivalOf[r], storedDeadline[r], slot)}

\* All-or-nothing coverage of the batch; a movable request keeps its slot when
\* the solver leaves it out.
Placements(batch, profile, slot) ==
  LET new == Range(batch)
      old == Movable(profile, slot)
  IN {plan \in [Requests -> Slots \cup {NoSlot}] :
        /\ \A r \in new :
             plan[r] \in PlacementWindow(ArrivalOf[r], DeadlineOf[r], slot)
        /\ \A r \in old \ new :
             \/ plan[r] = NoSlot
             \/ plan[r] \in PlacementWindow(ArrivalOf[r], storedDeadline[r], slot)
        /\ \A r \in Requests \ (new \cup old) : plan[r] = NoSlot}

Feasible(batch, slot) ==
  \A r \in Range(batch) :
    PlacementWindow(ArrivalOf[r], DeadlineOf[r], slot) # {}

Adds(plan, s) == Cardinality({r \in Requests : plan[r] = s})

\* The occupancy the solver priced each used slot for, and the one found at
\* commit time.
ExpectedAfter(w, s) == thread[w].baseline[s] + Adds(thread[w].plan, s)
ActualAfter(w, s) == Occupancy(s) + Adds(thread[w].plan, s)

\* Mutant: the check prices the slot before the batch is added to it.
TierBreachBefore(w) ==
  \E s \in Slots :
    /\ Adds(thread[w].plan, s) > 0
    /\ ActualAfter(w, s) > ExpectedAfter(w, s)
    /\ capacity_multiplier_for_count(Occupancy(s), tiers)
         > capacity_multiplier_for_count(ExpectedAfter(w, s), tiers)

\* Another thread's commit would put some slot of the plan in a higher tier
\* than the one the solver priced.
TierBreach(w) ==
  \E s \in Slots :
    /\ Adds(thread[w].plan, s) > 0
    /\ ActualAfter(w, s) > ExpectedAfter(w, s)
    /\ capacity_multiplier_for_count(ActualAfter(w, s), tiers)
         > capacity_multiplier_for_count(ExpectedAfter(w, s), tiers)

ForceCommit(w) == RollbackMax = 0 \/ thread[w].rollbacks >= RollbackMax

-----------------------------------------------------------------------------
Init ==
  /\ pending = [p \in Profiles |-> << >>]
  /\ assigned = [r \in Requests |-> NoSlot]
  /\ storedDeadline = DeadlineOf
  /\ currentSlot = 0
  /\ virtualSlot = 0
  /\ flushSlot = NoSlot
  /\ tiers \in Ladders
  /\ tierRevision = 0
  /\ totalRollbacks = 0
  /\ maxConsecutive = 0
  /\ rolledBackIds = {}
  /\ activeWorkers = 0
  /\ activeProfiles = {}
  /\ lastInfeasible = [p \in Profiles |-> <<NoSlot, 0>>]
  /\ lastDispatched = 0
  /\ seenRevision = 0
  /\ batchesProcessed = 0
  /\ running = TRUE
  /\ loop = IdleLoop
  /\ thread = [w \in Workers |-> IdleThread]
  /\ closedThrough = NoSlot
  /\ closing = [pc |-> "idle", slot |-> 0]
  /\ advance = NoSlot
  /\ providerSlot = 0
  /\ accepted = [p \in Profiles |-> << >>]
  /\ committed = [p \in Profiles |-> << >>]
  /\ acked = NoSlot

-----------------------------------------------------------------------------
(* Service handlers. *)

\* Mutant: admission without the fence check.
AdmitUnfenced(r) ==
  /\ running
  /\ ~ Accepted(r)
  /\ pending' = [pending EXCEPT ![ProfileOf[r]] = Append(@, r)]
  /\ accepted' = [accepted EXCEPT ![ProfileOf[r]] = Append(@, r)]
  /\ UNCHANGED <<assigned, storedDeadline, clockVars, flushSlot, tierVars,
                 rollbackVars, reservationVars, mutableVars, running, loop,
                 thread, serviceVars, committed>>

\* admit_request: the fence check, the tracked entry and the enqueue are one
\* critical section of the admission mutex.
AdmitRequest(r) ==
  /\ running
  /\ ~ Accepted(r)
  /\ ManualClock => ArrivalOf[r] > closedThrough
  /\ pending' = [pending EXCEPT ![ProfileOf[r]] = Append(@, r)]
  /\ accepted' = [accepted EXCEPT ![ProfileOf[r]] = Append(@, r)]
  /\ UNCHANGED <<assigned, storedDeadline, clockVars, flushSlot, tierVars,
                 rollbackVars, reservationVars, mutableVars, running, loop,
                 thread, serviceVars, committed>>

\* close_slot: the slot check and the admission fence.
CloseFence ==
  /\ running
  /\ ManualClock
  /\ closing.pc = "idle"
  /\ advance = NoSlot
  /\ providerSlot < TotalSlots
  /\ currentSlot = providerSlot
  /\ providerSlot >= closedThrough
  /\ closedThrough' = providerSlot
  /\ closing' = [pc |-> "flush", slot |-> providerSlot]
  /\ UNCHANGED <<sharedVars, clockVars, flushSlot, tierVars, rollbackVars,
                 reservationVars, mutableVars, running, loop, thread, advance,
                 providerSlot, acked, historyVars>>

\* close_slot: request_pending_flush.
CloseFlush ==
  /\ closing.pc = "flush"
  /\ flushSlot' = closing.slot
  /\ closing' = [closing EXCEPT !.pc = "poll"]
  /\ UNCHANGED <<sharedVars, clockVars, tierVars, rollbackVars,
                 reservationVars, mutableVars, running, loop, thread,
                 closedThrough, advance, providerSlot, acked, historyVars>>

\* No accepted request that arrived by the closing slot is unassigned.
Drained(s) ==
  \A r \in Requests : Accepted(r) /\ ArrivalOf[r] <= s => assigned[r] # NoSlot

\* Mutant: the poll looks at the queue only and misses batches in workers.
CloseAckQueueEmpty ==
  /\ closing.pc = "poll"
  /\ ~ HasPending
  /\ acked' = closing.slot
  /\ closing' = [closing EXCEPT !.pc = "idle"]
  /\ UNCHANGED <<sharedVars, clockVars, flushSlot, tierVars, rollbackVars,
                 reservationVars, mutableVars, running, loop, thread,
                 closedThrough, advance, providerSlot, historyVars>>

\* close_slot: the poll finds the slot drained and acknowledges it.
CloseAck ==
  /\ closing.pc = "poll"
  /\ Drained(closing.slot)
  /\ acked' = closing.slot
  /\ closing' = [closing EXCEPT !.pc = "idle"]
  /\ UNCHANGED <<sharedVars, clockVars, flushSlot, tierVars, rollbackVars,
                 reservationVars, mutableVars, running, loop, thread,
                 closedThrough, advance, providerSlot, historyVars>>

\* close_slot: the poll gives up; the fence and the flush request stay.
CloseTimeout ==
  /\ closing.pc = "poll"
  /\ ~ Drained(closing.slot)
  /\ closing' = [closing EXCEPT !.pc = "idle"]
  /\ UNCHANGED <<sharedVars, clockVars, flushSlot, tierVars, rollbackVars,
                 reservationVars, mutableVars, running, loop, thread,
                 closedThrough, advance, providerSlot, acked, historyVars>>

\* Mutant: the next slot is not clamped to the horizon.
AdvanceUnclamped ==
  /\ running
  /\ ManualClock
  /\ closing.pc = "idle"
  /\ advance = NoSlot
  /\ acked = providerSlot
  /\ providerSlot' = providerSlot + 1
  /\ virtualSlot' = currentSlot + 1
  /\ advance' = currentSlot + 1
  /\ UNCHANGED <<sharedVars, currentSlot, flushSlot, tierVars, rollbackVars,
                 reservationVars, mutableVars, running, loop, thread,
                 closedThrough, closing, acked, historyVars>>

\* The provider advances after a successful close (provider main.py).
\* advance_to_next_slot: read the slot, move virtual time to the next boundary.
AdvanceClock ==
  /\ running
  /\ ManualClock
  /\ closing.pc = "idle"
  /\ advance = NoSlot
  /\ acked = providerSlot
  /\ providerSlot' = providerSlot + 1
  /\ virtualSlot' = currentSlot + 1
  /\ advance' = Min({currentSlot + 1, TotalSlots - 1})
  /\ UNCHANGED <<sharedVars, currentSlot, flushSlot, tierVars, rollbackVars,
                 reservationVars, mutableVars, running, loop, thread,
                 closedThrough, closing, acked, historyVars>>

\* advance_to_next_slot: store the slot it computed.
AdvanceSlot ==
  /\ advance # NoSlot
  /\ currentSlot' = advance
  /\ advance' = NoSlot
  /\ UNCHANGED <<sharedVars, virtualSlot, flushSlot, tierVars, rollbackVars,
                 reservationVars, mutableVars, running, loop, thread,
                 closedThrough, closing, providerSlot, acked, historyVars>>

\* Mutant: a replacement does not wait for the workers' read guards.
ReplaceTiersAtOnce ==
  /\ running
  /\ tierRevision < MaxReplacements
  /\ tiers' \in Ladders
  /\ tierRevision' = tierRevision + 1
  /\ UNCHANGED <<sharedVars, clockVars, flushSlot, rollbackVars,
                 reservationVars, mutableVars, running, loop, thread,
                 serviceVars, historyVars>>

\* replace_capacity_tiers: the write lock waits for every read guard.
ReplaceTiers ==
  /\ running
  /\ tierRevision < MaxReplacements
  /\ \A w \in Workers : thread[w].pc \notin Guarded
  /\ tiers' \in Ladders
  /\ tierRevision' = tierRevision + 1
  /\ UNCHANGED <<sharedVars, clockVars, flushSlot, rollbackVars,
                 reservationVars, mutableVars, running, loop, thread,
                 serviceVars, historyVars>>

\* stop: the server has shut down; the main loop sees the flag later.
Stop ==
  /\ running
  /\ running' = FALSE
  /\ UNCHANGED <<sharedVars, clockVars, flushSlot, tierVars, rollbackVars,
                 reservationVars, mutableVars, loop, thread, serviceVars,
                 historyVars>>

-----------------------------------------------------------------------------
(* main_loop. *)

loopOnly == <<sharedVars, flushSlot, tierVars, rollbackVars, reservationVars,
              mutableVars, running, thread, serviceVars, historyVars>>

LoopExit ==
  /\ loop.pc = "top"
  /\ ~ running
  /\ loop' = [loop EXCEPT !.pc = "stopped"]
  /\ UNCHANGED <<loopOnly, clockVars>>

\* let pending_count = shared_state.get_pending_count(); the loop only ever
\* asks whether it is zero.
LoopReadPending ==
  /\ loop.pc = "top"
  /\ running
  /\ loop' = [loop EXCEPT !.pc = "active", !.hasPending = HasPending]
  /\ UNCHANGED <<loopOnly, clockVars>>

\* let active_workers = mutable.lock().unwrap().active_workers
LoopReadActive ==
  /\ loop.pc = "active"
  /\ loop' = [loop EXCEPT !.pc = "clock", !.active = activeWorkers]
  /\ UNCHANGED <<loopOnly, clockVars>>

\* Wall time moves the virtual clock unless the clock is manual, over several slots
\* after a slow iteration; the slot is derived from it and clamped to the horizon.
LoopReadClock ==
  /\ loop.pc = "clock"
  /\ virtualSlot' \in IF ManualClock THEN {virtualSlot}
                      ELSE virtualSlot .. TotalSlots
  /\ loop' = [loop EXCEPT !.pc = "slot",
                          !.slot = Min({virtualSlot', TotalSlots - 1})]
  /\ UNCHANGED <<loopOnly, currentSlot>>

\* shared_state.set_current_slot(current_slot)
LoopSetSlot ==
  /\ loop.pc = "slot"
  /\ currentSlot' = loop.slot
  /\ loop' = [loop EXCEPT !.pc = "flush"]
  /\ UNCHANGED <<loopOnly, virtualSlot>>

\* let close_slot_flush = shared_state.pending_flush_requested(current_slot)
LoopReadFlush ==
  /\ loop.pc = "flush"
  /\ loop' = [loop EXCEPT !.pc = "choose", !.closeFlush = (flushSlot = loop.slot)]
  /\ UNCHANGED <<loopOnly, clockVars>>

HasFullProfileBatch == \E p \in Profiles : Len(pending[p]) >= BatchSize

WorkerFree == loop.active < MaxWorkers

FlushDue ==
  /\ loop.hasPending
  /\ WorkerFree
  /\ loop.closeFlush \/ loop.slot > loop.lastFlushSlot \/ loop.flushBacklog

\* The pass this iteration takes; the branches of the code's else-if chain.
\* Whether the oldest pending request is old enough is left open.
PassChoices ==
  IF HasFullProfileBatch /\ WorkerFree THEN {"full"}
  ELSE IF FlushDue THEN {"flush"}
  ELSE IF BatchTimeout /\ loop.hasPending /\ WorkerFree
       THEN {"timeout", "none"}
  ELSE {"none"}

LoopChoosePass ==
  /\ loop.pc = "choose"
  /\ \E pass \in PassChoices :
       loop' = [loop EXCEPT !.pc = IF pass = "none" THEN "end" ELSE "dispatch",
                            !.pass = pass]
  /\ UNCHANGED <<loopOnly, clockVars>>

MinPending == IF loop.pass = "full" THEN BatchSize ELSE 1

\* Mutant: a profile may be dispatched while a worker still solves for it.
EligibleWhileActive ==
  {p \in Profiles : /\ Len(pending[p]) > 0
                    /\ Len(pending[p]) >= MinPending
                    /\ lastInfeasible[p] # <<loop.slot, Len(pending[p])>>}

\* Profiles with enough work, no solve of their own in progress, and a queue
\* that did not just prove infeasible in this slot.
EligibleProfiles ==
  {p \in Profiles : /\ Len(pending[p]) > 0
                    /\ Len(pending[p]) >= MinPending
                    /\ p \notin activeProfiles
                    /\ lastInfeasible[p] # <<loop.slot, Len(pending[p])>>}

\* Round robin: the first eligible profile after the cursor, else the first.
next_profile_to_dispatch ==
  LET after == {p \in EligibleProfiles : p > lastDispatched}
  IN IF after # {} THEN Min(after) ELSE Min(EligibleProfiles)

CanDispatch ==
  /\ running
  /\ activeWorkers < MaxWorkers
  /\ EligibleProfiles # {}

ClaimCount(p) == Min({Len(pending[p]), BatchSize})

\* One turn of dispatch_batch_workers: under the scheduler mutex a batch is
\* claimed and its profile and worker slot reserved; a thread is spawned.
LoopDispatch ==
  /\ loop.pc = "dispatch"
  /\ CanDispatch
  /\ LET p == next_profile_to_dispatch
         n == ClaimCount(p)
         free == {w \in Workers : thread[w].pc = "idle"}
     IN /\ free # {}
        /\ thread' = [thread EXCEPT ![Min(free)] =
             [IdleThread EXCEPT !.pc = "start", !.profile = p,
                                !.slot = loop.slot, !.count = Len(pending[p]),
                                !.batch = SubSeq(pending[p], 1, n)]]
        /\ pending' = [pending EXCEPT ![p] = SubSeq(@, n + 1, Len(@))]
        /\ lastDispatched' = p
        /\ activeProfiles' = activeProfiles \cup {p}
        /\ activeWorkers' = activeWorkers + 1
  /\ UNCHANGED <<assigned, storedDeadline, clockVars, flushSlot, tierVars,
                 rollbackVars, lastInfeasible, seenRevision, batchesProcessed,
                 running, loop, serviceVars, historyVars>>

\* dispatch_batch_workers returns.
LoopDispatchDone ==
  /\ loop.pc = "dispatch"
  /\ ~ CanDispatch
  /\ loop' = [loop EXCEPT !.pc = IF loop.pass = "full" THEN "end" ELSE "counts"]
  /\ UNCHANGED <<loopOnly, clockVars>>

\* has_retryable_profile_pending: the counts are read before the scheduler
\* mutex is taken.
LoopReadCounts ==
  /\ loop.pc = "counts"
  /\ loop' = [loop EXCEPT !.pc = "backlog",
                          !.counts = [p \in Profiles |-> Len(pending[p])]]
  /\ UNCHANGED <<loopOnly, clockVars>>

\* Mutant: the pass forgets the work it could not dispatch.
LoopForgetBacklog ==
  /\ loop.pc = "backlog"
  /\ loop' = [loop EXCEPT
       !.pc = "end",
       !.counts = [p \in Profiles |-> 0],
       !.lastFlushSlot = IF loop.pass = "flush" THEN loop.slot ELSE @,
       !.flushBacklog = FALSE]
  /\ UNCHANGED <<loopOnly, clockVars>>

LoopSetBacklog ==
  /\ loop.pc = "backlog"
  /\ loop' = [loop EXCEPT
       !.pc = "end",
       !.counts = [p \in Profiles |-> 0],
       !.lastFlushSlot = IF loop.pass = "flush" THEN loop.slot ELSE @,
       !.flushBacklog = \E p \in Profiles :
          /\ loop.counts[p] > 0
          /\ lastInfeasible[p] # <<loop.slot, loop.counts[p]>>]
  /\ UNCHANGED <<loopOnly, clockVars>>

\* The iteration ends: an idle iteration withdraws the flush request.
LoopEnd ==
  /\ loop.pc = "end"
  /\ flushSlot' = IF /\ ~ loop.hasPending
                     /\ loop.active = 0
                     /\ loop.closeFlush
                     /\ flushSlot = loop.slot
                  THEN NoSlot ELSE flushSlot
  /\ loop' = [IdleLoop EXCEPT !.lastFlushSlot = loop.lastFlushSlot,
                              !.flushBacklog = loop.flushBacklog]
  /\ UNCHANGED <<sharedVars, clockVars, tierVars, rollbackVars,
                 reservationVars, mutableVars, running, thread, serviceVars,
                 historyVars>>

LoopStep ==
  \/ LoopExit \/ LoopReadPending \/ LoopReadActive \/ LoopReadClock
  \/ LoopSetSlot \/ LoopReadFlush \/ LoopChoosePass \/ LoopDispatch
  \/ LoopDispatchDone \/ LoopReadCounts \/ LoopSetBacklog \/ LoopEnd

-----------------------------------------------------------------------------
(* batch_worker_entry and the thread around it. *)

\* The worker takes the tier read guard and notes the ladder's revision.
WorkerStart(w) ==
  /\ thread[w].pc = "start"
  /\ thread' = [thread EXCEPT ![w] = [@ EXCEPT !.pc = "solve"]]
  /\ seenRevision' = tierRevision
  /\ UNCHANGED <<sharedVars, clockVars, flushSlot, tierVars, rollbackVars,
                 reservationVars, lastInfeasible, lastDispatched,
                 batchesProcessed, running, loop, serviceVars, historyVars>>

\* The solver snapshots the shared state and returns a covering placement.
WorkerSolve(w) ==
  /\ thread[w].pc = "solve"
  /\ \E plan \in Placements(thread[w].batch, thread[w].profile, thread[w].slot) :
       thread' = [thread EXCEPT ![w] =
         [@ EXCEPT !.pc = "commit", !.plan = plan,
                   !.baseline = BaselineCounts(thread[w].profile, thread[w].slot)]]
  /\ UNCHANGED <<sharedVars, clockVars, flushSlot, tierVars, rollbackVars,
                 reservationVars, mutableVars, running, loop, serviceVars,
                 historyVars>>

\* Mutant: the batch goes back to the end of the queue.
RequeueAtBack(w) ==
  /\ thread[w].pc = "solve"
  /\ ~ Feasible(thread[w].batch, thread[w].slot)
  /\ pending' = [pending EXCEPT ![thread[w].profile] = @ \o thread[w].batch]
  /\ thread' = [thread EXCEPT ![w] = [@ EXCEPT !.pc = "release", !.batch = << >>]]
  /\ UNCHANGED <<assigned, storedDeadline, clockVars, flushSlot, tierVars,
                 rollbackVars, reservationVars, mutableVars, running, loop,
                 serviceVars, historyVars>>

\* No covering placement: the batch goes back to the front of the queue.
WorkerInfeasible(w) ==
  /\ thread[w].pc = "solve"
  /\ ~ Feasible(thread[w].batch, thread[w].slot)
  /\ pending' = [pending EXCEPT ![thread[w].profile] = thread[w].batch \o @]
  /\ thread' = [thread EXCEPT ![w] = [@ EXCEPT !.pc = "release", !.batch = << >>]]
  /\ UNCHANGED <<assigned, storedDeadline, clockVars, flushSlot, tierVars,
                 rollbackVars, reservationVars, mutableVars, running, loop,
                 serviceVars, historyVars>>

\* try_add_assignments_checked refuses the batch; it is solved again.
WorkerRollback(w) ==
  /\ thread[w].pc = "commit"
  /\ ~ ForceCommit(w)
  /\ TierBreach(w)
  /\ totalRollbacks' = totalRollbacks + 1
  /\ maxConsecutive' = Max({maxConsecutive, thread[w].rollbacks + 1})
  /\ thread' = [thread EXCEPT ![w] =
       [@ EXCEPT !.pc = "solve", !.plan = NoPlan, !.baseline = ZeroCounts,
                 !.rollbacks = thread[w].rollbacks + 1]]
  /\ UNCHANGED <<sharedVars, clockVars, flushSlot, tierVars, rolledBackIds,
                 reservationVars, mutableVars, running, loop, serviceVars,
                 historyVars>>

\* The deadline kept with an assignment: the request's own for a new one, the
\* one capped for this solve for a re-planned one.
CommittedDeadline(w, r) ==
  IF r \in Range(thread[w].batch) THEN DeadlineOf[r]
  ELSE cap_deadline(storedDeadline[r], thread[w].slot)

\* try_add_assignments_checked writes the whole plan.
WorkerCommit(w) ==
  /\ thread[w].pc = "commit"
  /\ ForceCommit(w) \/ ~ TierBreach(w)
  /\ assigned' = [r \in Requests |-> IF thread[w].plan[r] # NoSlot
                                     THEN thread[w].plan[r] ELSE assigned[r]]
  /\ storedDeadline' = [r \in Requests |->
                          IF thread[w].plan[r] # NoSlot
                          THEN CommittedDeadline(w, r) ELSE storedDeadline[r]]
  /\ committed' = [committed EXCEPT ![thread[w].profile] = @ \o thread[w].batch]
  /\ thread' = [thread EXCEPT ![w] =
       [@ EXCEPT !.pc = "mark", !.plan = NoPlan, !.baseline = ZeroCounts]]
  /\ UNCHANGED <<pending, clockVars, flushSlot, tierVars, rollbackVars,
                 reservationVars, mutableVars, running, loop, serviceVars,
                 accepted>>

\* Bookkeeping after the commit: rolled-back ids, then the statistics.
WorkerMark(w) ==
  /\ thread[w].pc = "mark"
  /\ rolledBackIds' = IF thread[w].rollbacks > 0
                      THEN rolledBackIds \cup Range(thread[w].batch)
                      ELSE rolledBackIds
  /\ batchesProcessed' = batchesProcessed + 1
  /\ thread' = [thread EXCEPT ![w] =
       [@ EXCEPT !.pc = "release", !.batch = << >>, !.scheduled = TRUE]]
  /\ UNCHANGED <<sharedVars, clockVars, flushSlot, tierVars, totalRollbacks,
                 maxConsecutive, reservationVars, lastInfeasible,
                 lastDispatched, seenRevision, running, loop, serviceVars,
                 historyVars>>

\* The thread gives its reservations back and records an infeasible queue.
WorkerRelease(w) ==
  /\ thread[w].pc = "release"
  /\ activeWorkers' = activeWorkers - 1
  /\ activeProfiles' = activeProfiles \ {thread[w].profile}
  /\ lastInfeasible' = [lastInfeasible EXCEPT ![thread[w].profile] =
       IF thread[w].scheduled THEN <<NoSlot, 0>>
       ELSE <<thread[w].slot, thread[w].count>>]
  /\ thread' = [thread EXCEPT ![w] = IdleThread]
  /\ UNCHANGED <<sharedVars, clockVars, flushSlot, tierVars, rollbackVars,
                 lastDispatched, seenRevision, batchesProcessed, running, loop,
                 serviceVars, historyVars>>

WorkerStep(w) ==
  \/ WorkerStart(w) \/ WorkerSolve(w) \/ WorkerInfeasible(w)
  \/ WorkerRollback(w) \/ WorkerCommit(w) \/ WorkerMark(w) \/ WorkerRelease(w)

-----------------------------------------------------------------------------
Next ==
  \/ \E r \in Requests : AdmitRequest(r)
  \/ CloseFence \/ CloseFlush \/ CloseAck \/ CloseTimeout
  \/ AdvanceClock \/ AdvanceSlot
  \/ ReplaceTiers
  \/ Stop
  \/ LoopStep
  \/ \E w \in Workers : WorkerStep(w)

Spec == Init /\ [][Next]_vars

\* Weak fairness of the loop thread and of every worker thread: the operating
\* system runs each of them.  Strong fairness of the tick: wall time moves on
\* while the loop keeps reading it.
FairSpec ==
  /\ Spec
  /\ WF_vars(LoopStep)
  /\ \A w \in Workers : WF_vars(WorkerStep(w))
  /\ SF_vars(LoopReadClock /\ virtualSlot' # virtualSlot)

-----------------------------------------------------------------------------
(* Properties. *)

SlotOrNone == Slots \cup {NoSlot}

LoopType ==
  [pc : LoopPc, hasPending : BOOLEAN, active : Int, slot : Slots,
   closeFlush : BOOLEAN, pass : Passes, counts : [Profiles -> Nat],
   lastFlushSlot : SlotOrNone, flushBacklog : BOOLEAN]

ThreadType ==
  [pc : ThreadPc, profile : Profiles, slot : Slots, count : Nat,
   batch : Seq(Requests), plan : [Requests -> SlotOrNone],
   baseline : [Slots -> Nat], rollbacks : Nat, scheduled : BOOLEAN]

ClosingType == [pc : {"idle", "flush", "poll"}, slot : Slots]

\* Every variable has its type.
TypeOK ==
  /\ pending \in [Profiles -> Seq(Requests)]
  /\ assigned \in [Requests -> SlotOrNone]
  /\ storedDeadline \in [Requests -> Slots]
  /\ currentSlot \in Slots
  /\ virtualSlot \in 0 .. TotalSlots
  /\ flushSlot \in SlotOrNone
  /\ tiers \in Ladders
  /\ tierRevision \in Nat
  /\ totalRollbacks \in Nat
  /\ maxConsecutive \in Nat
  /\ rolledBackIds \subseteq Requests
  /\ activeWorkers \in Int
  /\ activeProfiles \subseteq Profiles
  /\ lastInfeasible \in [Profiles -> SlotOrNone \X Nat]
  /\ lastDispatched \in Profiles \cup {0}
  /\ seenRevision \in Nat
  /\ batchesProcessed \in Nat
  /\ running \in BOOLEAN
  /\ loop \in LoopType
  /\ thread \in [Workers -> ThreadType]
  /\ closedThrough \in SlotOrNone
  /\ closing \in ClosingType
  /\ advance \in SlotOrNone
  /\ providerSlot \in 0 .. TotalSlots
  /\ accepted \in [Profiles -> Seq(Requests)]
  /\ committed \in [Profiles -> Seq(Requests)]
  /\ acked \in SlotOrNone

Busy == {w \in Workers : thread[w].pc # "idle"}
HoldsBatch(w, p) == thread[w].pc \in Holding /\ thread[w].profile = p

\* What was accepted for a profile is what was committed, then the batch in a
\* worker's hands, then the queue.
FifoAt(p) ==
  /\ \A w \in Workers : HoldsBatch(w, p) =>
       accepted[p] = committed[p] \o (thread[w].batch \o pending[p])
  /\ (\A w \in Workers : ~ HoldsBatch(w, p)) =>
       accepted[p] = committed[p] \o pending[p]

\* No request is lost, duplicated or overtaken within its profile: claiming,
\* requeueing an infeasible batch at the front and solving again after a
\* rollback all keep the accepted order.
FifoConservation == \A p \in Profiles : FifoAt(p)

\* The scheduler's reservations describe the live threads: their number never
\* exceeds the parallelism limit and no profile has two batches in progress,
\* so two solves never spend the same profile's error budget.
ReservationsMatch ==
  /\ activeWorkers = Cardinality(Busy)
  /\ activeWorkers <= MaxWorkers
  /\ activeProfiles = {thread[w].profile : w \in Busy}
  /\ \A v, w \in Busy : thread[v].profile = thread[w].profile => v = w

\* A worker between its solve and its commit works with the ladder in force:
\* a replacement waits for it, and what online solvers learnt under an older
\* ladder has been discarded.
RevisionCurrent ==
  \A w \in Workers : thread[w].pc \in Guarded => seenRevision = tierRevision

\* A batch that is not forced lands in no higher tier than the one its solver
\* priced, whatever other workers committed after its snapshot.
PricedTierHonoured ==
  [][\A w \in Workers :
       thread[w].pc = "commit" /\ thread'[w].pc = "mark" /\ ~ ForceCommit(w) =>
         \A s \in Slots : Adds(thread[w].plan, s) > 0 =>
           capacity_multiplier_for_count(Occupancy(s)', tiers)
             <= capacity_multiplier_for_count(ExpectedAfter(w, s), tiers)]_vars

\* Every rollback is paid for by a commit of another worker: with locked future
\* assignments a batch is never refused because of itself, so workers that
\* contend for a slot cannot refuse each other without one of them committing.
RollbacksPaidFor ==
  /\ maxConsecutive <= RollbackMax
  /\ LockFuture =>
       totalRollbacks <= (MaxWorkers - 1) *
         (batchesProcessed + Cardinality({w \in Workers : thread[w].pc = "mark"}))

\* Re-planning a profile's future work with a new batch never makes a request
\* late that was on time, and never moves it before its arrival.
ReplanKeepsOnTime ==
  [][\A r \in Requests :
       assigned[r] # NoSlot /\ assigned[r] <= DeadlineOf[r] =>
         assigned'[r] \in ArrivalOf[r] .. DeadlineOf[r]]_vars

\* Under the manual clock every request runs inside its own window: the close
\* barrier keeps the clock from passing a deadline while the request waits.
WindowRespected ==
  ManualClock =>
    \A r \in Requests : assigned[r] # NoSlot =>
      assigned[r] \in ArrivalOf[r] .. DeadlineOf[r]

\* Once close_slot has acknowledged a slot, nothing accepted for it is left
\* unassigned, whenever it was accepted.
AckedSlotComplete == acked # NoSlot => Drained(acked)

\* Once close_slot has acknowledged a slot, no commit places work in it or in
\* an earlier one.
AckedSlotSealed ==
  [][\A r \in Requests : assigned'[r] # assigned[r] => assigned'[r] > acked]_vars

Service == INSTANCE FifoService WITH served <- committed, placed <- assigned,
                                     None <- NoSlot

\* The engine implements the service of FifoService: through claims, requeues,
\* rollbacks and re-plans each profile is served in order and batch by batch, and
\* no commit touches another profile's placements.
ImplementsFifoService == Service!Spec

\* A close_slot call that keeps polling sees its slot drain: the flush it asked
\* for reaches every request accepted for the slot ("polls until the slot is
\* drained", close_slot).
CloseDrains ==
  closing.pc = "poll" ~>
    (Drained(closing.slot) \/ closing.pc # "poll" \/ ~ running)

\* A request accepted before the last slot of the horizon is assigned unless
\* the service shuts down: the pass that opens the next slot flushes it.
EventuallyAssigned ==
  \A r \in Requests :
    (Accepted(r) /\ currentSlot < TotalSlots - 1)
      ~> (assigned[r] # NoSlot \/ ~ running)

=============================================================================
