---------------------------- MODULE SwarmWorkers ----------------------------
(***************************************************************************)
(* Batch workers of the online strategies (rust/src/engine/scheduler.rs,   *)
(* batch_worker_entry_swarm and what it calls): they share one learning     *)
(* state per QoS profile, which a replacement of the capacity tiers         *)
(* discards, and the committed assignments of every profile.                *)
(*                                                                          *)
(* The serialized backend snapshots the committed state, then solves and    *)
(* trains in place under the scheduler mutex, then commits.  The merge      *)
(* backend clones the learning state, solves without a lock, commits, and   *)
(* only then merges what the batch taught it.                               *)
(*                                                                          *)
(* A step is one critical section.  Every dispatch is a flush: it claims up *)
(* to BatchSize requests of a profile that has some.                        *)
(***************************************************************************)
EXTENDS SwarmSolver

CONSTANTS
  Requests,           \* request ids, all admitted at some point
  NumProfiles,        \* QoS profiles
  ProfileOf,          \* Request::qos_profile_id
  BatchSize,          \* SolverConfig::batch_size
  Parallelism,        \* SolverConfig::max_batch_solver_parallelism
  RollbackMax,        \* SolverConfig::rollback_max_consecutive
  Backends,           \* configurations the run may have been started with
  Ladders,            \* capacity-tier ladders an operator may install
  MaxReplacements     \* bound: replacements of the ladder in one behaviour

Profiles == 1 .. NumProfiles
Workers == 1 .. Parallelism

ASSUME WorkerAssumption ==
  /\ IsFiniteSet(Requests)
  /\ NumProfiles \in Nat \ {0} /\ BatchSize \in Nat \ {0}
  /\ Parallelism \in Nat \ {0}
  /\ RollbackMax \in Nat /\ MaxReplacements \in Nat
  /\ ProfileOf \in [Requests -> Profiles]
  /\ ArrivalOf \in [Requests -> Slots] /\ DeadlineOf \in [Requests -> Slots]
  /\ \A ladder \in Ladders :
       /\ ladder \in Seq([maxRequests : Nat \cup {NoLimit}, multiplier : Nat])
       /\ ladder # << >>
  /\ Backends \subseteq [mode : {"serialized", "merge"}, strategy : {"bandit", "ant_colony"}]

VARIABLES
  backend,            \* SwarmConfig::mode and SolverConfig::solver_strategy
  pending,            \* [Profiles -> Seq(Requests)]: Inner::pending, by profile
  assignments,        \* placements committed, in the order of their commits
  tiers,              \* capacity_tiers
  tierRevision,       \* capacity_tier_revision
  seenRevision,       \* SchedulerMutableState::capacity_tier_revision
  swarm,              \* swarm_states: a learning state for some profiles
  activeProfiles,     \* active_profiles
  thread,             \* batch worker threads
  rollbacks,          \* Inner::total_rollbacks
  lessons,            \* history: what each profile committed since the last clear
  forced              \* history: the last commit bypassed the capacity check

vars == <<backend, pending, assignments, tiers, tierRevision, seenRevision, swarm,
          activeProfiles, thread, rollbacks, lessons, forced>>

Mode == backend.mode
Strategy == backend.strategy

NewState == IF Strategy = "bandit" THEN NewBandit ELSE NewColony

ThreadPc == {"idle", "start", "check", "snapshot", "solve", "commit", "merge",
             "finish", "release"}
\* The states in which a worker holds the read guard of the tier ladder.
Guarded == {"check", "snapshot", "solve", "commit", "merge", "finish"}

EmptyContext == [count |-> [s \in Slots |-> 0],
                 errors |-> [s \in Slots |-> [sum |-> 0, number |-> 0]],
                 sum |-> 0, number |-> 0]

IdleThread == [pc |-> "idle", profile |-> 1, batch |-> << >>, revision |-> 0,
               ctx |-> EmptyContext, plan |-> << >>, delta |-> NewState,
               lesson |-> << >>, consecutive |-> 0]

Free == {w \in Workers : thread[w].pc = "idle"}
ActiveWorkers == Cardinality(Workers \ Free)

\* Serialized workers train in place, so only one runs at a time.
MaxWorkers == IF Mode = "merge" THEN Parallelism ELSE 1

Occupancy(s) == Cardinality({i \in DOMAIN assignments : assignments[i].slot = s})

\* The errors of the assignments at these places of the log.
ErrorsOf(places) ==
  [sum |-> SumFunction([i \in places |-> Flavours[assignments[i].flavour].error]),
   number |-> Cardinality(places)]

\* swarm_context_snapshot_for_profile: occupancy of every profile, errors of one.
ContextOf(p) ==
  LET own == {i \in DOMAIN assignments : ProfileOf[assignments[i].req] = p}
      all == ErrorsOf(own)
  IN [count |-> [s \in Slots |-> Occupancy(s)],
      errors |-> [s \in Slots |-> ErrorsOf({i \in own : assignments[i].slot = s})],
      sum |-> all.sum, number |-> all.number]

\* swarm_states.entry(profile).or_insert_with(from_config)
Learned(p) == IF p \in DOMAIN swarm THEN swarm[p] ELSE NewState

WithState(p, learned) ==
  [x \in DOMAIN swarm \cup {p} |-> IF x = p THEN learned ELSE swarm[x]]

\* What the configured strategy may make of a batch.
solve_batch(learned, ctx, batch) ==
  IF Strategy = "bandit" THEN BanditSolve(learned, ctx, tiers, batch)
  ELSE ColonySolve(learned, ctx, tiers, batch)

solve_clone(clone, ctx, batch) ==
  IF Strategy = "bandit" THEN BanditSolveClone(clone, ctx, tiers, batch)
  ELSE ColonySolveClone(clone, ctx, tiers, batch)

merge_delta(learned, delta) ==
  IF Strategy = "bandit" THEN merge_bandit(learned, delta) ELSE merge_colony(learned, delta)

-----------------------------------------------------------------------------
Init ==
  /\ backend \in Backends
  /\ pending = [p \in Profiles |-> << >>]
  /\ assignments = << >>
  /\ tiers \in Ladders
  /\ tierRevision = 0 /\ seenRevision = 0
  /\ swarm = << >>
  /\ activeProfiles = {}
  /\ thread = [w \in Workers |-> IdleThread]
  /\ rollbacks = 0
  /\ lessons = [p \in Profiles |-> << >>]
  /\ forced = FALSE

Known(r) ==
  \/ r \in Range(pending[ProfileOf[r]])
  \/ \E i \in DOMAIN assignments : assignments[i].req = r
  \/ \E w \in Workers : r \in Range(thread[w].batch)

\* add_request: the service admits a request it has not seen.
Admit(r) ==
  /\ ~ Known(r)
  /\ pending' = [pending EXCEPT ![ProfileOf[r]] = Append(@, r)]
  /\ UNCHANGED <<backend, assignments, tiers, tierRevision, seenRevision, swarm,
                 activeProfiles, thread, rollbacks, lessons, forced>>

\* Mutant: the write lock is not held against the workers' read guards.
ReplaceTiersAtOnce ==
  /\ tierRevision < MaxReplacements
  /\ tiers' \in Ladders \ {tiers}
  /\ tierRevision' = tierRevision + 1
  /\ UNCHANGED <<backend, pending, assignments, seenRevision, swarm, activeProfiles,
                 thread, rollbacks, lessons, forced>>

\* replace_capacity_tiers waits for every read guard.
ReplaceTiers ==
  /\ tierRevision < MaxReplacements
  /\ \A w \in Workers : thread[w].pc \notin Guarded
  /\ tiers' \in Ladders \ {tiers}
  /\ tierRevision' = tierRevision + 1
  /\ UNCHANGED <<backend, pending, assignments, seenRevision, swarm, activeProfiles,
                 thread, rollbacks, lessons, forced>>

-----------------------------------------------------------------------------
(* Dispatch. *)

\* Mutant: a second batch of a profile may be in flight.
DispatchAnyProfile(w, p) ==
  /\ thread[w].pc = "idle"
  /\ ActiveWorkers < MaxWorkers
  /\ pending[p] # << >>
  /\ LET claim == Min({Len(pending[p]), BatchSize})
     IN /\ thread' = [thread EXCEPT ![w] =
             [IdleThread EXCEPT !.pc = "start", !.profile = p,
                                !.batch = SubSeq(pending[p], 1, claim)]]
        /\ pending' = [pending EXCEPT ![p] = SubSeq(@, claim + 1, Len(@))]
  /\ activeProfiles' = activeProfiles \cup {p}
  /\ UNCHANGED <<backend, assignments, tiers, tierRevision, seenRevision, swarm,
                 rollbacks, lessons, forced>>

\* Mutant: serialized workers run in parallel.
DispatchParallel(w, p) ==
  /\ thread[w].pc = "idle"
  /\ p \notin activeProfiles
  /\ pending[p] # << >>
  /\ LET claim == Min({Len(pending[p]), BatchSize})
     IN /\ thread' = [thread EXCEPT ![w] =
             [IdleThread EXCEPT !.pc = "start", !.profile = p,
                                !.batch = SubSeq(pending[p], 1, claim)]]
        /\ pending' = [pending EXCEPT ![p] = SubSeq(@, claim + 1, Len(@))]
  /\ activeProfiles' = activeProfiles \cup {p}
  /\ UNCHANGED <<backend, assignments, tiers, tierRevision, seenRevision, swarm,
                 rollbacks, lessons, forced>>

\* dispatch_batch_workers: claim a batch of a profile that has none in flight
\* and reserve the profile and a worker.
Dispatch(w, p) ==
  /\ thread[w].pc = "idle"
  /\ ActiveWorkers < MaxWorkers
  /\ p \notin activeProfiles
  /\ pending[p] # << >>
  /\ LET claim == Min({Len(pending[p]), BatchSize})
     IN /\ thread' = [thread EXCEPT ![w] =
             [IdleThread EXCEPT !.pc = "start", !.profile = p,
                                !.batch = SubSeq(pending[p], 1, claim)]]
        /\ pending' = [pending EXCEPT ![p] = SubSeq(@, claim + 1, Len(@))]
  /\ activeProfiles' = activeProfiles \cup {p}
  /\ UNCHANGED <<backend, assignments, tiers, tierRevision, seenRevision, swarm,
                 rollbacks, lessons, forced>>

\* batch_worker_entry: take the tier guard, read the revision under it.
TakeGuard(w) ==
  /\ thread[w].pc = "start"
  /\ thread' = [thread EXCEPT ![w] = [@ EXCEPT !.pc = "check", !.revision = tierRevision]]
  /\ UNCHANGED <<backend, pending, assignments, tiers, tierRevision, seenRevision, swarm,
                 activeProfiles, rollbacks, lessons, forced>>

\* The first worker to see a new ladder discards what every profile has learned.
CheckRevision(w) ==
  /\ thread[w].pc = "check"
  /\ seenRevision' = thread[w].revision
  /\ IF seenRevision # thread[w].revision
     THEN /\ swarm' = << >>
          /\ lessons' = [p \in Profiles |-> << >>]
     ELSE UNCHANGED <<swarm, lessons>>
  /\ thread' = [thread EXCEPT ![w].pc = "snapshot"]
  /\ UNCHANGED <<backend, pending, assignments, tiers, tierRevision, activeProfiles,
                 rollbacks, forced>>

-----------------------------------------------------------------------------
(* Solving. *)

\* The serialized backend reads the committed state before it has the mutex.
Snapshot(w) ==
  /\ Mode = "serialized"
  /\ thread[w].pc = "snapshot"
  /\ thread' = [thread EXCEPT ![w] =
       [@ EXCEPT !.pc = "solve", !.ctx = ContextOf(thread[w].profile)]]
  /\ UNCHANGED <<backend, pending, assignments, tiers, tierRevision, seenRevision, swarm,
                 activeProfiles, rollbacks, lessons, forced>>

\* Solve and train in place, under the mutex.
SolveInPlace(w) ==
  /\ Mode = "serialized"
  /\ thread[w].pc = "solve"
  /\ LET p == thread[w].profile
     IN \E outcome \in solve_batch(Learned(p), thread[w].ctx, thread[w].batch) :
          /\ swarm' = WithState(p, outcome.learned)
          /\ thread' = [thread EXCEPT ![w] =
               [@ EXCEPT !.pc = "commit", !.plan = outcome.plan,
                         !.lesson = outcome.lesson]]
  /\ UNCHANGED <<backend, pending, assignments, tiers, tierRevision, seenRevision,
                 activeProfiles, rollbacks, lessons, forced>>

\* The merge backend clones the learning state and the context under the
\* mutex; the solve that follows touches only the clone.
SolveClone(w) ==
  /\ Mode = "merge"
  /\ thread[w].pc = "snapshot"
  /\ LET p == thread[w].profile
         ctx == ContextOf(p)
     IN \E outcome \in solve_clone(Learned(p), ctx, thread[w].batch) :
          /\ swarm' = WithState(p, Learned(p))
          /\ thread' = [thread EXCEPT ![w] =
               [@ EXCEPT !.pc = "commit", !.plan = outcome.plan, !.ctx = ctx,
                         !.lesson = outcome.lesson,
                         !.delta = outcome.delta]]
  /\ UNCHANGED <<backend, pending, assignments, tiers, tierRevision, seenRevision,
                 activeProfiles, rollbacks, lessons, forced>>

-----------------------------------------------------------------------------
(* Committing. *)

Adds(plan, s) == Cardinality({i \in DOMAIN plan : plan[i].slot = s})

\* Mutant: the check forgets the batch's own requests.
TierBreachBefore(w) ==
  \E s \in Slots :
    LET expected == thread[w].ctx.count[s] + Adds(thread[w].plan, s)
    IN /\ Adds(thread[w].plan, s) > 0
       /\ Occupancy(s) > expected
       /\ capacity_mult(tiers, Occupancy(s)) > capacity_mult(tiers, expected)

\* Another worker's commit would put a slot of the plan in a dearer tier.
TierBreach(w) ==
  \E s \in Slots :
    LET expected == thread[w].ctx.count[s] + Adds(thread[w].plan, s)
        actual == Occupancy(s) + Adds(thread[w].plan, s)
    IN /\ Adds(thread[w].plan, s) > 0
       /\ actual > expected
       /\ capacity_mult(tiers, actual) > capacity_mult(tiers, expected)

ForceCommit(w) ==
  \/ RollbackMax = 0
  \/ Mode = "merge" /\ thread[w].consecutive >= RollbackMax

Rejected(w) == ~ ForceCommit(w) /\ TierBreach(w)

\* try_commit_swarm_batch, committed.
CommitBatch(w) ==
  /\ thread[w].pc = "commit"
  /\ ~ Rejected(w)
  /\ assignments' = assignments \o thread[w].plan
  /\ lessons' = [lessons EXCEPT ![thread[w].profile] = Append(@, thread[w].lesson)]
  /\ forced' = TierBreach(w)
  /\ thread' = [thread EXCEPT ![w] =
       [@ EXCEPT !.pc = IF Mode = "merge" THEN "merge" ELSE "finish"]]
  /\ UNCHANGED <<backend, pending, tiers, tierRevision, seenRevision, swarm,
                 activeProfiles, rollbacks>>

\* Mutant: a rolled-back candidate trains the strategy.
RollBackTraining(w) ==
  /\ thread[w].pc = "commit"
  /\ Rejected(w)
  /\ rollbacks' = rollbacks + 1
  /\ swarm' = [swarm EXCEPT ![thread[w].profile] = merge_delta(@, thread[w].delta)]
  /\ thread' = [thread EXCEPT ![w] =
       [thread[w] EXCEPT !.pc = "snapshot", !.plan = << >>, !.delta = NewState,
                         !.lesson = << >>, !.ctx = EmptyContext,
                         !.consecutive = thread[w].consecutive + 1]]
  /\ UNCHANGED <<backend, pending, assignments, tiers, tierRevision, seenRevision,
                 activeProfiles, lessons, forced>>

\* A rejected batch: the merge backend solves it again against fresh state,
\* the serialized one puts it back at the front of its queue and gives up.
RollBack(w) ==
  /\ thread[w].pc = "commit"
  /\ Rejected(w)
  /\ rollbacks' = rollbacks + 1
  /\ IF Mode = "merge"
     THEN /\ thread' = [thread EXCEPT ![w] =
               [thread[w] EXCEPT !.pc = "snapshot", !.plan = << >>, !.delta = NewState,
                                 !.lesson = << >>, !.ctx = EmptyContext,
                                 !.consecutive = thread[w].consecutive + 1]]
          /\ UNCHANGED pending
     ELSE /\ pending' = [pending EXCEPT ![thread[w].profile] = thread[w].batch \o @]
          /\ thread' = [thread EXCEPT ![w] =
               [IdleThread EXCEPT !.pc = "release", !.profile = thread[w].profile]]
  /\ UNCHANGED <<backend, assignments, tiers, tierRevision, seenRevision, swarm,
                 activeProfiles, lessons, forced>>

\* merge_delta under the mutex, only where the profile still has a state.
MergeDelta(w) ==
  /\ thread[w].pc = "merge"
  /\ swarm' = IF thread[w].profile \notin DOMAIN swarm THEN swarm
              ELSE [swarm EXCEPT ![thread[w].profile] = merge_delta(@, thread[w].delta)]
  /\ thread' = [thread EXCEPT ![w].pc = "finish"]
  /\ UNCHANGED <<backend, pending, assignments, tiers, tierRevision, seenRevision,
                 activeProfiles, rollbacks, lessons, forced>>

\* finish_swarm_batch only counts; the worker returns and drops its guard.
Finish(w) ==
  /\ thread[w].pc = "finish"
  /\ thread' = [thread EXCEPT ![w] =
       [IdleThread EXCEPT !.pc = "release", !.profile = thread[w].profile]]
  /\ UNCHANGED <<backend, pending, assignments, tiers, tierRevision, seenRevision, swarm,
                 activeProfiles, rollbacks, lessons, forced>>

\* The thread frees its worker and its profile.
Release(w) ==
  /\ thread[w].pc = "release"
  /\ activeProfiles' = activeProfiles \ {thread[w].profile}
  /\ thread' = [thread EXCEPT ![w] = IdleThread]
  /\ UNCHANGED <<backend, pending, assignments, tiers, tierRevision, seenRevision, swarm,
                 rollbacks, lessons, forced>>

WorkerStep(w) ==
  \/ TakeGuard(w) \/ CheckRevision(w)
  \/ Snapshot(w) \/ SolveInPlace(w) \/ SolveClone(w)
  \/ CommitBatch(w) \/ RollBack(w) \/ MergeDelta(w)
  \/ Finish(w) \/ Release(w)

DispatchStep == \E w \in Workers, p \in Profiles : Dispatch(w, p)

Next ==
  \/ \E r \in Requests : Admit(r)
  \/ ReplaceTiers
  \/ DispatchStep
  \/ \E w \in Workers : WorkerStep(w)

Spec == Init /\ [][Next]_vars

-----------------------------------------------------------------------------
(* Properties. *)

\* Types of the variables.
TypeOK ==
  /\ backend \in Backends
  /\ pending \in [Profiles -> Seq(Requests)]
  /\ assignments \in Seq(Placement)
  /\ tiers \in Ladders
  /\ tierRevision \in Nat /\ seenRevision \in 0 .. tierRevision
  /\ activeProfiles \subseteq Profiles
  /\ rollbacks \in Nat
  /\ forced \in BOOLEAN
  /\ \A w \in Workers :
       /\ thread[w].pc \in ThreadPc
       /\ thread[w].profile \in Profiles
       /\ thread[w].batch \in Seq(Requests)
       /\ thread[w].ctx \in Context
       /\ thread[w].plan \in Seq(Placement)
       /\ thread[w].consecutive \in 0 .. RollbackMax
  /\ DOMAIN swarm \subseteq Profiles

\* A worker of p is between its commit and the training, or the other way round.
Training(p) ==
  \E w \in Workers : /\ thread[w].profile = p
                     /\ thread[w].pc = IF Mode = "merge" THEN "merge" ELSE "commit"

\* The estimates after one more batch, trained without clone or delta: a bandit
\* takes one lesson from a batch, a colony one from each iteration.
Taught(learned, lesson) ==
  IF Strategy = "bandit"
  THEN FoldLeft(BanditSample, learned, lesson[1])
  ELSE FoldLeft(Iterate, learned, lesson)

\* A profile's estimates are what its committed batches since the last reset
\* teach: no batch is lost, none counts twice, a rolled-back candidate teaches
\* nothing, and nothing learned under another ladder survives (scheduler.rs
\* batch_worker_entry, "A rolled-back candidate must not train the online
\* strategy").
TrainedOnCommitted ==
  \A p \in Profiles :
    ~ Training(p) => Learned(p) = FoldLeft(Taught, NewState, lessons[p])

\* Every estimate is in the carbon cost of the ladder in force: a worker that
\* has checked the revision trains on costs of the present ladder, and the
\* estimates it reads are of the revision it saw (scheduler.rs 715-723).
OneCostCurve ==
  \A w \in Workers : thread[w].pc \in Guarded \ {"check"} =>
    /\ seenRevision = tierRevision
    /\ \A i \in DOMAIN thread[w].plan :
         \E n \in 1 .. Cardinality(Requests) :
           thread[w].plan[i].multiplier = capacity_mult(tiers, n)

\* A batch is rejected at most RollbackMax times in a row (the type of
\* consecutive).  The serialized backend trains before it commits, so its commits
\* must not be rejected at all (scheduler.rs 597-600).
SerializedNeverRollsBack ==
  /\ TypeOK
  /\ Mode = "serialized" => rollbacks = 0

\* The average error of the window around a slot, over one profile's
\* assignments among the first n.
WindowWithin(n, p, slot) ==
  LET inside == {i \in 1 .. n : /\ ProfileOf[assignments[i].req] = p
                                /\ assignments[i].slot \in
                                     slot - WindowPast .. slot + WindowFuture}
  IN SumFunction([i \in inside |-> Flavours[assignments[i].flavour].error])
       <= MaxError * Cardinality(inside)

\* A committed request keeps its profile's window average at the threshold, with
\* every assignment the profile had by then, or runs in the flavour of least
\* error: no other batch of the profile commits between a snapshot and its commit.
BudgetKeptOrFallback ==
  \A i \in DOMAIN assignments :
    \/ assignments[i].flavour = Fallback
    \/ WindowWithin(i, ProfileOf[assignments[i].req], assignments[i].slot)

\* The last request a batch places in a slot is never priced below the tier of
\* the position it gets, unless the batch was forced through: the capacity check
\* catches every commit of another worker since the snapshot.
NoUnseenTier ==
  [][\A w \in Workers :
       thread[w].pc = "commit" /\ thread'[w].pc \in {"merge", "finish"} /\ ~ forced' =>
         LET plan == thread[w].plan
         IN \A i \in DOMAIN plan :
              (\A j \in DOMAIN plan : plan[j].slot = plan[i].slot => j <= i) =>
                plan[i].multiplier >= capacity_mult(tiers, Occupancy(plan[i].slot)')]_vars
=============================================================================
