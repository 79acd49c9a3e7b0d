--------------------------- MODULE SimulationRun ---------------------------
(***************************************************************************)
(* One offline run of a scenario: the request generator                     *)
(* (rust/src/sim/generator.rs), the scheduler's main loop with its virtual  *)
(* clock (rust/src/engine/scheduler.rs), one batch worker, and the runner   *)
(* that starts them, waits for them and collects the results (run_single_n  *)
(* in rust/src/bin/nshift/main.rs).                                         *)
(*                                                                          *)
(* The four threads share the pending queue, the virtual clock, the last    *)
(* slot the generator has processed, and the count of active workers.  Each *)
(* read of one of them is a step of its own, as the code takes no lock      *)
(* across two.  An offline run has a single QoS profile, and a profile has  *)
(* at most one active worker.                                               *)
(***************************************************************************)
EXTENDS Integers, Sequences, FiniteSets, SequencesExt, FiniteSetsExt

CONSTANTS
  TotalSlots,      \* Config::total_slots
  Configs,         \* configurations and scenarios of a run, see Config
  Parallelism,     \* solver.max_batch_solver_parallelism
  BurstChunk,      \* LOCK_BATCH_SIZE
  RealtimeChunk,   \* generator_realtime_chunk_size
  SlotTicks,       \* ticks of the virtual clock in a slot
  WallSteps,       \* wall time that may pass in one turn of the main loop, in ticks
  UnixNow,         \* arrival_time of the requests, in ticks: seconds since 1970
  MaxElapsed       \* bound on the virtual clock

Slots == 0 .. TotalSlots - 1
LastSlot == TotalSlots - 1

Config ==
  [skip : BOOLEAN,           \* simulation.skip_empty_slots: offline, not in real time
   batchSize : Nat \ {0},    \* solver.batch_size
   timeout : Nat,            \* solver.batch_timeout_secs in ticks, 0 to disable
   drainLimit : BOOLEAN,     \* the 60 s limits of wait_for_drain and phase 2 may strike
   stopLimit : BOOLEAN,      \* the 5 s limit of BatchScheduler::stop may strike
   arrivals : [Slots -> Seq(Nat)],  \* the requests of each slot, in order
   deadline : Seq(Slots)]           \* deadline_slot of each request

ASSUME ConfigAssumption ==
  \A c \in Configs :
    /\ c \in Config
    /\ \A s \in Slots : IsInjective(c.arrivals[s])
    /\ \A s, t \in Slots :
         s # t => Range(c.arrivals[s]) \cap Range(c.arrivals[t]) = {}
    /\ \A s \in Slots : \A r \in Range(c.arrivals[s]) : c.deadline[r] >= s

ASSUME RunAssumption ==
  /\ TotalSlots \in Nat \ {0}
  /\ Parallelism \in Nat \ {0} /\ SlotTicks \in Nat \ {0}
  /\ BurstChunk \in Nat \ {0} /\ RealtimeChunk \in Nat \ {0}
  /\ WallSteps \subseteq Nat
  /\ MaxElapsed \in Nat /\ UnixNow > MaxElapsed

VARIABLES
  config,          \* the configuration the run was started with
  elapsed,         \* virtual_elapsed_ms, in ticks
  processed,       \* generator_processed_slot
  pending,         \* the queue
  gen,             \* locals of generator_loop
  loop,            \* locals of main_loop
  worker,          \* the batch worker: its batch and the slot it solves in
  solvedIn,        \* slot of the batch of each committed request
  logged,          \* requests with a row in the assignments file
  runner,          \* locals of run_single_n
  results          \* per_req: requests read from the file, and those scheduled late

vars == <<config, elapsed, processed, pending, gen, loop, worker, solvedIn, logged,
          runner, results>>

SkipEmpty == config.skip
BatchSize == config.batchSize
BatchTimeout == config.timeout
DrainTimesOut == config.drainLimit
StopTimesOut == config.stopLimit
Arrivals == config.arrivals
Deadline == config.deadline

Requests == UNION {Range(Arrivals[s]) : s \in Slots}
ArrivalSlot(r) == CHOOSE s \in Slots : r \in Range(Arrivals[s])

-----------------------------------------------------------------------------
(* Initial state. *)

Init ==
  /\ config \in Configs
  /\ elapsed = 0
  /\ processed = -1
  /\ pending = << >>
  /\ gen = [pc |-> "check", last |-> -1, target |-> -1, raw |-> 0, slot |-> 0, sent |-> 0]
  /\ loop = [pc |-> "count", pendingCount |-> 0, active |-> 0, slot |-> 0,
             lastFlush |-> -1, backlog |-> FALSE, lastSkip |-> -1, did |-> FALSE]
  /\ worker = [pc |-> "idle", batch |-> << >>, slot |-> 0]
  /\ solvedIn = << >>
  /\ logged = {}
  /\ runner = [pc |-> "phase1", active |-> 0]
  /\ results = [rows |-> {}, late |-> << >>]

GeneratorRuns == runner.pc \in {"phase1", "phase2", "phase2 pending"}
SchedulerRuns == GeneratorRuns \/ runner.pc = "stop generator"

active_workers == IF worker.pc = "idle" THEN 0 ELSE 1

-----------------------------------------------------------------------------
(* The generator. *)

raw_slot == elapsed \div SlotTicks

\* Read the clock: catch up on every slot begun since the last look, or stop
\* once the horizon is over.
ReadClock ==
  /\ gen.pc = "check"
  /\ LET target == Min({raw_slot, LastSlot})
     IN IF ~ GeneratorRuns THEN gen' = [gen EXCEPT !.pc = "stopped"]
        ELSE IF target > gen.last
        THEN gen' = [gen EXCEPT !.pc = "emit", !.target = target, !.raw = raw_slot,
                                !.slot = gen.last + 1, !.sent = 0]
        ELSE /\ raw_slot >= TotalSlots
             /\ gen' = [gen EXCEPT !.pc = "stopped"]
  /\ UNCHANGED <<config, elapsed, processed, pending, loop, worker, solvedIn, logged,
                 runner, results>>

\* In real time only the slot the generator has caught up with is paced.
Paced == ~ SkipEmpty /\ gen.slot = gen.target

\* One chunk of the slot's requests, under one lock.
EmitChunk ==
  /\ gen.pc = "emit"
  /\ gen.sent < Len(Arrivals[gen.slot])
  /\ ~ (Paced /\ ~ GeneratorRuns)
  /\ LET size == IF Paced THEN RealtimeChunk ELSE BurstChunk
         upTo == Min({gen.sent + size, Len(Arrivals[gen.slot])})
     IN /\ pending' = pending \o SubSeq(Arrivals[gen.slot], gen.sent + 1, upTo)
        /\ gen' = [gen EXCEPT !.sent = upTo]
  /\ UNCHANGED <<config, elapsed, processed, loop, worker, solvedIn, logged, runner, results>>

\* All chunks are out, or the run was stopped while they were paced.
SetProcessed ==
  /\ gen.pc = "emit"
  /\ gen.sent = Len(Arrivals[gen.slot]) \/ (Paced /\ ~ GeneratorRuns)
  /\ processed' = gen.slot
  /\ gen' = [gen EXCEPT !.pc = "drain"]
  /\ UNCHANGED <<config, elapsed, pending, loop, worker, solvedIn, logged, runner, results>>

\* Mutant: after a catch-up only the slot of the clock is emitted.
WaitForDrainOnce ==
  /\ gen.pc = "drain"
  /\ pending = << >> \/ ~ GeneratorRuns \/ DrainTimesOut
  /\ gen' = IF gen.slot < gen.target
            THEN [gen EXCEPT !.pc = "emit", !.slot = gen.target, !.sent = 0]
            ELSE [gen EXCEPT !.last = gen.target,
                             !.pc = IF gen.raw >= TotalSlots THEN "stopped" ELSE "check"]
  /\ UNCHANGED <<config, elapsed, processed, pending, loop, worker, solvedIn, logged,
                 runner, results>>

\* Backpressure: the next slot waits until the queue has been drained.
WaitForDrain ==
  /\ gen.pc = "drain"
  /\ pending = << >> \/ ~ GeneratorRuns \/ DrainTimesOut
  /\ gen' = IF gen.slot < gen.target
            THEN [gen EXCEPT !.pc = "emit", !.slot = gen.slot + 1, !.sent = 0]
            ELSE [gen EXCEPT !.last = gen.target,
                             !.pc = IF gen.raw >= TotalSlots THEN "stopped" ELSE "check"]
  /\ UNCHANGED <<config, elapsed, processed, pending, loop, worker, solvedIn, logged,
                 runner, results>>

Generator == ReadClock \/ EmitChunk \/ SetProcessed \/ WaitForDrain

-----------------------------------------------------------------------------
(* The scheduler's main loop.  pendingCount and active are read once, at the *)
(* top; what the turn decides later uses them as they were.                  *)

CountPending ==
  /\ loop.pc = "count"
  /\ loop' = IF SchedulerRuns
             THEN [loop EXCEPT !.pc = "active", !.pendingCount = Len(pending)]
             ELSE [loop EXCEPT !.pc = "stopped"]
  /\ UNCHANGED <<config, elapsed, processed, pending, gen, worker, solvedIn, logged, runner, results>>

CountActive ==
  /\ loop.pc = "active"
  /\ loop' = [loop EXCEPT !.pc = "tick", !.active = active_workers]
  /\ UNCHANGED <<config, elapsed, processed, pending, gen, worker, solvedIn, logged, runner, results>>

system_busy == loop.pendingCount > 0 \/ loop.active > 0

\* Mutant: the slot of a clock beyond the horizon is not clamped.
TickUnclamped ==
  /\ loop.pc = "tick"
  /\ \E delta \in WallSteps :
       /\ elapsed + delta <= MaxElapsed
       /\ elapsed' = IF SkipEmpty /\ system_busy THEN elapsed ELSE elapsed + delta
  /\ loop' = [loop EXCEPT !.pc = "act", !.did = FALSE, !.slot = elapsed' \div SlotTicks]
  /\ UNCHANGED <<config, processed, pending, gen, worker, solvedIn, logged, runner, results>>

\* The clock follows the wall; offline it is frozen while there is work.
Tick ==
  /\ loop.pc = "tick"
  /\ \E delta \in WallSteps :
       /\ elapsed + delta <= MaxElapsed
       /\ elapsed' = IF SkipEmpty /\ system_busy THEN elapsed ELSE elapsed + delta
  /\ loop' = [loop EXCEPT !.pc = "act", !.did = FALSE,
                          !.slot = Min({elapsed' \div SlotTicks, LastSlot})]
  /\ UNCHANGED <<config, processed, pending, gen, worker, solvedIn, logged, runner, results>>

\* dispatch_batch_workers: claims at most a batch from the front of the queue,
\* at least minPending, for the one profile, unless it has a worker.
CanClaim(minPending) ==
  SchedulerRuns /\ worker.pc = "idle" /\ Len(pending) >= minPending

Dispatch(minPending) ==
  IF CanClaim(minPending)
  THEN LET n == Min({Len(pending), BatchSize})
       IN /\ worker' = [pc |-> "solve", batch |-> SubSeq(pending, 1, n), slot |-> loop.slot]
          /\ pending' = SubSeq(pending, n + 1, Len(pending))
  ELSE UNCHANGED <<worker, pending>>

HasFullBatch == Len(pending) >= BatchSize

DispatchFull ==
  /\ loop.pc = "act"
  /\ HasFullBatch /\ loop.active < Parallelism
  /\ Dispatch(BatchSize)
  /\ loop' = [loop EXCEPT !.pc = "count", !.did = CanClaim(BatchSize)]
  /\ UNCHANGED <<config, elapsed, processed, gen, solvedIn, logged, runner, results>>

\* A partial batch goes out once per slot, and again while some of what the
\* last flush saw is left.
FlushDue ==
  /\ ~ (HasFullBatch /\ loop.active < Parallelism)
  /\ loop.pendingCount > 0 /\ loop.active < Parallelism
  /\ loop.slot > loop.lastFlush \/ loop.backlog

Flush ==
  /\ loop.pc = "act"
  /\ FlushDue
  /\ Dispatch(1)
  /\ loop' = [loop EXCEPT !.pc = "backlog", !.did = CanClaim(1), !.lastFlush = loop.slot]
  /\ UNCHANGED <<config, elapsed, processed, gen, solvedIn, logged, runner, results>>

\* get_oldest_pending_age_ms: the virtual clock less the arrival_time, which
\* Request::new takes from the wall clock; saturating.
oldest_pending_age == Max({elapsed - UnixNow, 0})

TimeoutConsidered ==
  /\ ~ (HasFullBatch /\ loop.active < Parallelism)
  /\ ~ FlushDue
  /\ BatchTimeout > 0 /\ loop.pendingCount > 0 /\ loop.active < Parallelism

\* A partial batch also goes out when its oldest request has waited too long.
TimeoutFlush ==
  /\ loop.pc = "act"
  /\ TimeoutConsidered
  /\ IF pending # << >> /\ oldest_pending_age >= BatchTimeout
     THEN /\ Dispatch(1)
          /\ loop' = [loop EXCEPT !.pc = "backlog", !.did = CanClaim(1)]
     ELSE /\ loop' = [loop EXCEPT !.pc = "count"]
          /\ UNCHANGED <<worker, pending>>
  /\ UNCHANGED <<config, elapsed, processed, gen, solvedIn, logged, runner, results>>

\* has_retryable_profile_pending, read after the flush.
SetBacklog ==
  /\ loop.pc = "backlog"
  /\ loop' = [loop EXCEPT !.pc = "count", !.backlog = pending # << >>]
  /\ UNCHANGED <<config, elapsed, processed, pending, gen, worker, solvedIn, logged, runner, results>>

SkipDue ==
  /\ ~ (HasFullBatch /\ loop.active < Parallelism)
  /\ ~ FlushDue /\ ~ TimeoutConsidered
  /\ SkipEmpty /\ loop.pendingCount = 0 /\ loop.active = 0
  /\ loop.slot > loop.lastSkip
  /\ processed >= loop.slot

\* Jump to the next slot: this one has been emitted and drained.
Skip ==
  /\ loop.pc = "act"
  /\ SkipDue
  /\ elapsed' = (loop.slot + 1) * SlotTicks
  /\ loop' = [loop EXCEPT !.pc = "count", !.did = TRUE, !.lastSkip = loop.slot]
  /\ UNCHANGED <<config, processed, pending, gen, worker, solvedIn, logged, runner, results>>

\* None of the branches applies.
Idle ==
  /\ loop.pc = "act"
  /\ ~ (HasFullBatch /\ loop.active < Parallelism)
  /\ ~ FlushDue /\ ~ TimeoutConsidered /\ ~ SkipDue
  /\ loop' = [loop EXCEPT !.pc = "count"]
  /\ UNCHANGED <<config, elapsed, processed, pending, gen, worker, solvedIn, logged, runner, results>>

MainLoop ==
  \/ CountPending \/ CountActive \/ Tick \/ DispatchFull \/ Flush
  \/ TimeoutFlush \/ SetBacklog \/ Skip \/ Idle

-----------------------------------------------------------------------------
(* The batch worker: the only one of its profile, so its commit is never     *)
(* rolled back.  The row it logs and its release are separate steps.         *)

\* The solver can place a request in every slot of the horizon from the
\* batch's slot on; beyond the horizon it places nothing.
SolveAndCommit ==
  /\ worker.pc = "solve"
  /\ IF worker.slot < TotalSlots
     THEN /\ solvedIn' = [r \in Range(worker.batch) \cup DOMAIN solvedIn |->
              IF r \in Range(worker.batch) THEN worker.slot ELSE solvedIn[r]]
          /\ worker' = [worker EXCEPT !.pc = "log"]
          /\ UNCHANGED pending
     ELSE /\ pending' = worker.batch \o pending
          /\ worker' = [worker EXCEPT !.pc = "release"]
          /\ UNCHANGED solvedIn
  /\ UNCHANGED <<config, elapsed, processed, gen, loop, logged, runner, results>>

LogRows ==
  /\ worker.pc = "log"
  /\ logged' = logged \cup Range(worker.batch)
  /\ worker' = [worker EXCEPT !.pc = "release"]
  /\ UNCHANGED <<config, elapsed, processed, pending, gen, loop, solvedIn, runner, results>>

Release ==
  /\ worker.pc = "release"
  /\ worker' = [pc |-> "idle", batch |-> << >>, slot |-> 0]
  /\ UNCHANGED <<config, elapsed, processed, pending, gen, loop, solvedIn, logged, runner, results>>

Worker == SolveAndCommit \/ LogRows \/ Release

-----------------------------------------------------------------------------
(* The runner. *)

Goto(pc) == runner' = [runner EXCEPT !.pc = pc]

\* Phase 1: the generator has emitted every slot.
AwaitGenerator ==
  /\ runner.pc = "phase1"
  /\ processed >= LastSlot
  /\ Goto("phase2")
  /\ UNCHANGED <<config, elapsed, processed, pending, gen, loop, worker, solvedIn,
                 logged, results>>

\* Phase 2 reads the workers first and the queue afterwards.
ReadStatistics ==
  /\ runner.pc = "phase2"
  /\ runner' = [pc |-> "phase2 pending", active |-> active_workers]
  /\ UNCHANGED <<config, elapsed, processed, pending, gen, loop, worker, solvedIn,
                 logged, results>>

\* Mutant: phase 2 waits for the workers alone.
ReadWorkersOnly ==
  /\ runner.pc = "phase2 pending"
  /\ \/ runner.active = 0 /\ Goto("stop generator")
     \/ runner.active # 0 /\ Goto("phase2")
     \/ DrainTimesOut /\ Goto("stop generator")
  /\ UNCHANGED <<config, elapsed, processed, pending, gen, loop, worker, solvedIn,
                 logged, results>>

ReadPending ==
  /\ runner.pc = "phase2 pending"
  /\ \/ pending = << >> /\ runner.active = 0 /\ Goto("stop generator")
     \/ ~ (pending = << >> /\ runner.active = 0) /\ Goto("phase2")
     \/ DrainTimesOut /\ Goto("stop generator")
  /\ UNCHANGED <<config, elapsed, processed, pending, gen, loop, worker, solvedIn,
                 logged, results>>

\* Both stop calls clear the running flag and join their thread.
StopGenerator ==
  /\ runner.pc = "stop generator"
  /\ gen.pc = "stopped"
  /\ Goto("stop scheduler")
  /\ UNCHANGED <<config, elapsed, processed, pending, gen, loop, worker, solvedIn,
                 logged, results>>

\* BatchScheduler::stop also waits for the workers, but not for ever.
StopScheduler ==
  /\ runner.pc = "stop scheduler"
  /\ loop.pc = "stopped"
  /\ worker.pc = "idle" \/ StopTimesOut
  /\ Goto("collect")
  /\ UNCHANGED <<config, elapsed, processed, pending, gen, loop, worker, solvedIn,
                 logged, results>>

\* compute_per_request works from the rows of the assignments file.
ReadRows ==
  /\ runner.pc = "collect"
  /\ results' = [results EXCEPT !.rows = logged]
  /\ Goto("drain")
  /\ UNCHANGED <<config, elapsed, processed, pending, gen, loop, worker, solvedIn, logged>>

\* schedule_late_requests: what is left in the queue goes to its deadline.
ScheduleLate ==
  /\ runner.pc = "drain"
  /\ results' = [results EXCEPT !.late =
       [r \in Range(pending) |-> Min({Max({Deadline[r], ArrivalSlot(r)}), LastSlot})]]
  /\ pending' = << >>
  /\ Goto("done")
  /\ UNCHANGED <<config, elapsed, processed, gen, loop, worker, solvedIn, logged>>

Runner ==
  \/ AwaitGenerator \/ ReadStatistics \/ ReadPending \/ StopGenerator
  \/ StopScheduler \/ ReadRows \/ ScheduleLate

-----------------------------------------------------------------------------
(* Specification. *)

Next == Generator \/ MainLoop \/ Worker \/ Runner

Spec == Init /\ [][Next]_vars

\* The operating system runs every thread, and the wall clock does not stop:
\* a turn of the main loop with an unfrozen clock is now and then given time.
FairSpec ==
  /\ Spec
  /\ WF_vars(Generator) /\ WF_vars(MainLoop) /\ WF_vars(Worker) /\ WF_vars(Runner)
  /\ SF_vars(Tick /\ elapsed' > elapsed)

-----------------------------------------------------------------------------
(* Properties. *)

Done == runner.pc = "done"

\* Types of the variables.
TypeOK ==
  /\ config \in Configs
  /\ elapsed \in 0 .. Max({MaxElapsed, TotalSlots * SlotTicks})
  /\ processed \in -1 .. LastSlot
  /\ pending \in Seq(Requests)
  /\ gen.slot \in Slots /\ gen.last <= gen.target /\ gen.target \in -1 .. LastSlot
  /\ loop.slot \in Slots /\ loop.active \in {0, 1}
  /\ worker.pc \in {"idle", "solve", "log", "release"}
  /\ Len(worker.batch) <= BatchSize
  /\ DOMAIN solvedIn \subseteq Requests /\ logged \subseteq DOMAIN solvedIn

Queued == Range(pending) \cup (IF worker.pc = "solve" THEN Range(worker.batch) ELSE {})
          \cup DOMAIN results.late

\* No slot is dropped when the clock has jumped over it: the requests of every
\* slot the generator has processed, and of no later slot than the one it is
\* in, have been queued, and each is in one place (generator.rs 175-183).
EverySlotEmitted ==
  /\ \A s \in 0 .. processed : Range(Arrivals[s]) \subseteq Queued \cup DOMAIN solvedIn
  /\ \A r \in Queued \cup DOMAIN solvedIn : ArrivalSlot(r) <= gen.slot
  /\ Queued \cap DOMAIN solvedIn = {}
  /\ IsInjective(pending)

\* No batch is solved in a slot before the arrival of one of its requests, nor
\* beyond the horizon, whatever the clock did in between.
SolvedFromArrivalOn ==
  \A r \in DOMAIN solvedIn : ArrivalSlot(r) <= solvedIn[r] /\ solvedIn[r] <= LastSlot

\* The scenario is replayed: nothing is skipped, nothing runs ahead of the clock.
ScenarioReplayed == TypeOK /\ EverySlotEmitted /\ SolvedFromArrivalOn

\* A run reports each of its requests exactly once, the late ones included
\* ("this runs after late scheduling so the numbers are always 100%",
\* nshift/main.rs 1793-1795), and schedules none late unless a limit struck; only
\* the batch a stop gave up waiting for is missing, one batch at most.
NumbersAlways100 ==
  Done => /\ results.rows \cap DOMAIN results.late = {}
          /\ Cardinality(Requests \ (results.rows \cup DOMAIN results.late))
               <= IF config.stopLimit THEN BatchSize ELSE 0
          /\ ~ config.drainLimit => results.late = << >>

\* With batches of one and no limit striking every offline run ends, with every
\* request solved: the clock, frozen while there is work, does not starve the
\* generator (scheduler.rs 334-338).
RunEnds ==
  config.skip /\ config.batchSize = 1 /\ ~ config.drainLimit =>
    <>(Done /\ results.rows = Requests)
==============================================================================
