------------------------------ MODULE RunReport ------------------------------
(***************************************************************************)
(* From the solver's logs to the benchmark's tables: run_single_n of         *)
(* rust/src/bin/nshift/main.rs, the batch worker it runs and the rows that   *)
(* worker logs.                                                              *)
(*                                                                           *)
(* A worker claims a batch, commits a plan, and logs the run and a row per   *)
(* assignment, each in a step of its own.  The runner stops the scheduler,   *)
(* reads both files, drains what is still pending and prices every committed *)
(* request again, by its rank among the committed requests of its slot.      *)
(* Stopping waits five seconds for the worker and then goes on without it.   *)
(*                                                                           *)
(* The solver is left open.  DP and greedy may plan a request anywhere       *)
(* between the slot it was claimed in and its deadline and, when future      *)
(* assignments are not locked, move those already made; bandit and ant       *)
(* colony plan anywhere from its arrival on and move nothing.                *)
(* Scenario requests have one QoS profile, so one worker is busy at a time;  *)
(* a plan that the commit refuses is made again from the same state, which   *)
(* is a choice of another plan here.  A cost is represented by the position  *)
(* it is charged at.                                                         *)
(***************************************************************************)
EXTENDS Integers, Sequences, FiniteSets, FiniteSetsExt, Functions, SequencesExt

CONSTANTS
  TotalSlots,     \* AssignmentPolicy::total_slots
  MaxFuture,      \* AssignmentPolicy::assignment_max_future_slots
  Flavours,       \* AssignmentPolicy::flavours
  LeastError,     \* the flavour of least error
  WindowPast,     \* AssignmentPolicy::error_window_past
  WindowFuture,   \* AssignmentPolicy::error_window_future
  BatchSize,      \* batch_size
  LockFuture,     \* SolverConfig::dp_lock_future_assignments
  MaxRuns         \* bound: solver runs that commit

Slots == 0 .. TotalSlots - 1
LastSlot == TotalSlots - 1

VARIABLES
  strategy,    \* solver_strategy: "online_swarm" for bandit and colony
  requests,    \* the scenario: [arrival, deadline] records, indexed by request id
  slot,        \* the virtual clock
  pending,     \* Inner::pending
  hand,        \* the worker: its stage, batch, slot of the claim, rows not yet logged
  committed,   \* Inner::assignments: request -> [slot, flavour, deadline], partial
  runs,        \* the runs file: [slot, size, new] by run_sequence
  log,         \* the assignments file: [request, slot, flavour, current, run, isNew]
  runner,      \* run_single_n: "running", "stopped", "runsRead", "rowsRead"
  left,        \* auxiliary: the batch the worker still held when stop gave up on it
  runsRead,    \* the runs file as it was read
  perRequest,  \* the rows kept of the assignments file as it was read
  report       \* the tables, << >> before

scenario == << strategy, requests >>
work == << slot, pending, hand, committed, runs, log >>
reading == << runner, left, runsRead, perRequest >>
vars == << scenario, work, reading, report >>

Requests == DOMAIN requests
ArrivalOf(r) == requests[r].arrival
DeadlineOf(r) == requests[r].deadline
Swarm == strategy = "online_swarm"

Committed == DOMAIN committed
Plan == [slot : Slots, flavour : Flavours]
Idle == [stage |-> "idle", batch |-> {}, slot |-> 0, rows |-> << >>]

-----------------------------------------------------------------------------
(* What a solver may plan.  The worker's slot is that of its claim. *)

\* Assignments of the claim's slot on may be planned again when not locked.
Movable ==
  IF LockFuture \/ Swarm THEN {} ELSE {r \in Committed : committed[r].slot >= hand.slot}

\* A re-planned assignment carries the deadline its solve was given.
Deadline(r) == IF r \in Committed THEN committed[r].deadline ELSE DeadlineOf(r)

\* Mutant: the deadline is not looked at.
CapToHorizon(r) == Min({hand.slot + WindowFuture, LastSlot})

\* An expired deadline becomes the claim's slot, a distant one the end of the
\* error window.
cap_deadline(r) ==
  Min({Max({Deadline(r), hand.slot}), hand.slot + WindowFuture, LastSlot})

\* Bandit and colony: from the arrival, wherever the clock is.
valid_slots(r) ==
  ArrivalOf(r) .. Max({ArrivalOf(r),
                       Min({DeadlineOf(r), ArrivalOf(r) + MaxFuture, LastSlot})})

\* Where a request may be planned, moved or new; never nowhere.
Open(r) ==
  IF Swarm THEN valid_slots(r) ELSE Max({ArrivalOf(r), hand.slot}) .. cap_deadline(r)

\* One row per assignment, ordered by slot and request; only the batch's own
\* requests are marked new.
build_assignment_rows(plan, batch, run) ==
  LET Before(a, b) == \/ plan[a].slot < plan[b].slot
                      \/ plan[a].slot = plan[b].slot /\ a < b
      order == [i \in 1 .. Cardinality(DOMAIN plan) |->
                  CHOOSE r \in DOMAIN plan :
                    Cardinality({q \in DOMAIN plan : q = r \/ Before(q, r)}) = i]
  IN [i \in DOMAIN order |->
        [request |-> order[i], slot |-> plan[order[i]].slot,
         flavour |-> plan[order[i]].flavour, current |-> hand.slot, run |-> run,
         isNew |-> order[i] \in batch]]

-----------------------------------------------------------------------------
(* The run.  Nothing after the report is read again, so it ends there. *)

Arrived == {r \in pending : ArrivalOf(r) <= slot}

\* A batch is taken off the front of the queue, a full one or what there is.
FrontBatch(batch) ==
  /\ batch # {} /\ Cardinality(batch) <= BatchSize
  /\ \A r \in batch, q \in Arrived \ batch : r < q

\* The main loop claims for the worker while it runs.
Claim ==
  /\ report = << >> /\ runner = "running" /\ hand = Idle /\ Len(runs) < MaxRuns
  /\ \E batch \in SUBSET Arrived :
       /\ FrontBatch(batch)
       /\ pending' = pending \ batch
       /\ hand' = [stage |-> "solving", batch |-> batch, slot |-> slot, rows |-> << >>]
  /\ UNCHANGED << scenario, slot, committed, runs, log, reading, report >>

\* A plan is made and committed; what the log will say of it is settled.  Nobody else
\* commits in between.
Commit ==
  /\ report = << >> /\ hand.stage = "solving"
  /\ \E plan \in [hand.batch \cup Movable -> Plan] :
       /\ \A r \in DOMAIN plan : plan[r].slot \in Open(r)
       /\ committed' = [r \in Committed \cup DOMAIN plan |->
            IF r \in DOMAIN plan
            THEN [slot |-> plan[r].slot, flavour |-> plan[r].flavour,
                  deadline |-> IF r \in hand.batch THEN DeadlineOf(r) ELSE cap_deadline(r)]
            ELSE committed[r]]
       /\ hand' = [hand EXCEPT !.stage = "committed",
                     !.rows = build_assignment_rows(plan, hand.batch, Len(runs) + 1)]
  /\ UNCHANGED << scenario, slot, pending, runs, log, reading, report >>

\* log_solver_run: the run's own row first,
LogRun ==
  /\ report = << >> /\ hand.stage = "committed"
  /\ runs' = Append(runs, [slot |-> hand.slot, size |-> Cardinality(hand.batch),
                           new |-> Cardinality(hand.batch)])
  /\ hand' = [hand EXCEPT !.stage = "logging"]
  /\ UNCHANGED << scenario, slot, pending, committed, log, reading, report >>

\* then a row per assignment; a reader may come between two of them.
LogAssignment ==
  /\ report = << >> /\ hand.stage = "logging" /\ hand.rows # << >>
  /\ log' = Append(log, Head(hand.rows))
  /\ hand' = [hand EXCEPT !.rows = Tail(hand.rows)]
  /\ UNCHANGED << scenario, slot, pending, committed, runs, reading, report >>

\* The worker gives its place back.
Release ==
  /\ report = << >> /\ hand.stage = "logging" /\ hand.rows = << >>
  /\ hand' = Idle
  /\ UNCHANGED << scenario, slot, pending, committed, runs, log, reading, report >>

Tick ==
  /\ report = << >> /\ runner = "running" /\ slot < LastSlot
  /\ slot' = slot + 1
  /\ UNCHANGED << scenario, pending, hand, committed, runs, log, reading, report >>

-----------------------------------------------------------------------------
(* The tables. *)

\* A row is read when it is marked new.
NewRows(r) == {i \in DOMAIN log : log[i].request = r /\ log[i].isNew}

\* The request's first new row decides what is reported of it; a run that was not
\* in the runs file when that was read has the number 0.
compute_per_request ==
  [r \in {q \in Requests : NewRows(q) # {}} |->
     LET row == log[Min(NewRows(r))]
     IN [slot |-> row.slot, flavour |-> row.flavour, position |-> 0,
         queueWait |-> Max({row.current - ArrivalOf(r), 0}),
         finalWait |-> Max({row.slot - ArrivalOf(r), 0}),
         batch |-> IF row.run \in DOMAIN runsRead THEN row.run ELSE 0,
         lateness |-> Max({row.slot - DeadlineOf(r), 0})]]

LateSlot(r) == Min({Max({DeadlineOf(r), ArrivalOf(r)}), LastSlot})

\* By deadline, arrival and id.
LateBefore(a, b) ==
  \/ DeadlineOf(a) < DeadlineOf(b)
  \/ DeadlineOf(a) = DeadlineOf(b) /\ ArrivalOf(a) < ArrivalOf(b)
  \/ DeadlineOf(a) = DeadlineOf(b) /\ ArrivalOf(a) = ArrivalOf(b) /\ a <= b

\* What was drained, each priced by its rank among the drained of its slot.
schedule_late_requests(remaining) ==
  [r \in remaining |->
     [slot |-> LateSlot(r), flavour |-> LeastError,
      position |-> Cardinality({q \in remaining : LateSlot(q) = LateSlot(r)
                                                  /\ LateBefore(q, r)}),
      queueWait |-> Max({LateSlot(r) - ArrivalOf(r), 0}),
      finalWait |-> Max({LateSlot(r) - ArrivalOf(r), 0}),
      batch |-> 0,
      lateness |-> Max({LastSlot - DeadlineOf(r), 0})]]

\* A committed request's rank in its slot, by id.
Rank(r) ==
  Cardinality({q \in Committed : committed[q].slot = committed[r].slot /\ q <= r})

\* Only the cost of a row is corrected; slot and flavour stay as logged.
recompute_carbon_costs(rows) ==
  [r \in DOMAIN rows |->
     IF r \in Committed THEN [rows[r] EXCEPT !.position = Rank(r)] ELSE rows[r]]

\* The rows whose errors are averaged in the window of each slot: they are grouped
\* by slot, and the groups from past to future are strung together.
compute_per_timeslot(rows, past, future) ==
  LET grouped == [s \in {rows[r].slot : r \in DOMAIN rows} |->
                    {r \in DOMAIN rows : rows[r].slot = s}]
  IN [t \in Slots |->
        UNION {grouped[s] : s \in DOMAIN grouped \cap (t - past .. t + future)}]

compute_batch_timings ==
  [i \in DOMAIN runsRead |->
     [slot |-> runsRead[i].slot, effective |-> runsRead[i].new,
      flushPartial |-> runsRead[i].size < BatchSize]]

\* The scheduled are the rows of the list, should a request be in it twice.
compute_summary(rows, scheduled, timings) ==
  [scheduled |-> scheduled,
   unscheduled |-> Max({Len(requests) - scheduled, 0}),
   late |-> Cardinality({r \in DOMAIN rows : rows[r].lateness > 0}),
   maxLateness |-> Max({0} \cup {rows[r].lateness : r \in DOMAIN rows}),
   batches |-> Len(timings)]

-----------------------------------------------------------------------------
(* The runner. *)

\* Every request has been emitted, so the clock is in the last slot; stop joins the
\* main loop and returns when the worker is idle or five seconds have passed, in
\* whatever stage the worker is.  The wait for an empty queue before it ends after
\* 60 s, so something may still be pending.
Stop ==
  /\ report = << >> /\ runner = "running" /\ slot = LastSlot
  /\ runner' = "stopped" /\ left' = hand.batch
  /\ UNCHANGED << scenario, work, runsRead, perRequest, report >>

\* Mutant: the files are read without stopping the scheduler.
ReadRunsUnstopped ==
  /\ report = << >> /\ runner \in {"running", "stopped"} /\ slot = LastSlot
  /\ runner' = "runsRead" /\ runsRead' = runs
  /\ UNCHANGED << scenario, work, left, perRequest, report >>

ReadRuns ==
  /\ report = << >> /\ runner = "stopped"
  /\ runner' = "runsRead" /\ runsRead' = runs
  /\ UNCHANGED << scenario, work, left, perRequest, report >>

ReadAssignments ==
  /\ report = << >> /\ runner = "runsRead"
  /\ runner' = "rowsRead" /\ perRequest' = compute_per_request
  /\ UNCHANGED << scenario, work, left, runsRead, report >>

\* Pending requests are drained, rows priced by what is committed now, and counted.
Report ==
  /\ report = << >> /\ runner = "rowsRead"
  /\ LET late == schedule_late_requests(pending)
         rows == recompute_carbon_costs(
                   [r \in DOMAIN perRequest \cup DOMAIN late |->
                      IF r \in DOMAIN perRequest THEN perRequest[r] ELSE late[r]])
         listed == Cardinality(DOMAIN perRequest) + Cardinality(DOMAIN late)
     IN report' = [rows |-> rows,
                   slots |-> compute_per_timeslot(rows, WindowPast, WindowFuture),
                   summary |-> compute_summary(rows, listed, compute_batch_timings)]
  /\ pending' = {}
  /\ UNCHANGED << scenario, slot, hand, committed, runs, log, reading >>

\* The scenario is loaded; every request waits.
Init ==
  /\ slot = 0 /\ pending = Requests /\ hand = Idle /\ committed = << >>
  /\ runs = << >> /\ log = << >>
  /\ runner = "running" /\ left = {} /\ runsRead = << >> /\ perRequest = << >>
  /\ report = << >>

Next ==
  \/ Claim \/ Commit \/ LogRun \/ LogAssignment \/ Release \/ Tick
  \/ Stop \/ ReadRuns \/ ReadAssignments \/ Report

Spec == Init /\ [][Next]_vars

-----------------------------------------------------------------------------
(* What the tables should say; the properties are stated in NshiftStudy. *)

Rows == report.rows

\* Types; a request is pending, in the worker's hands or committed or, once
\* reported, drained.
TypeOK ==
  /\ slot \in Slots /\ pending \subseteq Requests
  /\ hand.stage \in {"idle", "solving", "committed", "logging"}
  /\ hand.batch \subseteq Requests /\ hand.slot \in 0 .. slot
  /\ Committed \subseteq Requests
  /\ \A r \in Committed :
       committed[r] \in [slot : Slots, flavour : Flavours, deadline : Nat]
  /\ pending \cap Committed = {} /\ pending \cap hand.batch = {}
  /\ hand.stage = "solving" => hand.batch \cap Committed = {}
  /\ \A i \in DOMAIN log : log[i].request \in Committed /\ log[i].slot \in Slots
  /\ runner \in {"running", "stopped", "runsRead", "rowsRead"}

\* The list and the tables lose no request but those of one batch, the one stop
\* left in the worker's hands, and show none twice.
OnlyWhatStopLeft ==
  /\ Requests \ left \subseteq DOMAIN Rows /\ DOMAIN Rows \subseteq Requests
  /\ Cardinality(left) <= BatchSize
  /\ report.summary.scheduled = Cardinality(DOMAIN Rows)
  /\ report.summary.scheduled + report.summary.unscheduled = Len(requests)

\* Batch 0 stands for the drained, and for the batch stop left behind if its rows
\* were still read.
DrainedHaveNoBatch ==
  \A r \in DOMAIN Rows :
    /\ r \notin Committed => Rows[r].batch = 0
    /\ Rows[r].batch = 0 => r \notin Committed \/ r \in left

\* A row is averaged at the slots whose window holds its slot, and at no other.
WindowsHoldEveryRow ==
  \A t \in Slots, r \in Requests :
    r \in report.slots[t] <=>
      r \in DOMAIN Rows /\ t \in Rows[r].slot - WindowFuture .. Rows[r].slot + WindowPast

LateOnlyWhenClaimedLate ==
  \A r \in DOMAIN Rows \cap Committed :
    /\ Rows[r].lateness > 0 =>
         IF Swarm THEN DeadlineOf(r) < ArrivalOf(r) /\ Rows[r].finalWait = 0
         ELSE /\ ArrivalOf(r) + Rows[r].queueWait > DeadlineOf(r)
              /\ Rows[r].queueWait = Rows[r].finalWait
    /\ committed[r].slot > DeadlineOf(r) => Rows[r].lateness > 0

\* Where nothing is moved, a row shows the slot and the flavour that are committed
\* and its slot charges each position once.
ShownAsPlanned ==
  LockFuture \/ Swarm =>
    \A r \in DOMAIN Rows \cap Committed :
      /\ Rows[r].slot = committed[r].slot /\ Rows[r].flavour = committed[r].flavour
      /\ \A q \in DOMAIN Rows \cap Committed :
           q < r /\ Rows[q].slot = Rows[r].slot => Rows[q].position < Rows[r].position
=============================================================================
