----------------------------- MODULE NshiftStudy -----------------------------
(***************************************************************************)
(* The N-shift benchmark (main of rust/src/bin/nshift/main.rs): strategies  *)
(* are run one after the other on copies of one scenario, each from a fresh *)
(* state, and each ends in the same tables.  A behaviour is one of those    *)
(* runs: the batch scheduler with one of its solvers (RunReport) or a       *)
(* whole-scenario strategy (OfflineStrategies).                             *)
(***************************************************************************)
EXTENDS OfflineStrategies

CONSTANTS
  BatchSize,      \* batch_size
  LockFuture,     \* SolverConfig::dp_lock_future_assignments
  MaxRuns         \* bound: solver runs that commit

ASSUME StudyAssumption ==
  BatchSize \in Nat \ {0} /\ LockFuture \in BOOLEAN /\ MaxRuns \in Nat

\* See RunReport.
VARIABLES
  slot, pending, hand, committed, runs, log, runner, left, runsRead, perRequest, report

Online == INSTANCE RunReport WITH Flavours <- Names, LeastError <- fallback_flav

onlineVars == << slot, pending, hand, committed, runs, log, runner, left, runsRead,
                 perRequest >>

StudyInit == Init /\ Online!Init

\* DP and greedy of the batch-size sweep, bandit and colony of the online strategies.
OnlineStep ==
  /\ strategy \in BatchRuns
  /\ Online!Next
  /\ UNCHANGED << strategy, passVars, learned, antVars, phase >>

OfflineStep == Next /\ UNCHANGED << onlineVars, report >>

\* Every request is a batch of its own.  Swarm strategies and the baseline write a
\* lateness of zero; greedy cheapest computes it.
convert_swarm_to_outputs ==
  /\ phase = "done" /\ report = << >>
  /\ LET late(i) == IF strategy = "greedy_cheapest"
                    THEN Max({rows[i].slot - requests[i].deadline, 0}) ELSE 0
         table == [i \in DOMAIN rows |->
                     [slot |-> rows[i].slot, flavour |-> rows[i].flavour,
                      batch |-> i, lateness |-> late(i)]]
     IN report' = [rows |-> table,
                   slots |-> Online!compute_per_timeslot(table, WindowPast, WindowFuture),
                   summary |-> Online!compute_summary(table, Len(rows), table)]
  /\ UNCHANGED << vars, onlineVars >>

StudyNext == OnlineStep \/ OfflineStep \/ convert_swarm_to_outputs

StudySpec == StudyInit /\ [][StudyNext]_<< vars, onlineVars, report >>

-----------------------------------------------------------------------------
(* Properties. *)

Reported == report # << >>
TheRun == strategy \in BatchRuns

\* Types of both kinds of run.
StudyTypeOK == TypeOK /\ Online!TypeOK

\* "the numbers are always 100%": a whole-scenario strategy reports every request
\* once.  A batch scheduler's run does too if the worker was idle when stop
\* returned; if stop gave up, the batch in the worker's hands may be missing, and
\* nothing else.
EveryRequestReported ==
  IF TheRun THEN Online!OnlyWhatStopLeft /\ Online!DrainedHaveNoBatch
  ELSE /\ DOMAIN report.rows = DOMAIN requests
       /\ report.summary.scheduled = Len(requests) /\ report.summary.unscheduled = 0

\* The tables are complete: every request is in them once, but for those of a batch
\* that stop abandoned, in a slot from its arrival to the end of the horizon, and
\* the average of a slot is over the rows its window holds and no others.
TablesComplete ==
  /\ StudyTypeOK
  /\ Reported =>
       /\ EveryRequestReported
       /\ \A r \in DOMAIN report.rows :
            report.rows[r].slot \in requests[r].arrival .. TotalSlots - 1
       /\ Online!WindowsHoldEveryRow

Drained(r) == TheRun /\ r \notin Online!Committed

\* A row's reported lateness is how far its slot is past its deadline.  A drained
\* request reports at least that, since it waited until the run ended; the baseline,
\* the bandit and the colony always report zero, so there a request whose deadline
\* precedes its arrival, and no other, is shown as on time although it is late.
LatenessTold ==
  \A r \in DOMAIN report.rows :
    LET past == Max({report.rows[r].slot - requests[r].deadline, 0})
        told == report.rows[r].lateness
    IN IF Drained(r) THEN told >= past
       ELSE \/ told = past
            \/ /\ strategy \in {"greedy_baseline", "bandit", "ant_colony"}
               /\ requests[r].deadline < requests[r].arrival /\ told = 0

\* The tables tell the truth about lateness: besides, a request that a worker
\* committed is late only when its batch was claimed after the deadline, and then it
\* runs in the very slot it was claimed in (bandit and colony: when the deadline
\* precedes the arrival, and at the arrival), so that neither the cap of the error
\* window nor a later move makes a request late; and where nothing moves, a row
\* shows the plan that is committed.
TablesTruthful ==
  Reported =>
    /\ LatenessTold
    /\ TheRun => Online!LateOnlyWhenClaimedLate /\ Online!ShownAsPlanned
=============================================================================
