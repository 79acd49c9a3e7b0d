------------------------------ MODULE QosLedger ------------------------------
(***************************************************************************)
(* The error accounts of SharedState (rust/src/engine/shared_state.rs): a    *)
(* running sum per QoS profile and one for the fleet, fed by commits and     *)
(* corrected by the executor's callbacks (executor_callback in               *)
(* rust/src/service/handlers.rs).  Solver workers read a profile's average   *)
(* from a snapshot, lose their slow flavours' alternatives when it is above  *)
(* the threshold (hard constraint), and commit later.                        *)
(*                                                                           *)
(* Each lock acquisition is a step.  Where and with which allowed flavour a  *)
(* batch is planned is left open.  Errors are integers; a flavour is its     *)
(* predicted error.  A cost counts how often it was multiplied by the ratio  *)
(* of measured to forecast.                                                  *)
(***************************************************************************)
EXTENDS Integers, FiniteSets, FiniteSetsExt, Functions, SequencesExt

CONSTANTS
  Requests,
  Profiles,
  ProfileOf,       \* qos_profile_id each request was submitted with
  TotalSlots,
  Flavours,        \* predicted errors
  ActualErrors,    \* errors an executor may report
  MaxError,        \* max_error_threshold
  Policies,        \* configurations to check, one chosen initially
  Workers,         \* solver workers
  Calls            \* callback deliveries, duplicates included

Slots == 0 .. TotalSlots - 1

ASSUME LedgerAssumption ==
  /\ ProfileOf \in [Requests -> Profiles]
  /\ TotalSlots \in Nat \ {0}
  /\ Flavours \subseteq Nat /\ Flavours # {} /\ ActualErrors \subseteq Nat
  /\ MaxError \in Nat
  /\ Policies \subseteq [hard : BOOLEAN, lock : BOOLEAN, batchSize : Nat \ {0}]
  /\ IsFiniteSet(Workers) /\ IsFiniteSet(Requests) /\ IsFiniteSet(Flavours)

VARIABLES
  policy,        \* the configuration of this life of the program
  slot,          \* current_slot
  pending,       \* Inner::pending
  assignments,   \* Inner::assignments: request -> [profile, slot, error, cost], partial
  profileStats,  \* profile_error_stats: [sum, count] per profile
  global,        \* global_error_sum, global_assignment_count
  worker,        \* what each worker is solving: [profile, batch, moved, allowed], partial
  received,      \* requests with executor_callback_received
  call,          \* progress of each delivery: [pc, request, actual, cost]
  reported       \* tracked.actual_error_pct: request -> error, partial

vars == << policy, slot, pending, assignments, profileStats, global, worker,
           received, call, reported >>
fixed == << policy, slot >>
ledger == << assignments, profileStats, global >>

HardConstraint == policy.hard    \* global_error_constraint_enabled and _hard
LockFuture == policy.lock        \* dp_lock_future_assignments
BatchSize == policy.batchSize    \* batch_size

Assigned == DOMAIN assignments
Busy == DOMAIN worker
InFlight == UNION {worker[w].batch : w \in Busy}
ActiveProfiles == {worker[w].profile : w \in Busy}

-----------------------------------------------------------------------------

NoStats == [sum |-> 0, count |-> 0]
Idle == [pc |-> "idle"]

Init ==
  /\ policy \in Policies
  /\ slot = 0 /\ pending = Requests /\ assignments = << >>
  /\ profileStats = [p \in Profiles |-> NoStats] /\ global = NoStats
  /\ worker = << >> /\ received = {} /\ reported = << >>
  /\ call = [c \in Calls |-> Idle]

Plus(stats, error, n) == [sum |-> stats.sum + error, count |-> stats.count + n]

-----------------------------------------------------------------------------
(* Solving. *)

\* get_profile_error_stats: the average is above the threshold.
Overspent(p) ==
  profileStats[p].count > 0 /\ profileStats[p].sum > MaxError * profileStats[p].count

\* The hard constraint leaves the flavours within the threshold, never none.
AllowedFlavours(p) ==
  LET modest == {e \in Flavours : e <= MaxError}
  IN IF HardConstraint /\ Overspent(p) /\ modest # {} THEN modest ELSE Flavours

\* The profile's assignments of the current slot on join the solve if unlocked.
Movable(p) ==
  IF LockFuture THEN {}
  ELSE {r \in Assigned : assignments[r].profile = p /\ assignments[r].slot >= slot}

\* What the solve works from.
Solve(p, batch) ==
  [profile |-> p, batch |-> batch, moved |-> Movable(p), allowed |-> AllowedFlavours(p)]

\* Mutant: the batch is copied, not taken, from the queue.
ClaimCopies(w, p, batch) ==
  /\ UNCHANGED pending
  /\ worker' = [v \in Busy \cup {w} |-> IF v = w THEN Solve(p, batch) ELSE worker[v]]
  /\ UNCHANGED << fixed, ledger, received, call, reported >>

Claim(w, p, batch) ==
  /\ pending' = pending \ batch
  /\ worker' = [v \in Busy \cup {w} |-> IF v = w THEN Solve(p, batch) ELSE worker[v]]
  /\ UNCHANGED << fixed, ledger, received, call, reported >>

BatchesOf(p) ==
  {b \in SUBSET {r \in pending : ProfileOf[r] = p} : Cardinality(b) \in 1 .. BatchSize}

\* Mutant: the profile is not reserved while a worker solves for it.
PrepareUnreserved(w) ==
  /\ w \notin Busy
  /\ \E p \in Profiles : \E batch \in BatchesOf(p) : Claim(w, p, batch)

\* A batch of one profile is claimed, the profile reserved, and everything the
\* solve reads is read under one lock (snapshot_for_solver).
Prepare(w) ==
  /\ w \notin Busy
  /\ \E p \in Profiles \ ActiveProfiles : \E batch \in BatchesOf(p) : Claim(w, p, batch)

\* record_assignment: a request feeds the sums when it is first assigned; a
\* re-planned one replaces its assignment and keeps the sums and its profile.
record_assignment(plan) ==
  LET new == DOMAIN plan \ Assigned
      newOf(p) == {r \in new : plan[r].profile = p}
  IN /\ assignments' = [r \in Assigned \cup DOMAIN plan |->
                          IF r \notin DOMAIN plan THEN assignments[r]
                          ELSE IF r \in new THEN plan[r]
                          ELSE [plan[r] EXCEPT !.profile = assignments[r].profile]]
     /\ profileStats' = [p \in Profiles |->
                           Plus(profileStats[p],
                                SumFunction([r \in newOf(p) |-> plan[r].error]),
                                Cardinality(newOf(p)))]
     /\ global' = Plus(global, SumFunction([r \in new |-> plan[r].error]), Cardinality(new))

\* The batch and what it may move are committed with any slot from now on and
\* any flavour that was allowed when the solve was prepared.
Commit(w) ==
  /\ w \in Busy
  /\ LET job == worker[w]
         solved == job.batch \cup job.moved
     IN \E where \in [solved -> slot .. TotalSlots - 1], errors \in [solved -> job.allowed] :
          record_assignment(
            [r \in solved |-> [profile |-> job.profile, slot |-> where[r],
                               error |-> errors[r], cost |-> 0]])
  /\ worker' = Restrict(worker, Busy \ {w})
  /\ UNCHANGED << fixed, pending, received, call, reported >>

\* The barrier lets the slot end only when no batch is in flight.
Tick ==
  /\ slot < TotalSlots - 1 /\ Busy = {}
  /\ slot' = slot + 1
  /\ UNCHANGED << policy, pending, ledger, worker, received, call, reported >>

-----------------------------------------------------------------------------
(* Callbacks. *)

\* An assignment whose slot has begun is dispatched and may be called back about.
Dispatched == {r \in Assigned : assignments[r].slot <= slot}

\* Mutant: a second delivery is handled like the first.
ClaimAgain(c) ==
  /\ call[c] = Idle
  /\ \E r \in Dispatched, actual \in ActualErrors :
       /\ received' = received \cup {r}
       /\ call' = [call EXCEPT ![c] =
            [pc |-> "correct", request |-> r, actual |-> actual, cost |-> 0]]
  /\ UNCHANGED << fixed, pending, ledger, worker, reported >>

\* The first delivery for a request claims it; a later one is answered and ends.
ClaimCallback(c) ==
  /\ call[c] = Idle
  /\ \E r \in Dispatched, actual \in ActualErrors :
       IF r \in received
       THEN /\ call' = [call EXCEPT ![c] = [pc |-> "done"]]
            /\ UNCHANGED received
       ELSE /\ received' = received \cup {r}
            /\ call' = [call EXCEPT ![c] =
                 [pc |-> "correct", request |-> r, actual |-> actual, cost |-> 0]]
  /\ UNCHANGED << fixed, pending, ledger, worker, reported >>

\* Mutant: the profile's sum is not corrected.
CorrectFleetOnly(c) ==
  /\ call[c].pc = "correct"
  /\ LET r == call[c].request
         delta == call[c].actual - assignments[r].error
     IN /\ assignments' = [assignments EXCEPT ![r].error = call[c].actual]
        /\ global' = Plus(global, delta, 0)
        /\ UNCHANGED profileStats
  /\ call' = [call EXCEPT ![c].pc = "read"]
  /\ UNCHANGED << fixed, pending, worker, received, reported >>

\* The difference to the assignment's error as it stands goes to both sums.
correct_assignment_error(c) ==
  /\ call[c].pc = "correct"
  /\ LET r == call[c].request
         delta == call[c].actual - assignments[r].error
     IN /\ assignments' = [assignments EXCEPT ![r].error = call[c].actual]
        /\ global' = Plus(global, delta, 0)
        /\ profileStats' = [profileStats EXCEPT
                              ![assignments[r].profile] = Plus(@, delta, 0)]
  /\ call' = [call EXCEPT ![c].pc = "read"]
  /\ UNCHANGED << fixed, pending, worker, received, reported >>

\* The cost is read from a copy of the assignments ...
ReadCost(c) ==
  /\ call[c].pc = "read"
  /\ call' = [call EXCEPT ![c].pc = "write",
                          ![c].cost = assignments[call[c].request].cost]
  /\ UNCHANGED << fixed, pending, ledger, worker, received, reported >>

\* ... and written, multiplied by the measured ratios, under another lock.
correct_assignment_carbon_cost(c) ==
  /\ call[c].pc = "write"
  /\ assignments' = [assignments EXCEPT ![call[c].request].cost = call[c].cost + 1]
  /\ call' = [call EXCEPT ![c].pc = "track"]
  /\ UNCHANGED << fixed, pending, profileStats, global, worker, received, reported >>

\* The tracked request takes the measurement and its final status.
TrackResult(c) ==
  /\ call[c].pc = "track"
  /\ reported' = [r \in DOMAIN reported \cup {call[c].request} |->
                    IF r = call[c].request THEN call[c].actual ELSE reported[r]]
  /\ call' = [call EXCEPT ![c] = [pc |-> "done"]]
  /\ UNCHANGED << fixed, pending, ledger, worker, received >>

Next ==
  \/ \E w \in Workers : Prepare(w) \/ Commit(w)
  \/ Tick
  \/ \E c \in Calls : \/ ClaimCallback(c) \/ correct_assignment_error(c)
                      \/ ReadCost(c) \/ correct_assignment_carbon_cost(c)
                      \/ TrackResult(c)

Spec == Init /\ [][Next]_vars

-----------------------------------------------------------------------------
(* Properties. *)

\* Types; a request is pending, in a worker's hands or assigned.
TypeOK ==
  /\ policy \in Policies
  /\ slot \in Slots /\ pending \subseteq Requests /\ Assigned \subseteq Requests
  /\ \A r \in Assigned : assignments[r] \in
       [profile : Profiles, slot : Slots, error : Nat, cost : Nat]
  /\ profileStats \in [Profiles -> [sum : Int, count : Nat]]
  /\ global \in [sum : Int, count : Nat]
  /\ Busy \subseteq Workers /\ InFlight \cap (pending \cup Assigned) = {}
  /\ received \subseteq Assigned /\ DOMAIN reported \subseteq received

Balanced(stats, who) ==
  /\ stats.count = Cardinality(who)
  /\ LockFuture => stats.sum = SumFunction([r \in who |-> assignments[r].error])

\* The accounts agree with the assignments: a profile's account is over the
\* requests submitted with that profile and the fleet's over all, each counted
\* once however often it is re-planned; and while future assignments are locked
\* the running sums are the sums of the errors, predicted or measured.
LedgerBalanced ==
  /\ \A p \in Profiles : Balanced(profileStats[p], {r \in Assigned : ProfileOf[r] = p})
  /\ Balanced(global, Assigned)

\* The hard constraint looks back at a snapshot: a profile may overspend its error
\* budget, but as long as nothing has been measured by no more than one batch,
\* however many workers there are and whatever the other profiles spend.
OverspendOneBatch ==
  (HardConstraint /\ received = {} /\ \E e \in Flavours : e <= MaxError) =>
    \A p \in Profiles :
      profileStats[p].sum - MaxError * profileStats[p].count
        <= BatchSize * Max({0} \cup {e - MaxError : e \in Flavours})

\* A cost is repriced by the measured ratios at most once and what the client is
\* told of the error is what the accounts hold, however often and late the
\* executor delivers its callback.
MeasuredOnce ==
  LockFuture =>
    /\ \A r \in Assigned : assignments[r].cost <= 1
    /\ \A r \in DOMAIN reported : assignments[r].cost = 1
                                  /\ assignments[r].error = reported[r]
=============================================================================
