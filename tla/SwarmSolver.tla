----------------------------- MODULE SwarmSolver -----------------------------
(***************************************************************************)
(* The online bandit and ant-colony solvers (rust/src/engine/              *)
(* online_swarm.rs and online_swarmerge.rs) as operators: what one batch of *)
(* one QoS profile may be planned as, and what the strategy learns from it. *)
(*                                                                          *)
(* A random draw is left open: an exploring bandit may take every candidate *)
(* slot, and so may an ant, since the pheromone is kept positive and every  *)
(* candidate keeps a positive weight.  A batch therefore has a SET of       *)
(* outcomes.  Durations, errors, carbon intensities and prices are          *)
(* integers; the duration scale is 1.                                       *)
(***************************************************************************)
EXTENDS Integers, Sequences, FiniteSets, SequencesExt, FiniteSetsExt, Functions

CONSTANTS
  ArrivalOf,          \* Request::arrival_slot
  DeadlineOf,         \* Request::deadline_slot
  TotalSlots,         \* AssignmentPolicy::total_slots
  MaxFuture,          \* AssignmentPolicy::assignment_max_future_slots
  Carbon,             \* carbon_forecast, by slot
  Flavours,           \* AssignmentPolicy::flavours, [duration, error] records
  MaxError,           \* AssignmentPolicy::max_error_threshold
  WindowPast,         \* AssignmentPolicy::error_window_past
  WindowFuture,       \* AssignmentPolicy::error_window_future
  GlobalConstraint,   \* AssignmentPolicy::global_error_constraint_enabled
  Explore,            \* SwarmConfig::bandit_epsilon > 0
  InitialQ,           \* SwarmConfig::bandit_initial_q
  Iterations          \* SwarmConfig::aco_n_iterations

Slots == 0 .. TotalSlots - 1
NoLimit == -1          \* max_requests: None

ASSUME SolverAssumption ==
  /\ TotalSlots \in Nat \ {0}
  /\ MaxFuture \in Nat
  /\ Carbon \in [Slots -> Nat \ {0}]
  /\ Flavours # << >>
  /\ Flavours \in Seq([duration : Nat \ {0}, error : Nat])
  /\ MaxError \in Nat /\ WindowPast \in Nat /\ WindowFuture \in Nat
  /\ GlobalConstraint \in BOOLEAN /\ Explore \in BOOLEAN
  /\ InitialQ \in Nat
  /\ Iterations \in Nat \ {0}

-----------------------------------------------------------------------------
(* Prices and windows. *)

\* The first tier that admits a request at this position of its slot.
capacity_mult(tiers, position) ==
  LET open == {i \in DOMAIN tiers : \/ tiers[i].maxRequests = NoLimit
                                    \/ position <= tiers[i].maxRequests}
  IN IF open = {} THEN tiers[Len(tiers)].multiplier ELSE tiers[Min(open)].multiplier

\* The candidate slots start at the arrival slot, whatever the current slot is.
valid_slots(r) ==
  LET to == Min({DeadlineOf[r], ArrivalOf[r] + MaxFuture, TotalSlots - 1})
  IN ArrivalOf[r] .. Max({to, ArrivalOf[r]})

\* The flavour used where none is feasible: the first of least error.
Fallback ==
  CHOOSE f \in DOMAIN Flavours : \A g \in DOMAIN Flavours :
    \/ Flavours[f].error < Flavours[g].error
    \/ Flavours[f].error = Flavours[g].error /\ f <= g

\* SwarmContext: occupancy of every profile, errors of the batch's own.  A slot's
\* errors are kept as their sum and number, all that is read of them.
Errors == [sum : Nat, number : Nat]
Context == [count : [Slots -> Nat],       \* slot_count
            errors : [Slots -> Errors],   \* slot_errors
            sum : Nat, number : Nat]      \* global_error_sum, global_count

FitsGlobal(ctx, f) ==
  GlobalConstraint =>
    ctx.sum + Flavours[f].error <= MaxError * (ctx.number + 1)

\* The window is centred on the candidate slot, not on the arrival slot.
FitsWindow(ctx, slot, f) ==
  LET window == Slots \cap (slot - WindowPast .. slot + WindowFuture)
      sum == SumFunction([s \in window |-> ctx.errors[s].sum])
      number == SumFunction([s \in window |-> ctx.errors[s].number])
  IN Flavours[f].error + sum <= MaxError * (1 + number)

\* The cheapest flavour that keeps both averages, the fallback where none does.
pick_feasible_flavour(ctx, slot) ==
  LET feasible == {f \in DOMAIN Flavours :
                     FitsGlobal(ctx, f) /\ FitsWindow(ctx, slot, f)}
  IN IF feasible = {} THEN Fallback
     ELSE CHOOSE f \in feasible : \A g \in feasible :
            \/ Flavours[f].duration < Flavours[g].duration
            \/ Flavours[f].duration = Flavours[g].duration /\ f <= g

Placement == [req : DOMAIN ArrivalOf, slot : Slots, flavour : DOMAIN Flavours,
              multiplier : Nat, cost : Nat]

\* The request placed in this slot by the next position's price.
make_assignment(ctx, tiers, r, slot) ==
  LET f == pick_feasible_flavour(ctx, slot)
      mult == capacity_mult(tiers, ctx.count[slot] + 1)
  IN [req |-> r, slot |-> slot, flavour |-> f, multiplier |-> mult,
      cost |-> Carbon[slot] * mult * Flavours[f].duration]

\* The context as the next request of the same batch sees it.
WithPlacement(ctx, a) ==
  [count |-> [ctx.count EXCEPT ![a.slot] = @ + 1],
   errors |-> [ctx.errors EXCEPT ![a.slot] =
                 [sum |-> @.sum + Flavours[a.flavour].error, number |-> @.number + 1]],
   sum |-> ctx.sum + Flavours[a.flavour].error,
   number |-> ctx.number + 1]

-----------------------------------------------------------------------------
(* The bandit.  q[s] is a running mean: n[s] samples whose costs add up to  *)
(* sum[s]; it is InitialQ where there is no sample, and the first sample    *)
(* replaces it.                                                             *)

NewBandit == [n |-> [s \in Slots |-> 0], sum |-> [s \in Slots |-> 0]]

\* q[s] as a fraction <<numerator, denominator>>.
q(learned, s) ==
  IF learned.n[s] = 0 THEN <<InitialQ, 1>> ELSE <<learned.sum[s], learned.n[s]>>

NotAbove(a, b) == a[1] * b[2] <= b[1] * a[2]

\* The slot a greedy draw takes: the first of least estimated cost.
GreedySlot(learned, slots) ==
  CHOOSE s \in slots : \A t \in slots :
    /\ NotAbove(q(learned, s), q(learned, t))
    /\ NotAbove(q(learned, t), q(learned, s)) => s <= t

ChosenSlots(learned, r) ==
  IF Explore THEN valid_slots(r) ELSE {GreedySlot(learned, valid_slots(r))}

\* One sample of the running mean.
BanditSample(learned, a) ==
  [n |-> [learned.n EXCEPT ![a.slot] = @ + 1],
   sum |-> [learned.sum EXCEPT ![a.slot] = @ + a.cost]]

\* The bandit after its next request: the plan so far, and what it changed.
BanditPlace(tiers, state, r) ==
  {LET a == make_assignment(state.ctx, tiers, r, s)
   IN [plan |-> Append(state.plan, a),
       ctx |-> WithPlacement(state.ctx, a),
       learned |-> BanditSample(state.learned, a)]
     : s \in ChosenSlots(state.learned, r)}

\* The batch in order, each request against what the ones before it changed.
BanditStates(learned, ctx, tiers, batch) ==
  LET All(states, r) == UNION {BanditPlace(tiers, state, r) : state \in states}
  IN FoldLeft(All, {[plan |-> << >>, ctx |-> ctx, learned |-> learned]}, batch)

\* solve_batch of the serialized bandit.  The lesson of an outcome is what
\* trains the strategy: the plan itself, or a plan for each iteration.
BanditSolve(learned, ctx, tiers, batch) ==
  {[plan |-> state.plan, learned |-> state.learned, lesson |-> <<state.plan>>]
     : state \in BanditStates(learned, ctx, tiers, batch)}

\* BanditDelta: what a batch adds to the samples of the clone it started from.
BanditDelta(clone, after) ==
  [n |-> [s \in Slots |-> after.n[s] - clone.n[s]],
   sum |-> [s \in Slots |-> IF after.n[s] > clone.n[s]
                            THEN after.sum[s] - clone.sum[s] ELSE 0]]

\* solve_batch of the merge bandit: the same loop on working copies, and the
\* delta instead of the trained state.
BanditSolveClone(clone, ctx, tiers, batch) ==
  {[plan |-> o.plan, delta |-> BanditDelta(clone, o.learned), lesson |-> o.lesson]
     : o \in BanditSolve(clone, ctx, tiers, batch)}

merge_bandit(learned, delta) ==
  [n |-> [s \in Slots |-> learned.n[s] + delta.n[s]],
   sum |-> [s \in Slots |-> IF delta.n[s] = 0 THEN learned.sum[s]
                            ELSE learned.sum[s] + delta.sum[s]]]

-----------------------------------------------------------------------------
(* The ant colony.  The pheromone of a slot is a polynomial in 1 - rho: tau0 *)
(* evaporated with every iteration, and each deposit evaporated since it was *)
(* made.  It is kept as the evaporations so far and the deposits in order,   *)
(* each with the evaporations made before it; a deposit is worth             *)
(* aco_q / cost.  The floor of 1e-12 is left out.                            *)

NewColony == [evaporations |-> 0, deposits |-> << >>]

\* An ant after its next request.
AntPlace(tiers, state, r) ==
  {LET a == make_assignment(state.ctx, tiers, r, s)
   IN [plan |-> Append(state.plan, a), ctx |-> WithPlacement(state.ctx, a)]
     : s \in valid_slots(r)}

AntStates(ctx, tiers, batch) ==
  LET All(states, r) == UNION {AntPlace(tiers, state, r) : state \in states}
  IN FoldLeft(All, {[plan |-> << >>, ctx |-> ctx]}, batch)

\* The solutions one ant may build.
AntSolutions(ctx, tiers, batch) == {state.plan : state \in AntStates(ctx, tiers, batch)}

PlanCost(plan) == FoldLeft(LAMBDA c, a : c + a.cost, 0, plan)

\* One iteration: evaporate every slot, then deposit on the slots of its best ant.
Iterate(colony, best) ==
  LET at == colony.evaporations + 1
  IN [evaporations |-> at,
      deposits |-> colony.deposits \o
        [i \in DOMAIN best |-> [slot |-> best[i].slot, cost |-> PlanCost(best), at |-> at]]]

\* solve_batch of the serialized colony: any ant may be the best of its
\* iteration; the plan returned is the first iteration best of least cost.
ColonySolve(colony, ctx, tiers, batch) ==
  LET solutions == AntSolutions(ctx, tiers, batch)
      Returned(bests) ==
        CHOOSE i \in 1 .. Iterations : \A j \in 1 .. Iterations :
          \/ PlanCost(bests[i]) < PlanCost(bests[j])
          \/ PlanCost(bests[i]) = PlanCost(bests[j]) /\ i <= j
  IN {[plan |-> bests[Returned(bests)], learned |-> FoldLeft(Iterate, colony, bests),
       lesson |-> bests]
        : bests \in [1 .. Iterations -> solutions]}

\* AcoDelta: the evaporations of this batch, and its deposits discounted by
\* the evaporations that followed them within it.
ColonyDelta(clone, after) ==
  [evaporations |-> after.evaporations - clone.evaporations,
   deposits |->
     LET own == SubSeq(after.deposits, Len(clone.deposits) + 1, Len(after.deposits))
     IN [i \in DOMAIN own |->
           [own[i] EXCEPT !.at = own[i].at - clone.evaporations]]]

\* solve_batch of the merge colony.
ColonySolveClone(clone, ctx, tiers, batch) ==
  {[plan |-> o.plan, delta |-> ColonyDelta(clone, o.learned), lesson |-> o.lesson]
     : o \in ColonySolve(clone, ctx, tiers, batch)}

\* tau * evap_factor + deposit, on whatever the pheromone is now.
merge_colony(colony, delta) ==
  [evaporations |-> colony.evaporations + delta.evaporations,
   deposits |-> colony.deposits \o
     [i \in DOMAIN delta.deposits |->
        [delta.deposits[i] EXCEPT !.at = @ + colony.evaporations]]]
=============================================================================
