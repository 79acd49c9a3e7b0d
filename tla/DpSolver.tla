------------------------------ MODULE DpSolver ------------------------------
(***************************************************************************)
(* The rolling-window optimiser (rust/src/engine/dp_solver.rs) and the      *)
(* pipeline that calls it and covers what it leaves unplaced (solve_dp in   *)
(* rust/src/engine/scheduler/solve.rs).                                     *)
(*                                                                          *)
(* One step per layer of the search: the requests are placed in order, each *)
(* layer expands every kept state by every flavour and slot of the next     *)
(* request, may be pruned, and may be the last one before the time limit.   *)
(* Paths that reach one key keep the cheapest; where several are equally    *)
(* cheap the map's order decides, so a state carries all of them.           *)
(*                                                                          *)
(* Errors and costs are integers; weighted request counts are in            *)
(* thousandths, as the keys of the search hold them.                        *)
(***************************************************************************)
EXTENDS Integers, Sequences, FiniteSets, SequencesExt, FiniteSetsExt, Functions

CONSTANTS
  TotalSlots,         \* DpSolver::window_size
  Carbon,             \* DpSolver::carbon_forecast, by slot
  WindowPast,         \* SolveBatchInput::error_window_past
  WindowFuture,       \* SolveBatchInput::error_window_future
  Tiers,              \* SolveBatchInput::capacity_tiers
  Inputs              \* inputs of one solve, see Input

Slots == 0 .. TotalSlots - 1
NoLimit == -1          \* max_requests: None
NoThreshold == -1      \* max_error_threshold: None

Flavour == [duration : Nat \ {0}, error : Nat]

\* SolveBatchInput: the pending requests, then the assigned ones planned again
\* with them, each with its own flavours; and what the scheduler knows of the
\* window and of the slots.  held are the slots the latter have now, which
\* baseline does not count.
Input ==
  [requests : Seq([earliest : Slots, deadline : Slots, flavours : Seq(Flavour)]),
   currentSlot : 0 .. TotalSlots,
   baseline : [Slots -> Nat],         \* baseline_slot_counts
   errorSum : Nat, errorCount : Nat,  \* error_window_baseline, count in thousandths
   threshold : Nat \cup {NoThreshold},
   mocks : Nat, mockError : Nat,      \* dynamic_mock_pool
   held : Seq(Slots),                 \* slots of the requests planned again
   method : {"beam", "kbest"},        \* SolverConfig::dp_pruning_method
   minBatch : Nat,                    \* dp_pruning_min_batch_size
   k : Nat,                           \* DpSolver::pruning_k
   limited : BOOLEAN]                 \* the time limit may strike after any layer

ASSUME SearchAssumption ==
  /\ TotalSlots \in Nat \ {0}
  /\ Carbon \in [Slots -> Nat \ {0}]
  /\ WindowPast \in Nat /\ WindowFuture \in Nat
  /\ Tiers \in Seq([maxRequests : Nat \cup {NoLimit}, multiplier : Nat]) /\ Tiers # << >>

ASSUME InputAssumption ==
  \A in \in Inputs :
    /\ in \in Input
    /\ Len(in.held) <= Len(in.requests)
    /\ \A i \in DOMAIN in.requests : in.requests[i].flavours # << >>

VARIABLES
  input,              \* the SolveBatchInput
  phase,              \* "start", "expand", "prune", "limit", "filter", "cover", "done"
  warm,               \* the sequential solution: its placements and its keys
  dp,                 \* dp_prev: states of the last layer, [key, cost, paths]
  layer,              \* requests placed by every state of dp
  result,             \* the placements returned, one per request or none
  status              \* solve_dp's status

vars == <<input, phase, warm, dp, layer, result, status>>

PendingCount == Len(input.requests) - Len(input.held)

-----------------------------------------------------------------------------
(* The planning window and the price of a position. *)

WindowStart == Max({input.currentSlot - WindowPast, 0})
WindowEnd == Min({input.currentSlot + WindowFuture, TotalSlots - 1})
InWindow(slot) == slot \in WindowStart .. WindowEnd

\* assignment_cap: solve_dp passes the end of the window.
AssignmentCap == Max({WindowEnd, input.currentSlot})

Earliest(i) == Max({input.requests[i].earliest, input.currentSlot})
Deadline(i) ==
  Min({Max({input.requests[i].deadline, input.currentSlot}), AssignmentCap, TotalSlots - 1})

\* The slots request i may take.
LegalSlots(i) == Earliest(i) .. Deadline(i)

get_capacity_multiplier(position) ==
  LET open == {t \in DOMAIN Tiers : \/ Tiers[t].maxRequests = NoLimit
                                    \/ position <= Tiers[t].maxRequests}
  IN IF open = {} THEN Tiers[Len(Tiers)].multiplier ELSE Tiers[Min(open)].multiplier

\* Mutant: only the fixed load of the slot sets the price.
PricedByBaseline(slot, duration, inc) ==
  Carbon[slot] * get_capacity_multiplier(input.baseline[slot] + 1) * duration

\* The next position of the slot pays for itself only.
incremental_carbon_cost(slot, duration, inc) ==
  Carbon[slot] * get_capacity_multiplier(input.baseline[slot] + inc[slot] + 1) * duration

-----------------------------------------------------------------------------
(* Keys: everything the choices of later requests depend on. *)

DpStateKey == [sum : Int, count : Nat, mocks : Nat, inc : [Slots -> Nat]]

InitialKey == [sum |-> input.errorSum, count |-> input.errorCount,
               mocks |-> input.mocks, inc |-> [s \in Slots |-> 0]]

Consumes(key) == key.mocks > 0 /\ input.mockError > 0

\* The key after a request of this error is placed in this slot; inside the
\* window it takes the place of one mock request, if any are left.
NextKey(key, slot, error) ==
  LET inside == InWindow(slot)
      takesMock == inside /\ Consumes(key)
  IN [sum |-> key.sum + (IF inside THEN error ELSE 0)
                      - (IF takesMock THEN input.mockError ELSE 0),
      count |-> key.count + (IF inside /\ ~ takesMock THEN 1000 ELSE 0),
      mocks |-> key.mocks - (IF takesMock THEN 1 ELSE 0),
      inc |-> [key.inc EXCEPT ![slot] = @ + 1]]

\* The average error of the window is within the threshold.
WithinThreshold(key) ==
  \/ input.threshold = NoThreshold
  \/ key.count = 0
  \/ key.sum * 1000 <= input.threshold * key.count

Choice(i) == LegalSlots(i) \X DOMAIN input.requests[i].flavours

CostOf(i, key, c) ==
  incremental_carbon_cost(c[1], input.requests[i].flavours[c[2]].duration, key.inc)
Place(i, key, c) == [slot |-> c[1], flavour |-> c[2], cost |-> CostOf(i, key, c)]
KeyAfter(i, key, c) == NextKey(key, c[1], input.requests[i].flavours[c[2]].error)

\* The first choice of least cost in the order of the scan: flavour, then slot.
FirstCheapest(i, key, choices) ==
  CHOOSE c \in choices : \A d \in choices :
    \/ CostOf(i, key, c) < CostOf(i, key, d)
    \/ /\ CostOf(i, key, c) = CostOf(i, key, d)
       /\ c[2] < d[2] \/ (c[2] = d[2] /\ c[1] <= d[1])

-----------------------------------------------------------------------------
(* The warm start. *)

MinErrorFlavour(i) ==
  LET fs == input.requests[i].flavours
  IN CHOOSE f \in DOMAIN fs : \A g \in DOMAIN fs :
       fs[f].error < fs[g].error \/ (fs[f].error = fs[g].error /\ f <= g)

\* Outside the window a placement is always feasible.
KeepsWindow(i, key, c) == InWindow(c[1]) => WithinThreshold(KeyAfter(i, key, c))

\* The cheapest choice that keeps the window, else the flavour of least error
\* in its cheapest slot.
SequentialChoice(i, key) ==
  LET feasible == {c \in Choice(i) : KeepsWindow(i, key, c)}
      lastResort == {c \in Choice(i) : c[2] = MinErrorFlavour(i)}
  IN FirstCheapest(i, key, IF feasible # {} THEN feasible ELSE lastResort)

\* compute_sequential_solution: one request after the other; keys[i+1] is the
\* key after request i.
compute_sequential_solution ==
  LET Step(state, i) ==
        LET c == SequentialChoice(i, state.key)
            k == KeyAfter(i, state.key, c)
        IN [key |-> k, keys |-> Append(state.keys, k),
            path |-> Append(state.path, Place(i, state.key, c)),
            cost |-> state.cost + CostOf(i, state.key, c)]
  IN FoldLeft(Step,
              [key |-> InitialKey, keys |-> <<InitialKey>>, path |-> << >>, cost |-> 0],
              [i \in DOMAIN input.requests |-> i])

NoWarm == [key |-> [sum |-> 0, count |-> 0, mocks |-> 0, inc |-> [s \in Slots |-> 0]],
           keys |-> << >>, path |-> << >>, cost |-> 0]

\* Only the key after the last request decides.
warm_is_feasible == WithinThreshold(warm.keys[Len(warm.keys)])

-----------------------------------------------------------------------------
(* The search. *)

Init ==
  /\ input \in Inputs
  /\ phase = "start"
  /\ warm = NoWarm
  /\ dp = {}
  /\ layer = 0
  /\ result = << >>
  /\ status = "none"

\* Empty work, an exhausted horizon or a request without a legal slot.
NothingToSearch ==
  \/ input.requests = << >>
  \/ input.currentSlot >= TotalSlots
  \/ \E i \in DOMAIN input.requests : Earliest(i) > Deadline(i)

\* solve_batch up to its first layer.
Start ==
  /\ phase = "start"
  /\ IF NothingToSearch
     THEN phase' = "cover" /\ UNCHANGED <<warm, dp>>
     ELSE /\ phase' = "expand"
          /\ warm' = compute_sequential_solution
          /\ dp' = {[key |-> InitialKey, cost |-> 0, paths |-> {<< >>}]}
  /\ UNCHANGED <<input, layer, result, status>>

\* What the states of dp become with request i, before equal keys are merged.
Transitions(i) ==
  {[key |-> KeyAfter(i, st.key, c), cost |-> st.cost + CostOf(i, st.key, c),
    paths |-> {Append(p, Place(i, st.key, c)) : p \in st.paths}]
     : st \in dp, c \in Choice(i)}

\* Mutant: a key keeps the path that reached it last, not the cheapest.
KeepsDearest(states) ==
  {LET same == {st \in states : st.key = k}
       dearest == Max({st.cost : st \in same})
   IN [key |-> k, cost |-> dearest,
       paths |-> UNION {st.paths : st \in {x \in same : x.cost = dearest}}]
     : k \in {st.key : st \in states}}

\* Of the paths that reach one key, only the cheapest are kept.
Cheapest(states) ==
  {LET same == {st \in states : st.key = k}
       least == Min({st.cost : st \in same})
   IN [key |-> k, cost |-> least,
       paths |-> UNION {st.paths : st \in {x \in same : x.cost = least}}]
     : k \in {st.key : st \in states}}

\* Every flavour and legal slot of the next request.
Expand ==
  /\ phase = "expand"
  /\ layer < Len(input.requests)
  /\ dp' = Cheapest(Transitions(layer + 1))
  /\ layer' = layer + 1
  /\ phase' = "prune"
  /\ UNCHANGED <<input, warm, result, status>>

\* get_effective_pruning_mode: small batches are not pruned.
Pruning == IF input.minBatch = 0 \/ PendingCount < input.minBatch
           THEN "none" ELSE input.method

\* The order of the beam is by cost, that of kbest by cost and average error.
Before(x, y) ==
  \/ x.cost < y.cost
  \/ /\ Pruning = "kbest" /\ x.cost = y.cost
     /\ LET avg(st) == IF st.key.count = 0 THEN <<0, 1>> ELSE <<st.key.sum, st.key.count>>
        IN avg(x)[1] * avg(y)[2] < avg(y)[1] * avg(x)[2]

\* The sets the first n of dp may be: where the order ties, any of the tied.
Firsts(n) ==
  LET rank(st) == Cardinality({x \in dp : Before(x, st)})
      sure == {st \in dp : Cardinality({x \in dp : ~ Before(st, x)}) <= n}
      tied == {st \in dp \ sure : rank(st) < n}
  IN {sure \cup more : more \in {t \in SUBSET tied : Cardinality(t) = n - Cardinality(sure)}}

\* Mutant: the warm state is not kept.
PrunedPlainly == Firsts(input.k)

\* The first input.k states; where the warm one is not among them it takes
\* the place of the last.
Pruned ==
  LET isWarm(st) == st.key = warm.keys[layer + 1]
      warmState == {st \in dp : isWarm(st)}
  IN {K \in Firsts(input.k) : \/ warmState = {}
                               \/ \E st \in K : isWarm(st)}
     \cup (IF input.k = 0 THEN {warmState}
           ELSE {(p[1] \ {p[2]}) \cup warmState :
                   p \in {q \in Firsts(input.k) \X dp :
                     /\ q[2] \in q[1]
                     /\ ~ \E y \in q[1] : Before(q[2], y)
                     /\ \A st \in q[1] : ~ isWarm(st)}})

Prune ==
  /\ phase = "prune"
  /\ IF Pruning # "none" /\ Cardinality(dp) > input.k
     THEN dp' \in Pruned ELSE UNCHANGED dp
  /\ phase' = "limit"
  /\ UNCHANGED <<input, warm, layer, result, status>>

\* The search stops: only a warm solution within the threshold is returned.
WarmOrNothing == IF warm_is_feasible THEN warm.path ELSE << >>

\* The time limit has passed.
TimeOut ==
  /\ input.limited
  /\ phase = "limit"
  /\ result' = WarmOrNothing
  /\ phase' = "cover"
  /\ UNCHANGED <<input, warm, dp, layer, status>>

NextLayer ==
  /\ phase = "limit"
  /\ phase' = IF layer = Len(input.requests) THEN "filter" ELSE "expand"
  /\ UNCHANGED <<input, warm, dp, layer, result, status>>

\* Only complete paths are held to the threshold.
Feasible == {st \in dp : WithinThreshold(st.key)}

\* The cheapest complete path within the threshold, or none.
Filter ==
  /\ phase = "filter"
  /\ IF Feasible = {} THEN result' = << >>
     ELSE LET least == Min({st.cost : st \in Feasible})
          IN \E st \in Feasible : st.cost = least /\ result' \in st.paths
  /\ phase' = "cover"
  /\ UNCHANGED <<input, warm, dp, layer, status>>

-----------------------------------------------------------------------------
(* solve_dp: what the search leaves unplaced goes to the fallback. *)

\* The last flavour of longest duration.
FallbackFlavour(i) ==
  LET fs == input.requests[i].flavours
  IN CHOOSE f \in DOMAIN fs : \A g \in DOMAIN fs :
       fs[f].duration > fs[g].duration \/ (fs[f].duration = fs[g].duration /\ f >= g)

\* greedy_fallback: the pending requests in order, each in the first of its
\* cheapest slots; one without a legal slot is passed over.
greedy_fallback ==
  LET Step(state, i) ==
        LET choices == {c \in Choice(i) : c[2] = FallbackFlavour(i)}
            c == FirstCheapest(i, state.key, choices)
        IN IF choices = {} THEN state
           ELSE [key |-> KeyAfter(i, state.key, c),
                 path |-> Append(state.path, Place(i, state.key, c))]
  IN FoldLeft(Step, [key |-> InitialKey, path |-> << >>],
              [i \in 1 .. PendingCount |-> i]).path

\* Mutant: a batch the search cannot place within the threshold goes back.
CoverBySearch ==
  /\ phase = "cover"
  /\ PendingCount > 0
  /\ status' = IF result # << >> THEN "ok" ELSE "infeasible"
  /\ phase' = "done"
  /\ UNCHANGED <<input, warm, dp, layer, result>>

\* All pending requests are placed by the search, or all by the fallback; if
\* some can be placed by neither, the batch is infeasible and goes back.
Cover ==
  /\ phase = "cover"
  /\ PendingCount > 0
  /\ IF result # << >>
     THEN status' = "ok" /\ UNCHANGED result
     ELSE IF Len(greedy_fallback) = PendingCount
     THEN status' = "ok_greedy_after_infeasible" /\ result' = greedy_fallback
     ELSE status' = "infeasible" /\ result' = << >>
  /\ phase' = "done"
  /\ UNCHANGED <<input, warm, dp, layer>>

Next == Start \/ Expand \/ Prune \/ TimeOut \/ NextLayer \/ Filter \/ Cover

Spec == Init /\ [][Next]_vars

-----------------------------------------------------------------------------
(* Properties. *)

Placements == [slot : Slots, flavour : Nat \ {0}, cost : Nat]

\* Types of the variables.
TypeOK ==
  /\ input \in Inputs
  /\ phase \in {"start", "expand", "prune", "limit", "filter", "cover", "done"}
  /\ layer \in 0 .. Len(input.requests)
  /\ \A st \in dp : /\ st.key \in DpStateKey /\ st.cost \in Nat
                    /\ st.paths # {}
                    /\ \A p \in st.paths : p \in Seq(Placements) /\ Len(p) = layer
  /\ result \in Seq(Placements)
  /\ status \in {"none", "ok", "ok_greedy_after_infeasible", "infeasible"}

\* A complete plan on its own: its cost and its window, counted afresh from the
\* slots and the flavours alone.
Duration(i, p) == input.requests[i].flavours[p.flavour].duration
Error(i, p) == input.requests[i].flavours[p.flavour].error

Position(plan, i) ==
  input.baseline[plan[i].slot] + Cardinality({j \in 1 .. i : plan[j].slot = plan[i].slot})

PlanCost(plan) ==
  SumFunction([i \in DOMAIN plan |->
    Carbon[plan[i].slot] * get_capacity_multiplier(Position(plan, i)) * Duration(i, plan[i])])

PlanWithin(plan) ==
  LET inside == {i \in DOMAIN plan : InWindow(plan[i].slot)}
      replaced == IF input.mockError = 0 THEN 0 ELSE Min({Cardinality(inside), input.mocks})
      sum == input.errorSum + SumFunction([i \in inside |-> Error(i, plan[i])])
               - replaced * input.mockError
      count == input.errorCount + 1000 * (Cardinality(inside) - replaced)
  IN input.threshold = NoThreshold \/ count = 0 \/ sum * 1000 <= input.threshold * count

\* Every complete plan, tried exhaustively.
AllPlans ==
  LET n == Len(input.requests)
      options(i) == {[slot |-> c[1], flavour |-> c[2]] : c \in Choice(i)}
  IN {plan \in [1 .. n -> UNION {options(i) : i \in 1 .. n}] :
        \A i \in 1 .. n : plan[i] \in options(i)}

FeasiblePlans == {plan \in AllPlans : PlanWithin(plan)}

Searched == phase = "cover" /\ ~ NothingToSearch

\* Without pruning and without a timeout the search is exact: it returns a plan
\* within the threshold of least cost, and nothing only where there is none
\* (solve_batch, 213-219).
Optimal ==
  Searched /\ Pruning = "none" /\ ~ input.limited =>
    IF FeasiblePlans = {} THEN result = << >>
    ELSE /\ Len(result) = Len(input.requests)
         /\ PlanWithin(result)
         /\ PlanCost(result) = Min({PlanCost(plan) : plan \in FeasiblePlans})

\* Whatever was pruned and wherever the time ran out, what the search returns
\* is complete, within the threshold, and no dearer than the warm solution; and
\* a warm solution within the threshold is never lost (455-490, 493-501).
NoWorseThanWarm ==
  Searched =>
    /\ warm_is_feasible => result # << >>
    /\ result # << >> =>
         /\ Len(result) = Len(input.requests)
         /\ PlanWithin(result)
         /\ warm_is_feasible => PlanCost(result) <= PlanCost(warm.path)

\* Pruning never drops the warm path: its key stays in every layer, at no more
\* than its own cost.
WarmSurvives ==
  phase \in {"limit", "filter"} =>
    \E st \in dp : /\ st.key = warm.keys[layer + 1]
                   /\ st.cost <= FoldLeft(LAMBDA c, p : c + p.cost, 0, SubSeq(warm.path, 1, layer))

\* The search is well formed and its result bounded by the sequential solution,
\* however it was pruned or cut short.
SearchSound == TypeOK /\ WarmSurvives /\ NoWorseThanWarm

\* The price recorded with each placement is the price of the position it takes
\* among the baseline and the placements before it, by the search or the
\* fallback, and every placement lies in its request's own slots.
RecordedPrices ==
  phase = "done" =>
    \A i \in DOMAIN result :
      /\ result[i].slot \in LegalSlots(i)
      /\ result[i].cost = Carbon[result[i].slot]
           * get_capacity_multiplier(Position(result, i)) * Duration(i, result[i])

\* A batch goes back to the queue only if one of its requests has no legal slot.
OnlyStuckBatchesReturn ==
  status = "infeasible" =>
    \E i \in 1 .. PendingCount : LegalSlots(i) = {}
=============================================================================
