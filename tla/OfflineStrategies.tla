-------------------------- MODULE OfflineStrategies --------------------------
(***************************************************************************)
(* The whole-scenario strategies the N-shift benchmark compares the batch   *)
(* scheduler with (rust/src/bin/nshift/main.rs, nshift/swarm.rs): greedy    *)
(* baseline, greedy cheapest, bandit and ant colony.  Each walks the        *)
(* requests in order of arrival and keeps books of what it placed where;    *)
(* the colony does so once per ant and keeps the best ant.                  *)
(*                                                                          *)
(* A step places one request.  A random draw is left open: an exploring     *)
(* bandit may take any candidate slot and so may an ant, whose pheromone    *)
(* never falls below a positive floor.  Durations, errors, intensities and  *)
(* prices are integers; the duration scale is 1.                            *)
(***************************************************************************)
EXTENDS Integers, Sequences, FiniteSetsExt, Functions, SequencesExt

CONSTANTS
  Scenarios,       \* per strategy, the sequences of [arrival, deadline] it is given
  TotalSlots,      \* AssignmentPolicy::total_slots
  MaxFuture,       \* AssignmentPolicy::assignment_max_future_slots
  Carbon,          \* Scenario::carbon_forecast
  Flavours,        \* AssignmentPolicy::flavours, [duration, error] records
  Tiers,           \* AssignmentPolicy::capacity_tiers
  MaxError,        \* AssignmentPolicy::max_error_threshold
  WindowPast,      \* AssignmentPolicy::error_window_past
  WindowFuture,    \* AssignmentPolicy::error_window_future
  GlobalEnabled,   \* AssignmentPolicy::global_error_constraint_enabled
  GlobalHard,      \* AssignmentPolicy::global_error_constraint_hard
  InitialQ,        \* BanditParams::initial_q
  NumAnts,         \* AcoParams::n_ants
  NumIterations    \* AcoParams::n_iterations

Slots == 0 .. TotalSlots - 1
NoLimit == -1      \* max_requests: None
OnePass == {"greedy_baseline", "greedy_cheapest", "bandit"}
BatchRuns == {"online", "online_swarm"}   \* the batch scheduler, see RunReport

ASSUME StrategyAssumption ==
  /\ DOMAIN Scenarios \subseteq OnePass \cup {"ant_colony"} \cup BatchRuns
  /\ TotalSlots \in Nat \ {0} /\ MaxFuture \in Nat
  /\ \A sc \in UNION Range(Scenarios) :
       /\ sc \in Seq([arrival : Slots, deadline : Nat])
       /\ sc # << >>
       /\ \A i, j \in DOMAIN sc : i < j => sc[i].arrival <= sc[j].arrival
  /\ Carbon \in [Slots -> Nat \ {0}]
  /\ Flavours \in Seq([duration : Nat \ {0}, error : Nat]) /\ Flavours # << >>
  /\ Tiers \in Seq([maxRequests : Nat \cup {NoLimit}, multiplier : Nat]) /\ Tiers # << >>
  /\ MaxError \in Nat /\ WindowPast \in Nat /\ WindowFuture \in Nat
  /\ GlobalEnabled \in BOOLEAN /\ GlobalHard \in BOOLEAN
  /\ InitialQ \in Nat /\ NumAnts \in Nat \ {0} /\ NumIterations \in Nat \ {0}

Names == DOMAIN Flavours

VARIABLES
  strategy,   \* the strategy that is run
  requests,   \* the scenario's requests, sorted by arrival
  next,       \* index of the request to place
  rows,       \* assignments of this pass, [slot, flavour, cost], in order
  books,      \* slot_count, slot_errors, global_error_sum, global_count
  learned,    \* bandit: [total, n] per slot; q is their quotient, initial_q while n = 0
  ant,        \* ant-colony: index of the ant, from 1
  iteration,  \* index of the iteration, from 1
  iterBest,   \* best ant of the iteration: its rows, << >> before the first
  best,       \* best_solution
  phase,      \* "placing", "judging" (end of an iteration) or "done"
  leastAnt    \* auxiliary: the least cost of any ant so far, -1 before the first

job == << strategy, requests >>
vars == << job, next, rows, books, learned, ant, iteration, iterBest, best,
           phase, leastAnt >>
passVars == << next, rows, books >>
antVars == << ant, iteration, iterBest, best, leastAnt >>

-----------------------------------------------------------------------------
(* Prices, windows and flavours. *)

\* The first tier that admits a request at this position of its slot.
capacity_mult(position) ==
  LET open == {i \in DOMAIN Tiers : \/ Tiers[i].maxRequests = NoLimit
                                    \/ position <= Tiers[i].maxRequests}
  IN Tiers[IF open = {} THEN Len(Tiers) ELSE Min(open)].multiplier

PriceAt(slot, flavour, position) ==
  Carbon[slot] * capacity_mult(position) * Flavours[flavour].duration

\* What the next request pays in a slot.
slot_cost(slot, flavour) == PriceAt(slot, flavour, books.count[slot] + 1)

\* The last slot a request may be planned in.
LastSlot(r) == Min({r.deadline, r.arrival + MaxFuture, TotalSlots - 1})

\* Never empty: a deadline before the arrival leaves the arrival slot.
valid_slots(r) == r.arrival .. Max({LastSlot(r), r.arrival})

ShorterFirst(f, g) == \/ Flavours[f].duration < Flavours[g].duration
                      \/ Flavours[f].duration = Flavours[g].duration /\ f < g

\* The flavour used where none is feasible: the first of least error.
fallback_flav ==
  CHOOSE f \in Names : \A g \in Names :
    \/ Flavours[f].error < Flavours[g].error
    \/ Flavours[f].error = Flavours[g].error /\ f <= g

\* The average error around centre stays within the threshold with f added.
FitsWindow(centre, f) ==
  LET window == Slots \cap (centre - WindowPast .. centre + WindowFuture)
      placed(s) == books.count[s]
      spent(s) == books.errors[s]
  IN Flavours[f].error + SumFunction([s \in window |-> spent(s)])
       <= MaxError * (1 + SumFunction([s \in window |-> placed(s)]))

\* Mutant: the average so far is judged, without the flavour being added.
FitsGlobalSoFar(f) == GlobalEnabled => books.sum <= MaxError * books.number

FitsGlobal(f) ==
  GlobalEnabled => books.sum + Flavours[f].error <= MaxError * (books.number + 1)

\* Bandit and ants: the first feasible flavour by duration in the chosen slot,
\* its window centred on that slot; else the fallback.
FeasibleIn(slot) == {f \in Names : FitsGlobal(f) /\ FitsWindow(slot, f)}

pick_feasible_flavour(slot) ==
  LET feasible == FeasibleIn(slot)
  IN IF feasible = {} THEN fallback_flav
     ELSE CHOOSE f \in feasible : \A g \in feasible \ {f} : ShorterFirst(f, g)

-----------------------------------------------------------------------------
(* Greedy cheapest. *)

\* The global constraint looks back at the average of what is placed and
\* filters only when hard; it never leaves no flavour at all.
allowed_flavours ==
  LET overspent == /\ GlobalEnabled /\ books.number > 0
                   /\ books.sum > MaxError * books.number
      modest == {f \in Names : Flavours[f].error <= MaxError}
  IN IF overspent /\ GlobalHard /\ modest # {} THEN modest ELSE Names

\* The window is centred on the arrival slot, wherever the request goes.
CheapestOptions(r) ==
  {o \in [slot : r.arrival .. LastSlot(r), flavour : allowed_flavours] :
     FitsWindow(r.arrival, o.flavour)}

\* A full scan keeps the first of the cheapest, slots in order, then durations.
ScanBefore(o, p) ==
  LET c == slot_cost(o.slot, o.flavour)
      d == slot_cost(p.slot, p.flavour)
  IN \/ c < d
     \/ c = d /\ o.slot < p.slot
     \/ c = d /\ o.slot = p.slot /\ ShorterFirst(o.flavour, p.flavour)

Cheapest(r) ==
  LET options == CheapestOptions(r)
  IN IF options = {} THEN [slot |-> r.arrival, flavour |-> fallback_flav]
     ELSE CHOOSE o \in options : \A p \in options \ {o} : ScanBefore(o, p)

-----------------------------------------------------------------------------
(* Placing one request. *)

NoBooks == [count |-> [s \in Slots |-> 0], errors |-> [s \in Slots |-> 0],
            sum |-> 0, number |-> 0]

WithPlacement(slot, error) ==
  [count |-> [books.count EXCEPT ![slot] = @ + 1],
   errors |-> [books.errors EXCEPT ![slot] = @ + error],
   sum |-> books.sum + error, number |-> books.number + 1]

Place(slot, flavour) ==
  /\ rows' = Append(rows, [slot |-> slot, flavour |-> flavour,
                           cost |-> slot_cost(slot, flavour)])
  /\ books' = WithPlacement(slot, Flavours[flavour].error)
  /\ next' = next + 1
  /\ UNCHANGED job

Placing(name) ==
  strategy = name /\ phase = "placing" /\ next <= Len(requests)

-----------------------------------------------------------------------------

Init ==
  /\ strategy \in DOMAIN Scenarios /\ requests \in Scenarios[strategy]
  /\ next = 1 /\ rows = << >> /\ books = NoBooks
  /\ learned = [s \in Slots |-> [total |-> 0, n |-> 0]]
  /\ ant = 1 /\ iteration = 1 /\ iterBest = << >> /\ best = << >>
  /\ phase = "placing" /\ leastAnt = -1

\* Each request at its arrival slot with the flavour of least error.
run_greedy_baseline ==
  /\ Placing("greedy_baseline")
  /\ Place(requests[next].arrival, fallback_flav)
  /\ UNCHANGED << learned, antVars, phase >>

run_greedy_cheapest ==
  /\ Placing("greedy_cheapest")
  /\ LET chosen == Cheapest(requests[next]) IN Place(chosen.slot, chosen.flavour)
  /\ UNCHANGED << learned, antVars, phase >>

\* q += (cost - q) / n: after the first sample the initial value is gone.
Learn(slot, cost) ==
  learned' = [learned EXCEPT ![slot] =
                [total |-> @.total + cost, n |-> @.n + 1]]

\* q[s] <= q[t], by cross multiplication.
NoDearerMean(s, t) ==
  LET value(x) == IF learned[x].n = 0 THEN InitialQ ELSE learned[x].total
      weight(x) == IF learned[x].n = 0 THEN 1 ELSE learned[x].n
  IN value(s) * weight(t) <= value(t) * weight(s)

\* The first candidate of least q.
LeastMean(candidates) ==
  CHOOSE s \in candidates : \A t \in candidates :
    /\ NoDearerMean(s, t)
    /\ NoDearerMean(t, s) => s <= t

BanditPlaces(slot) ==
  LET flavour == pick_feasible_flavour(slot)
  IN Place(slot, flavour) /\ Learn(slot, slot_cost(slot, flavour))

Exploit ==
  /\ Placing("bandit")
  /\ BanditPlaces(LeastMean(valid_slots(requests[next])))
  /\ UNCHANGED << antVars, phase >>

Explore ==
  /\ Placing("bandit")
  /\ \E slot \in valid_slots(requests[next]) : BanditPlaces(slot)
  /\ UNCHANGED << antVars, phase >>

\* tau >= 1e-12 and eta > 0: every candidate has a positive weight.
AntPlaces ==
  /\ Placing("ant_colony")
  /\ \E slot \in valid_slots(requests[next]) :
       Place(slot, pick_feasible_flavour(slot))
  /\ UNCHANGED << learned, antVars, phase >>

Cost(solution) == FoldLeft(LAMBDA sum, row : sum + row.cost, 0, solution)

\* Mutant: the books of the last ant are kept.
AntDoneKeepBooks ==
  /\ strategy = "ant_colony" /\ phase = "placing" /\ next > Len(requests)
  /\ iterBest' = IF iterBest = << >> \/ Cost(rows) < Cost(iterBest)
                 THEN rows ELSE iterBest
  /\ leastAnt' = IF leastAnt = -1 \/ Cost(rows) < leastAnt THEN Cost(rows) ELSE leastAnt
  /\ next' = 1 /\ rows' = << >> /\ UNCHANGED books
  /\ IF ant = NumAnts THEN ant' = 1 /\ phase' = "judging"
                      ELSE ant' = ant + 1 /\ UNCHANGED phase
  /\ UNCHANGED << job, learned, iteration, best >>

\* The ant's solution is kept when strictly cheaper than the iteration's best;
\* the next ant starts with empty books.
AntDone ==
  /\ strategy = "ant_colony" /\ phase = "placing" /\ next > Len(requests)
  /\ iterBest' = IF iterBest = << >> \/ Cost(rows) < Cost(iterBest)
                 THEN rows ELSE iterBest
  /\ leastAnt' = IF leastAnt = -1 \/ Cost(rows) < leastAnt THEN Cost(rows) ELSE leastAnt
  /\ next' = 1 /\ rows' = << >> /\ books' = NoBooks
  /\ IF ant = NumAnts THEN ant' = 1 /\ phase' = "judging"
                      ELSE ant' = ant + 1 /\ UNCHANGED phase
  /\ UNCHANGED << job, learned, iteration, best >>

\* Mutant: the last iteration's best is returned.
LatestOf(old, new) == new

\* The solution returned so far: the iteration's best when strictly cheaper.
BetterOf(old, new) == IF old = << >> \/ Cost(new) < Cost(old) THEN new ELSE old

\* Pheromone evaporates and is laid on the slots of the iteration's best, and
\* the best of all iterations is tracked.
IterationDone ==
  /\ phase = "judging"
  /\ best' = BetterOf(best, iterBest)
  /\ iterBest' = << >>
  /\ iteration' = iteration + 1
  /\ IF iteration = NumIterations
     THEN phase' = "done" /\ rows' = best'
     ELSE phase' = "placing" /\ UNCHANGED rows
  /\ UNCHANGED << job, next, books, learned, ant, leastAnt >>

\* The three one-pass strategies return what they placed.
PassDone ==
  /\ strategy \in OnePass /\ phase = "placing" /\ next > Len(requests)
  /\ phase' = "done"
  /\ UNCHANGED << job, passVars, learned, antVars >>

Next ==
  \/ run_greedy_baseline \/ run_greedy_cheapest
  \/ Exploit \/ Explore
  \/ AntPlaces \/ AntDone \/ IterationDone
  \/ PassDone

Spec == Init /\ [][Next]_vars

-----------------------------------------------------------------------------
(* Properties. *)

Row == [slot : Slots, flavour : Names, cost : Nat]

\* The variables keep their types; a finished strategy has placed every request.
TypeOK ==
  /\ strategy \in DOMAIN Scenarios /\ requests \in Scenarios[strategy]
  /\ next \in 1 .. Len(requests) + 1
  /\ rows \in Seq(Row) /\ iterBest \in Seq(Row) /\ best \in Seq(Row)
  /\ books.count \in [Slots -> Nat] /\ books.errors \in [Slots -> Nat]
  /\ books.sum \in Nat /\ books.number \in Nat
  /\ learned \in [Slots -> [total : Nat, n : Nat]]
  /\ ant \in 1 .. NumAnts /\ iteration \in 1 .. NumIterations + 1
  /\ phase \in {"placing", "judging", "done"} /\ leastAnt \in Nat \cup {-1}
  /\ phase = "done" => Len(rows) = Len(requests)

\* The bill follows from the placements alone: whatever the books say, the n-th
\* request placed in a slot paid that slot's n-th price, in this pass and in the
\* solutions kept from earlier ants.  Costs are charged one request at a time
\* from running counters that each ant must start anew.
BilledByOccupancy ==
  \A solution \in {rows, iterBest, best} : \A i \in DOMAIN solution :
    LET row == solution[i]
        position == Cardinality({j \in 1 .. i : solution[j].slot = row.slot})
    IN row.cost = PriceAt(row.slot, row.flavour, position)

\* No strategy plans late a request it could have planned in time: every row lies
\* between the arrival and the deadline, the look-ahead limit and the horizon, or
\* at the arrival when the deadline is earlier.
NothingLate ==
  \A i \in DOMAIN rows :
    LET r == requests[i]
    IN /\ r.arrival <= rows[i].slot
       /\ rows[i].slot <= Max({r.arrival, Min({r.deadline, r.arrival + MaxFuture})})

\* With the global constraint on and hard, and a flavour within the threshold to
\* fall back to, bandit and ants never overspend the error budget over any prefix,
\* the requests placed by fallback included.  Greedy cheapest looks at the budget
\* only after the fact and may overspend it, but by no more than one request's
\* error, however long the run.
ErrorBudgetKept ==
  (GlobalEnabled /\ GlobalHard /\ Flavours[fallback_flav].error <= MaxError) =>
    books.sum - MaxError * books.number
      <= IF strategy \in {"bandit", "ant_colony"} THEN 0
         ELSE Max({0} \cup {Flavours[f].error - MaxError : f \in Names})

\* The solution the colony returns serves every request at the least cost any ant
\* of any iteration has found.
ReturnsLeastAnt ==
  (strategy = "ant_colony" /\ phase = "done")
    => /\ Len(best) = Len(requests)
       /\ Cost(best) = leastAnt

\* Greedy cheapest leaves no request a regret: while prices only rise with the
\* position, no slot within its reach comes to offer its flavour for less than it
\* paid.  Rows that carry the fallback's flavour are left out: a fallback is taken
\* at the arrival slot unsearched, and its row looks like a searched one.
NoRegret ==
  strategy = "greedy_cheapest" =>
    \A i \in DOMAIN rows : rows[i].flavour # fallback_flav =>
      \A s \in valid_slots(requests[i]) :
        rows[i].cost <= slot_cost(s, rows[i].flavour)

\* Both strategies that look for the least cost keep the least they found.
LeastFoundKept == ReturnsLeastAnt /\ NoRegret
=============================================================================
