--------------------------- MODULE MCSwarmWorkers ---------------------------
(***************************************************************************)
(* A small instance of SwarmWorkers for TLC.                                *)
(***************************************************************************)
EXTENDS SwarmWorkers

CONSTANTS r1, r2, r3, r4

\* Three requests of the first profile, which share its error budget, and one
\* of the second, which competes with it for the slots.
ProfileOfFour == r1 :> 1 @@ r2 :> 1 @@ r3 :> 2 @@ r4 :> 1
ArrivalOfFour == [r \in {r1, r2, r3, r4} |-> 0]
DeadlineOfFour == r1 :> 1 @@ r2 :> 1 @@ r3 :> 0 @@ r4 :> 0

CarbonRising == 0 :> 1 @@ 1 :> 2
\* A fast flavour with a large error and a slow exact one.
FastOrExact == << [duration |-> 1, error |-> 4], [duration |-> 3, error |-> 0] >>

Steeper == << [maxRequests |-> 2, multiplier |-> 1],
              [maxRequests |-> NoLimit, multiplier |-> 3] >>
ThreeSteps == << [maxRequests |-> 1, multiplier |-> 1],
                 [maxRequests |-> 2, multiplier |-> 2],
                 [maxRequests |-> NoLimit, multiplier |-> 3] >>
TwoLadders == {ThreeSteps, Steeper}

UsedBackends == {[mode |-> "serialized", strategy |-> "bandit"],
                 [mode |-> "merge", strategy |-> "bandit"],
                 [mode |-> "merge", strategy |-> "ant_colony"]}
=============================================================================
