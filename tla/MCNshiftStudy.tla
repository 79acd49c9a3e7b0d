---------------------------- MODULE MCNshiftStudy ----------------------------
(***************************************************************************)
(* A small instance of NshiftStudy for TLC.                                 *)
(***************************************************************************)
EXTENDS NshiftStudy

\* Every scenario of n requests sorted by arrival whose deadlines are in D.
ScenariosOf(n, D) ==
  {sc \in [1 .. n -> [arrival : Slots, deadline : D]] :
     \A i \in 1 .. n - 1 : sc[i].arrival <= sc[i + 1].arrival}

\* n requests of slot 0 that may wait for slot 1.
AllAtOnce(n) == {[i \in 1 .. n |-> [arrival |-> 0, deadline |-> 1]]}

\* The first must run at once; the third arrives last, its deadline past the horizon.
OneOfEach == << [arrival |-> 0, deadline |-> 0], [arrival |-> 0, deadline |-> 2],
                [arrival |-> 1, deadline |-> 3] >>

\* A deadline may precede the arrival.
LateFromTheStart == << [arrival |-> 0, deadline |-> 2], [arrival |-> 1, deadline |-> 0],
                       [arrival |-> 2, deadline |-> 2] >>

Study == [greedy_baseline |-> ScenariosOf(3, Slots),
          greedy_cheapest |-> ScenariosOf(5, {0, 2}),
          bandit |-> ScenariosOf(3, Slots) \cup AllAtOnce(5),
          ant_colony |-> ScenariosOf(3, Slots),
          online |-> {OneOfEach, LateFromTheStart},
          online_swarm |-> {OneOfEach, LateFromTheStart}]

CarbonFalling == [s \in Slots |-> TotalSlots - s]

\* A slow exact flavour and a fast one of larger error.
FastOrExact == << [duration |-> 1, error |-> 3], [duration |-> 3, error |-> 0] >>

ThreeSteps == << [maxRequests |-> 1, multiplier |-> 1],
                 [maxRequests |-> 2, multiplier |-> 2],
                 [maxRequests |-> NoLimit, multiplier |-> 4] >>
=============================================================================
