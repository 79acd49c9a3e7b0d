-------------------------- MODULE MCBatchScheduler --------------------------
(***************************************************************************)
(* Small instances of BatchScheduler for TLC.                               *)
(***************************************************************************)
EXTENDS BatchScheduler, TLC

CONSTANTS r1, r2, r3

\* Two profiles; r1 and r2 compete in the first.
ProfileOfThree == r1 :> 1 @@ r2 :> 1 @@ r3 :> 2
ArrivalOfThree == r1 :> 0 @@ r2 :> 0 @@ r3 :> 0
DeadlineOfThree == r1 :> 0 @@ r2 :> 1 @@ r3 :> 1

\* A profile for each request.
ProfileOfEach == r1 :> 1 @@ r2 :> 2 @@ r3 :> 3

\* r2 belongs to the next slot and is submitted early.
ArrivalMixed == r1 :> 0 @@ r2 :> 1 @@ r3 :> 0

\* One profile, two requests.
ProfileOfTwo == r1 :> 1 @@ r2 :> 1
ArrivalTwo == r1 :> 0 @@ r2 :> 0
DeadlineTwo == r1 :> 1 @@ r2 :> 1

\* The same for a third request, with deadlines inside a longer horizon.
ProfileOfOne == r1 :> 1 @@ r2 :> 1 @@ r3 :> 1
DeadlineSpread == r1 :> 1 @@ r2 :> 1 @@ r3 :> 2

FlatThenSteep == << [maxRequests |-> 1, multiplier |-> 1],
                    [maxRequests |-> NoLimit, multiplier |-> 2] >>
Flat == << [maxRequests |-> NoLimit, multiplier |-> 1] >>
OneLadder == {FlatThenSteep}
TwoLadders == {FlatThenSteep, Flat}
=============================================================================
