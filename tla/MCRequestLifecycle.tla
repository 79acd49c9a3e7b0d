------------------------- MODULE MCRequestLifecycle -------------------------
(***************************************************************************)
(* Small instances of RequestLifecycle for TLC.                             *)
(***************************************************************************)
EXTENDS RequestLifecycle, TLC

CONSTANTS r1, r2

\* Each request has a slot of its own; r2 may be submitted early.
ArrivalEach == r1 :> 0 @@ r2 :> 1
DeadlineEach == r1 :> 0 @@ r2 :> 1

\* One request.
ArrivalOne == r1 :> 0
DeadlineOne == r1 :> 0
=============================================================================
