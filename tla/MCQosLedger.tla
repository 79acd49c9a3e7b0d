---------------------------- MODULE MCQosLedger ----------------------------
(***************************************************************************)
(* A small instance of QosLedger for TLC.                                   *)
(***************************************************************************)
EXTENDS QosLedger

CONSTANTS r1, r2, r3, gold, silver

ThreeOfTwo == r1 :> gold @@ r2 :> gold @@ r3 :> silver

\* Batches of two with future assignments locked; batches of one that move what
\* earlier ones planned.
LockedOrMoving == {[hard |-> TRUE, lock |-> TRUE, batchSize |-> 2],
                   [hard |-> TRUE, lock |-> FALSE, batchSize |-> 1]}
=============================================================================
