--------------------------- MODULE MCSimulationRun ---------------------------
(***************************************************************************)
(* Small configurations of SimulationRun: three slots of two ticks, up to   *)
(* five requests.                                                           *)
(***************************************************************************)
EXTENDS SimulationRun

\* A full batch and a straggler, nothing, then a straggler in the last slot.
Uneven == 0 :> <<1, 2, 3>> @@ 1 :> << >> @@ 2 :> <<4>>

\* Requests in every slot.
Dense == 0 :> <<1, 2>> @@ 1 :> <<3>> @@ 2 :> <<4, 5>>

\* Offline with limits that strike, in real time, and offline one by one.
ThreeConfigs ==
  {[skip |-> TRUE, batchSize |-> 2, timeout |-> 0, drainLimit |-> TRUE,
    stopLimit |-> TRUE, arrivals |-> Uneven, deadline |-> <<0, 0, 0, 2>>],
   [skip |-> FALSE, batchSize |-> 2, timeout |-> 3, drainLimit |-> FALSE,
    stopLimit |-> FALSE, arrivals |-> Dense, deadline |-> <<1, 1, 2, 2, 2>>],
   [skip |-> TRUE, batchSize |-> 1, timeout |-> 0, drainLimit |-> FALSE,
    stopLimit |-> FALSE, arrivals |-> Dense, deadline |-> <<1, 1, 2, 2, 2>>]}
==============================================================================
