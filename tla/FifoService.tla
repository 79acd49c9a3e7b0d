----------------------------- MODULE FifoService -----------------------------
(***************************************************************************)
(* What the scheduling engine promises its callers, without queues, loops,  *)
(* workers, rollbacks or clocks: requests are accepted, and each profile's  *)
(* requests are served in the order they were accepted, a batch at a time.  *)
(* A batch is placed as a whole; serving it may move what the same profile  *)
(* had placed before, never what another profile has, and nothing placed is *)
(* ever withdrawn.                                                          *)
(***************************************************************************)
EXTENDS Integers, Sequences

CONSTANTS Requests, Profiles, ProfileOf, Slots, None

VARIABLES
  accepted,   \* per profile, requests in the order they were accepted
  served,     \* per profile, requests in the order they were first placed
  placed      \* the slot of each request, or None

Members(q) == {q[i] : i \in DOMAIN q}

Init ==
  /\ accepted = [p \in Profiles |-> << >>]
  /\ served = [p \in Profiles |-> << >>]
  /\ placed = [r \in Requests |-> None]

Accept(r) ==
  /\ r \notin Members(accepted[ProfileOf[r]])
  /\ accepted' = [accepted EXCEPT ![ProfileOf[r]] = Append(@, r)]
  /\ UNCHANGED << served, placed >>

\* The n requests that wait longest.
NextBatch(p, n) == SubSeq(accepted[p], Len(served[p]) + 1, Len(served[p]) + n)

Serve(p, n) ==
  /\ Len(served[p]) + n <= Len(accepted[p])
  /\ served' = [served EXCEPT ![p] = @ \o NextBatch(p, n)]
  /\ placed' \in [Requests -> Slots \cup {None}]
  /\ \A r \in Requests :
       /\ placed'[r] # None <=> placed[r] # None \/ r \in Members(NextBatch(p, n))
       /\ ProfileOf[r] # p => placed'[r] = placed[r]
  /\ UNCHANGED accepted

Next ==
  \/ \E r \in Requests : Accept(r)
  \/ \E p \in Profiles : \E n \in 1 .. Len(accepted[p]) : Serve(p, n)

Spec == Init /\ [][Next]_<< accepted, served, placed >>
=============================================================================
