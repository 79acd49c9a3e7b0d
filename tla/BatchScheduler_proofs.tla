------------------------ MODULE BatchScheduler_proofs ------------------------
(***************************************************************************)
(* Proofs about BatchScheduler, for every number of profiles, requests,     *)
(* slots and workers, in four parts.                                        *)
(* Queue: types, reservations, the order of each profile, the barrier.      *)
(* Plans: what a plan in a worker's hands is allowed to contain when it is  *)
(* committed, and that the engine implements FifoService.                   *)
(* Time: under the manual clock the close barrier keeps every request       *)
(* inside its window and seals acknowledged slots; under wall time the      *)
(* slot only grows, so re-planning never makes a request late.              *)
(* Prices: a batch is never priced in a higher tier than its solver         *)
(* assumed, and every rollback is paid for by another worker's commit.      *)
(***************************************************************************)
EXTENDS BatchScheduler, FiniteSetTheorems, SequenceTheorems,
        WellFoundedInduction, TLAPS

-----------------------------------------------------------------------------
(* The operators the model is built from. *)

\* The smaller of two integers is one of them and no larger than either.
LEMMA MinPair ==
  ASSUME NEW a \in Int, NEW b \in Int
  PROVE  Min({a, b}) = IF a <= b THEN a ELSE b
<1>1. \A x \in {a, b} : x >= a \/ x >= b
  OBVIOUS
<1>2. PICK m \in {a, b} : \A y \in {a, b} : m =< y
  OBVIOUS
<1>3. Min({a, b}) \in {a, b} /\ \A y \in {a, b} : Min({a, b}) =< y
  BY <1>2 DEF Min
<1> QED
  BY <1>3

\* The larger of two numbers.
LEMMA MaxPair ==
  ASSUME NEW a \in Int, NEW b \in Int
  PROVE  Max({a, b}) = IF a >= b THEN a ELSE b
<1>1. PICK m \in {a, b} : \A y \in {a, b} : m >= y
  OBVIOUS
<1>2. Max({a, b}) \in {a, b} /\ \A y \in {a, b} : Max({a, b}) >= y
  BY <1>1 DEF Max
<1> QED
  BY <1>2

\* The least of three numbers.
LEMMA MinTriple ==
  ASSUME NEW a \in Int, NEW b \in Int, NEW c \in Int
  PROVE  /\ Min({a, b, c}) \in {a, b, c}
         /\ \A y \in {a, b, c} : Min({a, b, c}) =< y
<1>1. PICK m \in {a, b, c} : \A y \in {a, b, c} : m =< y
  OBVIOUS
<1> QED
  BY <1>1 DEF Min

\* A nonempty set of naturals has a least element, and Min returns it.
LEMMA MinOfNaturals ==
  ASSUME NEW S, S \subseteq Nat, S # {}
  PROVE  Min(S) \in S /\ \A y \in S : Min(S) =< y
<1> DEFINE R == {ss \in Nat \X Nat : ss[1] < ss[2]}
<1>1. IsWellFoundedOn(R, Nat)
  BY NatLessThanWellFounded DEF OpToRel
<1> HIDE DEF R
<1>2. PICK m \in S : \A y \in S : ~ (<<y, m>> \in R)
  BY <1>1, WFMin
<1>3. ASSUME NEW y \in S PROVE m =< y
  <2>1. ~ (<<y, m>> \in R)
    BY <1>2
  <2>2. ~ (y < m)
    BY <2>1 DEF R
  <2> QED
    BY <2>2
<1> QED
  BY <1>3 DEF Min
\* The window arithmetic of prepare_solve stays inside the horizon.
LEMMA CapDeadlineType ==
  ASSUME NEW d \in Slots, NEW s \in Slots
  PROVE  cap_deadline(d, s) \in Slots
<1> USE SizeAssumption DEF Slots
<1>1. Max({d, s}) \in Slots
  BY MaxPair
<1>2. WindowEnd(s) \in Slots
  BY MinPair DEF WindowEnd
<1> DEFINE a == Max({d, s})
           b == WindowEnd(s)
           c == TotalSlots - 1
<1>3. a \in Slots /\ b \in Slots /\ c \in Slots
  BY <1>1, <1>2
<1>4. cap_deadline(d, s) = Min({a, b, c})
  BY DEF cap_deadline
<1> HIDE DEF a, b, c
<1>5. a \in Int /\ b \in Int /\ c \in Int
  BY <1>3
<1>6. Min({a, b, c}) \in {a, b, c}
  BY <1>5, MinTriple
<1> QED
  BY <1>3, <1>4, <1>6

\* Occupancies are counts of finite sets of requests.
LEMMA BaselineType ==
  ASSUME NEW p, NEW s
  PROVE  BaselineCounts(p, s) \in [Slots -> Nat]
<1>1. ASSUME NEW T \in SUBSET Requests
      PROVE  Cardinality(T) \in Nat
  BY RequestAssumption, FS_Subset, FS_CardinalityType
<1> QED
  BY <1>1 DEF BaselineCounts

\* The records an idle thread and a fresh solve start from.
LEMMA IdleTypes ==
  /\ IdleThread \in ThreadType
  /\ NoPlan \in [Requests -> SlotOrNone]
  /\ ZeroCounts \in [Slots -> Nat]
<1>1. NoPlan \in [Requests -> SlotOrNone] /\ ZeroCounts \in [Slots -> Nat]
  BY DEF NoPlan, ZeroCounts, SlotOrNone
<1>2. << >> \in Seq(Requests) /\ 1 \in Profiles /\ 0 \in Slots
  BY SizeAssumption, EmptySeq DEF Profiles, Slots
<1> QED
  BY <1>1, <1>2 DEF IdleThread, ThreadType, ThreadPc

\* The round-robin cursor always lands on an eligible profile.
LEMMA NextProfileEligible ==
  ASSUME EligibleProfiles # {}
  PROVE  next_profile_to_dispatch \in EligibleProfiles
<1> DEFINE after == {p \in EligibleProfiles : p > lastDispatched}
<1>1. EligibleProfiles \subseteq Nat
  BY SizeAssumption DEF EligibleProfiles, Profiles
<1>2. CASE after # {}
  <2>1. Min(after) \in after
    BY <1>1, <1>2, MinOfNaturals
  <2> QED
    BY <1>2, <2>1 DEF next_profile_to_dispatch
<1>3. CASE after = {}
  <2>1. Min(EligibleProfiles) \in EligibleProfiles
    BY <1>1, MinOfNaturals, Zenon
  <2> QED
    BY <1>3, <2>1 DEF next_profile_to_dispatch
<1> QED
  BY <1>2, <1>3

\* Cutting a queue at the claim count splits it without losing anything.
LEMMA SplitQueue ==
  ASSUME NEW q \in Seq(Requests), NEW n \in 0 .. Len(q)
  PROVE  /\ SubSeq(q, 1, n) \in Seq(Requests)
         /\ SubSeq(q, n + 1, Len(q)) \in Seq(Requests)
         /\ SubSeq(q, 1, n) \o SubSeq(q, n + 1, Len(q)) = q
<1>1. Len(q) \in Nat /\ n \in Nat /\ n <= Len(q)
  BY LenProperties
<1>2. \A i \in 1 .. Len(q) : q[i] \in Requests
  BY ElementOfSeq
<1>3. SubSeq(q, 1, n) \in Seq(Requests)
  BY <1>1, <1>2, SubSeqProperties
<1>4. SubSeq(q, n + 1, Len(q)) \in Seq(Requests)
  BY <1>1, <1>2, SubSeqProperties
<1>5. 1 \in 1 .. Len(q) + 1 /\ n \in 1 - 1 .. Len(q) /\ Len(q) \in n .. Len(q)
  BY <1>1
<1>6. SubSeq(q, 1, n) \o SubSeq(q, n + 1, Len(q)) = SubSeq(q, 1, Len(q))
  BY <1>5, ConcatAdjacentSubSeq
<1>7. SubSeq(q, 1, Len(q)) = q
  BY SubSeqFull
<1> QED
  BY <1>3, <1>4, <1>6, <1>7, Zenon

\* What one turn of dispatch_batch_workers does, with its choices named.
LEMMA DispatchStep ==
  ASSUME TypeOK, LoopDispatch
  PROVE  \E p \in Profiles, w \in Workers, n \in Nat :
             /\ n >= 1 /\ n <= Len(pending[p])
             /\ p \notin activeProfiles
             /\ activeWorkers < MaxWorkers
             /\ thread[w].pc = "idle"
             /\ thread' = [thread EXCEPT ![w] =
                  [IdleThread EXCEPT
                     !.pc = "start", !.profile = p, !.slot = loop.slot,
                     !.count = Len(pending[p]),
                     !.batch = SubSeq(pending[p], 1, n)]]
             /\ pending' = [pending EXCEPT ![p] = SubSeq(@, n + 1, Len(@))]
             /\ lastDispatched' = p
             /\ activeProfiles' = activeProfiles \cup {p}
             /\ activeWorkers' = activeWorkers + 1
<1> DEFINE p == next_profile_to_dispatch
           n == ClaimCount(p)
           free == {w \in Workers : thread[w].pc = "idle"}
           w == Min(free)
<1>1. EligibleProfiles # {} /\ free # {} /\ activeWorkers < MaxWorkers
  BY DEF LoopDispatch, CanDispatch
<1>2. p \in EligibleProfiles
  BY <1>1, NextProfileEligible
<1>3. p \in Profiles /\ p \notin activeProfiles /\ Len(pending[p]) > 0
  BY <1>2 DEF EligibleProfiles
<1>4. free \subseteq Nat
  BY SizeAssumption DEF Workers
<1>5. w \in Workers /\ thread[w].pc = "idle"
  BY <1>1, <1>4, MinOfNaturals
<1>6. Len(pending[p]) \in Nat
  BY <1>3, LenProperties DEF TypeOK
<1>7. n \in Nat /\ n >= 1 /\ n <= Len(pending[p])
  BY <1>3, <1>6, SizeAssumption, MinPair DEF ClaimCount
<1>8. /\ thread' = [thread EXCEPT ![w] =
           [IdleThread EXCEPT
              !.pc = "start", !.profile = p, !.slot = loop.slot,
              !.count = Len(pending[p]), !.batch = SubSeq(pending[p], 1, n)]]
      /\ pending' = [pending EXCEPT ![p] = SubSeq(@, n + 1, Len(@))]
      /\ lastDispatched' = p
      /\ activeProfiles' = activeProfiles \cup {p}
      /\ activeWorkers' = activeWorkers + 1
  BY DEF LoopDispatch
<1> HIDE DEF p, n, w
<1> QED
  BY <1>1, <1>3, <1>5, <1>7, <1>8

-----------------------------------------------------------------------------
(* Type correctness. *)

\* The initial state is well typed.
LEMMA TypeInit == Init => TypeOK
<1> SUFFICES ASSUME Init PROVE TypeOK
  OBVIOUS
<1>1. << >> \in Seq(Requests) /\ 1 \in Profiles /\ 0 \in Slots
  BY SizeAssumption, EmptySeq DEF Profiles, Slots
<1>2. loop \in LoopType
  BY <1>1 DEF Init, IdleLoop, LoopType, LoopPc, Passes, SlotOrNone
<1>3. thread \in [Workers -> ThreadType]
  BY IdleTypes DEF Init
<1>4. closing \in ClosingType
  BY <1>1 DEF Init, ClosingType
<1>5. virtualSlot \in 0 .. TotalSlots /\ providerSlot \in 0 .. TotalSlots
  BY SizeAssumption DEF Init
<1> QED
  BY <1>1, <1>2, <1>3, <1>4, <1>5, RequestAssumption
  DEF Init, TypeOK, SlotOrNone

\* Every step keeps the types.
LEMMA TypeNext == TypeOK /\ [Next]_vars => TypeOK'
<1> USE DEF sharedVars, clockVars, tierVars, rollbackVars, reservationVars,
            mutableVars, serviceVars, historyVars, loopOnly
<1> SUFFICES ASSUME TypeOK, [Next]_vars PROVE TypeOK'
  OBVIOUS
<1>0. \A w \in Workers : thread[w] \in ThreadType
  BY DEF TypeOK
<1>1. ASSUME NEW r \in Requests, AdmitRequest(r) PROVE TypeOK'
  <2>1. ProfileOf[r] \in Profiles
    BY RequestAssumption
  <2>2. /\ Append(pending[ProfileOf[r]], r) \in Seq(Requests)
        /\ Append(accepted[ProfileOf[r]], r) \in Seq(Requests)
    BY <2>1, AppendProperties DEF TypeOK
  <2>3. /\ pending' \in [Profiles -> Seq(Requests)]
        /\ accepted' \in [Profiles -> Seq(Requests)]
    BY <1>1, <2>1, <2>2 DEF AdmitRequest, TypeOK
  <2> QED
    BY <1>1, <2>3 DEF AdmitRequest, TypeOK
<1>2. CASE CloseFence
  <2>1. closing' \in ClosingType /\ closedThrough' \in SlotOrNone
    BY <1>2, SizeAssumption
    DEF CloseFence, TypeOK, ClosingType, Slots, SlotOrNone
  <2> QED
    BY <1>2, <2>1 DEF CloseFence, TypeOK
<1>3. CASE CloseFlush
  <2>1. closing' \in ClosingType /\ flushSlot' \in SlotOrNone
    BY <1>3 DEF CloseFlush, TypeOK, ClosingType, SlotOrNone
  <2> QED
    BY <1>3, <2>1 DEF CloseFlush, TypeOK
<1>4. CASE CloseAck
  <2>1. closing' \in ClosingType /\ acked' \in SlotOrNone
    BY <1>4 DEF CloseAck, TypeOK, ClosingType, SlotOrNone
  <2> QED
    BY <1>4, <2>1 DEF CloseAck, TypeOK
<1>5. CASE CloseTimeout
  <2>1. closing' \in ClosingType
    BY <1>5 DEF CloseTimeout, TypeOK, ClosingType
  <2> QED
    BY <1>5, <2>1 DEF CloseTimeout, TypeOK
<1>6. CASE AdvanceClock
  <2>1. /\ advance' \in SlotOrNone
        /\ virtualSlot' \in 0 .. TotalSlots
        /\ providerSlot' \in 0 .. TotalSlots
    <3>1. currentSlot \in Slots /\ acked \in SlotOrNone /\ providerSlot \in Nat
      BY DEF TypeOK
    <3>2. Min({currentSlot + 1, TotalSlots - 1}) \in Slots
      BY <3>1, SizeAssumption, MinPair DEF Slots
    <3> QED
      BY <1>6, <3>1, <3>2, SizeAssumption DEF AdvanceClock, Slots, SlotOrNone, NoSlot
  <2> QED
    BY <1>6, <2>1 DEF AdvanceClock, TypeOK
<1>7. CASE AdvanceSlot
  <2>1. currentSlot' \in Slots /\ advance' \in SlotOrNone
    BY <1>7 DEF AdvanceSlot, TypeOK, SlotOrNone
  <2> QED
    BY <1>7, <2>1 DEF AdvanceSlot, TypeOK
<1>8. CASE ReplaceTiers
  BY <1>8 DEF ReplaceTiers, TypeOK
<1>9. CASE Stop
  BY <1>9 DEF Stop, TypeOK
<1>10. CASE LoopExit
  <2>1. loop' \in LoopType
    BY <1>10 DEF LoopExit, TypeOK, LoopType, LoopPc, Passes
  <2> QED
    BY <1>10, <2>1 DEF LoopExit, TypeOK
<1>11. CASE LoopReadPending
  <2>1. loop' \in LoopType
    BY <1>11 DEF LoopReadPending, TypeOK, LoopType, LoopPc, Passes, HasPending
  <2> QED
    BY <1>11, <2>1 DEF LoopReadPending, TypeOK
<1>12. CASE LoopReadActive
  <2>1. loop' \in LoopType
    BY <1>12 DEF LoopReadActive, TypeOK, LoopType, LoopPc, Passes
  <2> QED
    BY <1>12, <2>1 DEF LoopReadActive, TypeOK
<1>13. CASE LoopChoosePass
  <2>1. PICK pass \in PassChoices :
          loop' = [loop EXCEPT
                     !.pc = IF pass = "none" THEN "end" ELSE "dispatch",
                     !.pass = pass]
    BY <1>13 DEF LoopChoosePass
  <2>2. pass \in Passes
    BY DEF PassChoices, Passes
  <2>3. loop' \in LoopType
    BY <2>1, <2>2 DEF TypeOK, LoopType, LoopPc
  <2> QED
    BY <1>13, <2>3 DEF LoopChoosePass, TypeOK
<1>14. CASE LoopDispatchDone
  <2>1. loop' \in LoopType
    BY <1>14 DEF LoopDispatchDone, TypeOK, LoopType, LoopPc, Passes
  <2> QED
    BY <1>14, <2>1 DEF LoopDispatchDone, TypeOK
<1>15. CASE LoopReadCounts
  <2>1. [p \in Profiles |-> Len(pending[p])] \in [Profiles -> Nat]
    BY LenProperties DEF TypeOK
  <2>2. loop' \in LoopType
    BY <1>15, <2>1 DEF LoopReadCounts, TypeOK, LoopType, LoopPc
  <2> QED
    BY <1>15, <2>2 DEF LoopReadCounts, TypeOK
<1>16. CASE LoopReadClock
  <2>1. virtualSlot' \in 0 .. TotalSlots
    <3>1. virtualSlot \in 0 .. TotalSlots
      BY DEF TypeOK
    <3> QED
      BY <1>16, <3>1, SizeAssumption DEF LoopReadClock
  <2>2. Min({virtualSlot', TotalSlots - 1}) \in Slots
    BY <2>1, SizeAssumption, MinPair DEF Slots
  <2>3. loop' \in LoopType
    BY <1>16, <2>2 DEF LoopReadClock, TypeOK, LoopType, LoopPc
  <2> QED
    BY <1>16, <2>1, <2>3 DEF LoopReadClock, TypeOK
<1>17. CASE LoopSetSlot
  <2>1. loop' \in LoopType /\ currentSlot' \in Slots
    BY <1>17 DEF LoopSetSlot, TypeOK, LoopType, LoopPc
  <2> QED
    BY <1>17, <2>1 DEF LoopSetSlot, TypeOK
<1>18. CASE LoopSetBacklog
  <2>1. loop' \in LoopType
    BY <1>18, ZenonT(40) DEF LoopSetBacklog, TypeOK, LoopType, LoopPc, SlotOrNone
  <2> QED
    BY <1>18, <2>1 DEF LoopSetBacklog, TypeOK
<1>19. CASE LoopEnd
  <2>1. 0 \in Slots
    BY SizeAssumption DEF Slots
  <2>2. flushSlot' \in SlotOrNone
    BY <1>19 DEF LoopEnd, TypeOK, SlotOrNone
  <2>3. IdleLoop \in LoopType
    BY <2>1 DEF IdleLoop, LoopType, LoopPc, Passes, SlotOrNone
  <2>4. loop.lastFlushSlot \in SlotOrNone /\ loop.flushBacklog \in BOOLEAN
    BY DEF TypeOK, LoopType
  <2>5. loop' \in LoopType
    BY <1>19, <2>3, <2>4 DEF LoopEnd, LoopType
  <2> QED
    BY <1>19, <2>2, <2>5 DEF LoopEnd, TypeOK
<1>20. CASE LoopDispatch
  <2>1. PICK p \in Profiles, w \in Workers, n \in Nat :
          /\ n <= Len(pending[p])
          /\ thread' = [thread EXCEPT ![w] =
               [IdleThread EXCEPT
                  !.pc = "start", !.profile = p, !.slot = loop.slot,
                  !.count = Len(pending[p]),
                  !.batch = SubSeq(pending[p], 1, n)]]
          /\ pending' = [pending EXCEPT ![p] = SubSeq(@, n + 1, Len(@))]
          /\ lastDispatched' = p
          /\ activeProfiles' = activeProfiles \cup {p}
          /\ activeWorkers' = activeWorkers + 1
    BY <1>20, DispatchStep
  <2>2. pending[p] \in Seq(Requests) /\ Len(pending[p]) \in Nat
    BY LenProperties DEF TypeOK
  <2>3. /\ SubSeq(pending[p], 1, n) \in Seq(Requests)
        /\ SubSeq(pending[p], n + 1, Len(pending[p])) \in Seq(Requests)
    BY <2>1, <2>2, SplitQueue
  <2>4. pending' \in [Profiles -> Seq(Requests)]
    BY <2>1, <2>3 DEF TypeOK
  <2>5. loop.slot \in Slots
    BY DEF TypeOK, LoopType
  <2>6. [IdleThread EXCEPT
           !.pc = "start", !.profile = p, !.slot = loop.slot,
           !.count = Len(pending[p]), !.batch = SubSeq(pending[p], 1, n)]
          \in ThreadType
    BY <2>2, <2>3, <2>5, IdleTypes DEF ThreadType, ThreadPc
  <2>7. thread' \in [Workers -> ThreadType]
    BY <2>1, <2>6 DEF TypeOK
  <2>8. /\ lastDispatched' \in Profiles \cup {0}
        /\ activeProfiles' \subseteq Profiles
        /\ activeWorkers' \in Int
    <3>1. /\ lastDispatched' = p
          /\ activeProfiles' = activeProfiles \cup {p}
          /\ activeWorkers' = activeWorkers + 1
      BY <2>1
    <3>2. activeProfiles \subseteq Profiles /\ activeWorkers \in Int
      BY DEF TypeOK
    <3> QED
      BY <3>1, <3>2
  <2>9. UNCHANGED <<assigned, storedDeadline, clockVars, flushSlot, tierVars,
                    rollbackVars, lastInfeasible, seenRevision,
                    batchesProcessed, running, loop, serviceVars, historyVars>>
    BY <1>20 DEF LoopDispatch
  <2> QED
    BY <2>4, <2>7, <2>8, <2>9 DEF TypeOK
<1>21. ASSUME NEW w \in Workers, WorkerStart(w) PROVE TypeOK'
  <2>1. [thread[w] EXCEPT !.pc = "solve"] \in ThreadType
    BY <1>0 DEF ThreadType, ThreadPc
  <2>2. thread' \in [Workers -> ThreadType]
    BY <1>21, <2>1 DEF WorkerStart, TypeOK
  <2> QED
    BY <1>21, <2>2 DEF WorkerStart, TypeOK
<1>22. ASSUME NEW w \in Workers, WorkerSolve(w) PROVE TypeOK'
  <2> DEFINE base == BaselineCounts(thread[w].profile, thread[w].slot)
  <2>1. PICK plan \in Placements(thread[w].batch, thread[w].profile, thread[w].slot) :
          thread' = [thread EXCEPT ![w] =
            [@ EXCEPT !.pc = "commit", !.plan = plan, !.baseline = base]]
    BY <1>22 DEF WorkerSolve
  <2>2. plan \in [Requests -> SlotOrNone]
    BY DEF Placements, SlotOrNone
  <2>3. base \in [Slots -> Nat]
    BY BaselineType
  <2> HIDE DEF base
  <2>4. [thread[w] EXCEPT !.pc = "commit", !.plan = plan, !.baseline = base]
          \in ThreadType
    BY <1>0, <2>2, <2>3 DEF ThreadType, ThreadPc
  <2>5. thread' \in [Workers -> ThreadType]
    BY <2>1, <2>4 DEF TypeOK
  <2> QED
    BY <1>22, <2>5 DEF WorkerSolve, TypeOK
<1>23. ASSUME NEW w \in Workers, WorkerInfeasible(w) PROVE TypeOK'
  <2>1. thread[w].profile \in Profiles /\ thread[w].batch \in Seq(Requests)
    BY <1>0 DEF ThreadType
  <2>2. thread[w].batch \o pending[thread[w].profile] \in Seq(Requests)
    BY <2>1, ConcatProperties DEF TypeOK
  <2>3. pending' \in [Profiles -> Seq(Requests)]
    BY <1>23, <2>1, <2>2 DEF WorkerInfeasible, TypeOK
  <2>4. << >> \in Seq(Requests)
    BY EmptySeq
  <2>5. [thread[w] EXCEPT !.pc = "release", !.batch = << >>] \in ThreadType
    BY <1>0, <2>4 DEF ThreadType, ThreadPc
  <2>6. thread' \in [Workers -> ThreadType]
    BY <1>23, <2>5 DEF WorkerInfeasible, TypeOK
  <2> QED
    BY <1>23, <2>3, <2>6 DEF WorkerInfeasible, TypeOK
<1>24. ASSUME NEW w \in Workers, WorkerRollback(w) PROVE TypeOK'
  <2>1. thread[w].rollbacks \in Nat /\ maxConsecutive \in Nat /\ totalRollbacks \in Nat
    BY <1>0 DEF TypeOK, ThreadType
  <2>2. Max({maxConsecutive, thread[w].rollbacks + 1}) \in Nat
    BY <2>1, MaxPair
  <2>3. maxConsecutive' \in Nat /\ totalRollbacks' \in Nat
    BY <1>24, <2>1, <2>2 DEF WorkerRollback
  <2>4. [thread[w] EXCEPT !.pc = "solve", !.plan = NoPlan,
                          !.baseline = ZeroCounts,
                          !.rollbacks = thread[w].rollbacks + 1]
          \in ThreadType
    <3>1. ASSUME NEW n \in Nat
          PROVE  [thread[w] EXCEPT !.pc = "solve", !.plan = NoPlan,
                                   !.baseline = ZeroCounts, !.rollbacks = n]
                   \in ThreadType
      BY <1>0, IdleTypes DEF ThreadType, ThreadPc
    <3>2. thread[w].rollbacks + 1 \in Nat
      BY <2>1
    <3> QED
      BY <3>1, <3>2
  <2>5. thread' \in [Workers -> ThreadType]
    BY <1>24, <2>4 DEF WorkerRollback, TypeOK
  <2> QED
    BY <1>24, <2>3, <2>5 DEF WorkerRollback, TypeOK
<1>25. ASSUME NEW w \in Workers, WorkerCommit(w) PROVE TypeOK'
  <2>1. /\ thread[w].profile \in Profiles
        /\ thread[w].slot \in Slots
        /\ thread[w].batch \in Seq(Requests)
        /\ thread[w].plan \in [Requests -> SlotOrNone]
    BY <1>0 DEF ThreadType
  <2>2. assigned' \in [Requests -> SlotOrNone]
    BY <1>25, <2>1 DEF WorkerCommit, TypeOK
  <2>3. ASSUME NEW r \in Requests PROVE CommittedDeadline(w, r) \in Slots
    BY <2>1, CapDeadlineType, RequestAssumption DEF CommittedDeadline, TypeOK
  <2>4. storedDeadline' \in [Requests -> Slots]
    BY <1>25, <2>3 DEF WorkerCommit, TypeOK
  <2>5. committed[thread[w].profile] \o thread[w].batch \in Seq(Requests)
    BY <2>1, ConcatProperties DEF TypeOK
  <2>6. committed' \in [Profiles -> Seq(Requests)]
    BY <1>25, <2>1, <2>5 DEF WorkerCommit, TypeOK
  <2>7. [thread[w] EXCEPT !.pc = "mark", !.plan = NoPlan,
                          !.baseline = ZeroCounts] \in ThreadType
    BY <1>0, IdleTypes DEF ThreadType, ThreadPc
  <2>8. thread' \in [Workers -> ThreadType]
    BY <1>25, <2>7 DEF WorkerCommit, TypeOK
  <2> QED
    BY <1>25, <2>2, <2>4, <2>6, <2>8 DEF WorkerCommit, TypeOK
<1>26. ASSUME NEW w \in Workers, WorkerMark(w) PROVE TypeOK'
  <2>1. thread[w].batch \in Seq(Requests)
    BY <1>0 DEF ThreadType
  <2>2. Range(thread[w].batch) \subseteq Requests
    BY <2>1, ElementOfSeq, LenProperties DEF Range
  <2>3. rolledBackIds' \subseteq Requests
    BY <1>26, <2>2 DEF WorkerMark, TypeOK
  <2>4. << >> \in Seq(Requests)
    BY EmptySeq
  <2>5. [thread[w] EXCEPT !.pc = "release", !.batch = << >>, !.scheduled = TRUE]
          \in ThreadType
    BY <1>0, <2>4 DEF ThreadType, ThreadPc
  <2>6. thread' \in [Workers -> ThreadType]
    BY <1>26, <2>5 DEF WorkerMark, TypeOK
  <2>7. batchesProcessed' \in Nat
    BY <1>26, SMTT(20) DEF WorkerMark, TypeOK
  <2>8. UNCHANGED <<sharedVars, clockVars, flushSlot, tierVars, totalRollbacks,
                    maxConsecutive, reservationVars, lastInfeasible,
                    lastDispatched, seenRevision, running, loop, serviceVars,
                    historyVars>>
    BY <1>26 DEF WorkerMark
  <2> QED
    BY <2>3, <2>6, <2>7, <2>8, SMTT(60) DEF TypeOK
<1>27. ASSUME NEW w \in Workers, WorkerRelease(w) PROVE TypeOK'
  <2>1. /\ thread[w].profile \in Profiles
        /\ thread[w].slot \in Slots
        /\ thread[w].count \in Nat
    BY <1>0 DEF ThreadType
  <2>2. thread' \in [Workers -> ThreadType]
    BY <1>27, IdleTypes DEF WorkerRelease, TypeOK
  <2>3. /\ <<NoSlot, 0>> \in SlotOrNone \X Nat
        /\ <<thread[w].slot, thread[w].count>> \in SlotOrNone \X Nat
    BY <2>1 DEF SlotOrNone
  <2>4. lastInfeasible' \in [Profiles -> SlotOrNone \X Nat]
    BY <1>27, <2>1, <2>3 DEF WorkerRelease, TypeOK
  <2>5. activeWorkers' \in Int /\ activeProfiles' \subseteq Profiles
    BY <1>27 DEF WorkerRelease, TypeOK
  <2> QED
    BY <1>27, <2>2, <2>4, <2>5 DEF WorkerRelease, TypeOK
<1>28. CASE UNCHANGED vars
  BY <1>28 DEF vars, TypeOK
<1>29. CASE LoopReadFlush
  <2>1. loop' \in LoopType
    BY <1>29 DEF LoopReadFlush, TypeOK, LoopType, LoopPc, Passes
  <2> QED
    BY <1>29, <2>1 DEF LoopReadFlush, TypeOK
<1> QED
  BY <1>1, <1>2, <1>3, <1>4, <1>5, <1>6, <1>7, <1>8, <1>9, <1>10, <1>11,
     <1>12, <1>13, <1>14, <1>15, <1>16, <1>17, <1>18, <1>19, <1>20, <1>21,
     <1>22, <1>23, <1>24, <1>25, <1>26, <1>27, <1>28, <1>29
  DEF Next, LoopStep, WorkerStep

\* Type correctness of the engine's state, for every instance.
THEOREM TypeCorrect == Spec => []TypeOK
<1> QED
  BY TypeInit, TypeNext, PTL DEF Spec
-----------------------------------------------------------------------------
(* Reservations describe the live threads. *)

\* The workers that are out, and those of one profile, are finitely many.
LEMMA BusyFinite == IsFiniteSet(Busy)
<1>1. IsFiniteSet(1 .. MaxWorkers)
  BY SizeAssumption, FS_Interval
<1>2. Busy \in SUBSET (1 .. MaxWorkers)
  BY DEF Busy, Workers
<1> QED
  BY <1>1, <1>2, FS_Subset

\* A step that changes neither the threads nor the reservations.
LEMMA ReservationsFrame ==
  ASSUME ReservationsMatch, UNCHANGED <<thread, activeWorkers, activeProfiles>>
  PROVE  ReservationsMatch'
BY DEF ReservationsMatch, Busy

\* A busy thread moves on, keeps its profile and stays busy.
LEMMA ReservationsThread ==
  ASSUME TypeOK, ReservationsMatch, NEW w \in Workers, NEW rec,
         thread[w].pc # "idle", rec.pc # "idle",
         rec.profile = thread[w].profile,
         thread' = [thread EXCEPT ![w] = rec],
         UNCHANGED <<activeWorkers, activeProfiles>>
  PROVE  ReservationsMatch'
<1>1. /\ thread'[w] = rec
      /\ \A v \in Workers : v # w => thread'[v] = thread[v]
  BY DEF TypeOK
<1>2. \A v \in Workers : /\ thread'[v].profile = thread[v].profile
                         /\ thread'[v].pc # "idle" <=> thread[v].pc # "idle"
  BY <1>1
<1>3. Busy' = Busy
  BY <1>2 DEF Busy
<1>4. {thread'[v].profile : v \in Busy} = {thread[v].profile : v \in Busy}
  BY <1>2 DEF Busy
<1> QED
  BY <1>2, <1>3, <1>4, Zenon DEF ReservationsMatch, Busy

\* A dispatch reserves the profile it hands to a worker, and no other.
LEMMA ReservationsDispatch ==
  ASSUME TypeOK, ReservationsMatch, LoopDispatch
  PROVE  ReservationsMatch'
<1>1. PICK p \in Profiles, w \in Workers, n \in Nat :
        /\ p \notin activeProfiles
        /\ activeWorkers < MaxWorkers
        /\ thread[w].pc = "idle"
        /\ thread' = [thread EXCEPT ![w] =
             [IdleThread EXCEPT
                !.pc = "start", !.profile = p, !.slot = loop.slot,
                !.count = Len(pending[p]),
                !.batch = SubSeq(pending[p], 1, n)]]
        /\ activeProfiles' = activeProfiles \cup {p}
        /\ activeWorkers' = activeWorkers + 1
  BY DispatchStep
<1>2. /\ thread'[w].pc = "start" /\ thread'[w].profile = p
      /\ \A v \in Workers : v # w => thread'[v] = thread[v]
  BY <1>1 DEF TypeOK, IdleThread
<1>3. /\ p \notin activeProfiles
      /\ activeWorkers < MaxWorkers
      /\ thread[w].pc = "idle"
      /\ activeProfiles' = activeProfiles \cup {p}
      /\ activeWorkers' = activeWorkers + 1
  BY <1>1
<1>4. Busy' = Busy \cup {w} /\ w \notin Busy
  BY <1>2, <1>3 DEF Busy
<1>5. IsFiniteSet(Busy)
  BY BusyFinite
<1>6. Cardinality(Busy') = Cardinality(Busy) + 1
  BY <1>4, <1>5, FS_AddElement
<1>7. activeWorkers' = Cardinality(Busy')
  BY <1>3, <1>6 DEF ReservationsMatch
<1>8. activeWorkers' <= MaxWorkers
  BY <1>3, SizeAssumption DEF TypeOK
<1>9. activeProfiles' = {thread'[v].profile : v \in Busy'}
  BY <1>2, <1>3, <1>4 DEF ReservationsMatch, Busy
<1>10. ASSUME NEW u \in Busy', NEW v \in Busy',
              thread'[u].profile = thread'[v].profile
       PROVE  u = v
  BY <1>2, <1>3, <1>4, <1>10 DEF ReservationsMatch, Busy
<1> QED
  BY <1>7, <1>8, <1>9, <1>10 DEF ReservationsMatch

\* A worker that returns gives up the reservation of its own profile only.
LEMMA ReservationsRelease ==
  ASSUME TypeOK, ReservationsMatch, NEW w \in Workers, WorkerRelease(w)
  PROVE  ReservationsMatch'
<1>1. /\ thread[w].pc = "release"
      /\ thread'[w].pc = "idle"
      /\ \A v \in Workers : v # w => thread'[v] = thread[v]
  BY DEF WorkerRelease, TypeOK, IdleThread
<1>2. /\ activeWorkers' = activeWorkers - 1
      /\ activeProfiles' = activeProfiles \ {thread[w].profile}
  BY DEF WorkerRelease
<1>3. Busy' = Busy \ {w} /\ w \in Busy
  BY <1>1 DEF Busy
<1>4. IsFiniteSet(Busy)
  BY BusyFinite
<1>5. Cardinality(Busy') = Cardinality(Busy) - 1
  BY <1>3, <1>4, FS_RemoveElement
<1>6. activeWorkers' = Cardinality(Busy')
  BY <1>2, <1>5 DEF ReservationsMatch
<1>7. activeWorkers' <= MaxWorkers
  BY <1>2, SizeAssumption DEF TypeOK, ReservationsMatch
<1>8. activeProfiles' = {thread'[v].profile : v \in Busy'}
  BY <1>1, <1>2, <1>3 DEF ReservationsMatch, Busy
<1>9. \A u, v \in Busy' : thread'[u].profile = thread'[v].profile => u = v
  BY <1>1, <1>3 DEF ReservationsMatch, Busy
<1> QED
  BY <1>6, <1>7, <1>8, <1>9 DEF ReservationsMatch

\* Every step keeps reservations and workers in agreement.
LEMMA ReservationsNext ==
  TypeOK /\ ReservationsMatch /\ [Next]_vars => ReservationsMatch'
<1> SUFFICES ASSUME TypeOK, ReservationsMatch, [Next]_vars
             PROVE  ReservationsMatch'
  OBVIOUS
<1>1. CASE UNCHANGED <<thread, activeWorkers, activeProfiles>>
  BY <1>1, ReservationsFrame
<1>2. CASE LoopDispatch
  BY <1>2, ReservationsDispatch
<1>3. ASSUME NEW w \in Workers, WorkerStart(w) PROVE ReservationsMatch'
  <2> DEFINE rec == [thread[w] EXCEPT !.pc = "solve"]
  <2>1. thread[w].pc # "idle" /\ rec.pc # "idle" /\ rec.profile = thread[w].profile
    BY <1>3 DEF WorkerStart, TypeOK, ThreadType
  <2>2. thread' = [thread EXCEPT ![w] = rec]
    BY <1>3 DEF WorkerStart
  <2>3. UNCHANGED <<activeWorkers, activeProfiles>>
    BY <1>3 DEF WorkerStart, reservationVars
  <2> HIDE DEF rec
  <2> QED
    BY <2>1, <2>2, <2>3, ReservationsThread
<1>4. ASSUME NEW w \in Workers, WorkerSolve(w) PROVE ReservationsMatch'
  <2>1. PICK plan :
          thread' = [thread EXCEPT ![w] =
            [@ EXCEPT !.pc = "commit", !.plan = plan,
                      !.baseline = BaselineCounts(thread[w].profile, thread[w].slot)]]
    BY <1>4 DEF WorkerSolve
  <2> DEFINE rec ==
        [thread[w] EXCEPT !.pc = "commit", !.plan = plan,
           !.baseline = BaselineCounts(thread[w].profile, thread[w].slot)]
  <2>2. thread[w].pc # "idle" /\ rec.pc # "idle" /\ rec.profile = thread[w].profile
    BY <1>4 DEF WorkerSolve, TypeOK, ThreadType
  <2>3. thread' = [thread EXCEPT ![w] = rec]
    BY <2>1
  <2>4. UNCHANGED <<activeWorkers, activeProfiles>>
    BY <1>4 DEF WorkerSolve, reservationVars
  <2> HIDE DEF rec
  <2> QED
    BY <2>2, <2>3, <2>4, ReservationsThread
<1>5. ASSUME NEW w \in Workers, WorkerInfeasible(w) PROVE ReservationsMatch'
  <2> DEFINE rec == [thread[w] EXCEPT !.pc = "release", !.batch = << >>]
  <2>1. thread[w].pc # "idle" /\ rec.pc # "idle" /\ rec.profile = thread[w].profile
    BY <1>5 DEF WorkerInfeasible, TypeOK, ThreadType
  <2>2. thread' = [thread EXCEPT ![w] = rec]
    BY <1>5 DEF WorkerInfeasible
  <2>3. UNCHANGED <<activeWorkers, activeProfiles>>
    BY <1>5 DEF WorkerInfeasible, reservationVars
  <2> HIDE DEF rec
  <2> QED
    BY <2>1, <2>2, <2>3, ReservationsThread
<1>6. ASSUME NEW w \in Workers, WorkerRollback(w) PROVE ReservationsMatch'
  <2> DEFINE rec == [thread[w] EXCEPT !.pc = "solve", !.plan = NoPlan,
                                      !.baseline = ZeroCounts,
                                      !.rollbacks = thread[w].rollbacks + 1]
  <2>1. thread[w].pc # "idle" /\ rec.pc # "idle" /\ rec.profile = thread[w].profile
    BY <1>6 DEF WorkerRollback, TypeOK, ThreadType
  <2>2. thread' = [thread EXCEPT ![w] = rec]
    BY <1>6 DEF WorkerRollback
  <2>3. UNCHANGED <<activeWorkers, activeProfiles>>
    BY <1>6 DEF WorkerRollback, reservationVars
  <2> HIDE DEF rec
  <2> QED
    BY <2>1, <2>2, <2>3, ReservationsThread
<1>7. ASSUME NEW w \in Workers, WorkerCommit(w) PROVE ReservationsMatch'
  <2> DEFINE rec == [thread[w] EXCEPT !.pc = "mark", !.plan = NoPlan,
                                      !.baseline = ZeroCounts]
  <2>1. thread[w].pc # "idle" /\ rec.pc # "idle" /\ rec.profile = thread[w].profile
    BY <1>7 DEF WorkerCommit, TypeOK, ThreadType
  <2>2. thread' = [thread EXCEPT ![w] = rec]
    BY <1>7 DEF WorkerCommit
  <2>3. UNCHANGED <<activeWorkers, activeProfiles>>
    BY <1>7 DEF WorkerCommit, reservationVars
  <2> HIDE DEF rec
  <2> QED
    BY <2>1, <2>2, <2>3, ReservationsThread
<1>8. ASSUME NEW w \in Workers, WorkerMark(w) PROVE ReservationsMatch'
  <2> DEFINE rec == [thread[w] EXCEPT !.pc = "release", !.batch = << >>,
                                      !.scheduled = TRUE]
  <2>1. thread[w].pc # "idle" /\ rec.pc # "idle" /\ rec.profile = thread[w].profile
    BY <1>8 DEF WorkerMark, TypeOK, ThreadType
  <2>2. thread' = [thread EXCEPT ![w] = rec]
    BY <1>8 DEF WorkerMark
  <2>3. UNCHANGED <<activeWorkers, activeProfiles>>
    BY <1>8 DEF WorkerMark, reservationVars
  <2> HIDE DEF rec
  <2> QED
    BY <2>1, <2>2, <2>3, ReservationsThread
<1>9. ASSUME NEW w \in Workers, WorkerRelease(w) PROVE ReservationsMatch'
  BY <1>9, ReservationsRelease, SMTT(20)
<1>10. \/ UNCHANGED <<thread, activeWorkers, activeProfiles>>
       \/ LoopDispatch
       \/ \E w \in Workers : WorkerStep(w)
  BY DEF Next, vars, LoopStep, AdmitRequest, CloseFence, CloseFlush, CloseAck,
         CloseTimeout, AdvanceClock, AdvanceSlot, ReplaceTiers, Stop, LoopExit,
         LoopReadPending, LoopReadActive, LoopReadClock, LoopSetSlot,
         LoopReadFlush, LoopChoosePass, LoopDispatchDone, LoopReadCounts,
         LoopSetBacklog, LoopEnd, loopOnly, reservationVars
<1> QED
  BY <1>1, <1>2, <1>3, <1>4, <1>5, <1>6, <1>7, <1>8, <1>9, <1>10 DEF WorkerStep

\* No profile ever has two batches in progress, and the worker count the loop
\* consults is the number of live threads, within the parallelism limit.
THEOREM Reservations == Spec => []ReservationsMatch
<1>1. Init => ReservationsMatch
  <2> SUFFICES ASSUME Init PROVE ReservationsMatch
    OBVIOUS
  <2>1. Busy = {}
    BY DEF Init, Busy, IdleThread
  <2>2. Cardinality({}) = 0
    BY FS_EmptySet
  <2> QED
    BY <2>1, <2>2, SizeAssumption DEF ReservationsMatch, Init
<1> QED
  BY <1>1, TypeCorrect, ReservationsNext, PTL DEF Spec

-----------------------------------------------------------------------------
(* No request is lost, duplicated or overtaken. *)

\* The threads that hold a batch are among the busy ones, so at most one of
\* them holds a batch of a given profile.
LEMMA OneHolder ==
  ASSUME ReservationsMatch, NEW p, NEW v \in Workers, NEW w \in Workers,
         HoldsBatch(v, p), HoldsBatch(w, p)
  PROVE  v = w
BY DEF ReservationsMatch, HoldsBatch, Holding, Busy

\* Moving a batch, appending a request and splitting a queue in the equation.
LEMMA AppendAtEnd ==
  ASSUME NEW c \in Seq(Requests), NEW b \in Seq(Requests),
         NEW q \in Seq(Requests), NEW r \in Requests
  PROVE  /\ Append(c \o (b \o q), r) = c \o (b \o Append(q, r))
         /\ Append(c \o q, r) = c \o Append(q, r)
<1>1. << r >> \in Seq(Requests)
  OBVIOUS
<1>2. b \o q \in Seq(Requests) /\ c \o q \in Seq(Requests)
      /\ c \o (b \o q) \in Seq(Requests)
  BY ConcatProperties
<1>3. /\ Append(c \o (b \o q), r) = (c \o (b \o q)) \o << r >>
      /\ Append(c \o q, r) = (c \o q) \o << r >>
      /\ Append(q, r) = q \o << r >>
  BY <1>2, AppendIsConcat
<1>4. (c \o (b \o q)) \o << r >> = c \o ((b \o q) \o << r >>)
  BY <1>1, <1>2, ConcatAssociative
<1>5. (b \o q) \o << r >> = b \o (q \o << r >>)
  BY <1>1, ConcatAssociative, SMTT(20)
<1>6. (c \o q) \o << r >> = c \o (q \o << r >>)
  BY <1>1, ConcatAssociative
<1> QED
  BY <1>3, <1>4, <1>5, <1>6

\* Concatenation may be regrouped.
LEMMA Regroup ==
  \A c, b, q \in Seq(Requests) : (c \o b) \o q = c \o (b \o q)
BY ConcatAssociative

\* A step that leaves the queues alone and in which every thread keeps holding
\* what it held.
LEMMA FifoFrame ==
  ASSUME FifoConservation, UNCHANGED <<pending, accepted, committed>>,
         \A w \in Workers :
           /\ thread'[w].pc \in Holding <=> thread[w].pc \in Holding
           /\ thread[w].pc \in Holding =>
                /\ thread'[w].batch = thread[w].batch
                /\ thread'[w].profile = thread[w].profile
  PROVE  FifoConservation'
<1> SUFFICES ASSUME NEW p \in Profiles PROVE FifoAt(p)'
  BY DEF FifoConservation
<1>1. FifoAt(p)
  BY DEF FifoConservation
<1>2. \A w \in Workers : HoldsBatch(w, p)' <=> HoldsBatch(w, p)
  BY DEF HoldsBatch
<1> QED
  BY <1>1, <1>2 DEF FifoAt, HoldsBatch

\* An admission appends to the line of its own profile.
LEMMA FifoAdmit ==
  ASSUME TypeOK, FifoConservation, NEW r \in Requests, AdmitRequest(r)
  PROVE  FifoConservation'
<1> SUFFICES ASSUME NEW p \in Profiles PROVE FifoAt(p)'
  BY DEF FifoConservation
<1>1. FifoAt(p)
  BY DEF FifoConservation
<1>2. UNCHANGED <<thread, committed>>
  BY DEF AdmitRequest
<1>3. \A w \in Workers : HoldsBatch(w, p)' <=> HoldsBatch(w, p)
  BY <1>2 DEF HoldsBatch
<1>4. CASE p # ProfileOf[r]
  <2>1. pending'[p] = pending[p] /\ accepted'[p] = accepted[p]
    BY <1>4 DEF AdmitRequest, TypeOK
  <2> QED
    BY <1>1, <1>2, <1>3, <2>1 DEF FifoAt
<1>5. CASE p = ProfileOf[r]
  <2>1. /\ pending'[p] = Append(pending[p], r)
        /\ accepted'[p] = Append(accepted[p], r)
    BY <1>5 DEF AdmitRequest, TypeOK
  <2>2. /\ pending[p] \in Seq(Requests)
        /\ committed[p] \in Seq(Requests)
        /\ \A w \in Workers : thread[w].batch \in Seq(Requests)
    BY DEF TypeOK, ThreadType
  <2>3. ASSUME NEW w \in Workers, HoldsBatch(w, p)
        PROVE  accepted'[p] = committed[p] \o (thread[w].batch \o pending'[p])
    <3>1. accepted[p] = committed[p] \o (thread[w].batch \o pending[p])
      BY <1>1, <2>3 DEF FifoAt
    <3>2. thread[w].batch \in Seq(Requests)
      BY <2>2
    <3>3. Append(committed[p] \o (thread[w].batch \o pending[p]), r)
            = committed[p] \o (thread[w].batch \o Append(pending[p], r))
      BY <2>2, <3>2, AppendAtEnd, Zenon
    <3> QED
      BY <2>1, <3>1, <3>3
  <2>4. ASSUME \A w \in Workers : ~ HoldsBatch(w, p)
        PROVE  accepted'[p] = committed[p] \o pending'[p]
    <3>1. accepted[p] = committed[p] \o pending[p]
      BY <1>1, <2>4 DEF FifoAt
    <3>2. Append(committed[p] \o pending[p], r)
            = committed[p] \o Append(pending[p], r)
      BY <2>2, AppendAtEnd
    <3> QED
      BY <2>1, <3>1, <3>2
  <2> QED
    BY <1>2, <1>3, <2>3, <2>4 DEF FifoAt
<1> QED
  BY <1>4, <1>5

\* A dispatch moves the front of a line into a worker's hands.
LEMMA FifoDispatch ==
  ASSUME TypeOK, ReservationsMatch, FifoConservation, LoopDispatch
  PROVE  FifoConservation'
<1>1. PICK q \in Profiles, v \in Workers, n \in Nat :
        /\ n <= Len(pending[q])
        /\ q \notin activeProfiles
        /\ thread[v].pc = "idle"
        /\ thread' = [thread EXCEPT ![v] =
             [IdleThread EXCEPT
                !.pc = "start", !.profile = q, !.slot = loop.slot,
                !.count = Len(pending[q]),
                !.batch = SubSeq(pending[q], 1, n)]]
        /\ pending' = [pending EXCEPT ![q] = SubSeq(@, n + 1, Len(@))]
  BY DispatchStep
<1>2. /\ thread'[v].pc = "start" /\ thread'[v].profile = q
      /\ thread'[v].batch = SubSeq(pending[q], 1, n)
      /\ \A w \in Workers : w # v => thread'[w] = thread[w]
  BY <1>1 DEF TypeOK, IdleThread
<1>3. /\ pending'[q] = SubSeq(pending[q], n + 1, Len(pending[q]))
      /\ \A p \in Profiles : p # q => pending'[p] = pending[p]
  BY <1>1 DEF TypeOK
<1>4. n <= Len(pending[q]) /\ q \notin activeProfiles /\ thread[v].pc = "idle"
  BY <1>1
<1>5. UNCHANGED <<accepted, committed>>
  BY DEF LoopDispatch, historyVars
<1>6. \A w \in Workers : ~ HoldsBatch(w, q)
  BY <1>4 DEF ReservationsMatch, HoldsBatch, Holding, Busy
<1> SUFFICES ASSUME NEW p \in Profiles PROVE FifoAt(p)'
  BY DEF FifoConservation
<1>7. FifoAt(p)
  BY DEF FifoConservation
<1>8. CASE p # q
  <2>1. \A w \in Workers : HoldsBatch(w, p)' <=> HoldsBatch(w, p)
    BY <1>2, <1>4, <1>8 DEF HoldsBatch, Holding
  <2>2. ASSUME NEW w \in Workers, HoldsBatch(w, p)
        PROVE  thread'[w].batch = thread[w].batch
    BY <1>2, <1>4, <2>2 DEF HoldsBatch, Holding
  <2> QED
    BY <1>3, <1>5, <1>7, <1>8, <2>1, <2>2 DEF FifoAt
<1>9. CASE p = q
  <2>1. accepted[q] = committed[q] \o pending[q]
    BY <1>6, <1>7, <1>9 DEF FifoAt
  <2>2. pending[q] \in Seq(Requests) /\ Len(pending[q]) \in Nat
    BY LenProperties DEF TypeOK
  <2>3. SubSeq(pending[q], 1, n) \o SubSeq(pending[q], n + 1, Len(pending[q]))
          = pending[q]
    <3>1. n \in 0 .. Len(pending[q])
      BY <1>4, <2>2
    <3> QED
      BY <2>2, <3>1, SplitQueue
  <2>4. accepted'[q] = committed'[q] \o (thread'[v].batch \o pending'[q])
    BY <1>2, <1>3, <1>5, <2>1, <2>3
  <2>5. \A w \in Workers : HoldsBatch(w, q)' <=> w = v
    BY <1>2, <1>6 DEF HoldsBatch, Holding
  <2> QED
    BY <1>9, <2>4, <2>5 DEF FifoAt
<1> QED
  BY <1>8, <1>9

\* A batch is handed on: back to the front of the queue, or to the committed
\* requests.
HandsOver(q, b) ==
  \/ /\ committed' = committed
     /\ pending' = [pending EXCEPT ![q] = b \o @]
  \/ /\ pending' = pending
     /\ committed' = [committed EXCEPT ![q] = @ \o b]

\* A commit, or a rollback, moves the front of a line one place on or back.
LEMMA FifoHandOver ==
  ASSUME TypeOK, ReservationsMatch, FifoConservation,
         NEW v \in Workers, NEW q, q = thread[v].profile,
         NEW b, b = thread[v].batch,
         thread[v].pc \in Holding, thread'[v].pc \notin Holding,
         \A w \in Workers : w # v => thread'[w] = thread[w],
         accepted' = accepted, HandsOver(q, b)
  PROVE  FifoConservation'
<1>1. q \in Profiles /\ b \in Seq(Requests)
  BY DEF TypeOK, ThreadType
<1>2. HoldsBatch(v, q)
  BY DEF HoldsBatch
<1> SUFFICES ASSUME NEW p \in Profiles PROVE FifoAt(p)'
  BY DEF FifoConservation
<1>3. FifoAt(p) /\ FifoAt(q)
  BY <1>1 DEF FifoConservation
<1>4. \A w \in Workers : w # v => (HoldsBatch(w, p)' <=> HoldsBatch(w, p))
  BY DEF HoldsBatch
<1>5. ~ HoldsBatch(v, p)'
  BY DEF HoldsBatch
<1>6. CASE p # q
  <2>1. pending'[p] = pending[p] /\ committed'[p] = committed[p]
    BY <1>1, <1>6 DEF TypeOK, HandsOver
  <2>2. ~ HoldsBatch(v, p)
    BY <1>6 DEF HoldsBatch
  <2>3. \A w \in Workers : HoldsBatch(w, p)' => HoldsBatch(w, p) /\ thread'[w] = thread[w]
    BY <1>4, <1>5
  <2>4. (\A w \in Workers : ~ HoldsBatch(w, p)') => \A w \in Workers : ~ HoldsBatch(w, p)
    BY <1>4, <2>2
  <2> QED
    BY <1>3, <2>1, <2>3, <2>4 DEF FifoAt
<1>7. CASE p = q
  <2>1. accepted[q] = committed[q] \o (b \o pending[q])
    BY <1>2, <1>3, Zenon DEF FifoAt
  <2>2. pending[q] \in Seq(Requests) /\ committed[q] \in Seq(Requests)
    BY <1>1 DEF TypeOK
  <2>3. (committed[q] \o b) \o pending[q]
          = committed[q] \o (b \o pending[q])
    BY <1>1, <2>2, Regroup, ZenonT(60)
  <2>4. \/ committed'[q] = committed[q] /\ pending'[q] = b \o pending[q]
        \/ pending'[q] = pending[q] /\ committed'[q] = committed[q] \o b
    BY <1>1, Zenon DEF TypeOK, HandsOver
  <2>5. accepted'[q] = committed'[q] \o pending'[q]
    BY <2>1, <2>3, <2>4, Zenon
  <2>6. \A w \in Workers : ~ HoldsBatch(w, q)'
    <3> SUFFICES ASSUME NEW w \in Workers, HoldsBatch(w, q)' PROVE FALSE
      OBVIOUS
    <3>1. w # v
      BY <1>5, <1>7
    <3>2. HoldsBatch(w, q)
      BY <1>4, <1>7, <3>1
    <3> QED
      BY <1>2, <3>1, <3>2, OneHolder
  <2> QED
    BY <1>7, <2>5, <2>6, Zenon DEF FifoAt
<1> QED
  BY <1>6, <1>7

\* Every step keeps the lines of all profiles complete and in order.
LEMMA FifoNext ==
  TypeOK /\ ReservationsMatch /\ FifoConservation /\ [Next]_vars
    => FifoConservation'
<1> SUFFICES ASSUME TypeOK, ReservationsMatch, FifoConservation, [Next]_vars
             PROVE  FifoConservation'
  OBVIOUS
<1>1. CASE UNCHANGED <<thread, pending, accepted, committed>>
  BY <1>1, FifoFrame
<1>2. ASSUME NEW r \in Requests, AdmitRequest(r) PROVE FifoConservation'
  BY <1>2, FifoAdmit
<1>3. CASE LoopDispatch
  BY <1>3, FifoDispatch
<1>4. ASSUME NEW w \in Workers,
             WorkerStart(w) \/ WorkerSolve(w) \/ WorkerRollback(w)
      PROVE  FifoConservation'
  <2>1. UNCHANGED <<pending, accepted, committed>>
    BY <1>4 DEF WorkerStart, WorkerSolve, WorkerRollback, sharedVars, historyVars
  <2>2. /\ thread[w].pc \in Holding
        /\ thread'[w].pc \in Holding
        /\ thread'[w].batch = thread[w].batch
        /\ thread'[w].profile = thread[w].profile
        /\ \A v \in Workers : v # w => thread'[v] = thread[v]
    <3>1. CASE WorkerStart(w)
      BY <3>1 DEF WorkerStart, TypeOK, ThreadType, Holding
    <3>2. CASE WorkerSolve(w)
      BY <3>2 DEF WorkerSolve, TypeOK, ThreadType, Holding
    <3>3. CASE WorkerRollback(w)
      BY <3>3 DEF WorkerRollback, TypeOK, ThreadType, Holding
    <3> QED
      BY <1>4, <3>1, <3>2, <3>3
  <2>3. \A v \in Workers :
          /\ thread'[v].pc \in Holding <=> thread[v].pc \in Holding
          /\ thread[v].pc \in Holding =>
               /\ thread'[v].batch = thread[v].batch
               /\ thread'[v].profile = thread[v].profile
    BY <2>2
  <2> QED
    BY <2>1, <2>3, FifoFrame
<1>5. ASSUME NEW w \in Workers, WorkerInfeasible(w) PROVE FifoConservation'
  <2>1. /\ thread[w].pc \in Holding /\ thread'[w].pc \notin Holding
        /\ \A v \in Workers : v # w => thread'[v] = thread[v]
    BY <1>5 DEF WorkerInfeasible, TypeOK, ThreadType, Holding
  <2>2. accepted' = accepted /\ HandsOver(thread[w].profile, thread[w].batch)
    BY <1>5, Zenon DEF WorkerInfeasible, historyVars, HandsOver
  <2> QED
    BY <2>1, <2>2, FifoHandOver
<1>6. ASSUME NEW w \in Workers, WorkerCommit(w) PROVE FifoConservation'
  <2>1. /\ thread[w].pc \in Holding /\ thread'[w].pc \notin Holding
        /\ \A v \in Workers : v # w => thread'[v] = thread[v]
    BY <1>6 DEF WorkerCommit, TypeOK, ThreadType, Holding
  <2>2. accepted' = accepted /\ HandsOver(thread[w].profile, thread[w].batch)
    BY <1>6, Zenon DEF WorkerCommit, HandsOver
  <2> QED
    BY <2>1, <2>2, FifoHandOver
<1>7. ASSUME NEW w \in Workers, WorkerMark(w) \/ WorkerRelease(w)
      PROVE  FifoConservation'
  <2>1. UNCHANGED <<pending, accepted, committed>>
    BY <1>7 DEF WorkerMark, WorkerRelease, sharedVars, historyVars
  <2>2. /\ thread[w].pc \notin Holding /\ thread'[w].pc \notin Holding
        /\ \A v \in Workers : v # w => thread'[v] = thread[v]
    <3>1. CASE WorkerMark(w)
      BY <3>1 DEF WorkerMark, TypeOK, ThreadType, Holding
    <3>2. CASE WorkerRelease(w)
      BY <3>2 DEF WorkerRelease, TypeOK, IdleThread, Holding
    <3> QED
      BY <1>7, <3>1, <3>2
  <2>3. \A v \in Workers :
          /\ thread'[v].pc \in Holding <=> thread[v].pc \in Holding
          /\ thread[v].pc \in Holding =>
               /\ thread'[v].batch = thread[v].batch
               /\ thread'[v].profile = thread[v].profile
    BY <2>2
  <2> QED
    BY <2>1, <2>3, FifoFrame
<1>8. \/ UNCHANGED <<thread, pending, accepted, committed>>
      \/ \E r \in Requests : AdmitRequest(r)
      \/ LoopDispatch
      \/ \E w \in Workers : WorkerStep(w)
  BY DEF Next, vars, LoopStep, CloseFence, CloseFlush, CloseAck, CloseTimeout,
         AdvanceClock, AdvanceSlot, ReplaceTiers, Stop, LoopExit,
         LoopReadPending, LoopReadActive, LoopReadClock, LoopSetSlot,
         LoopReadFlush, LoopChoosePass, LoopDispatchDone, LoopReadCounts,
         LoopSetBacklog, LoopEnd, loopOnly, sharedVars, historyVars
<1> QED
  BY <1>1, <1>2, <1>3, <1>4, <1>5, <1>6, <1>7, <1>8 DEF WorkerStep

\* Within a profile no request is lost, duplicated or overtaken, for any number
\* of profiles, workers and requests: every claim takes the head of a queue no
\* other worker of the profile holds, and an infeasible batch goes back to it.
THEOREM Fifo == Spec => []FifoConservation
<1>1. Init => FifoConservation
  <2> SUFFICES ASSUME Init, NEW p \in Profiles PROVE FifoAt(p)
    BY DEF FifoConservation
  <2>1. \A w \in Workers : ~ HoldsBatch(w, p)
    BY DEF Init, IdleThread, HoldsBatch, Holding
  <2>2. accepted[p] = << >> /\ committed[p] = << >> /\ pending[p] = << >>
    BY DEF Init
  <2> QED
    BY <2>1, <2>2 DEF FifoAt
<1> QED
  BY <1>1, TypeCorrect, Reservations, FifoNext, PTL DEF Spec

-----------------------------------------------------------------------------
(* A replacement of the tier ladder never overtakes a solve. *)

\* Every step keeps the revisions of the ladder and of the workers in agreement.
LEMMA RevisionNext ==
  TypeOK /\ RevisionCurrent /\ [Next]_vars => RevisionCurrent'
<1> SUFFICES ASSUME TypeOK, RevisionCurrent, [Next]_vars PROVE RevisionCurrent'
  OBVIOUS
<1>1. CASE UNCHANGED <<thread, seenRevision, tierRevision>>
  BY <1>1 DEF RevisionCurrent
<1>2. CASE ReplaceTiers
  <2>1. \A w \in Workers : thread'[w].pc \notin Guarded
    BY <1>2 DEF ReplaceTiers
  <2> QED
    BY <2>1 DEF RevisionCurrent
<1>3. CASE LoopDispatch
  <2>1. UNCHANGED <<seenRevision, tierRevision>>
    BY <1>3 DEF LoopDispatch, tierVars
  <2>2. \A w \in Workers : thread'[w].pc \in Guarded => thread[w].pc \in Guarded
    <3>1. PICK p \in Profiles, v \in Workers, n \in Nat :
            thread' = [thread EXCEPT ![v] =
              [IdleThread EXCEPT
                 !.pc = "start", !.profile = p, !.slot = loop.slot,
                 !.count = Len(pending[p]),
                 !.batch = SubSeq(pending[p], 1, n)]]
      BY <1>3, DispatchStep, Zenon
    <3> DEFINE started == [IdleThread EXCEPT
                             !.pc = "start", !.profile = p, !.slot = loop.slot,
                             !.count = Len(pending[p]),
                             !.batch = SubSeq(pending[p], 1, n)]
    <3>2. started.pc = "start"
      BY DEF IdleThread
    <3>3. thread' = [thread EXCEPT ![v] = started]
      BY <3>1
    <3> HIDE DEF started
    <3> QED
      BY <3>2, <3>3 DEF TypeOK, Guarded
  <2> QED
    BY <2>1, <2>2 DEF RevisionCurrent
<1>4. ASSUME NEW w \in Workers, WorkerStart(w) PROVE RevisionCurrent'
  <2>1. seenRevision' = tierRevision'
    BY <1>4 DEF WorkerStart, tierVars
  <2> QED
    BY <2>1 DEF RevisionCurrent
<1>5. ASSUME NEW w \in Workers,
             \/ WorkerSolve(w) \/ WorkerInfeasible(w) \/ WorkerRollback(w)
             \/ WorkerCommit(w) \/ WorkerMark(w) \/ WorkerRelease(w)
      PROVE  RevisionCurrent'
  <2>1. UNCHANGED <<seenRevision, tierRevision>>
    BY <1>5, Zenon DEF WorkerSolve, WorkerInfeasible, WorkerRollback, WorkerCommit,
                WorkerMark, WorkerRelease, tierVars, mutableVars
  <2>2. /\ thread'[w].pc \in Guarded => thread[w].pc \in Guarded
        /\ \A v \in Workers : v # w => thread'[v] = thread[v]
    <3>1. CASE WorkerSolve(w)
      BY <3>1 DEF WorkerSolve, TypeOK, ThreadType, Guarded
    <3>2. CASE WorkerInfeasible(w)
      BY <3>2 DEF WorkerInfeasible, TypeOK, ThreadType, Guarded
    <3>3. CASE WorkerRollback(w)
      BY <3>3 DEF WorkerRollback, TypeOK, ThreadType, Guarded
    <3>4. CASE WorkerCommit(w)
      BY <3>4 DEF WorkerCommit, TypeOK, ThreadType, Guarded
    <3>5. CASE WorkerMark(w)
      BY <3>5 DEF WorkerMark, TypeOK, ThreadType, Guarded
    <3>6. CASE WorkerRelease(w)
      BY <3>6 DEF WorkerRelease, TypeOK, IdleThread, Guarded
    <3> QED
      BY <1>5, <3>1, <3>2, <3>3, <3>4, <3>5, <3>6
  <2>3. \A v \in Workers : thread'[v].pc \in Guarded => thread[v].pc \in Guarded
    BY <2>2, SMTT(20)
  <2> QED
    BY <2>1, <2>3 DEF RevisionCurrent
<1>6. \/ UNCHANGED <<thread, seenRevision, tierRevision>>
      \/ ReplaceTiers \/ LoopDispatch
      \/ \E w \in Workers : WorkerStep(w)
  BY DEF Next, vars, LoopStep, AdmitRequest, CloseFence, CloseFlush, CloseAck,
         CloseTimeout, AdvanceClock, AdvanceSlot, Stop, LoopExit,
         LoopReadPending, LoopReadActive, LoopReadClock, LoopSetSlot,
         LoopReadFlush, LoopChoosePass, LoopDispatchDone, LoopReadCounts,
         LoopSetBacklog, LoopEnd, loopOnly, tierVars, mutableVars
<1> QED
  BY <1>1, <1>2, <1>3, <1>4, <1>5, <1>6 DEF WorkerStep

\* Between the start of its solve and its commit a worker prices with the
\* ladder in force: replace_capacity_tiers waits for its read guard.
THEOREM Revision == Spec => []RevisionCurrent
<1>1. Init => RevisionCurrent
  BY DEF Init, RevisionCurrent, IdleThread, Guarded
<1> QED
  BY <1>1, TypeCorrect, RevisionNext, PTL DEF Spec

-----------------------------------------------------------------------------
(* The close barrier. *)

\* The fence is at or past every slot that is closing or acknowledged.
FenceHolds ==
  /\ closing.pc # "idle" => ManualClock /\ closing.slot <= closedThrough
  /\ acked # NoSlot => ManualClock
  /\ acked <= closedThrough

BarrierInv == FenceHolds /\ AckedSlotComplete

\* A step that neither accepts a request nor touches the barrier, and forgets
\* no assignment.
LEMMA BarrierFrame ==
  ASSUME BarrierInv, UNCHANGED <<accepted, closing, acked, closedThrough>>,
         \A r \in Requests : assigned[r] # NoSlot => assigned'[r] # NoSlot
  PROVE  BarrierInv'
<1>1. \A r \in Requests : Accepted(r)' <=> Accepted(r)
  BY DEF Accepted
<1>2. FenceHolds'
  BY DEF BarrierInv, FenceHolds
<1>3. AckedSlotComplete'
  BY <1>1 DEF BarrierInv, AckedSlotComplete, Drained
<1> QED
  BY <1>2, <1>3 DEF BarrierInv

\* An admission puts nothing into a slot that has been acknowledged.
LEMMA BarrierAdmit ==
  ASSUME TypeOK, BarrierInv, NEW r \in Requests, AdmitRequest(r)
  PROVE  BarrierInv'
<1>1. UNCHANGED <<closing, acked, closedThrough, assigned>>
  BY DEF AdmitRequest, serviceVars
<1>2. FenceHolds'
  BY <1>1 DEF BarrierInv, FenceHolds
<1>3. ASSUME NEW x \in Requests, Accepted(x)', x # r PROVE Accepted(x)
  <2>1. ProfileOf[x] \in Profiles /\ ProfileOf[r] \in Profiles
    BY RequestAssumption
  <2>2. CASE ProfileOf[x] # ProfileOf[r]
    <3>1. accepted'[ProfileOf[x]] = accepted[ProfileOf[x]]
      BY <2>1, <2>2 DEF AdmitRequest, TypeOK
    <3> QED
      BY <1>3, <3>1 DEF Accepted
  <2>3. CASE ProfileOf[x] = ProfileOf[r]
    <3> DEFINE a == accepted[ProfileOf[r]]
    <3>1. a \in Seq(Requests)
      BY <2>1 DEF TypeOK
    <3>2. accepted'[ProfileOf[x]] = Append(a, r)
      BY <2>1, <2>3 DEF AdmitRequest, TypeOK
    <3> HIDE DEF a
    <3>3. PICK i \in DOMAIN Append(a, r) : Append(a, r)[i] = x
      BY <1>3, <3>2 DEF Accepted
    <3>4. i \in DOMAIN a /\ a[i] = x
      BY <1>3, <3>1, <3>3
    <3> QED
      BY <2>3, <3>4 DEF Accepted, a
  <2> QED
    BY <2>2, <2>3
<1>4. ASSUME acked # NoSlot PROVE ~ (ArrivalOf[r] <= acked)
  <2>1. ArrivalOf[r] > closedThrough
    BY <1>4 DEF AdmitRequest, BarrierInv, FenceHolds
  <2>2. ArrivalOf[r] \in Int /\ closedThrough \in Int /\ acked \in Int
    BY RequestAssumption, SizeAssumption DEF TypeOK, SlotOrNone, Slots, NoSlot
  <2> QED
    BY <2>1, <2>2 DEF BarrierInv, FenceHolds
<1>5. AckedSlotComplete'
  BY <1>1, <1>3, <1>4 DEF BarrierInv, AckedSlotComplete, Drained
<1> QED
  BY <1>2, <1>5 DEF BarrierInv

\* The steps of a close keep its promise.
LEMMA BarrierClose ==
  ASSUME TypeOK, BarrierInv, CloseFence \/ CloseFlush \/ CloseAck \/ CloseTimeout
  PROVE  BarrierInv'
<1>1. UNCHANGED <<accepted, assigned>>
  BY DEF CloseFence, CloseFlush, CloseAck, CloseTimeout, sharedVars, historyVars
<1>2. \A s : Drained(s)' <=> Drained(s)
  BY <1>1 DEF Drained, Accepted
<1>3. /\ closedThrough \in Int /\ acked \in Int /\ closing.slot \in Int
      /\ providerSlot \in Int
  BY SizeAssumption DEF TypeOK, SlotOrNone, Slots, NoSlot, ClosingType
<1>4. closing \in [pc : {"idle", "flush", "poll"}, slot : Slots]
  BY DEF TypeOK, ClosingType
<1>5. CASE CloseFence
  <2>1. FenceHolds'
    BY <1>3, <1>5 DEF CloseFence, BarrierInv, FenceHolds
  <2> QED
    BY <1>2, <1>5, <2>1 DEF CloseFence, BarrierInv, AckedSlotComplete
<1>6. CASE CloseFlush
  <2>1. FenceHolds'
    BY <1>4, <1>6 DEF CloseFlush, BarrierInv, FenceHolds
  <2> QED
    BY <1>2, <1>6, <2>1 DEF CloseFlush, BarrierInv, AckedSlotComplete
<1>7. CASE CloseAck
  <2>1. FenceHolds'
    BY <1>4, <1>7 DEF CloseAck, BarrierInv, FenceHolds
  <2>2. Drained(acked')
    BY <1>7 DEF CloseAck
  <2>3. Drained(acked)'
    BY <1>1, <2>2 DEF Drained, Accepted
  <2> QED
    BY <2>1, <2>3 DEF BarrierInv, AckedSlotComplete
<1>8. CASE CloseTimeout
  <2>1. FenceHolds'
    BY <1>4, <1>8 DEF CloseTimeout, BarrierInv, FenceHolds
  <2> QED
    BY <1>2, <1>8, <2>1 DEF CloseTimeout, BarrierInv, AckedSlotComplete
<1> QED
  BY <1>5, <1>6, <1>7, <1>8

\* Every step keeps the promise of the acknowledged closes.
LEMMA BarrierNext == TypeOK /\ BarrierInv /\ [Next]_vars => BarrierInv'
<1> SUFFICES ASSUME TypeOK, BarrierInv, [Next]_vars PROVE BarrierInv'
  OBVIOUS
<1>1. CASE UNCHANGED <<accepted, assigned, closing, acked, closedThrough>>
  BY <1>1, BarrierFrame
<1>2. ASSUME NEW r \in Requests, AdmitRequest(r) PROVE BarrierInv'
  BY <1>2, BarrierAdmit
<1>3. CASE CloseFence \/ CloseFlush \/ CloseAck \/ CloseTimeout
  BY <1>3, BarrierClose
<1>4. ASSUME NEW w \in Workers, WorkerCommit(w) PROVE BarrierInv'
  <2>1. UNCHANGED <<accepted, closing, acked, closedThrough>>
    BY <1>4 DEF WorkerCommit, serviceVars
  <2>2. \A r \in Requests : assigned[r] # NoSlot => assigned'[r] # NoSlot
    BY <1>4 DEF WorkerCommit
  <2> QED
    BY <2>1, <2>2, BarrierFrame
<1>5. \/ UNCHANGED <<accepted, assigned, closing, acked, closedThrough>>
      \/ \E r \in Requests : AdmitRequest(r)
      \/ CloseFence \/ CloseFlush \/ CloseAck \/ CloseTimeout
      \/ \E w \in Workers : WorkerCommit(w)
  BY ZenonT(40) DEF Next, vars, LoopStep, AdvanceClock, AdvanceSlot, ReplaceTiers, Stop,
         LoopExit, LoopReadPending, LoopReadActive, LoopReadClock, LoopSetSlot,
         LoopReadFlush, LoopChoosePass, LoopDispatch, LoopDispatchDone,
         LoopReadCounts, LoopSetBacklog, LoopEnd, WorkerStep, WorkerStart,
         WorkerSolve, WorkerInfeasible, WorkerRollback, WorkerMark,
         WorkerRelease, loopOnly, sharedVars, serviceVars, historyVars
<1> QED
  BY <1>1, <1>2, <1>3, <1>4, <1>5

\* The close barrier holds for every instance: once close_slot has acknowledged
\* a slot, no request accepted for it, before or after, is left unassigned.
THEOREM CloseBarrier == Spec => []AckedSlotComplete
<1>1. Init => BarrierInv
  BY DEF Init, BarrierInv, FenceHolds, AckedSlotComplete, NoSlot
<1>2. BarrierInv => AckedSlotComplete
  BY DEF BarrierInv
<1> QED
  BY <1>1, <1>2, TypeCorrect, BarrierNext, PTL DEF Spec

-----------------------------------------------------------------------------
(* Windows and queues. *)

\* A deadline is capped to no later than itself or the slot of the solve.
LEMMA CapDeadlineBound ==
  ASSUME NEW d \in Slots, NEW s \in Slots
  PROVE  cap_deadline(d, s) \in Slots /\ (cap_deadline(d, s) <= d \/ cap_deadline(d, s) <= s)
<1> USE SizeAssumption DEF Slots
<1>1. Max({d, s}) \in Slots /\ (Max({d, s}) = d \/ Max({d, s}) = s)
  BY MaxPair
<1>2. WindowEnd(s) \in Slots
  BY MinPair DEF WindowEnd
<1> DEFINE a == Max({d, s})
           b == WindowEnd(s)
           c == TotalSlots - 1
<1>3. a \in Int /\ b \in Int /\ c \in Int /\ (a = d \/ a = s)
  BY <1>1, <1>2
<1>4. cap_deadline(d, s) = Min({a, b, c})
  BY DEF cap_deadline
<1> HIDE DEF a, b, c
<1>5. Min({a, b, c}) <= a
  BY <1>3, MinTriple
<1>6. cap_deadline(d, s) \in Slots
  BY CapDeadlineType
<1> QED
  BY <1>3, <1>4, <1>5, <1>6

\* A slot of a placement window is neither before the arrival nor before the
\* slot of the solve, and no later than the deadline unless that has passed.
LEMMA WindowBounds ==
  ASSUME NEW a \in Slots, NEW d \in Slots, NEW s \in Slots,
         NEW x \in PlacementWindow(a, d, s)
  PROVE  x \in Slots /\ x # NoSlot /\ a <= x /\ s <= x /\ (x <= d \/ x <= s)
<1>1. Max({a, s}) = IF a >= s THEN a ELSE s
  BY SizeAssumption, MaxPair DEF Slots
<1>2. cap_deadline(d, s) \in Slots /\ (cap_deadline(d, s) <= d \/ cap_deadline(d, s) <= s)
  BY CapDeadlineBound
<1>3. x \in Max({a, s}) .. cap_deadline(d, s)
  BY DEF PlacementWindow
<1> QED
  BY <1>1, <1>2, <1>3, SizeAssumption DEF Slots, NoSlot

\* The members of a concatenation, and where they stand.
LEMMA ConcatMembers ==
  ASSUME NEW c \in Seq(Requests), NEW b \in Seq(Requests)
  PROVE  /\ Range(c \o b) = Range(c) \cup Range(b)
         /\ \A i \in DOMAIN c : i \in DOMAIN (c \o b) /\ (c \o b)[i] = c[i]
         /\ \A i \in DOMAIN b : /\ Len(c) + i \in DOMAIN (c \o b)
                                /\ (c \o b)[Len(c) + i] = b[i]
<1>1. /\ Len(c) \in Nat /\ Len(b) \in Nat
      /\ DOMAIN c = 1 .. Len(c) /\ DOMAIN b = 1 .. Len(b)
      /\ c \o b \in Seq(Requests) /\ Len(c \o b) = Len(c) + Len(b)
      /\ DOMAIN (c \o b) = 1 .. Len(c) + Len(b)
  BY LenProperties, ConcatProperties
<1>2. \A i \in 1 .. Len(c) + Len(b) :
        (c \o b)[i] = IF i <= Len(c) THEN c[i] ELSE b[i - Len(c)]
  BY ConcatProperties
<1>3. \A i \in DOMAIN c : i \in DOMAIN (c \o b) /\ (c \o b)[i] = c[i]
  BY <1>1, <1>2
<1>4. ASSUME NEW i \in DOMAIN b
      PROVE  Len(c) + i \in DOMAIN (c \o b) /\ (c \o b)[Len(c) + i] = b[i]
  <2>1. i \in 1 .. Len(b) /\ Len(c) + i \in 1 .. Len(c) + Len(b)
    BY <1>1
  <2>2. ~ (Len(c) + i <= Len(c)) /\ (Len(c) + i) - Len(c) = i
    BY <1>1, <2>1
  <2> QED
    BY <1>1, <1>2, <2>1, <2>2
<1>5. ASSUME NEW i \in DOMAIN (c \o b)
      PROVE  (c \o b)[i] \in Range(c) \cup Range(b)
  <2>1. CASE i <= Len(c)
    <3>1. i \in DOMAIN c /\ (c \o b)[i] = c[i]
      BY <1>1, <1>2, <2>1
    <3> QED
      BY <3>1 DEF Range
  <2>2. CASE ~ (i <= Len(c))
    <3>1. i - Len(c) \in DOMAIN b /\ (c \o b)[i] = b[i - Len(c)]
      BY <1>1, <1>2, <2>2
    <3> QED
      BY <3>1 DEF Range
  <2> QED
    BY <2>1, <2>2
<1>6. Range(c \o b) \subseteq Range(c) \cup Range(b)
  BY <1>5 DEF Range
<1>7. Range(c) \subseteq Range(c \o b)
  BY <1>3 DEF Range
<1>8. Range(b) \subseteq Range(c \o b)
  BY <1>4, Zenon DEF Range
<1> QED
  BY <1>3, <1>4, <1>6, <1>7, <1>8

-----------------------------------------------------------------------------
(* What is accepted and what workers hold. *)

\* A request is accepted for its own profile.
AcceptedOwn ==
  \A p \in Profiles : \A i \in DOMAIN accepted[p] : ProfileOf[accepted[p][i]] = p

\* No request is accepted twice.
AcceptedOnce ==
  \A p \in Profiles : \A i, j \in DOMAIN accepted[p] :
    accepted[p][i] = accepted[p][j] => i = j

\* A claimed batch is never empty.
BatchesHeld ==
  \A w \in Workers : thread[w].pc \in Holding => thread[w].batch # << >>

AcceptedInv == AcceptedOwn /\ AcceptedOnce /\ BatchesHeld

\* A worker that moves on without touching its batch, or drops it.
LEMMA BatchesFrame ==
  ASSUME TypeOK, BatchesHeld, NEW w \in Workers, WorkerStep(w)
  PROVE  BatchesHeld'
<1>1. \A v \in Workers : v # w => thread'[v] = thread[v]
  BY Zenon DEF WorkerStep, WorkerStart, WorkerSolve, WorkerInfeasible, WorkerRollback,
         WorkerCommit, WorkerMark, WorkerRelease, TypeOK
<1>2. thread'[w].pc \in Holding =>
        thread[w].pc \in Holding /\ thread'[w].batch = thread[w].batch
  <2>1. CASE WorkerStart(w)
    BY <2>1 DEF WorkerStart, TypeOK, ThreadType, Holding
  <2>2. CASE WorkerSolve(w)
    BY <2>2 DEF WorkerSolve, TypeOK, ThreadType, Holding
  <2>3. CASE WorkerInfeasible(w)
    BY <2>3 DEF WorkerInfeasible, TypeOK, ThreadType, Holding
  <2>4. CASE WorkerRollback(w)
    BY <2>4 DEF WorkerRollback, TypeOK, ThreadType, Holding
  <2>5. CASE WorkerCommit(w)
    BY <2>5 DEF WorkerCommit, TypeOK, ThreadType, Holding
  <2>6. CASE WorkerMark(w)
    BY <2>6 DEF WorkerMark, TypeOK, ThreadType, Holding
  <2>7. CASE WorkerRelease(w)
    BY <2>7 DEF WorkerRelease, TypeOK, IdleThread, Holding
  <2> QED
    BY <2>1, <2>2, <2>3, <2>4, <2>5, <2>6, <2>7 DEF WorkerStep
<1> QED
  BY <1>1, <1>2 DEF BatchesHeld

\* An admission adds its request to those accepted.
LEMMA AcceptedAdmit ==
  ASSUME TypeOK, AcceptedInv, NEW r \in Requests, AdmitRequest(r)
  PROVE  AcceptedInv'
<1> DEFINE q == ProfileOf[r]
<1>1. q \in Profiles /\ accepted[q] \in Seq(Requests)
  BY RequestAssumption DEF TypeOK
<1>2. /\ accepted'[q] = Append(accepted[q], r)
      /\ \A p \in Profiles : p # q => accepted'[p] = accepted[p]
  BY <1>1 DEF AdmitRequest, TypeOK
<1>3. \A i \in DOMAIN accepted[q] : accepted[q][i] # r
  BY DEF AdmitRequest, Accepted
<1>4. /\ DOMAIN accepted'[q] = DOMAIN accepted[q] \cup {Len(accepted[q]) + 1}
      /\ Len(accepted[q]) + 1 \notin DOMAIN accepted[q]
      /\ accepted'[q][Len(accepted[q]) + 1] = r
      /\ \A i \in DOMAIN accepted[q] : accepted'[q][i] = accepted[q][i]
  <2> DEFINE a == accepted[q]
  <2>1. a \in Seq(Requests) /\ accepted'[q] = Append(a, r)
    BY <1>1, <1>2
  <2> HIDE DEF a
  <2>2. Len(a) \in Nat /\ DOMAIN a = 1 .. Len(a)
    BY <2>1, LenProperties
  <2>3. /\ Append(a, r) \in Seq(Requests)
        /\ Len(Append(a, r)) = Len(a) + 1
        /\ \A i \in 1 .. Len(a) : Append(a, r)[i] = a[i]
        /\ Append(a, r)[Len(a) + 1] = r
    BY <2>1, AppendProperties
  <2>4. DOMAIN Append(a, r) = 1 .. Len(a) + 1
    BY <2>3, LenProperties
  <2>5. 1 .. Len(a) + 1 = (1 .. Len(a)) \cup {Len(a) + 1}
        /\ Len(a) + 1 \notin 1 .. Len(a)
    BY <2>2
  <2> QED
    BY <2>1, <2>2, <2>3, <2>4, <2>5 DEF a
<1> HIDE DEF q
<1>5. AcceptedOwn'
  <2> SUFFICES ASSUME NEW p \in Profiles, NEW i \in DOMAIN accepted'[p]
               PROVE  ProfileOf[accepted'[p][i]] = p
    BY DEF AcceptedOwn
  <2>1. CASE p = q
    BY <1>1, <1>4, <2>1 DEF AcceptedInv, AcceptedOwn, q
  <2>2. CASE p # q
    BY <1>2, <2>2 DEF AcceptedInv, AcceptedOwn
  <2> QED
    BY <2>1, <2>2
<1>6. AcceptedOnce'
  <2> SUFFICES ASSUME NEW p \in Profiles, NEW i \in DOMAIN accepted'[p],
                      NEW j \in DOMAIN accepted'[p],
                      accepted'[p][i] = accepted'[p][j]
               PROVE  i = j
    BY DEF AcceptedOnce
  <2>1. CASE p = q
    BY <1>1, <1>3, <1>4, <2>1 DEF AcceptedInv, AcceptedOnce
  <2>2. CASE p # q
    BY <1>2, <2>2 DEF AcceptedInv, AcceptedOnce
  <2> QED
    BY <2>1, <2>2
<1>7. BatchesHeld'
  BY DEF AdmitRequest, AcceptedInv, BatchesHeld
<1> QED
  BY <1>5, <1>6, <1>7 DEF AcceptedInv

\* Every step keeps what the engine has accepted.
LEMMA AcceptedNext == TypeOK /\ AcceptedInv /\ [Next]_vars => AcceptedInv'
<1> SUFFICES ASSUME TypeOK, AcceptedInv, [Next]_vars PROVE AcceptedInv'
  OBVIOUS
<1>1. ASSUME UNCHANGED accepted, BatchesHeld' PROVE AcceptedInv'
  BY <1>1 DEF AcceptedInv, AcceptedOwn, AcceptedOnce
<1>2. CASE UNCHANGED <<thread, accepted>>
  BY <1>1, <1>2 DEF AcceptedInv, BatchesHeld
<1>3. ASSUME NEW r \in Requests, AdmitRequest(r) PROVE AcceptedInv'
  BY <1>3, AcceptedAdmit
<1>4. CASE LoopDispatch
  <2>1. PICK q \in Profiles, v \in Workers, n \in Nat :
          /\ n >= 1 /\ n <= Len(pending[q])
          /\ thread' = [thread EXCEPT ![v] =
               [IdleThread EXCEPT
                  !.pc = "start", !.profile = q, !.slot = loop.slot,
                  !.count = Len(pending[q]),
                  !.batch = SubSeq(pending[q], 1, n)]]
    BY <1>4, DispatchStep
  <2>2. /\ thread'[v].batch = SubSeq(pending[q], 1, n)
        /\ \A w \in Workers : w # v => thread'[w] = thread[w]
    BY <2>1 DEF TypeOK, IdleThread
  <2>3. SubSeq(pending[q], 1, n) # << >>
    BY <2>1, LenProperties, SubSeqProperties DEF TypeOK
  <2>4. UNCHANGED accepted
    BY <1>4 DEF LoopDispatch, historyVars
  <2> QED
    BY <1>1, <2>2, <2>3, <2>4 DEF AcceptedInv, BatchesHeld
<1>5. ASSUME NEW w \in Workers, WorkerStep(w) PROVE AcceptedInv'
  <2>1. UNCHANGED accepted
    BY <1>5, Zenon DEF WorkerStep, WorkerStart, WorkerSolve, WorkerInfeasible,
         WorkerRollback, WorkerCommit, WorkerMark, WorkerRelease, historyVars
  <2> QED
    BY <1>1, <1>5, <2>1, BatchesFrame DEF AcceptedInv
<1>6. \/ UNCHANGED <<thread, accepted>>
      \/ \E r \in Requests : AdmitRequest(r)
      \/ LoopDispatch
      \/ \E w \in Workers : WorkerStep(w)
  BY DEF Next, vars, LoopStep, CloseFence, CloseFlush, CloseAck, CloseTimeout,
         AdvanceClock, AdvanceSlot, ReplaceTiers, Stop, LoopExit,
         LoopReadPending, LoopReadActive, LoopReadClock, LoopSetSlot,
         LoopReadFlush, LoopChoosePass, LoopDispatchDone, LoopReadCounts,
         LoopSetBacklog, LoopEnd, loopOnly, historyVars
<1> QED
  BY <1>2, <1>3, <1>4, <1>5, <1>6

\* Requests are accepted once, for their own profile, and claimed in batches
\* that are never empty.
LEMMA AcceptedAlways == Spec => []AcceptedInv
<1>1. Init => AcceptedInv
  BY DEF Init, AcceptedInv, AcceptedOwn, AcceptedOnce, BatchesHeld, IdleThread,
         Holding
<1> QED
  BY <1>1, TypeCorrect, AcceptedNext, PTL DEF Spec

-----------------------------------------------------------------------------
(* Plans. *)

\* A request has a slot exactly when it has been committed.
PlacedIsCommitted ==
  \A r \in Requests :
    assigned[r] # NoSlot <=> r \in Range(committed[ProfileOf[r]])

\* What a plan about to be committed may hold: the batch, each request in its
\* window, and moves of work of the same profile that already had a slot the
\* solve had not passed.
PlanSound(w) ==
  thread[w].pc = "commit" =>
    \A r \in Requests :
      /\ r \in Range(thread[w].batch) =>
           thread[w].plan[r]
             \in PlacementWindow(ArrivalOf[r], DeadlineOf[r], thread[w].slot)
      /\ r \notin Range(thread[w].batch) /\ thread[w].plan[r] # NoSlot =>
           /\ ~ LockFuture
           /\ ProfileOf[r] = thread[w].profile
           /\ assigned[r] # NoSlot
           /\ assigned[r] >= thread[w].slot
           /\ thread[w].plan[r]
                \in PlacementWindow(ArrivalOf[r], storedDeadline[r], thread[w].slot)

PlacementInv == PlacedIsCommitted /\ \A w \in Workers : PlanSound(w)

\* The batch in a worker's hands was accepted for the worker's profile and has
\* not been placed.
LEMMA HeldFresh ==
  ASSUME TypeOK, FifoConservation, AcceptedInv, PlacedIsCommitted,
         NEW w \in Workers, thread[w].pc \in Holding,
         NEW r \in Range(thread[w].batch)
  PROVE  /\ r \in Requests
         /\ ProfileOf[r] = thread[w].profile
         /\ Accepted(r)
         /\ assigned[r] = NoSlot
<1> DEFINE p == thread[w].profile
           a == accepted[p]
           c == committed[p]
           b == thread[w].batch
           q == pending[p]
<1>1. p \in Profiles /\ c \in Seq(Requests) /\ b \in Seq(Requests) /\ q \in Seq(Requests)
  BY DEF TypeOK, ThreadType
<1>2. a = c \o (b \o q)
  BY <1>1 DEF FifoConservation, FifoAt, HoldsBatch
<1>3. /\ \A i, j \in DOMAIN a : a[i] = a[j] => i = j
      /\ \A i \in DOMAIN a : ProfileOf[a[i]] = p
  BY <1>1 DEF AcceptedInv, AcceptedOnce, AcceptedOwn
<1>4. PICK k \in DOMAIN b : b[k] = r
  BY DEF Range
<1>5. r \in Requests
  BY <1>1, <1>4, ElementOfSeq, LenProperties
<1> HIDE DEF a, b, c, q
<1>6. b \o q \in Seq(Requests) /\ k \in DOMAIN (b \o q) /\ (b \o q)[k] = r
  BY <1>1, <1>4, ConcatMembers, ConcatProperties
<1>7. Len(c) + k \in DOMAIN a /\ a[Len(c) + k] = r
  BY <1>1, <1>2, <1>6, ConcatMembers
<1>8. ProfileOf[r] = p
  BY <1>3, <1>7
<1>9. r \notin Range(c)
  <2> SUFFICES ASSUME NEW i \in DOMAIN c, c[i] = r PROVE FALSE
    BY DEF Range
  <2>1. i \in DOMAIN a /\ a[i] = r
    BY <1>1, <1>2, <1>6, ConcatMembers
  <2>2. i = Len(c) + k
    BY <1>3, <1>7, <2>1
  <2>3. k >= 1 /\ i <= Len(c) /\ k \in Int /\ i \in Int /\ Len(c) \in Int
    BY <1>1, <1>4, LenProperties
  <2> QED
    BY <2>2, <2>3
<1>10. assigned[r] = NoSlot
  BY <1>5, <1>8, <1>9 DEF PlacedIsCommitted, c
<1>11. Accepted(r)
  BY <1>7, <1>8 DEF Accepted, a
<1> QED
  BY <1>5, <1>8, <1>10, <1>11

\* Every request a plan places belongs to the worker's profile.
LEMMA PlanOwned ==
  ASSUME TypeOK, FifoConservation, AcceptedInv, PlacementInv,
         NEW w \in Workers, thread[w].pc = "commit",
         NEW r \in Requests, thread[w].plan[r] # NoSlot
  PROVE  ProfileOf[r] = thread[w].profile
<1>1. CASE r \in Range(thread[w].batch)
  BY <1>1, HeldFresh DEF PlacementInv, Holding
<1>2. CASE r \notin Range(thread[w].batch)
  BY <1>2 DEF PlacementInv, PlanSound
<1> QED
  BY <1>1, <1>2

\* A commit places every request of its batch.
LEMMA PlanCovers ==
  ASSUME TypeOK, PlacementInv, NEW w \in Workers, thread[w].pc = "commit",
         NEW r \in Requests, r \in Range(thread[w].batch)
  PROVE  thread[w].plan[r] # NoSlot
<1>1. ArrivalOf[r] \in Slots /\ DeadlineOf[r] \in Slots /\ thread[w].slot \in Slots
  BY RequestAssumption DEF TypeOK, ThreadType
<1>2. thread[w].plan[r]
        \in PlacementWindow(ArrivalOf[r], DeadlineOf[r], thread[w].slot)
  BY DEF PlacementInv, PlanSound
<1> QED
  BY <1>1, <1>2, WindowBounds

\* A step that moves no worker to its commit and places nothing.
LEMMA PlacementFrame ==
  ASSUME PlacementInv, UNCHANGED <<assigned, storedDeadline, committed>>,
         \A w \in Workers : thread'[w].pc = "commit" => thread'[w] = thread[w]
  PROVE  PlacementInv'
<1>1. PlacedIsCommitted'
  BY DEF PlacementInv, PlacedIsCommitted
<1>2. ASSUME NEW w \in Workers PROVE PlanSound(w)'
  <2>1. CASE thread'[w].pc = "commit"
    BY <2>1 DEF PlacementInv, PlanSound
  <2>2. CASE thread'[w].pc # "commit"
    BY <2>2 DEF PlanSound
  <2> QED
    BY <2>1, <2>2
<1> QED
  BY <1>1, <1>2 DEF PlacementInv

\* A solve makes a plan that covers its batch.
LEMMA PlacementSolve ==
  ASSUME TypeOK, PlacementInv, NEW w \in Workers, WorkerSolve(w)
  PROVE  PlacementInv'
<1>1. PICK plan \in Placements(thread[w].batch, thread[w].profile, thread[w].slot) :
        thread' = [thread EXCEPT ![w] =
          [@ EXCEPT !.pc = "commit", !.plan = plan,
                    !.baseline = BaselineCounts(thread[w].profile, thread[w].slot)]]
  BY DEF WorkerSolve
<1>2. /\ thread'[w].plan = plan
      /\ thread'[w].batch = thread[w].batch
      /\ thread'[w].profile = thread[w].profile
      /\ thread'[w].slot = thread[w].slot
      /\ \A v \in Workers : v # w => thread'[v] = thread[v]
  BY <1>1 DEF TypeOK, ThreadType
<1>3. UNCHANGED <<assigned, storedDeadline, committed>>
  BY DEF WorkerSolve, sharedVars, historyVars
<1>4. PlanSound(w)'
  <2> SUFFICES ASSUME NEW r \in Requests
               PROVE
                 /\ r \in Range(thread[w].batch) =>
                      plan[r] \in PlacementWindow(ArrivalOf[r], DeadlineOf[r],
                                                  thread[w].slot)
                 /\ r \notin Range(thread[w].batch) /\ plan[r] # NoSlot =>
                      /\ ~ LockFuture
                      /\ ProfileOf[r] = thread[w].profile
                      /\ assigned[r] # NoSlot
                      /\ assigned[r] >= thread[w].slot
                      /\ plan[r] \in PlacementWindow(ArrivalOf[r],
                                       storedDeadline[r], thread[w].slot)
    BY <1>2, <1>3 DEF PlanSound
  <2>1. CASE r \in Range(thread[w].batch)
    BY <1>1, <2>1 DEF Placements
  <2>2. CASE r \notin Range(thread[w].batch) /\ plan[r] # NoSlot
    <3>1. r \in Movable(thread[w].profile, thread[w].slot)
      BY <1>1, <2>2 DEF Placements
    <3>2. plan[r] \in PlacementWindow(ArrivalOf[r], storedDeadline[r], thread[w].slot)
      BY <1>1, <2>2, <3>1 DEF Placements
    <3> QED
      BY <2>2, <3>1, <3>2 DEF Movable
  <2> QED
    BY <2>1, <2>2
<1>5. PlacedIsCommitted'
  BY <1>3 DEF PlacementInv, PlacedIsCommitted
<1>6. ASSUME NEW v \in Workers, v # w PROVE PlanSound(v)'
  BY <1>2, <1>3, <1>6 DEF PlacementInv, PlanSound
<1> QED
  BY <1>4, <1>5, <1>6 DEF PlacementInv

\* What a commit does to the placements, with the plan in hand.
LEMMA CommitEffect ==
  ASSUME TypeOK, NEW w \in Workers, WorkerCommit(w)
  PROVE  /\ thread[w].pc = "commit" /\ thread'[w].pc = "mark"
         /\ thread[w].profile \in Profiles
         /\ \A v \in Workers : v # w => thread'[v] = thread[v]
         /\ \A r \in Requests :
              assigned'[r] = IF thread[w].plan[r] # NoSlot
                             THEN thread[w].plan[r] ELSE assigned[r]
         /\ \A r \in Requests :
              storedDeadline'[r] = IF thread[w].plan[r] # NoSlot
                                   THEN CommittedDeadline(w, r)
                                   ELSE storedDeadline[r]
         /\ committed'[thread[w].profile]
              = committed[thread[w].profile] \o thread[w].batch
         /\ \A p \in Profiles : p # thread[w].profile => committed'[p] = committed[p]
<1>1. thread[w].pc = "commit" /\ thread[w].profile \in Profiles
  BY DEF WorkerCommit, TypeOK, ThreadType
<1>2. thread'[w].pc = "mark" /\ \A v \in Workers : v # w => thread'[v] = thread[v]
  BY DEF WorkerCommit, TypeOK, ThreadType
<1>3. /\ assigned' = [r \in Requests |-> IF thread[w].plan[r] # NoSlot
                                         THEN thread[w].plan[r] ELSE assigned[r]]
      /\ storedDeadline' = [r \in Requests |->
                              IF thread[w].plan[r] # NoSlot
                              THEN CommittedDeadline(w, r) ELSE storedDeadline[r]]
      /\ committed' = [committed EXCEPT ![thread[w].profile] = @ \o thread[w].batch]
  BY DEF WorkerCommit
<1>4. /\ committed'[thread[w].profile]
           = committed[thread[w].profile] \o thread[w].batch
      /\ \A p \in Profiles : p # thread[w].profile => committed'[p] = committed[p]
  BY <1>1, <1>3 DEF TypeOK
<1> QED
  BY <1>1, <1>2, <1>3, <1>4

\* A commit assigns the whole batch, or nothing of it.
LEMMA PlacementCommit ==
  ASSUME TypeOK, ReservationsMatch, FifoConservation, AcceptedInv, PlacementInv,
         NEW w \in Workers, WorkerCommit(w)
  PROVE  PlacementInv'
<1> DEFINE q == thread[w].profile
           b == thread[w].batch
<1>1. /\ thread[w].pc = "commit" /\ thread'[w].pc = "mark"
      /\ q \in Profiles
      /\ \A v \in Workers : v # w => thread'[v] = thread[v]
      /\ \A r \in Requests :
           assigned'[r] = IF thread[w].plan[r] # NoSlot
                          THEN thread[w].plan[r] ELSE assigned[r]
      /\ \A r \in Requests :
           thread[w].plan[r] = NoSlot => storedDeadline'[r] = storedDeadline[r]
      /\ committed'[q] = committed[q] \o b
      /\ \A p \in Profiles : p # q => committed'[p] = committed[p]
  BY CommitEffect
<1>2. committed[q] \in Seq(Requests) /\ b \in Seq(Requests)
  BY <1>1 DEF TypeOK, ThreadType
<1>3. Range(committed'[q]) = Range(committed[q]) \cup Range(b)
  BY <1>1, <1>2, ConcatMembers
<1>4. PlacedIsCommitted'
  <2> SUFFICES ASSUME NEW r \in Requests
               PROVE  assigned'[r] # NoSlot <=> r \in Range(committed'[ProfileOf[r]])
    BY DEF PlacedIsCommitted
  <2>1. assigned[r] # NoSlot <=> r \in Range(committed[ProfileOf[r]])
    BY DEF PlacementInv, PlacedIsCommitted
  <2>2. ProfileOf[r] \in Profiles
    BY RequestAssumption
  <2>3. CASE r \in Range(b)
    <3>1. ProfileOf[r] = q
      BY <1>1, <2>3, HeldFresh DEF PlacementInv, Holding
    <3>2. assigned'[r] # NoSlot
      BY <1>1, <2>3, PlanCovers
    <3> QED
      BY <1>3, <2>3, <3>1, <3>2
  <2>4. CASE r \notin Range(b)
    <3>1. thread[w].plan[r] # NoSlot => assigned[r] # NoSlot
      BY <1>1, <2>4 DEF PlacementInv, PlanSound
    <3>2. assigned'[r] # NoSlot <=> assigned[r] # NoSlot
      BY <1>1, <3>1
    <3>3. r \in Range(committed'[ProfileOf[r]])
            <=> r \in Range(committed[ProfileOf[r]])
      BY <1>1, <1>3, <2>2, <2>4
    <3> QED
      BY <2>1, <3>2, <3>3
  <2> QED
    BY <2>3, <2>4
<1>5. ASSUME NEW v \in Workers PROVE PlanSound(v)'
  <2>1. CASE v = w
    BY <1>1, <2>1 DEF PlanSound
  <2>2. CASE v # w /\ thread[v].pc = "commit"
    <3>1. thread[v].profile # q
      BY <1>1, <2>2 DEF ReservationsMatch, Busy
    <3>2. ASSUME NEW r \in Requests, ProfileOf[r] = thread[v].profile
          PROVE  assigned'[r] = assigned[r] /\ storedDeadline'[r] = storedDeadline[r]
      <4>1. thread[w].plan[r] = NoSlot
        BY <1>1, <3>1, <3>2, PlanOwned
      <4> QED
        BY <1>1, <4>1
    <3>3. thread'[v] = thread[v] /\ PlanSound(v)
      BY <1>1, <2>2 DEF PlacementInv
    <3> QED
      BY <2>2, <3>2, <3>3 DEF PlanSound
  <2>3. CASE v # w /\ thread[v].pc # "commit"
    BY <1>1, <2>3 DEF PlanSound
  <2> QED
    BY <2>1, <2>2, <2>3
<1> QED
  BY <1>4, <1>5 DEF PlacementInv

\* Every step keeps the plans under way sound.
LEMMA PlacementNext ==
  /\ TypeOK /\ ReservationsMatch /\ FifoConservation /\ AcceptedInv
  /\ PlacementInv /\ [Next]_vars
  => PlacementInv'
<1> SUFFICES ASSUME TypeOK, ReservationsMatch, FifoConservation, AcceptedInv,
                    PlacementInv, [Next]_vars
             PROVE  PlacementInv'
  OBVIOUS
<1>1. CASE UNCHANGED <<thread, assigned, storedDeadline, committed>>
  BY <1>1, PlacementFrame
<1>2. CASE LoopDispatch
  <2>1. PICK q \in Profiles, v \in Workers, n \in Nat :
          thread' = [thread EXCEPT ![v] =
            [IdleThread EXCEPT
               !.pc = "start", !.profile = q, !.slot = loop.slot,
               !.count = Len(pending[q]),
               !.batch = SubSeq(pending[q], 1, n)]]
    BY <1>2, DispatchStep, Zenon
  <2>2. /\ thread'[v].pc = "start"
        /\ \A w \in Workers : w # v => thread'[w] = thread[w]
    BY <2>1 DEF TypeOK, IdleThread
  <2>3. UNCHANGED <<assigned, storedDeadline, committed>>
    BY <1>2 DEF LoopDispatch, historyVars
  <2> QED
    BY <2>2, <2>3, PlacementFrame
<1>3. ASSUME NEW w \in Workers, WorkerSolve(w) PROVE PlacementInv'
  BY <1>3, PlacementSolve
<1>4. ASSUME NEW w \in Workers, WorkerCommit(w) PROVE PlacementInv'
  BY <1>4, PlacementCommit
<1>5. ASSUME NEW w \in Workers,
             \/ WorkerStart(w) \/ WorkerInfeasible(w) \/ WorkerRollback(w)
             \/ WorkerMark(w) \/ WorkerRelease(w)
      PROVE  PlacementInv'
  <2>1. UNCHANGED <<assigned, storedDeadline, committed>>
    BY <1>5 DEF WorkerStart, WorkerInfeasible, WorkerRollback, WorkerMark,
                WorkerRelease, sharedVars, historyVars
  <2>2. /\ thread'[w].pc # "commit"
        /\ \A v \in Workers : v # w => thread'[v] = thread[v]
    <3>1. CASE WorkerStart(w)
      BY <3>1 DEF WorkerStart, TypeOK, ThreadType
    <3>2. CASE WorkerInfeasible(w)
      BY <3>2 DEF WorkerInfeasible, TypeOK, ThreadType
    <3>3. CASE WorkerRollback(w)
      BY <3>3 DEF WorkerRollback, TypeOK, ThreadType
    <3>4. CASE WorkerMark(w)
      BY <3>4 DEF WorkerMark, TypeOK, ThreadType
    <3>5. CASE WorkerRelease(w)
      BY <3>5 DEF WorkerRelease, TypeOK, IdleThread
    <3> QED
      BY <1>5, <3>1, <3>2, <3>3, <3>4, <3>5
  <2> QED
    BY <2>1, <2>2, PlacementFrame
<1>6. \/ UNCHANGED <<thread, assigned, storedDeadline, committed>>
      \/ LoopDispatch
      \/ \E w \in Workers : WorkerStep(w)
  BY DEF Next, vars, LoopStep, AdmitRequest, CloseFence, CloseFlush, CloseAck,
         CloseTimeout, AdvanceClock, AdvanceSlot, ReplaceTiers, Stop, LoopExit,
         LoopReadPending, LoopReadActive, LoopReadClock, LoopSetSlot,
         LoopReadFlush, LoopChoosePass, LoopDispatchDone, LoopReadCounts,
         LoopSetBacklog, LoopEnd, loopOnly, sharedVars, historyVars
<1> QED
  BY <1>1, <1>2, <1>3, <1>4, <1>5, <1>6 DEF WorkerStep

\* Whenever a worker is about to commit, its plan places its whole batch inside
\* the requests' windows and otherwise moves only work of its own profile,
\* whatever other workers committed since the solve.
THEOREM PlansSound == Spec => []PlacementInv
<1>1. Init => PlacementInv
  <2>1. ASSUME Init, NEW r \in Requests
        PROVE  assigned[r] = NoSlot /\ Range(committed[ProfileOf[r]]) = {}
    BY <2>1, RequestAssumption DEF Init, Range
  <2>2. ASSUME Init, NEW w \in Workers PROVE PlanSound(w)
    BY <2>2 DEF Init, IdleThread, PlanSound
  <2> QED
    BY <2>1, <2>2 DEF PlacementInv, PlacedIsCommitted
<1> QED
  BY <1>1, TypeCorrect, Reservations, Fifo, AcceptedAlways, PlacementNext,
     PTL DEF Spec

-----------------------------------------------------------------------------
(* The engine implements FifoService. *)

\* A batch is the next stretch of the accepted requests.
LEMMA HeldIsNext ==
  ASSUME TypeOK, FifoConservation, BatchesHeld,
         NEW w \in Workers, thread[w].pc \in Holding
  PROVE  LET p == thread[w].profile
             n == Len(thread[w].batch)
         IN  /\ n \in 1 .. Len(accepted[p])
             /\ Len(committed[p]) + n <= Len(accepted[p])
             /\ Service!NextBatch(p, n) = thread[w].batch
<1> DEFINE p == thread[w].profile
           a == accepted[p]
           c == committed[p]
           b == thread[w].batch
           q == pending[p]
           n == Len(b)
<1>1. p \in Profiles /\ a \in Seq(Requests) /\ c \in Seq(Requests)
      /\ b \in Seq(Requests) /\ q \in Seq(Requests)
  BY DEF TypeOK, ThreadType
<1>2. a = c \o (b \o q)
  BY <1>1 DEF FifoConservation, FifoAt, HoldsBatch
<1>3. b # << >>
  BY DEF BatchesHeld
<1>4. Service!NextBatch(p, n) = SubSeq(a, Len(c) + 1, Len(c) + n)
  BY DEF Service!NextBatch
<1> HIDE DEF a, b, c, q
<1>5. /\ n \in Nat /\ n >= 1 /\ Len(c) \in Nat /\ Len(q) \in Nat
      /\ Len(b \o q) = n + Len(q) /\ Len(a) = Len(c) + n + Len(q)
  BY <1>1, <1>2, <1>3, LenProperties, ConcatProperties, EmptySeq
<1>6. n \in 1 .. Len(a) /\ Len(c) + n <= Len(a)
  BY <1>5
<1>7. SubSeq(a, Len(c) + 1, Len(c) + n) = b
  <2> DEFINE s == SubSeq(a, Len(c) + 1, Len(c) + n)
  <2>1. /\ s \in Seq(Requests) /\ Len(s) = n
        /\ \A i \in 1 .. n : s[i] = a[Len(c) + i]
    <3>1. \A i \in Len(c) + 1 .. Len(c) + n : a[i] \in Requests
      BY <1>1, <1>5, <1>6, ElementOfSeq
    <3>2. Len(c) + 1 \in Int /\ Len(c) + n \in Int
      BY <1>5
    <3>3. /\ s \in Seq(Requests)
          /\ Len(s) = (Len(c) + n) - (Len(c) + 1) + 1
          /\ \A i \in 1 .. (Len(c) + n) - (Len(c) + 1) + 1 :
               s[i] = a[Len(c) + 1 + i - 1]
      BY <1>1, <1>5, <3>1, <3>2, SubSeqProperties
    <3>4. (Len(c) + n) - (Len(c) + 1) + 1 = n
      BY <1>5
    <3>5. \A i \in 1 .. n : Len(c) + 1 + i - 1 = Len(c) + i
      BY <1>5
    <3> QED
      BY <3>3, <3>4, <3>5
  <2>2. ASSUME NEW i \in 1 .. n PROVE s[i] = b[i]
    <3>1. i \in DOMAIN b
      BY <1>1, <2>2, LenProperties
    <3>2. b \o q \in Seq(Requests) /\ i \in DOMAIN (b \o q) /\ (b \o q)[i] = b[i]
      BY <1>1, <3>1, ConcatMembers, ConcatProperties
    <3>3. a[Len(c) + i] = b[i]
      BY <1>1, <1>2, <3>2, ConcatMembers
    <3> QED
      BY <2>1, <3>3
  <2> HIDE DEF s
  <2>3. /\ s \in Seq(Requests) /\ b \in Seq(Requests) /\ Len(s) = Len(b)
        /\ \A i \in 1 .. Len(s) : s[i] = b[i]
    BY <1>1, <2>1, <2>2
  <2>4. s = b
    BY <2>3, SeqEqual
  <2> QED
    BY <2>4 DEF s
<1> QED
  BY <1>4, <1>6, <1>7 DEF a, b, c
\* A commit serves the next batch of its profile.
LEMMA CommitServes ==
  ASSUME TypeOK, FifoConservation, AcceptedInv, PlacementInv,
         NEW w \in Workers, WorkerCommit(w)
  PROVE  Service!Next
<1> DEFINE p == thread[w].profile
           b == thread[w].batch
           n == Len(b)
<1>1. /\ thread[w].pc = "commit"
      /\ p \in Profiles
      /\ \A r \in Requests :
           assigned'[r] = IF thread[w].plan[r] # NoSlot
                          THEN thread[w].plan[r] ELSE assigned[r]
  BY CommitEffect
<1>2. /\ n \in 1 .. Len(accepted[p])
      /\ Len(committed[p]) + n <= Len(accepted[p])
      /\ Service!NextBatch(p, n) = b
  BY <1>1, HeldIsNext DEF AcceptedInv, Holding
<1>3. committed' = [committed EXCEPT ![p] = @ \o Service!NextBatch(p, n)]
  BY <1>2 DEF WorkerCommit
<1>4. assigned' \in [Requests -> Slots \cup {NoSlot}] /\ UNCHANGED accepted
  <2>1. thread[w].plan \in [Requests -> SlotOrNone] /\ assigned \in [Requests -> SlotOrNone]
    BY DEF TypeOK, ThreadType
  <2>2. assigned' = [r \in Requests |-> IF thread[w].plan[r] # NoSlot
                                        THEN thread[w].plan[r] ELSE assigned[r]]
        /\ UNCHANGED accepted
    BY DEF WorkerCommit
  <2> QED
    BY <2>1, <2>2 DEF SlotOrNone
<1>5. Service!Members(b) = Range(b)
  BY DEF Service!Members, Range
<1>6. ASSUME NEW r \in Requests
      PROVE  /\ assigned'[r] # NoSlot
                  <=> assigned[r] # NoSlot \/ r \in Service!Members(Service!NextBatch(p, n))
             /\ ProfileOf[r] # p => assigned'[r] = assigned[r]
  <2>1. r \in Range(b) => thread[w].plan[r] # NoSlot
    BY <1>1, PlanCovers
  <2>2. r \notin Range(b) /\ thread[w].plan[r] # NoSlot => assigned[r] # NoSlot
    BY <1>1 DEF PlacementInv, PlanSound
  <2>3. thread[w].plan[r] # NoSlot => ProfileOf[r] = p
    BY <1>1, PlanOwned
  <2>4. r \in Service!Members(Service!NextBatch(p, n)) <=> r \in Range(b)
    BY <1>2, <1>5
  <2> QED
    BY <1>1, <2>1, <2>2, <2>3, <2>4
<1>7. Service!Serve(p, n)
  BY <1>2, <1>3, <1>4, <1>6 DEF Service!Serve
<1> HIDE DEF p, n
<1> QED
  BY <1>1, <1>2, <1>7 DEF Service!Next

\* Every step of the engine is an acceptance, the service of a batch, or
\* invisible to the callers.
LEMMA StepRefines ==
  /\ TypeOK /\ FifoConservation /\ AcceptedInv /\ PlacementInv /\ [Next]_vars
  => [Service!Next]_<<accepted, committed, assigned>>
<1> SUFFICES ASSUME TypeOK, FifoConservation, AcceptedInv, PlacementInv,
                    [Next]_vars
             PROVE  \/ Service!Next
                    \/ UNCHANGED <<accepted, committed, assigned>>
  OBVIOUS
<1>1. ASSUME NEW r \in Requests, AdmitRequest(r) PROVE Service!Next
  <2>1. r \notin Service!Members(accepted[ProfileOf[r]])
    BY <1>1 DEF AdmitRequest, Accepted, Service!Members
  <2>2. /\ accepted' = [accepted EXCEPT ![ProfileOf[r]] = Append(@, r)]
        /\ UNCHANGED <<committed, assigned>>
    BY <1>1 DEF AdmitRequest
  <2>3. Service!Accept(r)
    BY <2>1, <2>2 DEF Service!Accept
  <2> QED
    BY <2>3 DEF Service!Next
<1>2. ASSUME NEW w \in Workers, WorkerCommit(w) PROVE Service!Next
  BY <1>2, CommitServes
<1>3. \/ UNCHANGED <<accepted, committed, assigned>>
      \/ \E r \in Requests : AdmitRequest(r)
      \/ \E w \in Workers : WorkerCommit(w)
  BY Zenon DEF Next, vars, LoopStep, CloseFence, CloseFlush, CloseAck, CloseTimeout,
         AdvanceClock, AdvanceSlot, ReplaceTiers, Stop, LoopExit,
         LoopReadPending, LoopReadActive, LoopReadClock, LoopSetSlot,
         LoopReadFlush, LoopChoosePass, LoopDispatch, LoopDispatchDone,
         LoopReadCounts, LoopSetBacklog, LoopEnd, WorkerStep, WorkerStart,
         WorkerSolve, WorkerInfeasible, WorkerRollback, WorkerMark,
         WorkerRelease, loopOnly, sharedVars, historyVars
<1> QED
  BY <1>1, <1>2, <1>3

\* The engine implements the service of FifoService for every instance: each
\* profile's requests are served in the order they were accepted, a batch at a
\* time, nothing placed is withdrawn, and serving a profile moves no other
\* profile's work.
THEOREM Refinement == Spec => ImplementsFifoService
<1>1. Init => Service!Init
  BY DEF Init, Service!Init
<1> QED
  BY <1>1, TypeCorrect, Fifo, AcceptedAlways, PlansSound, StepRefines,
     PTL DEF Spec, ImplementsFifoService, Service!Spec

-----------------------------------------------------------------------------
(* Clocks. *)

\* The slot the virtual clock shows.
ClockSlot == Min({virtualSlot, TotalSlots - 1})

\* The loop has read the slot of its iteration.
Sighted == {"slot", "flush", "choose", "dispatch", "counts", "backlog", "end"}

\* Under the manual clock nothing runs ahead of the provider, and the provider
\* is at most one slot past the last acknowledged one.
ManualClocks ==
  /\ virtualSlot <= providerSlot
  /\ currentSlot <= providerSlot
  /\ advance <= providerSlot
  /\ loop.slot <= providerSlot
  /\ \A w \in Workers : thread[w].slot <= providerSlot
  /\ providerSlot <= acked + 1
  /\ closing.pc # "idle" => closing.slot = providerSlot

\* Under wall time the loop works in the slot of the clock, and no worker is
\* ahead of it.
WallClocks ==
  /\ loop.pc \in Sighted => loop.slot = ClockSlot
  /\ \A w \in Workers : thread[w].slot <= ClockSlot

ClockInv == (ManualClock => ManualClocks) /\ (~ ManualClock => WallClocks)

\* The clocks are integers.
LEMMA ClockTypes ==
  ASSUME TypeOK
  PROVE  /\ ClockSlot \in Slots /\ ClockSlot <= virtualSlot
         /\ virtualSlot \in Nat /\ providerSlot \in Nat /\ currentSlot \in Nat
         /\ advance \in Int /\ acked \in Int /\ acked >= -1
         /\ loop.slot \in Slots /\ loop.slot \in Nat
         /\ closing.slot \in Nat
         /\ \A w \in Workers : thread[w].slot \in Slots /\ thread[w].slot \in Nat
<1> USE SizeAssumption
<1>1. virtualSlot \in 0 .. TotalSlots
  BY DEF TypeOK
<1>2. ClockSlot \in Slots /\ ClockSlot <= virtualSlot
  BY <1>1, MinPair DEF ClockSlot, Slots
<1>3. /\ loop.slot \in Slots /\ closing.slot \in Slots
      /\ \A w \in Workers : thread[w].slot \in Slots
  BY DEF TypeOK, LoopType, ThreadType, ClosingType
<1>4. /\ providerSlot \in 0 .. TotalSlots /\ currentSlot \in Slots
      /\ advance \in SlotOrNone /\ acked \in SlotOrNone
  BY DEF TypeOK
<1> QED
  BY <1>1, <1>2, <1>3, <1>4 DEF Slots, SlotOrNone, NoSlot

\* A step that leaves the clocks alone, in which no thread's slot changes.
LEMMA ClockFrame ==
  ASSUME ClockInv,
         UNCHANGED <<virtualSlot, currentSlot, advance, providerSlot, acked, closing>>,
         loop'.slot = loop.slot,
         loop'.pc \in Sighted => loop.pc \in Sighted,
         \A w \in Workers : thread'[w].slot = thread[w].slot
  PROVE  ClockInv'
BY DEF ClockInv, ManualClocks, WallClocks, ClockSlot

\* The service's steps on the clocks, under the manual clock.
LEMMA ClockService ==
  ASSUME TypeOK, FenceHolds, ClockInv,
         \/ CloseFence \/ CloseFlush \/ CloseAck \/ CloseTimeout
         \/ AdvanceClock \/ AdvanceSlot
  PROVE  ClockInv'
<1>1. UNCHANGED <<loop, thread>>
  BY DEF CloseFence, CloseFlush, CloseAck, CloseTimeout, AdvanceClock, AdvanceSlot
<1>2. closing \in ClosingType
  BY DEF TypeOK
<1>3. CASE ManualClock
  <2> SUFFICES ManualClocks'
    BY <1>3 DEF ClockInv
  <2>1. ManualClocks
    BY <1>3 DEF ClockInv
  <2>2. CASE CloseFence
    BY <1>1, <2>1, <2>2 DEF CloseFence, ManualClocks, clockVars
  <2>3. CASE CloseFlush
    BY <1>1, <1>2, <2>1, <2>3 DEF CloseFlush, ManualClocks, clockVars, ClosingType
  <2>4. CASE CloseAck
    <3>1. acked' = providerSlot /\ closing'.pc = "idle" /\ providerSlot \in Nat
      BY <1>2, <2>1, <2>4, ClockTypes DEF CloseAck, ManualClocks, ClosingType
    <3> QED
      BY <1>1, <2>1, <2>4, <3>1 DEF CloseAck, ManualClocks, clockVars
  <2>5. CASE CloseTimeout
    BY <1>1, <1>2, <2>1, <2>5 DEF CloseTimeout, ManualClocks, clockVars, ClosingType
  <2>6. CASE AdvanceClock
    <3> DEFINE next == Min({currentSlot + 1, TotalSlots - 1})
    <3>1. currentSlot + 1 \in Int /\ TotalSlots - 1 \in Int
      BY ClockTypes, SizeAssumption
    <3>2. next = IF currentSlot + 1 <= TotalSlots - 1 THEN currentSlot + 1 ELSE TotalSlots - 1
      BY <3>1, MinPair
    <3>3. next <= currentSlot + 1
      BY <3>1, <3>2
    <3>4. next \in Int
      BY <3>1, <3>2
    <3>5. /\ providerSlot' = providerSlot + 1
          /\ virtualSlot' = currentSlot + 1
          /\ advance' = next
          /\ acked = providerSlot
          /\ closing.pc = "idle"
          /\ UNCHANGED <<currentSlot, closing, acked>>
      BY <2>6 DEF AdvanceClock
    <3> HIDE DEF next
    <3>6. /\ virtualSlot' <= providerSlot' /\ currentSlot' <= providerSlot'
          /\ advance' <= providerSlot' /\ providerSlot' <= acked' + 1
      BY <2>1, <3>3, <3>5, <3>4, ClockTypes DEF ManualClocks
    <3>7. /\ loop'.slot <= providerSlot'
          /\ \A w \in Workers : thread'[w].slot <= providerSlot'
      BY <1>1, <2>1, <3>5, ClockTypes DEF ManualClocks
    <3> QED
      BY <3>5, <3>6, <3>7 DEF ManualClocks
  <2>7. CASE AdvanceSlot
    <3>1. NoSlot <= providerSlot
      BY ClockTypes DEF NoSlot
    <3> QED
      BY <1>1, <2>1, <2>7, <3>1 DEF AdvanceSlot, ManualClocks
  <2> QED
    BY <2>2, <2>3, <2>4, <2>5, <2>6, <2>7
<1>4. CASE ~ ManualClock
  <2>1. UNCHANGED virtualSlot
    BY <1>4 DEF CloseFence, CloseFlush, CloseAck, CloseTimeout, AdvanceClock,
                AdvanceSlot, clockVars
  <2> QED
    BY <1>1, <1>4, <2>1 DEF ClockInv, WallClocks, ClockSlot
<1> QED
  BY <1>3, <1>4

\* The loop's steps on the clocks.
LEMMA ClockLoop ==
  ASSUME TypeOK, ClockInv, LoopStep
  PROVE  ClockInv'
<1>0. loop \in LoopType
  BY DEF TypeOK
<1>1. CASE \/ LoopExit \/ LoopReadPending \/ LoopReadActive \/ LoopReadFlush
           \/ LoopChoosePass \/ LoopDispatchDone \/ LoopReadCounts
           \/ LoopSetBacklog
  <2>1. loop'.slot = loop.slot /\ (loop'.pc \in Sighted => loop.pc \in Sighted)
    BY <1>0, <1>1, Zenon
    DEF LoopExit, LoopReadPending, LoopReadActive, LoopReadFlush,
        LoopChoosePass, LoopDispatchDone, LoopReadCounts, LoopSetBacklog,
        LoopType, Sighted
  <2>2. UNCHANGED <<virtualSlot, currentSlot, advance, providerSlot, acked,
                    closing, thread>>
    BY <1>1
    DEF LoopExit, LoopReadPending, LoopReadActive, LoopReadFlush,
        LoopChoosePass, LoopDispatchDone, LoopReadCounts, LoopSetBacklog,
        loopOnly, clockVars, serviceVars
  <2> QED
    BY <2>1, <2>2, ClockFrame
<1>2. CASE LoopReadClock
  <2>1. /\ loop'.slot = Min({virtualSlot', TotalSlots - 1})
        /\ UNCHANGED <<currentSlot, advance, providerSlot, acked, closing, thread>>
    BY <1>0, <1>2 DEF LoopReadClock, LoopType, loopOnly, serviceVars
  <2>2. CASE ManualClock
    <3>1. virtualSlot' = virtualSlot
      BY <1>2, <2>2 DEF LoopReadClock
    <3>2. loop'.slot = ClockSlot
      BY <2>1, <3>1 DEF ClockSlot
    <3>3. loop'.slot <= providerSlot
      <4>1. virtualSlot <= providerSlot
        BY <2>2 DEF ClockInv, ManualClocks
      <4>2. ClockSlot \in Int /\ ClockSlot <= virtualSlot
        BY ClockTypes, SizeAssumption DEF Slots
      <4>3. virtualSlot \in Int /\ providerSlot \in Int
        BY ClockTypes
      <4> QED
        BY <3>2, <4>1, <4>2, <4>3
    <3> QED
      BY <2>1, <2>2, <3>1, <3>3 DEF ClockInv, ManualClocks
  <2>3. CASE ~ ManualClock
    <3>1. virtualSlot' \in Int /\ virtualSlot' >= virtualSlot
      <4>1. virtualSlot \in 0 .. TotalSlots
        BY DEF TypeOK
      <4> QED
        BY <1>2, <2>3, <4>1, SizeAssumption DEF LoopReadClock
    <3>2. ClockSlot <= ClockSlot' /\ ClockSlot' \in Int
      BY <3>1, SizeAssumption, ClockTypes, MinPair DEF ClockSlot
    <3>3. loop'.slot = ClockSlot'
      BY <2>1 DEF ClockSlot
    <3>4. \A w \in Workers : thread'[w].slot <= ClockSlot'
      <4> SUFFICES ASSUME NEW w \in Workers PROVE thread[w].slot <= ClockSlot'
        BY <2>1
      <4>1. thread[w].slot <= ClockSlot /\ thread[w].slot \in Nat
        BY <2>3, ClockTypes DEF ClockInv, WallClocks
      <4>2. ClockSlot \in Int
        BY ClockTypes, SizeAssumption DEF Slots
      <4> QED
        BY <3>2, <4>1, <4>2
    <3> QED
      BY <2>3, <3>3, <3>4 DEF ClockInv, WallClocks
  <2> QED
    BY <2>2, <2>3
<1>3. CASE LoopSetSlot
  <2>1. /\ currentSlot' = loop.slot /\ loop'.slot = loop.slot
        /\ loop.pc = "slot"
        /\ UNCHANGED <<virtualSlot, advance, providerSlot, acked, closing, thread>>
    BY <1>0, <1>3 DEF LoopSetSlot, LoopType, loopOnly, serviceVars
  <2> QED
    BY <2>1 DEF ClockInv, ManualClocks, WallClocks, ClockSlot, Sighted
<1>4. CASE LoopDispatch
  <2>1. PICK q \in Profiles, v \in Workers, n \in Nat :
          thread' = [thread EXCEPT ![v] =
            [IdleThread EXCEPT
               !.pc = "start", !.profile = q, !.slot = loop.slot,
               !.count = Len(pending[q]),
               !.batch = SubSeq(pending[q], 1, n)]]
    BY <1>4, DispatchStep
  <2>2. /\ thread'[v].slot = loop.slot
        /\ \A w \in Workers : w # v => thread'[w] = thread[w]
    BY <2>1 DEF TypeOK, IdleThread
  <2>3. /\ loop.pc = "dispatch"
        /\ UNCHANGED <<virtualSlot, currentSlot, advance, providerSlot, acked,
                       closing, loop>>
    BY <1>4 DEF LoopDispatch, clockVars, serviceVars
  <2>4. CASE ManualClock
    BY <2>2, <2>3, <2>4 DEF ClockInv, ManualClocks
  <2>5. CASE ~ ManualClock
    <3>1. loop.slot <= ClockSlot
      BY <2>3, <2>5, ClockTypes, SizeAssumption
      DEF ClockInv, WallClocks, Sighted, Slots
    <3> QED
      BY <2>2, <2>3, <2>5, <3>1 DEF ClockInv, WallClocks, ClockSlot
  <2> QED
    BY <2>4, <2>5
<1>5. CASE LoopEnd
  <2>1. /\ loop'.slot = 0 /\ loop'.pc = "top"
        /\ UNCHANGED <<virtualSlot, currentSlot, advance, providerSlot, acked,
                       closing, thread>>
    BY <1>5 DEF LoopEnd, IdleLoop, clockVars, serviceVars
  <2>2. 0 <= providerSlot
    BY ClockTypes
  <2> QED
    BY <2>1, <2>2 DEF ClockInv, ManualClocks, WallClocks, ClockSlot, Sighted
<1> QED
  BY <1>1, <1>2, <1>3, <1>4, <1>5 DEF LoopStep

\* Every step keeps the clock and the closes in agreement.
LEMMA ClockNext ==
  TypeOK /\ FenceHolds /\ ClockInv /\ [Next]_vars => ClockInv'
<1> SUFFICES ASSUME TypeOK, FenceHolds, ClockInv, [Next]_vars PROVE ClockInv'
  OBVIOUS
<1>1. CASE \/ CloseFence \/ CloseFlush \/ CloseAck \/ CloseTimeout
           \/ AdvanceClock \/ AdvanceSlot
  BY <1>1, ClockService
<1>2. CASE LoopStep
  BY <1>2, ClockLoop
<1>3. ASSUME NEW w \in Workers, WorkerStep(w) PROVE ClockInv'
  <2>1. UNCHANGED <<virtualSlot, currentSlot, advance, providerSlot, acked,
                    closing, loop>>
    BY <1>3, Zenon DEF WorkerStep, WorkerStart, WorkerSolve, WorkerInfeasible,
                WorkerRollback, WorkerCommit, WorkerMark, WorkerRelease,
                clockVars, serviceVars
  <2>2. \A v \in Workers : v # w => thread'[v] = thread[v]
    BY <1>3, Zenon DEF WorkerStep, WorkerStart, WorkerSolve, WorkerInfeasible,
                WorkerRollback, WorkerCommit, WorkerMark, WorkerRelease, TypeOK
  <2>3. CASE ~ WorkerRelease(w)
    <3>1. thread'[w].slot = thread[w].slot
      <4>1. CASE WorkerSolve(w)
        BY <4>1 DEF WorkerSolve, TypeOK, ThreadType
      <4>2. CASE WorkerStart(w)
        BY <4>2 DEF WorkerStart, TypeOK, ThreadType
      <4>3. CASE WorkerInfeasible(w)
        BY <4>3 DEF WorkerInfeasible, TypeOK, ThreadType
      <4>4. CASE WorkerRollback(w)
        BY <4>4 DEF WorkerRollback, TypeOK, ThreadType
      <4>5. CASE WorkerCommit(w)
        BY <4>5 DEF WorkerCommit, TypeOK, ThreadType
      <4>6. CASE WorkerMark(w)
        BY <4>6 DEF WorkerMark, TypeOK, ThreadType
      <4> QED
        BY <1>3, <2>3, <4>1, <4>2, <4>3, <4>4, <4>5, <4>6 DEF WorkerStep
    <3> QED
      BY <2>1, <2>2, <3>1, ClockFrame
  <2>4. CASE WorkerRelease(w)
    <3>1. thread'[w].slot = 0
      BY <2>4 DEF WorkerRelease, TypeOK, IdleThread
    <3>2. 0 <= providerSlot /\ 0 <= ClockSlot
      BY ClockTypes DEF Slots
    <3> QED
      BY <2>1, <2>2, <3>1, <3>2 DEF ClockInv, ManualClocks, WallClocks, ClockSlot
  <2> QED
    BY <2>3, <2>4
<1>4. CASE UNCHANGED <<clockVars, loop, thread, advance, providerSlot, acked, closing>>
  BY <1>4, ClockFrame DEF clockVars
<1> QED
  BY <1>1, <1>2, <1>3, <1>4
  DEF Next, vars, AdmitRequest, ReplaceTiers, Stop, serviceVars

\* The clocks of the loop and the workers follow the provider or wall time.
LEMMA ClocksFollow == Spec => [](BarrierInv /\ ClockInv)
<1>1. Init => BarrierInv
  BY DEF Init, BarrierInv, FenceHolds, AckedSlotComplete, NoSlot
<1>2. Init => ClockInv
  <2> SUFFICES ASSUME Init PROVE ClockInv
    OBVIOUS
  <2>1. ManualClocks
    BY DEF Init, ManualClocks, IdleLoop, IdleThread, NoSlot
  <2>2. 0 <= ClockSlot
    BY SizeAssumption, MinPair DEF Init, ClockSlot
  <2>3. WallClocks
    BY <2>2 DEF Init, WallClocks, IdleLoop, IdleThread, Sighted
  <2> QED
    BY <2>1, <2>3 DEF ClockInv
<1>3. BarrierInv => FenceHolds
  BY DEF BarrierInv
<1> QED
  BY <1>1, <1>2, <1>3, TypeCorrect, BarrierNext, ClockNext, PTL DEF Spec

-----------------------------------------------------------------------------
(* Deadlines. *)

\* No placement is before its arrival.  Under the manual clock none is late,
\* nor is the deadline kept with it.  Under wall time a kept deadline past the
\* request's own belongs to a request that is late already, and every solve
\* of its profile, now and later, runs past that deadline.
TimelyAt(r) ==
  /\ assigned[r] >= ArrivalOf[r]
  /\ ManualClock =>
       assigned[r] <= DeadlineOf[r] /\ storedDeadline[r] <= DeadlineOf[r]
  /\ ~ ManualClock /\ storedDeadline[r] > DeadlineOf[r] =>
       /\ assigned[r] > DeadlineOf[r]
       /\ ClockSlot > DeadlineOf[r]
       /\ \A w \in Workers :
            HoldsBatch(w, ProfileOf[r]) => thread[w].slot > DeadlineOf[r]

TimelyInv == \A r \in Requests : assigned[r] # NoSlot => TimelyAt(r)

\* Deadlines, arrivals and windows are slots.
LEMMA RequestTypes ==
  ASSUME TypeOK, NEW r \in Requests
  PROVE  /\ ArrivalOf[r] \in Slots /\ DeadlineOf[r] \in Slots
         /\ ArrivalOf[r] \in Nat /\ DeadlineOf[r] \in Nat
         /\ ArrivalOf[r] <= DeadlineOf[r]
         /\ storedDeadline[r] \in Slots /\ storedDeadline[r] \in Nat
         /\ assigned[r] \in Int /\ (assigned[r] # NoSlot => assigned[r] \in Nat)
<1>1. ArrivalOf[r] \in Slots /\ DeadlineOf[r] \in Slots /\ ArrivalOf[r] <= DeadlineOf[r]
  BY RequestAssumption
<1>2. storedDeadline[r] \in Slots /\ assigned[r] \in SlotOrNone
  BY DEF TypeOK
<1> QED
  BY <1>1, <1>2, SizeAssumption DEF Slots, SlotOrNone, NoSlot

\* The clock does not run backwards under wall time, and a worker that comes to
\* hold a batch does so in the slot of the clock.
LEMMA TimelyFrame ==
  ASSUME TypeOK, TypeOK', TimelyInv, UNCHANGED <<assigned, storedDeadline>>,
         ~ ManualClock => ClockSlot <= ClockSlot',
         ~ ManualClock =>
           \A w \in Workers : thread'[w].pc \in Holding =>
             \/ /\ thread[w].pc \in Holding
                /\ thread'[w].profile = thread[w].profile
                /\ thread'[w].slot = thread[w].slot
             \/ thread'[w].slot = ClockSlot
  PROVE  TimelyInv'
<1> SUFFICES ASSUME NEW r \in Requests, assigned[r] # NoSlot
             PROVE  TimelyAt(r)'
  BY DEF TimelyInv
<1>1. TimelyAt(r)
  BY DEF TimelyInv
<1>2. ASSUME ~ ManualClock, storedDeadline[r] > DeadlineOf[r]
      PROVE  /\ ClockSlot' > DeadlineOf[r]
             /\ \A w \in Workers :
                  HoldsBatch(w, ProfileOf[r])' => thread'[w].slot > DeadlineOf[r]
  <2>1. /\ ClockSlot > DeadlineOf[r]
        /\ \A w \in Workers :
             HoldsBatch(w, ProfileOf[r]) => thread[w].slot > DeadlineOf[r]
    BY <1>1, <1>2 DEF TimelyAt
  <2>2. ClockSlot \in Int /\ ClockSlot' \in Int /\ DeadlineOf[r] \in Int
    <3>1. virtualSlot \in 0 .. TotalSlots /\ virtualSlot' \in 0 .. TotalSlots
      BY DEF TypeOK
    <3>2. ClockSlot \in Int /\ ClockSlot' \in Int
      BY <3>1, SizeAssumption, MinPair DEF ClockSlot
    <3> QED
      BY <3>2, RequestTypes
  <2>3. ClockSlot' > DeadlineOf[r]
    BY <1>2, <2>1, <2>2
  <2>4. ASSUME NEW w \in Workers, HoldsBatch(w, ProfileOf[r])'
        PROVE  thread'[w].slot > DeadlineOf[r]
    <3>1. CASE thread'[w].slot = ClockSlot
      BY <2>1, <3>1
    <3>2. CASE /\ thread[w].pc \in Holding
               /\ thread'[w].profile = thread[w].profile
               /\ thread'[w].slot = thread[w].slot
      BY <2>1, <2>4, <3>2 DEF HoldsBatch
    <3> QED
      BY <1>2, <2>4, <3>1, <3>2 DEF HoldsBatch
  <2> QED
    BY <2>3, <2>4
<1> QED
  BY <1>1, <1>2 DEF TimelyAt

\* Under the manual clock a request that waits for its commit has arrived after
\* every acknowledged slot, so no worker is past its arrival.
LEMMA WaitingNotLate ==
  ASSUME TypeOK, BarrierInv, ClockInv, ManualClock,
         NEW w \in Workers, NEW r \in Requests, Accepted(r), assigned[r] = NoSlot
  PROVE  acked < ArrivalOf[r] /\ thread[w].slot <= ArrivalOf[r]
<1>1. /\ ArrivalOf[r] \in Nat /\ acked \in Int /\ acked >= -1
      /\ thread[w].slot \in Nat /\ providerSlot \in Nat
  BY ClockTypes, RequestTypes
<1>2. acked < ArrivalOf[r]
  <2>1. CASE acked = NoSlot
    BY <1>1, <2>1 DEF NoSlot
  <2>2. CASE acked # NoSlot
    <3>1. ~ (ArrivalOf[r] <= acked)
      BY <2>2 DEF BarrierInv, AckedSlotComplete, Drained
    <3> QED
      BY <1>1, <3>1
  <2> QED
    BY <2>1, <2>2
<1>3. thread[w].slot <= providerSlot /\ providerSlot <= acked + 1
  BY DEF ClockInv, ManualClocks
<1> QED
  BY <1>1, <1>2, <1>3

\* A move of work that had a slot keeps it on time if it was, and raises the
\* kept deadline only in a slot past the request's own deadline.
LEMMA MoveBounds ==
  ASSUME TypeOK, PlacementInv, NEW w \in Workers, WorkerCommit(w),
         NEW r \in Requests, r \notin Range(thread[w].batch),
         thread[w].plan[r] # NoSlot
  PROVE  /\ assigned[r] # NoSlot
         /\ thread[w].slot <= assigned[r]
         /\ ArrivalOf[r] <= assigned'[r] /\ thread[w].slot <= assigned'[r]
         /\ assigned'[r] <= storedDeadline[r] \/ assigned'[r] <= thread[w].slot
         /\ storedDeadline'[r] <= storedDeadline[r]
              \/ storedDeadline'[r] <= thread[w].slot
<1>1. /\ ArrivalOf[r] \in Slots /\ storedDeadline[r] \in Slots
      /\ thread[w].slot \in Slots
  BY ClockTypes, RequestTypes
<1>2. /\ thread[w].pc = "commit"
      /\ assigned'[r] = thread[w].plan[r]
      /\ storedDeadline'[r] = CommittedDeadline(w, r)
  BY CommitEffect
<1>3. /\ assigned[r] # NoSlot
      /\ assigned[r] >= thread[w].slot
      /\ thread[w].plan[r]
           \in PlacementWindow(ArrivalOf[r], storedDeadline[r], thread[w].slot)
  BY <1>2 DEF PlacementInv, PlanSound
<1>4. storedDeadline'[r] = cap_deadline(storedDeadline[r], thread[w].slot)
  BY <1>2 DEF CommittedDeadline
<1>5. assigned[r] \in Int /\ thread[w].slot \in Int
  BY ClockTypes, RequestTypes
<1> QED
  BY <1>1, <1>2, <1>3, <1>4, <1>5, WindowBounds, CapDeadlineBound

\* A commit assigns its requests in time.
LEMMA TimelyCommit ==
  ASSUME TypeOK, ReservationsMatch, FifoConservation, AcceptedInv, PlacementInv,
         BarrierInv, ClockInv, TimelyInv, NEW w \in Workers, WorkerCommit(w)
  PROVE  TimelyInv'
<1>1. /\ thread[w].pc = "commit" /\ thread'[w].pc = "mark"
      /\ \A v \in Workers : v # w => thread'[v] = thread[v]
      /\ \A r \in Requests : thread[w].plan[r] = NoSlot =>
           assigned'[r] = assigned[r] /\ storedDeadline'[r] = storedDeadline[r]
      /\ \A r \in Requests : thread[w].plan[r] # NoSlot =>
           /\ assigned'[r] = thread[w].plan[r]
           /\ storedDeadline'[r] = CommittedDeadline(w, r)
  BY CommitEffect
<1>2. ClockSlot' = ClockSlot
  BY DEF WorkerCommit, clockVars, ClockSlot
<1>3. \A v \in Workers, p \in Profiles : HoldsBatch(v, p)' => HoldsBatch(v, p) /\ v # w
  BY <1>1 DEF HoldsBatch, Holding
<1>4. \A v \in Workers : thread'[v].pc \in Holding => thread'[v].slot = thread[v].slot
  BY <1>1 DEF Holding
<1> SUFFICES ASSUME NEW r \in Requests, assigned'[r] # NoSlot
             PROVE  TimelyAt(r)'
  BY DEF TimelyInv
<1>5. /\ ArrivalOf[r] \in Slots /\ DeadlineOf[r] \in Slots /\ thread[w].slot \in Slots
      /\ ArrivalOf[r] \in Nat /\ DeadlineOf[r] \in Nat /\ thread[w].slot \in Nat
      /\ ArrivalOf[r] <= DeadlineOf[r] /\ ProfileOf[r] \in Profiles
      /\ storedDeadline[r] \in Nat /\ ClockSlot \in Nat
  <2>1. ClockSlot \in Nat
    BY ClockTypes, SizeAssumption DEF Slots
  <2> QED
    BY <2>1, ClockTypes, RequestTypes, RequestAssumption
<1>6. CASE thread[w].plan[r] = NoSlot
  <2>1. assigned'[r] = assigned[r] /\ storedDeadline'[r] = storedDeadline[r]
    BY <1>1, <1>6
  <2>2. TimelyAt(r)
    BY <2>1 DEF TimelyInv
  <2>3. \A v \in Workers : HoldsBatch(v, ProfileOf[r])' =>
          HoldsBatch(v, ProfileOf[r]) /\ thread'[v].slot = thread[v].slot
    BY <1>3, <1>4, <1>5 DEF HoldsBatch
  <2> QED
    BY <1>2, <2>1, <2>2, <2>3 DEF TimelyAt
<1>7. CASE r \in Range(thread[w].batch)
  <2>1. ProfileOf[r] = thread[w].profile /\ Accepted(r) /\ assigned[r] = NoSlot
    BY <1>1, <1>7, HeldFresh DEF PlacementInv, Holding
  <2>2. thread[w].plan[r]
          \in PlacementWindow(ArrivalOf[r], DeadlineOf[r], thread[w].slot)
    BY <1>1, <1>7 DEF PlacementInv, PlanSound
  <2>3. /\ thread[w].plan[r] # NoSlot
        /\ ArrivalOf[r] <= thread[w].plan[r]
        /\ thread[w].plan[r] <= DeadlineOf[r] \/ thread[w].plan[r] <= thread[w].slot
        /\ thread[w].plan[r] \in Slots
    BY <1>5, <2>2, WindowBounds
  <2>4. assigned'[r] = thread[w].plan[r] /\ storedDeadline'[r] = DeadlineOf[r]
    BY <1>1, <1>7, <2>3 DEF CommittedDeadline
  <2>5. ManualClock => assigned'[r] <= DeadlineOf[r]
    <3> SUFFICES ASSUME ManualClock PROVE assigned'[r] <= DeadlineOf[r]
      OBVIOUS
    <3>1. thread[w].slot <= ArrivalOf[r]
      BY <2>1, WaitingNotLate
    <3>2. thread[w].plan[r] \in Int
      BY <2>3, SizeAssumption DEF Slots
    <3> QED
      BY <1>5, <2>3, <2>4, <3>1, <3>2
  <2> QED
    BY <1>5, <2>3, <2>4, <2>5 DEF TimelyAt
<1>8. CASE r \notin Range(thread[w].batch) /\ thread[w].plan[r] # NoSlot
  <2>1. /\ assigned[r] # NoSlot
        /\ thread[w].slot <= assigned[r]
        /\ ArrivalOf[r] <= assigned'[r] /\ thread[w].slot <= assigned'[r]
        /\ assigned'[r] <= storedDeadline[r] \/ assigned'[r] <= thread[w].slot
        /\ storedDeadline'[r] <= storedDeadline[r]
             \/ storedDeadline'[r] <= thread[w].slot
    BY <1>8, MoveBounds
  <2>2. TimelyAt(r)
    BY <2>1 DEF TimelyInv
  <2>3. ProfileOf[r] = thread[w].profile /\ HoldsBatch(w, ProfileOf[r])
    BY <1>1, <1>8, PlanOwned DEF HoldsBatch, Holding
  <2>4. assigned[r] \in Int /\ assigned'[r] \in Int /\ storedDeadline'[r] \in Int
    <3>1. thread[w].plan[r] \in SlotOrNone
      <4>1. thread[w] \in ThreadType
        BY DEF TypeOK
      <4> QED
        BY <4>1 DEF ThreadType
    <3>3. assigned'[r] \in SlotOrNone
      BY <1>1, <1>8, <3>1
    <3>2. storedDeadline'[r] \in Slots
      BY <1>1, <1>5, <1>8, RequestTypes, CapDeadlineBound DEF CommittedDeadline
    <3> QED
      BY <3>2, <3>3, RequestTypes, SizeAssumption DEF Slots, SlotOrNone, NoSlot
  <2>5. ManualClock =>
          assigned'[r] <= DeadlineOf[r] /\ storedDeadline'[r] <= DeadlineOf[r]
    BY <1>5, <2>1, <2>2, <2>4 DEF TimelyAt
  <2>6. ASSUME ~ ManualClock, storedDeadline'[r] > DeadlineOf[r]
        PROVE  thread[w].slot > DeadlineOf[r]
    <3>1. CASE storedDeadline[r] > DeadlineOf[r]
      BY <2>2, <2>3, <2>6, <3>1 DEF TimelyAt
    <3>2. CASE ~ (storedDeadline[r] > DeadlineOf[r])
      BY <1>5, <2>1, <2>4, <2>6, <3>2
    <3> QED
      BY <3>1, <3>2
  <2>7. ASSUME ~ ManualClock, storedDeadline'[r] > DeadlineOf[r]
        PROVE  /\ assigned'[r] > DeadlineOf[r]
               /\ ClockSlot' > DeadlineOf[r]
               /\ \A v \in Workers : ~ HoldsBatch(v, ProfileOf[r])'
    <3>1. assigned'[r] > DeadlineOf[r]
      BY <1>5, <2>1, <2>4, <2>6, <2>7
    <3>2. thread[w].slot <= ClockSlot
      BY <2>7 DEF ClockInv, WallClocks
    <3>3. ClockSlot' > DeadlineOf[r]
      BY <1>2, <1>5, <2>6, <2>7, <3>2
    <3>4. \A v \in Workers : ~ HoldsBatch(v, ProfileOf[r])'
      BY <1>3, <1>5, <2>3, OneHolder
    <3> QED
      BY <3>1, <3>3, <3>4
  <2> QED
    BY <2>1, <2>5, <2>7 DEF TimelyAt
<1> QED
  BY <1>6, <1>7, <1>8

\* Wall time never runs backwards.
LEMMA ClockGrows ==
  ASSUME TypeOK, [Next]_vars, ~ ManualClock
  PROVE  ClockSlot <= ClockSlot'
<1>1. virtualSlot \in 0 .. TotalSlots
  BY DEF TypeOK
<1>2. UNCHANGED virtualSlot \/ LoopReadClock
  BY Zenon DEF Next, vars, LoopStep, AdmitRequest, CloseFence, CloseFlush, CloseAck,
         CloseTimeout, AdvanceClock, AdvanceSlot, ReplaceTiers, Stop, LoopExit,
         LoopReadPending, LoopReadActive, LoopSetSlot, LoopReadFlush,
         LoopChoosePass, LoopDispatch, LoopDispatchDone, LoopReadCounts,
         LoopSetBacklog, LoopEnd, WorkerStep, WorkerStart, WorkerSolve,
         WorkerInfeasible, WorkerRollback, WorkerCommit, WorkerMark,
         WorkerRelease, loopOnly, clockVars
<1>3. virtualSlot' \in Int /\ virtualSlot <= virtualSlot'
  BY <1>1, <1>2, SizeAssumption DEF LoopReadClock
<1> QED
  BY <1>1, <1>3, SizeAssumption, MinPair DEF ClockSlot

\* A worker comes to hold a batch only by being spawned, in the loop's slot.
LEMMA HoldersStep ==
  ASSUME TypeOK, ClockInv, [Next]_vars, ~ ManualClock, NEW v \in Workers,
         thread'[v].pc \in Holding
  PROVE  \/ /\ thread[v].pc \in Holding
            /\ thread'[v].profile = thread[v].profile
            /\ thread'[v].slot = thread[v].slot
         \/ thread'[v].slot = ClockSlot
<1>1. CASE UNCHANGED thread
  BY <1>1
<1>2. CASE LoopDispatch
  <2>1. PICK q \in Profiles, w \in Workers, n \in Nat :
          thread' = [thread EXCEPT ![w] =
            [IdleThread EXCEPT
               !.pc = "start", !.profile = q, !.slot = loop.slot,
               !.count = Len(pending[q]),
               !.batch = SubSeq(pending[q], 1, n)]]
    BY <1>2, DispatchStep, Zenon
  <2>2. /\ thread'[w].slot = loop.slot
        /\ v # w => thread'[v] = thread[v]
    BY <2>1 DEF TypeOK, IdleThread
  <2>3. loop.slot = ClockSlot
    BY <1>2 DEF LoopDispatch, ClockInv, WallClocks, Sighted
  <2> QED
    BY <2>2, <2>3
<1>3. ASSUME NEW w \in Workers, WorkerStep(w)
      PROVE  /\ thread[v].pc \in Holding
             /\ thread'[v].profile = thread[v].profile
             /\ thread'[v].slot = thread[v].slot
  <2>1. v # w => thread'[v] = thread[v]
    BY <1>3, Zenon DEF WorkerStep, WorkerStart, WorkerSolve, WorkerInfeasible,
                WorkerRollback, WorkerCommit, WorkerMark, WorkerRelease, TypeOK
  <2>2. CASE v = w /\ WorkerStart(w)
    BY <2>2 DEF WorkerStart, TypeOK, ThreadType, Holding
  <2>3. CASE v = w /\ WorkerSolve(w)
    BY <2>3 DEF WorkerSolve, TypeOK, ThreadType, Holding
  <2>4. CASE v = w /\ WorkerInfeasible(w)
    BY <2>4 DEF WorkerInfeasible, TypeOK, ThreadType, Holding
  <2>5. CASE v = w /\ WorkerRollback(w)
    BY <2>5 DEF WorkerRollback, TypeOK, ThreadType, Holding
  <2>6. CASE v = w /\ WorkerCommit(w)
    BY <2>6 DEF WorkerCommit, TypeOK, ThreadType, Holding
  <2>7. CASE v = w /\ WorkerMark(w)
    BY <2>7 DEF WorkerMark, TypeOK, ThreadType, Holding
  <2>8. CASE v = w /\ WorkerRelease(w)
    BY <2>8 DEF WorkerRelease, TypeOK, IdleThread, Holding
  <2> QED
    BY <1>3, <2>1, <2>2, <2>3, <2>4, <2>5, <2>6, <2>7, <2>8 DEF WorkerStep
<1>4. UNCHANGED thread \/ LoopDispatch \/ \E w \in Workers : WorkerStep(w)
  BY Zenon DEF Next, vars, LoopStep, AdmitRequest, CloseFence, CloseFlush, CloseAck,
         CloseTimeout, AdvanceClock, AdvanceSlot, ReplaceTiers, Stop, LoopExit,
         LoopReadPending, LoopReadActive, LoopReadClock, LoopSetSlot,
         LoopReadFlush, LoopChoosePass, LoopDispatchDone, LoopReadCounts,
         LoopSetBacklog, LoopEnd, loopOnly
<1> QED
  BY <1>1, <1>2, <1>3, <1>4

\* Only a commit changes a placement or the deadline kept with it.
LEMMA OnlyCommitPlaces ==
  ASSUME [Next]_vars
  PROVE  \/ UNCHANGED <<assigned, storedDeadline>>
         \/ \E w \in Workers : WorkerCommit(w)
BY Zenon DEF Next, vars, LoopStep, AdmitRequest, CloseFence, CloseFlush, CloseAck,
       CloseTimeout, AdvanceClock, AdvanceSlot, ReplaceTiers, Stop, LoopExit,
       LoopReadPending, LoopReadActive, LoopReadClock, LoopSetSlot,
       LoopReadFlush, LoopChoosePass, LoopDispatch, LoopDispatchDone,
       LoopReadCounts, LoopSetBacklog, LoopEnd, WorkerStep, WorkerStart,
       WorkerSolve, WorkerInfeasible, WorkerRollback, WorkerMark,
       WorkerRelease, loopOnly, sharedVars

\* Every step keeps the assignments in time.
LEMMA TimelyNext ==
  /\ TypeOK /\ TypeOK' /\ ReservationsMatch /\ FifoConservation /\ AcceptedInv
  /\ PlacementInv /\ BarrierInv /\ ClockInv /\ TimelyInv /\ [Next]_vars
  => TimelyInv'
<1> SUFFICES ASSUME TypeOK, TypeOK', ReservationsMatch, FifoConservation,
                    AcceptedInv, PlacementInv, BarrierInv, ClockInv, TimelyInv,
                    [Next]_vars
             PROVE  TimelyInv'
  OBVIOUS
<1>1. CASE UNCHANGED <<assigned, storedDeadline>>
  <2>1. ~ ManualClock => ClockSlot <= ClockSlot'
    BY ClockGrows
  <2>2. ~ ManualClock =>
          \A w \in Workers : thread'[w].pc \in Holding =>
            \/ /\ thread[w].pc \in Holding
               /\ thread'[w].profile = thread[w].profile
               /\ thread'[w].slot = thread[w].slot
            \/ thread'[w].slot = ClockSlot
    BY HoldersStep
  <2> QED
    BY <1>1, <2>1, <2>2, TimelyFrame
<1>2. ASSUME NEW w \in Workers, WorkerCommit(w) PROVE TimelyInv'
  BY <1>2, TimelyCommit
<1> QED
  BY <1>1, <1>2, OnlyCommitPlaces

\* The assignments are in time throughout.
LEMMA TimelyAlways == Spec => []TimelyInv
<1>1. Init => TimelyInv
  BY DEF Init, TimelyInv
<1> QED
  BY <1>1, TypeCorrect, Reservations, Fifo, AcceptedAlways, PlansSound,
     ClocksFollow, TimelyNext, PTL DEF Spec

\* Under the manual clock every request is placed inside its own window, for
\* every instance: close_slot fences admission and waits for the slot to drain
\* before the provider may move the clock past it.
THEOREM InsideWindow == Spec => []WindowRespected
<1>1. TypeOK /\ TimelyInv => WindowRespected
  <2> SUFFICES ASSUME TypeOK, TimelyInv, ManualClock, NEW r \in Requests,
                      assigned[r] # NoSlot
               PROVE  assigned[r] \in ArrivalOf[r] .. DeadlineOf[r]
    BY DEF WindowRespected
  <2>1. assigned[r] >= ArrivalOf[r] /\ assigned[r] <= DeadlineOf[r]
    BY DEF TimelyInv, TimelyAt
  <2> QED
    BY <2>1, RequestTypes
<1> QED
  BY <1>1, TypeCorrect, TimelyAlways, PTL

\* Re-planning a profile's future work never makes an on-time request late nor
\* moves it before its arrival, with the clock in either mode.
THEOREM ReplanSafe == Spec => ReplanKeepsOnTime
<1> DEFINE KeepsOnTime ==
      \A r \in Requests :
        assigned[r] # NoSlot /\ assigned[r] <= DeadlineOf[r] =>
          assigned'[r] \in ArrivalOf[r] .. DeadlineOf[r]
<1>1. /\ TypeOK /\ FifoConservation /\ AcceptedInv /\ PlacementInv /\ TimelyInv
      /\ [Next]_vars
      => KeepsOnTime
  <2> SUFFICES ASSUME TypeOK, FifoConservation, AcceptedInv, PlacementInv,
                      TimelyInv, [Next]_vars,
                      NEW r \in Requests,
                      assigned[r] # NoSlot, assigned[r] <= DeadlineOf[r]
               PROVE  assigned'[r] \in ArrivalOf[r] .. DeadlineOf[r]
    OBVIOUS
  <2>1. TimelyAt(r)
    BY DEF TimelyInv
  <2>2. /\ assigned[r] \in Nat /\ ArrivalOf[r] \in Nat /\ DeadlineOf[r] \in Nat
        /\ storedDeadline[r] \in Nat /\ ArrivalOf[r] <= assigned[r]
    BY <2>1, RequestTypes DEF TimelyAt
  <2>3. CASE assigned'[r] = assigned[r]
    BY <2>2, <2>3
  <2>4. ASSUME NEW w \in Workers, WorkerCommit(w), thread[w].plan[r] # NoSlot
        PROVE  assigned'[r] \in ArrivalOf[r] .. DeadlineOf[r]
    <3>1. thread[w].pc = "commit" /\ assigned'[r] = thread[w].plan[r]
      BY <2>4, CommitEffect
    <3>2. r \notin Range(thread[w].batch)
      BY <3>1, HeldFresh DEF PlacementInv, Holding
    <3>3. /\ thread[w].slot <= assigned[r]
          /\ ArrivalOf[r] <= assigned'[r]
          /\ assigned'[r] <= storedDeadline[r] \/ assigned'[r] <= thread[w].slot
      BY <2>4, <3>2, MoveBounds
    <3>4. storedDeadline[r] <= DeadlineOf[r]
      BY <2>1, <2>2 DEF TimelyAt
    <3>5. assigned'[r] \in Int /\ thread[w].slot \in Nat
      <4>1. thread[w] \in ThreadType
        BY DEF TypeOK
      <4>2. thread[w].plan[r] \in SlotOrNone
        BY <4>1 DEF ThreadType
      <4> QED
        BY <3>1, <4>2, ClockTypes, SizeAssumption DEF SlotOrNone, Slots, NoSlot
    <3> QED
      BY <2>2, <3>3, <3>4, <3>5
  <2>5. ASSUME NEW w \in Workers, WorkerCommit(w), thread[w].plan[r] = NoSlot
        PROVE  assigned'[r] = assigned[r]
    BY <2>5, CommitEffect
  <2> QED
    BY <2>3, <2>4, <2>5, OnlyCommitPlaces
<1> QED
  BY <1>1, TypeCorrect, Fifo, AcceptedAlways, PlansSound, TimelyAlways,
     PTL DEF Spec, ReplanKeepsOnTime

\* While future assignments are locked, no commit places work in a slot that
\* close_slot has acknowledged: what a plan still in a worker's hands places was
\* accepted behind the fence, and lands after it.
THEOREM SealedWhenLocked ==
  ASSUME LockFuture
  PROVE  Spec => AckedSlotSealed
<1> DEFINE PlacesAfterAcked ==
      \A r \in Requests : assigned'[r] # assigned[r] => assigned'[r] > acked
<1>1. /\ TypeOK /\ FifoConservation /\ AcceptedInv /\ PlacementInv
      /\ BarrierInv /\ ClockInv /\ [Next]_vars
      => PlacesAfterAcked
  <2> SUFFICES ASSUME TypeOK, FifoConservation, AcceptedInv, PlacementInv,
                      BarrierInv, ClockInv, [Next]_vars,
                      NEW r \in Requests, assigned'[r] # assigned[r]
               PROVE  assigned'[r] > acked
    OBVIOUS
  <2>1. PICK w \in Workers : WorkerCommit(w)
    BY OnlyCommitPlaces
  <2>2. /\ thread[w].pc = "commit"
        /\ thread[w].plan[r] # NoSlot
        /\ assigned'[r] = thread[w].plan[r]
    BY <2>1, CommitEffect
  <2>3. r \in Range(thread[w].batch)
    BY <2>2 DEF PlacementInv, PlanSound
  <2>4. Accepted(r) /\ assigned[r] = NoSlot
    BY <2>2, <2>3, HeldFresh DEF PlacementInv, Holding
  <2>5. /\ ArrivalOf[r] \in Slots /\ DeadlineOf[r] \in Slots
        /\ thread[w].slot \in Slots
    BY ClockTypes, RequestTypes, RequestAssumption
  <2>6. assigned'[r] \in Slots /\ ArrivalOf[r] <= assigned'[r]
    BY <2>2, <2>3, <2>5, WindowBounds DEF PlacementInv, PlanSound
  <2>7. CASE ManualClock
    <3>1. acked < ArrivalOf[r]
      BY <2>4, <2>7, <2>1, <2>2, WaitingNotLate
    <3>2. acked \in Int
      BY SizeAssumption DEF TypeOK, SlotOrNone, Slots, NoSlot
    <3> QED
      BY <2>5, <2>6, <3>1, <3>2, SizeAssumption DEF Slots
  <2>8. CASE ~ ManualClock
    <3>1. acked = NoSlot
      BY <2>8 DEF BarrierInv, FenceHolds
    <3> QED
      BY <2>6, <3>1, SizeAssumption DEF Slots, NoSlot
  <2> QED
    BY <2>7, <2>8
<1> QED
  BY <1>1, TypeCorrect, Fifo, AcceptedAlways, PlansSound, ClocksFollow,
     PTL DEF Spec, AckedSlotSealed

-----------------------------------------------------------------------------
(* The ladder of capacity tiers. *)

\* replace_capacity_tiers refuses a ladder whose multipliers decrease
\* (rust/src/service/handlers.rs, force_set_capacity_tiers).
Ascending(ladder) ==
  \A i, j \in DOMAIN ladder : i <= j => ladder[i].multiplier <= ladder[j].multiplier

Admits(ladder, count) ==
  {i \in DOMAIN ladder : \/ ladder[i].maxRequests = NoLimit
                         \/ count <= ladder[i].maxRequests}

\* Tiers and multipliers of the ladder in force.
LEMMA LadderTypes ==
  ASSUME NEW L \in Ladders, NEW n
  PROVE  /\ Len(L) \in Nat /\ DOMAIN L = 1 .. Len(L)
         /\ \A i \in DOMAIN L : /\ L[i].maxRequests \in Int
                                /\ L[i].multiplier \in Nat
         /\ Admits(L, n) # {} =>
              /\ Min(Admits(L, n)) \in Admits(L, n)
              /\ \A i \in Admits(L, n) : Min(Admits(L, n)) <= i
<1>1. L \in Seq(CapacityTier)
  BY LadderAssumption
<1>2. Len(L) \in Nat /\ DOMAIN L = 1 .. Len(L)
  BY <1>1, LenProperties
<1>3. \A i \in DOMAIN L : L[i] \in CapacityTier
  BY <1>1, <1>2, ElementOfSeq
<1>4. Admits(L, n) \subseteq Nat
  BY <1>2 DEF Admits
<1> QED
  BY <1>2, <1>3, <1>4, MinOfNaturals DEF CapacityTier, NoLimit

\* The multiplier of a count, case by case.
LEMMA MultiplierCases ==
  ASSUME NEW L \in Ladders, NEW n \in Nat
  PROVE  LET m == capacity_multiplier_for_count(n, L)
         IN  /\ Admits(L, n) # {} => m = L[Min(Admits(L, n))].multiplier
             /\ Admits(L, n) = {} /\ L # << >> => m = L[Len(L)].multiplier
             /\ Admits(L, n) = {} /\ L = << >> => m = 1
             /\ m \in Nat
<1> DEFINE m == capacity_multiplier_for_count(n, L)
<1>1. m = CASE Admits(L, n) # {} -> L[Min(Admits(L, n))].multiplier
            [] Admits(L, n) = {} /\ L # << >> -> L[Len(L)].multiplier
            [] OTHER -> 1
  BY DEF capacity_multiplier_for_count, Admits
<1> HIDE DEF m
<1>2. /\ Admits(L, n) # {} => m = L[Min(Admits(L, n))].multiplier
      /\ Admits(L, n) = {} /\ L # << >> => m = L[Len(L)].multiplier
      /\ Admits(L, n) = {} /\ L = << >> => m = 1
  BY <1>1
<1>3. L # << >> => Len(L) \in DOMAIN L
  BY LadderTypes, LadderAssumption, EmptySeq
<1>4. \A i \in Admits(L, n) : i \in DOMAIN L
  BY DEF Admits
<1>5. m \in Nat
  BY <1>2, <1>3, <1>4, LadderTypes
<1> QED
  BY <1>2, <1>5 DEF m

\* On a ladder that never falls, more requests never cost less.
LEMMA MultiplierMonotone ==
  ASSUME NEW L \in Ladders, Ascending(L), NEW a \in Nat, NEW b \in Nat, a <= b
  PROVE  capacity_multiplier_for_count(a, L) <= capacity_multiplier_for_count(b, L)
<1>1. Admits(L, b) \subseteq Admits(L, a)
  <2> SUFFICES ASSUME NEW i \in Admits(L, b) PROVE i \in Admits(L, a)
    OBVIOUS
  <2>1. i \in DOMAIN L /\ (L[i].maxRequests = NoLimit \/ b <= L[i].maxRequests)
    BY DEF Admits
  <2>2. L[i].maxRequests \in Int
    BY <2>1, LadderTypes
  <2>3. L[i].maxRequests = NoLimit \/ a <= L[i].maxRequests
    BY <2>1, <2>2
  <2> QED
    BY <2>1, <2>3 DEF Admits
<1>2. \A i \in Admits(L, a) : i \in DOMAIN L
  BY DEF Admits
<1>3. CASE Admits(L, b) # {}
  <2> DEFINE i == Min(Admits(L, a))
             j == Min(Admits(L, b))
  <2>1. i \in DOMAIN L /\ j \in DOMAIN L /\ i <= j
    BY <1>1, <1>2, <1>3, LadderTypes
  <2>2. L[i].multiplier <= L[j].multiplier
    BY <2>1 DEF Ascending
  <2> QED
    BY <1>1, <1>3, <2>2, MultiplierCases
<1>4. CASE Admits(L, b) = {} /\ Admits(L, a) # {}
  <2> DEFINE i == Min(Admits(L, a))
  <2>1. i \in DOMAIN L
    BY <1>2, <1>4, LadderTypes
  <2>2. Len(L) \in DOMAIN L /\ i <= Len(L) /\ L # << >>
    BY <2>1, LadderTypes
  <2>3. L[i].multiplier <= L[Len(L)].multiplier
    BY <2>1, <2>2 DEF Ascending
  <2> QED
    BY <1>4, <2>2, <2>3, MultiplierCases
<1>5. CASE Admits(L, b) = {} /\ Admits(L, a) = {}
  <2>1. capacity_multiplier_for_count(a, L) = capacity_multiplier_for_count(b, L)
    BY <1>5, MultiplierCases
  <2> QED
    BY <2>1, MultiplierCases
<1> QED
  BY <1>3, <1>4, <1>5

-----------------------------------------------------------------------------
(* Occupancies. *)

\* Any set of requests is finite.
LEMMA RequestSets ==
  ASSUME NEW S, S \subseteq Requests
  PROVE  IsFiniteSet(S) /\ Cardinality(S) \in Nat
BY RequestAssumption, FS_Subset, FS_CardinalityType

\* A commit fills a slot with no more than its plan adds to it.
LEMMA CommitFills ==
  ASSUME TypeOK, NEW w \in Workers, WorkerCommit(w), NEW s \in Slots
  PROVE  Occupancy(s)' <= ActualAfter(w, s)
<1> DEFINE old == {r \in Requests : assigned[r] = s}
           add == {r \in Requests : thread[w].plan[r] = s}
           new == {r \in Requests : assigned'[r] = s}
<1>1. /\ IsFiniteSet(old) /\ Cardinality(old) \in Nat
      /\ IsFiniteSet(add) /\ Cardinality(add) \in Nat
      /\ IsFiniteSet(new) /\ Cardinality(new) \in Nat
  BY RequestSets
<1>2. /\ Occupancy(s)' = Cardinality(new)
      /\ ActualAfter(w, s) = Cardinality(old) + Cardinality(add)
  BY DEF Occupancy, ActualAfter, Adds
<1>3. new \subseteq old \cup add
  BY CommitEffect
<1> HIDE DEF old, add, new
<1>4. /\ IsFiniteSet(old \cup add)
      /\ Cardinality(old \cup add)
           = Cardinality(old) + Cardinality(add) - Cardinality(old \cap add)
  BY <1>1, FS_Union
<1>5. Cardinality(old \cap add) \in Nat
  BY <1>1, FS_Intersection, FS_CardinalityType
<1>6. Cardinality(new) <= Cardinality(old \cup add)
  BY <1>3, <1>4, FS_Subset
<1> QED
  BY <1>1, <1>2, <1>4, <1>5, <1>6

\* Occupancies are natural numbers.
LEMMA CountTypes ==
  ASSUME TypeOK, NEW w \in Workers, NEW s \in Slots
  PROVE  /\ Occupancy(s) \in Nat
         /\ Adds(thread[w].plan, s) \in Nat
         /\ thread[w].baseline[s] \in Nat
         /\ ActualAfter(w, s) \in Nat
         /\ ExpectedAfter(w, s) \in Nat
<1>1. Occupancy(s) \in Nat
  BY RequestSets DEF Occupancy
<1>2. Adds(thread[w].plan, s) \in Nat
  BY RequestSets DEF Adds
<1>3. thread[w].baseline[s] \in Nat
  <2>1. thread[w] \in ThreadType
    BY DEF TypeOK
  <2> QED
    BY <2>1 DEF ThreadType
<1> QED
  BY <1>1, <1>2, <1>3 DEF ActualAfter, ExpectedAfter

\* A worker passes from its commit to its bookkeeping by committing.
LEMMA MarkIsCommit ==
  ASSUME TypeOK, [Next]_vars, NEW w \in Workers,
         thread[w].pc = "commit", thread'[w].pc = "mark"
  PROVE  WorkerCommit(w)
<1>1. CASE UNCHANGED thread
  BY <1>1
<1>2. CASE LoopDispatch
  <2>1. PICK q \in Profiles, v \in Workers, n \in Nat :
          thread' = [thread EXCEPT ![v] =
            [IdleThread EXCEPT
               !.pc = "start", !.profile = q, !.slot = loop.slot,
               !.count = Len(pending[q]),
               !.batch = SubSeq(pending[q], 1, n)]]
    BY <1>2, DispatchStep, ZenonT(40)
  <2>2. PICK rec : thread' = [thread EXCEPT ![v] = rec] /\ rec.pc = "start"
    <3> DEFINE rec == [IdleThread EXCEPT
                         !.pc = "start", !.profile = q, !.slot = loop.slot,
                         !.count = Len(pending[q]),
                         !.batch = SubSeq(pending[q], 1, n)]
    <3>1. thread' = [thread EXCEPT ![v] = rec]
      BY <2>1, Zenon
    <3>2. rec.pc = "start"
      BY DEF IdleThread
    <3> QED
      BY <3>1, <3>2, Zenon
  <2>3. thread \in [Workers -> ThreadType]
    BY DEF TypeOK
  <2> QED
    BY <2>2, <2>3
<1>3. ASSUME NEW v \in Workers, WorkerStep(v) PROVE WorkerCommit(w)
  <2>1. v # w => thread'[w] = thread[w]
    BY <1>3, Zenon DEF WorkerStep, WorkerStart, WorkerSolve, WorkerInfeasible,
                WorkerRollback, WorkerCommit, WorkerMark, WorkerRelease, TypeOK
  <2>2. v = w
    BY <2>1
  <2>3. ~ WorkerRollback(w)
    <3>1. thread[w] \in ThreadType /\ DOMAIN thread = Workers
      BY Zenon DEF TypeOK
    <3> SUFFICES ASSUME WorkerRollback(w) PROVE FALSE
      OBVIOUS
    <3> DEFINE rec == [thread[w] EXCEPT !.pc = "solve", !.plan = NoPlan, !.baseline = ZeroCounts,
                                        !.rollbacks = thread[w].rollbacks + 1]
    <3>2. thread'[w] = rec
      BY <3>1, Zenon DEF WorkerRollback
    <3>3. rec.pc = "solve"
      BY <3>1 DEF ThreadType
    <3> QED
      BY <3>2, <3>3, Zenon
  <2>4. WorkerRollback(w) \/ WorkerCommit(w)
    BY <1>3, <2>2, Zenon DEF WorkerStep, WorkerStart, WorkerSolve, WorkerInfeasible,
                      WorkerMark, WorkerRelease
  <2> QED
    BY <2>3, <2>4
<1>4. UNCHANGED thread \/ LoopDispatch \/ \E v \in Workers : WorkerStep(v)
  BY DEF Next, vars, LoopStep, AdmitRequest, CloseFence, CloseFlush, CloseAck,
         CloseTimeout, AdvanceClock, AdvanceSlot, ReplaceTiers, Stop, LoopExit,
         LoopReadPending, LoopReadActive, LoopReadClock, LoopSetSlot,
         LoopReadFlush, LoopChoosePass, LoopDispatchDone, LoopReadCounts,
         LoopSetBacklog, LoopEnd, loopOnly
<1> QED
  BY <1>1, <1>2, <1>3, <1>4

\* With ladders whose multipliers never fall, a batch that is not forced is
\* priced no higher than its solver assumed in every slot it lands in, however
\* many commits came between its snapshot and its own.
THEOREM PricedAsSolved ==
  ASSUME \A L \in Ladders : Ascending(L)
  PROVE  Spec => PricedTierHonoured
<1> DEFINE Honoured ==
      \A w \in Workers :
        thread[w].pc = "commit" /\ thread'[w].pc = "mark" /\ ~ ForceCommit(w) =>
          \A s \in Slots : Adds(thread[w].plan, s) > 0 =>
            capacity_multiplier_for_count(Occupancy(s)', tiers)
              <= capacity_multiplier_for_count(ExpectedAfter(w, s), tiers)
<1>1. TypeOK /\ TypeOK' /\ [Next]_vars => Honoured
  <2> SUFFICES ASSUME TypeOK, TypeOK', [Next]_vars, NEW w \in Workers,
                      thread[w].pc = "commit", thread'[w].pc = "mark",
                      ~ ForceCommit(w),
                      NEW s \in Slots, Adds(thread[w].plan, s) > 0
               PROVE  capacity_multiplier_for_count(Occupancy(s)', tiers)
                        <= capacity_multiplier_for_count(ExpectedAfter(w, s), tiers)
    OBVIOUS
  <2>1. WorkerCommit(w)
    BY MarkIsCommit
  <2>2. ~ TierBreach(w)
    BY <2>1 DEF WorkerCommit
  <2>3. tiers \in Ladders /\ Ascending(tiers)
    BY DEF TypeOK
  <2> DEFINE o == Occupancy(s)'
             e == ExpectedAfter(w, s)
             a == ActualAfter(w, s)
  <2>4. e \in Nat /\ a \in Nat
    BY CountTypes
  <2>5. o \in Nat
    BY RequestSets DEF Occupancy
  <2>6. o <= a
    BY <2>1, CommitFills
  <2>7. a > e => ~ (capacity_multiplier_for_count(a, tiers)
                      > capacity_multiplier_for_count(e, tiers))
    BY <2>2 DEF TierBreach
  <2> HIDE DEF o, e, a
  <2>8. CASE a > e
    <3>1. capacity_multiplier_for_count(o, tiers)
            <= capacity_multiplier_for_count(a, tiers)
      BY <2>3, <2>4, <2>5, <2>6, MultiplierMonotone
    <3>2. /\ capacity_multiplier_for_count(o, tiers) \in Nat
          /\ capacity_multiplier_for_count(a, tiers) \in Nat
          /\ capacity_multiplier_for_count(e, tiers) \in Nat
      BY <2>3, <2>4, <2>5, MultiplierCases
    <3> QED
      BY <2>7, <2>8, <3>1, <3>2 DEF o, e
  <2>9. CASE ~ (a > e)
    <3>1. o <= e
      BY <2>4, <2>5, <2>6, <2>9
    <3> QED
      BY <2>3, <2>4, <2>5, <3>1, MultiplierMonotone DEF o, e
  <2> QED
    BY <2>8, <2>9
<1> QED
  BY <1>1, TypeCorrect, PTL DEF Spec, PricedTierHonoured

-----------------------------------------------------------------------------
(* Rollbacks. *)

\* The commit of w will find some slot of its plan fuller than its solver
\* assumed: another worker has committed there since the solve.
StaleAt(w) ==
  /\ thread[w].pc = "commit"
  /\ \E s \in Slots : /\ Adds(thread[w].plan, s) > 0
                      /\ ActualAfter(w, s) > ExpectedAfter(w, s)

Stale == {w \in Workers : StaleAt(w)}
Marking == {w \in Workers : thread[w].pc = "mark"}

\* A worker that may still be refused counts as a rollback already: a commit
\* makes at most the other workers stale, and a rollback needs a stale one.
PaidInv ==
  /\ \A w \in Workers : thread[w].rollbacks <= RollbackMax
  /\ maxConsecutive <= RollbackMax
  /\ LockFuture =>
       totalRollbacks + Cardinality(Stale)
         <= (MaxWorkers - 1) * (batchesProcessed + Cardinality(Marking))

\* Any set of workers is finite and no larger than the pool.
LEMMA WorkerSets ==
  ASSUME NEW S, S \subseteq Workers
  PROVE  IsFiniteSet(S) /\ Cardinality(S) \in Nat /\ Cardinality(S) <= MaxWorkers
<1>1. IsFiniteSet(Workers) /\ Cardinality(Workers) = MaxWorkers
  BY SizeAssumption, FS_Interval DEF Workers
<1> QED
  BY <1>1, FS_Subset, FS_CardinalityType

\* Both sides of the account of rollbacks are natural numbers.
LEMMA PaidTypes ==
  ASSUME TypeOK
  PROVE  /\ totalRollbacks \in Nat /\ maxConsecutive \in Nat
         /\ batchesProcessed \in Nat /\ MaxWorkers \in Nat \ {0}
         /\ RollbackMax \in Nat
         /\ \A w \in Workers : thread[w].rollbacks \in Nat
         /\ IsFiniteSet(Stale) /\ Cardinality(Stale) \in Nat
         /\ IsFiniteSet(Marking) /\ Cardinality(Marking) \in Nat
<1>1. \A w \in Workers : thread[w] \in ThreadType
  BY DEF TypeOK
<1>2. Stale \subseteq Workers /\ Marking \subseteq Workers
  BY DEF Stale, Marking
<1> QED
  BY <1>1, <1>2, WorkerSets, SizeAssumption DEF TypeOK, ThreadType

\* A worker goes stale only when a placement changes.
LEMMA StaleFrame ==
  ASSUME NEW w \in Workers, UNCHANGED assigned, thread'[w] = thread[w]
  PROVE  StaleAt(w)' <=> StaleAt(w)
<1>1. \A s \in Slots : Occupancy(s)' = Occupancy(s)
  BY DEF Occupancy
<1>2. \A s \in Slots : /\ Adds(thread[w].plan, s)' = Adds(thread[w].plan, s)
                       /\ ExpectedAfter(w, s)' = ExpectedAfter(w, s)
                       /\ ActualAfter(w, s)' = ActualAfter(w, s)
  BY <1>1 DEF Adds, ExpectedAfter, ActualAfter
<1> QED
  BY <1>2 DEF StaleAt

\* A step of a worker that neither ends in a stale plan nor enters or leaves
\* its bookkeeping.
LEMMA PaidFrame ==
  ASSUME PaidInv,
         UNCHANGED <<assigned, totalRollbacks, maxConsecutive, batchesProcessed>>,
         NEW w \in Workers,
         \A v \in Workers : v # w => thread'[v] = thread[v],
         thread[w].pc \notin {"commit", "mark"}, thread'[w].pc # "mark",
         LockFuture => ~ StaleAt(w)',
         thread'[w].rollbacks <= RollbackMax
  PROVE  PaidInv'
<1>1. Marking' = Marking
  BY DEF Marking
<1>2. ASSUME LockFuture PROVE Stale' = Stale
  <2>1. ~ StaleAt(w) /\ ~ StaleAt(w)'
    BY <1>2 DEF StaleAt
  <2>2. \A v \in Workers : v # w => (StaleAt(v)' <=> StaleAt(v))
    BY StaleFrame
  <2> QED
    BY <2>1, <2>2 DEF Stale
<1>3. \A v \in Workers : thread'[v].rollbacks <= RollbackMax
  BY DEF PaidInv
<1> QED
  BY <1>1, <1>2, <1>3 DEF PaidInv

\* With future assignments locked a fresh plan is priced against the occupancy
\* of the moment, so it is not stale.
LEMMA FreshPlan ==
  ASSUME TypeOK, TypeOK', PlacementInv', LockFuture,
         NEW w \in Workers, WorkerSolve(w)
  PROVE  ~ StaleAt(w)'
<1>1. PICK plan \in Placements(thread[w].batch, thread[w].profile, thread[w].slot) :
        thread' = [thread EXCEPT ![w] =
          [@ EXCEPT !.pc = "commit", !.plan = plan,
                    !.baseline = BaselineCounts(thread[w].profile, thread[w].slot)]]
  BY DEF WorkerSolve
<1>2. thread[w] \in ThreadType
  BY DEF TypeOK
<1>3. /\ thread'[w].pc = "commit"
      /\ thread'[w].slot = thread[w].slot
      /\ thread'[w].baseline = BaselineCounts(thread[w].profile, thread[w].slot)
  BY <1>1, <1>2 DEF TypeOK, ThreadType
<1>4. UNCHANGED assigned
  BY DEF WorkerSolve, sharedVars
<1> SUFFICES ASSUME NEW s \in Slots, Adds(thread[w].plan, s)' > 0
             PROVE  ~ (ActualAfter(w, s)' > ExpectedAfter(w, s)')
  BY DEF StaleAt
<1>5. PICK r \in Requests : thread'[w].plan[r] = s
  <2>1. CASE {r \in Requests : thread'[w].plan[r] = s} = {}
    BY <2>1, FS_EmptySet DEF Adds
  <2> QED
    BY <2>1
<1>6. s # NoSlot
  BY SizeAssumption DEF Slots, NoSlot
<1>7. r \in Range(thread'[w].batch)
  BY <1>3, <1>5, <1>6 DEF PlacementInv, PlanSound
<1>8. s \in PlacementWindow(ArrivalOf[r], DeadlineOf[r], thread[w].slot)
  BY <1>3, <1>5, <1>7 DEF PlacementInv, PlanSound
<1>9. s >= thread[w].slot
  <2>1. ArrivalOf[r] \in Slots /\ DeadlineOf[r] \in Slots /\ thread[w].slot \in Slots
    BY <1>2, RequestAssumption DEF ThreadType
  <2> QED
    BY <1>8, <2>1, WindowBounds, SizeAssumption DEF Slots
<1>10. thread'[w].baseline[s] = Occupancy(s)'
  <2>1. Movable(thread[w].profile, thread[w].slot) = {}
    BY DEF Movable
  <2>2. thread'[w].baseline[s]
          = Cardinality({q \in Requests : assigned[q] = s /\ s >= thread[w].slot})
    BY <1>3, <2>1 DEF BaselineCounts
  <2>3. {q \in Requests : assigned[q] = s /\ s >= thread[w].slot}
          = {q \in Requests : assigned'[q] = s}
    BY <1>4, <1>9
  <2> QED
    BY <2>2, <2>3 DEF Occupancy
<1>11. ActualAfter(w, s)' = ExpectedAfter(w, s)'
  BY <1>10 DEF ActualAfter, ExpectedAfter
<1>12. ActualAfter(w, s)' \in Nat
  <2>1. Occupancy(s)' \in Nat /\ Adds(thread[w].plan, s)' \in Nat
    BY RequestSets DEF Occupancy, Adds
  <2> QED
    BY <2>1 DEF ActualAfter
<1> QED
  BY <1>11, <1>12

\* A rollback uses up a stale worker.
LEMMA PaidRollback ==
  ASSUME TypeOK, PaidInv, NEW w \in Workers, WorkerRollback(w)
  PROVE  PaidInv'
<1>1. /\ thread[w].pc = "commit" /\ thread'[w].pc = "solve"
      /\ thread'[w].rollbacks = thread[w].rollbacks + 1
      /\ \A v \in Workers : v # w => thread'[v] = thread[v]
  BY DEF WorkerRollback, TypeOK, ThreadType
<1>2. /\ UNCHANGED <<assigned, batchesProcessed>>
      /\ totalRollbacks' = totalRollbacks + 1
      /\ maxConsecutive' = Max({maxConsecutive, thread[w].rollbacks + 1})
  BY DEF WorkerRollback, sharedVars, mutableVars
<1>3. thread[w].rollbacks + 1 <= RollbackMax
  BY PaidTypes DEF WorkerRollback, ForceCommit
<1>4. maxConsecutive' <= RollbackMax
  BY <1>2, <1>3, PaidTypes, MaxPair DEF PaidInv
<1>5. \A v \in Workers : thread'[v].rollbacks <= RollbackMax
  BY <1>1, <1>3 DEF PaidInv
<1>6. Marking' = Marking
  BY <1>1 DEF Marking
<1>7. Stale' = Stale \ {w} /\ w \in Stale
  <2>1. StaleAt(w) /\ ~ StaleAt(w)'
    BY <1>1 DEF WorkerRollback, TierBreach, StaleAt
  <2>2. \A v \in Workers : v # w => (StaleAt(v)' <=> StaleAt(v))
    BY <1>1, <1>2, StaleFrame
  <2> QED
    BY <2>1, <2>2 DEF Stale
<1>8. Cardinality(Stale') = Cardinality(Stale) - 1
  BY <1>7, PaidTypes, FS_RemoveElement
<1>9. totalRollbacks' + Cardinality(Stale') = totalRollbacks + Cardinality(Stale)
  BY <1>2, <1>8, PaidTypes
<1> QED
  BY <1>2, <1>4, <1>5, <1>6, <1>9 DEF PaidInv

\* One factor more is one summand more.
LEMMA OneMore ==
  ASSUME NEW a \in Int, NEW b \in Int
  PROVE  a * (b + 1) = a * b + a
OBVIOUS

\* A commit pays for a rollback of every other worker.
LEMMA PaidCommit ==
  ASSUME TypeOK, PaidInv, NEW w \in Workers, WorkerCommit(w)
  PROVE  PaidInv'
<1>1. /\ thread[w].pc = "commit" /\ thread'[w].pc = "mark"
      /\ thread'[w].rollbacks = thread[w].rollbacks
      /\ \A v \in Workers : v # w => thread'[v] = thread[v]
  BY DEF WorkerCommit, TypeOK, ThreadType
<1>2. UNCHANGED <<totalRollbacks, maxConsecutive, batchesProcessed>>
  BY DEF WorkerCommit, rollbackVars, mutableVars
<1>3. \A v \in Workers : thread'[v].rollbacks <= RollbackMax
  BY <1>1 DEF PaidInv
<1>4. Marking' = Marking \cup {w} /\ w \notin Marking
  BY <1>1 DEF Marking
<1>5. Cardinality(Marking') = Cardinality(Marking) + 1
  BY <1>4, PaidTypes, FS_AddElement
<1>6. Cardinality(Stale') \in Nat /\ Cardinality(Stale') <= MaxWorkers - 1
  <2>1. Stale' \subseteq Workers \ {w}
    BY <1>1 DEF Stale, StaleAt
  <2>2. IsFiniteSet(Workers) /\ Cardinality(Workers) = MaxWorkers
    BY SizeAssumption, FS_Interval DEF Workers
  <2>3. IsFiniteSet(Workers \ {w}) /\ Cardinality(Workers \ {w}) = MaxWorkers - 1
    BY <2>2, FS_RemoveElement
  <2> QED
    BY <2>1, <2>3, FS_Subset, FS_CardinalityType
<1>7. ASSUME LockFuture
      PROVE  totalRollbacks' + Cardinality(Stale')
               <= (MaxWorkers - 1) * (batchesProcessed' + Cardinality(Marking'))
  <2> DEFINE k == batchesProcessed + Cardinality(Marking)
             m == MaxWorkers - 1
  <2>1. k \in Int /\ m \in Int /\ m * k \in Int
    BY PaidTypes
  <2>2. totalRollbacks <= m * k
    <3>1. totalRollbacks + Cardinality(Stale) <= m * k
      BY <1>7 DEF PaidInv
    <3> HIDE DEF k, m
    <3> QED
      BY <2>1, <3>1, PaidTypes
  <2>3. batchesProcessed' + Cardinality(Marking') = k + 1
    BY <1>2, <1>5, PaidTypes
  <2>4. Cardinality(Stale') <= m
    BY <1>6
  <2> HIDE DEF k, m
  <2>5. m * (k + 1) = m * k + m
    BY <2>1, OneMore
  <2>6. totalRollbacks' + Cardinality(Stale') <= m * k + m
    BY <1>2, <1>6, <2>1, <2>2, <2>4, PaidTypes
  <2>7. totalRollbacks' + Cardinality(Stale')
          <= m * (batchesProcessed' + Cardinality(Marking'))
    BY <2>3, <2>5, <2>6
  <2> QED
    BY <2>7 DEF m
<1> QED
  BY <1>2, <1>3, <1>7 DEF PaidInv

\* The bookkeeping after a commit counts it.
LEMMA PaidMark ==
  ASSUME TypeOK, PaidInv, NEW w \in Workers, WorkerMark(w)
  PROVE  PaidInv'
<1>1. /\ thread[w].pc = "mark" /\ thread'[w].pc = "release"
      /\ thread'[w].rollbacks = thread[w].rollbacks
      /\ \A v \in Workers : v # w => thread'[v] = thread[v]
  BY DEF WorkerMark, TypeOK, ThreadType
<1>2. /\ UNCHANGED <<assigned, totalRollbacks, maxConsecutive>>
      /\ batchesProcessed' = batchesProcessed + 1
  BY DEF WorkerMark, sharedVars
<1>3. \A v \in Workers : thread'[v].rollbacks <= RollbackMax
  BY <1>1 DEF PaidInv
<1>4. Marking' = Marking \ {w} /\ w \in Marking
  BY <1>1 DEF Marking
<1>5. Cardinality(Marking') = Cardinality(Marking) - 1
  BY <1>4, PaidTypes, FS_RemoveElement
<1>6. batchesProcessed' + Cardinality(Marking') = batchesProcessed + Cardinality(Marking)
  BY <1>2, <1>5, PaidTypes
<1>7. Stale' = Stale
  <2>1. ~ StaleAt(w) /\ ~ StaleAt(w)'
    BY <1>1 DEF StaleAt
  <2>2. \A v \in Workers : v # w => (StaleAt(v)' <=> StaleAt(v))
    BY <1>1, <1>2, StaleFrame
  <2> QED
    BY <2>1, <2>2 DEF Stale
<1> QED
  BY <1>2, <1>3, <1>6, <1>7 DEF PaidInv

\* Every step keeps the account of rollbacks covered.
LEMMA PaidNext ==
  /\ TypeOK /\ TypeOK' /\ PlacementInv' /\ PaidInv /\ [Next]_vars => PaidInv'
<1> SUFFICES ASSUME TypeOK, TypeOK', PlacementInv', PaidInv, [Next]_vars
             PROVE  PaidInv'
  OBVIOUS
<1>1. CASE UNCHANGED <<thread, assigned, totalRollbacks, maxConsecutive,
                       batchesProcessed>>
  <2>1. \A v \in Workers : StaleAt(v)' <=> StaleAt(v)
    BY <1>1, StaleFrame
  <2>2. Stale' = Stale
    BY <2>1 DEF Stale
  <2> QED
    BY <1>1, <2>2 DEF PaidInv, Marking
<1>2. CASE LoopDispatch
  <2>1. PICK v \in Workers, q \in Profiles, n \in Nat :
          /\ thread[v].pc = "idle"
          /\ thread' = [thread EXCEPT ![v] =
               [IdleThread EXCEPT
                  !.pc = "start", !.profile = q, !.slot = loop.slot,
                  !.count = Len(pending[q]),
                  !.batch = SubSeq(pending[q], 1, n)]]
    BY <1>2, DispatchStep
  <2>2. /\ thread'[v].pc = "start" /\ thread'[v].rollbacks = 0
        /\ \A w \in Workers : w # v => thread'[w] = thread[w]
    BY <2>1 DEF TypeOK, IdleThread
  <2>3. UNCHANGED <<assigned, totalRollbacks, maxConsecutive, batchesProcessed>>
    BY <1>2 DEF LoopDispatch, rollbackVars
  <2>4. ~ StaleAt(v)'
    BY <2>2 DEF StaleAt
  <2> QED
    BY <2>1, <2>2, <2>3, <2>4, PaidFrame, PaidTypes
<1>3. ASSUME NEW w \in Workers, WorkerSolve(w) PROVE PaidInv'
  <2>1. /\ thread[w].pc = "solve" /\ thread'[w].pc = "commit"
        /\ thread'[w].rollbacks = thread[w].rollbacks
        /\ \A v \in Workers : v # w => thread'[v] = thread[v]
    BY <1>3 DEF WorkerSolve, TypeOK, ThreadType
  <2>2. UNCHANGED <<assigned, totalRollbacks, maxConsecutive, batchesProcessed>>
    BY <1>3 DEF WorkerSolve, sharedVars, rollbackVars, mutableVars
  <2>3. LockFuture => ~ StaleAt(w)'
    BY <1>3, FreshPlan
  <2>4. thread'[w].rollbacks <= RollbackMax
    BY <2>1 DEF PaidInv
  <2> QED
    BY <2>1, <2>2, <2>3, <2>4, PaidFrame
<1>4. ASSUME NEW w \in Workers,
             WorkerStart(w) \/ WorkerInfeasible(w) \/ WorkerRelease(w)
      PROVE  PaidInv'
  <2>1. UNCHANGED <<assigned, totalRollbacks, maxConsecutive, batchesProcessed>>
    BY <1>4 DEF WorkerStart, WorkerInfeasible, WorkerRelease, sharedVars,
                rollbackVars, mutableVars
  <2>2. /\ thread[w].pc \notin {"commit", "mark"}
        /\ thread'[w].pc \notin {"commit", "mark"}
        /\ thread'[w].rollbacks \in {thread[w].rollbacks, 0}
        /\ \A v \in Workers : v # w => thread'[v] = thread[v]
    <3>1. CASE WorkerStart(w)
      BY <3>1 DEF WorkerStart, TypeOK, ThreadType
    <3>2. CASE WorkerInfeasible(w)
      BY <3>2 DEF WorkerInfeasible, TypeOK, ThreadType
    <3>3. CASE WorkerRelease(w)
      BY <3>3 DEF WorkerRelease, TypeOK, IdleThread
    <3> QED
      BY <1>4, <3>1, <3>2, <3>3
  <2>3. ~ StaleAt(w)'
    BY <2>2 DEF StaleAt
  <2>4. thread'[w].rollbacks <= RollbackMax
    BY <2>2, PaidTypes DEF PaidInv
  <2> QED
    BY <2>1, <2>2, <2>3, <2>4, PaidFrame
<1>5. ASSUME NEW w \in Workers,
             WorkerRollback(w) \/ WorkerCommit(w) \/ WorkerMark(w)
      PROVE  PaidInv'
  BY <1>5, PaidRollback, PaidCommit, PaidMark, SMTT(20)
<1>6. \/ UNCHANGED <<thread, assigned, totalRollbacks, maxConsecutive,
                     batchesProcessed>>
      \/ LoopDispatch
      \/ \E w \in Workers : WorkerStep(w)
  BY DEF Next, vars, LoopStep, AdmitRequest, CloseFence, CloseFlush, CloseAck,
         CloseTimeout, AdvanceClock, AdvanceSlot, ReplaceTiers, Stop, LoopExit,
         LoopReadPending, LoopReadActive, LoopReadClock, LoopSetSlot,
         LoopReadFlush, LoopChoosePass, LoopDispatchDone, LoopReadCounts,
         LoopSetBacklog, LoopEnd, loopOnly, sharedVars, rollbackVars, mutableVars
<1> QED
  BY <1>1, <1>2, <1>3, <1>4, <1>5, <1>6 DEF WorkerStep

\* Every rollback is paid for by another worker's commit, and no batch is rolled
\* back more often in a row than the configured limit.
THEOREM RollbacksPaid == Spec => []RollbacksPaidFor
<1>1. Init => PaidInv
  <2> SUFFICES ASSUME Init PROVE PaidInv
    OBVIOUS
  <2>1. \A w \in Workers : thread[w].pc = "idle" /\ thread[w].rollbacks = 0
    BY DEF Init, IdleThread
  <2>2. Stale = {} /\ Marking = {}
    BY <2>1 DEF Stale, StaleAt, Marking
  <2>3. Cardinality(Stale) = 0 /\ Cardinality(Marking) = 0
    BY <2>2, FS_EmptySet
  <2>4. 0 + 0 <= (MaxWorkers - 1) * (0 + 0)
    BY SizeAssumption
  <2> QED
    BY <2>1, <2>3, <2>4, SizeAssumption DEF Init, PaidInv
<1>2. TypeOK /\ PaidInv => RollbacksPaidFor
  <2> SUFFICES ASSUME TypeOK, PaidInv PROVE RollbacksPaidFor
    OBVIOUS
  <2> DEFINE bound == (MaxWorkers - 1) * (batchesProcessed + Cardinality(Marking))
  <2>1. bound \in Int
    BY PaidTypes
  <2>2. LockFuture => totalRollbacks + Cardinality(Stale) <= bound
    BY DEF PaidInv
  <2> HIDE DEF bound
  <2>3. LockFuture => totalRollbacks <= bound
    BY <2>1, <2>2, PaidTypes
  <2> QED
    BY <2>3 DEF bound, PaidInv, RollbacksPaidFor, Marking
<1> QED
  BY <1>1, <1>2, TypeCorrect, PlansSound, PaidNext, PTL DEF Spec
=============================================================================
