----------------------- MODULE RequestLifecycle_proofs -----------------------
(***************************************************************************)
(* Proofs about RequestLifecycle: its types, the exactly-once claim of a    *)
(* callback, the finality of a reported result and the close barrier.       *)
(***************************************************************************)
EXTENDS RequestLifecycle, TLAPS

\* A status update keeps the types of the tracked requests.
LEMMA SetStatusType ==
  ASSUME TypeOK, NEW r \in Requests, NEW status \in Status
  PROVE  set_status(r, status) \in [Requests -> EntryType]
<1>1. entry \in [Requests -> EntryType] /\ entry[r] \in EntryType
  BY DEF TypeOK
<1>2. [entry[r] EXCEPT !.status = status] \in EntryType
  BY <1>1 DEF EntryType
<1> QED
  BY <1>1, <1>2 DEF set_status

\* A recorded failure keeps the types of the tracked requests.
LEMMA RecordFailureType ==
  ASSUME NEW e \in EntryType
  PROVE  record_failure(e) \in EntryType
<1>1. e.attempts + 1 \in Nat
  BY DEF EntryType
<1>2. \A n \in Nat : /\ [e EXCEPT !.attempts = n, !.status = "failed"] \in EntryType
                     /\ [e EXCEPT !.attempts = n, !.waiting = TRUE] \in EntryType
  BY DEF EntryType, Status
<1>3. /\ [e EXCEPT !.attempts = e.attempts + 1, !.status = "failed"] \in EntryType
      /\ [e EXCEPT !.attempts = e.attempts + 1, !.waiting = TRUE] \in EntryType
  BY <1>1, <1>2
<1> QED
  BY <1>3 DEF record_failure

\* The initial state is well typed.
LEMMA TypeInit == Init => TypeOK
<1> SUFFICES ASSUME Init PROVE TypeOK
  OBVIOUS
<1>1. NoEntry \in EntryType
  BY DEF NoEntry, EntryType, Status
<1>2. 0 \in Slots
  BY LifecycleAssumption DEF Slots
<1> QED
  BY <1>1, <1>2, LifecycleAssumption DEF Init, TypeOK, NoSlots, Terminal

\* Every step keeps the types.
LEMMA TypeNext == TypeOK /\ [Next]_vars => TypeOK'
<1> SUFFICES ASSUME TypeOK, [Next]_vars PROVE TypeOK'
  OBVIOUS
<1> USE DEF dispatcherVars, executorVars, callbackVars, closeVars
<1>1. ASSUME NEW r \in Requests, AdmitRequest(r) PROVE TypeOK'
  <2>1. [NoEntry EXCEPT !.status = "pending"] \in EntryType
    BY DEF NoEntry, EntryType, Status
  <2> QED
    BY <1>1, <2>1 DEF AdmitRequest, TypeOK
<1>2. ASSUME NEW r \in Requests, EngineCommit(r) PROVE TypeOK'
  <2>1. PICK s \in ArrivalOf[r] .. DeadlineOf[r] : slotOf' = [slotOf EXCEPT ![r] = s]
    BY <1>2 DEF EngineCommit
  <2>2. s \in Slots
    BY LifecycleAssumption DEF Slots
  <2> QED
    BY <1>2, <2>1, <2>2 DEF EngineCommit, TypeOK
<1>3. ASSUME NEW r \in Requests, SubmitStep(r) PROVE TypeOK'
  <2>1. CASE SubmitMarks(r)
    <3>1. entry' \in [Requests -> EntryType]
      BY <2>1, SetStatusType DEF SubmitMarks, Status
    <3> QED
      BY <2>1, <3>1 DEF SubmitMarks, TypeOK
  <2>2. CASE SubmitSees(r) \/ SubmitTimeout(r)
    BY <2>2 DEF SubmitSees, SubmitTimeout, TypeOK
  <2> QED
    BY <1>3, <2>1, <2>2 DEF SubmitStep
<1>4. ASSUME NEW r \in Requests, BackoffEnds(r) PROVE TypeOK'
  <2>1. entry[r] \in EntryType
    BY DEF TypeOK
  <2>2. [entry[r] EXCEPT !.waiting = FALSE] \in EntryType
    BY <2>1 DEF EntryType
  <2> QED
    BY <1>4, <2>2 DEF BackoffEnds, TypeOK
<1>5. ASSUME NEW r \in Requests, CallbackLost(r) PROVE TypeOK'
  BY <1>5 DEF CallbackLost, TypeOK
<1>6. ASSUME NEW r \in Requests, CallbackStep(r) PROVE TypeOK'
  <2>1. CASE CallbackClaim(r)
    <3>1. entry[r] \in EntryType
      BY DEF TypeOK
    <3>2. [entry[r] EXCEPT !.claimed = TRUE] \in EntryType
      BY <3>1 DEF EntryType
    <3> QED
      BY <2>1, <3>2 DEF CallbackClaim, TypeOK
  <2>2. CASE CallbackDuplicate(r)
    BY <2>2 DEF CallbackDuplicate, TypeOK
  <2>3. CASE CallbackFinish(r)
    <3>1. handler[r] \in Status /\ forwarded[r] + 1 \in Nat
      BY <2>3 DEF CallbackFinish, TypeOK, Terminal, Status
    <3>2. entry[r] \in EntryType
      BY DEF TypeOK
    <3>3. [entry[r] EXCEPT !.status = handler[r]] \in EntryType
      BY <3>1, <3>2 DEF EntryType
    <3> QED
      BY <2>3, <3>1, <3>3 DEF CallbackFinish, TypeOK
  <2> QED
    BY <1>6, <2>1, <2>2, <2>3 DEF CallbackStep
<1>7. CASE DispatchTick
  <2>1. Due \subseteq Requests
    BY DEF Due, Tracked
  <2> QED
    BY <1>7, <2>1 DEF DispatchTick, TypeOK
<1>8. ASSUME NEW r \in Requests, DispatchSend(r) PROVE TypeOK'
  <2>1. Take(r) \in [Requests -> {"none", "queued", "running", "done"}]
    BY DEF Take, TypeOK
  <2> QED
    BY <1>8, <2>1 DEF DispatchSend, TypeOK
<1>9. ASSUME NEW r \in Requests, DispatchOk(r) PROVE TypeOK'
  <2>1. entry' \in [Requests -> EntryType]
    BY <1>9, SetStatusType DEF DispatchOk, Status
  <2> QED
    BY <1>9, <2>1 DEF DispatchOk, TypeOK
<1>10. ASSUME NEW r \in Requests, DispatchError(r) PROVE TypeOK'
  <2>1. record_failure(entry[r]) \in EntryType
    BY RecordFailureType DEF TypeOK
  <2> QED
    BY <1>10, <2>1 DEF DispatchError, TypeOK
<1>11. ASSUME NEW r \in Requests, ExecutorStart(r) \/ ExecutorFinish(r)
       PROVE  TypeOK'
  <2>1. CASE ExecutorStart(r)
    BY <2>1 DEF ExecutorStart, TypeOK
  <2>2. CASE ExecutorFinish(r)
    BY <2>2 DEF ExecutorFinish, TypeOK
  <2> QED
    BY <1>11, <2>1, <2>2
<1>12. CASE ExecutorRestart
  BY <1>12, LifecycleAssumption DEF ExecutorRestart, TypeOK
<1>13. CASE CloseFence \/ CloseStep
  <2>1. NoSlots \in [Requests -> Slots \cup {NoSlot}]
    BY DEF NoSlots
  <2>2. CASE CloseFence
    BY <2>2 DEF CloseFence, TypeOK
  <2>3. CASE CloseStep
    BY <2>1, <2>3 DEF CloseStep, CloseRead, CloseAck, CloseFail, CloseAgain, TypeOK
  <2> QED
    BY <1>13, <2>2, <2>3
<1>14. CASE AdvanceSlot
  <2>1. currentSlot' \in Slots
    BY <1>14, LifecycleAssumption DEF AdvanceSlot, TypeOK, Slots
  <2> QED
    BY <1>14, <2>1 DEF AdvanceSlot, TypeOK
<1>15. CASE UNCHANGED vars
  BY <1>15 DEF vars, TypeOK
<1> QED
  BY <1>1, <1>2, <1>3, <1>4, <1>5, <1>6, <1>7, <1>8, <1>9, <1>10, <1>11,
     <1>12, <1>13, <1>14, <1>15
  DEF Next, DispatcherStep, ExecutorStep

\* Type correctness of the request lifecycle, for every instance.
THEOREM TypeCorrect == Spec => []TypeOK
BY TypeInit, TypeNext, PTL DEF Spec

-----------------------------------------------------------------------------
(* What a step may do to an entry. *)

\* Apart from its admission and its callback handler, every step keeps the
\* claim of a request and the status of a claimed one, and neither adds the
\* request to the table nor removes it.
LEMMA EntryStep ==
  ASSUME TypeOK, [Next]_vars, NEW r \in Requests,
         ~ AdmitRequest(r), ~ CallbackClaim(r), ~ CallbackFinish(r)
  PROVE  /\ entry'[r].claimed = entry[r].claimed
         /\ entry[r].claimed => entry'[r].status = entry[r].status
         /\ entry'[r].status = "absent" <=> entry[r].status = "absent"
         /\ handler'[r] = handler[r]
         /\ forwarded'[r] = forwarded[r]
<1> USE DEF dispatcherVars, executorVars, callbackVars, closeVars
<1>1. entry \in [Requests -> EntryType] /\ handler \in [Requests -> Terminal \cup {"none"}]
      /\ forwarded \in [Requests -> Nat]
  BY DEF TypeOK
<1>2. CASE UNCHANGED <<entry, handler, forwarded>>
  BY <1>2
<1>3. ASSUME NEW q \in Requests, AdmitRequest(q) PROVE entry'[r] = entry[r]
  BY <1>1, <1>3 DEF AdmitRequest
<1>4. ASSUME NEW q \in Requests, SubmitMarks(q) \/ DispatchOk(q)
      PROVE  /\ entry'[r].claimed = entry[r].claimed
             /\ entry[r].claimed => entry'[r].status = entry[r].status
             /\ entry'[r].status = "absent" <=> entry[r].status = "absent"
  <2>1. PICK s \in {"scheduled", "dispatched"} : entry' = set_status(q, s)
    BY <1>4 DEF SubmitMarks, DispatchOk
  <2> QED
    BY <1>1, <2>1 DEF set_status, EntryType, Tracked
<1>5. ASSUME NEW q \in Requests, DispatchError(q)
      PROVE  /\ entry'[r].claimed = entry[r].claimed
             /\ entry[r].claimed => entry'[r].status = entry[r].status
             /\ entry'[r].status = "absent" <=> entry[r].status = "absent"
  BY <1>1, <1>5 DEF DispatchError, record_failure, EntryType
<1>6. ASSUME NEW q \in Requests, BackoffEnds(q)
      PROVE  /\ entry'[r].claimed = entry[r].claimed
             /\ entry'[r].status = entry[r].status
  BY <1>1, <1>6 DEF BackoffEnds, EntryType
<1>7. ASSUME NEW q \in Requests, CallbackClaim(q) \/ CallbackFinish(q)
      PROVE  /\ entry'[r] = entry[r] /\ handler'[r] = handler[r]
             /\ forwarded'[r] = forwarded[r]
  BY <1>1, <1>7 DEF CallbackClaim, CallbackFinish
<1>8. \/ UNCHANGED <<entry, handler, forwarded>>
      \/ \E q \in Requests :
           /\ \/ AdmitRequest(q) \/ SubmitMarks(q) \/ DispatchOk(q)
              \/ DispatchError(q) \/ BackoffEnds(q)
           /\ UNCHANGED <<handler, forwarded>>
      \/ \E q \in Requests : CallbackClaim(q) \/ CallbackFinish(q)
  BY DEF Next, vars, AdmitRequest, EngineCommit, SubmitStep, SubmitSees,
         SubmitMarks, SubmitTimeout, BackoffEnds, CallbackLost, CallbackStep,
         CallbackDuplicate, DispatcherStep, DispatchTick, DispatchSend,
         DispatchOk, DispatchError, ExecutorStep, ExecutorStart,
         ExecutorFinish, ExecutorRestart, CloseFence, CloseStep, CloseRead,
         CloseAck, CloseFail, CloseAgain, AdvanceSlot
<1> QED
  BY <1>2, <1>3, <1>4, <1>5, <1>6, <1>7, <1>8

-----------------------------------------------------------------------------
(* The caller is notified at most once. *)

\* What the claim pays for: one handler in progress or one notification.
ClaimPays(r) ==
  /\ handler[r] # "none" => entry[r].claimed /\ forwarded[r] = 0
  /\ ~ entry[r].claimed => forwarded[r] = 0
  /\ forwarded[r] <= 1
  /\ entry[r].claimed => entry[r].status # "absent"

ClaimInv == \A r \in Requests : ClaimPays(r)

\* Every step keeps what the claim of an entry promises.
LEMMA ClaimNext == TypeOK /\ ClaimInv /\ [Next]_vars => ClaimInv'
<1> SUFFICES ASSUME TypeOK, ClaimInv, [Next]_vars, NEW r \in Requests
             PROVE  ClaimPays(r)'
  BY DEF ClaimInv
<1> USE DEF executorVars, callbackVars
<1>1. /\ ClaimPays(r) /\ entry[r] \in EntryType
      /\ handler[r] \in Terminal \cup {"none"} /\ forwarded[r] \in Nat
  BY DEF ClaimInv, TypeOK
<1>2. CASE AdmitRequest(r)
  <2>1. /\ entry[r].status = "absent"
        /\ ~ entry'[r].claimed
        /\ handler'[r] = handler[r] /\ forwarded'[r] = forwarded[r]
    BY <1>2 DEF AdmitRequest, TypeOK, NoEntry
  <2> QED
    BY <1>1, <2>1 DEF ClaimPays
<1>3. CASE CallbackClaim(r)
  <2>1. /\ ~ entry[r].claimed /\ entry[r].status # "absent"
        /\ entry'[r].claimed /\ entry'[r].status = entry[r].status
        /\ forwarded'[r] = forwarded[r]
    BY <1>3 DEF CallbackClaim, Tracked, TypeOK, EntryType
  <2> QED
    BY <1>1, <2>1 DEF ClaimPays
<1>4. CASE CallbackFinish(r)
  <2>1. /\ handler[r] # "none" /\ handler'[r] = "none"
        /\ entry'[r].claimed = entry[r].claimed
        /\ entry'[r].status = handler[r]
        /\ forwarded'[r] = forwarded[r] + 1
    BY <1>4 DEF CallbackFinish, TypeOK, EntryType
  <2> QED
    BY <1>1, <2>1 DEF ClaimPays, Terminal
<1>5. CASE ~ AdmitRequest(r) /\ ~ CallbackClaim(r) /\ ~ CallbackFinish(r)
  <2>1. /\ entry'[r].claimed = entry[r].claimed
        /\ entry[r].claimed => entry'[r].status = entry[r].status
        /\ handler'[r] = handler[r] /\ forwarded'[r] = forwarded[r]
    BY <1>5, EntryStep
  <2> QED
    BY <1>1, <2>1 DEF ClaimPays
<1> QED
  BY <1>2, <1>3, <1>4, <1>5

\* The caller hears of a request at most once, through any number of retries,
\* duplicated callbacks and executor restarts: executor_callback claims the
\* request before it does anything else.
THEOREM NotifiedOnce == Spec => []ForwardedOnce
<1>1. Init => ClaimInv
  BY DEF Init, ClaimInv, ClaimPays, NoEntry
<1>2. ClaimInv => ForwardedOnce
  BY DEF ClaimInv, ClaimPays, ForwardedOnce
<1> QED
  BY <1>1, <1>2, TypeCorrect, ClaimNext, PTL DEF Spec

-----------------------------------------------------------------------------
(* A reported result is final. *)

\* No late answer, retry, give-up or submit poll replaces a result the executor
\* reported.
THEOREM ResultIsFinal == Spec => CallbackIsFinal
<1>1. TypeOK /\ ClaimInv /\ [Next]_vars =>
        [\A r \in Requests :
           entry[r].claimed /\ entry[r].status \in Terminal /\ handler[r] = "none" =>
             entry'[r].status = entry[r].status]_vars
  <2> SUFFICES ASSUME TypeOK, ClaimInv, [Next]_vars, NEW r \in Requests,
                      entry[r].claimed, entry[r].status \in Terminal,
                      handler[r] = "none"
               PROVE  entry'[r].status = entry[r].status
    OBVIOUS
  <2>1. ~ AdmitRequest(r)
    BY DEF AdmitRequest, Terminal
  <2>2. ~ CallbackClaim(r) /\ ~ CallbackFinish(r)
    BY DEF CallbackClaim, CallbackFinish
  <2> QED
    BY <2>1, <2>2, EntryStep
<1>2. Init => ClaimInv
  BY DEF Init, ClaimInv, ClaimPays, NoEntry
<1> QED
  BY <1>1, <1>2, TypeCorrect, ClaimNext, PTL DEF Spec, CallbackIsFinal

-----------------------------------------------------------------------------
(* The close barrier. *)

\* Assignments are of tracked requests and not before their arrival; the fence
\* covers what was acknowledged; the copy the poll decides on is still true of
\* the requests it shows as assigned.
BarrierFacts ==
  /\ \A r \in Requests : slotOf[r] # NoSlot =>
       entry[r].status # "absent" /\ ArrivalOf[r] <= slotOf[r]
  /\ acked <= closedThrough /\ closedThrough <= currentSlot
  /\ acked # NoSlot => ManualClock
  /\ closing.pc # "idle" => ManualClock
  /\ closing.pc = "decide" =>
       \A r \in Requests : closing.seen[r] # NoSlot => closing.seen[r] = slotOf[r]

BarrierInv == BarrierFacts /\ AckedWorkFinished

\* The part of AckedWorkFinished that concerns one request.
Finished(r) ==
  /\ entry[r].status # "absent" /\ ArrivalOf[r] <= acked => slotOf[r] # NoSlot
  /\ slotOf[r] # NoSlot /\ slotOf[r] <= acked =>
       entry[r].claimed /\ entry[r].status \in Terminal

\* What finished work means, request by request.
LEMMA FinishedEach ==
  AckedWorkFinished <=> (acked # NoSlot => \A r \in Requests : Finished(r))
BY DEF AckedWorkFinished, Finished, Tracked, DueBy

\* The same in the next state.
LEMMA FinishedEachPrimed ==
  AckedWorkFinished' <=> (acked' # NoSlot => \A r \in Requests : Finished(r)')
BY DEF AckedWorkFinished, Finished, Tracked, DueBy

\* The slots, in order.
LEMMA IntFacts ==
  ASSUME TypeOK
  PROVE  /\ acked \in Int /\ closedThrough \in Int /\ currentSlot \in Int
         /\ \A r \in Requests : slotOf[r] \in Int /\ ArrivalOf[r] \in Int
         /\ \A r \in Requests : ArrivalOf[r] # NoSlot
BY LifecycleAssumption DEF TypeOK, Slots, NoSlot

\* A step that leaves the assignments and the close call alone, in which
\* tracked requests stay tracked, finished ones stay finished, and only a
\* request past the fence may join.
LEMMA BarrierFrame ==
  ASSUME TypeOK, BarrierInv,
         UNCHANGED <<slotOf, currentSlot, closedThrough, closing, acked>>,
         NEW q,
         \A r \in Requests : r # q =>
           /\ entry'[r].status = "absent" <=> entry[r].status = "absent"
           /\ entry[r].claimed /\ entry[r].status \in Terminal =>
                entry'[r].claimed /\ entry'[r].status \in Terminal,
         q \in Requests =>
           \/ /\ entry[q].status = "absent"
              /\ ManualClock => ArrivalOf[q] > closedThrough
           \/ /\ entry[q].status # "absent" /\ entry'[q].status # "absent"
              /\ entry[q].claimed /\ entry[q].status \in Terminal =>
                   entry'[q].claimed /\ entry'[q].status \in Terminal
  PROVE  BarrierInv'
<1>1. BarrierFacts'
  <2>1. \A r \in Requests : slotOf'[r] # NoSlot =>
          entry'[r].status # "absent" /\ ArrivalOf[r] <= slotOf'[r]
    BY DEF BarrierInv, BarrierFacts
  <2> QED
    BY <2>1 DEF BarrierInv, BarrierFacts
<1>2. ASSUME acked' # NoSlot, NEW r \in Requests PROVE Finished(r)'
  <2>1. acked # NoSlot /\ ManualClock /\ acked <= closedThrough
    BY <1>2 DEF BarrierInv, BarrierFacts
  <2>2. Finished(r)
    BY <2>1, FinishedEach DEF BarrierInv
  <2>3. slotOf[r] # NoSlot => entry[r].status # "absent"
    BY DEF BarrierInv, BarrierFacts
  <2>4. CASE r # q \/ entry[r].status # "absent"
    BY <2>2, <2>3, <2>4 DEF Finished
  <2>5. CASE r = q /\ entry[r].status = "absent"
    <3>1. ArrivalOf[r] > acked
      BY <2>1, <2>5, IntFacts
    <3>2. slotOf'[r] = NoSlot /\ acked' = acked
      BY <2>3, <2>5
    <3> QED
      BY <3>1, <3>2, IntFacts DEF Finished
  <2> QED
    BY <2>4, <2>5
<1>3. AckedWorkFinished'
  BY <1>2, FinishedEachPrimed
<1> QED
  BY <1>1, <1>3 DEF BarrierInv

\* A commit assigns nothing to a slot that has been acknowledged.
LEMMA BarrierCommit ==
  ASSUME TypeOK, BarrierInv, NEW r \in Requests, EngineCommit(r)
  PROVE  BarrierInv'
<1>1. PICK s \in ArrivalOf[r] .. DeadlineOf[r] : slotOf' = [slotOf EXCEPT ![r] = s]
  BY DEF EngineCommit
<1>2. /\ UNCHANGED <<entry, currentSlot, closedThrough, closing, acked>>
      /\ entry[r].status # "absent" /\ slotOf[r] = NoSlot
  BY DEF EngineCommit, closeVars, Tracked
<1>3. /\ slotOf'[r] = s /\ ArrivalOf[r] <= s /\ s \in Int
      /\ \A q \in Requests : q # r => slotOf'[q] = slotOf[q]
  BY <1>1, IntFacts, LifecycleAssumption DEF TypeOK, Slots
<1>4. BarrierFacts'
  <2>1. \A q \in Requests : slotOf'[q] # NoSlot =>
          entry'[q].status # "absent" /\ ArrivalOf[q] <= slotOf'[q]
    BY <1>2, <1>3 DEF BarrierInv, BarrierFacts
  <2>2. closing.pc = "decide" =>
          \A q \in Requests :
            closing.seen[q] # NoSlot => closing.seen[q] = slotOf'[q]
    BY <1>2, <1>3 DEF BarrierInv, BarrierFacts
  <2> QED
    BY <1>2, <2>1, <2>2 DEF BarrierInv, BarrierFacts
<1>5. ASSUME acked' # NoSlot, NEW q \in Requests PROVE Finished(q)'
  <2>1. Finished(q)
    BY <1>2, <1>5, FinishedEach DEF BarrierInv
  <2>2. CASE q # r
    BY <1>2, <1>3, <2>1, <2>2 DEF Finished
  <2>3. CASE q = r
    <3>1. ~ (ArrivalOf[r] <= acked)
      BY <1>2, <2>1, <2>3 DEF Finished
    <3>2. ~ (s <= acked)
      BY <1>3, <3>1, IntFacts
    <3>3. slotOf'[q] = s /\ acked' = acked /\ ~ (ArrivalOf[q] <= acked)
      BY <1>2, <1>3, <2>3, <3>1
    <3> QED
      BY <3>2, <3>3 DEF Finished
  <2> QED
    BY <2>2, <2>3
<1>6. AckedWorkFinished'
  BY <1>5, FinishedEachPrimed
<1> QED
  BY <1>4, <1>6 DEF BarrierInv

\* An acknowledgement is given when the work of the slot is finished.
LEMMA BarrierAck ==
  ASSUME TypeOK, BarrierInv, CloseAck
  PROVE  BarrierInv'
<1>1. /\ closing.pc = "decide" /\ BarrierMet
      /\ acked' = closedThrough /\ closing'.pc = "idle"
      /\ UNCHANGED <<slotOf, currentSlot, entry, closedThrough>>
  BY DEF CloseAck
<1>2. BarrierFacts'
  BY <1>1, IntFacts DEF BarrierInv, BarrierFacts
<1>3. ASSUME NEW r \in Requests PROVE Finished(r)'
  <2>1. entry[r].status # "absent" /\ ArrivalOf[r] <= closedThrough =>
          closing.seen[r] # NoSlot
    BY <1>1 DEF BarrierMet, Tracked
  <2>2. closing.seen[r] # NoSlot => closing.seen[r] = slotOf[r]
    BY <1>1 DEF BarrierInv, BarrierFacts
  <2>3. ASSUME slotOf[r] # NoSlot, slotOf[r] <= closedThrough
        PROVE  entry[r].claimed /\ entry[r].status \in Terminal
    <3>1. entry[r].status # "absent" /\ ArrivalOf[r] <= slotOf[r]
      BY <2>3 DEF BarrierInv, BarrierFacts
    <3>2. ArrivalOf[r] <= closedThrough
      BY <2>3, <3>1, IntFacts
    <3>3. r \in DueBy(closedThrough, closing.seen)
      BY <2>1, <2>2, <2>3, <3>1, <3>2 DEF DueBy
    <3> QED
      BY <1>1, <3>3 DEF BarrierMet
  <2> QED
    BY <1>1, <2>1, <2>2, <2>3 DEF Finished
<1>4. AckedWorkFinished'
  BY <1>3, FinishedEachPrimed
<1> QED
  BY <1>2, <1>4 DEF BarrierInv

\* The other steps of the close call and of the clock.
LEMMA BarrierClock ==
  ASSUME TypeOK, BarrierInv,
         CloseFence \/ CloseRead \/ CloseFail \/ CloseAgain \/ AdvanceSlot
  PROVE  BarrierInv'
<1>1. UNCHANGED <<slotOf, entry, acked>>
  BY DEF CloseFence, CloseRead, CloseFail, CloseAgain, AdvanceSlot, closeVars
<1>2. AckedWorkFinished'
  BY <1>1 DEF BarrierInv, AckedWorkFinished, Tracked, DueBy
<1>3. closing \in [pc : {"idle", "read", "decide"},
                   seen : [Requests -> Slots \cup {NoSlot}]]
  BY DEF TypeOK
<1>4. /\ acked' <= closedThrough' /\ closedThrough' <= currentSlot'
      /\ closing'.pc # "idle" => ManualClock
      /\ closing'.pc = "decide" =>
           \A r \in Requests :
             closing'.seen[r] # NoSlot => closing'.seen[r] = slotOf'[r]
  <2>1. CASE CloseFence
    BY <1>3, <2>1, IntFacts DEF CloseFence, BarrierInv, BarrierFacts
  <2>2. CASE CloseRead
    BY <1>1, <2>2 DEF CloseRead, BarrierInv, BarrierFacts
  <2>3. CASE CloseFail \/ CloseAgain
    BY <2>3 DEF CloseFail, CloseAgain, BarrierInv, BarrierFacts
  <2>4. CASE AdvanceSlot
    BY <1>1, <2>4, IntFacts DEF AdvanceSlot, closeVars, BarrierInv, BarrierFacts
  <2> QED
    BY <2>1, <2>2, <2>3, <2>4
<1>5. BarrierFacts'
  BY <1>1, <1>4 DEF BarrierInv, BarrierFacts
<1> QED
  BY <1>2, <1>5 DEF BarrierInv

\* Every step keeps the work of an acknowledged slot finished.
LEMMA BarrierNext == TypeOK /\ ClaimInv /\ BarrierInv /\ [Next]_vars => BarrierInv'
<1> SUFFICES ASSUME TypeOK, ClaimInv, BarrierInv, [Next]_vars PROVE BarrierInv'
  OBVIOUS
<1> USE DEF dispatcherVars, executorVars, callbackVars, closeVars
<1>1. ASSUME NEW r \in Requests, EngineCommit(r) PROVE BarrierInv'
  BY <1>1, BarrierCommit
<1>2. CASE CloseAck
  BY <1>2, BarrierAck
<1>3. CASE CloseFence \/ CloseRead \/ CloseFail \/ CloseAgain \/ AdvanceSlot
  BY <1>3, BarrierClock
<1>4. CASE UNCHANGED <<slotOf, currentSlot, closedThrough, closing, acked>>
  <2>1. ASSUME NEW q \in Requests,
               AdmitRequest(q) \/ CallbackClaim(q) \/ CallbackFinish(q)
        PROVE  BarrierInv'
    <3>1. \A r \in Requests : r # q => entry'[r] = entry[r]
      BY <2>1 DEF AdmitRequest, CallbackClaim, CallbackFinish, TypeOK
    <3>2. CASE AdmitRequest(q)
      <4>1. entry[q].status = "absent" /\ (ManualClock => ArrivalOf[q] > closedThrough)
        BY <3>2 DEF AdmitRequest
      <4> QED
        BY <1>4, <3>1, <4>1, BarrierFrame
    <3>3. CASE CallbackClaim(q)
      <4>1. /\ entry[q].status # "absent" /\ entry'[q].claimed
            /\ entry'[q].status = entry[q].status
        BY <3>3 DEF CallbackClaim, Tracked, TypeOK, EntryType
      <4> QED
        BY <1>4, <3>1, <4>1, BarrierFrame
    <3>4. CASE CallbackFinish(q)
      <4>1. /\ entry[q].claimed /\ entry[q].status # "absent"
        BY <3>4 DEF CallbackFinish, ClaimInv, ClaimPays
      <4>2. /\ entry'[q].status \in Terminal
            /\ entry'[q].claimed = entry[q].claimed
        BY <3>4 DEF CallbackFinish, TypeOK, EntryType
      <4>3. entry'[q].status # "absent"
        BY <4>2 DEF Terminal
      <4> QED
        BY <1>4, <3>1, <4>1, <4>2, <4>3, BarrierFrame
    <3> QED
      BY <2>1, <3>2, <3>3, <3>4
  <2>2. CASE \A q \in Requests :
               ~ AdmitRequest(q) /\ ~ CallbackClaim(q) /\ ~ CallbackFinish(q)
    <3>1. PICK q : q \notin Requests
      BY NoSetContainsEverything
    <3>2. \A r \in Requests :
            /\ entry'[r].claimed = entry[r].claimed
            /\ entry[r].claimed => entry'[r].status = entry[r].status
            /\ entry'[r].status = "absent" <=> entry[r].status = "absent"
      BY <2>2, EntryStep
    <3> QED
      BY <1>4, <3>1, <3>2, BarrierFrame
  <2> QED
    BY <2>1, <2>2
<1>5. \/ UNCHANGED <<slotOf, currentSlot, closedThrough, closing, acked>>
      \/ \E r \in Requests : EngineCommit(r)
      \/ CloseAck \/ CloseFence \/ CloseRead \/ CloseFail \/ CloseAgain
      \/ AdvanceSlot
  BY DEF Next, vars, AdmitRequest, SubmitStep, SubmitSees, SubmitMarks,
         SubmitTimeout, BackoffEnds, CallbackLost, CallbackStep, CallbackClaim,
         CallbackDuplicate, CallbackFinish, DispatcherStep, DispatchTick,
         DispatchSend, DispatchOk, DispatchError, ExecutorStep, ExecutorStart,
         ExecutorFinish, ExecutorRestart, CloseStep
<1> QED
  BY <1>1, <1>2, <1>3, <1>4, <1>5

\* An acknowledged slot is finished and stays finished: every request that
\* arrived by it is assigned and every assignment due in it has its terminal
\* callback, although the poll decides on a copy of the assignments.
THEOREM ClosedSlotFinished == Spec => []AckedWorkFinished
<1>1. Init => ClaimInv
  BY DEF Init, ClaimInv, ClaimPays, NoEntry
<1>2. Init => BarrierInv
  BY DEF Init, BarrierInv, BarrierFacts, AckedWorkFinished, NoSlots, NoSlot
<1>3. BarrierInv => AckedWorkFinished
  BY DEF BarrierInv
<1> QED
  BY <1>1, <1>2, <1>3, TypeCorrect, ClaimNext, BarrierNext, PTL DEF Spec

-----------------------------------------------------------------------------
(* A job runs at most once in each life of the executor. *)

\* What has not been started has not run, and nothing returns to that state.
RunsOf(r) ==
  /\ executions[r] <= 1
  /\ job[r] \in {"none", "queued"} => executions[r] = 0

RunsInv == \A r \in Requests : RunsOf(r)

\* Every step keeps the runs of a job within one per life of the executor.
LEMMA RunsNext == TypeOK /\ RunsInv /\ [Next]_vars => RunsInv'
<1> SUFFICES ASSUME TypeOK, RunsInv, [Next]_vars, NEW r \in Requests
             PROVE  RunsOf(r)'
  BY DEF RunsInv
<1>1. /\ RunsOf(r)
      /\ job \in [Requests -> {"none", "queued", "running", "done"}]
      /\ executions \in [Requests -> Nat]
  BY DEF RunsInv, TypeOK
<1>2. CASE UNCHANGED <<job, executions>>
  BY <1>1, <1>2 DEF RunsOf
<1>3. ASSUME NEW q \in Requests, DispatchSend(q) PROVE RunsOf(r)'
  <2>1. executions' = executions /\ (job' = job \/ job' = Take(q))
    BY <1>3 DEF DispatchSend
  <2>2. CASE job' = job
    BY <1>1, <2>1, <2>2 DEF RunsOf
  <2>3. CASE job' = Take(q)
    BY <1>1, <2>1, <2>3 DEF RunsOf, Take
  <2> QED
    BY <2>1, <2>2, <2>3
<1>4. ASSUME NEW q \in Requests, ExecutorStart(q) PROVE RunsOf(r)'
  BY <1>1, <1>4 DEF ExecutorStart, RunsOf
<1>5. ASSUME NEW q \in Requests, ExecutorFinish(q) PROVE RunsOf(r)'
  BY <1>1, <1>5 DEF ExecutorFinish, RunsOf
<1>6. CASE ExecutorRestart
  BY <1>6 DEF ExecutorRestart, RunsOf
<1>7. \/ UNCHANGED <<job, executions>>
      \/ \E q \in Requests : DispatchSend(q) \/ ExecutorStart(q) \/ ExecutorFinish(q)
      \/ ExecutorRestart
  BY DEF Next, vars, executorVars, AdmitRequest, EngineCommit, SubmitStep,
         SubmitSees, SubmitMarks, SubmitTimeout, BackoffEnds, CallbackLost,
         CallbackStep, CallbackClaim, CallbackDuplicate, CallbackFinish,
         DispatcherStep, DispatchTick, DispatchOk, DispatchError, ExecutorStep,
         CloseFence, CloseStep, CloseRead, CloseAck, CloseFail, CloseAgain,
         AdvanceSlot
<1> QED
  BY <1>2, <1>3, <1>4, <1>5, <1>6, <1>7

\* However often a dispatch is repeated after a lost answer, the executor runs
\* the request once in each of its lives: the request id is an idempotency key.
THEOREM RunOnce == Spec => []ExecutedOnce
<1>1. Init => RunsInv
  BY DEF Init, RunsInv, RunsOf
<1>2. RunsInv => ExecutedOnce
  BY DEF RunsInv, RunsOf, ExecutedOnce
<1> QED
  BY <1>1, <1>2, TypeCorrect, RunsNext, PTL DEF Spec

-----------------------------------------------------------------------------
(* Failed dispatches are bounded. *)

\* The dispatcher may have failed as often as it is allowed to.
Spent(r) == entry[r].attempts >= MaxRetries /\ ~ entry[r].claimed

\* A request whose attempts are spent is given up and out of the dispatcher's
\* hands, until the submit poll marks it scheduled; after that one attempt is
\* left, and the poll has no mark left to make.
RetryOf(r) ==
  /\ answer[r] # "none" => r \notin due
  /\ entry[r].attempts <= MaxRetries + 1
  /\ Spent(r) /\ (submit[r] # "done" \/ entry[r].attempts > MaxRetries) =>
       entry[r].status = "failed" /\ r \notin due /\ answer[r] = "none"
  /\ Spent(r) /\ entry[r].attempts > MaxRetries => submit[r] = "done"

RetryInv == \A r \in Requests : RetryOf(r)

\* Attempts and retries are natural numbers.
LEMMA RetryTypes ==
  ASSUME TypeOK, NEW r \in Requests
  PROVE  /\ entry \in [Requests -> EntryType] /\ entry[r] \in EntryType
         /\ entry[r].attempts \in Nat /\ entry[r].claimed \in BOOLEAN
         /\ MaxRetries \in Nat \ {0}
         /\ submit \in [Requests -> {"none", "poll", "seen", "done"}]
         /\ answer \in [Requests -> {"none", "ok", "error"}]
         /\ due \subseteq Requests
BY LifecycleAssumption DEF TypeOK, EntryType

\* The steps of the submit poll.
LEMMA RetrySubmit ==
  ASSUME TypeOK, RetryInv, NEW r \in Requests, NEW q \in Requests,
         AdmitRequest(q) \/ SubmitStep(q)
  PROVE  RetryOf(r)'
<1>1. UNCHANGED <<due, answer>>
  BY DEF AdmitRequest, SubmitStep, SubmitSees, SubmitMarks, SubmitTimeout,
         dispatcherVars
<1>2. RetryOf(r)
  BY DEF RetryInv
<1>3. CASE AdmitRequest(q) /\ q = r
  <2>1. entry'[r].attempts = 0
    BY <1>3, RetryTypes DEF AdmitRequest, NoEntry
  <2> QED
    BY <1>1, <1>2, <2>1, RetryTypes DEF RetryOf, Spent
<1>4. CASE AdmitRequest(q) /\ q # r
  <2>1. entry'[r] = entry[r] /\ submit'[r] = submit[r]
    BY <1>4, RetryTypes DEF AdmitRequest
  <2> QED
    BY <1>1, <1>2, <2>1 DEF RetryOf, Spent
<1>5. CASE SubmitSees(q) \/ SubmitTimeout(q)
  <2>1. entry' = entry
    BY <1>5 DEF SubmitSees, SubmitTimeout
  <2>2. submit'[r] = submit[r] \/ (submit[r] = "poll" /\ submit'[r] \in {"seen", "done"})
    BY <1>5, RetryTypes DEF SubmitSees, SubmitTimeout
  <2> QED
    BY <1>1, <1>2, <2>1, <2>2, RetryTypes DEF RetryOf, Spent
<1>6. CASE SubmitMarks(q) /\ q # r
  <2>1. entry'[r] = entry[r] /\ submit'[r] = submit[r]
    BY <1>6, RetryTypes DEF SubmitMarks, set_status
  <2> QED
    BY <1>1, <1>2, <2>1 DEF RetryOf, Spent
<1>7. CASE SubmitMarks(q) /\ q = r
  <2>1. submit[r] = "seen" /\ submit'[r] = "done"
    BY <1>7, RetryTypes DEF SubmitMarks
  <2>2. /\ entry'[r].attempts = entry[r].attempts
        /\ entry'[r].claimed = entry[r].claimed
    BY <1>7, RetryTypes DEF SubmitMarks, set_status, EntryType
  <2> QED
    BY <1>1, <1>2, <2>1, <2>2, RetryTypes DEF RetryOf, Spent
<1> QED
  BY <1>3, <1>4, <1>5, <1>6, <1>7 DEF SubmitStep

\* The steps of the dispatcher.
LEMMA RetryDispatch ==
  ASSUME TypeOK, RetryInv, NEW r \in Requests, DispatcherStep
  PROVE  RetryOf(r)'
<1>1. RetryOf(r)
  BY DEF RetryInv
<1>2. UNCHANGED submit
  BY DEF DispatcherStep, DispatchTick, DispatchSend, DispatchOk, DispatchError
<1>3. CASE DispatchTick
  <2>1. answer[r] = "none" /\ UNCHANGED <<entry, answer>>
    BY <1>3 DEF DispatchTick, Awaited
  <2>2. r \in due' => entry[r].status # "failed"
    BY <1>3 DEF DispatchTick, Due
  <2> QED
    BY <1>1, <1>2, <2>1, <2>2 DEF RetryOf, Spent
<1>4. ASSUME NEW q \in Requests, DispatchSend(q) PROVE RetryOf(r)'
  <2>1. entry' = entry /\ due' = due \ {q} /\ q \in due
    BY <1>4 DEF DispatchSend
  <2>2. q # r => answer'[r] = answer[r]
    BY <1>4, RetryTypes DEF DispatchSend
  <2> QED
    BY <1>1, <1>2, <2>1, <2>2 DEF RetryOf, Spent
<1>5. ASSUME NEW q \in Requests, DispatchOk(q) PROVE RetryOf(r)'
  <2>1. due' = due /\ answer[q] = "ok" /\ answer' = [answer EXCEPT ![q] = "none"]
    BY <1>5 DEF DispatchOk
  <2>2. q # r => entry'[r] = entry[r] /\ answer'[r] = answer[r]
    BY <1>5, <2>1, RetryTypes DEF DispatchOk, set_status
  <2>3. /\ entry'[r].attempts = entry[r].attempts
        /\ entry'[r].claimed = entry[r].claimed
    BY <1>5, RetryTypes DEF DispatchOk, set_status, EntryType
  <2>4. q = r => answer'[r] = "none" /\ answer[r] = "ok"
    BY <2>1, RetryTypes
  <2> QED
    BY <1>1, <1>2, <2>1, <2>2, <2>3, <2>4 DEF RetryOf, Spent
<1>6. ASSUME NEW q \in Requests, DispatchError(q) PROVE RetryOf(r)'
  <2>1. /\ due' = due /\ answer[q] = "error"
        /\ answer' = [answer EXCEPT ![q] = "none"]
        /\ entry' = [entry EXCEPT ![q] = record_failure(entry[q])]
    BY <1>6 DEF DispatchError
  <2>2. CASE q # r
    <3>1. entry'[r] = entry[r] /\ answer'[r] = answer[r]
      BY <2>1, <2>2, RetryTypes
    <3> QED
      BY <1>1, <1>2, <2>1, <3>1 DEF RetryOf, Spent
  <2>3. CASE q = r
    <3>1. /\ answer[r] = "error" /\ answer'[r] = "none" /\ r \notin due
          /\ entry'[r] = record_failure(entry[r])
      BY <1>1, <2>1, <2>3, RetryTypes DEF RetryOf
    <3>2. CASE entry'[r] = entry[r]
      BY <1>1, <1>2, <2>1, <3>1, <3>2 DEF RetryOf, Spent
    <3>3. CASE entry'[r] # entry[r]
      <4>1. ~ entry[r].claimed
        BY <3>1, <3>3 DEF record_failure
      <4>2. /\ entry'[r].attempts = entry[r].attempts + 1
            /\ entry'[r].attempts >= MaxRetries => entry'[r].status = "failed"
        BY <3>1, <3>3, RetryTypes DEF record_failure, EntryType
      <4>3. entry[r].attempts >= MaxRetries =>
              submit[r] = "done" /\ entry[r].attempts = MaxRetries
        BY <1>1, <3>1, <4>1, RetryTypes DEF RetryOf, Spent
      <4> QED
        BY <1>2, <2>1, <3>1, <4>2, <4>3, RetryTypes DEF RetryOf, Spent
    <3> QED
      BY <3>2, <3>3
  <2> QED
    BY <2>2, <2>3
<1> QED
  BY <1>3, <1>4, <1>5, <1>6 DEF DispatcherStep

\* The end of a backoff and the callback handler leave the attempts alone.
LEMMA RetryCallback ==
  ASSUME TypeOK, ClaimInv, RetryInv, NEW r \in Requests, NEW q \in Requests,
         BackoffEnds(q) \/ CallbackStep(q)
  PROVE  RetryOf(r)'
<1>1. UNCHANGED <<due, answer, submit>>
  BY DEF BackoffEnds, CallbackStep, CallbackClaim, CallbackDuplicate,
         CallbackFinish, dispatcherVars
<1>2. RetryOf(r)
  BY DEF RetryInv
<1>3. /\ entry'[r].attempts = entry[r].attempts
      /\ entry[r].claimed => entry'[r].claimed
      /\ ~ entry'[r].claimed => entry'[r].status = entry[r].status
  <2>1. CASE BackoffEnds(q)
    BY <2>1, RetryTypes DEF BackoffEnds, EntryType
  <2>2. CASE CallbackClaim(q)
    BY <2>2, RetryTypes DEF CallbackClaim, EntryType
  <2>3. CASE CallbackDuplicate(q)
    BY <2>3 DEF CallbackDuplicate
  <2>4. CASE CallbackFinish(q)
    <3>1. entry[q].claimed
      BY <2>4 DEF CallbackFinish, ClaimInv, ClaimPays
    <3> QED
      BY <2>4, <3>1, RetryTypes DEF CallbackFinish, EntryType
  <2> QED
    BY <2>1, <2>2, <2>3, <2>4 DEF CallbackStep
<1> QED
  BY <1>1, <1>2, <1>3 DEF RetryOf, Spent

\* Every step keeps the attempts within the retries.
LEMMA RetryNext == TypeOK /\ ClaimInv /\ RetryInv /\ [Next]_vars => RetryInv'
<1> SUFFICES ASSUME TypeOK, ClaimInv, RetryInv, [Next]_vars, NEW r \in Requests
             PROVE  RetryOf(r)'
  BY DEF RetryInv
<1>1. CASE UNCHANGED <<entry, submit, due, answer>>
  BY <1>1 DEF RetryInv, RetryOf, Spent
<1>2. ASSUME NEW q \in Requests, AdmitRequest(q) \/ SubmitStep(q) PROVE RetryOf(r)'
  BY <1>2, RetrySubmit
<1>3. CASE DispatcherStep
  BY <1>3, RetryDispatch
<1>4. ASSUME NEW q \in Requests, BackoffEnds(q) \/ CallbackStep(q) PROVE RetryOf(r)'
  BY <1>4, RetryCallback
<1>5. \/ UNCHANGED <<entry, submit, due, answer>>
      \/ \E q \in Requests : \/ AdmitRequest(q) \/ SubmitStep(q)
                             \/ BackoffEnds(q) \/ CallbackStep(q)
      \/ DispatcherStep
  BY DEF Next, vars, dispatcherVars, EngineCommit, CallbackLost, ExecutorStep,
         ExecutorStart, ExecutorFinish, ExecutorRestart, CloseFence, CloseStep,
         CloseRead, CloseAck, CloseFail, CloseAgain, AdvanceSlot
<1> QED
  BY <1>1, <1>2, <1>3, <1>4, <1>5

\* executor_max_retries bounds the failed dispatches of a request, but for the
\* one attempt a late mark of the submit poll adds.
THEOREM RetriesBounded == Spec => []AttemptsBounded
<1>1. Init => RetryInv
  BY LifecycleAssumption DEF Init, RetryInv, RetryOf, Spent, NoEntry
<1>2. Init => ClaimInv
  BY DEF Init, ClaimInv, ClaimPays, NoEntry
<1>3. RetryInv => AttemptsBounded
  BY DEF RetryInv, RetryOf, AttemptsBounded
<1> QED
  BY <1>1, <1>2, <1>3, TypeCorrect, ClaimNext, RetryNext, PTL DEF Spec

=============================================================================
