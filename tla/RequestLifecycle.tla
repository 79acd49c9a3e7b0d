-------------------------- MODULE RequestLifecycle --------------------------
(***************************************************************************)
(* The life of an accepted request outside the engine: the tracked-request  *)
(* table of the service, the poll of submit_request, the dispatcher task    *)
(* and its retries, the executor's job queue and callback, the callback     *)
(* handler, and the close-slot barrier that waits for all of them.          *)
(*                                                                          *)
(* A step is one critical section of the tracked-request mutex, one read of *)
(* the engine's assignments, or one HTTP exchange seen from one side.  The  *)
(* dispatch request and its answer are separate steps: the answer may be    *)
(* lost after the executor took the job, and a callback may overtake it.    *)
(*                                                                          *)
(* The engine is abstract here: it assigns every accepted request some slot *)
(* of its window and does not move it again (BatchScheduler, with locked    *)
(* future assignments).  An executor is configured (executor_url is set).   *)
(***************************************************************************)
EXTENDS Integers, FiniteSets

CONSTANTS
  Requests,           \* request ids the service may be asked to accept
  ArrivalOf,          \* TrackedRequest::arrival_slot
  DeadlineOf,         \* Request::deadline_slot
  TotalSlots,         \* the planning horizon
  ManualClock,        \* SimulationConfig::manual_clock
  MaxRetries,         \* ServiceConfig::executor_max_retries
  LoseCallbacks,      \* a callback may be lost between the services
  MaxRestarts         \* bound: restarts of the executor in one behaviour

Slots == 0 .. TotalSlots - 1
NoSlot == -1

ASSUME LifecycleAssumption ==
  /\ TotalSlots \in Nat \ {0}
  /\ ArrivalOf \in [Requests -> Slots]
  /\ DeadlineOf \in [Requests -> Slots]
  /\ \A r \in Requests : ArrivalOf[r] <= DeadlineOf[r]
  /\ ManualClock \in BOOLEAN
  /\ MaxRetries \in Nat \ {0}
  /\ LoseCallbacks \in BOOLEAN
  /\ MaxRestarts \in Nat

VARIABLES
  slotOf,             \* SharedState's assignments: scheduled_slot or NoSlot
  currentSlot,        \* Inner::current_slot
  entry,              \* AppState::tracked
  submit,             \* the submit_request call of each request
  due,                \* dispatcher::run: requests left of the last tick
  answer,             \* dispatch_one: the answer it is about to read
  job,                \* the executor's _jobs_by_id and its queue
  restarts,           \* executor restarts so far
  mail,               \* callbacks on their way from the executor
  handler,            \* executor_callback calls between claim and status
  closedThrough,      \* AppState::closed_through_slot
  closing,            \* the close_slot call in progress
  acked,              \* last slot whose close_slot call succeeded
  executions,         \* history: runs of the job in this executor life
  forwarded           \* history: callbacks forwarded to the caller

dispatcherVars == <<due, answer>>
executorVars == <<job, restarts, mail, executions>>
callbackVars == <<handler, forwarded>>
closeVars == <<closedThrough, closing, acked>>

vars == <<slotOf, currentSlot, entry, submit, dispatcherVars, executorVars,
          callbackVars, closeVars>>

-----------------------------------------------------------------------------
Status == {"absent", "pending", "scheduled", "dispatched", "completed", "failed"}
Terminal == {"completed", "failed"}

NoEntry ==
  [status |-> "absent", claimed |-> FALSE, attempts |-> 0, waiting |-> FALSE]

NoSlots == [r \in Requests |-> NoSlot]

Tracked == {r \in Requests : entry[r].status # "absent"}

Init ==
  /\ slotOf = NoSlots
  /\ currentSlot = 0
  /\ entry = [r \in Requests |-> NoEntry]
  /\ submit = [r \in Requests |-> "none"]
  /\ due = {}
  /\ answer = [r \in Requests |-> "none"]
  /\ job = [r \in Requests |-> "none"]
  /\ restarts = 0
  /\ mail = [r \in Requests |-> "none"]
  /\ handler = [r \in Requests |-> "none"]
  /\ closedThrough = NoSlot
  /\ closing = [pc |-> "idle", seen |-> NoSlots]
  /\ acked = NoSlot
  /\ executions = [r \in Requests |-> 0]
  /\ forwarded = [r \in Requests |-> 0]

-----------------------------------------------------------------------------
(* submit_request. *)

\* admit_request: fence check, tracked entry and enqueue in one section.
AdmitRequest(r) ==
  /\ entry[r].status = "absent"
  /\ ManualClock => ArrivalOf[r] > closedThrough
  /\ entry' = [entry EXCEPT ![r] = [NoEntry EXCEPT !.status = "pending"]]
  /\ submit' = [submit EXCEPT ![r] = "poll"]
  /\ UNCHANGED <<slotOf, currentSlot, dispatcherVars, executorVars,
                 callbackVars, closeVars>>

\* The engine commits an assignment of the request.
EngineCommit(r) ==
  /\ r \in Tracked
  /\ slotOf[r] = NoSlot
  /\ \E s \in ArrivalOf[r] .. DeadlineOf[r] : slotOf' = [slotOf EXCEPT ![r] = s]
  /\ UNCHANGED <<currentSlot, entry, submit, dispatcherVars, executorVars,
                 callbackVars, closeVars>>

\* The poll finds the assignment.
SubmitSees(r) ==
  /\ submit[r] = "poll"
  /\ slotOf[r] # NoSlot
  /\ submit' = [submit EXCEPT ![r] = "seen"]
  /\ UNCHANGED <<slotOf, currentSlot, entry, dispatcherVars, executorVars,
                 callbackVars, closeVars>>

\* Mutant: the status is written whether or not a callback was received.
SetStatusAlways(r, status) == [entry EXCEPT ![r] = [@ EXCEPT !.status = status]]

\* A status written by the service itself never replaces a callback's.
set_status(r, status) ==
  IF r \notin Tracked \/ entry[r].claimed THEN entry
  ELSE [entry EXCEPT ![r] = [@ EXCEPT !.status = status]]

\* The poll takes the tracked-request mutex and answers 200.
SubmitMarks(r) ==
  /\ submit[r] = "seen"
  /\ entry' = set_status(r, "scheduled")
  /\ submit' = [submit EXCEPT ![r] = "done"]
  /\ UNCHANGED <<slotOf, currentSlot, dispatcherVars, executorVars,
                 callbackVars, closeVars>>

\* The poll gives up on an unassigned request and answers 202.
SubmitTimeout(r) ==
  /\ submit[r] = "poll"
  /\ slotOf[r] = NoSlot
  /\ submit' = [submit EXCEPT ![r] = "done"]
  /\ UNCHANGED <<slotOf, currentSlot, entry, dispatcherVars, executorVars,
                 callbackVars, closeVars>>

-----------------------------------------------------------------------------
(* The dispatcher task. *)

Awaited == {r \in Requests : answer[r] # "none"}

\* Mutant: only requests the submit poll has marked are dispatched.
DueScheduledOnly ==
  {r \in Tracked : /\ slotOf[r] # NoSlot
                   /\ slotOf[r] <= currentSlot
                   /\ entry[r].status = "scheduled"
                   /\ ~ entry[r].waiting}

\* Work whose slot has come, that has not been handed over and is not backing
\* off.
Due ==
  {r \in Tracked : /\ slotOf[r] # NoSlot
                   /\ slotOf[r] <= currentSlot
                   /\ entry[r].status \in {"pending", "scheduled"}
                   /\ ~ entry[r].waiting}

\* One tick of dispatcher::run collects the due requests.
DispatchTick ==
  /\ due = {}
  /\ Awaited = {}
  /\ Due # {}
  /\ due' = Due
  /\ UNCHANGED <<slotOf, currentSlot, entry, submit, answer, executorVars,
                 callbackVars, closeVars>>

\* Mutant: a repeated dispatch queues the job again.
TakeAgain(r) == [job EXCEPT ![r] = "queued"]

\* JobQueue.submit: the request id is an idempotency key.
Take(r) == [job EXCEPT ![r] = IF @ = "none" THEN "queued" ELSE @]

\* dispatch_one posts a request; the executor may take the job although the
\* answer is lost, and may refuse it or be out of reach.
DispatchSend(r) ==
  /\ Awaited = {}
  /\ r \in due
  /\ due' = due \ {r}
  /\ \/ /\ job' = Take(r)
        /\ \E reply \in {"ok", "error"} : answer' = [answer EXCEPT ![r] = reply]
     \/ /\ job' = job
        /\ answer' = [answer EXCEPT ![r] = "error"]
  /\ UNCHANGED <<slotOf, currentSlot, entry, submit, restarts, mail, executions,
                 callbackVars, closeVars>>

\* dispatch_one reads a success answer.
DispatchOk(r) ==
  /\ answer[r] = "ok"
  /\ entry' = set_status(r, "dispatched")
  /\ answer' = [answer EXCEPT ![r] = "none"]
  /\ UNCHANGED <<slotOf, currentSlot, submit, due, executorVars, callbackVars,
                 closeVars>>

\* Mutant: the attempts are counted and never run out.
FailureRetriedForever(e) ==
  IF e.claimed THEN e
  ELSE [e EXCEPT !.attempts = e.attempts + 1, !.waiting = TRUE]

\* A failed attempt: back off, or give up at the last one.
record_failure(e) ==
  IF e.status = "absent" \/ e.claimed THEN e
  ELSE IF e.attempts + 1 >= MaxRetries
       THEN [e EXCEPT !.attempts = e.attempts + 1, !.status = "failed"]
       ELSE [e EXCEPT !.attempts = e.attempts + 1, !.waiting = TRUE]

\* dispatch_one reads an error, or no answer at all.
DispatchError(r) ==
  /\ answer[r] = "error"
  /\ entry' = [entry EXCEPT ![r] = record_failure(@)]
  /\ answer' = [answer EXCEPT ![r] = "none"]
  /\ UNCHANGED <<slotOf, currentSlot, submit, due, executorVars, callbackVars,
                 closeVars>>

\* The backoff delay of a request runs out.
BackoffEnds(r) ==
  /\ r \in Tracked
  /\ entry[r].waiting
  /\ entry' = [entry EXCEPT ![r] = [@ EXCEPT !.waiting = FALSE]]
  /\ UNCHANGED <<slotOf, currentSlot, submit, dispatcherVars, executorVars,
                 callbackVars, closeVars>>

-----------------------------------------------------------------------------
(* The executor: one job at a time, the earliest slot first. *)

Running == {r \in Requests : job[r] = "running"}

ExecutorStart(r) ==
  /\ Running = {}
  /\ job[r] = "queued"
  /\ \A q \in Requests : job[q] = "queued" => slotOf[r] <= slotOf[q]
  /\ job' = [job EXCEPT ![r] = "running"]
  /\ executions' = [executions EXCEPT ![r] = executions[r] + 1]
  /\ UNCHANGED <<slotOf, currentSlot, entry, submit, dispatcherVars, restarts,
                 mail, callbackVars, closeVars>>

\* The job succeeds or fails and its callback is posted, once.
ExecutorFinish(r) ==
  /\ job[r] = "running"
  /\ mail[r] = "none"
  /\ job' = [job EXCEPT ![r] = "done"]
  /\ \E outcome \in Terminal : mail' = [mail EXCEPT ![r] = outcome]
  /\ UNCHANGED <<slotOf, currentSlot, entry, submit, dispatcherVars, restarts,
                 executions, callbackVars, closeVars>>

\* A callback is lost; the executor does not send it again.
CallbackLost(r) ==
  /\ LoseCallbacks
  /\ mail[r] # "none"
  /\ mail' = [mail EXCEPT ![r] = "none"]
  /\ UNCHANGED <<slotOf, currentSlot, entry, submit, dispatcherVars, job,
                 restarts, executions, callbackVars, closeVars>>

\* The executor restarts; its queue and its idempotency keys are in memory.
ExecutorRestart ==
  /\ restarts < MaxRestarts
  /\ restarts' = restarts + 1
  /\ job' = [r \in Requests |-> "none"]
  /\ executions' = [r \in Requests |-> 0]
  /\ UNCHANGED <<slotOf, currentSlot, entry, submit, dispatcherVars, mail,
                 callbackVars, closeVars>>

-----------------------------------------------------------------------------
(* executor_callback. *)

\* Mutant: a second callback is handled like the first.
ClaimAlways(r) ==
  /\ mail[r] # "none"
  /\ handler[r] = "none"
  /\ entry' = [entry EXCEPT ![r] = [@ EXCEPT !.claimed = TRUE]]
  /\ handler' = [handler EXCEPT ![r] = mail[r]]
  /\ mail' = [mail EXCEPT ![r] = "none"]
  /\ UNCHANGED <<slotOf, currentSlot, submit, dispatcherVars, job, restarts,
                 executions, forwarded, closeVars>>

\* The first callback of a request claims it; the mutex is then released while
\* the measured error and carbon cost are corrected.
CallbackClaim(r) ==
  /\ mail[r] # "none"
  /\ r \in Tracked
  /\ ~ entry[r].claimed
  /\ entry' = [entry EXCEPT ![r] = [@ EXCEPT !.claimed = TRUE]]
  /\ handler' = [handler EXCEPT ![r] = mail[r]]
  /\ mail' = [mail EXCEPT ![r] = "none"]
  /\ UNCHANGED <<slotOf, currentSlot, submit, dispatcherVars, job, restarts,
                 executions, forwarded, closeVars>>

\* A further callback is acknowledged and ignored.
CallbackDuplicate(r) ==
  /\ mail[r] # "none"
  /\ entry[r].claimed
  /\ mail' = [mail EXCEPT ![r] = "none"]
  /\ UNCHANGED <<slotOf, currentSlot, entry, submit, dispatcherVars, job,
                 restarts, executions, callbackVars, closeVars>>

\* The mutex is taken again for the final status; the caller is notified.
CallbackFinish(r) ==
  /\ handler[r] # "none"
  /\ entry' = [entry EXCEPT ![r] = [@ EXCEPT !.status = handler[r]]]
  /\ forwarded' = [forwarded EXCEPT ![r] = forwarded[r] + 1]
  /\ handler' = [handler EXCEPT ![r] = "none"]
  /\ UNCHANGED <<slotOf, currentSlot, submit, dispatcherVars, executorVars,
                 closeVars>>

-----------------------------------------------------------------------------
(* close_slot and the slot clock. *)

\* The fence is published for the slot in force.
CloseFence ==
  /\ ManualClock
  /\ closing.pc = "idle"
  /\ closedThrough' = currentSlot
  /\ closing' = [closing EXCEPT !.pc = "read"]
  /\ UNCHANGED <<slotOf, currentSlot, entry, submit, dispatcherVars,
                 executorVars, callbackVars, acked>>

\* A turn of the poll copies the assignments before it locks the table.
CloseRead ==
  /\ closing.pc = "read"
  /\ closing' = [pc |-> "decide", seen |-> slotOf]
  /\ UNCHANGED <<slotOf, currentSlot, entry, submit, dispatcherVars,
                 executorVars, callbackVars, closedThrough, acked>>

DueBy(slot, seen) == {r \in Requests : seen[r] # NoSlot /\ seen[r] <= slot}

DispatchFailed ==
  \E r \in DueBy(closedThrough, closing.seen) :
    entry[r].status = "failed" /\ ~ entry[r].claimed

\* Mutant: a request the executor has taken counts as finished.
BarrierOnDispatch ==
  /\ \A r \in Tracked : ArrivalOf[r] <= closedThrough => closing.seen[r] # NoSlot
  /\ \A r \in DueBy(closedThrough, closing.seen) :
       entry[r].status \notin {"pending", "scheduled"}

\* unscheduled, dispatching and callbacks_pending are all zero.
BarrierMet ==
  /\ \A r \in Tracked : ArrivalOf[r] <= closedThrough => closing.seen[r] # NoSlot
  /\ \A r \in DueBy(closedThrough, closing.seen) :
       entry[r].claimed /\ entry[r].status \in Terminal

CloseAck ==
  /\ closing.pc = "decide"
  /\ ~ DispatchFailed
  /\ BarrierMet
  /\ acked' = closedThrough
  /\ closing' = [pc |-> "idle", seen |-> NoSlots]
  /\ UNCHANGED <<slotOf, currentSlot, entry, submit, dispatcherVars,
                 executorVars, callbackVars, closedThrough>>

\* 503: an assignment failed to dispatch, or the poll timed out.
CloseFail ==
  /\ closing.pc = "decide"
  /\ DispatchFailed \/ ~ BarrierMet
  /\ closing' = [pc |-> "idle", seen |-> NoSlots]
  /\ UNCHANGED <<slotOf, currentSlot, entry, submit, dispatcherVars,
                 executorVars, callbackVars, closedThrough, acked>>

\* The poll sleeps and looks again.
CloseAgain ==
  /\ closing.pc = "decide"
  /\ ~ DispatchFailed
  /\ ~ BarrierMet
  /\ closing' = [pc |-> "read", seen |-> NoSlots]
  /\ UNCHANGED <<slotOf, currentSlot, entry, submit, dispatcherVars,
                 executorVars, callbackVars, closedThrough, acked>>

\* Mutant: the clock runs past the horizon.
AdvancePastHorizon ==
  /\ ManualClock => closing.pc = "idle" /\ acked = currentSlot
  /\ currentSlot' = currentSlot + 1
  /\ UNCHANGED <<slotOf, entry, submit, dispatcherVars, executorVars,
                 callbackVars, closeVars>>

\* The clock: by the provider after an acknowledged close, or by wall time.
AdvanceSlot ==
  /\ currentSlot < TotalSlots - 1
  /\ ManualClock => closing.pc = "idle" /\ acked = currentSlot
  /\ currentSlot' = currentSlot + 1
  /\ UNCHANGED <<slotOf, entry, submit, dispatcherVars, executorVars,
                 callbackVars, closeVars>>

-----------------------------------------------------------------------------
SubmitStep(r) == SubmitSees(r) \/ SubmitMarks(r) \/ SubmitTimeout(r)
DispatcherStep ==
  \/ DispatchTick
  \/ \E r \in Requests : DispatchSend(r) \/ DispatchOk(r) \/ DispatchError(r)
ExecutorStep == \E r \in Requests : ExecutorStart(r) \/ ExecutorFinish(r)
CallbackStep(r) == CallbackClaim(r) \/ CallbackDuplicate(r) \/ CallbackFinish(r)
CloseStep == CloseRead \/ CloseAck \/ CloseFail \/ CloseAgain

Next ==
  \/ \E r \in Requests :
       \/ AdmitRequest(r) \/ EngineCommit(r) \/ SubmitStep(r) \/ BackoffEnds(r)
       \/ CallbackLost(r) \/ CallbackStep(r)
  \/ DispatcherStep \/ ExecutorStep \/ ExecutorRestart
  \/ CloseFence \/ CloseStep \/ AdvanceSlot

Spec == Init /\ [][Next]_vars

\* Weak fairness of every task: the runtimes schedule the handlers, the
\* dispatcher and the executor's worker thread, a delay ends, the engine
\* assigns what was accepted, and wall time moves.
FairSpec ==
  /\ Spec
  /\ \A r \in Requests :
       /\ WF_vars(EngineCommit(r))
       /\ WF_vars(SubmitStep(r))
       /\ WF_vars(BackoffEnds(r))
       /\ WF_vars(CallbackStep(r))
  /\ WF_vars(DispatcherStep)
  /\ WF_vars(ExecutorStep)
  /\ WF_vars(AdvanceSlot)

-----------------------------------------------------------------------------
(* Properties. *)

EntryType ==
  [status : Status, claimed : BOOLEAN, attempts : Nat, waiting : BOOLEAN]

\* Every variable has its type.
TypeOK ==
  /\ slotOf \in [Requests -> Slots \cup {NoSlot}]
  /\ currentSlot \in Slots
  /\ entry \in [Requests -> EntryType]
  /\ submit \in [Requests -> {"none", "poll", "seen", "done"}]
  /\ due \subseteq Requests
  /\ answer \in [Requests -> {"none", "ok", "error"}]
  /\ job \in [Requests -> {"none", "queued", "running", "done"}]
  /\ restarts \in 0 .. MaxRestarts
  /\ mail \in [Requests -> Terminal \cup {"none"}]
  /\ handler \in [Requests -> Terminal \cup {"none"}]
  /\ closedThrough \in Slots \cup {NoSlot}
  /\ closing \in [pc : {"idle", "read", "decide"},
                  seen : [Requests -> Slots \cup {NoSlot}]]
  /\ acked \in Slots \cup {NoSlot}
  /\ executions \in [Requests -> Nat]
  /\ forwarded \in [Requests -> Nat]

\* Failed dispatches are not retried forever: executor_max_retries bounds the
\* failed attempts, but for the one that follows when the submit poll marks a
\* request scheduled that had just been given up.
AttemptsBounded == \A r \in Requests : entry[r].attempts <= MaxRetries + 1

\* A job runs at most once in each life of the executor, however often its
\* dispatch is repeated after lost answers ("Reusing request_id must be
\* idempotent or the same model inference can run twice").
ExecutedOnce == \A r \in Requests : executions[r] <= 1

\* The caller hears of a request at most once, even when the executor restarts
\* and runs it again ("Claim the callback exactly once").
ForwardedOnce == \A r \in Requests : forwarded[r] <= 1

\* A result reported by the executor is final: no late dispatch answer, retry,
\* give-up or submit poll replaces it.
CallbackIsFinal ==
  [][\A r \in Requests :
       entry[r].claimed /\ entry[r].status \in Terminal /\ handler[r] = "none" =>
         entry'[r].status = entry[r].status]_vars

\* A closed slot is finished: every request that arrived by it is assigned and
\* every assignment due in it has a terminal callback, from then on.
AckedWorkFinished ==
  acked # NoSlot =>
    /\ \A r \in Tracked : ArrivalOf[r] <= acked => slotOf[r] # NoSlot
    /\ \A r \in DueBy(acked, slotOf) :
         entry[r].claimed /\ entry[r].status \in Terminal

\* With no callback lost, every accepted request comes to rest in a terminal
\* status, through lost answers, retries, give-ups and late marks.
EventuallyTerminal ==
  \A r \in Requests :
    r \in Tracked ~> [](entry[r].status \in Terminal)

\* A request that was handed to the executor is no longer waiting for its slot:
\* its status does not go back to scheduled, from which it is dispatched again.
DispatchedStaysDispatched ==
  [][\A r \in Requests :
       entry[r].status = "dispatched" => entry'[r].status # "scheduled"]_vars

=============================================================================
