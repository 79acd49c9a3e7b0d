-------------------------- MODULE QosLedger_proofs --------------------------
(***************************************************************************)
(* What the error accounts of QosLedger promise, for every number of         *)
(* requests, profiles, workers and callback deliveries.                      *)
(***************************************************************************)
EXTENDS QosLedger, FoldLemmas

AssignmentRecs == [profile : Profiles, slot : Slots, error : Nat, cost : Nat]

Jobs == [profile : Profiles, batch : SUBSET Requests, moved : SUBSET Requests,
         allowed : SUBSET Flavours]

Done == [pc |-> "done"]

ActiveCalls == [pc : {"correct", "read", "write", "track"},
                request : Requests, actual : Nat, cost : Nat]

AccountTypes ==
  /\ policy \in Policies /\ slot \in Slots /\ pending \subseteq Requests
  /\ profileStats \in [Profiles -> [sum : Int, count : Nat]]
  /\ global \in [sum : Int, count : Nat]

\* A request keeps the profile it was submitted with.
AssignmentTypes ==
  /\ Assigned \subseteq Requests
  /\ \A r \in Assigned : /\ assignments[r] \in AssignmentRecs
                         /\ assignments[r].profile = ProfileOf[r]

\* What a worker holds has left the queue, is not assigned yet and is of one
\* profile, which is no other worker's; what it may move is assigned.
WorkerTypes ==
  /\ Busy \subseteq Workers
  /\ \A w \in Busy :
       /\ worker[w] \in Jobs
       /\ \A r \in worker[w].batch :
            ProfileOf[r] = worker[w].profile /\ r \notin pending /\ r \notin Assigned
       /\ Cardinality(worker[w].batch) \in 1 .. BatchSize
       /\ worker[w].moved \subseteq Assigned
       /\ \A r \in worker[w].moved : ProfileOf[r] = worker[w].profile
       /\ LockFuture => worker[w].moved = {}
  /\ \A v, w \in Busy : v # w => worker[v].profile # worker[w].profile

PendingUnassigned == pending \cap Assigned = {}

CallTypes ==
  /\ received \subseteq Assigned /\ DOMAIN reported \subseteq received
  /\ call \in [Calls -> {Idle, Done} \cup ActiveCalls]
  /\ \A c \in Calls : call[c] \in ActiveCalls => call[c].request \in received

TypeInv ==
  AccountTypes /\ AssignmentTypes /\ WorkerTypes /\ PendingUnassigned /\ CallTypes
\* The bound of OverspendOneBatch.
Excess(p) == profileStats[p].sum - MaxError * profileStats[p].count
Modest == {e \in Flavours : e <= MaxError}
Steepest == Max({0} \cup {e - MaxError : e \in Flavours})

Constrained == HardConstraint /\ received = {} /\ Modest # {}

\* A solve that may still use any flavour was prepared when its profile was
\* within its budget, and as no one else commits for that profile it still is.
OverspendInv ==
  Constrained =>
    /\ \A p \in Profiles : /\ Excess(p) <= BatchSize * Steepest
                           /\ profileStats[p].count = 0 => profileStats[p].sum = 0
    /\ \A w \in Busy : \/ worker[w].allowed \subseteq Modest
                       \/ Excess(worker[w].profile) <= 0

ErrorOf == [r \in Assigned |-> assignments[r].error]

\* The requests an account is over, and what it then says.
AccountOf(p) == {r \in Assigned : ProfileOf[r] = p}
Sums(stats, who) ==
  stats.count = Cardinality(who)
  /\ (LockFuture => stats.sum = SumFunctionOnSet(ErrorOf, who))
BalancedInv ==
  (\A p \in Profiles : Sums(profileStats[p], AccountOf(p))) /\ Sums(global, Assigned)

-----------------------------------------------------------------------------
(* Types. *)

\* What an error policy consists of.
LEMMA PolicyTypes ==
  ASSUME policy \in Policies
  PROVE  HardConstraint \in BOOLEAN /\ LockFuture \in BOOLEAN /\ BatchSize \in Nat \ {0}
BY LedgerAssumption DEF HardConstraint, LockFuture, BatchSize

\* The initial state is well typed.
LEMMA TypeInit == Init => TypeInv
<1> SUFFICES ASSUME Init PROVE TypeInv
  OBVIOUS
<1> USE DEF Init
<1>1. Assigned = {} /\ Busy = {} /\ DOMAIN reported = {}
  BY DEF Assigned, Busy
<1>2. AccountTypes
  BY LedgerAssumption DEF AccountTypes, Slots, NoStats
<1>3. AssignmentTypes /\ WorkerTypes /\ PendingUnassigned
  BY <1>1 DEF AssignmentTypes, WorkerTypes, PendingUnassigned
<1>4. \A c \in Calls : call[c] = Idle /\ call[c] \notin ActiveCalls
  <2>1. Idle \notin ActiveCalls
    BY DEF Idle, ActiveCalls
  <2> QED
    BY <2>1
<1>5. CallTypes
  BY <1>1, <1>4 DEF CallTypes
<1> QED
  BY <1>2, <1>3, <1>5 DEF TypeInv

\* What a solve is given.
LEMMA SolveTypes ==
  ASSUME TypeInv, NEW p \in Profiles, NEW batch \in BatchesOf(p)
  PROVE  /\ Solve(p, batch) \in Jobs
         /\ Solve(p, batch).profile = p /\ Solve(p, batch).batch = batch
         /\ Solve(p, batch).moved = Movable(p)
         /\ Solve(p, batch).allowed = AllowedFlavours(p)
         /\ batch \subseteq pending /\ Cardinality(batch) \in 1 .. BatchSize
         /\ \A r \in batch : ProfileOf[r] = p
         /\ Movable(p) \subseteq Assigned /\ (LockFuture => Movable(p) = {})
         /\ \A r \in Movable(p) : ProfileOf[r] = p
<1>1. /\ batch \subseteq pending /\ Cardinality(batch) \in 1 .. BatchSize
      /\ \A r \in batch : ProfileOf[r] = p
  BY DEF BatchesOf
<1>2. /\ Movable(p) \subseteq Assigned /\ (LockFuture => Movable(p) = {})
      /\ \A r \in Movable(p) : ProfileOf[r] = p
  BY DEF Movable, TypeInv, AssignmentTypes
<1>3. pending \subseteq Requests /\ Assigned \subseteq Requests
  BY DEF TypeInv, AccountTypes, AssignmentTypes
<1>4. AllowedFlavours(p) \subseteq Flavours
  BY DEF AllowedFlavours
<1> QED
  BY <1>1, <1>2, <1>3, <1>4 DEF Solve, Jobs

\* A preparation keeps the types.
LEMMA PrepareTypes ==
  ASSUME TypeInv, NEW w \in Workers, Prepare(w)
  PROVE  TypeInv'
<1>0. PICK p \in Profiles \ ActiveProfiles : \E batch \in BatchesOf(p) : Claim(w, p, batch)
  BY DEF Prepare
<1>1. PICK batch \in BatchesOf(p) : Claim(w, p, batch)
  BY <1>0
<1>2. w \notin Busy
  BY DEF Prepare
<1>3. /\ Busy' = Busy \cup {w} /\ worker'[w] = Solve(p, batch)
      /\ \A v \in Busy : worker'[v] = worker[v]
  BY <1>1, <1>2 DEF Claim, Busy
<1>4. /\ pending' = pending \ batch /\ Assigned' = Assigned
      /\ UNCHANGED << policy, slot, assignments, profileStats, global, received, call, reported >>
  BY <1>1 DEF Claim, fixed, ledger, Assigned
<1>5. UNCHANGED << LockFuture, BatchSize, Slots >>
  BY <1>4 DEF LockFuture, BatchSize, Slots
<1>6. \A v \in Busy : worker[v].profile # p
  BY <1>1 DEF ActiveProfiles
<1>7. AccountTypes'
  BY <1>4, <1>5 DEF TypeInv, AccountTypes
<1>8. AssignmentTypes' /\ PendingUnassigned'
  BY <1>4 DEF TypeInv, AssignmentTypes, PendingUnassigned, AssignmentRecs, Slots
<1>9. CallTypes'
  BY <1>4 DEF TypeInv, CallTypes
<1>10. WorkerTypes'
  <2>1. Busy' \subseteq Workers
    BY <1>3 DEF TypeInv, WorkerTypes
  <2>2. ASSUME NEW v \in Busy'
        PROVE  /\ worker'[v] \in Jobs
               /\ \A r \in worker'[v].batch : /\ ProfileOf[r] = worker'[v].profile
                                              /\ r \notin pending' /\ r \notin Assigned'
               /\ Cardinality(worker'[v].batch) \in 1 .. BatchSize'
               /\ worker'[v].moved \subseteq Assigned'
               /\ \A r \in worker'[v].moved : ProfileOf[r] = worker'[v].profile
               /\ LockFuture' => worker'[v].moved = {}
    <3>1. CASE v = w
      BY <3>1, <1>1, <1>3, <1>4, <1>5, SolveTypes DEF TypeInv, PendingUnassigned
    <3>2. CASE v \in Busy
      BY <3>2, <1>3, <1>4, <1>5 DEF TypeInv, WorkerTypes
    <3> QED
      BY <3>1, <3>2, <1>3
  <2>3. ASSUME NEW u \in Busy', NEW v \in Busy', u # v
        PROVE  worker'[u].profile # worker'[v].profile
    <3>1. worker'[w].profile = p
      BY <1>1, <1>3, SolveTypes
    <3> QED
      BY <3>1, <2>3, <1>3, <1>6 DEF TypeInv, WorkerTypes
  <2> QED
    BY <2>1, <2>2, <2>3 DEF WorkerTypes
<1> QED
  BY <1>7, <1>8, <1>9, <1>10 DEF TypeInv

-----------------------------------------------------------------------------
(* A commit. *)

\* Every account sums over finitely many assignments.
LEMMA FiniteAccounts ==
  ASSUME TypeInv
  PROVE  /\ IsFiniteSet(Assigned) /\ \A p : IsFiniteSet(AccountOf(p))
         /\ \A w \in Busy : IsFiniteSet(worker[w].batch)
<1>1. Assigned \subseteq Requests /\ \A w \in Busy : worker[w].batch \subseteq Requests
  BY DEF TypeInv, AssignmentTypes, WorkerTypes, Jobs
<1>2. IsFiniteSet(Requests)
  BY LedgerAssumption
<1> QED
  BY <1>1, <1>2, FS_Subset DEF AccountOf

\* Errors of assignments and strategies are natural numbers.
LEMMA ErrorTypes ==
  ASSUME TypeInv
  PROVE  DOMAIN ErrorOf = Assigned /\ \A r \in Assigned : ErrorOf[r] \in Nat
BY DEF TypeInv, AssignmentTypes, AssignmentRecs, ErrorOf

\* What a commit writes: the batch becomes assigned, what the solve moved is
\* re-planned, and the rest is left alone.
LEMMA CommitAssigns ==
  ASSUME TypeInv, NEW w \in Workers, Commit(w)
  PROVE  /\ w \in Busy
         /\ Assigned' = Assigned \cup worker[w].batch
         /\ \A r \in Assigned \ worker[w].moved : assignments'[r] = assignments[r]
         /\ \A r \in worker[w].batch \cup worker[w].moved :
              /\ assignments'[r] \in AssignmentRecs
              /\ assignments'[r].profile = ProfileOf[r]
              /\ assignments'[r].error \in worker[w].allowed
              /\ assignments'[r].cost = 0
         /\ \E error \in [worker[w].batch -> Nat] :
              /\ \A r \in worker[w].batch : error[r] = assignments'[r].error
              /\ profileStats' =
                   [p \in Profiles |->
                      IF p = worker[w].profile
                      THEN Plus(profileStats[p], SumFunctionOnSet(error, worker[w].batch),
                                Cardinality(worker[w].batch))
                      ELSE Plus(profileStats[p], 0, 0)]
              /\ global' = Plus(global, SumFunctionOnSet(error, worker[w].batch),
                                Cardinality(worker[w].batch))
<1> DEFINE job == worker[w]
           solved == job.batch \cup job.moved
<1>1. w \in Busy
  BY DEF Commit
<1>2. PICK where \in [solved -> slot .. TotalSlots - 1] :
        \E errors \in [solved -> job.allowed] :
          record_assignment(
            [r \in solved |-> [profile |-> job.profile, slot |-> where[r],
                               error |-> errors[r], cost |-> 0]])
  BY DEF Commit
<1>3. PICK errors \in [solved -> job.allowed] :
          record_assignment(
            [r \in solved |-> [profile |-> job.profile, slot |-> where[r],
                               error |-> errors[r], cost |-> 0]])
  BY <1>2
<1> DEFINE plan == [r \in solved |-> [profile |-> job.profile, slot |-> where[r],
                                      error |-> errors[r], cost |-> 0]]
           new == DOMAIN plan \ Assigned
           newOf(p) == {r \in new : plan[r].profile = p}
<1>4. /\ job \in Jobs /\ job.moved \subseteq Assigned /\ job.batch \cap Assigned = {}
      /\ \A r \in solved : ProfileOf[r] = job.profile
      /\ job.profile \in Profiles
  BY <1>1 DEF TypeInv, WorkerTypes, Jobs
<1>5. DOMAIN plan = solved /\ new = job.batch
  BY <1>4
<1>6. \A p : newOf(p) = IF p = job.profile THEN job.batch ELSE {}
  BY <1>5
<1>7. \A r \in Assigned : assignments[r].profile = ProfileOf[r]
  BY SMTT(20) DEF TypeInv, AssignmentTypes
<1>8. assignments' = [r \in Assigned \cup DOMAIN plan |->
                          IF r \notin DOMAIN plan THEN assignments[r]
                          ELSE IF r \in new THEN plan[r]
                          ELSE [plan[r] EXCEPT !.profile = assignments[r].profile]]
  BY <1>3 DEF record_assignment
<1>9. Assigned' = Assigned \cup job.batch
  BY <1>4, <1>5, <1>8 DEF Assigned
<1>10. \A r \in Assigned \ job.moved : assignments'[r] = assignments[r]
  BY <1>4, <1>5, <1>8
<1>11. \A r \in solved : where[r] \in Slots /\ errors[r] \in Nat /\ errors[r] \in job.allowed
  <2>1. slot .. TotalSlots - 1 \subseteq Slots
    BY LedgerAssumption DEF TypeInv, AccountTypes, Slots
  <2>2. job.allowed \subseteq Nat
    BY <1>4, LedgerAssumption DEF Jobs
  <2> QED
    BY <2>1, <2>2
<1>12. \A r \in solved : plan[r] \in AssignmentRecs
  BY <1>4, <1>11 DEF AssignmentRecs
<1>13. \A r \in solved :
         assignments'[r] = [profile |-> ProfileOf[r], slot |-> where[r],
                            error |-> errors[r], cost |-> 0]
  <2>1. ASSUME NEW r \in job.batch
        PROVE  assignments'[r] = [profile |-> ProfileOf[r], slot |-> where[r],
                                  error |-> errors[r], cost |-> 0]
    BY <1>4, <1>5, <1>8
  <2>2. ASSUME NEW r \in job.moved
        PROVE  assignments'[r] = [profile |-> ProfileOf[r], slot |-> where[r],
                                  error |-> errors[r], cost |-> 0]
    <3>1. r \in DOMAIN plan /\ r \notin new /\ assignments[r].profile = ProfileOf[r]
      BY <1>4, <1>5, <1>7
    <3>2. assignments'[r] = [plan[r] EXCEPT !.profile = ProfileOf[r]]
      BY <3>1, <1>8
    <3> QED
      BY <3>2
  <2> QED
    BY <2>1, <2>2
<1>14. \A r \in solved : /\ assignments'[r] \in AssignmentRecs
                         /\ assignments'[r].profile = ProfileOf[r]
                         /\ assignments'[r].error \in job.allowed
                         /\ assignments'[r].cost = 0
  <2> SUFFICES ASSUME NEW r \in solved
               PROVE  /\ assignments'[r] \in AssignmentRecs
                      /\ assignments'[r].profile = ProfileOf[r]
                      /\ assignments'[r].error \in job.allowed
                      /\ assignments'[r].cost = 0
    OBVIOUS
  <2>1. assignments'[r] = [profile |-> ProfileOf[r], slot |-> where[r],
                           error |-> errors[r], cost |-> 0]
    BY <1>13
  <2>2. /\ ProfileOf[r] \in Profiles /\ where[r] \in Slots
        /\ errors[r] \in Nat /\ errors[r] \in job.allowed
    BY <1>4, <1>11
  <2> QED
    BY <2>1, <2>2 DEF AssignmentRecs
<1> DEFINE error == [r \in job.batch |-> plan[r].error]
<1>15. error \in [job.batch -> Nat] /\ \A r \in job.batch : error[r] = assignments'[r].error
  <2>1. ASSUME NEW r \in job.batch
        PROVE  error[r] = errors[r] /\ errors[r] \in Nat /\ assignments'[r].error = errors[r]
    <3>1. plan[r].error = errors[r] /\ errors[r] \in Nat
      BY <1>11
    <3>2. assignments'[r].error = errors[r]
      <4>1. r \in solved
        OBVIOUS
      <4>2. assignments'[r] = [profile |-> ProfileOf[r], slot |-> where[r],
                               error |-> errors[r], cost |-> 0]
        BY <4>1, <1>13
      <4> QED
        BY <4>2
    <3> QED
      BY <3>1, <3>2
  <2>2. error = [r \in job.batch |-> error[r]]
    BY SMTT(20)
  <2> HIDE DEF error
  <2> QED
    BY <2>1, <2>2
<1>16. global' = Plus(global, SumFunctionOnSet(error, job.batch), Cardinality(job.batch))
  <2>1. global' = Plus(global, SumFunction([r \in new |-> plan[r].error]), Cardinality(new))
    BY <1>3 DEF record_assignment
  <2>2. SumFunction([r \in new |-> plan[r].error]) = SumFunctionOnSet(error, job.batch)
    BY <1>5 DEF SumFunction
  <2>3. new = job.batch
    BY <1>5
  <2> HIDE DEF plan, new, job, error
  <2> QED
    BY <2>1, <2>2, <2>3
<1>17. profileStats' =
         [p \in Profiles |->
            IF p = job.profile
            THEN Plus(profileStats[p], SumFunctionOnSet(error, job.batch),
                      Cardinality(job.batch))
            ELSE Plus(profileStats[p], 0, 0)]
  <2>1. profileStats' = [p \in Profiles |->
                           Plus(profileStats[p],
                                SumFunction([r \in newOf(p) |-> plan[r].error]),
                                Cardinality(newOf(p)))]
    BY <1>3 DEF record_assignment
  <2>2. SumFunction([r \in newOf(job.profile) |-> plan[r].error])
          = SumFunctionOnSet(error, job.batch)
    BY <1>6 DEF SumFunction
  <2>3. ASSUME NEW p \in Profiles, p # job.profile
        PROVE  /\ SumFunction([r \in newOf(p) |-> plan[r].error]) = 0
               /\ Cardinality(newOf(p)) = 0
    <3>1. newOf(p) = {}
      BY <2>3, <1>6
    <3>2. SumFunctionOnSet([r \in newOf(p) |-> plan[r].error], {}) = 0
      BY SumEmpty
    <3> QED
      BY <3>1, <3>2, FS_EmptySet DEF SumFunction
  <2>4. Cardinality(newOf(job.profile)) = Cardinality(job.batch)
    BY <1>6, Zenon
  <2> HIDE DEF newOf, error, plan, new
  <2> QED
    BY <2>1, <2>2, <2>3, <2>4
<1> HIDE DEF error, plan, new, newOf
<1> QED
  BY <1>1, <1>9, <1>10, <1>14, <1>15, <1>16, <1>17

\* What is added to the sum and the count of an account.
LEMMA PlusType ==
  ASSUME NEW stats \in [sum : Int, count : Nat], NEW e \in Int, NEW n \in Nat
  PROVE  /\ Plus(stats, e, n) \in [sum : Int, count : Nat]
         /\ Plus(stats, e, n).sum = stats.sum + e
         /\ Plus(stats, e, n).count = stats.count + n
BY DEF Plus

\* What commits add to the accounts.
LEMMA CommitAccounts ==
  ASSUME TypeInv, NEW w \in Workers, Commit(w)
  PROVE  /\ w \in Busy /\ worker[w].profile \in Profiles
         /\ \E error \in [worker[w].batch -> Nat] :
              /\ SumFunctionOnSet(error, worker[w].batch) \in Int
              /\ Cardinality(worker[w].batch) \in Nat \ {0}
              /\ \A r \in worker[w].batch : error[r] = assignments'[r].error
              /\ profileStats' \in [Profiles -> [sum : Int, count : Nat]]
              /\ \A p \in Profiles : p # worker[w].profile =>
                   profileStats'[p].sum = profileStats[p].sum
                   /\ profileStats'[p].count = profileStats[p].count
              /\ profileStats'[worker[w].profile].sum
                   = profileStats[worker[w].profile].sum
                       + SumFunctionOnSet(error, worker[w].batch)
              /\ profileStats'[worker[w].profile].count
                   = profileStats[worker[w].profile].count + Cardinality(worker[w].batch)
              /\ global' \in [sum : Int, count : Nat]
              /\ global'.sum = global.sum + SumFunctionOnSet(error, worker[w].batch)
              /\ global'.count = global.count + Cardinality(worker[w].batch)
<1> DEFINE batch == worker[w].batch
           n == Cardinality(batch)
<1>1. PICK error \in [batch -> Nat] :
        /\ \A r \in batch : error[r] = assignments'[r].error
        /\ profileStats' =
             [p \in Profiles |-> IF p = worker[w].profile
                                 THEN Plus(profileStats[p], SumFunctionOnSet(error, batch), n)
                                 ELSE Plus(profileStats[p], 0, 0)]
        /\ global' = Plus(global, SumFunctionOnSet(error, batch), n)
  BY CommitAssigns
<1>2. w \in Busy /\ worker[w].profile \in Profiles /\ IsFiniteSet(batch)
      /\ n \in 1 .. BatchSize
  BY CommitAssigns, FiniteAccounts DEF TypeInv, WorkerTypes, Jobs
<1>3. n \in Nat \ {0}
  BY <1>2, PolicyTypes DEF TypeInv, AccountTypes
<1> DEFINE S == SumFunctionOnSet(error, batch)
<1>4. S \in Int
  BY <1>1, <1>2, SumType
<1>5. profileStats \in [Profiles -> [sum : Int, count : Nat]] /\ global \in [sum : Int, count : Nat]
  BY DEF TypeInv, AccountTypes
<1> HIDE DEF S, n
<1>6. /\ global' \in [sum : Int, count : Nat]
      /\ global'.sum = global.sum + S /\ global'.count = global.count + n
  BY <1>1, <1>3, <1>4, <1>5, PlusType DEF S, n
<1>7. \A p \in Profiles :
        profileStats'[p] = IF p = worker[w].profile THEN Plus(profileStats[p], S, n)
                                                    ELSE Plus(profileStats[p], 0, 0)
  BY <1>1 DEF S, n
<1>8. \A p \in Profiles : p # worker[w].profile =>
        /\ profileStats'[p] \in [sum : Int, count : Nat]
        /\ profileStats'[p].sum = profileStats[p].sum
        /\ profileStats'[p].count = profileStats[p].count
  <2> SUFFICES ASSUME NEW p \in Profiles, p # worker[w].profile
               PROVE  /\ profileStats'[p] \in [sum : Int, count : Nat]
                      /\ profileStats'[p].sum = profileStats[p].sum
                      /\ profileStats'[p].count = profileStats[p].count
    OBVIOUS
  <2>1. profileStats'[p] = Plus(profileStats[p], 0, 0) /\ profileStats[p] \in [sum : Int, count : Nat]
    BY <1>5, <1>7
  <2>2. profileStats[p].sum \in Int /\ profileStats[p].count \in Nat
    BY <2>1
  <2>3. profileStats'[p] = [sum |-> profileStats[p].sum, count |-> profileStats[p].count]
    BY <2>1, <2>2 DEF Plus
  <2> QED
    BY <2>2, <2>3
<1>9. /\ profileStats'[worker[w].profile] \in [sum : Int, count : Nat]
      /\ profileStats'[worker[w].profile].sum = profileStats[worker[w].profile].sum + S
      /\ profileStats'[worker[w].profile].count = profileStats[worker[w].profile].count + n
  BY <1>2, <1>3, <1>4, <1>5, <1>7, PlusType
<1>10. profileStats' \in [Profiles -> [sum : Int, count : Nat]]
  <2>1. \A p \in Profiles : profileStats'[p] \in [sum : Int, count : Nat]
    BY <1>8, <1>9
  <2>2. profileStats' = [p \in Profiles |-> profileStats'[p]]
    BY <1>1
  <2> QED
    BY <2>1, <2>2
<1> QED
  BY <1>1, <1>2, <1>3, <1>4, <1>6, <1>8, <1>9, <1>10, ZenonT(40) DEF S, n

\* A commit keeps the types.
LEMMA CommitTypes ==
  ASSUME TypeInv, NEW w \in Workers, Commit(w)
  PROVE  TypeInv'
<1>1. /\ UNCHANGED << policy, slot, pending, received, call, reported >>
      /\ worker' = Restrict(worker, Busy \ {w})
  BY DEF Commit, fixed
<1>2. Busy' = Busy \ {w} /\ \A v \in Busy' : worker'[v] = worker[v]
  BY <1>1 DEF Restrict, Busy
<1>3. UNCHANGED << LockFuture, BatchSize, Slots, AssignmentRecs, Jobs >>
  BY <1>1 DEF LockFuture, BatchSize, Slots, AssignmentRecs, Jobs
<1>4. /\ worker[w] \in Jobs /\ worker[w].batch \subseteq Requests
      /\ \A r \in worker[w].batch : ProfileOf[r] = worker[w].profile /\ r \notin pending
  BY CommitAssigns DEF TypeInv, WorkerTypes, Jobs
<1>5. AccountTypes'
  BY <1>1, <1>3, CommitAccounts DEF TypeInv, AccountTypes
<1>6. AssignmentTypes'
  <2>1. \A r \in Assigned \ worker[w].moved :
           /\ assignments'[r] \in AssignmentRecs /\ assignments'[r].profile = ProfileOf[r]
    BY CommitAssigns DEF TypeInv, AssignmentTypes
  <2> QED
    BY <2>1, <1>3, <1>4, CommitAssigns DEF TypeInv, AssignmentTypes
<1>7. PendingUnassigned'
  BY <1>1, <1>4, CommitAssigns DEF TypeInv, PendingUnassigned
<1>8. CallTypes'
  BY <1>1, CommitAssigns DEF TypeInv, CallTypes
<1>9. WorkerTypes'
  <2>1. ASSUME NEW v \in Busy', NEW r \in worker'[v].batch
        PROVE  /\ ProfileOf[r] = worker'[v].profile
               /\ r \notin pending' /\ r \notin Assigned'
    <3>1. worker'[v] = worker[v] /\ v \in Busy /\ v # w /\ w \in Busy
      BY <1>2, CommitAssigns
    <3>2. ProfileOf[r] = worker[v].profile /\ r \notin pending /\ r \notin Assigned
      BY <3>1 DEF TypeInv, WorkerTypes
    <3>3. worker[v].profile # worker[w].profile
      BY <3>1 DEF TypeInv, WorkerTypes
    <3>4. r \notin worker[w].batch
      BY <3>2, <3>3, <1>4
    <3> QED
      BY <3>1, <3>2, <3>4, <1>1, CommitAssigns
  <2>2. ASSUME NEW v \in Busy'
        PROVE  /\ worker'[v] \in Jobs
               /\ Cardinality(worker'[v].batch) \in 1 .. BatchSize'
               /\ worker'[v].moved \subseteq Assigned'
               /\ \A r \in worker'[v].moved : ProfileOf[r] = worker'[v].profile
               /\ LockFuture' => worker'[v].moved = {}
    BY <1>2, <1>3, CommitAssigns DEF TypeInv, WorkerTypes
  <2>3. Busy' \subseteq Workers
        /\ \A u, v \in Busy' : u # v => worker'[u].profile # worker'[v].profile
    BY <1>2 DEF TypeInv, WorkerTypes
  <2> QED
    BY <2>1, <2>2, <2>3 DEF WorkerTypes
<1> QED
  BY <1>5, <1>6, <1>7, <1>8, <1>9 DEF TypeInv

-----------------------------------------------------------------------------
(* A slot's end, and the callbacks. *)

\* The slot ends with no worker busy.
LEMMA TickTypes == TypeInv /\ Tick => TypeInv'
<1> SUFFICES ASSUME TypeInv, Tick PROVE TypeInv'
  OBVIOUS
<1>1. /\ slot < TotalSlots - 1 /\ slot' = slot + 1
      /\ UNCHANGED << policy, pending, assignments, profileStats, global, worker,
                      received, call, reported >>
  BY DEF Tick, ledger
<1>2. UNCHANGED << LockFuture, BatchSize, Slots, AssignmentRecs, Jobs, Assigned, Busy >>
  BY <1>1 DEF LockFuture, BatchSize, Slots, AssignmentRecs, Jobs, Assigned, Busy
<1>3. slot' \in Slots
  BY <1>1, LedgerAssumption DEF TypeInv, AccountTypes, Slots
<1>4. AccountTypes'
  BY <1>1, <1>2, <1>3 DEF TypeInv, AccountTypes
<1>5. AssignmentTypes' /\ PendingUnassigned' /\ CallTypes'
  BY <1>1, <1>2 DEF TypeInv, AssignmentTypes, PendingUnassigned, CallTypes
<1>6. WorkerTypes'
  BY <1>1, <1>2 DEF TypeInv, WorkerTypes
<1> QED
  BY <1>4, <1>5, <1>6 DEF TypeInv

\* What has been dispatched is assigned.
LEMMA DispatchedAssigned == Dispatched \subseteq Assigned
BY DEF Dispatched

\* A delivery that is under way is a record of its request.
LEMMA CallPcs ==
  ASSUME TypeInv, NEW c \in Calls
  PROVE  /\ call[c] \in ActiveCalls => /\ call[c].request \in received
                                       /\ call[c].request \in Assigned
                                       /\ call[c].actual \in Nat /\ call[c].cost \in Nat
                                       /\ call[c].pc \notin {"idle", "done"}
         /\ call[c].pc \in {"correct", "read", "write", "track"} => call[c] \in ActiveCalls
         /\ Idle \notin ActiveCalls /\ Done \notin ActiveCalls
<1>1. Idle.pc = "idle" /\ Done.pc = "done"
  BY DEF Idle, Done
<1>2. \A k \in ActiveCalls : k.pc \in {"correct", "read", "write", "track"}
                             /\ k.actual \in Nat /\ k.cost \in Nat
  BY DEF ActiveCalls
<1>3. call[c] \in {Idle, Done} \cup ActiveCalls
      /\ (call[c] \in ActiveCalls => call[c].request \in received)
      /\ received \subseteq Assigned
  BY DEF TypeInv, CallTypes
<1> QED
  BY <1>1, <1>2, <1>3

\* A step that only touches a call in progress and the request it is about.
LEMMA CallbackFrame ==
  ASSUME TypeInv,
         UNCHANGED << policy, slot, pending, worker >>,
         Assigned' = Assigned, AssignmentTypes', AccountTypes', CallTypes'
  PROVE  TypeInv'
<1>1. UNCHANGED << LockFuture, BatchSize, Jobs, Busy >>
  BY DEF LockFuture, BatchSize, Jobs, Busy
<1>2. WorkerTypes'
  BY <1>1 DEF TypeInv, WorkerTypes
<1>3. PendingUnassigned'
  BY DEF TypeInv, PendingUnassigned
<1> QED
  BY <1>2, <1>3 DEF TypeInv

\* What the first delivery for a request, and a later one, does.
LEMMA ClaimCallbackCases ==
  ASSUME TypeInv, NEW c \in Calls, ClaimCallback(c)
  PROVE  /\ call[c] = Idle
         /\ UNCHANGED << policy, slot, pending, assignments, profileStats, global,
                         worker, reported >>
         /\ \/ received' = received /\ call' = [call EXCEPT ![c] = Done]
            \/ \E r \in Assigned \ received, actual \in Nat :
                 /\ received' = received \cup {r}
                 /\ call' = [call EXCEPT ![c] =
                      [pc |-> "correct", request |-> r, actual |-> actual, cost |-> 0]]
<1>1. PICK r \in Dispatched, actual \in ActualErrors :
       IF r \in received
       THEN call' = [call EXCEPT ![c] = [pc |-> "done"]] /\ UNCHANGED received
       ELSE /\ received' = received \cup {r}
            /\ call' = [call EXCEPT ![c] =
                 [pc |-> "correct", request |-> r, actual |-> actual, cost |-> 0]]
  BY DEF ClaimCallback
<1>2. r \in Assigned /\ actual \in Nat
  BY DispatchedAssigned, LedgerAssumption
<1>3. CASE r \in received
  BY <1>1, <1>3 DEF ClaimCallback, fixed, ledger, Done
<1>4. CASE r \notin received
  BY <1>1, <1>2, <1>4 DEF ClaimCallback, fixed, ledger
<1> QED
  BY <1>3, <1>4

\* The start of a callback keeps the types.
LEMMA ClaimCallbackTypes ==
  ASSUME TypeInv, NEW c \in Calls, ClaimCallback(c)
  PROVE  TypeInv'
<1>1. UNCHANGED << policy, slot, pending, assignments, profileStats, global, worker, reported >>
  BY ClaimCallbackCases
<1>2. UNCHANGED << Assigned, AssignmentRecs, Slots >>
  BY <1>1 DEF Assigned, AssignmentRecs, Slots
<1>3. AccountTypes' /\ AssignmentTypes'
  BY <1>1, <1>2 DEF TypeInv, AccountTypes, AssignmentTypes
<1>4. CallTypes'
  <2>1. CASE received' = received /\ call' = [call EXCEPT ![c] = Done]
    <3>1. \A d \in Calls : d # c => call'[d] = call[d]
      BY <2>1 DEF TypeInv, CallTypes
    <3>2. call'[c] = Done /\ Done \notin ActiveCalls
      BY <2>1, CallPcs DEF TypeInv, CallTypes
    <3>3. call' \in [Calls -> {Idle, Done} \cup ActiveCalls]
      BY <2>1 DEF TypeInv, CallTypes
    <3> QED
      BY <3>1, <3>2, <3>3, <2>1, <1>1, <1>2 DEF TypeInv, CallTypes
  <2>2. ASSUME NEW r \in Assigned \ received, NEW actual \in Nat,
               received' = received \cup {r},
               call' = [call EXCEPT ![c] =
                 [pc |-> "correct", request |-> r, actual |-> actual, cost |-> 0]]
        PROVE  CallTypes'
    <3> DEFINE k == [pc |-> "correct", request |-> r, actual |-> actual, cost |-> 0]
    <3>1. k \in ActiveCalls
      BY DEF ActiveCalls, TypeInv, AssignmentTypes
    <3>2. \A d \in Calls : d # c => call'[d] = call[d]
      BY <2>2 DEF TypeInv, CallTypes
    <3>3. call'[c] = k /\ call'[c].request = r
      BY <2>2 DEF TypeInv, CallTypes
    <3>4. call' \in [Calls -> {Idle, Done} \cup ActiveCalls]
      BY <2>2, <3>1 DEF TypeInv, CallTypes
    <3> HIDE DEF k
    <3> QED
      BY <3>2, <3>3, <3>4, <2>2, <1>1, <1>2 DEF TypeInv, CallTypes
  <2> QED
    BY <2>1, <2>2, ClaimCallbackCases
<1> QED
  BY <1>1, <1>2, <1>3, <1>4, CallbackFrame

\* A delivery that goes on keeps its request, and the others are left alone.
LEMMA CallAdvances ==
  ASSUME TypeInv, NEW c \in Calls, call[c] \in ActiveCalls, NEW k,
         k \in ActiveCalls, k.request = call[c].request,
         call' = [call EXCEPT ![c] = k], received' = received, reported' = reported,
         Assigned' = Assigned
  PROVE  /\ CallTypes' /\ call'[c] = k
         /\ \A d \in Calls : d # c => call'[d] = call[d]
         /\ \A d \in Calls : call'[d] \in ActiveCalls <=> call[d] \in ActiveCalls
         /\ \A d \in Calls : call[d] \in ActiveCalls => call'[d].request = call[d].request
<1>1. call'[c] = k /\ \A d \in Calls : d # c => call'[d] = call[d]
  BY DEF TypeInv, CallTypes
<1>2. call' \in [Calls -> {Idle, Done} \cup ActiveCalls]
  BY DEF TypeInv, CallTypes
<1>3. k.request \in received
  BY CallPcs
<1> QED
  BY <1>1, <1>2, <1>3 DEF TypeInv, CallTypes

\* correct_assignment_error: the assignment takes the measured error and both
\* accounts the difference.
LEMMA CorrectCases ==
  ASSUME TypeInv, NEW c \in Calls, correct_assignment_error(c)
  PROVE  /\ call[c] \in ActiveCalls /\ call[c].pc = "correct"
         /\ call[c].request \in Assigned
         /\ UNCHANGED << policy, slot, pending, worker, received, reported >>
         /\ Assigned' = Assigned
         /\ \A r \in Assigned : r # call[c].request => assignments'[r] = assignments[r]
         /\ assignments'[call[c].request]
              = [assignments[call[c].request] EXCEPT !.error = call[c].actual]
         /\ call' = [call EXCEPT ![c] = [call[c] EXCEPT !.pc = "read"]]
         /\ [call[c] EXCEPT !.pc = "read"] \in ActiveCalls
         /\ global' = Plus(global, call[c].actual - assignments[call[c].request].error, 0)
         /\ profileStats' = [profileStats EXCEPT ![ProfileOf[call[c].request]] =
              Plus(@, call[c].actual - assignments[call[c].request].error, 0)]
<1>1. call[c].pc = "correct" /\ call[c] \in ActiveCalls
  BY CallPcs DEF correct_assignment_error
<1>2. call[c].request \in Assigned
  BY <1>1, CallPcs
<1>3. /\ assignments' = [assignments EXCEPT ![call[c].request].error = call[c].actual]
      /\ global' = Plus(global, call[c].actual - assignments[call[c].request].error, 0)
      /\ profileStats' = [profileStats EXCEPT
                              ![assignments[call[c].request].profile] =
              Plus(@, call[c].actual - assignments[call[c].request].error, 0)]
      /\ call' = [call EXCEPT ![c].pc = "read"]
      /\ UNCHANGED << policy, slot, pending, worker, received, reported >>
  BY DEF correct_assignment_error, fixed
<1>4. assignments[call[c].request].profile = ProfileOf[call[c].request]
  BY <1>2 DEF TypeInv, AssignmentTypes
<1>5. /\ Assigned' = Assigned
      /\ \A r \in Assigned : r # call[c].request => assignments'[r] = assignments[r]
      /\ assignments'[call[c].request]
           = [assignments[call[c].request] EXCEPT !.error = call[c].actual]
  BY <1>2, <1>3 DEF Assigned
<1>6. [call[c] EXCEPT !.pc = "read"] \in ActiveCalls
  BY <1>1 DEF ActiveCalls
<1> QED
  BY <1>1, <1>2, <1>3, <1>4, <1>5, <1>6

\* The correction of an account keeps the types.
LEMMA CorrectTypes ==
  ASSUME TypeInv, NEW c \in Calls, correct_assignment_error(c)
  PROVE  TypeInv'
<1> DEFINE r == call[c].request
           delta == call[c].actual - assignments[r].error
<1>1. /\ r \in Assigned /\ ProfileOf[r] \in Profiles /\ call[c].actual \in Nat
      /\ assignments[r] \in AssignmentRecs
  BY CorrectCases, CallPcs, LedgerAssumption DEF TypeInv, AssignmentTypes
<1>2. delta \in Int
  BY <1>1 DEF AssignmentRecs
<1>3. UNCHANGED << AssignmentRecs, Slots >>
  BY CorrectCases DEF AssignmentRecs, Slots
<1>4. AssignmentTypes'
  <2>1. assignments'[r] \in AssignmentRecs /\ assignments'[r].profile = ProfileOf[r]
    <3>1. assignments'[r] = [assignments[r] EXCEPT !.error = call[c].actual]
      BY CorrectCases
    <3>2. assignments[r].profile = ProfileOf[r]
      BY <1>1 DEF TypeInv, AssignmentTypes
    <3> QED
      BY <3>1, <3>2, <1>1 DEF AssignmentRecs
  <2>2. /\ Assigned' = Assigned
        /\ \A q \in Assigned : q # r => assignments'[q] = assignments[q]
    BY CorrectCases
  <2>3. \A q \in Assigned : /\ assignments[q] \in AssignmentRecs
                            /\ assignments[q].profile = ProfileOf[q]
    BY DEF TypeInv, AssignmentTypes
  <2>4. Assigned \subseteq Requests
    BY DEF TypeInv, AssignmentTypes
  <2> QED
    BY <2>1, <2>2, <2>3, <2>4, <1>3 DEF AssignmentTypes
<1>5. AccountTypes'
  <2>1. global' \in [sum : Int, count : Nat]
    <3>1. global' = Plus(global, delta, 0) /\ global \in [sum : Int, count : Nat]
      BY CorrectCases DEF TypeInv, AccountTypes
    <3> HIDE DEF delta
    <3> QED
      BY <3>1, <1>2, PlusType
  <2>2. Plus(profileStats[ProfileOf[r]], delta, 0) \in [sum : Int, count : Nat]
    BY <1>1, <1>2, PlusType DEF TypeInv, AccountTypes
  <2>3. profileStats' \in [Profiles -> [sum : Int, count : Nat]]
    BY <2>2, CorrectCases DEF TypeInv, AccountTypes
  <2> QED
    BY <2>1, <2>3, <1>3, CorrectCases DEF TypeInv, AccountTypes
<1>6. CallTypes'
  <2> DEFINE k == [call[c] EXCEPT !.pc = "read"]
  <2>1. /\ k \in ActiveCalls /\ call' = [call EXCEPT ![c] = k]
        /\ call[c] \in ActiveCalls
        /\ received' = received /\ reported' = reported /\ Assigned' = Assigned
    BY CorrectCases
  <2>2. k.request = call[c].request
    BY <2>1 DEF ActiveCalls
  <2> HIDE DEF k
  <2> QED
    BY <2>1, <2>2, CallAdvances
<1> QED
  BY <1>4, <1>5, <1>6, CorrectCases, CallbackFrame

\* The read of the cost ...
LEMMA ReadCostCases ==
  ASSUME TypeInv, NEW c \in Calls, ReadCost(c)
  PROVE  /\ call[c] \in ActiveCalls /\ call[c].pc = "read"
         /\ call[c].request \in Assigned
         /\ UNCHANGED << policy, slot, pending, assignments, profileStats, global,
                         worker, received, reported >>
         /\ \E k \in ActiveCalls :
              /\ call' = [call EXCEPT ![c] = k]
              /\ k.request = call[c].request /\ k.actual = call[c].actual
              /\ k.pc = "write" /\ k.cost = assignments[call[c].request].cost
<1>1. call[c].pc = "read" /\ call[c] \in ActiveCalls
  BY CallPcs DEF ReadCost
<1>2. call[c].request \in Assigned
  BY <1>1, CallPcs
<1> DEFINE n == assignments[call[c].request].cost
           k == [[call[c] EXCEPT !.pc = "write"] EXCEPT !.cost = n]
<1>3. n \in Nat
  BY <1>2 DEF TypeInv, AssignmentTypes, AssignmentRecs
<1>4. /\ k \in ActiveCalls /\ k.request = call[c].request /\ k.actual = call[c].actual
      /\ k.pc = "write" /\ k.cost = n
  BY <1>1, <1>3 DEF ActiveCalls
<1>5. call' = [call EXCEPT ![c] = k]
  BY <1>1 DEF ReadCost, TypeInv, CallTypes
<1> QED
  BY <1>1, <1>2, <1>4, <1>5 DEF ReadCost, fixed, ledger

\* The read of a cost keeps the types.
LEMMA ReadCostTypes ==
  ASSUME TypeInv, NEW c \in Calls, ReadCost(c)
  PROVE  TypeInv'
<1>1. UNCHANGED << policy, slot, pending, assignments, profileStats, global,
                   worker, received, reported >>
  BY ReadCostCases
<1>2. UNCHANGED << Assigned, AssignmentRecs, Slots >>
  BY <1>1 DEF Assigned, AssignmentRecs, Slots
<1>3. AccountTypes' /\ AssignmentTypes'
  BY <1>1, <1>2 DEF TypeInv, AccountTypes, AssignmentTypes
<1>4. CallTypes'
  BY <1>1, <1>2, ReadCostCases, CallAdvances
<1> QED
  BY <1>1, <1>2, <1>3, <1>4, CallbackFrame

\* ... and its write.
LEMMA WriteCostCases ==
  ASSUME TypeInv, NEW c \in Calls, correct_assignment_carbon_cost(c)
  PROVE  /\ call[c] \in ActiveCalls /\ call[c].pc = "write"
         /\ call[c].request \in Assigned
         /\ UNCHANGED << policy, slot, pending, profileStats, global, worker,
                         received, reported >>
         /\ Assigned' = Assigned
         /\ \A r \in Assigned : r # call[c].request => assignments'[r] = assignments[r]
         /\ assignments'[call[c].request]
              = [assignments[call[c].request] EXCEPT !.cost = call[c].cost + 1]
         /\ call' = [call EXCEPT ![c] = [call[c] EXCEPT !.pc = "track"]]
         /\ [call[c] EXCEPT !.pc = "track"] \in ActiveCalls
<1>1. call[c].pc = "write" /\ call[c] \in ActiveCalls
  BY CallPcs DEF correct_assignment_carbon_cost
<1>2. call[c].request \in Assigned
  BY <1>1, CallPcs
<1>3. /\ assignments' = [assignments EXCEPT ![call[c].request].cost = call[c].cost + 1]
      /\ call' = [call EXCEPT ![c].pc = "track"]
      /\ UNCHANGED << policy, slot, pending, profileStats, global, worker,
                      received, reported >>
  BY DEF correct_assignment_carbon_cost, fixed
<1>4. /\ Assigned' = Assigned
      /\ \A r \in Assigned : r # call[c].request => assignments'[r] = assignments[r]
      /\ assignments'[call[c].request]
           = [assignments[call[c].request] EXCEPT !.cost = call[c].cost + 1]
  BY <1>2, <1>3 DEF Assigned
<1>5. [call[c] EXCEPT !.pc = "track"] \in ActiveCalls
  BY <1>1 DEF ActiveCalls
<1> QED
  BY <1>1, <1>2, <1>3, <1>4, <1>5

\* The write of a cost keeps the types.
LEMMA WriteCostTypes ==
  ASSUME TypeInv, NEW c \in Calls, correct_assignment_carbon_cost(c)
  PROVE  TypeInv'
<1> DEFINE r == call[c].request
<1>1. /\ r \in Assigned /\ assignments[r] \in AssignmentRecs /\ call[c].cost \in Nat
      /\ assignments[r].profile = ProfileOf[r]
  BY WriteCostCases, CallPcs DEF TypeInv, AssignmentTypes
<1>2. UNCHANGED << AssignmentRecs, Slots >>
  BY WriteCostCases DEF AssignmentRecs, Slots
<1>3. AssignmentTypes'
  <2>1. assignments'[r] \in AssignmentRecs /\ assignments'[r].profile = ProfileOf[r]
    <3>1. assignments'[r] = [assignments[r] EXCEPT !.cost = call[c].cost + 1]
      BY WriteCostCases
    <3> QED
      BY <3>1, <1>1 DEF AssignmentRecs
  <2>2. /\ Assigned' = Assigned
        /\ \A q \in Assigned : q # r => assignments'[q] = assignments[q]
    BY WriteCostCases
  <2>3. \A q \in Assigned : /\ assignments[q] \in AssignmentRecs
                            /\ assignments[q].profile = ProfileOf[q]
    BY DEF TypeInv, AssignmentTypes
  <2>4. Assigned \subseteq Requests
    BY DEF TypeInv, AssignmentTypes
  <2> QED
    BY <2>1, <2>2, <2>3, <2>4, <1>2 DEF AssignmentTypes
<1>4. AccountTypes'
  BY <1>2, WriteCostCases DEF TypeInv, AccountTypes
<1>5. CallTypes'
  <2> DEFINE k == [call[c] EXCEPT !.pc = "track"]
  <2>1. /\ k \in ActiveCalls /\ call' = [call EXCEPT ![c] = k]
        /\ call[c] \in ActiveCalls
        /\ received' = received /\ reported' = reported /\ Assigned' = Assigned
    BY WriteCostCases
  <2>2. k.request = call[c].request
    BY <2>1 DEF ActiveCalls
  <2> HIDE DEF k
  <2> QED
    BY <2>1, <2>2, CallAdvances
<1> QED
  BY <1>3, <1>4, <1>5, WriteCostCases, CallbackFrame

\* What the last step of a callback does.
LEMMA TrackCases ==
  ASSUME TypeInv, NEW c \in Calls, TrackResult(c)
  PROVE  /\ call[c] \in ActiveCalls /\ call[c].pc = "track"
         /\ call[c].request \in received /\ call[c].request \in Assigned
         /\ UNCHANGED << policy, slot, pending, assignments, profileStats, global,
                         worker, received >>
         /\ DOMAIN reported' = DOMAIN reported \cup {call[c].request}
         /\ reported'[call[c].request] = call[c].actual
         /\ \A r \in DOMAIN reported : r # call[c].request => reported'[r] = reported[r]
         /\ call'[c] = Done /\ \A d \in Calls : d # c => call'[d] = call[d]
         /\ CallTypes'
<1>1. call[c].pc = "track" /\ call[c] \in ActiveCalls
  BY CallPcs DEF TrackResult
<1>2. call[c].request \in received /\ call[c].request \in Assigned
  BY <1>1, CallPcs
<1>3. UNCHANGED << policy, slot, pending, assignments, profileStats, global, worker, received >>
  BY DEF TrackResult, fixed, ledger
<1>4. reported' = [r \in DOMAIN reported \cup {call[c].request} |->
                     IF r = call[c].request THEN call[c].actual ELSE reported[r]]
  BY DEF TrackResult
<1>5. /\ DOMAIN reported' = DOMAIN reported \cup {call[c].request}
      /\ reported'[call[c].request] = call[c].actual
      /\ \A r \in DOMAIN reported : r # call[c].request => reported'[r] = reported[r]
  BY <1>4
<1>6. call' = [call EXCEPT ![c] = Done]
  BY DEF TrackResult, Done
<1>7. call'[c] = Done /\ \A d \in Calls : d # c => call'[d] = call[d]
  BY <1>6 DEF TypeInv, CallTypes
<1>8. call' \in [Calls -> {Idle, Done} \cup ActiveCalls]
  BY <1>6 DEF TypeInv, CallTypes
<1>9. CallTypes'
  BY <1>2, <1>3, <1>5, <1>7, <1>8, CallPcs DEF TypeInv, CallTypes, Assigned
<1> QED
  BY <1>1, <1>2, <1>3, <1>5, <1>7, <1>9

\* The last step of a callback keeps the types.
LEMMA TrackTypes ==
  ASSUME TypeInv, NEW c \in Calls, TrackResult(c)
  PROVE  TypeInv'
<1>1. UNCHANGED << policy, slot, pending, assignments, profileStats, global,
                   worker, received >>
  BY TrackCases
<1>2. UNCHANGED << Assigned, AssignmentRecs, Slots >>
  BY <1>1 DEF Assigned, AssignmentRecs, Slots
<1>3. AccountTypes' /\ AssignmentTypes'
  BY <1>1, <1>2 DEF TypeInv, AccountTypes, AssignmentTypes
<1> QED
  BY <1>1, <1>2, <1>3, TrackCases, CallbackFrame

\* Every step keeps the types.
LEMMA TypeNext == TypeInv /\ [Next]_vars => TypeInv'
<1> SUFFICES ASSUME TypeInv, [Next]_vars PROVE TypeInv'
  OBVIOUS
<1>1. ASSUME NEW w \in Workers, Prepare(w) PROVE TypeInv'
  BY <1>1, PrepareTypes
<1>2. ASSUME NEW w \in Workers, Commit(w) PROVE TypeInv'
  BY <1>2, CommitTypes
<1>3. CASE Tick
  BY <1>3, TickTypes
<1>4. ASSUME NEW c \in Calls, ClaimCallback(c) PROVE TypeInv'
  BY <1>4, ClaimCallbackTypes
<1>5. ASSUME NEW c \in Calls, correct_assignment_error(c) PROVE TypeInv'
  BY <1>5, CorrectTypes
<1>6. ASSUME NEW c \in Calls, ReadCost(c) PROVE TypeInv'
  BY <1>6, ReadCostTypes
<1>7. ASSUME NEW c \in Calls, correct_assignment_carbon_cost(c) PROVE TypeInv'
  BY <1>7, WriteCostTypes
<1>8. ASSUME NEW c \in Calls, TrackResult(c) PROVE TypeInv'
  BY <1>8, TrackTypes
<1>9. CASE UNCHANGED vars
  BY <1>9 DEF vars, TypeInv, AccountTypes, AssignmentTypes, WorkerTypes, PendingUnassigned,
       CallTypes, LockFuture, BatchSize, Slots, AssignmentRecs, Jobs, Assigned, Busy
<1> QED
  BY <1>1, <1>2, <1>3, <1>4, <1>5, <1>6, <1>7, <1>8, <1>9 DEF Next

\* Types hold: a request is in the queue, in one worker's hands or assigned,
\* whatever the workers and the deliveries do.
THEOREM AccountsTyped == Spec => []TypeInv
<1> QED
  BY TypeInit, TypeNext, PTL DEF Spec

\* The types the runs check follow.
THEOREM TypeCorrect == Spec => []TypeOK
<1>1. TypeInv => TypeOK
  <2> SUFFICES ASSUME TypeInv PROVE TypeOK
    OBVIOUS
  <2>1. policy \in Policies /\ slot \in Slots /\ pending \subseteq Requests
        /\ profileStats \in [Profiles -> [sum : Int, count : Nat]]
        /\ global \in [sum : Int, count : Nat]
    BY DEF TypeInv, AccountTypes
  <2>2. Assigned \subseteq Requests /\ \A r \in Assigned : assignments[r] \in AssignmentRecs
    BY DEF TypeInv, AssignmentTypes
  <2>3. Busy \subseteq Workers /\ InFlight \cap (pending \cup Assigned) = {}
    BY DEF TypeInv, WorkerTypes, InFlight
  <2>4. received \subseteq Assigned /\ DOMAIN reported \subseteq received
    BY DEF TypeInv, CallTypes
  <2> QED
    BY <2>1, <2>2, <2>3, <2>4 DEF TypeOK, AssignmentRecs
<1> QED
  BY <1>1, AccountsTyped, PTL

-----------------------------------------------------------------------------
(* One measurement per request. *)

Measured(c) == assignments[call[c].request].error = call[c].actual
Priced(c) == assignments[call[c].request].cost

\* How far a delivery got decides what the assignment says.
Underway(c) ==
  /\ call[c].request \notin DOMAIN reported
  /\ call[c].pc \in {"correct", "read", "write"} => Priced(c) = 0
  /\ call[c].pc = "write" => call[c].cost = 0
  /\ call[c].pc = "track" => Priced(c) = 1
  /\ call[c].pc # "correct" => Measured(c)

CostsOnce == \A r \in Assigned : /\ assignments[r].cost \in {0, 1}
                                 /\ r \notin received => assignments[r].cost = 0
ReportsHeld == \A r \in DOMAIN reported : /\ assignments[r].cost = 1
                                          /\ assignments[r].error = reported[r]
CallsUnderway == \A c \in Calls : call[c] \in ActiveCalls => Underway(c)

\* One delivery at most works on a request.
CallsApart == \A c, d \in Calls :
                call[c] \in ActiveCalls /\ call[d] \in ActiveCalls /\ c # d
                  => call[c].request # call[d].request
OnceInv == CostsOnce /\ ReportsHeld /\ CallsUnderway /\ CallsApart

\* A re-planned assignment starts over, so this is of locked ones.
MeasuredInv == LockFuture => OnceInv

\* Initially nothing has been reported.
LEMMA OnceInit == Init => OnceInv
<1> SUFFICES ASSUME Init PROVE OnceInv
  OBVIOUS
<1>1. Assigned = {} /\ DOMAIN reported = {}
  BY DEF Init, Assigned
<1>2. \A c \in Calls : call[c] \notin ActiveCalls
  BY DEF Init, Idle, ActiveCalls
<1> QED
  BY <1>1, <1>2 DEF OnceInv, CostsOnce, ReportsHeld, CallsUnderway, CallsApart

\* A step that writes no assignment that exists and no call.
LEMMA OnceKept ==
  ASSUME TypeInv, OnceInv, UNCHANGED << received, call, reported >>,
         \A r \in Assigned : r \in Assigned' /\ assignments'[r] = assignments[r],
         \A r \in Assigned' \ Assigned : assignments'[r].cost = 0
  PROVE  OnceInv'
<1>1. received \subseteq Assigned /\ DOMAIN reported \subseteq received
  BY DEF TypeInv, CallTypes
<1>2. CostsOnce'
  BY <1>1 DEF OnceInv, CostsOnce
<1>3. ReportsHeld'
  BY <1>1 DEF OnceInv, ReportsHeld
<1>4. CallsApart'
  BY DEF OnceInv, CallsApart
<1>5. CallsUnderway'
  <2> SUFFICES ASSUME NEW c \in Calls, call'[c] \in ActiveCalls PROVE Underway(c)'
    BY DEF CallsUnderway
  <2>1. call'[c] = call[c] /\ call[c] \in ActiveCalls
    OBVIOUS
  <2>2. Underway(c) /\ call[c].request \in Assigned
    BY <2>1, CallPcs DEF OnceInv, CallsUnderway
  <2> QED
    BY <2>1, <2>2 DEF Underway, Measured, Priced
<1> QED
  BY <1>2, <1>3, <1>4, <1>5 DEF OnceInv

\* A locked commit assigns its batch and re-plans nothing.
LEMMA OnceCommit ==
  ASSUME TypeInv, OnceInv, LockFuture, NEW w \in Workers, Commit(w)
  PROVE  OnceInv'
<1>1. worker[w].moved = {}
  BY CommitAssigns DEF TypeInv, WorkerTypes
<1>2. UNCHANGED << received, call, reported >>
  BY DEF Commit, fixed
<1>3. \A r \in Assigned : r \in Assigned' /\ assignments'[r] = assignments[r]
  BY <1>1, CommitAssigns
<1>4. \A r \in Assigned' \ Assigned : assignments'[r].cost = 0
  BY <1>1, CommitAssigns
<1> QED
  BY <1>2, <1>3, <1>4, OnceKept

\* A first delivery finds a request no other delivery works on, nobody was told
\* about and no cost was repriced for; a later one changes nothing.
LEMMA OnceClaim ==
  ASSUME TypeInv, OnceInv, NEW c \in Calls, ClaimCallback(c)
  PROVE  OnceInv'
<1>1. call[c] = Idle /\ call[c] \notin ActiveCalls
  BY ClaimCallbackCases, CallPcs
<1>2. UNCHANGED << assignments, reported, Assigned >>
  BY ClaimCallbackCases DEF Assigned
<1>3. received \subseteq Assigned /\ DOMAIN reported \subseteq received
  BY DEF TypeInv, CallTypes
<1>4. ReportsHeld'
  BY <1>2 DEF OnceInv, ReportsHeld
<1>5. CASE received' = received /\ call' = [call EXCEPT ![c] = Done]
  <2>1. call'[c] = Done /\ \A d \in Calls : d # c => call'[d] = call[d]
    BY <1>5 DEF TypeInv, CallTypes
  <2>2. call'[c] \notin ActiveCalls
    BY <2>1, CallPcs
  <2>3. CostsOnce' /\ CallsApart'
    BY <1>2, <1>5, <2>1, <2>2 DEF OnceInv, CostsOnce, CallsApart
  <2>4. CallsUnderway'
    BY <1>2, <2>1, <2>2 DEF OnceInv, CallsUnderway, Underway, Measured, Priced
  <2> QED
    BY <1>4, <2>3, <2>4 DEF OnceInv
<1>6. ASSUME NEW r \in Assigned \ received, NEW actual \in Nat,
             received' = received \cup {r},
             call' = [call EXCEPT ![c] =
               [pc |-> "correct", request |-> r, actual |-> actual, cost |-> 0]]
      PROVE  OnceInv'
  <2>1. /\ call'[c] = [pc |-> "correct", request |-> r, actual |-> actual, cost |-> 0]
        /\ \A d \in Calls : d # c => call'[d] = call[d]
    BY <1>6 DEF TypeInv, CallTypes
  <2>2. call'[c].request = r /\ call'[c].pc = "correct"
    BY <2>1
  <2>3. \A d \in Calls : call[d] \in ActiveCalls => call[d].request # r
    BY CallPcs
  <2>4. CallsApart'
    BY <2>1, <2>2, <2>3 DEF OnceInv, CallsApart
  <2>5. CostsOnce'
    BY <1>2, <1>6 DEF OnceInv, CostsOnce
  <2>6. Underway(c)'
    <3>1. r \notin DOMAIN reported /\ assignments[r].cost = 0
      BY <1>3 DEF OnceInv, CostsOnce
    <3> QED
      BY <1>2, <2>2, <3>1 DEF Underway, Priced
  <2>7. CallsUnderway'
    <3> SUFFICES ASSUME NEW d \in Calls, call'[d] \in ActiveCalls PROVE Underway(d)'
      BY DEF CallsUnderway
    <3>1. CASE d = c
      BY <2>6, <3>1
    <3>2. CASE d # c
      BY <1>2, <2>1, <3>2 DEF OnceInv, CallsUnderway, Underway, Measured, Priced
    <3> QED
      BY <3>1, <3>2
  <2> QED
    BY <1>4, <2>4, <2>5, <2>7 DEF OnceInv
<1> QED
  BY <1>5, <1>6, ClaimCallbackCases

\* A step of one delivery, which may rewrite its own request's assignment.
LEMMA OnceTouch ==
  ASSUME TypeInv, OnceInv, NEW c \in Calls, call[c] \in ActiveCalls,
         received' = received, reported' = reported, Assigned' = Assigned,
         \A r \in Assigned : r # call[c].request => assignments'[r] = assignments[r],
         assignments'[call[c].request].cost \in {0, 1},
         call'[c] \in ActiveCalls, call'[c].request = call[c].request,
         \A d \in Calls : d # c => call'[d] = call[d],
         Underway(c)'
  PROVE  OnceInv'
<1> DEFINE q == call[c].request
<1>1. q \in received /\ q \notin DOMAIN reported /\ q \in Assigned
  BY CallPcs DEF OnceInv, CallsUnderway, Underway
<1>2. received \subseteq Assigned /\ DOMAIN reported \subseteq received
  BY DEF TypeInv, CallTypes
<1>3. CostsOnce'
  BY <1>1 DEF OnceInv, CostsOnce
<1>4. ReportsHeld'
  BY <1>1, <1>2 DEF OnceInv, ReportsHeld
<1>5. CallsApart'
  BY DEF OnceInv, CallsApart
<1>6. CallsUnderway'
  <2> SUFFICES ASSUME NEW d \in Calls, d # c, call'[d] \in ActiveCalls PROVE Underway(d)'
    BY DEF CallsUnderway
  <2>1. call'[d] = call[d] /\ call[d] \in ActiveCalls
    OBVIOUS
  <2>2. Underway(d) /\ call[d].request # q /\ call[d].request \in Assigned
    BY <2>1, CallPcs DEF OnceInv, CallsUnderway, CallsApart
  <2>3. assignments'[call[d].request] = assignments[call[d].request]
    BY <2>2
  <2> QED
    BY <2>1, <2>2, <2>3 DEF Underway, Measured, Priced
<1> QED
  BY <1>3, <1>4, <1>5, <1>6 DEF OnceInv

\* A correction is the first for its request.
LEMMA OnceCorrect ==
  ASSUME TypeInv, OnceInv, NEW c \in Calls, correct_assignment_error(c)
  PROVE  OnceInv'
<1> DEFINE q == call[c].request
           k == [call[c] EXCEPT !.pc = "read"]
<1>1. /\ call[c] \in ActiveCalls /\ call[c].pc = "correct" /\ q \in Assigned
      /\ received' = received /\ reported' = reported /\ Assigned' = Assigned
      /\ \A r \in Assigned : r # q => assignments'[r] = assignments[r]
      /\ assignments'[q] = [assignments[q] EXCEPT !.error = call[c].actual]
      /\ call' = [call EXCEPT ![c] = k] /\ k \in ActiveCalls
  BY CorrectCases
<1>2. k.request = q /\ k.pc = "read" /\ k.actual = call[c].actual
  BY <1>1 DEF ActiveCalls
<1>3. assignments[q] \in AssignmentRecs
  BY <1>1 DEF TypeInv, AssignmentTypes
<1>4. assignments'[q].cost = assignments[q].cost /\ assignments'[q].error = call[c].actual
  BY <1>1, <1>3 DEF AssignmentRecs
<1>5. Underway(c)
  BY <1>1 DEF OnceInv, CallsUnderway
<1>6. assignments[q].cost = 0 /\ q \notin DOMAIN reported
  BY <1>1, <1>5 DEF Underway, Priced
<1> HIDE DEF k
<1>7. call'[c] = k /\ \A d \in Calls : d # c => call'[d] = call[d]
  BY <1>1, <1>2, CallAdvances
<1>8. Underway(c)'
  BY <1>1, <1>2, <1>4, <1>6, <1>7 DEF Underway, Priced, Measured
<1> QED
  BY <1>1, <1>2, <1>4, <1>6, <1>7, <1>8, OnceTouch

\* The read of a cost reports and reprices nothing.
LEMMA OnceReadCost ==
  ASSUME TypeInv, OnceInv, NEW c \in Calls, ReadCost(c)
  PROVE  OnceInv'
<1> DEFINE q == call[c].request
<1>1. /\ call[c] \in ActiveCalls /\ call[c].pc = "read" /\ q \in Assigned
      /\ UNCHANGED << assignments, received, reported, Assigned >>
  BY ReadCostCases DEF Assigned
<1>2. PICK k \in ActiveCalls :
        /\ call' = [call EXCEPT ![c] = k]
        /\ k.request = q /\ k.actual = call[c].actual
        /\ k.pc = "write" /\ k.cost = assignments[q].cost
  BY ReadCostCases
<1>3. Underway(c)
  BY <1>1 DEF OnceInv, CallsUnderway
<1>4. /\ assignments[q].cost = 0 /\ q \notin DOMAIN reported
      /\ assignments[q].error = call[c].actual
  BY <1>1, <1>3 DEF Underway, Priced, Measured
<1>5. call'[c] = k /\ \A d \in Calls : d # c => call'[d] = call[d]
  BY <1>1, <1>2, CallAdvances
<1>6. Underway(c)'
  BY <1>1, <1>2, <1>4, <1>5 DEF Underway, Priced, Measured
<1> QED
  BY <1>1, <1>2, <1>4, <1>5, <1>6, OnceTouch

\* The write of a cost replaces a price once.
LEMMA OnceWriteCost ==
  ASSUME TypeInv, OnceInv, NEW c \in Calls, correct_assignment_carbon_cost(c)
  PROVE  OnceInv'
<1> DEFINE q == call[c].request
           k == [call[c] EXCEPT !.pc = "track"]
<1>1. /\ call[c] \in ActiveCalls /\ call[c].pc = "write" /\ q \in Assigned
      /\ received' = received /\ reported' = reported /\ Assigned' = Assigned
      /\ \A r \in Assigned : r # q => assignments'[r] = assignments[r]
      /\ assignments'[q] = [assignments[q] EXCEPT !.cost = call[c].cost + 1]
      /\ call' = [call EXCEPT ![c] = k] /\ k \in ActiveCalls
  BY WriteCostCases
<1>2. k.request = q /\ k.pc = "track" /\ k.actual = call[c].actual
  BY <1>1 DEF ActiveCalls
<1>3. Underway(c)
  BY <1>1 DEF OnceInv, CallsUnderway
<1>4. /\ call[c].cost = 0 /\ q \notin DOMAIN reported
      /\ assignments[q].error = call[c].actual
  BY <1>1, <1>3 DEF Underway, Measured
<1>5. assignments[q] \in AssignmentRecs
  BY <1>1 DEF TypeInv, AssignmentTypes
<1>6. assignments'[q].cost = 1 /\ assignments'[q].error = call[c].actual
  BY <1>1, <1>4, <1>5 DEF AssignmentRecs
<1> HIDE DEF k
<1>7. call'[c] = k /\ \A d \in Calls : d # c => call'[d] = call[d]
  BY <1>1, <1>2, CallAdvances
<1>8. Underway(c)'
  BY <1>1, <1>2, <1>4, <1>6, <1>7 DEF Underway, Priced, Measured
<1> QED
  BY <1>1, <1>2, <1>6, <1>7, <1>8, OnceTouch

\* The report says what the assignment holds.
LEMMA OnceTrack ==
  ASSUME TypeInv, OnceInv, NEW c \in Calls, TrackResult(c)
  PROVE  OnceInv'
<1> DEFINE q == call[c].request
<1>1. /\ call[c] \in ActiveCalls /\ call[c].pc = "track" /\ q \in Assigned
      /\ UNCHANGED << assignments, received >>
      /\ DOMAIN reported' = DOMAIN reported \cup {q}
      /\ reported'[q] = call[c].actual
      /\ \A r \in DOMAIN reported : r # q => reported'[r] = reported[r]
      /\ call'[c] = Done /\ \A d \in Calls : d # c => call'[d] = call[d]
  BY TrackCases
<1>2. Assigned' = Assigned /\ call'[c] \notin ActiveCalls
  BY <1>1, CallPcs DEF Assigned
<1>3. Underway(c)
  BY <1>1 DEF OnceInv, CallsUnderway
<1>4. assignments[q].cost = 1 /\ assignments[q].error = call[c].actual
  BY <1>1, <1>3 DEF Underway, Priced, Measured
<1>5. CostsOnce'
  BY <1>1, <1>2 DEF OnceInv, CostsOnce
<1>6. ReportsHeld'
  BY <1>1, <1>4 DEF OnceInv, ReportsHeld
<1>7. CallsApart'
  BY <1>1, <1>2 DEF OnceInv, CallsApart
<1>8. CallsUnderway'
  <2> SUFFICES ASSUME NEW d \in Calls, call'[d] \in ActiveCalls PROVE Underway(d)'
    BY DEF CallsUnderway
  <2>1. d # c /\ call'[d] = call[d] /\ call[d] \in ActiveCalls
    BY <1>1, <1>2
  <2>2. Underway(d) /\ call[d].request # q
    BY <1>1, <2>1 DEF OnceInv, CallsUnderway, CallsApart
  <2> QED
    BY <1>1, <2>1, <2>2 DEF Underway, Measured, Priced
<1> QED
  BY <1>5, <1>6, <1>7, <1>8 DEF OnceInv

\* The policies do not change.
LEMMA PolicyFixed ==
  ASSUME TypeInv, [Next]_vars
  PROVE  UNCHANGED << policy, HardConstraint, LockFuture, BatchSize >>
<1>1. policy' = policy
  BY Zenon DEF Next, vars, Prepare, Claim, Commit, Tick, ClaimCallback, correct_assignment_error,
         ReadCost, correct_assignment_carbon_cost, TrackResult, fixed
<1> QED
  BY <1>1 DEF HardConstraint, LockFuture, BatchSize

\* Every step keeps what has been measured once, measured once.
LEMMA MeasuredNext == TypeInv /\ MeasuredInv /\ [Next]_vars => MeasuredInv'
<1> SUFFICES ASSUME TypeInv, MeasuredInv, [Next]_vars, LockFuture' PROVE OnceInv'
  BY DEF MeasuredInv
<1>1. LockFuture /\ OnceInv
  BY PolicyFixed DEF MeasuredInv
<1>2. ASSUME NEW w \in Workers, Prepare(w) PROVE OnceInv'
  <2>1. UNCHANGED << assignments, received, call, reported, Assigned >>
    BY <1>2 DEF Prepare, Claim, ledger, Assigned
  <2> QED
    BY <1>1, <2>1, OnceKept
<1>3. ASSUME NEW w \in Workers, Commit(w) PROVE OnceInv'
  BY <1>1, <1>3, OnceCommit
<1>4. CASE Tick
  <2>1. UNCHANGED << assignments, received, call, reported, Assigned >>
    BY <1>4 DEF Tick, ledger, Assigned
  <2> QED
    BY <1>1, <2>1, OnceKept
<1>5. ASSUME NEW c \in Calls, ClaimCallback(c) PROVE OnceInv'
  BY <1>1, <1>5, OnceClaim
<1>6. ASSUME NEW c \in Calls, correct_assignment_error(c) PROVE OnceInv'
  BY <1>1, <1>6, OnceCorrect
<1>7. ASSUME NEW c \in Calls, ReadCost(c) PROVE OnceInv'
  BY <1>1, <1>7, OnceReadCost
<1>8. ASSUME NEW c \in Calls, correct_assignment_carbon_cost(c) PROVE OnceInv'
  BY <1>1, <1>8, OnceWriteCost
<1>9. ASSUME NEW c \in Calls, TrackResult(c) PROVE OnceInv'
  BY <1>1, <1>9, OnceTrack
<1>10. CASE UNCHANGED vars
  <2>1. UNCHANGED << assignments, received, call, reported, Assigned >>
    BY <1>10 DEF vars, Assigned
  <2> QED
    BY <1>1, <2>1, OnceKept
<1> QED
  BY <1>2, <1>3, <1>4, <1>5, <1>6, <1>7, <1>8, <1>9, <1>10 DEF Next

\* However many deliveries of a callback there are and however they interleave,
\* one of them reprices the request's cost, and the client is told the error the
\* accounts hold.
THEOREM MeasuredExactlyOnce == Spec => []MeasuredOnce
<1>1. Init => MeasuredInv
  BY OnceInit DEF MeasuredInv
<1>2. TypeInv /\ MeasuredInv => MeasuredOnce
  BY DEF TypeInv, CallTypes, MeasuredInv, OnceInv, CostsOnce, ReportsHeld, MeasuredOnce
<1> QED
  BY <1>1, <1>2, AccountsTyped, MeasuredNext, PTL DEF Spec

-----------------------------------------------------------------------------
(* The accounts agree with the assignments. *)

\* Errors that stay, sum to the same.
LEMMA SumKept ==
  ASSUME TypeInv, TypeInv', NEW who, who \subseteq Assigned,
         \A r \in who : r \in Assigned' /\ assignments'[r].error = assignments[r].error
  PROVE  SumFunctionOnSet(ErrorOf', who) = SumFunctionOnSet(ErrorOf, who)
<1>1. IsFiniteSet(who)
  BY FiniteAccounts, FS_Subset
<1>2. \A r \in who : ErrorOf[r] \in Int /\ ErrorOf'[r] = ErrorOf[r]
  <2>1. \A r \in who : ErrorOf[r] \in Nat
    BY ErrorTypes
  <2>2. \A r \in who : ErrorOf'[r] = ErrorOf[r]
    BY DEF ErrorOf
  <2> QED
    BY <2>1, <2>2
<1> QED
  BY <1>1, <1>2, SumSame

\* A batch joins an account.
LEMMA SumCommitted ==
  ASSUME TypeInv, TypeInv', NEW w \in Workers, Commit(w), NEW who, who \subseteq Assigned,
         NEW error \in [worker[w].batch -> Nat],
         \A r \in worker[w].batch : error[r] = assignments'[r].error
  PROVE  /\ Cardinality(who \cup worker[w].batch)
              = Cardinality(who) + Cardinality(worker[w].batch)
         /\ LockFuture => SumFunctionOnSet(ErrorOf', who \cup worker[w].batch)
              = SumFunctionOnSet(ErrorOf, who) + SumFunctionOnSet(error, worker[w].batch)
<1> DEFINE batch == worker[w].batch
<1>1. /\ w \in Busy /\ Assigned' = Assigned \cup batch
      /\ \A r \in Assigned \ worker[w].moved : assignments'[r] = assignments[r]
  BY CommitAssigns
<1>2. who \cap batch = {} /\ (LockFuture => worker[w].moved = {})
  BY <1>1 DEF TypeInv, WorkerTypes
<1>3. IsFiniteSet(who) /\ IsFiniteSet(batch)
  BY <1>1, FiniteAccounts, FS_Subset
<1>4. Cardinality(who) \in Nat /\ Cardinality(batch) \in Nat
  BY <1>3, FS_CardinalityType
<1>5. Cardinality(who \cup batch) = Cardinality(who) + Cardinality(batch)
  <2>1. Cardinality(who \cup batch)
          = Cardinality(who) + Cardinality(batch) - Cardinality(who \cap batch)
    BY <1>3, FS_Union
  <2>2. Cardinality(who \cap batch) = 0
    BY <1>2, FS_EmptySet
  <2> QED
    BY <2>1, <2>2, <1>4
<1>6. ASSUME LockFuture
      PROVE  SumFunctionOnSet(ErrorOf', who \cup batch)
               = SumFunctionOnSet(ErrorOf, who) + SumFunctionOnSet(error, batch)
  <2>1. \A r \in Assigned' : ErrorOf'[r] \in Nat
    BY DEF TypeInv, AssignmentTypes, AssignmentRecs, ErrorOf
  <2>2. \A r \in who \cup batch : ErrorOf'[r] \in Int
    BY <1>1, <2>1
  <2>3. SumFunctionOnSet(ErrorOf', who \cup batch)
          = SumFunctionOnSet(ErrorOf', who) + SumFunctionOnSet(ErrorOf', batch)
    BY <1>2, <1>3, <2>2, SumUnion
  <2>4. SumFunctionOnSet(ErrorOf', who) = SumFunctionOnSet(ErrorOf, who)
    BY <1>1, <1>2, <1>6, SumKept
  <2>5. \A r \in batch : error[r] \in Int /\ ErrorOf'[r] = error[r]
    BY <1>1 DEF ErrorOf
  <2>6. SumFunctionOnSet(ErrorOf', batch) = SumFunctionOnSet(error, batch)
    BY <1>3, <2>5, SumSame
  <2> QED
    BY <2>3, <2>4, <2>6
<1> QED
  BY <1>5, <1>6

\* A commit books its batch into the accounts of its window.
LEMMA BalancedCommit ==
  ASSUME TypeInv, TypeInv', BalancedInv, NEW w \in Workers, Commit(w)
  PROVE  BalancedInv'
<1> DEFINE batch == worker[w].batch
<1>0. PICK job \in Profiles : job = worker[w].profile
  BY CommitAccounts
<1>1. /\ w \in Busy /\ job \in Profiles /\ Assigned' = Assigned \cup batch
      /\ \A r \in Assigned \ worker[w].moved : assignments'[r] = assignments[r]
      /\ \A r \in batch : ProfileOf[r] = job
      /\ LockFuture => worker[w].moved = {}
  BY <1>0, CommitAssigns DEF TypeInv, WorkerTypes
<1>2. PICK error \in [batch -> Nat] :
        /\ \A r \in batch : error[r] = assignments'[r].error
        /\ \A p \in Profiles : p # job =>
             profileStats'[p].sum = profileStats[p].sum
             /\ profileStats'[p].count = profileStats[p].count
        /\ profileStats'[job].sum = profileStats[job].sum + SumFunctionOnSet(error, batch)
        /\ profileStats'[job].count = profileStats[job].count + Cardinality(batch)
        /\ global'.sum = global.sum + SumFunctionOnSet(error, batch)
        /\ global'.count = global.count + Cardinality(batch)
  BY <1>0, CommitAccounts
<1>3. LockFuture' = LockFuture
  BY DEF Commit, fixed, LockFuture
<1>4. AccountOf(job)' = AccountOf(job) \cup batch
  BY <1>1 DEF AccountOf
<1>5. \A p : AccountOf(p) \subseteq Assigned
  BY DEF AccountOf
<1>6. Sums(profileStats[job], AccountOf(job))'
  <2>1. Sums(profileStats[job], AccountOf(job))
    BY <1>1 DEF BalancedInv
  <2>2. profileStats'[job].count = Cardinality(AccountOf(job) \cup batch)
    <3>1. profileStats[job].count = Cardinality(AccountOf(job))
      BY <2>1 DEF Sums
    <3>2. Cardinality(AccountOf(job) \cup batch) = Cardinality(AccountOf(job)) + Cardinality(batch)
      BY <1>2, <1>5, SumCommitted
    <3> QED
      BY <1>2, <3>1, <3>2
  <2>3. ASSUME LockFuture
        PROVE  profileStats'[job].sum = SumFunctionOnSet(ErrorOf', AccountOf(job) \cup batch)
    <3>1. profileStats[job].sum = SumFunctionOnSet(ErrorOf, AccountOf(job))
      BY <2>1, <2>3 DEF Sums
    <3>2. SumFunctionOnSet(ErrorOf', AccountOf(job) \cup batch)
            = SumFunctionOnSet(ErrorOf, AccountOf(job)) + SumFunctionOnSet(error, batch)
      BY <1>2, <1>5, <2>3, SumCommitted
    <3> QED
      BY <1>2, <3>1, <3>2
  <2> QED
    BY <1>3, <1>4, <2>2, <2>3 DEF Sums
<1>7. ASSUME NEW p \in Profiles, p # job
      PROVE  Sums(profileStats[p], AccountOf(p))'
  <2>1. AccountOf(p)' = AccountOf(p)
    BY <1>1, <1>7 DEF AccountOf
  <2>2. Sums(profileStats[p], AccountOf(p))
    BY DEF BalancedInv
  <2>3. LockFuture => SumFunctionOnSet(ErrorOf', AccountOf(p)) = SumFunctionOnSet(ErrorOf, AccountOf(p))
    BY <1>1, <1>5, SumKept
  <2> QED
    BY <1>2, <1>3, <1>7, <2>1, <2>2, <2>3 DEF Sums
<1>8. Sums(global, Assigned)'
  <2>1. Sums(global, Assigned)
    BY DEF BalancedInv
  <2>2. global'.count = Cardinality(Assigned \cup batch)
    <3>1. global.count = Cardinality(Assigned)
      BY <2>1 DEF Sums
    <3>2. Cardinality(Assigned \cup batch) = Cardinality(Assigned) + Cardinality(batch)
      BY <1>2, SumCommitted
    <3> QED
      BY <1>2, <3>1, <3>2
  <2>3. ASSUME LockFuture
        PROVE  global'.sum = SumFunctionOnSet(ErrorOf', Assigned \cup batch)
    <3>1. global.sum = SumFunctionOnSet(ErrorOf, Assigned)
      BY <2>1, <2>3 DEF Sums
    <3>2. SumFunctionOnSet(ErrorOf', Assigned \cup batch)
            = SumFunctionOnSet(ErrorOf, Assigned) + SumFunctionOnSet(error, batch)
      BY <1>2, <2>3, SumCommitted
    <3> QED
      BY <1>2, <3>1, <3>2
  <2> QED
    BY <1>1, <1>3, <2>2, <2>3 DEF Sums
<1> QED
  BY <1>6, <1>7, <1>8 DEF BalancedInv

\* One request's error changes, and with it the sum of any account it is in.
LEMMA SumCorrected ==
  ASSUME TypeInv, TypeInv', Assigned' = Assigned, NEW who, who \subseteq Assigned,
         NEW q \in who,
         \A r \in Assigned : r # q => assignments'[r] = assignments[r]
  PROVE  SumFunctionOnSet(ErrorOf', who)
           = SumFunctionOnSet(ErrorOf, who) + (assignments'[q].error - assignments[q].error)
<1>1. IsFiniteSet(who)
  BY FiniteAccounts, FS_Subset
<1>2. \A r \in who : ErrorOf[r] \in Int
  BY ErrorTypes
<1>3. ErrorOf'[q] \in Int
  BY DEF TypeInv, AssignmentTypes, AssignmentRecs, ErrorOf
<1>4. \A r \in who : r # q => ErrorOf'[r] = ErrorOf[r]
  BY DEF ErrorOf
<1>5. ErrorOf'[q] = assignments'[q].error /\ ErrorOf[q] = assignments[q].error
  BY DEF ErrorOf
<1>6. SumFunctionOnSet(ErrorOf', who)
        = SumFunctionOnSet(ErrorOf, who) + (ErrorOf'[q] - ErrorOf[q])
  BY <1>1, <1>2, <1>3, <1>4, SumChange
<1> QED
  BY <1>5, <1>6

\* A correction moves an account by what it moves the assignment.
LEMMA BalancedCorrect ==
  ASSUME TypeInv, TypeInv', BalancedInv, NEW c \in Calls, correct_assignment_error(c)
  PROVE  BalancedInv'
<1>1. PICK q \in Assigned : q = call[c].request
  BY CorrectCases
<1>2. PICK p \in Profiles : p = ProfileOf[q]
  BY LedgerAssumption DEF TypeInv, AssignmentTypes
<1> DEFINE delta == call[c].actual - assignments[q].error
<1>3. /\ Assigned' = Assigned /\ policy' = policy /\ call[c].actual \in Nat
      /\ \A r \in Assigned : r # q => assignments'[r] = assignments[r]
      /\ assignments'[q] = [assignments[q] EXCEPT !.error = call[c].actual]
      /\ global' = Plus(global, delta, 0)
      /\ profileStats' = [profileStats EXCEPT ![p] = Plus(@, delta, 0)]
  BY <1>1, <1>2, CorrectCases, CallPcs
<1>4. LockFuture' = LockFuture /\ \A o : AccountOf(o)' = AccountOf(o)
  BY <1>3 DEF LockFuture, AccountOf
<1>5. assignments[q] \in AssignmentRecs
  BY DEF TypeInv, AssignmentTypes
<1>6. assignments'[q].error - assignments[q].error = delta /\ delta \in Int
  <2>1. assignments'[q].error = call[c].actual /\ assignments[q].error \in Nat
    BY <1>3, <1>5 DEF AssignmentRecs
  <2> QED
    BY <1>3, <2>1
<1> HIDE DEF delta
<1>7. \A o : AccountOf(o) \subseteq Assigned
  BY DEF AccountOf
<1>8. q \in AccountOf(p) /\ \A o \in Profiles : o # p => q \notin AccountOf(o)
  BY <1>2 DEF AccountOf
<1>9. profileStats \in [Profiles -> [sum : Int, count : Nat]] /\ global \in [sum : Int, count : Nat]
  BY DEF TypeInv, AccountTypes
<1>10. Sums(profileStats[p], AccountOf(p))'
  <2>1. /\ profileStats'[p].sum = profileStats[p].sum + delta
        /\ profileStats'[p].count = profileStats[p].count
    <3>1. profileStats'[p] = Plus(profileStats[p], delta, 0)
          /\ profileStats[p] \in [sum : Int, count : Nat]
      BY <1>3, <1>9
    <3>2. profileStats'[p] = [sum |-> profileStats[p].sum + delta,
                              count |-> profileStats[p].count]
      BY <3>1 DEF Plus
    <3> QED
      BY <3>2
  <2>2. Sums(profileStats[p], AccountOf(p))
    BY DEF BalancedInv
  <2>3. ASSUME LockFuture
        PROVE  profileStats'[p].sum = SumFunctionOnSet(ErrorOf', AccountOf(p))
    <3>1. profileStats[p].sum = SumFunctionOnSet(ErrorOf, AccountOf(p))
      BY <2>2, <2>3 DEF Sums
    <3>2. SumFunctionOnSet(ErrorOf', AccountOf(p))
            = SumFunctionOnSet(ErrorOf, AccountOf(p)) + delta
      BY <1>3, <1>6, <1>7, <1>8, SumCorrected
    <3> QED
      BY <2>1, <3>1, <3>2
  <2> QED
    BY <1>4, <2>1, <2>2, <2>3 DEF Sums
<1>11. ASSUME NEW o \in Profiles, o # p
       PROVE  Sums(profileStats[o], AccountOf(o))'
  <2>1. profileStats'[o] = profileStats[o]
    BY <1>3, <1>9, <1>11
  <2>2. Sums(profileStats[o], AccountOf(o))
    BY DEF BalancedInv
  <2>3. SumFunctionOnSet(ErrorOf', AccountOf(o)) = SumFunctionOnSet(ErrorOf, AccountOf(o))
    BY <1>3, <1>7, <1>8, <1>11, SumKept
  <2> QED
    BY <1>4, <2>1, <2>2, <2>3 DEF Sums
<1>12. Sums(global, Assigned)'
  <2>1. global'.sum = global.sum + delta /\ global'.count = global.count
    BY <1>3, <1>6, <1>9, PlusType
  <2>2. Sums(global, Assigned)
    BY DEF BalancedInv
  <2>3. ASSUME LockFuture
        PROVE  global'.sum = SumFunctionOnSet(ErrorOf', Assigned)
    <3>1. global.sum = SumFunctionOnSet(ErrorOf, Assigned)
      BY <2>2, <2>3 DEF Sums
    <3>2. SumFunctionOnSet(ErrorOf', Assigned) = SumFunctionOnSet(ErrorOf, Assigned) + delta
      BY <1>3, <1>6, SumCorrected
    <3> QED
      BY <2>1, <3>1, <3>2
  <2> QED
    BY <1>3, <1>4, <2>1, <2>2, <2>3 DEF Sums
<1> QED
  BY <1>10, <1>11, <1>12 DEF BalancedInv

\* The other steps change neither an error nor an account.
LEMMA BalancedKept ==
  ASSUME TypeInv, TypeInv', BalancedInv,
         UNCHANGED << policy, profileStats, global >>, Assigned' = Assigned,
         \A r \in Assigned : assignments'[r].error = assignments[r].error
  PROVE  BalancedInv'
<1>1. LockFuture' = LockFuture /\ \A p : AccountOf(p)' = AccountOf(p)
  BY DEF LockFuture, AccountOf
<1>2. \A p : AccountOf(p) \subseteq Assigned
  BY DEF AccountOf
<1>3. ASSUME NEW p \in Profiles PROVE Sums(profileStats[p], AccountOf(p))'
  <2>1. SumFunctionOnSet(ErrorOf', AccountOf(p)) = SumFunctionOnSet(ErrorOf, AccountOf(p))
    BY <1>2, SumKept
  <2>2. Sums(profileStats[p], AccountOf(p))
    BY DEF BalancedInv
  <2> QED
    BY <1>1, <2>1, <2>2 DEF Sums
<1>4. Sums(global, Assigned)'
  <2>1. SumFunctionOnSet(ErrorOf', Assigned) = SumFunctionOnSet(ErrorOf, Assigned)
    BY SumKept
  <2> QED
    BY <1>1, <2>1 DEF BalancedInv, Sums
<1> QED
  BY <1>3, <1>4 DEF BalancedInv

\* Every step keeps the accounts in balance with the assignments.
LEMMA BalancedNext == TypeInv /\ TypeInv' /\ BalancedInv /\ [Next]_vars => BalancedInv'
<1> SUFFICES ASSUME TypeInv, TypeInv', BalancedInv, [Next]_vars PROVE BalancedInv'
  OBVIOUS
<1>1. ASSUME NEW w \in Workers, Commit(w) PROVE BalancedInv'
  BY <1>1, BalancedCommit
<1>2. ASSUME NEW c \in Calls, correct_assignment_error(c) PROVE BalancedInv'
  BY <1>2, BalancedCorrect
<1>3. ASSUME NEW c \in Calls, correct_assignment_carbon_cost(c) PROVE BalancedInv'
  <2>1. UNCHANGED << policy, profileStats, global, Assigned >>
    BY <1>3, WriteCostCases
  <2>2. ASSUME NEW r \in Assigned PROVE assignments'[r].error = assignments[r].error
    <3>1. CASE r # call[c].request
      BY <1>3, <3>1, WriteCostCases
    <3>2. CASE r = call[c].request
      <4>1. assignments'[r] = [assignments[r] EXCEPT !.cost = call[c].cost + 1]
        BY <1>3, <3>2, WriteCostCases
      <4>2. assignments[r] \in AssignmentRecs
        BY DEF TypeInv, AssignmentTypes
      <4> QED
        BY <4>1, <4>2 DEF AssignmentRecs
    <3> QED
      BY <3>1, <3>2
  <2> QED
    BY <2>1, <2>2, BalancedKept
<1>4. ASSUME UNCHANGED << policy, profileStats, global, assignments >> PROVE BalancedInv'
  BY <1>4, BalancedKept DEF Assigned
<1>5. ASSUME NEW w \in Workers, Prepare(w) PROVE BalancedInv'
  BY <1>4, <1>5 DEF Prepare, Claim, fixed, ledger
<1>6. CASE Tick
  BY <1>4, <1>6 DEF Tick, ledger
<1>7. ASSUME NEW c \in Calls, ClaimCallback(c) \/ ReadCost(c) \/ TrackResult(c)
      PROVE  BalancedInv'
  BY <1>4, <1>7 DEF ClaimCallback, ReadCost, TrackResult, fixed, ledger
<1>8. CASE UNCHANGED vars
  BY <1>4, <1>8 DEF vars
<1> QED
  BY <1>1, <1>2, <1>3, <1>5, <1>6, <1>7, <1>8 DEF Next

\* What the runs check says the same with the library's sums.
LEMMA BalancedAsChecked ==
  ASSUME TypeInv, NEW stats, NEW who, who \subseteq Assigned, Sums(stats, who)
  PROVE  Balanced(stats, who)
<1> DEFINE error == [r \in who |-> assignments[r].error]
<1>1. IsFiniteSet(who)
  BY FiniteAccounts, FS_Subset
<1>2. \A r \in who : ErrorOf[r] \in Int
  BY ErrorTypes
<1>3. \A r \in who : error[r] = ErrorOf[r]
  BY DEF ErrorOf
<1>4. SumFunction(error) = SumFunctionOnSet(error, who)
  BY DEF SumFunction
<1> HIDE DEF error
<1>5. SumFunctionOnSet(error, who) = SumFunctionOnSet(ErrorOf, who)
  BY <1>1, <1>2, <1>3, SumSame
<1> QED
  BY <1>4, <1>5 DEF Sums, Balanced, error

\* Every account counts its requests once, however often they are re-planned, and
\* with locked assignments its running sum is the sum of their errors, predicted
\* or measured.
THEOREM AccountsBalanced == Spec => []LedgerBalanced
<1>1. Init => BalancedInv
  <2> SUFFICES ASSUME Init PROVE BalancedInv
    OBVIOUS
  <2>1. Assigned = {} /\ \A p : AccountOf(p) = {}
    BY DEF Init, Assigned, AccountOf
  <2>2. Sums(NoStats, {})
    BY SumEmpty, FS_EmptySet DEF Sums, NoStats
  <2>3. (\A p \in Profiles : profileStats[p] = NoStats) /\ global = NoStats
    BY DEF Init
  <2> QED
    BY <2>1, <2>2, <2>3 DEF BalancedInv
<1>2. TypeInv /\ BalancedInv => LedgerBalanced
  <2> SUFFICES ASSUME TypeInv, BalancedInv PROVE LedgerBalanced
    OBVIOUS
  <2>1. \A p : AccountOf(p) \subseteq Assigned
    BY DEF AccountOf
  <2>2. \A p \in Profiles : Balanced(profileStats[p], AccountOf(p))
    BY <2>1, BalancedAsChecked DEF BalancedInv
  <2>3. Balanced(global, Assigned)
    BY BalancedAsChecked DEF BalancedInv
  <2> QED
    BY <2>2, <2>3 DEF LedgerBalanced, AccountOf
<1> QED
  BY <1>1, <1>2, AccountsTyped, BalancedNext, PTL DEF Spec

-----------------------------------------------------------------------------
(* A profile overspends by one batch at most. *)

\* A product with a sum is the sum of the products.
LEMMA TimesSum ==
  ASSUME NEW k \in Int, NEW m \in Int, NEW n \in Int
  PROVE  k * (m + n) = k * m + k * n
OBVIOUS

\* The product of naturals is a natural number.
LEMMA NatProduct ==
  ASSUME NEW k \in Nat, NEW n \in Nat
  PROVE  k * n \in Nat
OBVIOUS

\* A larger factor does not make a smaller product.
LEMMA TimesMore ==
  ASSUME NEW k \in Nat, NEW n \in Nat, NEW b \in Nat, n <= b
  PROVE  k * n <= b * k
<1>1. b - n \in Nat /\ b = n + (b - n)
  OBVIOUS
<1>2. k * b = k * n + k * (b - n)
  BY <1>1, TimesSum
<1>3. k * (b - n) \in Nat
  BY <1>1, NatProduct
<1>4. k * b = b * k /\ k * n \in Int
  OBVIOUS
<1> QED
  BY <1>2, <1>3, <1>4

\* How far one flavour can be above the threshold.
LEMMA SteepestBounds ==
  /\ Steepest \in Nat
  /\ \A e \in Flavours : e <= MaxError + Steepest
<1> DEFINE D == {0} \cup {e - MaxError : e \in Flavours}
<1>1. Flavours \subseteq Int /\ Flavours # {} /\ IsFiniteSet(Flavours) /\ MaxError \in Nat
  BY LedgerAssumption
<1>2. PICK g \in Flavours : \A e \in Flavours : g >= e
  BY <1>1, GreatestExists
<1>3. \A x \in D : x \in Int
  BY <1>1
<1>4. \E m \in D : \A x \in D : m >= x
  <2>1. CASE g - MaxError >= 0
    <3>1. g - MaxError \in D /\ \A x \in D : g - MaxError >= x
      BY <1>1, <1>2, <2>1
    <3> QED
      BY <3>1
  <2>2. CASE g - MaxError < 0
    <3>1. 0 \in D /\ \A x \in D : 0 >= x
      BY <1>1, <1>2, <2>2
    <3> QED
      BY <3>1
  <2> QED
    BY <1>1, <2>1, <2>2
<1>5. Steepest \in D /\ \A x \in D : Steepest >= x
  <2> HIDE DEF D
  <2>1. Max(D) \in D /\ \A x \in D : Max(D) >= x
    BY <1>4 DEF Max
  <2> QED
    BY <2>1 DEF Steepest, D
<1>6. Steepest \in Int /\ Steepest >= 0
  BY <1>3, <1>5
<1>7. \A e \in Flavours : Steepest >= e - MaxError
  BY <1>5
<1> HIDE DEF D
<1> QED
  BY <1>1, <1>6, <1>7

\* What a solve may use when it is prepared.
LEMMA AllowedWithin ==
  ASSUME TypeInv, OverspendInv, Constrained, NEW p \in Profiles
  PROVE  AllowedFlavours(p) \subseteq Modest \/ Excess(p) <= 0
<1>1. /\ profileStats[p].sum \in Int /\ profileStats[p].count \in Nat /\ MaxError \in Nat
      /\ profileStats[p].count = 0 => profileStats[p].sum = 0
  BY LedgerAssumption DEF TypeInv, AccountTypes, OverspendInv
<1>2. CASE Overspent(p)
  BY <1>2 DEF AllowedFlavours, Modest, Constrained
<1>3. CASE ~ Overspent(p)
  <2>1. MaxError * profileStats[p].count \in Int
    BY <1>1
  <2>2. CASE profileStats[p].count = 0
    <3>1. MaxError * 0 = 0
      BY <1>1
    <3> QED
      BY <1>1, <2>2, <3>1 DEF Excess
  <2>3. CASE profileStats[p].count # 0
    BY <1>1, <1>3, <2>1, <2>3 DEF Overspent, Excess
  <2> QED
    BY <2>2, <2>3
<1> QED
  BY <1>2, <1>3

\* A preparation plans within the account it reads.
LEMMA OverspendPrepare ==
  ASSUME TypeInv, OverspendInv, Constrained, NEW w \in Workers, Prepare(w)
  PROVE  OverspendInv'
<1>0. PICK p \in Profiles \ ActiveProfiles : \E batch \in BatchesOf(p) : Claim(w, p, batch)
  BY DEF Prepare
<1>1. PICK batch \in BatchesOf(p) : Claim(w, p, batch)
  BY <1>0
<1>2. w \notin Busy
  BY DEF Prepare
<1>3. /\ Busy' = Busy \cup {w} /\ worker'[w] = Solve(p, batch)
      /\ \A v \in Busy : worker'[v] = worker[v]
  BY <1>1, <1>2 DEF Claim, Busy
<1>4. UNCHANGED << policy, profileStats >> /\ BatchSize' = BatchSize
  BY <1>1 DEF Claim, fixed, ledger, BatchSize
<1>5. \A o \in Profiles : Excess(o)' = Excess(o)
  BY <1>4 DEF Excess
<1>6. ASSUME NEW v \in Busy'
      PROVE  worker'[v].allowed \subseteq Modest \/ Excess(worker[v].profile)' <= 0
  <2>1. CASE v = w
    <3>1. worker'[v].allowed = AllowedFlavours(p) /\ worker'[v].profile = p
      BY <1>3, <2>1 DEF Solve
    <3>2. AllowedFlavours(p) \subseteq Modest \/ Excess(p) <= 0
      BY AllowedWithin
    <3> QED
      BY <1>4, <3>1, <3>2 DEF Excess
  <2>2. CASE v \in Busy
    <3>1. worker'[v] = worker[v]
      BY <1>3, <2>2
    <3>2. worker[v].allowed \subseteq Modest \/ Excess(worker[v].profile) <= 0
      BY <2>2 DEF OverspendInv
    <3> QED
      BY <1>4, <3>1, <3>2 DEF Excess
  <2> QED
    BY <1>3, <2>1, <2>2
<1>7. \A o \in Profiles : /\ Excess(o)' <= BatchSize' * Steepest
                          /\ profileStats'[o].count = 0 => profileStats'[o].sum = 0
  BY <1>4, <1>5 DEF OverspendInv
<1> QED
  BY <1>6, <1>7 DEF OverspendInv

\* What a batch adds to an account's excess.
LEMMA BatchExcess ==
  ASSUME NEW batch, IsFiniteSet(batch), NEW error \in [batch -> Nat], NEW k \in Int,
         \A r \in batch : error[r] <= k, Cardinality(batch) \in Nat
  PROVE  SumFunctionOnSet(error, batch) <= k * Cardinality(batch)
BY SumBound

\* A commit overspends by its own batch at most.
LEMMA OverspendCommit ==
  ASSUME TypeInv, OverspendInv, Constrained, NEW w \in Workers, Commit(w)
  PROVE  OverspendInv'
<1>1. PICK p \in Profiles : p = worker[w].profile
  BY CommitAccounts
<1>2. PICK error \in [worker[w].batch -> Nat] :
        /\ SumFunctionOnSet(error, worker[w].batch) \in Int
        /\ Cardinality(worker[w].batch) \in Nat \ {0}
        /\ \A r \in worker[w].batch : error[r] = assignments'[r].error
        /\ \A o \in Profiles : o # p =>
             profileStats'[o].sum = profileStats[o].sum
             /\ profileStats'[o].count = profileStats[o].count
        /\ profileStats'[p].sum
             = profileStats[p].sum + SumFunctionOnSet(error, worker[w].batch)
        /\ profileStats'[p].count = profileStats[p].count + Cardinality(worker[w].batch)
  BY <1>1, CommitAccounts
<1> DEFINE batch == worker[w].batch
           n == Cardinality(batch)
           S == SumFunctionOnSet(error, batch)
<1>3. /\ S \in Int /\ n \in Nat \ {0} /\ n <= BatchSize /\ BatchSize \in Nat
      /\ w \in Busy /\ IsFiniteSet(batch)
      /\ policy' = policy /\ BatchSize' = BatchSize /\ Busy' = Busy \ {w}
      /\ \A v \in Busy' : worker'[v] = worker[v]
      /\ worker[w].allowed \subseteq Flavours
  <2>1. w \in Busy /\ IsFiniteSet(batch)
    BY CommitAssigns, FiniteAccounts
  <2>2. n \in 1 .. BatchSize /\ worker[w].allowed \subseteq Flavours
    BY <2>1 DEF TypeInv, WorkerTypes, Jobs
  <2>3. BatchSize \in Nat
    BY PolicyTypes DEF TypeInv, AccountTypes
  <2>4. policy' = policy /\ BatchSize' = BatchSize
    BY DEF Commit, fixed, BatchSize
  <2>5. Busy' = Busy \ {w} /\ \A v \in Busy' : worker'[v] = worker[v]
    BY DEF Commit, Busy, Restrict
  <2> QED
    BY <1>2, <2>1, <2>2, <2>3, <2>4, <2>5
<1>4. \A r \in batch : error[r] \in worker[w].allowed
  BY <1>2, CommitAssigns
<1>5. /\ profileStats[p].sum \in Int /\ profileStats[p].count \in Nat
      /\ MaxError \in Nat /\ Steepest \in Nat
      /\ \A e \in Flavours : e \in Nat /\ e <= MaxError + Steepest
  BY LedgerAssumption, SteepestBounds DEF TypeInv, AccountTypes
<1>6. Excess(p)' = Excess(p) + (S - MaxError * n) /\ Excess(p) \in Int
      /\ MaxError * n \in Int
  <2> DEFINE c == profileStats[p].count
  <2>1. MaxError * (c + n) = MaxError * c + MaxError * n
    BY <1>3, <1>5, TimesSum
  <2>2. MaxError * c \in Int /\ MaxError * n \in Int
    BY <1>3, <1>5
  <2>3. profileStats'[p].sum = profileStats[p].sum + S /\ profileStats'[p].count = c + n
    BY <1>2
  <2>4. Excess(p)' = profileStats'[p].sum - MaxError * profileStats'[p].count
        /\ Excess(p) = profileStats[p].sum - MaxError * c
    BY DEF Excess
  <2>5. Excess(p)' = (profileStats[p].sum + S) - (MaxError * c + MaxError * n)
    BY <2>1, <2>3, <2>4
  <2> HIDE DEF S, n, c
  <2> QED
    BY <1>3, <1>5, <2>2, <2>4, <2>5
<1>7. BatchSize * Steepest \in Nat
  BY <1>3, <1>5, NatProduct
<1>8. Excess(p) <= BatchSize * Steepest
      /\ (worker[w].allowed \subseteq Modest \/ Excess(p) <= 0)
  BY <1>1, <1>3 DEF OverspendInv
<1>9. Excess(p)' <= BatchSize * Steepest
  <2>1. CASE worker[w].allowed \subseteq Modest
    <3>1. \A r \in batch : error[r] <= MaxError
      BY <1>4, <2>1 DEF Modest
    <3>2. S <= MaxError * n
      BY <1>3, <1>5, <3>1, BatchExcess
    <3> HIDE DEF S, n
    <3> QED
      BY <1>3, <1>6, <1>7, <1>8, <3>2
  <2>2. CASE Excess(p) <= 0
    <3>1. \A r \in batch : error[r] <= MaxError + Steepest
      BY <1>3, <1>4, <1>5
    <3>2. S <= (MaxError + Steepest) * n
      BY <1>3, <1>5, <3>1, BatchExcess
    <3>3. (MaxError + Steepest) * n = MaxError * n + Steepest * n
      <4>1. n * (MaxError + Steepest) = n * MaxError + n * Steepest
        BY <1>3, <1>5, TimesSum
      <4> HIDE DEF n
      <4>2. n * (MaxError + Steepest) = (MaxError + Steepest) * n
            /\ n * MaxError = MaxError * n /\ n * Steepest = Steepest * n
        BY <1>3, <1>5
      <4> QED
        BY <4>1, <4>2
    <3>4. Steepest * n <= BatchSize * Steepest /\ Steepest * n \in Nat
      BY <1>3, <1>5, TimesMore, NatProduct
    <3> HIDE DEF S, n
    <3>5. S - MaxError * n <= Steepest * n
      BY <1>3, <1>6, <3>2, <3>3, <3>4
    <3> QED
      BY <1>3, <1>6, <1>7, <2>2, <3>4, <3>5
  <2> QED
    BY <1>8, <2>1, <2>2
<1>10. profileStats'[p].count # 0
  BY <1>2, <1>3, <1>5
<1>11. ASSUME NEW o \in Profiles, o # p
       PROVE  /\ Excess(o)' = Excess(o)
              /\ profileStats'[o].count = 0 => profileStats'[o].sum = 0
  BY <1>2, <1>11 DEF OverspendInv, Excess
<1>12. ASSUME NEW o \in Profiles
       PROVE  /\ Excess(o)' <= BatchSize' * Steepest
              /\ profileStats'[o].count = 0 => profileStats'[o].sum = 0
  <2>1. CASE o = p
    BY <1>3, <1>9, <1>10, <2>1 DEF Excess
  <2>2. CASE o # p
    BY <1>3, <1>11, <2>2 DEF OverspendInv
  <2> QED
    BY <2>1, <2>2
<1>13. ASSUME NEW v \in Busy'
       PROVE  worker'[v].allowed \subseteq Modest \/ Excess(worker[v].profile)' <= 0
  <2>1. worker'[v] = worker[v] /\ v \in Busy /\ v # w
    BY <1>3
  <2>2. PICK o \in Profiles : o = worker[v].profile
    BY <2>1 DEF TypeInv, WorkerTypes, Jobs
  <2>3. o # p
    BY <1>1, <1>3, <2>1, <2>2 DEF TypeInv, WorkerTypes
  <2>4. worker[v].allowed \subseteq Modest \/ Excess(o) <= 0
    BY <2>1, <2>2 DEF OverspendInv
  <2>5. Excess(o)' = Excess(o)
    BY <1>11, <2>3
  <2> QED
    BY <2>1, <2>2, <2>4, <2>5 DEF Excess
<1> QED
  BY <1>12, <1>13 DEF OverspendInv

\* What is constrained in the next state was so before the step.
LEMMA ConstrainedKept ==
  ASSUME TypeInv, [Next]_vars, Constrained'
  PROVE  Constrained
<1>1. HardConstraint' = HardConstraint
  BY PolicyFixed
<1>2. received \subseteq received'
  BY Zenon DEF Next, vars, Prepare, Claim, Commit, Tick, ClaimCallback, correct_assignment_error,
         ReadCost, correct_assignment_carbon_cost, TrackResult
<1> QED
  BY <1>1, <1>2 DEF Constrained

\* Every step keeps the overspending of a profile within one batch.
LEMMA OverspendNext == TypeInv /\ OverspendInv /\ [Next]_vars => OverspendInv'
<1> SUFFICES ASSUME TypeInv, OverspendInv, [Next]_vars, Constrained' PROVE OverspendInv'
  BY DEF OverspendInv
<1>1. Constrained
  BY ConstrainedKept
<1>2. ASSUME UNCHANGED << policy, profileStats, worker >> PROVE OverspendInv'
  <2>1. UNCHANGED << Busy, BatchSize >> /\ \A p : Excess(p)' = Excess(p)
    BY <1>2 DEF Busy, BatchSize, Excess
  <2>2. \A p \in Profiles : /\ Excess(p)' <= BatchSize' * Steepest
                            /\ profileStats'[p].count = 0 => profileStats'[p].sum = 0
    BY <1>1, <1>2, <2>1 DEF OverspendInv
  <2>3. \A w \in Busy' : worker'[w].allowed \subseteq Modest \/ Excess(worker[w].profile)' <= 0
    BY <1>1, <1>2, <2>1 DEF OverspendInv, Excess
  <2> QED
    BY <2>2, <2>3 DEF OverspendInv
<1>3. ASSUME NEW w \in Workers, Prepare(w) PROVE OverspendInv'
  BY <1>1, <1>3, OverspendPrepare
<1>4. ASSUME NEW w \in Workers, Commit(w) PROVE OverspendInv'
  BY <1>1, <1>4, OverspendCommit
<1>5. CASE Tick
  BY <1>2, <1>5 DEF Tick, ledger
<1>6. ASSUME NEW c \in Calls, correct_assignment_error(c) PROVE OverspendInv'
  <2>1. call[c].request \in received /\ received' = received
    BY <1>6, CorrectCases, CallPcs
  <2> QED
    BY <1>1, <2>1 DEF Constrained
<1>7. ASSUME NEW c \in Calls,
             \/ ClaimCallback(c) \/ ReadCost(c)
             \/ correct_assignment_carbon_cost(c) \/ TrackResult(c)
      PROVE  OverspendInv'
  <2>1. UNCHANGED << policy, profileStats, worker >>
    BY <1>7 DEF ClaimCallback, ReadCost, correct_assignment_carbon_cost, TrackResult,
                fixed, ledger
  <2> QED
    BY <1>2, <2>1
<1>8. CASE UNCHANGED vars
  BY <1>2, <1>8 DEF vars
<1> QED
  BY <1>3, <1>4, <1>5, <1>6, <1>7, <1>8 DEF Next

\* Under the hard constraint, and until something is measured, no profile's errors
\* exceed its budget by more than one batch of the worst flavour, with any number
\* of workers solving from snapshots.
THEOREM OverspendBounded == Spec => []OverspendOneBatch
<1>1. Init => OverspendInv
  <2> SUFFICES ASSUME Init PROVE OverspendInv
    OBVIOUS
  <2>1. Busy = {} /\ \A p \in Profiles : profileStats[p].sum = 0 /\ profileStats[p].count = 0
    BY DEF Init, Busy, NoStats
  <2>2. BatchSize \in Nat /\ Steepest \in Nat /\ MaxError \in Nat
    BY PolicyTypes, SteepestBounds, LedgerAssumption DEF Init
  <2>3. BatchSize * Steepest \in Nat /\ MaxError * 0 = 0
    BY <2>2, NatProduct
  <2> QED
    BY <2>1, <2>3 DEF OverspendInv, Excess
<1>2. OverspendInv => OverspendOneBatch
  <2> SUFFICES ASSUME OverspendInv, HardConstraint, received = {},
                      \E e \in Flavours : e <= MaxError,
                      NEW p \in Profiles
               PROVE  profileStats[p].sum - MaxError * profileStats[p].count
                        <= BatchSize * Max({0} \cup {e - MaxError : e \in Flavours})
    BY DEF OverspendOneBatch
  <2>1. Constrained
    BY DEF Constrained, Modest
  <2> QED
    BY <2>1 DEF OverspendInv, Excess, Steepest
<1> QED
  BY <1>1, <1>2, AccountsTyped, OverspendNext, PTL DEF Spec

=============================================================================
