------------------------ MODULE SimulationRun_proofs ------------------------
(***************************************************************************)
(* What an offline run promises, for every scenario, horizon and length of  *)
(* the batches: the scenario is replayed, and its report is complete.       *)
(***************************************************************************)
EXTENDS SimulationRun, FiniteSetTheorems, SequenceTheorems, TLAPS

-----------------------------------------------------------------------------
(* The inductive invariant. *)

GenTypes == [pc : {"check", "emit", "drain", "stopped"}, last : -1 .. LastSlot,
             target : -1 .. LastSlot, raw : Nat, slot : Slots, sent : Nat]

LoopTypes == [pc : {"count", "active", "tick", "act", "backlog", "stopped"},
              pendingCount : Nat, active : {0, 1}, slot : Slots, lastFlush : -1 .. LastSlot,
              backlog : BOOLEAN, lastSkip : -1 .. LastSlot, did : BOOLEAN]

WorkerTypes == [pc : {"idle", "solve", "log", "release"}, batch : Seq(Requests), slot : Slots]

Stopping == {"stop generator", "stop scheduler", "collect", "drain", "done"}

RunnerTypes == [pc : {"phase1", "phase2", "phase2 pending"} \cup Stopping, active : {0, 1}]

TypeInv ==
  /\ config \in Configs
  /\ elapsed \in 0 .. Max({MaxElapsed, TotalSlots * SlotTicks})
  /\ processed \in -1 .. LastSlot
  /\ pending \in Seq(Requests)
  /\ gen \in GenTypes
  /\ loop \in LoopTypes
  /\ worker \in WorkerTypes /\ Len(worker.batch) <= BatchSize
  /\ DOMAIN solvedIn \subseteq Requests
  /\ runner \in RunnerTypes

\* The slot of the virtual clock, as both threads clamp it.
ClockSlot == Min({elapsed \div SlotTicks, LastSlot})

\* Where the generator is, and that neither it nor a turn of the main loop that
\* is about to dispatch is ahead of the clock or behind it.
ClockInv ==
  /\ gen.target <= ClockSlot
  /\ gen.pc \in {"check", "stopped"} =>
       gen.last = gen.target /\ processed = gen.last /\ processed <= gen.slot
  /\ gen.pc \in {"emit", "drain"} => gen.last < gen.slot /\ gen.slot <= gen.target
  /\ gen.pc = "emit" => processed = gen.slot - 1 /\ gen.sent <= Len(Arrivals[gen.slot])
  /\ gen.pc = "drain" => processed = gen.slot
  /\ loop.pc = "act" => loop.slot = ClockSlot

\* The requests of the slots up to n.
ArrivedBy(n) == UNION {Range(Arrivals[s]) : s \in 0 .. n}

\* The requests the generator has queued so far.
Emitted ==
  ArrivedBy(processed)
    \cup (IF gen.pc = "emit" THEN Range(SubSeq(Arrivals[gen.slot], 1, gen.sent)) ELSE {})

InHand == IF worker.pc = "solve" THEN Range(worker.batch) ELSE {}

\* Each of them is in one place.
PlaceInv ==
  /\ Emitted = Range(pending) \cup InHand \cup DOMAIN results.late \cup DOMAIN solvedIn
  /\ IsInjective(pending)
  /\ (Range(pending) \cup DOMAIN results.late) \cap InHand = {}
  /\ (Range(pending) \cup InHand \cup DOMAIN results.late) \cap DOMAIN solvedIn = {}

\* A batch is solved in a slot its requests have reached.
SlotInv ==
  /\ \A r \in InHand : ArrivalSlot(r) <= worker.slot
  /\ SolvedFromArrivalOn

\* What is solved is in the file, or about to be written by the worker.
LogInv ==
  /\ logged \subseteq DOMAIN solvedIn
  /\ worker.pc = "log" => Range(worker.batch) \subseteq DOMAIN solvedIn
  /\ DOMAIN solvedIn \subseteq logged \cup (IF worker.pc = "log" THEN Range(worker.batch) ELSE {})

\* The requests that are in no table and will get into none.
Unreported == Requests \ (results.rows \cup Range(pending) \cup DOMAIN results.late)

\* The stages of the runner.
StageInv ==
  /\ DOMAIN results = {"rows", "late"}
  /\ runner.pc # "phase1" => processed = LastSlot
  /\ runner.pc \in {"collect", "drain", "done"} /\ ~ StopTimesOut => worker.pc = "idle"
  /\ runner.pc \in Stopping /\ ~ DrainTimesOut => pending = << >> /\ results.late = << >>
  /\ runner.pc # "done" => results.late = << >>
  /\ runner.pc = "done" => pending = << >>
  /\ results.rows \subseteq logged
  /\ runner.pc \in {"drain", "done"} =>
       /\ IsFiniteSet(Unreported)
       /\ Cardinality(Unreported) <= IF StopTimesOut THEN BatchSize ELSE 0

RunInv == TypeInv /\ ClockInv /\ PlaceInv /\ SlotInv /\ LogInv /\ StageInv

-----------------------------------------------------------------------------
(* Operators. *)

\* The smaller of two numbers.
LEMMA MinPair ==
  ASSUME NEW a \in Int, NEW b \in Int
  PROVE  Min({a, b}) = IF a <= b THEN a ELSE b
<1>1. PICK m \in {a, b} : \A y \in {a, b} : m =< y
  OBVIOUS
<1>2. Min({a, b}) \in {a, b} /\ \A y \in {a, b} : Min({a, b}) =< y
  BY <1>1 DEF Min
<1> QED
  BY <1>2

\* The larger of two numbers.
LEMMA MaxPair ==
  ASSUME NEW a \in Int, NEW b \in Int
  PROVE  Max({a, b}) = IF a >= b THEN a ELSE b
<1>1. PICK m \in {a, b} : \A y \in {a, b} : m >= y
  OBVIOUS
<1>2. Max({a, b}) \in {a, b} /\ \A y \in {a, b} : Max({a, b}) >= y
  BY <1>1 DEF Max
<1> QED
  BY <1>2

\* A sequence cut in two.
LEMMA CutSequence ==
  ASSUME NEW S, NEW q \in Seq(S), NEW n \in 0 .. Len(q)
  PROVE  /\ SubSeq(q, 1, n) \in Seq(S) /\ Len(SubSeq(q, 1, n)) = n
         /\ SubSeq(q, n + 1, Len(q)) \in Seq(S)
         /\ Range(q) = Range(SubSeq(q, 1, n)) \cup Range(SubSeq(q, n + 1, Len(q)))
<1>1. Len(q) \in Nat /\ n \in Nat /\ n <= Len(q)
  BY LenProperties
<1>2. \A i \in 1 .. Len(q) : q[i] \in S
  BY ElementOfSeq
<1>3. SubSeq(q, 1, n) \in Seq(S) /\ Len(SubSeq(q, 1, n)) = n
  BY <1>1, <1>2, SubSeqProperties
<1>4. SubSeq(q, n + 1, Len(q)) \in Seq(S)
  BY <1>1, <1>2, SubSeqProperties
<1>5. 1 \in 1 .. Len(q) + 1 /\ n \in 1 - 1 .. Len(q) /\ Len(q) \in n .. Len(q)
  BY <1>1
<1>6. SubSeq(q, 1, n) \o SubSeq(q, n + 1, Len(q)) = q
  BY <1>5, ConcatAdjacentSubSeq, SubSeqFull
<1> DEFINE a == SubSeq(q, 1, n)
           b == SubSeq(q, n + 1, Len(q))
<1>7. Range(a \o b) = Range(a) \cup Range(b)
  <2>1. a \in Seq(S) /\ b \in Seq(S)
    BY <1>3, <1>4
  <2> HIDE DEF a, b
  <2> QED
    BY <2>1, RangeConcatenation, ZenonT(40)
<1> QED
  BY <1>3, <1>4, <1>6, <1>7, Zenon

\* The parts of a sequence without repetitions share nothing, and have none.
LEMMA CutInjective ==
  ASSUME NEW S, NEW q \in Seq(S), IsInjective(q), NEW n \in 0 .. Len(q)
  PROVE  /\ Range(SubSeq(q, 1, n)) \cap Range(SubSeq(q, n + 1, Len(q))) = {}
         /\ IsInjective(SubSeq(q, n + 1, Len(q)))
<1> DEFINE a == SubSeq(q, 1, n)
           b == SubSeq(q, n + 1, Len(q))
<1>1. Len(q) \in Nat /\ n \in Nat /\ n <= Len(q) /\ DOMAIN q = 1 .. Len(q)
  BY LenProperties
<1>2. \A i \in 1 .. Len(q) : q[i] \in S
  BY ElementOfSeq
<1>3. /\ a \in Seq(S) /\ Len(a) = n
      /\ \A i \in 1 .. n : a[i] = q[i]
  <2>1. \A i \in 1 .. n : q[i] \in S
    BY <1>1, <1>2
  <2> QED
    BY <1>1, <2>1, SubSeqProperties
<1>4. /\ b \in Seq(S) /\ Len(b) = Len(q) - n
      /\ \A i \in 1 .. Len(q) - n : b[i] = q[n + i]
  <2>1. \A i \in n + 1 .. Len(q) : q[i] \in S
    BY <1>1, <1>2
  <2> DEFINE m == n + 1
  <2>2. m \in Int /\ Len(q) \in Int /\ \A i \in m .. Len(q) : q[i] \in S
    BY <1>1, <2>1
  <2>3. /\ b \in Seq(S) /\ Len(b) = IF m <= Len(q) THEN Len(q) - m + 1 ELSE 0
        /\ \A i \in 1 .. Len(q) - m + 1 : b[i] = q[m + i - 1]
    BY <2>2, SubSeqProperties
  <2> HIDE DEF b
  <2>4. Len(b) = Len(q) - n
    <3>1. Len(b) = IF n + 1 <= Len(q) THEN Len(q) - (n + 1) + 1 ELSE 0
      BY <2>3
    <3>2. \A l, k \in Nat : k <= l => (IF k + 1 <= l THEN l - (k + 1) + 1 ELSE 0) = l - k
      OBVIOUS
    <3> HIDE DEF m
    <3> QED
      BY <1>1, <3>1, <3>2, Zenon
  <2>5. ASSUME NEW i \in 1 .. Len(q) - n PROVE b[i] = q[n + i]
    <3>1. i \in 1 .. Len(q) - m + 1 /\ m + i - 1 = n + i
      BY <1>1
    <3>2. b[i] = q[m + i - 1]
      BY <2>3, <3>1
    <3> QED
      BY <3>1, <3>2
  <2> QED
    BY <2>3, <2>4, <2>5
<1>5. DOMAIN a = 1 .. n /\ DOMAIN b = 1 .. Len(q) - n
  BY <1>3, <1>4, LenProperties
<1> HIDE DEF a, b
<1>6. IsInjective(b)
  <2> SUFFICES ASSUME NEW i \in 1 .. Len(q) - n, NEW j \in 1 .. Len(q) - n, b[i] = b[j]
               PROVE  i = j
    BY <1>5 DEF IsInjective
  <2>1. q[n + i] = q[n + j] /\ n + i \in 1 .. Len(q) /\ n + j \in 1 .. Len(q)
    BY <1>1, <1>4
  <2>2. n + i = n + j
    BY <1>1, <2>1 DEF IsInjective
  <2> QED
    BY <1>1, <2>2
<1>7. ASSUME NEW x \in Range(a), x \in Range(b) PROVE FALSE
  <2>1. PICK i \in 1 .. n : x = a[i]
    BY <1>5, <1>7 DEF Range
  <2>2. PICK j \in 1 .. Len(q) - n : x = b[j]
    BY <1>5, <1>7 DEF Range
  <2> HIDE DEF a, b
  <2>3. a[i] = q[i] /\ b[j] = q[n + j]
    BY <1>3, <1>4
  <2>4. i \in 1 .. Len(q) /\ n + j \in 1 .. Len(q)
    BY <1>1
  <2>5. q[i] = q[n + j]
    BY <2>1, <2>2, <2>3
  <2>6. i = n + j
    BY <1>1, <2>4, <2>5 DEF IsInjective
  <2> QED
    BY <1>1, <2>6
<1> QED
  BY <1>6, <1>7 DEF a, b

\* Two sequences that share nothing and repeat nothing, one after the other.
LEMMA ConcatInjective ==
  ASSUME NEW S, NEW p \in Seq(S), NEW q \in Seq(S), IsInjective(p), IsInjective(q),
         Range(p) \cap Range(q) = {}
  PROVE  IsInjective(p \o q)
<1>1. /\ Len(p) \in Nat /\ Len(q) \in Nat /\ DOMAIN p = 1 .. Len(p) /\ DOMAIN q = 1 .. Len(q)
      /\ p \o q \in Seq(S) /\ Len(p \o q) = Len(p) + Len(q)
      /\ \A i \in 1 .. Len(p) + Len(q) :
           (p \o q)[i] = IF i <= Len(p) THEN p[i] ELSE q[i - Len(p)]
  BY LenProperties, ConcatProperties
<1>2. DOMAIN (p \o q) = 1 .. Len(p) + Len(q)
  BY <1>1, LenProperties
<1> DEFINE c == p \o q
<1>3. ASSUME NEW i \in 1 .. Len(p) + Len(q), NEW j \in 1 .. Len(p) + Len(q), c[i] = c[j]
      PROVE  i = j
  <2>1. i <= Len(p) => c[i] = p[i] /\ i \in DOMAIN p
    BY <1>1
  <2>2. j <= Len(p) => c[j] = p[j] /\ j \in DOMAIN p
    BY <1>1
  <2>3. ~ (i <= Len(p)) => c[i] = q[i - Len(p)] /\ i - Len(p) \in DOMAIN q
    BY <1>1
  <2>4. ~ (j <= Len(p)) => c[j] = q[j - Len(p)] /\ j - Len(p) \in DOMAIN q
    BY <1>1
  <2> HIDE DEF c
  <2>5. (i <= Len(p)) <=> (j <= Len(p))
    BY <1>3, <2>1, <2>2, <2>3, <2>4 DEF Range
  <2>6. i <= Len(p) => i = j
    BY <1>3, <2>1, <2>2, <2>5 DEF IsInjective
  <2>7. ~ (i <= Len(p)) => i - Len(p) = j - Len(p)
    BY <1>3, <2>3, <2>4, <2>5 DEF IsInjective
  <2> QED
    BY <1>1, <2>6, <2>7
<1> QED
  BY <1>2, <1>3 DEF IsInjective

\* A sequence has no more members than positions.
LEMMA RangeBound ==
  ASSUME NEW S, NEW q \in Seq(S)
  PROVE  IsFiniteSet(Range(q)) /\ Cardinality(Range(q)) <= Len(q)
<1>1. Len(q) \in Nat /\ DOMAIN q = 1 .. Len(q) /\ q \in [1 .. Len(q) -> S]
  BY LenProperties
<1>2. q \in Surjection(1 .. Len(q), Range(q))
  BY <1>1 DEF Range, Surjection
<1>3. IsFiniteSet(1 .. Len(q)) /\ Cardinality(1 .. Len(q)) = Len(q)
  <2>1. Cardinality(1 .. Len(q)) = IF 1 > Len(q) THEN 0 ELSE Len(q) - 1 + 1
    BY <1>1, FS_Interval
  <2>2. IsFiniteSet(1 .. Len(q))
    BY <1>1, FS_Interval
  <2> QED
    BY <1>1, <2>1, <2>2
<1> QED
  BY <1>2, <1>3, FS_Surjection

\* What the configuration of a run provides.
LEMMA ConfigFacts ==
  ASSUME config \in Configs
  PROVE  /\ BatchSize \in Nat \ {0}
         /\ \A s \in Slots : /\ Arrivals[s] \in Seq(Requests)
                             /\ IsInjective(Arrivals[s])
                             /\ Range(Arrivals[s]) \subseteq Requests
         /\ \A s, t \in Slots : s # t => Range(Arrivals[s]) \cap Range(Arrivals[t]) = {}
         /\ \A s \in Slots : \A r \in Range(Arrivals[s]) : ArrivalSlot(r) = s
         /\ SkipEmpty \in BOOLEAN /\ StopTimesOut \in BOOLEAN /\ DrainTimesOut \in BOOLEAN
<1>1. config \in Config
  BY ConfigAssumption
<1>2. config.batchSize \in Nat \ {0} /\ config.arrivals \in [Slots -> Seq(Nat)]
      /\ config.skip \in BOOLEAN /\ config.drainLimit \in BOOLEAN
      /\ config.stopLimit \in BOOLEAN
  BY <1>1 DEF Config
<1>3. /\ \A s \in Slots : IsInjective(Arrivals[s])
      /\ \A s, t \in Slots : s # t => Range(Arrivals[s]) \cap Range(Arrivals[t]) = {}
  BY ConfigAssumption DEF Arrivals
<1>4. ASSUME NEW s \in Slots
      PROVE  Arrivals[s] \in Seq(Requests) /\ Range(Arrivals[s]) \subseteq Requests
  <2>1. Arrivals[s] \in Seq(Nat)
    BY <1>2 DEF Arrivals
  <2>2. Arrivals[s] \in Seq(Range(Arrivals[s]))
    BY <2>1, SeqOfRange
  <2>3. Range(Arrivals[s]) \subseteq Requests
    BY DEF Requests
  <2> QED
    BY <2>2, <2>3, SeqMonotonic
<1>5. ASSUME NEW s \in Slots, NEW r \in Range(Arrivals[s]) PROVE ArrivalSlot(r) = s
  <2>1. \A t \in Slots : r \in Range(Arrivals[t]) => t = s
    BY <1>3, <1>5
  <2>2. \E t \in Slots : r \in Range(Arrivals[t])
    BY <1>5
  <2> QED
    BY <2>1, <2>2 DEF ArrivalSlot
<1> QED
  BY <1>2, <1>3, <1>4, <1>5 DEF BatchSize, SkipEmpty, StopTimesOut, DrainTimesOut

\* The configuration does not change, nor anything that is read from it.
LEMMA ConfigKept ==
  ASSUME config' = config
  PROVE  /\ Requests' = Requests /\ Arrivals' = Arrivals /\ BatchSize' = BatchSize
         /\ StopTimesOut' = StopTimesOut /\ DrainTimesOut' = DrainTimesOut
BY DEF Requests, Arrivals, BatchSize, StopTimesOut, DrainTimesOut

\* The slot a request arrives in does not change.
LEMMA ArrivalKept ==
  ASSUME config' = config, NEW r
  PROVE  ArrivalSlot(r)' = ArrivalSlot(r)
BY DEF Arrivals, ArrivalSlot

\* The slots of the horizon.
LEMMA SizeFacts ==
  /\ TotalSlots \in Nat \ {0} /\ SlotTicks \in Nat \ {0} /\ MaxElapsed \in Nat
  /\ Slots \subseteq Nat /\ 0 \in Slots /\ LastSlot \in Slots
  /\ Slots = 0 .. LastSlot /\ Slots \subseteq -1 .. LastSlot
BY RunAssumption DEF Slots, LastSlot

\* Division by the length of a slot.
LEMMA SlotOfTick ==
  ASSUME NEW n \in Nat
  PROVE  /\ n \div SlotTicks \in Nat
         /\ SlotTicks * (n \div SlotTicks) <= n
         /\ n < SlotTicks * (n \div SlotTicks) + SlotTicks
<1>1. SlotTicks \in Nat \ {0}
  BY SizeFacts
<1>2. \A k \in Nat \ {0} : /\ n \div k \in Nat
                            /\ k * (n \div k) <= n
                            /\ n < k * (n \div k) + k
  OBVIOUS
<1> QED
  BY <1>1, <1>2

\* A tick beyond the horizon is clamped to the last slot.
LEMMA ClampedSlot ==
  ASSUME NEW n \in Nat
  PROVE  /\ Min({n \div SlotTicks, LastSlot}) \in Slots
         /\ Min({n \div SlotTicks, LastSlot})
              = IF n \div SlotTicks <= LastSlot THEN n \div SlotTicks ELSE LastSlot
<1>1. n \div SlotTicks \in Nat /\ LastSlot \in Nat
  BY SlotOfTick, SizeFacts
<1> QED
  BY <1>1, MinPair, SizeFacts

\* A batch of at most batch_size requests taken from the front of the queue.
Claim ==
  /\ worker.pc = "idle" /\ SchedulerRuns
  /\ \E n \in 0 .. Len(pending) :
       /\ n <= BatchSize
       /\ worker' = [pc |-> "solve", batch |-> SubSeq(pending, 1, n), slot |-> loop.slot]
       /\ pending' = SubSeq(pending, n + 1, Len(pending))

\* What a turn of dispatch_batch_workers does to the queue and the worker.
LEMMA DispatchClaims ==
  ASSUME TypeInv, NEW m, Dispatch(m)
  PROVE  UNCHANGED <<worker, pending>> \/ Claim
<1>1. CASE ~ CanClaim(m)
  BY <1>1 DEF Dispatch
<1>2. CASE CanClaim(m)
  <2>1. BatchSize \in Nat \ {0} /\ Len(pending) \in Nat
    BY ConfigFacts, LenProperties DEF TypeInv
  <2> DEFINE n == Min({Len(pending), BatchSize})
  <2>2. n \in 0 .. Len(pending) /\ n <= BatchSize
    BY <2>1, MinPair
  <2>3. /\ worker' = [pc |-> "solve", batch |-> SubSeq(pending, 1, n), slot |-> loop.slot]
        /\ pending' = SubSeq(pending, n + 1, Len(pending))
    BY <1>2 DEF Dispatch
  <2>4. worker.pc = "idle" /\ SchedulerRuns
    BY <1>2 DEF CanClaim
  <2> HIDE DEF n
  <2> QED
    BY <2>2, <2>3, <2>4 DEF Claim
<1> QED
  BY <1>1, <1>2

\* What a claim takes and what it leaves.
LEMMA ClaimEffect ==
  ASSUME TypeInv, Claim
  PROVE  /\ worker'.pc = "solve" /\ worker'.slot = loop.slot
         /\ worker'.batch \in Seq(Requests) /\ Len(worker'.batch) <= BatchSize
         /\ worker' \in WorkerTypes
         /\ pending' \in Seq(Requests)
         /\ Range(pending) = Range(worker'.batch) \cup Range(pending')
         /\ IsInjective(pending) => /\ IsInjective(pending')
                                    /\ Range(worker'.batch) \cap Range(pending') = {}
<1>1. PICK n \in 0 .. Len(pending) :
        /\ n <= BatchSize
        /\ worker' = [pc |-> "solve", batch |-> SubSeq(pending, 1, n), slot |-> loop.slot]
        /\ pending' = SubSeq(pending, n + 1, Len(pending))
  BY DEF Claim
<1>2. pending \in Seq(Requests) /\ loop.slot \in Slots
  BY DEF TypeInv, LoopTypes
<1>3. worker'.pc = "solve" /\ worker'.slot = loop.slot /\ worker'.batch = SubSeq(pending, 1, n)
  BY <1>1
<1>4. /\ worker'.batch \in Seq(Requests) /\ Len(worker'.batch) = n
      /\ pending' \in Seq(Requests)
      /\ Range(pending) = Range(worker'.batch) \cup Range(pending')
  BY <1>1, <1>2, <1>3, CutSequence
<1>5. IsInjective(pending) => /\ IsInjective(pending')
                             /\ Range(worker'.batch) \cap Range(pending') = {}
  BY <1>1, <1>2, <1>3, CutInjective
<1>6. worker' \in WorkerTypes
  BY <1>1, <1>2, <1>3, <1>4 DEF WorkerTypes
<1> QED
  BY <1>1, <1>3, <1>4, <1>5, <1>6

\* The three branches of the main loop that dispatch.
Turn ==
  /\ UNCHANGED <<worker, pending>> \/ Claim
  /\ loop.pc = "act" /\ loop'.pc # "act" /\ loop' \in LoopTypes
  /\ UNCHANGED <<config, elapsed, processed, gen, solvedIn, logged, runner, results>>

\* What the dispatching branches have in common.
LEMMA TurnsDispatch ==
  ASSUME TypeInv, DispatchFull \/ Flush \/ TimeoutFlush
  PROVE  Turn
<1>1. loop \in LoopTypes /\ loop.slot \in -1 .. LastSlot
  <2>1. loop \in LoopTypes
    BY DEF TypeInv
  <2>2. loop.slot \in Slots
    BY <2>1 DEF LoopTypes
  <2> QED
    BY <2>1, <2>2, SizeFacts
<1>2. \A m : CanClaim(m) \in BOOLEAN
  BY DEF CanClaim, SchedulerRuns
<1>3. CASE DispatchFull
  <2>1. loop' = [loop EXCEPT !.pc = "count", !.did = CanClaim(BatchSize)]
    BY <1>3 DEF DispatchFull
  <2>2. loop' \in LoopTypes /\ loop'.pc # "act"
    BY <1>1, <1>2, <2>1 DEF LoopTypes
  <2> QED
    BY <1>3, <2>2, DispatchClaims DEF DispatchFull, Turn
<1>4. CASE Flush
  <2>1. loop' = [loop EXCEPT !.pc = "backlog", !.did = CanClaim(1), !.lastFlush = loop.slot]
    BY <1>4 DEF Flush
  <2>2. loop' \in LoopTypes /\ loop'.pc # "act"
    BY <1>1, <1>2, <2>1 DEF LoopTypes
  <2> QED
    BY <1>4, <2>2, DispatchClaims DEF Flush, Turn
<1>5. CASE TimeoutFlush
  <2>1. \/ loop' = [loop EXCEPT !.pc = "backlog", !.did = CanClaim(1)]
        \/ loop' = [loop EXCEPT !.pc = "count"]
    BY <1>5 DEF TimeoutFlush
  <2>2. loop' \in LoopTypes /\ loop'.pc # "act"
    BY <1>1, <1>2, <2>1 DEF LoopTypes
  <2> QED
    BY <1>5, <2>2, DispatchClaims DEF TimeoutFlush, Turn
<1> QED
  BY <1>3, <1>4, <1>5

\* The steps of the main loop that only read.
LoopReads ==
  /\ loop'.pc # "act" /\ loop' \in LoopTypes
  /\ UNCHANGED <<config, elapsed, processed, pending, gen, worker, solvedIn, logged,
                 runner, results>>

\* What the reading steps of the main loop have in common.
LEMMA LoopOnlyReads ==
  ASSUME TypeInv, CountPending \/ CountActive \/ SetBacklog \/ Idle
  PROVE  LoopReads
<1>1. loop \in LoopTypes /\ Len(pending) \in Nat /\ active_workers \in {0, 1}
  BY LenProperties DEF TypeInv, active_workers
<1>2. CASE CountPending
  BY <1>1, <1>2 DEF CountPending, LoopReads, LoopTypes
<1>3. CASE CountActive
  BY <1>1, <1>3 DEF CountActive, LoopReads, LoopTypes
<1>4. CASE SetBacklog
  BY <1>1, <1>4 DEF SetBacklog, LoopReads, LoopTypes
<1>5. CASE Idle
  BY <1>1, <1>5 DEF Idle, LoopReads, LoopTypes
<1> QED
  BY <1>2, <1>3, <1>4, <1>5

\* The steps of the runner up to the collection of the results.
RunnerWaits ==
  AwaitGenerator \/ ReadStatistics \/ ReadPending \/ StopGenerator \/ StopScheduler

\* The runner changes nothing but its own state while it waits.
LEMMA RunnerOnlyWaits ==
  ASSUME TypeInv, RunnerWaits
  PROVE  /\ runner' \in RunnerTypes
         /\ UNCHANGED <<config, elapsed, processed, pending, gen, loop, worker, solvedIn,
                        logged, results>>
<1>1. runner \in RunnerTypes /\ active_workers \in {0, 1}
  BY DEF TypeInv, active_workers
<1>2. ASSUME NEW pc \in {"phase1", "phase2", "phase2 pending"} \cup Stopping, Goto(pc)
      PROVE  runner' \in RunnerTypes
  BY <1>1, <1>2 DEF Goto, RunnerTypes
<1>3. CASE AwaitGenerator
  BY <1>2, <1>3 DEF AwaitGenerator
<1>4. CASE ReadStatistics
  BY <1>1, <1>4 DEF ReadStatistics, RunnerTypes
<1>5. CASE ReadPending
  BY <1>2, <1>5 DEF ReadPending, Stopping
<1>6. CASE StopGenerator
  BY <1>2, <1>6 DEF StopGenerator, Stopping
<1>7. CASE StopScheduler
  BY <1>2, <1>7 DEF StopScheduler, Stopping
<1> QED
  BY <1>3, <1>4, <1>5, <1>6, <1>7 DEF RunnerWaits

-----------------------------------------------------------------------------
(* Types. *)

\* The initial state is well typed.
LEMMA TypesInit == Init => TypeInv
<1> SUFFICES ASSUME Init PROVE TypeInv
  OBVIOUS
<1>1. config \in Configs
  BY DEF Init
<1>2. elapsed \in 0 .. Max({MaxElapsed, TotalSlots * SlotTicks})
  <2>1. TotalSlots * SlotTicks \in Nat /\ MaxElapsed \in Nat
    BY SizeFacts
  <2> QED
    BY <2>1, MaxPair DEF Init
<1>3. pending \in Seq(Requests) /\ << >> \in Seq(Requests) /\ Len(<< >>) = 0
  BY EmptySeq DEF Init
<1>4. DOMAIN solvedIn \subseteq Requests
  <2>1. DOMAIN << >> = 1 .. 0
    BY <1>3, LenProperties
  <2> QED
    BY <2>1 DEF Init
<1>5. BatchSize \in Nat
  BY <1>1, ConfigFacts
<1> QED
  BY <1>1, <1>2, <1>3, <1>4, <1>5, SizeFacts
     DEF Init, TypeInv, GenTypes, LoopTypes, WorkerTypes, RunnerTypes

\* The clock shows a slot of the horizon.
LEMMA ClockInRange ==
  ASSUME TypeInv
  PROVE  /\ elapsed \in Nat
         /\ ClockSlot \in Slots
         /\ ClockSlot = IF raw_slot <= LastSlot THEN raw_slot ELSE LastSlot
         /\ raw_slot \in Nat
<1>1. TotalSlots * SlotTicks \in Nat /\ MaxElapsed \in Nat
  BY SizeFacts
<1>2. Max({MaxElapsed, TotalSlots * SlotTicks}) \in Nat
  BY <1>1, MaxPair
<1>3. elapsed \in Nat
  BY <1>2 DEF TypeInv
<1> QED
  BY <1>3, ClampedSlot, SlotOfTick DEF ClockSlot, raw_slot

\* A chunk continues where the last one of the slot ended.
LEMMA ChunkOfSlot ==
  ASSUME TypeInv, EmitChunk
  PROVE  \E upTo \in gen.sent .. Len(Arrivals[gen.slot]) :
           /\ pending' = pending \o SubSeq(Arrivals[gen.slot], gen.sent + 1, upTo)
           /\ gen' = [gen EXCEPT !.sent = upTo]
<1> DEFINE size == IF Paced THEN RealtimeChunk ELSE BurstChunk
           most == gen.sent + size
           all == Len(Arrivals[gen.slot])
           upTo == Min({most, all})
<1>1. /\ pending' = pending \o SubSeq(Arrivals[gen.slot], gen.sent + 1, upTo)
      /\ gen' = [gen EXCEPT !.sent = upTo]
      /\ gen.sent < all
  BY DEF EmitChunk
<1>2. gen.slot \in Slots /\ gen.sent \in Nat
  BY DEF TypeInv, GenTypes
<1>3. Arrivals[gen.slot] \in Seq(Requests)
  BY <1>2, ConfigFacts DEF TypeInv
<1>4. size \in Nat \ {0} /\ all \in Nat
  BY <1>3, RunAssumption, LenProperties
<1> HIDE DEF size, all
<1>5. most \in Nat /\ gen.sent <= most
  BY <1>2, <1>4
<1> HIDE DEF most
<1>6. upTo = IF most <= all THEN most ELSE all
  BY <1>4, <1>5, MinPair
<1> HIDE DEF upTo
<1>7. upTo \in gen.sent .. all
  BY <1>1, <1>2, <1>4, <1>5, <1>6
<1> QED
  BY <1>1, <1>7 DEF all

\* The steps of the generator keep its types.
LEMMA TypesGenerator ==
  ASSUME TypeInv, ClockInv, Generator
  PROVE  gen' \in GenTypes /\ processed' \in -1 .. LastSlot /\ pending' \in Seq(Requests)
<1>1. /\ gen \in GenTypes /\ gen.slot \in Slots /\ gen.last \in -1 .. LastSlot
      /\ gen.target \in -1 .. LastSlot /\ gen.sent \in Nat
      /\ processed \in -1 .. LastSlot /\ pending \in Seq(Requests)
  BY DEF TypeInv, GenTypes
<1>2. Slots = 0 .. LastSlot /\ LastSlot \in Nat
  BY SizeFacts
<1>3. CASE ReadClock
  <2> DEFINE target == Min({raw_slot, LastSlot})
  <2>1. target \in Slots /\ raw_slot \in Nat
    BY ClockInRange DEF ClockSlot, raw_slot
  <2>2. \/ gen' = [gen EXCEPT !.pc = "stopped"]
        \/ /\ target > gen.last
           /\ gen' = [gen EXCEPT !.pc = "emit", !.target = target, !.raw = raw_slot,
                                 !.slot = gen.last + 1, !.sent = 0]
    BY <1>3 DEF ReadClock
  <2>3. UNCHANGED <<processed, pending>>
    BY <1>3 DEF ReadClock
  <2> HIDE DEF target
  <2>4. CASE gen' = [gen EXCEPT !.pc = "stopped"]
    BY <1>1, <2>3, <2>4 DEF GenTypes
  <2>5. CASE target > gen.last /\ gen' = [gen EXCEPT !.pc = "emit", !.target = target,
                                 !.raw = raw_slot, !.slot = gen.last + 1, !.sent = 0]
    <3>1. gen.last + 1 \in Slots /\ target \in -1 .. LastSlot
      BY <1>1, <1>2, <2>1, <2>5
    <3>2. gen' \in GenTypes
      BY <1>1, <2>1, <2>5, <3>1 DEF GenTypes
    <3> QED
      BY <1>1, <2>3, <3>2
  <2> QED
    BY <2>2, <2>4, <2>5
<1>4. CASE EmitChunk
  <2>1. PICK upTo \in gen.sent .. Len(Arrivals[gen.slot]) :
          /\ pending' = pending \o SubSeq(Arrivals[gen.slot], gen.sent + 1, upTo)
          /\ gen' = [gen EXCEPT !.sent = upTo]
    BY <1>4, ChunkOfSlot
  <2> DEFINE chunk == SubSeq(Arrivals[gen.slot], gen.sent + 1, upTo)
  <2>2. Arrivals[gen.slot] \in Seq(Requests)
    BY <1>1, ConfigFacts DEF TypeInv
  <2>3. upTo \in Nat /\ upTo <= Len(Arrivals[gen.slot]) /\ Len(Arrivals[gen.slot]) \in Nat
    BY <1>1, <2>2, LenProperties
  <2>4. \A i \in gen.sent + 1 .. upTo : Arrivals[gen.slot][i] \in Requests
    BY <1>1, <2>2, <2>3, ElementOfSeq
  <2>5. chunk \in Seq(Requests)
    BY <1>1, <2>3, <2>4, SubSeqProperties
  <2>6. pending' = pending \o chunk
    BY <2>1
  <2> HIDE DEF chunk
  <2>7. pending' \in Seq(Requests)
    BY <1>1, <2>5, <2>6, ConcatProperties
  <2>8. gen' \in GenTypes
    BY <1>1, <2>1, <2>3 DEF GenTypes
  <2>9. UNCHANGED processed
    BY <1>4 DEF EmitChunk
  <2> QED
    BY <1>1, <2>7, <2>8, <2>9
<1>5. CASE SetProcessed
  BY <1>1, <1>2, <1>5 DEF SetProcessed, GenTypes
<1>6. CASE WaitForDrain
  <2>1. UNCHANGED <<processed, pending>>
    BY <1>6 DEF WaitForDrain
  <2>2. gen' = IF gen.slot < gen.target
               THEN [gen EXCEPT !.pc = "emit", !.slot = gen.slot + 1, !.sent = 0]
               ELSE [gen EXCEPT !.last = gen.target,
                                !.pc = IF gen.raw >= TotalSlots THEN "stopped" ELSE "check"]
    BY <1>6 DEF WaitForDrain
  <2>3. gen.slot < gen.target => gen.slot + 1 \in Slots
    BY <1>1, <1>2
  <2>4. gen' \in GenTypes
    BY <1>1, <2>2, <2>3 DEF GenTypes
  <2> QED
    BY <1>1, <2>1, <2>4
<1> QED
  BY <1>3, <1>4, <1>5, <1>6 DEF Generator

\* A turn of the loop that looks at the clock.
LEMMA TickEffect ==
  ASSUME TypeInv, Tick
  PROVE  /\ elapsed' \in 0 .. Max({MaxElapsed, TotalSlots * SlotTicks})
         /\ elapsed <= elapsed' /\ elapsed' \in Nat
         /\ loop' \in LoopTypes /\ loop'.pc = "act" /\ loop'.slot = ClockSlot'
<1>1. TotalSlots * SlotTicks \in Nat /\ MaxElapsed \in Nat
  BY SizeFacts
<1>2. MaxElapsed <= Max({MaxElapsed, TotalSlots * SlotTicks})
      /\ Max({MaxElapsed, TotalSlots * SlotTicks}) \in Nat
  BY <1>1, MaxPair
<1>3. elapsed \in Nat
  BY ClockInRange
<1>4. PICK delta \in WallSteps :
        /\ elapsed + delta <= MaxElapsed
        /\ elapsed' = IF SkipEmpty /\ system_busy THEN elapsed ELSE elapsed + delta
  BY DEF Tick
<1>5. delta \in Nat
  BY RunAssumption
<1> DEFINE top == Max({MaxElapsed, TotalSlots * SlotTicks})
<1>6. elapsed' \in 0 .. top /\ elapsed <= elapsed' /\ elapsed' \in Nat
  <2>1. top \in Nat /\ MaxElapsed <= top /\ MaxElapsed \in Nat
    BY <1>1, <1>2
  <2>2. elapsed' = elapsed \/ elapsed' = elapsed + delta
    BY <1>4
  <2>3. elapsed + delta <= MaxElapsed
    BY <1>4
  <2> HIDE DEF top
  <2> QED
    BY <1>3, <1>5, <2>1, <2>2, <2>3
<1>7. Min({elapsed' \div SlotTicks, LastSlot}) \in Slots
  BY <1>6, ClampedSlot
<1>8. loop' = [loop EXCEPT !.pc = "act", !.did = FALSE,
                           !.slot = Min({elapsed' \div SlotTicks, LastSlot})]
  BY DEF Tick
<1>9. loop' \in LoopTypes /\ loop'.pc = "act"
      /\ loop'.slot = Min({elapsed' \div SlotTicks, LastSlot})
  BY <1>7, <1>8 DEF TypeInv, LoopTypes
<1> QED
  BY <1>6, <1>9 DEF ClockSlot

\* The jump over an emitted and drained slot.
LEMMA SkipEffect ==
  ASSUME TypeInv, Skip
  PROVE  /\ elapsed' \in 0 .. Max({MaxElapsed, TotalSlots * SlotTicks})
         /\ elapsed' \in Nat /\ elapsed' = (loop.slot + 1) * SlotTicks
         /\ loop' \in LoopTypes /\ loop'.pc = "count" /\ loop.pc = "act"
<1>1. loop \in LoopTypes /\ loop.slot \in Slots
  BY DEF TypeInv, LoopTypes
<1>2. elapsed' = (loop.slot + 1) * SlotTicks /\ loop.pc = "act"
      /\ loop' = [loop EXCEPT !.pc = "count", !.did = TRUE, !.lastSkip = loop.slot]
  BY DEF Skip
<1>3. loop.slot \in -1 .. LastSlot
  BY <1>1, SizeFacts
<1>4. loop' \in LoopTypes /\ loop'.pc = "count"
  BY <1>1, <1>2, <1>3 DEF LoopTypes
<1>5. loop.slot + 1 \in 1 .. TotalSlots /\ TotalSlots \in Nat /\ SlotTicks \in Nat
  BY <1>1, SizeFacts DEF Slots
<1>6. \A k, n, t \in Nat : k <= n => k * t <= n * t
  OBVIOUS
<1>7. (loop.slot + 1) * SlotTicks <= TotalSlots * SlotTicks
      /\ (loop.slot + 1) * SlotTicks \in Nat /\ TotalSlots * SlotTicks \in Nat
  BY <1>5, <1>6
<1>8. TotalSlots * SlotTicks <= Max({MaxElapsed, TotalSlots * SlotTicks})
      /\ Max({MaxElapsed, TotalSlots * SlotTicks}) \in Nat
  BY <1>7, MaxPair, SizeFacts
<1> DEFINE top == Max({MaxElapsed, TotalSlots * SlotTicks})
           e == (loop.slot + 1) * SlotTicks
           h == TotalSlots * SlotTicks
<1>9. e <= h /\ h <= top /\ e \in Nat /\ h \in Nat /\ top \in Nat
  BY <1>7, <1>8
<1> HIDE DEF top, e, h
<1>10. e \in 0 .. top
  BY <1>9
<1> QED
  BY <1>2, <1>4, <1>9, <1>10 DEF top, e

\* A batch is always claimed inside the horizon, so its solve places all of it.
LEMMA SolveEffect ==
  ASSUME TypeInv, SolveAndCommit
  PROVE  /\ worker.pc = "solve" /\ worker' = [worker EXCEPT !.pc = "log"]
         /\ worker' \in WorkerTypes /\ worker'.pc = "log" /\ worker'.batch = worker.batch
         /\ DOMAIN solvedIn' = Range(worker.batch) \cup DOMAIN solvedIn
         /\ \A r \in Range(worker.batch) : solvedIn'[r] = worker.slot
         /\ \A r \in DOMAIN solvedIn \ Range(worker.batch) : solvedIn'[r] = solvedIn[r]
         /\ UNCHANGED <<config, elapsed, processed, pending, gen, loop, logged, runner, results>>
<1>1. worker \in WorkerTypes /\ worker.slot \in Slots
  BY DEF TypeInv, WorkerTypes
<1>2. worker.slot < TotalSlots
  BY <1>1, SizeFacts DEF Slots
<1>3. /\ worker.pc = "solve" /\ worker' = [worker EXCEPT !.pc = "log"]
      /\ UNCHANGED <<config, elapsed, processed, pending, gen, loop, logged, runner, results>>
  BY <1>2 DEF SolveAndCommit
<1>4. solvedIn' = [r \in Range(worker.batch) \cup DOMAIN solvedIn |->
                     IF r \in Range(worker.batch) THEN worker.slot ELSE solvedIn[r]]
  BY <1>2 DEF SolveAndCommit
<1>5. worker' \in WorkerTypes /\ worker'.pc = "log" /\ worker'.batch = worker.batch
  BY <1>1, <1>3 DEF WorkerTypes
<1> QED
  BY <1>3, <1>4, <1>5

\* A worker is released with empty hands.
LEMMA ReleaseEffect ==
  ASSUME Release
  PROVE  /\ worker.pc = "release" /\ worker' \in WorkerTypes /\ worker'.pc = "idle"
         /\ Len(worker'.batch) = 0
         /\ UNCHANGED <<config, elapsed, processed, pending, gen, loop, solvedIn, logged,
                        runner, results>>
<1>1. << >> \in Seq(Requests) /\ Len(<< >>) = 0
  BY EmptySeq
<1> QED
  BY <1>1, SizeFacts DEF Release, WorkerTypes

\* A worker logs the batch it has committed.
LEMMA LogEffect ==
  ASSUME TypeInv, LogRows
  PROVE  /\ worker.pc = "log" /\ worker' \in WorkerTypes /\ worker'.pc = "release"
         /\ worker'.batch = worker.batch
         /\ logged' = logged \cup Range(worker.batch)
         /\ UNCHANGED <<config, elapsed, processed, pending, gen, loop, solvedIn,
                        runner, results>>
BY DEF LogRows, TypeInv, WorkerTypes

\* The last two steps of the runner.
LEMMA CollectEffect ==
  ASSUME TypeInv, ReadRows \/ ScheduleLate
  PROVE  /\ runner' \in RunnerTypes
         /\ UNCHANGED <<config, elapsed, processed, gen, loop, worker, solvedIn, logged>>
         /\ pending' \in Seq(Requests)
<1>1. runner \in RunnerTypes /\ pending \in Seq(Requests) /\ << >> \in Seq(Requests)
  BY EmptySeq DEF TypeInv
<1>2. CASE ReadRows
  BY <1>1, <1>2, Zenon DEF ReadRows, Goto, RunnerTypes, Stopping
<1>3. CASE ScheduleLate
  BY <1>1, <1>3, Zenon DEF ScheduleLate, Goto, RunnerTypes, Stopping
<1> QED
  BY <1>2, <1>3

\* The steps of a run, grouped by what they may change.
LEMMA StepCases ==
  ASSUME TypeInv, [Next]_vars
  PROVE  \/ UNCHANGED vars \/ Generator \/ LoopReads \/ Turn \/ Tick \/ Skip
         \/ SolveAndCommit \/ LogRows \/ Release
         \/ RunnerWaits \/ ReadRows \/ ScheduleLate
<1>1. \/ UNCHANGED vars \/ Generator \/ MainLoop \/ Worker \/ Runner
  BY DEF Next
<1>2. MainLoop => LoopReads \/ Turn \/ Tick \/ Skip
  BY LoopOnlyReads, TurnsDispatch DEF MainLoop
<1>3. Worker => SolveAndCommit \/ LogRows \/ Release
  BY DEF Worker
<1>4. Runner => RunnerWaits \/ ReadRows \/ ScheduleLate
  BY DEF Runner, RunnerWaits
<1> QED
  BY <1>1, <1>2, <1>3, <1>4

\* Types are kept when every variable that changes keeps its own.
LEMMA TypesFrame ==
  ASSUME config \in Configs, config' = config,
         elapsed' \in 0 .. Max({MaxElapsed, TotalSlots * SlotTicks}),
         processed' \in -1 .. LastSlot, pending' \in Seq(Requests), gen' \in GenTypes,
         loop' \in LoopTypes, worker' \in WorkerTypes, Len(worker'.batch) <= BatchSize,
         DOMAIN solvedIn' \subseteq Requests, runner' \in RunnerTypes
  PROVE  TypeInv' /\ config' = config
<1>1. Requests' = Requests /\ BatchSize' = BatchSize
  BY ConfigKept
<1>2. WorkerTypes' = WorkerTypes
  BY <1>1 DEF WorkerTypes
<1> QED
  BY <1>1, <1>2 DEF TypeInv

\* Every step keeps the types, and none the configuration.
LEMMA TypesNext ==
  ASSUME TypeInv, ClockInv, [Next]_vars
  PROVE  TypeInv' /\ config' = config
<1>1. CASE UNCHANGED vars
  BY <1>1, TypesFrame DEF TypeInv, vars
<1>2. CASE Generator
  <2>1. UNCHANGED <<config, elapsed, loop, worker, solvedIn, runner>>
    BY <1>2 DEF Generator, ReadClock, EmitChunk, SetProcessed, WaitForDrain
  <2>2. gen' \in GenTypes /\ processed' \in -1 .. LastSlot /\ pending' \in Seq(Requests)
    BY <1>2, TypesGenerator
  <2> QED
    BY <2>1, <2>2, TypesFrame DEF TypeInv
<1>3. CASE LoopReads
  BY <1>3, TypesFrame DEF TypeInv, LoopReads
<1>4. CASE Turn
  <2>1. /\ UNCHANGED <<config, elapsed, processed, gen, solvedIn, runner>>
        /\ loop' \in LoopTypes
    BY <1>4 DEF Turn
  <2>2. worker' \in WorkerTypes /\ Len(worker'.batch) <= BatchSize /\ pending' \in Seq(Requests)
    <3>1. CASE UNCHANGED <<worker, pending>>
      BY <3>1 DEF TypeInv
    <3>2. CASE Claim
      BY <3>2, ClaimEffect
    <3> QED
      BY <1>4, <3>1, <3>2 DEF Turn
  <2> QED
    BY <2>1, <2>2, TypesFrame DEF TypeInv
<1>5. CASE Tick
  <2>1. UNCHANGED <<config, processed, pending, gen, worker, solvedIn, runner>>
    BY <1>5 DEF Tick
  <2> QED
    BY <1>5, <2>1, TickEffect, TypesFrame DEF TypeInv
<1>6. CASE Skip
  <2>1. UNCHANGED <<config, processed, pending, gen, worker, solvedIn, runner>>
    BY <1>6 DEF Skip
  <2> QED
    BY <1>6, <2>1, SkipEffect, TypesFrame DEF TypeInv
<1>7. CASE SolveAndCommit
  <2>1. Range(worker.batch) \subseteq Requests
    BY RangeOfSeq DEF TypeInv, WorkerTypes
  <2> QED
    BY <1>7, <2>1, SolveEffect, TypesFrame DEF TypeInv
<1>8. CASE LogRows
  BY <1>8, LogEffect, TypesFrame DEF TypeInv
<1>9. CASE Release
  <2>1. 0 <= BatchSize
    BY ConfigFacts DEF TypeInv
  <2> QED
    BY <1>9, <2>1, ReleaseEffect, TypesFrame DEF TypeInv
<1>10. CASE RunnerWaits
  BY <1>10, RunnerOnlyWaits, TypesFrame DEF TypeInv
<1>11. CASE ReadRows \/ ScheduleLate
  BY <1>11, CollectEffect, TypesFrame DEF TypeInv
<1> QED
  BY <1>1, <1>2, <1>3, <1>4, <1>5, <1>6, <1>7, <1>8, <1>9, <1>10, <1>11, StepCases

-----------------------------------------------------------------------------
(* Clocks. *)

\* More ticks are not an earlier slot.
LEMMA SlotGrows ==
  ASSUME NEW n \in Nat, NEW m \in Nat, n <= m
  PROVE  n \div SlotTicks <= m \div SlotTicks
<1> DEFINE a == n \div SlotTicks
           b == m \div SlotTicks
<1>1. /\ a \in Nat /\ b \in Nat /\ SlotTicks * a <= n /\ m < SlotTicks * b + SlotTicks
      /\ SlotTicks \in Nat
  BY SlotOfTick, SizeFacts
<1> HIDE DEF a, b
<1>2. \A k, x, y \in Nat : x >= y + 1 => k * x >= k * y + k
  OBVIOUS
<1>3. ~ (a >= b + 1)
  <2> SUFFICES ASSUME a >= b + 1 PROVE FALSE
    OBVIOUS
  <2>1. SlotTicks * a >= SlotTicks * b + SlotTicks
    BY <1>1, <1>2
  <2> DEFINE c == SlotTicks * a
             d == SlotTicks * b
  <2>2. c \in Int /\ d \in Int /\ c <= n /\ m < d + SlotTicks /\ c >= d + SlotTicks
    BY <1>1, <2>1
  <2> HIDE DEF c, d
  <2> QED
    BY <1>1, <2>2
<1>4. a <= b
  BY <1>1, <1>3
<1> QED
  BY <1>4 DEF a, b

\* The clock never shows an earlier slot.
LEMMA ClockGrows ==
  ASSUME TypeInv, ClockInv, Tick \/ Skip
  PROVE  ClockSlot <= ClockSlot' /\ ClockSlot' \in Slots
<1>1. LastSlot \in Nat /\ elapsed \in Nat /\ raw_slot \in Nat
      /\ ClockSlot = IF raw_slot <= LastSlot THEN raw_slot ELSE LastSlot
  BY ClockInRange, SizeFacts
<1>2. elapsed' \in Nat
  BY TickEffect, SkipEffect
<1> DEFINE next == elapsed' \div SlotTicks
<1>3. /\ next \in Nat /\ ClockSlot' \in Slots
      /\ ClockSlot' = IF next <= LastSlot THEN next ELSE LastSlot
  BY <1>2, ClampedSlot, SlotOfTick DEF ClockSlot
<1> HIDE DEF next
<1>4. CASE Tick
  <2>1. raw_slot <= next
    BY <1>1, <1>2, <1>4, TickEffect, SlotGrows DEF raw_slot, next
  <2> QED
    BY <1>1, <1>3, <2>1
<1>5. CASE Skip
  <2>1. loop.slot = ClockSlot /\ elapsed' = (loop.slot + 1) * SlotTicks
    BY <1>5, SkipEffect DEF ClockInv
  <2>2. loop.slot \in Nat
    BY SizeFacts DEF TypeInv, LoopTypes
  <2>3. \A t \in Nat \ {0} : \A s \in Nat : ((s + 1) * t) \div t >= s
    <3> SUFFICES ASSUME NEW t \in Nat \ {0}, NEW s \in Nat PROVE ((s + 1) * t) \div t >= s
      OBVIOUS
    <3> DEFINE p == (s + 1) * t
               q == p \div t
    <3>1. p \in Nat /\ p = t * s + t
      OBVIOUS
    <3> HIDE DEF p
    <3>2. q \in Nat /\ p < t * q + t
      BY <3>1
    <3> HIDE DEF q
    <3>3. t * s < t * q
      <4> DEFINE x == t * s
                 y == t * q
      <4>1. x \in Int /\ y \in Int /\ x + t < y + t /\ t \in Int
        BY <3>1, <3>2
      <4> HIDE DEF x, y
      <4>2. x < y
        BY <4>1
      <4> QED
        BY <4>2 DEF x, y
    <3>4. \A k, x, y \in Nat : x <= y => k * x <= k * y
      OBVIOUS
    <3>5. ~ (q <= s)
      <4> SUFFICES ASSUME q <= s PROVE FALSE
        OBVIOUS
      <4>1. t * q <= t * s
        BY <3>2, <3>4
      <4> DEFINE x == t * s
                 y == t * q
      <4>2. x \in Int /\ y \in Int /\ x < y /\ y <= x
        BY <3>2, <3>3, <4>1
      <4> HIDE DEF x, y
      <4> QED
        BY <4>2
    <3>6. q >= s
      BY <3>2, <3>5
    <3> QED
      BY <3>6 DEF q, p
  <2>4. next >= loop.slot
    BY <2>1, <2>2, <2>3, SizeFacts DEF next
  <2>5. loop.slot <= LastSlot
    BY <1>1, <2>1, <2>2
  <2> QED
    BY <1>1, <1>3, <2>1, <2>2, <2>4, <2>5
<1> QED
  BY <1>4, <1>5

\* What does not touch the generator or the clock keeps them in agreement.
LEMMA ClockFrame ==
  ASSUME ClockInv, config' = config, UNCHANGED <<elapsed, processed, gen>>,
         loop' = loop \/ loop'.pc # "act"
  PROVE  ClockInv'
<1>1. Arrivals' = Arrivals /\ ClockSlot' = ClockSlot
  BY ConfigKept DEF ClockSlot
<1> QED
  BY <1>1 DEF ClockInv

\* The generator keeps behind the clock.
LEMMA ClockGenerator ==
  ASSUME TypeInv, ClockInv, Generator
  PROVE  ClockInv'
<1>1. UNCHANGED <<config, elapsed, loop>>
  BY DEF Generator, ReadClock, EmitChunk, SetProcessed, WaitForDrain
<1>2. Arrivals' = Arrivals /\ ClockSlot' = ClockSlot
  BY <1>1, ConfigKept DEF ClockSlot
<1>3. /\ gen \in GenTypes /\ gen.slot \in Nat /\ gen.last \in Int
      /\ gen.target \in Int /\ gen.sent \in Nat /\ processed \in Int /\ ClockSlot \in Nat
      /\ gen.last <= LastSlot /\ gen.slot <= LastSlot
  BY SizeFacts, ClockInRange DEF TypeInv, GenTypes
<1>4. loop'.pc = "act" => loop'.slot = ClockSlot'
  BY <1>1, <1>2 DEF ClockInv
<1>5. CASE ReadClock
  <2> DEFINE target == Min({raw_slot, LastSlot})
  <2>1. /\ gen.pc = "check" /\ UNCHANGED processed
        /\ \/ gen' = [gen EXCEPT !.pc = "stopped"]
           \/ /\ target > gen.last
              /\ gen' = [gen EXCEPT !.pc = "emit", !.target = target, !.raw = raw_slot,
                                    !.slot = gen.last + 1, !.sent = 0]
    BY <1>5 DEF ReadClock
  <2>2. target = ClockSlot
    BY DEF ClockSlot, raw_slot
  <2> HIDE DEF target
  <2>3. CASE gen' = [gen EXCEPT !.pc = "stopped"]
    BY <1>2, <1>3, <1>4, <2>1, <2>3 DEF ClockInv, GenTypes
  <2>4. CASE target > gen.last /\ gen' = [gen EXCEPT !.pc = "emit", !.target = target,
                                   !.raw = raw_slot, !.slot = gen.last + 1, !.sent = 0]
    <3>1. /\ gen'.pc = "emit" /\ gen'.target = target /\ gen'.slot = gen.last + 1
          /\ gen'.sent = 0 /\ gen'.last = gen.last
      BY <1>3, <2>4 DEF GenTypes
    <3>2. processed' = gen.last
      BY <2>1 DEF ClockInv
    <3>3. gen.last + 1 \in Slots
      <4>1. gen.last >= -1 /\ gen.last < LastSlot /\ gen.last \in Int /\ LastSlot \in Int
        <5>1. ClockSlot <= LastSlot /\ ClockSlot \in Int /\ LastSlot \in Int
          BY ClockInRange, SizeFacts
        <5>2. gen.last \in -1 .. LastSlot
          BY <1>3 DEF GenTypes
        <5> QED
          BY <2>2, <2>4, <5>1, <5>2
      <4> QED
        BY <4>1, SizeFacts
    <3>4. 0 <= Len(Arrivals[gen.last + 1])
      BY <3>3, ConfigFacts, LenProperties DEF TypeInv
    <3>5. processed' = gen'.slot - 1 /\ gen'.last < gen'.slot /\ gen'.slot <= gen'.target
          /\ gen'.target <= ClockSlot'
      BY <1>2, <1>3, <2>2, <2>4, <3>1, <3>2
    <3> QED
      BY <1>2, <1>4, <3>1, <3>4, <3>5 DEF ClockInv
  <2> QED
    BY <2>1, <2>3, <2>4
<1>6. CASE EmitChunk
  <2>1. PICK upTo \in gen.sent .. Len(Arrivals[gen.slot]) : gen' = [gen EXCEPT !.sent = upTo]
    BY <1>6, ChunkOfSlot
  <2>2. gen.pc = "emit" /\ UNCHANGED processed
    BY <1>6 DEF EmitChunk
  <2>3. /\ gen'.pc = "emit" /\ gen'.target = gen.target /\ gen'.slot = gen.slot
        /\ gen'.sent = upTo /\ gen'.last = gen.last
    BY <1>3, <2>1, <2>2 DEF GenTypes
  <2>4. upTo <= Len(Arrivals[gen.slot])
    BY <2>1
  <2> QED
    BY <1>2, <1>4, <2>2, <2>3, <2>4 DEF ClockInv
<1>7. CASE SetProcessed
  <2>1. gen.pc = "emit" /\ processed' = gen.slot /\ gen' = [gen EXCEPT !.pc = "drain"]
    BY <1>7 DEF SetProcessed
  <2>2. /\ gen'.pc = "drain" /\ gen'.target = gen.target /\ gen'.slot = gen.slot
        /\ gen'.last = gen.last
    BY <1>3, <2>1 DEF GenTypes
  <2> QED
    BY <1>2, <1>4, <2>1, <2>2 DEF ClockInv
<1>8. CASE WaitForDrain
  <2>1. gen.pc = "drain" /\ processed' = processed
    BY <1>8 DEF WaitForDrain
  <2>2. processed = gen.slot /\ gen.last < gen.slot /\ gen.slot <= gen.target
        /\ gen.target <= ClockSlot
    BY <2>1 DEF ClockInv
  <2>3. CASE gen.slot < gen.target
    <3>1. gen' = [gen EXCEPT !.pc = "emit", !.slot = gen.slot + 1, !.sent = 0]
      BY <1>8, <2>3 DEF WaitForDrain
    <3>2. /\ gen'.pc = "emit" /\ gen'.target = gen.target /\ gen'.slot = gen.slot + 1
          /\ gen'.sent = 0 /\ gen'.last = gen.last
      BY <1>3, <3>1 DEF GenTypes
    <3>3. gen.slot + 1 \in Slots
      BY <1>3, <2>2, <2>3, ClockInRange, SizeFacts DEF TypeInv, GenTypes
    <3>4. 0 <= Len(Arrivals[gen.slot + 1])
      BY <3>3, ConfigFacts, LenProperties DEF TypeInv
    <3>5. processed' = gen'.slot - 1 /\ gen'.last < gen'.slot /\ gen'.slot <= gen'.target
          /\ gen'.target <= ClockSlot'
      BY <1>2, <1>3, <2>1, <2>2, <2>3, <3>2
    <3> QED
      BY <1>2, <1>4, <3>2, <3>4, <3>5 DEF ClockInv
  <2>4. CASE ~ (gen.slot < gen.target)
    <3>1. gen' = [gen EXCEPT !.last = gen.target,
                             !.pc = IF gen.raw >= TotalSlots THEN "stopped" ELSE "check"]
      BY <1>8, <2>4 DEF WaitForDrain
    <3>2. /\ gen'.pc \in {"check", "stopped"} /\ gen'.target = gen.target
          /\ gen'.slot = gen.slot /\ gen'.last = gen.target
      BY <1>3, <3>1 DEF GenTypes
    <3>3. gen.slot = gen.target
      BY <1>3, <2>2, <2>4
    <3> QED
      BY <1>2, <1>3, <1>4, <2>1, <2>2, <3>2, <3>3 DEF ClockInv
  <2> QED
    BY <2>3, <2>4
<1> QED
  BY <1>5, <1>6, <1>7, <1>8 DEF Generator

\* Every step keeps the generator behind the clock.
LEMMA ClockNext ==
  ASSUME TypeInv, ClockInv, [Next]_vars
  PROVE  ClockInv'
<1>1. config' = config
  BY TypesNext
<1>2. CASE Generator
  BY <1>2, ClockGenerator
<1>3. CASE Tick \/ Skip
  <2>1. UNCHANGED <<processed, gen>> /\ Arrivals' = Arrivals
    BY <1>1, <1>3, ConfigKept DEF Tick, Skip
  <2>2. loop'.pc = "act" => loop'.slot = ClockSlot'
    BY <1>3, TickEffect, SkipEffect
  <2>3. gen.target \in Int /\ ClockSlot \in Int /\ ClockSlot <= ClockSlot' /\ ClockSlot' \in Int
    BY <1>3, ClockGrows, ClockInRange, SizeFacts DEF TypeInv, GenTypes
  <2>4. gen'.target <= ClockSlot'
    BY <2>1, <2>3 DEF ClockInv
  <2> QED
    BY <2>1, <2>2, <2>4 DEF ClockInv
<1>4. CASE \/ LoopReads \/ Turn \/ UNCHANGED vars
  BY <1>1, <1>4, ClockFrame DEF LoopReads, Turn, vars
<1>5. CASE SolveAndCommit \/ LogRows \/ Release
  BY <1>1, <1>5, SolveEffect, LogEffect, ReleaseEffect, ClockFrame
<1>6. CASE RunnerWaits \/ ReadRows \/ ScheduleLate
  BY <1>1, <1>6, RunnerOnlyWaits, CollectEffect, ClockFrame
<1> QED
  BY <1>2, <1>3, <1>4, <1>5, <1>6, StepCases

-----------------------------------------------------------------------------
(* Places. *)

\* The empty sequence.
LEMMA EmptyFacts ==
  /\ Range(<< >>) = {} /\ DOMAIN << >> = {} /\ IsInjective(<< >>)
  /\ \A q : Range(SubSeq(q, 1, 0)) = {}
<1>1. << >> \in Seq({}) /\ Len(<< >>) = 0
  BY EmptySeq
<1>2. DOMAIN << >> = 1 .. 0
  BY <1>1, LenProperties
<1>3. DOMAIN << >> = {} /\ Range(<< >>) = {} /\ IsInjective(<< >>)
  BY <1>2 DEF Range, IsInjective
<1>4. ASSUME NEW q PROVE SubSeq(q, 1, 0) = << >>
  BY SubSeqEmpty
<1> QED
  BY <1>3, <1>4

\* A piece of a sequence without repetitions, next to what is before it.
LEMMA PieceInjective ==
  ASSUME NEW S, NEW q \in Seq(S), IsInjective(q),
         NEW a \in 0 .. Len(q), NEW b \in a .. Len(q)
  PROVE  /\ SubSeq(q, a + 1, b) \in Seq(S) /\ IsInjective(SubSeq(q, a + 1, b))
         /\ Range(SubSeq(q, 1, b)) = Range(SubSeq(q, 1, a)) \cup Range(SubSeq(q, a + 1, b))
         /\ Range(SubSeq(q, 1, a)) \cap Range(SubSeq(q, a + 1, b)) = {}
         /\ Range(SubSeq(q, a + 1, b)) \subseteq Range(q)
<1> DEFINE front == SubSeq(q, 1, a)
           piece == SubSeq(q, a + 1, b)
           back == SubSeq(q, b + 1, Len(q))
           rest == SubSeq(q, a + 1, Len(q))
<1>1. /\ Len(q) \in Nat /\ a \in Nat /\ b \in Nat /\ a <= b /\ b <= Len(q)
      /\ \A i \in 1 .. Len(q) : q[i] \in S
  BY LenProperties, ElementOfSeq
<1>2. front \in Seq(S) /\ rest \in Seq(S) /\ Range(q) = Range(front) \cup Range(rest)
  BY CutSequence
<1>3. Range(front) \cap Range(rest) = {} /\ IsInjective(rest)
  BY CutInjective
<1>4. b \in 0 .. Len(q)
  BY <1>1
<1>5. back \in Seq(S)
  BY <1>4, CutSequence
<1>6. piece \in Seq(S)
  <2>1. \A i \in a + 1 .. b : q[i] \in S
    BY <1>1
  <2>2. a + 1 \in Int /\ b \in Int
    BY <1>1
  <2> QED
    BY <2>1, <2>2, SubSeqProperties
<1>7. piece \o back = rest
  <2>1. a + 1 \in 1 .. Len(q) + 1 /\ b \in (a + 1) - 1 .. Len(q) /\ Len(q) \in b .. Len(q)
    BY <1>1
  <2> QED
    BY <2>1, ConcatAdjacentSubSeq
<1>8. front \o piece = SubSeq(q, 1, b)
  <2>1. 1 \in 1 .. Len(q) + 1 /\ a \in 1 - 1 .. Len(q) /\ b \in a .. Len(q)
    BY <1>1
  <2> QED
    BY <2>1, ConcatAdjacentSubSeq
<1> HIDE DEF front, piece, back, rest
<1>9. Range(rest) = Range(piece) \cup Range(back)
  <2>1. Range(piece \o back) = Range(piece) \cup Range(back)
    BY <1>5, <1>6, RangeConcatenation, ZenonT(40)
  <2> QED
    BY <1>7, <2>1, Zenon
<1>10. Range(SubSeq(q, 1, b)) = Range(front) \cup Range(piece)
  <2>1. Range(front \o piece) = Range(front) \cup Range(piece)
    BY <1>2, <1>6, RangeConcatenation
  <2> QED
    BY <1>8, <2>1, Zenon
<1>11. IsInjective(piece)
  <2>1. /\ DOMAIN piece = 1 .. Len(piece) /\ DOMAIN rest = 1 .. Len(rest)
        /\ Len(piece) \in Nat /\ Len(back) \in Nat
    BY <1>2, <1>5, <1>6, LenProperties
  <2>2. /\ Len(rest) = Len(piece) + Len(back)
        /\ \A i \in 1 .. Len(piece) + Len(back) :
             rest[i] = IF i <= Len(piece) THEN piece[i] ELSE back[i - Len(piece)]
    BY <1>5, <1>6, <1>7, ConcatProperties
  <2>3. \A i \in 1 .. Len(piece) : i \in DOMAIN rest /\ rest[i] = piece[i]
    BY <2>1, <2>2
  <2> QED
    BY <1>3, <2>1, <2>3 DEF IsInjective
<1> QED
  BY <1>2, <1>3, <1>6, <1>9, <1>10, <1>11 DEF front, piece

\* The requests of one slot more.
LEMMA ArrivedGrows ==
  ASSUME NEW n \in Nat
  PROVE  ArrivedBy(n) = ArrivedBy(n - 1) \cup Range(Arrivals[n])
<1>1. 0 .. n = (0 .. n - 1) \cup {n}
  OBVIOUS
<1>2. ASSUME NEW r
      PROVE  r \in ArrivedBy(n) <=> r \in ArrivedBy(n - 1) \/ r \in Range(Arrivals[n])
  BY <1>1 DEF ArrivedBy
<1> QED
  BY <1>2

\* What a step of the generator adds to the requests it has queued: nothing, or
\* a chunk of new ones.  A slot is left only when all of it is out: the run does
\* not end while the generator has a slot left.
QueuesChunk(chunk) ==
  /\ chunk \in Seq(Requests) /\ IsInjective(chunk)
  /\ pending' = pending \o chunk
  /\ Emitted' = Emitted \cup Range(chunk)
  /\ Emitted \cap Range(chunk) = {}

\* The generator queues a new chunk or nothing.
LEMMA GeneratorQueues ==
  ASSUME TypeInv, ClockInv, StageInv, Generator
  PROVE  \/ UNCHANGED pending /\ Emitted' = Emitted
         \/ \E chunk : QueuesChunk(chunk)
<1>1. Arrivals' = Arrivals
  <2>1. config' = config
    BY DEF Generator, ReadClock, EmitChunk, SetProcessed, WaitForDrain
  <2> QED
    BY <2>1, ConfigKept
<1>2. /\ gen \in GenTypes /\ gen.slot \in Slots /\ gen.sent \in Nat /\ processed \in Int
      /\ gen.slot \in Nat /\ gen.slot <= LastSlot /\ LastSlot \in Int /\ pending \in Seq(Requests)
  BY SizeFacts DEF TypeInv, GenTypes
<1>3. CASE ReadClock
  <2>1. /\ gen.pc = "check" /\ UNCHANGED <<processed, pending>>
        /\ gen'.pc = "stopped" \/ (gen'.pc = "emit" /\ gen'.sent = 0)
    BY <1>2, <1>3 DEF ReadClock, GenTypes
  <2>2. gen'.pc = "emit" => Range(SubSeq(Arrivals'[gen'.slot], 1, gen'.sent)) = {}
    BY <2>1, EmptyFacts
  <2> QED
    BY <1>1, <2>1, <2>2 DEF Emitted, ArrivedBy
<1>4. CASE EmitChunk
  <2> DEFINE all == Arrivals[gen.slot]
  <2>1. PICK upTo \in gen.sent .. Len(all) :
          /\ pending' = pending \o SubSeq(all, gen.sent + 1, upTo)
          /\ gen' = [gen EXCEPT !.sent = upTo]
    BY <1>4, ChunkOfSlot
  <2>2. gen.pc = "emit" /\ UNCHANGED processed /\ gen.sent <= Len(all) /\ processed = gen.slot - 1
    BY <1>4 DEF EmitChunk, ClockInv
  <2>3. gen'.pc = "emit" /\ gen'.slot = gen.slot /\ gen'.sent = upTo
    BY <1>2, <2>1, <2>2 DEF GenTypes
  <2>4. all \in Seq(Requests) /\ IsInjective(all)
    BY <1>2, ConfigFacts DEF TypeInv
  <2>5. gen.sent \in 0 .. Len(all)
    BY <1>2, <2>2, <2>4, LenProperties
  <2> DEFINE chunk == SubSeq(all, gen.sent + 1, upTo)
  <2>6. /\ chunk \in Seq(Requests) /\ IsInjective(chunk)
        /\ Range(SubSeq(all, 1, upTo)) = Range(SubSeq(all, 1, gen.sent)) \cup Range(chunk)
        /\ Range(SubSeq(all, 1, gen.sent)) \cap Range(chunk) = {}
        /\ Range(chunk) \subseteq Range(all)
    BY <2>1, <2>4, <2>5, PieceInjective
  <2>7. \A s \in 0 .. processed : s \in Slots /\ s # gen.slot
    BY <1>2, <2>2, SizeFacts
  <2>8. \A s \in 0 .. processed : Range(Arrivals[s]) \cap Range(all) = {}
    BY <1>2, <2>7, ConfigFacts DEF TypeInv
  <2>9. pending' = pending \o chunk
    BY <2>1
  <2> HIDE DEF chunk, all
  <2>10. Emitted = ArrivedBy(processed) \cup Range(SubSeq(all, 1, gen.sent))
    BY <2>2 DEF Emitted, all
  <2>11. Emitted' = ArrivedBy(processed) \cup Range(SubSeq(all, 1, upTo))
    BY <1>1, <2>2, <2>3 DEF Emitted, ArrivedBy, all
  <2>12. ArrivedBy(processed) \cap Range(chunk) = {}
    <3> SUFFICES ASSUME NEW s \in 0 .. processed, NEW r \in Range(Arrivals[s])
                 PROVE  r \notin Range(chunk)
      BY DEF ArrivedBy
    <3> QED
      BY <2>6, <2>8
  <2>13. Emitted' = Emitted \cup Range(chunk) /\ Emitted \cap Range(chunk) = {}
    BY <2>6, <2>10, <2>11, <2>12
  <2> QED
    BY <2>6, <2>9, <2>13 DEF QueuesChunk
<1>5. CASE SetProcessed
  <2> DEFINE all == Arrivals[gen.slot]
  <2>1. /\ gen.pc = "emit" /\ processed' = gen.slot /\ processed = gen.slot - 1
        /\ gen'.pc = "drain" /\ UNCHANGED pending
    BY <1>2, <1>5 DEF SetProcessed, ClockInv, GenTypes
  <2>2. gen.sent = Len(all)
    <3>1. processed # LastSlot
      BY <1>2, <2>1
    <3>2. GeneratorRuns
      BY <3>1 DEF GeneratorRuns, StageInv
    <3> QED
      BY <1>5, <3>2 DEF SetProcessed
  <2>3. all \in Seq(Requests)
    BY <1>2, ConfigFacts DEF TypeInv
  <2>4. SubSeq(all, 1, gen.sent) = all
    BY <2>2, <2>3, SubSeqFull
  <2>5. Emitted = ArrivedBy(processed) \cup Range(all)
    BY <2>1, <2>4 DEF Emitted
  <2>6. Emitted' = ArrivedBy(gen.slot)
    BY <1>1, <2>1 DEF Emitted, ArrivedBy
  <2>7. ArrivedBy(gen.slot) = ArrivedBy(processed) \cup Range(all)
    BY <1>2, <2>1, ArrivedGrows
  <2> QED
    BY <2>1, <2>5, <2>6, <2>7
<1>6. CASE WaitForDrain
  <2>1. gen.pc = "drain" /\ UNCHANGED <<processed, pending>>
    BY <1>6 DEF WaitForDrain
  <2>2. gen'.pc \in {"check", "stopped"} \/ (gen'.pc = "emit" /\ gen'.sent = 0)
    BY <1>2, <1>6 DEF WaitForDrain, GenTypes
  <2>3. gen'.pc = "emit" => Range(SubSeq(Arrivals'[gen'.slot], 1, gen'.sent)) = {}
    BY <2>2, EmptyFacts
  <2> QED
    BY <1>1, <2>1, <2>2, <2>3 DEF Emitted, ArrivedBy
<1> QED
  BY <1>3, <1>4, <1>5, <1>6 DEF Generator

\* Only the generator changes what has been queued so far.
LEMMA EmittedKept ==
  ASSUME UNCHANGED <<config, processed, gen>>
  PROVE  Emitted' = Emitted
<1>1. Arrivals' = Arrivals
  BY ConfigKept
<1> QED
  BY <1>1 DEF Emitted, ArrivedBy

\* What does not move a request keeps each in its place.
LEMMA PlaceFrame ==
  ASSUME PlaceInv, UNCHANGED <<config, processed, gen, pending>>, InHand' = InHand,
         DOMAIN results'.late = DOMAIN results.late, DOMAIN solvedIn' = DOMAIN solvedIn
  PROVE  PlaceInv'
BY EmittedKept DEF PlaceInv

\* The late requests are read, and the queue they come from emptied, in one step.
LEMMA LateEffect ==
  ASSUME StageInv, ScheduleLate
  PROVE  /\ runner.pc = "drain" /\ DOMAIN results.late = {}
         /\ results'.rows = results.rows /\ DOMAIN results' = {"rows", "late"}
         /\ DOMAIN results'.late = Range(pending)
         /\ results'.late = [r \in Range(pending) |->
              Min({Max({Deadline[r], ArrivalSlot(r)}), LastSlot})]
         /\ pending' = << >>
<1>1. /\ runner.pc = "drain" /\ pending' = << >>
      /\ results' = [results EXCEPT !.late =
           [r \in Range(pending) |-> Min({Max({Deadline[r], ArrivalSlot(r)}), LastSlot})]]
  BY DEF ScheduleLate
<1>2. DOMAIN results = {"rows", "late"} /\ DOMAIN results.late = {}
  BY <1>1, EmptyFacts DEF StageInv
<1>3. /\ results'.rows = results.rows /\ DOMAIN results' = {"rows", "late"}
      /\ results'.late = [r \in Range(pending) |->
              Min({Max({Deadline[r], ArrivalSlot(r)}), LastSlot})]
  BY <1>1, <1>2
<1>4. DOMAIN results'.late = Range(pending)
  BY <1>3
<1> QED
  BY <1>1, <1>2, <1>3, <1>4

\* The rows of the file are read and nothing else changes.
LEMMA RowsEffect ==
  ASSUME StageInv, ReadRows
  PROVE  /\ runner.pc = "collect" /\ DOMAIN results' = {"rows", "late"}
         /\ results'.rows = logged /\ results'.late = results.late
         /\ UNCHANGED <<config, elapsed, processed, pending, gen, loop, worker, solvedIn, logged>>
BY DEF ReadRows, StageInv

\* Every step keeps each request in one place.
LEMMA PlaceNext ==
  ASSUME TypeInv, ClockInv, PlaceInv, StageInv, [Next]_vars
  PROVE  PlaceInv'
<1>1. CASE Generator
  <2>1. UNCHANGED <<worker, solvedIn, results>>
    BY <1>1 DEF Generator, ReadClock, EmitChunk, SetProcessed, WaitForDrain
  <2>2. InHand' = InHand
    BY <2>1 DEF InHand
  <2>3. CASE UNCHANGED pending /\ Emitted' = Emitted
    BY <2>1, <2>2, <2>3 DEF PlaceInv
  <2>4. CASE \E chunk : QueuesChunk(chunk)
    <3>1. PICK chunk : QueuesChunk(chunk)
      BY <2>4
    <3>2. pending \in Seq(Requests) /\ chunk \in Seq(Requests)
      BY <3>1 DEF TypeInv, QueuesChunk
    <3>3. Range(pending) \subseteq Emitted
      BY DEF PlaceInv
    <3>4. /\ Range(pending') = Range(pending) \cup Range(chunk)
          /\ IsInjective(pending')
      <4>1. IsInjective(pending) /\ IsInjective(chunk) /\ Range(pending) \cap Range(chunk) = {}
        BY <3>1, <3>3 DEF PlaceInv, QueuesChunk
      <4>2. Range(pending \o chunk) = Range(pending) \cup Range(chunk)
        BY <3>2, RangeConcatenation
      <4>3. IsInjective(pending \o chunk)
        BY <3>2, <4>1, ConcatInjective
      <4>4. pending' = pending \o chunk
        BY <3>1 DEF QueuesChunk
      <4> QED
        BY <4>2, <4>3, <4>4, Zenon
    <3>5. Emitted' = Emitted \cup Range(chunk) /\ Emitted \cap Range(chunk) = {}
      BY <3>1 DEF QueuesChunk
    <3> QED
      BY <2>1, <2>2, <3>4, <3>5 DEF PlaceInv
  <2> QED
    BY <1>1, <2>3, <2>4, GeneratorQueues
<1>2. CASE LoopReads \/ Tick \/ Skip \/ UNCHANGED vars
  <2>1. UNCHANGED <<config, processed, gen, pending, worker, solvedIn, results>>
    BY <1>2 DEF LoopReads, Tick, Skip, vars
  <2> QED
    BY <2>1, PlaceFrame DEF InHand
<1>3. CASE RunnerWaits \/ ReadRows
  <2>1. UNCHANGED <<config, processed, gen, pending, worker, solvedIn>>
    BY <1>3, RunnerOnlyWaits, RowsEffect
  <2>2. results'.late = results.late
    BY <1>3, RunnerOnlyWaits, RowsEffect
  <2> QED
    BY <2>1, <2>2, PlaceFrame DEF InHand
<1>4. CASE LogRows \/ Release
  <2>1. UNCHANGED <<config, processed, gen, pending, solvedIn, results>>
    BY <1>4, LogEffect, ReleaseEffect
  <2>2. InHand' = InHand
    BY <1>4, LogEffect, ReleaseEffect DEF InHand
  <2> QED
    BY <2>1, <2>2, PlaceFrame
<1>5. CASE Turn
  <2>1. UNCHANGED <<config, processed, gen, solvedIn, results>>
    BY <1>5 DEF Turn
  <2>2. CASE UNCHANGED <<worker, pending>>
    BY <2>1, <2>2, PlaceFrame DEF InHand
  <2>3. CASE Claim
    <3>1. InHand = {}
      BY <2>3 DEF Claim, InHand
    <3>2. InHand' = Range(worker'.batch)
      BY <2>3, ClaimEffect DEF InHand
    <3>3. /\ Range(pending) = InHand' \cup Range(pending')
          /\ IsInjective(pending') /\ InHand' \cap Range(pending') = {}
      BY <2>3, <3>2, ClaimEffect DEF PlaceInv
    <3>4. Emitted' = Emitted
      BY <2>1, EmittedKept
    <3>5. DOMAIN results.late = {}
      <4>1. runner.pc # "done"
        BY <2>3 DEF Claim, SchedulerRuns, GeneratorRuns
      <4> QED
        BY <4>1, EmptyFacts DEF StageInv
    <3> QED
      BY <2>1, <3>1, <3>3, <3>4, <3>5 DEF PlaceInv
  <2> QED
    BY <1>5, <2>2, <2>3 DEF Turn
<1>6. CASE SolveAndCommit
  <2>1. UNCHANGED <<config, processed, gen, pending>>
    BY <1>6, SolveEffect
  <2>2. InHand = Range(worker.batch) /\ InHand' = {}
    BY <1>6, SolveEffect DEF InHand
  <2>3. DOMAIN solvedIn' = InHand \cup DOMAIN solvedIn
    BY <1>6, <2>2, SolveEffect
  <2>4. UNCHANGED results /\ Emitted' = Emitted
    BY <1>6, <2>1, EmittedKept DEF SolveAndCommit
  <2>5. Range(pending') = Range(pending) /\ (IsInjective(pending') <=> IsInjective(pending))
    BY <2>1
  <2>6. results'.late = results.late
    BY <2>4
  <2>7. Emitted' = Range(pending') \cup InHand' \cup DOMAIN results'.late \cup DOMAIN solvedIn'
    <3>1. Emitted = Range(pending) \cup InHand \cup DOMAIN results.late \cup DOMAIN solvedIn
      BY DEF PlaceInv
    <3> QED
      BY <2>2, <2>3, <2>4, <2>5, <2>6, <3>1, SMTT(20)
  <2>8. (Range(pending) \cup DOMAIN results.late) \cap (InHand \cup DOMAIN solvedIn) = {}
    <3>1. /\ (Range(pending) \cup DOMAIN results.late) \cap InHand = {}
          /\ (Range(pending) \cup InHand \cup DOMAIN results.late) \cap DOMAIN solvedIn = {}
      BY DEF PlaceInv
    <3> QED
      BY <3>1
  <2>9. IsInjective(pending') /\ Range(pending') \cap InHand' = {}
    BY <2>2, <2>5 DEF PlaceInv
  <2> QED
    BY <2>2, <2>3, <2>5, <2>6, <2>7, <2>8, <2>9 DEF PlaceInv
<1>7. CASE ScheduleLate
  <2>1. UNCHANGED <<config, processed, gen, worker, solvedIn>>
    BY <1>7, CollectEffect
  <2>2. InHand' = InHand /\ Emitted' = Emitted
    BY <2>1, EmittedKept DEF InHand
  <2>3. /\ DOMAIN results'.late = Range(pending) /\ DOMAIN results.late = {}
        /\ Range(pending') = {} /\ IsInjective(pending')
    BY <1>7, LateEffect, EmptyFacts
  <2> QED
    BY <2>1, <2>2, <2>3 DEF PlaceInv
<1> QED
  BY <1>1, <1>2, <1>3, <1>4, <1>5, <1>6, <1>7, StepCases

-----------------------------------------------------------------------------
(* The slots requests are solved in. *)

\* The generator is not ahead of the clock.
LEMMA EmittedSlots ==
  ASSUME TypeInv, ClockInv, NEW r \in Emitted
  PROVE  ArrivalSlot(r) \in Slots /\ ArrivalSlot(r) <= gen.slot /\ ArrivalSlot(r) <= ClockSlot
<1>1. /\ gen.slot \in Slots /\ gen.slot \in Int /\ processed \in Int /\ processed <= LastSlot
      /\ gen.target \in Int /\ gen.last \in Int /\ ClockSlot \in Int /\ LastSlot \in Int
      /\ Slots = 0 .. LastSlot /\ gen.pc \in {"check", "emit", "drain", "stopped"}
  BY SizeFacts, ClockInRange DEF TypeInv, GenTypes
<1>2. processed <= gen.slot /\ processed <= ClockSlot
  <2>1. /\ gen.target <= ClockSlot
        /\ \/ processed = gen.target /\ processed <= gen.slot
           \/ processed = gen.slot - 1 /\ gen.slot <= gen.target
           \/ processed = gen.slot /\ gen.slot <= gen.target
    BY <1>1 DEF ClockInv
  <2> QED
    BY <1>1, <2>1
<1>3. CASE r \in ArrivedBy(processed)
  <2>1. PICK s \in 0 .. processed : r \in Range(Arrivals[s])
    BY <1>3 DEF ArrivedBy
  <2>2. s \in Slots /\ s <= gen.slot /\ s <= ClockSlot
    BY <1>1, <1>2
  <2>3. ArrivalSlot(r) = s
    BY <2>1, <2>2, ConfigFacts DEF TypeInv
  <2> QED
    BY <2>2, <2>3
<1>4. CASE gen.pc = "emit" /\ r \in Range(SubSeq(Arrivals[gen.slot], 1, gen.sent))
  <2> DEFINE all == Arrivals[gen.slot]
  <2>1. all \in Seq(Requests) /\ Len(all) \in Nat
    BY <1>1, ConfigFacts, LenProperties DEF TypeInv
  <2>2. gen.sent \in 0 .. Len(all)
    BY <1>4, <2>1 DEF ClockInv, TypeInv, GenTypes
  <2>3. r \in Range(all)
    BY <1>4, <2>1, <2>2, CutSequence
  <2>4. ArrivalSlot(r) = gen.slot
    BY <1>1, <2>3, ConfigFacts DEF TypeInv
  <2>5. gen.slot <= ClockSlot
    BY <1>1, <1>4 DEF ClockInv
  <2> QED
    BY <1>1, <2>4, <2>5
<1> QED
  BY <1>3, <1>4 DEF Emitted

\* What does not claim or solve a batch keeps the slots requests are solved in.
LEMMA SlotFrame ==
  ASSUME SlotInv, config' = config, solvedIn' = solvedIn,
         \A r \in InHand' : r \in InHand /\ worker'.slot = worker.slot
  PROVE  SlotInv'
<1>1. ASSUME NEW r \in InHand' PROVE ArrivalSlot(r)' <= worker'.slot
  BY ArrivalKept DEF SlotInv
<1>2. ASSUME NEW r \in DOMAIN solvedIn'
      PROVE  ArrivalSlot(r)' <= solvedIn'[r] /\ solvedIn'[r] <= LastSlot
  BY ArrivalKept DEF SlotInv, SolvedFromArrivalOn
<1> QED
  BY <1>1, <1>2 DEF SlotInv, SolvedFromArrivalOn

\* Every step solves and claims batches in slots their requests have reached.
LEMMA SlotNext ==
  ASSUME TypeInv, ClockInv, PlaceInv, SlotInv, StageInv, [Next]_vars
  PROVE  SlotInv'
<1>1. config' = config
  BY TypesNext
<1>2. CASE Generator \/ LoopReads \/ Tick \/ Skip \/ UNCHANGED vars
  <2>1. UNCHANGED <<worker, solvedIn>>
    BY <1>2 DEF Generator, ReadClock, EmitChunk, SetProcessed, WaitForDrain, LoopReads,
                Tick, Skip, vars
  <2> QED
    BY <1>1, <2>1, SlotFrame DEF InHand
<1>3. CASE RunnerWaits \/ ReadRows \/ ScheduleLate
  <2>1. UNCHANGED <<worker, solvedIn>>
    BY <1>3, RunnerOnlyWaits, CollectEffect
  <2> QED
    BY <1>1, <2>1, SlotFrame DEF InHand
<1>4. CASE LogRows \/ Release
  <2>1. InHand' = {} /\ UNCHANGED solvedIn
    BY <1>4, LogEffect, ReleaseEffect DEF InHand
  <2> QED
    BY <1>1, <2>1, SlotFrame
<1>5. CASE Turn
  <2>1. UNCHANGED solvedIn /\ loop.pc = "act"
    BY <1>5 DEF Turn
  <2>2. CASE UNCHANGED <<worker, pending>>
    BY <1>1, <2>1, <2>2, SlotFrame DEF InHand
  <2>3. CASE Claim
    <3>1. InHand' \subseteq Range(pending) /\ worker'.slot = loop.slot
      BY <2>3, ClaimEffect DEF InHand
    <3>2. loop.slot = ClockSlot
      BY <2>1 DEF ClockInv
    <3>3. ASSUME NEW r \in InHand' PROVE ArrivalSlot(r)' <= worker'.slot
      <4>1. r \in Emitted
        BY <3>1 DEF PlaceInv
      <4>2. ArrivalSlot(r) <= ClockSlot
        BY <4>1, EmittedSlots
      <4> QED
        BY <1>1, <3>1, <3>2, <4>2, ArrivalKept
    <3>4. ASSUME NEW r \in DOMAIN solvedIn'
          PROVE  ArrivalSlot(r)' <= solvedIn'[r] /\ solvedIn'[r] <= LastSlot
      BY <1>1, <2>1, ArrivalKept DEF SlotInv, SolvedFromArrivalOn
    <3> QED
      BY <3>3, <3>4 DEF SlotInv, SolvedFromArrivalOn
  <2> QED
    BY <1>5, <2>2, <2>3 DEF Turn
<1>6. CASE SolveAndCommit
  <2>1. InHand = Range(worker.batch) /\ InHand' = {} /\ worker.slot <= LastSlot
    BY <1>6, SolveEffect, SizeFacts DEF InHand, TypeInv, WorkerTypes
  <2>2. ASSUME NEW r \in DOMAIN solvedIn'
        PROVE  ArrivalSlot(r)' <= solvedIn'[r] /\ solvedIn'[r] <= LastSlot
    <3>1. CASE r \in Range(worker.batch)
      <4>1. solvedIn'[r] = worker.slot
        BY <1>6, <3>1, SolveEffect
      <4>2. ArrivalSlot(r) <= worker.slot
        BY <2>1, <3>1 DEF SlotInv
      <4> QED
        BY <1>1, <2>1, <4>1, <4>2, ArrivalKept
    <3>2. CASE r \notin Range(worker.batch)
      <4>1. r \in DOMAIN solvedIn /\ solvedIn'[r] = solvedIn[r]
        BY <1>6, <3>2, SolveEffect
      <4> QED
        BY <1>1, <4>1, ArrivalKept DEF SlotInv, SolvedFromArrivalOn
    <3> QED
      BY <3>1, <3>2
  <2> QED
    BY <2>1, <2>2 DEF SlotInv, SolvedFromArrivalOn
<1> QED
  BY <1>2, <1>3, <1>4, <1>5, <1>6, StepCases

-----------------------------------------------------------------------------
(* Rows of the assignments file. *)

\* Every step keeps what is solved in the file or in the worker's hands.
LEMMA LogNext ==
  ASSUME TypeInv, LogInv, [Next]_vars
  PROVE  LogInv'
<1>1. CASE Generator \/ LoopReads \/ Tick \/ Skip \/ UNCHANGED vars
  <2>1. UNCHANGED <<worker, solvedIn, logged>>
    BY <1>1 DEF Generator, ReadClock, EmitChunk, SetProcessed, WaitForDrain, LoopReads,
                Tick, Skip, vars
  <2> QED
    BY <2>1 DEF LogInv
<1>2. CASE RunnerWaits \/ ReadRows \/ ScheduleLate
  <2>1. UNCHANGED <<worker, solvedIn, logged>>
    BY <1>2, RunnerOnlyWaits, CollectEffect
  <2> QED
    BY <2>1 DEF LogInv
<1>3. CASE LogRows
  BY <1>3, LogEffect DEF LogInv
<1>4. CASE Release
  BY <1>4, ReleaseEffect DEF LogInv
<1>5. CASE Turn
  <2>1. UNCHANGED <<solvedIn, logged>>
    BY <1>5 DEF Turn
  <2>2. CASE UNCHANGED worker
    BY <2>1, <2>2 DEF LogInv
  <2>3. CASE Claim
    <3>1. worker.pc # "log" /\ worker'.pc # "log"
      BY <2>3, ClaimEffect DEF Claim
    <3> QED
      BY <2>1, <3>1 DEF LogInv
  <2> QED
    BY <1>5, <2>2, <2>3 DEF Turn
<1>6. CASE SolveAndCommit
  <2>1. /\ worker.pc = "solve" /\ worker'.pc = "log" /\ worker'.batch = worker.batch
        /\ DOMAIN solvedIn' = Range(worker.batch) \cup DOMAIN solvedIn
        /\ logged' = logged
    BY <1>6, SolveEffect
  <2> QED
    BY <2>1 DEF LogInv
<1> QED
  BY <1>1, <1>2, <1>3, <1>4, <1>5, <1>6, StepCases

-----------------------------------------------------------------------------
(* The stages of the runner. *)

\* Once the runner has left its first phase, the generator is through.
LEMMA GeneratorThrough ==
  ASSUME TypeInv, ClockInv, StageInv, Generator
  PROVE  runner.pc = "phase1" \/ UNCHANGED <<processed, pending>>
<1>1. /\ gen.slot \in Int /\ gen.slot <= LastSlot /\ LastSlot \in Int
  BY SizeFacts DEF TypeInv, GenTypes
<1>2. gen.pc = "emit" => processed # LastSlot
  BY <1>1 DEF ClockInv
<1>3. gen.pc # "emit" => UNCHANGED <<processed, pending>>
  BY DEF Generator, ReadClock, EmitChunk, SetProcessed, WaitForDrain
<1> QED
  BY <1>2, <1>3 DEF StageInv

\* The move of a request from the queue to the late ones leaves it reported.
LEMMA UnreportedKept ==
  ASSUME config' = config, results'.rows = results.rows,
         Range(pending') \cup DOMAIN results'.late = Range(pending) \cup DOMAIN results.late
  PROVE  Unreported' = Unreported
<1>1. Requests' = Requests
  BY ConfigKept
<1>2. Unreported = Requests \ (results.rows \cup (Range(pending) \cup DOMAIN results.late))
  BY DEF Unreported
<1>3. Unreported' = Requests \ (results'.rows \cup (Range(pending') \cup DOMAIN results'.late))
  BY <1>1 DEF Unreported
<1> QED
  BY <1>2, <1>3

\* What does not advance the runner keeps its stages.
LEMMA StageFrame ==
  ASSUME StageInv, config' = config, UNCHANGED <<runner, results>>,
         runner.pc = "phase1" \/ UNCHANGED <<processed, pending>>,
         logged \subseteq logged', worker.pc = "idle" => worker'.pc = "idle"
  PROVE  StageInv'
<1>1. BatchSize' = BatchSize /\ StopTimesOut' = StopTimesOut /\ DrainTimesOut' = DrainTimesOut
  BY ConfigKept
<1>2. CASE UNCHANGED <<processed, pending>>
  <2>1. Unreported' = Unreported
    BY <1>2, UnreportedKept
  <2> QED
    BY <1>1, <1>2, <2>1 DEF StageInv
<1>3. CASE runner.pc = "phase1"
  BY <1>1, <1>3 DEF StageInv, Stopping
<1> QED
  BY <1>2, <1>3

\* When the last slot has been processed, every request of the scenario has been queued.
LEMMA AllEmitted ==
  ASSUME processed = LastSlot
  PROVE  Requests \subseteq Emitted
<1>1. Slots = 0 .. processed
  BY SizeFacts
<1> QED
  BY <1>1 DEF Requests, Emitted, ArrivedBy

\* What the rows miss is the batch of a worker the runner has given up waiting for.
LEMMA MissingBatch ==
  ASSUME TypeInv, PlaceInv, LogInv, StageInv, ReadRows
  PROVE  /\ IsFiniteSet(Unreported')
         /\ Cardinality(Unreported') <= IF StopTimesOut THEN BatchSize ELSE 0
<1>1. /\ config' = config /\ results'.rows = logged /\ results'.late = results.late
      /\ pending' = pending /\ runner.pc = "collect"
  BY RowsEffect
<1>2. Unreported' = Requests \ (logged \cup Range(pending) \cup DOMAIN results.late)
  <2>1. Requests' = Requests
    BY <1>1, ConfigKept
  <2> QED
    BY <1>1, <2>1 DEF Unreported
<1>3. Requests \subseteq Emitted
  BY <1>1, AllEmitted DEF StageInv
<1> DEFINE underway == InHand \cup (IF worker.pc = "log" THEN Range(worker.batch) ELSE {})
<1>4. Unreported' \subseteq underway
  <2>1. Emitted = Range(pending) \cup InHand \cup DOMAIN results.late \cup DOMAIN solvedIn
    BY DEF PlaceInv
  <2>2. DOMAIN solvedIn \subseteq logged \cup (IF worker.pc = "log" THEN Range(worker.batch) ELSE {})
    BY DEF LogInv
  <2> QED
    BY <1>2, <1>3, <2>1, <2>2
<1>5. BatchSize \in Nat /\ worker.batch \in Seq(Requests) /\ Len(worker.batch) <= BatchSize
  BY ConfigFacts DEF TypeInv, WorkerTypes
<1>6. /\ IsFiniteSet(Range(worker.batch)) /\ Cardinality(Range(worker.batch)) <= Len(worker.batch)
      /\ Len(worker.batch) \in Nat
  BY <1>5, RangeBound, LenProperties
<1>7. Unreported' \subseteq Range(worker.batch)
  BY <1>4 DEF InHand
<1>8. /\ IsFiniteSet(Unreported') /\ Cardinality(Unreported') \in Nat
      /\ Cardinality(Unreported') <= Cardinality(Range(worker.batch))
      /\ Cardinality(Range(worker.batch)) \in Nat
  BY <1>6, <1>7, FS_Subset, FS_CardinalityType
<1>9. CASE StopTimesOut
  <2> DEFINE missing == Cardinality(Unreported')
             most == Cardinality(Range(worker.batch))
  <2>1. missing <= BatchSize
    <3>1. /\ missing \in Nat /\ most \in Nat /\ missing <= most
          /\ most <= Len(worker.batch)
      BY <1>6, <1>8
    <3> HIDE DEF missing, most
    <3> QED
      BY <1>5, <1>6, <3>1
  <2> QED
    BY <1>8, <1>9, <2>1
<1>10. CASE ~ StopTimesOut
  <2>1. worker.pc = "idle"
    BY <1>1, <1>10 DEF StageInv
  <2>2. Unreported' = {}
    BY <1>4, <2>1 DEF InHand
  <2>3. Cardinality({}) = 0
    BY FS_EmptySet
  <2>4. Cardinality(Unreported') = 0
    BY <2>2, <2>3
  <2> QED
    BY <1>8, <1>10, <2>4
<1> QED
  BY <1>9, <1>10

\* The waiting steps of the runner.
LEMMA StageWaits ==
  ASSUME TypeInv, StageInv, RunnerWaits
  PROVE  StageInv'
<1>1. /\ UNCHANGED <<config, processed, pending, worker, logged, results>>
      /\ BatchSize' = BatchSize /\ StopTimesOut' = StopTimesOut /\ DrainTimesOut' = DrainTimesOut
  BY RunnerOnlyWaits, ConfigKept
<1>2. runner \in RunnerTypes /\ processed \in Int /\ processed <= LastSlot /\ LastSlot \in Int
  BY SizeFacts DEF TypeInv
<1>3. CASE AwaitGenerator
  <2>1. runner.pc = "phase1" /\ processed >= LastSlot /\ runner'.pc = "phase2"
    BY <1>2, <1>3 DEF AwaitGenerator, Goto, RunnerTypes
  <2>2. processed = LastSlot
    BY <1>2, <2>1
  <2> QED
    BY <1>1, <2>1, <2>2 DEF StageInv, Stopping
<1>4. CASE ReadStatistics
  <2>1. runner.pc = "phase2" /\ runner'.pc = "phase2 pending"
    BY <1>4 DEF ReadStatistics
  <2> QED
    BY <1>1, <2>1 DEF StageInv, Stopping
<1>5. CASE ReadPending
  <2>1. /\ runner.pc = "phase2 pending"
        /\ \/ runner'.pc = "phase2"
           \/ runner'.pc = "stop generator" /\ (pending = << >> \/ DrainTimesOut)
    BY <1>2, <1>5 DEF ReadPending, Goto, RunnerTypes
  <2> QED
    BY <1>1, <2>1 DEF StageInv, Stopping
<1>6. CASE StopGenerator
  <2>1. runner.pc = "stop generator" /\ runner'.pc = "stop scheduler"
    BY <1>2, <1>6 DEF StopGenerator, Goto, RunnerTypes
  <2> QED
    BY <1>1, <2>1 DEF StageInv, Stopping
<1>7. CASE StopScheduler
  <2>1. /\ runner.pc = "stop scheduler" /\ runner'.pc = "collect"
        /\ worker.pc = "idle" \/ StopTimesOut
    BY <1>2, <1>7 DEF StopScheduler, Goto, RunnerTypes
  <2> QED
    BY <1>1, <2>1 DEF StageInv, Stopping
<1> QED
  BY <1>3, <1>4, <1>5, <1>6, <1>7 DEF RunnerWaits

\* The table of the late requests is empty when the queue is.
LEMMA NoneLate ==
  ASSUME StageInv, ScheduleLate, pending = << >>
  PROVE  results'.late = << >>
<1>1. results'.late = [r \in {} |-> Min({Max({Deadline[r], ArrivalSlot(r)}), LastSlot})]
  BY LateEffect, EmptyFacts
<1>2. << >> = [r \in {} |-> Min({Max({Deadline[r], ArrivalSlot(r)}), LastSlot})]
  BY EmptyFacts
<1> QED
  BY <1>1, <1>2

\* Every step keeps what the stages of the runner promise.
LEMMA StageNext ==
  ASSUME TypeInv, ClockInv, PlaceInv, LogInv, StageInv, [Next]_vars
  PROVE  StageInv'
<1>1. config' = config /\ BatchSize' = BatchSize /\ StopTimesOut' = StopTimesOut
      /\ DrainTimesOut' = DrainTimesOut
  BY TypesNext, ConfigKept
<1>2. CASE Generator
  <2>1. UNCHANGED <<worker, logged, runner, results>>
    BY <1>2 DEF Generator, ReadClock, EmitChunk, SetProcessed, WaitForDrain
  <2> QED
    BY <1>1, <1>2, <2>1, GeneratorThrough, StageFrame
<1>3. CASE LoopReads \/ Tick \/ Skip \/ UNCHANGED vars
  <2>1. UNCHANGED <<processed, pending, worker, logged, runner, results>>
    BY <1>3 DEF LoopReads, Tick, Skip, vars
  <2> QED
    BY <1>1, <2>1, StageFrame
<1>4. CASE SolveAndCommit \/ LogRows \/ Release
  <2>1. UNCHANGED <<processed, pending, runner>> /\ logged \subseteq logged'
    BY <1>4, SolveEffect, LogEffect, ReleaseEffect
  <2>2. UNCHANGED results
    BY <1>4 DEF SolveAndCommit, LogRows, Release
  <2>3. worker.pc # "idle"
    BY <1>4, SolveEffect, LogEffect, ReleaseEffect
  <2> QED
    BY <1>1, <2>1, <2>2, <2>3, StageFrame
<1>5. CASE RunnerWaits
  BY <1>5, StageWaits
<1>6. CASE Turn
  <2>1. UNCHANGED <<processed, logged, runner, results>>
    BY <1>6 DEF Turn
  <2>2. CASE UNCHANGED <<worker, pending>>
    BY <1>1, <2>1, <2>2, StageFrame
  <2>3. CASE Claim
    <3>1. runner.pc \in {"phase1", "phase2", "phase2 pending", "stop generator"}
      BY <2>3 DEF Claim, SchedulerRuns, GeneratorRuns
    <3>2. pending = << >> => pending' = << >>
      <4>1. pending' \in Seq(Requests) /\ Range(pending') \subseteq Range(pending)
        BY <2>3, ClaimEffect
      <4> SUFFICES ASSUME pending = << >>, pending' # << >> PROVE FALSE
        OBVIOUS
      <4>2. Len(pending') \in Nat \ {0} /\ DOMAIN pending' = 1 .. Len(pending')
        BY <4>1, EmptySeq, LenProperties
      <4>3. pending'[1] \in Range(pending')
        BY <4>2 DEF Range
      <4> QED
        BY <4>1, <4>3, EmptyFacts
    <3> QED
      BY <1>1, <2>1, <3>1, <3>2 DEF StageInv
  <2> QED
    BY <1>6, <2>2, <2>3 DEF Turn
<1>7. CASE ReadRows
  <2>1. /\ UNCHANGED <<processed, pending, worker, logged>> /\ runner.pc = "collect"
        /\ DOMAIN results' = {"rows", "late"}
        /\ results'.rows = logged /\ results'.late = results.late
    BY <1>7, RowsEffect
  <2>2. runner'.pc = "drain"
    BY <1>7 DEF ReadRows, Goto, TypeInv, RunnerTypes
  <2>3. /\ IsFiniteSet(Unreported')
        /\ Cardinality(Unreported') <= IF StopTimesOut THEN BatchSize ELSE 0
    BY <1>7, MissingBatch
  <2> QED
    BY <1>1, <2>1, <2>2, <2>3 DEF StageInv, Stopping
<1>8. CASE ScheduleLate
  <2>1. UNCHANGED <<processed, worker, logged>>
    BY <1>8, CollectEffect
  <2>2. /\ runner.pc = "drain" /\ DOMAIN results' = {"rows", "late"}
        /\ results'.rows = results.rows /\ pending' = << >>
        /\ DOMAIN results'.late = Range(pending) /\ DOMAIN results.late = {}
    BY <1>8, LateEffect
  <2>3. runner'.pc = "done"
    BY <1>8 DEF ScheduleLate, Goto, TypeInv, RunnerTypes
  <2>4. Unreported' = Unreported
    BY <1>1, <2>2, UnreportedKept, EmptyFacts
  <2>5. ~ DrainTimesOut => results'.late = << >>
    BY <1>8, <2>2, NoneLate DEF StageInv, Stopping
  <2> QED
    BY <1>1, <2>1, <2>2, <2>3, <2>4, <2>5 DEF StageInv, Stopping
<1> QED
  BY <1>2, <1>3, <1>4, <1>5, <1>6, <1>7, <1>8, StepCases

-----------------------------------------------------------------------------
(* The theorems. *)

\* The invariant holds when a run starts.
LEMMA RunInit == Init => RunInv
<1> SUFFICES ASSUME Init PROVE RunInv
  OBVIOUS
<1>1. TypeInv
  BY TypesInit
<1>2. /\ elapsed = 0 /\ processed = -1 /\ pending = << >> /\ solvedIn = << >> /\ logged = {}
      /\ gen.pc = "check" /\ gen.last = -1 /\ gen.target = -1 /\ gen.slot = 0
      /\ loop.pc = "count" /\ worker.pc = "idle" /\ runner.pc = "phase1"
      /\ results = [rows |-> {}, late |-> << >>]
  BY DEF Init
<1>3. ClockInv
  <2>1. ClockSlot \in Nat
    BY <1>1, ClockInRange, SizeFacts
  <2> QED
    BY <1>2, <2>1 DEF ClockInv
<1>4. Emitted = {} /\ InHand = {}
  <2>1. 0 .. -1 = {}
    OBVIOUS
  <2> QED
    BY <1>2, <2>1 DEF Emitted, ArrivedBy, InHand
<1>5. results.late = << >> /\ results.rows = {} /\ DOMAIN results = {"rows", "late"}
  BY <1>2
<1>6. PlaceInv
  BY <1>2, <1>4, <1>5, EmptyFacts DEF PlaceInv
<1>7. SlotInv
  BY <1>2, <1>4, EmptyFacts DEF SlotInv, SolvedFromArrivalOn
<1>8. LogInv
  BY <1>2, EmptyFacts DEF LogInv
<1>9. StageInv
  BY <1>2, <1>5 DEF StageInv, Stopping
<1> QED
  BY <1>1, <1>3, <1>6, <1>7, <1>8, <1>9 DEF RunInv

\* Every step of a run keeps the invariant.
LEMMA RunNext == RunInv /\ [Next]_vars => RunInv'
<1> SUFFICES ASSUME RunInv, [Next]_vars PROVE RunInv'
  OBVIOUS
<1>1. TypeInv /\ ClockInv /\ PlaceInv /\ SlotInv /\ LogInv /\ StageInv
  BY DEF RunInv
<1>2. TypeInv' /\ ClockInv' /\ PlaceInv' /\ SlotInv' /\ LogInv' /\ StageInv'
  BY <1>1, TypesNext, ClockNext, PlaceNext, SlotNext, LogNext, StageNext
<1> QED
  BY <1>2 DEF RunInv

\* The invariant holds throughout a run.
LEMMA RunInvariant == Spec => []RunInv
BY RunInit, RunNext, PTL DEF Spec

\* The types of a run: the clock stays in its range, a batch in its size, and
\* only requests of the scenario are solved, and only solved ones logged.
LEMMA RunTyped == RunInv => TypeOK
<1> SUFFICES ASSUME RunInv PROVE TypeOK
  OBVIOUS
<1>1. TypeInv /\ ClockInv /\ LogInv
  BY DEF RunInv
<1>2. /\ gen.slot \in Slots /\ gen.target \in -1 .. LastSlot /\ gen.last \in -1 .. LastSlot
      /\ gen.slot \in Int /\ gen.target \in Int /\ gen.last \in Int
      /\ gen.pc \in {"check", "emit", "drain", "stopped"}
  BY <1>1, SizeFacts DEF TypeInv, GenTypes
<1>3. gen.last <= gen.target
  <2>1. gen.last = gen.target \/ (gen.last < gen.slot /\ gen.slot <= gen.target)
    BY <1>1, <1>2 DEF ClockInv
  <2> QED
    BY <1>2, <2>1
<1>4. loop.slot \in Slots /\ loop.active \in {0, 1}
      /\ worker.pc \in {"idle", "solve", "log", "release"}
  BY <1>1 DEF TypeInv, LoopTypes, WorkerTypes
<1> QED
  BY <1>1, <1>2, <1>3, <1>4 DEF TypeInv, LogInv, TypeOK

\* Nothing of the scenario is dropped or duplicated on its way to a worker.
LEMMA RunEmits == RunInv => EverySlotEmitted
<1> SUFFICES ASSUME RunInv PROVE EverySlotEmitted
  OBVIOUS
<1>1. TypeInv /\ ClockInv /\ PlaceInv
  BY DEF RunInv
<1>2. Queued \cup DOMAIN solvedIn = Emitted
  BY <1>1 DEF PlaceInv, Queued, InHand
<1>3. \A s \in 0 .. processed : Range(Arrivals[s]) \subseteq Emitted
  BY DEF Emitted, ArrivedBy
<1>4. \A r \in Emitted : ArrivalSlot(r) <= gen.slot
  BY <1>1, EmittedSlots
<1>5. Queued \cap DOMAIN solvedIn = {} /\ IsInjective(pending)
  BY <1>1 DEF PlaceInv, Queued, InHand
<1> QED
  BY <1>2, <1>3, <1>4, <1>5 DEF EverySlotEmitted

\* The report of a run that is over leaves out one batch at most, and only when
\* the limit of a stop struck.
LEMMA RunReports == RunInv => NumbersAlways100
<1> SUFFICES ASSUME RunInv, Done PROVE
        /\ results.rows \cap DOMAIN results.late = {}
        /\ Cardinality(Requests \ (results.rows \cup DOMAIN results.late))
             <= IF config.stopLimit THEN BatchSize ELSE 0
        /\ ~ config.drainLimit => results.late = << >>
  BY DEF NumbersAlways100
<1>1. PlaceInv /\ LogInv /\ StageInv
  BY DEF RunInv
<1>2. runner.pc = "done"
  BY DEF Done
<1>3. results.rows \cap DOMAIN results.late = {}
  BY <1>1 DEF PlaceInv, LogInv, StageInv
<1>4. Range(pending) = {}
  BY <1>1, <1>2, EmptyFacts DEF StageInv
<1>5. Unreported = Requests \ (results.rows \cup DOMAIN results.late)
  BY <1>4 DEF Unreported
<1>6. Cardinality(Unreported) <= IF config.stopLimit THEN BatchSize ELSE 0
  BY <1>1, <1>2 DEF StageInv, StopTimesOut
<1>7. ~ config.drainLimit => results.late = << >>
  BY <1>1, <1>2 DEF StageInv, Stopping, DrainTimesOut
<1> QED
  BY <1>3, <1>5, <1>6, <1>7

\* generator_loop and main_loop together: for every scenario, horizon, batch and
\* chunk size, and however the clock jumps, no slot is dropped or emitted early,
\* and no request is solved before its arrival or beyond the horizon.
THEOREM Replayed == Spec => []ScenarioReplayed
<1>1. RunInv => ScenarioReplayed
  BY RunTyped, RunEmits DEF ScenarioReplayed, RunInv, SlotInv
<1> QED
  BY <1>1, RunInvariant, PTL

\* run_single_n: every request of the scenario is in the report exactly once, but
\* for one batch at most when a stop timed out; none is late without a limit.
THEOREM Complete == Spec => []NumbersAlways100
BY RunReports, RunInvariant, PTL

=============================================================================
