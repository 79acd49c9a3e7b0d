-------------------------- MODULE DpSolver_proofs --------------------------
(***************************************************************************)
(* Theorems about DpSolver.  The search builds keys and costs one request   *)
(* at a time; here they are shown to be those of the whole plan, counted     *)
(* afresh.  The operators below say so for a fixed input, as the input of a  *)
(* solve does not change.                                                    *)
(***************************************************************************)
EXTENDS DpSolver, FoldLemmas

-----------------------------------------------------------------------------
(* The window, the slots and the prices of an input.                         *)

WindowOf(in) == Max({in.currentSlot - WindowPast, 0})
                  .. Min({in.currentSlot + WindowFuture, TotalSlots - 1})

CapOf(in) == Max({Min({in.currentSlot + WindowFuture, TotalSlots - 1}), in.currentSlot})

FirstOf(in, i) == Max({in.requests[i].earliest, in.currentSlot})
LastOf(in, i) == Min({Max({in.requests[i].deadline, in.currentSlot}), CapOf(in), TotalSlots - 1})
LegalOf(in, i) == FirstOf(in, i) .. LastOf(in, i)

ChoiceOf(in, i) == LegalOf(in, i) \X DOMAIN in.requests[i].flavours

\* The price of a position of a slot.
Rate(slot, position, duration) == Carbon[slot] * get_capacity_multiplier(position) * duration

CostFor(in, i, key, c) ==
  Rate(c[1], in.baseline[c[1]] + key.inc[c[1]] + 1, in.requests[i].flavours[c[2]].duration)

PlaceFor(in, i, key, c) == [slot |-> c[1], flavour |-> c[2], cost |-> CostFor(in, i, key, c)]

TakesMock(in, key, slot) == slot \in WindowOf(in) /\ key.mocks > 0 /\ in.mockError > 0

NextOf(in, key, slot, error) ==
  [sum |-> key.sum + (IF slot \in WindowOf(in) THEN error ELSE 0)
                   - (IF TakesMock(in, key, slot) THEN in.mockError ELSE 0),
   count |-> key.count + (IF slot \in WindowOf(in) /\ ~ TakesMock(in, key, slot) THEN 1000 ELSE 0),
   mocks |-> key.mocks - (IF TakesMock(in, key, slot) THEN 1 ELSE 0),
   inc |-> [key.inc EXCEPT ![slot] = @ + 1]]

KeyFor(in, i, key, c) == NextOf(in, key, c[1], in.requests[i].flavours[c[2]].error)

StartKey(in) == [sum |-> in.errorSum, count |-> in.errorCount,
                 mocks |-> in.mocks, inc |-> [s \in Slots |-> 0]]

Within(in, key) ==
  \/ in.threshold = NoThreshold
  \/ key.count = 0
  \/ key.sum * 1000 <= in.threshold * key.count

\* They are the operators of the search for the input of this solve.
LEMMA SameWindow ==
  /\ \A s : InWindow(s) <=> s \in WindowOf(input)
  /\ \A i : LegalSlots(i) = LegalOf(input, i)
  /\ \A i : Choice(i) = ChoiceOf(input, i)
  /\ InitialKey = StartKey(input)
  /\ \A key : WithinThreshold(key) <=> Within(input, key)
<1>1. \A s : InWindow(s) <=> s \in WindowOf(input)
  BY DEF InWindow, WindowStart, WindowEnd, WindowOf
<1>2. \A i : LegalSlots(i) = LegalOf(input, i)
  BY DEF LegalSlots, LegalOf, FirstOf, LastOf, Earliest, Deadline, AssignmentCap, WindowEnd, CapOf
<1>3. \A i : Choice(i) = ChoiceOf(input, i)
  BY <1>2 DEF Choice, ChoiceOf
<1>4. InitialKey = StartKey(input)
  BY DEF InitialKey, StartKey
<1>5. \A key : WithinThreshold(key) <=> Within(input, key)
  BY DEF WithinThreshold, Within
<1> QED
  BY <1>1, <1>2, <1>3, <1>4, <1>5

LEMMA SameCost ==
  \A i, key, c : /\ CostOf(i, key, c) = CostFor(input, i, key, c)
                 /\ Place(i, key, c) = PlaceFor(input, i, key, c)
<1>1. \A i, key, c : CostOf(i, key, c) = CostFor(input, i, key, c)
  BY DEF CostOf, CostFor, incremental_carbon_cost, Rate
<1> QED
  BY <1>1 DEF Place, PlaceFor

LEMMA SameKey ==
  \A i, key, c : KeyAfter(i, key, c) = KeyFor(input, i, key, c)
<1>1. \A key, slot, error : NextKey(key, slot, error) = NextOf(input, key, slot, error)
  BY SameWindow DEF NextKey, NextOf, TakesMock, Consumes
<1> QED
  BY <1>1 DEF KeyAfter, KeyFor

\* What an input holds.
LEMMA InputTypes ==
  ASSUME NEW in \in Inputs
  PROVE  /\ in.currentSlot \in Nat /\ in.currentSlot <= TotalSlots
         /\ in.baseline \in [Slots -> Nat]
         /\ in.errorSum \in Nat /\ in.errorCount \in Nat
         /\ in.threshold \in Nat \cup {NoThreshold}
         /\ in.mocks \in Nat /\ in.mockError \in Nat
         /\ in.k \in Nat
         /\ Len(in.requests) \in Nat /\ DOMAIN in.requests = 1 .. Len(in.requests)
         /\ Len(in.held) \in Nat /\ Len(in.held) <= Len(in.requests)
         /\ \A i \in 1 .. Len(in.requests) :
              /\ in.requests[i].earliest \in Slots /\ in.requests[i].deadline \in Slots
              /\ in.requests[i].flavours \in Seq(Flavour) /\ in.requests[i].flavours # << >>
<1>1. in \in Input /\ Len(in.held) <= Len(in.requests)
      /\ \A i \in DOMAIN in.requests : in.requests[i].flavours # << >>
  BY InputAssumption
<1>2. in.requests \in Seq([earliest : Slots, deadline : Slots, flavours : Seq(Flavour)])
      /\ in.held \in Seq(Slots)
  BY <1>1 DEF Input
<1>3. DOMAIN in.requests = 1 .. Len(in.requests) /\ Len(in.requests) \in Nat /\ Len(in.held) \in Nat
  BY <1>2
<1> DEFINE work == [earliest : Slots, deadline : Slots, flavours : Seq(Flavour)]
<1> HIDE DEF work
<1>4. \A i \in 1 .. Len(in.requests) : in.requests[i] \in work
  <2>1. in.requests \in Seq(work)
    BY <1>2 DEF work
  <2> QED
    BY <2>1, SeqElement
<1>6. \A r \in work : r.earliest \in Slots /\ r.deadline \in Slots /\ r.flavours \in Seq(Flavour)
  BY DEF work
<1>7. TotalSlots \in Nat /\ (in.currentSlot \in 0 .. TotalSlots =>
        in.currentSlot \in Nat /\ in.currentSlot <= TotalSlots)
  BY SearchAssumption
<1>5. /\ in.currentSlot \in 0 .. TotalSlots
      /\ in.baseline \in [Slots -> Nat]
      /\ in.errorSum \in Nat /\ in.errorCount \in Nat
      /\ in.threshold \in Nat \cup {NoThreshold}
      /\ in.mocks \in Nat /\ in.mockError \in Nat
      /\ in.k \in Nat
  BY <1>1 DEF Input
<1> QED
  BY <1>1, <1>3, <1>4, <1>5, <1>6, <1>7

\* The flavours of a request.
LEMMA FlavourTypes ==
  ASSUME NEW in \in Inputs, NEW i \in 1 .. Len(in.requests)
  PROVE  /\ DOMAIN in.requests[i].flavours \subseteq Nat \ {0}
         /\ DOMAIN in.requests[i].flavours # {}
         /\ IsFiniteSet(DOMAIN in.requests[i].flavours)
         /\ \A f \in DOMAIN in.requests[i].flavours :
              in.requests[i].flavours[f].duration \in Nat /\ in.requests[i].flavours[f].error \in Nat
<1> DEFINE fs == in.requests[i].flavours
<1>1. fs \in Seq(Flavour) /\ fs # << >>
  BY InputTypes
<1> HIDE DEF fs
<1>2. DOMAIN fs = 1 .. Len(fs) /\ Len(fs) \in Nat /\ Len(fs) # 0
      /\ \A f \in 1 .. Len(fs) : fs[f] \in Flavour
  BY <1>1, SeqElement
<1>3. IsFiniteSet(1 .. Len(fs))
  BY <1>2, FS_Interval
<1>4. \A f \in DOMAIN fs : fs[f].duration \in Nat /\ fs[f].error \in Nat
  BY <1>2 DEF Flavour
<1>5. 1 \in DOMAIN fs /\ DOMAIN fs \subseteq Nat \ {0}
  BY <1>2
<1> QED
  BY <1>2, <1>3, <1>4, <1>5 DEF fs

\* The slots of a request lie in the horizon.
LEMMA LegalTypes ==
  ASSUME NEW in \in Inputs, NEW i \in 1 .. Len(in.requests)
  PROVE  /\ FirstOf(in, i) \in Int /\ LastOf(in, i) \in Int
         /\ LegalOf(in, i) \subseteq Slots
<1> DEFINE e == in.requests[i].earliest
           d == in.requests[i].deadline
           now == in.currentSlot
<1>1. e \in Int /\ e >= 0 /\ d \in Int /\ now \in Int /\ TotalSlots \in Int
      /\ WindowFuture \in Int
  BY InputTypes, SearchAssumption DEF Slots
<1> HIDE DEF e, d, now
<1>2. Max({e, now}) \in Int /\ Max({e, now}) >= 0 /\ Max({d, now}) \in Int
  BY <1>1, MaxPair
<1> DEFINE end == Min({now + WindowFuture, TotalSlots - 1})
<1>3. end \in Int
  BY <1>1, MinPair
<1> HIDE DEF end
<1> DEFINE cap == Max({end, now})
<1>4. cap \in Int
  BY <1>1, <1>3, MaxPair
<1> HIDE DEF cap
<1> DEFINE late == Max({d, now})
<1>5. late \in Int
  BY <1>2
<1> HIDE DEF late
<1> DEFINE top == TotalSlots - 1
<1>9. top \in Int
  BY <1>1
<1> HIDE DEF top
<1> DEFINE last == Min({late, cap, top})
<1>6. last \in Int /\ last <= top
  BY <1>4, <1>5, <1>9, MinTriple
<1> HIDE DEF last
<1>7. Max({e, now}) .. last \subseteq Slots
  BY <1>1, <1>2, <1>6 DEF Slots, top
<1>8. FirstOf(in, i) = Max({e, now}) /\ LastOf(in, i) = last
  BY DEF FirstOf, LastOf, CapOf, e, d, now, last, late, cap, end, top
<1> QED
  BY <1>2, <1>6, <1>7, <1>8 DEF LegalOf

\* A price is a natural number.
LEMMA RateType ==
  ASSUME NEW slot \in Slots, NEW position \in Nat, NEW duration \in Nat
  PROVE  Rate(slot, position, duration) \in Nat
<1>1. Carbon[slot] \in Nat
  BY SearchAssumption
<1>2. get_capacity_multiplier(position) \in Nat
  <2> DEFINE open == {t \in DOMAIN Tiers : \/ Tiers[t].maxRequests = NoLimit
                                           \/ position <= Tiers[t].maxRequests}
  <2> DEFINE tier == [maxRequests : Nat \cup {NoLimit}, multiplier : Nat]
  <2>0. Tiers \in Seq(tier) /\ Tiers # << >> /\ \A t \in tier : t.multiplier \in Nat
    BY SearchAssumption
  <2> HIDE DEF tier
  <2>1. /\ DOMAIN Tiers = 1 .. Len(Tiers) /\ Len(Tiers) \in Nat /\ Len(Tiers) # 0
        /\ \A t \in 1 .. Len(Tiers) : Tiers[t] \in tier
    BY <2>0, SeqElement
  <2>2. \A t \in DOMAIN Tiers : Tiers[t].multiplier \in Nat
    BY <2>0, <2>1
  <2>3. CASE open = {}
    <3>1. Len(Tiers) \in DOMAIN Tiers
      BY <2>1
    <3> QED
      BY <2>2, <2>3, <3>1 DEF get_capacity_multiplier
  <2>4. CASE open # {}
    <3>1. IsFiniteSet(DOMAIN Tiers)
      BY <2>1, FS_Interval
    <3>2. IsFiniteSet(open) /\ open \subseteq Int
      BY <2>1, <3>1, FS_Subset
    <3> HIDE DEF open
    <3>3. Min(open) \in open
      BY <2>4, <3>2, MinOf
    <3>4. Min(open) \in DOMAIN Tiers
      BY <3>3 DEF open
    <3> QED
      BY <2>2, <2>4, <3>4 DEF get_capacity_multiplier, open
  <2> QED
    BY <2>3, <2>4
<1> HIDE DEF get_capacity_multiplier
<1> DEFINE a == Carbon[slot]
           b == get_capacity_multiplier(position)
<1>3. a \in Nat /\ b \in Nat
  BY <1>1, <1>2
<1> HIDE DEF a, b
<1>4. a * b \in Nat
  BY <1>3
<1> DEFINE p == a * b
<1>5. p \in Nat
  BY <1>4
<1> HIDE DEF p
<1>6. p * duration \in Nat
  BY <1>5
<1> QED
  BY <1>6 DEF Rate, p, a, b

-----------------------------------------------------------------------------
(* A plan places request i in plan[i].slot with flavour plan[i].flavour; its  *)
(* cost and its key count from the slots and the flavours alone.              *)

Taken(plan, n, slot) == Cardinality({j \in 1 .. n : plan[j].slot = slot})

PriceAt(in, plan, i) ==
  Rate(plan[i].slot, in.baseline[plan[i].slot] + Taken(plan, i, plan[i].slot),
       in.requests[i].flavours[plan[i].flavour].duration)

Prices(in, plan, n) == [i \in 1 .. n |-> PriceAt(in, plan, i)]
Bill(in, plan, n) == SumFunctionOnSet(Prices(in, plan, n), 1 .. n)

InsideOf(in, plan, n) == {i \in 1 .. n : plan[i].slot \in WindowOf(in)}
Errors(in, plan, n) ==
  [i \in InsideOf(in, plan, n) |-> in.requests[i].flavours[plan[i].flavour].error]

Replaced(in, plan, n) ==
  IF in.mockError = 0 THEN 0 ELSE Min({Cardinality(InsideOf(in, plan, n)), in.mocks})

PlanKey(in, plan, n) ==
  [sum |-> in.errorSum + SumFunctionOnSet(Errors(in, plan, n), InsideOf(in, plan, n))
             - Replaced(in, plan, n) * in.mockError,
   count |-> in.errorCount + 1000 * (Cardinality(InsideOf(in, plan, n)) - Replaced(in, plan, n)),
   mocks |-> in.mocks - Replaced(in, plan, n),
   inc |-> [s \in Slots |-> Taken(plan, n, s)]]

\* The first n requests are placed in slots of theirs with flavours of theirs.
Placed(in, n, plan) ==
  \A i \in 1 .. n : /\ plan[i].slot \in LegalOf(in, i)
                    /\ plan[i].flavour \in DOMAIN in.requests[i].flavours

\* Two plans place the first n requests alike.
Alike(n, plan, other) ==
  \A i \in 1 .. n : other[i].slot = plan[i].slot /\ other[i].flavour = plan[i].flavour

\* Requests of a slot, one request further.
LEMMA TakenNext ==
  ASSUME NEW plan, NEW more, NEW n \in Nat, Alike(n, plan, more), NEW slot
  PROVE  /\ Taken(plan, n, slot) \in Nat /\ Taken(more, n, slot) = Taken(plan, n, slot)
         /\ Taken(more, n + 1, slot)
              = Taken(plan, n, slot) + (IF more[n + 1].slot = slot THEN 1 ELSE 0)
<1> DEFINE D == {j \in 1 .. n : plan[j].slot = slot}
           E == {j \in 1 .. n : more[j].slot = slot}
           G == {j \in 1 .. n + 1 : more[j].slot = slot}
<1>1. IsFiniteSet(D)
  BY FS_Interval, FS_Subset
<1>2. E = D
  BY DEF Alike
<1>3. n + 1 \notin D
  OBVIOUS
<1>4. G = IF more[n + 1].slot = slot THEN D \cup {n + 1} ELSE D
  BY <1>2
<1>5. Cardinality(D) \in Nat /\ Cardinality(D \cup {n + 1}) = Cardinality(D) + 1
  <2> HIDE DEF D
  <2> QED
    BY <1>1, <1>3, FS_AddElement, FS_CardinalityType
<1>6. Taken(plan, n, slot) = Cardinality(D) /\ Taken(more, n, slot) = Cardinality(E)
      /\ Taken(more, n + 1, slot) = Cardinality(G)
  BY DEF Taken
<1> HIDE DEF D, E, G
<1> QED
  BY <1>2, <1>4, <1>5, <1>6

\* The window holds one request more, or none.
LEMMA InsideNext ==
  ASSUME NEW in, NEW plan, NEW more, NEW n \in Nat, Alike(n, plan, more)
  PROVE  /\ IsFiniteSet(InsideOf(in, plan, n)) /\ InsideOf(in, plan, n) \subseteq 1 .. n
         /\ Cardinality(InsideOf(in, plan, n)) \in Nat
         /\ InsideOf(in, more, n) = InsideOf(in, plan, n)
         /\ InsideOf(in, more, n + 1)
              = InsideOf(in, plan, n) \cup (IF more[n + 1].slot \in WindowOf(in) THEN {n + 1} ELSE {})
         /\ Cardinality(InsideOf(in, more, n + 1))
              = Cardinality(InsideOf(in, plan, n)) + (IF more[n + 1].slot \in WindowOf(in) THEN 1 ELSE 0)
<1> DEFINE W == WindowOf(in)
           D == {j \in 1 .. n : plan[j].slot \in W}
           E == {j \in 1 .. n : more[j].slot \in W}
           G == {j \in 1 .. n + 1 : more[j].slot \in W}
<1> HIDE DEF W
<1>1. IsFiniteSet(D) /\ D \subseteq 1 .. n
  BY FS_Interval, FS_Subset
<1>2. E = D
  BY DEF Alike
<1>3. n + 1 \notin D
  OBVIOUS
<1>4. G = D \cup (IF more[n + 1].slot \in W THEN {n + 1} ELSE {})
  BY <1>2
<1>5. Cardinality(D) \in Nat /\ Cardinality(D \cup {n + 1}) = Cardinality(D) + 1
      /\ Cardinality(D \cup {}) = Cardinality(D)
  <2> HIDE DEF D
  <2>1. D \cup {} = D
    OBVIOUS
  <2> QED
    BY <1>1, <1>3, <2>1, FS_AddElement, FS_CardinalityType
<1>6. InsideOf(in, plan, n) = D /\ InsideOf(in, more, n) = E /\ InsideOf(in, more, n + 1) = G
  BY DEF InsideOf, W
<1> HIDE DEF D, E, G
<1>7. Cardinality(G) = Cardinality(D) + (IF more[n + 1].slot \in W THEN 1 ELSE 0)
  BY <1>4, <1>5
<1> QED
  BY <1>1, <1>2, <1>4, <1>5, <1>6, <1>7 DEF W

\* So does the sum of the errors inside.
LEMMA ErrorsNext ==
  ASSUME NEW in \in Inputs, NEW n \in Nat, n + 1 <= Len(in.requests),
         NEW plan, NEW more, Alike(n, plan, more), Placed(in, n + 1, more)
  PROVE  /\ SumFunctionOnSet(Errors(in, plan, n), InsideOf(in, plan, n)) \in Nat
         /\ SumFunctionOnSet(Errors(in, more, n + 1), InsideOf(in, more, n + 1))
              = SumFunctionOnSet(Errors(in, plan, n), InsideOf(in, plan, n))
                  + (IF more[n + 1].slot \in WindowOf(in)
                     THEN in.requests[n + 1].flavours[more[n + 1].flavour].error ELSE 0)
<1> DEFINE D == InsideOf(in, plan, n)
           G == InsideOf(in, more, n + 1)
           f == Errors(in, plan, n)
           g == Errors(in, more, n + 1)
<1>1. IsFiniteSet(D) /\ D \subseteq 1 .. n
      /\ G = D \cup (IF more[n + 1].slot \in WindowOf(in) THEN {n + 1} ELSE {})
  BY InsideNext
<1>2. \A i \in 1 .. n + 1 : in.requests[i].flavours[more[i].flavour].error \in Nat
  <2> SUFFICES ASSUME NEW i \in 1 .. n + 1
               PROVE  in.requests[i].flavours[more[i].flavour].error \in Nat
    OBVIOUS
  <2>1. i \in 1 .. Len(in.requests)
    BY InputTypes
  <2>2. more[i].flavour \in DOMAIN in.requests[i].flavours
    BY DEF Placed
  <2> QED
    BY <2>1, <2>2, FlavourTypes
<1>3. \A i \in D : g[i] \in Nat /\ f[i] = g[i]
  <2>1. D \subseteq G
    BY <1>1
  <2>2. \A i \in G : i \in 1 .. n + 1 /\ g[i] = in.requests[i].flavours[more[i].flavour].error
    BY DEF Errors, InsideOf
  <2>3. \A i \in D : f[i] = in.requests[i].flavours[plan[i].flavour].error
    BY DEF Errors
  <2>4. \A i \in D : more[i].flavour = plan[i].flavour
    BY <1>1 DEF Alike
  <2> HIDE DEF D, G, f, g
  <2> QED
    BY <1>2, <2>1, <2>2, <2>3, <2>4
<1>4. more[n + 1].slot \in WindowOf(in) =>
        g[n + 1] = in.requests[n + 1].flavours[more[n + 1].flavour].error
  <2> SUFFICES ASSUME more[n + 1].slot \in WindowOf(in)
               PROVE  g[n + 1] = in.requests[n + 1].flavours[more[n + 1].flavour].error
    OBVIOUS
  <2>1. n + 1 \in InsideOf(in, more, n + 1)
    BY DEF InsideOf
  <2> QED
    BY <2>1 DEF Errors
<1>5. n + 1 \in 1 .. n + 1
  OBVIOUS
<1> HIDE DEF D, G, f, g
<1>6. SumFunctionOnSet(f, D) = SumFunctionOnSet(g, D) /\ SumFunctionOnSet(f, D) \in Nat
  <2>1. \A i \in D : g[i] \in Int /\ f[i] = g[i]
    BY <1>3
  <2>2. \A i \in D : f[i] \in Nat
    BY <1>3
  <2>3. SumFunctionOnSet(f, D) = SumFunctionOnSet(g, D)
    BY <1>1, <2>1, SumSame
  <2> QED
    BY <1>1, <2>2, <2>3, SumNat
<1>7. CASE more[n + 1].slot \in WindowOf(in)
  <2>1. n + 1 \notin D
    BY <1>1
  <2>2. g[n + 1] \in Nat
    BY <1>2, <1>4, <1>5, <1>7
  <2>3. SumFunctionOnSet(g, D \cup {n + 1}) = SumFunctionOnSet(g, D) + g[n + 1]
    <3>1. \A i \in D \cup {n + 1} : g[i] \in Int
      BY <1>3, <2>2
    <3> QED
      BY <1>1, <2>1, <3>1, SumAdd
  <2> QED
    BY <1>1, <1>4, <1>6, <1>7, <2>3 DEF D, G, f, g
<1>8. CASE more[n + 1].slot \notin WindowOf(in)
  <2>1. G = D
    BY <1>1, <1>8
  <2>2. SumFunctionOnSet(g, G) = SumFunctionOnSet(f, D)
    BY <1>6, <2>1
  <2> QED
    BY <1>6, <1>8, <2>2 DEF D, G, f, g
<1> QED
  BY <1>7, <1>8

\* The mocks replaced by the first n + 1 requests.
LEMMA ReplacedNext ==
  ASSUME NEW in \in Inputs, NEW n \in Nat, NEW plan, NEW more, Alike(n, plan, more)
  PROVE  /\ Replaced(in, plan, n) \in Nat /\ Replaced(in, plan, n) <= in.mocks
         /\ Replaced(in, plan, n) <= Cardinality(InsideOf(in, plan, n))
         /\ Replaced(in, more, n) = Replaced(in, plan, n)
         /\ Replaced(in, more, n + 1) = Replaced(in, plan, n)
              + (IF /\ more[n + 1].slot \in WindowOf(in)
                    /\ in.mocks - Replaced(in, plan, n) > 0 /\ in.mockError > 0
                 THEN 1 ELSE 0)
<1> DEFINE c == Cardinality(InsideOf(in, plan, n))
           d == Cardinality(InsideOf(in, more, n + 1))
           m == in.mocks
           e == in.mockError
           into == more[n + 1].slot \in WindowOf(in)
<1>1. /\ c \in Nat /\ d = c + (IF into THEN 1 ELSE 0)
      /\ InsideOf(in, more, n) = InsideOf(in, plan, n)
  BY InsideNext
<1>2. m \in Nat /\ e \in Nat
  BY InputTypes
<1>3. /\ Replaced(in, plan, n) = IF e = 0 THEN 0 ELSE Min({c, m})
      /\ Replaced(in, more, n) = Replaced(in, plan, n)
      /\ Replaced(in, more, n + 1) = IF e = 0 THEN 0 ELSE Min({d, m})
  BY <1>1 DEF Replaced
<1> HIDE DEF c, d, m, e, into
<1>4. c \in Int /\ m \in Int /\ d \in Int
  BY <1>1, <1>2
<1>5. Min({c, m}) = (IF c <= m THEN c ELSE m) /\ Min({d, m}) = (IF d <= m THEN d ELSE m)
  BY <1>4, MinPair
<1> DEFINE r == Replaced(in, plan, n)
           q == Replaced(in, more, n + 1)
<1>6. r = (IF e = 0 THEN 0 ELSE IF c <= m THEN c ELSE m)
      /\ q = (IF e = 0 THEN 0 ELSE IF d <= m THEN d ELSE m)
  BY <1>3, <1>5
<1> HIDE DEF r, q
<1>7. r \in Nat /\ r <= m /\ r <= c
  BY <1>1, <1>2, <1>6
<1>8. q = r + (IF into /\ m - r > 0 /\ e > 0 THEN 1 ELSE 0)
  BY <1>1, <1>2, <1>6
<1> QED
  BY <1>3, <1>7, <1>8 DEF r, q, c, m, e, into

\* The key of a plan is a key.
LEMMA PlanKeyType ==
  ASSUME NEW in \in Inputs, NEW n \in Nat, n <= Len(in.requests),
         NEW plan, Placed(in, n, plan)
  PROVE  PlanKey(in, plan, n) \in DpStateKey
<1>1. Alike(n, plan, plan)
  BY DEF Alike
<1>2. /\ in.errorSum \in Nat /\ in.errorCount \in Nat /\ in.mocks \in Nat /\ in.mockError \in Nat
  BY InputTypes
<1> DEFINE e == SumFunctionOnSet(Errors(in, plan, n), InsideOf(in, plan, n))
           c == Cardinality(InsideOf(in, plan, n))
           r == Replaced(in, plan, n)
<1>3. c \in Nat /\ IsFiniteSet(InsideOf(in, plan, n)) /\ InsideOf(in, plan, n) \subseteq 1 .. n
  BY <1>1, InsideNext
<1>4. r \in Nat /\ r <= in.mocks /\ r <= c
  BY <1>1, ReplacedNext
<1>5. e \in Nat
  <2>1. \A i \in InsideOf(in, plan, n) : Errors(in, plan, n)[i] \in Nat
    <3> SUFFICES ASSUME NEW i \in InsideOf(in, plan, n)
                 PROVE  in.requests[i].flavours[plan[i].flavour].error \in Nat
      BY DEF Errors
    <3>1. i \in 1 .. Len(in.requests) /\ i \in 1 .. n
      BY <1>3, InputTypes
    <3>2. plan[i].flavour \in DOMAIN in.requests[i].flavours
      BY <3>1 DEF Placed
    <3> QED
      BY <3>1, <3>2, FlavourTypes
  <2> QED
    BY <1>3, <2>1, SumNat
<1>6. [s \in Slots |-> Taken(plan, n, s)] \in [Slots -> Nat]
  BY <1>1, TakenNext
<1> DEFINE x == in.errorSum + e - r * in.mockError
           y == in.errorCount + 1000 * (c - r)
           z == in.mocks - r
           t == [s \in Slots |-> Taken(plan, n, s)]
<1>7. PlanKey(in, plan, n) = [sum |-> x, count |-> y, mocks |-> z, inc |-> t]
  BY DEF PlanKey
<1>8. x \in Int /\ y \in Nat /\ z \in Nat
  <2> DEFINE o == in.mockError
  <2> HIDE DEF e, c, r, o
  <2>1. r * o \in Int
    BY <1>2, <1>4 DEF o
  <2> DEFINE p == r * o
             q == 1000 * (c - r)
  <2>2. q \in Nat /\ p \in Int
    BY <1>3, <1>4, <2>1
  <2> HIDE DEF p, q
  <2>3. in.errorSum + e - p \in Int /\ in.errorCount + q \in Nat /\ in.mocks - r \in Nat
    BY <1>2, <1>4, <1>5, <2>2
  <2> QED
    BY <2>3 DEF o, p, q
<1>9. t \in [Slots -> Nat]
  BY <1>6
<1> HIDE DEF x, y, z, t
<1> QED
  BY <1>7, <1>8, <1>9 DEF DpStateKey

\* Placing one request more takes the key of the plan to the key of the longer
\* plan.
LEMMA KeyNext ==
  ASSUME NEW in \in Inputs, NEW n \in Nat, n + 1 <= Len(in.requests),
         NEW plan, NEW more, Alike(n, plan, more), Placed(in, n + 1, more)
  PROVE  PlanKey(in, more, n + 1)
           = KeyFor(in, n + 1, PlanKey(in, plan, n), <<more[n + 1].slot, more[n + 1].flavour>>)
<1> DEFINE e == SumFunctionOnSet(Errors(in, plan, n), InsideOf(in, plan, n))
           c == Cardinality(InsideOf(in, plan, n))
           r == Replaced(in, plan, n)
           err == in.requests[n + 1].flavours[more[n + 1].flavour].error
           s == more[n + 1].slot
           into == s \in WindowOf(in)
           key == PlanKey(in, plan, n)
           used == into /\ in.mocks - r > 0 /\ in.mockError > 0
<1>1. /\ in.errorSum \in Nat /\ in.errorCount \in Nat /\ in.mocks \in Nat /\ in.mockError \in Nat
  BY InputTypes
<1>2. e \in Nat /\ SumFunctionOnSet(Errors(in, more, n + 1), InsideOf(in, more, n + 1))
                     = e + (IF into THEN err ELSE 0)
  BY ErrorsNext
<1>3. c \in Nat /\ Cardinality(InsideOf(in, more, n + 1)) = c + (IF into THEN 1 ELSE 0)
  BY InsideNext
<1>4. r \in Nat /\ Replaced(in, more, n + 1) = r + (IF used THEN 1 ELSE 0)
  BY ReplacedNext
<1>5. /\ key.sum = in.errorSum + e - r * in.mockError
      /\ key.count = in.errorCount + 1000 * (c - r)
      /\ key.mocks = in.mocks - r
      /\ key.inc = [t \in Slots |-> Taken(plan, n, t)]
  BY DEF PlanKey
<1>6. err \in Nat /\ s \in Slots
  <2>1. n + 1 \in 1 .. n + 1 /\ n + 1 \in 1 .. Len(in.requests)
    BY InputTypes
  <2>2. more[n + 1].flavour \in DOMAIN in.requests[n + 1].flavours /\ s \in LegalOf(in, n + 1)
    BY <2>1 DEF Placed
  <2> QED
    BY <2>1, <2>2, FlavourTypes, LegalTypes
<1>7. [t \in Slots |-> Taken(more, n + 1, t)] = [key.inc EXCEPT ![s] = @ + 1]
  <2>1. \A t \in Slots : Taken(more, n + 1, t) = key.inc[t] + (IF s = t THEN 1 ELSE 0)
                         /\ key.inc[t] \in Nat
    BY <1>5, TakenNext
  <2>2. key.inc \in [Slots -> Nat]
    BY <1>5, <2>1
  <2> DEFINE inc == key.inc
  <2> HIDE DEF inc, s, key
  <2>3. [t \in Slots |-> Taken(more, n + 1, t)] = [t \in Slots |-> inc[t] + (IF s = t THEN 1 ELSE 0)]
    BY <2>1 DEF inc
  <2>4. [inc EXCEPT ![s] = @ + 1] = [t \in Slots |-> inc[t] + (IF s = t THEN 1 ELSE 0)]
    BY <1>6, <2>2 DEF inc
  <2> QED
    BY <2>3, <2>4 DEF inc
<1>8. KeyFor(in, n + 1, key, <<s, more[n + 1].flavour>>) =
        [sum |-> key.sum + (IF into THEN err ELSE 0) - (IF used THEN in.mockError ELSE 0),
         count |-> key.count + (IF into /\ ~ used THEN 1000 ELSE 0),
         mocks |-> key.mocks - (IF used THEN 1 ELSE 0),
         inc |-> [key.inc EXCEPT ![s] = @ + 1]]
  <2>1. TakesMock(in, key, s) <=> used
    BY <1>5 DEF TakesMock
  <2> QED
    BY <2>1 DEF KeyFor, NextOf
<1>9. PlanKey(in, more, n + 1) =
        [sum |-> in.errorSum + (e + (IF into THEN err ELSE 0))
                   - (r + (IF used THEN 1 ELSE 0)) * in.mockError,
         count |-> in.errorCount + 1000 * (c + (IF into THEN 1 ELSE 0) - (r + (IF used THEN 1 ELSE 0))),
         mocks |-> in.mocks - (r + (IF used THEN 1 ELSE 0)),
         inc |-> [key.inc EXCEPT ![s] = @ + 1]]
  BY <1>2, <1>3, <1>4, <1>7 DEF PlanKey
<1>10. in.errorSum + (e + (IF into THEN err ELSE 0)) - (r + (IF used THEN 1 ELSE 0)) * in.mockError
         = key.sum + (IF into THEN err ELSE 0) - (IF used THEN in.mockError ELSE 0)
  <2> DEFINE o == in.mockError
             p == r * o
             i == IF into THEN err ELSE 0
  <2>1. o \in Int /\ r \in Int /\ i \in Int /\ e \in Int /\ in.errorSum \in Int
    BY <1>1, <1>2, <1>4, <1>6
  <2>2. key.sum = in.errorSum + e - p
    BY <1>5
  <2> HIDE DEF o, r, e, i, key, used
  <2>3. (r + (IF used THEN 1 ELSE 0)) * o = p + (IF used THEN o ELSE 0)
    <3>1. CASE used
      <4>1. (r + 1) * o = r * o + o
        BY <2>1
      <4> QED
        BY <3>1, <4>1
    <3>2. CASE ~ used
      <4>1. (r + 0) * o = r * o
        BY <2>1
      <4> QED
        BY <2>1, <3>2, <4>1
    <3> QED
      BY <3>1, <3>2
  <2>4. p \in Int
    BY <2>1
  <2> HIDE DEF p
  <2>5. in.errorSum + (e + i) - (p + (IF used THEN o ELSE 0))
          = in.errorSum + e - p + i - (IF used THEN o ELSE 0)
    BY <2>1, <2>4
  <2> QED
    BY <2>2, <2>3, <2>5 DEF o, i
<1>11. in.errorCount + 1000 * (c + (IF into THEN 1 ELSE 0) - (r + (IF used THEN 1 ELSE 0)))
         = key.count + (IF into /\ ~ used THEN 1000 ELSE 0)
  <2>1. used => into
    OBVIOUS
  <2>2. key.count = in.errorCount + 1000 * (c - r)
    BY <1>5
  <2>3. c \in Int /\ r \in Int /\ in.errorCount \in Int
    BY <1>1, <1>3, <1>4
  <2> HIDE DEF used, into, c, r, key
  <2>4. CASE used
    BY <2>1, <2>2, <2>3, <2>4
  <2>5. CASE into /\ ~ used
    BY <2>2, <2>3, <2>5
  <2>6. CASE ~ into /\ ~ used
    BY <2>2, <2>3, <2>6
  <2> QED
    BY <2>4, <2>5, <2>6
<1>12. in.mocks - (r + (IF used THEN 1 ELSE 0)) = key.mocks - (IF used THEN 1 ELSE 0)
  <2>1. key.mocks = in.mocks - r
    BY <1>5
  <2> HIDE DEF used, r, key
  <2> QED
    BY <1>1, <1>4, <2>1
<1>13. PlanKey(in, more, n + 1) =
         [sum |-> key.sum + (IF into THEN err ELSE 0) - (IF used THEN in.mockError ELSE 0),
          count |-> key.count + (IF into /\ ~ used THEN 1000 ELSE 0),
          mocks |-> key.mocks - (IF used THEN 1 ELSE 0),
          inc |-> [key.inc EXCEPT ![s] = @ + 1]]
  <2> HIDE DEF e, c, r, err, s, into, key, used
  <2> QED
    BY <1>9, <1>10, <1>11, <1>12
<1> QED
  BY <1>8, <1>13

\* The price of the next request is that of the next position of its slot.
LEMMA PriceNext ==
  ASSUME NEW in \in Inputs, NEW n \in Nat, n + 1 <= Len(in.requests),
         NEW plan, NEW more, Alike(n, plan, more), Placed(in, n + 1, more)
  PROVE  PriceAt(in, more, n + 1)
           = CostFor(in, n + 1, PlanKey(in, plan, n), <<more[n + 1].slot, more[n + 1].flavour>>)
<1> DEFINE s == more[n + 1].slot
           d == in.requests[n + 1].flavours[more[n + 1].flavour].duration
<1>1. s \in Slots
  <2>1. n + 1 \in 1 .. n + 1 /\ n + 1 \in 1 .. Len(in.requests)
    BY InputTypes
  <2>2. s \in LegalOf(in, n + 1)
    BY <2>1 DEF Placed
  <2> QED
    BY <2>1, <2>2, LegalTypes
<1>2. Taken(more, n + 1, s) = Taken(plan, n, s) + 1 /\ Taken(plan, n, s) \in Nat
  BY TakenNext
<1>3. PlanKey(in, plan, n).inc[s] = Taken(plan, n, s)
  BY <1>1 DEF PlanKey
<1>4. in.baseline[s] \in Nat
  BY <1>1, InputTypes
<1>5. in.baseline[s] + Taken(more, n + 1, s) = in.baseline[s] + PlanKey(in, plan, n).inc[s] + 1
  BY <1>2, <1>3, <1>4
<1>6. PriceAt(in, more, n + 1) = Rate(s, in.baseline[s] + Taken(more, n + 1, s), d)
  BY DEF PriceAt
<1>7. CostFor(in, n + 1, PlanKey(in, plan, n), <<s, more[n + 1].flavour>>)
        = Rate(s, in.baseline[s] + PlanKey(in, plan, n).inc[s] + 1, d)
  BY DEF CostFor
<1> QED
  BY <1>5, <1>6, <1>7

\* Every price of a plan is a natural number, and depends on what was placed
\* before it only.
LEMMA PriceSame ==
  ASSUME NEW in \in Inputs, NEW n \in Nat, n <= Len(in.requests),
         NEW plan, NEW more, Alike(n, plan, more), Placed(in, n, plan),
         NEW i \in 1 .. n
  PROVE  PriceAt(in, plan, i) \in Nat /\ PriceAt(in, more, i) = PriceAt(in, plan, i)
<1>1. i \in Nat /\ i \in 1 .. Len(in.requests)
  BY InputTypes
<1>2. /\ plan[i].slot \in LegalOf(in, i) /\ plan[i].flavour \in DOMAIN in.requests[i].flavours
      /\ more[i].slot = plan[i].slot /\ more[i].flavour = plan[i].flavour
  BY DEF Placed, Alike
<1> DEFINE s == plan[i].slot
           d == in.requests[i].flavours[plan[i].flavour].duration
<1>3. s \in Slots /\ d \in Nat
  BY <1>1, <1>2, LegalTypes, FlavourTypes
<1>4. Taken(plan, i, s) \in Nat /\ Taken(more, i, s) = Taken(plan, i, s)
  <2>1. Alike(i, plan, more)
    BY DEF Alike
  <2> QED
    BY <1>1, <2>1, TakenNext
<1>5. in.baseline[s] \in Nat
  BY <1>3, InputTypes
<1>6. in.baseline[s] + Taken(plan, i, s) \in Nat
  BY <1>4, <1>5
<1>7. PriceAt(in, plan, i) = Rate(s, in.baseline[s] + Taken(plan, i, s), d)
      /\ PriceAt(in, more, i) = Rate(s, in.baseline[s] + Taken(more, i, s), d)
  BY <1>2 DEF PriceAt
<1> HIDE DEF s, d
<1> QED
  BY <1>3, <1>4, <1>6, <1>7, RateType

\* The bill of no request, and of the same plan.
LEMMA BillSame ==
  ASSUME NEW in \in Inputs, NEW n \in Nat, n <= Len(in.requests),
         NEW plan, NEW more, Alike(n, plan, more), Placed(in, n, plan)
  PROVE  /\ Bill(in, plan, n) \in Nat /\ Bill(in, more, n) = Bill(in, plan, n)
         /\ n = 0 => Bill(in, plan, n) = 0
<1> DEFINE f == Prices(in, plan, n)
           g == Prices(in, more, n)
<1>1. \A i \in 1 .. n : f[i] \in Nat /\ g[i] = f[i]
  BY PriceSame DEF Prices
<1>2. IsFiniteSet(1 .. n) /\ (n = 0 => 1 .. n = {})
  BY FS_Interval
<1>3. Bill(in, plan, n) = SumFunctionOnSet(f, 1 .. n) /\ Bill(in, more, n) = SumFunctionOnSet(g, 1 .. n)
  BY DEF Bill
<1> HIDE DEF f, g
<1>4. \A i \in 1 .. n : f[i] \in Int /\ g[i] = f[i]
  BY <1>1
<1> QED
  BY <1>1, <1>2, <1>3, <1>4, SumSame, SumNat, SumEmpty

\* One request more adds its price.
LEMMA BillNext ==
  ASSUME NEW in \in Inputs, NEW n \in Nat, n + 1 <= Len(in.requests),
         NEW plan, NEW more, Alike(n, plan, more), Placed(in, n + 1, more)
  PROVE  Bill(in, more, n + 1) = Bill(in, plan, n) + PriceAt(in, more, n + 1)
<1> DEFINE f == Prices(in, more, n + 1)
           g == Prices(in, plan, n)
<1>0. /\ n + 1 \in Nat /\ n \in Nat /\ n <= Len(in.requests) /\ 1 .. n + 1 = (1 .. n) \cup {n + 1}
      /\ n + 1 \notin 1 .. n /\ n + 1 \in 1 .. n + 1 /\ 1 .. n \subseteq 1 .. n + 1
  BY InputTypes
<1>1. Alike(n + 1, more, more) /\ Alike(n, more, plan) /\ Placed(in, n, more)
  BY <1>0 DEF Alike, Placed
<1>2. \A i \in 1 .. n + 1 : f[i] \in Nat
  BY <1>0, <1>1, PriceSame DEF Prices
<1>3. \A i \in 1 .. n : g[i] = f[i]
  <2> SUFFICES ASSUME NEW i \in 1 .. n PROVE PriceAt(in, plan, i) = PriceAt(in, more, i)
    BY <1>0 DEF Prices
  <2> QED
    BY <1>0, <1>1, PriceSame
<1>4. IsFiniteSet(1 .. n)
  BY FS_Interval
<1>5. f[n + 1] = PriceAt(in, more, n + 1)
  BY <1>0 DEF Prices
<1>6. Bill(in, more, n + 1) = SumFunctionOnSet(f, 1 .. n + 1) /\ Bill(in, plan, n) = SumFunctionOnSet(g, 1 .. n)
  BY DEF Bill
<1> HIDE DEF f, g
<1>7. SumFunctionOnSet(g, 1 .. n) = SumFunctionOnSet(f, 1 .. n)
  <2>1. \A i \in 1 .. n : f[i] \in Int /\ g[i] = f[i]
    BY <1>0, <1>2, <1>3
  <2> QED
    BY <1>4, <2>1, SumSame
<1>8. SumFunctionOnSet(f, (1 .. n) \cup {n + 1}) = SumFunctionOnSet(f, 1 .. n) + f[n + 1]
  <2>1. \A i \in (1 .. n) \cup {n + 1} : f[i] \in Int
    BY <1>0, <1>2
  <2> QED
    BY <1>0, <1>4, <2>1, SumAdd
<1> QED
  BY <1>0, <1>5, <1>6, <1>7, <1>8

\* Before the first request, a plan has the key of the history and costs nothing.
LEMMA EmptyPlan ==
  ASSUME NEW in \in Inputs, NEW plan
  PROVE  PlanKey(in, plan, 0) = StartKey(in) /\ Bill(in, plan, 0) = 0
<1>1. 1 .. 0 = {}
  OBVIOUS
<1>2. InsideOf(in, plan, 0) = {}
  BY <1>1 DEF InsideOf
<1>3. \A s \in Slots : Taken(plan, 0, s) = 0
  BY <1>1, FS_EmptySet DEF Taken
<1>4. in.mocks \in Nat /\ in.errorSum \in Nat /\ in.errorCount \in Nat /\ in.mockError \in Nat
  BY InputTypes
<1>5. Cardinality(InsideOf(in, plan, 0)) = 0
  BY <1>2, FS_EmptySet
<1>6. Replaced(in, plan, 0) = 0
  <2> DEFINE m == in.mocks
  <2>1. m \in Int /\ 0 <= m
    BY <1>4
  <2> HIDE DEF m
  <2>2. Min({0, m}) = 0
    BY <2>1, MinPair
  <2> QED
    BY <1>5, <2>2 DEF Replaced, m
<1>7. SumFunctionOnSet(Errors(in, plan, 0), InsideOf(in, plan, 0)) = 0
  BY <1>2, SumEmpty
<1>8. PlanKey(in, plan, 0) = [sum |-> in.errorSum + 0 - 0 * in.mockError,
                              count |-> in.errorCount + 1000 * (0 - 0),
                              mocks |-> in.mocks - 0,
                              inc |-> [s \in Slots |-> 0]]
  BY <1>3, <1>5, <1>6, <1>7 DEF PlanKey
<1>9. /\ in.errorSum + 0 - 0 * in.mockError = in.errorSum
      /\ in.errorCount + 1000 * (0 - 0) = in.errorCount /\ in.mocks - 0 = in.mocks
  BY <1>4
<1>10. PlanKey(in, plan, 0) = StartKey(in)
  BY <1>8, <1>9 DEF StartKey
<1>11. Bill(in, plan, 0) = 0
  BY <1>1, SumEmpty DEF Bill
<1> QED
  BY <1>10, <1>11

-----------------------------------------------------------------------------
(* Paths of the search.                                                      *)

\* A path places the first n requests, each at the price of its position.
Path(in, n, p) ==
  /\ p \in Seq(Placements) /\ Len(p) = n
  /\ Placed(in, n, p)
  /\ \A i \in 1 .. n : p[i].cost = PriceAt(in, p, i)

LEMMA CostType ==
  ASSUME NEW in \in Inputs, NEW i \in 1 .. Len(in.requests), NEW c \in ChoiceOf(in, i),
         NEW key \in DpStateKey
  PROVE  /\ CostFor(in, i, key, c) \in Nat
         /\ c[1] \in Slots /\ c[1] \in LegalOf(in, i)
         /\ c[2] \in Nat \ {0} /\ c[2] \in DOMAIN in.requests[i].flavours
         /\ c = <<c[1], c[2]>>
<1>1. c[1] \in LegalOf(in, i) /\ c[2] \in DOMAIN in.requests[i].flavours /\ c = <<c[1], c[2]>>
  BY DEF ChoiceOf
<1>2. c[1] \in Slots /\ c[2] \in Nat \ {0} /\ in.requests[i].flavours[c[2]].duration \in Nat
  BY <1>1, LegalTypes, FlavourTypes
<1>3. key.inc[c[1]] \in Nat /\ in.baseline[c[1]] \in Nat
  BY <1>2, InputTypes DEF DpStateKey
<1>4. in.baseline[c[1]] + key.inc[c[1]] + 1 \in Nat
  BY <1>3
<1>5. CostFor(in, i, key, c) \in Nat
  BY <1>2, <1>4, RateType DEF CostFor
<1> QED
  BY <1>1, <1>2, <1>5

\* q is p with a choice for the next request: its key and its bill follow.
Grown(in, n, p, c, key, q) ==
  /\ Path(in, n + 1, q)
  /\ PlanKey(in, q, n + 1) = KeyFor(in, n + 1, key, c)
  /\ Bill(in, q, n + 1) = Bill(in, p, n) + CostFor(in, n + 1, key, c)
  /\ Bill(in, p, n) \in Nat /\ CostFor(in, n + 1, key, c) \in Nat
  /\ key \in DpStateKey
  /\ Alike(n, p, q)

\* A path and a choice for the next request are a longer path.
LEMMA PathGrows ==
  ASSUME NEW in \in Inputs, NEW n \in Nat, n + 1 <= Len(in.requests),
         NEW p, Path(in, n, p), NEW c \in ChoiceOf(in, n + 1)
  PROVE  Grown(in, n, p, c, PlanKey(in, p, n), Append(p, PlaceFor(in, n + 1, PlanKey(in, p, n), c)))
<1> DEFINE key == PlanKey(in, p, n)
           q == Append(p, PlaceFor(in, n + 1, key, c))
<1>0. key = PlanKey(in, p, n) /\ q = Append(p, PlaceFor(in, n + 1, key, c))
  OBVIOUS
<1> HIDE DEF key, q
<1>1. n + 1 \in 1 .. Len(in.requests) /\ n <= Len(in.requests) /\ n + 1 \in Nat
  BY InputTypes
<1>2. p \in Seq(Placements) /\ Len(p) = n /\ Placed(in, n, p)
      /\ \A i \in 1 .. n : p[i].cost = PriceAt(in, p, i)
  BY DEF Path
<1>3. key \in DpStateKey
  BY <1>0, <1>1, <1>2, PlanKeyType
<1>4. /\ CostFor(in, n + 1, key, c) \in Nat
      /\ c[1] \in Slots /\ c[1] \in LegalOf(in, n + 1)
      /\ c[2] \in Nat \ {0} /\ c[2] \in DOMAIN in.requests[n + 1].flavours
      /\ c = <<c[1], c[2]>>
  BY <1>1, <1>3, CostType
<1> DEFINE a == PlaceFor(in, n + 1, key, c)
<1>5. a \in Placements /\ a.slot = c[1] /\ a.flavour = c[2] /\ a.cost = CostFor(in, n + 1, key, c)
  BY <1>4 DEF PlaceFor, Placements
<1> HIDE DEF a
<1>6. q = Append(p, a)
  BY <1>0 DEF a
<1>7. q \in Seq(Placements) /\ Len(q) = n + 1 /\ q[n + 1] = a /\ \A i \in 1 .. n : q[i] = p[i]
  BY <1>2, <1>5, <1>6, SeqAppend
<1>8. Alike(n, p, q) /\ \A i \in 1 .. n + 1 : i \in 1 .. n \/ i = n + 1
  BY <1>7 DEF Alike
<1>9. Placed(in, n + 1, q)
  BY <1>2, <1>4, <1>5, <1>7, <1>8 DEF Placed
<1>10. <<q[n + 1].slot, q[n + 1].flavour>> = c
  BY <1>4, <1>5, <1>7
<1>11. PlanKey(in, q, n + 1) = KeyFor(in, n + 1, key, c)
       /\ PriceAt(in, q, n + 1) = CostFor(in, n + 1, key, c)
  BY <1>0, <1>8, <1>9, <1>10, KeyNext, PriceNext
<1>12. Bill(in, q, n + 1) = Bill(in, p, n) + CostFor(in, n + 1, key, c)
  BY <1>8, <1>9, <1>11, BillNext
<1>13. Bill(in, p, n) \in Nat
  BY <1>1, <1>2, <1>8, BillSame
<1>14. \A i \in 1 .. n : PriceAt(in, q, i) = PriceAt(in, p, i)
  BY <1>1, <1>2, <1>8, PriceSame
<1>15. \A i \in 1 .. n + 1 : q[i].cost = PriceAt(in, q, i)
  BY <1>2, <1>5, <1>7, <1>8, <1>11, <1>14
<1>16. Path(in, n + 1, q)
  BY <1>7, <1>9, <1>15 DEF Path
<1> QED
  BY <1>3, <1>4, <1>8, <1>11, <1>12, <1>13, <1>16 DEF Grown, key, q

\* The empty path.
LEMMA PathEmpty ==
  ASSUME NEW in \in Inputs
  PROVE  Path(in, 0, << >>)
BY DEF Path, Placed

-----------------------------------------------------------------------------
(* The choices the passes make.                                              *)

\* The scan finds a cheapest choice among those it is given.
LEMMA CheapestIsChoice ==
  ASSUME input \in Inputs, NEW i \in 1 .. Len(input.requests), NEW key \in DpStateKey,
         NEW choices, choices \subseteq ChoiceOf(input, i), choices # {}
  PROVE  FirstCheapest(i, key, choices) \in choices
<1> DEFINE cost(c) == CostOf(i, key, c)
           le(c, d) == \/ cost(c) < cost(d)
                       \/ /\ cost(c) = cost(d)
                          /\ c[2] < d[2] \/ (c[2] = d[2] /\ c[1] <= d[1])
           R == {x \in choices \X choices : le(x[1], x[2])}
<1>1. \A c \in choices : cost(c) \in Nat /\ c[1] \in Int /\ c[2] \in Int
  <2> SUFFICES ASSUME NEW c \in choices PROVE cost(c) \in Nat /\ c[1] \in Int /\ c[2] \in Int
    OBVIOUS
  <2>1. CostFor(input, i, key, c) \in Nat /\ c[1] \in Slots /\ c[2] \in Nat
    BY CostType
  <2> QED
    BY <2>1, SameCost DEF Slots
<1>2. IsFiniteSet(choices)
  <2>1. IsFiniteSet(Slots)
    BY FS_Interval, SearchAssumption DEF Slots
  <2>2. IsFiniteSet(LegalOf(input, i)) /\ IsFiniteSet(DOMAIN input.requests[i].flavours)
    BY <2>1, FS_Subset, LegalTypes, FlavourTypes
  <2>3. IsFiniteSet(ChoiceOf(input, i))
    BY <2>2, FS_Product DEF ChoiceOf
  <2> QED
    BY <2>3, FS_Subset
<1> HIDE DEF cost
<1>3. \A c, d \in choices : <<c, d>> \in R <=> le(c, d)
  OBVIOUS
<1>4. \A c, d \in choices : le(c, d) \/ le(d, c)
  BY <1>1
<1>5. \A c, d, e \in choices : le(c, d) /\ le(d, e) => le(c, e)
  BY <1>1
<1> HIDE DEF R, le
<1>6. \E m \in choices : \A d \in choices : <<m, d>> \in R
  BY <1>2, <1>3, <1>4, <1>5, LeastExists
<1>7. \E m \in choices : \A d \in choices : le(m, d)
  BY <1>3, <1>6
<1>8. FirstCheapest(i, key, choices) = CHOOSE c \in choices : \A d \in choices : le(c, d)
  BY DEF FirstCheapest, le, cost
<1> QED
  BY <1>7, <1>8

\* The flavours of the last resort and of the fallback are the request's own.
LEMMA PassFlavours ==
  ASSUME input \in Inputs, NEW i \in 1 .. Len(input.requests)
  PROVE  /\ MinErrorFlavour(i) \in DOMAIN input.requests[i].flavours
         /\ FallbackFlavour(i) \in DOMAIN input.requests[i].flavours
<1> DEFINE fs == input.requests[i].flavours
           D == DOMAIN fs
           er == [f \in D |-> fs[f].error]
           du == [f \in D |-> fs[f].duration]
<1>1. D \subseteq Int /\ D # {} /\ IsFiniteSet(D) /\ \A f \in D : du[f] \in Int /\ er[f] \in Int
  BY FlavourTypes
<1>2. MinErrorFlavour(i) = CHOOSE f \in D : \A g \in D :
         er[f] < er[g] \/ (er[f] = er[g] /\ f <= g)
  BY DEF MinErrorFlavour
<1>3. FallbackFlavour(i) = CHOOSE f \in D : \A g \in D :
         du[f] > du[g] \/ (du[f] = du[g] /\ f >= g)
  BY DEF FallbackFlavour
<1> HIDE DEF D, er, du
<1>4. \E f \in D : \A g \in D : er[f] < er[g] \/ (er[f] = er[g] /\ f <= g)
  <2> DEFINE le(f, g) == er[f] < er[g] \/ (er[f] = er[g] /\ f <= g)
             R == {x \in D \X D : le(x[1], x[2])}
  <2>1. \A f, g \in D : <<f, g>> \in R <=> le(f, g)
    OBVIOUS
  <2>2. /\ \A f, g \in D : le(f, g) \/ le(g, f)
        /\ \A f, g, h \in D : le(f, g) /\ le(g, h) => le(f, h)
    BY <1>1
  <2> HIDE DEF R, le
  <2>3. \E f \in D : \A g \in D : <<f, g>> \in R
    BY <1>1, <2>1, <2>2, LeastExists
  <2>4. \E f \in D : \A g \in D : le(f, g)
    BY <2>1, <2>3
  <2> QED
    BY <2>4 DEF le
<1>5. \E f \in D : \A g \in D : du[f] > du[g] \/ (du[f] = du[g] /\ f >= g)
  <2> DEFINE le(f, g) == du[f] > du[g] \/ (du[f] = du[g] /\ f >= g)
             R == {x \in D \X D : le(x[1], x[2])}
  <2>1. \A f, g \in D : <<f, g>> \in R <=> le(f, g)
    OBVIOUS
  <2>2. /\ \A f, g \in D : le(f, g) \/ le(g, f)
        /\ \A f, g, h \in D : le(f, g) /\ le(g, h) => le(f, h)
    BY <1>1
  <2> HIDE DEF R, le
  <2>3. \E f \in D : \A g \in D : <<f, g>> \in R
    BY <1>1, <2>1, <2>2, LeastExists
  <2>4. \E f \in D : \A g \in D : le(f, g)
    BY <2>1, <2>3
  <2> QED
    BY <2>4 DEF le
<1> QED
  BY <1>2, <1>3, <1>4, <1>5 DEF D

\* A key stays a key.
LEMMA KeyType ==
  ASSUME NEW in \in Inputs, NEW i \in 1 .. Len(in.requests), NEW c \in ChoiceOf(in, i),
         NEW key \in DpStateKey
  PROVE  KeyFor(in, i, key, c) \in DpStateKey
<1> DEFINE s == c[1]
           err == in.requests[i].flavours[c[2]].error
           into == s \in WindowOf(in)
           used == TakesMock(in, key, s)
           o == in.mockError
           x == key.sum + (IF into THEN err ELSE 0) - (IF used THEN o ELSE 0)
           y == key.count + (IF into /\ ~ used THEN 1000 ELSE 0)
           z == key.mocks - (IF used THEN 1 ELSE 0)
           t == [key.inc EXCEPT ![s] = @ + 1]
<1>1. KeyFor(in, i, key, c) = [sum |-> x, count |-> y, mocks |-> z, inc |-> t]
  BY DEF KeyFor, NextOf
<1>2. key.sum \in Int /\ key.count \in Nat /\ key.mocks \in Nat /\ key.inc \in [Slots -> Nat]
  BY DEF DpStateKey
<1>3. s \in Slots /\ err \in Nat /\ o \in Nat
  BY CostType, FlavourTypes, InputTypes
<1>4. used => key.mocks > 0
  BY DEF TakesMock
<1> HIDE DEF s, err, into, used, o
<1>5. x \in Int /\ y \in Nat /\ z \in Nat /\ t \in [Slots -> Nat]
  BY <1>2, <1>3, <1>4
<1> HIDE DEF x, y, z, t
<1> QED
  BY <1>1, <1>5 DEF DpStateKey

\* The key of a prefix depends on that prefix only.
LEMMA KeySame ==
  ASSUME NEW in, NEW n \in Nat, NEW plan, NEW more, Alike(n, plan, more), NEW m \in 0 .. n
  PROVE  PlanKey(in, more, m) = PlanKey(in, plan, m)
<1>1. Alike(m, plan, more) /\ m \in Nat
  BY DEF Alike
<1>2. InsideOf(in, more, m) = InsideOf(in, plan, m) /\ InsideOf(in, plan, m) \subseteq 1 .. m
  BY <1>1, InsideNext
<1>3. Errors(in, more, m) = Errors(in, plan, m)
  BY <1>1, <1>2 DEF Errors, Alike
<1>4. \A s \in Slots : Taken(more, m, s) = Taken(plan, m, s)
  BY <1>1, TakenNext
<1>5. Replaced(in, more, m) = Replaced(in, plan, m)
  BY <1>2 DEF Replaced
<1> QED
  BY <1>2, <1>3, <1>4, <1>5 DEF PlanKey

-----------------------------------------------------------------------------
(* The sequential solution.                                                  *)

Upto(n) == [i \in 1 .. n |-> i]

LEMMA UptoSeq ==
  ASSUME NEW n \in Nat
  PROVE  /\ Upto(n) \in Seq(1 .. n) /\ Len(Upto(n)) = n /\ DOMAIN Upto(n) = 1 .. n
         /\ \A i \in 1 .. n : Upto(n)[i] = i
BY DEF Upto

SeqStates == [key : DpStateKey, keys : Seq(DpStateKey), path : Seq(Placements), cost : Nat]

SeqStart == [key |-> InitialKey, keys |-> <<InitialKey>>, path |-> << >>, cost |-> 0]

\* One request of compute_sequential_solution.
SeqNext(state, i) ==
  LET c == SequentialChoice(i, state.key)
      k == KeyAfter(i, state.key, c)
  IN [key |-> k, keys |-> Append(state.keys, k),
      path |-> Append(state.path, Place(i, state.key, c)),
      cost |-> state.cost + CostOf(i, state.key, c)]

SeqStep == [x \in SeqStates \X (1 .. Len(input.requests)) |-> SeqNext(x[1], x[2])]

LEMMA SequentialIsChoice ==
  ASSUME input \in Inputs, NEW i \in 1 .. Len(input.requests), LegalOf(input, i) # {},
         NEW key \in DpStateKey
  PROVE  SequentialChoice(i, key) \in ChoiceOf(input, i)
<1> DEFINE feasible == {c \in ChoiceOf(input, i) : KeepsWindow(i, key, c)}
           lastResort == {c \in ChoiceOf(input, i) : c[2] = MinErrorFlavour(i)}
           picked == IF feasible # {} THEN feasible ELSE lastResort
<1>1. lastResort # {}
  <2>1. PICK s \in LegalOf(input, i) : TRUE
    OBVIOUS
  <2>2. MinErrorFlavour(i) \in DOMAIN input.requests[i].flavours
    BY PassFlavours
  <2>3. <<s, MinErrorFlavour(i)>> \in lastResort
    BY <2>2 DEF ChoiceOf
  <2> QED
    BY <2>3
<1>2. picked \subseteq ChoiceOf(input, i) /\ picked # {}
  BY <1>1
<1>3. SequentialChoice(i, key) = FirstCheapest(i, key, picked)
  BY SameWindow DEF SequentialChoice
<1> HIDE DEF picked
<1>4. FirstCheapest(i, key, picked) \in picked
  BY <1>2, CheapestIsChoice
<1> QED
  BY <1>2, <1>3, <1>4

\* The key the history gives is a key.
LEMMA StartKeyType ==
  ASSUME NEW in \in Inputs
  PROVE  StartKey(in) \in DpStateKey
BY InputTypes DEF StartKey, DpStateKey

\* Each step takes a state of the pass to one.
LEMMA SeqNextType ==
  ASSUME input \in Inputs, NEW st \in SeqStates, NEW i \in 1 .. Len(input.requests),
         LegalOf(input, i) # {}
  PROVE  /\ SeqNext(st, i) \in SeqStates
         /\ \E c \in ChoiceOf(input, i) :
              SeqNext(st, i) =
                [key |-> KeyFor(input, i, st.key, c),
                 keys |-> Append(st.keys, KeyFor(input, i, st.key, c)),
                 path |-> Append(st.path, PlaceFor(input, i, st.key, c)),
                 cost |-> st.cost + CostFor(input, i, st.key, c)]
<1>1. st.key \in DpStateKey /\ st.keys \in Seq(DpStateKey) /\ st.path \in Seq(Placements) /\ st.cost \in Nat
  BY DEF SeqStates
<1> DEFINE c == SequentialChoice(i, st.key)
<1>2. c \in ChoiceOf(input, i)
  BY <1>1, SequentialIsChoice
<1> HIDE DEF c
<1>3. SeqNext(st, i) =
        [key |-> KeyFor(input, i, st.key, c),
         keys |-> Append(st.keys, KeyFor(input, i, st.key, c)),
         path |-> Append(st.path, PlaceFor(input, i, st.key, c)),
         cost |-> st.cost + CostFor(input, i, st.key, c)]
  BY SameCost, SameKey DEF SeqNext, c
<1> DEFINE k == KeyFor(input, i, st.key, c)
           a == PlaceFor(input, i, st.key, c)
           d == CostFor(input, i, st.key, c)
<1>4. k \in DpStateKey
  BY <1>1, <1>2, KeyType
<1>5. d \in Nat /\ a \in Placements
  <2>1. /\ d \in Nat /\ c[1] \in Slots /\ c[2] \in Nat \ {0}
    BY <1>1, <1>2, CostType
  <2> QED
    BY <2>1 DEF PlaceFor, Placements
<1> HIDE DEF k, a, d
<1>6. Append(st.keys, k) \in Seq(DpStateKey) /\ Append(st.path, a) \in Seq(Placements)
      /\ st.cost + d \in Nat
  BY <1>1, <1>4, <1>5
<1>7. [key |-> k, keys |-> Append(st.keys, k), path |-> Append(st.path, a), cost |-> st.cost + d]
        \in SeqStates
  BY <1>4, <1>6 DEF SeqStates
<1> QED
  BY <1>2, <1>3, <1>7 DEF k, a, d

LEMMA WarmFolds ==
  ASSUME input \in Inputs, \A i \in 1 .. Len(input.requests) : LegalOf(input, i) # {}
  PROVE  /\ Folding(SeqStep, SeqStates, 1 .. Len(input.requests), SeqStart, Upto(Len(input.requests)))
         /\ compute_sequential_solution = Left(SeqStep, SeqStart, Upto(Len(input.requests)))
<1> DEFINE F == SeqStep
           A == SeqStates
           z == SeqStart
           B == 1 .. Len(input.requests)
           s == Upto(Len(input.requests))
           op(x, y) == SeqNext(x, y)
           Rec(g) == g = [t \in SUBSET DOMAIN s |->
                            IF t = {} THEN z ELSE op(g[t \ {Max(t)}], s[Max(t)])]
           h == CHOOSE g : Rec(g)
<1>0. s \in Seq(B)
  BY UptoSeq, InputTypes
<1>1. Folding(F, A, B, z, s)
  <2>1. z \in A
    <3>1. InitialKey \in DpStateKey
      BY SameWindow, StartKeyType
    <3> QED
      BY <3>1 DEF SeqStart, SeqStates
  <2>2. \A x \in A, y \in B : op(x, y) \in A
    BY SeqNextType
  <2>3. F \in [A \X B -> A]
    BY <2>2 DEF SeqStep
  <2> QED
    BY <1>0, <2>1, <2>3 DEF Folding, Folder
<1>2. compute_sequential_solution = h[DOMAIN s]
  <2>1. [i \in DOMAIN input.requests |-> i] = s
    BY InputTypes DEF Upto
  <2>2. compute_sequential_solution = FoldLeft(SeqNext, SeqStart, [i \in DOMAIN input.requests |-> i])
    BY DEF compute_sequential_solution, SeqNext, SeqStart
  <2>3. FoldLeft(SeqNext, SeqStart, s) = h[DOMAIN s]
    BY DEF FoldLeft, MapThenFoldSet
  <2> QED
    BY <2>1, <2>2, <2>3
<1>3. \A x \in A, y \in B : F[<<x, y>>] = op(x, y)
  BY DEF SeqStep
<1> HIDE DEF A, B, z, F, op, s
<1>4. Rec(h)
  <2>1. PICK g : IndexFold(g, F, z, s) /\ \A t \in SUBSET DOMAIN s : g[t] \in A
    BY <1>1, IndexFoldExists
  <2>2. \A t \in SUBSET DOMAIN s :
          IndexStep(g, F, z, s, t) = IF t = {} THEN z ELSE op(g[t \ {Max(t)}], s[Max(t)])
    <3> SUFFICES ASSUME NEW t \in SUBSET DOMAIN s, t # {}
                 PROVE  F[<<g[t \ {Max(t)}], s[Max(t)]>>] = op(g[t \ {Max(t)}], s[Max(t)])
      BY DEF IndexStep
    <3>1. s[Max(t)] \in B
      BY <1>0, LastIndex
    <3>2. g[t \ {Max(t)}] \in A
      BY <2>1
    <3> QED
      BY <1>3, <3>1, <3>2
  <2>3. Rec(g)
    BY <2>1, <2>2 DEF IndexFold
  <2> QED
    BY <2>3
<1> HIDE DEF h
<1>5. h[{}] = z
  BY <1>4
<1>6. \A t \in SUBSET DOMAIN s : t # {} /\ h[t \ {Max(t)}] \in A =>
        h[t] = F[<<h[t \ {Max(t)}], s[Max(t)]>>]
  <2> SUFFICES ASSUME NEW t \in SUBSET DOMAIN s, t # {}, h[t \ {Max(t)}] \in A
               PROVE  h[t] = F[<<h[t \ {Max(t)}], s[Max(t)]>>]
    OBVIOUS
  <2>1. s[Max(t)] \in B
    BY <1>0, LastIndex
  <2>2. h[t] = op(h[t \ {Max(t)}], s[Max(t)])
    BY <1>4
  <2> QED
    BY <1>3, <2>1, <2>2
<1>7. Follows(h, F, A, z, s)
  BY <1>5, <1>6 DEF Follows
<1>8. h[DOMAIN s] = Left(F, z, s)
  BY <1>1, <1>7, IndexFoldValue
<1> QED
  BY <1>1, <1>2, <1>8 DEF F, A, B, z, s

\* A complete path with the keys of its prefixes.
WarmTo(in, n, w) ==
  /\ Path(in, n, w.path)
  /\ w.keys \in Seq(DpStateKey) /\ Len(w.keys) = n + 1
  /\ \A m \in 0 .. n : w.keys[m + 1] = PlanKey(in, w.path, m)

\* The state of the sequential pass after n requests.
SeqAt(in, n, st) ==
  /\ WarmTo(in, n, st)
  /\ st.key = PlanKey(in, st.path, n)

LEMMA SeqAtNext ==
  ASSUME NEW in \in Inputs, NEW n \in Nat, n + 1 <= Len(in.requests),
         NEW st \in SeqStates, SeqAt(in, n, st), NEW c \in ChoiceOf(in, n + 1),
         NEW new, new = [key |-> KeyFor(in, n + 1, st.key, c),
                         keys |-> Append(st.keys, KeyFor(in, n + 1, st.key, c)),
                         path |-> Append(st.path, PlaceFor(in, n + 1, st.key, c)),
                         cost |-> st.cost + CostFor(in, n + 1, st.key, c)]
  PROVE  SeqAt(in, n + 1, new)
<1> DEFINE p == st.path
           k == st.key
           q == Append(p, PlaceFor(in, n + 1, k, c))
           key == KeyFor(in, n + 1, k, c)
<1>1. /\ Path(in, n, p) /\ k = PlanKey(in, p, n)
      /\ st.keys \in Seq(DpStateKey) /\ Len(st.keys) = n + 1
      /\ \A m \in 0 .. n : st.keys[m + 1] = PlanKey(in, p, m)
  BY DEF SeqAt, WarmTo
<1>2. new.key = key /\ new.keys = Append(st.keys, key) /\ new.path = q
  OBVIOUS
<1> HIDE DEF p, k
<1>3. Path(in, n + 1, q) /\ PlanKey(in, q, n + 1) = key /\ k \in DpStateKey /\ Alike(n, p, q)
  <2>1. q = Append(p, PlaceFor(in, n + 1, k, c)) /\ key = KeyFor(in, n + 1, k, c)
    OBVIOUS
  <2> HIDE DEF q, key
  <2> QED
    <3>1. Grown(in, n, p, c, k, q)
      BY <1>1, <2>1, PathGrows
    <3> QED
      BY <2>1, <3>1 DEF Grown
<1>4. key \in DpStateKey
  <2>1. n + 1 \in 1 .. Len(in.requests)
    BY InputTypes
  <2> QED
    BY <1>3, <2>1, KeyType
<1> HIDE DEF q, key
<1>5. /\ Append(st.keys, key) \in Seq(DpStateKey) /\ Len(Append(st.keys, key)) = n + 2
      /\ \A m \in 1 .. n + 1 : Append(st.keys, key)[m] = st.keys[m]
      /\ Append(st.keys, key)[n + 2] = key
  <2>1. Len(st.keys) + 1 = n + 2
    BY <1>1
  <2> QED
    BY <1>1, <1>4, <2>1, SeqAppend
<1>6. ASSUME NEW m \in 0 .. n + 1 PROVE new.keys[m + 1] = PlanKey(in, q, m)
  <2>1. CASE m = n + 1
    <3>1. m + 1 = n + 2
      BY <2>1
    <3> QED
      BY <1>2, <1>3, <1>5, <2>1, <3>1
  <2>2. CASE m # n + 1
    <3>1. m \in 0 .. n /\ m + 1 \in 1 .. n + 1
      BY <2>2
    <3>2. new.keys[m + 1] = PlanKey(in, p, m)
      BY <1>1, <1>2, <1>5, <3>1
    <3> QED
      BY <1>3, <3>1, <3>2, KeySame
  <2> QED
    BY <2>1, <2>2
<1>7. WarmTo(in, n + 1, new)
  <2>1. (n + 1) + 1 = n + 2
    OBVIOUS
  <2> QED
    BY <1>2, <1>3, <1>5, <1>6, <2>1 DEF WarmTo
<1> QED
  BY <1>2, <1>3, <1>7 DEF SeqAt

\* The sequential solution is a complete path, and its keys are those of the
\* prefixes of that path.
LEMMA WarmSound ==
  ASSUME input \in Inputs, \A i \in 1 .. Len(input.requests) : LegalOf(input, i) # {}
  PROVE  WarmTo(input, Len(input.requests), compute_sequential_solution)
<1> DEFINE F == SeqStep
           A == SeqStates
           N == Len(input.requests)
           z == SeqStart
           s == Upto(N)
           P == PrefixFold(F, z, s)
<1>0. N \in Nat /\ Len(s) = N /\ \A i \in 1 .. N : s[i] = i
  BY UptoSeq, InputTypes
<1>1. Folding(F, A, 1 .. N, z, s) /\ compute_sequential_solution = Left(F, z, s)
  BY WarmFolds
<1>2. /\ P \in [0 .. N -> A] /\ P[0] = z
      /\ \A n \in 1 .. N : P[n] = F[<<P[n - 1], n>>]
  <2> HIDE DEF F, A, z, s, P
  <2>1. /\ P \in [0 .. Len(s) -> A] /\ P[0] = z
        /\ \A n \in 1 .. Len(s) : P[n] = F[<<P[n - 1], s[n]>>]
    BY <1>1, PrefixValues DEF P
  <2> QED
    BY <1>0, <2>1
<1>3. compute_sequential_solution = P[N]
  BY <1>0, <1>1 DEF Left
<1> HIDE DEF P
<1> DEFINE S == {n \in Nat : n <= N => SeqAt(input, n, P[n])}
<1>4. 0 \in S
  <2>1. PlanKey(input, << >>, 0) = InitialKey
    BY EmptyPlan, SameWindow
  <2>2. Path(input, 0, << >>)
    BY PathEmpty
  <2>3. InitialKey \in DpStateKey
    BY SameWindow, StartKeyType
  <2>4. <<InitialKey>> \in Seq(DpStateKey) /\ Len(<<InitialKey>>) = 0 + 1
        /\ \A m \in 0 .. 0 : <<InitialKey>>[m + 1] = InitialKey /\ m = 0
    BY <2>3
  <2>5. z.path = << >> /\ z.keys = <<InitialKey>> /\ z.key = InitialKey
    BY DEF SeqStart
  <2>6. SeqAt(input, 0, z)
    BY <2>1, <2>2, <2>4, <2>5 DEF SeqAt, WarmTo
  <2> QED
    BY <1>2, <2>6
<1>5. ASSUME NEW n \in Nat, n \in S PROVE n + 1 \in S
  <2> SUFFICES ASSUME n + 1 <= N PROVE SeqAt(input, n + 1, P[n + 1])
    OBVIOUS
  <2>1. n + 1 \in 1 .. N /\ (n + 1) - 1 = n /\ n \in 0 .. N
    BY <1>0
  <2>2. P[n] \in SeqStates /\ SeqAt(input, n, P[n])
    BY <1>2, <1>5, <2>1
  <2>3. P[n + 1] = SeqNext(P[n], n + 1)
    <3>1. P[n + 1] = F[<<P[n], n + 1>>]
      BY <1>2, <2>1
    <3> QED
      BY <2>1, <2>2, <3>1 DEF SeqStep
  <2>4. LegalOf(input, n + 1) # {}
    BY <2>1
  <2> DEFINE st == P[n]
  <2> HIDE DEF st
  <2>5. PICK c \in ChoiceOf(input, n + 1) :
           SeqNext(st, n + 1) =
                [key |-> KeyFor(input, n + 1, st.key, c),
                 keys |-> Append(st.keys, KeyFor(input, n + 1, st.key, c)),
                 path |-> Append(st.path, PlaceFor(input, n + 1, st.key, c)),
                 cost |-> st.cost + CostFor(input, n + 1, st.key, c)]
    BY <2>1, <2>2, <2>4, SeqNextType DEF st
  <2>6. SeqAt(input, n + 1, SeqNext(st, n + 1))
    BY <2>2, <2>5, SeqAtNext DEF st
  <2> QED
    BY <2>3, <2>6 DEF st
<1> HIDE DEF S
<1>6. N \in S
  BY <1>0, <1>4, <1>5, NatSetInduction
<1> QED
  BY <1>0, <1>3, <1>6 DEF S, SeqAt

-----------------------------------------------------------------------------
(* The greedy fallback.                                                      *)

GreedyStates == [key : DpStateKey, path : Seq(Placements)]

GreedyStart == [key |-> InitialKey, path |-> << >>]

\* One request of greedy_fallback.
GreedyNext(state, i) ==
  LET choices == {c \in Choice(i) : c[2] = FallbackFlavour(i)}
      c == FirstCheapest(i, state.key, choices)
  IN IF choices = {} THEN state
     ELSE [key |-> KeyAfter(i, state.key, c),
           path |-> Append(state.path, Place(i, state.key, c))]

GreedyStep == [x \in GreedyStates \X (1 .. PendingCount) |-> GreedyNext(x[1], x[2])]

LEMMA PendingType ==
  ASSUME input \in Inputs
  PROVE  /\ PendingCount \in Nat /\ PendingCount <= Len(input.requests)
         /\ 1 .. PendingCount \subseteq 1 .. Len(input.requests)
<1> DEFINE a == Len(input.requests)
           b == Len(input.held)
<1>1. a \in Nat /\ b \in Nat /\ b <= a
  BY InputTypes
<1> HIDE DEF a, b
<1>2. a - b \in Nat /\ a - b <= a /\ \A i \in 1 .. (a - b) : i \in 1 .. a
  BY <1>1
<1> QED
  BY <1>2 DEF PendingCount, a, b

\* A request that can be placed is; one without a slot changes nothing.
LEMMA GreedyNextType ==
  ASSUME input \in Inputs, NEW st \in GreedyStates, NEW i \in 1 .. Len(input.requests)
  PROVE  /\ GreedyNext(st, i) \in GreedyStates
         /\ LegalOf(input, i) = {} => GreedyNext(st, i) = st
         /\ LegalOf(input, i) # {} =>
              \E c \in ChoiceOf(input, i) :
                GreedyNext(st, i) =
                  [key |-> KeyFor(input, i, st.key, c),
                   path |-> Append(st.path, PlaceFor(input, i, st.key, c))]
<1>1. st.key \in DpStateKey /\ st.path \in Seq(Placements)
  BY DEF GreedyStates
<1> DEFINE choices == {c \in ChoiceOf(input, i) : c[2] = FallbackFlavour(i)}
           c == FirstCheapest(i, st.key, choices)
<1>2. GreedyNext(st, i) = IF choices = {} THEN st
        ELSE [key |-> KeyFor(input, i, st.key, c),
              path |-> Append(st.path, PlaceFor(input, i, st.key, c))]
  BY SameWindow, SameCost, SameKey DEF GreedyNext
<1>3. choices = {} <=> LegalOf(input, i) = {}
  <2>1. ASSUME NEW s \in LegalOf(input, i) PROVE choices # {}
    <3>1. FallbackFlavour(i) \in DOMAIN input.requests[i].flavours
      BY PassFlavours
    <3>2. <<s, FallbackFlavour(i)>> \in choices
      BY <3>1 DEF ChoiceOf
    <3> QED
      BY <3>2
  <2>2. LegalOf(input, i) = {} => choices = {}
    BY DEF ChoiceOf
  <2> QED
    BY <2>1, <2>2
<1>4. choices \subseteq ChoiceOf(input, i)
  OBVIOUS
<1>5. choices # {} => c \in ChoiceOf(input, i)
  <2> HIDE DEF choices
  <2> QED
    BY <1>1, <1>4, CheapestIsChoice
<1> HIDE DEF choices, c
<1>6. ASSUME choices # {}
      PROVE  [key |-> KeyFor(input, i, st.key, c),
              path |-> Append(st.path, PlaceFor(input, i, st.key, c))] \in GreedyStates
  <2> DEFINE k == KeyFor(input, i, st.key, c)
             a == PlaceFor(input, i, st.key, c)
  <2>1. k \in DpStateKey
    BY <1>1, <1>5, <1>6, KeyType
  <2>2. a \in Placements
    <3>1. /\ CostFor(input, i, st.key, c) \in Nat /\ c[1] \in Slots /\ c[2] \in Nat \ {0}
      BY <1>1, <1>5, <1>6, CostType
    <3> QED
      BY <3>1 DEF PlaceFor, Placements
  <2> HIDE DEF k, a
  <2>3. Append(st.path, a) \in Seq(Placements)
    BY <1>1, <2>2
  <2> QED
    BY <2>1, <2>3 DEF GreedyStates, k, a
<1> QED
  BY <1>2, <1>3, <1>5, <1>6

LEMMA GreedyFolds ==
  ASSUME input \in Inputs
  PROVE  /\ Folding(GreedyStep, GreedyStates, 1 .. PendingCount, GreedyStart, Upto(PendingCount))
         /\ greedy_fallback = Left(GreedyStep, GreedyStart, Upto(PendingCount)).path
<1> DEFINE F == GreedyStep
           A == GreedyStates
           z == GreedyStart
           B == 1 .. PendingCount
           s == Upto(PendingCount)
           op(x, y) == GreedyNext(x, y)
           Rec(g) == g = [t \in SUBSET DOMAIN s |->
                            IF t = {} THEN z ELSE op(g[t \ {Max(t)}], s[Max(t)])]
           h == CHOOSE g : Rec(g)
<1>0. s \in Seq(B)
  BY UptoSeq, PendingType
<1>1. Folding(F, A, B, z, s)
  <2>1. z \in A
    <3>1. InitialKey \in DpStateKey
      BY SameWindow, StartKeyType
    <3> QED
      BY <3>1 DEF GreedyStart, GreedyStates
  <2>2. \A x \in A, y \in B : op(x, y) \in A
    BY GreedyNextType, PendingType
  <2>3. F \in [A \X B -> A]
    BY <2>2 DEF GreedyStep
  <2> QED
    BY <1>0, <2>1, <2>3 DEF Folding, Folder
<1>2. greedy_fallback = h[DOMAIN s].path
  <2>1. greedy_fallback = FoldLeft(GreedyNext, GreedyStart, s).path
    BY DEF greedy_fallback, GreedyNext, GreedyStart, Upto
  <2>2. FoldLeft(GreedyNext, GreedyStart, s) = h[DOMAIN s]
    BY DEF FoldLeft, MapThenFoldSet
  <2> QED
    BY <2>1, <2>2
<1>3. \A x \in A, y \in B : F[<<x, y>>] = op(x, y)
  BY DEF GreedyStep
<1> HIDE DEF A, B, z, F, op, s
<1>4. Rec(h)
  <2>1. PICK g : IndexFold(g, F, z, s) /\ \A t \in SUBSET DOMAIN s : g[t] \in A
    BY <1>1, IndexFoldExists
  <2>2. \A t \in SUBSET DOMAIN s :
          IndexStep(g, F, z, s, t) = IF t = {} THEN z ELSE op(g[t \ {Max(t)}], s[Max(t)])
    <3> SUFFICES ASSUME NEW t \in SUBSET DOMAIN s, t # {}
                 PROVE  F[<<g[t \ {Max(t)}], s[Max(t)]>>] = op(g[t \ {Max(t)}], s[Max(t)])
      BY DEF IndexStep
    <3>1. s[Max(t)] \in B
      BY <1>0, LastIndex
    <3>2. g[t \ {Max(t)}] \in A
      BY <2>1
    <3> QED
      BY <1>3, <3>1, <3>2
  <2>3. Rec(g)
    BY <2>1, <2>2 DEF IndexFold
  <2> QED
    BY <2>3
<1> HIDE DEF h
<1>5. h[{}] = z
  BY <1>4
<1>6. \A t \in SUBSET DOMAIN s : t # {} /\ h[t \ {Max(t)}] \in A =>
        h[t] = F[<<h[t \ {Max(t)}], s[Max(t)]>>]
  <2> SUFFICES ASSUME NEW t \in SUBSET DOMAIN s, t # {}, h[t \ {Max(t)}] \in A
               PROVE  h[t] = F[<<h[t \ {Max(t)}], s[Max(t)]>>]
    OBVIOUS
  <2>1. s[Max(t)] \in B
    BY <1>0, LastIndex
  <2>2. h[t] = op(h[t \ {Max(t)}], s[Max(t)])
    BY <1>4
  <2> QED
    BY <1>3, <2>1, <2>2
<1>7. Follows(h, F, A, z, s)
  BY <1>5, <1>6 DEF Follows
<1>8. h[DOMAIN s] = Left(F, z, s)
  BY <1>1, <1>7, IndexFoldValue
<1> QED
  BY <1>1, <1>2, <1>8 DEF F, A, B, z, s

\* The state of the fallback after n requests: a path for all of them, or one
\* of them has no slot.
GreedyAt(in, n, st) ==
  \/ Path(in, n, st.path) /\ st.key = PlanKey(in, st.path, n)
  \/ Len(st.path) < n /\ \E i \in 1 .. n : LegalOf(in, i) = {}

LEMMA GreedyAtNext ==
  ASSUME input \in Inputs, NEW n \in Nat, n + 1 <= Len(input.requests),
         NEW st \in GreedyStates, GreedyAt(input, n, st)
  PROVE  GreedyAt(input, n + 1, GreedyNext(st, n + 1))
<1> DEFINE p == st.path
           k == st.key
<1>1. n + 1 \in 1 .. Len(input.requests) /\ n + 1 \in 1 .. n + 1 /\ 1 .. n \subseteq 1 .. n + 1
  BY InputTypes
<1>2. p \in Seq(Placements) /\ Len(p) \in Nat
  BY DEF GreedyStates
<1>3. CASE LegalOf(input, n + 1) = {}
  <2>1. GreedyNext(st, n + 1) = st
    BY <1>1, <1>3, GreedyNextType
  <2>2. Len(p) < n + 1
    BY <1>2 DEF GreedyAt, Path
  <2> QED
    BY <1>1, <1>3, <2>1, <2>2 DEF GreedyAt
<1>4. CASE LegalOf(input, n + 1) # {}
  <2>1. PICK c \in ChoiceOf(input, n + 1) :
           GreedyNext(st, n + 1) = [key |-> KeyFor(input, n + 1, k, c),
                                    path |-> Append(p, PlaceFor(input, n + 1, k, c))]
    BY <1>1, <1>4, GreedyNextType
  <2> DEFINE q == Append(p, PlaceFor(input, n + 1, k, c))
             key == KeyFor(input, n + 1, k, c)
             new == GreedyNext(st, n + 1)
  <2>2. new.key = key /\ new.path = q /\ q = Append(p, PlaceFor(input, n + 1, k, c))
        /\ key = KeyFor(input, n + 1, k, c)
    BY <2>1
  <2> HIDE DEF p, k, q, key, new
  <2>3. CASE Path(input, n, p) /\ k = PlanKey(input, p, n)
    <3>1. Path(input, n + 1, q) /\ PlanKey(input, q, n + 1) = key
      <4>1. Grown(input, n, p, c, k, q)
        BY <2>2, <2>3, PathGrows
      <4> QED
        BY <2>2, <4>1 DEF Grown
    <3> QED
      BY <2>2, <3>1 DEF GreedyAt, new
  <2>4. CASE Len(p) < n /\ \E i \in 1 .. n : LegalOf(input, i) = {}
    <3>1. Len(q) = Len(p) + 1
      BY <1>2, <2>2
    <3>2. Len(q) < n + 1
      BY <1>2, <2>4, <3>1
    <3> QED
      BY <1>1, <2>2, <2>4, <3>2 DEF GreedyAt, new
  <2> QED
    BY <2>3, <2>4 DEF GreedyAt, p, k
<1> QED
  BY <1>3, <1>4

\* The fallback places every pending request, or one of them has no slot and
\* it places fewer.
LEMMA GreedySound ==
  ASSUME input \in Inputs
  PROVE  /\ Len(greedy_fallback) = PendingCount => Path(input, PendingCount, greedy_fallback)
         /\ Len(greedy_fallback) # PendingCount =>
              \E i \in 1 .. PendingCount : LegalOf(input, i) = {}
<1> DEFINE F == GreedyStep
           A == GreedyStates
           N == PendingCount
           z == GreedyStart
           s == Upto(N)
           P == PrefixFold(F, z, s)
<1>0. N \in Nat /\ Len(s) = N /\ (\A i \in 1 .. N : s[i] = i) /\ N <= Len(input.requests)
      /\ Len(input.requests) \in Nat
  BY UptoSeq, PendingType, InputTypes
<1>1. Folding(F, A, 1 .. N, z, s) /\ greedy_fallback = Left(F, z, s).path
  BY GreedyFolds
<1>2. /\ P \in [0 .. N -> A] /\ P[0] = z
      /\ \A n \in 1 .. N : P[n] = F[<<P[n - 1], n>>]
  <2> HIDE DEF F, A, z, s, P
  <2>1. /\ P \in [0 .. Len(s) -> A] /\ P[0] = z
        /\ \A n \in 1 .. Len(s) : P[n] = F[<<P[n - 1], s[n]>>]
    BY <1>1, PrefixValues DEF P
  <2> QED
    BY <1>0, <2>1
<1>3. greedy_fallback = P[N].path
  BY <1>0, <1>1 DEF Left
<1> HIDE DEF P
<1> DEFINE S == {n \in Nat : n <= N => GreedyAt(input, n, P[n])}
<1>4. 0 \in S
  <2>1. PlanKey(input, << >>, 0) = InitialKey /\ Path(input, 0, << >>)
    BY EmptyPlan, SameWindow, PathEmpty
  <2>2. z.path = << >> /\ z.key = InitialKey
    BY DEF GreedyStart
  <2>3. GreedyAt(input, 0, z)
    BY <2>1, <2>2 DEF GreedyAt
  <2> QED
    BY <1>2, <2>3
<1>5. ASSUME NEW n \in Nat, n \in S PROVE n + 1 \in S
  <2> SUFFICES ASSUME n + 1 <= N PROVE GreedyAt(input, n + 1, P[n + 1])
    OBVIOUS
  <2>1. n + 1 \in 1 .. N /\ (n + 1) - 1 = n /\ n \in 0 .. N /\ n + 1 <= Len(input.requests)
    BY <1>0
  <2>2. P[n] \in GreedyStates /\ GreedyAt(input, n, P[n])
    BY <1>2, <1>5, <2>1
  <2>3. P[n + 1] = GreedyNext(P[n], n + 1)
    <3>1. P[n + 1] = F[<<P[n], n + 1>>]
      BY <1>2, <2>1
    <3> QED
      BY <2>1, <2>2, <3>1 DEF GreedyStep
  <2> QED
    BY <2>1, <2>2, <2>3, GreedyAtNext
<1> HIDE DEF S
<1>6. N \in S
  BY <1>0, <1>4, <1>5, NatSetInduction
<1>7. GreedyAt(input, N, P[N])
  BY <1>0, <1>6 DEF S
<1>8. P[N].path \in Seq(Placements) /\ Len(P[N].path) \in Nat
  <2>1. N \in 0 .. N
    BY <1>0
  <2>2. P[N] \in GreedyStates
    BY <1>2, <2>1
  <2> DEFINE st == P[N]
  <2> HIDE DEF st
  <2>3. st.path \in Seq(Placements)
    BY <2>2 DEF GreedyStates, st
  <2> QED
    BY <2>3, SeqElement DEF st
<1> HIDE DEF N
<1>9. ASSUME Path(input, N, P[N].path) PROVE Len(P[N].path) = N
  BY <1>9 DEF Path
<1> QED
  BY <1>3, <1>7, <1>8, <1>9 DEF GreedyAt, N

-----------------------------------------------------------------------------
(* One layer of the search.                                                  *)

\* The search has work: requests, a horizon, and a slot for each of them.
Open(in) ==
  /\ in.requests # << >> /\ in.currentSlot < TotalSlots
  /\ \A i \in 1 .. Len(in.requests) : LegalOf(in, i) # {}

LEMMA OpenMeans ==
  ASSUME input \in Inputs
  PROVE  NothingToSearch <=> ~ Open(input)
<1>1. ASSUME NEW i \in 1 .. Len(input.requests)
      PROVE  Earliest(i) > Deadline(i) <=> LegalOf(input, i) = {}
  <2>1. Earliest(i) = FirstOf(input, i) /\ Deadline(i) = LastOf(input, i)
    BY DEF FirstOf, LastOf, Earliest, Deadline, AssignmentCap, WindowEnd, CapOf
  <2> DEFINE a == FirstOf(input, i)
             b == LastOf(input, i)
  <2>2. a \in Int /\ b \in Int
    BY LegalTypes
  <2> HIDE DEF a, b
  <2>3. a > b <=> a .. b = {}
    BY <2>2
  <2> QED
    BY <2>1, <2>3 DEF LegalOf, a, b
<1>2. input.currentSlot \in Nat /\ TotalSlots \in Nat /\ DOMAIN input.requests = 1 .. Len(input.requests)
  BY InputTypes, SearchAssumption
<1>3. input.currentSlot >= TotalSlots <=> ~ (input.currentSlot < TotalSlots)
  BY <1>2
<1> QED
  BY <1>1, <1>2, <1>3 DEF NothingToSearch, Open

\* A set of naturals has a least member.
LEMMA MinNat ==
  ASSUME NEW S, S \subseteq Nat, S # {}
  PROVE  Min(S) \in S /\ Min(S) \in Nat /\ \A y \in S : Min(S) <= y
<1>1. \E m \in S : \A y \in S : m <= y
  BY LeastNatural
<1> QED
  BY <1>1 DEF Min

\* A state's paths are paths of the layer with its key and its cost.
Good(in, n, st) ==
  /\ st.key \in DpStateKey /\ st.cost \in Nat /\ st.paths # {}
  /\ \A p \in st.paths : /\ Path(in, n, p)
                         /\ PlanKey(in, p, n) = st.key /\ Bill(in, p, n) = st.cost

AllGood(in, n, states) == \A st \in states : Good(in, n, st)

\* One state for each key.
KeysApart(states) == \A x, y \in states : x.key = y.key => x = y

\* Some state has the key of the plan, at no more than its cost.
Bounded(in, n, plan, states) ==
  \E st \in states : st.key = PlanKey(in, plan, n) /\ st.cost <= Bill(in, plan, n)

\* What Cheapest makes of the states with key k.
Merged(states, k) ==
  LET same == {st \in states : st.key = k}
      least == Min({st.cost : st \in same})
  IN [key |-> k, cost |-> least,
      paths |-> UNION {st.paths : st \in {x \in same : x.cost = least}}]

\* Merging keeps, for each key, the least cost and paths of that cost.
LEMMA MergeKeeps ==
  ASSUME NEW in, NEW n, NEW states, AllGood(in, n, states)
  PROVE  /\ AllGood(in, n, Cheapest(states)) /\ KeysApart(Cheapest(states))
         /\ \A st \in states : \E kept \in Cheapest(states) :
              kept.key = st.key /\ kept.cost <= st.cost
<1>1. Cheapest(states) = {Merged(states, k) : k \in {st.key : st \in states}}
  BY DEF Cheapest, Merged
<1>2. ASSUME NEW s \in states
      PROVE  /\ Good(in, n, Merged(states, s.key)) /\ Merged(states, s.key).key = s.key
             /\ Merged(states, s.key).cost <= s.cost
  <2> DEFINE k == s.key
             same == {st \in states : st.key = k}
             costs == {st.cost : st \in same}
             least == Min(costs)
             first == {x \in same : x.cost = least}
             paths == UNION {st.paths : st \in first}
  <2>1. s \in same
    OBVIOUS
  <2>2. \A st \in same : /\ st \in states /\ st.key = k /\ st.cost \in Nat /\ st.paths # {} /\ k \in DpStateKey
                         /\ \A p \in st.paths : /\ Path(in, n, p)
                                                /\ PlanKey(in, p, n) = k /\ Bill(in, p, n) = st.cost
    BY DEF AllGood, Good
  <2>3. Merged(states, k) = [key |-> k, cost |-> least, paths |-> paths]
    BY DEF Merged
  <2> HIDE DEF k, same
  <2>4. costs \subseteq Nat /\ s.cost \in costs
    BY <2>1, <2>2
  <2>5. least \in costs /\ least \in Nat /\ least <= s.cost
    <3> HIDE DEF costs
    <3> QED
      BY <2>4, MinNat
  <2>6. PICK f \in same : f.cost = least
    BY <2>5
  <2> HIDE DEF costs, least
  <2>7. f \in first /\ f.paths # {}
    BY <2>2, <2>6
  <2>8. paths # {}
    BY <2>7
  <2>9. \A p \in paths : Path(in, n, p) /\ PlanKey(in, p, n) = k /\ Bill(in, p, n) = least
    BY <2>2
  <2>10. k \in DpStateKey
    BY <2>1, <2>2
  <2> HIDE DEF paths
  <2>11. Good(in, n, [key |-> k, cost |-> least, paths |-> paths])
    BY <2>5, <2>8, <2>9, <2>10 DEF Good
  <2> QED
    BY <2>3, <2>5, <2>11 DEF k
<1>3. AllGood(in, n, Cheapest(states))
  BY <1>1, <1>2 DEF AllGood
<1>4. KeysApart(Cheapest(states))
  <2> SUFFICES ASSUME NEW x \in Cheapest(states), NEW y \in Cheapest(states), x.key = y.key
               PROVE  x = y
    BY DEF KeysApart
  <2>1. PICK s \in states : x = Merged(states, s.key)
    BY <1>1
  <2>2. PICK t \in states : y = Merged(states, t.key)
    BY <1>1
  <2>3. s.key = t.key
    BY <1>2, <2>1, <2>2
  <2> QED
    BY <2>1, <2>2, <2>3
<1>5. ASSUME NEW s \in states
      PROVE  \E kept \in Cheapest(states) : kept.key = s.key /\ kept.cost <= s.cost
  <2>1. Merged(states, s.key) \in Cheapest(states)
    BY <1>1
  <2> QED
    BY <1>2, <2>1
<1> QED
  BY <1>3, <1>4, <1>5

\* What choice c makes of a state.
Succ(in, n, st, c) ==
  [key |-> KeyFor(in, n + 1, st.key, c), cost |-> st.cost + CostFor(in, n + 1, st.key, c),
   paths |-> {Append(p, PlaceFor(in, n + 1, st.key, c)) : p \in st.paths}]

LEMMA SuccGood ==
  ASSUME NEW in \in Inputs, NEW n \in Nat, n + 1 <= Len(in.requests),
         NEW st, Good(in, n, st), NEW c \in ChoiceOf(in, n + 1)
  PROVE  Good(in, n + 1, Succ(in, n, st, c))
<1> DEFINE key == st.key
           new == KeyFor(in, n + 1, key, c)
           cost == CostFor(in, n + 1, key, c)
           paths == {Append(p, PlaceFor(in, n + 1, key, c)) : p \in st.paths}
<1>1. /\ key \in DpStateKey /\ st.cost \in Nat /\ st.paths # {}
      /\ \A p \in st.paths : /\ Path(in, n, p)
                             /\ PlanKey(in, p, n) = key /\ Bill(in, p, n) = st.cost
  BY DEF Good
<1> HIDE DEF key
<1>2. ASSUME NEW p \in st.paths
      PROVE  Grown(in, n, p, c, key, Append(p, PlaceFor(in, n + 1, key, c)))
  BY <1>1, PathGrows
<1>3. paths # {}
  BY <1>1
<1>4. PICK p \in st.paths : TRUE
  BY <1>1
<1>5. cost \in Nat
  BY <1>2, <1>4 DEF Grown
<1>6. new \in DpStateKey
  <2>1. n + 1 \in 1 .. Len(in.requests)
    BY InputTypes
  <2> QED
    BY <1>1, <2>1, KeyType
<1>7. \A q \in paths : Path(in, n + 1, q) /\ PlanKey(in, q, n + 1) = new
                       /\ Bill(in, q, n + 1) = st.cost + cost
  <2> SUFFICES ASSUME NEW q \in paths
               PROVE  Path(in, n + 1, q) /\ PlanKey(in, q, n + 1) = new
                      /\ Bill(in, q, n + 1) = st.cost + cost
    OBVIOUS
  <2>1. PICK r \in st.paths : q = Append(r, PlaceFor(in, n + 1, key, c))
    OBVIOUS
  <2>2. Grown(in, n, r, c, key, q)
    BY <1>2, <2>1
  <2> QED
    BY <1>1, <2>2 DEF Grown
<1> HIDE DEF new, cost, paths
<1>8. st.cost + cost \in Nat
  BY <1>1, <1>5
<1>9. Good(in, n + 1, [key |-> new, cost |-> st.cost + cost, paths |-> paths])
  BY <1>3, <1>6, <1>7, <1>8 DEF Good
<1> QED
  BY <1>9 DEF Succ, new, cost, paths, key

\* Expanding a layer keeps its states good, and within the bill of every plan
\* whose prefix they were within.
LEMMA ExpandKeeps ==
  ASSUME input \in Inputs, NEW n \in Nat, n + 1 <= Len(input.requests), AllGood(input, n, dp)
  PROVE  /\ AllGood(input, n + 1, Cheapest(Transitions(n + 1)))
         /\ KeysApart(Cheapest(Transitions(n + 1)))
         /\ \A plan : Placed(input, n + 1, plan) /\ Bounded(input, n, plan, dp) =>
              Bounded(input, n + 1, plan, Cheapest(Transitions(n + 1)))
<1> DEFINE new == Transitions(n + 1)
<1>1. \A x : x \in new <=> \E st \in dp, c \in ChoiceOf(input, n + 1) : x = Succ(input, n, st, c)
  BY SameWindow, SameCost, SameKey DEF Transitions, Succ
<1> HIDE DEF new
<1>2. AllGood(input, n + 1, new)
  BY <1>1, SuccGood DEF AllGood
<1>3. /\ AllGood(input, n + 1, Cheapest(new)) /\ KeysApart(Cheapest(new))
      /\ \A st \in new : \E kept \in Cheapest(new) : kept.key = st.key /\ kept.cost <= st.cost
  BY <1>2, MergeKeeps
<1>4. ASSUME NEW plan, Placed(input, n + 1, plan), Bounded(input, n, plan, dp)
      PROVE  Bounded(input, n + 1, plan, Cheapest(new))
  <2> DEFINE c == <<plan[n + 1].slot, plan[n + 1].flavour>>
             key == PlanKey(input, plan, n)
  <2>1. PICK st \in dp : st.key = key /\ st.cost <= Bill(input, plan, n)
    BY <1>4 DEF Bounded
  <2>2. c \in ChoiceOf(input, n + 1)
    <3>1. n + 1 \in 1 .. n + 1
      OBVIOUS
    <3> QED
      BY <1>4, <3>1 DEF Placed, ChoiceOf
  <2>3. Alike(n, plan, plan)
    BY DEF Alike
  <2>4. PlanKey(input, plan, n + 1) = KeyFor(input, n + 1, key, c)
        /\ PriceAt(input, plan, n + 1) = CostFor(input, n + 1, key, c)
        /\ Bill(input, plan, n + 1) = Bill(input, plan, n) + PriceAt(input, plan, n + 1)
    BY <1>4, <2>3, KeyNext, PriceNext, BillNext
  <2>5. Good(input, n, st) /\ st.key \in DpStateKey /\ st.cost \in Nat
    BY DEF AllGood, Good
  <2>6. Bill(input, plan, n) \in Nat
    <3>1. n <= Len(input.requests) /\ Placed(input, n, plan)
      BY <1>4, InputTypes DEF Placed
    <3> QED
      BY <2>3, <3>1, BillSame
  <2>7. CostFor(input, n + 1, key, c) \in Nat
    <3>1. n + 1 \in 1 .. Len(input.requests)
      BY InputTypes
    <3> QED
      BY <2>1, <2>2, <2>5, <3>1, CostType
  <2> DEFINE x == Succ(input, n, st, c)
             a == CostFor(input, n + 1, key, c)
  <2>8. x \in new
    BY <1>1, <2>2
  <2>9. x.key = PlanKey(input, plan, n + 1) /\ x.cost = st.cost + a
    BY <2>1, <2>4 DEF Succ
  <2>10. PICK kept \in Cheapest(new) : kept.key = x.key /\ kept.cost <= x.cost
    BY <1>3, <2>8
  <2>11. kept.cost \in Nat
    BY <1>3 DEF AllGood, Good
  <2> HIDE DEF x, a, c, key
  <2>12. kept.cost <= Bill(input, plan, n) + a
    BY <2>1, <2>5, <2>6, <2>7, <2>9, <2>10, <2>11 DEF a
  <2> QED
    BY <2>4, <2>9, <2>10, <2>12 DEF Bounded, a
<1> QED
  BY <1>3, <1>4 DEF new

\* Pruning keeps states of the layer, the warm one among them.
LEMMA PruneKeeps ==
  ASSUME NEW K \in Pruned
  PROVE  /\ K \subseteq dp
         /\ (\E st \in dp : st.key = warm.keys[layer + 1]) =>
              \E st \in K : st.key = warm.keys[layer + 1]
<1> DEFINE isWarm(st) == st.key = warm.keys[layer + 1]
           warmState == {st \in dp : isWarm(st)}
<1>1. \A n : \A x \in Firsts(n) : x \subseteq dp
  <2> SUFFICES ASSUME NEW n, NEW x \in Firsts(n) PROVE x \subseteq dp
    OBVIOUS
  <2> DEFINE sure == {st \in dp : Cardinality({y \in dp : ~ Before(st, y)}) <= n}
             tied == {st \in dp \ sure : Cardinality({y \in dp : Before(y, st)}) < n}
  <2>1. \E more \in SUBSET tied : x = sure \cup more
    BY DEF Firsts
  <2>2. sure \subseteq dp /\ tied \subseteq dp
    OBVIOUS
  <2> HIDE DEF sure, tied
  <2> QED
    BY <2>1, <2>2
<1>2. \/ K \in Firsts(input.k) /\ (warmState = {} \/ \E st \in K : isWarm(st))
      \/ K = warmState
      \/ \E p \in Firsts(input.k) \X dp : K = (p[1] \ {p[2]}) \cup warmState
  BY DEF Pruned
<1> QED
  BY <1>1, <1>2

-----------------------------------------------------------------------------
(* The inductive invariant.                                                  *)

Unpruned(in) == in.minBatch = 0 \/ Len(in.requests) - Len(in.held) < in.minBatch

\* The layers: good states, one per key, within the warm path's bill; without
\* pruning within the bill of every plan.
LayerInv(in, w, states, n) ==
  /\ Open(in)
  /\ WarmTo(in, Len(in.requests), w)
  /\ KeysApart(states)
  /\ Bounded(in, n, w.path, states)
  /\ Unpruned(in) => \A plan : Placed(in, n, plan) => Bounded(in, n, plan, states)

\* What the search returns: nothing, or a complete path within the threshold.
\* A warm path within the threshold is a bound on it; without pruning and
\* without a time limit every plan within the threshold is.
FoundInv(in, w, res) ==
  LET N == Len(in.requests)
      Bounds(plan) == Within(in, PlanKey(in, plan, N)) =>
                        res # << >> /\ Bill(in, res, N) <= Bill(in, plan, N)
  IN /\ WarmTo(in, N, w)
     /\ res = << >> \/ (Path(in, N, res) /\ Within(in, PlanKey(in, res, N)))
     /\ Bounds(w.path)
     /\ Unpruned(in) /\ ~ in.limited => \A plan : Placed(in, N, plan) => Bounds(plan)

\* What the pipeline returns: nothing, or a path for the first requests.
DoneInv(in, res) == res = << >> \/ \E m \in 1 .. Len(in.requests) : Path(in, m, res)

Layers == {"expand", "prune", "limit", "filter"}

Inv ==
  /\ input \in Inputs
  /\ phase \in {"start", "cover", "done"} \cup Layers
  /\ layer \in 0 .. Len(input.requests)
  /\ phase = "filter" => layer = Len(input.requests)
  /\ AllGood(input, layer, dp)
  /\ phase \in Layers => LayerInv(input, warm, dp, layer)
  /\ phase \in {"start"} \cup Layers => result = << >>
  /\ phase = "start" => layer = 0
  /\ phase = "cover" => IF Open(input) THEN FoundInv(input, warm, result) ELSE result = << >>
  /\ DoneInv(input, result)
  /\ status \in {"none", "ok", "ok_greedy_after_infeasible", "infeasible"}
  /\ phase # "done" => status = "none"
  /\ status = "infeasible" => \E i \in 1 .. PendingCount : LegalOf(input, i) = {}

LEMMA InitInv == Init => Inv
<1> SUFFICES ASSUME Init PROVE Inv
  OBVIOUS
<1>1. Len(input.requests) \in Nat /\ input \in Inputs
  BY InputTypes DEF Init
<1> QED
  BY <1>1 DEF Init, Inv, AllGood, DoneInv, Layers

\* An open input has at least one request.
LEMMA OpenHasWork ==
  ASSUME NEW in \in Inputs, Open(in)
  PROVE  Len(in.requests) \in Nat \ {0}
<1>1. in.requests \in Seq([earliest : Slots, deadline : Slots, flavours : Seq(Flavour)])
  BY InputAssumption DEF Input
<1> DEFINE r == in.requests
<1>2. r # << >>
  BY DEF Open
<1> HIDE DEF r
<1>3. Len(r) \in Nat /\ Len(r) # 0
  BY <1>1, <1>2, SeqElement DEF r
<1> QED
  BY <1>3 DEF r

LEMMA StartStep == Inv /\ Start => Inv'
<1> SUFFICES ASSUME Inv, Start PROVE Inv'
  OBVIOUS
<1>1. /\ input \in Inputs /\ phase = "start" /\ layer = 0 /\ result = << >> /\ status = "none"
      /\ AllGood(input, layer, dp) /\ layer \in 0 .. Len(input.requests)
  BY DEF Inv, Start
<1>2. input' = input /\ layer' = layer /\ result' = result /\ status' = status
  BY DEF Start
<1>3. NothingToSearch <=> ~ Open(input)
  BY <1>1, OpenMeans
<1>4. CASE NothingToSearch
  <2>1. phase' = "cover" /\ dp' = dp
    BY <1>4 DEF Start
  <2>2. ~ Open(input)
    BY <1>3, <1>4
  <2> QED
    BY <1>1, <1>2, <2>1, <2>2 DEF Inv, DoneInv, Layers
<1>5. CASE ~ NothingToSearch
  <2> DEFINE first == [key |-> InitialKey, cost |-> 0, paths |-> {<< >>}]
             w == compute_sequential_solution
  <2>1. phase' = "expand" /\ warm' = w /\ dp' = {first}
    BY <1>5 DEF Start
  <2>2. Open(input) /\ \A i \in 1 .. Len(input.requests) : LegalOf(input, i) # {}
    BY <1>3, <1>5 DEF Open
  <2>3. WarmTo(input, Len(input.requests), w)
    BY <1>1, <2>2, WarmSound
  <2> HIDE DEF w
  <2>4. \A plan : PlanKey(input, plan, 0) = InitialKey /\ Bill(input, plan, 0) = 0
    BY <1>1, EmptyPlan, SameWindow
  <2>5. Path(input, 0, << >>) /\ InitialKey \in DpStateKey
    BY <1>1, PathEmpty, SameWindow, StartKeyType
  <2>6. first.key = InitialKey /\ first.cost = 0 /\ first.paths = {<< >>}
    OBVIOUS
  <2> HIDE DEF first
  <2>7. Good(input, 0, first)
    BY <2>4, <2>5, <2>6 DEF Good
  <2>8. AllGood(input, 0, {first}) /\ KeysApart({first})
    BY <2>7 DEF AllGood, KeysApart
  <2>9. \A plan : Bounded(input, 0, plan, {first})
    BY <2>4, <2>6 DEF Bounded
  <2>10. LayerInv(input, w, {first}, 0)
    BY <2>2, <2>3, <2>8, <2>9 DEF LayerInv
  <2> QED
    BY <1>1, <1>2, <2>1, <2>8, <2>10 DEF Inv, DoneInv, Layers
<1> QED
  BY <1>4, <1>5

LEMMA ExpandStep == Inv /\ Expand => Inv'
<1> SUFFICES ASSUME Inv, Expand PROVE Inv'
  OBVIOUS
<1>1. /\ input \in Inputs /\ phase = "expand" /\ result = << >> /\ status = "none"
      /\ AllGood(input, layer, dp) /\ layer \in 0 .. Len(input.requests)
      /\ LayerInv(input, warm, dp, layer)
  BY DEF Inv, Expand, Layers
<1>2. /\ input' = input /\ warm' = warm /\ result' = result /\ status' = status
      /\ phase' = "prune" /\ layer' = layer + 1 /\ layer < Len(input.requests)
      /\ dp' = Cheapest(Transitions(layer + 1))
  BY DEF Expand
<1> DEFINE n == layer
           new == Cheapest(Transitions(layer + 1))
<1>3. n \in Nat /\ n + 1 <= Len(input.requests) /\ n + 1 \in 0 .. Len(input.requests)
      /\ Len(input.requests) \in Nat
  BY <1>1, <1>2, InputTypes
<1>4. /\ AllGood(input, n + 1, new) /\ KeysApart(new)
      /\ \A plan : Placed(input, n + 1, plan) /\ Bounded(input, n, plan, dp) =>
           Bounded(input, n + 1, plan, new)
  BY <1>1, <1>3, ExpandKeeps
<1> HIDE DEF new, n
<1>5. \A plan : Placed(input, n + 1, plan) => Placed(input, n, plan)
  BY <1>3 DEF Placed
<1>6. LayerInv(input, warm, new, n + 1)
  <2>1. /\ Open(input) /\ WarmTo(input, Len(input.requests), warm)
        /\ Bounded(input, n, warm.path, dp)
        /\ Unpruned(input) => \A plan : Placed(input, n, plan) => Bounded(input, n, plan, dp)
    BY <1>1 DEF LayerInv, n
  <2>2. Placed(input, n + 1, warm.path)
    BY <1>3, <2>1 DEF WarmTo, Path, Placed
  <2>3. Bounded(input, n + 1, warm.path, new)
    BY <1>4, <2>1, <2>2
  <2>4. ASSUME Unpruned(input), NEW plan, Placed(input, n + 1, plan)
        PROVE  Bounded(input, n + 1, plan, new)
    BY <1>4, <1>5, <2>1, <2>4
  <2> QED
    BY <1>4, <2>1, <2>3, <2>4 DEF LayerInv
<1> QED
  BY <1>1, <1>2, <1>3, <1>4, <1>6 DEF Inv, DoneInv, Layers, new, n

LEMMA PruneStep == Inv /\ Prune => Inv'
<1> SUFFICES ASSUME Inv, Prune PROVE Inv'
  OBVIOUS
<1>1. /\ input \in Inputs /\ phase = "prune" /\ result = << >> /\ status = "none"
      /\ AllGood(input, layer, dp) /\ layer \in 0 .. Len(input.requests)
      /\ LayerInv(input, warm, dp, layer)
  BY DEF Inv, Prune, Layers
<1>2. /\ input' = input /\ warm' = warm /\ result' = result /\ status' = status
      /\ phase' = "limit" /\ layer' = layer
  BY DEF Prune
<1>3. dp' = dp \/ (dp' \in Pruned /\ ~ Unpruned(input))
  <2>1. Unpruned(input) => Pruning = "none"
    BY DEF Unpruned, Pruning, PendingCount
  <2> QED
    BY <2>1 DEF Prune
<1>4. AllGood(input, layer, dp') /\ LayerInv(input, warm, dp', layer)
  <2>1. CASE dp' = dp
    BY <1>1, <2>1
  <2>2. CASE dp' \in Pruned /\ ~ Unpruned(input)
    <3>1. /\ dp' \subseteq dp
          /\ (\E st \in dp : st.key = warm.keys[layer + 1]) =>
               \E st \in dp' : st.key = warm.keys[layer + 1]
      BY <2>2, PruneKeeps
    <3>2. warm.keys[layer + 1] = PlanKey(input, warm.path, layer)
      BY <1>1 DEF LayerInv, WarmTo
    <3>3. PICK x \in dp : x.key = PlanKey(input, warm.path, layer)
                          /\ x.cost <= Bill(input, warm.path, layer)
      BY <1>1 DEF LayerInv, Bounded
    <3>4. PICK y \in dp' : y.key = x.key
      BY <3>1, <3>2, <3>3
    <3>5. y = x
      BY <1>1, <3>1, <3>4 DEF LayerInv, KeysApart
    <3>6. Bounded(input, layer, warm.path, dp')
      BY <3>3, <3>4, <3>5 DEF Bounded
    <3>7. KeysApart(dp') /\ AllGood(input, layer, dp')
      BY <1>1, <3>1 DEF LayerInv, KeysApart, AllGood
    <3> QED
      BY <1>1, <2>2, <3>6, <3>7 DEF LayerInv
  <2> QED
    BY <1>3, <2>1, <2>2
<1> QED
  BY <1>1, <1>2, <1>4 DEF Inv, DoneInv, Layers

\* The warm solution is feasible when its whole path keeps the threshold.
LEMMA WarmFeasible ==
  ASSUME input \in Inputs, WarmTo(input, Len(input.requests), warm)
  PROVE  warm_is_feasible <=> Within(input, PlanKey(input, warm.path, Len(input.requests)))
<1> DEFINE N == Len(input.requests)
<1>1. N \in Nat /\ N \in 0 .. N
  BY InputTypes
<1>2. Len(warm.keys) = N + 1 /\ warm.keys[N + 1] = PlanKey(input, warm.path, N)
  BY <1>1 DEF WarmTo
<1> QED
  BY <1>2, SameWindow DEF warm_is_feasible

LEMMA TimeOutStep == Inv /\ TimeOut => Inv'
<1> SUFFICES ASSUME Inv, TimeOut PROVE Inv'
  OBVIOUS
<1>1. /\ input \in Inputs /\ phase = "limit" /\ result = << >> /\ status = "none"
      /\ AllGood(input, layer, dp) /\ layer \in 0 .. Len(input.requests)
      /\ LayerInv(input, warm, dp, layer) /\ input.limited
  BY DEF Inv, TimeOut, Layers
<1>2. /\ input' = input /\ warm' = warm /\ dp' = dp /\ status' = status
      /\ phase' = "cover" /\ layer' = layer /\ result' = WarmOrNothing
  BY DEF TimeOut
<1> DEFINE N == Len(input.requests)
           W == Within(input, PlanKey(input, warm.path, N))
           res == WarmOrNothing
<1>3. WarmTo(input, N, warm) /\ Open(input)
  BY <1>1 DEF LayerInv
<1>4. N \in Nat \ {0} /\ Path(input, N, warm.path) /\ Len(warm.path) = N
  BY <1>1, <1>3, OpenHasWork DEF WarmTo, Path
<1>5. res = (IF W THEN warm.path ELSE << >>)
  BY <1>1, <1>3, WarmFeasible DEF WarmOrNothing
<1>6. Bill(input, warm.path, N) \in Nat
  <2>1. Alike(N, warm.path, warm.path) /\ Placed(input, N, warm.path) /\ N <= N
    BY <1>4 DEF Alike, Path
  <2> QED
    BY <1>1, <1>4, <2>1, BillSame
<1>7. warm.path # << >>
  BY <1>4
<1>8. FoundInv(input, warm, res)
  <2> HIDE DEF res
  <2>1. res = << >> \/ (Path(input, N, res) /\ Within(input, PlanKey(input, res, N)))
    BY <1>4, <1>5
  <2>2. W => res # << >> /\ Bill(input, res, N) <= Bill(input, warm.path, N)
    BY <1>5, <1>6, <1>7
  <2> QED
    BY <1>1, <1>3, <2>1, <2>2 DEF FoundInv
<1>9. DoneInv(input, res)
  <2> HIDE DEF res
  <2>1. N \in 1 .. Len(input.requests)
    BY <1>4
  <2> QED
    BY <1>4, <1>5, <2>1 DEF DoneInv
<1> HIDE DEF res
<1> QED
  BY <1>1, <1>2, <1>3, <1>8, <1>9 DEF Inv, Layers, res

LEMMA NextLayerStep == Inv /\ NextLayer => Inv'
BY DEF Inv, NextLayer, Layers

LEMMA FilterStep == Inv /\ Filter => Inv'
<1> SUFFICES ASSUME Inv, Filter PROVE Inv'
  OBVIOUS
<1>1. /\ input \in Inputs /\ phase = "filter" /\ status = "none"
      /\ AllGood(input, layer, dp) /\ layer = Len(input.requests)
      /\ LayerInv(input, warm, dp, layer)
  BY DEF Inv, Filter, Layers
<1>2. /\ input' = input /\ warm' = warm /\ dp' = dp /\ status' = status
      /\ phase' = "cover" /\ layer' = layer
  BY DEF Filter
<1> DEFINE N == Len(input.requests)
           res == result'
<1>3. WarmTo(input, N, warm) /\ Open(input) /\ Bounded(input, N, warm.path, dp)
      /\ (Unpruned(input) => \A plan : Placed(input, N, plan) => Bounded(input, N, plan, dp))
  BY <1>1 DEF LayerInv
<1>4. N \in Nat \ {0}
  BY <1>1, <1>3, OpenHasWork
<1>5. Feasible = {st \in dp : Within(input, st.key)}
  BY SameWindow DEF Feasible
<1>6. \A st \in dp : Good(input, N, st)
  BY <1>1 DEF AllGood
<1>7. /\ res = << >> \/ (Path(input, N, res) /\ Within(input, PlanKey(input, res, N)))
      /\ \A st \in Feasible : res # << >> /\ Bill(input, res, N) <= st.cost
  <2>1. CASE Feasible = {}
    BY <2>1 DEF Filter
  <2>2. CASE Feasible # {}
    <3> DEFINE costs == {st.cost : st \in Feasible}
               least == Min(costs)
    <3>1. PICK st \in Feasible : st.cost = least /\ res \in st.paths
      BY <2>2 DEF Filter
    <3>2. costs \subseteq Nat /\ costs # {}
      BY <1>5, <1>6, <2>2 DEF Good
    <3>3. \A y \in costs : least <= y
      <4> HIDE DEF costs
      <4> QED
        BY <3>2, MinNat
    <3>4. /\ Path(input, N, res) /\ PlanKey(input, res, N) = st.key /\ Bill(input, res, N) = st.cost
          /\ Within(input, st.key)
      BY <1>5, <1>6, <3>1 DEF Good
    <3>5. res # << >>
      BY <1>4, <3>4 DEF Path
    <3> QED
      BY <3>1, <3>3, <3>4, <3>5
  <2> QED
    BY <2>1, <2>2
<1> HIDE DEF res
<1>8. ASSUME NEW plan, Placed(input, N, plan), Bounded(input, N, plan, dp),
             Within(input, PlanKey(input, plan, N))
      PROVE  res # << >> /\ Bill(input, res, N) <= Bill(input, plan, N)
  <2>1. PICK st \in dp : st.key = PlanKey(input, plan, N) /\ st.cost <= Bill(input, plan, N)
    BY <1>8 DEF Bounded
  <2>2. st \in Feasible
    BY <1>5, <1>8, <2>1
  <2>3. res # << >> /\ Bill(input, res, N) <= st.cost
    BY <1>7, <2>2
  <2>4. st.cost \in Nat
    BY <1>6 DEF Good
  <2>5. Bill(input, plan, N) \in Nat
    <3>1. Alike(N, plan, plan) /\ N <= N
      BY <1>4 DEF Alike
    <3> QED
      BY <1>1, <1>4, <1>8, <3>1, BillSame
  <2>6. Bill(input, res, N) \in Nat
    <3>1. Alike(N, res, res) /\ N <= N /\ Placed(input, N, res)
      BY <1>4, <1>7, <2>3 DEF Alike, Path
    <3> QED
      BY <1>1, <1>4, <3>1, BillSame
  <2> QED
    BY <2>1, <2>3, <2>4, <2>5, <2>6
<1>9. Placed(input, N, warm.path)
  BY <1>3 DEF WarmTo, Path
<1>10. FoundInv(input, warm, res)
  <2>1. Within(input, PlanKey(input, warm.path, N)) =>
          res # << >> /\ Bill(input, res, N) <= Bill(input, warm.path, N)
    BY <1>3, <1>8, <1>9
  <2>2. ASSUME Unpruned(input), NEW plan, Placed(input, N, plan),
               Within(input, PlanKey(input, plan, N))
        PROVE  res # << >> /\ Bill(input, res, N) <= Bill(input, plan, N)
    BY <1>3, <1>8, <2>2
  <2> QED
    BY <1>3, <1>7, <2>1, <2>2 DEF FoundInv
<1>11. DoneInv(input, res)
  <2>1. N \in 1 .. Len(input.requests)
    BY <1>4
  <2> QED
    BY <1>7, <2>1 DEF DoneInv
<1>12. layer \in 0 .. Len(input.requests)
  BY DEF Inv
<1> QED
  BY <1>1, <1>2, <1>3, <1>10, <1>11, <1>12 DEF Inv, Layers, res

LEMMA CoverStep == Inv /\ Cover => Inv'
<1> SUFFICES ASSUME Inv, Cover PROVE Inv'
  OBVIOUS
<1>1. /\ input \in Inputs /\ phase = "cover" /\ PendingCount > 0
      /\ AllGood(input, layer, dp) /\ layer \in 0 .. Len(input.requests) /\ DoneInv(input, result)
  BY DEF Inv, Cover
<1>2. /\ input' = input /\ warm' = warm /\ dp' = dp /\ phase' = "done" /\ layer' = layer
  BY DEF Cover
<1>3. /\ PendingCount \in 1 .. Len(input.requests)
      /\ PendingCount' = PendingCount
  <2>1. PendingCount' = PendingCount
    BY <1>2 DEF PendingCount
  <2> DEFINE n == PendingCount
             m == Len(input.requests)
  <2>2. n \in Nat /\ n <= m /\ n > 0 /\ m \in Nat
    BY <1>1, PendingType, InputTypes
  <2> HIDE DEF n, m
  <2>3. n \in 1 .. m
    BY <2>2
  <2> QED
    BY <2>1, <2>3 DEF n, m
<1>4. /\ Len(greedy_fallback) = PendingCount => Path(input, PendingCount, greedy_fallback)
      /\ Len(greedy_fallback) # PendingCount =>
           \E i \in 1 .. PendingCount : LegalOf(input, i) = {}
  BY <1>1, GreedySound
<1>5. /\ DoneInv(input, result')
      /\ status' \in {"none", "ok", "ok_greedy_after_infeasible", "infeasible"}
      /\ status' = "infeasible" => \E i \in 1 .. PendingCount : LegalOf(input, i) = {}
  <2>1. CASE result # << >>
    BY <1>1, <2>1 DEF Cover
  <2>2. CASE result = << >> /\ Len(greedy_fallback) = PendingCount
    <3>1. status' = "ok_greedy_after_infeasible" /\ result' = greedy_fallback
      BY <2>2 DEF Cover
    <3> QED
      BY <1>3, <1>4, <2>2, <3>1 DEF DoneInv
  <2>3. CASE result = << >> /\ Len(greedy_fallback) # PendingCount
    <3>1. status' = "infeasible" /\ result' = << >>
      BY <2>3 DEF Cover
    <3> QED
      BY <1>4, <2>3, <3>1 DEF DoneInv
  <2> QED
    BY <2>1, <2>2, <2>3
<1> QED
  BY <1>1, <1>2, <1>3, <1>5 DEF Inv, Layers

\* The invariant holds in every state of a solve.
THEOREM Invariance == Spec => []Inv
<1>1. Inv /\ [Next]_vars => Inv'
  <2> SUFFICES ASSUME Inv, [Next]_vars PROVE Inv'
    OBVIOUS
  <2>1. CASE UNCHANGED vars
    BY <2>1 DEF vars, Inv, PendingCount
  <2> QED
    BY <2>1, StartStep, ExpandStep, PruneStep, TimeOutStep, NextLayerStep, FilterStep, CoverStep
       DEF Next
<1> QED
  BY <1>1, InitInv, PTL DEF Spec

-----------------------------------------------------------------------------
(* The properties.                                                           *)

CostStep == [x \in Nat \X Placements |-> x[1] + x[2].cost]

\* Adding up recorded costs.
LEMMA CostFolds ==
  ASSUME NEW plan \in Seq(Placements)
  PROVE  /\ Folding(CostStep, Nat, Placements, 0, plan)
         /\ FoldLeft(LAMBDA c, p : c + p.cost, 0, plan) = Left(CostStep, 0, plan)
<1> DEFINE F == CostStep
           A == Nat
           z == 0
           op(x, y) == x + y.cost
           Rec(g) == g = [t \in SUBSET DOMAIN plan |->
                            IF t = {} THEN z ELSE op(g[t \ {Max(t)}], plan[Max(t)])]
           h == CHOOSE g : Rec(g)
<1>1. Folding(F, A, Placements, z, plan)
  <2>1. z \in A
    OBVIOUS
  <2>2. \A x \in A, y \in Placements : op(x, y) \in A
    BY DEF Placements
  <2>3. F \in [A \X Placements -> A]
    BY <2>2 DEF CostStep
  <2> QED
    BY <2>1, <2>3 DEF Folding, Folder
<1>2. FoldLeft(LAMBDA c, p : c + p.cost, 0, plan) = h[DOMAIN plan]
  BY DEF FoldLeft, MapThenFoldSet
<1>3. \A x \in A, y \in Placements : F[<<x, y>>] = op(x, y)
  BY DEF CostStep
<1> HIDE DEF A, z, F, op
<1>4. Rec(h)
  <2>1. PICK g : IndexFold(g, F, z, plan) /\ \A t \in SUBSET DOMAIN plan : g[t] \in A
    BY <1>1, IndexFoldExists
  <2>2. \A t \in SUBSET DOMAIN plan :
          IndexStep(g, F, z, plan, t) = IF t = {} THEN z ELSE op(g[t \ {Max(t)}], plan[Max(t)])
    <3> SUFFICES ASSUME NEW t \in SUBSET DOMAIN plan, t # {}
                 PROVE  F[<<g[t \ {Max(t)}], plan[Max(t)]>>] = op(g[t \ {Max(t)}], plan[Max(t)])
      BY DEF IndexStep
    <3>1. plan[Max(t)] \in Placements
      BY LastIndex
    <3>2. g[t \ {Max(t)}] \in A
      BY <2>1
    <3> QED
      BY <1>3, <3>1, <3>2
  <2>3. Rec(g)
    BY <2>1, <2>2 DEF IndexFold
  <2> QED
    BY <2>3
<1> HIDE DEF h
<1>5. h[{}] = z
  BY <1>4
<1>6. \A t \in SUBSET DOMAIN plan : t # {} /\ h[t \ {Max(t)}] \in A =>
        h[t] = F[<<h[t \ {Max(t)}], plan[Max(t)]>>]
  <2> SUFFICES ASSUME NEW t \in SUBSET DOMAIN plan, t # {}, h[t \ {Max(t)}] \in A
               PROVE  h[t] = F[<<h[t \ {Max(t)}], plan[Max(t)]>>]
    OBVIOUS
  <2>1. plan[Max(t)] \in Placements
    BY LastIndex
  <2>2. h[t] = op(h[t \ {Max(t)}], plan[Max(t)])
    BY <1>4
  <2> QED
    BY <1>3, <2>1, <2>2
<1>7. Follows(h, F, A, z, plan)
  BY <1>5, <1>6 DEF Follows
<1>8. h[DOMAIN plan] = Left(F, z, plan)
  BY <1>1, <1>7, IndexFoldValue
<1> QED
  BY <1>1, <1>2, <1>8 DEF F, A, z

\* The prefixes of a sum of costs, one entry at a time.
LEMMA CostPrefixes ==
  ASSUME NEW s, Folding(CostStep, Nat, Placements, 0, s)
  PROVE  /\ PrefixFold(CostStep, 0, s) \in [0 .. Len(s) -> Nat]
         /\ PrefixFold(CostStep, 0, s)[0] = 0
         /\ \A i \in 1 .. Len(s) :
              PrefixFold(CostStep, 0, s)[i] = CostStep[<<PrefixFold(CostStep, 0, s)[i - 1], s[i]>>]
<1> QED
  BY PrefixValues

\* The recorded costs of a prefix of a path are its bill.
LEMMA PrefixBill ==
  ASSUME NEW in \in Inputs, NEW n \in Nat, n <= Len(in.requests), NEW path, Path(in, n, path),
         NEW m \in 0 .. n
  PROVE  FoldLeft(LAMBDA c, p : c + p.cost, 0, SubSeq(path, 1, m)) = Bill(in, path, m)
<1> DEFINE s == SubSeq(path, 1, m)
           P == PrefixFold(CostStep, 0, s)
<1>0. /\ path \in Seq(Placements) /\ Len(path) = n /\ Placed(in, n, path)
      /\ \A i \in 1 .. n : path[i].cost = PriceAt(in, path, i)
  BY DEF Path
<1>1. s \in Seq(Placements) /\ Len(s) = m /\ m \in Nat /\ \A i \in 1 .. m : s[i] = path[i] /\ i \in 1 .. n
  BY <1>0
<1> HIDE DEF s
<1>2. /\ Folding(CostStep, Nat, Placements, 0, s)
      /\ FoldLeft(LAMBDA c, p : c + p.cost, 0, s) = Left(CostStep, 0, s)
  BY <1>1, CostFolds
<1>3. /\ P \in [0 .. m -> Nat] /\ P[0] = 0
      /\ \A i \in 1 .. m : P[i] = CostStep[<<P[i - 1], s[i]>>]
  BY <1>1, <1>2, CostPrefixes
<1>4. Left(CostStep, 0, s) = P[m]
  BY <1>1 DEF Left
<1> HIDE DEF P
<1> DEFINE S == {i \in Nat : i <= m => P[i] = Bill(in, path, i)}
<1>5. 0 \in S
  BY <1>3, EmptyPlan
<1>6. ASSUME NEW i \in Nat, i \in S PROVE i + 1 \in S
  <2> SUFFICES ASSUME i + 1 <= m PROVE P[i + 1] = Bill(in, path, i + 1)
    OBVIOUS
  <2>1. i + 1 \in 1 .. m /\ (i + 1) - 1 = i /\ i \in 0 .. m /\ i + 1 \in 1 .. n
        /\ i + 1 <= Len(in.requests)
    BY <1>1, InputTypes
  <2>2. P[i + 1] = CostStep[<<P[i], s[i + 1]>>] /\ P[i] \in Nat /\ P[i] = Bill(in, path, i)
    BY <1>3, <1>6, <2>1
  <2>3. s[i + 1] = path[i + 1] /\ s[i + 1] \in Placements
    BY <1>1, <2>1, SeqElement
  <2>4. P[i + 1] = P[i] + s[i + 1].cost
    BY <2>2, <2>3 DEF CostStep
  <2>5. s[i + 1].cost = PriceAt(in, path, i + 1)
    BY <1>0, <2>1, <2>3
  <2>6. Alike(i, path, path) /\ Placed(in, i + 1, path)
    BY <1>0, <2>1 DEF Alike, Placed
  <2>7. Bill(in, path, i + 1) = Bill(in, path, i) + PriceAt(in, path, i + 1)
    BY <2>1, <2>6, BillNext
  <2> QED
    BY <2>2, <2>4, <2>5, <2>7
<1> HIDE DEF S
<1>7. m \in S
  BY <1>1, <1>5, <1>6, NatSetInduction
<1> QED
  <2>1. FoldLeft(LAMBDA c, p : c + p.cost, 0, s) = Left(CostStep, 0, s)
    BY <1>2
  <2>2. Left(CostStep, 0, s) = Bill(in, path, m)
    BY <1>1, <1>4, <1>7 DEF S
  <2> QED
    BY <2>1, <2>2 DEF s

\* The cost and the window of a complete plan, as the properties count them.
LEMMA PlanMeans ==
  ASSUME input \in Inputs, NEW plan, DOMAIN plan = 1 .. Len(input.requests)
  PROVE  /\ PlanCost(plan) = Bill(input, plan, Len(input.requests))
         /\ PlanWithin(plan) <=> Within(input, PlanKey(input, plan, Len(input.requests)))
<1> DEFINE N == Len(input.requests)
<1>1. PlanCost(plan) = Bill(input, plan, N)
  <2> DEFINE f == [i \in DOMAIN plan |->
                     Carbon[plan[i].slot] * get_capacity_multiplier(Position(plan, i)) * Duration(i, plan[i])]
  <2>1. f = Prices(input, plan, N)
    BY DEF Prices, PriceAt, Rate, Position, Taken, Duration
  <2>2. DOMAIN Prices(input, plan, N) = 1 .. N
    BY DEF Prices
  <2>3. PlanCost(plan) = SumFunctionOnSet(f, DOMAIN f)
    BY DEF PlanCost, SumFunction
  <2> HIDE DEF f
  <2> QED
    BY <2>1, <2>2, <2>3 DEF Bill
<1>2. PlanWithin(plan) <=> Within(input, PlanKey(input, plan, N))
  <2> DEFINE inside == {i \in DOMAIN plan : InWindow(plan[i].slot)}
             f == [i \in inside |-> Error(i, plan[i])]
             replaced == IF input.mockError = 0 THEN 0 ELSE Min({Cardinality(inside), input.mocks})
             sum == input.errorSum + SumFunction(f) - replaced * input.mockError
             count == input.errorCount + 1000 * (Cardinality(inside) - replaced)
  <2>1. inside = InsideOf(input, plan, N)
    BY SameWindow DEF InsideOf
  <2>2. f = Errors(input, plan, N) /\ DOMAIN f = inside
    BY <2>1 DEF Errors, Error
  <2>3. PlanWithin(plan) <=>
          (input.threshold = NoThreshold \/ count = 0 \/ sum * 1000 <= input.threshold * count)
    BY DEF PlanWithin
  <2> HIDE DEF inside, f
  <2>4. SumFunction(f) = SumFunctionOnSet(Errors(input, plan, N), InsideOf(input, plan, N))
    BY <2>1, <2>2 DEF SumFunction
  <2>5. replaced = Replaced(input, plan, N)
    BY <2>1 DEF Replaced
  <2> HIDE DEF replaced
  <2>6. sum = PlanKey(input, plan, N).sum /\ count = PlanKey(input, plan, N).count
    BY <2>1, <2>4, <2>5 DEF PlanKey
  <2> HIDE DEF sum, count
  <2> QED
    BY <2>3, <2>6 DEF Within
<1> QED
  BY <1>1, <1>2

\* The invariant implies the types.
LEMMA TypesHold == Inv => TypeOK
<1> SUFFICES ASSUME Inv PROVE TypeOK
  OBVIOUS
<1>1. \A st \in dp : /\ st.key \in DpStateKey /\ st.cost \in Nat /\ st.paths # {}
                     /\ \A p \in st.paths : p \in Seq(Placements) /\ Len(p) = layer
  BY DEF Inv, AllGood, Good, Path
<1>2. result \in Seq(Placements)
  <2>1. DoneInv(input, result)
    BY DEF Inv
  <2>2. \A m : Path(input, m, result) => result \in Seq(Placements)
    BY DEF Path
  <2>3. << >> \in Seq(Placements)
    OBVIOUS
  <2> QED
    BY <2>1, <2>2, <2>3 DEF DoneInv
<1> QED
  BY <1>1, <1>2 DEF Inv, TypeOK, Layers

\* What was placed by the search or by the fallback has the price of its
\* position and a slot of its own window (dp_solver.rs, 784-787).
THEOREM PricesRecorded == Spec => []RecordedPrices
<1>1. Inv => RecordedPrices
  <2> SUFFICES ASSUME Inv, NEW i \in DOMAIN result
               PROVE  /\ result[i].slot \in LegalSlots(i)
                      /\ result[i].cost = Carbon[result[i].slot]
                           * get_capacity_multiplier(Position(result, i)) * Duration(i, result[i])
    BY DEF RecordedPrices
  <2>1. PICK m \in 1 .. Len(input.requests) : Path(input, m, result)
    BY DEF Inv, DoneInv
  <2>2. result \in Seq(Placements) /\ Len(result) = m /\ Placed(input, m, result)
        /\ \A j \in 1 .. m : result[j].cost = PriceAt(input, result, j)
    BY <2>1 DEF Path
  <2>3. i \in 1 .. m
    BY <2>2, SeqElement
  <2>4. result[i].slot \in LegalOf(input, i) /\ result[i].cost = PriceAt(input, result, i)
    BY <2>2, <2>3 DEF Placed
  <2> QED
    BY <2>4, SameWindow DEF PriceAt, Rate, Position, Taken, Duration
<1> QED
  BY <1>1, Invariance, PTL

\* Only a request without a legal slot sends its batch back to the queue.
THEOREM ReturnsOnlyStuck == Spec => []OnlyStuckBatchesReturn
<1>1. Inv => OnlyStuckBatchesReturn
  BY SameWindow DEF Inv, OnlyStuckBatchesReturn
<1> QED
  BY <1>1, Invariance, PTL

\* The warm key is never pruned away.
LEMMA WarmHolds == Inv => WarmSurvives
<1> SUFFICES ASSUME Inv, phase \in {"limit", "filter"}
             PROVE  \E st \in dp :
                      /\ st.key = warm.keys[layer + 1]
                      /\ st.cost <= FoldLeft(LAMBDA c, p : c + p.cost, 0, SubSeq(warm.path, 1, layer))
  BY DEF WarmSurvives
<1> DEFINE N == Len(input.requests)
           recorded == FoldLeft(LAMBDA c, p : c + p.cost, 0, SubSeq(warm.path, 1, layer))
<1>1. input \in Inputs /\ layer \in 0 .. N /\ N \in Nat /\ N <= N
  BY InputTypes DEF Inv
<1>2. WarmTo(input, N, warm) /\ Bounded(input, layer, warm.path, dp)
  BY DEF Inv, LayerInv, Layers
<1>3. Path(input, N, warm.path) /\ warm.keys[layer + 1] = PlanKey(input, warm.path, layer)
  BY <1>1, <1>2 DEF WarmTo
<1>4. recorded = Bill(input, warm.path, layer)
  BY <1>1, <1>3, PrefixBill
<1> HIDE DEF recorded
<1>5. PICK st \in dp : st.key = PlanKey(input, warm.path, layer) /\ st.cost <= Bill(input, warm.path, layer)
  BY <1>2 DEF Bounded
<1>6. st.key = warm.keys[layer + 1] /\ st.cost <= recorded
  BY <1>3, <1>4, <1>5
<1> QED
  BY <1>6 DEF recorded

\* What the search found, for the properties about a complete plan.
LEMMA FoundMeans ==
  ASSUME Inv, Searched
  PROVE  /\ input \in Inputs /\ Open(input) /\ Len(input.requests) \in Nat \ {0}
         /\ FoundInv(input, warm, result)
         /\ result # << >> =>
              /\ Path(input, Len(input.requests), result) /\ Len(result) = Len(input.requests)
              /\ DOMAIN result = 1 .. Len(input.requests)
              /\ PlanWithin(result)
              /\ PlanCost(result) = Bill(input, result, Len(input.requests))
<1> DEFINE N == Len(input.requests)
<1>1. input \in Inputs /\ phase = "cover" /\ ~ NothingToSearch
  BY DEF Inv, Searched
<1>2. Open(input)
  BY <1>1, OpenMeans
<1>3. N \in Nat \ {0} /\ FoundInv(input, warm, result)
  BY <1>1, <1>2, OpenHasWork DEF Inv
<1>4. ASSUME result # << >>
      PROVE  /\ Path(input, N, result) /\ Len(result) = N
             /\ DOMAIN result = 1 .. N
             /\ PlanWithin(result)
             /\ PlanCost(result) = Bill(input, result, N)
  <2>1. Path(input, N, result) /\ Within(input, PlanKey(input, result, N))
    BY <1>3, <1>4 DEF FoundInv
  <2>2. result \in Seq(Placements) /\ Len(result) = N
    BY <2>1 DEF Path
  <2>3. DOMAIN result = 1 .. N
    BY <2>2, SeqElement
  <2> QED
    BY <1>1, <2>1, <2>2, <2>3, PlanMeans
<1> QED
  BY <1>1, <1>2, <1>3, <1>4

LEMMA NoWorseHolds == Inv => NoWorseThanWarm
<1> SUFFICES ASSUME Inv, Searched
             PROVE  /\ warm_is_feasible => result # << >>
                    /\ result # << >> =>
                         /\ Len(result) = Len(input.requests)
                         /\ PlanWithin(result)
                         /\ warm_is_feasible => PlanCost(result) <= PlanCost(warm.path)
  BY DEF NoWorseThanWarm
<1> DEFINE N == Len(input.requests)
<1>1. /\ input \in Inputs /\ N \in Nat \ {0} /\ FoundInv(input, warm, result)
      /\ result # << >> => /\ Len(result) = N /\ PlanWithin(result)
                           /\ PlanCost(result) = Bill(input, result, N)
  BY FoundMeans
<1>2. WarmTo(input, N, warm) /\ Path(input, N, warm.path)
  BY <1>1 DEF FoundInv, WarmTo
<1>3. warm_is_feasible => result # << >> /\ Bill(input, result, N) <= Bill(input, warm.path, N)
  <2>1. warm_is_feasible <=> Within(input, PlanKey(input, warm.path, N))
    BY <1>1, <1>2, WarmFeasible
  <2> QED
    BY <1>1, <2>1 DEF FoundInv
<1>4. PlanCost(warm.path) = Bill(input, warm.path, N)
  <2>1. DOMAIN warm.path = 1 .. N
    BY <1>2, SeqElement DEF Path
  <2> QED
    BY <1>1, <2>1, PlanMeans
<1> QED
  BY <1>1, <1>3, <1>4

\* However the search is pruned or cut short, a warm solution within the
\* threshold is never lost, and what is returned is complete, within the
\* threshold and no dearer than it (dp_solver.rs, 455-501).
THEOREM SearchIsSound == Spec => []SearchSound
<1>1. Inv => SearchSound
  BY TypesHold, WarmHolds, NoWorseHolds DEF SearchSound
<1> QED
  BY <1>1, Invariance, PTL

-----------------------------------------------------------------------------
(* Exactness.                                                                *)

\* The plans of the reference place every request.
LEMMA AllPlansPlaced ==
  ASSUME input \in Inputs, NEW plan \in AllPlans
  PROVE  /\ Placed(input, Len(input.requests), plan) /\ DOMAIN plan = 1 .. Len(input.requests)
         /\ PlanCost(plan) = Bill(input, plan, Len(input.requests)) /\ PlanCost(plan) \in Nat
<1> DEFINE N == Len(input.requests)
           options(i) == {[slot |-> c[1], flavour |-> c[2]] : c \in ChoiceOf(input, i)}
<1>1. plan \in [1 .. N -> UNION {options(i) : i \in 1 .. N}]
      /\ \A i \in 1 .. N : plan[i] \in options(i)
  BY SameWindow DEF AllPlans
<1>2. DOMAIN plan = 1 .. N
  BY <1>1
<1>3. ASSUME NEW i \in 1 .. N
      PROVE  plan[i].slot \in LegalOf(input, i) /\ plan[i].flavour \in DOMAIN input.requests[i].flavours
  <2>1. PICK c \in ChoiceOf(input, i) : plan[i] = [slot |-> c[1], flavour |-> c[2]]
    BY <1>1
  <2> QED
    BY <2>1 DEF ChoiceOf
<1>4. Placed(input, N, plan)
  BY <1>3 DEF Placed
<1>5. Bill(input, plan, N) \in Nat
  <2>1. N \in Nat /\ N <= N /\ Alike(N, plan, plan)
    BY InputTypes DEF Alike
  <2> QED
    BY <1>4, <2>1, BillSame
<1>6. PlanCost(plan) = Bill(input, plan, N)
  BY <1>2, PlanMeans
<1> QED
  BY <1>2, <1>4, <1>5, <1>6

\* A path, without its prices, is one of them, of the same cost and window.
LEMMA PathIsPlan ==
  ASSUME input \in Inputs, NEW path, Path(input, Len(input.requests), path)
  PROVE  \E plan \in AllPlans :
           /\ Bill(input, plan, Len(input.requests)) = Bill(input, path, Len(input.requests))
           /\ PlanKey(input, plan, Len(input.requests)) = PlanKey(input, path, Len(input.requests))
<1> DEFINE N == Len(input.requests)
           options(i) == {[slot |-> c[1], flavour |-> c[2]] : c \in ChoiceOf(input, i)}
           plan == [i \in 1 .. N |-> [slot |-> path[i].slot, flavour |-> path[i].flavour]]
<1>1. N \in Nat /\ N <= N /\ N \in 0 .. N
  BY InputTypes
<1>2. Placed(input, N, path)
  BY DEF Path
<1>3. \A i \in 1 .. N : plan[i].slot = path[i].slot /\ plan[i].flavour = path[i].flavour
  OBVIOUS
<1>4. Alike(N, path, plan)
  BY <1>3 DEF Alike
<1>5. \A i \in 1 .. N : plan[i] \in options(i)
  <2> SUFFICES ASSUME NEW i \in 1 .. N
               PROVE  [slot |-> path[i].slot, flavour |-> path[i].flavour] \in options(i)
    OBVIOUS
  <2>1. <<path[i].slot, path[i].flavour>> \in ChoiceOf(input, i)
    BY <1>2 DEF Placed, ChoiceOf
  <2> QED
    BY <2>1
<1>6. plan \in AllPlans
  <2>1. plan \in [1 .. N -> UNION {options(i) : i \in 1 .. N}]
    <3>1. \A i \in 1 .. N : plan[i] \in UNION {options(j) : j \in 1 .. N}
      BY <1>5
    <3>2. plan = [i \in 1 .. N |-> plan[i]]
      OBVIOUS
    <3> HIDE DEF plan, options
    <3> QED
      BY <3>1, <3>2
  <2> HIDE DEF plan
  <2> QED
    BY <1>5, <2>1, SameWindow DEF AllPlans
<1> HIDE DEF plan
<1>7. Bill(input, plan, N) = Bill(input, path, N) /\ PlanKey(input, plan, N) = PlanKey(input, path, N)
  BY <1>1, <1>2, <1>4, BillSame, KeySame
<1> QED
  BY <1>6, <1>7

\* Without pruning and without a time limit the search returns a plan within
\* the threshold of least cost, and nothing only where there is none, although
\* it keeps one cost for each key (solve_batch, dp_solver.rs, 213-219).
THEOREM ExactWithoutPruning == Spec => []Optimal
<1>1. Inv => Optimal
  <2> SUFFICES ASSUME Inv, Searched, Pruning = "none", ~ input.limited
               PROVE  IF FeasiblePlans = {} THEN result = << >>
                      ELSE /\ Len(result) = Len(input.requests)
                           /\ PlanWithin(result)
                           /\ PlanCost(result) = Min({PlanCost(plan) : plan \in FeasiblePlans})
    BY DEF Optimal
  <2> DEFINE N == Len(input.requests)
             costs == {PlanCost(plan) : plan \in FeasiblePlans}
  <2>1. /\ input \in Inputs /\ N \in Nat \ {0} /\ FoundInv(input, warm, result)
        /\ result # << >> =>
             /\ Path(input, N, result) /\ Len(result) = N
             /\ PlanWithin(result) /\ PlanCost(result) = Bill(input, result, N)
    BY FoundMeans
  <2>2. Unpruned(input)
    <3>1. input.method \in {"beam", "kbest"}
      BY <2>1, InputAssumption DEF Input
    <3> QED
      BY <3>1 DEF Pruning, PendingCount, Unpruned
  <2>3. ASSUME NEW plan \in FeasiblePlans
        PROVE  /\ result # << >> /\ Bill(input, result, N) <= PlanCost(plan)
               /\ PlanCost(plan) \in Nat
    <3>1. plan \in AllPlans /\ PlanWithin(plan)
      BY DEF FeasiblePlans
    <3>2. Placed(input, N, plan) /\ DOMAIN plan = 1 .. N
          /\ PlanCost(plan) = Bill(input, plan, N) /\ PlanCost(plan) \in Nat
      BY <2>1, <3>1, AllPlansPlaced
    <3>3. Within(input, PlanKey(input, plan, N))
      BY <2>1, <3>1, <3>2, PlanMeans
    <3> QED
      BY <2>1, <2>2, <3>2, <3>3 DEF FoundInv
  <2>4. ASSUME result # << >>
        PROVE  PlanCost(result) \in costs
    <3>1. PICK plan \in AllPlans : Bill(input, plan, N) = Bill(input, result, N)
                                   /\ PlanKey(input, plan, N) = PlanKey(input, result, N)
      BY <2>1, <2>4, PathIsPlan
    <3>2. DOMAIN plan = 1 .. N /\ PlanCost(plan) = Bill(input, plan, N)
      BY <2>1, AllPlansPlaced
    <3>3. Within(input, PlanKey(input, result, N))
      BY <2>1, <2>4 DEF FoundInv
    <3>4. PlanWithin(plan)
      BY <2>1, <3>1, <3>2, <3>3, PlanMeans
    <3>5. plan \in FeasiblePlans /\ PlanCost(plan) = PlanCost(result)
      BY <2>1, <2>4, <3>1, <3>2, <3>4 DEF FeasiblePlans
    <3> QED
      BY <3>5
  <2>5. CASE FeasiblePlans = {}
    <3>1. costs = {}
      BY <2>5
    <3> QED
      BY <2>4, <2>5, <3>1
  <2>6. CASE FeasiblePlans # {}
    <3>1. costs # {} /\ costs \subseteq Nat /\ result # << >>
      BY <2>3, <2>6
    <3>2. \A y \in costs : PlanCost(result) <= y
      BY <2>1, <2>3, <3>1
    <3>3. PlanCost(result) \in costs
      BY <2>4, <3>1
    <3> DEFINE x == PlanCost(result)
    <3> HIDE DEF costs, x
    <3>4. Min(costs) \in costs /\ \A y \in costs : Min(costs) <= y
      BY <3>1, MinNat
    <3>5. x = Min(costs)
      <4>1. x <= Min(costs) /\ Min(costs) <= x /\ x \in Nat /\ Min(costs) \in Nat
        BY <3>1, <3>2, <3>3, <3>4 DEF x
      <4> QED
        BY <4>1
    <3> QED
      BY <2>1, <2>6, <3>1, <3>5 DEF costs, x
  <2> QED
    BY <2>5, <2>6
<1> QED
  BY <1>1, Invariance, PTL

=============================================================================
