------------------------- MODULE SwarmWorkers_proofs -------------------------
(***************************************************************************)
(* Theorems about the batch workers of the online strategies: what a batch  *)
(* may be planned as, and what the shared learning states and the log of    *)
(* commits keep of it.                                                       *)
(***************************************************************************)
EXTENDS SwarmWorkers, FoldLemmas

-----------------------------------------------------------------------------
(* Constants and choices. *)

\* The slots of the horizon.
LEMMA SlotBounds ==
  /\ TotalSlots \in Nat /\ MaxFuture \in Nat /\ IsFiniteSet(Slots)
  /\ \A s \in Slots : s \in Nat /\ s \in Int /\ s <= TotalSlots - 1
  /\ \A s \in Nat : s <= TotalSlots - 1 => s \in Slots
<1>1. TotalSlots \in Nat /\ MaxFuture \in Nat
  BY SolverAssumption
<1>2. IsFiniteSet(0 .. TotalSlots - 1)
  BY <1>1, FS_Interval
<1> QED
  BY <1>1, <1>2 DEF Slots

\* The flavours are finitely many.
LEMMA FlavourTypes ==
  /\ IsFiniteSet(DOMAIN Flavours) /\ DOMAIN Flavours # {} /\ DOMAIN Flavours \subseteq Nat
  /\ \A f \in DOMAIN Flavours : /\ Flavours[f].duration \in Nat /\ Flavours[f].error \in Nat
                                /\ Flavours[f].error \in Int
<1>1. Flavours \in Seq([duration : Nat \ {0}, error : Nat]) /\ Flavours # << >>
  BY SolverAssumption
<1>2. DOMAIN Flavours = 1 .. Len(Flavours) /\ Len(Flavours) \in Nat /\ Len(Flavours) # 0
  BY <1>1
<1> DEFINE R == [duration : Nat \ {0}, error : Nat]
<1>3. \A f \in DOMAIN Flavours : Flavours[f] \in R
  <2> HIDE DEF R
  <2> QED
    BY <1>1, <1>2, SeqElement DEF R
<1>4. IsFiniteSet(1 .. Len(Flavours))
  BY <1>2, FS_Interval
<1>5. 1 \in DOMAIN Flavours
  BY <1>2
<1> QED
  BY <1>2, <1>3, <1>4, <1>5

\* A non-empty finite set of numbers has a first one of least value.
LEMMA FirstOfLeast ==
  ASSUME NEW S, IsFiniteSet(S), S \subseteq Int, S # {}, NEW v, \A f \in S : v[f] \in Int
  PROVE  \E f \in S : \A g \in S : v[f] < v[g] \/ (v[f] = v[g] /\ f <= g)
<1>1. IsFiniteSet(S) /\ \A f \in S : f \in Int /\ v[f] \in Int
  OBVIOUS
<1> DEFINE Before(f, g) == v[f] < v[g] \/ (v[f] = v[g] /\ f <= g)
           R == {p \in S \X S : Before(p[1], p[2])}
<1>2. \A x, y \in S : <<x, y>> \in R <=> Before(x, y)
  OBVIOUS
<1> HIDE DEF R
<1>3. \A x, y \in S : Before(x, y) \/ Before(y, x)
  <2> SUFFICES ASSUME NEW x \in S, NEW y \in S PROVE Before(x, y) \/ Before(y, x)
    OBVIOUS
  <2> DEFINE a == v[x]
             b == v[y]
  <2>1. x \in Int /\ y \in Int /\ a \in Int /\ b \in Int
    BY <1>1
  <2> HIDE DEF a, b
  <2>2. (a < b \/ (a = b /\ x <= y)) \/ (b < a \/ (b = a /\ y <= x))
    BY <2>1
  <2> QED
    BY <2>2 DEF a, b
<1>4. \A x, y, z \in S : Before(x, y) /\ Before(y, z) => Before(x, z)
  <2> SUFFICES ASSUME NEW x \in S, NEW y \in S, NEW z \in S, Before(x, y), Before(y, z)
               PROVE  Before(x, z)
    OBVIOUS
  <2> DEFINE a == v[x]
             b == v[y]
             c == v[z]
  <2>1. /\ a \in Int /\ b \in Int /\ c \in Int /\ x \in Int /\ y \in Int /\ z \in Int
        /\ a < b \/ (a = b /\ x <= y)
        /\ b < c \/ (b = c /\ y <= z)
    BY <1>1
  <2> HIDE DEF a, b, c
  <2>2. a < c \/ (a = c /\ x <= z)
    BY <2>1
  <2> QED
    BY <2>2 DEF a, c
<1> HIDE DEF Before
<1>5. \A x, y \in S : <<x, y>> \in R \/ <<y, x>> \in R
  BY <1>2, <1>3
<1>6. \A x, y, z \in S : <<x, y>> \in R /\ <<y, z>> \in R => <<x, z>> \in R
  BY <1>2, <1>4
<1>7. \E f \in S : \A g \in S : <<f, g>> \in R
  BY <1>1, <1>5, <1>6, LeastExists
<1>8. \E f \in S : \A g \in S : Before(f, g)
  BY <1>2, <1>7
<1> QED
  BY <1>8 DEF Before

\* The fallback is a flavour.
LEMMA FallbackType == Fallback \in DOMAIN Flavours
<1> DEFINE v == [f \in DOMAIN Flavours |-> Flavours[f].error]
<1>1. \A f \in DOMAIN Flavours : v[f] \in Int /\ v[f] = Flavours[f].error
  BY FlavourTypes
<1> HIDE DEF v
<1>2. \E f \in DOMAIN Flavours : \A g \in DOMAIN Flavours :
        v[f] < v[g] \/ (v[f] = v[g] /\ f <= g)
  BY <1>1, FlavourTypes, FirstOfLeast
<1>3. \E f \in DOMAIN Flavours : \A g \in DOMAIN Flavours :
        \/ Flavours[f].error < Flavours[g].error
        \/ Flavours[f].error = Flavours[g].error /\ f <= g
  BY <1>1, <1>2
<1> QED
  BY <1>3 DEF Fallback

\* The flavour picked is the fallback or keeps the averages.
LEMMA PickedFlavour ==
  ASSUME NEW ctx, NEW slot
  PROVE  LET f == pick_feasible_flavour(ctx, slot)
         IN f \in DOMAIN Flavours /\ (f = Fallback \/ FitsWindow(ctx, slot, f))
<1> DEFINE S == {f \in DOMAIN Flavours : FitsGlobal(ctx, f) /\ FitsWindow(ctx, slot, f)}
           v == [f \in DOMAIN Flavours |-> Flavours[f].duration]
           picked == CHOOSE f \in S : \A g \in S :
                       \/ Flavours[f].duration < Flavours[g].duration
                       \/ Flavours[f].duration = Flavours[g].duration /\ f <= g
<1>1. CASE S = {}
  BY <1>1, FallbackType DEF pick_feasible_flavour
<1>2. CASE S # {}
  <2>1. pick_feasible_flavour(ctx, slot) = picked
    BY <1>2 DEF pick_feasible_flavour
  <2>2. \A f \in DOMAIN Flavours : v[f] \in Int /\ v[f] = Flavours[f].duration
    BY FlavourTypes
  <2>3. S \subseteq DOMAIN Flavours
    OBVIOUS
  <2> HIDE DEF S
  <2>0. IsFiniteSet(S) /\ S \subseteq Int
    BY <2>3, FlavourTypes, FS_Subset
  <2> HIDE DEF v
  <2>4. \E f \in S : \A g \in S : v[f] < v[g] \/ (v[f] = v[g] /\ f <= g)
    BY <1>2, <2>0, <2>2, <2>3, FirstOfLeast
  <2>5. \E f \in S : \A g \in S :
          \/ Flavours[f].duration < Flavours[g].duration
          \/ Flavours[f].duration = Flavours[g].duration /\ f <= g
    BY <2>2, <2>3, <2>4
  <2>6. picked \in S
    BY <2>5
  <2> QED
    BY <2>1, <2>6 DEF S
<1> QED
  BY <1>1, <1>2

\* Capacity-tier ladders.
Ladder == Seq([maxRequests : Nat \cup {NoLimit}, multiplier : Nat]) \ {<< >>}

\* A price multiplier is a number.
LEMMA MultiplierType ==
  ASSUME NEW ladder \in Ladder, NEW n
  PROVE  capacity_mult(ladder, n) \in Nat
<1> DEFINE R == [maxRequests : Nat \cup {NoLimit}, multiplier : Nat]
           S == {i \in DOMAIN ladder : \/ ladder[i].maxRequests = NoLimit
                                       \/ n <= ladder[i].maxRequests}
<1>1. /\ ladder \in Seq(R) /\ Len(ladder) \in Nat /\ Len(ladder) # 0
      /\ DOMAIN ladder = 1 .. Len(ladder)
  BY DEF Ladder
<1>2. \A i \in DOMAIN ladder : ladder[i].multiplier \in Nat
  <2> HIDE DEF R
  <2>1. \A i \in DOMAIN ladder : ladder[i] \in R
    BY <1>1, SeqElement
  <2> QED
    BY <2>1 DEF R
<1>3. CASE S = {}
  <2>1. capacity_mult(ladder, n) = ladder[Len(ladder)].multiplier
    BY <1>3 DEF capacity_mult
  <2> QED
    BY <1>1, <1>2, <2>1
<1>4. CASE S # {}
  <2>1. capacity_mult(ladder, n) = ladder[Min(S)].multiplier
    BY <1>4 DEF capacity_mult
  <2>2. IsFiniteSet(1 .. Len(ladder))
    BY <1>1, FS_Interval
  <2>3. IsFiniteSet(S) /\ S \subseteq Int /\ S \subseteq DOMAIN ladder
    BY <1>1, <2>2, FS_Subset
  <2> HIDE DEF S
  <2>4. Min(S) \in S
    BY <1>4, <2>3, MinOf
  <2> QED
    BY <1>2, <2>1, <2>3, <2>4
<1> QED
  BY <1>3, <1>4

\* The candidate slots of a request are slots of the horizon, at least one.
LEMMA CandidateSlots ==
  ASSUME NEW r \in Requests
  PROVE  /\ valid_slots(r) \subseteq Slots /\ valid_slots(r) # {}
         /\ IsFiniteSet(valid_slots(r))
<1> DEFINE a == ArrivalOf[r]
           d == DeadlineOf[r]
           to == Min({d, a + MaxFuture, TotalSlots - 1})
           last == Max({to, a})
<1>1. a \in Slots /\ d \in Slots
  BY WorkerAssumption
<1>2. a \in Nat /\ d \in Nat /\ a <= TotalSlots - 1 /\ TotalSlots - 1 \in Int /\ a + MaxFuture \in Int
  BY <1>1, SlotBounds
<1>3. valid_slots(r) = a .. last
  BY DEF valid_slots
<1> HIDE DEF a, d
<1>4. to \in Int /\ to <= TotalSlots - 1
  <2> DEFINE x == a + MaxFuture
             y == TotalSlots - 1
  <2>1. x \in Int /\ y \in Int /\ d \in Int /\ to = Min({d, x, y})
    BY <1>2
  <2> HIDE DEF x, y
  <2>2. Min({d, x, y}) \in {d, x, y} /\ Min({d, x, y}) <= y
    BY <2>1, MinTriple
  <2> QED
    BY <2>1, <2>2 DEF y
<1> HIDE DEF to
<1>5. last \in Int /\ a <= last /\ last <= TotalSlots - 1
  BY <1>2, <1>4, MaxPair
<1> HIDE DEF last
<1>6. a .. last \subseteq Slots
  <2> SUFFICES ASSUME NEW s \in a .. last PROVE s \in Slots
    OBVIOUS
  <2>1. s \in Nat /\ s <= TotalSlots - 1
    BY <1>2, <1>5, SlotBounds
  <2> QED
    BY <2>1, SlotBounds
<1>7. a \in a .. last
  BY <1>2, <1>5
<1>8. IsFiniteSet(valid_slots(r))
  BY <1>3, <1>6, SlotBounds, FS_Subset
<1> QED
  BY <1>3, <1>6, <1>7, <1>8

-----------------------------------------------------------------------------
(* What a plan adds to the context it was made against. *)

\* The errors of a log of placements, by place.
ErrorAt(log) == [i \in DOMAIN log |-> Flavours[log[i].flavour].error]
Spent(log, I) == SumFunctionOnSet(ErrorAt(log), I)

\* The first n places of a log, those in the slots W.
Near(log, n, W) == {i \in 1 .. n : log[i].slot \in W}

Window(s) == Slots \cap (s - WindowPast .. s + WindowFuture)

SumOver(ctx, W) == SumFunctionOnSet([s \in Slots |-> ctx.errors[s].sum], W)
NumberOver(ctx, W) == SumFunctionOnSet([s \in Slots |-> ctx.errors[s].number], W)

\* What the n first rows of a plan count for, in and after the context ctx.
Within(ctx, plan, n, W) ==
  SumOver(ctx, W) + Spent(plan, Near(plan, n, W))
    <= MaxError * (NumberOver(ctx, W) + Cardinality(Near(plan, n, W)))

CountAt(ctx, plan, n, s) == ctx.count[s] + Cardinality(Near(plan, n, {s}))

\* The row i of a plan is for the i-th request of the batch, at the price of its
\* position, and in the fallback flavour or within the error budget.
RowGood(ladder, ctx, batch, plan, i) ==
  /\ plan[i].req = batch[i]
  /\ plan[i].multiplier = capacity_mult(ladder, CountAt(ctx, plan, i, plan[i].slot))
  /\ plan[i].flavour = Fallback \/ Within(ctx, plan, i, Window(plan[i].slot))

PlanGood(ladder, ctx, batch, n, plan) ==
  /\ plan \in Seq(Placement) /\ Len(plan) = n
  /\ \A i \in 1 .. n : RowGood(ladder, ctx, batch, plan, i)

\* The context now is the context ctx after n rows of the plan.
After(ctx, now, plan, n) ==
  /\ now \in Context
  /\ \A s \in Slots :
       /\ now.count[s] = CountAt(ctx, plan, n, s)
       /\ now.errors[s].sum = ctx.errors[s].sum + Spent(plan, Near(plan, n, {s}))
       /\ now.errors[s].number = ctx.errors[s].number + Cardinality(Near(plan, n, {s}))

\* A placement's slot, flavour and error.
LEMMA PlacementTypes ==
  ASSUME NEW log \in Seq(Placement)
  PROVE  /\ Len(log) \in Nat /\ DOMAIN log = 1 .. Len(log)
         /\ \A i \in 1 .. Len(log) :
              /\ log[i] \in Placement
              /\ log[i].slot \in Slots /\ log[i].flavour \in DOMAIN Flavours
              /\ ErrorAt(log)[i] = Flavours[log[i].flavour].error
              /\ ErrorAt(log)[i] \in Nat /\ ErrorAt(log)[i] \in Int
<1>1. /\ Len(log) \in Nat /\ DOMAIN log = 1 .. Len(log)
      /\ \A i \in 1 .. Len(log) : log[i] \in Placement
  BY SeqElement
<1>2. \A i \in 1 .. Len(log) : log[i].slot \in Slots /\ log[i].flavour \in DOMAIN Flavours
  BY <1>1 DEF Placement
<1> QED
  BY <1>1, <1>2, FlavourTypes DEF ErrorAt

\* The places in some slots are finitely many, and their errors a number.
LEMMA NearTypes ==
  ASSUME NEW log \in Seq(Placement), NEW n \in 0 .. Len(log), NEW W
  PROVE  /\ Near(log, n, W) \subseteq 1 .. Len(log) /\ IsFiniteSet(Near(log, n, W))
         /\ Cardinality(Near(log, n, W)) \in Nat /\ Cardinality(Near(log, n, W)) <= n
         /\ Spent(log, Near(log, n, W)) \in Nat
<1>1. Len(log) \in Nat /\ n \in Nat /\ n <= Len(log)
  BY PlacementTypes
<1>2. Near(log, n, W) \subseteq 1 .. n /\ Near(log, n, W) \subseteq 1 .. Len(log)
  BY <1>1 DEF Near
<1>3. IsFiniteSet(1 .. n) /\ Cardinality(1 .. n) = n
  BY <1>1, FS_Interval
<1>4. IsFiniteSet(Near(log, n, W)) /\ Cardinality(Near(log, n, W)) <= n
  BY <1>2, <1>3, FS_Subset
<1>5. Cardinality(Near(log, n, W)) \in Nat
  BY <1>4, FS_CardinalityType
<1>6. \A i \in Near(log, n, W) : ErrorAt(log)[i] \in Nat
  BY <1>2, PlacementTypes
<1>7. Spent(log, Near(log, n, W)) \in Nat
  BY <1>4, <1>6, SumNat DEF Spent
<1> QED
  BY <1>2, <1>4, <1>5, <1>7

\* more is the plan of n rows with one more row, a.
Grown(plan, n, a, more) ==
  plan \in Seq(Placement) /\ n = Len(plan) /\ a \in Placement /\ more = Append(plan, a)

\* One more row keeps the rows before it.
LEMMA GrownPlan ==
  ASSUME NEW plan, NEW n, NEW a, NEW more, Grown(plan, n, a, more)
  PROVE  /\ n \in Nat /\ plan \in Seq(Placement) /\ n = Len(plan) /\ a \in Placement
         /\ more \in Seq(Placement) /\ Len(more) = n + 1 /\ more[n + 1] = a
         /\ \A i \in 1 .. n : more[i] = plan[i]
BY SeqAppend DEF Grown

\* So the first places in some slots are the same.
LEMMA NearKept ==
  ASSUME NEW plan, NEW n, NEW a, NEW more, Grown(plan, n, a, more), NEW W,
         NEW i \in 0 .. n
  PROVE  /\ Near(more, i, W) = Near(plan, i, W)
         /\ Spent(more, Near(more, i, W)) = Spent(plan, Near(plan, i, W))
<1>1. /\ plan \in Seq(Placement) /\ n = Len(plan) /\ n \in Nat
      /\ more \in Seq(Placement) /\ Len(more) = n + 1
      /\ \A x \in 1 .. n : more[x] = plan[x]
  BY GrownPlan
<1>2. Near(more, i, W) = Near(plan, i, W)
  BY <1>1 DEF Near
<1>3. IsFiniteSet(Near(plan, i, W)) /\ Near(plan, i, W) \subseteq 1 .. n
  BY <1>1, NearTypes
<1>4. \A x \in 1 .. n : ErrorAt(plan)[x] \in Int /\ ErrorAt(more)[x] = ErrorAt(plan)[x]
  <2>1. \A x \in 1 .. n : x \in 1 .. Len(more) /\ more[x] = plan[x]
    BY <1>1
  <2>2. \A x \in 1 .. n : /\ ErrorAt(plan)[x] = Flavours[plan[x].flavour].error
                          /\ ErrorAt(plan)[x] \in Int
    BY <1>1, PlacementTypes
  <2>3. \A x \in 1 .. Len(more) : ErrorAt(more)[x] = Flavours[more[x].flavour].error
    BY <1>1, PlacementTypes
  <2> QED
    BY <2>1, <2>2, <2>3
<1>5. \A x \in Near(plan, i, W) :
        ErrorAt(plan)[x] \in Int /\ ErrorAt(more)[x] = ErrorAt(plan)[x]
  BY <1>3, <1>4
<1>6. SumFunctionOnSet(ErrorAt(more), Near(plan, i, W))
        = SumFunctionOnSet(ErrorAt(plan), Near(plan, i, W))
  BY <1>3, <1>5, SumSame
<1> QED
  BY <1>2, <1>6 DEF Spent

\* One more row is one more place, and its error, in its slot.
LEMMA NearGrows ==
  ASSUME NEW plan, NEW n, NEW a, NEW more, Grown(plan, n, a, more), NEW W
  PROVE  /\ Cardinality(Near(more, n + 1, W))
              = Cardinality(Near(plan, n, W)) + (IF a.slot \in W THEN 1 ELSE 0)
         /\ Spent(more, Near(more, n + 1, W))
              = Spent(plan, Near(plan, n, W))
                  + (IF a.slot \in W THEN Flavours[a.flavour].error ELSE 0)
<1>1. /\ plan \in Seq(Placement) /\ n = Len(plan) /\ n \in Nat /\ a \in Placement
      /\ more \in Seq(Placement) /\ Len(more) = n + 1 /\ more[n + 1] = a
      /\ \A i \in 1 .. n : more[i] = plan[i]
  BY GrownPlan
<1>3. Near(more, n, W) = Near(plan, n, W) /\ Spent(more, Near(more, n, W)) = Spent(plan, Near(plan, n, W))
  BY <1>1, NearKept
<1>4. CASE a.slot \notin W
  <2>1. Near(more, n + 1, W) = Near(more, n, W)
    <3>1. \A i \in Int : i \in 1 .. n + 1 <=> i \in 1 .. n \/ i = n + 1
      BY <1>1
    <3> QED
      BY <1>1, <1>4, <3>1 DEF Near
  <2>2. Cardinality(Near(plan, n, W)) \in Nat /\ Spent(plan, Near(plan, n, W)) \in Nat
    BY <1>1, NearTypes
  <2> QED
    BY <1>1, <1>3, <1>4, <2>1, <2>2
<1>5. CASE a.slot \in W
  <2>1. Near(more, n + 1, W) = Near(more, n, W) \cup {n + 1} /\ n + 1 \notin Near(more, n, W)
    <3>1. \A i \in Int : i \in 1 .. n + 1 <=> i \in 1 .. n \/ i = n + 1
      BY <1>1
    <3>2. n + 1 \notin 1 .. n
      BY <1>1
    <3> QED
      BY <1>1, <1>5, <3>1, <3>2 DEF Near
  <2>2. IsFiniteSet(Near(more, n, W)) /\ Near(more, n, W) \subseteq 1 .. Len(more)
    <3>1. n \in 0 .. Len(more)
      BY <1>1
    <3> QED
      BY <1>1, <3>1, NearTypes
  <2>3. Cardinality(Near(more, n + 1, W)) = Cardinality(Near(more, n, W)) + 1
    BY <2>1, <2>2, FS_AddElement
  <2>4. \A i \in Near(more, n, W) \cup {n + 1} : ErrorAt(more)[i] \in Int
    <3>1. n + 1 \in 1 .. Len(more)
      BY <1>1
    <3> QED
      BY <1>1, <2>2, <3>1, PlacementTypes
  <2>5. Spent(more, Near(more, n + 1, W)) = Spent(more, Near(more, n, W)) + ErrorAt(more)[n + 1]
    BY <2>1, <2>2, <2>4, SumAdd DEF Spent
  <2>6. ErrorAt(more)[n + 1] = Flavours[a.flavour].error
    <3>1. n + 1 \in 1 .. Len(more)
      BY <1>1
    <3> QED
      BY <1>1, <3>1, PlacementTypes
  <2> QED
    BY <1>1, <1>3, <1>5, <2>3, <2>5, <2>6
<1> QED
  BY <1>4, <1>5

\* The places of I in some slots.
InSlots(log, I, W) == {i \in I : log[i].slot \in W}

Places(log, I) == log \in Seq(Placement) /\ I \subseteq 1 .. Len(log)

\* e and c hold the errors and the places of each slot of W.
BySlots(e, c, log, I, W) ==
  \A s \in W : /\ e[s] = Spent(log, InSlots(log, I, {s}))
              /\ c[s] = Cardinality(InSlots(log, I, {s}))

\* Errors and places of each slot add up to those of the slots together.
LEMMA BySlot ==
  ASSUME NEW log, NEW I, Places(log, I), NEW W, W \subseteq Slots, NEW e, NEW c, BySlots(e, c, log, I, W)
  PROVE  /\ SumFunctionOnSet(e, W) = Spent(log, InSlots(log, I, W))
         /\ SumFunctionOnSet(c, W) = Cardinality(InSlots(log, I, W))
         /\ \A s \in W : e[s] \in Nat /\ c[s] \in Nat
<1> DEFINE k == [i \in DOMAIN log |-> log[i].slot]
           err == ErrorAt(log)
<1>0. log \in Seq(Placement) /\ I \subseteq 1 .. Len(log)
  BY DEF Places
<1>1. /\ \A i \in I : err[i] \in Nat /\ err[i] \in Int /\ k[i] = log[i].slot
      /\ IsFiniteSet(I) /\ IsFiniteSet(W)
  <2>1. Len(log) \in Nat /\ IsFiniteSet(1 .. Len(log))
    BY <1>0, PlacementTypes, FS_Interval
  <2>2. IsFiniteSet(I) /\ IsFiniteSet(W)
    BY <1>0, <2>1, SlotBounds, FS_Subset
  <2> QED
    BY <1>0, <2>2, PlacementTypes
<1> HIDE DEF k, err
<1>2. \A s : InSlots(log, I, {s}) = KeyedBy(k, I, s)
  BY <1>1 DEF InSlots, KeyedBy
<1>3. InSlots(log, I, W) = KeyedIn(k, I, W)
  BY <1>1 DEF InSlots, KeyedIn
<1>4. \A s \in W : e[s] = SumFunctionOnSet(err, KeyedBy(k, I, s))
  BY <1>2 DEF BySlots, Spent, err
<1>5. \A s \in W : c[s] = Cardinality(KeyedBy(k, I, s))
  BY <1>2 DEF BySlots
<1>6. SumFunctionOnSet(e, W) = SumFunctionOnSet(err, KeyedIn(k, I, W))
  <2>1. SumsByKey(e, err, k, I, W)
    BY <1>4 DEF SumsByKey
  <2> QED
    BY <1>1, <2>1, SumByKey
<1>7. SumFunctionOnSet(c, W) = Cardinality(KeyedIn(k, I, W))
  BY <1>1, <1>5, CountByKey
<1>8. ASSUME NEW s \in W PROVE e[s] \in Nat /\ c[s] \in Nat
  <2>1. KeyedBy(k, I, s) \subseteq I
    BY DEF KeyedBy
  <2>2. IsFiniteSet(KeyedBy(k, I, s)) /\ \A i \in KeyedBy(k, I, s) : err[i] \in Nat
    BY <1>1, <2>1, FS_Subset
  <2>3. SumFunctionOnSet(err, KeyedBy(k, I, s)) \in Nat
    BY <2>2, SumNat
  <2>4. Cardinality(KeyedBy(k, I, s)) \in Nat
    BY <2>2, FS_CardinalityType
  <2> QED
    BY <1>4, <1>5, <2>3, <2>4
<1> QED
  BY <1>3, <1>6, <1>7, <1>8 DEF Spent, err

\* The sums of a context over some slots.
LEMMA ContextTypes ==
  ASSUME NEW ctx \in Context
  PROVE  /\ \A s \in Slots : /\ ctx.count[s] \in Nat /\ ctx.errors[s] \in Errors
                             /\ ctx.errors[s].sum \in Nat /\ ctx.errors[s].number \in Nat
         /\ \A W \in SUBSET Slots : SumOver(ctx, W) \in Nat /\ NumberOver(ctx, W) \in Nat
         /\ ctx.sum \in Nat /\ ctx.number \in Nat
<1>1. /\ \A s \in Slots : ctx.count[s] \in Nat /\ ctx.errors[s] \in Errors
      /\ ctx.sum \in Nat /\ ctx.number \in Nat
  BY DEF Context
<1>2. \A s \in Slots : ctx.errors[s].sum \in Nat /\ ctx.errors[s].number \in Nat
  BY <1>1 DEF Errors
<1>3. ASSUME NEW W \in SUBSET Slots PROVE SumOver(ctx, W) \in Nat /\ NumberOver(ctx, W) \in Nat
  <2> DEFINE e == [s \in Slots |-> ctx.errors[s].sum]
             c == [s \in Slots |-> ctx.errors[s].number]
  <2>1. IsFiniteSet(W) /\ \A s \in W : e[s] \in Nat /\ c[s] \in Nat
    BY <1>2, SlotBounds, FS_Subset
  <2> HIDE DEF e, c
  <2>2. SumFunctionOnSet(e, W) \in Nat /\ SumFunctionOnSet(c, W) \in Nat
    BY <2>1, SumNat
  <2> QED
    BY <2>2 DEF SumOver, NumberOver, e, c
<1> QED
  BY <1>1, <1>2, <1>3

\* After some rows, the sums over a window have grown by those of the rows.
LEMMA ContextSums ==
  ASSUME NEW ctx \in Context, NEW plan \in Seq(Placement), NEW now,
         After(ctx, now, plan, Len(plan)), NEW W \in SUBSET Slots
  PROVE  /\ SumOver(now, W) = SumOver(ctx, W) + Spent(plan, Near(plan, Len(plan), W))
         /\ NumberOver(now, W) = NumberOver(ctx, W) + Cardinality(Near(plan, Len(plan), W))
<1> DEFINE n == Len(plan)
           I == 1 .. n
           e == [s \in Slots |-> Spent(plan, InSlots(plan, I, {s}))]
           c == [s \in Slots |-> Cardinality(InSlots(plan, I, {s}))]
           sums(x) == [s \in Slots |-> x.errors[s].sum]
           numbers(x) == [s \in Slots |-> x.errors[s].number]
<1>1. \A V : Near(plan, n, V) = InSlots(plan, I, V)
  BY DEF Near, InSlots
<1>2. BySlots(e, c, plan, I, W)
  BY DEF BySlots
<1>3. now \in Context
  BY DEF After
<1>4. \A s \in W : /\ sums(now)[s] = sums(ctx)[s] + e[s]
                   /\ numbers(now)[s] = numbers(ctx)[s] + c[s]
  BY <1>1 DEF After
<1>5. \A s \in W : sums(ctx)[s] \in Nat /\ numbers(ctx)[s] \in Nat
  BY ContextTypes
<1>6. IsFiniteSet(W)
  BY SlotBounds, FS_Subset
<1> HIDE DEF e, c, sums, numbers
<1>7. /\ SumFunctionOnSet(e, W) = Spent(plan, InSlots(plan, I, W))
      /\ SumFunctionOnSet(c, W) = Cardinality(InSlots(plan, I, W))
      /\ \A s \in W : e[s] \in Nat /\ c[s] \in Nat
  <2>1. Places(plan, I) /\ W \subseteq Slots
    BY DEF Places
  <2> HIDE DEF I
  <2> QED
    BY <1>2, <2>1, BySlot
<1>8. SumFunctionOnSet(sums(now), W) = SumFunctionOnSet(sums(ctx), W) + SumFunctionOnSet(e, W)
  <2>1. \A s \in W : sums(ctx)[s] \in Int /\ e[s] \in Int
    BY <1>5, <1>7
  <2> QED
    BY <1>4, <1>6, <2>1, SumPlus
<1>9. SumFunctionOnSet(numbers(now), W)
        = SumFunctionOnSet(numbers(ctx), W) + SumFunctionOnSet(c, W)
  <2>1. \A s \in W : numbers(ctx)[s] \in Int /\ c[s] \in Int
    BY <1>5, <1>7
  <2> QED
    BY <1>4, <1>6, <2>1, SumPlus
<1> QED
  BY <1>1, <1>7, <1>8, <1>9 DEF SumOver, NumberOver, sums, numbers

\* a places the request r in slot s.
Made(a, now, ladder, r, s) ==
  /\ ladder \in Ladder /\ r \in Requests /\ s \in Slots
  /\ a = make_assignment(now, ladder, r, s)

\* A request is placed as a row of the plan.
LEMMA AssignmentTypes ==
  ASSUME NEW ladder, NEW now, NEW r, NEW s, NEW a, Made(a, now, ladder, r, s)
  PROVE  /\ a \in Placement /\ a.req = r /\ a.slot = s
         /\ a.multiplier = capacity_mult(ladder, now.count[s] + 1)
         /\ a.cost \in Nat
         /\ a.flavour = Fallback \/ FitsWindow(now, s, a.flavour)
<1> DEFINE f == pick_feasible_flavour(now, s)
           mult == capacity_mult(ladder, now.count[s] + 1)
           c == Carbon[s]
           d == Flavours[f].duration
<1>0. /\ ladder \in Ladder /\ r \in Requests /\ s \in Slots
      /\ a = make_assignment(now, ladder, r, s)
  BY DEF Made
<1>1. f \in DOMAIN Flavours /\ (f = Fallback \/ FitsWindow(now, s, f))
  BY PickedFlavour
<1>2. mult \in Nat
  BY <1>0, MultiplierType
<1>3. c \in Nat /\ d \in Nat
  BY <1>0, <1>1, SolverAssumption, FlavourTypes
<1>4. a = [req |-> r, slot |-> s, flavour |-> f, multiplier |-> mult, cost |-> c * mult * d]
  BY <1>0 DEF make_assignment
<1>5. r \in DOMAIN ArrivalOf
  BY <1>0, WorkerAssumption
<1> HIDE DEF f, mult, c, d
<1>6. c * mult * d \in Nat
  BY <1>2, <1>3
<1>7. a \in Placement
  BY <1>0, <1>1, <1>2, <1>4, <1>5, <1>6 DEF Placement
<1>8. /\ a.req = r /\ a.slot = s /\ a.multiplier = mult /\ a.cost = c * mult * d
      /\ a.flavour = f
  BY <1>4
<1> QED
  BY <1>1, <1>6, <1>7, <1>8 DEF mult

\* The context of the next request of the batch.
LEMMA ContextGrows ==
  ASSUME NEW ctx \in Context, NEW plan \in Seq(Placement), NEW n, n = Len(plan),
         NEW now, After(ctx, now, plan, n), NEW a \in Placement
  PROVE  After(ctx, WithPlacement(now, a), Append(plan, a), n + 1)
<1> DEFINE then == WithPlacement(now, a)
           more == Append(plan, a)
           e == Flavours[a.flavour].error
<1>1. now \in Context /\ \A s \in Slots :
        /\ now.count[s] = ctx.count[s] + Cardinality(Near(plan, n, {s}))
        /\ now.errors[s].sum = ctx.errors[s].sum + Spent(plan, Near(plan, n, {s}))
        /\ now.errors[s].number = ctx.errors[s].number + Cardinality(Near(plan, n, {s}))
  BY DEF After, CountAt
<1>2. a.slot \in Slots /\ e \in Nat
  BY FlavourTypes DEF Placement
<1>3. /\ now.count \in [Slots -> Nat] /\ now.errors \in [Slots -> Errors]
      /\ now.sum \in Nat /\ now.number \in Nat
  BY <1>1 DEF Context
<1>4. \A s \in Slots : /\ now.count[s] \in Nat /\ now.errors[s] \in Errors
                       /\ now.errors[s].sum \in Nat /\ now.errors[s].number \in Nat
                       /\ ctx.count[s] \in Nat
                       /\ ctx.errors[s].sum \in Nat /\ ctx.errors[s].number \in Nat
  BY <1>1, ContextTypes
<1>5. /\ then.count = [now.count EXCEPT ![a.slot] = @ + 1]
      /\ then.errors = [now.errors EXCEPT ![a.slot] = [sum |-> @.sum + e, number |-> @.number + 1]]
      /\ then.sum = now.sum + e /\ then.number = now.number + 1
      /\ then = [count |-> then.count, errors |-> then.errors, sum |-> then.sum,
                 number |-> then.number]
  BY DEF WithPlacement
<1> HIDE DEF then, e
<1>6. /\ then.count \in [Slots -> Nat]
      /\ \A s \in Slots : then.count[s] = now.count[s] + (IF s = a.slot THEN 1 ELSE 0)
  <2> DEFINE new == now.count[a.slot] + 1
  <2>1. then.count = [now.count EXCEPT ![a.slot] = new]
    BY <1>5
  <2>2. new \in Nat
    BY <1>2, <1>4
  <2>3. \A s \in Slots : then.count[s] = IF s = a.slot THEN new ELSE now.count[s]
    <3> HIDE DEF new
    <3> QED
      BY <1>3, <2>1
  <2>4. then.count \in [Slots -> Nat]
    <3> HIDE DEF new
    <3> QED
      BY <1>3, <2>1, <2>2
  <2>5. ASSUME NEW s \in Slots
        PROVE  then.count[s] = now.count[s] + (IF s = a.slot THEN 1 ELSE 0)
    BY <1>4, <2>3
  <2> QED
    BY <2>4, <2>5
<1>7. /\ then.errors \in [Slots -> Errors]
      /\ \A s \in Slots : 
           /\ then.errors[s].sum = now.errors[s].sum + (IF s = a.slot THEN e ELSE 0)
           /\ then.errors[s].number = now.errors[s].number + (IF s = a.slot THEN 1 ELSE 0)
  <2> DEFINE new == [sum |-> now.errors[a.slot].sum + e, number |-> now.errors[a.slot].number + 1]
  <2>1. then.errors = [now.errors EXCEPT ![a.slot] = new]
    BY <1>5
  <2>2. new \in Errors /\ new.sum = now.errors[a.slot].sum + e
        /\ new.number = now.errors[a.slot].number + 1
    BY <1>2, <1>4 DEF Errors
  <2> HIDE DEF new
  <2>3. \A s \in Slots : then.errors[s] = IF s = a.slot THEN new ELSE now.errors[s]
    BY <1>3, <2>1
  <2>4. then.errors \in [Slots -> Errors]
    BY <1>3, <2>1, <2>2
  <2>5. ASSUME NEW s \in Slots
        PROVE  /\ then.errors[s].sum = now.errors[s].sum + (IF s = a.slot THEN e ELSE 0)
               /\ then.errors[s].number = now.errors[s].number + (IF s = a.slot THEN 1 ELSE 0)
    BY <1>4, <2>2, <2>3
  <2> QED
    BY <2>4, <2>5
<1>8. then \in Context
  <2>1. then.sum \in Nat /\ then.number \in Nat
    BY <1>2, <1>3, <1>5
  <2>2. [count |-> then.count, errors |-> then.errors, sum |-> then.sum,
         number |-> then.number] \in Context
    BY <1>6, <1>7, <2>1 DEF Context
  <2> QED
    BY <1>5, <2>2
<1>9. ASSUME NEW s \in Slots
      PROVE  /\ Cardinality(Near(more, n + 1, {s}))
                  = Cardinality(Near(plan, n, {s})) + (IF s = a.slot THEN 1 ELSE 0)
             /\ Spent(more, Near(more, n + 1, {s}))
                  = Spent(plan, Near(plan, n, {s})) + (IF s = a.slot THEN e ELSE 0)
             /\ Cardinality(Near(plan, n, {s})) \in Nat /\ Spent(plan, Near(plan, n, {s})) \in Nat
  <2>1. a.slot \in {s} <=> s = a.slot
    OBVIOUS
  <2>2. n \in 0 .. Len(plan)
    BY PlacementTypes
  <2>3. Cardinality(Near(plan, n, {s})) \in Nat /\ Spent(plan, Near(plan, n, {s})) \in Nat
    BY <2>2, NearTypes
  <2> DEFINE W == {s}
  <2>0. Grown(plan, n, a, more)
    BY DEF Grown
  <2> HIDE DEF W, more
  <2>4. /\ Cardinality(Near(more, n + 1, W))
             = Cardinality(Near(plan, n, W)) + (IF a.slot \in W THEN 1 ELSE 0)
        /\ Spent(more, Near(more, n + 1, W))
             = Spent(plan, Near(plan, n, W))
                 + (IF a.slot \in W THEN Flavours[a.flavour].error ELSE 0)
    BY <2>0, NearGrows
  <2> QED
    BY <2>1, <2>3, <2>4 DEF W, e
<1> HIDE DEF more
<1>10. ASSUME NEW s \in Slots
       PROVE  /\ then.count[s] = ctx.count[s] + Cardinality(Near(more, n + 1, {s}))
              /\ then.errors[s].sum = ctx.errors[s].sum + Spent(more, Near(more, n + 1, {s}))
              /\ then.errors[s].number
                   = ctx.errors[s].number + Cardinality(Near(more, n + 1, {s}))
  <2> DEFINE i == IF s = a.slot THEN 1 ELSE 0
             x == IF s = a.slot THEN e ELSE 0
             k == Cardinality(Near(plan, n, {s}))
             z == Spent(plan, Near(plan, n, {s}))
  <2>1. i \in Nat /\ x \in Nat
    BY <1>2
  <2>2. /\ Cardinality(Near(more, n + 1, {s})) = k + i /\ k \in Nat /\ z \in Nat
        /\ Spent(more, Near(more, n + 1, {s})) = z + x
    BY <1>9
  <2>3. /\ then.count[s] = now.count[s] + i
        /\ then.errors[s].sum = now.errors[s].sum + x
        /\ then.errors[s].number = now.errors[s].number + i
    BY <1>6, <1>7
  <2>4. /\ now.count[s] = ctx.count[s] + k
        /\ now.errors[s].sum = ctx.errors[s].sum + z
        /\ now.errors[s].number = ctx.errors[s].number + k
    BY <1>1
  <2>5. ctx.count[s] \in Nat /\ ctx.errors[s].sum \in Nat /\ ctx.errors[s].number \in Nat
    BY <1>4
  <2> HIDE DEF i, x, k, z
  <2>6. then.count[s] = ctx.count[s] + (k + i)
    BY <2>1, <2>2, <2>3, <2>4, <2>5
  <2>7. then.errors[s].sum = ctx.errors[s].sum + (z + x)
    BY <2>1, <2>2, <2>3, <2>4, <2>5
  <2>8. then.errors[s].number = ctx.errors[s].number + (k + i)
    BY <2>1, <2>2, <2>3, <2>4, <2>5
  <2> QED
    BY <2>2, <2>6, <2>7, <2>8
<1> QED
  BY <1>8, <1>10 DEF After, CountAt, then, more

\* The window check reads the sums over the window.
LEMMA FitsMeans ==
  ASSUME NEW now \in Context, NEW s, NEW f, FitsWindow(now, s, f)
  PROVE  Flavours[f].error + SumOver(now, Window(s)) <= MaxError * (1 + NumberOver(now, Window(s)))
<1> DEFINE W == Window(s)
           e == [x \in W |-> now.errors[x].sum]
           c == [x \in W |-> now.errors[x].number]
           ee == [x \in Slots |-> now.errors[x].sum]
           cc == [x \in Slots |-> now.errors[x].number]
<1>1. W \subseteq Slots /\ IsFiniteSet(W)
  <2>1. W \subseteq Slots
    BY DEF Window
  <2> HIDE DEF W
  <2> QED
    BY <2>1, SlotBounds, FS_Subset
<1>2. \A x \in W : ee[x] \in Int /\ e[x] = ee[x] /\ cc[x] \in Int /\ c[x] = cc[x]
  <2> HIDE DEF W
  <2> QED
    BY <1>1, ContextTypes
<1>3. SumFunction(e) = SumFunctionOnSet(e, W) /\ SumFunction(c) = SumFunctionOnSet(c, W)
  BY DEF SumFunction
<1>4. Flavours[f].error + SumFunction(e) <= MaxError * (1 + SumFunction(c))
  BY DEF FitsWindow, Window
<1> HIDE DEF e, c, ee, cc, W
<1>5. SumFunctionOnSet(e, W) = SumFunctionOnSet(ee, W)
  BY <1>1, <1>2, SumSame
<1>6. SumFunctionOnSet(c, W) = SumFunctionOnSet(cc, W)
  BY <1>1, <1>2, SumSame
<1> QED
  BY <1>3, <1>4, <1>5, <1>6 DEF SumOver, NumberOver, W, ee, cc

\* n requests of the batch are placed, and now is the context the next one sees.
Reached(ladder, ctx, batch, n, plan, now) ==
  PlanGood(ladder, ctx, batch, n, plan) /\ After(ctx, now, plan, n)

\* The batch has another request, which may go to slot s.
MayPlace(ladder, ctx, batch, n, s) ==
  /\ ladder \in Ladder /\ ctx \in Context /\ batch \in Seq(Requests)
  /\ n \in Nat /\ n + 1 \in 1 .. Len(batch) /\ s \in Slots

\* The next request of the batch becomes a good row of the plan.
LEMMA RowAdded ==
  ASSUME NEW ladder, NEW ctx, NEW batch, NEW n, NEW s, MayPlace(ladder, ctx, batch, n, s),
         NEW plan, NEW now, Reached(ladder, ctx, batch, n, plan, now)
  PROVE  LET a == make_assignment(now, ladder, batch[n + 1], s)
         IN /\ a \in Placement
            /\ Reached(ladder, ctx, batch, n + 1, Append(plan, a), WithPlacement(now, a))
<1> DEFINE r == batch[n + 1]
           a == make_assignment(now, ladder, r, s)
           more == Append(plan, a)
           W == Window(s)
           e == Flavours[a.flavour].error
<1>0. /\ ladder \in Ladder /\ ctx \in Context /\ batch \in Seq(Requests)
      /\ n \in Nat /\ n + 1 \in 1 .. Len(batch) /\ s \in Slots
  BY DEF MayPlace
<1>1. /\ plan \in Seq(Placement) /\ Len(plan) = n /\ After(ctx, now, plan, n)
      /\ now \in Context /\ \A i \in 1 .. n : RowGood(ladder, ctx, batch, plan, i)
  BY DEF Reached, PlanGood, After
<1>2. r \in Requests
  BY <1>0, SeqElement
<1>3. /\ a \in Placement /\ a.req = batch[n + 1] /\ a.slot = s
      /\ a.multiplier = capacity_mult(ladder, now.count[s] + 1)
      /\ a.flavour = Fallback \/ FitsWindow(now, s, a.flavour)
  <2>0. Made(a, now, ladder, r, s)
    BY <1>0, <1>2 DEF Made
  <2> HIDE DEF r, a
  <2>1. /\ a \in Placement /\ a.req = r /\ a.slot = s
        /\ a.multiplier = capacity_mult(ladder, now.count[s] + 1)
        /\ a.flavour = Fallback \/ FitsWindow(now, s, a.flavour)
    BY <2>0, AssignmentTypes
  <2> QED
    BY <2>1 DEF r
<1> HIDE DEF a
<1>4. After(ctx, WithPlacement(now, a), more, n + 1)
  BY <1>0, <1>1, <1>3, ContextGrows
<1>5. Grown(plan, n, a, more)
  BY <1>1, <1>3 DEF Grown
<1> HIDE DEF more, W
<1>6. /\ more \in Seq(Placement) /\ Len(more) = n + 1 /\ more[n + 1] = a
      /\ \A i \in 1 .. n : more[i] = plan[i]
      /\ \A V : \A i \in 0 .. n : /\ Near(more, i, V) = Near(plan, i, V)
                                  /\ Spent(more, Near(more, i, V)) = Spent(plan, Near(plan, i, V))
  <2>1. /\ more \in Seq(Placement) /\ Len(more) = n + 1 /\ more[n + 1] = a
        /\ \A i \in 1 .. n : more[i] = plan[i]
    BY <1>5, GrownPlan
  <2>2. ASSUME NEW V, NEW i \in 0 .. n
        PROVE  /\ Near(more, i, V) = Near(plan, i, V)
               /\ Spent(more, Near(more, i, V)) = Spent(plan, Near(plan, i, V))
    BY <1>5, NearKept
  <2> QED
    BY <2>1, <2>2
<1>7. ASSUME NEW i \in 1 .. n PROVE RowGood(ladder, ctx, batch, more, i)
  <2>1. RowGood(ladder, ctx, batch, plan, i) /\ more[i] = plan[i] /\ i \in 0 .. n
    BY <1>0, <1>1, <1>6
  <2>2. \A V : /\ Cardinality(Near(more, i, V)) = Cardinality(Near(plan, i, V))
               /\ Spent(more, Near(more, i, V)) = Spent(plan, Near(plan, i, V))
    BY <1>6, <2>1
  <2>3. \A V : Within(ctx, more, i, V) <=> Within(ctx, plan, i, V)
    BY <2>2 DEF Within
  <2>4. \A x : CountAt(ctx, more, i, x) = CountAt(ctx, plan, i, x)
    BY <2>2 DEF CountAt
  <2> QED
    BY <2>1, <2>3, <2>4 DEF RowGood
<1>8. CountAt(ctx, more, n + 1, s) = now.count[s] + 1
  <2> DEFINE V == {s}
  <2>1. a.slot \in V
    BY <1>3
  <2>2. CountAt(ctx, more, n + 1, s) = ctx.count[s] + Cardinality(Near(more, n + 1, V))
        /\ now.count[s] = ctx.count[s] + Cardinality(Near(plan, n, V))
    BY <1>0, <1>1 DEF CountAt, After
  <2> HIDE DEF V
  <2>3. Cardinality(Near(more, n + 1, V)) = Cardinality(Near(plan, n, V)) + 1
    BY <1>5, <2>1, NearGrows
  <2>4. n \in 0 .. Len(plan)
    BY <1>0, <1>1
  <2>5. Cardinality(Near(plan, n, V)) \in Nat
    BY <1>1, <2>4, NearTypes
  <2>6. ctx.count[s] \in Nat
    BY <1>0, ContextTypes
  <2> QED
    BY <2>2, <2>3, <2>5, <2>6
<1>9. ASSUME FitsWindow(now, s, a.flavour) PROVE Within(ctx, more, n + 1, W)
  <2>1. e + SumOver(now, W) <= MaxError * (1 + NumberOver(now, W))
    BY <1>1, <1>9, FitsMeans DEF W
  <2>2. W \subseteq Slots
    BY DEF Window, W
  <2>3. /\ SumOver(now, W) = SumOver(ctx, W) + Spent(plan, Near(plan, n, W))
        /\ NumberOver(now, W) = NumberOver(ctx, W) + Cardinality(Near(plan, n, W))
    BY <1>0, <1>1, <2>2, ContextSums
  <2>4. n \in 0 .. Len(plan) /\ e \in Nat
    BY <1>0, <1>1, <1>3, FlavourTypes DEF Placement
  <2>5. Cardinality(Near(plan, n, W)) \in Nat /\ Spent(plan, Near(plan, n, W)) \in Nat
    BY <1>1, <2>4, NearTypes
  <2>6. SumOver(ctx, W) \in Nat /\ NumberOver(ctx, W) \in Nat
    BY <1>0, <2>2, ContextTypes
  <2>7. s \in Int /\ WindowPast \in Nat /\ WindowFuture \in Nat
    BY <1>0, SolverAssumption, SlotBounds
  <2>8. a.slot \in W
    BY <1>0, <1>3, <2>7 DEF W, Window
  <2>9. /\ Cardinality(Near(more, n + 1, W)) = Cardinality(Near(plan, n, W)) + 1
        /\ Spent(more, Near(more, n + 1, W)) = Spent(plan, Near(plan, n, W)) + e
    BY <1>5, <2>8, NearGrows
  <2> DEFINE x == SumOver(ctx, W)
             y == NumberOver(ctx, W)
             k == Cardinality(Near(plan, n, W))
             z == Spent(plan, Near(plan, n, W))
  <2>10. /\ e + (x + z) <= MaxError * (1 + (y + k))
         /\ x \in Nat /\ y \in Nat /\ k \in Nat /\ z \in Nat
    BY <2>1, <2>3, <2>5, <2>6
  <2>11. (Within(ctx, more, n + 1, W) <=> x + (z + e) <= MaxError * (y + (k + 1)))
    BY <2>9 DEF Within
  <2> HIDE DEF x, y, k, z, e
  <2>12. 1 + (y + k) = y + (k + 1) /\ e + (x + z) = x + (z + e)
    BY <2>4, <2>10
  <2> QED
    BY <2>10, <2>11, <2>12
<1>10. RowGood(ladder, ctx, batch, more, n + 1)
  BY <1>3, <1>6, <1>8, <1>9 DEF RowGood, W
<1>11. PlanGood(ladder, ctx, batch, n + 1, more)
  <2>1. \A i \in 1 .. n + 1 : i \in 1 .. n \/ i = n + 1
    BY <1>0
  <2> QED
    BY <1>6, <1>7, <1>10, <2>1 DEF PlanGood
<1> QED
  BY <1>3, <1>4, <1>11 DEF Reached, a, more

-----------------------------------------------------------------------------
(* The solvers: what a batch may be planned as. *)

\* The bandit's estimates, and the colony's pheromone.
Bandits == [n : [Slots -> Nat], sum : [Slots -> Nat]]
Deposits == [slot : Slots, cost : Nat, at : Nat]
Colonies == [evaporations : Nat, deposits : Seq(Deposits)]

\* An estimate is a fraction with a positive denominator.
LEMMA EstimateTypes ==
  ASSUME NEW learned \in Bandits, NEW s \in Slots
  PROVE  q(learned, s)[1] \in Nat /\ q(learned, s)[2] \in Nat \ {0}
<1>1. learned.n[s] \in Nat /\ learned.sum[s] \in Nat
  BY DEF Bandits
<1>2. InitialQ \in Nat
  BY SolverAssumption
<1>3. CASE learned.n[s] = 0
  <2>1. q(learned, s) = <<InitialQ, 1>>
    BY <1>3 DEF q
  <2> QED
    BY <1>2, <2>1
<1>4. CASE learned.n[s] # 0
  <2>1. q(learned, s) = <<learned.sum[s], learned.n[s]>>
    BY <1>4 DEF q
  <2> QED
    BY <1>1, <1>4, <2>1
<1> QED
  BY <1>3, <1>4

\* A greedy draw finds a slot.
LEMMA GreedyExists ==
  ASSUME NEW learned \in Bandits, NEW S, S \subseteq Slots, S # {}, IsFiniteSet(S)
  PROVE  GreedySlot(learned, S) \in S
<1> DEFINE v(s) == q(learned, s)[1]
           w(s) == q(learned, s)[2]
           NoDearer(s, t) == NotAbove(q(learned, s), q(learned, t))
<1>1. \A x \in S : v(x) \in Nat /\ w(x) \in Nat \ {0} /\ x \in Int
  BY EstimateTypes, SlotBounds
<1>2. \A x, y \in S : NoDearer(x, y) <=> v(x) * w(y) <= v(y) * w(x)
  BY DEF NotAbove
<1> HIDE DEF v, w, NoDearer
<1>3. \A x, y \in S : NoDearer(x, y) \/ NoDearer(y, x)
  <2> SUFFICES ASSUME NEW x \in S, NEW y \in S
               PROVE  NoDearer(x, y) \/ NoDearer(y, x)
    OBVIOUS
  <2>1. v(x) * w(y) \in Nat /\ v(y) * w(x) \in Nat
    BY <1>1
  <2> DEFINE a == v(x) * w(y)
             b == v(y) * w(x)
  <2>2. (NoDearer(x, y) <=> a <= b) /\ (NoDearer(y, x) <=> b <= a)
    BY <1>2
  <2> HIDE DEF a, b
  <2>3. a <= b \/ b <= a
    BY <2>1 DEF a, b
  <2> QED
    BY <2>2, <2>3
<1>4. \A x, y, z \in S : NoDearer(x, y) /\ NoDearer(y, z) => NoDearer(x, z)
  <2> SUFFICES ASSUME NEW x \in S, NEW y \in S, NEW z \in S,
                      v(x) * w(y) <= v(y) * w(x), v(y) * w(z) <= v(z) * w(y)
               PROVE  v(x) * w(z) <= v(z) * w(x)
    BY <1>2
  <2> DEFINE a == v(x)
             b == v(y)
             c == v(z)
             k == w(x)
             l == w(y)
             m == w(z)
  <2>1. /\ a \in Nat /\ b \in Nat /\ c \in Nat
        /\ k \in Nat \ {0} /\ l \in Nat \ {0} /\ m \in Nat \ {0}
        /\ a * l <= b * k /\ b * m <= c * l
    BY <1>1
  <2> HIDE DEF a, b, c, k, l, m
  <2>2. a * m <= c * k
    BY <2>1, CrossOrder
  <2> QED
    BY <2>2 DEF a, c, k, m
<1> DEFINE Before(s, t) == NoDearer(s, t) /\ (NoDearer(t, s) => s <= t)
           R == {p \in S \X S : Before(p[1], p[2])}
<1>5. \A x, y \in S : <<x, y>> \in R <=> Before(x, y)
  OBVIOUS
<1>6. \A x, y \in S : x <= y \/ y <= x
  BY <1>1
<1>7. \A x, y, z \in S : x <= y /\ y <= z => x <= z
  BY <1>1
<1> HIDE DEF R
<1>8. \A x, y \in S : <<x, y>> \in R \/ <<y, x>> \in R
  BY <1>3, <1>5, <1>6
<1>9. \A x, y, z \in S : <<x, y>> \in R /\ <<y, z>> \in R => <<x, z>> \in R
  BY <1>4, <1>5, <1>7
<1>10. \E m \in S : \A y \in S : <<m, y>> \in R
  BY <1>8, <1>9, LeastExists
<1>11. \E m \in S : \A y \in S : Before(m, y)
  BY <1>5, <1>10
<1> QED
  BY <1>11 DEF GreedySlot, NoDearer

\* The slots a draw may take are slots of the horizon.
LEMMA DrawnSlots ==
  ASSUME NEW r \in Requests
  PROVE  /\ valid_slots(r) \subseteq Slots
         /\ \A learned \in Bandits : ChosenSlots(learned, r) \subseteq Slots
<1> DEFINE S == valid_slots(r)
<1>1. S \subseteq Slots /\ S # {} /\ IsFiniteSet(S)
  BY CandidateSlots
<1> SUFFICES ASSUME NEW learned \in Bandits PROVE ChosenSlots(learned, r) \subseteq Slots
  BY <1>1
<1>2. ChosenSlots(learned, r) = IF Explore THEN S ELSE {GreedySlot(learned, S)}
  BY DEF ChosenSlots
<1> HIDE DEF S
<1>3. GreedySlot(learned, S) \in S
  BY <1>1, GreedyExists
<1> QED
  BY <1>1, <1>2, <1>3

\* A sample keeps the types of the estimates.
LEMMA SampleTypes ==
  ASSUME NEW learned \in Bandits, NEW a \in Placement
  PROVE  BanditSample(learned, a) \in Bandits
<1>1. /\ learned.n \in [Slots -> Nat] /\ learned.sum \in [Slots -> Nat]
      /\ a.slot \in Slots /\ a.cost \in Nat
  BY DEF Bandits, Placement
<1>2. /\ [learned.n EXCEPT ![a.slot] = @ + 1] \in [Slots -> Nat]
      /\ [learned.sum EXCEPT ![a.slot] = @ + a.cost] \in [Slots -> Nat]
  BY <1>1
<1> QED
  BY <1>2 DEF Bandits, BanditSample

\* A placement keeps the types of a context.
LEMMA ContextKept ==
  ASSUME NEW ctx \in Context, NEW a \in Placement
  PROVE  WithPlacement(ctx, a) \in Context
<1>1. << >> \in Seq(Placement) /\ Len(<< >>) = 0 /\ 0 = Len(<< >>)
  OBVIOUS
<1>2. \A W : Near(<< >>, 0, W) = {}
  BY DEF Near
<1>3. \A W : Cardinality(Near(<< >>, 0, W)) = 0 /\ Spent(<< >>, Near(<< >>, 0, W)) = 0
  BY <1>2, FS_EmptySet, SumEmpty DEF Spent
<1>4. After(ctx, ctx, << >>, 0)
  BY <1>3, ContextTypes DEF After, CountAt
<1>5. After(ctx, WithPlacement(ctx, a), Append(<< >>, a), 0 + 1)
  BY <1>1, <1>4, ContextGrows
<1> QED
  BY <1>5 DEF After

\* One request more, for a set of ants.
Ants == [plan : Seq(Placement), ctx : Context]
AntStep(ladder) ==
  [x \in (SUBSET Ants) \X Requests |-> UNION {AntPlace(ladder, state, x[2]) : state \in x[1]}]

\* A placement keeps the types of ants.
LEMMA AntStepType ==
  ASSUME NEW ladder \in Ladder
  PROVE  AntStep(ladder) \in [(SUBSET Ants) \X Requests -> SUBSET Ants]
<1> DEFINE A == SUBSET Ants
<1>1. ASSUME NEW X \in A, NEW r \in Requests, NEW state \in X, NEW y \in AntPlace(ladder, state, r)
      PROVE  y \in Ants
  <2>1. /\ state \in Ants /\ state.plan \in Seq(Placement) /\ state.ctx \in Context
    BY DEF Ants
  <2>2. PICK s \in valid_slots(r) :
          y = LET a == make_assignment(state.ctx, ladder, r, s)
              IN [plan |-> Append(state.plan, a), ctx |-> WithPlacement(state.ctx, a)]
    BY DEF AntPlace
  <2>3. s \in Slots
    BY <2>1, DrawnSlots
  <2> DEFINE now == state.ctx
             a == make_assignment(now, ladder, r, s)
  <2>4. Made(a, now, ladder, r, s)
    BY <2>3 DEF Made
  <2>5. y = [plan |-> Append(state.plan, a), ctx |-> WithPlacement(state.ctx, a)]
    BY <2>2
  <2> HIDE DEF a, now
  <2>6. a \in Placement
    BY <2>4, AssignmentTypes
  <2>7. WithPlacement(state.ctx, a) \in Context
    BY <2>1, <2>6, ContextKept
  <2>8. Append(state.plan, a) \in Seq(Placement)
    BY <2>1, <2>6
  <2> QED
    BY <2>5, <2>7, <2>8 DEF Ants
<1>2. \A x \in A \X Requests :
        UNION {AntPlace(ladder, state, x[2]) : state \in x[1]} \in SUBSET Ants
  <2> SUFFICES ASSUME NEW x \in A \X Requests, NEW state \in x[1], NEW y \in AntPlace(ladder, state, x[2])
               PROVE  y \in Ants
    OBVIOUS
  <2>1. x[1] \in A /\ x[2] \in Requests
    OBVIOUS
  <2> HIDE DEF A
  <2> QED
    BY <1>1, <2>1
<1> QED
  BY <1>2 DEF AntStep

\* The states after a batch are those of the fold over its length.
LEMMA AntFolds ==
  ASSUME NEW ladder \in Ladder, NEW ctx \in Context, NEW batch \in Seq(Requests)
  PROVE  /\ Folding(AntStep(ladder), SUBSET Ants, Requests, {[plan |-> << >>, ctx |-> ctx]}, batch)
         /\ AntStates(ctx, ladder, batch) = Left(AntStep(ladder), {[plan |-> << >>, ctx |-> ctx]}, batch)
<1> DEFINE F == AntStep(ladder)
           A == SUBSET Ants
           z == {[plan |-> << >>, ctx |-> ctx]}
           op(X, r) == UNION {AntPlace(ladder, state, r) : state \in X}
           Rec(g) == g = [t \in SUBSET DOMAIN batch |->
                            IF t = {} THEN z ELSE op(g[t \ {Max(t)}], batch[Max(t)])]
           h == CHOOSE g : Rec(g)
<1>1. Folding(F, A, Requests, z, batch)
  <2>1. [plan |-> << >>, ctx |-> ctx] \in Ants
    <3>1. << >> \in Seq(Placement)
      OBVIOUS
    <3> QED
      BY <3>1 DEF Ants
  <2>2. F \in [A \X Requests -> A]
    BY AntStepType
  <2> QED
    BY <2>1, <2>2 DEF Folding, Folder
<1>2. AntStates(ctx, ladder, batch) = h[DOMAIN batch]
  BY DEF AntStates, FoldLeft, MapThenFoldSet
<1>3. \A X \in A, r \in Requests : F[<<X, r>>] = op(X, r)
  BY DEF AntStep
<1> HIDE DEF A, z, F, op
<1>4. Rec(h)
  <2>1. PICK g : IndexFold(g, F, z, batch) /\ \A t \in SUBSET DOMAIN batch : g[t] \in A
    BY <1>1, IndexFoldExists
  <2>2. \A t \in SUBSET DOMAIN batch :
          IndexStep(g, F, z, batch, t) = IF t = {} THEN z ELSE op(g[t \ {Max(t)}], batch[Max(t)])
    <3> SUFFICES ASSUME NEW t \in SUBSET DOMAIN batch, t # {}
                 PROVE  F[<<g[t \ {Max(t)}], batch[Max(t)]>>] = op(g[t \ {Max(t)}], batch[Max(t)])
      BY DEF IndexStep
    <3>1. batch[Max(t)] \in Requests
      BY LastIndex
    <3>2. g[t \ {Max(t)}] \in A
      BY <2>1
    <3> QED
      BY <1>3, <3>1, <3>2
  <2>3. Rec(g)
    BY <2>1, <2>2 DEF IndexFold
  <2> QED
    BY <2>3
<1> HIDE DEF h
<1>5. h[{}] = z
  BY <1>4
<1>6. \A t \in SUBSET DOMAIN batch : t # {} /\ h[t \ {Max(t)}] \in A =>
        h[t] = F[<<h[t \ {Max(t)}], batch[Max(t)]>>]
  <2> SUFFICES ASSUME NEW t \in SUBSET DOMAIN batch, t # {}, h[t \ {Max(t)}] \in A
               PROVE  h[t] = F[<<h[t \ {Max(t)}], batch[Max(t)]>>]
    OBVIOUS
  <2>1. batch[Max(t)] \in Requests
    BY LastIndex
  <2>2. h[t] = op(h[t \ {Max(t)}], batch[Max(t)])
    BY <1>4
  <2> QED
    BY <1>3, <2>1, <2>2
<1>7. Follows(h, F, A, z, batch)
  BY <1>5, <1>6 DEF Follows
<1>8. h[DOMAIN batch] = Left(F, z, batch)
  BY <1>1, <1>7, IndexFoldValue
<1> QED
  BY <1>1, <1>2, <1>8 DEF F, A, z

\* One request more, for a set of bandits.
Learners == [plan : Seq(Placement), ctx : Context, learned : Bandits]
BanditStep(ladder) ==
  [x \in (SUBSET Learners) \X Requests |-> UNION {BanditPlace(ladder, state, x[2]) : state \in x[1]}]

\* A placement keeps the types of bandits.
LEMMA BanditStepType ==
  ASSUME NEW ladder \in Ladder
  PROVE  BanditStep(ladder) \in [(SUBSET Learners) \X Requests -> SUBSET Learners]
<1> DEFINE A == SUBSET Learners
<1>1. ASSUME NEW X \in A, NEW r \in Requests, NEW state \in X, NEW y \in BanditPlace(ladder, state, r)
      PROVE  y \in Learners
  <2>1. /\ state \in Learners /\ state.plan \in Seq(Placement) /\ state.ctx \in Context
        /\ state.learned \in Bandits
    BY DEF Learners
  <2>2. PICK s \in ChosenSlots(state.learned, r) :
          y = LET a == make_assignment(state.ctx, ladder, r, s)
              IN [plan |-> Append(state.plan, a), ctx |-> WithPlacement(state.ctx, a),
                  learned |-> BanditSample(state.learned, a)]
    BY DEF BanditPlace
  <2>3. s \in Slots
    BY <2>1, DrawnSlots
  <2> DEFINE now == state.ctx
             a == make_assignment(now, ladder, r, s)
  <2>4. Made(a, now, ladder, r, s)
    BY <2>3 DEF Made
  <2>5. y = [plan |-> Append(state.plan, a), ctx |-> WithPlacement(state.ctx, a),
                  learned |-> BanditSample(state.learned, a)]
    BY <2>2
  <2> HIDE DEF a, now
  <2>6. a \in Placement
    BY <2>4, AssignmentTypes
  <2>7. WithPlacement(state.ctx, a) \in Context
    BY <2>1, <2>6, ContextKept
  <2>8. Append(state.plan, a) \in Seq(Placement)
    BY <2>1, <2>6
  <2>9. BanditSample(state.learned, a) \in Bandits
    BY <2>1, <2>6, SampleTypes
  <2> QED
    BY <2>5, <2>7, <2>8, <2>9 DEF Learners
<1>2. \A x \in A \X Requests :
        UNION {BanditPlace(ladder, state, x[2]) : state \in x[1]} \in SUBSET Learners
  <2> SUFFICES ASSUME NEW x \in A \X Requests, NEW state \in x[1], NEW y \in BanditPlace(ladder, state, x[2])
               PROVE  y \in Learners
    OBVIOUS
  <2>1. x[1] \in A /\ x[2] \in Requests
    OBVIOUS
  <2> HIDE DEF A
  <2> QED
    BY <1>1, <2>1
<1> QED
  BY <1>2 DEF BanditStep

\* The states after a batch are those of the fold over its length.
LEMMA BanditFolds ==
  ASSUME NEW ladder \in Ladder, NEW ctx \in Context, NEW batch \in Seq(Requests),
         NEW learned \in Bandits
  PROVE  /\ Folding(BanditStep(ladder), SUBSET Learners, Requests, {[plan |-> << >>, ctx |-> ctx, learned |-> learned]}, batch)
         /\ BanditStates(learned, ctx, ladder, batch) = Left(BanditStep(ladder), {[plan |-> << >>, ctx |-> ctx, learned |-> learned]}, batch)
<1> DEFINE F == BanditStep(ladder)
           A == SUBSET Learners
           z == {[plan |-> << >>, ctx |-> ctx, learned |-> learned]}
           op(X, r) == UNION {BanditPlace(ladder, state, r) : state \in X}
           Rec(g) == g = [t \in SUBSET DOMAIN batch |->
                            IF t = {} THEN z ELSE op(g[t \ {Max(t)}], batch[Max(t)])]
           h == CHOOSE g : Rec(g)
<1>1. Folding(F, A, Requests, z, batch)
  <2>1. [plan |-> << >>, ctx |-> ctx, learned |-> learned] \in Learners
    <3>1. << >> \in Seq(Placement)
      OBVIOUS
    <3> QED
      BY <3>1 DEF Learners
  <2>2. F \in [A \X Requests -> A]
    BY BanditStepType
  <2> QED
    BY <2>1, <2>2 DEF Folding, Folder
<1>2. BanditStates(learned, ctx, ladder, batch) = h[DOMAIN batch]
  BY DEF BanditStates, FoldLeft, MapThenFoldSet
<1>3. \A X \in A, r \in Requests : F[<<X, r>>] = op(X, r)
  BY DEF BanditStep
<1> HIDE DEF A, z, F, op
<1>4. Rec(h)
  <2>1. PICK g : IndexFold(g, F, z, batch) /\ \A t \in SUBSET DOMAIN batch : g[t] \in A
    BY <1>1, IndexFoldExists
  <2>2. \A t \in SUBSET DOMAIN batch :
          IndexStep(g, F, z, batch, t) = IF t = {} THEN z ELSE op(g[t \ {Max(t)}], batch[Max(t)])
    <3> SUFFICES ASSUME NEW t \in SUBSET DOMAIN batch, t # {}
                 PROVE  F[<<g[t \ {Max(t)}], batch[Max(t)]>>] = op(g[t \ {Max(t)}], batch[Max(t)])
      BY DEF IndexStep
    <3>1. batch[Max(t)] \in Requests
      BY LastIndex
    <3>2. g[t \ {Max(t)}] \in A
      BY <2>1
    <3> QED
      BY <1>3, <3>1, <3>2
  <2>3. Rec(g)
    BY <2>1, <2>2 DEF IndexFold
  <2> QED
    BY <2>3
<1> HIDE DEF h
<1>5. h[{}] = z
  BY <1>4
<1>6. \A t \in SUBSET DOMAIN batch : t # {} /\ h[t \ {Max(t)}] \in A =>
        h[t] = F[<<h[t \ {Max(t)}], batch[Max(t)]>>]
  <2> SUFFICES ASSUME NEW t \in SUBSET DOMAIN batch, t # {}, h[t \ {Max(t)}] \in A
               PROVE  h[t] = F[<<h[t \ {Max(t)}], batch[Max(t)]>>]
    OBVIOUS
  <2>1. batch[Max(t)] \in Requests
    BY LastIndex
  <2>2. h[t] = op(h[t \ {Max(t)}], batch[Max(t)])
    BY <1>4
  <2> QED
    BY <1>3, <2>1, <2>2
<1>7. Follows(h, F, A, z, batch)
  BY <1>5, <1>6 DEF Follows
<1>8. h[DOMAIN batch] = Left(F, z, batch)
  BY <1>1, <1>7, IndexFoldValue
<1> QED
  BY <1>1, <1>2, <1>8 DEF F, A, z

\* Before the first request the plan is empty.
LEMMA NothingPlaced ==
  ASSUME NEW ladder, NEW ctx \in Context, NEW batch
  PROVE  Reached(ladder, ctx, batch, 0, << >>, ctx)
<1>1. << >> \in Seq(Placement) /\ Len(<< >>) = 0 /\ 1 .. 0 = {}
  OBVIOUS
<1>2. \A W : Near(<< >>, 0, W) = {}
  BY DEF Near
<1>3. \A W : Cardinality(Near(<< >>, 0, W)) = 0 /\ Spent(<< >>, Near(<< >>, 0, W)) = 0
  BY <1>2, FS_EmptySet, SumEmpty DEF Spent
<1>4. After(ctx, ctx, << >>, 0)
  BY <1>3, ContextTypes DEF After, CountAt
<1> QED
  BY <1>1, <1>4 DEF Reached, PlanGood

\* A batch that may be planned.
Planable(ladder, ctx, batch) == ladder \in Ladder /\ ctx \in Context /\ batch \in Seq(Requests)

\* Every plan an ant may build has good rows only.
LEMMA AntsReach ==
  ASSUME NEW ladder, NEW ctx, NEW batch, Planable(ladder, ctx, batch),
         NEW state \in AntStates(ctx, ladder, batch)
  PROVE  Reached(ladder, ctx, batch, Len(batch), state.plan, state.ctx)
<1> DEFINE F == AntStep(ladder)
           A == SUBSET Ants
           z == {[plan |-> << >>, ctx |-> ctx]}
           P == PrefixFold(F, z, batch)
           N == {n \in Nat : n <= Len(batch) =>
                  \A x \in P[n] : Reached(ladder, ctx, batch, n, x.plan, x.ctx)}
<1>0. ladder \in Ladder /\ ctx \in Context /\ batch \in Seq(Requests) /\ Len(batch) \in Nat
  BY DEF Planable
<1>1. Folding(F, A, Requests, z, batch) /\ AntStates(ctx, ladder, batch) = Left(F, z, batch)
  BY <1>0, AntFolds
<1>2. \A x \in z : x.plan = << >> /\ x.ctx = ctx
  OBVIOUS
<1>3. \A X \in A, r \in Requests : F[<<X, r>>] = UNION {AntPlace(ladder, x, r) : x \in X}
  BY DEF AntStep
<1>4. \A X \in A : X \subseteq Ants
  OBVIOUS
<1> HIDE DEF F, A, z
<1>5. /\ P \in [0 .. Len(batch) -> A] /\ P[0] = z
      /\ \A n \in 1 .. Len(batch) : P[n] = F[<<P[n - 1], batch[n]>>]
  BY <1>1, PrefixValues
<1>6. Left(F, z, batch) = P[Len(batch)]
  BY DEF Left
<1> HIDE DEF P
<1>7. 0 \in N
  <2>1. Reached(ladder, ctx, batch, 0, << >>, ctx)
    BY <1>0, NothingPlaced
  <2> QED
    BY <1>2, <1>5, <2>1
<1>8. ASSUME NEW n \in Nat, n \in N PROVE n + 1 \in N
  <2> SUFFICES ASSUME n + 1 <= Len(batch), NEW y \in P[n + 1]
               PROVE  Reached(ladder, ctx, batch, n + 1, y.plan, y.ctx)
    OBVIOUS
  <2> DEFINE r == batch[n + 1]
  <2>1. n + 1 \in 1 .. Len(batch) /\ (n + 1) - 1 = n /\ n \in 0 .. Len(batch) /\ n <= Len(batch)
    BY <1>0
  <2>2. r \in Requests
    BY <1>0, <2>1, SeqElement
  <2>3. P[n + 1] = F[<<P[n], r>>] /\ P[n] \in A
    BY <1>5, <2>1
  <2> HIDE DEF r
  <2>4. PICK x \in P[n] : y \in AntPlace(ladder, x, r)
    BY <1>3, <2>2, <2>3
  <2>5. Reached(ladder, ctx, batch, n, x.plan, x.ctx)
    BY <1>8, <2>1
  <2>6. PICK s \in valid_slots(r) :
          y = LET a == make_assignment(x.ctx, ladder, r, s)
              IN [plan |-> Append(x.plan, a), ctx |-> WithPlacement(x.ctx, a)]
    BY <2>4 DEF AntPlace
  <2>7. s \in Slots
    BY <2>2, DrawnSlots
  <2> DEFINE now == x.ctx
             plan == x.plan
             a == make_assignment(now, ladder, r, s)
  <2>8. y.plan = Append(plan, a) /\ y.ctx = WithPlacement(now, a)
    BY <2>6
  <2>9. MayPlace(ladder, ctx, batch, n, s)
    BY <1>0, <2>1, <2>7 DEF MayPlace
  <2>10. Reached(ladder, ctx, batch, n, plan, now)
    BY <2>5
  <2> HIDE DEF now, plan
  <2>11. Reached(ladder, ctx, batch, n + 1, Append(plan, a), WithPlacement(now, a))
    BY <2>9, <2>10, RowAdded DEF r
  <2> QED
    BY <2>8, <2>11
<1> HIDE DEF N
<1>9. Len(batch) \in N
  BY <1>0, <1>7, <1>8, NatSetInduction
<1> QED
  BY <1>0, <1>1, <1>6, <1>9 DEF N

-----------------------------------------------------------------------------
(* The learning states, as folds over lengths. *)

\* One sample more, and one cost more.
SampleStep == [x \in Bandits \X Placement |-> BanditSample(x[1], x[2])]
CostStep == [x \in Nat \X Placement |-> x[1] + x[2].cost]

\* A plan teaches a bandit its placements one after the other.
LEMMA SampleFolds ==
  ASSUME NEW learned \in Bandits, NEW plan \in Seq(Placement)
  PROVE  Folding(SampleStep, Bandits, Placement, learned, plan) /\ FoldLeft(BanditSample, learned, plan) = Left(SampleStep, learned, plan)
<1> DEFINE F == SampleStep
           A == Bandits
           z == learned
           op(x, y) == BanditSample(x, y)
           Rec(g) == g = [t \in SUBSET DOMAIN plan |->
                            IF t = {} THEN z ELSE op(g[t \ {Max(t)}], plan[Max(t)])]
           h == CHOOSE g : Rec(g)
<1>1. Folding(F, A, Placement, z, plan)
  <2>1. z \in A
    OBVIOUS
  <2>2. \A x \in A, y \in Placement : op(x, y) \in A
    BY SampleTypes
  <2>3. F \in [A \X Placement -> A]
    BY <2>2 DEF SampleStep
  <2> QED
    BY <2>1, <2>3 DEF Folding, Folder
<1>2. FoldLeft(BanditSample, learned, plan) = h[DOMAIN plan]
  BY DEF FoldLeft, MapThenFoldSet
<1>3. \A x \in A, y \in Placement : F[<<x, y>>] = op(x, y)
  BY DEF SampleStep
<1> HIDE DEF A, z, F, op
<1>4. Rec(h)
  <2>1. PICK g : IndexFold(g, F, z, plan) /\ \A t \in SUBSET DOMAIN plan : g[t] \in A
    BY <1>1, IndexFoldExists
  <2>2. \A t \in SUBSET DOMAIN plan :
          IndexStep(g, F, z, plan, t) = IF t = {} THEN z ELSE op(g[t \ {Max(t)}], plan[Max(t)])
    <3> SUFFICES ASSUME NEW t \in SUBSET DOMAIN plan, t # {}
                 PROVE  F[<<g[t \ {Max(t)}], plan[Max(t)]>>] = op(g[t \ {Max(t)}], plan[Max(t)])
      BY DEF IndexStep
    <3>1. plan[Max(t)] \in Placement
      BY LastIndex
    <3>2. g[t \ {Max(t)}] \in A
      BY <2>1
    <3> QED
      BY <1>3, <3>1, <3>2
  <2>3. Rec(g)
    BY <2>1, <2>2 DEF IndexFold
  <2> QED
    BY <2>3
<1> HIDE DEF h
<1>5. h[{}] = z
  BY <1>4
<1>6. \A t \in SUBSET DOMAIN plan : t # {} /\ h[t \ {Max(t)}] \in A =>
        h[t] = F[<<h[t \ {Max(t)}], plan[Max(t)]>>]
  <2> SUFFICES ASSUME NEW t \in SUBSET DOMAIN plan, t # {}, h[t \ {Max(t)}] \in A
               PROVE  h[t] = F[<<h[t \ {Max(t)}], plan[Max(t)]>>]
    OBVIOUS
  <2>1. plan[Max(t)] \in Placement
    BY LastIndex
  <2>2. h[t] = op(h[t \ {Max(t)}], plan[Max(t)])
    BY <1>4
  <2> QED
    BY <1>3, <2>1, <2>2
<1>7. Follows(h, F, A, z, plan)
  BY <1>5, <1>6 DEF Follows
<1>8. h[DOMAIN plan] = Left(F, z, plan)
  BY <1>1, <1>7, IndexFoldValue
<1> QED
  BY <1>1, <1>2, <1>8 DEF F, A, z

\* The cost of a plan adds up the costs of its placements.
LEMMA CostFolds ==
  ASSUME NEW plan \in Seq(Placement)
  PROVE  Folding(CostStep, Nat, Placement, 0, plan) /\ PlanCost(plan) = Left(CostStep, 0, plan)
<1> DEFINE F == CostStep
           A == Nat
           z == 0
           op(x, y) == x + y.cost
           Rec(g) == g = [t \in SUBSET DOMAIN plan |->
                            IF t = {} THEN z ELSE op(g[t \ {Max(t)}], plan[Max(t)])]
           h == CHOOSE g : Rec(g)
<1>1. Folding(F, A, Placement, z, plan)
  <2>1. z \in A
    OBVIOUS
  <2>2. \A x \in A, y \in Placement : op(x, y) \in A
    BY DEF Placement
  <2>3. F \in [A \X Placement -> A]
    BY <2>2 DEF CostStep
  <2> QED
    BY <2>1, <2>3 DEF Folding, Folder
<1>2. PlanCost(plan) = h[DOMAIN plan]
  BY DEF PlanCost, FoldLeft, MapThenFoldSet
<1>3. \A x \in A, y \in Placement : F[<<x, y>>] = op(x, y)
  BY DEF CostStep
<1> HIDE DEF A, z, F, op
<1>4. Rec(h)
  <2>1. PICK g : IndexFold(g, F, z, plan) /\ \A t \in SUBSET DOMAIN plan : g[t] \in A
    BY <1>1, IndexFoldExists
  <2>2. \A t \in SUBSET DOMAIN plan :
          IndexStep(g, F, z, plan, t) = IF t = {} THEN z ELSE op(g[t \ {Max(t)}], plan[Max(t)])
    <3> SUFFICES ASSUME NEW t \in SUBSET DOMAIN plan, t # {}
                 PROVE  F[<<g[t \ {Max(t)}], plan[Max(t)]>>] = op(g[t \ {Max(t)}], plan[Max(t)])
      BY DEF IndexStep
    <3>1. plan[Max(t)] \in Placement
      BY LastIndex
    <3>2. g[t \ {Max(t)}] \in A
      BY <2>1
    <3> QED
      BY <1>3, <3>1, <3>2
  <2>3. Rec(g)
    BY <2>1, <2>2 DEF IndexFold
  <2> QED
    BY <2>3
<1> HIDE DEF h
<1>5. h[{}] = z
  BY <1>4
<1>6. \A t \in SUBSET DOMAIN plan : t # {} /\ h[t \ {Max(t)}] \in A =>
        h[t] = F[<<h[t \ {Max(t)}], plan[Max(t)]>>]
  <2> SUFFICES ASSUME NEW t \in SUBSET DOMAIN plan, t # {}, h[t \ {Max(t)}] \in A
               PROVE  h[t] = F[<<h[t \ {Max(t)}], plan[Max(t)]>>]
    OBVIOUS
  <2>1. plan[Max(t)] \in Placement
    BY LastIndex
  <2>2. h[t] = op(h[t \ {Max(t)}], plan[Max(t)])
    BY <1>4
  <2> QED
    BY <1>3, <2>1, <2>2
<1>7. Follows(h, F, A, z, plan)
  BY <1>5, <1>6 DEF Follows
<1>8. h[DOMAIN plan] = Left(F, z, plan)
  BY <1>1, <1>7, IndexFoldValue
<1> QED
  BY <1>1, <1>2, <1>8 DEF F, A, z

\* It is a natural number.
LEMMA CostType ==
  ASSUME NEW plan \in Seq(Placement)
  PROVE  PlanCost(plan) \in Nat
<1>1. Folding(CostStep, Nat, Placement, 0, plan) /\ PlanCost(plan) = Left(CostStep, 0, plan)
  BY CostFolds
<1> QED
  BY <1>1, LeftLaws

\* What an iteration deposits.
Paid(at, best) ==
  [i \in DOMAIN best |-> [slot |-> best[i].slot, cost |-> PlanCost(best), at |-> at]]

\* An iteration keeps what the colony has and adds its deposits.
LEMMA IterateTypes ==
  ASSUME NEW colony \in Colonies, NEW best \in Seq(Placement)
  PROVE  /\ Iterate(colony, best) \in Colonies
         /\ Iterate(colony, best).evaporations = colony.evaporations + 1
         /\ Iterate(colony, best).deposits
              = colony.deposits \o Paid(colony.evaporations + 1, best)
         /\ Paid(colony.evaporations + 1, best) \in Seq(Deposits)
<1> DEFINE at == colony.evaporations + 1
           c == PlanCost(best)
<1>1. colony.evaporations \in Nat /\ colony.deposits \in Seq(Deposits) /\ at \in Nat
  BY DEF Colonies
<1>2. c \in Nat
  BY CostType
<1>3. \A i \in 1 .. Len(best) : best[i].slot \in Slots
  BY PlacementTypes
<1>4. Paid(at, best) = [i \in 1 .. Len(best) |-> [slot |-> best[i].slot, cost |-> c, at |-> at]]
  BY DEF Paid
<1>5. Iterate(colony, best) = [evaporations |-> at, deposits |-> colony.deposits \o Paid(at, best)]
  BY DEF Iterate, Paid
<1> HIDE DEF at, c
<1>6. Paid(at, best) \in Seq(Deposits)
  <2>1. \A i \in 1 .. Len(best) : [slot |-> best[i].slot, cost |-> c, at |-> at] \in Deposits
    BY <1>1, <1>2, <1>3 DEF Deposits
  <2> QED
    BY <1>4, <2>1
<1>7. colony.deposits \o Paid(at, best) \in Seq(Deposits)
  BY <1>1, <1>6
<1> QED
  BY <1>1, <1>5, <1>6, <1>7 DEF Colonies, at

\* One iteration more.
IterateStep == [x \in Colonies \X Seq(Placement) |-> Iterate(x[1], x[2])]

\* A batch teaches a colony its iterations one after the other.
LEMMA IterateFolds ==
  ASSUME NEW colony \in Colonies, NEW bests \in Seq(Seq(Placement))
  PROVE  Folding(IterateStep, Colonies, Seq(Placement), colony, bests) /\ FoldLeft(Iterate, colony, bests) = Left(IterateStep, colony, bests)
<1> DEFINE F == IterateStep
           A == Colonies
           z == colony
           op(x, y) == Iterate(x, y)
           Rec(g) == g = [t \in SUBSET DOMAIN bests |->
                            IF t = {} THEN z ELSE op(g[t \ {Max(t)}], bests[Max(t)])]
           h == CHOOSE g : Rec(g)
<1>1. Folding(F, A, Seq(Placement), z, bests)
  <2>1. z \in A
    OBVIOUS
  <2>2. \A x \in A, y \in Seq(Placement) : op(x, y) \in A
    BY IterateTypes
  <2>3. F \in [A \X Seq(Placement) -> A]
    BY <2>2 DEF IterateStep
  <2> QED
    BY <2>1, <2>3 DEF Folding, Folder
<1>2. FoldLeft(Iterate, colony, bests) = h[DOMAIN bests]
  BY DEF FoldLeft, MapThenFoldSet
<1>3. \A x \in A, y \in Seq(Placement) : F[<<x, y>>] = op(x, y)
  BY DEF IterateStep
<1> HIDE DEF A, z, F, op
<1>4. Rec(h)
  <2>1. PICK g : IndexFold(g, F, z, bests) /\ \A t \in SUBSET DOMAIN bests : g[t] \in A
    BY <1>1, IndexFoldExists
  <2>2. \A t \in SUBSET DOMAIN bests :
          IndexStep(g, F, z, bests, t) = IF t = {} THEN z ELSE op(g[t \ {Max(t)}], bests[Max(t)])
    <3> SUFFICES ASSUME NEW t \in SUBSET DOMAIN bests, t # {}
                 PROVE  F[<<g[t \ {Max(t)}], bests[Max(t)]>>] = op(g[t \ {Max(t)}], bests[Max(t)])
      BY DEF IndexStep
    <3>1. bests[Max(t)] \in Seq(Placement)
      BY LastIndex
    <3>2. g[t \ {Max(t)}] \in A
      BY <2>1
    <3> QED
      BY <1>3, <3>1, <3>2
  <2>3. Rec(g)
    BY <2>1, <2>2 DEF IndexFold
  <2> QED
    BY <2>3
<1> HIDE DEF h
<1>5. h[{}] = z
  BY <1>4
<1>6. \A t \in SUBSET DOMAIN bests : t # {} /\ h[t \ {Max(t)}] \in A =>
        h[t] = F[<<h[t \ {Max(t)}], bests[Max(t)]>>]
  <2> SUFFICES ASSUME NEW t \in SUBSET DOMAIN bests, t # {}, h[t \ {Max(t)}] \in A
               PROVE  h[t] = F[<<h[t \ {Max(t)}], bests[Max(t)]>>]
    OBVIOUS
  <2>1. bests[Max(t)] \in Seq(Placement)
    BY LastIndex
  <2>2. h[t] = op(h[t \ {Max(t)}], bests[Max(t)])
    BY <1>4
  <2> QED
    BY <1>3, <2>1, <2>2
<1>7. Follows(h, F, A, z, bests)
  BY <1>5, <1>6 DEF Follows
<1>8. h[DOMAIN bests] = Left(F, z, bests)
  BY <1>1, <1>7, IndexFoldValue
<1> QED
  BY <1>1, <1>2, <1>8 DEF F, A, z

\* Every plan of a bandit has good rows only, and its estimates are what they taught.
LEMMA BanditsReach ==
  ASSUME NEW ladder, NEW ctx, NEW batch, Planable(ladder, ctx, batch),
         NEW learned \in Bandits, NEW state \in BanditStates(learned, ctx, ladder, batch)
  PROVE  /\ Reached(ladder, ctx, batch, Len(batch), state.plan, state.ctx)
         /\ state.learned = Left(SampleStep, learned, state.plan)
         /\ state.learned \in Bandits
<1> DEFINE F == BanditStep(ladder)
           A == SUBSET Learners
           z == {[plan |-> << >>, ctx |-> ctx, learned |-> learned]}
           P == PrefixFold(F, z, batch)
           TaughtBy(x) == x.learned = Left(SampleStep, learned, x.plan)
           N == {n \in Nat : n <= Len(batch) =>
                  \A x \in P[n] : Reached(ladder, ctx, batch, n, x.plan, x.ctx) /\ TaughtBy(x)}
<1>0. ladder \in Ladder /\ ctx \in Context /\ batch \in Seq(Requests) /\ Len(batch) \in Nat
  BY DEF Planable
<1>1. Folding(F, A, Requests, z, batch) /\ BanditStates(learned, ctx, ladder, batch) = Left(F, z, batch)
  BY <1>0, BanditFolds
<1>2. \A x \in z : x.plan = << >> /\ x.ctx = ctx /\ x.learned = learned
  OBVIOUS
<1>3. \A X \in A, r \in Requests : F[<<X, r>>] = UNION {BanditPlace(ladder, x, r) : x \in X}
  BY DEF BanditStep
<1>4. \A X \in A : X \subseteq Learners
  OBVIOUS
<1> HIDE DEF F, A, z
<1>5. /\ P \in [0 .. Len(batch) -> A] /\ P[0] = z
      /\ \A n \in 1 .. Len(batch) : P[n] = F[<<P[n - 1], batch[n]>>]
  BY <1>1, PrefixValues
<1>6. Left(F, z, batch) = P[Len(batch)]
  BY DEF Left
<1> HIDE DEF P
<1>7. 0 \in N
  <2>1. Reached(ladder, ctx, batch, 0, << >>, ctx)
    BY <1>0, NothingPlaced
  <2>2. << >> \in Seq(Placement)
    OBVIOUS
  <2>3. Left(SampleStep, learned, << >>) = learned
    <3> DEFINE none == << >>
    <3>0. none \in Seq(Placement)
      BY <2>2
    <3> HIDE DEF none
    <3>1. Folding(SampleStep, Bandits, Placement, learned, none)
      BY <3>0, SampleFolds
    <3> QED
      BY <3>1, LeftLaws
  <2> QED
    BY <1>2, <1>5, <2>1, <2>3
<1>8. ASSUME NEW n \in Nat, n \in N PROVE n + 1 \in N
  <2> SUFFICES ASSUME n + 1 <= Len(batch), NEW y \in P[n + 1]
               PROVE  Reached(ladder, ctx, batch, n + 1, y.plan, y.ctx) /\ TaughtBy(y)
    OBVIOUS
  <2> DEFINE r == batch[n + 1]
  <2>1. n + 1 \in 1 .. Len(batch) /\ (n + 1) - 1 = n /\ n \in 0 .. Len(batch) /\ n <= Len(batch)
    BY <1>0
  <2>2. r \in Requests
    BY <1>0, <2>1, SeqElement
  <2>3. P[n + 1] = F[<<P[n], r>>] /\ P[n] \in A
    BY <1>5, <2>1
  <2> HIDE DEF r
  <2>4. PICK x \in P[n] : y \in BanditPlace(ladder, x, r)
    BY <1>3, <2>2, <2>3
  <2>5. Reached(ladder, ctx, batch, n, x.plan, x.ctx) /\ TaughtBy(x) /\ x \in Learners
    BY <1>4, <1>8, <2>1, <2>3
  <2>6. PICK s \in ChosenSlots(x.learned, r) :
          y = LET a == make_assignment(x.ctx, ladder, r, s)
              IN [plan |-> Append(x.plan, a), ctx |-> WithPlacement(x.ctx, a),
                  learned |-> BanditSample(x.learned, a)]
    BY <2>4 DEF BanditPlace
  <2>7. s \in Slots
    BY <2>2, <2>5, DrawnSlots DEF Learners
  <2> DEFINE now == x.ctx
             plan == x.plan
             known == x.learned
             a == make_assignment(now, ladder, r, s)
  <2>8. y.plan = Append(plan, a) /\ y.ctx = WithPlacement(now, a) /\ y.learned = BanditSample(known, a)
    BY <2>6
  <2>9. MayPlace(ladder, ctx, batch, n, s)
    BY <1>0, <2>1, <2>7 DEF MayPlace
  <2>10. /\ Reached(ladder, ctx, batch, n, plan, now) /\ plan \in Seq(Placement)
         /\ known = Left(SampleStep, learned, plan) /\ known \in Bandits
    BY <2>5 DEF Learners
  <2> HIDE DEF now, plan, known
  <2>11. a \in Placement /\ Reached(ladder, ctx, batch, n + 1, Append(plan, a), WithPlacement(now, a))
    BY <2>9, <2>10, RowAdded DEF r
  <2> HIDE DEF a
  <2>12. Left(SampleStep, learned, Append(plan, a)) = SampleStep[<<known, a>>]
    <3>1. Folding(SampleStep, Bandits, Placement, learned, plan)
      BY <2>10, SampleFolds
    <3> QED
      BY <2>10, <2>11, <3>1, LeftLaws
  <2>13. SampleStep[<<known, a>>] = BanditSample(known, a)
    BY <2>10, <2>11 DEF SampleStep
  <2> QED
    BY <2>8, <2>11, <2>12, <2>13
<1> HIDE DEF N
<1>9. Len(batch) \in N
  BY <1>0, <1>7, <1>8, NatSetInduction
<1>10. state \in P[Len(batch)] /\ P[Len(batch)] \in A
  BY <1>0, <1>1, <1>5, <1>6
<1>11. state.learned \in Bandits
  BY <1>4, <1>10 DEF Learners
<1> QED
  BY <1>0, <1>9, <1>10, <1>11 DEF N

-----------------------------------------------------------------------------
(* The delta of a batch, applied to the state it was learned from, gives the *)
(* state the batch reached.                                                   *)

\* a has the samples of c and more.
Gained(c, a) ==
  /\ c \in Bandits /\ a \in Bandits
  /\ \A s \in Slots : c.n[s] <= a.n[s] /\ (c.n[s] = a.n[s] => c.sum[s] = a.sum[s])

\* The counts and sums of a bandit.
LEMMA BanditFields ==
  ASSUME NEW a \in Bandits
  PROVE  /\ a.n \in [Slots -> Nat] /\ a.sum \in [Slots -> Nat]
         /\ \A s \in Slots : a.n[s] \in Nat /\ a.sum[s] \in Nat
         /\ a = [n |-> a.n, sum |-> a.sum]
BY DEF Bandits

\* One sample more.
LEMMA SampleGains ==
  ASSUME NEW c, NEW a, Gained(c, a), NEW x \in Placement
  PROVE  Gained(c, BanditSample(a, x))
<1> DEFINE b == BanditSample(a, x)
<1>1. c \in Bandits /\ a \in Bandits /\ b \in Bandits
  BY SampleTypes DEF Gained
<1>2. x.slot \in Slots /\ x.cost \in Nat
  BY DEF Placement
<1>3. /\ b.n = [a.n EXCEPT ![x.slot] = @ + 1]
      /\ b.sum = [a.sum EXCEPT ![x.slot] = @ + x.cost]
  BY DEF BanditSample
<1> HIDE DEF b
<1>4. ASSUME NEW s \in Slots
      PROVE  c.n[s] <= b.n[s] /\ (c.n[s] = b.n[s] => c.sum[s] = b.sum[s])
  <2>1. /\ a.n \in [Slots -> Nat] /\ a.sum \in [Slots -> Nat] /\ a.n[s] \in Nat
        /\ c.n[s] \in Nat
    BY <1>1, BanditFields
  <2>2. c.n[s] <= a.n[s] /\ (c.n[s] = a.n[s] => c.sum[s] = a.sum[s])
    BY DEF Gained
  <2>3. CASE s = x.slot
    <3>1. b.n[s] = a.n[s] + 1
      BY <1>3, <2>1, <2>3
    <3> QED
      BY <2>1, <2>2, <3>1
  <2>4. CASE s # x.slot
    <3>1. b.n[s] = a.n[s] /\ b.sum[s] = a.sum[s]
      BY <1>3, <2>1, <2>4
    <3> QED
      BY <2>2, <3>1
  <2> QED
    BY <2>3, <2>4
<1> QED
  BY <1>1, <1>4 DEF Gained, b

\* All of a plan.
LEMMA PlanGains ==
  ASSUME NEW c \in Bandits, NEW plan \in Seq(Placement)
  PROVE  Gained(c, Left(SampleStep, c, plan))
<1> DEFINE P == PrefixFold(SampleStep, c, plan)
           N == {n \in Nat : n <= Len(plan) => Gained(c, P[n])}
<1>0. Folding(SampleStep, Bandits, Placement, c, plan) /\ Len(plan) \in Nat
  BY SampleFolds, PlacementTypes
<1>1. /\ P \in [0 .. Len(plan) -> Bandits] /\ P[0] = c
      /\ \A n \in 1 .. Len(plan) : P[n] = SampleStep[<<P[n - 1], plan[n]>>]
  BY <1>0, PrefixValues
<1>2. Left(SampleStep, c, plan) = P[Len(plan)]
  BY DEF Left
<1> HIDE DEF P
<1>3. 0 \in N
  <2>1. Gained(c, c)
    BY BanditFields DEF Gained
  <2> QED
    BY <1>1, <2>1
<1>4. ASSUME NEW n \in Nat, n \in N PROVE n + 1 \in N
  <2> SUFFICES ASSUME n + 1 <= Len(plan) PROVE Gained(c, P[n + 1])
    OBVIOUS
  <2>1. n + 1 \in 1 .. Len(plan) /\ (n + 1) - 1 = n /\ n <= Len(plan) /\ n \in 0 .. Len(plan)
    BY <1>0
  <2> DEFINE x == plan[n + 1]
  <2>2. x \in Placement /\ P[n] \in Bandits /\ P[n + 1] = SampleStep[<<P[n], x>>]
    BY <1>1, <2>1, PlacementTypes
  <2>3. P[n + 1] = BanditSample(P[n], x)
    BY <2>2 DEF SampleStep
  <2> HIDE DEF x
  <2>4. Gained(c, P[n])
    BY <1>4, <2>1
  <2> QED
    BY <2>2, <2>3, <2>4, SampleGains
<1> HIDE DEF N
<1>5. Len(plan) \in N
  BY <1>0, <1>3, <1>4, NatSetInduction
<1> QED
  BY <1>0, <1>2, <1>5 DEF N

\* merge_bandit undoes BanditDelta.
LEMMA BanditAbsorbs ==
  ASSUME NEW c, NEW a, Gained(c, a)
  PROVE  merge_bandit(c, BanditDelta(c, a)) = a
<1> DEFINE d == BanditDelta(c, a)
           m == merge_bandit(c, d)
<1>1. c \in Bandits /\ a \in Bandits
  BY DEF Gained
<1>2. /\ d.n = [s \in Slots |-> a.n[s] - c.n[s]]
      /\ d.sum = [s \in Slots |-> IF a.n[s] > c.n[s] THEN a.sum[s] - c.sum[s] ELSE 0]
  BY DEF BanditDelta
<1>3. m = [n |-> [s \in Slots |-> c.n[s] + d.n[s]],
           sum |-> [s \in Slots |-> IF d.n[s] = 0 THEN c.sum[s] ELSE c.sum[s] + d.sum[s]]]
  BY DEF merge_bandit
<1> HIDE DEF d, m
<1>4. ASSUME NEW s \in Slots
      PROVE  /\ c.n[s] + d.n[s] = a.n[s]
             /\ (IF d.n[s] = 0 THEN c.sum[s] ELSE c.sum[s] + d.sum[s]) = a.sum[s]
  <2>1. c.n[s] \in Nat /\ c.sum[s] \in Nat /\ a.n[s] \in Nat /\ a.sum[s] \in Nat
    BY <1>1, BanditFields
  <2>2. c.n[s] <= a.n[s] /\ (c.n[s] = a.n[s] => c.sum[s] = a.sum[s])
    BY DEF Gained
  <2>3. /\ d.n[s] = a.n[s] - c.n[s]
        /\ d.sum[s] = IF a.n[s] > c.n[s] THEN a.sum[s] - c.sum[s] ELSE 0
    BY <1>2
  <2> QED
    BY <2>1, <2>2, <2>3
<1>5. /\ [s \in Slots |-> c.n[s] + d.n[s]] = a.n
      /\ [s \in Slots |-> IF d.n[s] = 0 THEN c.sum[s] ELSE c.sum[s] + d.sum[s]] = a.sum
  <2>1. a.n = [s \in Slots |-> a.n[s]] /\ a.sum = [s \in Slots |-> a.sum[s]]
    BY <1>1, BanditFields
  <2>2. \A s \in Slots : c.n[s] + d.n[s] = a.n[s]
    BY <1>4
  <2>3. \A s \in Slots : (IF d.n[s] = 0 THEN c.sum[s] ELSE c.sum[s] + d.sum[s]) = a.sum[s]
    BY <1>4
  <2>4. [s \in Slots |-> c.n[s] + d.n[s]] = [s \in Slots |-> a.n[s]]
    BY <2>2
  <2>5. [s \in Slots |-> IF d.n[s] = 0 THEN c.sum[s] ELSE c.sum[s] + d.sum[s]]
          = [s \in Slots |-> a.sum[s]]
    BY <2>3
  <2> QED
    BY <2>1, <2>4, <2>5
<1> QED
  BY <1>1, <1>3, <1>5, BanditFields DEF d, m

\* a has the deposits of c and more.
Built(c, a) ==
  /\ c \in Colonies /\ a \in Colonies
  /\ Len(c.deposits) <= Len(a.deposits)
  /\ \A i \in 1 .. Len(c.deposits) : c.deposits[i] = a.deposits[i]

\* Evaporations and deposits of a colony.
LEMMA ColonyFields ==
  ASSUME NEW a \in Colonies
  PROVE  /\ a.evaporations \in Nat /\ a.deposits \in Seq(Deposits)
         /\ Len(a.deposits) \in Nat
         /\ a = [evaporations |-> a.evaporations, deposits |-> a.deposits]
BY DEF Colonies

\* One iteration more.
LEMMA IterationBuilds ==
  ASSUME NEW c, NEW a, Built(c, a), NEW best \in Seq(Placement)
  PROVE  Built(c, Iterate(a, best))
<1> DEFINE b == Iterate(a, best)
           more == Paid(a.evaporations + 1, best)
<1>1. c \in Colonies /\ a \in Colonies
  BY DEF Built
<1>2. b \in Colonies /\ b.deposits = a.deposits \o more /\ more \in Seq(Deposits)
  BY <1>1, IterateTypes
<1> HIDE DEF b, more
<1> DEFINE x == c.deposits
           y == a.deposits
           z == b.deposits
<1>3. /\ x \in Seq(Deposits) /\ y \in Seq(Deposits) /\ z = y \o more
      /\ Len(x) <= Len(y) /\ \A i \in 1 .. Len(x) : x[i] = y[i]
  BY <1>1, <1>2, ColonyFields DEF Built
<1> HIDE DEF x, y, z
<1>4. Len(x) <= Len(z) /\ \A i \in 1 .. Len(x) : x[i] = z[i]
  BY <1>2, <1>3
<1> QED
  BY <1>1, <1>2, <1>4 DEF Built, b, x, z

\* All iterations of a batch.
LEMMA LessonBuilds ==
  ASSUME NEW c \in Colonies, NEW bests \in Seq(Seq(Placement))
  PROVE  Built(c, Left(IterateStep, c, bests))
<1> DEFINE P == PrefixFold(IterateStep, c, bests)
           N == {n \in Nat : n <= Len(bests) => Built(c, P[n])}
<1>0. Folding(IterateStep, Colonies, Seq(Placement), c, bests) /\ Len(bests) \in Nat
  BY IterateFolds, SeqElement
<1>1. /\ P \in [0 .. Len(bests) -> Colonies] /\ P[0] = c
      /\ \A n \in 1 .. Len(bests) : P[n] = IterateStep[<<P[n - 1], bests[n]>>]
  BY <1>0, PrefixValues
<1>2. Left(IterateStep, c, bests) = P[Len(bests)]
  BY DEF Left
<1> HIDE DEF P
<1>3. 0 \in N
  <2>1. Built(c, c)
    BY ColonyFields DEF Built
  <2> QED
    BY <1>1, <2>1
<1>4. ASSUME NEW n \in Nat, n \in N PROVE n + 1 \in N
  <2> SUFFICES ASSUME n + 1 <= Len(bests) PROVE Built(c, P[n + 1])
    OBVIOUS
  <2>1. n + 1 \in 1 .. Len(bests) /\ (n + 1) - 1 = n /\ n <= Len(bests) /\ n \in 0 .. Len(bests)
    BY <1>0
  <2> DEFINE x == bests[n + 1]
  <2>2. x \in Seq(Placement) /\ P[n] \in Colonies /\ P[n + 1] = IterateStep[<<P[n], x>>]
    BY <1>1, <2>1, SeqElement
  <2>3. P[n + 1] = Iterate(P[n], x)
    BY <2>2 DEF IterateStep
  <2> HIDE DEF x
  <2>4. Built(c, P[n])
    BY <1>4, <2>1
  <2> QED
    BY <2>2, <2>3, <2>4, IterationBuilds
<1> HIDE DEF N
<1>5. Len(bests) \in N
  BY <1>0, <1>3, <1>4, NatSetInduction
<1> QED
  BY <1>0, <1>2, <1>5 DEF N

\* merge_colony undoes ColonyDelta.
LEMMA ColonyAbsorbs ==
  ASSUME NEW c, NEW a, Built(c, a)
  PROVE  merge_colony(c, ColonyDelta(c, a)) = a
<1> DEFINE x == c.deposits
           y == a.deposits
           e == c.evaporations
           f == a.evaporations
           own == SubSeq(y, Len(x) + 1, Len(y))
           late == [i \in DOMAIN own |-> [own[i] EXCEPT !.at = own[i].at - e]]
           back == [i \in DOMAIN late |-> [late[i] EXCEPT !.at = @ + e]]
<1>1. /\ x \in Seq(Deposits) /\ y \in Seq(Deposits) /\ e \in Nat /\ f \in Nat
      /\ Len(x) <= Len(y) /\ \A i \in 1 .. Len(x) : x[i] = y[i]
      /\ a = [evaporations |-> f, deposits |-> y]
  BY ColonyFields DEF Built
<1>2. merge_colony(c, ColonyDelta(c, a)) = [evaporations |-> e + (f - e), deposits |-> x \o back]
  BY DEF merge_colony, ColonyDelta
<1> HIDE DEF x, y, e, f
<1>3. own \in Seq(Deposits) /\ Len(own) = Len(y) - Len(x) /\ DOMAIN own = 1 .. Len(own)
      /\ \A i \in 1 .. Len(own) : own[i] = y[Len(x) + i]
  BY <1>1
<1>4. y = x \o own
  BY <1>1, <1>3
<1>5. \A i \in DOMAIN own : own[i] \in Deposits
  BY <1>3, SeqElement
<1> HIDE DEF own
<1>6. DOMAIN late = DOMAIN own
  OBVIOUS
<1>7. ASSUME NEW i \in DOMAIN own PROVE [late[i] EXCEPT !.at = @ + e] = own[i]
  <2> DEFINE o == own[i]
  <2>1. o \in Deposits
    BY <1>5
  <2>2. late[i] = [o EXCEPT !.at = o.at - e]
    OBVIOUS
  <2> HIDE DEF o
  <2>3. o = [slot |-> o.slot, cost |-> o.cost, at |-> o.at] /\ o.at \in Nat
    BY <2>1 DEF Deposits
  <2>4. late[i] = [slot |-> o.slot, cost |-> o.cost, at |-> o.at - e]
    BY <2>2, <2>3
  <2> DEFINE l == late[i]
             k == o.at - e
  <2>5. l = [slot |-> o.slot, cost |-> o.cost, at |-> k]
    BY <2>4
  <2> HIDE DEF l, k
  <2>6. [l EXCEPT !.at = @ + e] = [slot |-> o.slot, cost |-> o.cost, at |-> k + e]
    BY <2>5
  <2>7. [late[i] EXCEPT !.at = @ + e] = [slot |-> o.slot, cost |-> o.cost, at |-> (o.at - e) + e]
    BY <2>6 DEF l, k
  <2>8. (o.at - e) + e = o.at
    BY <1>1, <2>3
  <2> QED
    BY <2>3, <2>7, <2>8 DEF o
<1> HIDE DEF late
<1>8. back = [i \in DOMAIN own |-> own[i]]
  BY <1>6, <1>7
<1>9. own = [i \in DOMAIN own |-> own[i]]
  BY <1>3
<1>10. e + (f - e) = f
  BY <1>1
<1> QED
  BY <1>1, <1>2, <1>4, <1>8, <1>9, <1>10

-----------------------------------------------------------------------------
(* Either strategy. *)

StatesOf(strategy) == IF strategy = "bandit" THEN Bandits ELSE Colonies
Fresh(strategy) == IF strategy = "bandit" THEN NewBandit ELSE NewColony
Absorb(strategy, learned, delta) ==
  IF strategy = "bandit" THEN merge_bandit(learned, delta) ELSE merge_colony(learned, delta)

\* At least one plan.
Lessons == Seq(Seq(Placement)) \ {<< >>}

\* What a lesson makes of a state, and all of a log of lessons of a fresh one.
Teach(strategy, learned, lesson) ==
  IF strategy = "bandit" THEN Left(SampleStep, learned, lesson[1])
  ELSE Left(IterateStep, learned, lesson)
TeachStep(strategy) ==
  [x \in StatesOf(strategy) \X Lessons |-> Teach(strategy, x[1], x[2])]
Knowledge(strategy, log) == Left(TeachStep(strategy), Fresh(strategy), log)

\* A strategy starts with a state of its own.
LEMMA FreshType ==
  ASSUME NEW strategy
  PROVE  Fresh(strategy) \in StatesOf(strategy)
<1>1. NewBandit \in Bandits
  BY DEF NewBandit, Bandits
<1>2. NewColony \in Colonies
  <2>1. << >> \in Seq(Deposits)
    OBVIOUS
  <2> QED
    BY <2>1 DEF NewColony, Colonies
<1> QED
  BY <1>1, <1>2 DEF Fresh, StatesOf

\* A lesson has a first plan.
LEMMA LessonTypes ==
  ASSUME NEW lesson \in Lessons
  PROVE  lesson \in Seq(Seq(Placement)) /\ lesson[1] \in Seq(Placement)
<1> DEFINE S == Seq(Placement)
<1>1. lesson \in Seq(S) /\ lesson # << >>
  BY DEF Lessons
<1> HIDE DEF S
<1>2. lesson[1] \in S
  BY <1>1
<1> QED
  BY <1>1, <1>2 DEF S

\* A lesson keeps the types of the state.
LEMMA TeachType ==
  ASSUME NEW strategy, NEW learned \in StatesOf(strategy), NEW lesson \in Lessons
  PROVE  Teach(strategy, learned, lesson) \in StatesOf(strategy)
<1>1. lesson \in Seq(Seq(Placement)) /\ lesson[1] \in Seq(Placement)
  BY LessonTypes
<1>2. CASE strategy = "bandit"
  <2> DEFINE plan == lesson[1]
  <2>1. learned \in Bandits /\ plan \in Seq(Placement)
    BY <1>1, <1>2 DEF StatesOf
  <2> HIDE DEF plan
  <2>2. Folding(SampleStep, Bandits, Placement, learned, plan)
    BY <2>1, SampleFolds
  <2>3. Left(SampleStep, learned, plan) \in Bandits
    BY <2>2, LeftLaws
  <2> QED
    BY <1>2, <2>3 DEF Teach, StatesOf, plan
<1>3. CASE strategy # "bandit"
  <2>1. learned \in Colonies
    BY <1>3 DEF StatesOf
  <2>2. Folding(IterateStep, Colonies, Seq(Placement), learned, lesson)
    BY <1>1, <2>1, IterateFolds
  <2>3. Left(IterateStep, learned, lesson) \in Colonies
    BY <2>2, LeftLaws
  <2> QED
    BY <1>3, <2>3 DEF Teach, StatesOf
<1> QED
  BY <1>2, <1>3

\* What the present strategy learns from a lesson.
LEMMA TaughtIsTeach ==
  ASSUME NEW learned \in StatesOf(Strategy), NEW lesson \in Lessons
  PROVE  Taught(learned, lesson) = Teach(Strategy, learned, lesson)
<1>1. lesson \in Seq(Seq(Placement)) /\ lesson[1] \in Seq(Placement)
  BY LessonTypes
<1>2. CASE Strategy = "bandit"
  <2>1. learned \in Bandits
    BY <1>2 DEF StatesOf
  <2>2. FoldLeft(BanditSample, learned, lesson[1]) = Left(SampleStep, learned, lesson[1])
    BY <1>1, <2>1, SampleFolds
  <2> QED
    BY <1>2, <2>2 DEF Taught, Teach
<1>3. CASE Strategy # "bandit"
  <2>1. learned \in Colonies
    BY <1>3 DEF StatesOf
  <2>2. FoldLeft(Iterate, learned, lesson) = Left(IterateStep, learned, lesson)
    BY <1>1, <2>1, IterateFolds
  <2> QED
    BY <1>3, <2>2 DEF Taught, Teach
<1> QED
  BY <1>2, <1>3

\* The state after a log of lessons, and after one more.
LEMMA KnowledgeGrows ==
  ASSUME NEW strategy, NEW log \in Seq(Lessons)
  PROVE  /\ Knowledge(strategy, log) \in StatesOf(strategy)
         /\ Knowledge(strategy, << >>) = Fresh(strategy)
         /\ \A lesson \in Lessons :
              Knowledge(strategy, Append(log, lesson))
                = Teach(strategy, Knowledge(strategy, log), lesson)
<1> DEFINE F == TeachStep(strategy)
           A == StatesOf(strategy)
           z == Fresh(strategy)
<1>1. \A x \in A, y \in Lessons : F[<<x, y>>] = Teach(strategy, x, y) /\ F[<<x, y>>] \in A
  BY TeachType DEF TeachStep
<1>2. F \in [A \X Lessons -> A]
  <2>1. F = [x \in A \X Lessons |-> Teach(strategy, x[1], x[2])]
    BY DEF TeachStep
  <2>2. \A x \in A \X Lessons : Teach(strategy, x[1], x[2]) \in A
    BY TeachType
  <2> QED
    BY <2>1, <2>2
<1>3. z \in A
  BY FreshType
<1>4. \A x : Knowledge(strategy, x) = Left(F, z, x)
  BY DEF Knowledge
<1> HIDE DEF F, A, z
<1>5. Folding(F, A, Lessons, z, log)
  BY <1>2, <1>3 DEF Folding, Folder
<1>6. /\ Left(F, z, log) \in A /\ Left(F, z, << >>) = z
      /\ \A x \in Lessons : Left(F, z, Append(log, x)) = F[<<Left(F, z, log), x>>]
  BY <1>5, LeftLaws
<1> QED
  BY <1>1, <1>4, <1>6 DEF A, z

\* The lessons of a profile, one after the other.
LEMMA KnowledgeFolds ==
  ASSUME NEW log \in Seq(Lessons)
  PROVE  Folding(TeachStep(Strategy), StatesOf(Strategy), Lessons, Fresh(Strategy), log) /\ FoldLeft(Taught, NewState, log) = Left(TeachStep(Strategy), Fresh(Strategy), log)
<1> DEFINE F == TeachStep(Strategy)
           A == StatesOf(Strategy)
           z == Fresh(Strategy)
           op(x, y) == Taught(x, y)
           Rec(g) == g = [t \in SUBSET DOMAIN log |->
                            IF t = {} THEN z ELSE op(g[t \ {Max(t)}], log[Max(t)])]
           h == CHOOSE g : Rec(g)
<1>1. Folding(F, A, Lessons, z, log)
  <2>1. z \in A
    BY FreshType
  <2>2. \A x \in A, y \in Lessons : op(x, y) \in A
    BY TaughtIsTeach, TeachType
  <2>3. F \in [A \X Lessons -> A]
    BY <2>2, TaughtIsTeach DEF TeachStep
  <2> QED
    BY <2>1, <2>3 DEF Folding, Folder
<1>2. FoldLeft(Taught, NewState, log) = h[DOMAIN log]
  BY DEF NewState, Fresh, FoldLeft, MapThenFoldSet
<1>3. \A x \in A, y \in Lessons : F[<<x, y>>] = op(x, y)
  BY TaughtIsTeach DEF TeachStep
<1> HIDE DEF A, z, F, op
<1>4. Rec(h)
  <2>1. PICK g : IndexFold(g, F, z, log) /\ \A t \in SUBSET DOMAIN log : g[t] \in A
    BY <1>1, IndexFoldExists
  <2>2. \A t \in SUBSET DOMAIN log :
          IndexStep(g, F, z, log, t) = IF t = {} THEN z ELSE op(g[t \ {Max(t)}], log[Max(t)])
    <3> SUFFICES ASSUME NEW t \in SUBSET DOMAIN log, t # {}
                 PROVE  F[<<g[t \ {Max(t)}], log[Max(t)]>>] = op(g[t \ {Max(t)}], log[Max(t)])
      BY DEF IndexStep
    <3>1. log[Max(t)] \in Lessons
      BY LastIndex
    <3>2. g[t \ {Max(t)}] \in A
      BY <2>1
    <3> QED
      BY <1>3, <3>1, <3>2
  <2>3. Rec(g)
    BY <2>1, <2>2 DEF IndexFold
  <2> QED
    BY <2>3
<1> HIDE DEF h
<1>5. h[{}] = z
  BY <1>4
<1>6. \A t \in SUBSET DOMAIN log : t # {} /\ h[t \ {Max(t)}] \in A =>
        h[t] = F[<<h[t \ {Max(t)}], log[Max(t)]>>]
  <2> SUFFICES ASSUME NEW t \in SUBSET DOMAIN log, t # {}, h[t \ {Max(t)}] \in A
               PROVE  h[t] = F[<<h[t \ {Max(t)}], log[Max(t)]>>]
    OBVIOUS
  <2>1. log[Max(t)] \in Lessons
    BY LastIndex
  <2>2. h[t] = op(h[t \ {Max(t)}], log[Max(t)])
    BY <1>4
  <2> QED
    BY <1>3, <2>1, <2>2
<1>7. Follows(h, F, A, z, log)
  BY <1>5, <1>6 DEF Follows
<1>8. h[DOMAIN log] = Left(F, z, log)
  BY <1>1, <1>7, IndexFoldValue
<1> QED
  BY <1>1, <1>2, <1>8 DEF F, A, z

-----------------------------------------------------------------------------
(* What solving a batch yields. *)

\* The plan has good rows only, and the lesson makes the state learned of the
\* one before.
Outcome(strategy, ladder, ctx, batch, before, plan, lesson, learned) ==
  /\ PlanGood(ladder, ctx, batch, Len(batch), plan)
  /\ lesson \in Lessons
  /\ learned = Teach(strategy, before, lesson)

\* The serialized bandit.
LEMMA BanditSolves ==
  ASSUME NEW ladder, NEW ctx, NEW batch, Planable(ladder, ctx, batch),
         NEW learned \in Bandits, NEW o \in BanditSolve(learned, ctx, ladder, batch)
  PROVE  /\ Outcome("bandit", ladder, ctx, batch, learned, o.plan, o.lesson, o.learned)
         /\ Gained(learned, o.learned)
<1>1. PICK state \in BanditStates(learned, ctx, ladder, batch) :
        o = [plan |-> state.plan, learned |-> state.learned, lesson |-> <<state.plan>>]
  BY DEF BanditSolve
<1>2. /\ Reached(ladder, ctx, batch, Len(batch), state.plan, state.ctx)
      /\ state.learned = Left(SampleStep, learned, state.plan)
  BY <1>1, BanditsReach
<1> DEFINE plan == state.plan
           after == state.learned
<1>3. o.plan = plan /\ o.learned = after /\ o.lesson = <<plan>>
  BY <1>1
<1>4. PlanGood(ladder, ctx, batch, Len(batch), plan) /\ after = Left(SampleStep, learned, plan)
  BY <1>2 DEF Reached
<1> HIDE DEF plan, after
<1>5. plan \in Seq(Placement)
  BY <1>4 DEF PlanGood
<1>6. <<plan>> \in Lessons /\ <<plan>>[1] = plan
  <2> DEFINE S == Seq(Placement)
  <2>1. plan \in S
    BY <1>5
  <2> HIDE DEF S
  <2>2. <<plan>> \in Seq(S) /\ <<plan>> # << >>
    BY <2>1
  <2> QED
    BY <2>2 DEF Lessons, S
<1>7. Gained(learned, after)
  BY <1>4, <1>5, PlanGains
<1> QED
  BY <1>3, <1>4, <1>6, <1>7 DEF Outcome, Teach

\* The serialized colony.
LEMMA ColonySolves ==
  ASSUME NEW ladder, NEW ctx, NEW batch, Planable(ladder, ctx, batch),
         NEW colony \in Colonies, NEW o \in ColonySolve(colony, ctx, ladder, batch)
  PROVE  /\ \A strategy : strategy # "bandit" =>
              Outcome(strategy, ladder, ctx, batch, colony, o.plan, o.lesson, o.learned)
         /\ Built(colony, o.learned)
<1> DEFINE S == AntSolutions(ctx, ladder, batch)
           Returned(bests) ==
             CHOOSE i \in 1 .. Iterations : \A j \in 1 .. Iterations :
               \/ PlanCost(bests[i]) < PlanCost(bests[j])
               \/ PlanCost(bests[i]) = PlanCost(bests[j]) /\ i <= j
<1>1. PICK bests \in [1 .. Iterations -> S] :
        o = [plan |-> bests[Returned(bests)], learned |-> FoldLeft(Iterate, colony, bests),
             lesson |-> bests]
  BY DEF ColonySolve
<1>2. \A plan \in S : PlanGood(ladder, ctx, batch, Len(batch), plan) /\ plan \in Seq(Placement)
  <2> SUFFICES ASSUME NEW plan \in S
               PROVE  PlanGood(ladder, ctx, batch, Len(batch), plan) /\ plan \in Seq(Placement)
    OBVIOUS
  <2>1. PICK state \in AntStates(ctx, ladder, batch) : plan = state.plan
    BY DEF AntSolutions
  <2>2. Reached(ladder, ctx, batch, Len(batch), state.plan, state.ctx)
    BY <2>1, AntsReach
  <2> QED
    BY <2>1, <2>2 DEF Reached, PlanGood
<1>3. Iterations \in Nat /\ Iterations # 0
  BY SolverAssumption
<1> DEFINE I == 1 .. Iterations
           v == [i \in I |-> PlanCost(bests[i])]
           first == Returned(bests)
<1>4. o.plan = bests[first] /\ o.learned = FoldLeft(Iterate, colony, bests) /\ o.lesson = bests
  BY <1>1
<1> HIDE DEF S
<1>5. \A i \in I : bests[i] \in S /\ bests[i] \in Seq(Placement)
  BY <1>1, <1>2
<1>6. first \in I
  <2>1. \A i \in I : v[i] \in Int /\ v[i] = PlanCost(bests[i])
    BY <1>5, CostType
  <2>2. IsFiniteSet(I) /\ I \subseteq Int /\ I # {}
    <3>1. 1 \in I
      BY <1>3
    <3>2. IsFiniteSet(1 .. Iterations)
      BY <1>3, FS_Interval
    <3> QED
      BY <3>1, <3>2
  <2> HIDE DEF v, I
  <2>3. \E i \in I : \A j \in I : v[i] < v[j] \/ (v[i] = v[j] /\ i <= j)
    BY <2>1, <2>2, FirstOfLeast
  <2>4. \E i \in I : \A j \in I : \/ PlanCost(bests[i]) < PlanCost(bests[j])
                                  \/ PlanCost(bests[i]) = PlanCost(bests[j]) /\ i <= j
    BY <2>1, <2>3
  <2> QED
    BY <2>4 DEF I
<1> HIDE DEF first
<1>7. bests \in Seq(Seq(Placement)) /\ bests # << >>
  <2> DEFINE R == Seq(Placement)
  <2>1. bests \in [1 .. Iterations -> R]
    BY <1>1, <1>5
  <2> HIDE DEF R
  <2>2. bests \in Seq(R) /\ Len(bests) = Iterations
    BY <1>3, <2>1
  <2> QED
    BY <1>3, <2>2 DEF R
<1>8. FoldLeft(Iterate, colony, bests) = Left(IterateStep, colony, bests)
  BY <1>7, IterateFolds
<1>9. Built(colony, Left(IterateStep, colony, bests))
  BY <1>7, LessonBuilds
<1>10. PlanGood(ladder, ctx, batch, Len(batch), o.plan)
  BY <1>2, <1>4, <1>5, <1>6
<1>11. o.lesson \in Lessons
  BY <1>4, <1>7 DEF Lessons
<1> QED
  BY <1>4, <1>8, <1>9, <1>10, <1>11 DEF Outcome, Teach

\* Solving in place.
LEMMA BatchSolved ==
  ASSUME NEW ctx, NEW batch, Planable(tiers, ctx, batch),
         NEW learned \in StatesOf(Strategy), NEW o \in solve_batch(learned, ctx, batch)
  PROVE  Outcome(Strategy, tiers, ctx, batch, learned, o.plan, o.lesson, o.learned)
<1>1. CASE Strategy = "bandit"
  <2>1. learned \in Bandits /\ o \in BanditSolve(learned, ctx, tiers, batch)
    BY <1>1 DEF StatesOf, solve_batch
  <2> QED
    BY <1>1, <2>1, BanditSolves
<1>2. CASE Strategy # "bandit"
  <2>1. learned \in Colonies /\ o \in ColonySolve(learned, ctx, tiers, batch)
    BY <1>2 DEF StatesOf, solve_batch
  <2> QED
    BY <1>2, <2>1, ColonySolves
<1> QED
  BY <1>1, <1>2

\* Solving on a clone: the delta makes of the clone what the lesson teaches it.
LEMMA CloneSolved ==
  ASSUME NEW ctx, NEW batch, Planable(tiers, ctx, batch),
         NEW clone \in StatesOf(Strategy), NEW o \in solve_clone(clone, ctx, batch)
  PROVE  Outcome(Strategy, tiers, ctx, batch, clone, o.plan, o.lesson,
                 Absorb(Strategy, clone, o.delta))
<1>1. CASE Strategy = "bandit"
  <2>1. clone \in Bandits /\ o \in BanditSolveClone(clone, ctx, tiers, batch)
    BY <1>1 DEF StatesOf, solve_clone
  <2>2. PICK x \in BanditSolve(clone, ctx, tiers, batch) :
          o = [plan |-> x.plan, delta |-> BanditDelta(clone, x.learned), lesson |-> x.lesson]
    BY <2>1 DEF BanditSolveClone
  <2>3. /\ Outcome("bandit", tiers, ctx, batch, clone, x.plan, x.lesson, x.learned)
        /\ Gained(clone, x.learned)
    BY <2>1, BanditSolves
  <2>4. merge_bandit(clone, BanditDelta(clone, x.learned)) = x.learned
    BY <2>3, BanditAbsorbs
  <2>5. /\ o.plan = x.plan /\ o.lesson = x.lesson
        /\ Absorb(Strategy, clone, o.delta) = x.learned
    BY <1>1, <2>2, <2>4 DEF Absorb
  <2> QED
    BY <1>1, <2>3, <2>5
<1>2. CASE Strategy # "bandit"
  <2>1. clone \in Colonies /\ o \in ColonySolveClone(clone, ctx, tiers, batch)
    BY <1>2 DEF StatesOf, solve_clone
  <2>2. PICK x \in ColonySolve(clone, ctx, tiers, batch) :
          o = [plan |-> x.plan, delta |-> ColonyDelta(clone, x.learned), lesson |-> x.lesson]
    BY <2>1 DEF ColonySolveClone
  <2>3. /\ Outcome(Strategy, tiers, ctx, batch, clone, x.plan, x.lesson, x.learned)
        /\ Built(clone, x.learned)
    BY <1>2, <2>1, ColonySolves
  <2>4. merge_colony(clone, ColonyDelta(clone, x.learned)) = x.learned
    BY <2>3, ColonyAbsorbs
  <2>5. /\ o.plan = x.plan /\ o.lesson = x.lesson
        /\ Absorb(Strategy, clone, o.delta) = x.learned
    BY <1>2, <2>2, <2>4 DEF Absorb
  <2> QED
    BY <2>3, <2>5
<1> QED
  BY <1>1, <1>2

-----------------------------------------------------------------------------
(* The log of commits, and the context a batch reads from it. *)

OccupancyIn(log, s) == Cardinality({i \in DOMAIN log : log[i].slot = s})

\* The places of a profile's assignments.
OwnRows(log, p) == {i \in 1 .. Len(log) : ProfileOf[log[i].req] = p}

\* The context counts no more than the log holds, and the profile's own errors.
Seen(log, p, ctx) ==
  /\ ctx \in Context
  /\ \A s \in Slots :
       /\ ctx.count[s] <= OccupancyIn(log, s)
       /\ ctx.errors[s].sum = Spent(log, InSlots(log, OwnRows(log, p), {s}))
       /\ ctx.errors[s].number = Cardinality(InSlots(log, OwnRows(log, p), {s}))

\* It counts just what the log holds.
Exact(log, ctx) == \A s \in Slots : ctx.count[s] = OccupancyIn(log, s)

\* Some places of a log.
LEMMA PlacesTypes ==
  ASSUME NEW log, NEW I, Places(log, I)
  PROVE  /\ IsFiniteSet(I) /\ Cardinality(I) \in Nat /\ Cardinality(I) <= Len(log)
         /\ Spent(log, I) \in Nat
         /\ \A i \in I : ErrorAt(log)[i] \in Int /\ ErrorAt(log)[i] = Flavours[log[i].flavour].error
<1>1. log \in Seq(Placement) /\ I \subseteq 1 .. Len(log) /\ Len(log) \in Nat
  BY PlacementTypes DEF Places
<1>2. IsFiniteSet(1 .. Len(log)) /\ Cardinality(1 .. Len(log)) = Len(log)
  <2> DEFINE n == Len(log)
  <2>1. n \in Nat
    BY <1>1
  <2> HIDE DEF n
  <2>2. IsFiniteSet(1 .. n) /\ Cardinality(1 .. n) = n
    BY <2>1, FS_Interval
  <2> QED
    BY <2>2 DEF n
<1>3. IsFiniteSet(I) /\ Cardinality(I) <= Len(log)
  BY <1>1, <1>2, FS_Subset
<1>4. \A i \in I : /\ ErrorAt(log)[i] \in Nat /\ ErrorAt(log)[i] \in Int
                   /\ ErrorAt(log)[i] = Flavours[log[i].flavour].error
  <2>1. \A i \in 1 .. Len(log) : /\ ErrorAt(log)[i] \in Nat /\ ErrorAt(log)[i] \in Int
                                 /\ ErrorAt(log)[i] = Flavours[log[i].flavour].error
    BY <1>1, PlacementTypes
  <2> QED
    BY <1>1, <2>1
<1>5. Spent(log, I) \in Nat
  BY <1>3, <1>4, SumNat DEF Spent
<1>6. Cardinality(I) \in Nat
  BY <1>3, FS_CardinalityType
<1> QED
  BY <1>3, <1>4, <1>5, <1>6

\* ErrorsOf adds up the errors at these places.
LEMMA ErrorsTaken ==
  ASSUME NEW I, Places(assignments, I)
  PROVE  ErrorsOf(I) = [sum |-> Spent(assignments, I), number |-> Cardinality(I)]
<1> DEFINE e == [i \in I |-> Flavours[assignments[i].flavour].error]
           f == ErrorAt(assignments)
<1>1. IsFiniteSet(I) /\ \A i \in I : f[i] \in Int /\ e[i] = f[i]
  BY PlacesTypes
<1>2. SumFunction(e) = SumFunctionOnSet(e, I)
  BY DEF SumFunction
<1>3. ErrorsOf(I) = [sum |-> SumFunction(e), number |-> Cardinality(I)]
  BY DEF ErrorsOf
<1> HIDE DEF e, f
<1>4. SumFunctionOnSet(e, I) = SumFunctionOnSet(f, I)
  BY <1>1, SumSame
<1> QED
  BY <1>2, <1>3, <1>4 DEF Spent, f

\* swarm_context_snapshot_for_profile reads what has been committed.
LEMMA ContextTaken ==
  ASSUME assignments \in Seq(Placement), NEW p
  PROVE  Seen(assignments, p, ContextOf(p)) /\ Exact(assignments, ContextOf(p))
<1> DEFINE log == assignments
           own == OwnRows(log, p)
           at(s) == InSlots(log, own, {s})
           ctx == ContextOf(p)
<1>1. DOMAIN log = 1 .. Len(log) /\ Len(log) \in Nat
  BY PlacementTypes
<1>2. own = {i \in DOMAIN log : ProfileOf[log[i].req] = p}
  BY <1>1 DEF OwnRows
<1>3. \A s : at(s) = {i \in own : log[i].slot = s}
  BY DEF InSlots
<1>4. Places(log, own) /\ \A s : Places(log, at(s))
  BY DEF Places, OwnRows, InSlots
<1>5. ErrorsOf(own) = [sum |-> Spent(log, own), number |-> Cardinality(own)]
  BY <1>4, ErrorsTaken
<1>6. \A s : ErrorsOf(at(s)) = [sum |-> Spent(log, at(s)), number |-> Cardinality(at(s))]
  BY <1>4, ErrorsTaken
<1>7. /\ Spent(log, own) \in Nat /\ Cardinality(own) \in Nat
      /\ \A s : Spent(log, at(s)) \in Nat /\ Cardinality(at(s)) \in Nat
  BY <1>4, PlacesTypes
<1>8. \A s : OccupancyIn(log, s) = Occupancy(s)
  BY DEF OccupancyIn, Occupancy
<1>9. \A s : Occupancy(s) \in Nat
  <2> SUFFICES ASSUME NEW s PROVE Occupancy(s) \in Nat
    OBVIOUS
  <2> DEFINE I == {i \in DOMAIN log : log[i].slot = s}
  <2>1. Places(log, I)
    BY <1>1 DEF Places
  <2>2. Cardinality(I) \in Nat
    BY <2>1, PlacesTypes
  <2> QED
    BY <2>2 DEF Occupancy
<1>10. ctx = [count |-> [s \in Slots |-> Occupancy(s)],
              errors |-> [s \in Slots |-> ErrorsOf(at(s))],
              sum |-> ErrorsOf(own).sum, number |-> ErrorsOf(own).number]
  BY <1>2, <1>3 DEF ContextOf
<1> HIDE DEF own, at, ctx
<1>11. \A s \in Slots : ErrorsOf(at(s)) \in Errors
  BY <1>6, <1>7 DEF Errors
<1>12. ctx \in Context
  BY <1>5, <1>7, <1>9, <1>10, <1>11 DEF Context
<1>13. \A s \in Slots : /\ ctx.count[s] = OccupancyIn(log, s)
                        /\ ctx.errors[s].sum = Spent(log, at(s))
                        /\ ctx.errors[s].number = Cardinality(at(s))
  BY <1>6, <1>8, <1>10
<1>14. \A s : OccupancyIn(log, s) \in Nat
  BY <1>8, <1>9
<1>15. \A s \in Slots : ctx.count[s] <= OccupancyIn(log, s)
  BY <1>13, <1>14
<1>16. \A s \in Slots : /\ ctx.errors[s].sum = Spent(log, InSlots(log, OwnRows(log, p), {s}))
                        /\ ctx.errors[s].number = Cardinality(InSlots(log, OwnRows(log, p), {s}))
  BY <1>13 DEF at, own
<1>17. Seen(log, p, ctx)
  BY <1>12, <1>15, <1>16 DEF Seen
<1>18. Exact(log, ctx)
  BY <1>13 DEF Exact
<1> QED
  BY <1>17, <1>18 DEF ctx

\* more is the log with a plan committed.
Joined(log, plan, more) ==
  log \in Seq(Placement) /\ plan \in Seq(Placement) /\ more = log \o plan

\* The rows of the log, and after them those of the plan.
LEMMA JoinedRows ==
  ASSUME NEW log, NEW plan, NEW more, Joined(log, plan, more)
  PROVE  /\ log \in Seq(Placement) /\ plan \in Seq(Placement) /\ more \in Seq(Placement)
         /\ Len(more) = Len(log) + Len(plan) /\ Len(log) \in Nat /\ Len(plan) \in Nat
         /\ DOMAIN more = 1 .. Len(more)
         /\ \A i \in 1 .. Len(log) : more[i] = log[i]
         /\ \A j \in 1 .. Len(plan) : more[Len(log) + j] = plan[j]
<1> DEFINE S == Placement
<1>1. log \in Seq(S) /\ plan \in Seq(S) /\ more = log \o plan
  BY DEF Joined
<1> HIDE DEF S
<1>2. /\ more \in Seq(S) /\ Len(more) = Len(log) + Len(plan)
      /\ Len(log) \in Nat /\ Len(plan) \in Nat /\ DOMAIN more = 1 .. Len(more)
      /\ \A i \in 1 .. Len(log) : more[i] = log[i]
      /\ \A j \in 1 .. Len(plan) : more[Len(log) + j] = plan[j]
  BY <1>1
<1> QED
  BY <1>1, <1>2 DEF S

\* Places of both add up.
LEMMA JoinedPlaces ==
  ASSUME NEW log, NEW plan, NEW more, Joined(log, plan, more),
         NEW I, NEW J, Places(log, I), Places(plan, J)
  PROVE  LET K == I \cup Shifted(Len(log), J)
         IN /\ Places(more, K)
            /\ Cardinality(K) = Cardinality(I) + Cardinality(J)
            /\ Spent(more, K) = Spent(log, I) + Spent(plan, J)
<1> DEFINE n == Len(log)
           S == Shifted(n, J)
<1>1. /\ Len(more) = n + Len(plan) /\ n \in Nat /\ Len(plan) \in Nat
      /\ more \in Seq(Placement)
      /\ \A i \in 1 .. n : more[i] = log[i]
      /\ \A j \in 1 .. Len(plan) : more[n + j] = plan[j]
  BY JoinedRows
<1>2. I \subseteq 1 .. n /\ J \subseteq 1 .. Len(plan)
  BY DEF Places
<1>3. /\ \A i \in I : i \in 1 .. n /\ i \in 1 .. Len(more)
      /\ \A j \in J : j \in 1 .. Len(plan) /\ n + j \in 1 .. Len(more) /\ n + j \notin 1 .. n
  BY <1>1, <1>2
<1>4. I \cap S = {} /\ S \subseteq 1 .. Len(more) /\ I \subseteq 1 .. Len(more)
  BY <1>2, <1>3 DEF Shifted
<1>5. Places(more, I) /\ Places(more, S) /\ Places(more, I \cup S)
  BY <1>1, <1>4 DEF Places
<1>6. /\ IsFiniteSet(I) /\ IsFiniteSet(J)
      /\ \A i \in I : ErrorAt(log)[i] \in Int /\ ErrorAt(log)[i] = Flavours[log[i].flavour].error
      /\ \A j \in J : ErrorAt(plan)[j] \in Int /\ ErrorAt(plan)[j] = Flavours[plan[j].flavour].error
  BY PlacesTypes
<1>7. /\ \A i \in I : ErrorAt(more)[i] = Flavours[more[i].flavour].error
      /\ \A i \in S : ErrorAt(more)[i] = Flavours[more[i].flavour].error
      /\ \A i \in I \cup S : ErrorAt(more)[i] \in Int
  BY <1>5, PlacesTypes
<1>8. \A i \in I : ErrorAt(log)[i] \in Int /\ ErrorAt(more)[i] = ErrorAt(log)[i]
  BY <1>1, <1>3, <1>6, <1>7
<1>9. \A j \in J : ErrorAt(plan)[j] \in Int /\ ErrorAt(more)[n + j] = ErrorAt(plan)[j]
  BY <1>1, <1>3, <1>6, <1>7 DEF Shifted
<1>10. Spent(more, I) = Spent(log, I)
  BY <1>6, <1>8, SumSame DEF Spent
<1>11. /\ IsFiniteSet(S) /\ Cardinality(S) = Cardinality(J)
       /\ Spent(more, S) = Spent(plan, J)
  <2>1. J \subseteq Int
    BY <1>2
  <2> DEFINE f == ErrorAt(plan)
             g == ErrorAt(more)
  <2>2. \A j \in J : f[j] \in Int /\ g[n + j] = f[j]
    BY <1>9
  <2> HIDE DEF f, g, n
  <2>3. /\ IsFiniteSet(Shifted(n, J)) /\ Cardinality(Shifted(n, J)) = Cardinality(J)
        /\ SumFunctionOnSet(g, Shifted(n, J)) = SumFunctionOnSet(f, J)
    BY <1>1, <1>6, <2>1, <2>2, SumShifted
  <2> QED
    BY <2>3 DEF Spent, f, g, n
<1> HIDE DEF S
<1>12. Spent(more, I \cup S) = Spent(more, I) + Spent(more, S)
  BY <1>4, <1>6, <1>7, <1>11, SumUnion DEF Spent
<1>13. Cardinality(I \cup S) = Cardinality(I) + Cardinality(S)
  BY <1>4, <1>6, <1>11, CardDisjoint
<1> QED
  BY <1>5, <1>10, <1>11, <1>12, <1>13 DEF S

\* Nothing of the plan: the log's own places.
LEMMA JoinedKept ==
  ASSUME NEW log, NEW plan, NEW more, Joined(log, plan, more), NEW I, Places(log, I)
  PROVE  Spent(more, I) = Spent(log, I)
<1>1. /\ Len(more) = Len(log) + Len(plan) /\ Len(log) \in Nat /\ Len(plan) \in Nat
      /\ more \in Seq(Placement)
      /\ \A i \in 1 .. Len(log) : more[i] = log[i]
  BY JoinedRows
<1>2. I \subseteq 1 .. Len(log)
  BY DEF Places
<1>3. \A i \in I : i \in 1 .. Len(log) /\ i \in 1 .. Len(more)
  BY <1>1, <1>2
<1>4. Places(more, I)
  BY <1>1, <1>3 DEF Places
<1>5. /\ IsFiniteSet(I)
      /\ \A i \in I : ErrorAt(log)[i] \in Int /\ ErrorAt(log)[i] = Flavours[log[i].flavour].error
  BY PlacesTypes
<1>6. \A i \in I : ErrorAt(more)[i] = Flavours[more[i].flavour].error
  BY <1>4, PlacesTypes
<1>7. \A i \in I : ErrorAt(log)[i] \in Int /\ ErrorAt(more)[i] = ErrorAt(log)[i]
  BY <1>1, <1>3, <1>5, <1>6
<1> QED
  BY <1>5, <1>7, SumSame DEF Spent

\* A commit adds its rows to the occupancy of their slots.
LEMMA OccupancyJoined ==
  ASSUME NEW log, NEW plan, NEW more, Joined(log, plan, more), NEW s
  PROVE  /\ OccupancyIn(more, s) = OccupancyIn(log, s) + OccupancyIn(plan, s)
         /\ OccupancyIn(log, s) \in Nat /\ OccupancyIn(plan, s) \in Nat
         /\ OccupancyIn(log, s) <= Len(log)
<1> DEFINE I == {i \in 1 .. Len(log) : log[i].slot = s}
           J == {i \in 1 .. Len(plan) : plan[i].slot = s}
           K == {i \in 1 .. Len(more) : more[i].slot = s}
           n == Len(log)
<1>1. /\ log \in Seq(Placement) /\ plan \in Seq(Placement) /\ more \in Seq(Placement)
      /\ Len(more) = n + Len(plan) /\ n \in Nat /\ Len(plan) \in Nat
      /\ \A i \in 1 .. n : more[i] = log[i]
      /\ \A j \in 1 .. Len(plan) : more[n + j] = plan[j]
  BY JoinedRows
<1>2. K = I \cup Shifted(n, J)
  <2>1. ASSUME NEW i \in K PROVE i \in I \cup Shifted(n, J)
    <3>1. CASE i \in 1 .. n
      BY <1>1, <3>1
    <3>2. CASE i \notin 1 .. n
      <4> DEFINE j == i - n
      <4>1. j \in 1 .. Len(plan) /\ i = n + j
        BY <1>1, <3>2
      <4> HIDE DEF j
      <4>2. j \in J
        BY <1>1, <4>1
      <4> QED
        BY <4>1, <4>2 DEF Shifted
    <3> QED
      BY <3>1, <3>2
  <2>2. ASSUME NEW i \in I PROVE i \in K
    BY <1>1
  <2>3. ASSUME NEW j \in J PROVE n + j \in K
    BY <1>1
  <2> QED
    BY <2>1, <2>2, <2>3 DEF Shifted
<1>3. Places(log, I) /\ Places(plan, J)
  BY <1>1 DEF Places
<1>4. /\ DOMAIN log = 1 .. Len(log) /\ DOMAIN plan = 1 .. Len(plan)
      /\ DOMAIN more = 1 .. Len(more)
  BY <1>1, PlacementTypes
<1>5. /\ OccupancyIn(log, s) = Cardinality(I) /\ OccupancyIn(plan, s) = Cardinality(J)
      /\ OccupancyIn(more, s) = Cardinality(K)
  BY <1>4 DEF OccupancyIn
<1> HIDE DEF I, J, K
<1>6. Cardinality(I \cup Shifted(n, J)) = Cardinality(I) + Cardinality(J)
  BY <1>3, JoinedPlaces
<1>7. Cardinality(I) \in Nat /\ Cardinality(J) \in Nat /\ Cardinality(I) <= Len(log)
  BY <1>3, PlacesTypes
<1> QED
  BY <1>2, <1>5, <1>6, <1>7

\* What another profile commits leaves a context as good as it was.
LEMMA SeenKept ==
  ASSUME NEW log, NEW plan, NEW more, Joined(log, plan, more),
         NEW p, \A i \in 1 .. Len(plan) : ProfileOf[plan[i].req] # p,
         NEW ctx, Seen(log, p, ctx)
  PROVE  Seen(more, p, ctx)
<1> DEFINE own == OwnRows(log, p)
<1>1. /\ Len(more) = Len(log) + Len(plan) /\ Len(log) \in Nat /\ Len(plan) \in Nat
      /\ log \in Seq(Placement)
      /\ \A i \in 1 .. Len(log) : more[i] = log[i]
      /\ \A j \in 1 .. Len(plan) : more[Len(log) + j] = plan[j]
  BY JoinedRows
<1>2. OwnRows(more, p) = own
  <2>1. ASSUME NEW i \in OwnRows(more, p) PROVE i \in own
    <3>1. i \in 1 .. Len(more) /\ ProfileOf[more[i].req] = p
      BY <2>1 DEF OwnRows
    <3>2. CASE i \in 1 .. Len(log)
      BY <1>1, <3>1, <3>2 DEF OwnRows
    <3>3. CASE i \notin 1 .. Len(log)
      <4> DEFINE j == i - Len(log)
      <4>1. j \in 1 .. Len(plan) /\ i = Len(log) + j
        BY <1>1, <3>1, <3>3
      <4> HIDE DEF j
      <4> QED
        BY <1>1, <3>1, <4>1
    <3> QED
      BY <3>2, <3>3
  <2>2. ASSUME NEW i \in own PROVE i \in OwnRows(more, p)
    BY <1>1 DEF OwnRows
  <2> QED
    BY <2>1, <2>2
<1>3. \A i \in own : i \in 1 .. Len(log) /\ more[i] = log[i]
  BY <1>1 DEF OwnRows
<1> HIDE DEF own
<1>4. \A W : InSlots(more, own, W) = InSlots(log, own, W)
  BY <1>3 DEF InSlots
<1>5. \A W : Places(log, InSlots(log, own, W))
  BY <1>1, <1>3 DEF Places, InSlots
<1>6. \A W : Spent(more, InSlots(more, own, W)) = Spent(log, InSlots(log, own, W))
  BY <1>4, <1>5, JoinedKept
<1>7. ctx \in Context
  BY DEF Seen
<1>8. \A s \in Slots : /\ ctx.errors[s].sum = Spent(more, InSlots(more, OwnRows(more, p), {s}))
                       /\ ctx.errors[s].number = Cardinality(InSlots(more, OwnRows(more, p), {s}))
  BY <1>2, <1>4, <1>6 DEF Seen, own
<1>9. \A s \in Slots : ctx.count[s] <= OccupancyIn(more, s)
  <2> SUFFICES ASSUME NEW s \in Slots PROVE ctx.count[s] <= OccupancyIn(more, s)
    OBVIOUS
  <2>1. /\ OccupancyIn(more, s) = OccupancyIn(log, s) + OccupancyIn(plan, s)
        /\ OccupancyIn(log, s) \in Nat /\ OccupancyIn(plan, s) \in Nat
    BY OccupancyJoined
  <2>2. ctx.count[s] <= OccupancyIn(log, s) /\ ctx.count[s] \in Nat
    BY <1>7, ContextTypes DEF Seen
  <2> QED
    BY <2>1, <2>2
<1> QED
  BY <1>7, <1>8, <1>9 DEF Seen

-----------------------------------------------------------------------------
(* The error budget. *)

\* The assignments of a profile in some slots, among the first n.
Mine(log, n, p, W) == {i \in 1 .. n : ProfileOf[log[i].req] = p /\ log[i].slot \in W}

\* They keep the average error at the threshold.
Budget(log, n, p, W) == Spent(log, Mine(log, n, p, W)) <= MaxError * Cardinality(Mine(log, n, p, W))

\* Each commit kept the window of its profile, or took the fallback.
Kept(log) ==
  \A i \in 1 .. Len(log) :
    \/ log[i].flavour = Fallback
    \/ Budget(log, i, ProfileOf[log[i].req], Window(log[i].slot))

\* Every request of the batch is the profile's.
BatchOf(batch, p) == \A i \in 1 .. Len(batch) : ProfileOf[batch[i]] = p

\* The plan of a batch of the profile, made against what the log holds.
MadeFrom(log, p, ladder, ctx, batch, plan) ==
  Seen(log, p, ctx) /\ BatchOf(batch, p) /\ PlanGood(ladder, ctx, batch, Len(batch), plan)

\* A window is a set of slots, and holds the slot.
LEMMA WindowSlots ==
  ASSUME NEW s
  PROVE  Window(s) \in SUBSET Slots
BY DEF Window

\* A row within the budget of the plan is within that of the log.
LEMMA BudgetAfter ==
  ASSUME NEW log, NEW plan, NEW more, Joined(log, plan, more),
         NEW p, NEW ladder, NEW ctx, NEW batch, MadeFrom(log, p, ladder, ctx, batch, plan),
         NEW j \in 1 .. Len(plan), NEW W \in SUBSET Slots, Within(ctx, plan, j, W)
  PROVE  Budget(more, Len(log) + j, p, W)
<1> DEFINE n == Len(log)
           own == OwnRows(log, p)
           I == InSlots(log, own, W)
           J == Near(plan, j, W)
           K == Mine(more, n + j, p, W)
<1>1. /\ Len(more) = n + Len(plan) /\ n \in Nat /\ Len(plan) \in Nat
      /\ log \in Seq(Placement) /\ plan \in Seq(Placement)
      /\ \A i \in 1 .. n : more[i] = log[i]
      /\ \A i \in 1 .. Len(plan) : more[n + i] = plan[i]
  BY JoinedRows
<1>2. /\ Seen(log, p, ctx) /\ ctx \in Context
      /\ \A i \in 1 .. Len(plan) : ProfileOf[plan[i].req] = p
  BY DEF MadeFrom, Seen, BatchOf, PlanGood, RowGood
<1>3. K = I \cup Shifted(n, J)
  <2>1. ASSUME NEW i \in K PROVE i \in I \cup Shifted(n, J)
    <3>1. i \in 1 .. n + j /\ ProfileOf[more[i].req] = p /\ more[i].slot \in W
      BY <2>1 DEF Mine
    <3>2. CASE i \in 1 .. n
      BY <1>1, <3>1, <3>2 DEF InSlots, OwnRows
    <3>3. CASE i \notin 1 .. n
      <4> DEFINE k == i - n
      <4>1. k \in 1 .. j /\ i = n + k /\ k \in 1 .. Len(plan)
        BY <1>1, <3>1, <3>3
      <4> HIDE DEF k
      <4>2. k \in J
        BY <1>1, <3>1, <4>1 DEF Near
      <4> QED
        BY <4>1, <4>2 DEF Shifted
    <3> QED
      BY <3>2, <3>3
  <2>2. ASSUME NEW i \in I PROVE i \in K
    <3>1. i \in 1 .. n /\ ProfileOf[log[i].req] = p /\ log[i].slot \in W
      BY <2>2 DEF InSlots, OwnRows
    <3>2. i \in 1 .. n + j
      BY <1>1, <3>1
    <3> QED
      BY <1>1, <3>1, <3>2 DEF Mine
  <2>3. ASSUME NEW k \in J PROVE n + k \in K
    <3>1. k \in 1 .. j /\ k \in 1 .. Len(plan) /\ plan[k].slot \in W
      BY <1>1, <2>3 DEF Near
    <3>2. n + k \in 1 .. n + j /\ more[n + k] = plan[k]
      BY <1>1, <3>1
    <3> QED
      BY <1>2, <3>1, <3>2 DEF Mine
  <2> QED
    BY <2>1, <2>2, <2>3 DEF Shifted
<1>4. Places(log, own) /\ Places(log, I)
  BY <1>1 DEF Places, InSlots, OwnRows
<1>5. j \in 0 .. Len(plan)
  BY <1>1
<1>6. Places(plan, J)
  BY <1>1, <1>5, NearTypes DEF Places
<1> DEFINE e == [s \in Slots |-> ctx.errors[s].sum]
           c == [s \in Slots |-> ctx.errors[s].number]
<1>7. BySlots(e, c, log, own, W)
  BY <1>2 DEF Seen, BySlots
<1>8. SumOver(ctx, W) = SumFunctionOnSet(e, W) /\ NumberOver(ctx, W) = SumFunctionOnSet(c, W)
  BY DEF SumOver, NumberOver
<1> HIDE DEF own, J, K, e, c
<1>9. /\ SumFunctionOnSet(e, W) = Spent(log, I)
      /\ SumFunctionOnSet(c, W) = Cardinality(I)
  BY <1>4, <1>7, BySlot
<1> HIDE DEF I
<1>10. /\ Cardinality(K) = Cardinality(I) + Cardinality(J)
       /\ Spent(more, K) = Spent(log, I) + Spent(plan, J)
  BY <1>3, <1>4, <1>6, JoinedPlaces
<1>11. Spent(log, I) + Spent(plan, J) <= MaxError * (Cardinality(I) + Cardinality(J))
  BY <1>8, <1>9 DEF Within, J
<1> QED
  BY <1>10, <1>11 DEF Budget, K

\* A commit keeps the budget of the log.
LEMMA BudgetJoined ==
  ASSUME NEW log, NEW plan, NEW more, Joined(log, plan, more), Kept(log),
         NEW p, NEW ladder, NEW ctx, NEW batch, MadeFrom(log, p, ladder, ctx, batch, plan)
  PROVE  Kept(more)
<1>1. /\ Len(more) = Len(log) + Len(plan) /\ Len(log) \in Nat /\ Len(plan) \in Nat
      /\ log \in Seq(Placement)
      /\ \A i \in 1 .. Len(log) : more[i] = log[i]
      /\ \A i \in 1 .. Len(plan) : more[Len(log) + i] = plan[i]
  BY JoinedRows
<1>2. ASSUME NEW i \in 1 .. Len(log)
      PROVE  \/ more[i].flavour = Fallback
             \/ Budget(more, i, ProfileOf[more[i].req], Window(more[i].slot))
  <2>1. more[i] = log[i]
    BY <1>1
  <2> DEFINE r == ProfileOf[log[i].req]
             W == Window(log[i].slot)
             M == Mine(log, i, r, W)
  <2>2. \A k \in 1 .. i : k \in 1 .. Len(log) /\ more[k] = log[k]
    BY <1>1
  <2>3. Mine(more, i, r, W) = M
    BY <2>2 DEF Mine
  <2>4. Places(log, M)
    BY <1>1, <2>2 DEF Places, Mine
  <2> HIDE DEF M
  <2>5. Spent(more, M) = Spent(log, M)
    BY <2>4, JoinedKept
  <2>6. log[i].flavour = Fallback \/ Budget(log, i, r, W)
    BY DEF Kept
  <2> QED
    BY <2>1, <2>3, <2>5, <2>6 DEF Budget, M
<1>3. ASSUME NEW j \in 1 .. Len(plan)
      PROVE  \/ more[Len(log) + j].flavour = Fallback
             \/ Budget(more, Len(log) + j, ProfileOf[more[Len(log) + j].req],
                       Window(more[Len(log) + j].slot))
  <2> DEFINE W == Window(plan[j].slot)
  <2>1. more[Len(log) + j] = plan[j]
    BY <1>1
  <2>2. /\ ProfileOf[plan[j].req] = p
        /\ plan[j].flavour = Fallback \/ Within(ctx, plan, j, W)
    BY DEF MadeFrom, BatchOf, PlanGood, RowGood
  <2>3. W \in SUBSET Slots
    BY WindowSlots
  <2> HIDE DEF W
  <2>4. Within(ctx, plan, j, W) => Budget(more, Len(log) + j, p, W)
    BY <2>3, BudgetAfter
  <2> QED
    BY <2>1, <2>2, <2>4 DEF W
<1>4. ASSUME NEW i \in 1 .. Len(more)
      PROVE  i \in 1 .. Len(log) \/ \E j \in 1 .. Len(plan) : i = Len(log) + j
  <2>1. CASE i \in 1 .. Len(log)
    BY <2>1
  <2>2. CASE i \notin 1 .. Len(log)
    <3>1. i - Len(log) \in 1 .. Len(plan) /\ i = Len(log) + (i - Len(log))
      BY <1>1, <2>2
    <3> QED
      BY <3>1
  <2> QED
    BY <2>1, <2>2
<1> QED
  BY <1>2, <1>3, <1>4 DEF Kept

\* The budget of the log is the property of the model.
LEMMA KeptIsBudget ==
  ASSUME assignments \in Seq(Placement)
  PROVE  BudgetKeptOrFallback <=> Kept(assignments)
<1> DEFINE log == assignments
<1>1. DOMAIN log = 1 .. Len(log) /\ Len(log) \in Nat
  BY PlacementTypes
<1>2. ASSUME NEW n \in 1 .. Len(log), NEW p, NEW s
      PROVE  WindowWithin(n, p, s) <=> Budget(log, n, p, Window(s))
  <2> DEFINE I == {i \in 1 .. n : /\ ProfileOf[assignments[i].req] = p
                                  /\ assignments[i].slot \in s - WindowPast .. s + WindowFuture}
             e == [i \in I |-> Flavours[assignments[i].flavour].error]
             f == ErrorAt(log)
  <2>1. \A i \in 1 .. n : i \in 1 .. Len(log)
    BY <1>1
  <2>2. \A i \in 1 .. Len(log) : log[i].slot \in Slots
    BY PlacementTypes
  <2>3. I = Mine(log, n, p, Window(s))
    BY <2>1, <2>2 DEF Mine, Window
  <2>4. Places(log, I)
    BY <2>1 DEF Places
  <2>5. IsFiniteSet(I) /\ \A i \in I : f[i] \in Int /\ e[i] = f[i]
    <3>1. IsFiniteSet(I) /\ \A i \in I : f[i] \in Int /\ f[i] = Flavours[log[i].flavour].error
      BY <2>4, PlacesTypes
    <3> QED
      BY <3>1
  <2>6. WindowWithin(n, p, s) <=> SumFunction(e) <= MaxError * Cardinality(I)
    BY DEF WindowWithin
  <2>7. SumFunction(e) = SumFunctionOnSet(e, I)
    BY DEF SumFunction
  <2> HIDE DEF e, f, I
  <2>8. SumFunctionOnSet(e, I) = SumFunctionOnSet(f, I)
    BY <2>5, SumSame
  <2> QED
    BY <2>3, <2>6, <2>7, <2>8 DEF Budget, Spent, f
<1> QED
  BY <1>1, <1>2 DEF BudgetKeptOrFallback, Kept

-----------------------------------------------------------------------------
(* Prices: the position a placement is charged for. *)

\* Another commit would put a slot of the plan in a dearer tier.
Breach(ladder, log, ctx, plan) ==
  \E s \in Slots :
    LET expected == ctx.count[s] + OccupancyIn(plan, s)
        actual == OccupancyIn(log, s) + OccupancyIn(plan, s)
    IN /\ OccupancyIn(plan, s) > 0
       /\ actual > expected
       /\ capacity_mult(ladder, actual) > capacity_mult(ladder, expected)

\* Which is what the worker checks.
LEMMA BreachIs ==
  ASSUME NEW w
  PROVE  TierBreach(w) <=> Breach(tiers, assignments, thread[w].ctx, thread[w].plan)
BY DEF TierBreach, Breach, Occupancy, OccupancyIn, Adds

\* Where nothing was committed since the snapshot there is none.
LEMMA NoBreach ==
  ASSUME NEW log \in Seq(Placement), NEW plan \in Seq(Placement), NEW ctx \in Context,
         Exact(log, ctx), NEW ladder
  PROVE  ~ Breach(ladder, log, ctx, plan)
<1> SUFFICES ASSUME NEW s \in Slots,
                    OccupancyIn(log, s) + OccupancyIn(plan, s)
                      > ctx.count[s] + OccupancyIn(plan, s)
             PROVE  FALSE
  BY DEF Breach
<1> DEFINE more == log \o plan
<1>1. Joined(log, plan, more)
  BY DEF Joined
<1> HIDE DEF more
<1>2. OccupancyIn(log, s) \in Nat /\ OccupancyIn(plan, s) \in Nat
  BY <1>1, OccupancyJoined
<1>3. ctx.count[s] = OccupancyIn(log, s)
  BY DEF Exact
<1> QED
  BY <1>2, <1>3

\* The last placement of a batch in a slot is never priced below the tier of the
\* position it gets, where the check found no breach.
LEMMA LastPrice ==
  ASSUME NEW log, NEW plan, NEW more, Joined(log, plan, more),
         NEW p, NEW ladder, NEW ctx, NEW batch, MadeFrom(log, p, ladder, ctx, batch, plan),
         ladder \in Ladder, ~ Breach(ladder, log, ctx, plan),
         NEW i \in 1 .. Len(plan),
         \A j \in 1 .. Len(plan) : plan[j].slot = plan[i].slot => j <= i
  PROVE  plan[i].multiplier >= capacity_mult(ladder, OccupancyIn(more, plan[i].slot))
<1> DEFINE s == plan[i].slot
           J == {j \in DOMAIN plan : plan[j].slot = s}
           a == OccupancyIn(log, s)
           b == OccupancyIn(plan, s)
           c == ctx.count[s]
<1>1. plan \in Seq(Placement) /\ log \in Seq(Placement) /\ Len(plan) \in Nat
  BY JoinedRows
<1>2. s \in Slots /\ DOMAIN plan = 1 .. Len(plan)
  BY <1>1, PlacementTypes
<1>3. Seen(log, p, ctx) /\ ctx \in Context
  BY DEF MadeFrom, Seen
<1>4. plan[i].multiplier = capacity_mult(ladder, c + Cardinality(Near(plan, i, {s})))
  BY DEF MadeFrom, PlanGood, RowGood, CountAt
<1>5. Near(plan, i, {s}) = J
  BY <1>1, <1>2 DEF Near
<1>6. b = Cardinality(J)
  BY DEF OccupancyIn
<1>7. i \in J
  BY <1>2
<1>8. a \in Nat /\ b \in Nat /\ OccupancyIn(more, s) = a + b
  BY OccupancyJoined
<1>9. c \in Nat /\ c <= a
  BY <1>2, <1>3, ContextTypes DEF Seen
<1>10. b > 0
  <2>1. Places(plan, J)
    BY <1>1, <1>2 DEF Places
  <2> HIDE DEF J
  <2>2. IsFiniteSet(J)
    BY <2>1, PlacesTypes
  <2>3. Cardinality(J) # 0
    BY <1>7, <2>2, FS_EmptySet
  <2> QED
    BY <1>6, <1>8, <2>3
<1>11. ~ (b > 0 /\ a + b > c + b /\ capacity_mult(ladder, a + b) > capacity_mult(ladder, c + b))
  BY <1>2 DEF Breach
<1>12. capacity_mult(ladder, a + b) \in Nat /\ capacity_mult(ladder, c + b) \in Nat
  BY MultiplierType
<1>13. plan[i].multiplier = capacity_mult(ladder, c + b)
  BY <1>4, <1>5, <1>6
<1>14. OccupancyIn(more, plan[i].slot) = a + b
  BY <1>8
<1> HIDE DEF s, J, a, b, c
<1>15. CASE a = c
  BY <1>12, <1>13, <1>14, <1>15
<1>16. CASE a # c
  <2>1. a + b > c + b
    BY <1>8, <1>9, <1>16
  <2> QED
    BY <1>10, <1>11, <1>12, <1>13, <1>14, <2>1
<1> QED
  BY <1>15, <1>16

\* No request is in the log twice; a queue holds requests of one profile that
\* are not in the log, each once.
Logged(log, r) == \E i \in 1 .. Len(log) : log[i].req = r
Once(log) == \A i, j \in 1 .. Len(log) : log[i].req = log[j].req => i = j
Queue(p, line, log) ==
  /\ line \in Seq(Requests)
  /\ BatchOf(line, p)
  /\ \A i, j \in 1 .. Len(line) : line[i] = line[j] => i = j
  /\ \A i \in 1 .. Len(line) : ~ Logged(log, line[i])

\* So there are requests enough for both.
LEMMA RoomForBatch ==
  ASSUME NEW log \in Seq(Placement), Once(log), NEW p, NEW batch, Queue(p, batch, log)
  PROVE  /\ Len(log) + Len(batch) <= Cardinality(Requests)
         /\ Cardinality(Requests) \in Nat
<1> DEFINE n == Len(log)
           m == Len(batch)
           f == [i \in 1 .. n + m |-> IF i <= n THEN log[i].req ELSE batch[i - n]]
<1>1. n \in Nat /\ m \in Nat /\ IsFiniteSet(Requests) /\ Cardinality(Requests) \in Nat
  <2>1. IsFiniteSet(Requests)
    BY WorkerAssumption
  <2>2. batch \in Seq(Requests)
    BY DEF Queue
  <2> QED
    BY <2>1, <2>2, PlacementTypes, SeqElement, FS_CardinalityType
<1>2. \A i \in 1 .. n : log[i].req \in Requests
  <2>1. \A i \in 1 .. n : log[i] \in Placement
    BY PlacementTypes
  <2>2. DOMAIN ArrivalOf = Requests
    BY WorkerAssumption
  <2> QED
    BY <2>1, <2>2 DEF Placement
<1>3. \A i \in 1 .. m : batch[i] \in Requests
  <2>1. batch \in Seq(Requests)
    BY DEF Queue
  <2> QED
    BY <2>1, SeqElement
<1>4. \A i \in 1 .. n + m : /\ i <= n => i \in 1 .. n /\ f[i] = log[i].req
                            /\ ~ (i <= n) => i - n \in 1 .. m /\ f[i] = batch[i - n]
  BY <1>1
<1>5. f \in [1 .. n + m -> Requests]
  BY <1>2, <1>3, <1>4
<1>6. ASSUME NEW i \in 1 .. n + m, NEW j \in 1 .. n + m, f[i] = f[j] PROVE i = j
  <2>1. CASE i <= n /\ j <= n
    BY <1>4, <1>6, <2>1 DEF Once
  <2>2. CASE i <= n /\ ~ (j <= n)
    <3>1. log[i].req = batch[j - n] /\ i \in 1 .. n /\ j - n \in 1 .. m
      BY <1>4, <1>6, <2>2
    <3> QED
      BY <3>1 DEF Queue, Logged
  <2>3. CASE ~ (i <= n) /\ j <= n
    <3>1. log[j].req = batch[i - n] /\ j \in 1 .. n /\ i - n \in 1 .. m
      BY <1>4, <1>6, <2>3
    <3> QED
      BY <3>1 DEF Queue, Logged
  <2>4. CASE ~ (i <= n) /\ ~ (j <= n)
    <3>1. batch[i - n] = batch[j - n] /\ i - n \in 1 .. m /\ j - n \in 1 .. m
      BY <1>4, <1>6, <2>4
    <3>2. i - n = j - n
      BY <3>1 DEF Queue
    <3> QED
      BY <1>1, <3>2
  <2> QED
    BY <2>1, <2>2, <2>3, <2>4
<1> HIDE DEF f
<1>7. f \in Injection(1 .. n + m, Requests)
  BY <1>5, <1>6 DEF Injection, IsInjective
<1>8. Cardinality(1 .. n + m) <= Cardinality(Requests)
  BY <1>1, <1>7, FS_Injection
<1>9. Cardinality(1 .. n + m) = n + m
  <2> DEFINE k == n + m
  <2>1. k \in Nat
    BY <1>1
  <2> HIDE DEF k
  <2>2. Cardinality(1 .. k) = k
    BY <2>1, FS_Interval
  <2> QED
    BY <2>2 DEF k
<1> QED
  BY <1>1, <1>8, <1>9

\* Every placement is priced for a position some request may have.
Priced(ladder, plan) ==
  \A i \in 1 .. Len(plan) :
    \E n \in 1 .. Cardinality(Requests) : plan[i].multiplier = capacity_mult(ladder, n)

\* The plan of a batch is.
LEMMA PlanPriced ==
  ASSUME NEW log \in Seq(Placement), Once(log),
         NEW p, NEW ladder, NEW ctx, NEW batch, NEW plan,
         MadeFrom(log, p, ladder, ctx, batch, plan), Queue(p, batch, log)
  PROVE  Priced(ladder, plan)
<1> SUFFICES ASSUME NEW i \in 1 .. Len(plan)
             PROVE  \E n \in 1 .. Cardinality(Requests) :
                      plan[i].multiplier = capacity_mult(ladder, n)
  BY DEF Priced
<1> DEFINE s == plan[i].slot
           J == Near(plan, i, {s})
           c == ctx.count[s]
<1>1. /\ plan \in Seq(Placement) /\ Len(plan) = Len(batch) /\ Len(plan) \in Nat
      /\ plan[i].multiplier = capacity_mult(ladder, c + Cardinality(J))
  BY PlacementTypes DEF MadeFrom, PlanGood, RowGood, CountAt
<1>2. s \in Slots
  BY <1>1, PlacementTypes
<1>3. c \in Nat /\ c <= OccupancyIn(log, s)
  BY <1>2, ContextTypes DEF MadeFrom, Seen
<1>4. OccupancyIn(log, s) \in Nat /\ OccupancyIn(log, s) <= Len(log)
  <2> DEFINE more == log \o plan
  <2>1. Joined(log, plan, more)
    BY <1>1 DEF Joined
  <2> HIDE DEF more
  <2> QED
    BY <2>1, OccupancyJoined
<1>5. Len(log) + Len(batch) <= Cardinality(Requests) /\ Cardinality(Requests) \in Nat
  BY RoomForBatch
<1>6. Cardinality(J) \in Nat /\ Cardinality(J) <= i /\ Cardinality(J) # 0
  <2>1. i \in 0 .. Len(plan)
    BY <1>1
  <2>2. IsFiniteSet(J) /\ Cardinality(J) \in Nat /\ Cardinality(J) <= i
    BY <1>1, <2>1, NearTypes
  <2>3. i \in J
    BY DEF Near
  <2> HIDE DEF J
  <2> QED
    BY <2>2, <2>3, FS_EmptySet
<1>7. Len(log) \in Nat
  BY PlacementTypes
<1> HIDE DEF J, c, s
<1>8. c + Cardinality(J) \in 1 .. Cardinality(Requests)
  BY <1>1, <1>3, <1>4, <1>5, <1>6, <1>7
<1> QED
  BY <1>1, <1>8

-----------------------------------------------------------------------------
(* The invariant. *)

\* A worker before its commit, and one that has a plan.
Waiting == {"start", "check", "snapshot", "solve", "commit"}
Planned == {"commit", "merge", "finish"}

\* A thread has all its fields.
IsThread(th) ==
  th = [pc |-> th.pc, profile |-> th.profile, batch |-> th.batch, revision |-> th.revision,
        ctx |-> th.ctx, plan |-> th.plan, delta |-> th.delta,
        lesson |-> th.lesson, consecutive |-> th.consecutive]

ThreadTypes(th) ==
  /\ IsThread(th)
  /\ th.pc \in ThreadPc /\ th.profile \in Profiles /\ th.batch \in Seq(Requests)
  /\ th.ctx \in Context /\ th.plan \in Seq(Placement)
  /\ th.consecutive \in 0 .. RollbackMax

Types ==
  /\ backend \in Backends
  /\ pending \in [Profiles -> Seq(Requests)]
  /\ assignments \in Seq(Placement)
  /\ tiers \in Ladders
  /\ tierRevision \in Nat /\ seenRevision \in 0 .. tierRevision
  /\ swarm = [p \in DOMAIN swarm |-> swarm[p]] /\ DOMAIN swarm \subseteq Profiles
  /\ activeProfiles \subseteq Profiles
  /\ thread = [w \in Workers |-> thread[w]]
  /\ \A w \in Workers : ThreadTypes(thread[w])
  /\ rollbacks \in Nat
  /\ lessons \in [Profiles -> Seq(Lessons)]
  /\ forced \in BOOLEAN

\* A busy worker has its profile to itself, and a serialized one the service.
Busy(w) == thread[w].pc # "idle"
Alone ==
  /\ \A w \in Workers : Busy(w) => thread[w].profile \in activeProfiles
  /\ \A v, w \in Workers :
       Busy(v) /\ Busy(w) /\ thread[v].profile = thread[w].profile => v = w
  /\ backend.mode = "serialized" => \A v, w \in Workers : Busy(v) /\ Busy(w) => v = w

\* Only merge workers merge, and only serialized ones solve in place.
InMode(w) ==
  /\ thread[w].pc = "merge" => backend.mode = "merge"
  /\ thread[w].pc = "solve" => backend.mode = "serialized"

\* A worker with the guard works under the present ladder.
Current(w) ==
  /\ thread[w].pc \in Guarded => thread[w].revision = tierRevision
  /\ thread[w].pc \in Guarded \ {"check"} => seenRevision = tierRevision

\* No request is in a queue, a batch or the log more than once.
Apart(s, t) == \A i \in 1 .. Len(s), j \in 1 .. Len(t) : s[i] # t[j]
Lines ==
  /\ Once(assignments)
  /\ \A p \in Profiles : Queue(p, pending[p], assignments)
  /\ \A w \in Workers : thread[w].pc \in Waiting =>
       /\ Queue(thread[w].profile, thread[w].batch, assignments)
       /\ Apart(thread[w].batch, pending[thread[w].profile])

\* A plan is good for the context it was made against, and that for the log.
Reads(w) ==
  thread[w].pc \in {"solve", "commit"} =>
    /\ Seen(assignments, thread[w].profile, thread[w].ctx)
    /\ backend.mode = "serialized" => Exact(assignments, thread[w].ctx)
Plans(w) ==
  /\ thread[w].pc \notin Planned => thread[w].plan = << >>
  /\ thread[w].pc \in Planned => Priced(tiers, thread[w].plan)
  /\ thread[w].pc = "commit" =>
       PlanGood(tiers, thread[w].ctx, thread[w].batch, Len(thread[w].batch), thread[w].plan)

\* The state of a profile, or the one it would start with.
Estimates(strategy, states, p) == IF p \in DOMAIN states THEN states[p] ELSE Fresh(strategy)

\* What a worker is about to make of its profile's state.
Learns(w) ==
  LET p == thread[w].profile
      now == Estimates(backend.strategy, swarm, p)
      known == Knowledge(backend.strategy, lessons[p])
  IN /\ thread[w].pc \in {"commit", "merge"} => p \in DOMAIN swarm
     /\ thread[w].pc = "commit" => thread[w].lesson \in Lessons
     /\ thread[w].pc = "commit" /\ backend.mode = "merge" =>
          Absorb(backend.strategy, now, thread[w].delta)
            = Teach(backend.strategy, now, thread[w].lesson)
     /\ thread[w].pc = "commit" /\ backend.mode # "merge" =>
          now = Teach(backend.strategy, known, thread[w].lesson)
     /\ thread[w].pc = "merge" => Absorb(backend.strategy, now, thread[w].delta) = known

\* Otherwise a profile knows what its committed batches taught.
TrainingPc(mode) == IF mode = "merge" THEN "merge" ELSE "commit"
Trained(p) ==
  (\A w \in Workers : thread[w].profile = p => thread[w].pc # TrainingPc(backend.mode)) =>
    Estimates(backend.strategy, swarm, p) = Knowledge(backend.strategy, lessons[p])

Inv ==
  /\ Types
  /\ Alone
  /\ \A w \in Workers : InMode(w) /\ Current(w) /\ Reads(w) /\ Plans(w) /\ Learns(w)
  /\ Lines
  /\ Kept(assignments)
  /\ backend.mode = "serialized" => rollbacks = 0
  /\ \A p \in Profiles : Trained(p)

\* The new state of one worker.
Turns(w, new) ==
  /\ thread' = [u \in Workers |-> thread'[u]]
  /\ thread'[w] = new
  /\ \A u \in Workers : u # w => thread'[u] = thread[u]

\* A new record for one worker leaves the others as they are.
LEMMA OneTurns ==
  ASSUME thread = [u \in Workers |-> thread[u]], NEW w \in Workers, NEW new,
         thread' = [thread EXCEPT ![w] = new]
  PROVE  Turns(w, new)
<1> DEFINE t == thread
           s == thread'
<1>1. t = [u \in Workers |-> t[u]] /\ s = [t EXCEPT ![w] = new]
  OBVIOUS
<1> HIDE DEF t, s
<1>2. /\ s = [u \in Workers |-> s[u]] /\ s[w] = new
      /\ \A u \in Workers : u # w => s[u] = t[u]
  BY <1>1
<1> QED
  BY <1>2 DEF Turns, s, t

\* The worker has the guard.
LEMMA TakeGuardEffect ==
  ASSUME Types, NEW w \in Workers, TakeGuard(w)
  PROVE  LET th == thread[w]
         IN Turns(w, [pc |-> "check", profile |-> th.profile, batch |-> th.batch, revision |-> tierRevision,
              ctx |-> th.ctx, plan |-> th.plan, delta |-> th.delta,
              lesson |-> th.lesson, consecutive |-> th.consecutive])
<1> DEFINE th == thread[w]
           new == [thread[w] EXCEPT !.pc = "check", !.revision = tierRevision]
<1>1. thread' = [thread EXCEPT ![w] = new]
  BY DEF TakeGuard
<1>0. thread = [u \in Workers |-> thread[u]]
  BY DEF Types
<1>2. IsThread(th)
  BY DEF Types, ThreadTypes
<1>3. new = [pc |-> "check", profile |-> th.profile, batch |-> th.batch, revision |-> tierRevision,
               ctx |-> th.ctx, plan |-> th.plan, delta |-> th.delta,
               lesson |-> th.lesson, consecutive |-> th.consecutive]
  <2> HIDE DEF th
  <2>1. new = [th EXCEPT !.pc = "check", !.revision = tierRevision]
    BY DEF new, th
  <2> HIDE DEF new
  <2> QED
    BY <1>2, <2>1 DEF IsThread
<1> HIDE DEF new
<1>4. Turns(w, new)
  BY <1>0, <1>1, OneTurns
<1> QED
  BY <1>3, <1>4

\* The worker has checked the revision.
LEMMA CheckRevisionEffect ==
  ASSUME Types, NEW w \in Workers, CheckRevision(w)
  PROVE  LET th == thread[w]
         IN Turns(w, [pc |-> "snapshot", profile |-> th.profile, batch |-> th.batch, revision |-> th.revision,
              ctx |-> th.ctx, plan |-> th.plan, delta |-> th.delta,
              lesson |-> th.lesson, consecutive |-> th.consecutive])
<1> DEFINE th == thread[w]
           new == [thread[w] EXCEPT !.pc = "snapshot"]
<1>1. thread' = [thread EXCEPT ![w] = new]
  BY DEF CheckRevision
<1>0. thread = [u \in Workers |-> thread[u]]
  BY DEF Types
<1>2. IsThread(th)
  BY DEF Types, ThreadTypes
<1>3. new = [pc |-> "snapshot", profile |-> th.profile, batch |-> th.batch, revision |-> th.revision,
               ctx |-> th.ctx, plan |-> th.plan, delta |-> th.delta,
               lesson |-> th.lesson, consecutive |-> th.consecutive]
  <2> HIDE DEF th
  <2>1. new = [th EXCEPT !.pc = "snapshot"]
    BY DEF new, th
  <2> HIDE DEF new
  <2> QED
    BY <1>2, <2>1 DEF IsThread
<1> HIDE DEF new
<1>4. Turns(w, new)
  BY <1>0, <1>1, OneTurns
<1> QED
  BY <1>3, <1>4

\* The worker has read the committed state.
LEMMA SnapshotEffect ==
  ASSUME Types, NEW w \in Workers, Snapshot(w)
  PROVE  LET th == thread[w]
         IN Turns(w, [pc |-> "solve", profile |-> th.profile, batch |-> th.batch, revision |-> th.revision,
              ctx |-> ContextOf(th.profile), plan |-> th.plan, delta |-> th.delta,
              lesson |-> th.lesson, consecutive |-> th.consecutive])
<1> DEFINE th == thread[w]
           new == [thread[w] EXCEPT !.pc = "solve", !.ctx = ContextOf(thread[w].profile)]
<1>1. thread' = [thread EXCEPT ![w] = new]
  BY DEF Snapshot
<1>0. thread = [u \in Workers |-> thread[u]]
  BY DEF Types
<1>2. IsThread(th)
  BY DEF Types, ThreadTypes
<1>3. new = [pc |-> "solve", profile |-> th.profile, batch |-> th.batch, revision |-> th.revision,
               ctx |-> ContextOf(th.profile), plan |-> th.plan, delta |-> th.delta,
               lesson |-> th.lesson, consecutive |-> th.consecutive]
  <2> HIDE DEF th
  <2>1. new = [th EXCEPT !.pc = "solve", !.ctx = ContextOf(th.profile)]
    BY DEF new, th
  <2> HIDE DEF new
  <2> QED
    BY <1>2, <2>1 DEF IsThread
<1> HIDE DEF new
<1>4. Turns(w, new)
  BY <1>0, <1>1, OneTurns
<1> QED
  BY <1>3, <1>4

\* The worker has committed.
LEMMA CommitBatchEffect ==
  ASSUME Types, NEW w \in Workers, CommitBatch(w)
  PROVE  LET th == thread[w]
         IN Turns(w, [pc |-> IF Mode = "merge" THEN "merge" ELSE "finish", profile |-> th.profile, batch |-> th.batch, revision |-> th.revision,
              ctx |-> th.ctx, plan |-> th.plan, delta |-> th.delta,
              lesson |-> th.lesson, consecutive |-> th.consecutive])
<1> DEFINE th == thread[w]
           new == [thread[w] EXCEPT !.pc = IF Mode = "merge" THEN "merge" ELSE "finish"]
<1>1. thread' = [thread EXCEPT ![w] = new]
  BY DEF CommitBatch
<1>0. thread = [u \in Workers |-> thread[u]]
  BY DEF Types
<1>2. IsThread(th)
  BY DEF Types, ThreadTypes
<1>3. new = [pc |-> IF Mode = "merge" THEN "merge" ELSE "finish", profile |-> th.profile, batch |-> th.batch, revision |-> th.revision,
               ctx |-> th.ctx, plan |-> th.plan, delta |-> th.delta,
               lesson |-> th.lesson, consecutive |-> th.consecutive]
  <2> HIDE DEF th
  <2>1. new = [th EXCEPT !.pc = IF Mode = "merge" THEN "merge" ELSE "finish"]
    BY DEF new, th
  <2> HIDE DEF new
  <2> QED
    BY <1>2, <2>1 DEF IsThread
<1> HIDE DEF new
<1>4. Turns(w, new)
  BY <1>0, <1>1, OneTurns
<1> QED
  BY <1>3, <1>4

\* The worker has merged.
LEMMA MergeDeltaEffect ==
  ASSUME Types, NEW w \in Workers, MergeDelta(w)
  PROVE  LET th == thread[w]
         IN Turns(w, [pc |-> "finish", profile |-> th.profile, batch |-> th.batch, revision |-> th.revision,
              ctx |-> th.ctx, plan |-> th.plan, delta |-> th.delta,
              lesson |-> th.lesson, consecutive |-> th.consecutive])
<1> DEFINE th == thread[w]
           new == [thread[w] EXCEPT !.pc = "finish"]
<1>1. thread' = [thread EXCEPT ![w] = new]
  BY DEF MergeDelta
<1>0. thread = [u \in Workers |-> thread[u]]
  BY DEF Types
<1>2. IsThread(th)
  BY DEF Types, ThreadTypes
<1>3. new = [pc |-> "finish", profile |-> th.profile, batch |-> th.batch, revision |-> th.revision,
               ctx |-> th.ctx, plan |-> th.plan, delta |-> th.delta,
               lesson |-> th.lesson, consecutive |-> th.consecutive]
  <2> HIDE DEF th
  <2>1. new = [th EXCEPT !.pc = "finish"]
    BY DEF new, th
  <2> HIDE DEF new
  <2> QED
    BY <1>2, <2>1 DEF IsThread
<1> HIDE DEF new
<1>4. Turns(w, new)
  BY <1>0, <1>1, OneTurns
<1> QED
  BY <1>3, <1>4

\* An idle thread, with all its fields.
LEMMA IdleIs ==
  /\ IsThread(IdleThread)
  /\ IdleThread = [pc |-> "idle", profile |-> 1, batch |-> << >>, revision |-> 0,
                  ctx |-> EmptyContext, plan |-> << >>, delta |-> NewState,
                  lesson |-> << >>, consecutive |-> 0]
<1> DEFINE c == EmptyContext
           d == NewState
           i == IdleThread
<1>1. i = [pc |-> "idle", profile |-> 1, batch |-> << >>, revision |-> 0,
           ctx |-> c, plan |-> << >>, delta |-> d, lesson |-> << >>, consecutive |-> 0]
  BY DEF IdleThread
<1> HIDE DEF c, d, i
<1>2. IsThread(i)
  BY <1>1 DEF IsThread
<1> QED
  BY <1>1, <1>2 DEF i, c, d

\* The worker of a rejected batch starts over.
LEMMA RollBackEffect ==
  ASSUME Types, NEW w \in Workers, RollBack(w), Mode = "merge"
  PROVE  LET th == thread[w]
         IN Turns(w, [pc |-> "snapshot", profile |-> th.profile, batch |-> th.batch, revision |-> th.revision,
              ctx |-> EmptyContext, plan |-> << >>, delta |-> NewState,
              lesson |-> << >>, consecutive |-> th.consecutive + 1])
<1> DEFINE th == thread[w]
           new == [thread[w] EXCEPT !.pc = "snapshot", !.plan = << >>, !.delta = NewState,
                                    !.lesson = << >>, !.ctx = EmptyContext,
                                    !.consecutive = thread[w].consecutive + 1]
<1>1. thread' = [thread EXCEPT ![w] = new]
  <2>1. IF Mode = "merge" THEN thread' = [thread EXCEPT ![w] = new] ELSE TRUE
    BY Zenon DEF RollBack
  <2> QED
    BY <2>1
<1>0. thread = [u \in Workers |-> thread[u]]
  BY DEF Types
<1>2. IsThread(th)
  BY DEF Types, ThreadTypes
<1>3. new = [pc |-> "snapshot", profile |-> th.profile, batch |-> th.batch, revision |-> th.revision,
               ctx |-> EmptyContext, plan |-> << >>, delta |-> NewState,
               lesson |-> << >>, consecutive |-> th.consecutive + 1]
  <2> HIDE DEF th
  <2>1. new = [th EXCEPT !.pc = "snapshot", !.plan = << >>, !.delta = NewState,
                          !.lesson = << >>, !.ctx = EmptyContext,
                          !.consecutive = th.consecutive + 1]
    BY DEF new, th
  <2> HIDE DEF new
  <2> QED
    BY <1>2, <2>1 DEF IsThread
<1> HIDE DEF new
<1>4. Turns(w, new)
  BY <1>0, <1>1, OneTurns
<1> QED
  BY <1>3, <1>4

\* The worker has nothing but its profile to give back.
LEMMA FinishEffect ==
  ASSUME Types, NEW w \in Workers, Finish(w)
  PROVE  LET th == thread[w]
         IN Turns(w, [pc |-> "release", profile |-> th.profile, batch |-> << >>, revision |-> 0,
              ctx |-> EmptyContext, plan |-> << >>, delta |-> NewState,
              lesson |-> << >>, consecutive |-> 0])
<1> DEFINE th == thread[w]
           new == [IdleThread EXCEPT !.pc = "release", !.profile = thread[w].profile]
<1>1. thread' = [thread EXCEPT ![w] = new]
  BY DEF Finish
<1>0. thread = [u \in Workers |-> thread[u]]
  BY DEF Types
<1>2. new = [pc |-> "release", profile |-> th.profile, batch |-> << >>, revision |-> 0,
               ctx |-> EmptyContext, plan |-> << >>, delta |-> NewState,
               lesson |-> << >>, consecutive |-> 0]
  <2> DEFINE c == EmptyContext
             d == NewState
             i == IdleThread
             own == thread[w].profile
  <2>1. i = [pc |-> "idle", profile |-> 1, batch |-> << >>, revision |-> 0,
             ctx |-> c, plan |-> << >>, delta |-> d, lesson |-> << >>, consecutive |-> 0]
    BY IdleIs
  <2>2. new = [i EXCEPT !.pc = "release", !.profile = own]
    OBVIOUS
  <2> HIDE DEF new, c, d, i, own
  <2>3. new = [pc |-> "release", profile |-> own, batch |-> << >>, revision |-> 0,
               ctx |-> c, plan |-> << >>, delta |-> d, lesson |-> << >>, consecutive |-> 0]
    BY <2>1, <2>2
  <2> QED
    BY <2>3 DEF c, d, own
<1> HIDE DEF new
<1>3. Turns(w, new)
  BY <1>0, <1>1, OneTurns
<1> QED
  BY <1>2, <1>3

\* The worker is free.
LEMMA ReleaseEffect ==
  ASSUME Types, NEW w \in Workers, Release(w)
  PROVE  Turns(w, [pc |-> "idle", profile |-> 1, batch |-> << >>, revision |-> 0,
            ctx |-> EmptyContext, plan |-> << >>, delta |-> NewState,
            lesson |-> << >>, consecutive |-> 0])
<1> DEFINE th == thread[w]
           new == IdleThread
<1>1. thread' = [thread EXCEPT ![w] = new]
  BY DEF Release
<1>0. thread = [u \in Workers |-> thread[u]]
  BY DEF Types
<1>2. new = [pc |-> "idle", profile |-> 1, batch |-> << >>, revision |-> 0,
               ctx |-> EmptyContext, plan |-> << >>, delta |-> NewState,
               lesson |-> << >>, consecutive |-> 0]
  BY DEF IdleThread
<1> HIDE DEF new
<1>3. Turns(w, new)
  BY <1>0, <1>1, OneTurns
<1> QED
  BY <1>2, <1>3

\* The worker has the front of a queue.
LEMMA DispatchEffect ==
  ASSUME Types, NEW w \in Workers, NEW p \in Profiles, Dispatch(w, p)
  PROVE  LET claim == Min({Len(pending[p]), BatchSize})
         IN Turns(w, [pc |-> "start", profile |-> p, batch |-> SubSeq(pending[p], 1, claim), revision |-> 0,
              ctx |-> EmptyContext, plan |-> << >>, delta |-> NewState,
              lesson |-> << >>, consecutive |-> 0])
<1> DEFINE th == thread[w]
           claim == Min({Len(pending[p]), BatchSize})
           new == [IdleThread EXCEPT !.pc = "start", !.profile = p, !.batch = SubSeq(pending[p], 1, claim)]
<1>1. thread' = [thread EXCEPT ![w] = new]
  BY DEF Dispatch
<1>0. thread = [u \in Workers |-> thread[u]]
  BY DEF Types
<1>2. new = [pc |-> "start", profile |-> p, batch |-> SubSeq(pending[p], 1, claim), revision |-> 0,
               ctx |-> EmptyContext, plan |-> << >>, delta |-> NewState,
               lesson |-> << >>, consecutive |-> 0]
  <2> DEFINE c == EmptyContext
             d == NewState
             i == IdleThread
             taken == SubSeq(pending[p], 1, claim)
  <2>1. i = [pc |-> "idle", profile |-> 1, batch |-> << >>, revision |-> 0,
             ctx |-> c, plan |-> << >>, delta |-> d, lesson |-> << >>, consecutive |-> 0]
    BY IdleIs
  <2>2. new = [i EXCEPT !.pc = "start", !.profile = p, !.batch = taken]
    OBVIOUS
  <2> HIDE DEF new, c, d, i, taken
  <2>3. new = [pc |-> "start", profile |-> p, batch |-> taken, revision |-> 0,
               ctx |-> c, plan |-> << >>, delta |-> d, lesson |-> << >>, consecutive |-> 0]
    BY <2>1, <2>2
  <2> QED
    BY <2>3 DEF c, d, taken
<1> HIDE DEF new
<1>3. Turns(w, new)
  BY <1>0, <1>1, OneTurns
<1> QED
  BY <1>2, <1>3

\* The worker has a plan and has trained its profile's state.
LEMMA SolveInPlaceEffect ==
  ASSUME Types, NEW w \in Workers, SolveInPlace(w)
  PROVE  LET th == thread[w]
         IN \E outcome \in solve_batch(Learned(th.profile), th.ctx, th.batch) :
              /\ swarm' = WithState(th.profile, outcome.learned)
              /\ Turns(w, [pc |-> "commit", profile |-> th.profile, batch |-> th.batch,
                           revision |-> th.revision, ctx |-> th.ctx, plan |-> outcome.plan,
                           delta |-> th.delta, lesson |-> outcome.lesson,
                           consecutive |-> th.consecutive])
<1> DEFINE th == thread[w]
<1>1. PICK outcome \in solve_batch(Learned(th.profile), th.ctx, th.batch) :
        /\ swarm' = WithState(th.profile, outcome.learned)
        /\ thread' = [thread EXCEPT ![w] =
             [thread[w] EXCEPT !.pc = "commit", !.plan = outcome.plan,
                               !.lesson = outcome.lesson]]
  BY DEF SolveInPlace
<1> DEFINE new == [thread[w] EXCEPT !.pc = "commit", !.plan = outcome.plan,
                                    !.lesson = outcome.lesson]
<1>0. thread = [u \in Workers |-> thread[u]]
  BY DEF Types
<1>2. IsThread(th)
  BY DEF Types, ThreadTypes
<1>3. new = [pc |-> "commit", profile |-> th.profile, batch |-> th.batch,
             revision |-> th.revision, ctx |-> th.ctx, plan |-> outcome.plan,
             delta |-> th.delta, lesson |-> outcome.lesson,
             consecutive |-> th.consecutive]
  <2> HIDE DEF th
  <2>1. new = [th EXCEPT !.pc = "commit", !.plan = outcome.plan, !.lesson = outcome.lesson]
    BY DEF new, th
  <2> HIDE DEF new
  <2> QED
    BY <1>2, <2>1 DEF IsThread
<1> HIDE DEF new
<1>4. Turns(w, new)
  BY <1>0, <1>1, OneTurns DEF new
<1> QED
  BY <1>1, <1>3, <1>4

\* The worker has a plan and a delta, and its profile has a state.
LEMMA SolveCloneEffect ==
  ASSUME Types, NEW w \in Workers, SolveClone(w)
  PROVE  LET th == thread[w]
             seen == ContextOf(th.profile)
         IN \E outcome \in solve_clone(Learned(th.profile), seen, th.batch) :
              /\ swarm' = WithState(th.profile, Learned(th.profile))
              /\ Turns(w, [pc |-> "commit", profile |-> th.profile, batch |-> th.batch,
                           revision |-> th.revision, ctx |-> seen, plan |-> outcome.plan,
                           delta |-> outcome.delta, lesson |-> outcome.lesson,
                           consecutive |-> th.consecutive])
<1> DEFINE th == thread[w]
           seen == ContextOf(th.profile)
<1>1. PICK outcome \in solve_clone(Learned(th.profile), seen, th.batch) :
        /\ swarm' = WithState(th.profile, Learned(th.profile))
        /\ thread' = [thread EXCEPT ![w] =
             [thread[w] EXCEPT !.pc = "commit", !.plan = outcome.plan, !.ctx = seen,
                               !.lesson = outcome.lesson, !.delta = outcome.delta]]
  BY DEF SolveClone
<1> DEFINE new == [thread[w] EXCEPT !.pc = "commit", !.plan = outcome.plan, !.ctx = seen,
                                    !.lesson = outcome.lesson, !.delta = outcome.delta]
<1>0. thread = [u \in Workers |-> thread[u]]
  BY DEF Types
<1>2. IsThread(th)
  BY DEF Types, ThreadTypes
<1>3. new = [pc |-> "commit", profile |-> th.profile, batch |-> th.batch,
             revision |-> th.revision, ctx |-> seen, plan |-> outcome.plan,
             delta |-> outcome.delta, lesson |-> outcome.lesson,
             consecutive |-> th.consecutive]
  <2> HIDE DEF th, seen
  <2>1. new = [th EXCEPT !.pc = "commit", !.plan = outcome.plan, !.ctx = seen,
                         !.lesson = outcome.lesson, !.delta = outcome.delta]
    BY DEF new, th
  <2> HIDE DEF new
  <2> QED
    BY <1>2, <2>1 DEF IsThread
<1> HIDE DEF new, seen
<1>4. Turns(w, new)
  BY <1>0, <1>1, OneTurns DEF new
<1> QED
  BY <1>1, <1>3, <1>4 DEF seen

-----------------------------------------------------------------------------
(* What a step leaves alone. *)

\* All workers again typed.
LEMMA TypesTurn ==
  ASSUME Types, NEW w \in Workers, NEW new, Turns(w, new), ThreadTypes(new)
  PROVE  /\ thread' = [u \in Workers |-> thread'[u]]
         /\ \A u \in Workers : ThreadTypes(thread'[u])
<1>1. \A u \in Workers : ThreadTypes(thread[u])
  BY DEF Types
<1>2. \A u \in Workers : thread'[u] = IF u = w THEN new ELSE thread[u]
  BY DEF Turns
<1> QED
  BY <1>1, <1>2 DEF Turns

\* A busy worker that stays busy for its profile.
LEMMA AloneKept ==
  ASSUME Alone, NEW w \in Workers, NEW new, Turns(w, new), Busy(w),
         new.profile = thread[w].profile, UNCHANGED <<backend, activeProfiles>>
  PROVE  Alone'
<1>1. \A u \in Workers : /\ Busy(u)' => Busy(u)
                         /\ thread'[u].profile = thread[u].profile
  BY DEF Turns, Busy
<1> QED
  BY <1>1 DEF Alone

\* A worker that does not get a batch.
LEMMA LinesKept ==
  ASSUME Lines, NEW w \in Workers, NEW new, Turns(w, new), UNCHANGED <<pending, assignments>>,
         new.pc \in Waiting => /\ thread[w].pc \in Waiting
                               /\ new.batch = thread[w].batch
                               /\ new.profile = thread[w].profile
  PROVE  Lines'
<1>1. \A u \in Workers : thread'[u].pc \in Waiting => /\ thread[u].pc \in Waiting
                                                     /\ thread'[u].batch = thread[u].batch
                                                     /\ thread'[u].profile = thread[u].profile
  BY DEF Turns
<1>2. \A u \in Workers : thread'[u].pc \in Waiting =>
        /\ Queue(thread'[u].profile, thread'[u].batch, assignments')
        /\ Apart(thread'[u].batch, pending'[thread'[u].profile])
  BY <1>1 DEF Lines
<1> QED
  BY <1>2 DEF Lines

\* The learning state of a profile and its lessons are as they were.
SameState(p) ==
  /\ Estimates(backend.strategy, swarm', p) = Estimates(backend.strategy, swarm, p)
  /\ p \in DOMAIN swarm' <=> p \in DOMAIN swarm
  /\ lessons'[p] = lessons[p]

\* A worker that is not the one to step, whose profile keeps its state.
LEMMA OthersKept ==
  ASSUME NEW u \in Workers, thread'[u] = thread[u], UNCHANGED <<backend, tiers, tierRevision>>,
         seenRevision' = seenRevision \/ seenRevision' = tierRevision,
         thread[u].pc \in {"commit", "merge"} => SameState(thread[u].profile),
         InMode(u), Current(u), Plans(u), Learns(u)
  PROVE  InMode(u)' /\ Current(u)' /\ Plans(u)' /\ Learns(u)'
<1>1. InMode(u)' /\ Current(u)' /\ Plans(u)'
  BY DEF InMode, Current, Plans
<1>2. Learns(u)'
  <2>1. CASE thread[u].pc \in {"commit", "merge"}
    BY <2>1 DEF Learns, SameState
  <2>2. CASE thread[u].pc \notin {"commit", "merge"}
    BY <2>2 DEF Learns
  <2> QED
    BY <2>1, <2>2
<1> QED
  BY <1>1, <1>2

\* Nothing was committed.
LEMMA ReadsKept ==
  ASSUME NEW u \in Workers, thread'[u] = thread[u], UNCHANGED <<backend, assignments>>, Reads(u)
  PROVE  Reads(u)'
BY DEF Reads

\* A profile whose state is as it was and whose workers train as they did.
LEMMA TrainedKept ==
  ASSUME NEW p, Trained(p), SameState(p), UNCHANGED backend,
         NEW w \in Workers, NEW new, Turns(w, new),
         thread[w].profile = p /\ thread[w].pc = TrainingPc(backend.mode) =>
           new.profile = p /\ new.pc = TrainingPc(backend.mode)
  PROVE  Trained(p)'
<1>1. (\A u \in Workers : thread'[u].profile = p => thread'[u].pc # TrainingPc(backend.mode)) =>
        (\A u \in Workers : thread[u].profile = p => thread[u].pc # TrainingPc(backend.mode))
  BY DEF Turns
<1> QED
  BY <1>1 DEF Trained, SameState

\* Profiles whose state no step touches.
LEMMA StateKept ==
  ASSUME UNCHANGED <<swarm, lessons>>
  PROVE  \A p : SameState(p)
BY DEF SameState

\* A worker that takes or changes no state.
Restful(w, new) ==
  /\ Turns(w, new) /\ ThreadTypes(new)
  /\ new.pc \in Waiting => /\ thread[w].pc \in Waiting
                           /\ new.batch = thread[w].batch
                           /\ new.profile = thread[w].profile
  /\ thread[w].pc # TrainingPc(backend.mode)
  /\ rollbacks' \in Nat /\ (backend.mode = "serialized" => rollbacks' = rollbacks)
  /\ UNCHANGED <<backend, pending, assignments, tiers, tierRevision, seenRevision, swarm,
                 lessons, forced>>

\* Only it and the busy profiles matter then.
LEMMA RestfulStep ==
  ASSUME Inv, NEW w \in Workers, NEW new, Restful(w, new),
         Alone', activeProfiles' \subseteq Profiles,
         InMode(w)', Current(w)', Reads(w)', Plans(w)', Learns(w)'
  PROVE  Inv'
<1>1. Types'
  <2>1. /\ thread' = [u \in Workers |-> thread'[u]]
        /\ \A u \in Workers : ThreadTypes(thread'[u])
    BY TypesTurn DEF Inv, Restful
  <2> QED
    BY <2>1 DEF Types, Inv, Restful
<1>2. Lines'
  BY LinesKept DEF Inv, Restful
<1>3. \A p : SameState(p)
  BY StateKept DEF Restful
<1>4. \A u \in Workers : InMode(u)' /\ Current(u)' /\ Reads(u)' /\ Plans(u)' /\ Learns(u)'
  <2> SUFFICES ASSUME NEW u \in Workers, u # w
               PROVE  InMode(u)' /\ Current(u)' /\ Reads(u)' /\ Plans(u)' /\ Learns(u)'
    OBVIOUS
  <2>1. thread'[u] = thread[u]
    BY DEF Restful, Turns
  <2>2. InMode(u) /\ Current(u) /\ Reads(u) /\ Plans(u) /\ Learns(u)
    BY DEF Inv
  <2>3. /\ UNCHANGED <<backend, tiers, tierRevision>>
        /\ seenRevision' = seenRevision /\ UNCHANGED <<backend, assignments>>
    BY DEF Restful
  <2> QED
    BY <1>3, <2>1, <2>2, <2>3, OthersKept, ReadsKept
<1>5. \A p \in Profiles : Trained(p)'
  <2> SUFFICES ASSUME NEW p \in Profiles PROVE Trained(p)'
    OBVIOUS
  <2>1. Trained(p) /\ UNCHANGED backend /\ Turns(w, new)
    BY DEF Inv, Restful
  <2>2. thread[w].pc # TrainingPc(backend.mode)
    BY DEF Restful
  <2> QED
    BY <1>3, <2>1, <2>2, TrainedKept
<1>6. Kept(assignments)' /\ (backend.mode = "serialized" => rollbacks = 0)'
  BY DEF Inv, Restful
<1> QED
  BY <1>1, <1>2, <1>4, <1>5, <1>6 DEF Inv

\* A worker takes the guard.
LEMMA TakeGuardKeeps ==
  ASSUME Inv, NEW w \in Workers, TakeGuard(w)
  PROVE  Inv'
<1> DEFINE th == thread[w]
           new == [pc |-> "check", profile |-> th.profile, batch |-> th.batch,
                   revision |-> tierRevision, ctx |-> th.ctx, plan |-> th.plan,
                   delta |-> th.delta, lesson |-> th.lesson,
                   consecutive |-> th.consecutive]
<1>0. /\ Types /\ Alone /\ InMode(w) /\ Current(w) /\ Reads(w) /\ Plans(w) /\ Learns(w)
      /\ ThreadTypes(th)
  BY DEF Inv, Types
<1>1. Turns(w, new)
  BY <1>0, TakeGuardEffect
<1>2. thread[w].pc = "start" /\ Busy(w)
  BY DEF TakeGuard, Busy
<1>3. /\ UNCHANGED <<backend, pending, assignments, tiers, tierRevision, seenRevision, swarm>>
      /\ UNCHANGED <<activeProfiles, rollbacks, lessons, forced>>
  BY DEF TakeGuard
<1>4. ThreadTypes(new)
  BY <1>0 DEF ThreadTypes, IsThread, ThreadPc
<1>5. /\ new.pc = "check" /\ new.profile = thread[w].profile /\ new.batch = thread[w].batch
      /\ new.revision = tierRevision /\ new.plan = thread[w].plan
  OBVIOUS
<1> HIDE DEF new
<1>6. Restful(w, new)
  <2>1. rollbacks' \in Nat
    BY <1>0, <1>3 DEF Types
  <2> QED
    BY <1>1, <1>2, <1>3, <1>4, <1>5, <2>1 DEF Restful, Waiting, TrainingPc
<1>7. Alone'
  BY <1>0, <1>1, <1>2, <1>3, <1>5, AloneKept
<1>8. thread'[w] = new
  BY <1>1 DEF Turns
<1>9. InMode(w)' /\ Current(w)' /\ Reads(w)' /\ Plans(w)' /\ Learns(w)'
  <2>1. InMode(w)' /\ Current(w)' /\ Reads(w)'
    BY <1>3, <1>5, <1>8 DEF InMode, Current, Reads
  <2>2. Plans(w)'
    BY <1>0, <1>2, <1>5, <1>8 DEF Plans, Planned
  <2>3. Learns(w)'
    BY <1>5, <1>8 DEF Learns
  <2> QED
    BY <2>1, <2>2, <2>3
<1> QED
  BY <1>0, <1>3, <1>6, <1>7, <1>9, RestfulStep DEF Types

\* A worker reads the committed state.
LEMMA SnapshotKeeps ==
  ASSUME Inv, NEW w \in Workers, Snapshot(w)
  PROVE  Inv'
<1> DEFINE th == thread[w]
           new == [pc |-> "solve", profile |-> th.profile, batch |-> th.batch,
                   revision |-> th.revision, ctx |-> ContextOf(th.profile), plan |-> th.plan,
                   delta |-> th.delta, lesson |-> th.lesson,
                   consecutive |-> th.consecutive]
<1>0. /\ Types /\ Alone /\ InMode(w) /\ Current(w) /\ Reads(w) /\ Plans(w) /\ Learns(w)
      /\ ThreadTypes(th)
  BY DEF Inv, Types
<1>1. Turns(w, new)
  BY <1>0, SnapshotEffect
<1>2. thread[w].pc = "snapshot" /\ Busy(w) /\ Mode = "serialized"
  BY DEF Snapshot, Busy
<1>3. /\ UNCHANGED <<backend, pending, assignments, tiers, tierRevision, seenRevision, swarm>>
      /\ UNCHANGED <<activeProfiles, rollbacks, lessons, forced>>
  BY DEF Snapshot
<1>A. Seen(assignments, th.profile, ContextOf(th.profile)) /\ Exact(assignments, ContextOf(th.profile))
  BY <1>0, ContextTaken DEF Types
<1>4. ThreadTypes(new)
  BY <1>0, <1>A DEF ThreadTypes, IsThread, ThreadPc, Seen
<1>5. /\ new.pc = "solve" /\ new.profile = thread[w].profile /\ new.batch = thread[w].batch
      /\ new.revision = thread[w].revision /\ new.plan = thread[w].plan
      /\ Seen(assignments, new.profile, new.ctx) /\ Exact(assignments, new.ctx)
  BY <1>A
<1> HIDE DEF new
<1>6. Restful(w, new)
  <2>1. rollbacks' \in Nat
    BY <1>0, <1>3 DEF Types
  <2> QED
    BY <1>1, <1>2, <1>3, <1>4, <1>5, <2>1 DEF Restful, Waiting, TrainingPc
<1>7. Alone'
  BY <1>0, <1>1, <1>2, <1>3, <1>5, AloneKept
<1>8. thread'[w] = new
  BY <1>1 DEF Turns
<1>9. InMode(w)' /\ Current(w)' /\ Reads(w)' /\ Plans(w)' /\ Learns(w)'
  <2>1. InMode(w)' /\ Current(w)' /\ Reads(w)'
    BY <1>0, <1>2, <1>3, <1>5, <1>8 DEF InMode, Current, Reads, Guarded, Mode
  <2>2. Plans(w)'
    BY <1>0, <1>2, <1>5, <1>8 DEF Plans, Planned
  <2>3. Learns(w)'
    BY <1>5, <1>8 DEF Learns
  <2> QED
    BY <2>1, <2>2, <2>3
<1> QED
  BY <1>0, <1>3, <1>6, <1>7, <1>9, RestfulStep DEF Types

\* Nothing is seen in no assignments.
LEMMA EmptyTypes ==
  /\ EmptyContext \in Context /\ 0 \in 0 .. RollbackMax /\ 1 \in Profiles
  /\ << >> \in Seq(Requests) /\ << >> \in Seq(Placement)
<1>1. EmptyContext \in Context
  <2> DEFINE e == [sum |-> 0, number |-> 0]
             c == [s \in Slots |-> 0]
             f == [s \in Slots |-> e]
  <2>1. e \in Errors
    BY DEF Errors
  <2>2. EmptyContext = [count |-> c, errors |-> f, sum |-> 0, number |-> 0]
    BY DEF EmptyContext
  <2> HIDE DEF e
  <2>3. c \in [Slots -> Nat] /\ f \in [Slots -> Errors]
    BY <2>1
  <2> HIDE DEF c, f
  <2> QED
    BY <2>2, <2>3 DEF Context
<1>2. 0 \in 0 .. RollbackMax /\ 1 \in Profiles
  BY WorkerAssumption DEF Profiles
<1> QED
  BY <1>1, <1>2

\* A worker returns.
LEMMA FinishKeeps ==
  ASSUME Inv, NEW w \in Workers, Finish(w)
  PROVE  Inv'
<1> DEFINE th == thread[w]
           new == [pc |-> "release", profile |-> th.profile, batch |-> << >>, revision |-> 0,
                   ctx |-> EmptyContext, plan |-> << >>, delta |-> NewState,
                   lesson |-> << >>, consecutive |-> 0]
<1>0. /\ Types /\ Alone /\ InMode(w) /\ Current(w) /\ Reads(w) /\ Plans(w) /\ Learns(w)
      /\ ThreadTypes(th)
  BY DEF Inv, Types
<1>1. Turns(w, new)
  BY <1>0, FinishEffect
<1>2. thread[w].pc = "finish" /\ Busy(w)
  BY DEF Finish, Busy
<1>3. /\ UNCHANGED <<backend, pending, assignments, tiers, tierRevision, seenRevision, swarm>>
      /\ UNCHANGED <<activeProfiles, rollbacks, lessons, forced>>
  BY DEF Finish
<1>4. ThreadTypes(new)
  BY <1>0, EmptyTypes DEF ThreadTypes, IsThread, ThreadPc
<1>5. new.pc = "release" /\ new.profile = thread[w].profile /\ new.plan = << >>
  OBVIOUS
<1> HIDE DEF new
<1>6. Restful(w, new)
  <2>1. rollbacks' \in Nat
    BY <1>0, <1>3 DEF Types
  <2> QED
    BY <1>1, <1>2, <1>3, <1>4, <1>5, <2>1 DEF Restful, Waiting, TrainingPc
<1>7. Alone'
  BY <1>0, <1>1, <1>2, <1>3, <1>5, AloneKept
<1>8. thread'[w] = new
  BY <1>1 DEF Turns
<1>9. InMode(w)' /\ Current(w)' /\ Reads(w)' /\ Plans(w)' /\ Learns(w)'
  BY <1>5, <1>8 DEF InMode, Current, Reads, Plans, Learns, Guarded, Planned
<1> QED
  BY <1>0, <1>3, <1>6, <1>7, <1>9, RestfulStep DEF Types

\* A worker is free again.
LEMMA ReleaseKeeps ==
  ASSUME Inv, NEW w \in Workers, Release(w)
  PROVE  Inv'
<1> DEFINE th == thread[w]
           new == [pc |-> "idle", profile |-> 1, batch |-> << >>, revision |-> 0,
                   ctx |-> EmptyContext, plan |-> << >>, delta |-> NewState,
                   lesson |-> << >>, consecutive |-> 0]
<1>0. /\ Types /\ Alone /\ InMode(w) /\ Current(w) /\ Reads(w) /\ Plans(w) /\ Learns(w)
      /\ ThreadTypes(th)
  BY DEF Inv, Types
<1>1. Turns(w, new)
  BY <1>0, ReleaseEffect
<1>2. thread[w].pc = "release" /\ Busy(w)
  BY DEF Release, Busy
<1>3. /\ UNCHANGED <<backend, pending, assignments, tiers, tierRevision, seenRevision, swarm>>
      /\ UNCHANGED <<rollbacks, lessons, forced>>
      /\ activeProfiles' = activeProfiles \ {thread[w].profile}
  BY DEF Release
<1>4. ThreadTypes(new)
  BY <1>0, EmptyTypes DEF ThreadTypes, IsThread, ThreadPc
<1>5. new.pc = "idle" /\ new.plan = << >>
  OBVIOUS
<1> HIDE DEF new
<1>6. Restful(w, new)
  <2>1. rollbacks' \in Nat
    BY <1>0, <1>3 DEF Types
  <2> QED
    BY <1>1, <1>2, <1>3, <1>4, <1>5, <2>1 DEF Restful, Waiting, TrainingPc
<1>8. thread'[w] = new
  BY <1>1 DEF Turns
<1>7. Alone'
  <2>1. \A u \in Workers : Busy(u)' => Busy(u) /\ u # w /\ thread'[u] = thread[u]
    BY <1>1, <1>5, <1>8 DEF Turns, Busy
  <2>2. \A u \in Workers : Busy(u)' => thread[u].profile # thread[w].profile
    BY <1>0, <1>2, <2>1 DEF Alone
  <2>3. \A u \in Workers : Busy(u)' => thread'[u].profile \in activeProfiles'
    BY <1>0, <1>3, <2>1, <2>2 DEF Alone
  <2> QED
    BY <1>0, <1>3, <2>1, <2>3 DEF Alone
<1>9. InMode(w)' /\ Current(w)' /\ Reads(w)' /\ Plans(w)' /\ Learns(w)'
  BY <1>5, <1>8 DEF InMode, Current, Reads, Plans, Learns, Guarded, Planned
<1> QED
  BY <1>0, <1>3, <1>6, <1>7, <1>9, RestfulStep DEF Types

\* A worker discards what was learned under another ladder.
LEMMA CheckRevisionKeeps ==
  ASSUME Inv, NEW w \in Workers, CheckRevision(w)
  PROVE  Inv'
<1> DEFINE th == thread[w]
           new == [pc |-> "snapshot", profile |-> th.profile, batch |-> th.batch,
                   revision |-> th.revision, ctx |-> th.ctx, plan |-> th.plan,
                   delta |-> th.delta, lesson |-> th.lesson,
                   consecutive |-> th.consecutive]
<1>0. /\ Types /\ Alone /\ InMode(w) /\ Current(w) /\ Reads(w) /\ Plans(w) /\ Learns(w)
      /\ ThreadTypes(th)
  BY DEF Inv, Types
<1>1. Turns(w, new)
  BY <1>0, CheckRevisionEffect
<1>2. thread[w].pc = "check" /\ Busy(w)
  BY DEF CheckRevision, Busy
<1>3. /\ UNCHANGED <<backend, pending, assignments, tiers, tierRevision>>
      /\ UNCHANGED <<activeProfiles, rollbacks, forced>>
      /\ seenRevision' = tierRevision
      /\ seenRevision # tierRevision => swarm' = << >> /\ lessons' = [p \in Profiles |-> << >>]
      /\ seenRevision = tierRevision => UNCHANGED <<swarm, lessons>>
  <2>1. thread[w].revision = tierRevision
    BY <1>0, <1>2 DEF Current, Guarded
  <2> QED
    BY <2>1 DEF CheckRevision
<1>4. ThreadTypes(new)
  BY <1>0 DEF ThreadTypes, IsThread, ThreadPc
<1>5. /\ new.pc = "snapshot" /\ new.profile = thread[w].profile /\ new.batch = thread[w].batch
      /\ new.revision = thread[w].revision /\ new.plan = thread[w].plan
  OBVIOUS
<1> HIDE DEF new
<1>8. thread'[w] = new
  BY <1>1 DEF Turns
<1>6. Types'
  <2>1. /\ thread' = [u \in Workers |-> thread'[u]]
        /\ \A u \in Workers : ThreadTypes(thread'[u])
    BY <1>0, <1>1, <1>4, TypesTurn
  <2>2. tierRevision \in Nat /\ seenRevision' \in 0 .. tierRevision'
    BY <1>0, <1>3 DEF Types
  <2>3. << >> \in Seq(Lessons) /\ [p \in Profiles |-> << >>] \in [Profiles -> Seq(Lessons)]
    OBVIOUS
  <2>4. /\ swarm' = [p \in DOMAIN swarm' |-> swarm'[p]] /\ DOMAIN swarm' \subseteq Profiles
        /\ lessons' \in [Profiles -> Seq(Lessons)]
    <3>1. CASE seenRevision = tierRevision
      BY <1>0, <1>3, <3>1 DEF Types
    <3>2. CASE seenRevision # tierRevision
      <4>1. swarm' = << >> /\ DOMAIN << >> = {} /\ << >> = [p \in {} |-> << >>[p]]
        BY <1>3, <3>2
      <4> QED
        BY <1>3, <2>3, <3>2, <4>1
    <3> QED
      BY <3>1, <3>2
  <2> QED
    BY <1>0, <1>3, <2>1, <2>2, <2>4 DEF Types
<1>7. Alone'
  BY <1>0, <1>1, <1>2, <1>3, <1>5, AloneKept
<1>9. Lines'
  <2>1. Lines /\ thread[w].pc \in Waiting
    BY <1>2 DEF Inv, Waiting
  <2> QED
    BY <1>1, <1>3, <1>5, <2>1, LinesKept
<1>10. InMode(w)' /\ Current(w)' /\ Reads(w)' /\ Plans(w)' /\ Learns(w)'
  <2>1. InMode(w)' /\ Reads(w)'
    BY <1>5, <1>8 DEF InMode, Reads
  <2>2. Current(w)'
    BY <1>0, <1>2, <1>3, <1>5, <1>8 DEF Current, Guarded
  <2>3. Plans(w)' /\ Learns(w)'
    BY <1>0, <1>2, <1>5, <1>8 DEF Plans, Planned, Learns
  <2> QED
    BY <2>1, <2>2, <2>3
<1>11. ASSUME NEW u \in Workers, u # w
       PROVE  InMode(u)' /\ Current(u)' /\ Reads(u)' /\ Plans(u)' /\ Learns(u)'
  <2>1. thread'[u] = thread[u]
    BY <1>1, <1>11 DEF Turns
  <2>2. InMode(u) /\ Current(u) /\ Reads(u) /\ Plans(u) /\ Learns(u)
    BY DEF Inv
  <2>3. thread[u].pc \in {"commit", "merge"} => SameState(thread[u].profile)
    BY <1>3, <2>2, StateKept DEF Current, Guarded
  <2>4. /\ UNCHANGED <<backend, tiers, tierRevision>> /\ UNCHANGED <<backend, assignments>>
        /\ seenRevision' = tierRevision
    BY <1>3
  <2> QED
    BY <2>1, <2>2, <2>3, <2>4, OthersKept, ReadsKept
<1>12. ASSUME NEW p \in Profiles PROVE Trained(p)'
  <2>1. CASE seenRevision = tierRevision
    <3>1. Trained(p) /\ SameState(p) /\ UNCHANGED backend
      BY <1>3, <2>1, StateKept DEF Inv
    <3>2. thread[w].pc # TrainingPc(backend.mode)
      BY <1>2 DEF TrainingPc
    <3> QED
      BY <1>1, <3>1, <3>2, TrainedKept
  <2>2. CASE seenRevision # tierRevision
    <3>1. DOMAIN swarm' = {} /\ lessons'[p] = << >>
      BY <1>3, <2>2
    <3>2. Knowledge(backend.strategy, << >>) = Fresh(backend.strategy)
      <4>1. << >> \in Seq(Lessons)
        OBVIOUS
      <4> QED
        BY <4>1, KnowledgeGrows
    <3>3. backend' = backend
      BY <1>3
    <3>4. Estimates(backend'.strategy, swarm', p) = Knowledge(backend'.strategy, lessons'[p])
      BY <3>1, <3>2, <3>3 DEF Estimates
    <3> QED
      BY <3>4 DEF Trained
  <2> QED
    BY <2>1, <2>2
<1>13. Kept(assignments)' /\ (backend.mode = "serialized" => rollbacks = 0)'
  BY <1>3 DEF Inv
<1> QED
  BY <1>6, <1>7, <1>8, <1>9, <1>10, <1>11, <1>12, <1>13 DEF Inv

\* A worker trains the state of its profile with its delta.
LEMMA MergeDeltaKeeps ==
  ASSUME Inv, NEW w \in Workers, MergeDelta(w)
  PROVE  Inv'
<1> DEFINE th == thread[w]
           new == [pc |-> "finish", profile |-> th.profile, batch |-> th.batch,
                   revision |-> th.revision, ctx |-> th.ctx, plan |-> th.plan,
                   delta |-> th.delta, lesson |-> th.lesson,
                   consecutive |-> th.consecutive]
<1>0. /\ Types /\ Alone /\ InMode(w) /\ Current(w) /\ Reads(w) /\ Plans(w) /\ Learns(w)
      /\ ThreadTypes(th)
  BY DEF Inv, Types
<1>1. Turns(w, new)
  BY <1>0, MergeDeltaEffect
<1> DEFINE strategy == backend.strategy
<1>2. thread[w].pc = "merge" /\ Busy(w) /\ backend.mode = "merge"
  BY <1>0 DEF MergeDelta, Busy, InMode
<1>3. /\ UNCHANGED <<backend, pending, assignments, tiers, tierRevision, seenRevision>>
      /\ UNCHANGED <<activeProfiles, rollbacks, lessons, forced>>
  BY DEF MergeDelta
<1>4. ThreadTypes(new)
  BY <1>0 DEF ThreadTypes, IsThread, ThreadPc
<1>5. /\ new.pc = "finish" /\ new.profile = thread[w].profile /\ new.batch = thread[w].batch
      /\ new.revision = thread[w].revision /\ new.plan = thread[w].plan
  OBVIOUS
<1>A. thread[w].profile \in DOMAIN swarm
  BY <1>0, <1>2 DEF Learns
<1>B. /\ swarm' = [p \in DOMAIN swarm' |-> swarm'[p]] /\ DOMAIN swarm' = DOMAIN swarm
      /\ swarm'[th.profile] = Absorb(strategy, swarm[th.profile], th.delta)
      /\ \A p \in DOMAIN swarm : p # th.profile => swarm'[p] = swarm[p]
  <2>1. swarm' = [swarm EXCEPT ![th.profile] = merge_delta(swarm[th.profile], th.delta)]
    BY <1>A DEF MergeDelta
  <2>2. merge_delta(swarm[th.profile], th.delta) = Absorb(strategy, swarm[th.profile], th.delta)
    BY DEF merge_delta, Absorb, Strategy
  <2>3. swarm = [p \in DOMAIN swarm |-> swarm[p]]
    BY <1>0 DEF Types
  <2> DEFINE v == merge_delta(swarm[th.profile], th.delta)
             x == th.profile
             before == swarm
             after == swarm'
  <2>4. after = [before EXCEPT ![x] = v] /\ before = [p \in DOMAIN before |-> before[p]] /\ x \in DOMAIN before
    BY <1>A, <2>1, <2>3
  <2> HIDE DEF v, x, before, after
  <2>5. /\ after = [p \in DOMAIN after |-> after[p]] /\ DOMAIN after = DOMAIN before
        /\ after[x] = v /\ \A p \in DOMAIN before : p # x => after[p] = before[p]
    BY <2>4
  <2> QED
    BY <2>2, <2>5 DEF v, x, before, after
<1> HIDE DEF new
<1>8. thread'[w] = new
  BY <1>1 DEF Turns
<1>C. \A p : p # th.profile => SameState(p)
  BY <1>3, <1>B DEF SameState, Estimates
<1>6. Types'
  <2>1. /\ thread' = [u \in Workers |-> thread'[u]]
        /\ \A u \in Workers : ThreadTypes(thread'[u])
    BY <1>0, <1>1, <1>4, TypesTurn
  <2> QED
    BY <1>0, <1>3, <1>B, <2>1 DEF Types
<1>7. Alone'
  BY <1>0, <1>1, <1>2, <1>3, <1>5, AloneKept
<1>9. Lines'
  <2>1. Lines /\ new.pc \notin Waiting
    BY <1>5 DEF Inv, Waiting
  <2> QED
    BY <1>1, <1>3, <2>1, LinesKept
<1>10. InMode(w)' /\ Current(w)' /\ Reads(w)' /\ Plans(w)' /\ Learns(w)'
  <2>1. InMode(w)' /\ Reads(w)' /\ Learns(w)'
    BY <1>5, <1>8 DEF InMode, Reads, Learns
  <2>2. Current(w)'
    BY <1>0, <1>2, <1>3, <1>5, <1>8 DEF Current, Guarded
  <2>3. Plans(w)'
    BY <1>0, <1>2, <1>3, <1>5, <1>8 DEF Plans, Planned
  <2> QED
    BY <2>1, <2>2, <2>3
<1>11. ASSUME NEW u \in Workers, u # w
       PROVE  InMode(u)' /\ Current(u)' /\ Reads(u)' /\ Plans(u)' /\ Learns(u)'
  <2>1. thread'[u] = thread[u]
    BY <1>1, <1>11 DEF Turns
  <2>2. InMode(u) /\ Current(u) /\ Reads(u) /\ Plans(u) /\ Learns(u)
    BY DEF Inv
  <2>3. thread[u].pc \in {"commit", "merge"} => SameState(thread[u].profile)
    <3>1. Busy(u) => thread[u].profile # th.profile
      BY <1>0, <1>2, <1>11 DEF Alone
    <3> QED
      BY <1>C, <3>1 DEF Busy
  <2>4. /\ UNCHANGED <<backend, tiers, tierRevision>> /\ UNCHANGED <<backend, assignments>>
        /\ seenRevision' = seenRevision
    BY <1>3
  <2> QED
    BY <2>1, <2>2, <2>3, <2>4, OthersKept, ReadsKept
<1>12. ASSUME NEW p \in Profiles PROVE Trained(p)'
  <2>1. CASE p # th.profile
    BY <1>1, <1>3, <1>C, <2>1, TrainedKept DEF Inv
  <2>2. CASE p = th.profile
    <3>1. Absorb(strategy, swarm[p], th.delta) = Knowledge(strategy, lessons[p])
      BY <1>0, <1>2, <1>A, <2>2 DEF Learns, Estimates
    <3> QED
      BY <1>3, <1>A, <1>B, <2>2, <3>1 DEF Trained, Estimates
  <2> QED
    BY <2>1, <2>2
<1>13. Kept(assignments)' /\ (backend.mode = "serialized" => rollbacks = 0)'
  BY <1>3 DEF Inv
<1> QED
  BY <1>6, <1>7, <1>8, <1>9, <1>10, <1>11, <1>12, <1>13 DEF Inv

\* A serialized batch is never rejected: nothing was committed since its snapshot.
LEMMA OnlyMergeRollsBack ==
  ASSUME Inv, NEW w \in Workers, RollBack(w)
  PROVE  backend.mode = "merge" /\ thread[w].consecutive < RollbackMax
<1>1. thread[w].pc = "commit" /\ TierBreach(w) /\ ~ ForceCommit(w)
  BY DEF RollBack, Rejected
<1>2. backend.mode \in {"serialized", "merge"}
  <2>1. backend \in [mode : {"serialized", "merge"}, strategy : {"bandit", "ant_colony"}]
    BY WorkerAssumption DEF Inv, Types
  <2> QED
    BY <2>1
<1>3. backend.mode # "serialized"
  <2> SUFFICES ASSUME backend.mode = "serialized" PROVE FALSE
    OBVIOUS
  <2>1. Exact(assignments, thread[w].ctx)
    BY <1>1 DEF Inv, Reads
  <2>2. assignments \in Seq(Placement) /\ thread[w].plan \in Seq(Placement) /\ thread[w].ctx \in Context
    BY DEF Inv, Types, ThreadTypes
  <2>3. ~ Breach(tiers, assignments, thread[w].ctx, thread[w].plan)
    BY <2>1, <2>2, NoBreach
  <2> QED
    BY <1>1, <2>3, BreachIs
<1>4. RollbackMax \in Nat /\ thread[w].consecutive \in 0 .. RollbackMax
  BY WorkerAssumption DEF Inv, Types, ThreadTypes
<1> QED
  BY <1>1, <1>2, <1>3, <1>4 DEF ForceCommit, Mode

\* A rejected batch is to be solved again.
LEMMA RollBackKeeps ==
  ASSUME Inv, NEW w \in Workers, RollBack(w)
  PROVE  Inv'
<1> DEFINE th == thread[w]
           new == [pc |-> "snapshot", profile |-> th.profile, batch |-> th.batch,
                   revision |-> th.revision, ctx |-> EmptyContext, plan |-> << >>,
                   delta |-> NewState, lesson |-> << >>,
                   consecutive |-> th.consecutive + 1]
<1>0. /\ Types /\ Alone /\ InMode(w) /\ Current(w) /\ Reads(w) /\ Plans(w) /\ Learns(w)
      /\ ThreadTypes(th)
  BY DEF Inv, Types
<1>m. backend.mode = "merge" /\ thread[w].consecutive < RollbackMax
  BY OnlyMergeRollsBack
<1>1. Turns(w, new)
  BY <1>0, <1>m, RollBackEffect DEF Mode
<1>2. thread[w].pc = "commit" /\ Busy(w)
  BY DEF RollBack, Busy
<1>3. /\ UNCHANGED <<backend, pending, assignments, tiers, tierRevision, seenRevision, swarm>>
      /\ UNCHANGED <<activeProfiles, lessons, forced>> /\ rollbacks' = rollbacks + 1
  <2>1. IF Mode = "merge" THEN UNCHANGED pending ELSE TRUE
    BY Zenon DEF RollBack
  <2>2. UNCHANGED pending
    BY <1>m, <2>1 DEF Mode
  <2> QED
    BY <2>2 DEF RollBack
<1>4. ThreadTypes(new)
  <2>1. th.consecutive + 1 \in 0 .. RollbackMax
    BY <1>0, <1>m, WorkerAssumption DEF ThreadTypes
  <2> QED
    BY <1>0, <2>1, EmptyTypes DEF ThreadTypes, IsThread, ThreadPc
<1>5. /\ new.pc = "snapshot" /\ new.profile = thread[w].profile /\ new.batch = thread[w].batch
      /\ new.revision = thread[w].revision /\ new.plan = << >>
  OBVIOUS
<1> HIDE DEF new
<1>6. Restful(w, new)
  <2>1. rollbacks' \in Nat
    BY <1>0, <1>3 DEF Types
  <2> QED
    BY <1>m, <1>1, <1>2, <1>3, <1>4, <1>5, <2>1 DEF Restful, Waiting, TrainingPc
<1>7. Alone'
  BY <1>0, <1>1, <1>2, <1>3, <1>5, AloneKept
<1>8. thread'[w] = new
  BY <1>1 DEF Turns
<1>9. InMode(w)' /\ Current(w)' /\ Reads(w)' /\ Plans(w)' /\ Learns(w)'
  <2>1. Current(w)'
    BY <1>0, <1>2, <1>3, <1>5, <1>8 DEF Current, Guarded
  <2>2. InMode(w)' /\ Reads(w)' /\ Plans(w)' /\ Learns(w)'
    BY <1>5, <1>8 DEF InMode, Reads, Plans, Planned, Learns
  <2> QED
    BY <2>1, <2>2
<1> QED
  BY <1>0, <1>3, <1>6, <1>7, <1>9, RestfulStep DEF Types

\* The profile of a busy worker that is not about to train knows what was taught.
LEMMA KnownState ==
  ASSUME Inv, NEW w \in Workers, Busy(w), thread[w].pc # TrainingPc(backend.mode)
  PROVE  LET p == thread[w].profile
             known == Knowledge(backend.strategy, lessons[p])
         IN /\ p \in Profiles /\ Learned(p) = known
            /\ Estimates(backend.strategy, swarm, p) = known
            /\ known \in StatesOf(Strategy)
            /\ lessons[p] \in Seq(Lessons)
<1> DEFINE p == thread[w].profile
           known == Knowledge(backend.strategy, lessons[p])
<1>1. p \in Profiles /\ lessons \in [Profiles -> Seq(Lessons)]
  BY DEF Inv, Types, ThreadTypes
<1>2. \A u \in Workers : thread[u].profile = p => thread[u].pc # TrainingPc(backend.mode)
  <2> SUFFICES ASSUME NEW u \in Workers, thread[u].profile = p
               PROVE  thread[u].pc # TrainingPc(backend.mode)
    OBVIOUS
  <2>1. CASE Busy(u)
    BY <2>1 DEF Inv, Alone
  <2>2. CASE ~ Busy(u)
    BY <2>2 DEF Busy, TrainingPc
  <2> QED
    BY <2>1, <2>2
<1>3. Estimates(backend.strategy, swarm, p) = known
  BY <1>1, <1>2 DEF Inv, Trained
<1>4. Learned(p) = Estimates(backend.strategy, swarm, p)
  BY DEF Learned, Estimates, Fresh, NewState, Strategy
<1>5. lessons[p] \in Seq(Lessons)
  BY <1>1
<1>6. known \in StatesOf(Strategy)
  BY <1>5, KnowledgeGrows DEF Strategy
<1> QED
  BY <1>1, <1>3, <1>4, <1>5, <1>6

\* swarm_states with the new state of a profile.
LEMMA StateSet ==
  ASSUME Types, NEW p \in Profiles, NEW learned, swarm' = WithState(p, learned),
         UNCHANGED <<backend, lessons>>
  PROVE  /\ swarm' = [x \in DOMAIN swarm' |-> swarm'[x]] /\ DOMAIN swarm' \subseteq Profiles
         /\ p \in DOMAIN swarm' /\ swarm'[p] = learned
         /\ \A x : x # p => SameState(x)
<1>1. DOMAIN swarm' = DOMAIN swarm \cup {p} /\ swarm' = [x \in DOMAIN swarm' |-> swarm'[x]]
  BY DEF WithState
<1>2. \A x \in DOMAIN swarm \cup {p} : swarm'[x] = IF x = p THEN learned ELSE swarm[x]
  BY DEF WithState
<1>3. DOMAIN swarm \subseteq Profiles
  BY DEF Types
<1> QED
  BY <1>1, <1>2, <1>3 DEF SameState, Estimates

\* A worker that gets its plan.
Commits(w, new) ==
  /\ Turns(w, new) /\ ThreadTypes(new)
  /\ Busy(w) /\ thread[w].pc # TrainingPc(backend.mode) /\ thread[w].pc \in {"snapshot", "solve"}
  /\ new.pc = "commit" /\ new.profile = thread[w].profile /\ new.batch = thread[w].batch
  /\ new.revision = thread[w].revision
  /\ Seen(assignments, new.profile, new.ctx)
  /\ backend.mode = "serialized" => Exact(assignments, new.ctx)
  /\ PlanGood(tiers, new.ctx, new.batch, Len(new.batch), new.plan)
  /\ \A x : x # thread[w].profile => SameState(x)
  /\ swarm' = [x \in DOMAIN swarm' |-> swarm'[x]] /\ DOMAIN swarm' \subseteq Profiles
  /\ UNCHANGED <<backend, pending, assignments, tiers, tierRevision, seenRevision>>
  /\ UNCHANGED <<activeProfiles, rollbacks, lessons, forced>>

\* Only what it learns matters then.
LEMMA CommitsStep ==
  ASSUME Inv, NEW w \in Workers, NEW new, Commits(w, new),
         Learns(w)', Trained(thread[w].profile)'
  PROVE  Inv'
<1>0. /\ Types /\ Alone /\ Lines /\ InMode(w) /\ Current(w)
      /\ Turns(w, new) /\ thread'[w] = new
  BY DEF Inv, Commits, Turns
<1>3. /\ UNCHANGED <<backend, pending, assignments, tiers, tierRevision, seenRevision>>
      /\ UNCHANGED <<activeProfiles, rollbacks, lessons, forced>>
  BY DEF Commits
<1>5. /\ new.pc = "commit" /\ new.profile = thread[w].profile /\ new.batch = thread[w].batch
      /\ new.revision = thread[w].revision /\ Busy(w) /\ thread[w].pc \in {"snapshot", "solve"}
  BY DEF Commits
<1>6. Types'
  <2>1. /\ thread' = [u \in Workers |-> thread'[u]]
        /\ \A u \in Workers : ThreadTypes(thread'[u])
    BY TypesTurn DEF Inv, Commits
  <2> QED
    BY <1>0, <1>3, <2>1 DEF Types, Commits
<1>7. Alone'
  BY <1>0, <1>3, <1>5, AloneKept
<1>8. Lines'
  <2>1. thread[w].pc \in Waiting
    BY <1>5 DEF Waiting
  <2> QED
    BY <1>0, <1>3, <1>5, <2>1, LinesKept
<1>9. InMode(w)' /\ Current(w)' /\ Reads(w)' /\ Plans(w)'
  <2>1. InMode(w)'
    BY <1>0, <1>5 DEF InMode
  <2>2. Current(w)'
    BY <1>0, <1>3, <1>5 DEF Current, Guarded
  <2>3. Reads(w)'
    BY <1>0, <1>3 DEF Reads, Commits
  <2>4. Plans(w)'
    <3>1. PlanGood(tiers, new.ctx, new.batch, Len(new.batch), new.plan)
      BY DEF Commits
    <3>2. Queue(thread[w].profile, thread[w].batch, assignments) /\ Once(assignments)
      BY <1>0, <1>5 DEF Lines, Waiting
    <3>3. MadeFrom(assignments, new.profile, tiers, new.ctx, new.batch, new.plan)
      BY <1>5, <3>1, <3>2 DEF MadeFrom, Queue, Commits
    <3>4. assignments \in Seq(Placement)
      BY <1>0 DEF Types
    <3>5. Priced(tiers, new.plan)
      BY <1>5, <3>2, <3>3, <3>4, PlanPriced
    <3> QED
      BY <1>0, <1>3, <1>5, <3>1, <3>5 DEF Plans, Planned
  <2> QED
    BY <2>1, <2>2, <2>3, <2>4
<1>11. ASSUME NEW u \in Workers, u # w
       PROVE  InMode(u)' /\ Current(u)' /\ Reads(u)' /\ Plans(u)' /\ Learns(u)'
  <2>1. thread'[u] = thread[u]
    BY <1>0, <1>11 DEF Turns
  <2>2. InMode(u) /\ Current(u) /\ Reads(u) /\ Plans(u) /\ Learns(u)
    BY DEF Inv
  <2>3. thread[u].pc \in {"commit", "merge"} => SameState(thread[u].profile)
    <3>1. Busy(u) => thread[u].profile # thread[w].profile
      BY <1>0, <1>5, <1>11 DEF Alone
    <3> QED
      BY <3>1 DEF Busy, Commits
  <2>4. /\ UNCHANGED <<backend, tiers, tierRevision>> /\ UNCHANGED <<backend, assignments>>
        /\ seenRevision' = seenRevision
    BY <1>3
  <2> QED
    BY <2>1, <2>2, <2>3, <2>4, OthersKept, ReadsKept
<1>12. ASSUME NEW p \in Profiles PROVE Trained(p)'
  <2>1. CASE p # thread[w].profile
    <3>1. Trained(p) /\ SameState(p) /\ UNCHANGED backend /\ thread[w].pc # TrainingPc(backend.mode)
      BY <2>1 DEF Inv, Commits
    <3> QED
      BY <1>0, <3>1, TrainedKept
  <2>2. CASE p = thread[w].profile
    <3>1. thread'[w].profile = p
      BY <1>0, <1>5, <2>2
    <3> QED
      BY <3>1
  <2> QED
    BY <2>1, <2>2
<1>13. Kept(assignments)' /\ (backend.mode = "serialized" => rollbacks = 0)'
  BY <1>3 DEF Inv
<1> QED
  BY <1>0, <1>6, <1>7, <1>8, <1>9, <1>11, <1>12, <1>13 DEF Inv

\* A serialized worker solves and trains.
LEMMA SolveInPlaceKeeps ==
  ASSUME Inv, NEW w \in Workers, SolveInPlace(w)
  PROVE  Inv'
<1> DEFINE th == thread[w]
<1>0. /\ Types /\ Alone /\ InMode(w) /\ Current(w) /\ Reads(w) /\ Plans(w) /\ Learns(w)
      /\ ThreadTypes(th)
  BY DEF Inv, Types
<1>2. th.pc = "solve" /\ Busy(w) /\ backend.mode = "serialized"
  BY DEF SolveInPlace, Busy, Mode
<1>3. /\ UNCHANGED <<backend, pending, assignments, tiers, tierRevision, seenRevision>>
      /\ UNCHANGED <<activeProfiles, rollbacks, lessons, forced>>
  BY DEF SolveInPlace
<1> DEFINE p == th.profile
           known == Knowledge(backend.strategy, lessons[p])
<1>4. /\ p \in Profiles /\ Learned(p) = known /\ known \in StatesOf(Strategy)
      /\ thread[w].pc # TrainingPc(backend.mode)
  <2>1. thread[w].pc # TrainingPc(backend.mode)
    BY <1>2 DEF TrainingPc
  <2> QED
    BY <1>2, <2>1, KnownState
<1>5. PICK o \in solve_batch(known, th.ctx, th.batch) :
        /\ swarm' = WithState(p, o.learned)
        /\ Turns(w, [pc |-> "commit", profile |-> th.profile, batch |-> th.batch,
                     revision |-> th.revision, ctx |-> th.ctx, plan |-> o.plan,
                     delta |-> th.delta, lesson |-> o.lesson,
                     consecutive |-> th.consecutive])
  BY <1>0, <1>4, SolveInPlaceEffect
<1> DEFINE new == [pc |-> "commit", profile |-> th.profile, batch |-> th.batch,
                   revision |-> th.revision, ctx |-> th.ctx, plan |-> o.plan,
                   delta |-> th.delta, lesson |-> o.lesson,
                   consecutive |-> th.consecutive]
<1>6. Seen(assignments, p, th.ctx) /\ Exact(assignments, th.ctx)
  BY <1>0, <1>2 DEF Reads
<1>7. Planable(tiers, th.ctx, th.batch)
  <2>1. tiers \in Ladder
    BY <1>0, WorkerAssumption DEF Types, Ladder
  <2> QED
    BY <1>0, <2>1 DEF Planable, ThreadTypes
<1>8. Outcome(Strategy, tiers, th.ctx, th.batch, known, o.plan, o.lesson, o.learned)
  BY <1>4, <1>7, BatchSolved
<1>9. ThreadTypes(new)
  <2>1. o.plan \in Seq(Placement)
    BY <1>8 DEF Outcome, PlanGood
  <2> QED
    BY <1>0, <2>1 DEF ThreadTypes, IsThread, ThreadPc
<1>10. /\ swarm' = [x \in DOMAIN swarm' |-> swarm'[x]] /\ DOMAIN swarm' \subseteq Profiles
       /\ p \in DOMAIN swarm' /\ swarm'[p] = o.learned
       /\ \A x : x # p => SameState(x)
  BY <1>0, <1>3, <1>4, <1>5, StateSet
<1>11. /\ new.pc = "commit" /\ new.profile = p /\ new.batch = th.batch
       /\ new.revision = th.revision /\ new.ctx = th.ctx /\ new.plan = o.plan
       /\ new.lesson = o.lesson
  OBVIOUS
<1>12. Turns(w, new)
  BY <1>5
<1> HIDE DEF new, known
<1>13. PlanGood(tiers, th.ctx, th.batch, Len(th.batch), o.plan) /\ o.lesson \in Lessons
       /\ o.learned = Teach(Strategy, known, o.lesson)
  BY <1>8 DEF Outcome
<1>14. Commits(w, new)
  BY <1>2, <1>3, <1>4, <1>6, <1>9, <1>10, <1>11, <1>12, <1>13 DEF Commits
<1>15. thread'[w] = new
  BY <1>12 DEF Turns
<1>16. Learns(w)'
  <2>1. swarm'[p] = Teach(backend.strategy, Knowledge(backend.strategy, lessons[p]), o.lesson)
    BY <1>10, <1>13 DEF known, Strategy
  <2> QED
    BY <1>2, <1>3, <1>10, <1>11, <1>13, <1>15, <2>1 DEF Learns, Estimates
<1>17. Trained(p)'
  BY <1>2, <1>3, <1>11, <1>15 DEF Trained, TrainingPc
<1> QED
  BY <1>14, <1>16, <1>17, CommitsStep

\* A merge worker solves on a clone.
LEMMA SolveCloneKeeps ==
  ASSUME Inv, NEW w \in Workers, SolveClone(w)
  PROVE  Inv'
<1> DEFINE th == thread[w]
           p == th.profile
           seen == ContextOf(p)
           known == Knowledge(backend.strategy, lessons[p])
<1>0. /\ Types /\ Alone /\ InMode(w) /\ Current(w) /\ Reads(w) /\ Plans(w) /\ Learns(w)
      /\ ThreadTypes(th)
  BY DEF Inv, Types
<1>2. th.pc = "snapshot" /\ Busy(w) /\ backend.mode = "merge"
  BY DEF SolveClone, Busy, Mode
<1>3. /\ UNCHANGED <<backend, pending, assignments, tiers, tierRevision, seenRevision>>
      /\ UNCHANGED <<activeProfiles, rollbacks, lessons, forced>>
  BY DEF SolveClone
<1>4. /\ p \in Profiles /\ Learned(p) = known /\ known \in StatesOf(Strategy)
      /\ thread[w].pc # TrainingPc(backend.mode)
  <2>1. thread[w].pc # TrainingPc(backend.mode)
    BY <1>2 DEF TrainingPc
  <2> QED
    BY <1>2, <2>1, KnownState
<1>5. PICK o \in solve_clone(known, seen, th.batch) :
        /\ swarm' = WithState(p, known)
        /\ Turns(w, [pc |-> "commit", profile |-> th.profile, batch |-> th.batch,
                     revision |-> th.revision, ctx |-> seen, plan |-> o.plan,
                     delta |-> o.delta, lesson |-> o.lesson,
                     consecutive |-> th.consecutive])
  BY <1>0, <1>4, SolveCloneEffect
<1> DEFINE new == [pc |-> "commit", profile |-> th.profile, batch |-> th.batch,
                   revision |-> th.revision, ctx |-> seen, plan |-> o.plan,
                   delta |-> o.delta, lesson |-> o.lesson,
                   consecutive |-> th.consecutive]
<1>6. Seen(assignments, p, seen) /\ Exact(assignments, seen)
  BY <1>0, ContextTaken DEF Types
<1> HIDE DEF seen
<1>7. Planable(tiers, seen, th.batch)
  <2>1. tiers \in Ladder
    BY <1>0, WorkerAssumption DEF Types, Ladder
  <2> QED
    BY <1>0, <1>6, <2>1 DEF Planable, ThreadTypes, Seen
<1>8. Outcome(Strategy, tiers, seen, th.batch, known, o.plan, o.lesson,
              Absorb(Strategy, known, o.delta))
  BY <1>4, <1>7, CloneSolved
<1>9. ThreadTypes(new)
  <2>1. o.plan \in Seq(Placement) /\ seen \in Context
    BY <1>6, <1>8 DEF Outcome, PlanGood, Seen
  <2> QED
    BY <1>0, <2>1 DEF ThreadTypes, IsThread, ThreadPc
<1>10. /\ swarm' = [x \in DOMAIN swarm' |-> swarm'[x]] /\ DOMAIN swarm' \subseteq Profiles
       /\ p \in DOMAIN swarm' /\ swarm'[p] = known
       /\ \A x : x # p => SameState(x)
  BY <1>0, <1>3, <1>4, <1>5, StateSet
<1>11. /\ new.pc = "commit" /\ new.profile = p /\ new.batch = th.batch
       /\ new.revision = th.revision /\ new.ctx = seen /\ new.plan = o.plan
       /\ new.lesson = o.lesson /\ new.delta = o.delta
  OBVIOUS
<1>12. Turns(w, new)
  BY <1>5
<1> HIDE DEF new, known
<1>13. PlanGood(tiers, seen, th.batch, Len(th.batch), o.plan) /\ o.lesson \in Lessons
       /\ Absorb(Strategy, known, o.delta) = Teach(Strategy, known, o.lesson)
  BY <1>8 DEF Outcome
<1>14. Commits(w, new)
  BY <1>2, <1>3, <1>4, <1>6, <1>9, <1>10, <1>11, <1>12, <1>13 DEF Commits
<1>15. thread'[w] = new
  BY <1>12 DEF Turns
<1>16. Learns(w)'
  <2>1. Absorb(backend.strategy, known, o.delta) = Teach(backend.strategy, known, o.lesson)
    BY <1>13 DEF Strategy
  <2> QED
    BY <1>2, <1>3, <1>10, <1>11, <1>13, <1>15, <2>1 DEF Learns, Estimates
<1>17. Trained(p)'
  <2>1. Estimates(backend.strategy, swarm', p) = known
    BY <1>10 DEF Estimates
  <2>2. thread'[w].profile = p
    BY <1>11, <1>15
  <2> QED
    BY <1>3, <2>1, <2>2 DEF Trained, known
<1> QED
  BY <1>14, <1>16, <1>17, CommitsStep

\* The plan of a batch enters the log.
Enters(log, plan, more, p, batch) ==
  /\ Joined(log, plan, more) /\ Once(log) /\ Queue(p, batch, log)
  /\ Len(plan) = Len(batch) /\ \A i \in 1 .. Len(plan) : plan[i].req = batch[i]

\* The log has the requests of the batch now, each once.
LEMMA LoggedJoined ==
  ASSUME NEW log, NEW plan, NEW more, NEW p, NEW batch, Enters(log, plan, more, p, batch)
  PROVE  /\ Once(more)
         /\ \A r : Logged(more, r) => Logged(log, r) \/ \E i \in 1 .. Len(batch) : batch[i] = r
<1> DEFINE n == Len(log)
           m == Len(plan)
<1>1. /\ Len(more) = n + m /\ n \in Nat /\ m \in Nat
      /\ \A i \in 1 .. n : more[i] = log[i]
      /\ \A j \in 1 .. m : more[n + j] = plan[j]
  BY JoinedRows DEF Enters
<1>2. /\ Len(batch) = m /\ \A j \in 1 .. m : plan[j].req = batch[j]
      /\ \A i, j \in 1 .. m : batch[i] = batch[j] => i = j
      /\ \A j \in 1 .. m : ~ Logged(log, batch[j])
      /\ \A i, j \in 1 .. n : log[i].req = log[j].req => i = j
  BY DEF Enters, Queue, Once
<1>3. \A i \in 1 .. n + m : \/ i \in 1 .. n /\ more[i].req = log[i].req
                            \/ /\ i - n \in 1 .. m /\ ~ (i \in 1 .. n)
                               /\ more[i].req = batch[i - n]
  <2> SUFFICES ASSUME NEW i \in 1 .. n + m, ~ (i \in 1 .. n)
               PROVE  i - n \in 1 .. m /\ more[i].req = batch[i - n]
    BY <1>1
  <2>1. i - n \in 1 .. m /\ n + (i - n) = i
    BY <1>1
  <2>2. more[n + (i - n)] = plan[i - n]
    BY <1>1, <2>1
  <2> QED
    BY <1>2, <2>1, <2>2
<1> HIDE DEF n, m
<1>4. ASSUME NEW i \in 1 .. n + m, NEW j \in 1 .. n + m, more[i].req = more[j].req
      PROVE  i = j
  <2>1. CASE i \in 1 .. n /\ j \in 1 .. n
    BY <1>2, <1>3, <1>4, <2>1
  <2>2. CASE i \in 1 .. n /\ ~ (j \in 1 .. n)
    <3>1. log[i].req = batch[j - n] /\ j - n \in 1 .. m
      BY <1>3, <1>4, <2>2
    <3> QED
      BY <1>2, <2>2, <3>1 DEF Logged, n
  <2>3. CASE ~ (i \in 1 .. n) /\ j \in 1 .. n
    <3>1. log[j].req = batch[i - n] /\ i - n \in 1 .. m
      BY <1>3, <1>4, <2>3
    <3> QED
      BY <1>2, <2>3, <3>1 DEF Logged, n
  <2>4. CASE ~ (i \in 1 .. n) /\ ~ (j \in 1 .. n)
    <3>1. batch[i - n] = batch[j - n] /\ i - n \in 1 .. m /\ j - n \in 1 .. m
      BY <1>3, <1>4, <2>4
    <3>2. i - n = j - n
      BY <1>2, <3>1
    <3> QED
      BY <1>1, <3>2
  <2> QED
    BY <2>1, <2>2, <2>3, <2>4
<1>5. Once(more)
  BY <1>1, <1>4 DEF Once
<1>6. ASSUME NEW r, Logged(more, r)
      PROVE  Logged(log, r) \/ \E i \in 1 .. Len(batch) : batch[i] = r
  <2>1. PICK i \in 1 .. n + m : more[i].req = r
    BY <1>1, <1>6 DEF Logged
  <2> QED
    BY <1>2, <1>3, <2>1 DEF Logged, n
<1> QED
  BY <1>5, <1>6

\* A queue that has none of them still has requests that are not in the log.
LEMMA QueueKept ==
  ASSUME NEW log, NEW plan, NEW more, NEW p, NEW batch, Enters(log, plan, more, p, batch),
         NEW x, NEW line, Queue(x, line, log), x # p \/ Apart(batch, line)
  PROVE  Queue(x, line, more)
<1>1. \A r : Logged(more, r) => Logged(log, r) \/ \E i \in 1 .. Len(batch) : batch[i] = r
  BY LoggedJoined
<1>2. \A i \in 1 .. Len(line), j \in 1 .. Len(batch) : batch[j] # line[i]
  <2>1. CASE Apart(batch, line)
    BY <2>1 DEF Apart
  <2>2. CASE x # p
    BY <2>2 DEF Queue, BatchOf, Enters
  <2> QED
    BY <2>1, <2>2
<1> QED
  BY <1>1, <1>2 DEF Queue

\* What a worker with a plan commits.
LEMMA CommitEnters ==
  ASSUME Inv, NEW w \in Workers, thread[w].pc = "commit", assignments' = assignments \o thread[w].plan
  PROVE  LET th == thread[w]
         IN /\ Enters(assignments, th.plan, assignments', th.profile, th.batch)
            /\ Joined(assignments, th.plan, assignments')
            /\ MadeFrom(assignments, th.profile, tiers, th.ctx, th.batch, th.plan)
            /\ \A i \in 1 .. Len(th.plan) : ProfileOf[th.plan[i].req] = th.profile
            /\ assignments' \in Seq(Placement)
            /\ Queue(th.profile, th.batch, assignments) /\ Once(assignments)
            /\ Apart(th.batch, pending[th.profile])
<1> DEFINE th == thread[w]
<1>1. assignments \in Seq(Placement) /\ th.plan \in Seq(Placement)
  BY DEF Inv, Types, ThreadTypes
<1>2. Joined(assignments, th.plan, assignments')
  BY <1>1 DEF Joined
<1>3. Once(assignments) /\ Queue(th.profile, th.batch, assignments) /\ Apart(th.batch, pending[th.profile])
  BY DEF Inv, Lines, Waiting
<1>4. PlanGood(tiers, th.ctx, th.batch, Len(th.batch), th.plan) /\ Seen(assignments, th.profile, th.ctx)
  BY DEF Inv, Plans, Reads
<1>5. Len(th.plan) = Len(th.batch) /\ \A i \in 1 .. Len(th.plan) : th.plan[i].req = th.batch[i]
  BY <1>4 DEF PlanGood, RowGood
<1>6. \A i \in 1 .. Len(th.plan) : ProfileOf[th.plan[i].req] = th.profile
  BY <1>3, <1>5 DEF Queue, BatchOf
<1>7. assignments' \in Seq(Placement)
  BY <1>2, JoinedRows
<1>8. Enters(assignments, th.plan, assignments', th.profile, th.batch)
  BY <1>2, <1>3, <1>5 DEF Enters
<1>9. MadeFrom(assignments, th.profile, tiers, th.ctx, th.batch, th.plan)
  BY <1>3, <1>4 DEF MadeFrom, Queue
<1> QED
  BY <1>2, <1>3, <1>6, <1>7, <1>8, <1>9

\* A worker commits its batch.
LEMMA CommitBatchKeeps ==
  ASSUME Inv, NEW w \in Workers, CommitBatch(w)
  PROVE  Inv'
<1> DEFINE th == thread[w]
           p == th.profile
           strategy == backend.strategy
           new == [pc |-> IF Mode = "merge" THEN "merge" ELSE "finish",
                   profile |-> th.profile, batch |-> th.batch, revision |-> th.revision,
                   ctx |-> th.ctx, plan |-> th.plan, delta |-> th.delta,
                   lesson |-> th.lesson, consecutive |-> th.consecutive]
<1>0. /\ Types /\ Alone /\ Lines /\ ThreadTypes(th)
      /\ InMode(w) /\ Current(w) /\ Reads(w) /\ Plans(w) /\ Learns(w)
  BY DEF Inv, Types
<1>1. Turns(w, new)
  BY <1>0, CommitBatchEffect
<1>2. thread[w].pc = "commit" /\ Busy(w) /\ p \in Profiles /\ lessons \in [Profiles -> Seq(Lessons)]
  BY <1>0 DEF CommitBatch, Busy, ThreadTypes, Types
<1>3. /\ UNCHANGED <<backend, pending, tiers, tierRevision, seenRevision, swarm>>
      /\ UNCHANGED <<activeProfiles, rollbacks>>
      /\ assignments' = assignments \o thread[w].plan
      /\ lessons' = [lessons EXCEPT ![p] = Append(lessons[p], thread[w].lesson)]
      /\ forced' = TierBreach(w)
  BY DEF CommitBatch
<1>4. ThreadTypes(new)
  BY <1>0 DEF ThreadTypes, IsThread, ThreadPc
<1>5. /\ new.pc = IF backend.mode = "merge" THEN "merge" ELSE "finish"
      /\ new.profile = thread[w].profile /\ new.batch = thread[w].batch
      /\ new.revision = thread[w].revision /\ new.plan = thread[w].plan
      /\ new.delta = thread[w].delta
  BY DEF Mode
<1>6. /\ Enters(assignments, th.plan, assignments', p, th.batch)
      /\ Joined(assignments, th.plan, assignments')
      /\ MadeFrom(assignments, p, tiers, th.ctx, th.batch, th.plan)
      /\ \A i \in 1 .. Len(th.plan) : ProfileOf[th.plan[i].req] = p
      /\ assignments' \in Seq(Placement)
      /\ Queue(p, th.batch, assignments) /\ Once(assignments)
      /\ Apart(th.batch, pending[p])
  BY <1>2, <1>3, CommitEnters
<1> HIDE DEF new
<1>7. thread'[w] = new
  BY <1>1 DEF Turns
<1>8. /\ thread[w].lesson \in Lessons /\ lessons' \in [Profiles -> Seq(Lessons)]
      /\ lessons'[p] = Append(lessons[p], thread[w].lesson)
      /\ \A x : x # p => SameState(x)
  <2>1. thread[w].lesson \in Lessons
    BY <1>0, <1>2 DEF Learns
  <2>2. lessons[p] \in Seq(Lessons)
    BY <1>2
  <2> DEFINE l == Append(lessons[p], thread[w].lesson)
             S == Seq(Lessons)
  <2>3. l \in S
    BY <2>1, <2>2
  <2>4. lessons' = [lessons EXCEPT ![p] = l]
    BY <1>3
  <2> HIDE DEF l, S
  <2>5. lessons \in [Profiles -> S]
    BY <1>2 DEF S
  <2>6. lessons' \in [Profiles -> S] /\ lessons'[p] = l /\ \A x : x # p => lessons'[x] = lessons[x]
    BY <1>2, <2>3, <2>4, <2>5
  <2> QED
    BY <1>3, <2>1, <2>6 DEF l, S, SameState
<1>9. Types'
  <2>1. /\ thread' = [u \in Workers |-> thread'[u]]
        /\ \A u \in Workers : ThreadTypes(thread'[u])
    BY <1>0, <1>1, <1>4, TypesTurn
  <2>2. forced' \in BOOLEAN
    BY <1>3 DEF TierBreach
  <2> QED
    BY <1>0, <1>3, <1>6, <1>8, <2>1, <2>2 DEF Types
<1>10. Alone'
  BY <1>0, <1>1, <1>2, <1>3, <1>5, AloneKept
<1>11. Lines'
  <2>1. Once(assignments')
    BY <1>6, LoggedJoined
  <2>2. ASSUME NEW x \in Profiles PROVE Queue(x, pending'[x], assignments')
    <3>1. Queue(x, pending[x], assignments)
      BY <1>0 DEF Lines
    <3>2. x # p \/ Apart(th.batch, pending[x])
      BY <1>6
    <3>3. Queue(x, pending[x], assignments')
      BY <1>6, <3>1, <3>2, QueueKept
    <3> QED
      BY <1>3, <3>3
  <2>3. ASSUME NEW u \in Workers, thread'[u].pc \in Waiting
        PROVE  /\ Queue(thread'[u].profile, thread'[u].batch, assignments')
               /\ Apart(thread'[u].batch, pending'[thread'[u].profile])
    <3>1. u # w
      BY <1>5, <1>7, <2>3 DEF Waiting
    <3>2. thread'[u] = thread[u]
      BY <1>1, <3>1 DEF Turns
    <3>3. /\ Queue(thread[u].profile, thread[u].batch, assignments)
          /\ Apart(thread[u].batch, pending[thread[u].profile])
      BY <1>0, <2>3, <3>2 DEF Lines
    <3>4. thread[u].profile # p
      <4>1. Busy(u)
        BY <2>3, <3>2 DEF Busy, Waiting
      <4> QED
        BY <1>0, <1>2, <3>1, <4>1 DEF Alone
    <3>5. Queue(thread[u].profile, thread[u].batch, assignments')
      BY <1>6, <3>3, <3>4, QueueKept
    <3> QED
      BY <1>3, <3>2, <3>3, <3>5
  <2> QED
    BY <2>1, <2>2, <2>3 DEF Lines
<1>12. InMode(w)' /\ Current(w)' /\ Reads(w)' /\ Plans(w)' /\ Learns(w)'
  <2>1. InMode(w)' /\ Reads(w)'
    BY <1>3, <1>5, <1>7 DEF InMode, Reads
  <2>2. Current(w)'
    BY <1>0, <1>2, <1>3, <1>5, <1>7 DEF Current, Guarded
  <2>3. Plans(w)'
    BY <1>0, <1>2, <1>3, <1>5, <1>7 DEF Plans, Planned
  <2>4. Learns(w)'
    <3>1. CASE backend.mode # "merge"
      BY <1>5, <1>7, <3>1 DEF Learns
    <3>2. CASE backend.mode = "merge"
      <4>1. thread[w].pc # TrainingPc(backend.mode)
        BY <1>2, <3>2 DEF TrainingPc
      <4>2. Estimates(strategy, swarm, p) = Knowledge(strategy, lessons[p]) /\ lessons[p] \in Seq(Lessons)
        BY <1>2, <4>1, KnownState
      <4>3. /\ p \in DOMAIN swarm
            /\ Absorb(strategy, Estimates(strategy, swarm, p), thread[w].delta)
                 = Teach(strategy, Estimates(strategy, swarm, p), thread[w].lesson)
        BY <1>0, <1>2, <3>2 DEF Learns
      <4>4. Knowledge(strategy, lessons'[p]) = Teach(strategy, Knowledge(strategy, lessons[p]), thread[w].lesson)
        BY <1>8, <4>2, KnowledgeGrows
      <4>5. Absorb(strategy, Estimates(strategy, swarm, p), thread[w].delta) = Knowledge(strategy, lessons'[p])
        BY <4>2, <4>3, <4>4
      <4>6. /\ thread'[w].pc = "merge" /\ thread'[w].profile = p /\ thread'[w].delta = thread[w].delta
            /\ backend' = backend /\ swarm' = swarm
        BY <1>3, <1>5, <1>7, <3>2
      <4> QED
        BY <4>3, <4>5, <4>6 DEF Learns
    <3> QED
      BY <3>1, <3>2
  <2> QED
    BY <2>1, <2>2, <2>3, <2>4
<1>13. ASSUME NEW u \in Workers, u # w
       PROVE  InMode(u)' /\ Current(u)' /\ Reads(u)' /\ Plans(u)' /\ Learns(u)'
  <2>1. thread'[u] = thread[u]
    BY <1>1, <1>13 DEF Turns
  <2>2. InMode(u) /\ Current(u) /\ Reads(u) /\ Plans(u) /\ Learns(u)
    BY DEF Inv
  <2>3. Busy(u) => thread[u].profile # p /\ backend.mode # "serialized"
    BY <1>0, <1>2, <1>13 DEF Alone
  <2>4. /\ UNCHANGED <<backend, tiers, tierRevision>> /\ seenRevision' = seenRevision
        /\ thread[u].pc \in {"commit", "merge"} => SameState(thread[u].profile)
    BY <1>3, <1>8, <2>3 DEF Busy
  <2>5. InMode(u)' /\ Current(u)' /\ Plans(u)' /\ Learns(u)'
    BY <2>1, <2>2, <2>4, OthersKept
  <2>6. Reads(u)'
    <3> SUFFICES ASSUME thread[u].pc \in {"solve", "commit"} PROVE Reads(u)'
      BY <2>1 DEF Reads
    <3>1. thread[u].profile # p /\ backend'.mode # "serialized"
      BY <1>3, <2>3 DEF Busy
    <3>2. Seen(assignments, thread[u].profile, thread[u].ctx)
      BY <2>2 DEF Reads
    <3>3. \A i \in 1 .. Len(th.plan) : ProfileOf[th.plan[i].req] # thread[u].profile
      BY <1>6, <3>1
    <3>4. Seen(assignments', thread[u].profile, thread[u].ctx)
      BY <1>6, <3>2, <3>3, SeenKept
    <3> QED
      BY <2>1, <3>1, <3>4 DEF Reads
  <2> QED
    BY <2>5, <2>6
<1>14. ASSUME NEW x \in Profiles PROVE Trained(x)'
  <2>1. CASE x # p
    BY <1>1, <1>3, <1>8, <2>1, TrainedKept DEF Inv
  <2>2. CASE x = p /\ backend.mode = "merge"
    BY <1>3, <1>5, <1>7, <2>2 DEF Trained, TrainingPc
  <2>3. CASE x = p /\ backend.mode # "merge"
    <3>1. Estimates(strategy, swarm, p) = Teach(strategy, Knowledge(strategy, lessons[p]), thread[w].lesson)
      BY <1>0, <1>2, <2>3 DEF Learns
    <3>2. lessons[p] \in Seq(Lessons)
      BY <1>2
    <3>3. Knowledge(strategy, lessons'[p]) = Teach(strategy, Knowledge(strategy, lessons[p]), thread[w].lesson)
      BY <1>8, <3>2, KnowledgeGrows
    <3>4. Estimates(strategy, swarm, p) = Knowledge(strategy, lessons'[p])
      BY <3>1, <3>3
    <3> QED
      BY <1>3, <2>3, <3>4 DEF Trained
  <2> QED
    BY <2>1, <2>2, <2>3
<1>15. Kept(assignments')
  BY <1>6, BudgetJoined DEF Inv
<1>16. backend'.mode = "serialized" => rollbacks' = 0
  BY <1>3 DEF Inv
<1> QED
  BY <1>7, <1>9, <1>10, <1>11, <1>12, <1>13, <1>14, <1>15, <1>16 DEF Inv

\* The initial state.
LEMMA InitInv == Init => Inv
<1> SUFFICES ASSUME Init PROVE Inv
  OBVIOUS
<1>1. /\ backend \in Backends /\ pending = [p \in Profiles |-> << >>] /\ assignments = << >>
      /\ tiers \in Ladders /\ tierRevision = 0 /\ seenRevision = 0 /\ swarm = << >>
      /\ activeProfiles = {} /\ rollbacks = 0 /\ forced = FALSE
      /\ lessons = [p \in Profiles |-> << >>]
  BY DEF Init
<1>2. thread = [w \in Workers |-> IdleThread]
  BY DEF Init
<1> DEFINE i == IdleThread
<1>3. /\ ThreadTypes(i) /\ i.pc = "idle" /\ i.plan = << >>
  BY IdleIs, EmptyTypes DEF ThreadTypes, ThreadPc
<1> HIDE DEF i
<1>4. thread = [w \in Workers |-> thread[w]] /\ \A w \in Workers : thread[w] = i
  BY <1>2 DEF i
<1>5. Types
  <2>1. << >> \in Seq(Requests) /\ << >> \in Seq(Lessons) /\ << >> \in Seq(Placement)
    OBVIOUS
  <2>2. pending \in [Profiles -> Seq(Requests)] /\ lessons \in [Profiles -> Seq(Lessons)]
    BY <1>1, <2>1
  <2>3. swarm = [p \in DOMAIN swarm |-> swarm[p]] /\ DOMAIN swarm \subseteq Profiles
    <3>1. DOMAIN << >> = {} /\ << >> = [p \in {} |-> << >>[p]]
      OBVIOUS
    <3> QED
      BY <1>1, <3>1
  <2>4. tierRevision \in Nat /\ seenRevision \in 0 .. tierRevision /\ rollbacks \in Nat
    BY <1>1
  <2> QED
    BY <1>1, <1>3, <1>4, <2>1, <2>2, <2>3, <2>4 DEF Types
<1>6. \A w \in Workers : ~ Busy(w)
  BY <1>3, <1>4 DEF Busy
<1>7. \A w \in Workers : InMode(w) /\ Current(w) /\ Reads(w) /\ Plans(w) /\ Learns(w)
  BY <1>3, <1>4 DEF InMode, Current, Reads, Plans, Learns, Guarded, Planned
<1>8. Alone
  BY <1>6 DEF Alone
<1>9. Lines
  <2>1. Once(assignments)
    BY <1>1 DEF Once
  <2>2. \A p \in Profiles : Queue(p, << >>, assignments)
    <3>1. << >> \in Seq(Requests) /\ Len(<< >>) = 0
      OBVIOUS
    <3> QED
      BY <3>1 DEF Queue, BatchOf
  <2>3. \A w \in Workers : thread[w].pc \notin Waiting
    BY <1>3, <1>4 DEF Waiting
  <2> QED
    BY <1>1, <2>1, <2>2, <2>3 DEF Lines
<1>10. Kept(assignments) /\ (backend.mode = "serialized" => rollbacks = 0)
  BY <1>1 DEF Kept
<1>11. ASSUME NEW p \in Profiles PROVE Trained(p)
  <2>1. << >> \in Seq(Lessons)
    OBVIOUS
  <2>2. Knowledge(backend.strategy, << >>) = Fresh(backend.strategy)
    BY <2>1, KnowledgeGrows
  <2>3. DOMAIN swarm = {} /\ lessons[p] = << >>
    BY <1>1
  <2> QED
    BY <2>2, <2>3 DEF Trained, Estimates
<1> QED
  BY <1>5, <1>7, <1>8, <1>9, <1>10, <1>11 DEF Inv

\* A request joins its queue.
LEMMA AdmitKeeps ==
  ASSUME Inv, NEW r \in Requests, Admit(r)
  PROVE  Inv'
<1> DEFINE p == ProfileOf[r]
           line == pending[p]
           longer == Append(line, r)
           n == Len(line)
<1>1. /\ UNCHANGED <<backend, assignments, tiers, tierRevision, seenRevision, swarm>>
      /\ UNCHANGED <<activeProfiles, thread, rollbacks, lessons, forced>>
      /\ pending' = [pending EXCEPT ![p] = longer]
  BY DEF Admit
<1>2. /\ p \in Profiles /\ pending \in [Profiles -> Seq(Requests)] /\ line \in Seq(Requests)
  BY WorkerAssumption DEF Inv, Types
<1>3. /\ \A i \in DOMAIN line : line[i] # r
      /\ \A i \in DOMAIN assignments : assignments[i].req # r
      /\ \A w \in Workers : \A i \in DOMAIN thread[w].batch : thread[w].batch[i] # r
  <2>1. ~ Known(r)
    BY DEF Admit
  <2> QED
    BY <2>1 DEF Known, Range
<1>4. /\ longer \in Seq(Requests) /\ Len(longer) = n + 1 /\ n \in Nat /\ n = Len(line)
      /\ \A i \in 1 .. n : longer[i] = line[i]
      /\ longer[n + 1] = r
  BY <1>2
<1> HIDE DEF longer, n
<1>5. \A x \in Profiles : pending'[x] = IF x = p THEN longer ELSE pending[x]
  BY <1>1, <1>2
<1>6. pending' \in [Profiles -> Seq(Requests)]
  BY <1>1, <1>2, <1>4
<1>7. Types'
  BY <1>1, <1>6 DEF Inv, Types
<1>8. Queue(p, longer, assignments)
  <2>1. Queue(p, line, assignments)
    BY <1>2 DEF Inv, Lines
  <2>2. \A i \in 1 .. n + 1 : i \in 1 .. n \/ i = n + 1
    BY <1>4 DEF n
  <2>3. DOMAIN line = 1 .. n /\ DOMAIN assignments = 1 .. Len(assignments)
    BY <1>2, PlacementTypes DEF n, Inv, Types
  <2>4. Len(longer) = n + 1 /\ \A i \in 1 .. n : longer[i] = line[i]
    BY <1>4
  <2>5. longer[n + 1] = r
    BY <1>4
  <2>6. BatchOf(longer, p)
    BY <2>1, <2>2, <2>4, <2>5 DEF BatchOf, Queue, n
  <2>7. \A i \in 1 .. Len(longer) : ~ Logged(assignments, longer[i])
    BY <1>3, <2>1, <2>2, <2>3, <2>4, <2>5 DEF Logged, Queue, n
  <2>8. ASSUME NEW i \in 1 .. Len(longer), NEW j \in 1 .. Len(longer), longer[i] = longer[j]
        PROVE  i = j
    <3>1. CASE i \in 1 .. n /\ j \in 1 .. n
      BY <2>1, <2>4, <2>8, <3>1 DEF Queue, n
    <3>2. CASE i \in 1 .. n /\ j = n + 1
      BY <1>3, <2>3, <2>4, <2>5, <2>8, <3>2
    <3>3. CASE i = n + 1 /\ j \in 1 .. n
      BY <1>3, <2>3, <2>4, <2>5, <2>8, <3>3
    <3> QED
      BY <2>2, <2>4, <2>8, <3>1, <3>2, <3>3
  <2> QED
    BY <1>4, <2>6, <2>7, <2>8 DEF Queue
<1>9. Lines'
  <2>1. ASSUME NEW x \in Profiles PROVE Queue(x, pending'[x], assignments')
    BY <1>1, <1>5, <1>8 DEF Inv, Lines
  <2>2. ASSUME NEW w \in Workers, thread[w].pc \in Waiting
        PROVE  /\ Queue(thread[w].profile, thread[w].batch, assignments)
               /\ Apart(thread[w].batch, pending'[thread[w].profile])
    <3>1. /\ Queue(thread[w].profile, thread[w].batch, assignments)
          /\ Apart(thread[w].batch, pending[thread[w].profile])
          /\ thread[w].profile \in Profiles
      BY <2>2 DEF Inv, Lines, Types, ThreadTypes
    <3>2. CASE thread[w].profile # p
      BY <1>5, <3>1, <3>2
    <3>3. CASE thread[w].profile = p
      <4> SUFFICES ASSUME NEW i \in 1 .. Len(thread[w].batch), NEW j \in 1 .. Len(longer)
                   PROVE  thread[w].batch[i] # longer[j]
        BY <1>5, <3>1, <3>3 DEF Apart
      <4>1. DOMAIN thread[w].batch = 1 .. Len(thread[w].batch)
        BY <3>1 DEF Queue
      <4>2. j \in 1 .. n \/ j = n + 1
        BY <1>4
      <4>3. CASE j \in 1 .. n
        BY <1>4, <3>1, <3>3, <4>3 DEF Apart, n
      <4>4. CASE j = n + 1
        <5>1. longer[j] = r /\ i \in DOMAIN thread[w].batch
          BY <1>4, <4>1, <4>4
        <5> QED
          BY <1>3, <5>1
      <4> QED
        BY <4>2, <4>3, <4>4
    <3> QED
      BY <3>2, <3>3
  <2>3. Once(assignments')
    BY <1>1 DEF Inv, Lines
  <2> QED
    BY <1>1, <2>1, <2>2, <2>3 DEF Lines
<1>10. Alone' /\ Kept(assignments)' /\ (backend.mode = "serialized" => rollbacks = 0)'
  BY <1>1 DEF Inv, Alone, Busy
<1>11. \A w \in Workers : InMode(w)' /\ Current(w)' /\ Reads(w)' /\ Plans(w)' /\ Learns(w)'
  <2> SUFFICES ASSUME NEW w \in Workers
               PROVE  InMode(w)' /\ Current(w)' /\ Reads(w)' /\ Plans(w)' /\ Learns(w)'
    OBVIOUS
  <2>1. InMode(w) /\ Current(w) /\ Reads(w) /\ Plans(w) /\ Learns(w)
    BY DEF Inv
  <2>2. thread'[w] = thread[w] /\ SameState(thread[w].profile)
    BY <1>1, StateKept
  <2> QED
    BY <1>1, <2>1, <2>2, OthersKept, ReadsKept
<1>12. \A x \in Profiles : Trained(x)'
  BY <1>1 DEF Inv, Trained
<1> QED
  BY <1>7, <1>9, <1>10, <1>11, <1>12 DEF Inv

\* An operator replaces the ladder while no worker holds the guard.
LEMMA ReplaceTiersKeeps ==
  ASSUME Inv, ReplaceTiers
  PROVE  Inv'
<1>1. /\ UNCHANGED <<backend, pending, assignments, seenRevision, swarm, activeProfiles>>
      /\ UNCHANGED <<thread, rollbacks, lessons, forced>>
      /\ \A w \in Workers : thread[w].pc \notin Guarded
      /\ tiers' \in Ladders /\ tierRevision' = tierRevision + 1
  BY DEF ReplaceTiers
<1>2. Types'
  <2>1. tierRevision' \in Nat /\ seenRevision' \in 0 .. tierRevision'
    BY <1>1 DEF Inv, Types
  <2> QED
    BY <1>1, <2>1 DEF Inv, Types
<1>3. Alone' /\ Lines' /\ Kept(assignments)' /\ (backend.mode = "serialized" => rollbacks = 0)'
  BY <1>1 DEF Inv, Alone, Busy, Lines
<1>4. \A w \in Workers : InMode(w)' /\ Current(w)' /\ Reads(w)' /\ Plans(w)' /\ Learns(w)'
  <2> SUFFICES ASSUME NEW w \in Workers
               PROVE  InMode(w)' /\ Current(w)' /\ Reads(w)' /\ Plans(w)' /\ Learns(w)'
    OBVIOUS
  <2>1. InMode(w) /\ Current(w) /\ Reads(w) /\ Plans(w) /\ Learns(w) /\ thread[w].pc \notin Guarded
    BY <1>1 DEF Inv
  <2>2. InMode(w)' /\ Reads(w)' /\ Learns(w)'
    BY <1>1, <2>1 DEF InMode, Reads, Learns
  <2>3. Current(w)' /\ Plans(w)'
    BY <1>1, <2>1 DEF Current, Plans, Planned, Guarded
  <2> QED
    BY <2>2, <2>3
<1>5. \A p \in Profiles : Trained(p)'
  BY <1>1 DEF Inv, Trained
<1> QED
  BY <1>2, <1>3, <1>4, <1>5 DEF Inv

\* The front of a queue and the rest of it.
LEMMA QueueSplits ==
  ASSUME NEW p, NEW line, NEW log, Queue(p, line, log), NEW k \in 0 .. Len(line)
  PROVE  LET front == SubSeq(line, 1, k)
             rest == SubSeq(line, k + 1, Len(line))
         IN Queue(p, front, log) /\ Queue(p, rest, log) /\ Apart(front, rest)
<1> DEFINE n == Len(line)
           front == SubSeq(line, 1, k)
           rest == SubSeq(line, k + 1, n)
<1>1. line \in Seq(Requests) /\ n \in Nat /\ k \in Nat /\ k <= n
  BY DEF Queue
<1>2. /\ front \in Seq(Requests) /\ Len(front) = k
      /\ \A i \in 1 .. k : front[i] = line[i]
  BY <1>1
<1>3. /\ rest \in Seq(Requests) /\ Len(rest) = n - k
      /\ \A i \in 1 .. n - k : rest[i] = line[k + i]
  BY <1>1
<1>4. /\ \A i \in 1 .. k : i \in 1 .. n
      /\ \A i \in 1 .. n - k : k + i \in 1 .. n /\ k + i > k
  BY <1>1
<1>5. /\ BatchOf(line, p)
      /\ \A i, j \in 1 .. n : line[i] = line[j] => i = j
      /\ \A i \in 1 .. n : ~ Logged(log, line[i])
  BY DEF Queue
<1> HIDE DEF n, front, rest
<1>6. Queue(p, front, log)
  BY <1>2, <1>4, <1>5 DEF Queue, BatchOf, n
<1>7. Queue(p, rest, log)
  <2>1. BatchOf(rest, p) /\ \A i \in 1 .. n - k : ~ Logged(log, rest[i])
    BY <1>3, <1>4, <1>5 DEF BatchOf, n
  <2>2. ASSUME NEW i \in 1 .. n - k, NEW j \in 1 .. n - k, rest[i] = rest[j] PROVE i = j
    <3>1. k + i = k + j
      BY <1>3, <1>4, <1>5, <2>2
    <3> QED
      BY <1>1, <3>1
  <2> QED
    BY <1>3, <2>1, <2>2 DEF Queue
<1>8. Apart(front, rest)
  <2> SUFFICES ASSUME NEW i \in 1 .. k, NEW j \in 1 .. n - k, front[i] = rest[j] PROVE FALSE
    BY <1>2, <1>3 DEF Apart
  <2>1. line[i] = line[k + j]
    BY <1>2, <1>3
  <2>2. i = k + j /\ k + j > k
    BY <1>4, <1>5, <2>1
  <2> QED
    BY <1>1, <2>2
<1> QED
  BY <1>6, <1>7, <1>8 DEF front, rest, n

\* A serialized worker is only dispatched when there is no other.
LEMMA SerializedAlone ==
  ASSUME NEW w, NEW p, Dispatch(w, p), backend.mode = "serialized"
  PROVE  \A u \in Workers : ~ Busy(u)
<1> DEFINE S == Workers \ Free
<1>1. IsFiniteSet(Workers)
  <2>1. Parallelism \in Nat
    BY WorkerAssumption
  <2>2. IsFiniteSet(1 .. Parallelism)
    BY <2>1, FS_Interval
  <2> QED
    BY <2>2 DEF Workers
<1>2. IsFiniteSet(S) /\ Cardinality(S) < 1
  <2>1. IsFiniteSet(S)
    BY <1>1, FS_Difference
  <2>2. ActiveWorkers < MaxWorkers /\ MaxWorkers = 1
    BY DEF Dispatch, MaxWorkers, Mode
  <2> QED
    BY <2>1, <2>2 DEF ActiveWorkers
<1>3. \A u \in Workers : u \notin S => ~ Busy(u)
  BY DEF Free, Busy
<1> HIDE DEF S
<1>4. Cardinality(S) \in Nat
  BY <1>2, FS_CardinalityType
<1>5. Cardinality(S) = 0
  BY <1>2, <1>4
<1>6. S = {}
  BY <1>2, <1>5, FS_EmptySet
<1> QED
  BY <1>3, <1>6

\* The size of a claim.
LEMMA ClaimType ==
  ASSUME NEW a \in Nat, NEW b \in Nat
  PROVE  Min({a, b}) \in 0 .. a
<1> DEFINE S == {a, b}
<1>1. \E x \in S : \A y \in S : x <= y
  BY DEF S
<1>2. Min(S) \in S /\ \A y \in S : Min(S) <= y
  <2> HIDE DEF S
  <2> QED
    BY <1>1 DEF Min
<1> QED
  BY <1>2

\* A worker claims a batch.
LEMMA DispatchKeeps ==
  ASSUME Inv, NEW w \in Workers, NEW p \in Profiles, Dispatch(w, p)
  PROVE  Inv'
<1> DEFINE th == thread[w]
           claim == Min({Len(pending[p]), BatchSize})
           front == SubSeq(pending[p], 1, claim)
           rest == SubSeq(pending[p], claim + 1, Len(pending[p]))
           new == [pc |-> "start", profile |-> p, batch |-> front, revision |-> 0,
                   ctx |-> EmptyContext, plan |-> << >>, delta |-> NewState,
                   lesson |-> << >>, consecutive |-> 0]
<1>0. /\ Types /\ Alone /\ Lines
      /\ pending \in [Profiles -> Seq(Requests)] /\ assignments \in Seq(Placement)
  BY DEF Inv, Types
<1>1. Turns(w, new)
  BY <1>0, DispatchEffect
<1>2. thread[w].pc = "idle" /\ p \notin activeProfiles
  BY DEF Dispatch
<1>3. /\ UNCHANGED <<backend, assignments, tiers, tierRevision, seenRevision, swarm>>
      /\ UNCHANGED <<rollbacks, lessons, forced>>
      /\ pending' = [pending EXCEPT ![p] = rest]
      /\ activeProfiles' = activeProfiles \cup {p}
  BY DEF Dispatch
<1>4. Queue(p, front, assignments) /\ Queue(p, rest, assignments) /\ Apart(front, rest)
  <2>1. Queue(p, pending[p], assignments)
    BY <1>0 DEF Lines
  <2>2. Len(pending[p]) \in Nat /\ BatchSize \in Nat
    BY <1>0, WorkerAssumption
  <2>3. claim \in 0 .. Len(pending[p])
    BY <2>2, ClaimType
  <2> HIDE DEF claim
  <2> QED
    BY <2>1, <2>3, QueueSplits
<1>5. front \in Seq(Requests) /\ rest \in Seq(Requests)
  BY <1>4 DEF Queue
<1> HIDE DEF front, rest
<1>6. ThreadTypes(new)
  BY <1>5, EmptyTypes DEF ThreadTypes, IsThread, ThreadPc
<1>7. new.pc = "start" /\ new.profile = p /\ new.batch = front /\ new.plan = << >>
  OBVIOUS
<1> HIDE DEF new
<1>8. thread'[w] = new /\ \A u \in Workers : u # w => thread'[u] = thread[u]
  BY <1>1 DEF Turns
<1>9. \A x \in Profiles : pending'[x] = IF x = p THEN rest ELSE pending[x]
  BY <1>0, <1>3
<1>10. Types'
  <2>1. /\ thread' = [u \in Workers |-> thread'[u]]
        /\ \A u \in Workers : ThreadTypes(thread'[u])
    BY <1>0, <1>1, <1>6, TypesTurn
  <2>2. pending' \in [Profiles -> Seq(Requests)]
    BY <1>0, <1>3, <1>5
  <2> QED
    BY <1>0, <1>3, <2>1, <2>2 DEF Types
<1>11. \A u \in Workers : u # w /\ Busy(u) => thread[u].profile # p /\ thread[u].profile \in activeProfiles
  BY <1>0, <1>2 DEF Alone
<1>12. Alone'
  <2>1. \A u \in Workers : u # w => (Busy(u)' <=> Busy(u))
    BY <1>8 DEF Busy
  <2>2. \A u \in Workers : Busy(u)' => thread'[u].profile \in activeProfiles'
    BY <1>3, <1>7, <1>8, <1>11, <2>1
  <2>3. \A u, v \in Workers :
          Busy(u)' /\ Busy(v)' /\ thread'[u].profile = thread'[v].profile => u = v
    BY <1>0, <1>7, <1>8, <1>11, <2>1 DEF Alone
  <2>4. backend'.mode = "serialized" => \A u, v \in Workers : Busy(u)' /\ Busy(v)' => u = v
    BY <1>3, <2>1, SerializedAlone
  <2> QED
    BY <2>2, <2>3, <2>4 DEF Alone
<1>13. Lines'
  <2>1. ASSUME NEW x \in Profiles PROVE Queue(x, pending'[x], assignments')
    BY <1>0, <1>3, <1>4, <1>9 DEF Lines
  <2>2. ASSUME NEW u \in Workers, thread'[u].pc \in Waiting
        PROVE  /\ Queue(thread'[u].profile, thread'[u].batch, assignments')
               /\ Apart(thread'[u].batch, pending'[thread'[u].profile])
    <3>1. CASE u = w
      BY <1>3, <1>4, <1>7, <1>8, <1>9, <3>1
    <3>2. CASE u # w
      <4>1. thread'[u] = thread[u]
        BY <1>8, <3>2
      <4>2. /\ Queue(thread[u].profile, thread[u].batch, assignments)
            /\ Apart(thread[u].batch, pending[thread[u].profile])
        BY <1>0, <2>2, <4>1 DEF Lines
      <4>3. thread[u].profile # p /\ thread[u].profile \in Profiles
        <5>1. Busy(u)
          BY <2>2, <4>1 DEF Busy, Waiting
        <5> QED
          BY <1>0, <1>11, <3>2, <5>1 DEF Types, ThreadTypes
      <4> QED
        BY <1>3, <1>9, <4>1, <4>2, <4>3
    <3> QED
      BY <3>1, <3>2
  <2>3. Once(assignments')
    BY <1>0, <1>3 DEF Lines
  <2> QED
    BY <2>1, <2>2, <2>3 DEF Lines
<1>14. InMode(w)' /\ Current(w)' /\ Reads(w)' /\ Plans(w)' /\ Learns(w)'
  BY <1>7, <1>8 DEF InMode, Current, Reads, Plans, Learns, Guarded, Planned
<1>15. ASSUME NEW u \in Workers, u # w
       PROVE  InMode(u)' /\ Current(u)' /\ Reads(u)' /\ Plans(u)' /\ Learns(u)'
  <2>1. thread'[u] = thread[u] /\ SameState(thread[u].profile)
    BY <1>3, <1>8, <1>15, StateKept
  <2>2. InMode(u) /\ Current(u) /\ Reads(u) /\ Plans(u) /\ Learns(u)
    BY DEF Inv
  <2> QED
    BY <1>3, <2>1, <2>2, OthersKept, ReadsKept
<1>16. ASSUME NEW x \in Profiles PROVE Trained(x)'
  <2>1. Trained(x) /\ SameState(x) /\ UNCHANGED backend
    BY <1>3, StateKept DEF Inv
  <2>2. thread[w].pc # TrainingPc(backend.mode)
    BY <1>2 DEF TrainingPc
  <2> QED
    BY <1>1, <2>1, <2>2, TrainedKept
<1>17. Kept(assignments)' /\ (backend.mode = "serialized" => rollbacks = 0)'
  BY <1>3 DEF Inv
<1> QED
  BY <1>10, <1>12, <1>13, <1>14, <1>15, <1>16, <1>17 DEF Inv

-----------------------------------------------------------------------------
(* The theorems. *)

\* Every step keeps the invariant.
LEMMA StepKeeps ==
  ASSUME Inv, [Next]_vars
  PROVE  Inv'
<1>1. CASE \E r \in Requests : Admit(r)
  BY <1>1, AdmitKeeps
<1>2. CASE ReplaceTiers
  BY <1>2, ReplaceTiersKeeps
<1>3. CASE DispatchStep
  BY <1>3, DispatchKeeps DEF DispatchStep
<1>4. CASE \E w \in Workers : WorkerStep(w)
  <2> SUFFICES ASSUME NEW w \in Workers, WorkerStep(w) PROVE Inv'
    BY <1>4
  <2>1. CASE TakeGuard(w)
    BY <2>1, TakeGuardKeeps
  <2>2. CASE CheckRevision(w)
    BY <2>2, CheckRevisionKeeps
  <2>3. CASE Snapshot(w)
    BY <2>3, SnapshotKeeps
  <2>4. CASE SolveInPlace(w)
    BY <2>4, SolveInPlaceKeeps
  <2>5. CASE SolveClone(w)
    BY <2>5, SolveCloneKeeps
  <2>6. CASE CommitBatch(w)
    BY <2>6, CommitBatchKeeps
  <2>7. CASE RollBack(w)
    BY <2>7, RollBackKeeps
  <2>8. CASE MergeDelta(w)
    BY <2>8, MergeDeltaKeeps
  <2>9. CASE Finish(w)
    BY <2>9, FinishKeeps
  <2>10. CASE Release(w)
    BY <2>10, ReleaseKeeps
  <2> QED
    BY <2>1, <2>2, <2>3, <2>4, <2>5, <2>6, <2>7, <2>8, <2>9, <2>10 DEF WorkerStep
<1>5. CASE UNCHANGED vars
  <2>1. /\ UNCHANGED <<backend, pending, assignments, tiers, tierRevision, seenRevision>>
        /\ UNCHANGED <<swarm, activeProfiles, thread, rollbacks, lessons, forced>>
    BY <1>5 DEF vars
  <2>2. Types' /\ Alone' /\ Lines'
    BY <2>1 DEF Inv, Types, Alone, Busy, Lines
  <2>3. \A w \in Workers : InMode(w)' /\ Current(w)' /\ Reads(w)' /\ Plans(w)' /\ Learns(w)'
    BY <2>1 DEF Inv, InMode, Current, Reads, Plans, Learns
  <2>4. \A p \in Profiles : Trained(p)'
    BY <2>1 DEF Inv, Trained
  <2> QED
    BY <2>1, <2>2, <2>3, <2>4 DEF Inv
<1> QED
  BY <1>1, <1>2, <1>3, <1>4, <1>5 DEF Next

\* The inductive invariant holds throughout: the workers have their profiles to
\* themselves, contexts count no more than the log, plans keep prices and budgets
\* against their context, and every profile's estimates are the lessons committed
\* or a known training step away from them.
THEOREM Invariance == Spec => []Inv
<1>1. Init => Inv
  BY InitInv
<1>2. Inv /\ [Next]_vars => Inv'
  BY StepKeeps
<1> QED
  BY <1>1, <1>2, PTL DEF Spec

\* A merge batch is rejected at most RollbackMax times in a row, and a serialized
\* one, which trains before it commits, never (try_commit_swarm_batch).
THEOREM SerializedRollbackFree == Spec => []SerializedNeverRollsBack
<1>1. Inv => SerializedNeverRollsBack
  <2> SUFFICES ASSUME Inv PROVE SerializedNeverRollsBack
    OBVIOUS
  <2>1. TypeOK
    <3>1. Types
      BY DEF Inv
    <3> QED
      BY <3>1 DEF Types, TypeOK, ThreadTypes
  <2> QED
    BY <2>1 DEF SerializedNeverRollsBack, Inv, Mode
<1> QED
  BY <1>1, Invariance, PTL

\* A worker that has checked the revision plans, prices and trains under the
\* ladder in force (batch_worker_entry).
THEOREM CostsOfOneCurve == Spec => []OneCostCurve
<1>1. Inv => OneCostCurve
  <2> SUFFICES ASSUME Inv, NEW w \in Workers, thread[w].pc \in Guarded \ {"check"}
               PROVE  /\ seenRevision = tierRevision
                      /\ \A i \in DOMAIN thread[w].plan :
                           \E n \in 1 .. Cardinality(Requests) :
                             thread[w].plan[i].multiplier = capacity_mult(tiers, n)
    BY DEF OneCostCurve
  <2>1. seenRevision = tierRevision
    BY DEF Inv, Current
  <2>2. Priced(tiers, thread[w].plan)
    <3>1. CASE thread[w].pc \in Planned
      BY <3>1 DEF Inv, Plans
    <3>2. CASE thread[w].pc \notin Planned
      BY <3>2 DEF Inv, Plans, Priced
    <3> QED
      BY <3>1, <3>2
  <2>3. DOMAIN thread[w].plan = 1 .. Len(thread[w].plan)
    BY DEF Inv, Types, ThreadTypes
  <2> QED
    BY <2>1, <2>2, <2>3 DEF Priced
<1> QED
  BY <1>1, Invariance, PTL

\* A committed request keeps its profile's window at the threshold or runs in the
\* flavour of least error: its plan was made against all the profile had
\* committed (pick_feasible_flavour, dispatch_batch_workers).
THEOREM BudgetsKept == Spec => []BudgetKeptOrFallback
<1>1. Inv => BudgetKeptOrFallback
  BY KeptIsBudget DEF Inv, Types
<1> QED
  BY <1>1, Invariance, PTL

\* A profile's estimates are what its committed batches since the last reset
\* teach, each once, whatever the backend (merge_delta, batch_worker_entry).
THEOREM TrainsOnCommitted == Spec => []TrainedOnCommitted
<1>1. Inv => TrainedOnCommitted
  <2> SUFFICES ASSUME Inv, NEW p \in Profiles, ~ Training(p)
               PROVE  Learned(p) = FoldLeft(Taught, NewState, lessons[p])
    BY DEF TrainedOnCommitted
  <2>1. \A w \in Workers : thread[w].profile = p => thread[w].pc # TrainingPc(backend.mode)
    BY DEF Training, TrainingPc, Mode
  <2>2. Estimates(backend.strategy, swarm, p) = Knowledge(backend.strategy, lessons[p])
    BY <2>1 DEF Inv, Trained
  <2>3. lessons[p] \in Seq(Lessons)
    BY DEF Inv, Types
  <2>4. FoldLeft(Taught, NewState, lessons[p]) = Knowledge(Strategy, lessons[p])
    BY <2>3, KnowledgeFolds DEF Knowledge
  <2>5. Learned(p) = Estimates(backend.strategy, swarm, p)
    BY DEF Learned, Estimates, Fresh, NewState, Strategy
  <2> QED
    BY <2>2, <2>4, <2>5 DEF Strategy
<1> QED
  BY <1>1, Invariance, PTL

\* Only the worker's own commit takes it from there to its training or its return.
LEMMA OnlyCommitPasses ==
  ASSUME Inv, [Next]_vars, NEW w \in Workers,
         thread[w].pc = "commit", thread'[w].pc \in {"merge", "finish"}
  PROVE  CommitBatch(w)
<1>0. Types
  BY DEF Inv
<1>1. thread'[w] # thread[w]
  OBVIOUS
<1>2. PICK v \in Workers : WorkerStep(v) \/ \E p \in Profiles : Dispatch(v, p)
  <2>1. ~ UNCHANGED thread
    BY <1>1
  <2>2. ~ (\E r \in Requests : Admit(r)) /\ ~ ReplaceTiers /\ ~ UNCHANGED vars
    BY <2>1 DEF Admit, ReplaceTiers, vars
  <2> QED
    BY <2>2 DEF Next, DispatchStep
<1>3. \E new : thread' = [thread EXCEPT ![v] = new]
  <2>1. CASE \E p \in Profiles : Dispatch(v, p)
    BY <2>1 DEF Dispatch
  <2>2. CASE WorkerStep(v)
    <3>1. CASE RollBack(v)
      <4>1. CASE Mode = "merge"
        <5>1. IF Mode = "merge" THEN \E new : thread' = [thread EXCEPT ![v] = new] ELSE TRUE
          BY <3>1 DEF RollBack
        <5> QED
          BY <4>1, <5>1
      <4>2. CASE Mode # "merge"
        BY <3>1, <4>2, OnlyMergeRollsBack DEF Mode
      <4> QED
        BY <4>1, <4>2
    <3>2. CASE TakeGuard(v) \/ CheckRevision(v) \/ Snapshot(v) \/ CommitBatch(v) \/ MergeDelta(v)
      BY <3>2 DEF TakeGuard, CheckRevision, Snapshot, CommitBatch, MergeDelta
    <3>3. CASE Finish(v) \/ Release(v)
      BY <3>3 DEF Finish, Release
    <3>4. CASE SolveInPlace(v)
      BY <3>4 DEF SolveInPlace
    <3>5. CASE SolveClone(v)
      BY <3>5 DEF SolveClone
    <3> QED
      BY <2>2, <3>1, <3>2, <3>3, <3>4, <3>5 DEF WorkerStep
  <2> QED
    BY <1>2, <2>1, <2>2
<1>4. v = w
  <2>1. PICK new : thread' = [thread EXCEPT ![v] = new]
    BY <1>3
  <2>2. thread = [u \in Workers |-> thread[u]]
    BY <1>0 DEF Types
  <2>3. Turns(v, new)
    BY <2>1, <2>2, OneTurns
  <2> QED
    BY <1>1, <2>3 DEF Turns
<1>5. ~ RollBack(w)
  <2> SUFFICES ASSUME RollBack(w) PROVE FALSE
    OBVIOUS
  <2>1. Mode = "merge"
    BY OnlyMergeRollsBack DEF Mode
  <2> DEFINE th == thread[w]
             new == [pc |-> "snapshot", profile |-> th.profile, batch |-> th.batch,
                     revision |-> th.revision, ctx |-> EmptyContext, plan |-> << >>,
                     delta |-> NewState, lesson |-> << >>,
                     consecutive |-> th.consecutive + 1]
  <2>2. Turns(w, new)
    BY <1>0, <2>1, RollBackEffect
  <2>3. new.pc = "snapshot"
    OBVIOUS
  <2> HIDE DEF new
  <2>4. thread'[w].pc = "snapshot"
    BY <2>2, <2>3 DEF Turns
  <2> QED
    BY <2>4
<1>6. CASE \E p \in Profiles : Dispatch(v, p)
  BY <1>4, <1>6 DEF Dispatch
<1>7. CASE WorkerStep(v)
  BY <1>4, <1>5, <1>7 DEF WorkerStep, TakeGuard, CheckRevision, Snapshot, SolveInPlace,
     SolveClone, MergeDelta, Finish, Release
<1> QED
  BY <1>2, <1>6, <1>7

\* Unless it was forced through, no batch commits a slot's last request below the
\* tier of its position (try_commit_swarm_batch).
THEOREM TiersSeen == Spec => NoUnseenTier
<1>1. Inv /\ [Next]_vars =>
        \A w \in Workers :
          thread[w].pc = "commit" /\ thread'[w].pc \in {"merge", "finish"} /\ ~ forced' =>
            LET plan == thread[w].plan
            IN \A i \in DOMAIN plan :
                 (\A j \in DOMAIN plan : plan[j].slot = plan[i].slot => j <= i) =>
                   plan[i].multiplier >= capacity_mult(tiers, Occupancy(plan[i].slot)')
  <2> SUFFICES ASSUME Inv, [Next]_vars, NEW w \in Workers, thread[w].pc = "commit",
                      thread'[w].pc \in {"merge", "finish"}, ~ forced',
                      NEW i \in DOMAIN thread[w].plan,
                      \A j \in DOMAIN thread[w].plan :
                        thread[w].plan[j].slot = thread[w].plan[i].slot => j <= i
               PROVE  thread[w].plan[i].multiplier
                        >= capacity_mult(tiers, Occupancy(thread[w].plan[i].slot)')
    BY Zenon
  <2> DEFINE th == thread[w]
             before == th.plan
  <2>1. CommitBatch(w)
    BY OnlyCommitPasses
  <2>2. assignments' = assignments \o before /\ ~ TierBreach(w)
    BY <2>1 DEF CommitBatch
  <2>3. thread'[w].plan = before
    <3>1. Types
      BY DEF Inv
    <3> DEFINE new == [pc |-> IF Mode = "merge" THEN "merge" ELSE "finish",
                       profile |-> th.profile, batch |-> th.batch,
                       revision |-> th.revision, ctx |-> th.ctx, plan |-> th.plan,
                       delta |-> th.delta, lesson |-> th.lesson,
                       consecutive |-> th.consecutive]
    <3>2. Turns(w, new)
      BY <2>1, <3>1, CommitBatchEffect
    <3>3. new.plan = before
      OBVIOUS
    <3> HIDE DEF new
    <3> QED
      BY <3>2, <3>3 DEF Turns
  <2>4. /\ Joined(assignments, before, assignments')
        /\ MadeFrom(assignments, th.profile, tiers, th.ctx, th.batch, before)
    BY <2>2, CommitEnters
  <2>5. tiers \in Ladder /\ before \in Seq(Placement)
    BY WorkerAssumption DEF Inv, Types, ThreadTypes, Ladder
  <2>6. ~ Breach(tiers, assignments, th.ctx, before)
    BY <2>2, BreachIs
  <2>7. DOMAIN before = 1 .. Len(before)
    BY <2>5
  <2> HIDE DEF before
  <2>8. i \in 1 .. Len(before) /\ \A j \in 1 .. Len(before) : before[j].slot = before[i].slot => j <= i
    BY <2>7 DEF before
  <2>9. before[i].multiplier >= capacity_mult(tiers, OccupancyIn(assignments', before[i].slot))
    BY <2>4, <2>5, <2>6, <2>8, LastPrice
  <2>10. Occupancy(thread[w].plan[i].slot)' = OccupancyIn(assignments', before[i].slot)
    BY <2>3 DEF Occupancy, OccupancyIn
  <2> QED
    BY <2>9, <2>10 DEF before
<1> QED
  BY <1>1, Invariance, PTL DEF Spec, NoUnseenTier

=============================================================================
