------------------------- MODULE NshiftStudy_proofs -------------------------
(***************************************************************************)
(* Theorems about the whole-scenario strategies and the benchmark.         *)
(***************************************************************************)
EXTENDS NshiftStudy, FoldLemmas

-----------------------------------------------------------------------------
(* Constants and choices. *)

\* The requests of the scenario that is run.
LEMMA ScenarioTypes ==
  ASSUME strategy \in DOMAIN Scenarios, requests \in Scenarios[strategy]
  PROVE  /\ requests \in Seq([arrival : Slots, deadline : Nat])
         /\ Len(requests) \in Nat \ {0} /\ DOMAIN requests = 1 .. Len(requests)
         /\ \A i \in 1 .. Len(requests) :
              /\ requests[i].arrival \in Slots /\ requests[i].arrival \in Nat
              /\ requests[i].arrival \in Int
              /\ requests[i].deadline \in Nat /\ requests[i].deadline \in Int
<1>1. requests \in UNION Range(Scenarios)
  BY DEF Range
<1>2. requests \in Seq([arrival : Slots, deadline : Nat]) /\ requests # << >>
  BY <1>1, StrategyAssumption
<1> DEFINE R == [arrival : Slots, deadline : Nat]
<1>3. \A i \in 1 .. Len(requests) : requests[i] \in R
  <2> HIDE DEF R
  <2> QED
    BY <1>2, SeqElement DEF R
<1>4. Slots \subseteq Nat
  BY StrategyAssumption DEF Slots
<1>5. Len(requests) \in Nat \ {0} /\ DOMAIN requests = 1 .. Len(requests)
  BY <1>2
<1>6. \A i \in 1 .. Len(requests) :
        /\ requests[i].arrival \in Slots /\ requests[i].arrival \in Nat
        /\ requests[i].deadline \in Nat
  BY <1>3, <1>4
<1> QED
  BY <1>2, <1>5, <1>6

\* The slots of the horizon.
LEMMA SlotBounds ==
  /\ TotalSlots \in Nat /\ MaxFuture \in Nat /\ IsFiniteSet(Slots)
  /\ \A s \in Slots : s \in Nat /\ s <= TotalSlots - 1
  /\ \A s \in Nat : s <= TotalSlots - 1 => s \in Slots
<1>1. TotalSlots \in Nat /\ MaxFuture \in Nat
  BY StrategyAssumption
<1>2. IsFiniteSet(0 .. TotalSlots - 1)
  BY <1>1, FS_Interval
<1> QED
  BY <1>1, <1>2 DEF Slots

\* The flavours are finitely many.
LEMMA FlavourTypes ==
  /\ Names = 1 .. Len(Flavours) /\ Len(Flavours) \in Nat
  /\ IsFiniteSet(Names) /\ Names # {} /\ Names \subseteq Nat
  /\ \A f \in Names : /\ Flavours[f].duration \in Nat /\ Flavours[f].duration > 0
                      /\ Flavours[f].error \in Nat
<1>1. Flavours \in Seq([duration : Nat \ {0}, error : Nat]) /\ Flavours # << >>
  BY StrategyAssumption
<1>2. Names = 1 .. Len(Flavours) /\ Len(Flavours) \in Nat /\ Len(Flavours) # 0
  BY <1>1 DEF Names
<1> DEFINE R == [duration : Nat \ {0}, error : Nat]
<1>3. \A f \in Names : Flavours[f] \in R
  <2> HIDE DEF R
  <2> QED
    BY <1>1, <1>2, SeqElement DEF R
<1>4. IsFiniteSet(1 .. Len(Flavours))
  BY <1>2, FS_Interval
<1>5. 1 \in Names
  BY <1>2
<1> QED
  BY <1>2, <1>3, <1>4, <1>5

\* A non-empty set of flavours has a first one of least duration, and one of
\* least error.
LEMMA FirstFlavour ==
  ASSUME NEW S, S \subseteq Names, S # {}
  PROVE  /\ \E f \in S : \A g \in S \ {f} : ShorterFirst(f, g)
         /\ \E f \in S : \A g \in S : \/ Flavours[f].error < Flavours[g].error
                                      \/ Flavours[f].error = Flavours[g].error /\ f <= g
<1>1. IsFiniteSet(S) /\ \A f \in S : /\ f \in Int /\ Flavours[f].duration \in Int
                                     /\ Flavours[f].error \in Int
  BY FlavourTypes, FS_Subset
<1>2. \E f \in S : \A g \in S \ {f} : ShorterFirst(f, g)
  <2> DEFINE R == {p \in S \X S : p[1] = p[2] \/ ShorterFirst(p[1], p[2])}
  <2>1. \A x, y \in S : <<x, y>> \in R <=> x = y \/ ShorterFirst(x, y)
    OBVIOUS
  <2> HIDE DEF R
  <2>2. \A x, y \in S : x = y \/ ShorterFirst(x, y) \/ ShorterFirst(y, x)
    BY <1>1 DEF ShorterFirst
  <2>3. \A x, y, z \in S : ShorterFirst(x, y) /\ ShorterFirst(y, z) => ShorterFirst(x, z)
    BY <1>1 DEF ShorterFirst
  <2>4. \A x, y \in S : <<x, y>> \in R \/ <<y, x>> \in R
    BY <2>1, <2>2
  <2>5. \A x, y, z \in S : <<x, y>> \in R /\ <<y, z>> \in R => <<x, z>> \in R
    BY <2>1, <2>3
  <2>6. \E f \in S : \A g \in S : <<f, g>> \in R
    BY <1>1, <2>4, <2>5, LeastExists
  <2> QED
    BY <2>1, <2>6
<1>3. \E f \in S : \A g \in S : \/ Flavours[f].error < Flavours[g].error
                                \/ Flavours[f].error = Flavours[g].error /\ f <= g
  <2> DEFINE Before(f, g) == \/ Flavours[f].error < Flavours[g].error
                             \/ Flavours[f].error = Flavours[g].error /\ f <= g
             R == {p \in S \X S : Before(p[1], p[2])}
  <2>1. \A x, y \in S : <<x, y>> \in R <=> Before(x, y)
    OBVIOUS
  <2> HIDE DEF R
  <2>2. \A x, y \in S : Before(x, y) \/ Before(y, x)
    BY <1>1
  <2>3. \A x, y, z \in S : Before(x, y) /\ Before(y, z) => Before(x, z)
    BY <1>1
  <2> HIDE DEF Before
  <2>4. \E f \in S : \A g \in S : <<f, g>> \in R
    <3>1. \A x, y \in S : <<x, y>> \in R \/ <<y, x>> \in R
      BY <2>1, <2>2
    <3>2. \A x, y, z \in S : <<x, y>> \in R /\ <<y, z>> \in R => <<x, z>> \in R
      BY <2>1, <2>3
    <3> QED
      BY <1>1, <3>1, <3>2, LeastExists
  <2>5. \E f \in S : \A g \in S : Before(f, g)
    BY <2>1, <2>4
  <2> QED
    BY <2>5 DEF Before
<1> QED
  BY <1>2, <1>3

\* The fallback is a flavour, and so is what bandit and ants pick; when that is
\* not the fallback it keeps the averages.
LEMMA Picks ==
  /\ fallback_flav \in Names
  /\ \A slot_ : /\ pick_feasible_flavour(slot_) \in Names
                /\ \/ pick_feasible_flavour(slot_) = fallback_flav
                   \/ FitsGlobal(pick_feasible_flavour(slot_))
<1>1. fallback_flav \in Names
  <2>1. \E f \in Names : \A g \in Names :
          \/ Flavours[f].error < Flavours[g].error
          \/ Flavours[f].error = Flavours[g].error /\ f <= g
    <3>1. Names \subseteq Names /\ Names # {}
      BY FlavourTypes
    <3> QED
      BY <3>1, FirstFlavour
  <2> QED
    BY <2>1 DEF fallback_flav
<1>2. ASSUME NEW slot_
      PROVE  /\ pick_feasible_flavour(slot_) \in Names
             /\ \/ pick_feasible_flavour(slot_) = fallback_flav
                \/ FitsGlobal(pick_feasible_flavour(slot_))
  <2> DEFINE S == FeasibleIn(slot_)
  <2>1. S \subseteq Names /\ \A f \in S : FitsGlobal(f)
    BY DEF FeasibleIn
  <2>2. CASE S = {}
    BY <1>1, <2>2 DEF pick_feasible_flavour
  <2>3. CASE S # {}
    <3>1. \E f \in S : \A g \in S \ {f} : ShorterFirst(f, g)
      BY <2>1, <2>3, FirstFlavour
    <3>2. pick_feasible_flavour(slot_)
            = CHOOSE f \in S : \A g \in S \ {f} : ShorterFirst(f, g)
      BY <2>3 DEF pick_feasible_flavour
    <3>3. pick_feasible_flavour(slot_) \in S
      BY <3>1, <3>2
    <3> QED
      BY <2>1, <3>3
  <2> QED
    BY <2>2, <2>3
<1> QED
  BY <1>1, <1>2

-----------------------------------------------------------------------------
(* Prices and slots. *)

\* Products of naturals are naturals, and grow with their middle factor.
LEMMA NatProduct ==
  ASSUME NEW a \in Nat, NEW b \in Nat, NEW c \in Nat
  PROVE  a * b * c \in Nat
<1>1. a * b \in Nat
  OBVIOUS
<1> DEFINE d == a * b
<1> HIDE DEF d
<1>2. d * c \in Nat
  BY <1>1 DEF d
<1> QED
  BY <1>2 DEF d

\* A larger middle factor makes no smaller product.
LEMMA ProductMonotone ==
  ASSUME NEW a \in Nat, NEW b \in Nat, NEW c \in Nat, NEW d \in Nat, b <= d
  PROVE  a * b * c <= a * d * c
<1>1. PICK e \in Nat : d = b + e
  <2>1. d - b \in Nat /\ d = b + (d - b)
    OBVIOUS
  <2> QED
    BY <2>1
<1>2. a * (b + e) = a * b + a * e
  OBVIOUS
<1>3. a * b \in Nat /\ a * e \in Nat
  OBVIOUS
<1> DEFINE x == a * b
           y == a * e
<1>4. (x + y) * c = x * c + y * c /\ x * c \in Nat /\ y * c \in Nat
  <2> HIDE DEF x, y
  <2>1. x \in Nat /\ y \in Nat
    BY <1>3 DEF x, y
  <2> QED
    BY <2>1
<1>5. a * d * c = (x + y) * c
  BY <1>1, <1>2
<1>6. a * b * c = x * c
  OBVIOUS
<1> HIDE DEF x, y
<1>7. x * c <= x * c + y * c
  BY <1>4
<1> QED
  BY <1>4, <1>5, <1>6, <1>7

Open(position) == {i \in DOMAIN Tiers : \/ Tiers[i].maxRequests = NoLimit
                                        \/ position <= Tiers[i].maxRequests}

\* The tier that prices a position.
TierAt(position) == IF Open(position) = {} THEN Len(Tiers) ELSE Min(Open(position))

\* A position's tier is one of the ladder, and no tier before it admits it.
LEMMA TierTypes ==
  ASSUME NEW position
  PROVE  /\ capacity_mult(position) = Tiers[TierAt(position)].multiplier
         /\ TierAt(position) \in DOMAIN Tiers /\ DOMAIN Tiers = 1 .. Len(Tiers)
         /\ Len(Tiers) \in Nat
         /\ \A i \in Open(position) : TierAt(position) <= i
         /\ \A i \in DOMAIN Tiers : Tiers[i].multiplier \in Nat
         /\ \A i \in DOMAIN Tiers : Tiers[i].maxRequests \in Int
<1> DEFINE R == [maxRequests : Nat \cup {NoLimit}, multiplier : Nat]
<1>1. Tiers \in Seq(R) /\ Tiers # << >>
  BY StrategyAssumption
<1>2. /\ Len(Tiers) \in Nat \ {0} /\ DOMAIN Tiers = 1 .. Len(Tiers)
      /\ \A i \in DOMAIN Tiers : Tiers[i] \in R
  <2> HIDE DEF R
  <2> QED
    BY <1>1, SeqElement
<1>3. IsFiniteSet(Open(position)) /\ Open(position) \subseteq DOMAIN Tiers
      /\ Open(position) \subseteq Int
  <2>1. IsFiniteSet(1 .. Len(Tiers))
    BY <1>2, FS_Interval
  <2>2. Open(position) \subseteq DOMAIN Tiers
    BY DEF Open
  <2> QED
    BY <1>2, <2>1, <2>2, FS_Subset
<1>4. /\ TierAt(position) \in DOMAIN Tiers
      /\ \A i \in Open(position) : TierAt(position) <= i
  <2>1. CASE Open(position) = {}
    BY <1>2, <2>1 DEF TierAt
  <2>2. CASE Open(position) # {}
    BY <1>3, <2>2, MinOf DEF TierAt
  <2> QED
    BY <2>1, <2>2
<1>5. capacity_mult(position) = Tiers[TierAt(position)].multiplier
  BY DEF capacity_mult, TierAt, Open
<1>6. \A i \in DOMAIN Tiers : Tiers[i].multiplier \in Nat /\ Tiers[i].maxRequests \in Int
  BY <1>2 DEF NoLimit
<1> QED
  BY <1>2, <1>4, <1>5, <1>6

\* Prices are natural numbers.
LEMMA PriceType ==
  ASSUME NEW slot_ \in Slots, NEW flavour \in Names, NEW position
  PROVE  /\ capacity_mult(position) \in Nat
         /\ PriceAt(slot_, flavour, position) \in Nat
<1>1. capacity_mult(position) \in Nat
  BY TierTypes
<1>2. Carbon[slot_] \in Nat /\ Flavours[flavour].duration \in Nat
  BY StrategyAssumption, FlavourTypes
<1> QED
  BY <1>1, <1>2, NatProduct DEF PriceAt

\* On an ascending ladder a later position costs no less.
Ascending ==
  \A i, j \in DOMAIN Tiers : i <= j => Tiers[i].multiplier <= Tiers[j].multiplier

LEMMA PriceMonotone ==
  ASSUME Ascending, NEW slot_ \in Slots, NEW flavour \in Names,
         NEW m \in Int, NEW n \in Int, m <= n
  PROVE  PriceAt(slot_, flavour, m) <= PriceAt(slot_, flavour, n)
<1>1. TierAt(m) <= TierAt(n)
  <2>1. CASE TierAt(n) \in Open(m)
    BY <2>1, TierTypes
  <2>2. CASE TierAt(n) \notin Open(m)
    <3>1. TierAt(n) \in DOMAIN Tiers /\ Tiers[TierAt(n)].maxRequests \in Int
      BY TierTypes
    <3>2. TierAt(n) \notin Open(n)
      BY <2>2, <3>1 DEF Open
    <3>3. Open(n) = {}
      <4> SUFFICES ASSUME Open(n) # {} PROVE FALSE
        OBVIOUS
      <4>1. IsFiniteSet(Open(n)) /\ Open(n) \subseteq Int
        <5>1. IsFiniteSet(1 .. Len(Tiers))
          BY TierTypes, FS_Interval
        <5>2. Open(n) \subseteq 1 .. Len(Tiers)
          BY TierTypes DEF Open
        <5> QED
          BY <5>1, <5>2, FS_Subset
      <4> QED
        BY <3>2, <4>1, MinOf DEF TierAt
    <3>4. TierAt(n) = Len(Tiers)
      BY <3>3 DEF TierAt
    <3> QED
      BY <3>4, TierTypes
  <2> QED
    BY <2>1, <2>2
<1>2. TierAt(m) \in DOMAIN Tiers /\ TierAt(n) \in DOMAIN Tiers
  BY TierTypes
<1>3. Tiers[TierAt(m)].multiplier <= Tiers[TierAt(n)].multiplier
  BY <1>1, <1>2 DEF Ascending
<1>4. capacity_mult(m) <= capacity_mult(n)
  BY <1>3, TierTypes
<1>5. /\ Carbon[slot_] \in Nat /\ Flavours[flavour].duration \in Nat
      /\ capacity_mult(m) \in Nat /\ capacity_mult(n) \in Nat
  BY StrategyAssumption, FlavourTypes, PriceType
<1> QED
  BY <1>4, <1>5, ProductMonotone DEF PriceAt

\* The slots in which a request is not late.
InReach(r, slot_) ==
  /\ r.arrival <= slot_
  /\ slot_ <= Max({r.arrival, Min({r.deadline, r.arrival + MaxFuture})})

\* The slots a request may be planned in.
LEMMA SlotChoices ==
  ASSUME NEW r, r.arrival \in Slots, r.deadline \in Nat
  PROVE  /\ valid_slots(r) \subseteq Slots /\ IsFiniteSet(valid_slots(r))
         /\ r.arrival \in valid_slots(r)
         /\ \A s \in valid_slots(r) : InReach(r, s)
         /\ r.arrival .. LastSlot(r) \subseteq valid_slots(r)
         /\ \A s \in valid_slots(r) :
              r.arrival <= LastSlot(r) => s \in r.arrival .. LastSlot(r)
         /\ \A s \in r.arrival .. LastSlot(r) : r.arrival <= LastSlot(r)
<1> DEFINE a == r.arrival
           d == r.deadline
           l == LastSlot(r)
           e == a + MaxFuture
           top == Max({l, a})
           bound == Max({a, Min({d, e})})
<1>0. /\ l = Min({d, e, TotalSlots - 1}) /\ e = a + MaxFuture
      /\ a \in Slots /\ d \in Nat
  BY DEF LastSlot
<1>8. /\ valid_slots(r) = a .. top
      /\ \A s : InReach(r, s) <=> a <= s /\ s <= bound
  BY DEF valid_slots, InReach
<1> HIDE DEF a, d, l, e
<1>1. a \in Nat /\ a <= TotalSlots - 1 /\ d \in Nat /\ e \in Nat /\ TotalSlots \in Nat
      /\ a <= e
  BY <1>0, SlotBounds
<1>2. l \in {d, e, TotalSlots - 1} /\ l <= d /\ l <= e /\ l <= TotalSlots - 1
  <2>1. d \in Int /\ e \in Int /\ TotalSlots - 1 \in Int
    BY <1>1
  <2> QED
    BY <1>0, <2>1, MinTriple
<1>3. l \in Int
  BY <1>1, <1>2
<1>4. Max({l, a}) = IF l >= a THEN l ELSE a
  BY <1>1, <1>3, MaxPair
<1>5. Min({d, e}) = IF d <= e THEN d ELSE e
  <2>1. d \in Int /\ e \in Int
    BY <1>1
  <2> QED
    BY <2>1, MinPair
<1>6. Max({a, Min({d, e})}) = IF a >= Min({d, e}) THEN a ELSE Min({d, e})
  BY <1>1, <1>5, MaxPair
<1>7. /\ top \in Int /\ top >= a /\ top <= TotalSlots - 1 /\ top <= bound /\ bound \in Int
      /\ l <= top /\ (a <= l => top = l)
  BY <1>1, <1>2, <1>3, <1>4, <1>5, <1>6
<1>9. IsFiniteSet(a .. top)
  BY <1>1, <1>7, FS_Interval
<1> HIDE DEF top, bound
<1>10. a .. top \subseteq Slots
  BY <1>1, <1>7, SlotBounds
<1>11. /\ a .. l \subseteq a .. top /\ \A s \in a .. top : a <= l => s \in a .. l
       /\ \A s \in a .. l : a <= l
  BY <1>1, <1>3, <1>7
<1>12. a \in a .. top /\ \A s \in a .. top : a <= s /\ s <= bound
  BY <1>1, <1>7
<1> QED
  BY <1>8, <1>9, <1>10, <1>11, <1>12 DEF a, l

-----------------------------------------------------------------------------
(* The cost of a solution, as a fold over the length. *)

AddCost == [x \in Nat \X Row |-> x[1] + x[2].cost]

\* The bill of a solution is a natural number.
LEMMA CostType ==
  ASSUME NEW solution \in Seq(Row)
  PROVE  Cost(solution) \in Nat
<1> DEFINE F == AddCost
           s == solution
<1>1. Folding(F, Nat, Row, 0, s)
  <2>1. \A x \in Nat \X Row : x[1] + x[2].cost \in Nat
    BY DEF Row
  <2> QED
    BY <2>1 DEF Folding, Folder, AddCost
<1>2. Left(F, 0, s) \in Nat
  BY <1>1, LeftLaws
<1> DEFINE h == CHOOSE iter : iter = [t \in SUBSET DOMAIN s |->
                  IF t = {} THEN 0 ELSE iter[t \ {Max(t)}] + s[Max(t)].cost]
<1>3. Cost(s) = h[DOMAIN s]
  BY DEF Cost, FoldLeft, MapThenFoldSet
<1>4. h = [t \in SUBSET DOMAIN s |-> IF t = {} THEN 0 ELSE h[t \ {Max(t)}] + s[Max(t)].cost]
  <2> DEFINE A == Nat
             z == 0
  <2>0. Folding(F, A, Row, z, s)
    BY <1>1
  <2> HIDE DEF A, z, F
  <2>1. PICK g : IndexFold(g, F, z, s) /\ \A t \in SUBSET DOMAIN s : g[t] \in A
    BY <2>0, IndexFoldExists
  <2>2. \A t \in SUBSET DOMAIN s :
          IndexStep(g, F, z, s, t)
            = IF t = {} THEN 0 ELSE g[t \ {Max(t)}] + s[Max(t)].cost
    <3> SUFFICES ASSUME NEW t \in SUBSET DOMAIN s, t # {}
                 PROVE  F[<<g[t \ {Max(t)}], s[Max(t)]>>] = g[t \ {Max(t)}] + s[Max(t)].cost
      BY DEF IndexStep, z
    <3>1. s[Max(t)] \in Row
      BY LastIndex
    <3>2. g[t \ {Max(t)}] \in Nat
      BY <2>1 DEF A
    <3> QED
      BY <3>1, <3>2 DEF F, AddCost
  <2>3. g = [t \in SUBSET DOMAIN s |-> IF t = {} THEN 0 ELSE g[t \ {Max(t)}] + s[Max(t)].cost]
    BY <2>1, <2>2 DEF IndexFold
  <2> QED
    BY <2>3
<1> HIDE DEF h
<1>5. h[{}] = 0
  BY <1>4
<1>6. ASSUME NEW t \in SUBSET DOMAIN s, t # {}, h[t \ {Max(t)}] \in Nat
      PROVE  h[t] = F[<<h[t \ {Max(t)}], s[Max(t)]>>]
  <2>1. h[t] = h[t \ {Max(t)}] + s[Max(t)].cost
    BY <1>4, <1>6
  <2>2. s[Max(t)] \in Row
    BY <1>6, LastIndex
  <2> QED
    BY <1>6, <2>1, <2>2 DEF AddCost
<1>7. h[DOMAIN s] = Left(F, 0, s)
  <2> DEFINE A == Nat
             z == 0
  <2>1. Folding(F, A, Row, z, s) /\ Follows(h, F, A, z, s)
    BY <1>1, <1>5, <1>6 DEF Follows
  <2> HIDE DEF A, z, F
  <2>2. h[DOMAIN s] = Left(F, z, s)
    BY <2>1, IndexFoldValue
  <2> QED
    BY <2>2 DEF z
<1> QED
  BY <1>2, <1>3, <1>7

-----------------------------------------------------------------------------
(* The searches for a least mean and a least price. *)

Value(x) == IF learned[x].n = 0 THEN InitialQ ELSE learned[x].total
Weight(x) == IF learned[x].n = 0 THEN 1 ELSE learned[x].n

\* The bandit exploits a candidate.
LEMMA LeastMeanExists ==
  ASSUME NEW S, S \subseteq Slots, S # {}, IsFiniteSet(S),
         learned \in [Slots -> [total : Nat, n : Nat]]
  PROVE  LeastMean(S) \in S
<1>1. /\ \A x \in S : Value(x) \in Nat /\ Weight(x) \in Nat \ {0} /\ x \in Nat
      /\ InitialQ \in Nat
  <2>1. InitialQ \in Nat
    BY StrategyAssumption
  <2> QED
    BY <2>1, SlotBounds DEF Value, Weight
<1>2. \A x, y \in S : NoDearerMean(x, y) <=> Value(x) * Weight(y) <= Value(y) * Weight(x)
  BY DEF NoDearerMean, Value, Weight
<1>3. \A x, y \in S : NoDearerMean(x, y) \/ NoDearerMean(y, x)
  <2> SUFFICES ASSUME NEW x \in S, NEW y \in S
               PROVE  NoDearerMean(x, y) \/ NoDearerMean(y, x)
    OBVIOUS
  <2>1. Value(x) * Weight(y) \in Nat /\ Value(y) * Weight(x) \in Nat
    BY <1>1
  <2> DEFINE p == Value(x) * Weight(y)
             q == Value(y) * Weight(x)
  <2>2. (NoDearerMean(x, y) <=> p <= q) /\ (NoDearerMean(y, x) <=> q <= p)
    BY <1>2
  <2> HIDE DEF p, q
  <2>3. p <= q \/ q <= p
    BY <2>1 DEF p, q
  <2> QED
    BY <2>2, <2>3
<1>4. \A x, y, z \in S : NoDearerMean(x, y) /\ NoDearerMean(y, z) => NoDearerMean(x, z)
  <2> SUFFICES ASSUME NEW x \in S, NEW y \in S, NEW z \in S,
                      Value(x) * Weight(y) <= Value(y) * Weight(x),
                      Value(y) * Weight(z) <= Value(z) * Weight(y)
               PROVE  Value(x) * Weight(z) <= Value(z) * Weight(x)
    BY <1>2
  <2> DEFINE a == Value(x)
             b == Value(y)
             c == Value(z)
             k == Weight(x)
             l == Weight(y)
             m == Weight(z)
  <2>1. /\ a \in Nat /\ b \in Nat /\ c \in Nat
        /\ k \in Nat \ {0} /\ l \in Nat \ {0} /\ m \in Nat \ {0}
        /\ a * l <= b * k /\ b * m <= c * l
    BY <1>1
  <2> HIDE DEF a, b, c, k, l, m
  <2>2. a * m <= c * k
    BY <2>1, CrossOrder
  <2> QED
    BY <2>2 DEF a, c, k, m
<1> DEFINE Before(s, t) == NoDearerMean(s, t) /\ (NoDearerMean(t, s) => s <= t)
           R == {p \in S \X S : Before(p[1], p[2])}
<1>5. \A x, y \in S : <<x, y>> \in R <=> Before(x, y)
  OBVIOUS
<1>6. \A x, y \in S : x <= y \/ y <= x
  BY <1>1
<1>7. \A x, y, z \in S : x <= y /\ y <= z => x <= z
  BY <1>1
<1> HIDE DEF R
<1>8. \A x, y \in S : <<x, y>> \in R \/ <<y, x>> \in R
  BY <1>3, <1>5, <1>6
<1>9. \A x, y, z \in S : <<x, y>> \in R /\ <<y, z>> \in R => <<x, z>> \in R
  BY <1>4, <1>5, <1>7
<1>10. \E s \in S : \A t \in S : <<s, t>> \in R
  BY <1>8, <1>9, LeastExists
<1>11. \E s \in S : \A t \in S : Before(s, t)
  BY <1>5, <1>10
<1> QED
  BY <1>11 DEF LeastMean

\* What a position costs in the books.
LEMMA SlotCostType ==
  ASSUME NEW slot_ \in Slots, NEW flavour \in Names
  PROVE  slot_cost(slot_, flavour) \in Nat
BY PriceType DEF slot_cost

\* Greedy cheapest takes a slot within reach and a flavour it may use; unless it
\* falls back, no slot within reach offers that flavour for less.
LEMMA CheapestChoice ==
  ASSUME NEW r, r.arrival \in Slots, r.deadline \in Nat
  PROVE  LET chosen == Cheapest(r)
         IN /\ chosen.slot \in valid_slots(r) /\ chosen.flavour \in Names
            /\ \/ chosen.flavour = fallback_flav
               \/ /\ chosen.flavour \in allowed_flavours
                  /\ \A s \in valid_slots(r) :
                       slot_cost(chosen.slot, chosen.flavour) <= slot_cost(s, chosen.flavour)
<1> DEFINE D == CheapestOptions(r)
           reach == r.arrival .. LastSlot(r)
<1>1. /\ reach \subseteq valid_slots(r) /\ r.arrival \in valid_slots(r)
      /\ valid_slots(r) \subseteq Slots /\ IsFiniteSet(valid_slots(r))
      /\ \A s \in valid_slots(r) : r.arrival <= LastSlot(r) => s \in reach
  BY SlotChoices
<1>2. allowed_flavours \subseteq Names
  BY DEF allowed_flavours
<1>3. CASE D = {}
  BY <1>1, <1>3, Picks DEF Cheapest
<1>4. CASE D # {}
  <2> DEFINE B == [slot : reach, flavour : allowed_flavours]
  <2>1. IsFiniteSet(reach \X allowed_flavours)
    <3>1. IsFiniteSet(reach) /\ IsFiniteSet(allowed_flavours)
      BY <1>1, <1>2, FlavourTypes, FS_Subset
    <3> QED
      BY <3>1, FS_Product
  <2>2. IsFiniteSet(B)
    <3> DEFINE f == [p \in reach \X allowed_flavours |-> [slot |-> p[1], flavour |-> p[2]]]
    <3>1. f \in Surjection(reach \X allowed_flavours, B)
      <4>1. f \in [reach \X allowed_flavours -> B]
        OBVIOUS
      <4>2. \A o \in B : <<o.slot, o.flavour>> \in reach \X allowed_flavours
                         /\ f[<<o.slot, o.flavour>>] = o
        OBVIOUS
      <4> QED
        BY <4>1, <4>2 DEF Surjection
    <3> HIDE DEF f, B
    <3> QED
      BY <2>1, <3>1, FS_Surjection
  <2>3. IsFiniteSet(D) /\ D \subseteq B
    <3>1. D \subseteq B
      BY DEF CheapestOptions
    <3> QED
      BY <2>2, <3>1, FS_Subset
  <2>4. \A o \in D : /\ o.slot \in Slots /\ o.slot \in Int
                     /\ o.flavour \in Names /\ o.flavour \in Int
                     /\ slot_cost(o.slot, o.flavour) \in Int
                     /\ Flavours[o.flavour].duration \in Int
    <3>1. \A o \in D : o.slot \in Slots /\ o.flavour \in Names
      BY <1>1, <1>2, <2>3
    <3>2. \A s \in Slots : s \in Int
      BY SlotBounds
    <3>3. \A f \in Names : f \in Int /\ Flavours[f].duration \in Int
      BY FlavourTypes
    <3>4. \A s \in Slots, f \in Names : slot_cost(s, f) \in Int
      BY SlotCostType
    <3> QED
      BY <3>1, <3>2, <3>3, <3>4
  <2>5. \E o \in D : \A p \in D \ {o} : ScanBefore(o, p)
    <3> DEFINE R == {p \in D \X D : p[1] = p[2] \/ ScanBefore(p[1], p[2])}
    <3>1. \A x, y \in D : <<x, y>> \in R <=> x = y \/ ScanBefore(x, y)
      OBVIOUS
    <3> HIDE DEF R
    <3>2. \A x, y \in D : x = y \/ ScanBefore(x, y) \/ ScanBefore(y, x)
      <4> SUFFICES ASSUME NEW x \in D, NEW y \in D, x # y
                   PROVE  ScanBefore(x, y) \/ ScanBefore(y, x)
        OBVIOUS
      <4>1. x.slot # y.slot \/ x.flavour # y.flavour
        <5>1. x \in B /\ y \in B
          BY <2>3
        <5> QED
          BY <5>1
      <4> QED
        BY <2>4, <4>1 DEF ScanBefore, ShorterFirst
    <3>3. \A x, y, z \in D : ScanBefore(x, y) /\ ScanBefore(y, z) => ScanBefore(x, z)
      BY <2>4 DEF ScanBefore, ShorterFirst
    <3>4. \A x, y \in D : <<x, y>> \in R \/ <<y, x>> \in R
      BY <3>1, <3>2
    <3>5. \A x, y, z \in D : <<x, y>> \in R /\ <<y, z>> \in R => <<x, z>> \in R
      BY <3>1, <3>3
    <3> HIDE DEF D
    <3>6. \E o \in D : \A p \in D : <<o, p>> \in R
      BY <1>4, <2>3, <3>4, <3>5, LeastExists
    <3> QED
      BY <3>1, <3>6
  <2> DEFINE chosen == Cheapest(r)
  <2>6. chosen \in D /\ \A p \in D \ {chosen} : ScanBefore(chosen, p)
    BY <1>4, <2>5 DEF Cheapest
  <2> HIDE DEF chosen
  <2>7. ASSUME NEW s \in valid_slots(r)
        PROVE  slot_cost(chosen.slot, chosen.flavour) <= slot_cost(s, chosen.flavour)
    <3> DEFINE p == [slot |-> s, flavour |-> chosen.flavour]
    <3>1. chosen \in B /\ FitsWindow(r.arrival, chosen.flavour)
      BY <2>6 DEF CheapestOptions
    <3>2. r.arrival <= LastSlot(r)
      <4>1. chosen.slot \in reach
        BY <3>1
      <4> QED
        BY <4>1, SlotChoices
    <3>3. p \in D
      <4>1. s \in reach /\ chosen.flavour \in allowed_flavours
        BY <1>1, <3>1, <3>2
      <4> QED
        BY <3>1, <4>1 DEF CheapestOptions
    <3>4. CASE p = chosen
      <4>1. chosen.slot = s
        BY <3>4
      <4> QED
        BY <2>4, <2>6, <4>1
    <3>5. CASE p # chosen
      <4>1. ScanBefore(chosen, p)
        BY <2>6, <3>3, <3>5
      <4>2. p.slot = s /\ p.flavour = chosen.flavour
        OBVIOUS
      <4> QED
        BY <2>4, <2>6, <3>3, <4>1, <4>2 DEF ScanBefore
    <3> QED
      BY <3>4, <3>5
  <2>8. chosen.slot \in valid_slots(r) /\ chosen.flavour \in allowed_flavours
    <3>1. chosen \in B
      BY <2>3, <2>6
    <3> QED
      BY <1>1, <3>1
  <2> QED
    BY <1>2, <2>7, <2>8 DEF chosen
<1> QED
  BY <1>3, <1>4

-----------------------------------------------------------------------------
(* What a step does. *)

\* A request is placed: where, with which flavour, and what the strategy knows
\* of the two.
PlacesAt(s, f) ==
  /\ phase = "placing" /\ next <= Len(requests)
  /\ InReach(requests[next], s)
  /\ strategy \in {"greedy_baseline", "greedy_cheapest", "bandit", "ant_colony"}
  /\ strategy \in {"bandit", "ant_colony"} => f = fallback_flav \/ FitsGlobal(f)
  /\ strategy = "greedy_baseline" => f = fallback_flav
  /\ strategy = "greedy_cheapest" /\ f # fallback_flav =>
       /\ f \in allowed_flavours
       /\ \A t \in valid_slots(requests[next]) : slot_cost(s, f) <= slot_cost(t, f)
  /\ Place(s, f)
  /\ learned' \in [Slots -> [total : Nat, n : Nat]]
  /\ UNCHANGED << antVars, phase >>

\* Every step of a strategy places a request within its reach, or ends an ant, an
\* iteration or the pass.
LEMMA StepKinds ==
  ASSUME TypeOK, Next
  PROVE  \/ \E s \in Slots, f \in Names : PlacesAt(s, f)
         \/ AntDone \/ IterationDone \/ PassDone
<1>0. /\ next \in Nat \ {0}
      /\ learned \in [Slots -> [total : Nat, n : Nat]]
      /\ strategy \in DOMAIN Scenarios /\ requests \in Scenarios[strategy]
  <2>1. strategy \in DOMAIN Scenarios /\ requests \in Scenarios[strategy]
    BY DEF TypeOK
  <2>2. Len(requests) \in Nat /\ next \in 1 .. Len(requests) + 1
    BY <2>1, ScenarioTypes DEF TypeOK
  <2> QED
    BY <2>1, <2>2 DEF TypeOK
<1>1. ASSUME next <= Len(requests)
      PROVE  /\ requests[next].arrival \in Slots /\ requests[next].deadline \in Nat
             /\ requests[next].arrival \in valid_slots(requests[next])
             /\ valid_slots(requests[next]) \subseteq Slots
             /\ IsFiniteSet(valid_slots(requests[next]))
             /\ \A s \in valid_slots(requests[next]) : InReach(requests[next], s)
  <2>1. next \in 1 .. Len(requests)
    BY <1>0, <1>1, ScenarioTypes
  <2>2. requests[next].arrival \in Slots /\ requests[next].deadline \in Nat
    BY <1>0, <2>1, ScenarioTypes
  <2> QED
    BY <2>2, SlotChoices
<1>2. CASE run_greedy_baseline
  <2> DEFINE s == requests[next].arrival
  <2>1. next <= Len(requests) /\ phase = "placing" /\ strategy = "greedy_baseline"
    BY <1>2 DEF run_greedy_baseline, Placing
  <2>2. s \in Slots /\ InReach(requests[next], s) /\ fallback_flav \in Names
    BY <1>1, <2>1, Picks
  <2>3. Place(s, fallback_flav) /\ UNCHANGED << learned, antVars, phase >>
    BY <1>2 DEF run_greedy_baseline
  <2> HIDE DEF s
  <2>4. PlacesAt(s, fallback_flav)
    BY <1>0, <2>1, <2>2, <2>3 DEF PlacesAt
  <2> QED
    BY <2>2, <2>4
<1>3. CASE run_greedy_cheapest
  <2> DEFINE r == requests[next]
             s == Cheapest(r).slot
             f == Cheapest(r).flavour
  <2>1. next <= Len(requests) /\ phase = "placing" /\ strategy = "greedy_cheapest"
    BY <1>3 DEF run_greedy_cheapest, Placing
  <2>2. /\ s \in valid_slots(r) /\ f \in Names
        /\ f # fallback_flav =>
             /\ f \in allowed_flavours
             /\ \A t \in valid_slots(r) : slot_cost(s, f) <= slot_cost(t, f)
    <3>1. r.arrival \in Slots /\ r.deadline \in Nat
      BY <1>1, <2>1
    <3> HIDE DEF r
    <3> QED
      BY <3>1, CheapestChoice
  <2>3. s \in Slots /\ InReach(r, s)
    BY <1>1, <2>1, <2>2
  <2>4. Place(s, f) /\ UNCHANGED << learned, antVars, phase >>
    BY <1>3 DEF run_greedy_cheapest
  <2> HIDE DEF s, f
  <2>5. PlacesAt(s, f)
    BY <1>0, <2>1, <2>2, <2>3, <2>4 DEF PlacesAt
  <2> QED
    BY <2>2, <2>3, <2>5
<1>4. ASSUME NEW s \in valid_slots(requests[next]), NEW f,
             f = pick_feasible_flavour(s), next <= Len(requests), phase = "placing",
             strategy \in {"bandit", "ant_colony"}, Place(s, f),
             learned' \in [Slots -> [total : Nat, n : Nat]],
             UNCHANGED << antVars, phase >>
      PROVE  \E t \in Slots, g \in Names : PlacesAt(t, g)
  <2>1. s \in Slots /\ InReach(requests[next], s)
    BY <1>1, <1>4
  <2>2. f \in Names /\ (f = fallback_flav \/ FitsGlobal(f))
    BY <1>4, Picks
  <2>3. PlacesAt(s, f)
    BY <1>4, <2>1, <2>2 DEF PlacesAt
  <2> QED
    BY <2>1, <2>2, <2>3
<1>5. ASSUME NEW s \in valid_slots(requests[next]), next <= Len(requests),
             phase = "placing", strategy = "bandit", BanditPlaces(s),
             UNCHANGED << antVars, phase >>
      PROVE  \E t \in Slots, g \in Names : PlacesAt(t, g)
  <2> DEFINE f == pick_feasible_flavour(s)
             cost == slot_cost(s, f)
  <2>1. s \in Slots /\ f \in Names
    BY <1>1, <1>5, Picks
  <2>2. cost \in Nat
    BY <2>1, SlotCostType
  <2>3. Place(s, f) /\ Learn(s, cost)
    BY <1>5 DEF BanditPlaces
  <2> HIDE DEF f, cost
  <2>4. learned' \in [Slots -> [total : Nat, n : Nat]]
    BY <1>0, <2>1, <2>2, <2>3 DEF Learn
  <2> QED
    BY <1>4, <1>5, <2>3, <2>4 DEF f
<1>6. CASE Exploit
  <2>1. next <= Len(requests) /\ phase = "placing" /\ strategy = "bandit"
    BY <1>6 DEF Exploit, Placing
  <2>2. LeastMean(valid_slots(requests[next])) \in valid_slots(requests[next])
    BY <1>0, <1>1, <2>1, LeastMeanExists
  <2> QED
    BY <1>5, <1>6, <2>1, <2>2 DEF Exploit
<1>7. CASE Explore
  BY <1>5, <1>7 DEF Explore, Placing
<1>8. CASE AntPlaces
  BY <1>0, <1>4, <1>8 DEF AntPlaces, Placing
<1> QED
  BY <1>2, <1>3, <1>6, <1>7, <1>8 DEF Next

-----------------------------------------------------------------------------
(* Types and the shape of a pass. *)

\* How far a pass has got, and what the colony has kept of earlier ones.
PassShape ==
  /\ phase = "placing" => Len(rows) = next - 1
  /\ phase = "judging" => /\ strategy = "ant_colony" /\ rows = << >> /\ next = 1
                          /\ ant = 1 /\ iterBest # << >>
  /\ phase = "done" => iterBest = << >> /\ (strategy = "ant_colony" => rows = best /\ best # << >>)
  /\ phase # "done" => iteration <= NumIterations
  /\ strategy # "ant_colony" => iterBest = << >> /\ best = << >>
  /\ Len(iterBest) \in {0, Len(requests)} /\ Len(best) \in {0, Len(requests)}

PassInv == TypeOK /\ PassShape

\* The parts of the invariant that a proof needs as facts of its own.
LEMMA PassFacts ==
  ASSUME TypeOK
  PROVE  /\ next \in Nat \ {0} /\ next <= Len(requests) + 1
         /\ Len(requests) \in Nat \ {0}
         /\ requests \in Seq([arrival : Slots, deadline : Nat])
         /\ rows \in Seq(Row) /\ iterBest \in Seq(Row) /\ best \in Seq(Row)
         /\ \A i \in 1 .. Len(requests) :
              requests[i].arrival \in Slots /\ requests[i].deadline \in Nat
<1>1. strategy \in DOMAIN Scenarios /\ requests \in Scenarios[strategy]
  BY DEF TypeOK
<1>2. /\ Len(requests) \in Nat \ {0}
      /\ requests \in Seq([arrival : Slots, deadline : Nat])
      /\ \A i \in 1 .. Len(requests) :
           requests[i].arrival \in Slots /\ requests[i].deadline \in Nat
  BY <1>1, ScenarioTypes
<1>3. next \in 1 .. Len(requests) + 1
  BY DEF TypeOK
<1>4. rows \in Seq(Row) /\ iterBest \in Seq(Row) /\ best \in Seq(Row)
  BY DEF TypeOK
<1> QED
  BY <1>2, <1>3, <1>4

\* A placement appends a row of the right type and counts it.
LEMMA PlacementTypes ==
  ASSUME PassInv, NEW s \in Slots, NEW f \in Names, PlacesAt(s, f)
  PROVE  LET row == [slot |-> s, flavour |-> f, cost |-> slot_cost(s, f)]
         IN /\ row \in Row /\ rows' = Append(rows, row) /\ rows' \in Seq(Row)
            /\ Len(rows') = Len(rows) + 1 /\ next' = next + 1 /\ next = Len(rows) + 1
            /\ \A i \in 1 .. Len(rows) : rows'[i] = rows[i]
            /\ rows'[Len(rows) + 1] = row
            /\ phase = "placing" /\ next \in 1 .. Len(requests)
<1> DEFINE row == [slot |-> s, flavour |-> f, cost |-> slot_cost(s, f)]
<1>1. row \in Row
  BY SlotCostType DEF Row
<1>2. rows \in Seq(Row) /\ next \in 1 .. Len(requests) /\ Len(rows) = next - 1
  BY PassFacts DEF PassInv, PassShape, PlacesAt
<1>3. rows' = Append(rows, row) /\ next' = next + 1
  BY DEF PlacesAt, Place
<1> HIDE DEF row
<1>4. /\ Append(rows, row) \in Seq(Row) /\ Len(Append(rows, row)) = Len(rows) + 1
      /\ \A i \in 1 .. Len(rows) : Append(rows, row)[i] = rows[i]
      /\ Append(rows, row)[Len(rows) + 1] = row
  BY <1>1, <1>2, SeqAppend
<1>5. Len(rows) + 1 = next
  BY <1>2
<1>6. phase = "placing"
  BY DEF PlacesAt
<1> QED
  BY <1>1, <1>2, <1>3, <1>4, <1>5, <1>6 DEF row

\* A placement is entered in the books.
LEMMA PlacementBooks ==
  ASSUME TypeOK, NEW s \in Slots, NEW f \in Names, PlacesAt(s, f)
  PROVE  /\ books'.count \in [Slots -> Nat] /\ books'.errors \in [Slots -> Nat]
         /\ books'.sum \in Nat /\ books'.number \in Nat
         /\ books.count \in [Slots -> Nat] /\ books.sum \in Nat /\ books.number \in Nat
         /\ \A t \in Slots :
              books'.count[t] = IF t = s THEN books.count[t] + 1 ELSE books.count[t]
         /\ books'.sum = books.sum + Flavours[f].error
         /\ books'.number = books.number + 1
<1> DEFINE c == books.count
           e == books.errors
           x == Flavours[f].error
<1>1. books' = WithPlacement(s, x)
  BY DEF PlacesAt, Place
<1>2. /\ books'.count = [c EXCEPT ![s] = c[s] + 1]
      /\ books'.errors = [e EXCEPT ![s] = e[s] + x]
      /\ books'.sum = books.sum + x /\ books'.number = books.number + 1
  BY <1>1 DEF WithPlacement
<1>3. /\ c \in [Slots -> Nat] /\ e \in [Slots -> Nat] /\ x \in Nat
      /\ books.sum \in Nat /\ books.number \in Nat
  BY FlavourTypes DEF TypeOK
<1> HIDE DEF c, e, x
<1>4. /\ [c EXCEPT ![s] = c[s] + 1] \in [Slots -> Nat]
      /\ [e EXCEPT ![s] = e[s] + x] \in [Slots -> Nat]
      /\ \A t \in Slots :
           [c EXCEPT ![s] = c[s] + 1][t] = IF t = s THEN c[t] + 1 ELSE c[t]
  BY <1>3
<1>5. /\ books'.count \in [Slots -> Nat] /\ books'.errors \in [Slots -> Nat]
      /\ books'.sum \in Nat /\ books'.number \in Nat
      /\ \A t \in Slots : books'.count[t] = IF t = s THEN c[t] + 1 ELSE c[t]
  BY <1>2, <1>3, <1>4
<1> QED
  BY <1>2, <1>3, <1>5 DEF c, x

\* A pass starts with nothing placed.
LEMMA PassInit ==
  Init => PassInv
<1> SUFFICES ASSUME Init PROVE PassInv
  OBVIOUS
<1>1. /\ strategy \in DOMAIN Scenarios /\ requests \in Scenarios[strategy]
      /\ Len(requests) \in Nat \ {0}
  BY ScenarioTypes DEF Init
<1>2. NumAnts \in Nat \ {0} /\ NumIterations \in Nat \ {0}
  BY StrategyAssumption
<1>3. << >> \in Seq(Row) /\ Len(<< >>) = 0
  OBVIOUS
<1>4. TypeOK
  BY <1>1, <1>2, <1>3 DEF Init, NoBooks, TypeOK
<1>5. PassShape
  BY <1>1, <1>2, <1>3 DEF Init, PassShape
<1> QED
  BY <1>4, <1>5 DEF PassInv

\* Every step keeps the types and the shape of the pass.
LEMMA PassStep ==
  PassInv /\ [Next]_vars => PassInv'
<1> SUFFICES ASSUME PassInv, [Next]_vars PROVE PassInv'
  OBVIOUS
<1>0. /\ next \in Nat \ {0} /\ next <= Len(requests) + 1
      /\ Len(requests) \in Nat \ {0}
      /\ NumAnts \in Nat \ {0} /\ NumIterations \in Nat \ {0}
      /\ rows \in Seq(Row) /\ iterBest \in Seq(Row) /\ best \in Seq(Row)
      /\ << >> \in Seq(Row) /\ Len(<< >>) = 0 /\ Len(rows) \in Nat
      /\ Len(rows) = 0 <=> rows = << >>
  <2>1. NumAnts \in Nat \ {0} /\ NumIterations \in Nat \ {0}
    BY StrategyAssumption
  <2>2. rows \in Seq(Row)
    BY PassFacts DEF PassInv
  <2>3. Len(rows) \in Nat /\ (Len(rows) = 0 <=> rows = << >>)
    BY <2>2, SeqElement
  <2> QED
    BY <2>1, <2>2, <2>3, PassFacts DEF PassInv
<1>1. ASSUME NEW s \in Slots, NEW f \in Names, PlacesAt(s, f) PROVE PassInv'
  <2>1. /\ rows' \in Seq(Row) /\ Len(rows') = Len(rows) + 1 /\ next' = next + 1
        /\ next = Len(rows) + 1 /\ phase = "placing" /\ next \in 1 .. Len(requests)
    BY <1>1, PlacementTypes
  <2>2. Flavours[f].error \in Nat
    BY FlavourTypes
  <2>3. UNCHANGED << strategy, requests, ant, iteration, iterBest, best, phase, leastAnt >>
    BY <1>1 DEF PlacesAt, Place, job, antVars
  <2>4. /\ books'.count \in [Slots -> Nat] /\ books'.errors \in [Slots -> Nat]
        /\ books'.sum \in Nat /\ books'.number \in Nat
    BY <1>1, PlacementBooks DEF PassInv
  <2>5. learned' \in [Slots -> [total : Nat, n : Nat]]
    BY <1>1 DEF PlacesAt
  <2>6. next' \in 1 .. Len(requests) + 1
    BY <1>0, <2>1
  <2>7. TypeOK'
    BY <2>1, <2>3, <2>4, <2>5, <2>6 DEF PassInv, TypeOK
  <2>8. PassShape'
    BY <1>0, <2>1, <2>3 DEF PassInv, PassShape
  <2> QED
    BY <2>7, <2>8 DEF PassInv
<1>2. CASE AntDone
  <2>1. /\ strategy = "ant_colony" /\ phase = "placing" /\ next > Len(requests)
        /\ rows' = << >> /\ next' = 1 /\ books' = NoBooks
        /\ iterBest' \in {rows, iterBest} /\ (iterBest = << >> => iterBest' = rows)
        /\ UNCHANGED << strategy, requests, learned, iteration, best >>
    BY <1>2 DEF AntDone, job
  <2>2. Len(rows) = Len(requests) /\ rows # << >>
    BY <1>0, <2>1 DEF PassInv, PassShape
  <2>3. Cost(rows) \in Nat /\ leastAnt' \in Nat \cup {-1}
    <3>1. Cost(rows) \in Nat
      BY <1>0, CostType
    <3>2. leastAnt' \in {Cost(rows), leastAnt}
      BY <1>2 DEF AntDone
    <3> QED
      BY <3>1, <3>2 DEF PassInv, TypeOK
  <2>4. /\ ant' \in 1 .. NumAnts /\ phase' \in {"placing", "judging"}
        /\ phase' = "judging" => ant' = 1
    <3>1. ant \in 1 .. NumAnts
      BY DEF PassInv, TypeOK
    <3> QED
      BY <1>0, <1>2, <2>1, <3>1 DEF AntDone
  <2>5. TypeOK'
    <3>1. /\ books'.count \in [Slots -> Nat] /\ books'.errors \in [Slots -> Nat]
          /\ books'.sum \in Nat /\ books'.number \in Nat
      BY <2>1 DEF NoBooks
    <3>2. next' \in 1 .. Len(requests) + 1
      BY <1>0, <2>1
    <3> QED
      BY <1>0, <2>1, <2>3, <2>4, <3>1, <3>2 DEF PassInv, TypeOK
  <2>6. PassShape'
    <3>1. Len(iterBest') \in {0, Len(requests)} /\ iterBest' # << >>
      BY <2>1, <2>2 DEF PassInv, PassShape
    <3>2. iteration <= NumIterations
      BY <2>1 DEF PassInv, PassShape
    <3> QED
      BY <1>0, <2>1, <2>4, <3>1, <3>2 DEF PassInv, PassShape
  <2> QED
    BY <2>5, <2>6 DEF PassInv
<1>3. CASE IterationDone
  <2>1. /\ phase = "judging" /\ iterBest' = << >> /\ iteration' = iteration + 1
        /\ best' = BetterOf(best, iterBest)
        /\ UNCHANGED << strategy, requests, next, books, learned, ant, leastAnt >>
        /\ IF iteration = NumIterations
           THEN phase' = "done" /\ rows' = best'
           ELSE phase' = "placing" /\ UNCHANGED rows
    BY <1>3 DEF IterationDone, job
  <2>2. /\ strategy = "ant_colony" /\ rows = << >> /\ next = 1 /\ ant = 1
        /\ iterBest # << >> /\ iteration <= NumIterations
        /\ Len(iterBest) = Len(requests) /\ Len(best) \in {0, Len(requests)}
    <3>1. iterBest # << >> => Len(iterBest) # 0
      BY <1>0, SeqElement
    <3> QED
      BY <2>1, <3>1 DEF PassInv, PassShape
  <2>3. best' # << >> /\ Len(best') = Len(requests) /\ best' \in Seq(Row)
    <3>1. best' \in {best, iterBest} /\ (best = << >> => best' = iterBest)
      BY <2>1 DEF BetterOf
    <3>2. best # << >> => Len(best) # 0
      BY <1>0, SeqElement
    <3> QED
      BY <1>0, <2>2, <3>1, <3>2
  <2>4. TypeOK'
    <3>1. iteration' \in 1 .. NumIterations + 1
      <4>1. iteration \in 1 .. NumIterations + 1
        BY DEF PassInv, TypeOK
      <4> QED
        BY <1>0, <2>1, <2>2, <4>1
    <3> QED
      BY <1>0, <2>1, <2>2, <2>3, <3>1 DEF PassInv, TypeOK
  <2>5. PassShape'
    <3>1. iteration \in Int
      BY DEF PassInv, TypeOK
    <3>2. phase' # "done" => iteration' <= NumIterations
      BY <1>0, <2>1, <2>2, <3>1
    <3> QED
      BY <1>0, <2>1, <2>2, <2>3, <3>2 DEF PassInv, PassShape
  <2> QED
    BY <2>4, <2>5 DEF PassInv
<1>4. CASE PassDone
  <2>1. /\ strategy \in OnePass /\ phase = "placing" /\ next > Len(requests)
        /\ phase' = "done"
        /\ UNCHANGED << strategy, requests, next, rows, books, learned, ant, iteration,
                        iterBest, best, leastAnt >>
    BY <1>4 DEF PassDone, job, passVars, antVars
  <2>2. strategy # "ant_colony" /\ Len(rows) = Len(requests)
    BY <1>0, <2>1 DEF PassInv, PassShape, OnePass
  <2>3. TypeOK'
    BY <2>1, <2>2 DEF PassInv, TypeOK
  <2>4. PassShape'
    BY <2>1, <2>2 DEF PassInv, PassShape
  <2> QED
    BY <2>3, <2>4 DEF PassInv
<1>5. CASE UNCHANGED vars
  BY <1>5 DEF vars, job, PassInv, PassShape, TypeOK
<1> QED
  BY <1>1, <1>2, <1>3, <1>4, <1>5, StepKinds DEF PassInv

-----------------------------------------------------------------------------
(* Reachable states. *)

\* The whole-scenario strategies keep their types and the shape of their passes.
THEOREM PassCorrect == Spec => []PassInv
<1>1. Init => PassInv
  BY PassInit
<1>2. PassInv /\ [Next]_vars => PassInv'
  BY PassStep
<1> QED
  BY <1>1, <1>2, PTL DEF Spec

\* A batch scheduler's run works on the scenario it was given.
LEMMA OnlineKeepsScenario == Online!Next => UNCHANGED << strategy, requests >>
BY DEF Online!Next, Online!Claim, Online!Commit, Online!LogRun, Online!LogAssignment,
       Online!Release, Online!Tick, Online!Stop, Online!ReadRuns, Online!ReadAssignments,
       Online!Report, Online!scenario

\* A step of the benchmark is a step of a whole-scenario strategy or changes
\* nothing of one.
LEMMA StudySteps ==
  [StudyNext]_<< vars, onlineVars, report >> => [Next]_vars
<1> SUFFICES ASSUME [StudyNext]_<< vars, onlineVars, report >> PROVE [Next]_vars
  OBVIOUS
<1>1. CASE OnlineStep
  <2>1. UNCHANGED requests
    BY <1>1, OnlineKeepsScenario DEF OnlineStep
  <2> QED
    BY <1>1, <2>1 DEF OnlineStep, vars, job, passVars, antVars
<1>2. CASE OfflineStep
  BY <1>2 DEF OfflineStep
<1>3. CASE convert_swarm_to_outputs
  BY <1>3 DEF convert_swarm_to_outputs
<1>4. CASE UNCHANGED << vars, onlineVars, report >>
  BY <1>4
<1> QED
  BY <1>1, <1>2, <1>3, <1>4 DEF StudyNext

\* A run of the benchmark contains a run of a whole-scenario strategy.
THEOREM StudyRunsStrategies == StudySpec => Spec
<1>1. StudyInit => Init
  BY DEF StudyInit
<1>2. [StudyNext]_<< vars, onlineVars, report >> => [Next]_vars
  BY StudySteps
<1> QED
  BY <1>1, <1>2, PTL DEF StudySpec, Spec

\* A step that places nothing keeps, of the solutions, only ones there are.
LEMMA SolutionsKept ==
  ASSUME TypeOK, [Next]_vars, ~ \E s \in Slots, f \in Names : PlacesAt(s, f)
  PROVE  /\ {rows', iterBest', best'} \subseteq {<< >>, rows, iterBest, best}
         /\ requests' = requests /\ strategy' = strategy
         /\ (books' = books /\ rows' = rows) \/ (books' = NoBooks /\ rows' = << >>)
              \/ (phase' = "done" /\ strategy = "ant_colony") \/ ~ PassShape
<1>1. CASE AntDone
  BY <1>1 DEF AntDone, job
<1>2. CASE IterationDone
  BY <1>2 DEF IterationDone, BetterOf, job, PassShape
<1>3. CASE PassDone
  BY <1>3 DEF PassDone, job, passVars, antVars
<1>4. CASE UNCHANGED vars
  BY <1>4 DEF vars, job
<1> QED
  BY <1>1, <1>2, <1>3, <1>4, StepKinds

\* A placement leaves the kept solutions and the job alone.
LEMMA PlacementFrame ==
  ASSUME NEW s, NEW f, PlacesAt(s, f)
  PROVE  UNCHANGED << strategy, requests, iterBest, best, phase, leastAnt >>
BY DEF PlacesAt, Place, job, antVars

-----------------------------------------------------------------------------
(* Prices follow occupancy. *)

\* The requests placed in slot s by the first n rows.
PlacedIn(solution, n, s) == {j \in 1 .. n : solution[j].slot = s}

\* Each row paid the price of its position in its slot.
Billed(solution) ==
  \A i \in 1 .. Len(solution) :
    solution[i].cost = PriceAt(solution[i].slot, solution[i].flavour,
                               Cardinality(PlacedIn(solution, i, solution[i].slot)))

\* While a pass runs, its books count what it has placed in each slot.
BooksCountRows ==
  ~ (phase = "done" /\ strategy = "ant_colony") =>
    \A s \in Slots : books.count[s] = Cardinality(PlacedIn(rows, Len(rows), s))

BilledInv ==
  BooksCountRows /\ \A solution \in {rows, iterBest, best} : Billed(solution)

\* One row more: the prefixes before it count as they did, and it counts itself.
LEMMA PlacedInAppend ==
  ASSUME NEW q \in Seq(Row), NEW row \in Row
  PROVE  LET w == Append(q, row)
             n == Len(q)
         IN /\ \A i \in 1 .. n : \A s : PlacedIn(w, i, s) = PlacedIn(q, i, s)
            /\ \A s : Cardinality(PlacedIn(w, n + 1, s))
                        = Cardinality(PlacedIn(q, n, s)) + (IF s = row.slot THEN 1 ELSE 0)
<1> DEFINE w == Append(q, row)
           n == Len(q)
<1>1. n \in Nat /\ (\A i \in 1 .. n : w[i] = q[i]) /\ w[n + 1] = row
  BY SeqElement, SeqAppend
<1> HIDE DEF w, n
<1>2. \A i \in 1 .. n : \A s : PlacedIn(w, i, s) = PlacedIn(q, i, s)
  BY <1>1 DEF PlacedIn
<1>3. ASSUME NEW s
      PROVE  Cardinality(PlacedIn(w, n + 1, s))
               = Cardinality(PlacedIn(q, n, s)) + (IF s = row.slot THEN 1 ELSE 0)
  <2>1. IsFiniteSet(PlacedIn(q, n, s)) /\ n + 1 \notin PlacedIn(q, n, s)
    <3>1. IsFiniteSet(1 .. n)
      BY <1>1, FS_Interval
    <3>2. PlacedIn(q, n, s) \subseteq 1 .. n /\ n + 1 \notin 1 .. n
      BY <1>1 DEF PlacedIn
    <3> QED
      BY <3>1, <3>2, FS_Subset
  <2>2. CASE row.slot = s
    <3>1. PlacedIn(w, n + 1, s) = PlacedIn(q, n, s) \cup {n + 1}
      BY <1>1, <2>2 DEF PlacedIn
    <3> QED
      BY <2>1, <2>2, <3>1, FS_AddElement
  <2>3. CASE row.slot # s
    <3>1. PlacedIn(w, n + 1, s) = PlacedIn(q, n, s)
      BY <1>1, <2>3 DEF PlacedIn
    <3>2. Cardinality(PlacedIn(q, n, s)) \in Nat
      BY <2>1, FS_CardinalityType
    <3> QED
      BY <2>3, <3>1, <3>2
  <2> QED
    BY <2>2, <2>3
<1> QED
  BY <1>2, <1>3 DEF w, n

\* An empty solution bills nothing and fills no slot.
LEMMA NothingBilled ==
  Billed(<< >>) /\ \A s : Cardinality(PlacedIn(<< >>, Len(<< >>), s)) = 0
<1>1. Len(<< >>) = 0
  OBVIOUS
<1>2. \A s : PlacedIn(<< >>, 0, s) = {}
  BY DEF PlacedIn
<1> QED
  BY <1>1, <1>2, FS_EmptySet DEF Billed

\* Billing by occupancy is inductive once the books are known to count the rows.
LEMMA BilledStep ==
  ASSUME PassInv, BilledInv, [Next]_vars
  PROVE  BilledInv'
<1>1. ASSUME NEW s \in Slots, NEW f \in Names, PlacesAt(s, f) PROVE BilledInv'
  <2> DEFINE row == [slot |-> s, flavour |-> f, cost |-> slot_cost(s, f)]
             n == Len(rows)
  <2>1. /\ row \in Row /\ rows' = Append(rows, row) /\ phase = "placing"
        /\ Len(rows') = n + 1 /\ (\A i \in 1 .. n : rows'[i] = rows[i])
        /\ rows'[n + 1] = row /\ rows \in Seq(Row) /\ n \in Nat
    <3>1. rows \in Seq(Row) /\ n \in Nat
      BY PassFacts, SeqElement DEF PassInv
    <3> QED
      BY <1>1, <3>1, PlacementTypes
  <2>2. UNCHANGED << strategy, iterBest, best, phase >>
    BY <1>1, PlacementFrame
  <2>3. row.slot = s /\ row.flavour = f /\ row.cost = slot_cost(s, f)
    OBVIOUS
  <2> HIDE DEF row, n
  <2>4. /\ \A i \in 1 .. n : \A t : PlacedIn(rows', i, t) = PlacedIn(rows, i, t)
        /\ \A t : Cardinality(PlacedIn(rows', n + 1, t))
                    = Cardinality(PlacedIn(rows, n, t)) + (IF t = s THEN 1 ELSE 0)
    BY <2>1, <2>3, PlacedInAppend DEF n
  <2>5. \A t \in Slots : books.count[t] = Cardinality(PlacedIn(rows, n, t))
    BY <2>1 DEF BilledInv, BooksCountRows, n
  <2>6. \A t \in Slots : /\ books.count[t] \in Nat
                         /\ books'.count[t] = books.count[t] + (IF t = s THEN 1 ELSE 0)
    BY <1>1, PlacementBooks DEF PassInv
  <2>7. BooksCountRows'
    BY <2>1, <2>4, <2>5, <2>6 DEF BooksCountRows
  <2>8. Billed(rows')
    <3> SUFFICES ASSUME NEW i \in 1 .. n + 1
                 PROVE  rows'[i].cost = PriceAt(rows'[i].slot, rows'[i].flavour,
                                    Cardinality(PlacedIn(rows', i, rows'[i].slot)))
      BY <2>1 DEF Billed
    <3>1. CASE i \in 1 .. n
      <4>1. rows'[i] = rows[i] /\ PlacedIn(rows', i, rows[i].slot) = PlacedIn(rows, i, rows[i].slot)
        BY <2>1, <2>4, <3>1
      <4>2. Billed(rows)
        BY DEF BilledInv
      <4> QED
        BY <3>1, <4>1, <4>2 DEF Billed, n
    <3>2. CASE i = n + 1
      <4>1. Cardinality(PlacedIn(rows', i, s)) = books.count[s] + 1
        BY <2>4, <2>5, <3>2
      <4> QED
        BY <2>1, <2>3, <3>2, <4>1 DEF slot_cost
    <3> QED
      BY <2>1, <3>1, <3>2
  <2> QED
    BY <2>2, <2>7, <2>8 DEF BilledInv
<1>2. ASSUME ~ \E s \in Slots, f \in Names : PlacesAt(s, f) PROVE BilledInv'
  <2>1. /\ {rows', iterBest', best'} \subseteq {<< >>, rows, iterBest, best}
        /\ strategy' = strategy
        /\ \/ books' = books /\ rows' = rows
           \/ books' = NoBooks /\ rows' = << >>
           \/ phase' = "done" /\ strategy = "ant_colony"
    BY <1>2, SolutionsKept DEF PassInv
  <2>2. \A solution \in {rows', iterBest', best'} : Billed(solution)
    BY <2>1, NothingBilled DEF BilledInv
  <2>3. BooksCountRows'
    <3>1. CASE books' = NoBooks /\ rows' = << >>
      BY <3>1, NothingBilled DEF BooksCountRows, NoBooks
    <3>2. CASE phase' = "done" /\ strategy = "ant_colony"
      BY <2>1, <3>2 DEF BooksCountRows
    <3>3. CASE books' = books /\ rows' = rows
      <4>1. phase = "done" /\ strategy = "ant_colony" => phase' = "done"
        <5>1. ~ Next \/ phase # "done"
          BY <1>2, StepKinds DEF PassInv, AntDone, IterationDone, PassDone
        <5> QED
          BY <5>1 DEF vars
      <4> QED
        BY <2>1, <3>3, <4>1 DEF BilledInv, BooksCountRows
    <3> QED
      BY <2>1, <3>1, <3>2, <3>3
  <2> QED
    BY <2>2, <2>3 DEF BilledInv
<1> QED
  BY <1>1, <1>2

\* The bill follows from the placements alone (property BilledByOccupancy).
THEOREM OccupancyBills == Spec => []BilledByOccupancy
<1>1. Init => BilledInv
  BY NothingBilled DEF Init, NoBooks, BilledInv, BooksCountRows
<1>2. PassInv /\ BilledInv /\ [Next]_vars => BilledInv'
  BY BilledStep
<1>3. PassInv /\ BilledInv => BilledByOccupancy
  <2> SUFFICES ASSUME PassInv, BilledInv, NEW solution \in {rows, iterBest, best},
                      NEW i \in DOMAIN solution
               PROVE  solution[i].cost =
                        PriceAt(solution[i].slot, solution[i].flavour,
                          Cardinality({j \in 1 .. i : solution[j].slot = solution[i].slot}))
    BY DEF BilledByOccupancy
  <2>1. solution \in Seq(Row)
    BY PassFacts DEF PassInv
  <2>2. DOMAIN solution = 1 .. Len(solution) /\ Billed(solution)
    BY <2>1 DEF BilledInv
  <2> QED
    BY <2>2 DEF Billed, PlacedIn
<1> QED
  BY <1>1, <1>2, <1>3, PassCorrect, PTL DEF Spec

-----------------------------------------------------------------------------
(* Nothing is planned late. *)

\* The rows of a solution answer the requests in order, each within its reach.
Timely(solution) ==
  \A i \in 1 .. Len(solution) : InReach(requests[i], solution[i].slot)

TimelyInv == \A solution \in {rows, iterBest, best} : Timely(solution)

\* No strategy plans a request late (property NothingLate), in this pass or in
\* the solutions it keeps.
THEOREM NothingPlannedLate == Spec => []NothingLate
<1>1. Timely(<< >>)
  <2>1. Len(<< >>) = 0
    OBVIOUS
  <2> QED
    BY <2>1 DEF Timely
<1>2. Init => TimelyInv
  BY <1>1 DEF Init, TimelyInv
<1>3. PassInv /\ TimelyInv /\ [Next]_vars => TimelyInv'
  <2> SUFFICES ASSUME PassInv, TimelyInv, [Next]_vars PROVE TimelyInv'
    OBVIOUS
  <2>1. ASSUME NEW s \in Slots, NEW f \in Names, PlacesAt(s, f) PROVE TimelyInv'
    <3>0. /\ Len(rows') = Len(rows) + 1 /\ next = Len(rows) + 1
          /\ \A i \in 1 .. Len(rows) : rows'[i] = rows[i]
          /\ rows'[Len(rows) + 1] = [slot |-> s, flavour |-> f, cost |-> slot_cost(s, f)]
      BY <2>1, PlacementTypes
    <3>1. /\ Len(rows') = Len(rows) + 1 /\ next = Len(rows) + 1
          /\ \A i \in 1 .. Len(rows) : rows'[i] = rows[i]
          /\ rows'[Len(rows) + 1].slot = s
      BY <3>0
    <3>2. InReach(requests[next], s)
      BY <2>1 DEF PlacesAt
    <3>3. UNCHANGED << requests, iterBest, best >>
      BY <2>1, PlacementFrame
    <3>4. Len(rows) \in Nat
      BY PassFacts, SeqElement DEF PassInv
    <3>5. Timely(rows)'
      <4> SUFFICES ASSUME NEW i \in 1 .. Len(rows) + 1
                   PROVE  InReach(requests[i], rows'[i].slot)
        BY <3>1, <3>3 DEF Timely, InReach
      <4>1. CASE i \in 1 .. Len(rows)
        BY <3>1, <4>1 DEF TimelyInv, Timely
      <4>2. CASE i = Len(rows) + 1
        BY <3>1, <3>2, <4>2
      <4> QED
        BY <3>4, <4>1, <4>2
    <3>6. Timely(iterBest)' /\ Timely(best)'
      BY <3>3 DEF TimelyInv, Timely, InReach
    <3> QED
      BY <3>5, <3>6 DEF TimelyInv
  <2>2. ASSUME ~ \E s \in Slots, f \in Names : PlacesAt(s, f) PROVE TimelyInv'
    <3>1. {rows', iterBest', best'} \subseteq {<< >>, rows, iterBest, best} /\ requests' = requests
      BY <2>2, SolutionsKept DEF PassInv
    <3>2. \A solution \in {<< >>, rows, iterBest, best} : Timely(solution)
      BY <1>1 DEF TimelyInv
    <3>3. Timely(rows)' /\ Timely(iterBest)' /\ Timely(best)'
      BY <3>1, <3>2 DEF Timely, InReach
    <3> QED
      BY <3>3 DEF TimelyInv
  <2> QED
    BY <2>1, <2>2
<1>4. PassInv /\ TimelyInv => NothingLate
  <2> SUFFICES ASSUME PassInv, TimelyInv PROVE NothingLate
    OBVIOUS
  <2>1. DOMAIN rows = 1 .. Len(rows)
    BY PassFacts, SeqElement DEF PassInv
  <2>2. \A i \in 1 .. Len(rows) : InReach(requests[i], rows[i].slot)
    BY DEF TimelyInv, Timely
  <2> QED
    BY <2>1, <2>2 DEF NothingLate, InReach
<1> QED
  BY <1>2, <1>3, <1>4, PassCorrect, PTL DEF Spec

-----------------------------------------------------------------------------
(* The error budget. *)

\* The most one request may add to the budget's excess.
Excess == Max({0} \cup {Flavours[f].error - MaxError : f \in Names})

\* The excess is at least that of every flavour, and not negative.
LEMMA ExcessBounds ==
  /\ Excess \in Nat /\ MaxError \in Nat
  /\ \A f \in Names : Flavours[f].error <= MaxError + Excess
<1> DEFINE D == {0} \cup {Flavours[f].error - MaxError : f \in Names}
<1>1. MaxError \in Nat
  BY StrategyAssumption
<1>2. \A f \in Names : Flavours[f].error - MaxError \in Int /\ Flavours[f].error \in Nat
  BY <1>1, FlavourTypes
<1>3. IsFiniteSet(D)
  <2> DEFINE E == {Flavours[f].error - MaxError : f \in Names}
             g == [f \in Names |-> Flavours[f].error - MaxError]
  <2>1. g \in Surjection(Names, E)
    BY DEF Surjection
  <2> HIDE DEF E, g
  <2>2. IsFiniteSet(E)
    BY <2>1, FlavourTypes, FS_Surjection
  <2>3. IsFiniteSet(E \cup {0})
    BY <2>2, FS_AddElement
  <2>4. D = E \cup {0}
    BY DEF E
  <2> QED
    BY <2>3, <2>4
<1>4. D \subseteq Int /\ D # {}
  BY <1>2
<1>5. Max(D) \in D /\ \A y \in D : Max(D) >= y
  <2> HIDE DEF D
  <2> QED
    BY <1>3, <1>4, MaxOf
<1>6. Max(D) \in Nat
  BY <1>4, <1>5
<1>7. ASSUME NEW f \in Names PROVE Flavours[f].error <= MaxError + Max(D)
  <2>1. Flavours[f].error - MaxError \in D
    OBVIOUS
  <2> DEFINE m == Max(D)
  <2>2. m >= Flavours[f].error - MaxError /\ m \in Nat
    BY <1>5, <1>6, <2>1
  <2> HIDE DEF m
  <2>3. Flavours[f].error <= MaxError + m
    BY <1>1, <1>2, <2>2
  <2> QED
    BY <2>3 DEF m
<1> QED
  BY <1>1, <1>6, <1>7 DEF Excess

\* What the strategies add to the budget when the global constraint is hard and
\* the fallback keeps it.
HardBudget ==
  GlobalEnabled /\ GlobalHard /\ Flavours[fallback_flav].error <= MaxError

BudgetInv ==
  /\ books.number = 0 => books.sum = 0
  /\ HardBudget =>
       books.sum <= MaxError * books.number
                      + (IF strategy \in {"bandit", "ant_colony"} THEN 0 ELSE Excess)

\* A budget for one more placement.
LEMMA OneMoreInBudget ==
  ASSUME NEW m \in Nat, NEW n \in Nat
  PROVE  m * n \in Nat /\ m * (n + 1) = m * n + m
OBVIOUS

\* Bandit and ants never overspend the error budget; greedy cheapest, which looks
\* back only, does by one request's error at most (property ErrorBudgetKept).
THEOREM BudgetKept == Spec => []ErrorBudgetKept
<1>1. Init => BudgetInv
  <2> SUFFICES ASSUME Init PROVE BudgetInv
    OBVIOUS
  <2>1. books.sum = 0 /\ books.number = 0
    BY DEF Init, NoBooks
  <2>2. MaxError * 0 = 0
    BY ExcessBounds
  <2> QED
    BY <2>1, <2>2, ExcessBounds DEF BudgetInv
<1>2. PassInv /\ BudgetInv /\ [Next]_vars => BudgetInv'
  <2> SUFFICES ASSUME PassInv, BudgetInv, [Next]_vars PROVE BudgetInv'
    OBVIOUS
  <2>1. ASSUME NEW s \in Slots, NEW f \in Names, PlacesAt(s, f) PROVE BudgetInv'
    <3> DEFINE m == MaxError
               n == books.number
               sum == books.sum
               e == Flavours[f].error
               x == Excess
               mn == m * n
    <3>1. /\ books'.sum = sum + e /\ books'.number = n + 1 /\ sum \in Nat /\ n \in Nat
          /\ strategy' = strategy
      BY <2>1, PlacementBooks, PlacementFrame DEF PassInv
    <3>2. m \in Nat /\ x \in Nat /\ e \in Nat /\ e <= m + x
      BY ExcessBounds, FlavourTypes
    <3>3. mn \in Nat /\ m * (n + 1) = mn + m
      BY <3>1, <3>2, OneMoreInBudget
    <3>4. n = 0 => sum = 0
      BY DEF BudgetInv
    <3>5. HardBudget => sum <= mn + (IF strategy \in {"bandit", "ant_colony"} THEN 0 ELSE x)
      BY DEF BudgetInv
    <3>6. strategy \in {"bandit", "ant_colony"} /\ HardBudget =>
            e <= m \/ sum + e <= m * (n + 1)
      BY <2>1 DEF PlacesAt, FitsGlobal, HardBudget
    <3>7. strategy \notin {"bandit", "ant_colony"} /\ HardBudget => e <= m \/ sum <= mn
      <4> SUFFICES ASSUME strategy \notin {"bandit", "ant_colony"}, HardBudget,
                          f # fallback_flav
                   PROVE  e <= m \/ sum <= mn
        BY DEF HardBudget
      <4>0. strategy \notin {"bandit", "ant_colony"} /\ f # fallback_flav
        OBVIOUS
      <4>1. strategy = "greedy_cheapest"
        BY <2>1, <4>0 DEF PlacesAt
      <4>2. f \in allowed_flavours
        BY <2>1, <4>1 DEF PlacesAt
      <4>3. fallback_flav \in {g \in Names : Flavours[g].error <= MaxError}
        BY Picks DEF HardBudget
      <4> DEFINE modest == {g \in Names : Flavours[g].error <= MaxError}
      <4>4. GlobalEnabled /\ GlobalHard /\ modest # {}
        BY <4>3 DEF HardBudget
      <4>5. allowed_flavours = IF n > 0 /\ sum > mn THEN modest ELSE Names
        BY <4>4 DEF allowed_flavours
      <4>6. f \in modest => e <= m
        OBVIOUS
      <4> HIDE DEF modest, e, m, n, sum, mn
      <4>7. ~ (n > 0 /\ sum > mn) => sum <= mn
        BY <3>1, <3>3, <3>4
      <4> QED
        BY <4>2, <4>5, <4>6, <4>7
    <3>8. (n + 1 = 0 => sum + e = 0)
          /\ (HardBudget =>
                sum + e <= m * (n + 1) + (IF strategy \in {"bandit", "ant_colony"} THEN 0 ELSE x))
      <4> HIDE DEF m, n, sum, e, x, mn
      <4> QED
        BY <3>1, <3>2, <3>3, <3>5, <3>6, <3>7
    <3> QED
      BY <3>1, <3>8 DEF BudgetInv, HardBudget
  <2>2. ASSUME ~ \E s \in Slots, f \in Names : PlacesAt(s, f) PROVE BudgetInv'
    <3>1. strategy' = strategy /\ (books' = books \/ books' = NoBooks)
      BY <2>2, StepKinds DEF PassInv, AntDone, IterationDone, PassDone, passVars, job, vars
    <3>2. MaxError * 0 = 0
      BY ExcessBounds
    <3>3. CASE books' = books
      BY <3>1, <3>3 DEF BudgetInv, HardBudget
    <3>4. CASE books' = NoBooks
      BY <3>1, <3>2, <3>4, ExcessBounds DEF BudgetInv, HardBudget, NoBooks
    <3> QED
      BY <3>1, <3>3, <3>4
  <2> QED
    BY <2>1, <2>2
<1>3. PassInv /\ BudgetInv => ErrorBudgetKept
  <2> SUFFICES ASSUME PassInv, BudgetInv, HardBudget
               PROVE  books.sum - MaxError * books.number
                        <= IF strategy \in {"bandit", "ant_colony"} THEN 0 ELSE Excess
    BY DEF ErrorBudgetKept, HardBudget, Excess
  <2> DEFINE mn == MaxError * books.number
             sum == books.sum
             x == Excess
  <2>1. sum \in Nat /\ books.number \in Nat /\ x \in Nat
    BY ExcessBounds DEF PassInv, TypeOK
  <2>2. mn \in Nat
    BY <2>1, ExcessBounds, OneMoreInBudget
  <2>3. sum <= mn + (IF strategy \in {"bandit", "ant_colony"} THEN 0 ELSE x)
    BY DEF BudgetInv
  <2> HIDE DEF mn, sum, x
  <2>4. sum - mn <= IF strategy \in {"bandit", "ant_colony"} THEN 0 ELSE x
    BY <2>1, <2>2, <2>3
  <2> QED
    BY <2>4 DEF mn, sum, x
<1> QED
  BY <1>1, <1>2, <1>3, PassCorrect, PTL DEF Spec

-----------------------------------------------------------------------------
(* The least found is kept. *)

\* The least cost of any ant is that of a kept solution, and no kept solution is
\* cheaper.
LeastInv ==
  /\ leastAnt = -1 <=> iterBest = << >> /\ best = << >>
  /\ leastAnt # -1 => \/ iterBest # << >> /\ leastAnt = Cost(iterBest)
                      \/ best # << >> /\ leastAnt = Cost(best)
  /\ iterBest # << >> => leastAnt <= Cost(iterBest)
  /\ best # << >> => leastAnt <= Cost(best)

\* Greedy cheapest has left no placement that a slot within reach undercuts now.
Content ==
  strategy = "greedy_cheapest" =>
    \A i \in 1 .. Len(rows) : rows[i].flavour # fallback_flav =>
      \A s \in valid_slots(requests[i]) : rows[i].cost <= slot_cost(s, rows[i].flavour)

\* An ant's or an iteration's end keeps the least cost.
LEMMA LeastStep ==
  ASSUME PassInv, LeastInv, [Next]_vars
  PROVE  LeastInv'
<1>0. /\ Cost(rows) \in Nat /\ Cost(iterBest) \in Nat /\ Cost(best) \in Nat
      /\ leastAnt \in Nat \cup {-1}
  <2>1. rows \in Seq(Row) /\ iterBest \in Seq(Row) /\ best \in Seq(Row)
    BY PassFacts DEF PassInv
  <2> QED
    BY <2>1, CostType DEF PassInv, TypeOK
<1>1. ASSUME NEW s \in Slots, NEW f \in Names, PlacesAt(s, f) PROVE LeastInv'
  <2>1. UNCHANGED << iterBest, best, leastAnt >>
    BY <1>1, PlacementFrame
  <2> QED
    BY <2>1 DEF LeastInv
<1>2. CASE AntDone
  <2>1. rows # << >>
    <3>1. Len(rows) = next - 1 /\ next > Len(requests)
      BY <1>2 DEF AntDone, PassInv, PassShape
    <3>2. Len(rows) # 0
      BY <3>1, PassFacts DEF PassInv
    <3> QED
      BY <3>2
  <2>2. /\ iterBest' = IF iterBest = << >> \/ Cost(rows) < Cost(iterBest)
                       THEN rows ELSE iterBest
        /\ leastAnt' = IF leastAnt = -1 \/ Cost(rows) < leastAnt
                       THEN Cost(rows) ELSE leastAnt
        /\ best' = best
    BY <1>2 DEF AntDone
  <2>3. Cost(iterBest)' = IF iterBest = << >> \/ Cost(rows) < Cost(iterBest)
                          THEN Cost(rows) ELSE Cost(iterBest)
    <3>1. CASE iterBest = << >> \/ Cost(rows) < Cost(iterBest)
      <4>1. iterBest' = rows
        BY <2>2, <3>1
      <4> QED
        BY <3>1, <4>1
    <3>2. CASE ~ (iterBest = << >> \/ Cost(rows) < Cost(iterBest))
      <4>1. iterBest' = iterBest
        BY <2>2, <3>2
      <4> QED
        BY <3>2, <4>1
    <3> QED
      BY <3>1, <3>2
  <2>4. Cost(best)' = Cost(best)
    BY <2>2
  <2> QED
    BY <1>0, <2>1, <2>2, <2>3, <2>4 DEF LeastInv
<1>3. CASE IterationDone
  <2>1. best' = BetterOf(best, iterBest) /\ iterBest' = << >> /\ leastAnt' = leastAnt
        /\ phase = "judging"
    BY <1>3 DEF IterationDone
  <2>2. iterBest # << >>
    BY <2>1 DEF PassInv, PassShape
  <2>3. CASE best = << >> \/ Cost(iterBest) < Cost(best)
    <3>1. best' = iterBest
      BY <2>1, <2>3 DEF BetterOf
    <3>2. Cost(best)' = Cost(iterBest)
      BY <3>1
    <3> QED
      BY <1>0, <2>1, <2>2, <2>3, <3>1, <3>2 DEF LeastInv
  <2>4. CASE ~ (best = << >> \/ Cost(iterBest) < Cost(best))
    <3>1. best' = best
      BY <2>1, <2>4 DEF BetterOf
    <3>2. Cost(best)' = Cost(best)
      BY <3>1
    <3> QED
      BY <1>0, <2>1, <2>2, <2>4, <3>1, <3>2 DEF LeastInv
  <2> QED
    BY <2>3, <2>4
<1>4. CASE PassDone \/ UNCHANGED vars
  <2>1. UNCHANGED << iterBest, best, leastAnt >>
    BY <1>4 DEF PassDone, antVars, vars
  <2> QED
    BY <2>1 DEF LeastInv
<1> QED
  BY <1>1, <1>2, <1>3, <1>4, StepKinds DEF PassInv

\* On an ascending ladder no later placement makes an earlier one regrettable.
LEMMA ContentStep ==
  ASSUME Ascending, PassInv, Content, [Next]_vars
  PROVE  Content'
<1>1. ASSUME NEW s \in Slots, NEW f \in Names, PlacesAt(s, f), strategy = "greedy_cheapest"
      PROVE  Content'
  <2> DEFINE row == [slot |-> s, flavour |-> f, cost |-> slot_cost(s, f)]
             n == Len(rows)
             Later(t, g) == PriceAt(t, g, books'.count[t] + 1)
  <2>1. /\ Len(rows') = n + 1 /\ (\A i \in 1 .. n : rows'[i] = rows[i])
        /\ rows'[n + 1] = row /\ rows \in Seq(Row) /\ n \in Nat
        /\ n + 1 = next /\ next \in 1 .. Len(requests)
    <3>1. rows \in Seq(Row) /\ n \in Nat
      BY PassFacts, SeqElement DEF PassInv
    <3> QED
      BY <1>1, <3>1, PlacementTypes
  <2>2. requests' = requests /\ strategy' = strategy
    BY <1>1, PlacementFrame
  <2>3. row.slot = s /\ row.flavour = f /\ row.cost = slot_cost(s, f)
    OBVIOUS
  <2> HIDE DEF row, n
  <2>4. \A i \in 1 .. n + 1 : valid_slots(requests[i]) \subseteq Slots
    <3>1. \A i \in 1 .. Len(requests) :
            requests[i].arrival \in Slots /\ requests[i].deadline \in Nat
      BY PassFacts DEF PassInv
    <3>2. \A i \in 1 .. n + 1 : i \in 1 .. Len(requests)
      BY <2>1
    <3> QED
      BY <3>1, <3>2, SlotChoices
  <2>5. \A t \in Slots, g \in Names :
          /\ Later(t, g) >= slot_cost(t, g)
          /\ Later(t, g) \in Nat /\ slot_cost(t, g) \in Nat
    <3> SUFFICES ASSUME NEW t \in Slots, NEW g \in Names
                 PROVE  /\ PriceAt(t, g, books.count[t] + 1)
                             <= PriceAt(t, g, books'.count[t] + 1)
                        /\ PriceAt(t, g, books.count[t] + 1) \in Nat
                        /\ PriceAt(t, g, books'.count[t] + 1) \in Nat
      BY DEF slot_cost
    <3>1. /\ books.count[t] + 1 \in Int /\ books'.count[t] + 1 \in Int
          /\ books.count[t] + 1 <= books'.count[t] + 1
      BY <1>1, PlacementBooks DEF PassInv
    <3> QED
      BY <3>1, PriceMonotone, PriceType
  <2> HIDE DEF Later
  <2>6. \A i \in 1 .. n : rows[i].flavour \in Names /\ rows[i].cost \in Nat
    <3>1. \A i \in 1 .. n : rows[i] \in Row
      BY <2>1, SeqElement DEF n
    <3> QED
      BY <3>1 DEF Row
  <2>7. \A i \in 1 .. n : rows[i].flavour # fallback_flav =>
          \A t \in valid_slots(requests[i]) : rows[i].cost <= slot_cost(t, rows[i].flavour)
    BY <1>1 DEF Content, n
  <2>8. f # fallback_flav =>
          \A t \in valid_slots(requests[n + 1]) : slot_cost(s, f) <= slot_cost(t, f)
    BY <1>1, <2>1 DEF PlacesAt
  <2>9. ASSUME NEW i \in 1 .. n + 1, rows'[i].flavour # fallback_flav,
               NEW t \in valid_slots(requests[i])
        PROVE  rows'[i].cost <= Later(t, rows'[i].flavour)
    <3>1. t \in Slots
      BY <2>4
    <3>2. CASE i \in 1 .. n
      <4> DEFINE g == rows[i].flavour
      <4>1. rows'[i] = rows[i] /\ g \in Names /\ rows[i].cost \in Nat
        BY <2>1, <2>6, <3>2
      <4>2. rows[i].cost <= slot_cost(t, g)
        BY <2>7, <2>9, <3>2, <4>1
      <4> HIDE DEF g
      <4>3. rows[i].cost <= Later(t, g)
        BY <2>5, <3>1, <4>1, <4>2
      <4> QED
        BY <4>1, <4>3 DEF g
    <3>3. CASE i = n + 1
      <4>1. rows'[i].flavour = f /\ rows'[i].cost = slot_cost(s, f)
        BY <2>1, <2>3, <3>3
      <4>2. slot_cost(s, f) <= slot_cost(t, f)
        BY <2>8, <2>9, <3>3, <4>1
      <4>3. slot_cost(s, f) <= Later(t, f)
        BY <2>5, <3>1, <4>2
      <4> QED
        BY <4>1, <4>3
    <3> QED
      BY <2>1, <3>2, <3>3
  <2> QED
    BY <2>1, <2>2, <2>9 DEF Content, slot_cost, Later
<1>2. ASSUME strategy # "greedy_cheapest" PROVE Content'
  <2>1. strategy' = strategy
    BY StepKinds, PlacementFrame DEF PassInv, AntDone, IterationDone, PassDone, job, vars
  <2> QED
    BY <1>2, <2>1 DEF Content
<1>3. ASSUME strategy = "greedy_cheapest", ~ \E s \in Slots, f \in Names : PlacesAt(s, f)
      PROVE  Content'
  <2>1. PassDone \/ UNCHANGED vars
    BY <1>3, StepKinds DEF PassInv, PassShape, AntDone, IterationDone
  <2>2. UNCHANGED << strategy, requests, rows, books >>
    BY <2>1 DEF PassDone, job, passVars, vars
  <2> QED
    BY <2>2 DEF Content, slot_cost
<1> QED
  BY <1>1, <1>2, <1>3

\* The colony returns the least any ant has found, and on a ladder whose prices
\* rise greedy cheapest has no regrets (property LeastFoundKept).
THEOREM LeastKept ==
  ASSUME Ascending
  PROVE  Spec => []LeastFoundKept
<1>1. Init => LeastInv /\ Content
  <2> SUFFICES ASSUME Init PROVE LeastInv /\ Content
    OBVIOUS
  <2>1. rows = << >> /\ Len(<< >>) = 0 /\ iterBest = << >> /\ best = << >> /\ leastAnt = -1
    BY DEF Init
  <2> QED
    BY <2>1 DEF LeastInv, Content
<1>2. PassInv /\ LeastInv /\ [Next]_vars => LeastInv'
  BY LeastStep
<1>3. PassInv /\ Content /\ [Next]_vars => Content'
  BY ContentStep
<1>4. PassInv /\ LeastInv /\ Content => LeastFoundKept
  <2> SUFFICES ASSUME PassInv, LeastInv, Content PROVE LeastFoundKept
    OBVIOUS
  <2>1. ReturnsLeastAnt
    <3> SUFFICES ASSUME strategy = "ant_colony", phase = "done"
                 PROVE  Len(best) = Len(requests) /\ Cost(best) = leastAnt
      BY DEF ReturnsLeastAnt
    <3>1. iterBest = << >> /\ best # << >> /\ Len(best) \in {0, Len(requests)}
      BY DEF PassInv, PassShape
    <3>2. Len(best) # 0
      BY <3>1, PassFacts, SeqElement DEF PassInv
    <3> QED
      BY <3>1, <3>2 DEF LeastInv
  <2>2. NoRegret
    <3>1. DOMAIN rows = 1 .. Len(rows)
      BY PassFacts, SeqElement DEF PassInv
    <3> QED
      BY <3>1 DEF NoRegret, Content
  <2> QED
    BY <2>1, <2>2 DEF LeastFoundKept
<1> QED
  BY <1>1, <1>2, <1>3, <1>4, PassCorrect, PTL DEF Spec

-----------------------------------------------------------------------------
(* The batch scheduler's run and its log. *)

LogRow == [request : Nat, slot : Slots, flavour : Names, current : Slots, run : Nat,
           isNew : BOOLEAN]

\* Both modules speak of the same slots.
LEMMA SameSlots ==
  /\ Online!Slots = Slots /\ Online!LastSlot = TotalSlots - 1
  /\ Online!Requests = DOMAIN requests /\ Online!Committed = DOMAIN committed
BY DEF Online!Slots, Slots, Online!LastSlot, Online!Requests, Online!Committed

\* The instance's operators on finite sets are the library's.
LEMMA SameOperators ==
  /\ \A S : Online!Cardinality(S) = Cardinality(S)
  /\ \A S : Online!Max(S) = Max(S) /\ Online!Min(S) = Min(S)
  /\ \A f : Online!SumFunction(f) = SumFunctionOnSet(f, DOMAIN f)
<1>1. ASSUME NEW S PROVE Online!Cardinality(S) = Cardinality(S)
  BY DEF Online!Cardinality, Cardinality, Online!IsFiniteSet, IsFiniteSet
<1>2. ASSUME NEW S PROVE Online!Max(S) = Max(S) /\ Online!Min(S) = Min(S)
  BY DEF Online!Max, Online!Min, Max, Min
<1>3. ASSUME NEW f PROVE Online!SumFunction(f) = SumFunctionOnSet(f, DOMAIN f)
  BY DEF Online!SumFunction, Online!SumFunctionOnSet, SumFunctionOnSet,
         Online!FoldFunctionOnSet, FoldFunctionOnSet, Online!MapThenFoldSet, MapThenFoldSet
<1> QED
  BY <1>1, <1>2, <1>3

\* The rows b tell of every request planned, and what was planned for it.
RowsTell(b, plan, batch, run) ==
  /\ b \in Seq(LogRow)
  /\ \A i \in 1 .. Len(b) :
       /\ b[i].request \in DOMAIN plan /\ b[i].slot = plan[b[i].request].slot
       /\ b[i].flavour = plan[b[i].request].flavour
       /\ b[i].current = hand.slot /\ b[i].run = run
       /\ b[i].isNew = (b[i].request \in batch)
  /\ \A r \in DOMAIN plan : \E i \in 1 .. Len(b) : b[i].request = r

\* A batch logs one row per planned request, with what was planned for it.
LEMMA RowsOfPlan ==
  ASSUME NEW plan, IsFiniteSet(DOMAIN plan), DOMAIN plan \subseteq Nat,
         \A r \in DOMAIN plan : plan[r] \in [slot : Slots, flavour : Names],
         hand.slot \in Slots, NEW batch, NEW run \in Nat
  PROVE  RowsTell(Online!build_assignment_rows(plan, batch, run), plan, batch, run)
<1> DEFINE S == DOMAIN plan
           n == Online!Cardinality(S)
           Before(x, y) == \/ plan[x].slot < plan[y].slot
                           \/ plan[x].slot = plan[y].slot /\ x < y
           R == {p \in S \X S : Before(p[1], p[2])}
           Rank(r) == Online!Cardinality({q \in S : q = r \/ Before(q, r)})
           order == [i \in 1 .. n |-> CHOOSE r \in S : Rank(r) = i]
           b == Online!build_assignment_rows(plan, batch, run)
<1>1. \A r \in S : r \in Int /\ plan[r].slot \in Int
  BY SlotBounds
<1>2. \A x, y \in S : <<x, y>> \in R <=> Before(x, y)
  OBVIOUS
<1>3. /\ \A x \in S : ~ Before(x, x)
      /\ \A x, y \in S : x # y => Before(x, y) \/ Before(y, x)
      /\ \A x, y, z \in S : Before(x, y) /\ Before(y, z) => Before(x, z)
  BY <1>1
<1>4. b = [i \in 1 .. n |->
             [request |-> order[i], slot |-> plan[order[i]].slot,
              flavour |-> plan[order[i]].flavour, current |-> hand.slot, run |-> run,
              isNew |-> order[i] \in batch]]
  <2>1. b = [i \in DOMAIN order |->
               [request |-> order[i], slot |-> plan[order[i]].slot,
                flavour |-> plan[order[i]].flavour, current |-> hand.slot, run |-> run,
                isNew |-> order[i] \in batch]]
    BY DEF Online!build_assignment_rows
  <2>2. DOMAIN order = 1 .. n
    OBVIOUS
  <2> HIDE DEF order, n, b
  <2> QED
    BY <2>1, <2>2
<1> HIDE DEF R, Before, b
<1>5. \A r \in S : Rank(r) = RankIn(S, R, r)
  <2> SUFFICES ASSUME NEW r \in S PROVE Rank(r) = RankIn(S, R, r)
    OBVIOUS
  <2> DEFINE U == {q \in S : q = r \/ Before(q, r)}
             V == {q \in S : q = r \/ <<q, r>> \in R}
  <2>1. U = V
    BY <1>2
  <2>2. Rank(r) = Cardinality(U) /\ RankIn(S, R, r) = Cardinality(V)
    BY SameOperators DEF RankIn
  <2> HIDE DEF U, V, Rank
  <2> QED
    BY <2>1, <2>2
<1>6. /\ n \in Nat
      /\ \A i \in 1 .. n : \E r \in S : RankIn(S, R, r) = i
      /\ \A r \in S : RankIn(S, R, r) \in 1 .. n
      /\ \A r, s \in S : RankIn(S, R, r) = RankIn(S, R, s) => r = s
  <2> HIDE DEF S
  <2>1. IsFiniteSet(S)
    BY DEF S
  <2>2. /\ \A x \in S : <<x, x>> \notin R
        /\ \A x, y \in S : x # y => <<x, y>> \in R \/ <<y, x>> \in R
        /\ \A x, y, z \in S : <<x, y>> \in R /\ <<y, z>> \in R => <<x, z>> \in R
    BY <1>2, <1>3
  <2>3. n = Cardinality(S)
    BY SameOperators
  <2> HIDE DEF n
  <2> QED
    BY <2>1, <2>2, <2>3, Ranking
<1>7. \A i \in 1 .. n : order[i] \in S /\ Rank(order[i]) = i
  <2> HIDE DEF Rank, S, n
  <2> QED
    BY <1>5, <1>6
<1>8. \A r \in S : \E i \in 1 .. n : order[i] = r
  <2> SUFFICES ASSUME NEW r \in S PROVE order[Rank(r)] = r /\ Rank(r) \in 1 .. n
    OBVIOUS
  <2>1. Rank(r) \in 1 .. n
    BY <1>5, <1>6
  <2>2. order[Rank(r)] \in S /\ Rank(order[Rank(r)]) = Rank(r)
    BY <1>7, <2>1
  <2> HIDE DEF Rank, order
  <2> QED
    BY <1>5, <1>6, <2>1, <2>2
<1> HIDE DEF order, n, Rank
<1>9. b \in Seq(LogRow) /\ Len(b) = n
  <2>1. \A i \in 1 .. n :
          [request |-> order[i], slot |-> plan[order[i]].slot,
           flavour |-> plan[order[i]].flavour, current |-> hand.slot, run |-> run,
           isNew |-> order[i] \in batch] \in LogRow
    BY <1>7 DEF LogRow
  <2> DEFINE row == [i \in 1 .. n |->
             [request |-> order[i], slot |-> plan[order[i]].slot,
              flavour |-> plan[order[i]].flavour, current |-> hand.slot, run |-> run,
              isNew |-> order[i] \in batch]]
  <2>2. row \in [1 .. n -> LogRow]
    BY <2>1
  <2> HIDE DEF row
  <2>3. row \in Seq(LogRow) /\ Len(row) = n
    BY <1>6, <2>2
  <2> QED
    BY <1>4, <2>3 DEF row
<1>10. \A i \in 1 .. n :
         /\ b[i].request = order[i] /\ b[i].slot = plan[order[i]].slot
         /\ b[i].flavour = plan[order[i]].flavour
         /\ b[i].current = hand.slot /\ b[i].run = run /\ b[i].isNew = (order[i] \in batch)
  BY <1>4
<1>11. \A i \in 1 .. n :
         /\ b[i].request \in S /\ b[i].slot = plan[b[i].request].slot
         /\ b[i].flavour = plan[b[i].request].flavour
         /\ b[i].current = hand.slot /\ b[i].run = run /\ b[i].isNew = (b[i].request \in batch)
  <2>1. \A i \in 1 .. n : order[i] \in S
    BY <1>7
  <2> HIDE DEF S
  <2> QED
    BY <1>10, <2>1
<1>12. \A r \in S : \E i \in 1 .. n : b[i].request = r
  <2> HIDE DEF S
  <2> QED
    BY <1>8, <1>10
<1> QED
  BY <1>9, <1>11, <1>12 DEF b, RowsTell

\* The slots DP and greedy may plan a request in start at the slot of the claim and
\* its arrival; they end at its deadline, or at the claim once that has passed.
LEMMA OpenBounds ==
  ASSUME NEW r, requests[r].arrival \in Slots, Online!Deadline(r) \in Nat,
         hand.slot \in Slots, strategy # "online_swarm"
  PROVE  LET top == IF Online!Deadline(r) >= hand.slot THEN Online!Deadline(r) ELSE hand.slot
         IN /\ Online!cap_deadline(r) \in Nat /\ Online!cap_deadline(r) <= top
            /\ \A s \in Online!Open(r) :
                 hand.slot <= s /\ requests[r].arrival <= s /\ s <= top /\ s \in Int
<1> DEFINE d == Online!Deadline(r)
           a == requests[r].arrival
           h == hand.slot
           top == IF d >= h THEN d ELSE h
           cap == Online!cap_deadline(r)
           e == h + WindowFuture
           l == TotalSlots - 1
<1>1. WindowFuture \in Nat
  BY StrategyAssumption
<1>2. d \in Nat /\ a \in Nat /\ h \in Nat /\ h <= l /\ l \in Nat /\ e \in Nat
  BY <1>1, SlotBounds
<1>3. cap = Min({Max({d, h}), e, l})
  BY SameSlots, SameOperators DEF Online!cap_deadline
<1>4. Online!Open(r) = Max({a, h}) .. cap
  BY SameOperators DEF Online!Open, Online!ArrivalOf, Online!Swarm
<1> HIDE DEF d, a, cap, e, l, h
<1>5. Max({d, h}) = top
  BY <1>2, MaxPair
<1>6. top \in Nat
  BY <1>2
<1>7. cap \in {top, e, l} /\ cap <= top
  <2> HIDE DEF top
  <2>1. top \in Int /\ e \in Int /\ l \in Int
    BY <1>2, <1>6
  <2>2. cap = Min({top, e, l})
    BY <1>3, <1>5
  <2> QED
    BY <2>1, <2>2, MinTriple
<1>8. Max({a, h}) = IF a >= h THEN a ELSE h
  BY <1>2, MaxPair
<1>9. cap \in Nat
  BY <1>2, <1>6, <1>7
<1>10. \A s \in Online!Open(r) : h <= s /\ a <= s /\ s <= cap /\ s \in Int
  BY <1>2, <1>4, <1>8, <1>9
<1>11. \A s \in Online!Open(r) : s <= top
  BY <1>6, <1>7, <1>9, <1>10
<1> HIDE DEF top
<1> QED
  BY <1>7, <1>9, <1>10, <1>11 DEF a, d, cap, top, h

\* The slots bandit and colony may plan a request in, and where one is late.
LEMMA SwarmBounds ==
  ASSUME NEW r, requests[r].arrival \in Slots, requests[r].deadline \in Nat,
         strategy = "online_swarm"
  PROVE  \A s \in Online!Open(r) :
           /\ requests[r].arrival <= s
           /\ s > requests[r].deadline => s = requests[r].arrival
<1> DEFINE q == requests[r]
           e == q.arrival + MaxFuture
<1>1. Online!Open(r) = q.arrival .. Max({q.arrival, Min({q.deadline, e, TotalSlots - 1})})
  BY SameSlots, SameOperators
     DEF Online!Open, Online!Swarm, Online!valid_slots, Online!ArrivalOf, Online!DeadlineOf
<1>2. {q.arrival, LastSlot(q)} = {LastSlot(q), q.arrival}
  OBVIOUS
<1>3. Online!Open(r) = valid_slots(q)
  BY <1>1, <1>2 DEF valid_slots, LastSlot
<1>4. \A s \in valid_slots(q) : InReach(q, s) /\ s \in Slots
  BY SlotChoices
<1>5. q.arrival \in Nat /\ q.deadline \in Nat /\ e \in Nat
  BY SlotBounds
<1>6. Min({q.deadline, e}) = IF q.deadline <= e THEN q.deadline ELSE e
  BY <1>5, MinPair
<1>7. Min({q.deadline, e}) \in Nat /\ Min({q.deadline, e}) <= q.deadline
  BY <1>5, <1>6
<1> DEFINE m == Min({q.deadline, e})
<1>8. Max({q.arrival, m}) = IF q.arrival >= m THEN q.arrival ELSE m
  <2> HIDE DEF m
  <2> QED
    BY <1>5, <1>7, MaxPair DEF m
<1>9. \A s \in valid_slots(q) : q.arrival <= s /\ s <= Max({q.arrival, m}) /\ s \in Nat
  BY <1>4, SlotBounds DEF InReach
<1> HIDE DEF q, e, m
<1>10. \A s \in valid_slots(q) : q.arrival <= s /\ (s > q.deadline => s = q.arrival)
  BY <1>5, <1>7, <1>8, <1>9 DEF m
<1> QED
  BY <1>3, <1>10 DEF q

-----------------------------------------------------------------------------
(* What holds at every step of a batch scheduler's run. *)

RunRow == [slot : Slots, size : Nat, new : Nat]
Held == [slot : Slots, flavour : Names, deadline : Nat]

\* What a row tells of a request.  DP and greedy claimed it between its arrival and
\* the slot it got; late only when claimed late, and otherwise never moved late.
\* Bandit and colony are late only at the arrival.  What nothing moves stays as logged.
Claimed(r, row) ==
  /\ requests[r].arrival <= row.slot
  /\ strategy # "online_swarm" =>
       /\ requests[r].arrival <= row.current /\ row.current <= row.slot
       /\ row.slot > requests[r].deadline => row.slot = row.current
       /\ row.slot <= requests[r].deadline =>
            committed[r].slot <= requests[r].deadline /\ committed[r].deadline <= requests[r].deadline
  /\ strategy = "online_swarm" /\ row.slot > requests[r].deadline =>
       row.slot = requests[r].arrival
  /\ LockFuture \/ strategy = "online_swarm" =>
       committed[r].slot = row.slot /\ committed[r].flavour = row.flavour

NewRowsOf(r) == {i \in 1 .. Len(log) : log[i].request = r /\ log[i].isNew}

\* The rows the worker has yet to log that are new ones of r.
ToLog(r) == {j \in 1 .. Len(hand.rows) : hand.rows[j].request = r /\ hand.rows[j].isNew}

\* The runs numbered when the rows in the worker's hands were made.
Numbered == IF hand.stage = "committed" THEN Len(runs) + 1 ELSE Len(runs)

\* Types; an idle worker holds nothing, and a batch was claimed after its arrivals.
WorkTypes ==
  /\ strategy \in DOMAIN Scenarios /\ requests \in Scenarios[strategy]
  /\ slot \in Slots /\ pending \subseteq DOMAIN requests
  /\ hand.stage \in {"idle", "solving", "committed", "logging"}
  /\ hand = [stage |-> hand.stage, batch |-> hand.batch, slot |-> hand.slot, rows |-> hand.rows]
  /\ hand.stage = "idle" => hand = Online!Idle
  /\ hand.stage \in {"idle", "solving"} => hand.rows = << >>
  /\ hand.batch \subseteq DOMAIN requests /\ Cardinality(hand.batch) <= BatchSize
  /\ hand.slot \in Nat /\ hand.slot <= slot
  /\ \A r \in hand.batch : requests[r].arrival <= hand.slot
  /\ hand.rows \in Seq(LogRow) /\ runs \in Seq(RunRow) /\ log \in Seq(LogRow)
  /\ DOMAIN committed \subseteq DOMAIN requests
  /\ \A r \in DOMAIN committed : committed[r] \in Held

\* A request is pending, held or committed, and a worker commits its batch as a whole.
WorkPlaces ==
  /\ pending \cap DOMAIN committed = {} /\ pending \cap hand.batch = {}
  /\ hand.stage = "solving" => hand.batch \cap DOMAIN committed = {}
  /\ hand.stage \in {"committed", "logging"} => hand.batch \subseteq DOMAIN committed
  /\ report = << >> => DOMAIN requests \subseteq pending \cup hand.batch \cup DOMAIN committed

\* What is logged, or is still to be, was committed in a numbered run; a request whose
\* new row is missing from the log is in the hands of a worker that will log it.
LogInv ==
  /\ \A i \in 1 .. Len(log) :
       /\ log[i].request \in DOMAIN committed /\ log[i].run \in 1 .. Len(runs)
       /\ log[i].isNew => Claimed(log[i].request, log[i])
  /\ \A j \in 1 .. Len(hand.rows) :
       /\ hand.rows[j].request \in DOMAIN committed /\ hand.rows[j].run \in 1 .. Numbered
       /\ hand.rows[j].isNew => /\ hand.rows[j].request \in hand.batch
                                /\ Claimed(hand.rows[j].request, hand.rows[j])
  /\ \A r \in DOMAIN committed : NewRowsOf(r) = {} => r \in hand.batch /\ ToLog(r) # {}

\* The row of the tables that a row of the log makes.
RowOf(r, row) ==
  [slot |-> row.slot, flavour |-> row.flavour, position |-> 0,
   queueWait |-> Max({row.current - requests[r].arrival, 0}),
   finalWait |-> Max({row.slot - requests[r].arrival, 0}),
   batch |-> IF row.run \in 1 .. Len(runsRead) THEN row.run ELSE 0,
   lateness |-> Max({row.slot - requests[r].deadline, 0})]

\* Once stopped, a worker holds nothing but the batch it was left with.  A row logged
\* after the runs were read is of that batch, and a request that is not among the rows
\* read is pending or of that batch.
ReadInv ==
  /\ runner \in {"running", "stopped", "runsRead", "rowsRead"}
  /\ left \subseteq DOMAIN requests /\ Cardinality(left) <= BatchSize
  /\ runner # "running" => hand.batch \subseteq left /\ pending \cap left = {}
  /\ runner \in {"runsRead", "rowsRead"} =>
       /\ runsRead \in Seq(RunRow)
       /\ \A i \in 1 .. Len(log) :
            log[i].isNew /\ log[i].run \notin 1 .. Len(runsRead) => log[i].request \in left
  /\ runner = "rowsRead" =>
       /\ report = << >> => DOMAIN requests \subseteq pending \cup left \cup DOMAIN perRequest
       /\ DOMAIN perRequest \subseteq DOMAIN committed
       /\ \A r \in DOMAIN perRequest : \E i \in NewRowsOf(r) : perRequest[r] = RowOf(r, log[i])

RunInv == WorkTypes /\ WorkPlaces /\ LogInv /\ ReadInv

\* The parts of the types that a proof needs as facts of their own.
LEMMA WorkFacts ==
  ASSUME WorkTypes
  PROVE  /\ DOMAIN requests = 1 .. Len(requests) /\ Len(requests) \in Nat
         /\ IsFiniteSet(DOMAIN requests)
         /\ \A r \in DOMAIN requests :
              /\ requests[r].arrival \in Slots /\ requests[r].arrival \in Nat
              /\ requests[r].deadline \in Nat
         /\ slot \in Nat /\ slot <= TotalSlots - 1 /\ TotalSlots \in Nat
         /\ hand.slot \in Slots
         /\ Len(log) \in Nat /\ Len(runs) \in Nat /\ Len(hand.rows) \in Nat
         /\ DOMAIN log = 1 .. Len(log) /\ \A i \in 1 .. Len(log) : log[i] \in LogRow
<1>1. /\ DOMAIN requests = 1 .. Len(requests) /\ Len(requests) \in Nat
      /\ \A r \in DOMAIN requests :
           requests[r].arrival \in Slots /\ requests[r].deadline \in Nat
  BY ScenarioTypes DEF WorkTypes
<1>2. \A r \in DOMAIN requests : requests[r].arrival \in Nat
  BY <1>1, SlotBounds
<1>3. IsFiniteSet(DOMAIN requests)
  BY <1>1, FS_Interval
<1>4. slot \in Nat /\ slot <= TotalSlots - 1 /\ TotalSlots \in Nat
  BY SlotBounds DEF WorkTypes
<1>5. hand.slot \in Slots
  <2>1. hand.slot \in Nat /\ hand.slot <= slot
    BY DEF WorkTypes
  <2> QED
    BY <1>4, <2>1, SlotBounds
<1>6. /\ log \in Seq(LogRow) /\ runs \in Seq(RunRow) /\ hand.rows \in Seq(LogRow)
  BY DEF WorkTypes
<1>7. /\ Len(log) \in Nat /\ Len(runs) \in Nat /\ Len(hand.rows) \in Nat
      /\ DOMAIN log = 1 .. Len(log) /\ \A i \in 1 .. Len(log) : log[i] \in LogRow
  BY <1>6, SeqElement
<1> QED
  BY <1>1, <1>2, <1>3, <1>4, <1>5, <1>7

\* A step that leaves the commitments, the log and the worker alone.
LEMMA LogSame ==
  ASSUME LogInv, UNCHANGED << strategy, requests, committed, runs, log, hand >>
  PROVE  LogInv'
BY DEF LogInv, Claimed, NewRowsOf, ToLog, Numbered

\* A worker with nothing to log, before or after, adds nothing to what is logged.
LEMMA LogStays ==
  ASSUME LogInv, UNCHANGED << strategy, requests, committed, runs, log >>,
         hand.rows = << >>, hand'.rows = << >>
  PROVE  LogInv'
<1>1. /\ \A i \in 1 .. Len(log) :
           /\ log[i].request \in DOMAIN committed /\ log[i].run \in 1 .. Len(runs)
           /\ log[i].isNew => Claimed(log[i].request, log[i])
      /\ \A r \in DOMAIN committed : NewRowsOf(r) # {}
  <2>1. \A r : ToLog(r) = {}
    BY DEF ToLog
  <2> QED
    BY <2>1 DEF LogInv
<1>2. \A r : NewRowsOf(r)' = NewRowsOf(r)
  BY DEF NewRowsOf
<1>3. \A i \in 1 .. Len(log) : log[i].isNew => Claimed(log[i].request, log[i])'
  BY <1>1 DEF Claimed
<1>4. Len(hand'.rows) = 0
  OBVIOUS
<1> QED
  BY <1>1, <1>2, <1>3, <1>4 DEF LogInv

\* A step that touches neither what was read nor what is logged.
LEMMA ReadSame ==
  ASSUME ReadInv, UNCHANGED << requests, log, runner, left, runsRead, perRequest >>,
         runner # "running" => pending' \subseteq pending /\ hand'.batch \subseteq hand.batch,
         report' = << >> => report = << >> /\ (runner = "running" \/ pending' = pending),
         DOMAIN committed \subseteq DOMAIN committed'
  PROVE  ReadInv'
<1>1. \A r : NewRowsOf(r)' = NewRowsOf(r)
  BY DEF NewRowsOf
<1>2. \A r, i : RowOf(r, log[i])' = RowOf(r, log[i])
  BY DEF RowOf
<1>3. /\ runner' \in {"running", "stopped", "runsRead", "rowsRead"}
      /\ left' \subseteq DOMAIN requests' /\ Cardinality(left)' <= BatchSize
      /\ runner' # "running" => hand'.batch \subseteq left' /\ pending' \cap left' = {}
  BY DEF ReadInv
<1>4. runner' \in {"runsRead", "rowsRead"} =>
        /\ runsRead' \in Seq(RunRow)
        /\ \A i \in 1 .. Len(log') :
             log'[i].isNew /\ log'[i].run \notin 1 .. Len(runsRead') => log'[i].request \in left'
  BY DEF ReadInv
<1>5. runner' = "rowsRead" =>
        /\ report' = << >> =>
             DOMAIN requests' \subseteq pending' \cup left' \cup DOMAIN perRequest'
        /\ DOMAIN perRequest' \subseteq DOMAIN committed'
        /\ \A r \in DOMAIN perRequest' :
             \E i \in NewRowsOf(r)' : perRequest'[r] = RowOf(r, log[i])'
  <2> SUFFICES ASSUME runner' = "rowsRead"
      PROVE /\ report' = << >> =>
                 DOMAIN requests' \subseteq pending' \cup left' \cup DOMAIN perRequest'
            /\ DOMAIN perRequest' \subseteq DOMAIN committed'
            /\ \A r \in DOMAIN perRequest' :
                 \E i \in NewRowsOf(r)' : perRequest'[r] = RowOf(r, log[i])'
    OBVIOUS
  <2>1. /\ report = << >> => DOMAIN requests \subseteq pending \cup left \cup DOMAIN perRequest
        /\ DOMAIN perRequest \subseteq DOMAIN committed
        /\ \A r \in DOMAIN perRequest : \E i \in NewRowsOf(r) : perRequest[r] = RowOf(r, log[i])
    BY DEF ReadInv
  <2>2. report' = << >> => report = << >> /\ pending' = pending
    OBVIOUS
  <2>3. \A r \in DOMAIN perRequest' :
          \E i \in NewRowsOf(r)' : perRequest'[r] = RowOf(r, log[i])'
    BY <1>1, <1>2, <2>1
  <2> QED
    BY <2>1, <2>2, <2>3
<1> QED
  BY <1>3, <1>4, <1>5 DEF ReadInv

\* A claim takes its batch from the queue into the worker's hands.
LEMMA ClaimKeeps ==
  ASSUME RunInv, Online!Claim
  PROVE  RunInv'
<1>1. PICK batch \in SUBSET Online!Arrived :
        /\ Online!Cardinality(batch) <= BatchSize
        /\ pending' = pending \ batch
        /\ hand' = [stage |-> "solving", batch |-> batch, slot |-> slot, rows |-> << >>]
  BY DEF Online!Claim, Online!FrontBatch
<1>2. /\ report = << >> /\ runner = "running" /\ hand = Online!Idle
      /\ UNCHANGED << strategy, requests, slot, committed, runs, log, runner, left,
                      runsRead, perRequest, report >>
  BY DEF Online!Claim, Online!scenario, Online!reading
<1>3. hand.batch = {} /\ hand.rows = << >>
  BY <1>2 DEF Online!Idle
<1>4. batch \subseteq pending /\ \A r \in batch : requests[r].arrival <= slot
  BY DEF Online!Arrived, Online!ArrivalOf
<1>5. Cardinality(batch) <= BatchSize
  BY <1>1, SameOperators
<1>6. slot \in Nat
  BY WorkFacts DEF RunInv
<1>7. WorkTypes'
  <2>1. /\ hand'.stage = "solving" /\ hand'.batch = batch /\ hand'.slot = slot
        /\ hand'.rows = << >>
    BY <1>1
  <2>2. hand' = [stage |-> hand'.stage, batch |-> hand'.batch, slot |-> hand'.slot,
                 rows |-> hand'.rows]
    BY <1>1, <2>1
  <2>3. hand'.rows \in Seq(LogRow)
    BY <2>1
  <2> QED
    BY <1>1, <1>2, <1>4, <1>5, <1>6, <2>1, <2>2, <2>3 DEF RunInv, WorkTypes
<1>8. WorkPlaces'
  BY <1>1, <1>2, <1>3, <1>4 DEF RunInv, WorkPlaces
<1>9. LogInv'
  BY <1>1, <1>2, <1>3, LogStays DEF RunInv
<1>10. ReadInv'
  BY <1>2, ReadSame DEF RunInv
<1> QED
  BY <1>7, <1>8, <1>9, <1>10 DEF RunInv

\* A worker that gives its place back has logged everything.
LEMMA ReleaseKeeps ==
  ASSUME RunInv, Online!Release
  PROVE  RunInv'
<1>1. /\ report = << >> /\ hand.stage = "logging" /\ hand.rows = << >>
      /\ hand' = [stage |-> "idle", batch |-> {}, slot |-> 0, rows |-> << >>]
      /\ hand' = Online!Idle'
      /\ UNCHANGED << strategy, requests, slot, pending, committed, runs, log, runner, left,
                      runsRead, perRequest, report >>
  BY DEF Online!Release, Online!Idle, Online!scenario, Online!reading
<1>2. /\ hand'.stage = "idle" /\ hand'.batch = {} /\ hand'.slot = 0 /\ hand'.rows = << >>
  BY <1>1
<1>3. Cardinality({}) = 0 /\ BatchSize \in Nat
  BY FS_EmptySet, StudyAssumption
<1>4. slot \in Nat
  BY WorkFacts DEF RunInv
<1>5. WorkTypes'
  <2>1. hand' = [stage |-> hand'.stage, batch |-> hand'.batch, slot |-> hand'.slot,
                 rows |-> hand'.rows]
    BY <1>1, <1>2
  <2>2. hand'.rows \in Seq(LogRow)
    BY <1>2
  <2>3. hand'.slot \in Nat /\ hand'.slot <= slot' /\ Cardinality(hand'.batch) <= BatchSize
    BY <1>1, <1>2, <1>3, <1>4
  <2> QED
    BY <1>1, <1>2, <2>1, <2>2, <2>3 DEF RunInv, WorkTypes
<1>6. WorkPlaces'
  BY <1>1, <1>2 DEF RunInv, WorkPlaces
<1>7. LogInv'
  BY <1>1, <1>2, LogStays DEF RunInv
<1>8. ReadInv'
  BY <1>1, <1>2, ReadSame DEF RunInv
<1> QED
  BY <1>5, <1>6, <1>7, <1>8 DEF RunInv

\* A step that leaves the run's data alone, the clock and the drain aside.
LEMMA RunSame ==
  ASSUME RunInv,
         UNCHANGED << strategy, requests, hand, committed, runs, log, runner, left, runsRead,
                      perRequest >>,
         slot' \in Slots, slot <= slot', pending' \subseteq pending,
         report' = << >> => report = << >> /\ pending' = pending
  PROVE  RunInv'
<1>1. slot' \in Nat /\ slot \in Nat
  BY WorkFacts, SlotBounds DEF RunInv
<1>2. WorkTypes'
  <2>1. hand'.slot \in Nat /\ hand'.slot <= slot'
    BY <1>1 DEF RunInv, WorkTypes
  <2>2. hand'.stage = "idle" => hand' = Online!Idle'
    BY DEF RunInv, WorkTypes, Online!Idle
  <2> QED
    BY <2>1, <2>2 DEF RunInv, WorkTypes
<1>3. WorkPlaces'
  BY DEF RunInv, WorkPlaces
<1>4. LogInv'
  BY LogSame DEF RunInv
<1>5. ReadInv'
  BY ReadSame DEF RunInv
<1> QED
  BY <1>2, <1>3, <1>4, <1>5 DEF RunInv

\* Stopping finds the batch it leaves in the worker's hands, if any.
LEMMA StopKeeps ==
  ASSUME RunInv, Online!Stop
  PROVE  RunInv'
<1>1. /\ report = << >> /\ runner' = "stopped" /\ left' = hand.batch
      /\ UNCHANGED << strategy, requests, slot, pending, hand, committed, runs, log,
                      runsRead, perRequest, report >>
  BY DEF Online!Stop, Online!scenario, Online!work
<1>2. WorkTypes' /\ WorkPlaces'
  BY <1>1 DEF RunInv, WorkTypes, WorkPlaces, Online!Idle
<1>3. LogInv'
  BY <1>1, LogSame DEF RunInv
<1>4. ReadInv'
  BY <1>1 DEF RunInv, WorkTypes, WorkPlaces, ReadInv
<1> QED
  BY <1>2, <1>3, <1>4 DEF RunInv

\* Every logged row belongs to a run in the runs file.
LEMMA ReadRunsKeeps ==
  ASSUME RunInv, Online!ReadRuns
  PROVE  RunInv'
<1>1. /\ runner = "stopped" /\ runner' = "runsRead" /\ runsRead' = runs
      /\ UNCHANGED << strategy, requests, slot, pending, hand, committed, runs, log, left,
                      perRequest, report >>
  BY DEF Online!ReadRuns, Online!scenario, Online!work
<1>2. WorkTypes' /\ WorkPlaces'
  BY <1>1 DEF RunInv, WorkTypes, WorkPlaces, Online!Idle
<1>3. LogInv'
  BY <1>1, LogSame DEF RunInv
<1>4. /\ runs \in Seq(RunRow)
      /\ \A i \in 1 .. Len(log) : log[i].run \in 1 .. Len(runs)
  BY DEF RunInv, WorkTypes, LogInv
<1>5. ReadInv'
  BY <1>1, <1>4 DEF RunInv, ReadInv
<1> QED
  BY <1>2, <1>3, <1>5 DEF RunInv

\* What a commit has in hand: a plan for the batch and for what it may move.
Planned(plan) ==
  /\ report = << >> /\ hand.stage = "solving"
  /\ IsFiniteSet(DOMAIN plan) /\ DOMAIN plan \subseteq DOMAIN requests
  /\ DOMAIN plan = hand.batch \cup Online!Movable /\ Online!Movable \subseteq DOMAIN committed
  /\ hand.batch \cap DOMAIN committed = {}
  /\ \A r \in DOMAIN plan :
       /\ plan[r] \in [slot : Slots, flavour : Names]
       /\ plan[r].slot \in Online!Open(r)
  /\ \A r \in Online!Movable :
       ~ LockFuture /\ strategy # "online_swarm" /\ hand.slot <= committed[r].slot
  /\ DOMAIN committed' = DOMAIN committed \cup hand.batch
  /\ \A r \in DOMAIN committed \ DOMAIN plan : committed'[r] = committed[r]
  /\ \A r \in hand.batch : committed'[r] =
       [slot |-> plan[r].slot, flavour |-> plan[r].flavour, deadline |-> requests[r].deadline]
  /\ \A r \in Online!Movable : committed'[r] =
       [slot |-> plan[r].slot, flavour |-> plan[r].flavour, deadline |-> Online!cap_deadline(r)]
  /\ hand' = [hand EXCEPT !.stage = "committed",
                !.rows = Online!build_assignment_rows(plan, hand.batch, Len(runs) + 1)]
  /\ UNCHANGED << strategy, requests, slot, pending, runs, log, runner, left, runsRead,
                  perRequest, report >>

\* What is committed of a request that is planned.
LEMMA PlanCommitted ==
  ASSUME NEW plan, Planned(plan)
  PROVE  /\ \A r \in DOMAIN plan : committed'[r].slot = plan[r].slot
                                 /\ committed'[r].flavour = plan[r].flavour
         /\ \A r \in hand.batch : committed'[r].deadline = requests[r].deadline
         /\ \A r \in Online!Movable : committed'[r].deadline = Online!cap_deadline(r)
         /\ \A r \in DOMAIN plan : committed'[r] =
              [slot |-> plan[r].slot, flavour |-> plan[r].flavour,
               deadline |-> committed'[r].deadline]
<1>1. DOMAIN plan = hand.batch \cup Online!Movable
  BY DEF Planned
<1>2. \A r \in hand.batch : committed'[r] =
        [slot |-> plan[r].slot, flavour |-> plan[r].flavour, deadline |-> requests[r].deadline]
  BY DEF Planned
<1>3. \A r \in Online!Movable : committed'[r] =
        [slot |-> plan[r].slot, flavour |-> plan[r].flavour, deadline |-> Online!cap_deadline(r)]
  BY DEF Planned
<1> DEFINE Told(r) == /\ committed'[r].slot = plan[r].slot
                      /\ committed'[r].flavour = plan[r].flavour
                      /\ committed'[r] = [slot |-> plan[r].slot, flavour |-> plan[r].flavour,
                                         deadline |-> committed'[r].deadline]
<1>a. ASSUME NEW c, NEW s, NEW f, NEW d, c = [slot |-> s, flavour |-> f, deadline |-> d]
      PROVE  /\ c.slot = s /\ c.flavour = f /\ c.deadline = d
             /\ c = [slot |-> s, flavour |-> f, deadline |-> c.deadline]
  BY <1>a
<1>4. ASSUME NEW r \in hand.batch
      PROVE  Told(r) /\ committed'[r].deadline = requests[r].deadline
  <2>1. committed'[r] = [slot |-> plan[r].slot, flavour |-> plan[r].flavour,
                         deadline |-> requests[r].deadline]
    BY <1>2
  <2> QED
    BY <1>a, <2>1
<1>5. ASSUME NEW r \in Online!Movable
      PROVE  Told(r) /\ committed'[r].deadline = Online!cap_deadline(r)
  <2>1. committed'[r] = [slot |-> plan[r].slot, flavour |-> plan[r].flavour,
                         deadline |-> Online!cap_deadline(r)]
    BY <1>3
  <2> QED
    BY <1>a, <2>1
<1>6. \A r \in DOMAIN plan : Told(r)
  <2> HIDE DEF Told
  <2> QED
    BY <1>1, <1>4, <1>5
<1> QED
  BY <1>4, <1>5, <1>6

LEMMA CommitPlans ==
  ASSUME RunInv, Online!Commit
  PROVE  \E plan : Planned(plan)
<1>1. PICK plan \in [hand.batch \cup Online!Movable -> Online!Plan] :
        /\ \A r \in DOMAIN plan : plan[r].slot \in Online!Open(r)
        /\ committed' = [r \in Online!Committed \cup DOMAIN plan |->
             IF r \in DOMAIN plan
             THEN [slot |-> plan[r].slot, flavour |-> plan[r].flavour,
                   deadline |-> IF r \in hand.batch THEN Online!DeadlineOf(r)
                                ELSE Online!cap_deadline(r)]
             ELSE committed[r]]
        /\ hand' = [hand EXCEPT !.stage = "committed",
                      !.rows = Online!build_assignment_rows(plan, hand.batch, Len(runs) + 1)]
  BY DEF Online!Commit
<1>2. /\ report = << >> /\ hand.stage = "solving"
      /\ UNCHANGED << strategy, requests, slot, pending, runs, log, runner, left, runsRead,
                      perRequest, report >>
  BY DEF Online!Commit, Online!scenario, Online!reading
<1>3. /\ Online!Movable \subseteq DOMAIN committed
      /\ \A r \in Online!Movable :
           ~ LockFuture /\ strategy # "online_swarm" /\ committed[r].slot >= hand.slot
  BY DEF Online!Movable, Online!Committed, Online!Swarm
<1>4. \A r \in Online!Movable :
        ~ LockFuture /\ strategy # "online_swarm" /\ hand.slot <= committed[r].slot
  <2>1. \A r \in DOMAIN committed : committed[r].slot \in Nat
    BY SlotBounds DEF RunInv, WorkTypes, Held
  <2>2. hand.slot \in Nat
    BY DEF RunInv, WorkTypes
  <2> QED
    BY <1>3, <2>1, <2>2
<1>5. /\ DOMAIN plan = hand.batch \cup Online!Movable
      /\ \A r \in DOMAIN plan : plan[r] \in [slot : Slots, flavour : Names]
  BY SameSlots DEF Online!Plan
<1>6. hand.batch \cap DOMAIN committed = {} /\ DOMAIN plan \subseteq DOMAIN requests
  BY <1>2, <1>3, <1>5 DEF RunInv, WorkPlaces, WorkTypes
<1>7. IsFiniteSet(DOMAIN plan)
  BY <1>6, WorkFacts, FS_Subset DEF RunInv
<1>8. /\ DOMAIN committed' = DOMAIN committed \cup hand.batch
      /\ \A r \in DOMAIN committed \ DOMAIN plan : committed'[r] = committed[r]
      /\ \A r \in hand.batch : committed'[r] =
           [slot |-> plan[r].slot, flavour |-> plan[r].flavour, deadline |-> requests[r].deadline]
      /\ \A r \in Online!Movable : committed'[r] =
           [slot |-> plan[r].slot, flavour |-> plan[r].flavour,
            deadline |-> Online!cap_deadline(r)]
  <2>1. Online!Committed = DOMAIN committed /\ \A r : Online!DeadlineOf(r) = requests[r].deadline
    BY DEF Online!Committed, Online!DeadlineOf
  <2>2. DOMAIN committed \cup DOMAIN plan = DOMAIN committed \cup hand.batch
    BY <1>3, <1>5
  <2> DEFINE new(r) == [slot |-> plan[r].slot, flavour |-> plan[r].flavour,
                        deadline |-> IF r \in hand.batch THEN requests[r].deadline
                                     ELSE Online!cap_deadline(r)]
  <2>3. committed' = [r \in DOMAIN committed \cup hand.batch |->
                        IF r \in DOMAIN plan THEN new(r) ELSE committed[r]]
    BY <1>1, <2>1, <2>2
  <2>4. /\ \A r \in hand.batch : new(r) =
            [slot |-> plan[r].slot, flavour |-> plan[r].flavour,
             deadline |-> requests[r].deadline]
        /\ \A r \in Online!Movable : new(r) =
            [slot |-> plan[r].slot, flavour |-> plan[r].flavour,
             deadline |-> Online!cap_deadline(r)]
    BY <1>3, <1>6
  <2> HIDE DEF new
  <2>5. /\ \A r \in hand.batch : committed'[r] = new(r)
        /\ \A r \in Online!Movable : committed'[r] = new(r)
        /\ \A r \in DOMAIN committed \ DOMAIN plan : committed'[r] = committed[r]
        /\ DOMAIN committed' = DOMAIN committed \cup hand.batch
    BY <1>3, <1>5, <2>3
  <2> QED
    BY <2>4, <2>5
<1> QED
  BY <1>1, <1>2, <1>3, <1>4, <1>5, <1>6, <1>7, <1>8 DEF Planned

\* Where a plan puts a request: not before the claim, and past the deadline it was
\* solved with only in the very slot of the claim.
LEMMA PlannedSlots ==
  ASSUME RunInv, NEW plan, Planned(plan), NEW r \in DOMAIN plan
  PROVE  /\ plan[r].slot \in Nat /\ requests[r].arrival <= plan[r].slot
         /\ Online!Deadline(r)
              = IF r \in hand.batch THEN requests[r].deadline ELSE committed[r].deadline
         /\ strategy # "online_swarm" =>
              /\ hand.slot <= plan[r].slot /\ Online!cap_deadline(r) \in Nat
              /\ Online!Deadline(r) >= hand.slot =>
                   /\ plan[r].slot <= Online!Deadline(r)
                   /\ Online!cap_deadline(r) <= Online!Deadline(r)
              /\ Online!Deadline(r) < hand.slot =>
                   plan[r].slot <= hand.slot /\ Online!cap_deadline(r) <= hand.slot
         /\ strategy = "online_swarm" /\ plan[r].slot > requests[r].deadline =>
              plan[r].slot = requests[r].arrival
<1>1. r \in DOMAIN committed <=> r \notin hand.batch
  BY DEF Planned
<1>2. /\ requests[r].arrival \in Slots /\ requests[r].arrival \in Nat
      /\ requests[r].deadline \in Nat /\ hand.slot \in Slots /\ hand.slot \in Nat
  BY WorkFacts DEF RunInv, WorkTypes, Planned
<1>3. r \in DOMAIN committed => committed[r].deadline \in Nat
  BY DEF RunInv, WorkTypes, Held
<1>4. /\ Online!Deadline(r)
           = IF r \in hand.batch THEN requests[r].deadline ELSE committed[r].deadline
      /\ Online!Deadline(r) \in Nat
  BY <1>1, <1>2, <1>3 DEF Online!Deadline, Online!DeadlineOf, Online!Committed
<1>5. plan[r].slot \in Slots /\ plan[r].slot \in Online!Open(r) /\ plan[r].slot \in Nat
  BY SlotBounds DEF Planned
<1>6. CASE strategy = "online_swarm"
  <2>1. /\ requests[r].arrival <= plan[r].slot
        /\ plan[r].slot > requests[r].deadline => plan[r].slot = requests[r].arrival
    BY <1>2, <1>5, <1>6, SwarmBounds
  <2> QED
    BY <1>4, <1>5, <1>6, <2>1
<1>7. CASE strategy # "online_swarm"
  <2> DEFINE top == IF Online!Deadline(r) >= hand.slot THEN Online!Deadline(r) ELSE hand.slot
  <2>1. /\ Online!cap_deadline(r) \in Nat /\ Online!cap_deadline(r) <= top
        /\ hand.slot <= plan[r].slot /\ requests[r].arrival <= plan[r].slot
        /\ plan[r].slot <= top
    BY <1>2, <1>4, <1>5, <1>7, OpenBounds
  <2>2. /\ Online!Deadline(r) >= hand.slot => top = Online!Deadline(r)
        /\ Online!Deadline(r) < hand.slot => top = hand.slot
    BY <1>2, <1>4
  <2> HIDE DEF top
  <2> QED
    BY <1>4, <1>5, <1>7, <2>1, <2>2
<1> QED
  BY <1>6, <1>7

\* What was claimed of a request before stays true when it is moved.
LEMMA ClaimStands ==
  ASSUME RunInv, NEW plan, Planned(plan), NEW r \in DOMAIN committed, NEW row, Claimed(r, row)
  PROVE  Claimed(r, row)'
<1>1. strategy' = strategy /\ requests' = requests
  BY DEF Planned
<1>2. CASE r \notin DOMAIN plan
  <2>1. committed'[r] = committed[r]
    BY <1>2 DEF Planned
  <2> QED
    BY <1>1, <2>1 DEF Claimed
<1>3. CASE r \in DOMAIN plan
  <2>1. r \notin hand.batch /\ r \in Online!Movable
    BY <1>3 DEF Planned
  <2>2. ~ LockFuture /\ strategy # "online_swarm" /\ hand.slot <= committed[r].slot
    BY <2>1 DEF Planned
  <2>3. committed'[r].slot = plan[r].slot /\ committed'[r].deadline = Online!cap_deadline(r)
    BY <1>3, <2>1, PlanCommitted
  <2>4. /\ committed[r].slot \in Nat /\ committed[r].deadline \in Nat /\ hand.slot \in Nat
    BY SlotBounds DEF RunInv, WorkTypes, Held
  <2>5. requests[r].deadline \in Nat
    BY <1>3, WorkFacts DEF RunInv, Planned
  <2>6. /\ plan[r].slot \in Nat /\ Online!Deadline(r) = committed[r].deadline
        /\ hand.slot <= plan[r].slot /\ Online!cap_deadline(r) \in Nat
        /\ Online!Deadline(r) >= hand.slot =>
             /\ plan[r].slot <= Online!Deadline(r)
             /\ Online!cap_deadline(r) <= Online!Deadline(r)
        /\ Online!Deadline(r) < hand.slot =>
             plan[r].slot <= hand.slot /\ Online!cap_deadline(r) <= hand.slot
    BY <1>3, <2>1, <2>2, PlannedSlots
  <2>7. committed[r].slot <= requests[r].deadline
          /\ committed[r].deadline <= requests[r].deadline
            => /\ committed'[r].slot <= requests[r].deadline
               /\ committed'[r].deadline <= requests[r].deadline
    BY <2>2, <2>3, <2>4, <2>5, <2>6
  <2> QED
    BY <1>1, <2>2, <2>7 DEF Claimed
<1> QED
  BY <1>2, <1>3

\* What a commit claims of the requests of its own batch.
LEMMA ClaimMade ==
  ASSUME RunInv, NEW plan, Planned(plan), NEW r \in hand.batch, NEW row,
         row.slot = plan[r].slot, row.flavour = plan[r].flavour, row.current = hand.slot
  PROVE  Claimed(r, row)'
<1>1. strategy' = strategy /\ requests' = requests /\ r \in DOMAIN plan
  BY DEF Planned
<1>2. /\ committed'[r].slot = plan[r].slot /\ committed'[r].flavour = plan[r].flavour
      /\ committed'[r].deadline = requests[r].deadline
  BY <1>1, PlanCommitted
<1>3. /\ requests[r].deadline \in Nat /\ requests[r].arrival \in Nat
      /\ hand.slot \in Nat /\ requests[r].arrival <= hand.slot
  BY <1>1, WorkFacts DEF RunInv, WorkTypes, Planned
<1>4. /\ plan[r].slot \in Nat /\ requests[r].arrival <= plan[r].slot
      /\ Online!Deadline(r) = requests[r].deadline
      /\ strategy # "online_swarm" =>
           /\ hand.slot <= plan[r].slot
           /\ Online!Deadline(r) >= hand.slot => plan[r].slot <= Online!Deadline(r)
           /\ Online!Deadline(r) < hand.slot => plan[r].slot <= hand.slot
      /\ strategy = "online_swarm" /\ plan[r].slot > requests[r].deadline =>
           plan[r].slot = requests[r].arrival
  BY <1>1, PlannedSlots
<1>5. strategy # "online_swarm" =>
        /\ hand.slot <= plan[r].slot
        /\ plan[r].slot > requests[r].deadline => plan[r].slot = hand.slot
        /\ plan[r].slot <= requests[r].deadline =>
             /\ committed'[r].slot <= requests[r].deadline
             /\ committed'[r].deadline <= requests[r].deadline
  BY <1>2, <1>3, <1>4
<1> QED
  BY <1>1, <1>2, <1>3, <1>4, <1>5 DEF Claimed

\* A commit settles its batch and what the log will say of it.
LEMMA CommitKeeps ==
  ASSUME RunInv, Online!Commit
  PROVE  RunInv'
<1>1. PICK plan : Planned(plan)
  BY CommitPlans
<1> DEFINE b == Online!build_assignment_rows(plan, hand.batch, Len(runs) + 1)
           P == DOMAIN plan
           C == DOMAIN committed
<1>2. /\ hand = [stage |-> hand.stage, batch |-> hand.batch, slot |-> hand.slot,
                 rows |-> hand.rows]
      /\ hand.rows = << >> /\ hand.stage = "solving"
  BY <1>1 DEF RunInv, WorkTypes, Planned
<1>3. /\ hand'.stage = "committed" /\ hand'.batch = hand.batch /\ hand'.slot = hand.slot
      /\ hand'.rows = b
      /\ hand' = [stage |-> hand'.stage, batch |-> hand'.batch, slot |-> hand'.slot,
                  rows |-> hand'.rows]
  BY <1>1, <1>2 DEF Planned
<1>4. Len(runs) \in Nat /\ hand.slot \in Slots /\ P \subseteq Nat
  <2>1. P \subseteq DOMAIN requests
    BY <1>1 DEF Planned
  <2>2. DOMAIN requests = 1 .. Len(requests) /\ Len(requests) \in Nat
    BY WorkFacts DEF RunInv
  <2>3. P \subseteq Nat
    BY <2>1, <2>2
  <2> QED
    BY <2>3, WorkFacts DEF RunInv
<1>5. /\ b \in Seq(LogRow)
      /\ \A i \in 1 .. Len(b) :
           /\ b[i].request \in P /\ b[i].slot = plan[b[i].request].slot
           /\ b[i].flavour = plan[b[i].request].flavour
           /\ b[i].current = hand.slot /\ b[i].run = Len(runs) + 1
           /\ b[i].isNew = (b[i].request \in hand.batch)
      /\ \A r \in P : \E i \in 1 .. Len(b) : b[i].request = r
  <2>1. IsFiniteSet(P) /\ \A r \in P : plan[r] \in [slot : Slots, flavour : Names]
    BY <1>1 DEF Planned
  <2>2. Len(runs) + 1 \in Nat /\ P \subseteq Nat /\ hand.slot \in Slots
    BY <1>4
  <2>3. RowsTell(b, plan, hand.batch, Len(runs) + 1)
    BY <2>1, <2>2, RowsOfPlan
  <2> QED
    BY <2>3 DEF RowsTell
<1>6. /\ P \subseteq C \cup hand.batch /\ hand.batch \subseteq P /\ hand.batch \cap C = {}
      /\ DOMAIN committed' = C \cup hand.batch
      /\ UNCHANGED << strategy, requests, slot, pending, runs, log, runner, left, runsRead,
                      perRequest, report >>
  BY <1>1 DEF Planned
<1> HIDE DEF b, P, C
<1>7. \A r \in DOMAIN committed' : committed'[r] \in Held
  <2>1. ASSUME NEW r \in P PROVE committed'[r] \in Held
    <3>1. plan[r].slot \in Slots /\ plan[r].flavour \in Names
      BY <1>1 DEF Planned, P
    <3>2. requests[r].deadline \in Nat
      BY <1>1, WorkFacts DEF RunInv, Planned, P
    <3>3. CASE r \in hand.batch
      <4>1. committed'[r].deadline = requests[r].deadline
        BY <1>1, <3>3, PlanCommitted
      <4>2. committed'[r] = [slot |-> plan[r].slot, flavour |-> plan[r].flavour,
                             deadline |-> committed'[r].deadline]
        BY <1>1, PlanCommitted DEF P
      <4> QED
        BY <3>1, <3>2, <4>1, <4>2 DEF Held
    <3>4. CASE r \in Online!Movable
      <4>1. strategy # "online_swarm"
        BY <1>1, <3>4 DEF Planned
      <4>2. Online!cap_deadline(r) \in Nat
        BY <1>1, <4>1, PlannedSlots DEF P
      <4> QED
        <5>1. committed'[r].deadline = Online!cap_deadline(r)
          BY <1>1, <3>4, PlanCommitted
        <5>2. committed'[r] = [slot |-> plan[r].slot, flavour |-> plan[r].flavour,
                               deadline |-> committed'[r].deadline]
          BY <1>1, PlanCommitted DEF P
        <5> QED
          BY <3>1, <4>2, <5>1, <5>2 DEF Held
    <3> QED
      BY <1>1, <3>3, <3>4 DEF Planned, P
  <2>2. ASSUME NEW r \in C, r \notin P PROVE committed'[r] \in Held
    BY <1>1, <2>2 DEF Planned, RunInv, WorkTypes, P, C
  <2> QED
    BY <1>6, <2>1, <2>2
<1>8. WorkTypes'
  <2>1. C \subseteq DOMAIN requests /\ hand.batch \subseteq DOMAIN requests
    BY DEF RunInv, WorkTypes, C
  <2>2. DOMAIN committed' \subseteq DOMAIN requests'
    BY <1>6, <2>1
  <2> QED
    BY <1>3, <1>5, <1>6, <1>7, <2>2 DEF RunInv, WorkTypes
<1>9. WorkPlaces'
  BY <1>3, <1>6 DEF RunInv, WorkPlaces, C
<1>10. /\ \A i \in 1 .. Len(log) :
            /\ log[i].request \in C /\ log[i].run \in 1 .. Len(runs)
            /\ log[i].isNew => Claimed(log[i].request, log[i])
       /\ \A r \in C : NewRowsOf(r) # {}
  <2>1. \A r : ToLog(r) = {}
    BY <1>2 DEF ToLog
  <2> QED
    BY <2>1 DEF RunInv, LogInv, C
<1>11. \A i \in 1 .. Len(log') :
         /\ log'[i].request \in DOMAIN committed' /\ log'[i].run \in 1 .. Len(runs')
         /\ log'[i].isNew => Claimed(log[i].request, log[i])'
  <2> SUFFICES ASSUME NEW i \in 1 .. Len(log)
               PROVE  /\ log[i].request \in DOMAIN committed'
                      /\ log[i].run \in 1 .. Len(runs)
                      /\ log[i].isNew => Claimed(log[i].request, log[i])'
    BY <1>6
  <2>1. log[i].isNew => Claimed(log[i].request, log[i])'
    <3>1. ASSUME log[i].isNew PROVE Claimed(log[i].request, log[i])'
      <4>1. PICK q, row : q = log[i].request /\ row = log[i]
        OBVIOUS
      <4>2. q \in C /\ Claimed(q, row)
        BY <1>10, <3>1, <4>1
      <4>3. Claimed(q, row)'
        BY <1>1, <4>2, ClaimStands DEF C
      <4>4. q = log'[i].request /\ row = log'[i]
        BY <1>6, <4>1
      <4> QED
        BY <4>3, <4>4 DEF Claimed
    <3> QED
      BY <3>1
  <2> QED
    BY <1>6, <1>10, <2>1
<1>12. \A j \in 1 .. Len(hand'.rows) :
         /\ hand'.rows[j].request \in DOMAIN committed'
         /\ hand'.rows[j].run \in 1 .. Numbered'
         /\ hand'.rows[j].isNew => /\ hand'.rows[j].request \in hand'.batch
                                   /\ Claimed(hand.rows[j].request, hand.rows[j])'
  <2> SUFFICES ASSUME NEW j \in 1 .. Len(b)
               PROVE  /\ b[j].request \in DOMAIN committed' /\ b[j].run \in 1 .. Numbered'
                      /\ b[j].isNew => /\ b[j].request \in hand'.batch
                                       /\ Claimed(hand.rows[j].request, hand.rows[j])'
    BY <1>3
  <2>1. b[j].request \in DOMAIN committed'
    BY <1>5, <1>6
  <2>2. b[j].run \in 1 .. Numbered'
    <3>1. Numbered' = Len(runs) + 1
      BY <1>3, <1>6 DEF Numbered
    <3> QED
      BY <1>4, <1>5, <3>1
  <2>3. ASSUME b[j].isNew PROVE Claimed(hand.rows[j].request, hand.rows[j])'
    <3>1. PICK q, row : q = b[j].request /\ row = b[j]
      OBVIOUS
    <3>2. /\ row.slot = plan[q].slot /\ row.flavour = plan[q].flavour
          /\ row.current = hand.slot /\ q \in hand.batch
      BY <1>5, <2>3, <3>1
    <3>3. Claimed(q, row)'
      BY <1>1, <3>2, ClaimMade
    <3>4. q = hand'.rows[j].request /\ row = hand'.rows[j]
      BY <1>3, <3>1
    <3> QED
      BY <3>3, <3>4 DEF Claimed
  <2> QED
    BY <1>3, <1>5, <2>1, <2>2, <2>3
<1>13. \A r \in DOMAIN committed' : NewRowsOf(r)' = {} => r \in hand'.batch /\ ToLog(r)' # {}
  <2> SUFFICES ASSUME NEW r \in DOMAIN committed', NewRowsOf(r)' = {}
               PROVE  r \in hand'.batch /\ ToLog(r)' # {}
    OBVIOUS
  <2>1. NewRowsOf(r)' = NewRowsOf(r)
    BY <1>6 DEF NewRowsOf
  <2>2. r \in hand.batch
    BY <1>6, <1>10, <2>1
  <2>3. PICK j \in 1 .. Len(b) : b[j].request = r
    BY <1>5, <1>6, <2>2
  <2>4. b[j].isNew
    BY <1>5, <2>2, <2>3
  <2> QED
    BY <1>3, <2>2, <2>3, <2>4 DEF ToLog
<1>14. LogInv'
  BY <1>11, <1>12, <1>13 DEF LogInv
<1>15. ReadInv'
  BY <1>3, <1>6, ReadSame DEF RunInv, C
<1> QED
  BY <1>8, <1>9, <1>14, <1>15 DEF RunInv

\* The run's own row is logged: the rows that follow belong to it.
LEMMA LogRunKeeps ==
  ASSUME RunInv, Online!LogRun
  PROVE  RunInv'
<1> DEFINE n == Cardinality(hand.batch)
           row == [slot |-> hand.slot, size |-> n, new |-> n]
<1>1. /\ report = << >> /\ hand.stage = "committed" /\ runs' = Append(runs, row)
      /\ hand' = [hand EXCEPT !.stage = "logging"]
      /\ UNCHANGED << strategy, requests, slot, pending, committed, log, runner, left,
                      runsRead, perRequest, report >>
  BY SameOperators DEF Online!LogRun, Online!scenario, Online!reading
<1>2. /\ hand = [stage |-> hand.stage, batch |-> hand.batch, slot |-> hand.slot,
                 rows |-> hand.rows]
      /\ runs \in Seq(RunRow)
  BY DEF RunInv, WorkTypes
<1>3. /\ hand'.stage = "logging" /\ hand'.batch = hand.batch /\ hand'.slot = hand.slot
      /\ hand'.rows = hand.rows
      /\ hand' = [stage |-> hand'.stage, batch |-> hand'.batch, slot |-> hand'.slot,
                  rows |-> hand'.rows]
  BY <1>1, <1>2
<1>4. row \in RunRow
  <2>1. IsFiniteSet(hand.batch) /\ hand.slot \in Slots
    BY WorkFacts, FS_Subset DEF RunInv, WorkTypes
  <2>2. n \in Nat
    BY <2>1, FS_CardinalityType
  <2> HIDE DEF n
  <2> QED
    BY <2>1, <2>2 DEF RunRow
<1> HIDE DEF row
<1>5. runs' \in Seq(RunRow) /\ Len(runs') = Len(runs) + 1 /\ Len(runs) \in Nat
  BY <1>1, <1>2, <1>4, SeqAppend
<1>6. WorkTypes'
  BY <1>1, <1>3, <1>5 DEF RunInv, WorkTypes
<1>7. WorkPlaces'
  BY <1>1, <1>3 DEF RunInv, WorkPlaces
<1>8. LogInv'
  <2>1. Numbered' = Len(runs) + 1 /\ Numbered = Len(runs) + 1
    BY <1>1, <1>3, <1>5 DEF Numbered
  <2>2. \A r : NewRowsOf(r)' = NewRowsOf(r) /\ ToLog(r)' = ToLog(r)
    BY <1>1, <1>3 DEF NewRowsOf, ToLog
  <2>3. \A k \in 1 .. Len(runs) : k \in 1 .. Len(runs')
    BY <1>5
  <2>4. \A i \in 1 .. Len(log') :
          /\ log'[i].request \in DOMAIN committed' /\ log'[i].run \in 1 .. Len(runs')
          /\ log'[i].isNew => Claimed(log[i].request, log[i])'
    BY <1>1, <2>3 DEF RunInv, LogInv, Claimed
  <2>5. \A j \in 1 .. Len(hand'.rows) :
          /\ hand'.rows[j].request \in DOMAIN committed' /\ hand'.rows[j].run \in 1 .. Numbered'
          /\ hand'.rows[j].isNew => /\ hand'.rows[j].request \in hand'.batch
                                    /\ Claimed(hand.rows[j].request, hand.rows[j])'
    BY <1>1, <1>3, <2>1 DEF RunInv, LogInv, Claimed
  <2>6. \A r \in DOMAIN committed' : NewRowsOf(r)' = {} => r \in hand'.batch /\ ToLog(r)' # {}
    BY <1>1, <1>3, <2>2 DEF RunInv, LogInv
  <2> QED
    BY <2>4, <2>5, <2>6 DEF LogInv
<1>9. ReadInv'
  BY <1>1, <1>3, ReadSame DEF RunInv
<1> QED
  BY <1>6, <1>7, <1>8, <1>9 DEF RunInv

\* The next row goes from the worker's hands to the log.
LEMMA LogAssignmentKeeps ==
  ASSUME RunInv, Online!LogAssignment
  PROVE  RunInv'
<1> DEFINE n == Len(log)
           m == Len(hand.rows)
           b == hand.rows
<1>1. /\ report = << >> /\ hand.stage = "logging" /\ b # << >>
      /\ log' = Append(log, Head(b)) /\ hand' = [hand EXCEPT !.rows = Tail(b)]
      /\ UNCHANGED << strategy, requests, slot, pending, committed, runs, runner, left,
                      runsRead, perRequest, report >>
  BY DEF Online!LogAssignment, Online!scenario, Online!reading
<1>2. /\ hand = [stage |-> hand.stage, batch |-> hand.batch, slot |-> hand.slot,
                 rows |-> hand.rows]
      /\ b \in Seq(LogRow) /\ log \in Seq(LogRow) /\ runs \in Seq(RunRow)
  BY DEF RunInv, WorkTypes
<1>3. /\ hand'.stage = "logging" /\ hand'.batch = hand.batch /\ hand'.slot = hand.slot
      /\ hand'.rows = Tail(b)
      /\ hand' = [stage |-> hand'.stage, batch |-> hand'.batch, slot |-> hand'.slot,
                  rows |-> hand'.rows]
  BY <1>1, <1>2
<1>4. /\ m \in Nat \ {0} /\ Head(b) = b[1] /\ b[1] \in LogRow
      /\ Tail(b) \in Seq(LogRow) /\ Len(Tail(b)) = m - 1
      /\ \A j \in 1 .. m - 1 : Tail(b)[j] = b[j + 1]
  BY <1>1, <1>2
<1>5. /\ log' \in Seq(LogRow) /\ Len(log') = n + 1 /\ n \in Nat
      /\ \A i \in 1 .. n : log'[i] = log[i]
      /\ log'[n + 1] = b[1]
  BY <1>1, <1>2, <1>4, SeqAppend, SeqElement
<1>6. WorkTypes'
  BY <1>1, <1>3, <1>4, <1>5 DEF RunInv, WorkTypes
<1>7. WorkPlaces'
  BY <1>1, <1>3 DEF RunInv, WorkPlaces
<1>8. /\ \A i \in 1 .. n :
           /\ log[i].request \in DOMAIN committed /\ log[i].run \in 1 .. Len(runs)
           /\ log[i].isNew => Claimed(log[i].request, log[i])
      /\ \A j \in 1 .. m :
           /\ b[j].request \in DOMAIN committed /\ b[j].run \in 1 .. Len(runs)
           /\ b[j].isNew => b[j].request \in hand.batch /\ Claimed(b[j].request, b[j])
      /\ \A r \in DOMAIN committed : NewRowsOf(r) = {} => r \in hand.batch /\ ToLog(r) # {}
  <2>1. Numbered = Len(runs)
    BY <1>1 DEF Numbered
  <2> QED
    BY <2>1 DEF RunInv, LogInv
<1> HIDE DEF b, n, m
<1>9. ASSUME NEW q, NEW row, Claimed(q, row)
      PROVE  Claimed(q, row)'
  BY <1>1, <1>9 DEF Claimed
<1>10. \A i \in 1 .. n + 1 : i \in 1 .. n \/ i = n + 1
  BY <1>5
<1>11. 1 \in 1 .. m /\ \A j \in 1 .. m - 1 : j + 1 \in 1 .. m
  BY <1>4
<1>12. \A i \in 1 .. Len(log') :
         /\ log'[i].request \in DOMAIN committed' /\ log'[i].run \in 1 .. Len(runs')
         /\ log'[i].isNew => Claimed(log[i].request, log[i])'
  <2> SUFFICES ASSUME NEW i \in 1 .. n + 1
               PROVE  /\ log'[i].request \in DOMAIN committed
                      /\ log'[i].run \in 1 .. Len(runs)
                      /\ log'[i].isNew => Claimed(log[i].request, log[i])'
    BY <1>1, <1>5
  <2>1. PICK q, row : q = log'[i].request /\ row = log'[i]
    OBVIOUS
  <2>2. /\ q \in DOMAIN committed /\ row.run \in 1 .. Len(runs)
        /\ row.isNew => Claimed(q, row)
    BY <1>5, <1>8, <1>10, <1>11, <2>1
  <2>3. row.isNew => Claimed(q, row)'
    BY <1>9, <2>2
  <2> QED
    BY <2>1, <2>2, <2>3 DEF Claimed
<1>13. \A j \in 1 .. Len(hand'.rows) :
         /\ hand'.rows[j].request \in DOMAIN committed'
         /\ hand'.rows[j].run \in 1 .. Numbered'
         /\ hand'.rows[j].isNew => /\ hand'.rows[j].request \in hand'.batch
                                   /\ Claimed(hand.rows[j].request, hand.rows[j])'
  <2> SUFFICES ASSUME NEW j \in 1 .. m - 1
               PROVE  /\ hand'.rows[j].request \in DOMAIN committed
                      /\ hand'.rows[j].run \in 1 .. Numbered'
                      /\ hand'.rows[j].isNew => /\ hand'.rows[j].request \in hand.batch
                                                /\ Claimed(hand.rows[j].request, hand.rows[j])'
    BY <1>1, <1>3, <1>4
  <2>1. PICK q, row : q = hand'.rows[j].request /\ row = hand'.rows[j]
    OBVIOUS
  <2>2. row = b[j + 1] /\ j + 1 \in 1 .. m
    BY <1>3, <1>4, <1>11, <2>1
  <2>3. /\ q \in DOMAIN committed /\ row.run \in 1 .. Len(runs)
        /\ row.isNew => q \in hand.batch /\ Claimed(q, row)
    BY <1>8, <2>1, <2>2
  <2>4. Numbered' = Len(runs)
    BY <1>1, <1>3 DEF Numbered
  <2>5. row.isNew => Claimed(q, row)'
    BY <1>9, <2>3
  <2> QED
    BY <2>1, <2>3, <2>4, <2>5 DEF Claimed
<1>14. \A r : NewRowsOf(r) \subseteq NewRowsOf(r)' /\ \A i \in NewRowsOf(r) : log'[i] = log[i]
  <2> SUFFICES ASSUME NEW r, NEW i \in 1 .. n, log[i].request = r, log[i].isNew
               PROVE  i \in NewRowsOf(r)' /\ log'[i] = log[i]
    BY DEF NewRowsOf, n
  <2>1. i \in 1 .. n + 1
    BY <1>5
  <2> QED
    BY <1>5, <2>1 DEF NewRowsOf
<1>15. \A r \in DOMAIN committed' : NewRowsOf(r)' = {} => r \in hand'.batch /\ ToLog(r)' # {}
  <2> SUFFICES ASSUME NEW r \in DOMAIN committed, NewRowsOf(r)' = {}
               PROVE  r \in hand.batch /\ ToLog(r)' # {}
    BY <1>1, <1>3
  <2>1. r \in hand.batch /\ ToLog(r) # {}
    BY <1>8, <1>14
  <2>2. PICK j \in 1 .. m : b[j].request = r /\ b[j].isNew
    BY <2>1 DEF ToLog, m, b
  <2>3. j # 1
    <3> SUFFICES ASSUME j = 1 PROVE FALSE
      OBVIOUS
    <3>1. n + 1 \in 1 .. n + 1
      BY <1>5
    <3>2. n + 1 \in NewRowsOf(r)'
      BY <1>5, <2>2, <3>1 DEF NewRowsOf
    <3> QED
      BY <3>2
  <2>4. j - 1 \in 1 .. m - 1 /\ (j - 1) + 1 = j
    BY <1>4, <2>3
  <2>5. hand'.rows[j - 1] = b[j] /\ Len(hand'.rows) = m - 1
    BY <1>3, <1>4, <2>4
  <2>6. j - 1 \in ToLog(r)'
    BY <2>2, <2>4, <2>5 DEF ToLog
  <2> QED
    BY <2>1, <2>6
<1>16. LogInv'
  BY <1>12, <1>13, <1>15 DEF LogInv
<1>17. ReadInv'
  <2>1. /\ runner' \in {"running", "stopped", "runsRead", "rowsRead"}
        /\ left' \subseteq DOMAIN requests' /\ Cardinality(left)' <= BatchSize
        /\ runner' # "running" => hand'.batch \subseteq left' /\ pending' \cap left' = {}
    BY <1>1, <1>3 DEF RunInv, ReadInv
  <2>2. ASSUME runner' \in {"runsRead", "rowsRead"}
        PROVE  /\ runsRead' \in Seq(RunRow)
               /\ \A i \in 1 .. Len(log') :
                    log'[i].isNew /\ log'[i].run \notin 1 .. Len(runsRead') =>
                      log'[i].request \in left'
    <3>1. /\ runsRead \in Seq(RunRow) /\ hand.batch \subseteq left
          /\ \A i \in 1 .. n :
               log[i].isNew /\ log[i].run \notin 1 .. Len(runsRead) => log[i].request \in left
      BY <1>1, <2>2 DEF RunInv, ReadInv, n
    <3>2. b[1].isNew => b[1].request \in left
      BY <1>8, <1>11, <3>1
    <3> QED
      BY <1>1, <1>5, <1>10, <3>1, <3>2
  <2>3. ASSUME runner' = "rowsRead"
        PROVE  /\ report' = << >> =>
                    DOMAIN requests' \subseteq pending' \cup left' \cup DOMAIN perRequest'
               /\ DOMAIN perRequest' \subseteq DOMAIN committed'
               /\ \A r \in DOMAIN perRequest' :
                    \E i \in NewRowsOf(r)' : perRequest'[r] = RowOf(r, log[i])'
    <3>1. /\ report = << >> => DOMAIN requests \subseteq pending \cup left \cup DOMAIN perRequest
          /\ DOMAIN perRequest \subseteq DOMAIN committed
          /\ \A r \in DOMAIN perRequest :
               \E i \in NewRowsOf(r) : perRequest[r] = RowOf(r, log[i])
      BY <1>1, <2>3 DEF RunInv, ReadInv
    <3>2. ASSUME NEW r \in DOMAIN perRequest
          PROVE  \E i \in NewRowsOf(r)' : perRequest'[r] = RowOf(r, log[i])'
      <4>1. PICK i \in NewRowsOf(r) : perRequest[r] = RowOf(r, log[i])
        BY <3>1
      <4>2. i \in NewRowsOf(r)' /\ log'[i] = log[i]
        BY <1>14
      <4>3. RowOf(r, log[i])' = RowOf(r, log[i])
        BY <1>1, <4>2 DEF RowOf
      <4> QED
        BY <1>1, <4>1, <4>2, <4>3
    <3> QED
      BY <1>1, <3>1, <3>2
  <2> QED
    BY <2>1, <2>2, <2>3 DEF ReadInv
<1> QED
  BY <1>6, <1>7, <1>16, <1>17 DEF RunInv

\* What is read of the assignments file: its new rows, and nothing is missing but
\* what the worker still holds.
LEMMA ReadAssignmentsKeeps ==
  ASSUME RunInv, Online!ReadAssignments
  PROVE  RunInv'
<1>1. /\ runner = "runsRead" /\ runner' = "rowsRead"
      /\ perRequest' = Online!compute_per_request
      /\ UNCHANGED << strategy, requests, slot, pending, hand, committed, runs, log, left,
                      runsRead, report >>
  BY DEF Online!ReadAssignments, Online!scenario, Online!work
<1>2. WorkTypes' /\ WorkPlaces'
  BY <1>1 DEF RunInv, WorkTypes, WorkPlaces, Online!Idle
<1>3. LogInv'
  BY <1>1, LogSame DEF RunInv
<1>4. runsRead \in Seq(RunRow) /\ DOMAIN runsRead = 1 .. Len(runsRead)
  BY <1>1, SeqElement DEF RunInv, ReadInv
<1>5. \A r : Online!NewRows(r) = NewRowsOf(r)
  BY WorkFacts DEF RunInv, Online!NewRows, NewRowsOf
<1>6. /\ DOMAIN perRequest' = {q \in DOMAIN requests : NewRowsOf(q) # {}}
      /\ \A r \in DOMAIN perRequest' : perRequest'[r] = RowOf(r, log[Min(NewRowsOf(r))])
  <2> DEFINE row(r) == log[Online!Min(Online!NewRows(r))]
             got(r) == [slot |-> row(r).slot, flavour |-> row(r).flavour, position |-> 0,
                   queueWait |-> Online!Max({row(r).current - Online!ArrivalOf(r), 0}),
                   finalWait |-> Online!Max({row(r).slot - Online!ArrivalOf(r), 0}),
                   batch |-> IF row(r).run \in DOMAIN runsRead THEN row(r).run ELSE 0,
                   lateness |-> Online!Max({row(r).slot - Online!DeadlineOf(r), 0})]
             dom == {q \in Online!Requests : Online!NewRows(q) # {}}
  <2>1. perRequest' = [r \in dom |-> got(r)]
    BY <1>1 DEF Online!compute_per_request
  <2>2. dom = {q \in DOMAIN requests : NewRowsOf(q) # {}}
    BY <1>5, SameSlots
  <2>3. \A r : got(r) = RowOf(r, log[Min(NewRowsOf(r))])
    <3>1. \A r : row(r) = log[Min(NewRowsOf(r))]
      BY <1>5, SameOperators
    <3>2. \A r : Online!ArrivalOf(r) = requests[r].arrival
                 /\ Online!DeadlineOf(r) = requests[r].deadline
      BY DEF Online!ArrivalOf, Online!DeadlineOf
    <3> HIDE DEF row
    <3> QED
      BY <1>4, <3>1, <3>2, SameOperators DEF RowOf
  <2> HIDE DEF got, dom
  <2> QED
    BY <2>1, <2>2, <2>3
<1>7. /\ \A i \in 1 .. Len(log) : log[i].request \in DOMAIN committed
      /\ \A r \in DOMAIN committed : NewRowsOf(r) = {} => r \in hand.batch
      /\ DOMAIN committed \subseteq DOMAIN requests
      /\ report = << >> => DOMAIN requests \subseteq pending \cup hand.batch \cup DOMAIN committed
      /\ hand.batch \subseteq left
  BY <1>1 DEF RunInv, LogInv, WorkTypes, WorkPlaces, ReadInv
<1>8. DOMAIN perRequest' \subseteq DOMAIN committed
  BY <1>6, <1>7 DEF NewRowsOf
<1>9. report = << >> => DOMAIN requests \subseteq pending \cup left \cup DOMAIN perRequest'
  BY <1>6, <1>7
<1>10. ASSUME NEW r \in DOMAIN perRequest'
       PROVE  \E i \in NewRowsOf(r)' : perRequest'[r] = RowOf(r, log[i])'
  <2> DEFINE D == NewRowsOf(r)
  <2>1. D # {} /\ perRequest'[r] = RowOf(r, log[Min(D)])
    BY <1>6
  <2>2. D \subseteq 1 .. Len(log) /\ Len(log) \in Nat
    BY WorkFacts DEF RunInv, NewRowsOf
  <2>3. IsFiniteSet(1 .. Len(log))
    BY <2>2, FS_Interval
  <2> HIDE DEF D
  <2>4. IsFiniteSet(D) /\ D \subseteq Int
    <3>1. IsFiniteSet(D)
      BY <2>2, <2>3, FS_Subset
    <3>2. D \subseteq Int
      BY <2>2
    <3> QED
      BY <3>1, <3>2
  <2>5. Min(D) \in D
    BY <2>1, <2>4, MinOf
  <2>6. NewRowsOf(r)' = D
    BY <1>1 DEF NewRowsOf, D
  <2>7. \A i : RowOf(r, log[i])' = RowOf(r, log[i])
    BY <1>1 DEF RowOf
  <2> QED
    BY <2>1, <2>5, <2>6, <2>7
<1>11. ReadInv'
  BY <1>1, <1>8, <1>9, <1>10 DEF RunInv, ReadInv
<1> QED
  BY <1>2, <1>3, <1>11 DEF RunInv

\* A run starts with everything pending and nothing logged.
LEMMA RunInit == StudyInit => RunInv
<1> SUFFICES ASSUME StudyInit PROVE RunInv
  OBVIOUS
<1>1. strategy \in DOMAIN Scenarios /\ requests \in Scenarios[strategy]
  BY DEF StudyInit, Init
<1>2. /\ slot = 0 /\ pending = DOMAIN requests /\ committed = << >>
      /\ hand = [stage |-> "idle", batch |-> {}, slot |-> 0, rows |-> << >>]
      /\ hand = Online!Idle
      /\ log = << >> /\ runs = << >> /\ report = << >> /\ runner = "running" /\ left = {}
  BY SameSlots DEF StudyInit, Online!Init, Online!Idle
<1>3. /\ hand.stage = "idle" /\ hand.batch = {} /\ hand.slot = 0 /\ hand.rows = << >>
      /\ hand = [stage |-> hand.stage, batch |-> hand.batch, slot |-> hand.slot,
                 rows |-> hand.rows]
  BY <1>2
<1>4. 0 \in Slots /\ Cardinality({}) = 0 /\ BatchSize \in Nat
  BY StrategyAssumption, StudyAssumption, SlotBounds, FS_EmptySet
<1>5. DOMAIN committed = {} /\ Len(log) = 0 /\ Len(hand.rows) = 0
  BY <1>2, <1>3
<1>6. hand.rows \in Seq(LogRow) /\ runs \in Seq(RunRow) /\ log \in Seq(LogRow)
  BY <1>2, <1>3
<1>7. WorkTypes
  <2>1. hand.slot \in Nat /\ hand.slot <= slot
    BY <1>2, <1>3
  <2>2. Cardinality(hand.batch) <= BatchSize
    BY <1>3, <1>4
  <2> QED
    BY <1>1, <1>2, <1>3, <1>4, <1>5, <1>6, <2>1, <2>2 DEF WorkTypes
<1>8. WorkPlaces
  BY <1>2, <1>3, <1>5 DEF WorkPlaces
<1>9. LogInv
  BY <1>5 DEF LogInv
<1>10. ReadInv
  BY <1>2, <1>3, <1>4 DEF ReadInv
<1> QED
  BY <1>7, <1>8, <1>9, <1>10 DEF RunInv

\* The clock moves while the scheduler runs.
LEMMA TickKeeps ==
  ASSUME RunInv, Online!Tick
  PROVE  RunInv'
<1>1. /\ slot < TotalSlots - 1 /\ slot' = slot + 1
      /\ UNCHANGED << strategy, requests, pending, hand, committed, runs, log, runner, left,
                      runsRead, perRequest, report >>
  BY SameSlots DEF Online!Tick, Online!scenario, Online!reading
<1>2. slot \in Nat /\ TotalSlots \in Nat
  BY WorkFacts DEF RunInv
<1>3. slot' \in Slots /\ slot <= slot'
  BY <1>1, <1>2, SlotBounds
<1> QED
  BY <1>1, <1>3, RunSame

\* The report ends the run: only what is pending is drained.
LEMMA ReportKeeps ==
  ASSUME RunInv, Online!Report
  PROVE  RunInv'
<1>1. /\ pending' = {} /\ DOMAIN report' = {"rows", "slots", "summary"}
      /\ UNCHANGED << strategy, requests, slot, hand, committed, runs, log, runner, left,
                      runsRead, perRequest >>
  BY DEF Online!Report, Online!scenario, Online!reading
<1>2. report' # << >>
  BY <1>1
<1>3. slot' \in Slots /\ slot <= slot'
  BY <1>1, WorkFacts DEF RunInv, WorkTypes
<1> QED
  BY <1>1, <1>2, <1>3, RunSame

\* Once a run is reported nothing that its tables were made from changes.
LEMMA StudyFrame ==
  ASSUME PassInv, [StudyNext]_<< vars, onlineVars, report >>
  PROVE  /\ strategy' = strategy /\ requests' = requests
         /\ report # << >> => UNCHANGED << onlineVars, report >>
<1>1. CASE OnlineStep
  <2>1. Online!Next
    BY <1>1 DEF OnlineStep
  <2>2. strategy' = strategy /\ requests' = requests
    BY <2>1, OnlineKeepsScenario
  <2>3. report = << >>
    BY <2>1 DEF Online!Next, Online!Claim, Online!Commit, Online!LogRun, Online!LogAssignment,
         Online!Release, Online!Tick, Online!Stop, Online!ReadRuns, Online!ReadAssignments,
         Online!Report
  <2> QED
    BY <2>2, <2>3
<1>2. CASE OfflineStep
  <2>1. [Next]_vars /\ UNCHANGED << onlineVars, report >>
    BY <1>2 DEF OfflineStep
  <2>2. strategy' = strategy /\ requests' = requests
    BY <2>1, SolutionsKept, PlacementFrame DEF PassInv
  <2> QED
    BY <2>1, <2>2
<1>3. CASE convert_swarm_to_outputs
  BY <1>3 DEF convert_swarm_to_outputs, vars, job
<1>4. CASE UNCHANGED << vars, onlineVars, report >>
  BY <1>4 DEF vars, job
<1> QED
  BY <1>1, <1>2, <1>3, <1>4 DEF StudyNext

\* A batch scheduler's run is never at the end of a whole-scenario pass.
OnlineApart == TheRun => phase = "placing"

\* No step of a whole-scenario strategy is one of the batch scheduler's run.
LEMMA ApartStep ==
  ASSUME PassInv, OnlineApart, [StudyNext]_<< vars, onlineVars, report >>
  PROVE  OnlineApart'
<1>1. [Next]_vars
  BY StudySteps
<1>2. strategy' = strategy
  BY StudyFrame
<1> SUFFICES ASSUME TheRun PROVE phase' = "placing"
  BY <1>2 DEF OnlineApart, TheRun
<1>3. phase = "placing" /\ strategy \in {"online", "online_swarm"}
  BY DEF OnlineApart, TheRun, BatchRuns
<1>4. CASE UNCHANGED vars
  BY <1>3, <1>4 DEF vars
<1>5. CASE Next
  <2>1. ASSUME NEW s \in Slots, NEW f \in Names, PlacesAt(s, f) PROVE FALSE
    BY <1>3, <2>1 DEF PlacesAt, TheRun
  <2>2. ~ AntDone
    BY <1>3 DEF AntDone
  <2>3. ~ IterationDone
    BY <1>3 DEF IterationDone
  <2>4. ~ PassDone
    BY <1>3 DEF PassDone, OnePass
  <2> QED
    BY <1>5, <2>1, <2>2, <2>3, <2>4, StepKinds DEF PassInv
<1> QED
  BY <1>1, <1>4, <1>5

\* Every step of the benchmark keeps the invariant of the run.
LEMMA RunStep ==
  ASSUME PassInv, RunInv, [StudyNext]_<< vars, onlineVars, report >>
  PROVE  RunInv'
<1>1. strategy' = strategy /\ requests' = requests
  BY StudyFrame
<1>2. slot \in Slots /\ slot <= slot
  BY WorkFacts DEF RunInv, WorkTypes
<1>3. CASE OnlineStep
  <2>1. Online!Next
    BY <1>3 DEF OnlineStep
  <2> QED
    BY <2>1, ClaimKeeps, CommitKeeps, LogRunKeeps, LogAssignmentKeeps, ReleaseKeeps, TickKeeps,
       StopKeeps, ReadRunsKeeps, ReadAssignmentsKeeps, ReportKeeps DEF Online!Next
<1>4. ASSUME UNCHANGED onlineVars, report' = << >> => report = << >> PROVE RunInv'
  BY <1>1, <1>2, <1>4, RunSame DEF onlineVars
<1>5. CASE OfflineStep
  BY <1>4, <1>5 DEF OfflineStep
<1>6. CASE convert_swarm_to_outputs
  BY <1>4, <1>6 DEF convert_swarm_to_outputs
<1>7. CASE UNCHANGED << vars, onlineVars, report >>
  BY <1>4, <1>7
<1> QED
  BY <1>3, <1>5, <1>6, <1>7 DEF StudyNext

\* The types of both kinds of run.
LEMMA RunTypes ==
  ASSUME PassInv, RunInv
  PROVE  StudyTypeOK
<1>1. /\ slot \in Online!Slots /\ pending \subseteq Online!Requests
      /\ Online!Committed \subseteq Online!Requests
      /\ pending \cap Online!Committed = {}
      /\ \A r \in Online!Committed :
           committed[r] \in [slot : Online!Slots, flavour : Names, deadline : Nat]
  BY SameSlots DEF RunInv, WorkTypes, WorkPlaces, Held
<1>2. /\ hand.stage \in {"idle", "solving", "committed", "logging"}
      /\ hand.batch \subseteq Online!Requests /\ pending \cap hand.batch = {}
      /\ hand.stage = "solving" => hand.batch \cap Online!Committed = {}
      /\ runner \in {"running", "stopped", "runsRead", "rowsRead"}
  BY SameSlots DEF RunInv, WorkTypes, WorkPlaces, ReadInv
<1>3. hand.slot \in 0 .. slot
  BY WorkFacts DEF RunInv, WorkTypes
<1>4. DOMAIN log = 1 .. Len(log) /\ \A i \in 1 .. Len(log) : log[i] \in LogRow
  BY WorkFacts DEF RunInv
<1>5. \A i \in 1 .. Len(log) : log[i].slot \in Slots
  BY <1>4 DEF LogRow
<1>6. \A i \in DOMAIN log : log[i].request \in Online!Committed /\ log[i].slot \in Online!Slots
  BY <1>4, <1>5, SameSlots DEF RunInv, LogInv
<1>7. Online!TypeOK
  BY <1>1, <1>2, <1>3, <1>6 DEF Online!TypeOK
<1> QED
  BY <1>7 DEF StudyTypeOK, PassInv

-----------------------------------------------------------------------------
(* The tables. *)

\* The window of a slot holds exactly the rows that lie in it.
LEMMA WindowRows ==
  ASSUME NEW table, \A r \in DOMAIN table : table[r].slot \in Int, NEW t \in Slots
  PROVE  \A r : r \in Online!compute_per_timeslot(table, WindowPast, WindowFuture)[t] <=>
                  r \in DOMAIN table
                  /\ t \in table[r].slot - WindowFuture .. table[r].slot + WindowPast
<1> DEFINE grouped == [s \in {table[r].slot : r \in DOMAIN table} |->
                         {r \in DOMAIN table : table[r].slot = s}]
           window == t - WindowPast .. t + WindowFuture
           held == UNION {grouped[s] : s \in DOMAIN grouped \cap window}
<1>1. Online!compute_per_timeslot(table, WindowPast, WindowFuture)[t] = held
  BY SameSlots DEF Online!compute_per_timeslot
<1>2. \A r : r \in held <=> r \in DOMAIN table /\ table[r].slot \in window
  <2>1. \A r, s : s \in DOMAIN grouped =>
          (r \in grouped[s] <=> r \in DOMAIN table /\ table[r].slot = s)
    OBVIOUS
  <2>2. \A r \in DOMAIN table : table[r].slot \in DOMAIN grouped
    OBVIOUS
  <2>3. \A r : r \in held <=> \E s \in DOMAIN grouped \cap window : r \in grouped[s]
    OBVIOUS
  <2> HIDE DEF grouped, held, window
  <2> QED
    BY <2>1, <2>2, <2>3
<1>3. t \in Int /\ WindowPast \in Nat /\ WindowFuture \in Nat
  BY SlotBounds, StrategyAssumption
<1>4. \A s \in Int : s \in window <=> t \in s - WindowFuture .. s + WindowPast
  BY <1>3
<1> HIDE DEF held, window
<1> QED
  BY <1>1, <1>2, <1>4

\* What the tables say of a request that was read in a row of the log.
FromLog(table, r, row) ==
  /\ row \in LogRow /\ Claimed(r, row) /\ row.run # 0
  /\ row.run \notin 1 .. Len(runsRead) => r \in left
  /\ table[r].slot = row.slot /\ table[r].flavour = row.flavour
  /\ table[r].position = Online!Rank(r)
  /\ table[r].queueWait = Max({row.current - requests[r].arrival, 0})
  /\ table[r].finalWait = Max({row.slot - requests[r].arrival, 0})
  /\ table[r].batch = IF row.run \in 1 .. Len(runsRead) THEN row.run ELSE 0
  /\ table[r].lateness = Max({row.slot - requests[r].deadline, 0})

\* What they say of one that was drained.
FromDrain(table, r) ==
  /\ table[r].slot = Online!LateSlot(r) /\ table[r].batch = 0
  /\ table[r].lateness = Max({TotalSlots - 1 - requests[r].deadline, 0})

\* The tables of a batch scheduler's run, as they are made.
Tabled(table) ==
  /\ DOMAIN table = DOMAIN perRequest \cup pending
  /\ \A r \in DOMAIN perRequest : r \in DOMAIN committed /\ \E row : FromLog(table, r, row)
  /\ \A r \in pending : r \notin DOMAIN committed /\ FromDrain(table, r)
  /\ DOMAIN requests \subseteq pending \cup left \cup DOMAIN perRequest
  /\ pending \subseteq DOMAIN requests /\ DOMAIN committed \subseteq DOMAIN requests
  /\ left \subseteq DOMAIN requests /\ Cardinality(left) <= BatchSize

\* The rows of the tables: one per request read from the log, one per drained.
LEMMA ReportRows ==
  ASSUME RunInv, Online!Report
  PROVE  /\ Tabled(report'.rows)
         /\ UNCHANGED << strategy, requests, committed, left >>
         /\ report'.slots = Online!compute_per_timeslot(report'.rows, WindowPast, WindowFuture)
         /\ report'.summary = Online!compute_summary(report'.rows,
              Cardinality(DOMAIN perRequest) + Cardinality(pending),
              Online!compute_batch_timings)
<1> DEFINE late == Online!schedule_late_requests(pending)
           all == [r \in DOMAIN perRequest \cup DOMAIN late |->
                     IF r \in DOMAIN perRequest THEN perRequest[r] ELSE late[r]]
           final == Online!recompute_carbon_costs(all)
           listed == Cardinality(DOMAIN perRequest) + Cardinality(DOMAIN late)
           C == DOMAIN committed
           D == DOMAIN perRequest
<1>1. /\ report = << >> /\ runner = "rowsRead"
      /\ UNCHANGED << strategy, requests, committed, left >>
      /\ report' = [rows |-> final,
                    slots |-> Online!compute_per_timeslot(final, WindowPast, WindowFuture),
                    summary |-> Online!compute_summary(final, listed,
                                                       Online!compute_batch_timings)]
  BY SameOperators DEF Online!Report, Online!scenario, Online!reading
<1>2. DOMAIN late = pending
  BY DEF Online!schedule_late_requests
<1>3. \A r \in pending : /\ late[r].slot = Online!LateSlot(r) /\ late[r].batch = 0
                         /\ late[r].lateness = Max({TotalSlots - 1 - requests[r].deadline, 0})
  BY SameSlots, SameOperators DEF Online!schedule_late_requests, Online!DeadlineOf
<1> HIDE DEF late
<1>4. /\ D \subseteq C /\ pending \cap C = {} /\ C \subseteq DOMAIN requests
      /\ pending \subseteq DOMAIN requests
      /\ DOMAIN requests \subseteq pending \cup left \cup D
      /\ left \subseteq DOMAIN requests /\ Cardinality(left) <= BatchSize
      /\ \A r \in D : \E i \in NewRowsOf(r) : perRequest[r] = RowOf(r, log[i])
      /\ \A i \in 1 .. Len(log) :
           log[i].isNew /\ log[i].run \notin 1 .. Len(runsRead) => log[i].request \in left
  BY <1>1 DEF RunInv, WorkTypes, WorkPlaces, ReadInv
<1>5. /\ DOMAIN final = D \cup pending
      /\ \A r \in D : final[r] = [perRequest[r] EXCEPT !.position = Online!Rank(r)]
      /\ \A r \in pending : final[r] = late[r]
  <2>1. DOMAIN all = D \cup pending
    BY <1>2
  <2>2. (\A r \in D : all[r] = perRequest[r]) /\ (\A r \in pending : all[r] = late[r])
    BY <1>2, <1>4
  <2> HIDE DEF all
  <2> QED
    BY <1>4, <2>1, <2>2, SameSlots DEF Online!recompute_carbon_costs
<1> HIDE DEF final
<1>6. ASSUME NEW r \in D
      PROVE  r \in C /\ \E row : FromLog(final, r, row)
  <2>1. PICK i \in NewRowsOf(r) : perRequest[r] = RowOf(r, log[i])
    BY <1>4
  <2>2. PICK row : row = log[i]
    OBVIOUS
  <2>3. i \in 1 .. Len(log) /\ row.request = r /\ row.isNew
    BY <2>2 DEF NewRowsOf
  <2>4. row \in LogRow
    BY <2>2, <2>3, WorkFacts DEF RunInv
  <2>5. Claimed(r, row) /\ row.run \in 1 .. Len(runs)
    BY <2>2, <2>3 DEF RunInv, LogInv
  <2>6. row.run # 0
    BY <2>5
  <2>7. row.run \notin 1 .. Len(runsRead) => r \in left
    BY <1>4, <2>2, <2>3
  <2>8. final[r] = [RowOf(r, row) EXCEPT !.position = Online!Rank(r)]
    BY <1>5, <2>1, <2>2
  <2>9. FromLog(final, r, row)
    BY <2>4, <2>5, <2>6, <2>7, <2>8 DEF FromLog, RowOf
  <2> QED
    BY <1>4, <2>9
<1>7. \A r \in pending : r \notin C /\ FromDrain(final, r)
  BY <1>3, <1>4, <1>5 DEF FromDrain
<1>8. Tabled(final)
  BY <1>4, <1>5, <1>6, <1>7 DEF Tabled
<1>9. /\ report'.rows = final
      /\ report'.slots = Online!compute_per_timeslot(final, WindowPast, WindowFuture)
      /\ report'.summary = Online!compute_summary(final, listed, Online!compute_batch_timings)
  BY <1>1
<1>10. listed = Cardinality(D) + Cardinality(pending)
  BY <1>2
<1> HIDE DEF listed
<1> QED
  BY <1>1, <1>8, <1>9, <1>10

\* A drained request is scheduled from its arrival on.
LEMMA LateSlotBounds ==
  ASSUME RunInv, NEW r \in DOMAIN requests
  PROVE  Online!LateSlot(r) \in requests[r].arrival .. TotalSlots - 1
<1> DEFINE a == requests[r].arrival
           d == requests[r].deadline
           l == TotalSlots - 1
<1>1. a \in Slots /\ d \in Nat
  BY WorkFacts DEF RunInv
<1>2. Online!LateSlot(r) = Min({Max({d, a}), l})
  BY SameSlots, SameOperators DEF Online!LateSlot, Online!DeadlineOf, Online!ArrivalOf
<1> HIDE DEF a, d, l
<1>3. a \in Nat /\ a <= l /\ l \in Int
  BY <1>1, SlotBounds DEF l
<1>4. Max({d, a}) = IF d >= a THEN d ELSE a
  BY <1>1, <1>3, MaxPair
<1>5. Max({d, a}) \in Int /\ Max({d, a}) >= a
  BY <1>1, <1>3, <1>4
<1>6. Min({Max({d, a}), l}) = IF Max({d, a}) <= l THEN Max({d, a}) ELSE l
  BY <1>3, <1>5, MinPair
<1>7. Online!LateSlot(r) \in a .. l
  BY <1>2, <1>3, <1>5, <1>6
<1> QED
  BY <1>7 DEF a, l

\* What the row of a request read from the log tells of its lateness.
LEMMA LogRowTrue ==
  ASSUME RunInv, NEW table, NEW r \in DOMAIN committed, NEW row, FromLog(table, r, row)
  PROVE  LET a == requests[r].arrival
             d == requests[r].deadline
         IN /\ table[r].slot \in a .. TotalSlots - 1
            /\ table[r].lateness = Max({table[r].slot - d, 0})
            /\ strategy = "online_swarm" /\ table[r].lateness > 0 =>
                 d < a /\ table[r].finalWait = 0
            /\ strategy # "online_swarm" /\ table[r].lateness > 0 =>
                 a + table[r].queueWait > d /\ table[r].queueWait = table[r].finalWait
            /\ committed[r].slot > d => table[r].lateness > 0
<1> DEFINE a == requests[r].arrival
           d == requests[r].deadline
           s == row.slot
           c == row.current
           k == committed[r].slot
           late == table[r].lateness
           queued == table[r].queueWait
           waited == table[r].finalWait
<1>1. a \in Nat /\ d \in Nat
  BY WorkFacts DEF RunInv, WorkTypes
<1>2. s \in Nat /\ c \in Nat /\ s <= TotalSlots - 1 /\ TotalSlots \in Nat
  BY SlotBounds DEF FromLog, LogRow
<1>3. k \in Nat
  BY SlotBounds DEF RunInv, WorkTypes, Held
<1>4. /\ a <= s
      /\ strategy # "online_swarm" => a <= c /\ c <= s /\ (s > d => s = c) /\ (s <= d => k <= d)
      /\ strategy = "online_swarm" => (s > d => s = a) /\ k = s
  BY DEF FromLog, Claimed
<1>5. /\ table[r].slot = s /\ queued = Max({c - a, 0}) /\ waited = Max({s - a, 0})
      /\ late = Max({s - d, 0})
  BY DEF FromLog
<1> HIDE DEF a, d, s, c, k, late, queued, waited
<1>6. /\ queued = IF c - a >= 0 THEN c - a ELSE 0
      /\ waited = IF s - a >= 0 THEN s - a ELSE 0
      /\ late = IF s - d >= 0 THEN s - d ELSE 0
  <2>1. c - a \in Int /\ s - a \in Int /\ s - d \in Int /\ 0 \in Int
    BY <1>1, <1>2
  <2> QED
    BY <1>5, <2>1, MaxPair
<1>7. s \in a .. TotalSlots - 1
  BY <1>1, <1>2, <1>4
<1>8. late > 0 => s > d
  BY <1>1, <1>2, <1>6
<1>9. CASE strategy = "online_swarm"
  <2>1. late > 0 => d < a /\ waited = 0
    BY <1>1, <1>2, <1>4, <1>6, <1>8, <1>9
  <2>2. k > d => late > 0
    BY <1>1, <1>2, <1>4, <1>6, <1>9
  <2> QED
    BY <1>5, <1>7, <1>9, <2>1, <2>2 DEF a, d, late, waited, k
<1>10. CASE strategy # "online_swarm"
  <2>1. late > 0 => a + queued > d /\ queued = waited
    BY <1>1, <1>2, <1>4, <1>6, <1>8, <1>10
  <2>2. k > d => late > 0
    BY <1>1, <1>2, <1>3, <1>4, <1>6, <1>10
  <2> QED
    BY <1>5, <1>7, <1>10, <2>1, <2>2 DEF a, d, late, queued, waited, k
<1> QED
  BY <1>9, <1>10

\* Ranks in a slot follow the request ids.
LEMMA RankGrows ==
  ASSUME RunInv, NEW q \in DOMAIN committed, NEW r \in DOMAIN committed, q < r,
         committed[q].slot = committed[r].slot
  PROVE  Online!Rank(q) < Online!Rank(r)
<1> DEFINE upTo(x) == {p \in DOMAIN committed : committed[p].slot = committed[x].slot /\ p <= x}
<1>1. Online!Rank(q) = Cardinality(upTo(q)) /\ Online!Rank(r) = Cardinality(upTo(r))
  BY SameSlots, SameOperators DEF Online!Rank
<1>2. DOMAIN committed \subseteq Nat /\ IsFiniteSet(DOMAIN committed)
  <2>1. /\ DOMAIN requests = 1 .. Len(requests) /\ Len(requests) \in Nat
        /\ IsFiniteSet(DOMAIN requests) /\ DOMAIN committed \subseteq DOMAIN requests
    BY WorkFacts DEF RunInv, WorkTypes
  <2>2. IsFiniteSet(DOMAIN committed)
    BY <2>1, FS_Subset
  <2>3. DOMAIN committed \subseteq Nat
    BY <2>1
  <2> QED
    BY <2>2, <2>3
<1>3. upTo(q) \subseteq upTo(r) /\ r \in upTo(r) /\ r \notin upTo(q)
  BY <1>2
<1>4. IsFiniteSet(upTo(r)) /\ IsFiniteSet(upTo(q))
  <2>1. upTo(r) \subseteq DOMAIN committed /\ upTo(q) \subseteq DOMAIN committed
    OBVIOUS
  <2> HIDE DEF upTo
  <2> QED
    BY <1>2, <2>1, FS_Subset
<1> HIDE DEF upTo
<1>5. /\ Cardinality(upTo(q)) <= Cardinality(upTo(r))
      /\ Cardinality(upTo(q)) = Cardinality(upTo(r)) => upTo(q) = upTo(r)
  BY <1>3, <1>4, FS_Subset
<1>6. Cardinality(upTo(q)) \in Nat /\ Cardinality(upTo(r)) \in Nat
  BY <1>4, FS_CardinalityType
<1>7. Cardinality(upTo(q)) # Cardinality(upTo(r))
  BY <1>3, <1>5
<1> QED
  BY <1>1, <1>5, <1>6, <1>7

\* What is counted and what is not add up to the scenario.
LEMMA SummaryCounts ==
  ASSUME RunInv, NEW table, NEW scheduled \in Nat, NEW timings, scheduled <= Len(requests)
  PROVE  LET summary == Online!compute_summary(table, scheduled, timings)
         IN summary.scheduled = scheduled /\ summary.unscheduled = Len(requests) - scheduled
<1>1. Len(requests) - scheduled \in Nat
  BY WorkFacts DEF RunInv
<1>2. Max({Len(requests) - scheduled, 0}) = Len(requests) - scheduled
  BY <1>1, MaxPair
<1> QED
  BY <1>2, SameOperators DEF Online!compute_summary

\* The rows are those of every request that stop did not leave behind, once each.
LEMMA ReportComplete ==
  ASSUME RunInv, Online!Report
  PROVE  Online!OnlyWhatStopLeft' /\ Online!DrainedHaveNoBatch'
<1> DEFINE table == report'.rows
           D == DOMAIN perRequest
           n == Cardinality(D) + Cardinality(pending)
<1>1. /\ Tabled(table) /\ UNCHANGED << strategy, requests, committed, left >>
      /\ report'.summary = Online!compute_summary(table, n, Online!compute_batch_timings)
  BY ReportRows
<1>2. /\ DOMAIN table = D \cup pending
      /\ \A r \in D : r \in DOMAIN committed /\ \E row : FromLog(table, r, row)
      /\ \A r \in pending : r \notin DOMAIN committed /\ table[r].batch = 0
      /\ DOMAIN requests \subseteq pending \cup left \cup D
      /\ pending \subseteq DOMAIN requests /\ DOMAIN committed \subseteq DOMAIN requests
      /\ Cardinality(left) <= BatchSize
  BY <1>1 DEF Tabled, FromDrain
<1> HIDE DEF table
<1>3. DOMAIN requests \ left \subseteq DOMAIN table /\ DOMAIN table \subseteq DOMAIN requests
  BY <1>2
<1>4. n = Cardinality(DOMAIN table) /\ n \in Nat /\ n <= Len(requests)
  <2>1. /\ IsFiniteSet(DOMAIN requests) /\ DOMAIN requests = 1 .. Len(requests)
        /\ Len(requests) \in Nat
    BY WorkFacts DEF RunInv
  <2>2. IsFiniteSet(D) /\ IsFiniteSet(pending) /\ D \cap pending = {}
    <3>1. D \subseteq DOMAIN requests /\ pending \subseteq DOMAIN requests
      BY <1>2
    <3>2. IsFiniteSet(D) /\ IsFiniteSet(pending)
      BY <2>1, <3>1, FS_Subset
    <3>3. D \cap pending = {}
      BY <1>2
    <3> QED
      BY <3>2, <3>3
  <2> HIDE DEF D
  <2>3. n = Cardinality(DOMAIN table)
    BY <1>2, <2>2, CardDisjoint
  <2>4. Cardinality(DOMAIN table) <= Cardinality(DOMAIN requests) /\ IsFiniteSet(DOMAIN table)
    BY <1>3, <2>1, FS_Subset
  <2>5. Cardinality(DOMAIN requests) = Len(requests)
    <3>1. Cardinality(1 .. Len(requests))
            = IF 1 > Len(requests) THEN 0 ELSE Len(requests) - 1 + 1
      BY <2>1, FS_Interval
    <3>2. (IF 1 > Len(requests) THEN 0 ELSE Len(requests) - 1 + 1) = Len(requests)
      BY <2>1
    <3> QED
      BY <2>1, <3>1, <3>2
  <2>6. Cardinality(DOMAIN table) \in Nat
    BY <2>4, FS_CardinalityType
  <2> HIDE DEF n
  <2> QED
    BY <2>3, <2>4, <2>5, <2>6
<1> HIDE DEF n
<1>5. /\ report'.summary.scheduled = n
      /\ report'.summary.unscheduled = Len(requests) - n
  BY <1>1, <1>4, SummaryCounts
<1>6. report'.summary.scheduled + report'.summary.unscheduled = Len(requests)
  <2>1. Len(requests) \in Nat
    BY WorkFacts DEF RunInv
  <2> QED
    BY <1>4, <1>5, <2>1
<1>7. Online!OnlyWhatStopLeft'
  <2>1. report'.summary.scheduled = Online!Cardinality(DOMAIN report'.rows)
        /\ Online!Cardinality(left') <= BatchSize
    BY <1>1, <1>2, <1>4, <1>5, SameOperators DEF table
  <2> QED
    BY <1>1, <1>3, <1>6, <2>1, SameSlots
       DEF Online!OnlyWhatStopLeft, Online!Rows, Online!Requests, table
<1>8. \A r \in DOMAIN table :
        /\ r \notin DOMAIN committed => table[r].batch = 0
        /\ table[r].batch = 0 => r \notin DOMAIN committed \/ r \in left
  <2>1. ASSUME NEW r \in D PROVE table[r].batch = 0 => r \in left
    <3>1. PICK row : FromLog(table, r, row)
      BY <1>2
    <3> QED
      BY <3>1 DEF FromLog
  <2> QED
    BY <1>2, <2>1
<1>9. Online!DrainedHaveNoBatch'
  BY <1>1, <1>8 DEF Online!DrainedHaveNoBatch, Online!Rows, Online!Committed, table
<1> QED
  BY <1>7, <1>9

\* They tell the truth about lateness and show what was planned.
LEMMA ReportHonest ==
  ASSUME RunInv, Online!Report, TheRun
  PROVE  /\ \A r \in DOMAIN report'.rows :
              report'.rows[r].slot \in requests[r].arrival .. TotalSlots - 1
         /\ LatenessTold' /\ Online!LateOnlyWhenClaimedLate' /\ Online!ShownAsPlanned'
<1> DEFINE table == report'.rows
           D == DOMAIN perRequest
           C == DOMAIN committed
           past(r) == Max({table[r].slot - requests[r].deadline, 0})
<1>1. Tabled(table) /\ UNCHANGED << strategy, requests, committed, left >>
  BY ReportRows
<1>2. /\ DOMAIN table = D \cup pending
      /\ \A r \in D : r \in C /\ \E row : FromLog(table, r, row)
      /\ \A r \in pending : r \notin C /\ FromDrain(table, r)
      /\ pending \subseteq DOMAIN requests /\ C \subseteq DOMAIN requests
  BY <1>1 DEF Tabled
<1> HIDE DEF table
<1>3. ASSUME NEW r \in D
      PROVE  LET a == requests[r].arrival
                 d == requests[r].deadline
             IN /\ table[r].slot \in a .. TotalSlots - 1
                /\ table[r].lateness = Max({table[r].slot - d, 0})
                /\ strategy = "online_swarm" /\ table[r].lateness > 0 =>
                     d < a /\ table[r].finalWait = 0
                /\ strategy # "online_swarm" /\ table[r].lateness > 0 =>
                     a + table[r].queueWait > d /\ table[r].queueWait = table[r].finalWait
                /\ committed[r].slot > d => table[r].lateness > 0
  <2>1. PICK row : FromLog(table, r, row)
    BY <1>2
  <2>2. r \in DOMAIN committed
    BY <1>2
  <2> QED
    BY <2>1, <2>2, LogRowTrue
<1>4. ASSUME NEW r \in pending
      PROVE  /\ table[r].slot \in requests[r].arrival .. TotalSlots - 1
             /\ table[r].lateness >= past(r)
  <2> DEFINE s == table[r].slot
             d == requests[r].deadline
             l == TotalSlots - 1
  <2>1. s \in requests[r].arrival .. l /\ requests[r].arrival \in Nat /\ d \in Nat /\ l \in Int
    <3>1. s = Online!LateSlot(r) /\ r \in DOMAIN requests
      BY <1>2 DEF FromDrain
    <3>2. Online!LateSlot(r) \in requests[r].arrival .. TotalSlots - 1
      BY <3>1, LateSlotBounds
    <3>3. requests[r].arrival \in Nat /\ d \in Nat /\ TotalSlots \in Nat
      BY <3>1, WorkFacts DEF RunInv
    <3>4. l \in Int
      BY <3>3
    <3> HIDE DEF s, d
    <3> QED
      BY <3>1, <3>2, <3>3, <3>4
  <2>2. table[r].lateness = Max({l - d, 0})
    BY <1>2 DEF FromDrain
  <2> HIDE DEF s, d, l
  <2>3. s \in Nat /\ s <= l
    BY <2>1
  <2>4. l - d \in Int /\ s - d \in Int /\ s - d <= l - d
    BY <2>1, <2>3
  <2>5. /\ Max({l - d, 0}) = IF l - d >= 0 THEN l - d ELSE 0
        /\ Max({s - d, 0}) = IF s - d >= 0 THEN s - d ELSE 0
    BY <2>4, MaxPair
  <2>6. Max({l - d, 0}) >= Max({s - d, 0})
    BY <2>4, <2>5
  <2> QED
    BY <2>1, <2>2, <2>6 DEF s, d, l
<1>5. \A r \in DOMAIN table : table[r].slot \in requests[r].arrival .. TotalSlots - 1
  BY <1>2, <1>3, <1>4
<1>6. \A r \in DOMAIN table : IF r \in C THEN table[r].lateness = past(r)
                              ELSE table[r].lateness >= past(r)
  BY <1>2, <1>3, <1>4
<1>7. LatenessTold'
  <2>1. TheRun'
    BY <1>1 DEF TheRun
  <2>2. Online!Committed' = C
    BY <1>1 DEF Online!Committed
  <2>3. \A r : Drained(r)' <=> r \notin C
    BY <2>1, <2>2 DEF Drained
  <2>4. \A r \in DOMAIN report'.rows :
          LET p == Max({report'.rows[r].slot - requests'[r].deadline, 0})
              told == report'.rows[r].lateness
          IN IF r \notin C THEN told >= p ELSE told = p
    BY <1>1, <1>6 DEF table
  <2> QED
    BY <2>3, <2>4 DEF LatenessTold
<1>8. Online!LateOnlyWhenClaimedLate'
  <2>1. \A r \in DOMAIN table \cap C :
          /\ table[r].lateness > 0 =>
               IF strategy = "online_swarm"
               THEN requests[r].deadline < requests[r].arrival /\ table[r].finalWait = 0
               ELSE /\ requests[r].arrival + table[r].queueWait > requests[r].deadline
                    /\ table[r].queueWait = table[r].finalWait
          /\ committed[r].slot > requests[r].deadline => table[r].lateness > 0
    BY <1>2, <1>3
  <2> QED
    BY <1>1, <2>1 DEF Online!LateOnlyWhenClaimedLate, Online!Rows, Online!Committed,
                      Online!Swarm, Online!ArrivalOf, Online!DeadlineOf, table
<1>9. Online!ShownAsPlanned'
  <2>1. ASSUME LockFuture \/ strategy = "online_swarm", NEW r \in DOMAIN table \cap C
        PROVE  /\ table[r].slot = committed[r].slot /\ table[r].flavour = committed[r].flavour
               /\ table[r].position = Online!Rank(r)
    <3>1. r \in D
      BY <1>2
    <3>2. PICK row : FromLog(table, r, row)
      BY <1>2, <3>1
    <3> QED
      BY <2>1, <3>2 DEF FromLog, Claimed
  <2>2. ASSUME LockFuture \/ strategy = "online_swarm",
               NEW r \in DOMAIN table \cap C, NEW q \in DOMAIN table \cap C,
               q < r, table[q].slot = table[r].slot
        PROVE  table[q].position < table[r].position
    <3>1. committed[q].slot = committed[r].slot
      BY <2>1, <2>2
    <3>2. Online!Rank(q) < Online!Rank(r)
      BY <2>2, <3>1, RankGrows
    <3> QED
      BY <2>1, <2>2, <3>2
  <2>3. LockFuture \/ strategy = "online_swarm" =>
          \A r \in DOMAIN table \cap C :
            /\ table[r].slot = committed[r].slot /\ table[r].flavour = committed[r].flavour
            /\ \A q \in DOMAIN table \cap C :
                 q < r /\ table[q].slot = table[r].slot => table[q].position < table[r].position
    BY <2>1, <2>2
  <2> QED
    BY <1>1, <2>3 DEF Online!ShownAsPlanned, Online!Rows, Online!Committed, Online!Swarm, table
<1> QED
  BY <1>5, <1>7, <1>8, <1>9 DEF table

\* What is said of the tables once there are any.
TablesInv ==
  Reported =>
    /\ EveryRequestReported
    /\ \A r \in DOMAIN report.rows :
         report.rows[r].slot \in requests[r].arrival .. TotalSlots - 1
    /\ Online!WindowsHoldEveryRow
    /\ LatenessTold
    /\ TheRun => Online!LateOnlyWhenClaimedLate /\ Online!ShownAsPlanned

\* Every window of the tables holds exactly its rows.
LEMMA WindowsTrue ==
  ASSUME RunInv, UNCHANGED requests, DOMAIN report'.rows \subseteq DOMAIN requests,
         \A r \in DOMAIN report'.rows :
           report'.rows[r].slot \in requests[r].arrival .. TotalSlots - 1,
         report'.slots = Online!compute_per_timeslot(report'.rows, WindowPast, WindowFuture)
  PROVE  Online!WindowsHoldEveryRow'
<1> DEFINE table == report'.rows
<1>1. \A r \in DOMAIN table : table[r].slot \in Int
  <2> SUFFICES ASSUME NEW r \in DOMAIN table PROVE table[r].slot \in Int
    OBVIOUS
  <2>1. requests[r].arrival \in Nat /\ TotalSlots \in Nat
    BY WorkFacts DEF RunInv
  <2>2. table[r].slot \in requests[r].arrival .. TotalSlots - 1
    OBVIOUS
  <2> HIDE DEF table
  <2> QED
    BY <2>1, <2>2
<1> HIDE DEF table
<1>2. \A t \in Slots : \A r : r \in report'.slots[t] <=>
        r \in DOMAIN table /\ t \in table[r].slot - WindowFuture .. table[r].slot + WindowPast
  <2>1. report'.slots = Online!compute_per_timeslot(table, WindowPast, WindowFuture)
    BY DEF table
  <2> QED
    BY <1>1, <2>1, WindowRows
<1> QED
  BY <1>2, SameSlots DEF Online!WindowsHoldEveryRow, Online!Rows, table

\* The report of a batch scheduler's run.
LEMMA ReportTrue ==
  ASSUME RunInv, Online!Report, TheRun
  PROVE  TablesInv'
<1>1. /\ UNCHANGED << strategy, requests, committed, left >>
      /\ report'.slots = Online!compute_per_timeslot(report'.rows, WindowPast, WindowFuture)
  BY ReportRows
<1>2. Online!OnlyWhatStopLeft' /\ Online!DrainedHaveNoBatch'
  BY ReportComplete
<1>3. /\ \A r \in DOMAIN report'.rows :
           report'.rows[r].slot \in requests[r].arrival .. TotalSlots - 1
      /\ LatenessTold' /\ Online!LateOnlyWhenClaimedLate' /\ Online!ShownAsPlanned'
  BY ReportHonest
<1>4. DOMAIN report'.rows \subseteq DOMAIN requests
  BY <1>1, <1>2, SameSlots DEF Online!OnlyWhatStopLeft, Online!Rows, Online!Requests
<1>5. Online!WindowsHoldEveryRow'
  BY <1>1, <1>3, <1>4, WindowsTrue
<1>6. TheRun'
  BY <1>1 DEF TheRun
<1>7. EveryRequestReported'
  BY <1>2, <1>6 DEF EveryRequestReported
<1> QED
  BY <1>1, <1>3, <1>5, <1>7 DEF TablesInv

\* The tables of a whole-scenario strategy.
LEMMA ConvertTrue ==
  ASSUME PassInv, RunInv, OnlineApart, NothingLate, convert_swarm_to_outputs
  PROVE  TablesInv'
<1> DEFINE late(i) == IF strategy = "greedy_cheapest"
                      THEN Max({rows[i].slot - requests[i].deadline, 0}) ELSE 0
           table == [i \in DOMAIN rows |->
                       [slot |-> rows[i].slot, flavour |-> rows[i].flavour,
                        batch |-> i, lateness |-> late(i)]]
           D == DOMAIN requests
           n == Len(rows)
<1>1. /\ phase = "done" /\ UNCHANGED << strategy, requests >>
      /\ report' = [rows |-> table,
                    slots |-> Online!compute_per_timeslot(table, WindowPast, WindowFuture),
                    summary |-> Online!compute_summary(table, n, table)]
  BY DEF convert_swarm_to_outputs, vars, job
<1>2. ~ TheRun /\ ~ TheRun'
  BY <1>1 DEF OnlineApart, TheRun
<1>3. /\ n = Len(requests) /\ rows \in Seq(Row)
      /\ strategy \in DOMAIN Scenarios /\ requests \in Scenarios[strategy]
  BY <1>1 DEF PassInv, TypeOK
<1>4. strategy \in {"greedy_baseline", "greedy_cheapest", "bandit", "ant_colony"}
  BY <1>2, <1>3, StrategyAssumption DEF TheRun, BatchRuns, OnePass
<1>5. /\ D = 1 .. n /\ DOMAIN rows = D /\ n \in Nat
      /\ \A r \in D : /\ requests[r].arrival \in Nat /\ requests[r].deadline \in Nat
                      /\ rows[r].slot \in Slots /\ rows[r].slot \in Nat
  <2>1. DOMAIN rows = 1 .. n /\ n \in Nat /\ \A i \in 1 .. n : rows[i] \in Row
    BY <1>3, SeqElement
  <2>2. \A i \in 1 .. n : rows[i].slot \in Slots /\ rows[i].slot \in Nat
    BY <2>1, SlotBounds DEF Row
  <2> QED
    BY <1>3, <2>1, <2>2, WorkFacts DEF RunInv
<1>6. /\ DOMAIN table = D
      /\ \A r \in D : table[r].slot = rows[r].slot /\ table[r].lateness = late(r)
  BY <1>5
<1>7. \A r \in D : /\ requests[r].arrival <= rows[r].slot
                   /\ \/ rows[r].slot <= requests[r].deadline
                      \/ rows[r].slot = requests[r].arrival
  <2> SUFFICES ASSUME NEW r \in D
      PROVE  /\ requests[r].arrival <= rows[r].slot
             /\ \/ rows[r].slot <= requests[r].deadline
                \/ rows[r].slot = requests[r].arrival
    OBVIOUS
  <2> DEFINE s == rows[r].slot
             a == requests[r].arrival
             d == requests[r].deadline
             m == Min({d, a + MaxFuture})
  <2>1. a \in Nat /\ d \in Nat /\ s \in Nat /\ MaxFuture \in Nat
    BY <1>5, StrategyAssumption
  <2>2. a <= s /\ s <= Max({a, m})
    BY <1>5 DEF NothingLate
  <2> HIDE DEF s, a, d
  <2>3. a + MaxFuture \in Int /\ d \in Int
    BY <2>1
  <2>4. m = IF d <= a + MaxFuture THEN d ELSE a + MaxFuture
    BY <2>3, MinPair
  <2> HIDE DEF m
  <2>5. m \in Int /\ m <= d
    BY <2>1, <2>4
  <2>6. Max({a, m}) = IF a >= m THEN a ELSE m
    BY <2>1, <2>5, MaxPair
  <2>7. a <= s /\ (s <= d \/ s = a)
    BY <2>1, <2>2, <2>5, <2>6
  <2> QED
    BY <2>7 DEF s, a, d
<1> HIDE DEF table, D, n
<1>8. \A r \in D : table[r].slot \in requests[r].arrival .. TotalSlots - 1
  <2> SUFFICES ASSUME NEW r \in D
               PROVE  table[r].slot \in requests[r].arrival .. TotalSlots - 1
    OBVIOUS
  <2> DEFINE s == rows[r].slot
             a == requests[r].arrival
  <2>1. s \in Nat /\ a \in Nat /\ a <= s
    BY <1>5, <1>7
  <2>2. s <= TotalSlots - 1 /\ TotalSlots \in Nat
    BY <1>5, SlotBounds
  <2>3. table[r].slot = s
    BY <1>6
  <2> HIDE DEF s
  <2> HIDE DEF a
  <2>4. s \in a .. TotalSlots - 1
    BY <2>1, <2>2
  <2> QED
    BY <2>3, <2>4 DEF a
<1>9. /\ report'.rows = table
      /\ report'.slots = Online!compute_per_timeslot(report'.rows, WindowPast, WindowFuture)
      /\ report'.summary = Online!compute_summary(table, n, table)
  BY <1>1
<1>10. Online!WindowsHoldEveryRow'
  BY <1>1, <1>6, <1>8, <1>9, WindowsTrue DEF D
<1>11. EveryRequestReported'
  <2>1. /\ report'.summary.scheduled = n /\ report'.summary.unscheduled = Len(requests) - n
    BY <1>3, <1>5, <1>9, SummaryCounts
  <2>2. Len(requests) - n = 0
    BY <1>3, <1>5
  <2> QED
    BY <1>1, <1>2, <1>3, <1>6, <1>9, <2>1, <2>2 DEF EveryRequestReported, D
<1>12. \A r \in D :
         LET past == Max({table[r].slot - requests[r].deadline, 0})
             told == table[r].lateness
         IN \/ told = past
            \/ /\ strategy \in {"greedy_baseline", "bandit", "ant_colony"}
               /\ requests[r].deadline < requests[r].arrival /\ told = 0
  <2> SUFFICES ASSUME NEW r \in D
      PROVE  LET past == Max({table[r].slot - requests[r].deadline, 0})
                 told == table[r].lateness
             IN \/ told = past
                \/ /\ strategy \in {"greedy_baseline", "bandit", "ant_colony"}
                   /\ requests[r].deadline < requests[r].arrival /\ told = 0
    OBVIOUS
  <2> DEFINE s == rows[r].slot
             d == requests[r].deadline
             a == requests[r].arrival
  <2>1. s \in Nat /\ d \in Nat /\ a \in Nat /\ (s <= d \/ s = a)
    BY <1>5, <1>7
  <2>2. table[r].slot = s /\ table[r].lateness = late(r)
    BY <1>6
  <2>3. late(r) = IF strategy = "greedy_cheapest" THEN Max({s - d, 0}) ELSE 0
    OBVIOUS
  <2> HIDE DEF s, d, a, late
  <2>4. Max({s - d, 0}) = IF s - d >= 0 THEN s - d ELSE 0
    <3>1. s - d \in Int
      BY <2>1
    <3> QED
      BY <3>1, MaxPair
  <2>5. CASE strategy = "greedy_cheapest"
    BY <2>2, <2>3, <2>5 DEF d
  <2>6. CASE strategy # "greedy_cheapest"
    <3>1. late(r) = 0
      BY <2>3, <2>6
    <3>2. Max({s - d, 0}) = 0 \/ d < a
      BY <2>1, <2>4
    <3> QED
      BY <1>4, <2>2, <2>6, <3>1, <3>2 DEF d, a
  <2> QED
    BY <2>5, <2>6
<1>13. LatenessTold'
  <2>1. \A r : ~ Drained(r)'
    BY <1>2 DEF Drained
  <2> QED
    BY <1>1, <1>6, <1>9, <1>12, <2>1 DEF LatenessTold
<1>14. \A r \in DOMAIN report'.rows :
         report'.rows[r].slot \in requests'[r].arrival .. TotalSlots - 1
  BY <1>1, <1>6, <1>8, <1>9
<1> QED
  BY <1>2, <1>10, <1>11, <1>13, <1>14 DEF TablesInv

\* Tables that are made stay.
LEMMA TablesStay ==
  ASSUME TablesInv, UNCHANGED << strategy, requests, committed, left, report >>
  PROVE  TablesInv'
BY DEF TablesInv, Reported, TheRun, EveryRequestReported, LatenessTold, Drained,
       Online!OnlyWhatStopLeft, Online!DrainedHaveNoBatch, Online!WindowsHoldEveryRow,
       Online!LateOnlyWhenClaimedLate, Online!ShownAsPlanned, Online!Rows, Online!Requests,
       Online!Committed, Online!Swarm, Online!ArrivalOf, Online!DeadlineOf

\* Every step of the benchmark keeps what is said of the tables.
LEMMA TablesStep ==
  ASSUME PassInv, RunInv, OnlineApart, NothingLate, TablesInv,
         [StudyNext]_<< vars, onlineVars, report >>
  PROVE  TablesInv'
<1>1. /\ strategy' = strategy /\ requests' = requests
      /\ report # << >> => UNCHANGED << onlineVars, report >>
  BY StudyFrame
<1>2. CASE report # << >>
  <2>1. UNCHANGED << committed, left, report >>
    BY <1>1, <1>2 DEF onlineVars
  <2> QED
    BY <1>1, <2>1, TablesStay
<1>3. CASE report' = << >>
  BY <1>3 DEF TablesInv, Reported
<1>4. CASE OnlineStep /\ Online!Report
  <2>1. TheRun
    BY <1>4 DEF OnlineStep, TheRun
  <2> QED
    BY <1>4, <2>1, ReportTrue
<1>5. CASE convert_swarm_to_outputs
  BY <1>5, ConvertTrue
<1>6. CASE report = << >> /\ ~ (OnlineStep /\ Online!Report) /\ ~ convert_swarm_to_outputs
  <2>1. CASE OnlineStep
    BY <1>6, <2>1 DEF OnlineStep, Online!Next, Online!Claim, Online!Commit, Online!LogRun,
         Online!LogAssignment, Online!Release, Online!Tick, Online!Stop, Online!ReadRuns,
         Online!ReadAssignments, TablesInv, Reported
  <2>2. CASE ~ OnlineStep
    <3>1. report' = report
      BY <1>6, <2>2 DEF StudyNext, OfflineStep
    <3> QED
      BY <1>3, <1>6, <3>1
  <2> QED
    BY <2>1, <2>2
<1> QED
  BY <1>2, <1>4, <1>5, <1>6

\* What every state of a benchmark run satisfies.
StudyInv == PassInv /\ NothingLate /\ RunInv /\ OnlineApart /\ TablesInv

\* Every run of the benchmark, by whatever strategy, satisfies the invariant.
THEOREM StudyCorrect == StudySpec => []StudyInv
<1> DEFINE Own == RunInv /\ OnlineApart /\ TablesInv
<1>1. StudyInit => Own
  <2>1. StudyInit => RunInv
    BY RunInit
  <2>2. StudyInit => OnlineApart
    BY DEF StudyInit, Init, OnlineApart
  <2>3. StudyInit => TablesInv
    BY DEF StudyInit, Online!Init, TablesInv, Reported
  <2> QED
    BY <2>1, <2>2, <2>3
<1>2. PassInv /\ NothingLate /\ Own /\ [StudyNext]_<< vars, onlineVars, report >> => Own'
  BY RunStep, ApartStep, TablesStep
<1>3. PassInv /\ NothingLate /\ Own => StudyInv
  BY DEF StudyInv
<1> HIDE DEF Own
<1> QED
  BY <1>1, <1>2, <1>3, StudyRunsStrategies, PassCorrect, NothingPlannedLate, PTL
     DEF StudySpec

\* Whatever the strategy, and wherever among the claim, the commit and the rows of the
\* log stop and the two reads fall: every request is in the tables once, in a slot of
\* the horizon no earlier than its arrival, but for those of the one batch that stop
\* may leave in the worker's hands; a row without a batch number is drained or of
\* that batch; and each window holds its rows and no others (property TablesComplete).
THEOREM TablesAreComplete == StudySpec => []TablesComplete
<1>1. StudyInv => TablesComplete
  <2> SUFFICES ASSUME StudyInv PROVE TablesComplete
    OBVIOUS
  <2>1. StudyTypeOK
    BY RunTypes DEF StudyInv
  <2> QED
    BY <2>1 DEF StudyInv, TablesInv, TablesComplete
<1> QED
  BY <1>1, StudyCorrect, PTL

\* A reported lateness is the distance of the slot from the deadline, but for drained
\* requests, which report at least that, and for the baseline, the bandit and the
\* colony, which report zero, wrongly when the deadline precedes the arrival; what a
\* worker commits late was claimed late (bandit and colony: arrived late); and where
\* nothing moves a row shows what is committed (property TablesTruthful).
THEOREM TablesAreTruthful == StudySpec => []TablesTruthful
<1>1. StudyInv => TablesTruthful
  BY DEF StudyInv, TablesInv, TablesTruthful
<1> QED
  BY <1>1, StudyCorrect, PTL

=============================================================================
