----------------------------- MODULE FoldLemmas -----------------------------
(***************************************************************************)
(* Lemmas on the folds of the community modules, which are recursive       *)
(* functions over sets of elements or of indices.  SumFunctionOnSet takes  *)
(* its elements in an order left open; FoldLeft takes the indices of a     *)
(* sequence from the last.  Here they get their usual laws.                *)
(* Induction is over sets of numbers or of sets rather than predicates.    *)
(***************************************************************************)
EXTENDS Integers, Sequences, FiniteSets, Functions, FiniteSetsExt, SequencesExt,
        FiniteSetTheorems, WellFoundedInduction, TLAPS

-----------------------------------------------------------------------------
(* Induction. *)

\* A set of naturals that is not empty has a least member.
LEMMA LeastNatural ==
  ASSUME NEW S, S \subseteq Nat, S # {}
  PROVE  \E m \in S : \A y \in S : m <= y
<1> DEFINE R == {ss \in Nat \X Nat : ss[1] < ss[2]}
<1>1. IsWellFoundedOn(R, Nat)
  BY NatLessThanWellFounded DEF OpToRel
<1> HIDE DEF R
<1>2. PICK m \in S : \A y \in S : ~ (<<y, m>> \in R)
  BY <1>1, WFMin
<1>3. ASSUME NEW y \in S PROVE m <= y
  <2>1. ~ (y < m)
    BY <1>2 DEF R
  <2> QED
    BY <2>1
<1> QED
  BY <1>3

\* A set of naturals that holds 0 and the successor of each of its members is
\* all of them.
LEMMA NatSetInduction ==
  ASSUME NEW A, 0 \in A, \A n \in Nat : n \in A => n + 1 \in A
  PROVE  Nat \subseteq A
<1> SUFFICES ASSUME {n \in Nat : n \notin A} # {} PROVE FALSE
  OBVIOUS
<1>1. PICK m \in {n \in Nat : n \notin A} :
        \A y \in {n \in Nat : n \notin A} : m <= y
  BY LeastNatural
<1>2. m # 0 /\ m - 1 \in Nat
  OBVIOUS
<1>3. m - 1 \in A
  BY <1>1, <1>2
<1>4. (m - 1) + 1 = m
  OBVIOUS
<1> QED
  BY <1>2, <1>3, <1>4

\* A family of subsets of a finite set that holds the empty set, and with a
\* set also every set of one element more, holds the finite set itself.
LEMMA FiniteSetInduction ==
  ASSUME NEW D, IsFiniteSet(D), NEW F, {} \in F,
         \A T \in SUBSET D, x \in D : T \in F /\ x \notin T => T \cup {x} \in F
  PROVE  D \in F
<1> DEFINE A == {n \in Nat : \A T \in SUBSET D : Cardinality(T) = n => T \in F}
<1>1. \A T \in SUBSET D : IsFiniteSet(T) /\ Cardinality(T) \in Nat
  BY FS_Subset, FS_CardinalityType
<1>2. 0 \in A
  BY <1>1, FS_EmptySet
<1>3. ASSUME NEW n \in Nat, n \in A PROVE n + 1 \in A
  <2> SUFFICES ASSUME NEW T \in SUBSET D, Cardinality(T) = n + 1 PROVE T \in F
    OBVIOUS
  <2>1. T # {}
    BY FS_EmptySet
  <2>2. PICK x \in T : TRUE
    BY <2>1
  <2>3. Cardinality(T \ {x}) = n
    <3>1. IsFiniteSet(T)
      BY <1>1
    <3>2. Cardinality(T \ {x}) = Cardinality(T) - 1
      BY <3>1, FS_RemoveElement
    <3> QED
      BY <3>2
  <2>4. T \ {x} \in F
    BY <1>3, <2>3
  <2>5. T = (T \ {x}) \cup {x} /\ x \in D /\ x \notin T \ {x} /\ T \ {x} \in SUBSET D
    BY <2>2
  <2>6. (T \ {x}) \cup {x} \in F
    BY <2>4, <2>5
  <2> QED
    BY <2>5, <2>6
<1> HIDE DEF A
<1>4. Nat \subseteq A
  BY <1>2, <1>3, NatSetInduction
<1> QED
  BY <1>1, <1>4 DEF A

-----------------------------------------------------------------------------
(* The recursion behind the fold. *)

Chosen(s) == CHOOSE x \in s : TRUE

SumStep(g, f, s) == IF s = {} THEN 0 ELSE f[Chosen(s)] + g[s \ {Chosen(s)}]

\* g is the recursive function of the fold of f over the subsets of D.
FoldsOver(g, f, D) == g = [s \in SUBSET D |-> SumStep(g, f, s)]

\* The sum of a function over a set, as the fold it is defined by.
LEMMA SumIsFold ==
  ASSUME NEW f, NEW D
  PROVE  SumFunctionOnSet(f, D) = (CHOOSE g : FoldsOver(g, f, D))[D]
BY DEF SumFunctionOnSet, FoldFunctionOnSet, MapThenFoldSet, FoldsOver, SumStep, Chosen

\* The member a fold takes first is one of the set.
LEMMA ChosenIsMember ==
  ASSUME NEW s, s # {}, IsFiniteSet(s)
  PROVE  /\ Chosen(s) \in s
         /\ IsFiniteSet(s \ {Chosen(s)})
         /\ Cardinality(s \ {Chosen(s)}) = Cardinality(s) - 1
         /\ Cardinality(s) \in Nat
<1>1. Chosen(s) \in s
  BY DEF Chosen
<1> QED
  BY <1>1, FS_RemoveElement, FS_CardinalityType

\* The recursion has a solution on every finite set: it is built from the
\* subsets of at most n elements to those of at most n + 1.
LEMMA FoldExists ==
  ASSUME NEW f, NEW D, IsFiniteSet(D)
  PROVE  \E g : FoldsOver(g, f, D)
<1> DEFINE Small(n) == {s \in SUBSET D : Cardinality(s) <= n}
           A == {n \in Nat : \E g : g = [s \in Small(n) |-> SumStep(g, f, s)]}
<1>1. \A s \in SUBSET D : IsFiniteSet(s) /\ Cardinality(s) \in Nat
                          /\ Cardinality(s) <= Cardinality(D)
  BY FS_Subset, FS_CardinalityType
<1>2. 0 \in A
  <2> DEFINE g == [s \in Small(0) |-> 0]
  <2>1. \A s \in Small(0) : s = {}
    BY <1>1, FS_EmptySet
  <2>2. \A s \in Small(0) : SumStep(g, f, s) = 0
    BY <2>1 DEF SumStep
  <2>3. g = [s \in Small(0) |-> SumStep(g, f, s)]
    BY <2>2
  <2> QED
    BY <2>3
<1>3. ASSUME NEW n \in Nat, n \in A PROVE n + 1 \in A
  <2>1. PICK g : g = [s \in Small(n) |-> SumStep(g, f, s)]
    BY <1>3
  <2> DEFINE h == [s \in Small(n + 1) |-> SumStep(g, f, s)]
  <2>2. ASSUME NEW s \in Small(n + 1)
        PROVE  SumStep(g, f, s) = SumStep(h, f, s)
    <3>1. CASE s = {}
      BY <3>1 DEF SumStep
    <3>2. CASE s # {}
      <4> DEFINE t == s \ {Chosen(s)}
      <4>1. t \in SUBSET D /\ Cardinality(t) = Cardinality(s) - 1
        BY <1>1, <3>2, ChosenIsMember
      <4>2. Cardinality(s) \in Nat /\ Cardinality(s) <= n + 1
        BY <1>1
      <4>3. t \in Small(n) /\ t \in Small(n + 1)
        BY <4>1, <4>2
      <4> HIDE DEF t
      <4>4. g[t] = SumStep(g, f, t)
        BY <2>1, <4>3
      <4>5. h[t] = SumStep(g, f, t)
        BY <4>3
      <4>6. h[t] = g[t]
        BY <4>4, <4>5
      <4> HIDE DEF h
      <4> QED
        BY <3>2, <4>6 DEF SumStep, t
    <3> QED
      BY <3>1, <3>2
  <2>3. h = [s \in Small(n + 1) |-> SumStep(h, f, s)]
    BY <2>2
  <2>4. n + 1 \in Nat
    OBVIOUS
  <2> QED
    BY <2>3, <2>4
<1> HIDE DEF A
<1>4. Cardinality(D) \in A
  BY <1>2, <1>3, FS_CardinalityType, NatSetInduction
<1>5. Small(Cardinality(D)) = SUBSET D
  BY <1>1
<1> QED
  BY <1>4, <1>5 DEF A, FoldsOver

\* Solutions on different sets agree where both are defined.
LEMMA FoldsAgree ==
  ASSUME NEW f, NEW D, NEW E, NEW g, NEW h, FoldsOver(g, f, D), FoldsOver(h, f, E),
         NEW s, s \subseteq D, s \subseteq E, IsFiniteSet(s)
  PROVE  g[s] = h[s]
<1> DEFINE A == {n \in Nat : \A t \in SUBSET s : Cardinality(t) = n => g[t] = h[t]}
<1>1. \A t \in SUBSET s : IsFiniteSet(t) /\ Cardinality(t) \in Nat
  BY FS_Subset, FS_CardinalityType
<1>2. \A t \in SUBSET s : g[t] = SumStep(g, f, t) /\ h[t] = SumStep(h, f, t)
  BY DEF FoldsOver
<1>3. 0 \in A
  <2>1. ASSUME NEW t \in SUBSET s, Cardinality(t) = 0 PROVE g[t] = h[t]
    <3>1. t = {}
      BY <1>1, <2>1, FS_EmptySet
    <3> QED
      BY <1>2, <3>1 DEF SumStep
  <2> QED
    BY <2>1
<1>4. ASSUME NEW n \in Nat, n \in A PROVE n + 1 \in A
  <2> SUFFICES ASSUME NEW t \in SUBSET s, Cardinality(t) = n + 1 PROVE g[t] = h[t]
    OBVIOUS
  <2>1. t # {}
    BY FS_EmptySet
  <2>2. t \ {Chosen(t)} \in SUBSET s /\ Cardinality(t \ {Chosen(t)}) = n
    BY <1>1, <2>1, ChosenIsMember
  <2>3. g[t \ {Chosen(t)}] = h[t \ {Chosen(t)}]
    BY <1>4, <2>2
  <2> QED
    BY <1>2, <2>1, <2>3 DEF SumStep
<1> HIDE DEF A
<1>5. Cardinality(s) \in A
  BY <1>1, <1>3, <1>4, NatSetInduction
<1> QED
  BY <1>5 DEF A

-----------------------------------------------------------------------------
(* The laws of sums. *)

\* A sum over a set that is not empty takes one member first.
LEMMA SumUnfold ==
  ASSUME NEW f, NEW D, IsFiniteSet(D)
  PROVE  /\ D = {} => SumFunctionOnSet(f, D) = 0
         /\ D # {} => SumFunctionOnSet(f, D)
                        = f[Chosen(D)] + SumFunctionOnSet(f, D \ {Chosen(D)})
<1> DEFINE g == CHOOSE g : FoldsOver(g, f, D)
<1>1. FoldsOver(g, f, D) /\ SumFunctionOnSet(f, D) = g[D]
  BY FoldExists, SumIsFold
<1> HIDE DEF g
<1>2. g[D] = SumStep(g, f, D)
  BY <1>1 DEF FoldsOver
<1>3. CASE D = {}
  BY <1>1, <1>2, <1>3 DEF SumStep
<1>4. CASE D # {}
  <2> DEFINE E == D \ {Chosen(D)}
             h == CHOOSE h : FoldsOver(h, f, E)
  <2>1. IsFiniteSet(E) /\ E \subseteq D
    BY <1>4, ChosenIsMember
  <2>2. FoldsOver(h, f, E) /\ SumFunctionOnSet(f, E) = h[E]
    BY <2>1, FoldExists, SumIsFold
  <2> HIDE DEF E, h
  <2>3. g[E] = h[E]
    BY <1>1, <2>1, <2>2, FoldsAgree
  <2> QED
    BY <1>1, <1>2, <1>4, <2>2, <2>3 DEF SumStep, E
<1> QED
  BY <1>3, <1>4

\* The sum over no members is zero.
LEMMA SumEmpty ==
  ASSUME NEW f
  PROVE  SumFunctionOnSet(f, {}) = 0
BY SumUnfold, FS_EmptySet

\* The sum of naturals is a natural number.
LEMMA SumType ==
  ASSUME NEW f, NEW D, IsFiniteSet(D), \A x \in D : f[x] \in Int
  PROVE  SumFunctionOnSet(f, D) \in Int
<1> DEFINE A == {n \in Nat : \A T \in SUBSET D :
                   Cardinality(T) = n => SumFunctionOnSet(f, T) \in Int}
<1>1. \A T \in SUBSET D : IsFiniteSet(T) /\ Cardinality(T) \in Nat
  BY FS_Subset, FS_CardinalityType
<1>2. 0 \in A
  BY <1>1, FS_EmptySet, SumEmpty
<1>3. ASSUME NEW n \in Nat, n \in A PROVE n + 1 \in A
  <2> SUFFICES ASSUME NEW T \in SUBSET D, Cardinality(T) = n + 1
               PROVE  SumFunctionOnSet(f, T) \in Int
    OBVIOUS
  <2>1. T # {}
    BY FS_EmptySet
  <2>2. /\ Chosen(T) \in T /\ T \ {Chosen(T)} \in SUBSET D
        /\ Cardinality(T \ {Chosen(T)}) = n
    BY <1>1, <2>1, ChosenIsMember
  <2>3. SumFunctionOnSet(f, T \ {Chosen(T)}) \in Int /\ f[Chosen(T)] \in Int
    BY <1>3, <2>2
  <2> QED
    BY <1>1, <2>1, <2>3, SumUnfold
<1> HIDE DEF A
<1>4. Cardinality(D) \in A
  BY <1>1, <1>2, <1>3, NatSetInduction
<1> QED
  BY <1>4 DEF A

\* The order in which elements are taken does not matter.
LEMMA SumRemove ==
  ASSUME NEW f, NEW D, IsFiniteSet(D), \A x \in D : f[x] \in Int, NEW x \in D
  PROVE  SumFunctionOnSet(f, D) = f[x] + SumFunctionOnSet(f, D \ {x})
<1> DEFINE S(T) == SumFunctionOnSet(f, T)
           A == {n \in Nat : \A T \in SUBSET D : Cardinality(T) = n =>
                   \A y \in T : S(T) = f[y] + S(T \ {y})}
<1>1. \A T \in SUBSET D : IsFiniteSet(T) /\ Cardinality(T) \in Nat /\ S(T) \in Int
  BY FS_Subset, FS_CardinalityType, SumType
<1>2. \A T \in SUBSET D : T # {} =>
        /\ Chosen(T) \in T
        /\ S(T) = f[Chosen(T)] + S(T \ {Chosen(T)})
  BY <1>1, ChosenIsMember, SumUnfold
<1> HIDE DEF S
<1>3. 0 \in A
  BY <1>1, FS_EmptySet
<1>4. ASSUME NEW n \in Nat, n \in A PROVE n + 1 \in A
  <2> SUFFICES ASSUME NEW T \in SUBSET D, Cardinality(T) = n + 1, NEW y \in T
               PROVE  S(T) = f[y] + S(T \ {y})
    OBVIOUS
  <2> DEFINE c == Chosen(T)
  <2>1. c \in T /\ S(T) = f[c] + S(T \ {c})
    BY <1>2
  <2> HIDE DEF c
  <2>2. CASE y = c
    BY <2>1, <2>2
  <2>3. CASE y # c
    <3>1. Cardinality(T \ {c}) = n /\ Cardinality(T \ {y}) = n
      BY <1>1, <2>1, FS_RemoveElement
    <3>2. S(T \ {c}) = f[y] + S((T \ {c}) \ {y})
      BY <1>4, <2>3, <3>1
    <3>3. S(T \ {y}) = f[c] + S((T \ {y}) \ {c})
      BY <1>4, <2>1, <2>3, <3>1
    <3>4. (T \ {c}) \ {y} = (T \ {y}) \ {c}
      OBVIOUS
    <3>5. S((T \ {c}) \ {y}) \in Int /\ f[y] \in Int /\ f[c] \in Int
      BY <1>1, <2>1
    <3>6. S(T) = f[c] + (f[y] + S((T \ {c}) \ {y}))
      BY <2>1, <3>2
    <3>7. S(T \ {y}) = f[c] + S((T \ {c}) \ {y})
      BY <3>3, <3>4
    <3> DEFINE rest == S((T \ {c}) \ {y})
    <3> HIDE DEF rest
    <3>8. f[c] + (f[y] + rest) = f[y] + (f[c] + rest)
      BY <3>5 DEF rest
    <3> QED
      BY <3>6, <3>7, <3>8 DEF rest
  <2> QED
    BY <2>2, <2>3
<1> HIDE DEF A
<1>5. Cardinality(D) \in A
  BY <1>1, <1>3, <1>4, NatSetInduction
<1> QED
  BY <1>5 DEF A, S

\* A new member adds its value to the sum.
LEMMA SumAdd ==
  ASSUME NEW f, NEW D, IsFiniteSet(D), NEW x, x \notin D,
         \A y \in D \cup {x} : f[y] \in Int
  PROVE  SumFunctionOnSet(f, D \cup {x}) = SumFunctionOnSet(f, D) + f[x]
<1>1. IsFiniteSet(D \cup {x}) /\ (D \cup {x}) \ {x} = D
  BY FS_AddElement
<1>2. SumFunctionOnSet(f, D \cup {x}) = f[x] + SumFunctionOnSet(f, D)
  BY <1>1, SumRemove
<1>3. f[x] \in Int /\ SumFunctionOnSet(f, D) \in Int
  BY SumType
<1> QED
  BY <1>2, <1>3

\* The sum over two disjoint sets.
LEMMA SumUnion ==
  ASSUME NEW f, NEW D, NEW E, IsFiniteSet(D), IsFiniteSet(E), D \cap E = {},
         \A x \in D \cup E : f[x] \in Int
  PROVE  SumFunctionOnSet(f, D \cup E)
           = SumFunctionOnSet(f, D) + SumFunctionOnSet(f, E)
<1> DEFINE S(T) == SumFunctionOnSet(f, T)
           F == {T \in SUBSET E : S(D \cup T) = S(D) + S(T)}
<1>1. \A T \in SUBSET E : IsFiniteSet(T) /\ S(T) \in Int
  BY FS_Subset, SumType
<1>2. S(D) \in Int
  BY SumType
<1>3. {} \in F
  BY <1>2, SumEmpty
<1>4. ASSUME NEW T \in SUBSET E, NEW x \in E, T \in F, x \notin T
      PROVE  T \cup {x} \in F
  <2>1. S(T \cup {x}) = S(T) + f[x]
    BY <1>1, <1>4, SumAdd
  <2>2. S((D \cup T) \cup {x}) = S(D \cup T) + f[x]
    <3>1. IsFiniteSet(T)
      BY <1>1
    <3>2. IsFiniteSet(D \cup T)
      BY <3>1, FS_Union
    <3>3. x \notin D \cup T
      BY <1>4
    <3>4. \A y \in (D \cup T) \cup {x} : f[y] \in Int
      OBVIOUS
    <3> QED
      BY <3>2, <3>3, <3>4, SumAdd
  <2>3. (D \cup T) \cup {x} = D \cup (T \cup {x})
    OBVIOUS
  <2>4. S(D \cup T) = S(D) + S(T)
    BY <1>4
  <2>5. S(T) \in Int /\ f[x] \in Int
    BY <1>1
  <2> HIDE DEF S
  <2>6. S(D \cup (T \cup {x})) = S(D \cup T) + f[x]
    BY <2>2, <2>3
  <2>7. (S(D) + S(T)) + f[x] = S(D) + (S(T) + f[x])
    BY <1>2, <2>5
  <2>8. S(D \cup (T \cup {x})) = S(D) + S(T \cup {x})
    BY <2>1, <2>4, <2>6, <2>7
  <2> QED
    BY <2>8
<1> HIDE DEF F
<1>5. E \in F
  BY <1>3, <1>4, FiniteSetInduction
<1> QED
  BY <1>5 DEF F

\* A sum depends only on the values of its terms.
LEMMA SumSame ==
  ASSUME NEW f, NEW g, NEW D, IsFiniteSet(D),
         \A x \in D : f[x] \in Int /\ g[x] = f[x]
  PROVE  SumFunctionOnSet(g, D) = SumFunctionOnSet(f, D)
<1> DEFINE F == {T \in SUBSET D : SumFunctionOnSet(g, T) = SumFunctionOnSet(f, T)}
<1>1. {} \in F
  BY SumEmpty
<1>2. ASSUME NEW T \in SUBSET D, NEW x \in D, T \in F, x \notin T
      PROVE  T \cup {x} \in F
  <2>1. IsFiniteSet(T) /\ \A y \in T \cup {x} : f[y] \in Int /\ g[y] \in Int
    BY FS_Subset
  <2>2. /\ SumFunctionOnSet(f, T \cup {x}) = SumFunctionOnSet(f, T) + f[x]
        /\ SumFunctionOnSet(g, T \cup {x}) = SumFunctionOnSet(g, T) + g[x]
    BY <1>2, <2>1, SumAdd
  <2> QED
    BY <1>2, <2>2
<1> HIDE DEF F
<1>3. D \in F
  BY <1>1, <1>2, FiniteSetInduction
<1> QED
  BY <1>3 DEF F

\* Changing one term changes the sum by as much.
LEMMA SumChange ==
  ASSUME NEW f, NEW g, NEW D, IsFiniteSet(D), NEW x \in D,
         \A y \in D : f[y] \in Int, g[x] \in Int,
         \A y \in D : y # x => g[y] = f[y]
  PROVE  SumFunctionOnSet(g, D) = SumFunctionOnSet(f, D) + (g[x] - f[x])
<1> DEFINE E == D \ {x}
<1>1. IsFiniteSet(E) /\ E \subseteq D
  BY FS_RemoveElement
<1>2. SumFunctionOnSet(g, E) = SumFunctionOnSet(f, E)
  BY <1>1, SumSame
<1>3. SumFunctionOnSet(f, D) = f[x] + SumFunctionOnSet(f, E)
  BY SumRemove
<1>4. SumFunctionOnSet(g, D) = g[x] + SumFunctionOnSet(g, E)
  BY SumRemove
<1>5. SumFunctionOnSet(f, E) \in Int /\ f[x] \in Int
  BY <1>1, SumType
<1> HIDE DEF E
<1> QED
  BY <1>2, <1>3, <1>4, <1>5

\* One factor more is one summand more.
LEMMA OneTimesMore ==
  ASSUME NEW k \in Int, NEW n \in Int
  PROVE  k * (n + 1) = k * n + k
OBVIOUS

\* A sum of terms of at most k each.
LEMMA SumBound ==
  ASSUME NEW f, NEW D, IsFiniteSet(D), NEW k \in Int,
         \A x \in D : f[x] \in Int /\ f[x] <= k
  PROVE  SumFunctionOnSet(f, D) <= k * Cardinality(D)
<1> DEFINE S(T) == SumFunctionOnSet(f, T)
           F == {T \in SUBSET D : S(T) <= k * Cardinality(T)}
<1>1. {} \in F
  BY SumEmpty, FS_EmptySet
<1>2. ASSUME NEW T \in SUBSET D, NEW x \in D, T \in F, x \notin T
      PROVE  T \cup {x} \in F
  <2>1. IsFiniteSet(T) /\ Cardinality(T) \in Nat /\ S(T) \in Int
    BY FS_Subset, FS_CardinalityType, SumType
  <2>2. S(T \cup {x}) = S(T) + f[x]
    BY <1>2, <2>1, SumAdd
  <2>3. Cardinality(T \cup {x}) = Cardinality(T) + 1
    BY <1>2, <2>1, FS_AddElement
  <2>4. k * (Cardinality(T) + 1) = k * Cardinality(T) + k
    BY <2>1, OneTimesMore
  <2>5. f[x] \in Int /\ f[x] <= k
    OBVIOUS
  <2>6. S(T) <= k * Cardinality(T) /\ k * Cardinality(T) \in Int
    BY <1>2, <2>1
  <2> DEFINE s == S(T)
             t == k * Cardinality(T)
  <2> HIDE DEF s, t, S
  <2>7. s + f[x] <= t + k
    BY <2>1, <2>5, <2>6 DEF s, t
  <2>8. S(T \cup {x}) <= k * Cardinality(T \cup {x})
    BY <2>2, <2>3, <2>4, <2>7 DEF s, t
  <2> QED
    BY <2>8
<1> HIDE DEF F
<1>3. D \in F
  BY <1>1, <1>2, FiniteSetInduction
<1> QED
  BY <1>3 DEF F

-----------------------------------------------------------------------------
\* A finite set of integers has a greatest member.
LEMMA GreatestExists ==
  ASSUME NEW D, IsFiniteSet(D), D \subseteq Int, D # {}
  PROVE  \E m \in D : \A y \in D : m >= y
<1> DEFINE F == {T \in SUBSET D : T # {} => \E m \in T : \A y \in T : m >= y}
<1>1. {} \in F
  OBVIOUS
<1>2. ASSUME NEW T \in SUBSET D, NEW x \in D, T \in F, x \notin T
      PROVE  T \cup {x} \in F
  <2>1. CASE T = {}
    BY <2>1
  <2>2. CASE T # {}
    <3>1. PICK m \in T : \A y \in T : m >= y
      BY <1>2, <2>2
    <3>2. CASE m >= x
      BY <3>1, <3>2
    <3>3. CASE x > m
      <4>1. \A y \in T \cup {x} : x >= y
        BY <3>1, <3>3
      <4> QED
        BY <4>1
    <3> QED
      BY <3>2, <3>3
  <2> QED
    BY <2>1, <2>2
<1> HIDE DEF F
<1>3. D \in F
  BY <1>1, <1>2, FiniteSetInduction
<1> QED
  BY <1>3 DEF F

\* The greatest member of a finite set of integers.
LEMMA MaxOf ==
  ASSUME NEW D, IsFiniteSet(D), D \subseteq Int, D # {}
  PROVE  Max(D) \in D /\ \A y \in D : Max(D) >= y
BY GreatestExists DEF Max

\* A finite set has a least member in any total and transitive order.
LEMMA LeastExists ==
  ASSUME NEW D, IsFiniteSet(D), D # {}, NEW R,
         \A x, y \in D : <<x, y>> \in R \/ <<y, x>> \in R,
         \A x, y, z \in D : <<x, y>> \in R /\ <<y, z>> \in R => <<x, z>> \in R
  PROVE  \E m \in D : \A y \in D : <<m, y>> \in R
<1> DEFINE F == {T \in SUBSET D : T # {} => \E m \in T : \A y \in T : <<m, y>> \in R}
<1>1. {} \in F
  OBVIOUS
<1>2. ASSUME NEW T \in SUBSET D, NEW x \in D, T \in F, x \notin T
      PROVE  T \cup {x} \in F
  <2>1. CASE T = {}
    <3>1. <<x, x>> \in R
      OBVIOUS
    <3> QED
      BY <2>1, <3>1
  <2>2. CASE T # {}
    <3>1. PICK m \in T : \A y \in T : <<m, y>> \in R
      BY <1>2, <2>2
    <3>2. CASE <<m, x>> \in R
      BY <3>1, <3>2
    <3>3. CASE <<x, m>> \in R
      <4>1. <<x, x>> \in R
        OBVIOUS
      <4>2. \A y \in T : <<x, y>> \in R
        BY <3>1, <3>3
      <4> QED
        BY <4>1, <4>2
    <3> QED
      BY <3>2, <3>3
  <2> QED
    BY <2>1, <2>2
<1> HIDE DEF F
<1>3. D \in F
  BY <1>1, <1>2, FiniteSetInduction
<1> QED
  BY <1>3 DEF F

\* The least member of a finite set of integers.
LEMMA MinOf ==
  ASSUME NEW D, IsFiniteSet(D), D \subseteq Int, D # {}
  PROVE  Min(D) \in D /\ \A y \in D : Min(D) <= y
<1> DEFINE R == {p \in D \X D : p[1] <= p[2]}
<1>1. \A x, y \in D : <<x, y>> \in R <=> x <= y
  OBVIOUS
<1> HIDE DEF R
<1>2. \E m \in D : \A y \in D : <<m, y>> \in R
  <2>0. \A x \in D : x \in Int
    OBVIOUS
  <2>1. \A x, y \in D : <<x, y>> \in R \/ <<y, x>> \in R
    <3>1. \A x, y \in D : x <= y \/ y <= x
      BY <2>0
    <3> QED
      BY <1>1, <3>1
  <2>2. \A x, y, z \in D : <<x, y>> \in R /\ <<y, z>> \in R => <<x, z>> \in R
    <3>1. \A x, y, z \in D : x <= y /\ y <= z => x <= z
      BY <2>0
    <3> QED
      BY <1>1, <3>1
  <2> QED
    BY <2>1, <2>2, LeastExists
<1> QED
  BY <1>1, <1>2 DEF Min

\* The larger of two numbers.
LEMMA MaxPair ==
  ASSUME NEW a \in Int, NEW b \in Int
  PROVE  Max({a, b}) = IF a >= b THEN a ELSE b
<1>1. PICK m \in {a, b} : \A y \in {a, b} : m >= y
  OBVIOUS
<1>2. Max({a, b}) \in {a, b} /\ \A y \in {a, b} : Max({a, b}) >= y
  BY <1>1 DEF Max
<1> QED
  BY <1>2

\* The smaller of two numbers.
LEMMA MinPair ==
  ASSUME NEW a \in Int, NEW b \in Int
  PROVE  Min({a, b}) = IF a <= b THEN a ELSE b
<1>1. PICK m \in {a, b} : \A y \in {a, b} : m <= y
  OBVIOUS
<1>2. Min({a, b}) \in {a, b} /\ \A y \in {a, b} : Min({a, b}) <= y
  BY <1>1 DEF Min
<1> QED
  BY <1>2

\* The least of three numbers.
LEMMA MinTriple ==
  ASSUME NEW a \in Int, NEW b \in Int, NEW c \in Int
  PROVE  /\ Min({a, b, c}) \in {a, b, c}
         /\ Min({a, b, c}) <= a /\ Min({a, b, c}) <= b /\ Min({a, b, c}) <= c
<1>1. PICK m \in {a, b, c} : \A y \in {a, b, c} : m <= y
  OBVIOUS
<1> QED
  BY <1>1 DEF Min

-----------------------------------------------------------------------------
(* Sequences. *)

\* The indices of a sequence, and the type of its elements.
LEMMA SeqElement ==
  ASSUME NEW S, NEW s \in Seq(S)
  PROVE  /\ Len(s) \in Nat /\ DOMAIN s = 1 .. Len(s)
         /\ \A i \in 1 .. Len(s) : s[i] \in S
         /\ s = << >> <=> Len(s) = 0
OBVIOUS

\* A sequence with one element more.
LEMMA SeqAppend ==
  ASSUME NEW S, NEW s \in Seq(S), NEW x \in S
  PROVE  /\ Append(s, x) \in Seq(S) /\ Len(Append(s, x)) = Len(s) + 1
         /\ \A i \in 1 .. Len(s) : Append(s, x)[i] = s[i]
         /\ Append(s, x)[Len(s) + 1] = x
OBVIOUS

-----------------------------------------------------------------------------
(* Folds over sequences: FoldLeft of SequencesExt is a recursion over sets   *)
(* of indices that takes the greatest index last.  Where the operator is     *)
(* given as a function F from A \X B to A, the fold is Left, a recursion     *)
(* over the length.                                                          *)

\* What each prefix of s folds to.
PrefixFold(F, base, s) ==
  CHOOSE g : g = [n \in 0 .. Len(s) |-> IF n = 0 THEN base ELSE F[<<g[n - 1], s[n]>>]]

Left(F, base, s) == PrefixFold(F, base, s)[Len(s)]

\* F folds members of B into values in A.
Folder(F, A, B) == F \in [A \X B -> A]
Folding(F, A, B, base, s) == Folder(F, A, B) /\ base \in A /\ s \in Seq(B)

\* The recursion over the length has a solution, of the type of its values.
LEMMA PrefixesExist ==
  ASSUME NEW A, NEW B, NEW F, NEW base, NEW s, Folding(F, A, B, base, s)
  PROVE  \E g : /\ g = [n \in 0 .. Len(s) |-> IF n = 0 THEN base ELSE F[<<g[n - 1], s[n]>>]]
                /\ \A n \in 0 .. Len(s) : g[n] \in A
<1>0. F \in [A \X B -> A] /\ base \in A /\ s \in Seq(B) /\ Len(s) \in Nat
  BY DEF Folding, Folder
<1> DEFINE Upto(m) == {n \in 0 .. Len(s) : n <= m}
           Step(g, n) == IF n = 0 THEN base ELSE F[<<g[n - 1], s[n]>>]
           N == {m \in Nat : \E g : /\ g = [n \in Upto(m) |-> Step(g, n)]
                                    /\ \A n \in Upto(m) : g[n] \in A}
<1>1. 0 \in N
  <2> DEFINE g == [n \in Upto(0) |-> base]
  <2>1. g = [n \in Upto(0) |-> Step(g, n)] /\ \A n \in Upto(0) : g[n] \in A
    BY <1>0
  <2> QED
    BY <2>1
<1>2. ASSUME NEW m \in Nat, m \in N PROVE m + 1 \in N
  <2>1. PICK g : /\ g = [n \in Upto(m) |-> Step(g, n)]
                 /\ \A n \in Upto(m) : g[n] \in A
    BY <1>2
  <2> DEFINE h == [n \in Upto(m + 1) |-> Step(g, n)]
  <2>2. ASSUME NEW n \in Upto(m + 1)
        PROVE  Step(g, n) = Step(h, n) /\ Step(g, n) \in A
    <3>1. CASE n = 0
      BY <1>0, <3>1
    <3>2. CASE n # 0
      <4>1. n - 1 \in Upto(m) /\ n - 1 \in Upto(m + 1) /\ n \in DOMAIN s
        BY <1>0, <3>2
      <4>2. h[n - 1] = Step(g, n - 1)
        BY <4>1
      <4>3. g[n - 1] = Step(g, n - 1) /\ g[n - 1] \in A
        BY <2>1, <4>1
      <4>4. s[n] \in B
        BY <1>0, <4>1
      <4> HIDE DEF h
      <4>5. Step(g, n) = Step(h, n)
        BY <4>2, <4>3
      <4>6. F[<<g[n - 1], s[n]>>] \in A
        BY <1>0, <4>3, <4>4
      <4> QED
        BY <3>2, <4>5, <4>6
    <3> QED
      BY <3>1, <3>2
  <2>3. h = [n \in Upto(m + 1) |-> Step(h, n)] /\ \A n \in Upto(m + 1) : h[n] \in A
    BY <2>2
  <2>4. m + 1 \in Nat
    OBVIOUS
  <2> HIDE DEF h
  <2> QED
    BY <2>3, <2>4
<1> HIDE DEF N
<1>3. Len(s) \in N
  BY <1>0, <1>1, <1>2, NatSetInduction
<1>4. Upto(Len(s)) = 0 .. Len(s)
  BY <1>0
<1> QED
  BY <1>3, <1>4 DEF N

\* The prefixes of a fold: their values and types.
LEMMA PrefixValues ==
  ASSUME NEW A, NEW B, NEW F, NEW base, NEW s, Folding(F, A, B, base, s)
  PROVE  /\ PrefixFold(F, base, s) \in [0 .. Len(s) -> A]
         /\ PrefixFold(F, base, s)[0] = base
         /\ \A n \in 1 .. Len(s) :
              PrefixFold(F, base, s)[n] = F[<<PrefixFold(F, base, s)[n - 1], s[n]>>]
<1>0. F \in [A \X B -> A] /\ base \in A /\ s \in Seq(B) /\ Len(s) \in Nat
  BY DEF Folding, Folder
<1> DEFINE P == PrefixFold(F, base, s)
           Rec(g) == g = [n \in 0 .. Len(s) |-> IF n = 0 THEN base ELSE F[<<g[n - 1], s[n]>>]]
<1>1. \E g : Rec(g)
  BY PrefixesExist
<1>2. Rec(P)
  BY <1>1 DEF PrefixFold
<1> HIDE DEF P
<1>3. P[0] = base /\ \A n \in 1 .. Len(s) : P[n] = F[<<P[n - 1], s[n]>>]
  BY <1>0, <1>2
<1> DEFINE N == {n \in Nat : n <= Len(s) => P[n] \in A}
<1>4. 0 \in N
  BY <1>0, <1>3
<1>5. ASSUME NEW n \in Nat, n \in N PROVE n + 1 \in N
  <2> SUFFICES ASSUME n + 1 <= Len(s) PROVE P[n + 1] \in A
    OBVIOUS
  <2>1. n + 1 \in 1 .. Len(s) /\ (n + 1) - 1 = n /\ P[n] \in A
    BY <1>0, <1>5
  <2>2. s[n + 1] \in B
    BY <1>0, <2>1
  <2> QED
    BY <1>0, <1>3, <2>1, <2>2
<1> HIDE DEF N
<1>6. Nat \subseteq N
  BY <1>4, <1>5, NatSetInduction
<1>7. \A n \in 0 .. Len(s) : P[n] \in A
  BY <1>6 DEF N
<1>8. P \in [0 .. Len(s) -> A]
  BY <1>2, <1>7
<1> QED
  BY <1>3, <1>8 DEF P

\* Two recursions over the same elements agree.
LEMMA PrefixesAgree ==
  ASSUME NEW A, NEW B, NEW F, NEW base, NEW s, NEW t, NEW m \in Nat,
         Folding(F, A, B, base, s), Folding(F, A, B, base, t),
         m <= Len(s), m <= Len(t),
         \A n \in 1 .. m : s[n] = t[n]
  PROVE  PrefixFold(F, base, s)[m] = PrefixFold(F, base, t)[m]
<1> DEFINE P == PrefixFold(F, base, s)
           Q == PrefixFold(F, base, t)
           N == {n \in Nat : n <= m => P[n] = Q[n]}
<1>1. P[0] = Q[0]
  BY PrefixValues
<1>2. \A n \in 1 .. m : P[n] = F[<<P[n - 1], s[n]>>] /\ Q[n] = F[<<Q[n - 1], t[n]>>]
  <2>1. \A n \in 1 .. m : n \in 1 .. Len(s) /\ n \in 1 .. Len(t)
    OBVIOUS
  <2> QED
    BY <2>1, PrefixValues
<1> HIDE DEF P, Q
<1>3. 0 \in N
  BY <1>1
<1>4. ASSUME NEW n \in Nat, n \in N PROVE n + 1 \in N
  <2> SUFFICES ASSUME n + 1 <= m PROVE P[n + 1] = Q[n + 1]
    OBVIOUS
  <2>1. n + 1 \in 1 .. m /\ (n + 1) - 1 = n /\ P[n] = Q[n]
    BY <1>4
  <2> QED
    BY <1>2, <2>1
<1> HIDE DEF N
<1>5. m \in N
  BY <1>3, <1>4, NatSetInduction
<1> QED
  BY <1>5 DEF N, P, Q

\* The fold of no elements, of one more, and its type.
LEMMA LeftLaws ==
  ASSUME NEW A, NEW B, NEW F, NEW base, NEW s, Folding(F, A, B, base, s)
  PROVE  /\ Left(F, base, s) \in A
         /\ Left(F, base, << >>) = base
         /\ \A x \in B : Left(F, base, Append(s, x)) = F[<<Left(F, base, s), x>>]
<1>0. F \in [A \X B -> A] /\ base \in A /\ s \in Seq(B) /\ Len(s) \in Nat
  BY DEF Folding, Folder
<1>1. Left(F, base, s) \in A
  <2>1. PrefixFold(F, base, s) \in [0 .. Len(s) -> A]
    BY PrefixValues
  <2> QED
    BY <1>0, <2>1 DEF Left
<1>2. Left(F, base, << >>) = base
  <2>1. Folding(F, A, B, base, << >>) /\ Len(<< >>) = 0
    BY DEF Folding
  <2> QED
    BY <2>1, PrefixValues DEF Left
<1>3. ASSUME NEW x \in B
      PROVE  Left(F, base, Append(s, x)) = F[<<Left(F, base, s), x>>]
  <2> DEFINE t == Append(s, x)
             n == Len(s)
  <2>1. /\ t \in Seq(B) /\ Len(t) = n + 1 /\ t[n + 1] = x
        /\ \A i \in 1 .. n : t[i] = s[i]
        /\ n \in Nat /\ Folding(F, A, B, base, t)
    BY <1>0 DEF Folding
  <2> HIDE DEF t, n
  <2>2. PrefixFold(F, base, t)[n + 1] = F[<<PrefixFold(F, base, t)[n], x>>]
    <3>1. n + 1 \in 1 .. Len(t) /\ (n + 1) - 1 = n
      BY <2>1
    <3> QED
      BY <2>1, <3>1, PrefixValues
  <2>3. PrefixFold(F, base, t)[n] = PrefixFold(F, base, s)[n]
    <3>1. n <= Len(t) /\ n <= Len(s)
      BY <2>1 DEF n
    <3>2. \A i \in 1 .. n : t[i] = s[i]
      BY <2>1
    <3>3. Folding(F, A, B, base, t) /\ Folding(F, A, B, base, s) /\ n \in Nat
      BY <2>1
    <3> QED
      BY <3>1, <3>2, <3>3, PrefixesAgree
  <2> QED
    BY <2>1, <2>2, <2>3 DEF Left, t, n
<1> QED
  BY <1>1, <1>2, <1>3

-----------------------------------------------------------------------------
(* From the fold over sets of indices to the fold over the length. *)

\* One step of the library's recursion, on the indices in t.
IndexStep(g, F, base, s, t) ==
  IF t = {} THEN base ELSE F[<<g[t \ {Max(t)}], s[Max(t)]>>]

\* The recursion itself.
IndexFold(g, F, base, s) ==
  g = [t \in SUBSET DOMAIN s |-> IndexStep(g, F, base, s, t)]

\* The last index of a set of indices.
LEMMA LastIndex ==
  ASSUME NEW B, NEW s \in Seq(B), NEW t \in SUBSET DOMAIN s
  PROVE  /\ IsFiniteSet(t) /\ Cardinality(t) \in Nat /\ t \subseteq Int
         /\ Cardinality(t) <= Len(s)
         /\ t # {} => /\ Max(t) \in t /\ s[Max(t)] \in B
                      /\ \A i \in t : i <= Max(t)
                      /\ t \ {Max(t)} \in SUBSET DOMAIN s
                      /\ Cardinality(t \ {Max(t)}) = Cardinality(t) - 1
<1>1. DOMAIN s = 1 .. Len(s) /\ Len(s) \in Nat
  OBVIOUS
<1>2. IsFiniteSet(DOMAIN s) /\ Cardinality(DOMAIN s) = Len(s)
  <2>1. /\ IsFiniteSet(1 .. Len(s))
        /\ Cardinality(1 .. Len(s)) = IF 1 > Len(s) THEN 0 ELSE Len(s) - 1 + 1
    <3>1. 1 \in Int /\ Len(s) \in Int
      BY <1>1
    <3> QED
      BY <3>1, FS_Interval
  <2> QED
    BY <1>1, <2>1
<1>3. IsFiniteSet(t) /\ Cardinality(t) \in Nat /\ Cardinality(t) <= Len(s)
  BY <1>2, FS_Subset, FS_CardinalityType
<1>4. t \subseteq Int
  BY <1>1
<1>5. ASSUME t # {} PROVE Max(t) \in t /\ \A i \in t : i <= Max(t)
  <2>1. Max(t) \in t /\ \A i \in t : Max(t) >= i
    BY <1>3, <1>4, <1>5, MaxOf
  <2> QED
    BY <1>4, <2>1
<1>6. ASSUME t # {} PROVE Cardinality(t \ {Max(t)}) = Cardinality(t) - 1
  BY <1>3, <1>5, <1>6, FS_RemoveElement
<1>7. ASSUME t # {} PROVE s[Max(t)] \in B
  BY <1>5, <1>7
<1> QED
  BY <1>3, <1>4, <1>5, <1>6, <1>7

\* The library's recursion has a solution, built by cardinality.
LEMMA IndexFoldExists ==
  ASSUME NEW A, NEW B, NEW F, NEW base, NEW s, Folding(F, A, B, base, s)
  PROVE  \E g : IndexFold(g, F, base, s) /\ \A t \in SUBSET DOMAIN s : g[t] \in A
<1>0. F \in [A \X B -> A] /\ base \in A /\ s \in Seq(B) /\ Len(s) \in Nat
  BY DEF Folding, Folder
<1> DEFINE Small(n) == {t \in SUBSET DOMAIN s : Cardinality(t) <= n}
           N == {n \in Nat : \E g : /\ g = [t \in Small(n) |-> IndexStep(g, F, base, s, t)]
                                    /\ \A t \in Small(n) : g[t] \in A}
<1>1. 0 \in N
  <2> DEFINE g == [t \in Small(0) |-> base]
  <2>1. ASSUME NEW t \in Small(0) PROVE t = {}
    <3>1. t \in SUBSET DOMAIN s /\ Cardinality(t) <= 0
      OBVIOUS
    <3>2. IsFiniteSet(t) /\ Cardinality(t) \in Nat
      BY <1>0, <3>1, LastIndex
    <3>3. Cardinality(t) = 0
      BY <3>1, <3>2
    <3> QED
      BY <3>2, <3>3, FS_EmptySet
  <2>2. \A t \in Small(0) : IndexStep(g, F, base, s, t) = base
    BY <2>1 DEF IndexStep
  <2>3. g = [t \in Small(0) |-> IndexStep(g, F, base, s, t)]
    BY <2>2
  <2> QED
    BY <1>0, <2>3
<1>2. ASSUME NEW n \in Nat, n \in N PROVE n + 1 \in N
  <2>1. PICK g : /\ g = [t \in Small(n) |-> IndexStep(g, F, base, s, t)]
                 /\ \A t \in Small(n) : g[t] \in A
    BY <1>2
  <2> DEFINE h == [t \in Small(n + 1) |-> IndexStep(g, F, base, s, t)]
  <2>2. ASSUME NEW t \in Small(n + 1)
        PROVE  /\ IndexStep(g, F, base, s, t) = IndexStep(h, F, base, s, t)
               /\ IndexStep(g, F, base, s, t) \in A
    <3>1. CASE t = {}
      BY <1>0, <3>1 DEF IndexStep
    <3>2. CASE t # {}
      <4> DEFINE u == t \ {Max(t)}
      <4>1. u \in SUBSET DOMAIN s /\ Cardinality(u) = Cardinality(t) - 1 /\ s[Max(t)] \in B
        BY <1>0, <3>2, LastIndex
      <4>2. Cardinality(t) \in Nat /\ Cardinality(t) <= n + 1
        BY <1>0, LastIndex
      <4>3. u \in Small(n) /\ u \in Small(n + 1)
        BY <4>1, <4>2
      <4> HIDE DEF u
      <4>4. g[u] = IndexStep(g, F, base, s, u) /\ g[u] \in A
        BY <2>1, <4>3
      <4>5. h[u] = IndexStep(g, F, base, s, u)
        BY <4>3
      <4>6. h[u] = g[u]
        BY <4>4, <4>5
      <4> HIDE DEF h
      <4>7. F[<<g[u], s[Max(t)]>>] \in A
        BY <1>0, <4>1, <4>4
      <4> QED
        BY <3>2, <4>6, <4>7 DEF IndexStep, u
    <3> QED
      BY <3>1, <3>2
  <2>3. h = [t \in Small(n + 1) |-> IndexStep(h, F, base, s, t)]
    BY <2>2
  <2>4. \A t \in Small(n + 1) : h[t] \in A
    BY <2>2
  <2>5. n + 1 \in Nat
    OBVIOUS
  <2> HIDE DEF h
  <2> QED
    BY <2>3, <2>4, <2>5
<1> HIDE DEF N
<1>3. Len(s) \in Nat
  BY <1>0
<1>4. Len(s) \in N
  BY <1>1, <1>2, <1>3, NatSetInduction
<1>5. Small(Len(s)) = SUBSET DOMAIN s
  BY <1>0, LastIndex
<1>6. PICK g : /\ g = [t \in Small(Len(s)) |-> IndexStep(g, F, base, s, t)]
               /\ \A t \in Small(Len(s)) : g[t] \in A
  BY <1>4 DEF N
<1> HIDE DEF Small
<1>7. g = [t \in SUBSET DOMAIN s |-> IndexStep(g, F, base, s, t)]
  BY <1>5, <1>6
<1>8. \A t \in SUBSET DOMAIN s : g[t] \in A
  BY <1>5, <1>6
<1> QED
  BY <1>7, <1>8 DEF IndexFold

\* h follows the recursion wherever its values have the right type.
Follows(h, F, A, base, s) ==
  /\ h[{}] = base
  /\ \A t \in SUBSET DOMAIN s : t # {} /\ h[t \ {Max(t)}] \in A =>
       h[t] = F[<<h[t \ {Max(t)}], s[Max(t)]>>]

\* Then its value for all indices is that of the fold over the length.
LEMMA IndexFoldValue ==
  ASSUME NEW A, NEW B, NEW F, NEW base, NEW s, Folding(F, A, B, base, s),
         NEW h, Follows(h, F, A, base, s)
  PROVE  h[DOMAIN s] = Left(F, base, s)
<1>0. F \in [A \X B -> A] /\ base \in A /\ s \in Seq(B) /\ Len(s) \in Nat
  BY DEF Folding, Folder
<1>A. h[{}] = base
  BY DEF Follows
<1>B. \A t \in SUBSET DOMAIN s : t # {} /\ h[t \ {Max(t)}] \in A =>
           h[t] = F[<<h[t \ {Max(t)}], s[Max(t)]>>]
  BY DEF Follows
<1> DEFINE P == PrefixFold(F, base, s)
           N == {n \in Nat : n <= Len(s) => h[1 .. n] = P[n]}
<1>1. /\ P \in [0 .. Len(s) -> A] /\ P[0] = base
      /\ \A n \in 1 .. Len(s) : P[n] = F[<<P[n - 1], s[n]>>]
  BY PrefixValues
<1> HIDE DEF P
<1>2. 0 \in N
  <2>1. 1 .. 0 = {}
    OBVIOUS
  <2> QED
    BY <1>A, <1>1, <2>1
<1>3. ASSUME NEW n \in Nat, n \in N PROVE n + 1 \in N
  <2> SUFFICES ASSUME n + 1 <= Len(s) PROVE h[1 .. n + 1] = P[n + 1]
    OBVIOUS
  <2> DEFINE t == 1 .. n + 1
  <2>1. t \in SUBSET DOMAIN s /\ t # {} /\ n + 1 \in t
    <3>1. DOMAIN s = 1 .. Len(s)
      BY <1>0
    <3>2. t \subseteq 1 .. Len(s) /\ n + 1 \in t
      BY <1>0
    <3> QED
      BY <3>1, <3>2
  <2>2. Max(t) = n + 1
    <3>1. Max(t) \in t /\ \A i \in t : i <= Max(t)
      <4> HIDE DEF t
      <4> QED
        BY <1>0, <2>1, LastIndex
    <3> QED
      BY <2>1, <3>1
  <2>3. t \ {n + 1} = 1 .. n
    OBVIOUS
  <2>4. h[1 .. n] = P[n] /\ P[n] \in A
    BY <1>0, <1>1, <1>3
  <2> HIDE DEF t
  <2>5. h[t] = F[<<h[1 .. n], s[n + 1]>>]
    BY <1>B, <2>1, <2>2, <2>3, <2>4
  <2>6. P[n + 1] = F[<<P[n], s[n + 1]>>]
    <3>1. n + 1 \in 1 .. Len(s) /\ (n + 1) - 1 = n
      BY <1>0
    <3> QED
      BY <1>1, <3>1
  <2> QED
    BY <2>4, <2>5, <2>6 DEF t
<1> HIDE DEF N
<1>4. Len(s) \in N
  BY <1>0, <1>2, <1>3, NatSetInduction
<1>5. DOMAIN s = 1 .. Len(s)
  BY <1>0
<1> QED
  BY <1>0, <1>4, <1>5 DEF N, P, Left

-----------------------------------------------------------------------------
(* Ranks and double counting. *)

\* The rank of r in D: how many of D come no later in the order R.
RankIn(D, R, r) == Cardinality({q \in D : q = r \/ <<q, r>> \in R})

\* In a strict total order ranks number a finite set from 1, each once.
LEMMA Ranking ==
  ASSUME NEW D, IsFiniteSet(D), NEW R,
         \A x \in D : <<x, x>> \notin R,
         \A x, y \in D : x # y => <<x, y>> \in R \/ <<y, x>> \in R,
         \A x, y, z \in D : <<x, y>> \in R /\ <<y, z>> \in R => <<x, z>> \in R
  PROVE  /\ Cardinality(D) \in Nat
         /\ \A r \in D : RankIn(D, R, r) \in 1 .. Cardinality(D)
         /\ \A i \in 1 .. Cardinality(D) : \E r \in D : RankIn(D, R, r) = i
         /\ \A r, s \in D : RankIn(D, R, r) = RankIn(D, R, s) => r = s
<1> DEFINE n == Cardinality(D)
           Down(r) == {q \in D : q = r \/ <<q, r>> \in R}
           f == [r \in D |-> RankIn(D, R, r)]
<1>1. n \in Nat
  BY FS_CardinalityType
<1>2. ASSUME NEW r \in D
      PROVE  /\ IsFiniteSet(Down(r)) /\ RankIn(D, R, r) = Cardinality(Down(r))
             /\ RankIn(D, R, r) \in 1 .. n
  <2>1. Down(r) \in SUBSET D /\ r \in Down(r)
    OBVIOUS
  <2>2. IsFiniteSet(Down(r)) /\ Cardinality(Down(r)) <= n
    BY <2>1, FS_Subset
  <2>3. Cardinality(Down(r)) \in Nat /\ Cardinality(Down(r)) # 0
    BY <2>1, <2>2, FS_CardinalityType, FS_EmptySet
  <2>4. RankIn(D, R, r) = Cardinality(Down(r))
    BY DEF RankIn
  <2> QED
    BY <1>1, <2>2, <2>3, <2>4
<1>3. ASSUME NEW r \in D, NEW s \in D, <<r, s>> \in R
      PROVE  RankIn(D, R, r) # RankIn(D, R, s)
  <2>1. Down(r) \in SUBSET Down(s)
    <3> SUFFICES ASSUME NEW q \in D, q = r \/ <<q, r>> \in R PROVE <<q, s>> \in R
      OBVIOUS
    <3> QED
      BY <1>3
  <2>2. s \in Down(s) /\ s \notin Down(r)
    BY <1>3
  <2>3. Cardinality(Down(s)) = Cardinality(Down(r)) => Down(s) = Down(r)
    BY <1>2, <2>1, FS_Subset
  <2> QED
    BY <1>2, <2>2, <2>3
<1>4. \A r, s \in D : RankIn(D, R, r) = RankIn(D, R, s) => r = s
  BY <1>3
<1>5. f \in Injection(D, 1 .. n)
  BY <1>2, <1>4 DEF Injection, IsInjective
<1>6. IsFiniteSet(1 .. n) /\ Cardinality(1 .. n) = n
  BY <1>1, FS_Interval
<1>7. f \in Surjection(D, 1 .. n)
  <2> HIDE DEF f
  <2> QED
    BY <1>5, <1>6, FS_Injection
<1>8. \A i \in 1 .. n : \E r \in D : RankIn(D, R, r) = i
  BY <1>7 DEF Surjection
<1> QED
  BY <1>1, <1>2, <1>4, <1>8

-----------------------------------------------------------------------------
(* Products and fractions. *)

\* Multiplying an inequality by a natural, and dividing it by a positive one.
LEMMA Scaling ==
  ASSUME NEW a \in Nat, NEW b \in Nat, NEW c \in Nat
  PROVE  /\ a * c \in Nat /\ b * c \in Nat
         /\ a <= b => a * c <= b * c
         /\ c > 0 /\ a * c <= b * c => a <= b
<1>1. ASSUME NEW x \in Nat, NEW y \in Nat, x <= y PROVE x * c <= y * c
  <2>1. PICK e \in Nat : y = x + e
    <3>1. y - x \in Nat /\ y = x + (y - x)
      BY <1>1
    <3> QED
      BY <3>1
  <2>2. (x + e) * c = x * c + e * c /\ x * c \in Nat /\ e * c \in Nat
    OBVIOUS
  <2> DEFINE p == x * c
             q == e * c
  <2>3. p \in Nat /\ q \in Nat /\ y * c = p + q
    BY <2>1, <2>2
  <2> HIDE DEF p, q
  <2>4. p <= y * c
    BY <2>3
  <2> QED
    BY <2>4 DEF p
<1>2. a * c \in Nat /\ b * c \in Nat
  OBVIOUS
<1>3. ASSUME c > 0, a * c <= b * c, ~ (a <= b) PROVE FALSE
  <2>1. b + 1 <= a /\ b + 1 \in Nat
    BY <1>3
  <2>2. (b + 1) * c <= a * c
    BY <1>1, <2>1
  <2>3. (b + 1) * c = b * c + c
    OBVIOUS
  <2> DEFINE p == a * c
             q == b * c
  <2>4. q + c <= p /\ p <= q /\ p \in Nat /\ q \in Nat
    BY <1>2, <1>3, <2>2, <2>3
  <2> HIDE DEF p, q
  <2> QED
    BY <1>3, <2>4
<1> QED
  BY <1>1, <1>2, <1>3

\* Fractions with positive denominators are ordered by cross multiplication.
LEMMA CrossOrder ==
  ASSUME NEW a \in Nat, NEW b \in Nat, NEW c \in Nat,
         NEW x \in Nat \ {0}, NEW y \in Nat \ {0}, NEW z \in Nat \ {0},
         a * y <= b * x, b * z <= c * y
  PROVE  a * z <= c * x
<1>1. (a * y) * z <= (b * x) * z
  <2>1. a * y \in Nat /\ b * x \in Nat /\ z \in Nat
    OBVIOUS
  <2> DEFINE p == a * y
             q == b * x
  <2> HIDE DEF p, q
  <2>2. p * z <= q * z
    BY <2>1, Scaling DEF p, q
  <2> QED
    BY <2>2 DEF p, q
<1>2. (b * z) * x <= (c * y) * x
  <2>1. b * z \in Nat /\ c * y \in Nat /\ x \in Nat
    OBVIOUS
  <2> DEFINE p == b * z
             q == c * y
  <2> HIDE DEF p, q
  <2>2. p * x <= q * x
    BY <2>1, Scaling DEF p, q
  <2> QED
    BY <2>2 DEF p, q
<1>3. (a * y) * z = (a * z) * y /\ (c * y) * x = (c * x) * y /\ (b * x) * z = (b * z) * x
  OBVIOUS
<1>4. a * z \in Nat /\ c * x \in Nat /\ (a * z) * y \in Nat /\ (c * x) * y \in Nat
      /\ (b * x) * z \in Nat
  OBVIOUS
<1> DEFINE p == a * z
           q == c * x
           m == (b * x) * z
           u == p * y
           v == q * y
<1>5. u <= m /\ m <= v /\ u \in Nat /\ v \in Nat /\ m \in Nat
  BY <1>1, <1>2, <1>3, <1>4
<1>6. u <= v
  <2> HIDE DEF u, v, m
  <2> QED
    BY <1>5
<1>7. p \in Nat /\ q \in Nat /\ y \in Nat /\ y > 0
  BY <1>4
<1> HIDE DEF p, q, m
<1>8. p <= q
  BY <1>6, <1>7, Scaling
<1> QED
  BY <1>8 DEF p, q

-----------------------------------------------------------------------------
(* Sums over classes and over shifted indices. *)

\* The members of I that have the key s.
KeyedBy(k, I, s) == {i \in I : k[i] = s}
KeyedIn(k, I, W) == {i \in I : k[i] \in W}

\* h sums f by key, for the keys of W.
SumsByKey(h, f, k, I, W) == \A s \in W : h[s] = SumFunctionOnSet(f, KeyedBy(k, I, s))

\* Summing by key over a set of keys sums over the members that have one of them.
LEMMA SumByKey ==
  ASSUME NEW I, IsFiniteSet(I), NEW W, IsFiniteSet(W), NEW k, NEW f, NEW h,
         \A i \in I : f[i] \in Int,
         SumsByKey(h, f, k, I, W)
  PROVE  SumFunctionOnSet(h, W) = SumFunctionOnSet(f, KeyedIn(k, I, W))
<1>0. \A s \in W : h[s] = SumFunctionOnSet(f, KeyedBy(k, I, s))
  BY DEF SumsByKey
<1> DEFINE Of(T) == {i \in I : k[i] \in T}
           F == {T \in SUBSET W : SumFunctionOnSet(h, T) = SumFunctionOnSet(f, Of(T))}
<1>1. \A T : IsFiniteSet(Of(T)) /\ \A s : IsFiniteSet(KeyedBy(k, I, s))
  <2>1. \A T : Of(T) \subseteq I
    OBVIOUS
  <2>2. \A s : KeyedBy(k, I, s) \subseteq I
    BY DEF KeyedBy
  <2> HIDE DEF Of
  <2> QED
    BY <2>1, <2>2, FS_Subset
<1>2. \A s \in W : h[s] \in Int
  <2> SUFFICES ASSUME NEW s \in W PROVE h[s] \in Int
    OBVIOUS
  <2>1. \A i \in KeyedBy(k, I, s) : f[i] \in Int
    BY DEF KeyedBy
  <2> QED
    BY <1>0, <1>1, <2>1, SumType
<1>3. {} \in F
  <2>1. Of({}) = {}
    OBVIOUS
  <2> QED
    BY <2>1, SumEmpty
<1>4. ASSUME NEW T \in SUBSET W, NEW w \in W, T \in F, w \notin T
      PROVE  T \cup {w} \in F
  <2>1. Of(T \cup {w}) = Of(T) \cup KeyedBy(k, I, w) /\ Of(T) \cap KeyedBy(k, I, w) = {}
    BY <1>4 DEF KeyedBy
  <2>2. \A i \in Of(T) \cup KeyedBy(k, I, w) : f[i] \in Int
    BY DEF KeyedBy
  <2>3. SumFunctionOnSet(h, T) = SumFunctionOnSet(f, Of(T))
    BY <1>4
  <2>4. IsFiniteSet(T) /\ \A y \in T \cup {w} : h[y] \in Int
    BY <1>2, <1>4, FS_Subset
  <2> HIDE DEF Of
  <2>5. SumFunctionOnSet(f, Of(T) \cup KeyedBy(k, I, w))
          = SumFunctionOnSet(f, Of(T)) + SumFunctionOnSet(f, KeyedBy(k, I, w))
    BY <1>1, <2>1, <2>2, SumUnion
  <2>6. SumFunctionOnSet(h, T \cup {w}) = SumFunctionOnSet(h, T) + h[w]
    BY <1>4, <2>4, SumAdd
  <2>7. SumFunctionOnSet(h, T \cup {w}) = SumFunctionOnSet(f, Of(T \cup {w}))
    BY <1>0, <1>4, <2>1, <2>3, <2>5, <2>6
  <2> QED
    BY <1>4, <2>7
<1>5. W \in F
  <2> HIDE DEF F
  <2> QED
    BY <1>3, <1>4, FiniteSetInduction
<1> QED
  BY <1>5 DEF KeyedIn

\* The cardinality of two sets without a common member.
LEMMA CardDisjoint ==
  ASSUME NEW D, NEW E, IsFiniteSet(D), IsFiniteSet(E), D \cap E = {}
  PROVE  /\ IsFiniteSet(D \cup E)
         /\ Cardinality(D \cup E) = Cardinality(D) + Cardinality(E)
<1>1. IsFiniteSet(D \cup E) /\ Cardinality(D \cup E)
        = Cardinality(D) + Cardinality(E) - Cardinality(D \cap E)
  BY FS_Union
<1>2. Cardinality(D \cap E) = 0
  BY FS_EmptySet
<1> QED
  BY <1>1, <1>2, FS_CardinalityType

\* Counting by key counts the members that have one of the keys.
LEMMA CountByKey ==
  ASSUME NEW I, IsFiniteSet(I), NEW W, IsFiniteSet(W), NEW k, NEW h,
         \A s \in W : h[s] = Cardinality(KeyedBy(k, I, s))
  PROVE  SumFunctionOnSet(h, W) = Cardinality(KeyedIn(k, I, W))
<1> DEFINE Of(T) == {i \in I : k[i] \in T}
           F == {T \in SUBSET W : SumFunctionOnSet(h, T) = Cardinality(Of(T))}
<1>1. \A T : IsFiniteSet(Of(T)) /\ \A s : IsFiniteSet(KeyedBy(k, I, s))
  <2>1. \A T : Of(T) \subseteq I
    OBVIOUS
  <2>2. \A s : KeyedBy(k, I, s) \subseteq I
    BY DEF KeyedBy
  <2> HIDE DEF Of
  <2> QED
    BY <2>1, <2>2, FS_Subset
<1>2. \A s \in W : h[s] \in Int
  <2> SUFFICES ASSUME NEW s \in W PROVE h[s] \in Int
    OBVIOUS
  <2>1. Cardinality(KeyedBy(k, I, s)) \in Nat
    BY <1>1, FS_CardinalityType
  <2>2. h[s] = Cardinality(KeyedBy(k, I, s))
    OBVIOUS
  <2> HIDE DEF Of, F
  <2> QED
    BY <2>1, <2>2
<1>3. {} \in F
  <2>1. Of({}) = {}
    OBVIOUS
  <2> QED
    BY <2>1, SumEmpty, FS_EmptySet
<1>4. ASSUME NEW T \in SUBSET W, NEW w \in W, T \in F, w \notin T
      PROVE  T \cup {w} \in F
  <2>1. Of(T \cup {w}) = Of(T) \cup KeyedBy(k, I, w) /\ Of(T) \cap KeyedBy(k, I, w) = {}
    BY <1>4 DEF KeyedBy
  <2>3. SumFunctionOnSet(h, T) = Cardinality(Of(T))
    BY <1>4
  <2>4. IsFiniteSet(T) /\ \A y \in T \cup {w} : h[y] \in Int
    BY <1>2, <1>4, FS_Subset
  <2> HIDE DEF Of
  <2>5. Cardinality(Of(T) \cup KeyedBy(k, I, w))
          = Cardinality(Of(T)) + Cardinality(KeyedBy(k, I, w))
    BY <1>1, <2>1, CardDisjoint
  <2>6. SumFunctionOnSet(h, T \cup {w}) = SumFunctionOnSet(h, T) + h[w]
    BY <1>4, <2>4, SumAdd
  <2>7. SumFunctionOnSet(h, T \cup {w}) = Cardinality(Of(T \cup {w}))
    BY <1>4, <2>1, <2>3, <2>5, <2>6
  <2> QED
    BY <1>4, <2>7
<1>5. W \in F
  <2> HIDE DEF F
  <2> QED
    BY <1>3, <1>4, FiniteSetInduction
<1> QED
  BY <1>5 DEF KeyedIn

\* The indices of J, n further on.
Shifted(n, J) == {n + j : j \in J}

\* Shifting indices keeps their number and what they sum to.
LEMMA SumShifted ==
  ASSUME NEW n \in Nat, NEW J, IsFiniteSet(J), J \subseteq Int, NEW f, NEW g,
         \A j \in J : f[j] \in Int /\ g[n + j] = f[j]
  PROVE  /\ IsFiniteSet(Shifted(n, J)) /\ Cardinality(Shifted(n, J)) = Cardinality(J)
         /\ SumFunctionOnSet(g, Shifted(n, J)) = SumFunctionOnSet(f, J)
<1> DEFINE F == {T \in SUBSET J :
                  /\ IsFiniteSet(Shifted(n, T)) /\ Cardinality(Shifted(n, T)) = Cardinality(T)
                  /\ SumFunctionOnSet(g, Shifted(n, T)) = SumFunctionOnSet(f, T)}
<1>1. {} \in F
  <2>1. Shifted(n, {}) = {}
    BY DEF Shifted
  <2> QED
    BY <2>1, SumEmpty, FS_EmptySet
<1>2. ASSUME NEW T \in SUBSET J, NEW x \in J, T \in F, x \notin T
      PROVE  T \cup {x} \in F
  <2>1. Shifted(n, T \cup {x}) = Shifted(n, T) \cup {n + x} /\ n + x \notin Shifted(n, T)
    BY <1>2 DEF Shifted
  <2>2. /\ IsFiniteSet(T) /\ IsFiniteSet(Shifted(n, T))
        /\ Cardinality(Shifted(n, T)) = Cardinality(T)
        /\ SumFunctionOnSet(g, Shifted(n, T)) = SumFunctionOnSet(f, T)
    BY <1>2, FS_Subset
  <2>3. /\ \A y \in T \cup {x} : f[y] \in Int
        /\ \A y \in Shifted(n, T) \cup {n + x} : g[y] \in Int
        /\ g[n + x] = f[x]
    BY <1>2 DEF Shifted
  <2>4. /\ IsFiniteSet(Shifted(n, T) \cup {n + x})
        /\ Cardinality(Shifted(n, T) \cup {n + x}) = Cardinality(Shifted(n, T)) + 1
        /\ Cardinality(T \cup {x}) = Cardinality(T) + 1
    BY <1>2, <2>1, <2>2, FS_AddElement
  <2>5. SumFunctionOnSet(g, Shifted(n, T) \cup {n + x})
          = SumFunctionOnSet(g, Shifted(n, T)) + g[n + x]
    BY <2>1, <2>2, <2>3, SumAdd
  <2>6. SumFunctionOnSet(f, T \cup {x}) = SumFunctionOnSet(f, T) + f[x]
    BY <1>2, <2>2, <2>3, SumAdd
  <2>7. /\ IsFiniteSet(Shifted(n, T \cup {x}))
        /\ Cardinality(Shifted(n, T \cup {x})) = Cardinality(T \cup {x})
        /\ SumFunctionOnSet(g, Shifted(n, T \cup {x})) = SumFunctionOnSet(f, T \cup {x})
    BY <2>1, <2>2, <2>3, <2>4, <2>5, <2>6
  <2> QED
    BY <1>2, <2>7
<1>3. J \in F
  <2> HIDE DEF F
  <2> QED
    BY <1>1, <1>2, FiniteSetInduction
<1> QED
  BY <1>3

\* Summing termwise sums adds the sums.
LEMMA SumPlus ==
  ASSUME NEW D, IsFiniteSet(D), NEW f, NEW g, NEW h,
         \A x \in D : f[x] \in Int /\ g[x] \in Int /\ h[x] = f[x] + g[x]
  PROVE  SumFunctionOnSet(h, D) = SumFunctionOnSet(f, D) + SumFunctionOnSet(g, D)
<1> DEFINE F == {T \in SUBSET D : SumFunctionOnSet(h, T)
                                    = SumFunctionOnSet(f, T) + SumFunctionOnSet(g, T)}
<1>1. {} \in F
  BY SumEmpty
<1>2. ASSUME NEW T \in SUBSET D, NEW x \in D, T \in F, x \notin T
      PROVE  T \cup {x} \in F
  <2>1. IsFiniteSet(T) /\ \A y \in T \cup {x} : f[y] \in Int /\ g[y] \in Int /\ h[y] \in Int
    BY FS_Subset
  <2>2. SumFunctionOnSet(f, T \cup {x}) = SumFunctionOnSet(f, T) + f[x]
    BY <1>2, <2>1, SumAdd
  <2>3. SumFunctionOnSet(g, T \cup {x}) = SumFunctionOnSet(g, T) + g[x]
    BY <1>2, <2>1, SumAdd
  <2>4. SumFunctionOnSet(h, T \cup {x}) = SumFunctionOnSet(h, T) + h[x]
    BY <1>2, <2>1, SumAdd
  <2>5. SumFunctionOnSet(f, T) \in Int /\ SumFunctionOnSet(g, T) \in Int
    BY <2>1, SumType
  <2>6. /\ h[x] = f[x] + g[x] /\ f[x] \in Int /\ g[x] \in Int
        /\ SumFunctionOnSet(h, T) = SumFunctionOnSet(f, T) + SumFunctionOnSet(g, T)
    BY <1>2
  <2>7. SumFunctionOnSet(h, T \cup {x})
          = SumFunctionOnSet(f, T \cup {x}) + SumFunctionOnSet(g, T \cup {x})
    BY <2>2, <2>3, <2>4, <2>5, <2>6
  <2> QED
    BY <2>7
<1>3. D \in F
  <2> HIDE DEF F
  <2> QED
    BY <1>1, <1>2, FiniteSetInduction
<1> QED
  BY <1>3

\* The sum of naturals is a natural.
LEMMA SumNat ==
  ASSUME NEW f, NEW D, IsFiniteSet(D), \A x \in D : f[x] \in Nat
  PROVE  SumFunctionOnSet(f, D) \in Nat
<1> DEFINE F == {T \in SUBSET D : SumFunctionOnSet(f, T) \in Nat}
<1>1. {} \in F
  BY SumEmpty
<1>2. ASSUME NEW T \in SUBSET D, NEW x \in D, T \in F, x \notin T
      PROVE  T \cup {x} \in F
  <2>1. IsFiniteSet(T) /\ \A y \in T \cup {x} : f[y] \in Int
    BY FS_Subset
  <2>2. SumFunctionOnSet(f, T \cup {x}) = SumFunctionOnSet(f, T) + f[x]
    BY <1>2, <2>1, SumAdd
  <2> QED
    BY <1>2, <2>2
<1>3. D \in F
  <2> HIDE DEF F
  <2> QED
    BY <1>1, <1>2, FiniteSetInduction
<1> QED
  BY <1>3

=============================================================================
