------------------------ MODULE DocumentSearch_proofs ------------------------
(***************************************************************************)
(* Proofs about RagIndex and DocumentSearch, for any documents, limits,    *)
(* batch size, embedding configurations, builds and questions: the chunks  *)
(* lose nothing of a document, what a manifest publishes is whole, a       *)
(* search that is called hybrid searched the vectors of what it read, and  *)
(* what an answer is written from fits and tells what it lacks.            *)
(***************************************************************************)
EXTENDS DocumentSearch, FiniteSetTheorems, SequenceTheorems, WellFoundedInduction, TLAPS

-----------------------------------------------------------------------------
(* Lists in an order *)

\* How many come before each, of a finite set in a strict total order R.
TotalOn(S, R) ==
  \A x, y \in S : /\ <<x, x>> \notin R
                  /\ x # y => <<x, y>> \in R \/ <<y, x>> \in R
                  /\ \A z \in S : <<x, y>> \in R /\ <<y, z>> \in R => <<x, z>> \in R
Before1(S, R, x) == {y \in S : <<y, x>> \in R}

LEMMA FewerBefore ==
  ASSUME NEW S, IsFiniteSet(S), NEW R, TotalOn(S, R), NEW x \in S
  PROVE  /\ Cardinality(Before1(S, R, x)) \in 0..(Cardinality(S) - 1)
         /\ \A z \in S : <<x, z>> \in R => Cardinality(Before1(S, R, x)) < Cardinality(Before1(S, R, z))
<1>1. ASSUME NEW T, IsFiniteSet(T), Before1(S, R, x) \subseteq T, x \in T
      PROVE  Cardinality(Before1(S, R, x)) \in Nat /\ Cardinality(T) \in Nat
             /\ Cardinality(Before1(S, R, x)) < Cardinality(T)
  <2>1. x \notin Before1(S, R, x)
    BY DEF TotalOn, Before1
  <2> HIDE DEF Before1
  <2>2. /\ IsFiniteSet(Before1(S, R, x)) /\ Cardinality(Before1(S, R, x)) <= Cardinality(T)
        /\ Cardinality(Before1(S, R, x)) = Cardinality(T) => Before1(S, R, x) = T
    BY <1>1, FS_Subset
  <2>3. Cardinality(Before1(S, R, x)) \in Nat /\ Cardinality(T) \in Nat
    BY <1>1, <2>2, FS_CardinalityType
  <2> QED BY <1>1, <2>1, <2>2, <2>3
<1>2. Before1(S, R, x) \subseteq S
  BY DEF Before1
<1>3. ASSUME NEW z \in S, <<x, z>> \in R
      PROVE  Cardinality(Before1(S, R, x)) < Cardinality(Before1(S, R, z))
  <2>1. Before1(S, R, x) \subseteq Before1(S, R, z) /\ x \in Before1(S, R, z)
    BY <1>3 DEF Before1, TotalOn
  <2>2. Before1(S, R, z) \subseteq S
    BY DEF Before1
  <2>3. IsFiniteSet(Before1(S, R, z))
    BY <2>2, FS_Subset
  <2> QED BY <1>1, <2>1, <2>3
<1> QED BY <1>1, <1>2, <1>3

LEMMA EachPlaceTaken ==
  ASSUME NEW S, IsFiniteSet(S), NEW R, TotalOn(S, R)
  PROVE  /\ \A x, z \in S : Cardinality(Before1(S, R, x)) = Cardinality(Before1(S, R, z)) => x = z
         /\ \A k \in 0..(Cardinality(S) - 1) : \E x \in S : Cardinality(Before1(S, R, x)) = k
<1>1. ASSUME NEW x \in S, NEW z \in S, x # z
      PROVE  Cardinality(Before1(S, R, x)) # Cardinality(Before1(S, R, z))
  <2>1. <<x, z>> \in R \/ <<z, x>> \in R
    BY <1>1 DEF TotalOn
  <2>2. \A a \in S : Cardinality(Before1(S, R, a)) \in 0..(Cardinality(S) - 1)
    BY FewerBefore
  <2>3. \A a, b \in S : <<a, b>> \in R => Cardinality(Before1(S, R, a)) < Cardinality(Before1(S, R, b))
    BY FewerBefore
  <2>4. Cardinality(S) \in Nat
    BY FS_CardinalityType
  <2> QED BY <2>1, <2>2, <2>3, <2>4
<1>2. ASSUME NEW k \in 0..(Cardinality(S) - 1), \A x \in S : Cardinality(Before1(S, R, x)) # k
      PROVE  FALSE
  <2> DEFINE T == (0..(Cardinality(S) - 1)) \ {k}
             pos == [x \in S |-> Cardinality(Before1(S, R, x))]
  <2>1. pos \in [S -> T]
    BY <1>2, FewerBefore
  <2>2. Cardinality(S) \in Nat
    BY FS_CardinalityType
  <2>3. IsFiniteSet(0..(Cardinality(S) - 1)) /\ Cardinality(0..(Cardinality(S) - 1)) = Cardinality(S)
    <3> DEFINE c == Cardinality(S)
    <3>1. c \in Nat
      BY <2>2
    <3> HIDE DEF c
    <3>2. IsFiniteSet(0..(c - 1)) /\ Cardinality(0..(c - 1)) = c
      BY <3>1, FS_Interval
    <3> QED BY <3>2 DEF c
  <2>4. IsFiniteSet(T) /\ Cardinality(T) = Cardinality(S) - 1
    <3> DEFINE I == 0..(Cardinality(S) - 1)
    <3>1. IsFiniteSet(I) /\ Cardinality(I) = Cardinality(S) /\ k \in I
      BY <2>3
    <3> HIDE DEF I
    <3>2. IsFiniteSet(I \ {k}) /\ Cardinality(I \ {k}) = Cardinality(I) - 1
      BY <3>1, FS_RemoveElement
    <3> QED BY <3>1, <3>2 DEF I
  <2> HIDE DEF T
  <2>5. \E x, y \in S : x # y /\ pos[x] = pos[y]
    <3> HIDE DEF pos
    <3> QED BY <2>1, <2>2, <2>4, FS_PigeonHole
  <2> QED BY <2>5, <1>1
<1> QED BY <1>1, <1>2

\* A list without a repetition.
NoRepeat(list) == \A m, n \in DOMAIN list : list[m] = list[n] => m = n

\* A list whose k-th element has k - 1 elements before it has each of them once,
\* in their order.
PlacedIn(f, S, R) ==
  /\ f = [k \in 1..Cardinality(S) |-> f[k]]
  /\ \A k \in 1..Cardinality(S) :
       (\E x \in S : Cardinality(Before1(S, R, x)) = k - 1)
       => f[k] \in S /\ Cardinality(Before1(S, R, f[k])) = k - 1

LEMMA Ordered ==
  ASSUME NEW S, IsFiniteSet(S), NEW R, TotalOn(S, R), NEW f, PlacedIn(f, S, R)
  PROVE  /\ f \in Seq(S) /\ Len(f) = Cardinality(S) /\ NoRepeat(f)
         /\ \A k \in DOMAIN f : f[k] \in S
         /\ \A x \in S : \E k \in DOMAIN f : f[k] = x
         /\ \A k, n \in DOMAIN f : k < n => <<f[k], f[n]>> \in R
<1> DEFINE c == Cardinality(S)
<1>1. c \in Nat
  BY FS_CardinalityType
<1>2. DOMAIN f = 1..c
  BY DEF PlacedIn
<1>3. \A k \in 1..c : f[k] \in S /\ Cardinality(Before1(S, R, f[k])) = k - 1
  <2> TAKE k \in 1..c
  <2>1. k - 1 \in 0..(c - 1)
    BY <1>1
  <2> HIDE DEF c
  <2>2. \E x \in S : Cardinality(Before1(S, R, x)) = k - 1
    <3>1. \A i \in 0..(c - 1) : \E x \in S : Cardinality(Before1(S, R, x)) = i
      BY EachPlaceTaken DEF c
    <3> QED BY <2>1, <3>1
  <2> QED BY <2>2 DEF c, PlacedIn
<1>4. \A x \in S : \E k \in 1..c : f[k] = x
  <2> TAKE x \in S
  <2>1. Cardinality(Before1(S, R, x)) \in 0..(c - 1)
    BY FewerBefore
  <2> DEFINE k == Cardinality(Before1(S, R, x)) + 1
  <2>2. k \in 1..c /\ k - 1 = Cardinality(Before1(S, R, x))
    BY <2>1, <1>1
  <2>3. Cardinality(Before1(S, R, f[k])) = Cardinality(Before1(S, R, x)) /\ f[k] \in S
    BY <2>2, <1>3
  <2>4. f[k] = x
    BY <2>3, EachPlaceTaken
  <2> QED BY <2>2, <2>4
<1>5. ASSUME NEW k \in 1..c, NEW n \in 1..c, k < n PROVE <<f[k], f[n]>> \in R /\ f[k] # f[n]
  <2>1. f[k] \in S /\ f[n] \in S /\ Cardinality(Before1(S, R, f[k])) = k - 1
        /\ Cardinality(Before1(S, R, f[n])) = n - 1
    BY <1>3
  <2>2. <<f[n], f[k]>> \in R => n - 1 < k - 1
    <3>1. \A a, b \in S : <<a, b>> \in R => Cardinality(Before1(S, R, a)) < Cardinality(Before1(S, R, b))
      BY FewerBefore
    <3> QED BY <2>1, <3>1
  <2>3. f[k] # f[n]
    BY <2>1, <1>5
  <2>4. ~(<<f[n], f[k]>> \in R)
    BY <2>2, <1>5
  <2> QED BY <2>1, <2>3, <2>4 DEF TotalOn
<1> HIDE DEF c
<1>6. NoRepeat(f)
  <2>1. \A k, n \in 1..c : k # n => k < n \/ n < k
    BY <1>1
  <2> QED BY <1>2, <1>5, <2>1 DEF NoRepeat
<1>7. f \in Seq(S) /\ Len(f) = c
  <2>1. f = [k \in 1..c |-> f[k]]
    BY DEF PlacedIn, c
  <2>2. f \in [1..c -> S]
    BY <1>3, <2>1
  <2> QED BY <1>1, <2>2
<1> QED BY <1>2, <1>3, <1>4, <1>5, <1>6, <1>7 DEF c

LEMMA LessIsTotal ==
  ASSUME NEW S \in SUBSET Int, NEW R, \A x, y \in S : <<x, y>> \in R <=> x < y
  PROVE  TotalOn(S, R)
<1>1. ASSUME NEW x \in S, NEW y \in S, NEW z \in S
      PROVE  /\ <<x, x>> \notin R
             /\ x # y => <<x, y>> \in R \/ <<y, x>> \in R
             /\ <<x, y>> \in R /\ <<y, z>> \in R => <<x, z>> \in R
  <2>1. x \in Int /\ y \in Int /\ z \in Int
    OBVIOUS
  <2>2. (<<x, x>> \in R <=> x < x) /\ (<<x, y>> \in R <=> x < y) /\ (<<y, x>> \in R <=> y < x)
        /\ (<<y, z>> \in R <=> y < z) /\ (<<x, z>> \in R <=> x < z)
    OBVIOUS
  <2> QED BY <2>1, <2>2
<1> QED BY <1>1 DEF TotalOn

\* Numbers in their order.
Sorted(S) == InOrder(S, <)

LEMMA NumbersInOrder ==
  ASSUME NEW S \in SUBSET Int, IsFiniteSet(S)
  PROVE  /\ DOMAIN Sorted(S) = 1..Cardinality(S)
         /\ \A k \in DOMAIN Sorted(S) : Sorted(S)[k] \in S
         /\ \A x \in S : \E k \in DOMAIN Sorted(S) : Sorted(S)[k] = x
         /\ \A k, n \in DOMAIN Sorted(S) : k < n => Sorted(S)[k] < Sorted(S)[n]
<1> DEFINE f == Sorted(S)
           R == {p \in S \X S : p[1] < p[2]}
<1>1. \A x, y \in S : <<x, y>> \in R <=> x < y
  OBVIOUS
<1> HIDE DEF R
<1>3. TotalOn(S, R)
  BY <1>1, LessIsTotal
<1>4. \A x \in S : {y \in S : y < x} = Before1(S, R, x)
  BY <1>1 DEF Before1
<1>5. DOMAIN f = 1..Cardinality(S)
  BY DEF Sorted, InOrder
<1>6. ASSUME NEW k \in DOMAIN f, NEW w \in S, Cardinality(Before1(S, R, w)) = k - 1
      PROVE  f[k] \in S /\ Cardinality(Before1(S, R, f[k])) = k - 1
  <2>1. \E x \in S : Cardinality({y \in S : y < x}) = k - 1
    BY <1>4, <1>6
  <2>2. f[k] = CHOOSE x \in S : Cardinality({y \in S : y < x}) = k - 1
    BY <1>5 DEF Sorted, InOrder
  <2> HIDE DEF f
  <2>3. f[k] \in S /\ Cardinality({y \in S : y < f[k]}) = k - 1
    BY <2>1, <2>2
  <2> QED BY <2>3, <1>4
<1>6a. PlacedIn(f, S, R)
  <2> DEFINE e(k) == CHOOSE x \in S : Cardinality({y \in S : y < x}) = k - 1
  <2>1. f = [k \in 1..Cardinality(S) |-> e(k)]
    BY DEF Sorted, InOrder
  <2> HIDE DEF e, f
  <2>2. f = [k \in 1..Cardinality(S) |-> f[k]]
    BY <2>1
  <2> QED BY <1>5, <1>6, <2>2 DEF PlacedIn
<1> HIDE DEF f
<1>7. /\ \A k \in DOMAIN f : f[k] \in S
      /\ \A x \in S : \E k \in DOMAIN f : f[k] = x
      /\ \A k, n \in DOMAIN f : k < n => <<f[k], f[n]>> \in R
  BY <1>3, <1>6a, Ordered
<1>8. \A k, n \in DOMAIN f : k < n => f[k] < f[n]
  BY <1>1, <1>7
<1> QED BY <1>5, <1>7, <1>8 DEF f

-----------------------------------------------------------------------------
(* Folds over a list *)

\* A set of natural numbers has a least one.
LEMMA Least ==
  ASSUME NEW S \in SUBSET Nat, S # {}
  PROVE  \E n \in S : \A m \in S : n <= m
<1> DEFINE T == {0..n : n \in S}
<1>1. ASSUME NEW t \in T PROVE t \in FiniteSubsetsOf(Nat)
  <2>1. PICK n \in S : t = 0..n OBVIOUS
  <2>2. IsFiniteSet(0..n) BY FS_Interval
  <2> QED BY <2>1, <2>2 DEF FiniteSubsetsOf
<1>2. \E x \in T : \A y \in T : ~(<<y, x>> \in StrictSubsetOrdering(Nat))
  <2>1. T # {} OBVIOUS
  <2> HIDE DEF T
  <2>2. T \subseteq FiniteSubsetsOf(Nat)
    BY <1>1
  <2> QED BY <2>2, <2>1, FS_StrictSubsetOrderingWellFounded, WFMin
<1>3. PICK n \in S : \A m \in S : ~(<<0..m, 0..n>> \in StrictSubsetOrdering(Nat))
  BY <1>2
<1>4. ASSUME NEW m \in S, m < n PROVE FALSE
  <2>1. 0..m \subseteq 0..n /\ n \in 0..n /\ n \notin 0..m
    BY <1>4
  <2>2. <<0..m, 0..n>> \in StrictSubsetOrdering(Nat)
    BY <2>1 DEF StrictSubsetOrdering
  <2> QED BY <2>2, <1>3
<1> QED BY <1>4

\* Induction, over the members of a set.
LEMMA Climb ==
  ASSUME NEW S, 0 \in S, \A n \in Nat : n \in S => n + 1 \in S
  PROVE  Nat \subseteq S
<1>1. ASSUME NEW m \in Nat, m \notin S PROVE FALSE
  <2> DEFINE B == Nat \ S
  <2>1. PICK n \in B : \A k \in B : n <= k
    <3>1. B \in SUBSET Nat /\ B # {} BY <1>1
    <3> HIDE DEF B
    <3> QED BY <3>1, Least
  <2>2. n # 0 BY <2>1
  <2>3. n - 1 \in Nat /\ n - 1 \in S BY <2>1, <2>2
  <2> QED BY <2>3, <2>1
<1> QED BY <1>1

\* The greatest of some numbers up to n.
LEMMA MaxIn ==
  ASSUME NEW n \in Nat, NEW T \in SUBSET (1..n), T # {}
  PROVE  Max(T) \in T /\ \A t \in T : t <= Max(T)
<1> DEFINE B == {n - t : t \in T}
<1>1. B \in SUBSET Nat /\ B # {}
  <2>1. \A t \in T : n - t \in Nat
    OBVIOUS
  <2>2. PICK t \in T : TRUE
    OBVIOUS
  <2> QED BY <2>1, <2>2
<1>2. PICK b \in B : \A c \in B : b <= c
  <2> HIDE DEF B
  <2> QED BY <1>1, Least
<1>3. PICK t \in T : b = n - t
  BY <1>2
<1>4. \A u \in T : t >= u
  <2> TAKE u \in T
  <2>1. n - u \in B
    OBVIOUS
  <2> QED BY <2>1, <1>2, <1>3
<1>5. Max(T) \in T /\ \A u \in T : Max(T) >= u
  BY <1>3, <1>4 DEF Max
<1> QED BY <1>5

\* The parts of the places 1..n.
LEMMA PartsOf ==
  ASSUME NEW n \in Nat
  PROVE  /\ \A T \in SUBSET (1..n) : IsFiniteSet(T) /\ Cardinality(T) \in Nat /\ Cardinality(T) <= n
         /\ \A T \in SUBSET (1..n) : \A x \in T : Cardinality(T \ {x}) = Cardinality(T) - 1
         /\ \A T \in SUBSET (1..n) : (Cardinality(T) = 0 <=> T = {})
<1> DEFINE D == 1..n
<1>1. IsFiniteSet(D) /\ Cardinality(D) = n
  BY FS_Interval
<1>2. ASSUME NEW T \in SUBSET D PROVE IsFiniteSet(T) /\ Cardinality(T) \in Nat /\ Cardinality(T) <= n
  <2> HIDE DEF D
  <2>1. IsFiniteSet(T) /\ Cardinality(T) <= Cardinality(D)
    BY <1>1, FS_Subset
  <2> QED BY <1>1, <2>1, FS_CardinalityType
<1>3. ASSUME NEW T \in SUBSET D, NEW x \in T PROVE Cardinality(T \ {x}) = Cardinality(T) - 1
  BY <1>2, FS_RemoveElement
<1>4. ASSUME NEW T \in SUBSET D PROVE Cardinality(T) = 0 <=> T = {}
  BY <1>2, FS_EmptySet
<1> QED BY <1>2, <1>3, <1>4

\* What a fold over places 1..n goes through.
Stage(D, n) == {T \in SUBSET D : Cardinality(T) <= n}
FoldsUpTo(h, V, base, G, D) ==
  \A T \in DOMAIN h : h[T] = IF T = {} THEN base ELSE G[<<h[T \ {Max(T)}], Max(T)>>]

\* There is such a fold.
LEMMA FoldExists ==
  ASSUME NEW V, NEW base \in V, NEW n \in Nat, NEW G \in [V \X (1..n) -> V]
  PROVE  \E h \in [SUBSET (1..n) -> V] : FoldsUpTo(h, V, base, G, 1..n)
<1> DEFINE D == 1..n
           S == {k \in Nat : \E h \in [Stage(D, k) -> V] : FoldsUpTo(h, V, base, G, D)}
<1>0. /\ \A T \in SUBSET D : Cardinality(T) \in Nat /\ Cardinality(T) <= n
      /\ \A T \in SUBSET D : \A x \in T : Cardinality(T \ {x}) = Cardinality(T) - 1
      /\ \A T \in SUBSET D : (Cardinality(T) = 0 <=> T = {})
  BY PartsOf
<1>1. 0 \in S
  <2> DEFINE h == [T \in Stage(D, 0) |-> base]
  <2>1. \A T \in Stage(D, 0) : T = {}
    BY <1>0 DEF Stage
  <2>2. FoldsUpTo(h, V, base, G, D)
    BY <2>1 DEF FoldsUpTo
  <2> QED BY <2>2
<1>2. ASSUME NEW k \in Nat, k \in S PROVE k + 1 \in S
  <2>1. PICK h \in [Stage(D, k) -> V] : FoldsUpTo(h, V, base, G, D)
    BY <1>2
  <2> DEFINE g == [T \in Stage(D, k + 1) |-> IF T = {} THEN base ELSE G[<<h[T \ {Max(T)}], Max(T)>>]]
  <2>2. ASSUME NEW T \in Stage(D, k + 1), T # {}
        PROVE  Max(T) \in T /\ Max(T) \in D /\ T \ {Max(T)} \in Stage(D, k) /\ T \ {Max(T)} \in Stage(D, k + 1)
    <3>1. T \in SUBSET D /\ Cardinality(T) <= k + 1
      BY DEF Stage
    <3>2. Max(T) \in T /\ Max(T) \in D
      BY <2>2, <3>1, MaxIn
    <3>3. Cardinality(T \ {Max(T)}) = Cardinality(T) - 1 /\ Cardinality(T) \in Nat
      BY <3>1, <3>2, <1>0
    <3>4. T \ {Max(T)} \in SUBSET D
      BY <3>1
    <3>5. Cardinality(T \ {Max(T)}) <= k /\ Cardinality(T \ {Max(T)}) <= k + 1
      BY <3>1, <3>3
    <3> QED BY <3>2, <3>4, <3>5 DEF Stage
  <2>3. g \in [Stage(D, k + 1) -> V]
    <3> SUFFICES ASSUME NEW T \in Stage(D, k + 1) PROVE g[T] \in V
      OBVIOUS
    <3>1. CASE T = {}
      BY <3>1
    <3>2. CASE T # {}
      BY <3>2, <2>2, <2>1
    <3> QED BY <3>1, <3>2
  <2>4. \A T \in Stage(D, k) : T \in Stage(D, k + 1) /\ g[T] = h[T]
    <3> TAKE T \in Stage(D, k)
    <3>1. T \in Stage(D, k + 1)
      BY <1>0 DEF Stage
    <3>2. h[T] = IF T = {} THEN base ELSE G[<<h[T \ {Max(T)}], Max(T)>>]
      BY <2>1 DEF FoldsUpTo
    <3> QED BY <3>1, <3>2
  <2>5. FoldsUpTo(g, V, base, G, D)
    <3> SUFFICES ASSUME NEW T \in Stage(D, k + 1)
                 PROVE  g[T] = IF T = {} THEN base ELSE G[<<g[T \ {Max(T)}], Max(T)>>]
      BY DEF FoldsUpTo
    <3>1. CASE T = {}
      BY <3>1
    <3>2. CASE T # {}
      BY <3>2, <2>2, <2>4
    <3> QED BY <3>1, <3>2
  <2>6. \E f \in [Stage(D, k + 1) -> V] : FoldsUpTo(f, V, base, G, D)
    <3> HIDE DEF g, D
    <3> QED BY <2>3, <2>5
  <2> QED BY <2>6
<1>3. n \in S
  <2> HIDE DEF S
  <2> QED BY <1>1, <1>2, Climb
<1>4. Stage(D, n) = SUBSET D
  BY <1>0 DEF Stage
<1> QED BY <1>3, <1>4

\* A fold with its stages, and what holds of its start and is kept by each of
\* its steps.
FoldIs(h, base, G, n) ==
  h = [T \in SUBSET (1..n) |-> IF T = {} THEN base ELSE G[<<h[T \ {Max(T)}], Max(T)>>]]
StepsBy(h, V, base, G, n) ==
  /\ h[{}] = base
  /\ \A T \in SUBSET (1..n) : T # {} /\ h[T \ {Max(T)}] \in V => h[T] = G[<<h[T \ {Max(T)}], Max(T)>>]
KeptBy(R, V, base, G, n) ==
  /\ R \subseteq (SUBSET (1..n)) \X V /\ <<{}, base>> \in R
  /\ \A T \in SUBSET (1..n), v \in V :
       T # {} /\ <<T \ {Max(T)}, v>> \in R => <<T, G[<<v, Max(T)>>]>> \in R

\* So it holds of every stage, ...
LEMMA FoldRelates ==
  ASSUME NEW V, NEW base, NEW n \in Nat, NEW G, NEW h, NEW R, KeptBy(R, V, base, G, n),
         StepsBy(h, V, base, G, n)
  PROVE  \A T \in SUBSET (1..n) : <<T, h[T]>> \in R
<1> DEFINE D == 1..n
           S == {k \in Nat : \A T \in Stage(D, k) : <<T, h[T]>> \in R}
<1>0. /\ \A T \in SUBSET D : Cardinality(T) \in Nat /\ Cardinality(T) <= n
      /\ \A T \in SUBSET D : \A x \in T : Cardinality(T \ {x}) = Cardinality(T) - 1
      /\ \A T \in SUBSET D : (Cardinality(T) = 0 <=> T = {})
  BY PartsOf
<1>a. /\ h[{}] = base
      /\ \A T \in SUBSET D : T # {} /\ h[T \ {Max(T)}] \in V => h[T] = G[<<h[T \ {Max(T)}], Max(T)>>]
  BY DEF StepsBy
<1>b. /\ R \subseteq (SUBSET D) \X V /\ <<{}, base>> \in R
      /\ \A T \in SUBSET D, v \in V :
           T # {} /\ <<T \ {Max(T)}, v>> \in R => <<T, G[<<v, Max(T)>>]>> \in R
  BY DEF KeptBy
<1>1. 0 \in S
  <2>1. \A T \in Stage(D, 0) : T = {}
    BY <1>0 DEF Stage
  <2>2. h[{}] = base
    BY <1>a
  <2> QED BY <2>1, <2>2, <1>b
<1>2. ASSUME NEW k \in Nat, \A T \in Stage(D, k) : <<T, h[T]>> \in R, NEW T \in Stage(D, k + 1)
      PROVE  <<T, h[T]>> \in R
  <2>1. T \in SUBSET D /\ Cardinality(T) <= k + 1
    BY DEF Stage
  <2>2. CASE T = {}
    BY <2>2, <1>a, <1>b
  <2>3. CASE T # {}
    <3>1. Max(T) \in T
      BY <2>1, <2>3, MaxIn
    <3>2. T \ {Max(T)} \in Stage(D, k)
      <4>1. Cardinality(T \ {Max(T)}) = Cardinality(T) - 1 /\ Cardinality(T) \in Nat
        BY <2>1, <3>1, <1>0
      <4>2. T \ {Max(T)} \in SUBSET D
        BY <2>1
      <4> QED BY <4>1, <4>2, <2>1 DEF Stage
    <3>3. <<T \ {Max(T)}, h[T \ {Max(T)}]>> \in R
      BY <1>2, <3>2
    <3>4. h[T \ {Max(T)}] \in V
      BY <3>3, <1>b
    <3>5. <<T, G[<<h[T \ {Max(T)}], Max(T)>>]>> \in R
      BY <2>1, <2>3, <3>3, <3>4, <1>b
    <3>6. h[T] = G[<<h[T \ {Max(T)}], Max(T)>>]
      BY <2>1, <2>3, <3>4, <1>a
    <3> QED BY <3>5, <3>6
  <2> QED BY <2>2, <2>3
<1>3. n \in S
  <2>1. \A k \in Nat : k \in S => k + 1 \in S
    BY <1>2
  <2> HIDE DEF S
  <2> QED BY <1>1, <2>1, Climb
<1>4. Stage(D, n) = SUBSET D
  BY <1>0 DEF Stage
<1> QED BY <1>3, <1>4

\* ... and of the fold, which is chosen as some function that is one.
LEMMA FoldHolds ==
  ASSUME NEW V, NEW base \in V, NEW n \in Nat, NEW G \in [V \X (1..n) -> V], NEW h, NEW R,
         KeptBy(R, V, base, G, n),
         (\E f \in [SUBSET (1..n) -> V] : FoldIs(f, base, G, n)) => StepsBy(h, V, base, G, n)
  PROVE  <<1..n, h[1..n]>> \in R
<1>1. PICK f \in [SUBSET (1..n) -> V] : FoldsUpTo(f, V, base, G, 1..n)
  BY FoldExists
<1>2. FoldIs(f, base, G, n)
  BY <1>1 DEF FoldsUpTo, FoldIs
<1>3. \A T \in SUBSET (1..n) : <<T, h[T]>> \in R
  BY <1>2, FoldRelates
<1> QED BY <1>3

\* A sum over the places of a list, of whole numbers.
Adds(f, w, n) == f = [T \in SUBSET (1..n) |-> IF T = {} THEN 0 ELSE f[T \ {Max(T)}] + w[Max(T)]]
Plus(w, n) == [p \in Int \X (1..n) |-> p[1] + w[p[2]]]

\* What its steps keep holds of it.
LEMMA SumHolds ==
  ASSUME NEW n \in Nat, NEW w \in [1..n -> Int], NEW h, (\E f : Adds(f, w, n)) => Adds(h, w, n),
         NEW R, KeptBy(R, Int, 0, Plus(w, n), n)
  PROVE  <<1..n, h[1..n]>> \in R
<1> DEFINE G == Plus(w, n)
           V == Int
<1>1. /\ \A v \in V, k \in 1..n : G[<<v, k>>] = v + w[k]
      /\ 0 \in V /\ G \in [V \X (1..n) -> V]
  BY DEF Plus
<1>2. \A T \in SUBSET (1..n) : T # {} => Max(T) \in 1..n
  BY MaxIn
<1>3. KeptBy(R, V, 0, G, n)
  OBVIOUS
<1> HIDE DEF G
<1>4. ASSUME NEW f \in [SUBSET (1..n) -> V], FoldIs(f, 0, G, n) PROVE Adds(f, w, n)
  <2>1. \A T \in SUBSET (1..n) : T # {} => G[<<f[T \ {Max(T)}], Max(T)>>] = f[T \ {Max(T)}] + w[Max(T)]
    BY <1>1, <1>2
  <2>2. \A T \in SUBSET (1..n) : f[T] = IF T = {} THEN 0 ELSE G[<<f[T \ {Max(T)}], Max(T)>>]
    BY <1>4 DEF FoldIs
  <2> QED BY <2>1, <2>2 DEF Adds
<1>5. ASSUME Adds(h, w, n) PROVE StepsBy(h, V, 0, G, n)
  <2>1. \A T \in SUBSET (1..n) : h[T] = IF T = {} THEN 0 ELSE h[T \ {Max(T)}] + w[Max(T)]
    BY <1>5 DEF Adds
  <2>2. \A T \in SUBSET (1..n) : T # {} /\ h[T \ {Max(T)}] \in V =>
          G[<<h[T \ {Max(T)}], Max(T)>>] = h[T \ {Max(T)}] + w[Max(T)]
    BY <1>1, <1>2
  <2> HIDE DEF V
  <2> QED BY <2>1, <2>2 DEF StepsBy
<1>6. (\E f \in [SUBSET (1..n) -> V] : FoldIs(f, 0, G, n)) => StepsBy(h, V, 0, G, n)
  BY <1>4, <1>5
<1> HIDE DEF V
<1> QED BY <1>1, <1>3, <1>6, FoldHolds

\* It is one itself.
LEMMA SumInt ==
  ASSUME NEW n \in Nat, NEW w \in [1..n -> Int], NEW h, (\E f : Adds(f, w, n)) => Adds(h, w, n)
  PROVE  h[1..n] \in Int
<1> DEFINE R == (SUBSET (1..n)) \X Int
<1>1. KeptBy(R, Int, 0, Plus(w, n), n)
  <2>1. Plus(w, n) \in [Int \X (1..n) -> Int]
    BY DEF Plus
  <2>2. \A T \in SUBSET (1..n) : T # {} => Max(T) \in 1..n
    BY MaxIn
  <2> QED BY <2>1, <2>2 DEF KeptBy
<1> HIDE DEF R
<1>2. <<1..n, h[1..n]>> \in R
  BY <1>1, SumHolds
<1> QED BY <1>2 DEF R

\* What a step of a fold keeps, the fold has.
LEMMA FoldIn ==
  ASSUME NEW V, NEW base \in V, NEW n \in Nat, NEW G \in [V \X (1..n) -> V], NEW h,
         (\E f \in [SUBSET (1..n) -> V] : FoldIs(f, base, G, n)) => StepsBy(h, V, base, G, n)
  PROVE  h[1..n] \in V
<1> DEFINE R == (SUBSET (1..n)) \X V
<1>1. KeptBy(R, V, base, G, n)
  <2>1. \A T \in SUBSET (1..n) : T # {} => Max(T) \in 1..n
    BY MaxIn
  <2> QED BY <2>1 DEF KeptBy
<1> HIDE DEF R
<1>2. <<1..n, h[1..n]>> \in R
  BY <1>1, FoldHolds
<1> QED BY <1>2 DEF R

\* A sum over a list does not depend on what follows.
LEMMA SumUpTo ==
  ASSUME NEW n \in Nat, NEW w \in [1..n -> Int], NEW h, Adds(h, w, n),
         NEW m \in Nat, m <= n, NEW u \in [1..m -> Int], \A k \in 1..m : u[k] = w[k], NEW f, Adds(f, u, m)
  PROVE  h[1..m] = f[1..m]
<1> DEFINE I == (SUBSET (1..m)) \X Int
           R == {<<T, f[T]>> : T \in SUBSET (1..m)}
           G == Plus(u, m)
<1>1. \A T \in SUBSET (1..m) : T # {} => Max(T) \in 1..m
  BY MaxIn
<1>2. \A v \in Int, k \in 1..m : G[<<v, k>>] = v + u[k]
  BY DEF Plus
<1>3. \A T \in SUBSET (1..m) : f[T] = IF T = {} THEN 0 ELSE f[T \ {Max(T)}] + u[Max(T)]
  BY DEF Adds
<1>4. \A T \in SUBSET (1..m) : h[T] = IF T = {} THEN 0 ELSE h[T \ {Max(T)}] + u[Max(T)]
  <2> TAKE T \in SUBSET (1..m)
  <2>1. T \in SUBSET (1..n)
    OBVIOUS
  <2>2. h[T] = IF T = {} THEN 0 ELSE h[T \ {Max(T)}] + w[Max(T)]
    BY <2>1 DEF Adds
  <2> QED BY <2>2, <1>1
<1> HIDE DEF G
<1>5. StepsBy(f, Int, 0, G, m) /\ StepsBy(h, Int, 0, G, m)
  <2>1. \A T \in SUBSET (1..m) : T # {} /\ f[T \ {Max(T)}] \in Int => f[T] = G[<<f[T \ {Max(T)}], Max(T)>>]
    BY <1>1, <1>2, <1>3
  <2>2. \A T \in SUBSET (1..m) : T # {} /\ h[T \ {Max(T)}] \in Int => h[T] = G[<<h[T \ {Max(T)}], Max(T)>>]
    BY <1>1, <1>2, <1>4
  <2>3. f[{}] = 0 /\ h[{}] = 0
    <3>1. {} \in SUBSET (1..m)
      OBVIOUS
    <3> QED BY <3>1, <1>3, <1>4
  <2> QED BY <2>1, <2>2, <2>3 DEF StepsBy
<1>6. KeptBy(I, Int, 0, G, m)
  <2>1. \A v \in Int, k \in 1..m : G[<<v, k>>] \in Int
    <3> TAKE v \in Int, k \in 1..m
    <3>1. u[k] \in Int /\ G[<<v, k>>] = v + u[k]
      BY <1>2
    <3> QED BY <3>1
  <2>2. ASSUME NEW T \in SUBSET (1..m), NEW v \in Int, T # {} PROVE <<T, G[<<v, Max(T)>>]>> \in I
    BY <1>1, <2>1, <2>2
  <2>3. <<{}, 0>> \in I
    OBVIOUS
  <2> HIDE DEF I
  <2>4. I \subseteq (SUBSET (1..m)) \X Int
    BY DEF I
  <2> QED BY <2>2, <2>3, <2>4 DEF KeptBy
<1>7. \A T \in SUBSET (1..m) : f[T] \in Int
  <2>1. \A T \in SUBSET (1..m) : <<T, f[T]>> \in I
    <3> HIDE DEF I
    <3> QED BY <1>5, <1>6, FoldRelates
  <2> QED BY <2>1
<1>8. KeptBy(R, Int, 0, G, m)
  <2>1. ASSUME NEW T \in SUBSET (1..m), NEW v \in Int, T # {}, <<T \ {Max(T)}, v>> \in R
        PROVE  <<T, G[<<v, Max(T)>>]>> \in R
    <3>1. v = f[T \ {Max(T)}]
      BY <2>1
    <3>2. G[<<v, Max(T)>>] = f[T]
      BY <2>1, <3>1, <1>1, <1>2, <1>3
    <3> QED BY <3>2
  <2>2. R \subseteq (SUBSET (1..m)) \X Int
    <3>1. \A T \in SUBSET (1..m) : <<T, f[T]>> \in (SUBSET (1..m)) \X Int
      BY <1>7
    <3> QED BY <3>1
  <2>3. <<{}, 0>> \in R
    <3>1. {} \in SUBSET (1..m) /\ f[{}] = 0
      BY <1>3
    <3> QED BY <3>1
  <2> HIDE DEF R
  <2> QED BY <2>1, <2>2, <2>3 DEF KeptBy
<1>9. \A T \in SUBSET (1..m) : <<T, h[T]>> \in R
  <2> HIDE DEF R
  <2> QED BY <1>5, <1>8, FoldRelates
<1>10. <<1..m, h[1..m]>> \in R
  BY <1>9
<1> QED BY <1>10

\* So one more element adds its number.
LEMMA SumOneMore ==
  ASSUME NEW n \in Nat, NEW w \in [1..(n + 1) -> Int], NEW h, (\E g : Adds(g, w, n + 1)) => Adds(h, w, n + 1),
         NEW u \in [1..n -> Int], \A k \in 1..n : u[k] = w[k], NEW f, (\E g : Adds(g, u, n)) => Adds(f, u, n)
  PROVE  h[1..(n + 1)] = f[1..n] + w[n + 1]
<1> DEFINE m == n + 1
           D == 1..m
<1>1. m \in Nat /\ n <= m
  <2>1. n + 1 \in Nat /\ n <= n + 1
    OBVIOUS
  <2> QED BY <2>1
<1>2. ASSUME NEW k \in Nat, NEW x \in [1..k -> Int] PROVE \E g : Adds(g, x, k)
  <2> DEFINE G == Plus(x, k)
  <2>1. G \in [Int \X (1..k) -> Int] /\ \A v \in Int, j \in 1..k : G[<<v, j>>] = v + x[j]
    <3>1. \A p \in Int \X (1..k) : p[1] + x[p[2]] \in Int
      OBVIOUS
    <3> QED BY <3>1 DEF Plus
  <2> HIDE DEF G
  <2>2. PICK g \in [SUBSET (1..k) -> Int] : FoldsUpTo(g, Int, 0, G, 1..k)
    <3> DEFINE V == Int
    <3>1. 0 \in V /\ G \in [V \X (1..k) -> V]
      BY <2>1
    <3> HIDE DEF V
    <3>2. \E g \in [SUBSET (1..k) -> V] : FoldsUpTo(g, V, 0, G, 1..k)
      BY <3>1, FoldExists
    <3> QED BY <3>2 DEF V
  <2>3. \A T \in SUBSET (1..k) : g[T] = IF T = {} THEN 0 ELSE G[<<g[T \ {Max(T)}], Max(T)>>]
    BY <2>2 DEF FoldsUpTo
  <2>4. \A T \in SUBSET (1..k) : T # {} => G[<<g[T \ {Max(T)}], Max(T)>>] = g[T \ {Max(T)}] + x[Max(T)]
    <3>1. \A T \in SUBSET (1..k) : T # {} => Max(T) \in 1..k
      BY MaxIn
    <3> QED BY <2>1, <2>2, <3>1
  <2>5. Adds(g, x, k)
    BY <2>2, <2>3, <2>4 DEF Adds
  <2> QED BY <2>5
<1>3. Adds(f, u, n) /\ Adds(h, w, m)
  BY <1>1, <1>2
<1>4. h[1..n] = f[1..n]
  BY <1>1, <1>3, SumUpTo
<1>5. Max(D) = m /\ D \ {m} = 1..n /\ D # {}
  <2>1. D # {} /\ D \in SUBSET (1..m) /\ m \in D
    <3>1. m >= 1
      OBVIOUS
    <3> HIDE DEF m
    <3>2. m \in 1..m
      BY <1>1, <3>1
    <3> QED BY <3>2
  <2>2. Max(D) \in D /\ \A t \in D : t <= Max(D)
    BY <1>1, <2>1, MaxIn
  <2>3. Max(D) = m
    BY <1>1, <2>1, <2>2
  <2> QED BY <2>1, <2>3
<1>6. h[D] = h[D \ {Max(D)}] + w[Max(D)]
  BY <1>3, <1>5 DEF Adds
<1> QED BY <1>4, <1>5, <1>6

-----------------------------------------------------------------------------
(* Parts of a list *)

\* A list is one of its own elements.
LEMMA ListIs ==
  ASSUME NEW S, NEW f \in Seq(S)
  PROVE  IsList(f) /\ \A x \in ToSet(f) : x \in S /\ \E k \in DOMAIN f : f[k] = x
<1>1. DOMAIN f = 1..Len(f) /\ Len(f) \in Nat /\ f = [k \in 1..Len(f) |-> f[k]] /\ \A k \in DOMAIN f : f[k] \in S
  BY LenProperties
<1>2. \A k \in 1..Len(f) : f[k] \in ToSet(f)
  BY <1>1 DEF ToSet
<1>3. f \in [1..Len(f) -> ToSet(f)]
  BY <1>1, <1>2
<1>4. f \in Seq(ToSet(f))
  BY <1>1, <1>3
<1> QED BY <1>1, <1>4 DEF IsList, ToSet

\* A part of a list, by the places of its elements, and the beginning of one.
Picked(list, K) == [k \in DOMAIN Sorted(K) |-> list[Sorted(K)[k]]]

LEMMA PickedIs ==
  ASSUME NEW list, IsList(list), NEW K \in SUBSET (DOMAIN list)
  PROVE  /\ Cardinality(K) \in Nat /\ DOMAIN Picked(list, K) = 1..Cardinality(K) /\ Cardinality(K) <= Len(list)
         /\ Picked(list, K) \in Seq(ToSet(list)) /\ Len(Picked(list, K)) = Cardinality(K)
         /\ \A k \in DOMAIN Picked(list, K) : \E j \in K : Picked(list, K)[k] = list[j]
         /\ \A j \in K : \E k \in DOMAIN Picked(list, K) : Picked(list, K)[k] = list[j]
         /\ \A k, m \in DOMAIN Picked(list, K) : k # m =>
              \E i, j \in K : i # j /\ Picked(list, K)[k] = list[i] /\ Picked(list, K)[m] = list[j]
<1> DEFINE n == Len(list)
           D == DOMAIN list
<1>1. n \in Nat /\ D = 1..n
  BY LenProperties DEF IsList
<1>2. IsFiniteSet(D) /\ D \subseteq Int /\ Cardinality(D) = n
  BY <1>1, FS_Interval
<1> HIDE DEF D, n
<1>3. IsFiniteSet(K) /\ Cardinality(K) <= n /\ K \in SUBSET Int
  BY <1>2, FS_Subset DEF D
<1>4. Cardinality(K) \in Nat
  BY <1>3, FS_CardinalityType
<1>5. /\ DOMAIN Sorted(K) = 1..Cardinality(K)
      /\ \A k \in DOMAIN Sorted(K) : Sorted(K)[k] \in K
      /\ \A x \in K : \E k \in DOMAIN Sorted(K) : Sorted(K)[k] = x
      /\ \A k, m \in DOMAIN Sorted(K) : k < m => Sorted(K)[k] < Sorted(K)[m]
  BY <1>3, NumbersInOrder
<1>6. /\ DOMAIN Picked(list, K) = 1..Cardinality(K)
      /\ \A k \in DOMAIN Picked(list, K) : Picked(list, K)[k] = list[Sorted(K)[k]]
      /\ Picked(list, K) = [k \in 1..Cardinality(K) |-> list[Sorted(K)[k]]]
  BY <1>5 DEF Picked
<1>7. \A j \in D : list[j] \in ToSet(list)
  BY DEF ToSet, D
<1>8. Picked(list, K) \in Seq(ToSet(list)) /\ Len(Picked(list, K)) = Cardinality(K)
  <2>1. \A k \in 1..Cardinality(K) : list[Sorted(K)[k]] \in ToSet(list)
    BY <1>5, <1>7 DEF D
  <2> DEFINE c == Cardinality(K)
             S == ToSet(list)
  <2>2. c \in Nat /\ Picked(list, K) \in [1..c -> S]
    BY <1>4, <1>6, <2>1
  <2> HIDE DEF c, S
  <2>3. Picked(list, K) \in Seq(S) /\ Len(Picked(list, K)) = c
    BY <2>2
  <2> QED BY <2>3 DEF c, S
<1>9. ASSUME NEW k \in DOMAIN Picked(list, K), NEW m \in DOMAIN Picked(list, K), k # m
      PROVE  \E i, j \in K : i # j /\ Picked(list, K)[k] = list[i] /\ Picked(list, K)[m] = list[j]
  <2>1. k \in DOMAIN Sorted(K) /\ m \in DOMAIN Sorted(K) /\ k \in Int /\ m \in Int
    BY <1>4, <1>5, <1>6
  <2>2. Sorted(K)[k] # Sorted(K)[m] /\ Sorted(K)[k] \in K /\ Sorted(K)[m] \in K
    <3>1. k < m \/ m < k
      BY <2>1, <1>9
    <3>2. Sorted(K)[k] \in K /\ Sorted(K)[m] \in K
      BY <2>1, <1>5
    <3>3. Sorted(K)[k] < Sorted(K)[m] \/ Sorted(K)[m] < Sorted(K)[k]
      BY <2>1, <3>1, <1>5
    <3>4. Sorted(K)[k] \in Int /\ Sorted(K)[m] \in Int
      BY <3>2, <1>3
    <3> QED BY <3>2, <3>3, <3>4
  <2> QED BY <2>2, <1>6
<1> QED BY <1>3, <1>4, <1>5, <1>6, <1>8, <1>9 DEF n

LEMMA CutIs ==
  ASSUME NEW S, NEW list \in Seq(S), NEW n \in Nat
  PROVE  /\ Cut(list, n) \in Seq(S) /\ Len(Cut(list, n)) <= n /\ Len(Cut(list, n)) <= Len(list)
         /\ \A k \in DOMAIN Cut(list, n) : k \in DOMAIN list /\ Cut(list, n)[k] = list[k]
<1> DEFINE m == IF Len(list) < n THEN Len(list) ELSE n
<1>1. m \in Nat /\ m <= n /\ m <= Len(list) /\ Len(list) \in Nat
  OBVIOUS
<1>2. Cut(list, n) = SubSeq(list, 1, m)
  BY DEF Cut
<1> HIDE DEF m
<1>3. \A i \in 1..m : list[i] \in S
  BY <1>1
<1>4. /\ SubSeq(list, 1, m) \in Seq(S)
      /\ Len(SubSeq(list, 1, m)) = m
      /\ \A i \in 1..m : SubSeq(list, 1, m)[i] = list[i]
  BY <1>1, <1>3
<1> QED BY <1>1, <1>2, <1>4

-----------------------------------------------------------------------------
(* The corpus *)

\* A list of lists, joined.
Joins(f, seqs, n) == f = [i \in 1..n |-> IF i = 1 THEN seqs[i] ELSE f[i-1] \o seqs[i]]

LEMMA JoinsExist ==
  ASSUME NEW X, NEW n \in Nat, NEW seqs \in [1..n -> Seq(X)]
  PROVE  \E f \in [1..n -> Seq(X)] : Joins(f, seqs, n)
<1> DEFINE Upto(f, k) == \A i \in 1..k : f[i] = IF i = 1 THEN seqs[i] ELSE f[i-1] \o seqs[i]
           Exists(k) == \E f \in [1..k -> Seq(X)] : Upto(f, k)
           S == {k \in Nat : k <= n => Exists(k)}
<1>1. 0 \in S
  <2> DEFINE f == [i \in {} |-> seqs[i]]
  <2>1. 1..0 = {}
    OBVIOUS
  <2>2. f \in [{} -> Seq(X)]
    OBVIOUS
  <2>3. \A i \in {} : f[i] = IF i = 1 THEN seqs[i] ELSE f[i-1] \o seqs[i]
    OBVIOUS
  <2> HIDE DEF f
  <2> QED BY <2>1, <2>2, <2>3
<1>2. ASSUME NEW k \in Nat, k \in S PROVE k + 1 \in S
  <2>a. k <= n => Exists(k)
    BY <1>2
  <2> SUFFICES ASSUME k + 1 <= n PROVE Exists(k + 1)
    <3> HIDE DEF Exists
    <3> QED OBVIOUS
  <2>b. Exists(k)
    <3> HIDE DEF Exists
    <3> QED BY <2>a
  <2>1. PICK f \in [1..k -> Seq(X)] : Upto(f, k)
    BY <2>b
  <2>2. seqs[k + 1] \in Seq(X)
    OBVIOUS
  <2> DEFINE g == [i \in 1..(k + 1) |->
                     IF i = k + 1 THEN IF i = 1 THEN seqs[i] ELSE f[i-1] \o seqs[i] ELSE f[i]]
  <2>3. g \in [1..(k + 1) -> Seq(X)]
    <3> SUFFICES ASSUME NEW i \in 1..(k + 1) PROVE g[i] \in Seq(X)
      OBVIOUS
    <3>1. CASE i = k + 1 /\ i = 1
      BY <2>2, <3>1
    <3>2. CASE i = k + 1 /\ i # 1
      <4>1. f[i-1] \in Seq(X)
        BY <2>1, <3>2
      <4> QED BY <4>1, <2>2, <3>2
    <3>3. CASE i # k + 1
      BY <2>1, <3>3
    <3> QED BY <3>1, <3>2, <3>3
  <2>4. Upto(g, k + 1)
    <3> SUFFICES ASSUME NEW i \in 1..(k + 1) PROVE g[i] = IF i = 1 THEN seqs[i] ELSE g[i-1] \o seqs[i]
      OBVIOUS
    <3>1. i # 1 => g[i-1] = f[i-1]
      OBVIOUS
    <3>2. CASE i = k + 1
      BY <3>1, <3>2
    <3>3. CASE i # k + 1
      <4>1. i \in 1..k /\ g[i] = f[i]
        BY <3>3
      <4>2. f[i] = IF i = 1 THEN seqs[i] ELSE f[i-1] \o seqs[i]
        BY <4>1, <2>1
      <4> HIDE DEF g
      <4> QED BY <4>1, <4>2, <3>1
    <3> QED BY <3>2, <3>3
  <2> HIDE DEF g, Upto
  <2> QED BY <2>3, <2>4
<1>3. n \in S
  <2> HIDE DEF S
  <2> QED BY <1>1, <1>2, Climb
<1>4. PICK f \in [1..n -> Seq(X)] : Upto(f, n)
  BY <1>3
<1>5. Joins(f, seqs, n)
  BY <1>4 DEF Joins
<1> QED BY <1>5

\* Joined, the lists have their elements and no other.
Has(list, x) == \E k \in DOMAIN list : list[k] = x
LEMMA JoinedHas ==
  ASSUME NEW X, NEW a \in Seq(X), NEW b \in Seq(X)
  PROVE  a \o b \in Seq(X) /\ \A x : Has(a \o b, x) <=> Has(a, x) \/ Has(b, x)
<1>1. /\ a \o b \in Seq(X) /\ Len(a \o b) = Len(a) + Len(b) /\ Len(a) \in Nat /\ Len(b) \in Nat
      /\ \A i \in 1..(Len(a) + Len(b)) : (a \o b)[i] = IF i <= Len(a) THEN a[i] ELSE b[i - Len(a)]
      /\ DOMAIN a = 1..Len(a) /\ DOMAIN b = 1..Len(b) /\ DOMAIN (a \o b) = 1..(Len(a) + Len(b))
  OBVIOUS
<1>2. ASSUME NEW x, Has(a \o b, x) PROVE Has(a, x) \/ Has(b, x)
  <2>1. PICK i \in 1..(Len(a) + Len(b)) : (a \o b)[i] = x
    BY <1>1, <1>2 DEF Has
  <2>2. CASE i <= Len(a)
    <3>1. i \in DOMAIN a /\ a[i] = x
      BY <1>1, <2>1, <2>2
    <3> QED BY <3>1 DEF Has
  <2>3. CASE ~(i <= Len(a))
    <3>1. i - Len(a) \in DOMAIN b /\ b[i - Len(a)] = x
      BY <1>1, <2>1, <2>3
    <3> QED BY <3>1 DEF Has
  <2> QED BY <2>2, <2>3
<1>3. ASSUME NEW x, Has(a, x) PROVE Has(a \o b, x)
  <2>1. PICK i \in 1..Len(a) : a[i] = x
    BY <1>1, <1>3 DEF Has
  <2>2. i \in DOMAIN (a \o b) /\ (a \o b)[i] = x
    BY <1>1, <2>1
  <2> QED BY <2>2 DEF Has
<1>4. ASSUME NEW x, Has(b, x) PROVE Has(a \o b, x)
  <2>1. PICK i \in 1..Len(b) : b[i] = x
    BY <1>1, <1>4 DEF Has
  <2>2. i + Len(a) \in DOMAIN (a \o b) /\ (a \o b)[i + Len(a)] = x
    BY <1>1, <2>1
  <2> QED BY <2>2 DEF Has
<1> QED BY <1>1, <1>2, <1>3, <1>4

LEMMA FlattenIs ==
  ASSUME NEW seqs, IsList(seqs), \A k \in DOMAIN seqs : IsList(seqs[k])
  PROVE  /\ IsList(FlattenSeq(seqs))
         /\ \A x : Has(FlattenSeq(seqs), x) <=> \E k \in DOMAIN seqs : Has(seqs[k], x)
<1> DEFINE n == Len(seqs)
           X == UNION {ToSet(seqs[k]) : k \in DOMAIN seqs}
           h == CHOOSE f : Joins(f, seqs, n)
<1>1. n \in Nat /\ DOMAIN seqs = 1..n
  BY LenProperties DEF IsList
<1>2. seqs \in [1..n -> Seq(X)]
  <2>1. ASSUME NEW k \in 1..n PROVE seqs[k] \in Seq(X)
    <3>1. seqs[k] \in Seq(ToSet(seqs[k])) /\ ToSet(seqs[k]) \subseteq X
      BY <1>1 DEF IsList
    <3> HIDE DEF X
    <3> QED BY <3>1
  <2>2. seqs = [k \in 1..n |-> seqs[k]]
    BY <1>1 DEF IsList
  <2> HIDE DEF n, X
  <2> QED BY <2>1, <2>2
<1>3. FlattenSeq(seqs) = IF n = 0 THEN seqs ELSE h[n]
  BY DEF FlattenSeq, Joins
<1> HIDE DEF n, X
<1>4. Joins(h, seqs, n)
  BY <1>1, <1>2, JoinsExist
<1> HIDE DEF h
<1> DEFINE Good(k) == /\ h[k] \in Seq(X)
                      /\ \A x : Has(h[k], x) <=> \E m \in 1..k : Has(seqs[m], x)
           S == {k \in Nat : k \in 1..n => Good(k)}
<1>5. 0 \in S
  OBVIOUS
<1>6. ASSUME NEW k \in Nat, k \in S PROVE k + 1 \in S
  <2> SUFFICES ASSUME k + 1 \in 1..n PROVE Good(k + 1)
    OBVIOUS
  <2>1. h[k + 1] = IF k + 1 = 1 THEN seqs[k + 1] ELSE h[k] \o seqs[k + 1]
    <3>1. \A i \in 1..n : h[i] = IF i = 1 THEN seqs[i] ELSE h[i - 1] \o seqs[i]
      BY <1>4 DEF Joins
    <3>2. (k + 1) - 1 = k
      OBVIOUS
    <3> QED BY <3>1, <3>2
  <2>2. seqs[k + 1] \in Seq(X)
    BY <1>2
  <2>3. CASE k = 0
    <3>1. h[k + 1] = seqs[k + 1] /\ 1..(k + 1) = {k + 1}
      BY <2>1, <2>3
    <3> QED BY <2>2, <3>1
  <2>4. CASE k # 0
    <3>1. Good(k)
      BY <1>6, <1>1, <2>4
    <3>2. h[k + 1] = h[k] \o seqs[k + 1]
      <4>1. k + 1 # 1
        BY <2>4
      <4> QED BY <4>1, <2>1
    <3> DEFINE a == h[k]
               b == seqs[k + 1]
    <3>3. a \in Seq(X) /\ b \in Seq(X)
      BY <2>2, <3>1
    <3> HIDE DEF a, b
    <3>4. a \o b \in Seq(X) /\ \A x : Has(a \o b, x) <=> Has(a, x) \/ Has(b, x)
      BY <3>3, JoinedHas
    <3>5. \A x : (\E m \in 1..(k + 1) : Has(seqs[m], x)) <=> Has(b, x) \/ \E m \in 1..k : Has(seqs[m], x)
      <4>1. 1..(k + 1) = (1..k) \cup {k + 1}
        OBVIOUS
      <4> QED BY <4>1 DEF b
    <3>6. h[k + 1] = a \o b /\ \A x : Has(a, x) <=> \E m \in 1..k : Has(seqs[m], x)
      BY <3>1, <3>2 DEF a, b
    <3> QED BY <3>4, <3>5, <3>6
  <2> QED BY <2>3, <2>4
<1>7. Nat \subseteq S
  <2> HIDE DEF S
  <2> QED BY <1>5, <1>6, Climb
<1>8. CASE n = 0
  <2>1. FlattenSeq(seqs) = seqs /\ DOMAIN seqs = {}
    BY <1>1, <1>3, <1>8
  <2> QED BY <2>1 DEF Has
<1>9. CASE n # 0
  <2>1. Good(n)
    <3>1. n \in S
      <4> HIDE DEF S
      <4> QED BY <1>1, <1>7
    <3>2. n \in 1..n
      BY <1>1, <1>9
    <3> HIDE DEF Good
    <3> QED BY <3>1, <3>2
  <2>2. FlattenSeq(seqs) \in Seq(X)
    BY <2>1, <1>3, <1>9
  <2>3. IsList(FlattenSeq(seqs))
    BY <2>2, ListIs
  <2> QED BY <2>1, <2>3, <1>1, <1>3, <1>9
<1> QED BY <1>8, <1>9

LEMMA AppendedHas ==
  ASSUME NEW X, NEW a \in Seq(X), NEW y \in X
  PROVE  Append(a, y) \in Seq(X) /\ \A x : Has(Append(a, y), x) <=> Has(a, x) \/ x = y
<1> DEFINE b == <<y>>
<1>1. b \in Seq(X) /\ Append(a, y) = a \o b
  OBVIOUS
<1>2. \A x : Has(b, x) <=> x = y
  <2>1. DOMAIN b = {1} /\ b[1] = y
    OBVIOUS
  <2> HIDE DEF b
  <2> QED BY <2>1 DEF Has
<1> HIDE DEF b
<1> QED BY <1>1, <1>2, JoinedHas

\* The length of a text, and of a text of one piece.
Pieces == [par : DOMAIN Paragraphs, from : Nat, to : Nat]
Lengths(text, n) == [k \in 1..n |-> text[k].to - text[k].from]
Chars(text, n) ==
  CHOOSE f : f = [T \in SUBSET (1..n) |->
                    IF T = {} THEN 0 ELSE f[T \ {Max(T)}] + (text[Max(T)].to - text[Max(T)].from)]

LEMMA CharsAdd ==
  ASSUME NEW text \in Seq(Pieces), NEW n, n = Len(text)
  PROVE  /\ n \in Nat /\ Lengths(text, n) \in [1..n -> Int]
         /\ CharsOf(text) = Chars(text, n)[1..n] + (IF text = << >> THEN 0 ELSE 2 * (n - 1))
         /\ (\E f : Adds(f, Lengths(text, n), n)) => Adds(Chars(text, n), Lengths(text, n), n)
<1> DEFINE Sums(f) == f = [T \in SUBSET (1..n) |->
                             IF T = {} THEN 0 ELSE f[T \ {Max(T)}] + (text[Max(T)].to - text[Max(T)].from)]
<1>1. n \in Nat /\ DOMAIN text = 1..n
  BY LenProperties
<1>2. Lengths(text, n) \in [1..n -> Int] /\ \A k \in 1..n : Lengths(text, n)[k] = text[k].to - text[k].from
  <2>1. \A k \in 1..n : text[k] \in Pieces
    BY <1>1
  <2>2. \A k \in 1..n : text[k].to - text[k].from \in Int
    BY <2>1 DEF Pieces
  <2> QED BY <2>2 DEF Lengths
<1>3. CharsOf(text) = Chars(text, n)[1..n] + (IF text = << >> THEN 0 ELSE 2 * (n - 1))
  BY <1>1 DEF CharsOf, FoldLeft, MapThenFoldSet, Chars
<1>4. \A T \in SUBSET (1..n) : T # {} => Max(T) \in 1..n
  BY <1>1, MaxIn
<1>5. ASSUME NEW f PROVE Sums(f) <=> Adds(f, Lengths(text, n), n)
  BY <1>2, <1>4 DEF Adds
<1>6. Chars(text, n) = CHOOSE f : Sums(f)
  BY DEF Chars
<1> HIDE DEF Sums
<1>7. (\E f : Sums(f)) => Sums(Chars(text, n))
  BY <1>6
<1>8. (\E f : Adds(f, Lengths(text, n), n)) => Adds(Chars(text, n), Lengths(text, n), n)
  BY <1>5, <1>7
<1> QED BY <1>1, <1>2, <1>3, <1>8

LEMMA CharsInt ==
  ASSUME NEW text \in Seq(Pieces)
  PROVE  CharsOf(text) \in Int
<1> DEFINE n == Len(text)
<1>1. /\ n \in Nat /\ Lengths(text, n) \in [1..n -> Int]
      /\ CharsOf(text) = Chars(text, n)[1..n] + (IF text = << >> THEN 0 ELSE 2 * (n - 1))
      /\ (\E f : Adds(f, Lengths(text, n), n)) => Adds(Chars(text, n), Lengths(text, n), n)
  BY CharsAdd
<1> HIDE DEF n
<1>2. Chars(text, n)[1..n] \in Int
  BY <1>1, SumInt
<1> QED BY <1>1, <1>2

LEMMA CharsOne ==
  ASSUME NEW piece \in Pieces
  PROVE  CharsOf(<<piece>>) = piece.to - piece.from
<1> DEFINE text == <<piece>>
           d == piece.to - piece.from
<1>1. text \in Seq(Pieces) /\ Len(text) = 1 /\ text # << >> /\ text[1] = piece
  OBVIOUS
<1>2. d \in Int
  BY DEF Pieces
<1>3. PICK n \in Nat : n = 1
  OBVIOUS
<1> DEFINE D == 1..n
           w == Lengths(text, n)
           h == Chars(text, n)
           R == {<<{}, 0>>, <<D, d>>}
<1>4. D = {1} /\ SUBSET D = {{}, {1}}
  BY <1>3
<1>5. w[1] = d
  BY <1>1, <1>3 DEF Lengths
<1> HIDE DEF text, d
<1>6. w \in [D -> Int] /\ CharsOf(text) = h[D] + 0 /\ ((\E f : Adds(f, w, n)) => Adds(h, w, n))
  <2>1. /\ w \in [1..n -> Int] /\ ((\E f : Adds(f, w, n)) => Adds(h, w, n))
        /\ CharsOf(text) = h[1..n] + (IF text = << >> THEN 0 ELSE 2 * (n - 1))
    BY <1>1, <1>3, CharsAdd
  <2> HIDE DEF w, h
  <2> QED BY <2>1, <1>1, <1>3
<1> HIDE DEF w, h
<1>7. KeptBy(R, Int, 0, Plus(w, n), n)
  <2>1. Max({1}) = 1
    <3>1. Max({1}) \in {1}
      BY <1>4, MaxIn
    <3> QED BY <3>1
  <2>2. \A v \in Int : Plus(w, n)[<<v, 1>>] = v + w[1]
    BY <1>4 DEF Plus
  <2>3. R \subseteq (SUBSET D) \X Int /\ <<{}, 0>> \in R
    BY <1>2, <1>4
  <2>4. ASSUME NEW T \in SUBSET D, NEW v \in Int, T # {}, <<T \ {Max(T)}, v>> \in R
        PROVE  <<T, Plus(w, n)[<<v, Max(T)>>]>> \in R
    <3>1. T = {1} /\ T = D
      BY <1>4, <2>4
    <3>2. T \ {Max(T)} = {} /\ Max(T) = 1 /\ {} # D
      BY <3>1, <2>1
    <3>3. v = 0
      BY <2>4, <3>2
    <3>4. Plus(w, n)[<<v, Max(T)>>] = 0 + w[1]
      BY <3>2, <3>3, <2>2
    <3> QED BY <3>1, <3>4, <1>2, <1>5
  <2> HIDE DEF R
  <2> QED BY <2>3, <2>4 DEF KeptBy
<1>8. <<D, h[D]>> \in R
  <2> HIDE DEF R
  <2> QED BY <1>6, <1>7, SumHolds
<1>9. h[D] = d
  <2>1. D # {}
    BY <1>4
  <2> HIDE DEF D
  <2> QED BY <1>8, <2>1
<1> QED BY <1>2, <1>6, <1>9 DEF text, d

\* A paragraph that is longer than a chunk: where its windows are.
LEMMA WindowsFit ==
  ASSUME NEW chars \in Nat
  PROVE  /\ Stride \in Nat \ {0} /\ Windows(chars) \in Nat /\ Windows(chars) * Stride \in Nat
         /\ chars - Windows(chars) * Stride <= TargetChars
         /\ \A char \in Nat : char < Windows(chars) * Stride =>
              \E k \in 1..Windows(chars) : (k - 1) * Stride <= char /\ char < (k - 1) * Stride + TargetChars
<1> DEFINE d == Stride
           w == Windows(chars)
           m == TargetChars
<1>1. d \in Nat \ {0} /\ m \in Nat /\ d <= m
  BY ChunkAssumption DEF Stride
<1>2. w = IF chars <= m THEN 0 ELSE (chars - m - 1) \div d + 1
  BY DEF Windows
<1> HIDE DEF d, m, w
<1>3. \A a \in Nat : a \div d \in Nat /\ (a \div d) * d <= a /\ a < (a \div d) * d + d
  BY <1>1
<1>4. w \in Nat /\ chars - w * d <= m
  <2>1. CASE chars <= m
    BY <1>1, <1>2, <2>1
  <2>2. CASE ~(chars <= m)
    <3> DEFINE a == chars - m - 1
               q == a \div d
    <3>1. a \in Nat /\ chars = a + m + 1
      BY <1>1, <2>2
    <3>2. q \in Nat /\ a < q * d + d
      BY <3>1, <1>3
    <3>3. w = q + 1
      BY <1>2, <2>2
    <3> HIDE DEF a, q
    <3>4. w * d = q * d + d /\ q * d \in Nat
      BY <1>1, <3>2, <3>3
    <3> QED BY <1>1, <3>1, <3>2, <3>3, <3>4
  <2> QED BY <2>1, <2>2
<1>5. w * d \in Nat
  BY <1>1, <1>4
<1>6. ASSUME NEW char \in Nat, char < w * d
      PROVE  \E k \in 1..w : (k - 1) * d <= char /\ char < (k - 1) * d + m
  <2> DEFINE q == char \div d
  <2>1. q \in Nat /\ q * d <= char /\ char < q * d + d
    BY <1>3
  <2> HIDE DEF q
  <2>2. q < w
    <3>1. ASSUME q >= w PROVE FALSE
      <4>1. PICK e \in Nat : q = w + e
        <5>1. q - w \in Nat /\ q = w + (q - w)
          BY <3>1, <2>1, <1>4
        <5> QED BY <5>1
      <4>2. q * d = w * d + e * d /\ e * d \in Nat
        BY <4>1, <1>1, <1>4
      <4> QED BY <4>2, <2>1, <1>5, <1>6
    <3> QED BY <3>1, <2>1, <1>4
  <2>3. q + 1 \in 1..w /\ (q + 1) - 1 = q
    BY <2>1, <2>2, <1>4
  <2>4. q * d <= char /\ char < q * d + m
    BY <2>1, <1>1
  <2> QED BY <2>3, <2>4
<1> QED BY <1>1, <1>4, <1>5, <1>6 DEF d, w, m

\* What paragraphs are collected into: texts that fit, and what they hold.
Accs == [chunks : Seq(Seq(Pieces)), current : Seq(Pieces)]
Small(acc) ==
  /\ \A text : Has(acc.chunks, text) => CharsOf(text) <= TargetChars
  /\ acc.current # << >> => CharsOf(acc.current) <= TargetChars
InText(text, p, char) ==
  \E k \in DOMAIN text : text[k].par = p /\ text[k].from <= char /\ char < text[k].to
Holds(acc, p) ==
  \A char \in 0..(Paragraphs[p].chars - 1) :
    InText(acc.current, p, char) \/ \E text : Has(acc.chunks, text) /\ InText(text, p, char)

LEMMA InNoText == ASSUME NEW p, NEW char PROVE ~InText(<< >>, p, char)
BY DEF InText

\* Another paragraph is collected.
LEMMA TakenKeeps ==
  ASSUME NEW acc \in Accs, Small(acc), NEW p \in DOMAIN Paragraphs
  PROVE  /\ Taken(acc, p) \in Accs /\ Small(Taken(acc, p)) /\ Holds(Taken(acc, p), p)
         /\ \A other : Holds(acc, other) => Holds(Taken(acc, p), other)
<1> DEFINE chars == Paragraphs[p].chars
           Text == Seq(Pieces)
           old == acc.chunks
           cur == acc.current
<1>1. chars \in Nat \ {0} /\ TargetChars \in Nat
  BY DocumentAssumption, ChunkAssumption
<1>2. old \in Seq(Text) /\ cur \in Text
  BY DEF Accs
<1>3. Whole(p) \in Pieces /\ Whole(p).par = p /\ Whole(p).from = 0 /\ Whole(p).to = chars
  BY <1>1 DEF Whole, Piece, Pieces
<1>4. CASE CharsOf(Append(acc.current, Whole(p))) <= TargetChars
  <2> DEFINE now == Append(cur, Whole(p))
             after == Taken(acc, p)
  <2>1. now \in Text /\ \A piece : Has(now, piece) <=> Has(cur, piece) \/ piece = Whole(p)
    BY <1>2, <1>3, AppendedHas
  <2>2. after \in Accs /\ after.chunks = old /\ after.current = now
    BY <1>2, <1>4, <2>1 DEF Taken, Accs
  <2>3. CharsOf(now) <= TargetChars
    BY <1>4
  <2> HIDE DEF now, after
  <2>4. Small(after)
    BY <2>2, <2>3 DEF Small
  <2>5. \A other, char : InText(cur, other, char) => InText(now, other, char)
    <3> SUFFICES ASSUME NEW other, NEW char, InText(cur, other, char) PROVE InText(now, other, char)
      OBVIOUS
    <3>1. PICK k \in DOMAIN cur : cur[k].par = other /\ cur[k].from <= char /\ char < cur[k].to
      BY DEF InText
    <3>2. PICK j \in DOMAIN now : now[j] = cur[k]
      BY <2>1 DEF Has
    <3> QED BY <3>1, <3>2 DEF InText
  <2>6. \A char \in 0..(chars - 1) : InText(now, p, char)
    <3> TAKE char \in 0..(chars - 1)
    <3>1. PICK j \in DOMAIN now : now[j] = Whole(p)
      BY <2>1 DEF Has
    <3>2. 0 <= char /\ char < chars
      BY <1>1
    <3> QED BY <1>3, <3>1, <3>2 DEF InText
  <2> HIDE DEF old, cur, chars
  <2>7. Holds(after, p)
    BY <2>2, <2>6 DEF Holds, chars
  <2>8. ASSUME NEW other, Holds(acc, other) PROVE Holds(after, other)
    BY <2>2, <2>5, <2>8 DEF Holds, old, cur
  <2> QED BY <2>2, <2>4, <2>7, <2>8 DEF after
<1>5. CASE ~(CharsOf(Append(acc.current, Whole(p))) <= TargetChars)
  <2> DEFINE w == Windows(chars)
             first == IF cur = << >> THEN old ELSE Append(old, cur)
             cut(k) == Piece(p, (k - 1) * Stride, (k - 1) * Stride + TargetChars)
             more == [k \in 1..w |-> <<cut(k)>>]
             rest == Piece(p, w * Stride, chars)
             after == Taken(acc, p)
  <2>1. /\ Stride \in Nat \ {0} /\ w \in Nat /\ w * Stride \in Nat /\ chars - w * Stride <= TargetChars
        /\ \A char \in Nat : char < w * Stride =>
             \E k \in 1..w : (k - 1) * Stride <= char /\ char < (k - 1) * Stride + TargetChars
    BY <1>1, WindowsFit
  <2>2. after = [chunks |-> first \o more, current |-> <<rest>>]
    BY <1>5 DEF Taken, CutAt
  <2>3. rest \in Pieces /\ rest.par = p /\ rest.from = w * Stride /\ rest.to = chars
    BY <1>1, <2>1 DEF Piece, Pieces
  <2>4. \A k \in 1..w : /\ cut(k) \in Pieces /\ cut(k).par = p /\ cut(k).from = (k - 1) * Stride
                        /\ cut(k).to = (k - 1) * Stride + TargetChars
                        /\ cut(k).to - cut(k).from = TargetChars
    <3> TAKE k \in 1..w
    <3> DEFINE from == (k - 1) * Stride
    <3>1. from \in Nat
      BY <2>1
    <3>2. cut(k) = [par |-> p, from |-> from, to |-> from + TargetChars]
      BY DEF Piece
    <3> HIDE DEF from, cut
    <3>3. from + TargetChars \in Nat /\ from + TargetChars - from = TargetChars
      BY <3>1, <1>1
    <3>4. /\ cut(k) \in Pieces /\ cut(k).par = p /\ cut(k).from = from /\ cut(k).to = from + TargetChars
          /\ cut(k).to - cut(k).from = TargetChars
      BY <3>1, <3>2, <3>3, <1>1 DEF Pieces
    <3> QED BY <3>4 DEF from
  <2>5. more \in Seq(Text)
    <3>1. \A k \in 1..w : <<cut(k)>> \in Text
      BY <2>4
    <3> HIDE DEF cut, Text
    <3>2. more \in [1..w -> Text]
      BY <3>1
    <3>3. w \in Nat
      BY <2>1
    <3> HIDE DEF more, w
    <3> QED BY <3>2, <3>3
  <2>6. /\ first \in Seq(Text)
        /\ \A text : Has(first, text) <=> Has(old, text) \/ (cur # << >> /\ text = cur)
    BY <1>2, AppendedHas
  <2>7. \A text : Has(more, text) <=> \E k \in 1..w : text = <<cut(k)>>
    BY DEF Has
  <2> HIDE DEF cut, first, more, rest, after
  <2>8. /\ first \o more \in Seq(Text)
        /\ \A text : Has(first \o more, text) <=> Has(first, text) \/ Has(more, text)
    BY <2>5, <2>6, JoinedHas
  <2>9. after \in Accs /\ after.chunks = first \o more /\ after.current = <<rest>>
    BY <2>2, <2>3, <2>8 DEF Accs
  <2>10. Small(after)
    <3>1. ASSUME NEW text, Has(first, text) PROVE CharsOf(text) <= TargetChars
      BY <2>6, <3>1 DEF Small
    <3>2. ASSUME NEW text, Has(more, text) PROVE CharsOf(text) <= TargetChars
      <4>1. PICK k \in 1..w : text = <<cut(k)>>
        BY <3>2, <2>7
      <4>2. CharsOf(text) = TargetChars
        BY <4>1, <2>4, CharsOne
      <4> QED BY <4>2, <1>1
    <3>3. CharsOf(<<rest>>) <= TargetChars
      BY <2>1, <2>3, CharsOne
    <3> QED BY <2>8, <2>9, <3>1, <3>2, <3>3 DEF Small
  <2>11. Holds(after, p)
    <3> SUFFICES ASSUME NEW char \in 0..(chars - 1)
                 PROVE  InText(<<rest>>, p, char) \/ \E text : Has(first \o more, text) /\ InText(text, p, char)
      BY <2>9 DEF Holds
    <3>1. char \in Nat /\ char < chars
      BY <1>1
    <3>2. CASE char < w * Stride
      <4>1. PICK k \in 1..w : (k - 1) * Stride <= char /\ char < (k - 1) * Stride + TargetChars
        BY <2>1, <3>1, <3>2
      <4> DEFINE text == <<cut(k)>>
      <4>2. 1 \in DOMAIN text /\ text[1] = cut(k)
        OBVIOUS
      <4>3. Has(first \o more, text)
        BY <2>7, <2>8
      <4> HIDE DEF text
      <4>4. InText(text, p, char)
        BY <4>1, <4>2, <2>4 DEF InText
      <4> QED BY <4>3, <4>4
    <3>3. CASE ~(char < w * Stride)
      <4> DEFINE text == <<rest>>
      <4>1. 1 \in DOMAIN text /\ text[1] = rest
        OBVIOUS
      <4>2. w * Stride <= char
        BY <2>1, <3>1, <3>3
      <4> HIDE DEF text
      <4>3. InText(text, p, char)
        BY <2>3, <3>1, <4>1, <4>2 DEF InText
      <4> QED BY <4>3 DEF text
    <3> QED BY <3>2, <3>3
  <2>12. ASSUME NEW other, Holds(acc, other) PROVE Holds(after, other)
    <3> SUFFICES ASSUME NEW char \in 0..(Paragraphs[other].chars - 1)
                 PROVE  \E text : Has(first \o more, text) /\ InText(text, other, char)
      BY <2>9 DEF Holds
    <3>1. CASE InText(cur, other, char)
      <4>1. cur # << >>
        BY <3>1, InNoText
      <4> QED BY <3>1, <4>1, <2>6, <2>8
    <3>2. CASE \E text : Has(old, text) /\ InText(text, other, char)
      BY <3>2, <2>6, <2>8
    <3> QED BY <3>1, <3>2, <2>12 DEF Holds
  <2> QED BY <2>9, <2>10, <2>11, <2>12 DEF after
<1> QED BY <1>4, <1>5

\* _split_text: no text is too long, and no character of a paragraph is lost.
LEMMA CollectedIs ==
  ASSUME NEW paragraphs, IsList(paragraphs), ToSet(paragraphs) \subseteq DOMAIN Paragraphs
  PROVE  /\ Collected(paragraphs) \in Accs /\ Small(Collected(paragraphs))
         /\ \A k \in DOMAIN paragraphs : Holds(Collected(paragraphs), paragraphs[k])
<1> DEFINE n == Len(paragraphs)
           base == [chunks |-> << >>, current |-> << >>]
           V == {acc \in Accs : Small(acc)}
           Fold(f) == f = [T \in SUBSET (1..n) |-> IF T = {} THEN base ELSE Taken(f[T \ {Max(T)}], paragraphs[Max(T)])]
           h == CHOOSE f : Fold(f)
           G == [p \in V \X (1..n) |-> Taken(p[1], paragraphs[p[2]])]
           R == {p \in (SUBSET (1..n)) \X V : \A k \in p[1] : Holds(p[2], paragraphs[k])}
<1>1. n \in Nat /\ DOMAIN paragraphs = 1..n
  BY LenProperties DEF IsList
<1>2. Collected(paragraphs) = h[1..n]
  BY <1>1 DEF Collected, FoldLeft, MapThenFoldSet
<1>3. \A k \in 1..n : paragraphs[k] \in DOMAIN Paragraphs
  BY <1>1 DEF ToSet
<1>4. base \in V
  <2>1. base \in Accs /\ base.chunks = << >> /\ base.current = << >>
    BY DEF Accs
  <2> HIDE DEF base
  <2>2. Small(base)
    BY <2>1 DEF Small, Has
  <2> QED BY <2>1, <2>2
<1>5. \A T \in SUBSET (1..n) : T # {} => Max(T) \in T /\ Max(T) \in 1..n
  BY <1>1, MaxIn
<1> HIDE DEF n, base
<1>6. ASSUME NEW acc \in V, NEW k \in 1..n
      PROVE  /\ Taken(acc, paragraphs[k]) \in V /\ Holds(Taken(acc, paragraphs[k]), paragraphs[k])
             /\ \A other : Holds(acc, other) => Holds(Taken(acc, paragraphs[k]), other)
  BY <1>3, TakenKeeps
<1> HIDE DEF V
<1>7. \A acc \in V, k \in 1..n : G[<<acc, k>>] = Taken(acc, paragraphs[k])
  OBVIOUS
<1>8. G \in [V \X (1..n) -> V]
  BY <1>6
<1> HIDE DEF G
<1>9. KeptBy(R, V, base, G, n)
  <2>1. ASSUME NEW T \in SUBSET (1..n), NEW acc \in V, T # {}, <<T \ {Max(T)}, acc>> \in R
        PROVE  <<T, G[<<acc, Max(T)>>]>> \in R
    <3> DEFINE m == Max(T)
               after == Taken(acc, paragraphs[m])
    <3>1. m \in T /\ m \in 1..n /\ G[<<acc, m>>] = after
      BY <2>1, <1>5, <1>7
    <3>2. /\ after \in V /\ Holds(after, paragraphs[m])
          /\ \A other : Holds(acc, other) => Holds(after, other)
      BY <3>1, <1>6
    <3>3. \A k \in T \ {m} : Holds(acc, paragraphs[k])
      BY <2>1
    <3> HIDE DEF m, after
    <3>4. \A k \in T : Holds(after, paragraphs[k])
      <4> TAKE k \in T
      <4>1. CASE k = m
        BY <4>1, <3>2
      <4>2. CASE k # m
        BY <4>2, <3>2, <3>3
      <4> QED BY <4>1, <4>2
    <3>5. <<T, after>> \in R
      BY <3>2, <3>4
    <3> QED BY <3>1, <3>5 DEF m
  <2>2. R \subseteq (SUBSET (1..n)) \X V /\ <<{}, base>> \in R
    BY <1>4
  <2> HIDE DEF R
  <2> QED BY <2>1, <2>2 DEF KeptBy
<1>10. (\E f \in [SUBSET (1..n) -> V] : FoldIs(f, base, G, n)) => StepsBy(h, V, base, G, n)
  <2>1. ASSUME NEW f \in [SUBSET (1..n) -> V], FoldIs(f, base, G, n) PROVE Fold(f)
    <3>1. \A T \in SUBSET (1..n) : T # {} => f[T \ {Max(T)}] \in V /\ Max(T) \in 1..n
      BY <1>5
    <3>2. \A T \in SUBSET (1..n) : T # {} => G[<<f[T \ {Max(T)}], Max(T)>>] = Taken(f[T \ {Max(T)}], paragraphs[Max(T)])
      BY <3>1, <1>7
    <3>3. \A T \in SUBSET (1..n) : f[T] = IF T = {} THEN base ELSE Taken(f[T \ {Max(T)}], paragraphs[Max(T)])
      BY <2>1, <3>2 DEF FoldIs
    <3> QED BY <3>3
  <2>2. ASSUME Fold(h) PROVE StepsBy(h, V, base, G, n)
    <3> HIDE DEF h
    <3>1. \A T \in SUBSET (1..n) : h[T] = IF T = {} THEN base ELSE Taken(h[T \ {Max(T)}], paragraphs[Max(T)])
      BY <2>2
    <3>2. \A T \in SUBSET (1..n) : T # {} /\ h[T \ {Max(T)}] \in V => h[T] = G[<<h[T \ {Max(T)}], Max(T)>>]
      BY <3>1, <1>5, <1>7
    <3>3. h[{}] = base
      BY <3>1
    <3> QED BY <3>2, <3>3 DEF StepsBy
  <2> HIDE DEF Fold
  <2> QED BY <2>1, <2>2
<1> HIDE DEF h
<1>11. <<1..n, h[1..n]>> \in R
  <2> HIDE DEF R
  <2> QED BY <1>1, <1>4, <1>8, <1>9, <1>10, FoldHolds
<1>12. h[1..n] \in V /\ \A k \in 1..n : Holds(h[1..n], paragraphs[k])
  BY <1>11
<1> QED BY <1>1, <1>2, <1>12 DEF V

LEMMA SplitIs ==
  ASSUME NEW paragraphs, IsList(paragraphs), ToSet(paragraphs) \subseteq DOMAIN Paragraphs
  PROVE  /\ SplitText(paragraphs) \in Seq(Seq(Pieces))
         /\ \A text : Has(SplitText(paragraphs), text) => CharsOf(text) <= TargetChars
         /\ \A k \in DOMAIN paragraphs : \A char \in 0..(Paragraphs[paragraphs[k]].chars - 1) :
              \E text : Has(SplitText(paragraphs), text) /\ InText(text, paragraphs[k], char)
<1> DEFINE acc == Collected(paragraphs)
           split == SplitText(paragraphs)
<1>1. acc \in Accs /\ Small(acc) /\ \A k \in DOMAIN paragraphs : Holds(acc, paragraphs[k])
  BY CollectedIs
<1>2. split = IF acc.current = << >> THEN acc.chunks ELSE Append(acc.chunks, acc.current)
  BY DEF SplitText, Closed
<1> HIDE DEF acc, split
<1>3. acc.chunks \in Seq(Seq(Pieces)) /\ acc.current \in Seq(Pieces)
  BY <1>1 DEF Accs
<1>4. /\ split \in Seq(Seq(Pieces))
      /\ \A text : Has(split, text) <=> Has(acc.chunks, text) \/ (acc.current # << >> /\ text = acc.current)
  <2> DEFINE Text == Seq(Pieces)
             now == acc.current
             old == acc.chunks
  <2> HIDE DEF Text, now, old
  <2>1. now \in Text /\ old \in Seq(Text) /\ split = IF now = << >> THEN old ELSE Append(old, now)
    BY <1>2, <1>3 DEF Text, now, old
  <2>2. split \in Seq(Text) /\ \A text : Has(split, text) <=> Has(old, text) \/ (now # << >> /\ text = now)
    BY <2>1, AppendedHas
  <2> QED BY <2>2 DEF Text, now, old
<1>5. \A text : Has(split, text) => CharsOf(text) <= TargetChars
  BY <1>1, <1>4 DEF Small
<1>6. ASSUME NEW k \in DOMAIN paragraphs, NEW char \in 0..(Paragraphs[paragraphs[k]].chars - 1)
      PROVE  \E text : Has(split, text) /\ InText(text, paragraphs[k], char)
  <2>1. Holds(acc, paragraphs[k])
    BY <1>1
  <2>2. CASE InText(acc.current, paragraphs[k], char)
    <3>1. acc.current # << >>
      BY <2>2, InNoText
    <3> QED BY <2>2, <3>1, <1>4
  <2>3. CASE \E text : Has(acc.chunks, text) /\ InText(text, paragraphs[k], char)
    BY <2>3, <1>4
  <2> QED BY <2>1, <2>2, <2>3 DEF Holds
<1> QED BY <1>4, <1>5, <1>6 DEF split

\* The chunks of a document.
ChunkIs(chunk) ==
  chunk.text \in Seq(Pieces) /\ chunk.chars = CharsOf(chunk.text) /\ CharsOf(chunk.text) <= TargetChars
FileIs(file) ==
  /\ IsList(file.units)
  /\ \A unit \in ToSet(file.units) :
       IsList(unit.paragraphs) /\ ToSet(unit.paragraphs) \subseteq DOMAIN Paragraphs

LEMMA ListOf ==
  ASSUME NEW n \in Nat, NEW f, f = [k \in 1..n |-> f[k]]
  PROVE  IsList(f) /\ Len(f) = n
<1> DEFINE S == ToSet(f)
<1>1. \A k \in 1..n : f[k] \in S
  BY DEF ToSet
<1> HIDE DEF S
<1>2. f \in [1..n -> S]
  BY <1>1
<1>3. f \in Seq(S) /\ Len(f) = n
  BY <1>2
<1> QED BY <1>3 DEF IsList, S

LEMMA TextsAre ==
  ASSUME NEW unit, IsList(unit.paragraphs), ToSet(unit.paragraphs) \subseteq DOMAIN Paragraphs
  PROVE  /\ IsList(TextsOf(unit))
         /\ \A x : Has(TextsOf(unit), x) => x.text \in Seq(Pieces) /\ CharsOf(x.text) <= TargetChars
         /\ \A p \in ToSet(unit.paragraphs) : \A char \in 0..(Paragraphs[p].chars - 1) :
              \E x : Has(TextsOf(unit), x) /\ InText(x.text, p, char)
<1> DEFINE split == SplitText(unit.paragraphs)
           f == TextsOf(unit)
<1>1. /\ split \in Seq(Seq(Pieces))
      /\ \A text : Has(split, text) => CharsOf(text) <= TargetChars
      /\ \A k \in DOMAIN unit.paragraphs : \A char \in 0..(Paragraphs[unit.paragraphs[k]].chars - 1) :
           \E text : Has(split, text) /\ InText(text, unit.paragraphs[k], char)
  BY SplitIs
<1>2. f = [k \in DOMAIN split |-> [unit |-> unit, text |-> split[k]]]
  BY DEF TextsOf
<1> HIDE DEF split, f
<1> DEFINE n == Len(split)
<1>3. n \in Nat /\ DOMAIN split = 1..n /\ \A k \in 1..n : split[k] \in Seq(Pieces)
  BY <1>1
<1> HIDE DEF n
<1>4. IsList(f)
  <2>1. f = [k \in 1..n |-> f[k]]
    BY <1>2, <1>3
  <2> QED BY <2>1, <1>3, ListOf
<1>5. \A k \in 1..n : f[k].text = split[k] /\ Has(split, split[k])
  BY <1>2, <1>3 DEF Has
<1>6. ASSUME NEW x, Has(f, x) PROVE x.text \in Seq(Pieces) /\ CharsOf(x.text) <= TargetChars
  <2>1. PICK k \in 1..n : f[k] = x
    BY <1>2, <1>3, <1>6 DEF Has
  <2> QED BY <2>1, <1>1, <1>3, <1>5
<1>7. ASSUME NEW p \in ToSet(unit.paragraphs), NEW char \in 0..(Paragraphs[p].chars - 1)
      PROVE  \E x : Has(f, x) /\ InText(x.text, p, char)
  <2>1. PICK k \in DOMAIN unit.paragraphs : unit.paragraphs[k] = p
    BY DEF ToSet
  <2>2. PICK text : Has(split, text) /\ InText(text, p, char)
    BY <1>1, <2>1
  <2>3. PICK j \in 1..n : split[j] = text
    BY <2>2, <1>3 DEF Has
  <2>4. Has(f, f[j]) /\ f[j].text = text
    BY <1>2, <1>3, <1>5, <2>3 DEF Has
  <2> QED BY <2>2, <2>4
<1> QED BY <1>4, <1>6, <1>7 DEF f

LEMMA FileChunksAre ==
  ASSUME NEW file, FileIs(file)
  PROVE  /\ IsList(ChunksOfFile(file))
         /\ \A x : Has(ChunksOfFile(file), x) => ChunkIs(x)
         /\ \A u \in DOMAIN file.units : \A p \in ToSet(file.units[u].paragraphs) :
              \A char \in 0..(Paragraphs[p].chars - 1) :
                \E x : Has(ChunksOfFile(file), x) /\ InText(x.text, p, char)
<1> DEFINE seqs == [u \in DOMAIN file.units |-> TextsOf(file.units[u])]
           texts == FlattenSeq(seqs)
           f == ChunksOfFile(file)
<1>1. f = [k \in DOMAIN texts |-> ChunkOf(file, texts[k].unit, texts[k].text, k)]
  BY DEF ChunksOfFile
<1>2. \A u \in DOMAIN file.units :
        IsList(file.units[u].paragraphs) /\ ToSet(file.units[u].paragraphs) \subseteq DOMAIN Paragraphs
  BY DEF FileIs, ToSet
<1>3. IsList(seqs) /\ DOMAIN seqs = DOMAIN file.units /\ \A u \in DOMAIN seqs : seqs[u] = TextsOf(file.units[u])
  <2> DEFINE m == Len(file.units)
  <2>1. m \in Nat /\ DOMAIN file.units = 1..m
    BY LenProperties DEF FileIs, IsList
  <2>2. seqs = [u \in 1..m |-> seqs[u]]
    BY <2>1
  <2> HIDE DEF m
  <2>3. IsList(seqs)
    <3> HIDE DEF seqs
    <3> QED BY <2>1, <2>2, ListOf
  <2> QED BY <2>3
<1> HIDE DEF seqs, f
<1>4. \A u \in DOMAIN seqs : IsList(seqs[u])
  BY <1>2, <1>3, TextsAre
<1>5. IsList(texts) /\ \A x : Has(texts, x) <=> \E u \in DOMAIN seqs : Has(seqs[u], x)
  BY <1>3, <1>4, FlattenIs
<1> HIDE DEF texts
<1>6. \A x : Has(texts, x) => x.text \in Seq(Pieces) /\ CharsOf(x.text) <= TargetChars
  BY <1>2, <1>3, <1>5, TextsAre
<1> DEFINE n == Len(texts)
<1>7. n \in Nat /\ DOMAIN texts = 1..n
  BY <1>5, LenProperties DEF IsList
<1> HIDE DEF n
<1>8. IsList(f)
  <2>1. f = [k \in 1..n |-> f[k]]
    BY <1>1, <1>7
  <2> QED BY <2>1, <1>7, ListOf
<1>9. \A k \in 1..n : f[k].text = texts[k].text /\ f[k].chars = CharsOf(texts[k].text)
  BY <1>1, <1>7 DEF ChunkOf
<1>10. ASSUME NEW x, Has(f, x) PROVE ChunkIs(x)
  <2>1. PICK k \in 1..n : f[k] = x
    BY <1>1, <1>7, <1>10 DEF Has
  <2>2. Has(texts, texts[k])
    BY <1>7 DEF Has
  <2> QED BY <2>1, <2>2, <1>6, <1>9 DEF ChunkIs
<1>11. ASSUME NEW u \in DOMAIN file.units, NEW p \in ToSet(file.units[u].paragraphs),
              NEW char \in 0..(Paragraphs[p].chars - 1)
       PROVE  \E x : Has(f, x) /\ InText(x.text, p, char)
  <2>1. PICK x : Has(seqs[u], x) /\ InText(x.text, p, char)
    BY <1>2, <1>3, TextsAre
  <2>2. Has(texts, x)
    BY <2>1, <1>3, <1>5
  <2>3. PICK k \in 1..n : texts[k] = x
    BY <2>2, <1>7 DEF Has
  <2>4. Has(f, f[k]) /\ f[k].text = x.text
    BY <1>1, <1>7, <1>9, <2>3 DEF Has
  <2> QED BY <2>1, <2>4
<1> QED BY <1>8, <1>10, <1>11 DEF f

\* build_chunks_for_paths: the corpus of an edition.
LEMMA CorpusIs ==
  ASSUME NEW e \in Editions
  PROVE  /\ IsList(Corpus[e]) /\ Len(Corpus[e]) \in Nat /\ DOMAIN Corpus[e] = 1..Len(Corpus[e])
         /\ \A n \in DOMAIN Corpus[e] :
              /\ Corpus[e][n].chars \in Int /\ Corpus[e][n].chars <= TargetChars
              /\ Corpus[e][n].text \in Seq(Pieces)
         /\ \A f \in DOMAIN Documents[e] : \A u \in DOMAIN Documents[e][f].units :
              \A p \in ToSet(Documents[e][f].units[u].paragraphs) :
                \A char \in 0..(Paragraphs[p].chars - 1) : Kept(Corpus[e], p, char)
<1> DEFINE files == Documents[e]
           seqs == [f \in DOMAIN files |-> ChunksOfFile(files[f])]
           all == Corpus[e]
<1>1. all = FlattenSeq(seqs)
  BY DEF Corpus
<1>2. IsList(files) /\ \A f \in DOMAIN files : FileIs(files[f])
  <2>1. \A f \in DOMAIN files : files[f] \in ToSet(files)
    BY DEF ToSet
  <2> QED BY <2>1, DocumentAssumption DEF FileIs
<1> HIDE DEF files
<1>3. IsList(seqs) /\ DOMAIN seqs = DOMAIN files /\ \A f \in DOMAIN seqs : seqs[f] = ChunksOfFile(files[f])
  <2> DEFINE m == Len(files)
  <2>1. m \in Nat /\ DOMAIN files = 1..m
    BY <1>2, LenProperties DEF IsList
  <2>2. seqs = [f \in 1..m |-> seqs[f]]
    BY <2>1
  <2> HIDE DEF m
  <2>3. IsList(seqs)
    <3> HIDE DEF seqs
    <3> QED BY <2>1, <2>2, ListOf
  <2> QED BY <2>3
<1> HIDE DEF seqs, all
<1>4. \A f \in DOMAIN seqs : IsList(seqs[f])
  BY <1>2, <1>3, FileChunksAre
<1>5. IsList(all) /\ \A x : Has(all, x) <=> \E f \in DOMAIN seqs : Has(seqs[f], x)
  BY <1>1, <1>3, <1>4, FlattenIs
<1>6. Len(all) \in Nat /\ DOMAIN all = 1..Len(all)
  BY <1>5, LenProperties DEF IsList
<1>7. ASSUME NEW n \in DOMAIN all
      PROVE  all[n].chars \in Int /\ all[n].chars <= TargetChars /\ all[n].text \in Seq(Pieces)
  <2>1. Has(all, all[n])
    BY DEF Has
  <2>2. PICK f \in DOMAIN seqs : Has(seqs[f], all[n])
    BY <2>1, <1>5
  <2>3. ChunkIs(all[n])
    BY <2>2, <1>2, <1>3, FileChunksAre
  <2> QED BY <2>3, CharsInt DEF ChunkIs
<1>8. ASSUME NEW f \in DOMAIN files, NEW u \in DOMAIN files[f].units,
             NEW p \in ToSet(files[f].units[u].paragraphs), NEW char \in 0..(Paragraphs[p].chars - 1)
      PROVE  Kept(all, p, char)
  <2>1. PICK x : Has(seqs[f], x) /\ InText(x.text, p, char)
    BY <1>2, <1>3, FileChunksAre
  <2>2. PICK n \in DOMAIN all : all[n] = x
    BY <2>1, <1>3, <1>5 DEF Has
  <2> QED BY <2>1, <2>2 DEF InText, Kept
<1> QED BY <1>5, <1>6, <1>7, <1>8 DEF all, files

-----------------------------------------------------------------------------
(* The inductive invariant of the index *)

\* A build under way has a version, has handed in no more than its chunks, and
\* has been told of no more rows than it handed in.
BuildsCounted ==
  \A b \in Builders :
    /\ builder[b].pc \in {"loaded", "writing"} => builder[b].version \in Versions
    /\ builder[b].inserted <= builder[b].next
    /\ builder[b].next <= builder[b].version.count

\* A build that was told of every row it handed in has them in the collection.
ToldIsWritten ==
  \A b \in Builders :
    (builder[b].clean /\ builder[b].inserted = builder[b].next) =>
      \A n \in 1..builder[b].next : Row(builder[b].version, n) \in rows

IndexIInv == IndexTypeOK /\ BuildsCounted /\ ToldIsWritten /\ PublishedWhole

BuilderType ==
  [pc : {"ready", "loaded", "writing", "done"}, version : Versions \cup {NoVersion},
   next : Nat, inserted : Nat, clean : BOOLEAN]

LEMMA VersionsCount ==
  /\ \A version \in Versions \cup {NoVersion} : version.count \in Nat
  /\ \A e \in Editions, embedding \in Embeddings : VersionOf(e, embedding) \in Versions
BY CorpusIs DEF Versions, VersionOf, NoVersion

LEMMA IdleBuilder ==
  ASSUME NEW pc \in {"ready", "loaded", "writing", "done"}
  PROVE  /\ Builder(pc) \in BuilderType
         /\ Builder(pc).pc = pc /\ Builder(pc).inserted = 0 /\ Builder(pc).next = 0 /\ Builder(pc).version.count = 0
BY DEF Builder, BuilderType, NoVersion

\* One build moves and the rest stays: what has to be shown of the one.
LEMMA BuilderMoves ==
  ASSUME IndexIInv, NEW b \in Builders, NEW after \in BuilderType,
         builder' = [builder EXCEPT ![b] = after],
         rows \subseteq rows', \A row \in rows' : row[1] \in Versions /\ row[2] \in 1..row[1].count,
         corpus' \in Editions, stored' \in Nat, intact' \in BOOLEAN, manifest' \in Versions \cup {NoVersion},
         after.pc \in {"loaded", "writing"} => after.version \in Versions,
         after.inserted <= after.next, after.next <= after.version.count,
         (after.clean /\ after.inserted = after.next) =>
            \A n \in 1..after.next : Row(after.version, n) \in rows',
         PublishedWhole'
  PROVE  IndexIInv'
<1>1. builder' \in [Builders -> BuilderType] /\ builder'[b] = after
  BY DEF IndexIInv, IndexTypeOK, BuilderType
<1>2. \A c \in Builders : c # b => builder'[c] = builder[c]
  BY DEF IndexIInv, IndexTypeOK
<1>3. IndexTypeOK'
  BY <1>1 DEF IndexTypeOK, BuilderType
<1>4. BuildsCounted'
  BY <1>1, <1>2 DEF IndexIInv, BuildsCounted
<1>5. ToldIsWritten'
  <2> SUFFICES ASSUME NEW c \in Builders, builder'[c].clean, builder'[c].inserted = builder'[c].next,
                      NEW n \in 1..builder'[c].next
               PROVE  Row(builder'[c].version, n) \in rows'
    BY DEF ToldIsWritten, Row
  <2>1. CASE c = b
    BY <2>1, <1>1
  <2>2. CASE c # b
    BY <2>2, <1>2 DEF IndexIInv, ToldIsWritten
  <2> QED BY <2>1, <2>2
<1> QED BY <1>3, <1>4, <1>5 DEF IndexIInv

\* What is published stays whole while rows are added only.
LEMMA StaysWhole ==
  ASSUME IndexIInv, rows \subseteq rows', UNCHANGED <<manifest, intact>>
  PROVE  PublishedWhole'
BY DEF IndexIInv, PublishedWhole, Row

\* A build that ends leaves nothing to be shown of itself.
LEMMA DoneMoves ==
  ASSUME IndexIInv, NEW b \in Builders, builder' = [builder EXCEPT ![b] = Builder("done")],
         rows \subseteq rows', \A row \in rows' : row[1] \in Versions /\ row[2] \in 1..row[1].count,
         corpus' \in Editions, stored' \in Nat, intact' \in BOOLEAN, manifest' \in Versions \cup {NoVersion},
         PublishedWhole'
  PROVE  IndexIInv'
<1> DEFINE after == Builder("done")
<1>1. after \in BuilderType /\ after.pc = "done" /\ after.inserted = 0 /\ after.next = 0 /\ after.version.count = 0
  BY IdleBuilder
<1>2. \A n \in 1..after.next : Row(after.version, n) \in rows'
  BY <1>1
<1>3. after.pc \notin {"loaded", "writing"} /\ after.inserted <= after.next /\ after.next <= after.version.count
  BY <1>1
<1>4. builder' = [builder EXCEPT ![b] = after]
  OBVIOUS
<1> HIDE DEF after
<1> QED BY <1>1, <1>2, <1>3, <1>4, BuilderMoves

LEMMA EndsKeeps ==
  ASSUME IndexIInv, NEW b \in Builders, Ends(b), UNCHANGED <<corpus, rows>>, stored' \in Nat,
         intact' \in BOOLEAN, manifest' \in Versions \cup {NoVersion}, PublishedWhole'
  PROVE  IndexIInv'
<1>1. builder' = [builder EXCEPT ![b] = Builder("done")]
  BY DEF Ends
<1>2. rows \subseteq rows' /\ \A row \in rows' : row[1] \in Versions /\ row[2] \in 1..row[1].count
  BY DEF IndexIInv, IndexTypeOK
<1>3. corpus' \in Editions
  BY DEF IndexIInv, IndexTypeOK
<1> QED BY <1>1, <1>2, <1>3, DoneMoves

LEMMA InitIndex == IndexInit => IndexIInv
<1> SUFFICES ASSUME IndexInit PROVE IndexIInv
  OBVIOUS
<1>1. \A b \in Builders : builder[b] = Builder("ready")
  BY DEF IndexInit
<1>2. IndexTypeOK
  BY IdleBuilder DEF IndexInit, IndexTypeOK, BuilderType
<1>3. BuildsCounted
  BY <1>1, IdleBuilder DEF BuildsCounted
<1>4. ToldIsWritten
  BY <1>1, IdleBuilder DEF ToldIsWritten
<1>5. PublishedWhole
  BY DEF IndexInit, PublishedWhole
<1> QED BY <1>2, <1>3, <1>4, <1>5 DEF IndexIInv

LEMMA IngestKeeps ==
  ASSUME IndexIInv, NEW e \in Editions, NEW embedding \in Embeddings, Ingest(e, embedding)
  PROVE  IndexIInv'
<1>1. /\ corpus' = e /\ stored' \in Nat
      /\ rows' = rows /\ manifest' = manifest /\ intact' = intact /\ builder' = builder
  BY DimensionAssumption DEF Ingest, IndexIInv, IndexTypeOK
<1> QED BY <1>1 DEF IndexIInv, IndexTypeOK, BuildsCounted, ToldIsWritten, PublishedWhole, Row

LEMMA StartKeeps ==
  ASSUME IndexIInv, NEW b \in Builders, NEW embedding \in Embeddings, StartBuild(b, embedding)
  PROVE  IndexIInv'
<1> DEFINE after == [pc |-> "loaded", next |-> 0, inserted |-> 0, clean |-> TRUE,
                     version |-> VersionOf(corpus, embedding)]
<1>1. VersionOf(corpus, embedding) \in Versions /\ VersionOf(corpus, embedding).count \in Nat
  BY VersionsCount DEF IndexIInv, IndexTypeOK
<1>2. after \in BuilderType /\ after.next = 0 /\ after.inserted = 0
      /\ after.version = VersionOf(corpus, embedding)
  BY <1>1 DEF BuilderType
<1>3. builder' = [builder EXCEPT ![b] = after] /\ UNCHANGED <<corpus, rows, stored, manifest, intact>>
  BY DEF StartBuild
<1>4. \A n \in 1..after.next : Row(after.version, n) \in rows'
  BY <1>2
<1>5. /\ rows \subseteq rows' /\ corpus' \in Editions /\ stored' \in Nat /\ intact' \in BOOLEAN
      /\ manifest' \in Versions \cup {NoVersion}
      /\ \A row \in rows' : row[1] \in Versions /\ row[2] \in 1..row[1].count
  BY <1>3 DEF IndexIInv, IndexTypeOK
<1>6. PublishedWhole'
  BY <1>3, StaysWhole
<1>7. after.inserted <= after.next /\ after.next <= after.version.count /\ after.version \in Versions
  BY <1>1, <1>2
<1> HIDE DEF after
<1> QED BY <1>2, <1>3, <1>4, <1>5, <1>6, <1>7, BuilderMoves

LEMMA EnsureKeeps ==
  ASSUME IndexIInv, NEW b \in Builders, EnsureCollection(b)
  PROVE  IndexIInv'
<1> DEFINE dim == Dimension[builder[b].version.embedding]
<1>1. UNCHANGED <<corpus, rows, manifest, intact>>
  BY DEF EnsureCollection
<1>2. PublishedWhole'
  BY <1>1, StaysWhole
<1>3. CASE Ends(b) /\ UNCHANGED stored
  BY <1>1, <1>2, <1>3, EndsKeeps DEF IndexIInv, IndexTypeOK
<1>4. CASE stored' = dim /\ builder' = [builder EXCEPT ![b].pc = "writing"]
  <2> DEFINE after == [builder[b] EXCEPT !.pc = "writing"]
  <2>1. builder[b] \in BuilderType
    BY DEF IndexIInv, IndexTypeOK, BuilderType
  <2>2. /\ after \in BuilderType /\ after.next = builder[b].next /\ after.inserted = builder[b].inserted
        /\ after.version = builder[b].version /\ after.clean = builder[b].clean
    BY <2>1 DEF BuilderType
  <2>3. builder' = [builder EXCEPT ![b] = after]
    BY <1>4
  <2>4. dim \in Nat
    <3>1. builder[b].version \in Versions
      BY DEF EnsureCollection, IndexIInv, BuildsCounted
    <3>2. builder[b].version.embedding \in Embeddings
      BY <3>1 DEF Versions, VersionOf
    <3> QED BY <3>2, DimensionAssumption
  <2>5. /\ after.pc \in {"loaded", "writing"} => after.version \in Versions
        /\ after.inserted <= after.next /\ after.next <= after.version.count
        /\ (after.clean /\ after.inserted = after.next) =>
             \A n \in 1..after.next : Row(after.version, n) \in rows'
    BY <1>1, <2>2 DEF EnsureCollection, IndexIInv, BuildsCounted, ToldIsWritten
  <2> HIDE DEF after, dim
  <2> QED BY <1>1, <1>2, <1>4, <2>2, <2>3, <2>4, <2>5, BuilderMoves DEF IndexIInv, IndexTypeOK
<1> QED BY <1>3, <1>4 DEF EnsureCollection

\* The next batch: the chunks between what was handed in and what will have been.
LEMMA Batches ==
  ASSUME IndexIInv, NEW b \in Builders
  PROVE  LET after == builder[b].next + Cardinality(BatchOf(b)) IN
         /\ IsFiniteSet(BatchOf(b)) /\ Cardinality(BatchOf(b)) \in Nat
         /\ after <= builder[b].version.count
         /\ BatchOf(b) \subseteq 1..builder[b].version.count
         /\ \A n \in 1..after : n \in 1..builder[b].next \/ n \in BatchOf(b)
<1> DEFINE next == builder[b].next
           count == builder[b].version.count
           last == IF next + BatchSize <= count THEN next + BatchSize ELSE count
<1>1. next \in Nat /\ count \in Nat /\ next <= count /\ BatchSize \in Nat
  BY VersionsCount, ChunkAssumption DEF IndexIInv, IndexTypeOK, BuildsCounted
<1>2. BatchOf(b) = (next + 1)..last
  BY <1>1 DEF BatchOf
<1>3. next \in Int /\ next + 1 \in Int /\ last \in Int /\ last >= next /\ last <= count
  BY <1>1
<1>4. IsFiniteSet((next + 1)..last) /\ Cardinality((next + 1)..last) = last - next
  <2> HIDE DEF next, last
  <2>1. IsFiniteSet((next + 1)..last)
        /\ Cardinality((next + 1)..last) = IF next + 1 > last THEN 0 ELSE last - (next + 1) + 1
    BY <1>3, FS_Interval
  <2> QED BY <2>1, <1>3, <1>1
<1>5. next + Cardinality(BatchOf(b)) = last
  <2> HIDE DEF next, last
  <2> QED BY <1>2, <1>3, <1>4
<1>6. \A n \in 1..last : n \in 1..next \/ n \in (next + 1)..last
  <2> HIDE DEF next, last
  <2> QED BY <1>1, <1>3
<1>7. (next + 1)..last \subseteq 1..count
  <2> HIDE DEF next, last
  <2> QED BY <1>1, <1>3
<1>8. IsFiniteSet(BatchOf(b)) /\ Cardinality(BatchOf(b)) \in Nat
  BY <1>2, <1>4, FS_CardinalityType
<1> HIDE DEF last
<1> QED BY <1>2, <1>3, <1>5, <1>6, <1>7, <1>8

LEMMA WriteKeeps ==
  ASSUME IndexIInv, NEW b \in Builders, WriteBatch(b)
  PROVE  IndexIInv'
<1>1. PICK written \in SUBSET BatchOf(b), told \in BOOLEAN :
        /\ rows' = rows \cup {Row(builder[b].version, n) : n \in written}
        /\ IF told
           THEN builder' = [builder EXCEPT ![b].next = @ + Cardinality(BatchOf(b)),
                                           ![b].inserted = @ + Cardinality(written)]
           ELSE Ends(b)
  BY DEF WriteBatch
<1>2. UNCHANGED <<corpus, stored, manifest, intact>> /\ builder[b].pc = "writing"
  BY DEF WriteBatch
<1>3. builder[b].version \in Versions /\ builder[b] \in BuilderType
  BY <1>2 DEF IndexIInv, IndexTypeOK, BuildsCounted, BuilderType
<1>4. rows \subseteq rows' /\ PublishedWhole'
  BY <1>1, <1>2, StaysWhole
<1>5. \A row \in rows' : row[1] \in Versions /\ row[2] \in 1..row[1].count
  BY <1>1, <1>3, Batches DEF IndexIInv, IndexTypeOK, Row
<1>6. CASE ~told
  <2>1. builder' = [builder EXCEPT ![b] = Builder("done")]
    BY <1>1, <1>6 DEF Ends
  <2>2. corpus' \in Editions /\ stored' \in Nat /\ intact' \in BOOLEAN /\ manifest' \in Versions \cup {NoVersion}
    BY <1>2 DEF IndexIInv, IndexTypeOK
  <2> QED BY <1>4, <1>5, <2>1, <2>2, DoneMoves
<1>7. CASE told
  <2> DEFINE size == Cardinality(BatchOf(b))
             done == Cardinality(written)
             after == [builder[b] EXCEPT !.next = @ + size, !.inserted = @ + done]
  <2>1. done \in Nat /\ size \in Nat /\ done <= size /\ (done = size => written = BatchOf(b))
    BY Batches, FS_Subset, FS_CardinalityType
  <2>2. builder' = [builder EXCEPT ![b] = after]
    BY <1>1, <1>7
  <2>3. /\ after \in BuilderType /\ after.pc = "writing" /\ after.version = builder[b].version
        /\ after.clean = builder[b].clean
        /\ after.next = builder[b].next + size /\ after.inserted = builder[b].inserted + done
    <3> DEFINE next == builder[b].next + size
               inserted == builder[b].inserted + done
    <3> HIDE DEF size, done
    <3>1. next \in Nat /\ inserted \in Nat
      BY <1>3, <2>1 DEF BuilderType
    <3>2. after = [builder[b] EXCEPT !.next = next, !.inserted = inserted]
      OBVIOUS
    <3>3. /\ after \in BuilderType /\ after.pc = builder[b].pc /\ after.version = builder[b].version
          /\ after.clean = builder[b].clean
          /\ after.next = next /\ after.inserted = inserted
      <4> DEFINE r == builder[b]
      <4>1. r \in BuilderType /\ after = [r EXCEPT !.next = next, !.inserted = inserted]
        BY <1>3, <3>2
      <4> HIDE DEF after, next, inserted, r
      <4>2. /\ after \in BuilderType /\ after.pc = r.pc /\ after.version = r.version /\ after.clean = r.clean
            /\ after.next = next /\ after.inserted = inserted
        BY <3>1, <4>1 DEF BuilderType
      <4> QED BY <4>2 DEF r
    <3> QED BY <1>2, <3>3
  <2>4. after.inserted <= after.next /\ after.next <= after.version.count
    BY <1>3, <2>1, <2>3, Batches DEF IndexIInv, BuildsCounted, BuilderType
  <2>5. ASSUME after.clean, after.inserted = after.next, NEW n \in 1..after.next
        PROVE  Row(after.version, n) \in rows'
    <3>1. builder[b].inserted = builder[b].next /\ done = size
      BY <1>3, <2>1, <2>3, <2>5 DEF IndexIInv, BuildsCounted, BuilderType
    <3>2. n \in 1..builder[b].next \/ n \in written
      BY <2>1, <2>3, <2>5, <3>1, Batches
    <3>3. n \in 1..builder[b].next => Row(builder[b].version, n) \in rows
      BY <2>3, <2>5, <3>1 DEF IndexIInv, ToldIsWritten
    <3> QED BY <1>1, <1>4, <2>3, <3>2, <3>3
  <2> HIDE DEF after, size, done
  <2>6. corpus' \in Editions /\ stored' \in Nat /\ intact' \in BOOLEAN /\ manifest' \in Versions \cup {NoVersion}
    BY <1>2 DEF IndexIInv, IndexTypeOK
  <2> QED BY <1>3, <1>4, <1>5, <2>2, <2>3, <2>4, <2>5, <2>6, BuilderMoves
<1> QED BY <1>6, <1>7

LEMMA PublishKeeps ==
  ASSUME IndexIInv, NEW b \in Builders, Publish(b)
  PROVE  IndexIInv'
<1>1. Ends(b) /\ UNCHANGED <<corpus, rows, stored>> /\ builder[b].pc = "writing"
  BY DEF Publish
<1>2. CASE UNCHANGED <<manifest, intact>>
  <2>1. PublishedWhole'
    BY <1>1, <1>2, StaysWhole
  <2> QED BY <1>1, <1>2, <2>1, EndsKeeps DEF IndexIInv, IndexTypeOK
<1>3. CASE /\ builder[b].inserted = builder[b].version.count
           /\ manifest' = builder[b].version /\ intact' = builder[b].clean
  <2>1. builder[b] \in BuilderType /\ builder[b].version.count \in Nat
    BY VersionsCount DEF IndexIInv, IndexTypeOK, BuilderType
  <2>2. builder[b].inserted = builder[b].next /\ builder[b].next = builder[b].version.count
    BY <1>3, <2>1 DEF IndexIInv, BuildsCounted, BuilderType
  <2>3. PublishedWhole'
    BY <1>1, <1>3, <2>2 DEF IndexIInv, ToldIsWritten, PublishedWhole, Row
  <2>4. intact' \in BOOLEAN /\ manifest' \in Versions \cup {NoVersion}
    BY <1>3, <2>1 DEF BuilderType
  <2> QED BY <1>1, <2>3, <2>4, EndsKeeps DEF IndexIInv, IndexTypeOK
<1> QED BY <1>2, <1>3 DEF Publish

LEMMA RecreateKeeps ==
  ASSUME IndexIInv, NEW embedding \in Embeddings, Recreate(embedding)
  PROVE  IndexIInv'
<1>1. /\ stored' = Dimension[embedding] /\ rows' = {} /\ intact' = FALSE
      /\ builder' = [b \in Builders |-> [builder[b] EXCEPT !.clean = FALSE]]
      /\ corpus' = corpus /\ manifest' = manifest
  BY DEF Recreate
<1>2. ASSUME NEW b \in Builders
      PROVE  /\ builder'[b] \in BuilderType /\ ~builder'[b].clean
             /\ builder'[b].pc = builder[b].pc /\ builder'[b].version = builder[b].version
             /\ builder'[b].next = builder[b].next /\ builder'[b].inserted = builder[b].inserted
  <2>1. builder[b] \in BuilderType
    BY DEF IndexIInv, IndexTypeOK, BuilderType
  <2> QED BY <1>1, <2>1 DEF BuilderType
<1>3. builder' \in [Builders -> BuilderType]
  BY <1>1, <1>2
<1>4. IndexTypeOK'
  BY <1>1, <1>3, DimensionAssumption DEF IndexIInv, IndexTypeOK, BuilderType
<1>5. BuildsCounted' /\ ToldIsWritten'
  BY <1>2 DEF IndexIInv, BuildsCounted, ToldIsWritten
<1> QED BY <1>1, <1>4, <1>5 DEF IndexIInv, PublishedWhole

LEMMA IndexStep == IndexIInv /\ [IndexNext]_indexVars => IndexIInv'
<1> SUFFICES ASSUME IndexIInv, [IndexNext]_indexVars PROVE IndexIInv'
  OBVIOUS
<1>1. ASSUME NEW b \in Builders, Crash(b) PROVE IndexIInv'
  <2>1. Ends(b) /\ UNCHANGED <<corpus, rows, stored, manifest, intact>>
    BY <1>1 DEF Crash
  <2>2. PublishedWhole'
    BY <2>1, StaysWhole
  <2> QED BY <2>1, <2>2, EndsKeeps DEF IndexIInv, IndexTypeOK
<1>2. CASE UNCHANGED indexVars
  BY <1>2 DEF indexVars, IndexIInv, IndexTypeOK, BuildsCounted, ToldIsWritten, PublishedWhole, Row
<1> QED BY <1>1, <1>2, IngestKeeps, StartKeeps, EnsureKeeps, WriteKeeps, PublishKeeps, RecreateKeeps
        DEF IndexNext

-----------------------------------------------------------------------------
(* The search *)

\* A search under way knows what it read; it is hybrid while it missed nothing.
SearchKnown ==
  /\ DOMAIN request = {"pc", "q", "edition", "plan", "available", "dense", "mode", "whole", "evidence", "told"}
  /\ request.whole \in BOOLEAN
  /\ request.pc = "search" => request.edition \in Editions
  /\ request.mode = "hybrid" => request.whole = TRUE
  /\ request.mode = "hybrid_degraded" => "keywords_only" \in request.told

SearchIInv == IndexIInv /\ SearchKnown

LEMMA IdleKnown ==
  /\ DOMAIN Idle = {"pc", "q", "edition", "plan", "available", "dense", "mode", "whole", "evidence", "told"}
  /\ Idle.pc = "idle" /\ Idle.mode = "none" /\ Idle.whole = TRUE
BY DEF Idle

LEMMA InitSearch == Init => SearchIInv
BY InitIndex, IdleKnown DEF Init, SearchIInv, SearchKnown

LEMMA RetrieveKnows ==
  ASSUME SearchIInv, NEW q \in Questions, Retrieve(q)
  PROVE  SearchKnown'
<1> DEFINE plan == ScopedPlan(q)
           available == Candidates(Corpus[corpus], ScopedPlan(q), Intents(q))
           start == Started(q, plan, available)
           found == ExactLookup(Corpus[corpus], start.plan, start.available)
<1>1. corpus \in Editions
  BY DEF SearchIInv, IndexIInv, IndexTypeOK
<1>2. /\ DOMAIN start = DOMAIN Idle /\ start.edition = corpus /\ start.mode = "hybrid" /\ start.whole = TRUE
  <2> HIDE DEF plan, available
  <2> QED BY IdleKnown DEF Started
<1>3. CASE request' = start
  <2> HIDE DEF start
  <2> QED BY <1>1, <1>2, <1>3, IdleKnown DEF SearchKnown
<1>4. CASE request' = Refused(q)
  <2>1. /\ DOMAIN request' = DOMAIN Idle /\ request'.pc = "found" /\ request'.mode = "refused" /\ request'.whole = TRUE
    BY <1>4, IdleKnown DEF Refused
  <2> QED BY <2>1, IdleKnown DEF SearchKnown
<1>5. CASE request' = LookedUp(start, found)
  <2> HIDE DEF start, found
  <2>1. /\ DOMAIN request' = DOMAIN Idle /\ request'.pc = "found" /\ request'.mode = "exact_id" /\ request'.whole = TRUE
    BY <1>2, <1>5, IdleKnown DEF LookedUp
  <2> QED BY <2>1, IdleKnown DEF SearchKnown
<1> QED BY <1>3, <1>4, <1>5 DEF Retrieve

\* A manifest that is the one of the chunks read is published whole.
LEMMA MatchIsWhole ==
  ASSUME SearchIInv, request.pc = "search", IndexMatches, intact, NEW base, NEW n \in RowsOfBase(C, base)
  PROVE  Row(manifest, n) \in rows
<1>1. n \in 1..Len(C)
  BY CorpusIs DEF SearchIInv, SearchKnown, RowsOfBase, C
<1>2. manifest.count = Len(C) /\ Len(C) \in Nat
  BY CorpusIs DEF SearchIInv, SearchKnown, IndexMatches, VersionOf, C
<1>3. manifest # NoVersion
  BY <1>1, <1>2 DEF NoVersion
<1> QED BY <1>1, <1>2, <1>3 DEF SearchIInv, IndexIInv, PublishedWhole

LEMMA SearchBaseKnows ==
  ASSUME SearchIInv, SearchBase
  PROVE  SearchKnown'
<1> DEFINE base == request.plan.bases[Len(request.dense) + 1]
           all == RowsOfBase(C, base)
           there == intact => \A n \in all : Row(manifest, n) \in rows
<1>1. request.pc = "search"
  BY DEF SearchBase
<1>2. CASE IndexMatches /\ SearchRows(all)
  <2>1. PICK hits : request' = [request EXCEPT !.dense = Append(@, hits), !.whole = @ /\ there]
    BY <1>2 DEF SearchRows
  <2>2. there
    BY <1>1, <1>2, MatchIsWhole
  <2> HIDE DEF there, all, base
  <2>3. /\ DOMAIN request' = DOMAIN request /\ request'.pc = request.pc /\ request'.edition = request.edition
        /\ request'.mode = request.mode /\ request'.told = request.told
        /\ request'.whole = (request.whole /\ there)
    BY <2>1 DEF SearchIInv, SearchKnown
  <2>4. request'.whole = request.whole
    BY <2>2, <2>3 DEF SearchIInv, SearchKnown
  <2> QED BY <2>3, <2>4 DEF SearchIInv, SearchKnown
<1>3. CASE request' = [request EXCEPT !.dense = Append(@, << >>), !.mode = "hybrid_degraded",
                                      !.told = @ \cup {"keywords_only"}]
  <2>1. /\ DOMAIN request' = DOMAIN request /\ request'.pc = request.pc /\ request'.edition = request.edition
        /\ request'.mode = "hybrid_degraded" /\ request'.told = request.told \cup {"keywords_only"}
        /\ request'.whole = request.whole
    BY <1>3 DEF SearchIInv, SearchKnown
  <2> QED BY <2>1 DEF SearchIInv, SearchKnown
<1> QED BY <1>2, <1>3 DEF SearchBase

LEMMA EvidenceKnows ==
  ASSUME SearchIInv, NEW choice, NEW told, request' = WithEvidence(choice, told)
  PROVE  SearchKnown'
<1>1. /\ DOMAIN request' = DOMAIN request /\ request'.pc = "found" /\ request'.mode = request.mode
      /\ request.told \subseteq request'.told /\ request'.whole = request.whole
  BY DEF WithEvidence, SearchIInv, SearchKnown
<1> QED BY <1>1 DEF SearchIInv, SearchKnown

LEMMA SearchStep == SearchIInv /\ [Next]_docVars => SearchIInv'
<1> SUFFICES ASSUME SearchIInv, [Next]_docVars PROVE SearchIInv'
  OBVIOUS
<1>1. IndexIInv'
  <2>1. [Next]_docVars => [IndexNext]_indexVars
    BY DEF Next, docVars, Retrieve, SearchBase, Rank, Answered
  <2> QED BY <2>1, IndexStep DEF SearchIInv
<1>2. SearchKnown'
  <2>1. CASE UNCHANGED request
    BY <2>1 DEF SearchIInv, SearchKnown
  <2>2. ASSUME NEW q \in Questions, Retrieve(q) PROVE SearchKnown'
    BY <2>2, RetrieveKnows
  <2>3. CASE SearchBase
    BY <2>3, SearchBaseKnows
  <2>4. CASE Rank
    BY <2>4, EvidenceKnows DEF Rank, RankIn
  <2>5. CASE Answered
    BY <2>5, IdleKnown DEF Answered, SearchKnown
  <2> QED BY <2>1, <2>2, <2>3, <2>4, <2>5 DEF Next, docVars
<1> QED BY <1>1, <1>2 DEF SearchIInv

-----------------------------------------------------------------------------
(* The characters of the evidence *)

\* The characters of the passages chosen.
Charges(chunks, chosen, n) == [k \in 1..n |-> chunks[chosen[k]].chars]
Charged(chunks, chosen, n) ==
  CHOOSE f : f = [T \in SUBSET (1..n) |->
                    IF T = {} THEN 0 ELSE f[T \ {Max(T)}] + chunks[chosen[Max(T)]].chars]

LEMMA ChargesAdd ==
  ASSUME NEW places, NEW chunks, \A p \in places : chunks[p].chars \in Int, NEW chosen \in Seq(places),
         NEW n, n = Len(chosen)
  PROVE  /\ n \in Nat /\ Charges(chunks, chosen, n) \in [1..n -> Int]
         /\ CharsIn(chunks, chosen) = Charged(chunks, chosen, n)[1..n]
         /\ (\E f : Adds(f, Charges(chunks, chosen, n), n)) =>
              Adds(Charged(chunks, chosen, n), Charges(chunks, chosen, n), n)
<1> DEFINE w == Charges(chunks, chosen, n)
           Sums(f) == f = [T \in SUBSET (1..n) |->
                             IF T = {} THEN 0 ELSE f[T \ {Max(T)}] + chunks[chosen[Max(T)]].chars]
<1>1. n \in Nat /\ DOMAIN chosen = 1..n /\ \A k \in 1..n : chosen[k] \in places
  BY LenProperties
<1>2. w \in [1..n -> Int] /\ \A k \in 1..n : w[k] = chunks[chosen[k]].chars
  BY <1>1 DEF Charges
<1>3. CharsIn(chunks, chosen) = Charged(chunks, chosen, n)[1..n]
  BY <1>1 DEF CharsIn, FoldLeft, MapThenFoldSet, Charged
<1>4. \A T \in SUBSET (1..n) : T # {} => Max(T) \in 1..n
  BY <1>1, MaxIn
<1> HIDE DEF w
<1>5. ASSUME NEW f PROVE Sums(f) <=> Adds(f, w, n)
  BY <1>2, <1>4 DEF Adds
<1>6. Charged(chunks, chosen, n) = CHOOSE f : Sums(f)
  BY DEF Charged
<1> HIDE DEF Sums
<1>7. (\E f : Sums(f)) => Sums(Charged(chunks, chosen, n))
  BY <1>6
<1>8. (\E f : Adds(f, w, n)) => Adds(Charged(chunks, chosen, n), w, n)
  BY <1>5, <1>7
<1> QED BY <1>1, <1>2, <1>3, <1>8 DEF w

LEMMA CharsAre ==
  ASSUME NEW places, NEW chunks, \A p \in places : chunks[p].chars \in Int, NEW chosen \in Seq(places)
  PROVE  /\ CharsIn(chunks, chosen) \in Int /\ (chosen = << >> => CharsIn(chunks, chosen) = 0)
         /\ \A p \in places : CharsIn(chunks, Append(chosen, p)) = CharsIn(chunks, chosen) + chunks[p].chars
<1> DEFINE n == Len(chosen)
           u == Charges(chunks, chosen, n)
           f == Charged(chunks, chosen, n)
<1>1. /\ n \in Nat /\ u \in [1..n -> Int] /\ CharsIn(chunks, chosen) = f[1..n]
      /\ (\E g : Adds(g, u, n)) => Adds(f, u, n)
  BY ChargesAdd
<1>2. \A k \in 1..n : u[k] = chunks[chosen[k]].chars
  BY DEF Charges
<1>3. \A p \in places :
        /\ Append(chosen, p) \in Seq(places) /\ Len(Append(chosen, p)) = n + 1
        /\ Append(chosen, p)[n + 1] = p /\ \A k \in 1..n : Append(chosen, p)[k] = chosen[k]
  OBVIOUS
<1>4. chosen = << >> => n = 0
  OBVIOUS
<1> HIDE DEF n, u, f
<1>5. f[1..n] \in Int
  BY <1>1, SumInt
<1>6. ASSUME chosen = << >> PROVE f[1..n] = 0
  <2> DEFINE R == {<<{}, 0>>}
  <2>1. n = 0 /\ 1..n = {}
    BY <1>4, <1>6
  <2>2. KeptBy(R, Int, 0, Plus(u, n), n)
    <3>1. \A T \in SUBSET (1..n) : T = {}
      BY <2>1
    <3>2. {} \in SUBSET (1..n) /\ 0 \in Int
      OBVIOUS
    <3>3. R \subseteq (SUBSET (1..n)) \X Int /\ <<{}, 0>> \in R
      BY <3>2
    <3> HIDE DEF R
    <3> QED BY <3>1, <3>3 DEF KeptBy
  <2> HIDE DEF R
  <2>3. <<1..n, f[1..n]>> \in R
    BY <1>1, <2>2, SumHolds
  <2> QED BY <2>3 DEF R
<1>7. ASSUME NEW p \in places
      PROVE  CharsIn(chunks, Append(chosen, p)) = f[1..n] + chunks[p].chars
  <2> DEFINE more == Append(chosen, p)
             w == Charges(chunks, more, n + 1)
             h == Charged(chunks, more, n + 1)
  <2>1. /\ more \in Seq(places) /\ Len(more) = n + 1 /\ more[n + 1] = p
        /\ \A k \in 1..n : more[k] = chosen[k]
    BY <1>3
  <2>2. \A k \in 1..(n + 1) : w[k] = chunks[more[k]].chars
    BY DEF Charges
  <2> HIDE DEF more
  <2>3. /\ w \in [1..(n + 1) -> Int] /\ CharsIn(chunks, more) = h[1..(n + 1)]
        /\ (\E g : Adds(g, w, n + 1)) => Adds(h, w, n + 1)
    BY <2>1, ChargesAdd
  <2>4. \A k \in 1..n : u[k] = w[k]
    <3>1. \A k \in 1..n : k \in 1..(n + 1)
      BY <1>1
    <3> QED BY <3>1, <1>2, <2>1, <2>2
  <2>5. w[n + 1] = chunks[p].chars
    BY <1>1, <2>1, <2>2
  <2> HIDE DEF w, h
  <2>6. h[1..(n + 1)] = f[1..n] + w[n + 1]
    <3>1. /\ n \in Nat /\ u \in [1..n -> Int] /\ w \in [1..(n + 1) -> Int]
          /\ (\E g : Adds(g, u, n)) => Adds(f, u, n)
          /\ (\E g : Adds(g, w, n + 1)) => Adds(h, w, n + 1)
      BY <1>1, <2>3
    <3> HIDE DEF u, f
    <3> QED BY <3>1, <2>4, SumOneMore
  <2> QED BY <2>3, <2>5, <2>6 DEF more
<1> QED BY <1>1, <1>5, <1>6, <1>7

-----------------------------------------------------------------------------
(* Rankings *)

\* By one number, and by another where it is the same.
LEMMA TwoKeys ==
  ASSUME NEW S, NEW R, NEW a, NEW b, \A x \in S : a[x] \in Int /\ b[x] \in Int,
         \A x, y \in S : b[x] = b[y] => x = y,
         \A x, y \in S : <<x, y>> \in R <=> (a[x] > a[y] \/ (a[x] = a[y] /\ b[x] < b[y]))
  PROVE  TotalOn(S, R)
<1>1. ASSUME NEW x \in S, NEW y \in S, NEW z \in S
      PROVE  /\ <<x, x>> \notin R
             /\ x # y => <<x, y>> \in R \/ <<y, x>> \in R
             /\ <<x, y>> \in R /\ <<y, z>> \in R => <<x, z>> \in R
  <2>1. \A t \in {x, y, z} : a[t] \in Int /\ b[t] \in Int
    OBVIOUS
  <2>2. x # y => b[x] # b[y]
    OBVIOUS
  <2>3. /\ <<x, x>> \in R <=> (a[x] > a[x] \/ (a[x] = a[x] /\ b[x] < b[x]))
        /\ <<x, y>> \in R <=> (a[x] > a[y] \/ (a[x] = a[y] /\ b[x] < b[y]))
        /\ <<y, x>> \in R <=> (a[y] > a[x] \/ (a[y] = a[x] /\ b[y] < b[x]))
        /\ <<y, z>> \in R <=> (a[y] > a[z] \/ (a[y] = a[z] /\ b[y] < b[z]))
        /\ <<x, z>> \in R <=> (a[x] > a[z] \/ (a[x] = a[z] /\ b[x] < b[z]))
    OBVIOUS
  <2> QED BY <2>1, <2>2, <2>3
<1> QED BY <1>1 DEF TotalOn

LEMMA RankedIs ==
  ASSUME NEW S \in SUBSET Int, IsFiniteSet(S), NEW score \in [S -> Int]
  PROVE  Ranked(score) \in Seq(S)
<1> DEFINE Before(m, n) == score[m] > score[n] \/ (score[m] = score[n] /\ m < n)
           R == {p \in S \X S : Before(p[1], p[2])}
           f == Ranked(score)
<1>1. \A m, n \in S : <<m, n>> \in R <=> Before(m, n)
  OBVIOUS
<1>2. f = [k \in 1..Cardinality(S) |-> CHOOSE x \in S : Cardinality({y \in S : Before(y, x)}) = k - 1]
  <2>1. DOMAIN score = S
    OBVIOUS
  <2>2. f = InOrder(DOMAIN score, Before)
    BY DEF Ranked
  <2>3. f = InOrder(S, Before)
    <3> HIDE DEF f, Before
    <3> QED BY <2>1, <2>2
  <2> QED BY <2>3 DEF InOrder
<1>3. TotalOn(S, R)
  <2> DEFINE b == [n \in S |-> n]
  <2>1. \A x \in S : score[x] \in Int /\ b[x] \in Int
    OBVIOUS
  <2>2. \A x, y \in S : b[x] = b[y] => x = y
    OBVIOUS
  <2>3. \A x, y \in S : <<x, y>> \in R <=> (score[x] > score[y] \/ (score[x] = score[y] /\ b[x] < b[y]))
    BY <1>1
  <2> HIDE DEF R, b
  <2> QED BY <2>1, <2>2, <2>3, TwoKeys
<1> HIDE DEF R, f
<1>4. \A x \in S : {y \in S : Before(y, x)} = Before1(S, R, x)
  BY <1>1 DEF Before1
<1> HIDE DEF Before
<1>5. ASSUME NEW k \in 1..Cardinality(S), NEW w \in S, Cardinality(Before1(S, R, w)) = k - 1
      PROVE  f[k] \in S /\ Cardinality(Before1(S, R, f[k])) = k - 1
  <2>1. \E x \in S : Cardinality({y \in S : Before(y, x)}) = k - 1
    BY <1>4, <1>5
  <2>2. f[k] = CHOOSE x \in S : Cardinality({y \in S : Before(y, x)}) = k - 1
    BY <1>2
  <2>3. f[k] \in S /\ Cardinality({y \in S : Before(y, f[k])}) = k - 1
    BY <2>1, <2>2
  <2> QED BY <2>3, <1>4
<1>6. f = [k \in 1..Cardinality(S) |-> f[k]]
  <2> DEFINE e(k) == CHOOSE x \in S : Cardinality({y \in S : Before(y, x)}) = k - 1
  <2>1. f = [k \in 1..Cardinality(S) |-> e(k)]
    BY <1>2
  <2> HIDE DEF e
  <2> QED BY <2>1
<1>7. PlacedIn(f, S, R)
  BY <1>5, <1>6 DEF PlacedIn
<1>8. f \in Seq(S)
  BY <1>3, <1>7, Ordered
<1> QED BY <1>8 DEF f

\* A candidate with its scores; the fusion gave each a place of its own.
Items(places) == [at : places, fused : Int, score : Int]
Apart(items) == \A k, l \in DOMAIN items : items[k].fused = items[l].fused => k = l

LEMMA ByScoreIs ==
  ASSUME NEW places, NEW items \in Seq(Items(places)), Apart(items)
  PROVE  ByScore(items) \in Seq(Items(places)) /\ Apart(ByScore(items))
<1> DEFINE S == DOMAIN items
           Before(m, n) == Leads(items[m], items[n])
           R == {p \in S \X S : Before(p[1], p[2])}
           f == InOrder(S, Before)
           a == [n \in S |-> items[n].score]
           b == [n \in S |-> items[n].fused]
           sorted == ByScore(items)
<1>1. \A m, n \in S : <<m, n>> \in R <=> Before(m, n)
  OBVIOUS
<1>2. f = [k \in 1..Cardinality(S) |-> CHOOSE x \in S : Cardinality({y \in S : Before(y, x)}) = k - 1]
  BY DEF InOrder
<1>3. \A n \in S : items[n] \in Items(places)
  BY LenProperties
<1>4. IsFiniteSet(S)
  <2>1. S = 1..Len(items) /\ Len(items) \in Nat
    BY LenProperties
  <2> QED BY <2>1, FS_Interval
<1>5. sorted = [k \in DOMAIN f |-> items[f[k]]]
  BY DEF ByScore
<1>6. TotalOn(S, R)
  <2>1. \A x \in S : a[x] \in Int /\ b[x] \in Int
    BY <1>3 DEF Items
  <2>2. \A x, y \in S : b[x] = b[y] => x = y
    BY DEF Apart
  <2>3. \A x, y \in S : <<x, y>> \in R <=> (a[x] > a[y] \/ (a[x] = a[y] /\ b[x] < b[y]))
    BY <1>1 DEF Leads
  <2> HIDE DEF R, a, b, S
  <2> QED BY <2>1, <2>2, <2>3, TwoKeys
<1> HIDE DEF R, f, sorted, S
<1>7. \A x \in S : {y \in S : Before(y, x)} = Before1(S, R, x)
  BY <1>1 DEF Before1
<1> HIDE DEF Before
<1>8. ASSUME NEW k \in 1..Cardinality(S), NEW w \in S, Cardinality(Before1(S, R, w)) = k - 1
      PROVE  f[k] \in S /\ Cardinality(Before1(S, R, f[k])) = k - 1
  <2>1. \E x \in S : Cardinality({y \in S : Before(y, x)}) = k - 1
    BY <1>7, <1>8
  <2>2. f[k] = CHOOSE x \in S : Cardinality({y \in S : Before(y, x)}) = k - 1
    BY <1>2
  <2>3. f[k] \in S /\ Cardinality({y \in S : Before(y, f[k])}) = k - 1
    BY <2>1, <2>2
  <2> QED BY <2>3, <1>7
<1>9. f = [k \in 1..Cardinality(S) |-> f[k]]
  <2> DEFINE e(k) == CHOOSE x \in S : Cardinality({y \in S : Before(y, x)}) = k - 1
  <2>1. f = [k \in 1..Cardinality(S) |-> e(k)]
    BY <1>2
  <2> HIDE DEF e
  <2> QED BY <2>1
<1>10. PlacedIn(f, S, R)
  BY <1>8, <1>9 DEF PlacedIn
<1>11. f \in Seq(S) /\ NoRepeat(f) /\ DOMAIN f = 1..Len(f) /\ Len(f) \in Nat /\ \A k \in DOMAIN f : f[k] \in S
  BY <1>4, <1>6, <1>10, Ordered, LenProperties
<1>12. sorted \in Seq(Items(places))
  <2> DEFINE m == Len(f)
             V == Items(places)
  <2>1. m \in Nat /\ sorted = [k \in 1..m |-> items[f[k]]]
    BY <1>5, <1>11
  <2>2. \A k \in 1..m : items[f[k]] \in V
    BY <1>3, <1>11
  <2> HIDE DEF m, V
  <2>3. sorted \in Seq(V)
    BY <2>1, <2>2
  <2> QED BY <2>3 DEF V
<1>13. Apart(sorted)
  <2> SUFFICES ASSUME NEW k \in DOMAIN sorted, NEW l \in DOMAIN sorted, sorted[k].fused = sorted[l].fused
               PROVE  k = l
    BY DEF Apart
  <2>1. k \in DOMAIN f /\ l \in DOMAIN f /\ sorted[k] = items[f[k]] /\ sorted[l] = items[f[l]]
    BY <1>5
  <2>2. f[k] = f[l]
    BY <2>1, <1>11 DEF Apart, S
  <2> QED BY <2>1, <2>2, <1>11 DEF NoRepeat
<1> QED BY <1>12, <1>13 DEF sorted

\* The items that pass a test keep their places apart.
LEMMA PickedApart ==
  ASSUME NEW V, NEW items \in Seq(V), NEW K \in SUBSET (DOMAIN items)
  PROVE  Picked(items, K) \in Seq(V) /\ (Apart(items) => Apart(Picked(items, K)))
<1> DEFINE f == Picked(items, K)
<1>1. IsList(items) /\ \A x \in ToSet(items) : x \in V
  BY ListIs
<1>2. /\ f \in Seq(ToSet(items))
      /\ \A k, m \in DOMAIN f : k # m => \E i, j \in K : i # j /\ f[k] = items[i] /\ f[m] = items[j]
  BY <1>1, PickedIs
<1> HIDE DEF f
<1>3. f \in Seq(V)
  <2> DEFINE S == ToSet(items)
  <2>1. f \in Seq(S) /\ S \subseteq V
    BY <1>1, <1>2
  <2> HIDE DEF S
  <2>2. Len(f) \in Nat /\ DOMAIN f = 1..Len(f) /\ f = [k \in 1..Len(f) |-> f[k]] /\ \A k \in 1..Len(f) : f[k] \in V
    BY <2>1, LenProperties
  <2> QED BY <2>2
<1>4. ASSUME Apart(items) PROVE Apart(f)
  <2> SUFFICES ASSUME NEW k \in DOMAIN f, NEW m \in DOMAIN f, f[k].fused = f[m].fused, k # m PROVE FALSE
    BY DEF Apart
  <2>1. PICK i \in K, j \in K : i # j /\ f[k] = items[i] /\ f[m] = items[j]
    BY <1>2
  <2>2. i \in DOMAIN items /\ j \in DOMAIN items /\ items[i].fused = items[j].fused
    BY <2>1
  <2> QED BY <1>4, <2>1, <2>2 DEF Apart
<1> QED BY <1>3, <1>4 DEF f

LEMMA ListAmong ==
  ASSUME NEW S, NEW T, S \subseteq T, NEW list \in Seq(S)
  PROVE  list \in Seq(T)
<1>1. Len(list) \in Nat /\ list = [k \in 1..Len(list) |-> list[k]] /\ \A k \in 1..Len(list) : list[k] \in T
  BY LenProperties
<1> QED BY <1>1

\* The unit of the scores is a number.
LEMMA UnitIs == Unit \in Int
<1> DEFINE n == CandidateLimit
           ranks == [rank \in 1..n |-> rank]
           Fold(f) == f = [T \in SUBSET (1..n) |-> IF T = {} THEN 1 ELSE f[T \ {Max(T)}] * (RankConstant + ranks[Max(T)])]
           h == CHOOSE f : Fold(f)
           V == Int
           G == [p \in V \X (1..n) |-> p[1] * (RankConstant + ranks[p[2]])]
<1>1. n \in Nat /\ RankConstant \in Nat /\ DOMAIN ranks = 1..n /\ Len(ranks) = n /\ ranks \in [1..n -> Int]
  BY LimitAssumption
<1>2. Unit = 600 * h[1..n]
  <2> HIDE DEF n
  <2> QED BY <1>1 DEF Unit, FoldLeft, MapThenFoldSet, n
<1>3. \A T \in SUBSET (1..n) : T # {} => Max(T) \in T /\ Max(T) \in 1..n
  BY <1>1, MaxIn
<1> HIDE DEF n, ranks
<1>4. \A v \in V, k \in 1..n : G[<<v, k>>] = v * (RankConstant + ranks[k])
  OBVIOUS
<1>5. G \in [V \X (1..n) -> V]
  <2>1. \A v \in Int, k \in 1..n : v * (RankConstant + ranks[k]) \in Int
    BY <1>1
  <2> QED BY <2>1
<1>6. 1 \in V
  OBVIOUS
<1> HIDE DEF G, V
<1>7. (\E f \in [SUBSET (1..n) -> V] : FoldIs(f, 1, G, n)) => StepsBy(h, V, 1, G, n)
  <2>1. ASSUME NEW f \in [SUBSET (1..n) -> V], FoldIs(f, 1, G, n) PROVE Fold(f)
    <3>1. \A T \in SUBSET (1..n) : T # {} => f[T \ {Max(T)}] \in V /\ Max(T) \in 1..n
      BY <1>3
    <3>2. \A T \in SUBSET (1..n) : T # {} =>
            G[<<f[T \ {Max(T)}], Max(T)>>] = f[T \ {Max(T)}] * (RankConstant + ranks[Max(T)])
      BY <3>1, <1>4
    <3>3. \A T \in SUBSET (1..n) :
            f[T] = IF T = {} THEN 1 ELSE f[T \ {Max(T)}] * (RankConstant + ranks[Max(T)])
      BY <2>1, <3>2 DEF FoldIs
    <3> QED BY <3>3
  <2>2. ASSUME Fold(h) PROVE StepsBy(h, V, 1, G, n)
    <3> HIDE DEF h
    <3>1. \A T \in SUBSET (1..n) :
            h[T] = IF T = {} THEN 1 ELSE h[T \ {Max(T)}] * (RankConstant + ranks[Max(T)])
      BY <2>2
    <3>2. \A T \in SUBSET (1..n) : T # {} /\ h[T \ {Max(T)}] \in V => h[T] = G[<<h[T \ {Max(T)}], Max(T)>>]
      BY <3>1, <1>3, <1>4
    <3>3. h[{}] = 1
      BY <3>1
    <3> QED BY <3>2, <3>3 DEF StepsBy
  <2> HIDE DEF Fold
  <2> QED BY <2>1, <2>2
<1> HIDE DEF h
<1>8. h[1..n] \in V
  BY <1>1, <1>5, <1>6, <1>7, FoldIn
<1> QED BY <1>2, <1>8 DEF V

-----------------------------------------------------------------------------
(* Fusion and rerank *)

ChannelsIn(places, channels) ==
  /\ IsList(channels)
  /\ \A c \in DOMAIN channels : channels[c].weight \in Nat /\ channels[c].ranking \in Seq(places)

LEMMA PlaceIs ==
  ASSUME NEW places, NEW ranking \in Seq(places), NEW n \in ToSet(ranking)
  PROVE  PlaceIn(ranking, n) \in Nat \ {0}
<1>1. DOMAIN ranking = 1..Len(ranking) /\ Len(ranking) \in Nat
  BY LenProperties
<1>2. \E r \in DOMAIN ranking : ranking[r] = n
  BY DEF ToSet
<1>3. PlaceIn(ranking, n) \in DOMAIN ranking
  BY <1>2 DEF PlaceIn
<1> QED BY <1>1, <1>3

LEMMA FusionIs ==
  ASSUME NEW places, NEW channels, ChannelsIn(places, channels), NEW x
  PROVE  FusionScore(channels, x) \in Int
<1> DEFINE n == Len(channels)
           More(v, channel) ==
             IF x \in ToSet(channel.ranking)
             THEN v + (channel.weight * Unit) \div (2 * (RankConstant + PlaceIn(channel.ranking, x)))
             ELSE v
           Fold(f) == f = [T \in SUBSET (1..n) |-> IF T = {} THEN 0 ELSE More(f[T \ {Max(T)}], channels[Max(T)])]
           h == CHOOSE f : Fold(f)
           V == Int
           G == [p \in V \X (1..n) |-> More(p[1], channels[p[2]])]
<1>1. n \in Nat /\ DOMAIN channels = 1..n
  BY LenProperties DEF ChannelsIn, IsList
<1>2. FusionScore(channels, x) = h[1..n]
  BY <1>1 DEF FusionScore, FoldLeft, MapThenFoldSet
<1>3. \A T \in SUBSET (1..n) : T # {} => Max(T) \in T /\ Max(T) \in 1..n
  BY <1>1, MaxIn
<1>4. \A v \in Int, k \in 1..n : More(v, channels[k]) \in Int
  <2> TAKE v \in Int, k \in 1..n
  <2> DEFINE w == channels[k].weight
             ranking == channels[k].ranking
             d == RankConstant + PlaceIn(ranking, x)
  <2>1. w \in Nat /\ ranking \in Seq(places)
    BY <1>1 DEF ChannelsIn
  <2>2. CASE x \in ToSet(ranking)
    <3>1. 2 * d \in Nat \ {0}
      <4>1. PlaceIn(ranking, x) \in Nat \ {0}
        <5> HIDE DEF ranking
        <5> QED BY <2>1, <2>2, PlaceIs
      <4> QED BY <4>1, LimitAssumption
    <3>2. w * Unit \in Int
      BY <2>1, UnitIs
    <3> DEFINE q == w * Unit
               e == 2 * d
    <3>3. More(v, channels[k]) = v + q \div e
      BY <2>2
    <3>4. q \in Int /\ e \in Nat \ {0}
      BY <3>1, <3>2
    <3> HIDE DEF q, e, More
    <3>5. q \div e \in Int
      BY <3>4
    <3> QED BY <3>3, <3>5
  <2>3. CASE x \notin ToSet(ranking)
    BY <2>3
  <2> QED BY <2>2, <2>3
<1> HIDE DEF n, More
<1>5. \A v \in V, k \in 1..n : G[<<v, k>>] = More(v, channels[k])
  OBVIOUS
<1>6. G \in [V \X (1..n) -> V] /\ 0 \in V
  BY <1>4
<1> HIDE DEF G, V
<1>7. (\E f \in [SUBSET (1..n) -> V] : FoldIs(f, 0, G, n)) => StepsBy(h, V, 0, G, n)
  <2>1. ASSUME NEW f \in [SUBSET (1..n) -> V], FoldIs(f, 0, G, n) PROVE Fold(f)
    <3>1. \A T \in SUBSET (1..n) : T # {} => f[T \ {Max(T)}] \in V /\ Max(T) \in 1..n
      BY <1>3
    <3>2. \A T \in SUBSET (1..n) : T # {} => G[<<f[T \ {Max(T)}], Max(T)>>] = More(f[T \ {Max(T)}], channels[Max(T)])
      BY <3>1, <1>5
    <3>3. \A T \in SUBSET (1..n) : f[T] = IF T = {} THEN 0 ELSE More(f[T \ {Max(T)}], channels[Max(T)])
      BY <2>1, <3>2 DEF FoldIs
    <3> QED BY <3>3
  <2>2. ASSUME Fold(h) PROVE StepsBy(h, V, 0, G, n)
    <3> HIDE DEF h
    <3>1. \A T \in SUBSET (1..n) : h[T] = IF T = {} THEN 0 ELSE More(h[T \ {Max(T)}], channels[Max(T)])
      BY <2>2
    <3>2. \A T \in SUBSET (1..n) : T # {} /\ h[T \ {Max(T)}] \in V => h[T] = G[<<h[T \ {Max(T)}], Max(T)>>]
      BY <3>1, <1>3, <1>5
    <3>3. h[{}] = 0
      BY <3>1
    <3> QED BY <3>2, <3>3 DEF StepsBy
  <2> HIDE DEF Fold
  <2> QED BY <2>1, <2>2
<1> HIDE DEF h
<1>8. h[1..n] \in V
  BY <1>1, <1>6, <1>7, FoldIn
<1> QED BY <1>2, <1>8 DEF V

LEMMA FusedIs ==
  ASSUME NEW places \in SUBSET Int, IsFiniteSet(places), NEW channels, ChannelsIn(places, channels)
  PROVE  Fused(channels) \in Seq(places)
<1> DEFINE S == UNION {ToSet(channels[c].ranking) : c \in DOMAIN channels}
           score == [n \in S |-> FusionScore(channels, n)]
           ranked == Ranked(score)
<1>1. S \subseteq places
  <2>1. \A c \in DOMAIN channels : \A n \in ToSet(channels[c].ranking) : n \in places
    BY ListIs DEF ChannelsIn
  <2> QED BY <2>1
<1>2. IsFiniteSet(S) /\ S \in SUBSET Int
  BY <1>1, FS_Subset
<1>3. score \in [S -> Int]
  BY FusionIs
<1>4. Fused(channels) = Cut(ranked, CandidateLimit)
  BY DEF Fused
<1>5. ranked \in Seq(S)
  <2> HIDE DEF S, score
  <2> QED BY <1>2, <1>3, RankedIs
<1> HIDE DEF ranked, S
<1>6. ranked \in Seq(places)
  BY <1>1, <1>5, ListAmong
<1> QED BY <1>4, <1>6, LimitAssumption, CutIs

\* What the numbers rest on: a search reads finitely many chunks, and a plan
\* has finitely many words.
ChunksOk(chunks, places) ==
  /\ places \in SUBSET Int /\ IsFiniteSet(places)
  /\ \A n \in places : chunks[n].chars \in Int /\ IsFiniteSet(DOMAIN chunks[n].text)
PlanOk(plan) ==
  /\ IsFiniteSet(plan.terms) /\ IsFiniteSet(plan.concepts) /\ IsFiniteSet(plan.excluded)
  /\ IsList(plan.topics)

LEMMA SetAsList ==
  ASSUME NEW S, IsFiniteSet(S)
  PROVE  SetToSeq(S) \in Seq(S)
<1> DEFINE c == Cardinality(S)
<1>1. c \in Nat /\ ExistsBijection(1..c, S)
  BY FS_CardinalityType
<1>2. PICK g : g \in Bijection(1..c, S)
  BY <1>1 DEF ExistsBijection
<1>3. g \in [1..c -> S] /\ IsInjective(g)
  BY <1>2 DEF Bijection, Injection
<1>4. SetToSeq(S) = CHOOSE f \in [1..c -> S] : IsInjective(f)
  BY DEF SetToSeq
<1>5. SetToSeq(S) \in [1..c -> S]
  BY <1>3, <1>4
<1> HIDE DEF c
<1> QED BY <1>1, <1>5

LEMMA MentionedIs ==
  ASSUME NEW q \in Questions
  PROVE  IsFiniteSet(Affirmed(q)) /\ IsFiniteSet(Negated(q))
<1> DEFINE T == {mention[1] : mention \in q.mentions}
           f == [mention \in q.mentions |-> mention[1]]
<1>1. IsFiniteSet(q.mentions)
  BY QuestionAssumption
<1>2. f \in Surjection(q.mentions, T)
  BY DEF Surjection
<1> HIDE DEF f
<1>3. IsFiniteSet(T)
  BY <1>1, <1>2, FS_Surjection
<1>4. Affirmed(q) \in SUBSET T /\ Negated(q) \in SUBSET T
  BY DEF Affirmed, Negated
<1> HIDE DEF T
<1> QED BY <1>3, <1>4, FS_Subset

\* analyze_query and apply_fab_scope.
LEMMA PlanIs ==
  ASSUME NEW q \in Questions
  PROVE  /\ PlanOk(ScopedPlan(q)) /\ ScopedPlan(q).ids = q.ids
         /\ ScopedPlan(q).concepts = Affirmed(q) /\ ScopedPlan(q).bases = KnowledgeBases(q)
         /\ (q.fab # "none" => ScopedPlan(q).fabs = {q.fab})
<1> DEFINE plan == ScopedPlan(q)
           among == SetToSeq(Affirmed(q) \cap IncidentConcepts)
<1>1. /\ plan.terms = Affirmed(q) \cup q.terms /\ plan.concepts = Affirmed(q)
      /\ plan.excluded = Negated(q) /\ plan.ids = q.ids /\ plan.topics = Subqueries(q)
      /\ plan.bases = KnowledgeBases(q) /\ (q.fab # "none" => plan.fabs = {q.fab})
  BY DEF ScopedPlan, Plan
<1> HIDE DEF plan
<1>2. IsFiniteSet(Affirmed(q)) /\ IsFiniteSet(Negated(q)) /\ IsFiniteSet(q.terms)
  BY MentionedIs, QuestionAssumption
<1>3. IsFiniteSet(Affirmed(q) \cup q.terms)
  BY <1>2, FS_Union
<1>4. IsList(Subqueries(q))
  <2> DEFINE S == Affirmed(q) \cap IncidentConcepts
             m == IF Len(among) > 3 THEN 3 ELSE Len(among)
  <2>1. among \in Seq(S)
    BY <1>2, FS_Intersection, SetAsList
  <2>2. Subqueries(q) = IF Len(among) > 1 THEN SubSeq(among, 1, m) ELSE << >>
    BY DEF Subqueries
  <2> HIDE DEF among, S
  <2>3. SubSeq(among, 1, m) \in Seq(S)
    <3>1. m \in Nat /\ m <= Len(among) /\ Len(among) \in Nat
      BY <2>1
    <3> HIDE DEF m
    <3>2. \A i \in 1..m : among[i] \in S
      BY <2>1, <3>1
    <3> QED BY <2>1, <3>1, <3>2
  <2> HIDE DEF m
  <2>4. << >> \in Seq(S)
    OBVIOUS
  <2>5. Subqueries(q) \in Seq(S)
    BY <2>2, <2>3, <2>4
  <2> QED BY <2>5, ListIs
<1> QED BY <1>1, <1>2, <1>3, <1>4 DEF PlanOk, plan

\* BM25Index.search finds some of the chunks it may.
LEMMA LexicalIs ==
  ASSUME NEW chunks, NEW places, ChunksOk(chunks, places), NEW terms, IsFiniteSet(terms)
  PROVE  Lexical(chunks, places, terms) \in Seq(places)
<1> DEFINE S == {n \in places : terms \cap Tokens(chunks[n]) # {}}
           Hits(n) == {x \in terms \X DOMAIN chunks[n].text : x[1] \in chunks[n].words[x[2]]}
           score == [n \in S |-> Cardinality(Hits(n))]
           ranked == Ranked(score)
<1>1. S \in SUBSET Int /\ IsFiniteSet(S) /\ S \subseteq places
  <2>1. S \in SUBSET places
    OBVIOUS
  <2> HIDE DEF S
  <2> QED BY <2>1, FS_Subset DEF ChunksOk
<1>2. \A n \in S : Cardinality(Hits(n)) \in Int
  <2> TAKE n \in S
  <2>1. IsFiniteSet(terms \X DOMAIN chunks[n].text)
    BY FS_Product DEF ChunksOk
  <2>2. Hits(n) \in SUBSET (terms \X DOMAIN chunks[n].text)
    OBVIOUS
  <2> HIDE DEF Hits
  <2>3. IsFiniteSet(Hits(n))
    BY <2>1, <2>2, FS_Subset
  <2> QED BY <2>3, FS_CardinalityType
<1>3. Lexical(chunks, places, terms) = Cut(ranked, CandidateLimit)
  BY DEF Lexical
<1> HIDE DEF S, Hits
<1>4. score \in [S -> Int]
  BY <1>2
<1>5. ranked \in Seq(S)
  <2> HIDE DEF score
  <2> QED BY <1>1, <1>4, RankedIs
<1> HIDE DEF ranked
<1>6. ranked \in Seq(places)
  BY <1>1, <1>5, ListAmong
<1> QED BY <1>3, <1>6, LimitAssumption, CutIs

\* _rerank: a score is a number.
LEMMA ShareIs ==
  ASSUME NEW part, NEW whole, IsFiniteSet(part), IsFiniteSet(whole)
  PROVE  Share(part, whole) \in Int
<1> DEFINE a == Unit * Cardinality(part)
           b == IF whole = {} THEN 1 ELSE Cardinality(whole)
<1>1. a \in Int
  <2> DEFINE c == Cardinality(part)
  <2>1. c \in Int /\ Unit \in Int /\ a = Unit * c
    BY UnitIs, FS_CardinalityType
  <2> HIDE DEF a, c
  <2> QED BY <2>1
<1>2. b \in Nat \ {0}
  BY FS_CardinalityType, FS_EmptySet
<1>3. Share(part, whole) = a \div b
  BY DEF Share
<1> HIDE DEF a, b
<1> QED BY <1>1, <1>2, <1>3

LEMMA FeatureScoreIs ==
  ASSUME NEW chunk, NEW plan, PlanOk(plan), NEW fusion \in Int
  PROVE  FeatureScore(chunk, plan, fusion) \in Int
<1> DEFINE overlap == Share(Overlap(chunk, plan), plan.terms)
           title == Share(plan.terms \cap chunk.title, plan.terms)
           matched == Cardinality(Matched(chunk, plan))
           focus == Cardinality(Focus(chunk, plan))
           out == Cardinality(plan.excluded \cap chunk.concepts)
<1>1. overlap \in Int /\ title \in Int
  <2>1. /\ IsFiniteSet(Overlap(chunk, plan)) /\ IsFiniteSet(plan.terms \cap chunk.title)
        /\ IsFiniteSet(plan.terms)
    BY FS_Intersection DEF PlanOk, Overlap
  <2> QED BY <2>1, ShareIs
<1>2. matched \in Int /\ focus \in Int /\ out \in Int
  <2>1. /\ IsFiniteSet(Matched(chunk, plan)) /\ IsFiniteSet(Focus(chunk, plan))
        /\ IsFiniteSet(plan.excluded \cap chunk.concepts)
    BY FS_Intersection DEF PlanOk, Matched, Focus
  <2> QED BY <2>1, FS_CardinalityType
<1> DEFINE u == Unit
           a == u \div 5
           b == (2 * u) \div 5
           c == (7 * u) \div 10
           d == title \div 2
<1>3. FeatureScore(chunk, plan, fusion) =
        IF ~Acceptable(chunk, plan) THEN -u
        ELSE fusion + overlap + d + a * matched + b * focus + (IF Exact(chunk, plan) THEN 3 * u ELSE 0)
             - b * out - (IF chunk.noise THEN c ELSE 0)
  BY DEF FeatureScore
<1> HIDE DEF overlap, title, matched, focus, out
<1>4. u \in Int /\ a \in Int /\ b \in Int /\ c \in Int /\ d \in Int
  <2>1. u \in Int
    BY UnitIs
  <2> HIDE DEF u
  <2> QED BY <2>1, <1>1
<1> HIDE DEF u, a, b, c, d
<1>5. a * matched \in Int /\ b * focus \in Int /\ b * out \in Int
  BY <1>2, <1>4
<1> QED BY <1>1, <1>3, <1>4, <1>5

\* _rerank: the candidates of the fusion, scored and in their order.
LEMMA ScoredIs ==
  ASSUME NEW chunks, NEW places, ChunksOk(chunks, places), NEW plan, PlanOk(plan),
         NEW channels, ChannelsIn(places, channels)
  PROVE  Scored(chunks, plan, channels) \in Seq(Items(places)) /\ Apart(Scored(chunks, plan, channels))
<1> DEFINE fused == Fused(channels)
           n == Len(fused)
           items == FeaturesOf(chunks, plan, channels, fused)
<1>1. fused \in Seq(places)
  BY FusedIs DEF ChunksOk
<1>2. n \in Nat /\ DOMAIN fused = 1..n /\ \A k \in 1..n : fused[k] \in places
  BY <1>1, LenProperties
<1>3. items = [k \in 1..n |-> [at |-> fused[k], fused |-> k,
                               score |-> FeatureScore(chunks[fused[k]], plan, FusionScore(channels, fused[k]))]]
  BY <1>2 DEF FeaturesOf
<1>4. \A k \in 1..n : items[k] \in Items(places) /\ items[k].fused = k
  <2> TAKE k \in 1..n
  <2>1. FeatureScore(chunks[fused[k]], plan, FusionScore(channels, fused[k])) \in Int
    BY FusionIs, FeatureScoreIs
  <2>2. items[k] = [at |-> fused[k], fused |-> k,
                    score |-> FeatureScore(chunks[fused[k]], plan, FusionScore(channels, fused[k]))]
    BY <1>3
  <2> HIDE DEF items, fused, n
  <2> QED BY <1>2, <2>1, <2>2 DEF Items
<1>5. Scored(chunks, plan, channels) = ByScore(items)
  BY DEF Scored
<1> DEFINE V == Items(places)
<1>6. items \in Seq(V)
  <2>1. DOMAIN items = 1..n /\ items = [k \in 1..n |-> items[k]]
    BY <1>3
  <2> HIDE DEF items, V, n
  <2> QED BY <1>2, <1>4, <2>1 DEF V
<1>7. Apart(items)
  <2>1. DOMAIN items = 1..n
    BY <1>3
  <2> HIDE DEF items, n
  <2> QED BY <1>4, <2>1 DEF Apart
<1> HIDE DEF items
<1> QED BY <1>5, <1>6, <1>7, ByScoreIs

\* What the choice is made from: by the features, or by the grades.
LEMMA OutcomesAre ==
  ASSUME NEW places, NEW scored \in Seq(Items(places)), Apart(scored), NEW outcome \in Outcomes(scored)
  PROVE  outcome.ranked \in Seq(Items(places))
<1> DEFINE V == Items(places)
           first == Cut(scored, RerankLimit)
<1>1. CASE outcome = [ranked |-> ByFeatures(scored), told |-> {"rules_only"}]
  <2> DEFINE K == {k \in DOMAIN scored : scored[k].score > 0}
  <2>1. ByFeatures(scored) = Picked(scored, K)
    BY DEF ByFeatures, Filtered, Picked, Sorted
  <2>2. Picked(scored, K) \in Seq(V)
    <3>1. K \in SUBSET (DOMAIN scored)
      OBVIOUS
    <3> HIDE DEF K, V
    <3> QED BY <3>1, PickedApart DEF V
  <2> QED BY <1>1, <2>1, <2>2
<1>2. ASSUME NEW grades \in [{scored[k].at : k \in DOMAIN first} -> Grades],
             outcome = [ranked |-> Graded(scored, grades), told |-> {}]
      PROVE  outcome.ranked \in Seq(V)
  <2> DEFINE K == {k \in DOMAIN first : grades[first[k].at] >= 2}
             judged == Picked(first, K)
             graded == WithGrades(judged, grades)
  <2>1. /\ first \in Seq(V)
        /\ \A k \in DOMAIN first : k \in DOMAIN scored /\ first[k] = scored[k]
    BY LimitAssumption, CutIs
  <2>2. Apart(first)
    BY <2>1 DEF Apart
  <2> HIDE DEF first, V
  <2>3. K \in SUBSET (DOMAIN first)
    OBVIOUS
  <2>4. Graded(scored, grades) = ByScore(graded)
    BY DEF Graded, Filtered, Picked, Sorted, first
  <2>5. \A k \in DOMAIN first : grades[first[k].at] \in Int
    BY <2>1, GradeAssumption
  <2>6. /\ judged \in Seq(V) /\ Apart(judged) /\ DOMAIN judged = 1..Len(judged) /\ Len(judged) \in Nat
        /\ \A k \in DOMAIN judged : judged[k] \in V
        /\ \A k \in DOMAIN judged : \E j \in K : judged[k] = first[j]
    <3>1. Picked(first, K) \in Seq(V) /\ Apart(Picked(first, K))
      <4> HIDE DEF K
      <4> QED BY <2>1, <2>2, <2>3, PickedApart
    <3>2. IsList(first)
      BY <2>1, ListIs
    <3>3. \A k \in DOMAIN Picked(first, K) : \E j \in K : Picked(first, K)[k] = first[j]
      <4> HIDE DEF K
      <4> QED BY <2>3, <3>2, PickedIs
    <3> HIDE DEF K
    <3> QED BY <3>1, <3>3, LenProperties
  <2>7. \A k \in DOMAIN judged : grades[judged[k].at] \in Int
    BY <2>5, <2>6
  <2> HIDE DEF judged, K
  <2>8. \A k \in DOMAIN judged : graded[k] \in V /\ graded[k].fused = judged[k].fused
    <3> TAKE k \in DOMAIN judged
    <3> DEFINE item == judged[k]
               g == grades[item.at]
               s == item.score
               new == g * Unit + (IF s > 0 THEN s \div 10 ELSE 0)
    <3>1. graded[k] = [item EXCEPT !.score = new]
      BY DEF WithGrades
    <3>2. item \in V /\ g \in Int
      BY <2>6, <2>7
    <3>3. s \in Int
      BY <3>2 DEF V, Items
    <3> HIDE DEF item, g, s
    <3>4. g * Unit \in Int /\ s \div 10 \in Int
      BY <3>2, <3>3, UnitIs
    <3>5. new \in Int
      BY <3>4
    <3> HIDE DEF new
    <3>6. [item EXCEPT !.score = new] \in V /\ [item EXCEPT !.score = new].fused = item.fused
      BY <3>2, <3>5 DEF V, Items
    <3> QED BY <3>1, <3>6 DEF item
  <2>9. DOMAIN graded = DOMAIN judged /\ graded = [k \in DOMAIN judged |-> graded[k]]
    BY DEF WithGrades
  <2> HIDE DEF graded
  <2>10. graded \in Seq(V)
    BY <2>6, <2>8, <2>9
  <2>11. Apart(graded)
    BY <2>6, <2>8, <2>9 DEF Apart
  <2>12. ByScore(graded) \in Seq(V)
    BY <2>10, <2>11, ByScoreIs DEF V
  <2> QED BY <1>2, <2>4, <2>12
<1>3. \/ outcome = [ranked |-> ByFeatures(scored), told |-> {"rules_only"}]
      \/ \E grades \in [{scored[k].at : k \in DOMAIN first} -> Grades] :
           outcome = [ranked |-> Graded(scored, grades), told |-> {}]
  BY DEF Outcomes
<1> HIDE DEF first
<1> QED BY <1>1, <1>2, <1>3

-----------------------------------------------------------------------------
(* The choice of the passages *)

LEMMA RemovedIs ==
  ASSUME NEW S, NEW list \in Seq(S), NEW k \in DOMAIN list
  PROVE  RemoveAt(list, k) \in Seq(S)
<1>1. DOMAIN list = 1..Len(list) /\ Len(list) \in Nat /\ \A i \in DOMAIN list : list[i] \in S
  BY LenProperties
<1>2. k \in 1..Len(list)
  BY <1>1
<1>3. SubSeq(list, 1, k - 1) \in Seq(S)
  <2>1. \A i \in 1..(k - 1) : list[i] \in S
    BY <1>1, <1>2
  <2> QED BY <1>1, <1>2, <2>1
<1>4. SubSeq(list, k + 1, Len(list)) \in Seq(S)
  <2>1. \A i \in (k + 1)..Len(list) : list[i] \in S
    BY <1>1, <1>2
  <2> QED BY <1>1, <1>2, <2>1
<1> QED BY <1>3, <1>4 DEF RemoveAt

\* Of finitely many numbers there is a first greatest.
LEMMA FirstBestIs ==
  ASSUME NEW n \in Nat \ {0}, NEW value \in [1..n -> Int]
  PROVE  FirstBest(value) \in 1..n
<1> DEFINE Leading(k, m) == \A j \in 1..m : value[j] < value[k] \/ (value[j] = value[k] /\ k <= j)
           S == {m \in Nat : m + 1 <= n => \E k \in 1..(m + 1) : Leading(k, m + 1)}
<1>1. 0 \in S
  <2>1. Leading(1, 1)
    BY Z3
  <2>2. 0 + 1 = 1 /\ 1 \in 1..1 /\ 0 \in Nat
    OBVIOUS
  <2> HIDE DEF Leading
  <2> QED BY <2>1, <2>2
<1>2. ASSUME NEW m \in Nat, m \in S PROVE m + 1 \in S
  <2> SUFFICES ASSUME m + 2 <= n PROVE \E k \in 1..(m + 2) : Leading(k, m + 2)
    <3>1. m + 1 + 1 = m + 2
      OBVIOUS
    <3> HIDE DEF Leading
    <3> QED BY <3>1
  <2>1. PICK k \in 1..(m + 1) : Leading(k, m + 1)
    <3> HIDE DEF Leading
    <3> QED BY <1>2
  <2> DEFINE last == m + 2
  <2>2. last \in 1..n /\ k \in 1..n /\ value[last] \in Int /\ value[k] \in Int /\ k < last
    <3>1. last \in 1..n /\ k \in 1..n /\ k < last
      OBVIOUS
    <3> QED BY <3>1
  <2>3. \A j \in 1..last : j \in 1..(m + 1) \/ j = last
    OBVIOUS
  <2>4. \A j \in 1..last : value[j] \in Int
    BY <2>2
  <2>5. CASE value[last] <= value[k]
    <3>1. value[last] < value[k] \/ (value[last] = value[k] /\ k <= last)
      BY <2>2, <2>5
    <3> HIDE DEF last
    <3>2. Leading(k, last)
      BY <2>1, <2>3, <3>1
    <3> HIDE DEF Leading
    <3> QED BY <3>2, <2>1 DEF last
  <2>6. CASE value[k] < value[last]
    <3>1. \A j \in 1..(m + 1) : value[j] < value[last]
      <4> TAKE j \in 1..(m + 1)
      <4>1. value[j] \in Int /\ value[j] <= value[k]
        BY <2>1, <2>2, <2>4
      <4> QED BY <4>1, <2>2, <2>6
    <3> HIDE DEF last
    <3>2. Leading(last, last)
      BY <2>2, <2>3, <3>1
    <3> HIDE DEF Leading
    <3> QED BY <3>2, <2>2 DEF last
  <2> QED BY <2>2, <2>5, <2>6
<1> HIDE DEF Leading
<1>3. n - 1 \in S
  <2>1. Nat \subseteq S
    <3> HIDE DEF S
    <3> QED BY <1>1, <1>2, Climb
  <2> HIDE DEF S
  <2> QED BY <2>1
<1>4. \E k \in 1..n : Leading(k, n)
  <2>1. n - 1 + 1 = n /\ n <= n
    OBVIOUS
  <2> QED BY <1>3, <2>1
<1>5. DOMAIN value = 1..n
  OBVIOUS
<1> QED BY <1>4, <1>5 DEF FirstBest, Leading

\* Passages within the limits, and another one that fits.
Passages(chunks, places, chosen, used) ==
  chosen \in Seq(places) /\ Len(chosen) <= TopK /\ used = CharsIn(chunks, chosen) /\ used <= ContextChars

LEMMA NoPassage ==
  ASSUME NEW chunks, NEW places, ChunksOk(chunks, places)
  PROVE  Passages(chunks, places, << >>, 0)
<1>1. << >> \in Seq(places) /\ Len(<< >>) = 0
  OBVIOUS
<1>2. CharsIn(chunks, << >>) = 0
  BY <1>1, CharsAre DEF ChunksOk
<1> QED BY <1>1, <1>2, LimitAssumption DEF Passages

LEMMA AnotherPassage ==
  ASSUME NEW chunks, NEW places, ChunksOk(chunks, places), NEW chosen, NEW used,
         Passages(chunks, places, chosen, used), Len(chosen) < TopK,
         NEW n \in places, used + chunks[n].chars <= ContextChars
  PROVE  /\ Passages(chunks, places, Append(chosen, n), used + chunks[n].chars)
         /\ ToSet(Append(chosen, n)) = ToSet(chosen) \cup {n}
<1>1. chosen \in Seq(places) /\ used = CharsIn(chunks, chosen)
  BY DEF Passages
<1>2. /\ Append(chosen, n) \in Seq(places) /\ Len(Append(chosen, n)) = Len(chosen) + 1
      /\ Len(chosen) \in Nat
  BY <1>1
<1>3. CharsIn(chunks, Append(chosen, n)) = used + chunks[n].chars
  BY <1>1, CharsAre DEF ChunksOk
<1>4. ToSet(Append(chosen, n)) = ToSet(chosen) \cup {n}
  <2>1. \A x : Has(Append(chosen, n), x) <=> Has(chosen, x) \/ x = n
    BY <1>1, AppendedHas
  <2>2. \A list : \A x : x \in ToSet(list) <=> Has(list, x)
    BY DEF ToSet, Has
  <2> QED BY <2>1, <2>2
<1> QED BY <1>2, <1>3, <1>4, LimitAssumption DEF Passages

\* What the loop of search has chosen so far.
TextsDiffer(chunks, chosen) ==
  \A k, l \in DOMAIN chosen : chunks[chosen[k]].text = chunks[chosen[l]].text => k = l
TopicsIn(chunks, plan, chosen) == UNION {Matched(chunks[n], plan) : n \in ToSet(chosen)}
Picks(chunks, places, plan) ==
  {acc \in [left : Seq(Items(places)), chosen : Seq(places), used : Int,
            covered : SUBSET plan.concepts, dropped : BOOLEAN] :
     /\ Passages(chunks, places, acc.chosen, acc.used)
     /\ TextsDiffer(chunks, acc.chosen) /\ acc.covered \subseteq TopicsIn(chunks, plan, acc.chosen)}

LEMMA BestIs ==
  ASSUME NEW chunks, NEW places, NEW plan, PlanOk(plan), NEW acc, acc.left \in Seq(Items(places)), acc.left # << >>
  PROVE  Best(chunks, plan, acc) \in DOMAIN acc.left
<1> DEFINE n == Len(acc.left)
           more(k) == TopicsOf(chunks[acc.left[k].at], plan) \ acc.covered
           value == [k \in DOMAIN acc.left |-> acc.left[k].score + ((7 * Unit) \div 20) * Cardinality(more(k))]
<1>1. n \in Nat \ {0} /\ DOMAIN acc.left = 1..n /\ \A k \in 1..n : acc.left[k] \in Items(places)
  BY LenProperties, EmptySeq
<1>2. \A k \in 1..n : value[k] \in Int
  <2> TAKE k \in 1..n
  <2> DEFINE s == acc.left[k].score
             a == (7 * Unit) \div 20
             c == Cardinality(more(k))
  <2>1. s \in Int
    BY <1>1 DEF Items
  <2>2. a \in Int
    BY UnitIs
  <2>3. c \in Int
    <3>1. TopicsOf(chunks[acc.left[k].at], plan) \in SUBSET plan.concepts
      BY DEF TopicsOf, Focus, Matched
    <3>2. more(k) \in SUBSET plan.concepts
      BY <3>1
    <3> HIDE DEF more
    <3>3. IsFiniteSet(more(k))
      BY <3>2, FS_Subset DEF PlanOk
    <3> QED BY <3>3, FS_CardinalityType
  <2>4. value[k] = s + a * c
    BY <1>1
  <2> HIDE DEF s, a, c, value
  <2>5. a * c \in Int
    BY <2>2, <2>3
  <2> QED BY <2>1, <2>4, <2>5
<1>3. Best(chunks, plan, acc) = FirstBest(value)
  BY DEF Best
<1>4. value \in [1..n -> Int]
  <2>1. value = [k \in 1..n |-> value[k]]
    BY <1>1
  <2> HIDE DEF value
  <2> QED BY <1>2, <2>1
<1> HIDE DEF value, n
<1>5. FirstBest(value) \in 1..n
  BY <1>1, <1>4, FirstBestIs
<1> QED BY <1>1, <1>3, <1>5

\* A passage is taken, unless its text is there or too long.
LEMMA TakeKeeps ==
  ASSUME NEW chunks, NEW places, ChunksOk(chunks, places), NEW plan,
         NEW rest \in Picks(chunks, places, plan), Len(rest.chosen) < TopK, NEW n \in places
  PROVE  Take(chunks, plan, rest, n) \in Picks(chunks, places, plan)
<1> DEFINE V == Picks(chunks, places, plan)
           Record == [left : Seq(Items(places)), chosen : Seq(places), used : Int,
                      covered : SUBSET plan.concepts, dropped : BOOLEAN]
<1>1. /\ rest \in Record /\ Passages(chunks, places, rest.chosen, rest.used)
      /\ TextsDiffer(chunks, rest.chosen) /\ rest.covered \subseteq TopicsIn(chunks, plan, rest.chosen)
  BY DEF Picks
<1>2. CASE \E m \in ToSet(rest.chosen) : chunks[m].text = chunks[n].text
  BY <1>2 DEF Take
<1>3. ASSUME rest.used + chunks[n].chars > ContextChars,
             ~ \E m \in ToSet(rest.chosen) : chunks[m].text = chunks[n].text
      PROVE  Take(chunks, plan, rest, n) \in V
  <2> DEFINE after == [rest EXCEPT !.dropped = TRUE]
  <2>1. Take(chunks, plan, rest, n) = after
    BY <1>3 DEF Take
  <2>2. /\ after \in Record /\ after.chosen = rest.chosen /\ after.used = rest.used
        /\ after.covered = rest.covered
    BY <1>1
  <2> HIDE DEF after
  <2> QED BY <1>1, <2>1, <2>2 DEF Picks
<1>4. ASSUME ~(rest.used + chunks[n].chars > ContextChars),
             ~ \E m \in ToSet(rest.chosen) : chunks[m].text = chunks[n].text
      PROVE  Take(chunks, plan, rest, n) \in V
  <2> DEFINE chosen == Append(rest.chosen, n)
             used == rest.used + chunks[n].chars
             covered == rest.covered \cup Matched(chunks[n], plan)
             after == [rest EXCEPT !.chosen = chosen, !.used = used, !.covered = covered]
  <2>1. Take(chunks, plan, rest, n) = after
    BY <1>4 DEF Take
  <2>2. used \in Int /\ used <= ContextChars /\ rest.used \in Int
    BY <1>1, <1>4, LimitAssumption DEF ChunksOk
  <2>3. Passages(chunks, places, chosen, used) /\ ToSet(chosen) = ToSet(rest.chosen) \cup {n}
    BY <1>1, <2>2, AnotherPassage
  <2>4. covered \in SUBSET plan.concepts
    BY <1>1 DEF Matched
  <2>5. covered \subseteq TopicsIn(chunks, plan, chosen)
    <3> HIDE DEF chosen
    <3> QED BY <1>1, <2>3 DEF TopicsIn
  <2>6. TextsDiffer(chunks, chosen)
    <3> DEFINE c == Len(rest.chosen)
    <3>1. /\ c \in Nat /\ DOMAIN chosen = 1..(c + 1) /\ chosen[c + 1] = n
          /\ DOMAIN rest.chosen = 1..c /\ \A k \in 1..c : chosen[k] = rest.chosen[k]
      <4> DEFINE list == rest.chosen
      <4>1. list \in Seq(places)
        BY <1>1
      <4> HIDE DEF list
      <4>2. /\ Len(list) \in Nat /\ DOMAIN Append(list, n) = 1..(Len(list) + 1)
            /\ Append(list, n)[Len(list) + 1] = n /\ DOMAIN list = 1..Len(list)
            /\ \A k \in 1..Len(list) : Append(list, n)[k] = list[k]
        BY <4>1
      <4> QED BY <4>2 DEF list
    <3>2. \A k \in 1..c : chunks[rest.chosen[k]].text # chunks[n].text
      BY <1>4, <3>1 DEF ToSet
    <3> HIDE DEF c, chosen
    <3>3. \A k \in 1..(c + 1) : k \in 1..c \/ k = c + 1
      BY <3>1
    <3>4. \A k, l \in 1..c : chunks[rest.chosen[k]].text = chunks[rest.chosen[l]].text => k = l
      BY <1>1, <3>1 DEF TextsDiffer
    <3>5. ASSUME NEW k \in 1..(c + 1), NEW l \in 1..(c + 1), chunks[chosen[k]].text = chunks[chosen[l]].text
          PROVE  k = l
      <4>1. CASE k \in 1..c /\ l \in 1..c
        BY <3>1, <3>4, <3>5, <4>1
      <4>2. CASE k \in 1..c /\ l = c + 1
        BY <3>1, <3>2, <3>5, <4>2
      <4>3. CASE k = c + 1 /\ l \in 1..c
        BY <3>1, <3>2, <3>5, <4>3
      <4> QED BY <3>3, <4>1, <4>2, <4>3
    <3> QED BY <3>1, <3>5 DEF TextsDiffer
  <2>7. chosen \in Seq(places)
    BY <2>3 DEF Passages
  <2> HIDE DEF chosen, used, covered
  <2>8. /\ after \in Record /\ after.chosen = chosen /\ after.used = used
        /\ after.covered = covered
    BY <1>1, <2>2, <2>4, <2>7
  <2> HIDE DEF after
  <2> QED BY <2>1, <2>3, <2>5, <2>6, <2>8 DEF Picks
<1> QED BY <1>2, <1>3, <1>4

LEMMA ChosenKeeps ==
  ASSUME NEW chunks, NEW places, ChunksOk(chunks, places), NEW plan, PlanOk(plan),
         NEW acc \in Picks(chunks, places, plan)
  PROVE  Chosen(chunks, plan, acc) \in Picks(chunks, places, plan)
<1> DEFINE k == Best(chunks, plan, acc)
           n == acc.left[k].at
           left == RemoveAt(acc.left, k)
           rest == [acc EXCEPT !.left = left]
<1>1. CASE acc.left = << >> \/ Len(acc.chosen) >= TopK
  BY <1>1 DEF Chosen
<1>2. ASSUME acc.left # << >>, ~(Len(acc.chosen) >= TopK)
      PROVE  Chosen(chunks, plan, acc) \in Picks(chunks, places, plan)
  <2>1. acc.left \in Seq(Items(places)) /\ acc.chosen \in Seq(places)
    BY DEF Picks
  <2>2. k \in DOMAIN acc.left
    BY <1>2, <2>1, BestIs
  <2>3. n \in places /\ left \in Seq(Items(places))
    <3>1. acc.left[k] \in Items(places)
      BY <2>1, <2>2, LenProperties
    <3>2. RemoveAt(acc.left, k) \in Seq(Items(places))
      <4> HIDE DEF k
      <4> QED BY <2>1, <2>2, RemovedIs
    <3> QED BY <3>1, <3>2 DEF Items
  <2>4. Chosen(chunks, plan, acc) = Take(chunks, plan, rest, n)
    BY <1>2 DEF Chosen, TakeAt
  <2> HIDE DEF left, n, k
  <2>5. rest \in Picks(chunks, places, plan) /\ rest.chosen = acc.chosen
    <3> DEFINE Record == [left : Seq(Items(places)), chosen : Seq(places), used : Int,
                          covered : SUBSET plan.concepts, dropped : BOOLEAN]
    <3>1. acc \in Record
      BY DEF Picks
    <3>2. /\ rest \in Record /\ rest.chosen = acc.chosen /\ rest.used = acc.used
          /\ rest.covered = acc.covered
      BY <2>3, <3>1
    <3> HIDE DEF rest
    <3> QED BY <3>2 DEF Picks
  <2>6. Len(rest.chosen) < TopK
    BY <1>2, <2>1, <2>5, LimitAssumption
  <2> HIDE DEF rest
  <2> QED BY <2>3, <2>4, <2>5, <2>6, TakeKeeps
<1> QED BY <1>1, <1>2

\* The loop of search.
LEMMA SelectIs ==
  ASSUME NEW chunks, NEW places, ChunksOk(chunks, places), NEW plan, PlanOk(plan),
         NEW ranked \in Seq(Items(places))
  PROVE  Select(chunks, plan, ranked) \in Picks(chunks, places, plan)
<1> DEFINE n == Len(ranked)
           base == [left |-> ranked, chosen |-> << >>, used |-> 0, covered |-> {}, dropped |-> FALSE]
           V == Picks(chunks, places, plan)
           Fold(f) == f = [T \in SUBSET (1..n) |-> IF T = {} THEN base ELSE Chosen(chunks, plan, f[T \ {Max(T)}])]
           h == CHOOSE f : Fold(f)
           G == [p \in V \X (1..n) |-> Chosen(chunks, plan, p[1])]
<1>1. n \in Nat /\ DOMAIN ranked = 1..n
  BY LenProperties
<1>2. Select(chunks, plan, ranked) = h[1..n]
  BY <1>1 DEF Select, FoldLeft, MapThenFoldSet
<1>3. \A T \in SUBSET (1..n) : T # {} => Max(T) \in T /\ Max(T) \in 1..n
  BY <1>1, MaxIn
<1>4. base \in V
  <2>1. Passages(chunks, places, << >>, 0)
    BY NoPassage
  <2>2. TextsDiffer(chunks, << >>)
    BY DEF TextsDiffer
  <2>3. /\ base \in [left : Seq(Items(places)), chosen : Seq(places), used : Int,
                     covered : SUBSET plan.concepts, dropped : BOOLEAN]
        /\ base.chosen = << >> /\ base.used = 0 /\ base.covered = {}
    OBVIOUS
  <2> HIDE DEF base
  <2> QED BY <2>1, <2>2, <2>3 DEF Picks
<1> HIDE DEF n, base
<1>5. \A acc \in V : Chosen(chunks, plan, acc) \in V
  BY ChosenKeeps
<1> HIDE DEF V
<1>6. \A acc \in V, k \in 1..n : G[<<acc, k>>] = Chosen(chunks, plan, acc)
  OBVIOUS
<1>7. G \in [V \X (1..n) -> V]
  BY <1>5
<1> HIDE DEF G
<1>8. (\E f \in [SUBSET (1..n) -> V] : FoldIs(f, base, G, n)) => StepsBy(h, V, base, G, n)
  <2>1. ASSUME NEW f \in [SUBSET (1..n) -> V], FoldIs(f, base, G, n) PROVE Fold(f)
    <3>1. \A T \in SUBSET (1..n) : T # {} => f[T \ {Max(T)}] \in V /\ Max(T) \in 1..n
      BY <1>3
    <3>2. \A T \in SUBSET (1..n) : T # {} => G[<<f[T \ {Max(T)}], Max(T)>>] = Chosen(chunks, plan, f[T \ {Max(T)}])
      BY <3>1, <1>6
    <3>3. \A T \in SUBSET (1..n) : f[T] = IF T = {} THEN base ELSE Chosen(chunks, plan, f[T \ {Max(T)}])
      BY <2>1, <3>2 DEF FoldIs
    <3> QED BY <3>3
  <2>2. ASSUME Fold(h) PROVE StepsBy(h, V, base, G, n)
    <3> HIDE DEF h
    <3>1. \A T \in SUBSET (1..n) : h[T] = IF T = {} THEN base ELSE Chosen(chunks, plan, h[T \ {Max(T)}])
      BY <2>2
    <3>2. \A T \in SUBSET (1..n) : T # {} /\ h[T \ {Max(T)}] \in V => h[T] = G[<<h[T \ {Max(T)}], Max(T)>>]
      BY <3>1, <1>3, <1>6
    <3>3. h[{}] = base
      BY <3>1
    <3> QED BY <3>2, <3>3 DEF StepsBy
  <2> HIDE DEF Fold
  <2> QED BY <2>1, <2>2
<1> HIDE DEF h
<1>9. h[1..n] \in V
  BY <1>1, <1>4, <1>7, <1>8, FoldIn
<1> QED BY <1>2, <1>9 DEF V

\* _exact_lookup: what is found, and for which ids.
IdsIn(chunks, chosen) == UNION {chunks[n].primary : n \in ToSet(chosen)}
LookUps(chunks, places) ==
  {acc \in [chosen : Seq(places), used : Int, found : SUBSET UNION {chunks[n].primary : n \in places}] :
     Passages(chunks, places, acc.chosen, acc.used) /\ acc.found \subseteq IdsIn(chunks, acc.chosen)}

LEMMA LookUpKeeps ==
  ASSUME NEW chunks, NEW places, ChunksOk(chunks, places), NEW acc \in LookUps(chunks, places),
         NEW id, NEW n
  PROVE  LookUp(chunks, places, acc, id, n) \in LookUps(chunks, places)
<1> DEFINE fits == /\ n \in places /\ id \in chunks[n].primary /\ n \notin ToSet(acc.chosen)
                   /\ Len(acc.chosen) < TopK /\ acc.used + chunks[n].chars <= ContextChars
           chosen == Append(acc.chosen, n)
           used == acc.used + chunks[n].chars
           found == acc.found \cup {id}
           after == [chosen |-> chosen, used |-> used, found |-> found]
<1>1. LookUp(chunks, places, acc, id, n) = IF fits THEN after ELSE acc
  BY DEF LookUp
<1>2. /\ acc.chosen \in Seq(places) /\ acc.used \in Int /\ acc.found \subseteq IdsIn(chunks, acc.chosen)
      /\ acc.found \subseteq UNION {chunks[m].primary : m \in places}
      /\ Passages(chunks, places, acc.chosen, acc.used)
  BY DEF LookUps
<1>3. ASSUME fits PROVE after \in LookUps(chunks, places)
  <2>1. Passages(chunks, places, chosen, used) /\ ToSet(chosen) = ToSet(acc.chosen) \cup {n}
    BY <1>2, <1>3, AnotherPassage
  <2>2. used \in Int /\ chosen \in Seq(places)
    BY <1>2, <1>3, <2>1 DEF ChunksOk, Passages
  <2>3. found \subseteq UNION {chunks[m].primary : m \in places}
    BY <1>2, <1>3
  <2>4. found \subseteq IdsIn(chunks, chosen)
    <3> HIDE DEF chosen
    <3> QED BY <1>2, <1>3, <2>1 DEF IdsIn
  <2> HIDE DEF chosen, used, found
  <2> QED BY <2>1, <2>2, <2>3, <2>4 DEF LookUps
<1> HIDE DEF fits, after
<1> QED BY <1>1, <1>3

LEMMA LookedUpIs ==
  ASSUME NEW chunks, IsList(chunks), NEW places, ChunksOk(chunks, places), NEW plan, IsList(plan.ids)
  PROVE  ExactLookup(chunks, plan, places) \in LookUps(chunks, places)
<1> DEFINE seqs == [i \in DOMAIN plan.ids |-> [n \in DOMAIN chunks |-> <<plan.ids[i], n>>]]
           pairs == FlattenSeq(seqs)
           n == Len(pairs)
           base == [chosen |-> << >>, used |-> 0, found |-> {}]
           V == LookUps(chunks, places)
           Fold(f) == f = [T \in SUBSET (1..n) |->
                             IF T = {} THEN base
                             ELSE LookUp(chunks, places, f[T \ {Max(T)}], pairs[Max(T)][1], pairs[Max(T)][2])]
           h == CHOOSE f : Fold(f)
           G == [p \in V \X (1..n) |-> LookUp(chunks, places, p[1], pairs[p[2]][1], pairs[p[2]][2])]
<1>0. IsList(pairs)
  <2> DEFINE row(i) == [m \in DOMAIN chunks |-> <<plan.ids[i], m>>]
  <2>1. \A i \in DOMAIN plan.ids : IsList(row(i))
    <3> TAKE i \in DOMAIN plan.ids
    <3>1. DOMAIN chunks = 1..Len(chunks) /\ Len(chunks) \in Nat
      BY LenProperties DEF IsList
    <3>2. row(i) = [m \in 1..Len(chunks) |-> row(i)[m]]
      BY <3>1
    <3> HIDE DEF row
    <3> QED BY <3>1, <3>2, ListOf
  <2>2. DOMAIN plan.ids = 1..Len(plan.ids) /\ Len(plan.ids) \in Nat
    BY LenProperties DEF IsList
  <2>3. seqs = [i \in 1..Len(plan.ids) |-> seqs[i]] /\ \A i \in DOMAIN seqs : seqs[i] = row(i)
    BY <2>2
  <2> HIDE DEF row
  <2>4. \A i \in DOMAIN seqs : IsList(seqs[i])
    BY <2>1, <2>2, <2>3
  <2> HIDE DEF seqs
  <2>5. IsList(seqs)
    BY <2>2, <2>3, ListOf
  <2> QED BY <2>4, <2>5, FlattenIs
<1>1. n \in Nat /\ DOMAIN pairs = 1..n
  <2> HIDE DEF pairs
  <2> QED BY <1>0, LenProperties DEF IsList
<1>2. ExactLookup(chunks, plan, places) = h[1..n]
  <2>1. ExactLookup(chunks, plan, places) =
          FoldLeft(LAMBDA acc, pair : LookUp(chunks, places, acc, pair[1], pair[2]), base, pairs)
    BY DEF ExactLookup
  <2> HIDE DEF pairs
  <2> QED BY <1>1, <2>1 DEF FoldLeft, MapThenFoldSet
<1>3. \A T \in SUBSET (1..n) : T # {} => Max(T) \in T /\ Max(T) \in 1..n
  BY <1>1, MaxIn
<1>4. base \in V
  <2>1. Passages(chunks, places, << >>, 0)
    BY NoPassage
  <2>2. /\ base \in [chosen : Seq(places), used : Int, found : SUBSET UNION {chunks[m].primary : m \in places}]
        /\ base.chosen = << >> /\ base.used = 0 /\ base.found = {}
    OBVIOUS
  <2> HIDE DEF base
  <2> QED BY <2>1, <2>2 DEF LookUps
<1> HIDE DEF n, base, pairs
<1>5. \A acc \in V, k \in 1..n : LookUp(chunks, places, acc, pairs[k][1], pairs[k][2]) \in V
  BY LookUpKeeps
<1> HIDE DEF V
<1>6. \A acc \in V, k \in 1..n : G[<<acc, k>>] = LookUp(chunks, places, acc, pairs[k][1], pairs[k][2])
  OBVIOUS
<1>7. G \in [V \X (1..n) -> V]
  BY <1>5
<1> HIDE DEF G
<1>8. (\E f \in [SUBSET (1..n) -> V] : FoldIs(f, base, G, n)) => StepsBy(h, V, base, G, n)
  <2>1. ASSUME NEW f \in [SUBSET (1..n) -> V], FoldIs(f, base, G, n) PROVE Fold(f)
    <3>1. \A T \in SUBSET (1..n) : T # {} => f[T \ {Max(T)}] \in V /\ Max(T) \in 1..n
      BY <1>3
    <3>2. \A T \in SUBSET (1..n) : T # {} =>
            G[<<f[T \ {Max(T)}], Max(T)>>]
            = LookUp(chunks, places, f[T \ {Max(T)}], pairs[Max(T)][1], pairs[Max(T)][2])
      BY <3>1, <1>6
    <3>3. \A T \in SUBSET (1..n) :
            f[T] = IF T = {} THEN base
                   ELSE LookUp(chunks, places, f[T \ {Max(T)}], pairs[Max(T)][1], pairs[Max(T)][2])
      BY <2>1, <3>2 DEF FoldIs
    <3> QED BY <3>3
  <2>2. ASSUME Fold(h) PROVE StepsBy(h, V, base, G, n)
    <3> HIDE DEF h
    <3>1. \A T \in SUBSET (1..n) :
            h[T] = IF T = {} THEN base
                   ELSE LookUp(chunks, places, h[T \ {Max(T)}], pairs[Max(T)][1], pairs[Max(T)][2])
      BY <2>2
    <3>2. \A T \in SUBSET (1..n) : T # {} /\ h[T \ {Max(T)}] \in V => h[T] = G[<<h[T \ {Max(T)}], Max(T)>>]
      BY <3>1, <1>3, <1>6
    <3>3. h[{}] = base
      BY <3>1
    <3> QED BY <3>2, <3>3 DEF StepsBy
  <2> HIDE DEF Fold
  <2> QED BY <2>1, <2>2
<1> HIDE DEF h
<1>9. h[1..n] \in V
  BY <1>1, <1>4, <1>7, <1>8, FoldIn
<1> QED BY <1>2, <1>9 DEF V

-----------------------------------------------------------------------------
(* The inductive invariant of a request *)

\* A search goes on with the plan of its question, over the chunks that were
\* admitted when it began.
SearchPlanned ==
  request.pc = "search" =>
    /\ request.q \in Questions /\ ~ScopeConflict(request.q) /\ request.plan = ScopedPlan(request.q)
    /\ request.available = Candidates(C, request.plan, Intents(request.q))
    /\ request.dense \in Seq(Seq(request.available))
    /\ request.mode \in {"hybrid", "hybrid_degraded"}

EvidenceKnown == SearchPlanned /\ EvidenceSound

LEMMA AvailableIs ==
  ASSUME NEW e \in Editions, NEW plan, NEW intents, NEW available, available = Candidates(Corpus[e], plan, intents)
  PROVE  /\ IsList(Corpus[e]) /\ ChunksOk(Corpus[e], available)
         /\ \A n \in available : Eligible(Corpus[e][n], plan) /\ Admitted(Corpus[e][n], plan, intents)
<1>1. /\ IsList(Corpus[e]) /\ Len(Corpus[e]) \in Nat /\ DOMAIN Corpus[e] = 1..Len(Corpus[e])
      /\ \A n \in DOMAIN Corpus[e] : Corpus[e][n].chars \in Int /\ Corpus[e][n].text \in Seq(Pieces)
  BY CorpusIs
<1>2. available \in SUBSET (1..Len(Corpus[e]))
  BY <1>1 DEF Candidates
<1>3. IsFiniteSet(available) /\ available \in SUBSET Int
  <2> DEFINE n == Len(Corpus[e])
             D == 1..n
  <2>1. n \in Int
    BY <1>1
  <2>2. available \in SUBSET D
    BY <1>2
  <2> HIDE DEF n
  <2>3. IsFiniteSet(D)
    BY <2>1, FS_Interval
  <2>4. D \subseteq Int
    BY <2>1
  <2> HIDE DEF D
  <2> QED BY <2>2, <2>3, <2>4, FS_Subset
<1>4. \A n \in available : Corpus[e][n].chars \in Int /\ IsFiniteSet(DOMAIN Corpus[e][n].text)
  <2> TAKE n \in available
  <2> DEFINE text == Corpus[e][n].text
  <2>1. text \in Seq(Pieces) /\ Corpus[e][n].chars \in Int
    BY <1>1, <1>2
  <2> HIDE DEF text
  <2>2. DOMAIN text = 1..Len(text) /\ Len(text) \in Int
    BY <2>1, LenProperties
  <2>3. IsFiniteSet(DOMAIN text)
    BY <2>2, FS_Interval
  <2> QED BY <2>1, <2>3 DEF text
<1> QED BY <1>1, <1>3, <1>4 DEF ChunksOk, Candidates

\* What was admitted is of the base, the FAB and the issue asked about.
LEMMA AdmittedFits ==
  ASSUME NEW q \in Questions, ~ScopeConflict(q), NEW chunk, Eligible(chunk, ScopedPlan(q)),
         Admitted(chunk, ScopedPlan(q), Intents(q))
  PROVE  /\ chunk.base \in ToSet(ScopedPlan(q).bases) /\ chunk.status # "withdrawn"
         /\ (q.fab # "none" => chunk.fabs = {} \/ q.fab \in chunk.fabs)
         /\ (ScopedPlan(q).ids = << >> /\ chunk.base = Playbook => Aligned(chunk, Intents(q)))
<1>1. q.fab # "none" => ScopedPlan(q).fabs = {q.fab}
  BY PlanIs
<1> QED BY <1>1 DEF Eligible, Admitted

\* EvidenceSound of one request.
FitFor(chunks, plan, chosen, q, mode) ==
  /\ Len(chosen) <= TopK /\ CharsIn(chunks, chosen) <= ContextChars
  /\ TextsDiffer(chunks, chosen) \/ mode = "exact_id"
  /\ \A n \in ToSet(chosen) :
       /\ chunks[n].base \in ToSet(plan.bases) /\ chunks[n].status # "withdrawn"
       /\ q.fab # "none" => chunks[n].fabs = {} \/ q.fab \in chunks[n].fabs
       /\ plan.ids = << >> /\ chunks[n].base = Playbook => Aligned(chunks[n], Intents(q))
ToldFor(chunks, plan, chosen, mode, told) ==
  /\ mode # "exact_id" /\ (\E topic \in plan.concepts : \A n \in chosen : topic \notin chunks[n].concepts) =>
       "topics_missing" \in told
  /\ mode = "exact_id" /\ (\E id \in ToSet(plan.ids) : \A n \in chosen : id \notin chunks[n].primary) =>
       "missing_ids" \in told
  /\ chosen = {} => told \cap {"nothing_found", "missing_ids"} # {}

LEMMA SoundAfter ==
  ASSUME FitFor(C', request'.plan, request'.evidence, request'.q, request'.mode),
         ToldFor(C', request'.plan, ToSet(request'.evidence), request'.mode, request'.told)
  PROVE  EvidenceSound'
<1>1. Fit(C, request.plan, request.evidence)'
  BY DEF Fit, FitFor, TextsDiffer
<1>2. Told(C, request.plan, ToSet(request.evidence))'
  BY DEF Told, ToldFor
<1> QED BY <1>1, <1>2 DEF EvidenceSound, EvidenceFit, GapsTold

LEMMA InitEvidence == Init => EvidenceKnown
BY IdleKnown DEF Init, EvidenceKnown, SearchPlanned, EvidenceSound, EvidenceFit, GapsTold, Found

LEMMA RetrieveSound ==
  ASSUME SearchIInv, NEW q \in Questions, Retrieve(q)
  PROVE  EvidenceKnown'
<1> DEFINE plan == ScopedPlan(q)
           chunks == Corpus[corpus]
           available == Candidates(chunks, plan, Intents(q))
           start == Started(q, plan, available)
           found == ExactLookup(chunks, start.plan, start.available)
<1>1. corpus \in Editions
  BY DEF SearchIInv, IndexIInv, IndexTypeOK
<1>2. /\ start.pc = "search" /\ start.q = q /\ start.edition = corpus /\ start.plan = plan
      /\ start.available = available /\ start.dense = << >> /\ start.mode = "hybrid"
      /\ DOMAIN start = DOMAIN Idle
  <2> HIDE DEF plan, available
  <2> QED BY DEF Started, Idle
<1>3. CASE request' = Refused(q)
  <2>1. request'.pc = "found" /\ request'.mode = "refused"
    BY <1>3 DEF Refused, Idle
  <2> QED BY <2>1 DEF EvidenceKnown, SearchPlanned, EvidenceSound, EvidenceFit, GapsTold, Found
<1>4. ASSUME ~ScopeConflict(q), request' = start PROVE EvidenceKnown'
  <2> HIDE DEF start
  <2>1. C' = chunks
    BY <1>2, <1>4 DEF C
  <2>2. SearchPlanned'
    <3>1. << >> \in Seq(Seq(request'.available)) /\ request'.dense = << >>
      BY <1>2, <1>4
    <3> QED BY <1>2, <1>4, <2>1, <3>1 DEF SearchPlanned
  <2>3. ~Found'
    BY <1>2, <1>4 DEF Found
  <2> QED BY <2>2, <2>3 DEF EvidenceKnown, EvidenceSound, EvidenceFit, GapsTold
<1>5. ASSUME ~ScopeConflict(q), q.idsOnly, request' = LookedUp(start, found) PROVE EvidenceKnown'
  <2> HIDE DEF start
  <2>1. /\ request'.pc = "found" /\ request'.mode = "exact_id" /\ request'.q = q /\ request'.edition = corpus
        /\ request'.plan = plan /\ request'.evidence = found.chosen
        /\ request'.told = IF ToSet(plan.ids) \subseteq found.found THEN {} ELSE {"missing_ids"}
    BY <1>2, <1>5 DEF LookedUp, Idle
  <2>2. C' = chunks
    BY <2>1 DEF C
  <2>3. PlanOk(plan) /\ plan.ids = q.ids /\ IsList(plan.ids) /\ plan.ids # << >>
    BY <1>5, PlanIs, QuestionAssumption
  <2>4. /\ IsList(chunks) /\ ChunksOk(chunks, available)
        /\ \A n \in available : Eligible(chunks[n], plan) /\ Admitted(chunks[n], plan, Intents(q))
    BY <1>1, AvailableIs
  <2>5. found \in LookUps(chunks, available)
    <3> HIDE DEF chunks, available, plan
    <3> QED BY <1>2, <2>3, <2>4, LookedUpIs
  <2>6. \A n \in available :
          /\ chunks[n].base \in ToSet(plan.bases) /\ chunks[n].status # "withdrawn"
          /\ (q.fab # "none" => chunks[n].fabs = {} \/ q.fab \in chunks[n].fabs)
          /\ (plan.ids = << >> /\ chunks[n].base = Playbook => Aligned(chunks[n], Intents(q)))
    BY <1>5, <2>4, AdmittedFits
  <2> HIDE DEF found, chunks, available, plan
  <2>7. /\ Passages(chunks, available, found.chosen, found.used) /\ found.chosen \in Seq(available)
        /\ found.found \subseteq IdsIn(chunks, found.chosen)
    BY <2>5 DEF LookUps
  <2>8. ToSet(found.chosen) \subseteq available
    BY <2>7, ListIs
  <2>9. FitFor(chunks, plan, found.chosen, q, "exact_id")
    BY <2>6, <2>7, <2>8 DEF FitFor, Passages
  <2>10. ToldFor(chunks, plan, ToSet(found.chosen), "exact_id", request'.told)
    <3>1. ASSUME NEW id \in ToSet(plan.ids), \A n \in ToSet(found.chosen) : id \notin chunks[n].primary
          PROVE  "missing_ids" \in request'.told
      <4>1. id \notin found.found
        BY <2>7, <3>1 DEF IdsIn
      <4> QED BY <2>1, <4>1
    <3>2. ASSUME ToSet(found.chosen) = {} PROVE "missing_ids" \in request'.told
      <4>1. found.found = {}
        BY <2>7, <3>2 DEF IdsIn
      <4>2. ToSet(plan.ids) # {}
        <5>1. DOMAIN plan.ids = 1..Len(plan.ids) /\ Len(plan.ids) \in Nat /\ Len(plan.ids) # 0
          BY <2>3, LenProperties, EmptySeq DEF IsList
        <5>2. 1 \in DOMAIN plan.ids
          BY <5>1
        <5> QED BY <5>2 DEF ToSet
      <4> QED BY <2>1, <4>1, <4>2
    <3> QED BY <3>1, <3>2 DEF ToldFor
  <2>11. EvidenceSound'
    BY <2>1, <2>2, <2>9, <2>10, SoundAfter
  <2> QED BY <2>1, <2>11 DEF EvidenceKnown, SearchPlanned
<1> QED BY <1>3, <1>4, <1>5 DEF Retrieve

\* A vector search adds chunks that were admitted.
LEMMA NearestIs ==
  ASSUME NEW there, IsFiniteSet(there), NEW hits \in Nearest(there)
  PROVE  hits \in Seq(request.available)
<1>1. PICK s \in SUBSET there :
        \E list \in SetToSeqs(s) : hits = Filtered(list, LAMBDA n : n \in request.available)
  BY DEF Nearest
<1>1a. PICK list \in SetToSeqs(s) : hits = Filtered(list, LAMBDA n : n \in request.available)
  BY <1>1
<1> DEFINE K == {k \in DOMAIN list : list[k] \in request.available}
<1>2. Cardinality(s) \in Nat
  BY FS_Subset, FS_CardinalityType
<1>3. list \in Seq(s)
  BY <1>2 DEF SetToSeqs
<1>4. hits = Picked(list, K)
  BY <1>1a DEF Filtered, Picked, Sorted
<1>5. IsList(list) /\ K \in SUBSET (DOMAIN list) /\ \A k \in K : list[k] \in request.available
  BY <1>3, ListIs
<1> HIDE DEF K
<1>6. /\ Cardinality(K) \in Nat /\ DOMAIN hits = 1..Cardinality(K)
      /\ hits \in Seq(ToSet(list)) /\ Len(hits) = Cardinality(K)
      /\ \A k \in DOMAIN hits : \E j \in K : hits[k] = list[j]
  BY <1>4, <1>5, PickedIs
<1>7. \A k \in DOMAIN hits : hits[k] \in request.available
  BY <1>5, <1>6
<1>8. hits = [k \in 1..Cardinality(K) |-> hits[k]]
  BY <1>6, LenProperties
<1> QED BY <1>6, <1>7, <1>8

LEMMA SearchBaseSound ==
  ASSUME SearchIInv, EvidenceKnown, SearchBase
  PROVE  EvidenceKnown'
<1> DEFINE all == RowsOfBase(C, request.plan.bases[Len(request.dense) + 1])
           there == {n \in all : Row(manifest, n) \in rows}
<1>1. /\ request.pc = "search" /\ request.edition \in Editions /\ request.dense \in Seq(Seq(request.available))
      /\ DOMAIN request = DOMAIN Idle
  <2>1. request.pc = "search"
    BY DEF SearchBase
  <2>2. request.edition \in Editions /\ DOMAIN request = DOMAIN Idle
    BY <2>1, IdleKnown DEF SearchIInv, SearchKnown
  <2>3. request.dense \in Seq(Seq(request.available))
    BY <2>1 DEF EvidenceKnown, SearchPlanned
  <2> QED BY <2>1, <2>2, <2>3
<1>2. IsFiniteSet(there)
  <2> DEFINE D == 1..Len(C)
  <2>1. DOMAIN C = D /\ Len(C) \in Nat
    BY <1>1, CorpusIs DEF C
  <2>2. IsFiniteSet(D)
    BY <2>1, FS_Interval
  <2>3. there \in SUBSET D
    BY <2>1 DEF RowsOfBase
  <2> HIDE DEF D, there
  <2> QED BY <2>2, <2>3, FS_Subset
<1>3. PICK hits \in Seq(request.available) :
        /\ request'.dense = Append(request.dense, hits) /\ request'.mode \in {request.mode, "hybrid_degraded"}
        /\ request'.pc = request.pc /\ request'.q = request.q /\ request'.edition = request.edition
        /\ request'.plan = request.plan /\ request'.available = request.available
  <2>1. CASE SearchRows(all)
    <3>1. PICK hits \in Nearest(there) :
            request' = [request EXCEPT !.dense = Append(@, hits),
                                       !.whole = @ /\ (intact => \A n \in all : Row(manifest, n) \in rows)]
      BY <2>1 DEF SearchRows
    <3> HIDE DEF all, there
    <3>2. hits \in Seq(request.available)
      BY <1>2, NearestIs
    <3> QED BY <1>1, <3>1, <3>2 DEF Idle
  <2>2. CASE request' = [request EXCEPT !.dense = Append(@, << >>), !.mode = "hybrid_degraded",
                                        !.told = @ \cup {"keywords_only"}]
    <3>1. << >> \in Seq(request.available)
      OBVIOUS
    <3> QED BY <1>1, <2>2, <3>1 DEF Idle
  <2> HIDE DEF there
  <2> QED BY <2>1, <2>2 DEF SearchBase
<1>4. C' = C
  BY <1>3 DEF C
<1>5. request'.dense \in Seq(Seq(request'.available))
  <2> DEFINE V == Seq(request.available)
  <2>1. request.dense \in Seq(V) /\ hits \in V
    BY <1>1
  <2> HIDE DEF V
  <2>2. Append(request.dense, hits) \in Seq(V)
    BY <2>1
  <2> QED BY <1>3, <2>2 DEF V
<1>6. SearchPlanned'
  BY <1>1, <1>3, <1>4, <1>5 DEF EvidenceKnown, SearchPlanned
<1>7. ~Found'
  BY <1>1, <1>3 DEF Found
<1> QED BY <1>6, <1>7 DEF EvidenceKnown, EvidenceSound, EvidenceFit, GapsTold

\* What is fused are rankings of chunks that were admitted.
LEMMA ChannelsAre ==
  ASSUME NEW chunks, ChunksOk(chunks, request.available), NEW plan, PlanOk(plan),
         request.dense \in Seq(Seq(request.available))
  PROVE  ChannelsIn(request.available, Channels(chunks, plan))
<1> DEFINE places == request.available
           X == [weight : Nat, ranking : Seq(places)]
           words == [weight |-> 2, ranking |-> Lexical(chunks, places, plan.terms)]
           topics == [t \in DOMAIN plan.topics |->
                        [weight |-> 1, ranking |-> Lexical(chunks, places, {plan.topics[t]})]]
           dense == [d \in DOMAIN request.dense |-> [weight |-> 2, ranking |-> request.dense[d]]]
<1>1. Channels(chunks, plan) = (<<words>> \o topics) \o dense
  BY DEF Channels
<1>2. words \in X
  BY LexicalIs DEF PlanOk
<1>3. topics \in Seq(X)
  <2> DEFINE n == Len(plan.topics)
  <2>1. n \in Nat /\ DOMAIN plan.topics = 1..n
    BY LenProperties DEF PlanOk, IsList
  <2>2. \A t \in 1..n : topics[t] \in X
    <3> TAKE t \in 1..n
    <3>1. IsFiniteSet({plan.topics[t]})
      BY FS_Singleton
    <3>2. Lexical(chunks, places, {plan.topics[t]}) \in Seq(places)
      BY <3>1, LexicalIs
    <3> QED BY <2>1, <3>2
  <2>3. topics = [t \in 1..n |-> topics[t]]
    BY <2>1
  <2>4. n \in Nat
    BY <2>1
  <2> HIDE DEF n, topics, X
  <2>5. topics \in [1..n -> X]
    BY <2>2, <2>3
  <2> QED BY <2>4, <2>5
<1>4. dense \in Seq(X)
  <2> DEFINE n == Len(request.dense)
             V == Seq(places)
  <2>1. n \in Nat /\ DOMAIN request.dense = 1..n /\ \A d \in 1..n : request.dense[d] \in V
    BY LenProperties
  <2>2. \A d \in 1..n : dense[d] \in X
    BY <2>1
  <2>3. dense = [d \in 1..n |-> dense[d]]
    BY <2>1
  <2>4. n \in Nat
    BY <2>1
  <2> HIDE DEF n, dense, X, V
  <2>5. dense \in [1..n -> X]
    BY <2>2, <2>3
  <2> QED BY <2>4, <2>5
<1> HIDE DEF words, topics, dense
<1>5. Channels(chunks, plan) \in Seq(X)
  <2> HIDE DEF X
  <2>1. <<words>> \in Seq(X)
    BY <1>2
  <2>2. <<words>> \o topics \in Seq(X)
    BY <1>3, <2>1, JoinedHas
  <2>3. (<<words>> \o topics) \o dense \in Seq(X)
    BY <1>4, <2>2, JoinedHas
  <2> QED BY <1>1, <2>3
<1>6. \A c \in DOMAIN Channels(chunks, plan) : Channels(chunks, plan)[c] \in X
  <2> HIDE DEF X
  <2> QED BY <1>5, LenProperties
<1>7. IsList(Channels(chunks, plan))
  <2> HIDE DEF X
  <2> QED BY <1>5, ListIs
<1> QED BY <1>6, <1>7 DEF ChannelsIn

LEMMA RankSound ==
  ASSUME SearchIInv, EvidenceKnown, Rank
  PROVE  EvidenceKnown'
<1> DEFINE chunks == C
           plan == request.plan
           q == request.q
           places == request.available
           channels == Channels(chunks, plan)
           scored == Scored(chunks, plan, channels)
<1>1. /\ request.pc = "search" /\ request.edition \in Editions /\ DOMAIN request = DOMAIN Idle
      /\ q \in Questions /\ ~ScopeConflict(q) /\ plan = ScopedPlan(q)
      /\ places = Candidates(chunks, plan, Intents(q)) /\ request.dense \in Seq(Seq(places))
      /\ request.mode \in {"hybrid", "hybrid_degraded"}
  <2>1. request.pc = "search"
    BY DEF Rank
  <2>2. request.edition \in Editions /\ DOMAIN request = DOMAIN Idle
    BY <2>1, IdleKnown DEF SearchIInv, SearchKnown
  <2> QED BY <2>1, <2>2 DEF EvidenceKnown, SearchPlanned
<1>2. PICK outcome \in Outcomes(scored) :
        request' = WithEvidence(Select(chunks, plan, outcome.ranked), outcome.told)
  BY DEF Rank, RankIn
<1> DEFINE choice == Select(chunks, plan, outcome.ranked)
<1>3. PlanOk(plan)
  BY <1>1, PlanIs
<1>4. /\ ChunksOk(chunks, places)
      /\ \A n \in places : Eligible(chunks[n], plan) /\ Admitted(chunks[n], plan, Intents(q))
  <2> HIDE DEF plan, q, places
  <2>1. chunks = Corpus[request.edition]
    BY DEF C
  <2> HIDE DEF chunks
  <2> QED BY <1>1, <2>1, AvailableIs
<1>5. choice \in Picks(chunks, places, plan)
  <2>1. ChannelsIn(places, channels)
    BY <1>1, <1>3, <1>4, ChannelsAre
  <2> HIDE DEF chunks, plan, places, channels, scored
  <2>2. scored \in Seq(Items(places)) /\ Apart(scored)
    BY <1>3, <1>4, <2>1, ScoredIs DEF scored
  <2>3. outcome.ranked \in Seq(Items(places))
    BY <2>2, OutcomesAre
  <2> QED BY <1>3, <1>4, <2>3, SelectIs
<1>6. \A n \in places :
        /\ chunks[n].base \in ToSet(plan.bases) /\ chunks[n].status # "withdrawn"
        /\ (q.fab # "none" => chunks[n].fabs = {} \/ q.fab \in chunks[n].fabs)
        /\ (plan.ids = << >> /\ chunks[n].base = Playbook => Aligned(chunks[n], Intents(q)))
  <2> HIDE DEF chunks, places, q
  <2> QED BY <1>1, <1>4, AdmittedFits
<1> HIDE DEF choice, channels, scored
<1>7. /\ request'.pc = "found" /\ request'.q = q /\ request'.edition = request.edition
      /\ request'.plan = plan /\ request'.mode = request.mode /\ request'.evidence = choice.chosen
      /\ request'.told = request.told \cup outcome.told
                         \cup (IF choice.chosen = << >> THEN {"nothing_found"} ELSE {})
                         \cup (IF choice.dropped THEN {"too_long"} ELSE {})
                         \cup (IF plan.concepts \subseteq choice.covered THEN {} ELSE {"topics_missing"})
  BY <1>1, <1>2 DEF WithEvidence, Idle, choice
<1>8. C' = chunks
  BY <1>7 DEF C
<1>9. /\ Passages(chunks, places, choice.chosen, choice.used) /\ TextsDiffer(chunks, choice.chosen)
      /\ choice.covered \subseteq TopicsIn(chunks, plan, choice.chosen)
  BY <1>5 DEF Picks
<1> HIDE DEF chunks, plan, q, places
<1>10. choice.chosen \in Seq(places) /\ ToSet(choice.chosen) \subseteq places
  BY <1>9, ListIs DEF Passages
<1>11. FitFor(chunks, plan, choice.chosen, q, request.mode)
  BY <1>6, <1>9, <1>10 DEF FitFor, Passages
<1>12. ToldFor(chunks, plan, ToSet(choice.chosen), request.mode, request'.told)
  <2>1. ASSUME NEW topic \in plan.concepts, \A n \in ToSet(choice.chosen) : topic \notin chunks[n].concepts
        PROVE  "topics_missing" \in request'.told
    <3>1. topic \notin choice.covered
      BY <1>9, <2>1 DEF TopicsIn, Matched
    <3> QED BY <1>7, <3>1
  <2>2. ASSUME ToSet(choice.chosen) = {} PROVE "nothing_found" \in request'.told
    <3>1. choice.chosen = << >>
      <4>1. DOMAIN choice.chosen = 1..Len(choice.chosen) /\ Len(choice.chosen) \in Nat
        BY <1>10, LenProperties
      <4>2. DOMAIN choice.chosen = {}
        BY <2>2 DEF ToSet
      <4>3. Len(choice.chosen) = 0
        <5>1. Len(choice.chosen) # 0 => 1 \in 1..Len(choice.chosen)
          BY <4>1
        <5> QED BY <4>1, <4>2, <5>1
      <4> QED BY <1>10, <4>3, EmptySeq
    <3> QED BY <1>7, <3>1
  <2>3. request.mode # "exact_id"
    BY <1>1
  <2> QED BY <2>1, <2>2, <2>3 DEF ToldFor
<1>13. EvidenceSound'
  BY <1>7, <1>8, <1>11, <1>12, SoundAfter
<1> QED BY <1>7, <1>13 DEF EvidenceKnown, SearchPlanned

LEMMA EvidenceStep == SearchIInv /\ EvidenceKnown /\ [Next]_docVars => EvidenceKnown'
<1> SUFFICES ASSUME SearchIInv, EvidenceKnown, [Next]_docVars PROVE EvidenceKnown'
  OBVIOUS
<1>1. CASE UNCHANGED request
  BY <1>1 DEF EvidenceKnown, SearchPlanned, EvidenceSound, EvidenceFit, GapsTold, Found, Fit, Told, C
<1>2. ASSUME NEW q \in Questions, Retrieve(q) PROVE EvidenceKnown'
  BY <1>2, RetrieveSound
<1>3. CASE SearchBase
  BY <1>3, SearchBaseSound
<1>4. CASE Rank
  BY <1>4, RankSound
<1>5. CASE Answered
  <2>1. request'.pc = "idle"
    BY <1>5, IdleKnown DEF Answered
  <2> QED BY <2>1 DEF EvidenceKnown, SearchPlanned, EvidenceSound, EvidenceFit, GapsTold, Found
<1> QED BY <1>1, <1>2, <1>3, <1>4, <1>5 DEF Next, docVars

-----------------------------------------------------------------------------
(* What follows *)

LEMMA Invariant == Spec => []SearchIInv
BY InitSearch, SearchStep, PTL DEF Spec

\* The index keeps its types; every row belongs to a chunk of its version.
THEOREM IndexTypeCorrect == Spec => []IndexTypeOK
<1>1. SearchIInv => IndexTypeOK
  BY DEF SearchIInv, IndexIInv
<1> QED BY <1>1, Invariant, PTL

\* build_rag_index publishes a manifest only of a version all of whose chunks
\* have their rows, and they stay.
THEOREM ManifestIsWhole == Spec => []PublishedWhole
<1>1. SearchIInv => PublishedWhole
  BY DEF SearchIInv, IndexIInv
<1> QED BY <1>1, Invariant, PTL

\* The chunk store holds a document whole, whichever edition was ingested last:
\* _split_text loses no character and makes no chunk longer than the target.
THEOREM DocumentsAreWhole == Spec => []DocumentsWhole
<1>1. ASSUME SearchIInv PROVE DocumentsWhole
  <2>1. corpus \in Editions
    BY <1>1 DEF SearchIInv, IndexIInv, IndexTypeOK
  <2> QED BY <2>1, CorpusIs DEF DocumentsWhole, AllKept
<1> QED BY <1>1, Invariant, PTL

\* retrieve_with_trace calls a search hybrid only if it searched the vectors of
\* everything it read, whatever was ingested, built or published meanwhile.
THEOREM HybridMissesNothing == Spec => []HybridWhole
<1>1. SearchIInv => HybridWhole
  BY DEF SearchIInv, SearchKnown, HybridWhole
<1> QED BY <1>1, Invariant, PTL

\* search and _exact_lookup: what an answer is written from is within the
\* limits, of the FAB, the base and the issue asked about and without a repeated
\* text, whatever was ingested or built meanwhile; a topic no passage is about is
\* told, and of a list of procedures each one no passage describes.
THEOREM EvidenceAlwaysSound == Spec => []EvidenceSound
<1>1. Spec => []EvidenceKnown
  BY InitEvidence, EvidenceStep, Invariant, PTL DEF Spec
<1>2. EvidenceKnown => EvidenceSound
  BY DEF EvidenceKnown
<1> QED BY <1>1, <1>2, PTL

=============================================================================
