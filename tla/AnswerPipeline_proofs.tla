------------------------ MODULE AnswerPipeline_proofs ------------------------
(***************************************************************************)
(* Proofs about AnswerPipeline, for any requests, results, texts, models   *)
(* and numbers of rounds: the text that is shown was checked and examined, *)
(* its numbers are known ones and it tells what was asked; causes are      *)
(* earned, estimates bounded, axes accounted for and claims verified.      *)
(***************************************************************************)
EXTENDS AnswerPipeline, FiniteSetTheorems, SequenceTheorems, WellFoundedInduction, TLAPS

-----------------------------------------------------------------------------
(* The inductive invariant *)

\* What decides how a request is answered no longer changes when it has been
\* decided: a composed answer is reviewed, a grounded one generated and judged.
PathDecided ==
  /\ phase \in {"tools", "review", "generate", "judge", "done"}
  /\ phase = "review" => ~UsesDocuments
  /\ phase \in {"generate", "judge"} => UsesDocuments

IInv == PathDecided /\ ReviewedText

\* While the evidence stays, so does the way of the answer.
LEMMA SameWay == UNCHANGED <<request, evidence>> => (UsesDocuments' <=> UsesDocuments)
BY DEF UsesDocuments

LEMMA InitIInv == Init => IInv
BY DEF Init, IInv, PathDecided, ReviewedText, Composed

\* The agents run before an answer is composed.
LEMMA AgentsKeep ==
  ASSUME IInv, phase = "tools", phase' = "tools"
  PROVE  IInv'
BY DEF IInv, PathDecided, ReviewedText, Composed

\* Whatever is shown of a composed answer is shown by Show.
LEMMA ShowKeeps ==
  ASSUME NEW text, NEW how, IInv, phase = "review", Show(text, how),
         text # Withheld => BlockingOf(text) = {} /\ how.examined = TopicsOf(text)
  PROVE  IInv'
<1>1. /\ phase' = "done" /\ shown' = text /\ review' = how
      /\ request' = request /\ evidence' = evidence
  BY DEF Show
<1>2. PathDecided'
  BY <1>1 DEF PathDecided
<1>3. ASSUME text # Withheld PROVE BlockingOf(shown)' = {} /\ review'.examined = TopicsOf(shown)'
  BY <1>1, <1>3 DEF BlockingOf, TopicsOf
<1> QED BY <1>1, <1>2, <1>3 DEF IInv, ReviewedText, Composed

\* A grounded answer is none of the composed ones.
LEMMA GroundedKeeps ==
  ASSUME IInv, UsesDocuments, UNCHANGED <<request, evidence>>,
         phase' \in {"generate", "judge", "done"}
  PROVE  IInv'
<1>1. UsesDocuments'
  BY SameWay
<1> QED BY <1>1 DEF IInv, PathDecided, ReviewedText, Composed

LEMMA StepIInv == IInv /\ [Next]_vars => IInv'
<1> SUFFICES ASSUME IInv, [Next]_vars PROVE IInv'
  OBVIOUS
<1>1. CASE RunText2Sql
  BY <1>1, AgentsKeep DEF RunText2Sql, Turn
<1>2. CASE RunRag
  BY <1>2, AgentsKeep DEF RunRag, Turn
<1>3. CASE RunCaseSearch
  BY <1>3, AgentsKeep DEF RunCaseSearch, Turn
<1>4. CASE RunImpact
  BY <1>4, AgentsKeep DEF RunImpact, Turn
<1>5. CASE RunVisualization
  BY <1>5, AgentsKeep DEF RunVisualization, Turn
<1>6. CASE Compose
  <2>1. phase' = "review" /\ ~UsesDocuments /\ UNCHANGED <<request, evidence>>
    BY <1>6 DEF Compose
  <2> QED BY <2>1, SameWay DEF IInv, PathDecided, ReviewedText, Composed
<1>7. CASE ApproveAnswer
  <2>1. PICK j \in Judgements(TopicsOf(candidate)) :
          JudgedSound(j, TopicsOf(candidate)) /\ Show(candidate, ByModel(j.examined))
    BY <1>7 DEF ApproveAnswer
  <2>2. phase = "review" /\ BlockingOf(candidate) = {}
    BY <1>7 DEF ApproveAnswer
  <2>3. ByModel(j.examined).examined = TopicsOf(candidate)
    BY <2>1 DEF JudgedSound, ByModel
  <2> QED BY <2>1, <2>2, <2>3, ShowKeeps
<1>8. CASE CorrectAnswer
  <2>1. PICK text \in Revisions(request, candidate) :
          CleanCorrection(text, candidate) /\ Show(text, ByCheck)
    BY <1>8 DEF CorrectAnswer
  <2>2. phase = "review"
    BY <1>8 DEF CorrectAnswer
  <2>3. BlockingOf(text) = {} /\ ByCheck.examined = TopicsOf(text)
    BY <2>1 DEF CleanCorrection, ByCheck
  <2> QED BY <2>1, <2>2, <2>3, ShowKeeps
<1>9. CASE ReviewAgain
  <2>1. phase = "review" /\ phase' = "review" /\ UNCHANGED <<request, evidence>>
    BY <1>9 DEF ReviewAgain
  <2> QED BY <2>1, SameWay DEF IInv, PathDecided, ReviewedText, Composed
<1>10. CASE Withhold
  BY <1>10, ShowKeeps DEF Withhold
<1>11. CASE StartGrounded
  <2>1. UsesDocuments /\ UNCHANGED <<request, evidence>> /\ phase' \in {"generate", "done"}
    BY <1>11 DEF StartGrounded
  <2> QED BY <2>1, GroundedKeeps
<1>12. CASE Generate
  <2>1. UsesDocuments /\ UNCHANGED <<request, evidence>>
    BY <1>12 DEF Generate, IInv, PathDecided
  <2>2. phase' \in {"generate", "judge", "done"}
    BY <1>12 DEF Generate
  <2> QED BY <2>1, <2>2, GroundedKeeps
<1>13. CASE Judge
  <2>1. UsesDocuments /\ UNCHANGED <<request, evidence>> /\ phase' = "done"
    BY <1>13 DEF Judge, IInv, PathDecided
  <2> QED BY <2>1, GroundedKeeps
<1>14. CASE ModelFails
  <2>1. UsesDocuments /\ UNCHANGED <<request, evidence>> /\ phase' = "done"
    BY <1>14 DEF ModelFails, IInv, PathDecided
  <2> QED BY <2>1, GroundedKeeps
<1>15. CASE UNCHANGED vars
  <2>1. UNCHANGED <<request, evidence, phase, shown, review>>
    BY <1>15 DEF vars
  <2>2. BlockingOf(shown)' = BlockingOf(shown) /\ TopicsOf(shown)' = TopicsOf(shown)
    BY <2>1 DEF BlockingOf, TopicsOf
  <2> QED BY <2>1, <2>2, SameWay DEF IInv, PathDecided, ReviewedText, Composed
<1> QED BY <1>1, <1>2, <1>3, <1>4, <1>5, <1>6, <1>7, <1>8, <1>9, <1>10, <1>11, <1>12, <1>13,
           <1>14, <1>15 DEF Next

-----------------------------------------------------------------------------
(* What follows from it *)

\* review_final_answer: whatever the models write and approve, however many
\* rounds it takes, a composed answer is shown only without a blocking warning
\* and with all its own flagged topics examined.
THEOREM ShownIsReviewed == Spec => []ReviewedText
<1>1. IInv => ReviewedText
  BY DEF IInv
<1> QED BY <1>1, InitIInv, StepIInv, PTL DEF Spec

\* _answer_supervisor_node and compose_grounded exclude each other: a request
\* is reviewed as a composed answer or judged as a grounded one.
THEOREM OneWay == Spec => []PathDecided
<1>1. IInv => PathDecided
  BY DEF IInv
<1> QED BY <1>1, InitIInv, StepIInv, PTL DEF Spec

-----------------------------------------------------------------------------
(* Lists in an order *)

\* How many come before each, of a finite set in a strict total order R.
TotalOn(S, R) ==
  \A x, y \in S : /\ <<x, x>> \notin R
                  /\ x # y => <<x, y>> \in R \/ <<y, x>> \in R
                  /\ \A z \in S : <<x, y>> \in R /\ <<y, z>> \in R => <<x, z>> \in R
Before1(S, R, x) == {y \in S : <<y, x>> \in R}

LEMMA FewerBefore ==
  ASSUME NEW S, IsFiniteSet(S), NEW R, TotalOn(S, R), NEW x \in S
  PROVE  /\ Cardinality(Before1(S, R, x)) \in 0..(Cardinality(S) - 1)
         /\ \A z \in S : <<x, z>> \in R => Cardinality(Before1(S, R, x)) < Cardinality(Before1(S, R, z))
<1>1. ASSUME NEW T, IsFiniteSet(T), Before1(S, R, x) \subseteq T, x \in T
      PROVE  Cardinality(Before1(S, R, x)) \in Nat /\ Cardinality(T) \in Nat
             /\ Cardinality(Before1(S, R, x)) < Cardinality(T)
  <2>1. x \notin Before1(S, R, x)
    BY DEF TotalOn, Before1
  <2> HIDE DEF Before1
  <2>2. /\ IsFiniteSet(Before1(S, R, x)) /\ Cardinality(Before1(S, R, x)) <= Cardinality(T)
        /\ Cardinality(Before1(S, R, x)) = Cardinality(T) => Before1(S, R, x) = T
    BY <1>1, FS_Subset
  <2>3. Cardinality(Before1(S, R, x)) \in Nat /\ Cardinality(T) \in Nat
    BY <1>1, <2>2, FS_CardinalityType
  <2> QED BY <1>1, <2>1, <2>2, <2>3
<1>2. Before1(S, R, x) \subseteq S
  BY DEF Before1
<1>3. ASSUME NEW z \in S, <<x, z>> \in R
      PROVE  Cardinality(Before1(S, R, x)) < Cardinality(Before1(S, R, z))
  <2>1. Before1(S, R, x) \subseteq Before1(S, R, z) /\ x \in Before1(S, R, z)
    BY <1>3 DEF Before1, TotalOn
  <2>2. Before1(S, R, z) \subseteq S
    BY DEF Before1
  <2>3. IsFiniteSet(Before1(S, R, z))
    BY <2>2, FS_Subset
  <2> QED BY <1>1, <2>1, <2>3
<1> QED BY <1>1, <1>2, <1>3

LEMMA EachPlaceTaken ==
  ASSUME NEW S, IsFiniteSet(S), NEW R, TotalOn(S, R)
  PROVE  /\ \A x, z \in S : Cardinality(Before1(S, R, x)) = Cardinality(Before1(S, R, z)) => x = z
         /\ \A k \in 0..(Cardinality(S) - 1) : \E x \in S : Cardinality(Before1(S, R, x)) = k
<1>1. ASSUME NEW x \in S, NEW z \in S, x # z
      PROVE  Cardinality(Before1(S, R, x)) # Cardinality(Before1(S, R, z))
  <2>1. <<x, z>> \in R \/ <<z, x>> \in R
    BY <1>1 DEF TotalOn
  <2>2. \A a \in S : Cardinality(Before1(S, R, a)) \in 0..(Cardinality(S) - 1)
    BY FewerBefore
  <2>3. \A a, b \in S : <<a, b>> \in R => Cardinality(Before1(S, R, a)) < Cardinality(Before1(S, R, b))
    BY FewerBefore
  <2>4. Cardinality(S) \in Nat
    BY FS_CardinalityType
  <2> QED BY <2>1, <2>2, <2>3, <2>4
<1>2. ASSUME NEW k \in 0..(Cardinality(S) - 1), \A x \in S : Cardinality(Before1(S, R, x)) # k
      PROVE  FALSE
  <2> DEFINE T == (0..(Cardinality(S) - 1)) \ {k}
             pos == [x \in S |-> Cardinality(Before1(S, R, x))]
  <2>1. pos \in [S -> T]
    BY <1>2, FewerBefore
  <2>2. Cardinality(S) \in Nat
    BY FS_CardinalityType
  <2>3. IsFiniteSet(0..(Cardinality(S) - 1)) /\ Cardinality(0..(Cardinality(S) - 1)) = Cardinality(S)
    <3> DEFINE c == Cardinality(S)
    <3>1. c \in Nat
      BY <2>2
    <3> HIDE DEF c
    <3>2. IsFiniteSet(0..(c - 1)) /\ Cardinality(0..(c - 1)) = c
      BY <3>1, FS_Interval
    <3> QED BY <3>2 DEF c
  <2>4. IsFiniteSet(T) /\ Cardinality(T) = Cardinality(S) - 1
    <3> DEFINE I == 0..(Cardinality(S) - 1)
    <3>1. IsFiniteSet(I) /\ Cardinality(I) = Cardinality(S) /\ k \in I
      BY <2>3
    <3> HIDE DEF I
    <3>2. IsFiniteSet(I \ {k}) /\ Cardinality(I \ {k}) = Cardinality(I) - 1
      BY <3>1, FS_RemoveElement
    <3> QED BY <3>1, <3>2 DEF I
  <2> HIDE DEF T
  <2>5. \E x, y \in S : x # y /\ pos[x] = pos[y]
    <3> HIDE DEF pos
    <3> QED BY <2>1, <2>2, <2>4, FS_PigeonHole
  <2> QED BY <2>5, <1>1
<1> QED BY <1>1, <1>2

\* A list without a repetition.
NoRepeat(list) == \A m, n \in DOMAIN list : list[m] = list[n] => m = n

\* A list whose k-th element has k - 1 elements before it has each of them once,
\* in their order.
PlacedIn(f, S, R) ==
  /\ f = [k \in 1..Cardinality(S) |-> f[k]]
  /\ \A k \in 1..Cardinality(S) :
       (\E x \in S : Cardinality(Before1(S, R, x)) = k - 1)
       => f[k] \in S /\ Cardinality(Before1(S, R, f[k])) = k - 1

LEMMA Ordered ==
  ASSUME NEW S, IsFiniteSet(S), NEW R, TotalOn(S, R), NEW f, PlacedIn(f, S, R)
  PROVE  /\ f \in Seq(S) /\ Len(f) = Cardinality(S) /\ NoRepeat(f)
         /\ \A k \in DOMAIN f : f[k] \in S
         /\ \A x \in S : \E k \in DOMAIN f : f[k] = x
         /\ \A k, n \in DOMAIN f : k < n => <<f[k], f[n]>> \in R
<1> DEFINE c == Cardinality(S)
<1>1. c \in Nat
  BY FS_CardinalityType
<1>2. DOMAIN f = 1..c
  BY DEF PlacedIn
<1>3. \A k \in 1..c : f[k] \in S /\ Cardinality(Before1(S, R, f[k])) = k - 1
  <2> TAKE k \in 1..c
  <2>1. k - 1 \in 0..(c - 1)
    BY <1>1
  <2> HIDE DEF c
  <2>2. \E x \in S : Cardinality(Before1(S, R, x)) = k - 1
    <3>1. \A i \in 0..(c - 1) : \E x \in S : Cardinality(Before1(S, R, x)) = i
      BY EachPlaceTaken DEF c
    <3> QED BY <2>1, <3>1
  <2> QED BY <2>2 DEF c, PlacedIn
<1>4. \A x \in S : \E k \in 1..c : f[k] = x
  <2> TAKE x \in S
  <2>1. Cardinality(Before1(S, R, x)) \in 0..(c - 1)
    BY FewerBefore
  <2> DEFINE k == Cardinality(Before1(S, R, x)) + 1
  <2>2. k \in 1..c /\ k - 1 = Cardinality(Before1(S, R, x))
    BY <2>1, <1>1
  <2>3. Cardinality(Before1(S, R, f[k])) = Cardinality(Before1(S, R, x)) /\ f[k] \in S
    BY <2>2, <1>3
  <2>4. f[k] = x
    BY <2>3, EachPlaceTaken
  <2> QED BY <2>2, <2>4
<1>5. ASSUME NEW k \in 1..c, NEW n \in 1..c, k < n PROVE <<f[k], f[n]>> \in R /\ f[k] # f[n]
  <2>1. f[k] \in S /\ f[n] \in S /\ Cardinality(Before1(S, R, f[k])) = k - 1
        /\ Cardinality(Before1(S, R, f[n])) = n - 1
    BY <1>3
  <2>2. <<f[n], f[k]>> \in R => n - 1 < k - 1
    <3>1. \A a, b \in S : <<a, b>> \in R => Cardinality(Before1(S, R, a)) < Cardinality(Before1(S, R, b))
      BY FewerBefore
    <3> QED BY <2>1, <3>1
  <2>3. f[k] # f[n]
    BY <2>1, <1>5
  <2>4. ~(<<f[n], f[k]>> \in R)
    BY <2>2, <1>5
  <2> QED BY <2>1, <2>3, <2>4 DEF TotalOn
<1> HIDE DEF c
<1>6. NoRepeat(f)
  <2>1. \A k, n \in 1..c : k # n => k < n \/ n < k
    BY <1>1
  <2> QED BY <1>2, <1>5, <2>1 DEF NoRepeat
<1>7. f \in Seq(S) /\ Len(f) = c
  <2>1. f = [k \in 1..c |-> f[k]]
    BY DEF PlacedIn, c
  <2>2. f \in [1..c -> S]
    BY <1>3, <2>1
  <2> QED BY <1>1, <2>2
<1> QED BY <1>2, <1>3, <1>4, <1>5, <1>6, <1>7 DEF c

LEMMA LessIsTotal ==
  ASSUME NEW S \in SUBSET Int, NEW R, \A x, y \in S : <<x, y>> \in R <=> x < y
  PROVE  TotalOn(S, R)
<1>1. ASSUME NEW x \in S, NEW y \in S, NEW z \in S
      PROVE  /\ <<x, x>> \notin R
             /\ x # y => <<x, y>> \in R \/ <<y, x>> \in R
             /\ <<x, y>> \in R /\ <<y, z>> \in R => <<x, z>> \in R
  <2>1. x \in Int /\ y \in Int /\ z \in Int
    OBVIOUS
  <2>2. (<<x, x>> \in R <=> x < x) /\ (<<x, y>> \in R <=> x < y) /\ (<<y, x>> \in R <=> y < x)
        /\ (<<y, z>> \in R <=> y < z) /\ (<<x, z>> \in R <=> x < z)
    OBVIOUS
  <2> QED BY <2>1, <2>2
<1> QED BY <1>1 DEF TotalOn

\* Numbers in their order.
Sorted(S) == InOrder(S, <)

LEMMA NumbersInOrder ==
  ASSUME NEW S \in SUBSET Int, IsFiniteSet(S)
  PROVE  /\ DOMAIN Sorted(S) = 1..Cardinality(S)
         /\ \A k \in DOMAIN Sorted(S) : Sorted(S)[k] \in S
         /\ \A x \in S : \E k \in DOMAIN Sorted(S) : Sorted(S)[k] = x
         /\ \A k, n \in DOMAIN Sorted(S) : k < n => Sorted(S)[k] < Sorted(S)[n]
<1> DEFINE f == Sorted(S)
           R == {p \in S \X S : p[1] < p[2]}
<1>1. \A x, y \in S : <<x, y>> \in R <=> x < y
  OBVIOUS
<1> HIDE DEF R
<1>3. TotalOn(S, R)
  BY <1>1, LessIsTotal
<1>4. \A x \in S : {y \in S : y < x} = Before1(S, R, x)
  BY <1>1 DEF Before1
<1>5. DOMAIN f = 1..Cardinality(S)
  BY DEF Sorted, InOrder
<1>6. ASSUME NEW k \in DOMAIN f, NEW w \in S, Cardinality(Before1(S, R, w)) = k - 1
      PROVE  f[k] \in S /\ Cardinality(Before1(S, R, f[k])) = k - 1
  <2>1. \E x \in S : Cardinality({y \in S : y < x}) = k - 1
    BY <1>4, <1>6
  <2>2. f[k] = CHOOSE x \in S : Cardinality({y \in S : y < x}) = k - 1
    BY <1>5 DEF Sorted, InOrder
  <2> HIDE DEF f
  <2>3. f[k] \in S /\ Cardinality({y \in S : y < f[k]}) = k - 1
    BY <2>1, <2>2
  <2> QED BY <2>3, <1>4
<1>6a. PlacedIn(f, S, R)
  <2> DEFINE e(k) == CHOOSE x \in S : Cardinality({y \in S : y < x}) = k - 1
  <2>1. f = [k \in 1..Cardinality(S) |-> e(k)]
    BY DEF Sorted, InOrder
  <2> HIDE DEF e, f
  <2>2. f = [k \in 1..Cardinality(S) |-> f[k]]
    BY <2>1
  <2> QED BY <1>5, <1>6, <2>2 DEF PlacedIn
<1> HIDE DEF f
<1>7. /\ \A k \in DOMAIN f : f[k] \in S
      /\ \A x \in S : \E k \in DOMAIN f : f[k] = x
      /\ \A k, n \in DOMAIN f : k < n => <<f[k], f[n]>> \in R
  BY <1>3, <1>6a, Ordered
<1>8. \A k, n \in DOMAIN f : k < n => f[k] < f[n]
  BY <1>1, <1>7
<1> QED BY <1>5, <1>7, <1>8 DEF f

-----------------------------------------------------------------------------
(* Folds over a list *)

\* A set of natural numbers has a least one.
LEMMA Least ==
  ASSUME NEW S \in SUBSET Nat, S # {}
  PROVE  \E n \in S : \A m \in S : n <= m
<1> DEFINE T == {0..n : n \in S}
<1>1. ASSUME NEW t \in T PROVE t \in FiniteSubsetsOf(Nat)
  <2>1. PICK n \in S : t = 0..n OBVIOUS
  <2>2. IsFiniteSet(0..n) BY FS_Interval
  <2> QED BY <2>1, <2>2 DEF FiniteSubsetsOf
<1>2. \E x \in T : \A y \in T : ~(<<y, x>> \in StrictSubsetOrdering(Nat))
  <2>1. T # {} OBVIOUS
  <2> HIDE DEF T
  <2>2. T \subseteq FiniteSubsetsOf(Nat)
    BY <1>1
  <2> QED BY <2>2, <2>1, FS_StrictSubsetOrderingWellFounded, WFMin
<1>3. PICK n \in S : \A m \in S : ~(<<0..m, 0..n>> \in StrictSubsetOrdering(Nat))
  BY <1>2
<1>4. ASSUME NEW m \in S, m < n PROVE FALSE
  <2>1. 0..m \subseteq 0..n /\ n \in 0..n /\ n \notin 0..m
    BY <1>4
  <2>2. <<0..m, 0..n>> \in StrictSubsetOrdering(Nat)
    BY <2>1 DEF StrictSubsetOrdering
  <2> QED BY <2>2, <1>3
<1> QED BY <1>4

\* Induction, over the members of a set.
LEMMA Climb ==
  ASSUME NEW S, 0 \in S, \A n \in Nat : n \in S => n + 1 \in S
  PROVE  Nat \subseteq S
<1>1. ASSUME NEW m \in Nat, m \notin S PROVE FALSE
  <2> DEFINE B == Nat \ S
  <2>1. PICK n \in B : \A k \in B : n <= k
    <3>1. B \in SUBSET Nat /\ B # {} BY <1>1
    <3> HIDE DEF B
    <3> QED BY <3>1, Least
  <2>2. n # 0 BY <2>1
  <2>3. n - 1 \in Nat /\ n - 1 \in S BY <2>1, <2>2
  <2> QED BY <2>3, <2>1
<1> QED BY <1>1

\* The greatest of some numbers up to n.
LEMMA MaxIn ==
  ASSUME NEW n \in Nat, NEW T \in SUBSET (1..n), T # {}
  PROVE  Max(T) \in T /\ \A t \in T : t <= Max(T)
<1> DEFINE B == {n - t : t \in T}
<1>1. B \in SUBSET Nat /\ B # {}
  <2>1. \A t \in T : n - t \in Nat
    OBVIOUS
  <2>2. PICK t \in T : TRUE
    OBVIOUS
  <2> QED BY <2>1, <2>2
<1>2. PICK b \in B : \A c \in B : b <= c
  <2> HIDE DEF B
  <2> QED BY <1>1, Least
<1>3. PICK t \in T : b = n - t
  BY <1>2
<1>4. \A u \in T : t >= u
  <2> TAKE u \in T
  <2>1. n - u \in B
    OBVIOUS
  <2> QED BY <2>1, <1>2, <1>3
<1>5. Max(T) \in T /\ \A u \in T : Max(T) >= u
  BY <1>3, <1>4 DEF Max
<1> QED BY <1>5

\* The parts of the places 1..n.
LEMMA PartsOf ==
  ASSUME NEW n \in Nat
  PROVE  /\ \A T \in SUBSET (1..n) : IsFiniteSet(T) /\ Cardinality(T) \in Nat /\ Cardinality(T) <= n
         /\ \A T \in SUBSET (1..n) : \A x \in T : Cardinality(T \ {x}) = Cardinality(T) - 1
         /\ \A T \in SUBSET (1..n) : (Cardinality(T) = 0 <=> T = {})
<1> DEFINE D == 1..n
<1>1. IsFiniteSet(D) /\ Cardinality(D) = n
  BY FS_Interval
<1>2. ASSUME NEW T \in SUBSET D PROVE IsFiniteSet(T) /\ Cardinality(T) \in Nat /\ Cardinality(T) <= n
  <2> HIDE DEF D
  <2>1. IsFiniteSet(T) /\ Cardinality(T) <= Cardinality(D)
    BY <1>1, FS_Subset
  <2> QED BY <1>1, <2>1, FS_CardinalityType
<1>3. ASSUME NEW T \in SUBSET D, NEW x \in T PROVE Cardinality(T \ {x}) = Cardinality(T) - 1
  BY <1>2, FS_RemoveElement
<1>4. ASSUME NEW T \in SUBSET D PROVE Cardinality(T) = 0 <=> T = {}
  BY <1>2, FS_EmptySet
<1> QED BY <1>2, <1>3, <1>4

\* What a fold over places 1..n goes through.
Stage(D, n) == {T \in SUBSET D : Cardinality(T) <= n}
FoldsUpTo(h, V, base, G, D) ==
  \A T \in DOMAIN h : h[T] = IF T = {} THEN base ELSE G[<<h[T \ {Max(T)}], Max(T)>>]

\* There is such a fold.
LEMMA FoldExists ==
  ASSUME NEW V, NEW base \in V, NEW n \in Nat, NEW G \in [V \X (1..n) -> V]
  PROVE  \E h \in [SUBSET (1..n) -> V] : FoldsUpTo(h, V, base, G, 1..n)
<1> DEFINE D == 1..n
           S == {k \in Nat : \E h \in [Stage(D, k) -> V] : FoldsUpTo(h, V, base, G, D)}
<1>0. /\ \A T \in SUBSET D : Cardinality(T) \in Nat /\ Cardinality(T) <= n
      /\ \A T \in SUBSET D : \A x \in T : Cardinality(T \ {x}) = Cardinality(T) - 1
      /\ \A T \in SUBSET D : (Cardinality(T) = 0 <=> T = {})
  BY PartsOf
<1>1. 0 \in S
  <2> DEFINE h == [T \in Stage(D, 0) |-> base]
  <2>1. \A T \in Stage(D, 0) : T = {}
    BY <1>0 DEF Stage
  <2>2. FoldsUpTo(h, V, base, G, D)
    BY <2>1 DEF FoldsUpTo
  <2> QED BY <2>2
<1>2. ASSUME NEW k \in Nat, k \in S PROVE k + 1 \in S
  <2>1. PICK h \in [Stage(D, k) -> V] : FoldsUpTo(h, V, base, G, D)
    BY <1>2
  <2> DEFINE g == [T \in Stage(D, k + 1) |-> IF T = {} THEN base ELSE G[<<h[T \ {Max(T)}], Max(T)>>]]
  <2>2. ASSUME NEW T \in Stage(D, k + 1), T # {}
        PROVE  Max(T) \in T /\ Max(T) \in D /\ T \ {Max(T)} \in Stage(D, k) /\ T \ {Max(T)} \in Stage(D, k + 1)
    <3>1. T \in SUBSET D /\ Cardinality(T) <= k + 1
      BY DEF Stage
    <3>2. Max(T) \in T /\ Max(T) \in D
      BY <2>2, <3>1, MaxIn
    <3>3. Cardinality(T \ {Max(T)}) = Cardinality(T) - 1 /\ Cardinality(T) \in Nat
      BY <3>1, <3>2, <1>0
    <3>4. T \ {Max(T)} \in SUBSET D
      BY <3>1
    <3>5. Cardinality(T \ {Max(T)}) <= k /\ Cardinality(T \ {Max(T)}) <= k + 1
      BY <3>1, <3>3
    <3> QED BY <3>2, <3>4, <3>5 DEF Stage
  <2>3. g \in [Stage(D, k + 1) -> V]
    <3> SUFFICES ASSUME NEW T \in Stage(D, k + 1) PROVE g[T] \in V
      OBVIOUS
    <3>1. CASE T = {}
      BY <3>1
    <3>2. CASE T # {}
      BY <3>2, <2>2, <2>1
    <3> QED BY <3>1, <3>2
  <2>4. \A T \in Stage(D, k) : T \in Stage(D, k + 1) /\ g[T] = h[T]
    <3> TAKE T \in Stage(D, k)
    <3>1. T \in Stage(D, k + 1)
      BY <1>0 DEF Stage
    <3>2. h[T] = IF T = {} THEN base ELSE G[<<h[T \ {Max(T)}], Max(T)>>]
      BY <2>1 DEF FoldsUpTo
    <3> QED BY <3>1, <3>2
  <2>5. FoldsUpTo(g, V, base, G, D)
    <3> SUFFICES ASSUME NEW T \in Stage(D, k + 1)
                 PROVE  g[T] = IF T = {} THEN base ELSE G[<<g[T \ {Max(T)}], Max(T)>>]
      BY DEF FoldsUpTo
    <3>1. CASE T = {}
      BY <3>1
    <3>2. CASE T # {}
      BY <3>2, <2>2, <2>4
    <3> QED BY <3>1, <3>2
  <2>6. \E f \in [Stage(D, k + 1) -> V] : FoldsUpTo(f, V, base, G, D)
    <3> HIDE DEF g, D
    <3> QED BY <2>3, <2>5
  <2> QED BY <2>6
<1>3. n \in S
  <2> HIDE DEF S
  <2> QED BY <1>1, <1>2, Climb
<1>4. Stage(D, n) = SUBSET D
  BY <1>0 DEF Stage
<1> QED BY <1>3, <1>4

\* A fold with its stages, and what holds of its start and is kept by each of
\* its steps.
FoldIs(h, base, G, n) ==
  h = [T \in SUBSET (1..n) |-> IF T = {} THEN base ELSE G[<<h[T \ {Max(T)}], Max(T)>>]]
StepsBy(h, V, base, G, n) ==
  /\ h[{}] = base
  /\ \A T \in SUBSET (1..n) : T # {} /\ h[T \ {Max(T)}] \in V => h[T] = G[<<h[T \ {Max(T)}], Max(T)>>]
KeptBy(R, V, base, G, n) ==
  /\ R \subseteq (SUBSET (1..n)) \X V /\ <<{}, base>> \in R
  /\ \A T \in SUBSET (1..n), v \in V :
       T # {} /\ <<T \ {Max(T)}, v>> \in R => <<T, G[<<v, Max(T)>>]>> \in R

\* So it holds of every stage, ...
LEMMA FoldRelates ==
  ASSUME NEW V, NEW base, NEW n \in Nat, NEW G, NEW h, NEW R, KeptBy(R, V, base, G, n),
         StepsBy(h, V, base, G, n)
  PROVE  \A T \in SUBSET (1..n) : <<T, h[T]>> \in R
<1> DEFINE D == 1..n
           S == {k \in Nat : \A T \in Stage(D, k) : <<T, h[T]>> \in R}
<1>0. /\ \A T \in SUBSET D : Cardinality(T) \in Nat /\ Cardinality(T) <= n
      /\ \A T \in SUBSET D : \A x \in T : Cardinality(T \ {x}) = Cardinality(T) - 1
      /\ \A T \in SUBSET D : (Cardinality(T) = 0 <=> T = {})
  BY PartsOf
<1>a. /\ h[{}] = base
      /\ \A T \in SUBSET D : T # {} /\ h[T \ {Max(T)}] \in V => h[T] = G[<<h[T \ {Max(T)}], Max(T)>>]
  BY DEF StepsBy
<1>b. /\ R \subseteq (SUBSET D) \X V /\ <<{}, base>> \in R
      /\ \A T \in SUBSET D, v \in V :
           T # {} /\ <<T \ {Max(T)}, v>> \in R => <<T, G[<<v, Max(T)>>]>> \in R
  BY DEF KeptBy
<1>1. 0 \in S
  <2>1. \A T \in Stage(D, 0) : T = {}
    BY <1>0 DEF Stage
  <2>2. h[{}] = base
    BY <1>a
  <2> QED BY <2>1, <2>2, <1>b
<1>2. ASSUME NEW k \in Nat, \A T \in Stage(D, k) : <<T, h[T]>> \in R, NEW T \in Stage(D, k + 1)
      PROVE  <<T, h[T]>> \in R
  <2>1. T \in SUBSET D /\ Cardinality(T) <= k + 1
    BY DEF Stage
  <2>2. CASE T = {}
    BY <2>2, <1>a, <1>b
  <2>3. CASE T # {}
    <3>1. Max(T) \in T
      BY <2>1, <2>3, MaxIn
    <3>2. T \ {Max(T)} \in Stage(D, k)
      <4>1. Cardinality(T \ {Max(T)}) = Cardinality(T) - 1 /\ Cardinality(T) \in Nat
        BY <2>1, <3>1, <1>0
      <4>2. T \ {Max(T)} \in SUBSET D
        BY <2>1
      <4> QED BY <4>1, <4>2, <2>1 DEF Stage
    <3>3. <<T \ {Max(T)}, h[T \ {Max(T)}]>> \in R
      BY <1>2, <3>2
    <3>4. h[T \ {Max(T)}] \in V
      BY <3>3, <1>b
    <3>5. <<T, G[<<h[T \ {Max(T)}], Max(T)>>]>> \in R
      BY <2>1, <2>3, <3>3, <3>4, <1>b
    <3>6. h[T] = G[<<h[T \ {Max(T)}], Max(T)>>]
      BY <2>1, <2>3, <3>4, <1>a
    <3> QED BY <3>5, <3>6
  <2> QED BY <2>2, <2>3
<1>3. n \in S
  <2>1. \A k \in Nat : k \in S => k + 1 \in S
    BY <1>2
  <2> HIDE DEF S
  <2> QED BY <1>1, <2>1, Climb
<1>4. Stage(D, n) = SUBSET D
  BY <1>0 DEF Stage
<1> QED BY <1>3, <1>4

\* ... and of the fold, which is chosen as some function that is one.
LEMMA FoldHolds ==
  ASSUME NEW V, NEW base \in V, NEW n \in Nat, NEW G \in [V \X (1..n) -> V], NEW h, NEW R,
         KeptBy(R, V, base, G, n),
         (\E f \in [SUBSET (1..n) -> V] : FoldIs(f, base, G, n)) => StepsBy(h, V, base, G, n)
  PROVE  <<1..n, h[1..n]>> \in R
<1>1. PICK f \in [SUBSET (1..n) -> V] : FoldsUpTo(f, V, base, G, 1..n)
  BY FoldExists
<1>2. FoldIs(f, base, G, n)
  BY <1>1 DEF FoldsUpTo, FoldIs
<1>3. \A T \in SUBSET (1..n) : <<T, h[T]>> \in R
  BY <1>2, FoldRelates
<1> QED BY <1>3

\* A sum over the places of a list, of whole numbers.
Adds(f, w, n) == f = [T \in SUBSET (1..n) |-> IF T = {} THEN 0 ELSE f[T \ {Max(T)}] + w[Max(T)]]
Plus(w, n) == [p \in Int \X (1..n) |-> p[1] + w[p[2]]]

\* What its steps keep holds of it.
LEMMA SumHolds ==
  ASSUME NEW n \in Nat, NEW w \in [1..n -> Int], NEW h, (\E f : Adds(f, w, n)) => Adds(h, w, n),
         NEW R, KeptBy(R, Int, 0, Plus(w, n), n)
  PROVE  <<1..n, h[1..n]>> \in R
<1> DEFINE G == Plus(w, n)
           V == Int
<1>1. /\ \A v \in V, k \in 1..n : G[<<v, k>>] = v + w[k]
      /\ 0 \in V /\ G \in [V \X (1..n) -> V]
  BY DEF Plus
<1>2. \A T \in SUBSET (1..n) : T # {} => Max(T) \in 1..n
  BY MaxIn
<1>3. KeptBy(R, V, 0, G, n)
  OBVIOUS
<1> HIDE DEF G
<1>4. ASSUME NEW f \in [SUBSET (1..n) -> V], FoldIs(f, 0, G, n) PROVE Adds(f, w, n)
  <2>1. \A T \in SUBSET (1..n) : T # {} => G[<<f[T \ {Max(T)}], Max(T)>>] = f[T \ {Max(T)}] + w[Max(T)]
    BY <1>1, <1>2
  <2>2. \A T \in SUBSET (1..n) : f[T] = IF T = {} THEN 0 ELSE G[<<f[T \ {Max(T)}], Max(T)>>]
    BY <1>4 DEF FoldIs
  <2> QED BY <2>1, <2>2 DEF Adds
<1>5. ASSUME Adds(h, w, n) PROVE StepsBy(h, V, 0, G, n)
  <2>1. \A T \in SUBSET (1..n) : h[T] = IF T = {} THEN 0 ELSE h[T \ {Max(T)}] + w[Max(T)]
    BY <1>5 DEF Adds
  <2>2. \A T \in SUBSET (1..n) : T # {} /\ h[T \ {Max(T)}] \in V =>
          G[<<h[T \ {Max(T)}], Max(T)>>] = h[T \ {Max(T)}] + w[Max(T)]
    BY <1>1, <1>2
  <2> HIDE DEF V
  <2> QED BY <2>1, <2>2 DEF StepsBy
<1>6. (\E f \in [SUBSET (1..n) -> V] : FoldIs(f, 0, G, n)) => StepsBy(h, V, 0, G, n)
  BY <1>4, <1>5
<1> HIDE DEF V
<1> QED BY <1>1, <1>3, <1>6, FoldHolds

\* It is one itself.
LEMMA SumInt ==
  ASSUME NEW n \in Nat, NEW w \in [1..n -> Int], NEW h, (\E f : Adds(f, w, n)) => Adds(h, w, n)
  PROVE  h[1..n] \in Int
<1> DEFINE R == (SUBSET (1..n)) \X Int
<1>1. KeptBy(R, Int, 0, Plus(w, n), n)
  <2>1. Plus(w, n) \in [Int \X (1..n) -> Int]
    BY DEF Plus
  <2>2. \A T \in SUBSET (1..n) : T # {} => Max(T) \in 1..n
    BY MaxIn
  <2> QED BY <2>1, <2>2 DEF KeptBy
<1> HIDE DEF R
<1>2. <<1..n, h[1..n]>> \in R
  BY <1>1, SumHolds
<1> QED BY <1>2 DEF R

-----------------------------------------------------------------------------
(* Answers from documents *)

\* What is judged could be rendered, and what is shown is what the review of it
\* left.
Rendering(o) == o \in Outputs /\ o.status # "insufficient" /\ Renderable(o, evidence.sources)
GroundedInv ==
  /\ phase = "judge" => Rendering(output)
  /\ phase = "done" /\ UsesDocuments =>
       \/ shown \in {Rejected, NoClaims}
       \/ Rendering(output) /\ ValidReview(review, output.claims) /\ shown = ApplyReview(output, review)

LEMMA InitGrounded == Init => GroundedInv
BY DEF Init, GroundedInv

LEMMA StepGrounded == IInv /\ GroundedInv /\ [Next]_vars => GroundedInv'
<1> SUFFICES ASSUME IInv, GroundedInv, [Next]_vars PROVE GroundedInv'
  OBVIOUS
<1> USE DEF GroundedInv, IInv, PathDecided
<1>1. CASE RunText2Sql \/ RunRag \/ RunCaseSearch \/ RunImpact \/ RunVisualization
  BY <1>1 DEF RunText2Sql, RunRag, RunCaseSearch, RunImpact, RunVisualization, Turn
<1>2. CASE Compose \/ ReviewAgain
  BY <1>2 DEF Compose, ReviewAgain
<1>3. ASSUME NEW text, NEW how, phase = "review", Show(text, how) PROVE GroundedInv'
  BY <1>3, SameWay DEF Show
<1>4. CASE ApproveAnswer \/ CorrectAnswer \/ Withhold
  BY <1>3, <1>4 DEF ApproveAnswer, CorrectAnswer, Withhold
<1>5. CASE StartGrounded
  BY <1>5 DEF StartGrounded
<1>6. CASE Generate
  <2>1. PICK o \in Outputs :
          LET valid == Renderable(o, evidence.sources)
          IN  /\ output' = IF valid THEN o ELSE output
              /\ phase' = IF valid THEN IF o.status = "insufficient" THEN "done" ELSE "judge"
                          ELSE IF rounds + 1 < MaxGenerations THEN "generate" ELSE "done"
              /\ shown' = IF phase' # "done" THEN shown ELSE IF valid THEN NoClaims ELSE Rejected
    BY <1>6 DEF Generate
  <2>2. phase' = "done" => shown' \in {Rejected, NoClaims}
    BY <2>1
  <2>3. phase' = "judge" => output' = o /\ o.status # "insufficient" /\ Renderable(o, evidence.sources)
    BY <2>1
  <2>4. evidence' = evidence
    BY <1>6 DEF Generate
  <2>5. phase' = "judge" => Rendering(output)'
    BY <2>3, <2>4 DEF Rendering
  <2>6. NoClaims' = NoClaims
    BY DEF NoClaims, Rendered, Cited
  <2> QED BY <2>2, <2>5, <2>6
<1>7. CASE Judge
  <2>1. PICK judgement \in Reviews :
          /\ shown' = IF ValidReview(judgement, output.claims) THEN ApplyReview(output, judgement) ELSE Rejected
          /\ review' = judgement
    BY <1>7 DEF Judge
  <2>2. phase' = "done" /\ output' = output /\ evidence' = evidence /\ Rendering(output)
    BY <1>7 DEF Judge
  <2>3. Rendering(output)'
    BY <2>2 DEF Rendering
  <2>4. CASE ValidReview(judgement, output.claims)
    <3>1. shown' = ApplyReview(output', review') /\ ValidReview(review', output'.claims)
      BY <2>1, <2>2, <2>4
    <3> QED BY <2>2, <2>3, <3>1
  <2>5. CASE ~ValidReview(judgement, output.claims)
    BY <2>1, <2>2, <2>5
  <2> QED BY <2>4, <2>5
<1>8. CASE ModelFails
  BY <1>8 DEF ModelFails
<1>9. CASE UNCHANGED vars
  BY <1>9, SameWay DEF vars, Rendering
<1> QED BY <1>1, <1>2, <1>4, <1>5, <1>6, <1>7, <1>8, <1>9 DEF Next

\* apply_review: each claim that is left is one of the selection that the
\* review supports, and as many as those are left.
Supported(o, v) == {k \in DOMAIN o.claims : v.verdicts[k]}

LEMMA RetainedSupported ==
  ASSUME NEW o, NEW v, NEW n \in Nat, DOMAIN o.claims = 1..n
  PROVE  /\ DOMAIN Retained(o, v) = 1..Cardinality(Supported(o, v))
         /\ \A i \in DOMAIN Retained(o, v) : \E k \in Supported(o, v) : Retained(o, v)[i] = o.claims[k]
         /\ Cardinality(Supported(o, v)) \in Nat
         /\ Cardinality(Supported(o, v)) = n => Supported(o, v) = DOMAIN o.claims
<1> DEFINE D == DOMAIN o.claims
           kept == Supported(o, v)
<1>1. IsFiniteSet(D) /\ Cardinality(D) = n /\ D \subseteq Int
  BY FS_Interval
<1>2. kept \subseteq D
  BY DEF Supported
<1>3. Retained(o, v) = [i \in DOMAIN Sorted(kept) |-> o.claims[Sorted(kept)[i]]]
  BY DEF Retained, Sorted, InOrder, Supported
<1> HIDE DEF D, kept
<1>4. IsFiniteSet(kept) /\ (Cardinality(kept) = n => kept = D)
  BY <1>1, <1>2, FS_Subset
<1>5. kept \in SUBSET Int
  BY <1>1, <1>2
<1>6. DOMAIN Sorted(kept) = 1..Cardinality(kept) /\ \A i \in DOMAIN Sorted(kept) : Sorted(kept)[i] \in kept
  BY <1>4, <1>5, NumbersInOrder
<1>7. Cardinality(kept) \in Nat
  BY <1>4, FS_CardinalityType
<1>8. DOMAIN Retained(o, v) = 1..Cardinality(kept)
  BY <1>3, <1>6
<1>9. \A i \in DOMAIN Retained(o, v) : \E k \in kept : Retained(o, v)[i] = o.claims[k]
  BY <1>3, <1>6
<1> QED BY <1>4, <1>7, <1>8, <1>9 DEF D, kept

\* compose_grounded: whatever is retrieved, selected and judged, no claim is
\* shown that is not quoted, backed by its numbers and supported.
THEOREM ClaimsVerified == Spec => []NoUnverifiedClaim
<1>1. GroundedInv => NoUnverifiedClaim
  <2> SUFFICES ASSUME GroundedInv, phase = "done", UsesDocuments, shown # Rejected, shown.claims # << >>
               PROVE  /\ \A n \in DOMAIN shown.claims :
                           /\ Quoted(shown.claims[n])
                           /\ \E k \in DOMAIN output.claims : output.claims[k] = shown.claims[n] /\ review.verdicts[k]
                      /\ shown.status = "supported" =>
                           review.complete /\ review.coverage = {TRUE} /\ \A k \in DOMAIN output.claims : review.verdicts[k]
    BY DEF NoUnverifiedClaim
  <2> DEFINE kept == Supported(output, review)
             left == Retained(output, review)
  <2>1. Rendering(output) /\ shown = ApplyReview(output, review)
    BY DEF GroundedInv, NoClaims, Rendered
  <2>2. /\ Len(output.claims) \in 1..MaxClaims /\ DOMAIN output.claims = 1..Len(output.claims)
        /\ \A k \in DOMAIN output.claims : ValidClaim(output.claims[k], evidence.sources)
    <3>1. output.claims \in Seq(ToSet(output.claims))
      BY <2>1, OutputAssumption DEF Rendering, IsList
    <3>2. DOMAIN output.claims = 1..Len(output.claims)
      BY <3>1, LenProperties
    <3> QED BY <2>1, <3>2 DEF Rendering, Renderable
  <2>3. /\ DOMAIN left = 1..Cardinality(kept)
        /\ \A i \in DOMAIN left : \E k \in kept : left[i] = output.claims[k]
        /\ Cardinality(kept) \in Nat
        /\ Cardinality(kept) = Len(output.claims) => kept = DOMAIN output.claims
    <3>1. PICK n \in Nat : n = Len(output.claims) /\ DOMAIN output.claims = 1..n
      BY <2>2 DEF MaxClaims
    <3>2. DOMAIN left = 1..Cardinality(kept)
      BY <3>1, RetainedSupported
    <3>3. \A i \in DOMAIN left : \E k \in kept : left[i] = output.claims[k]
      BY <3>1, RetainedSupported
    <3>4. Cardinality(kept) \in Nat /\ (Cardinality(kept) = n => kept = DOMAIN output.claims)
      BY <3>1, RetainedSupported
    <3> HIDE DEF kept, left
    <3> QED BY <3>1, <3>2, <3>3, <3>4
  <2>4. shown.claims = left /\ shown.status = ReviewStatus(output, review, left)
    BY <2>1 DEF ApplyReview, Rendered
  <2>5. \A n \in DOMAIN left : \E k \in DOMAIN output.claims : left[n] = output.claims[k] /\ review.verdicts[k]
    BY <2>3 DEF Supported
  <2>6. \A k \in DOMAIN output.claims : Quoted(output.claims[k])
    BY <2>2 DEF ValidClaim, Quoted, Selectable
  <2>7. Len(left) = Cardinality(kept)
    <3> HIDE DEF kept
    <3> QED BY <2>3
  <2>8. shown.status = "supported" =>
          review.complete /\ review.coverage = {TRUE} /\ Cardinality(kept) = Len(output.claims)
    BY <2>4, <2>7 DEF ReviewStatus
  <2>9. Cardinality(kept) = Len(output.claims) => \A k \in DOMAIN output.claims : review.verdicts[k]
    BY <2>3 DEF Supported
  <2> QED BY <2>4, <2>5, <2>6, <2>8, <2>9
<1> QED BY <1>1, InitIInv, StepIInv, InitGrounded, StepGrounded, PTL DEF Spec

-----------------------------------------------------------------------------
(* The evidence, agent by agent *)

Fields == DOMAIN NoEvidence

\* What is calculated from the cells is calculated when the query is over: the
\* chart and the estimates that are kept are those of the cells that are kept.
EvidenceInv ==
  /\ request \in Questions /\ DOMAIN evidence = Fields /\ CellsType(evidence.cells)
  /\ "text2sql" \in todo => evidence.chart = Refused /\ evidence.impact = Absent
  /\ evidence.chart # Refused => evidence.chart = Drawn
  /\ evidence.impact # Absent => evidence.impact = EstimateOutputDelta(request.phrases, evidence.cells)

LEMMA InitEvidence == Init => EvidenceInv
BY FS_EmptySet DEF Init, EvidenceInv, Fields, NoEvidence, CellsType

\* A step that leaves the cells, and what is calculated from them, alone.
Calculated == <<evidence.cells, evidence.chart, evidence.impact>>
LEMMA CalculatedKept ==
  ASSUME EvidenceInv, request' = request, DOMAIN evidence' = Fields, todo' \subseteq todo, UNCHANGED Calculated
  PROVE  EvidenceInv'
<1>1. Drawn' = Drawn
  BY DEF Drawn, ChartRows, Calculated
<1> QED BY <1>1 DEF EvidenceInv, Calculated

\* The turns of the agents.
LEMMA AfterQuery ==
  ASSUME NEW agent \in {"impact", "visualization"}, Turn(agent)
  PROVE  "text2sql" \notin todo
<1>1. Order[1] = "text2sql" /\ 1 \in DOMAIN Order
  BY DEF Order
<1>2. PICK n \in DOMAIN Order : Order[n] = agent /\ 1 < n
  BY DEF Order
<1> QED BY <1>1, <1>2 DEF Turn

LEMMA StepEvidence == EvidenceInv /\ [Next]_vars => EvidenceInv'
<1> SUFFICES ASSUME EvidenceInv, [Next]_vars PROVE EvidenceInv'
  OBVIOUS
<1>1. CASE RunText2Sql
  <2>1. "text2sql" \in todo /\ evidence.chart = Refused /\ evidence.impact = Absent
    BY <1>1 DEF RunText2Sql, Turn, EvidenceInv
  <2>2. PICK result \in Results(request) :
          /\ evidence' = [evidence EXCEPT !.sql = result.sql, !.cells = result.cells,
               !.summary = result.summary, !.compared = result.compared, !.limited = result.limited, !.unavailable = result.unavailable, !.master = result.master,
               !.limitations = @ \/ result.sql = "failed" \/ result.unavailable # {}]
          /\ request' = request
    BY <1>1 DEF RunText2Sql
  <2>3. /\ evidence'.chart = evidence.chart /\ evidence'.impact = evidence.impact
        /\ evidence'.cells = result.cells /\ DOMAIN evidence' = Fields
    BY <2>2 DEF EvidenceInv, Fields, NoEvidence
  <2>4. CellsType(result.cells)
    BY InputAssumption DEF EvidenceInv
  <2> QED BY <2>1, <2>2, <2>3, <2>4 DEF EvidenceInv
<1>2. CASE RunRag
  <2>1. UNCHANGED Calculated /\ DOMAIN evidence' = Fields /\ request' = request /\ todo' \subseteq todo
    BY <1>2 DEF RunRag, EvidenceInv, Fields, NoEvidence, Calculated
  <2> QED BY <2>1, CalculatedKept
<1>3. CASE RunCaseSearch
  <2>1. UNCHANGED Calculated /\ DOMAIN evidence' = Fields /\ request' = request /\ todo' \subseteq todo
    BY <1>3 DEF RunCaseSearch, EvidenceInv, Fields, NoEvidence, Calculated
  <2> QED BY <2>1, CalculatedKept
<1>4. CASE RunImpact
  <2> DEFINE impact == EstimateOutputDelta(request.phrases, evidence.cells)
  <2>1. "text2sql" \notin todo /\ request' = request /\ todo' \subseteq todo
    BY <1>4, AfterQuery DEF RunImpact
  <2>2. evidence' = [evidence EXCEPT !.impact = impact, !.limitations = @ \/ NotCalculated(impact)]
    BY <1>4 DEF RunImpact
  <2> HIDE DEF impact
  <2>3. /\ evidence'.impact = impact /\ evidence'.cells = evidence.cells /\ evidence'.chart = evidence.chart
        /\ DOMAIN evidence' = Fields
    BY <2>2 DEF EvidenceInv, Fields, NoEvidence
  <2>4. Drawn' = Drawn
    BY <2>1, <2>3 DEF Drawn, ChartRows
  <2> QED BY <2>1, <2>3, <2>4 DEF EvidenceInv, impact
<1>5. CASE RunVisualization
  <2>1. "text2sql" \notin todo /\ request' = request /\ todo' \subseteq todo
    BY <1>5, AfterQuery DEF RunVisualization
  <2>2. CASE evidence.cells = {}
    <3>1. evidence' = evidence
      BY <1>5, <2>2 DEF RunVisualization
    <3> QED BY <2>1, <3>1, CalculatedKept DEF EvidenceInv, Calculated
  <2>3. CASE evidence.cells # {}
    <3>1. evidence' = [evidence EXCEPT !.chart = Drawn, !.limitations = @ \/ ChartLimited(Drawn)]
      BY <1>5, <2>3 DEF RunVisualization
    <3>2. /\ evidence'.chart = Drawn /\ evidence'.cells = evidence.cells /\ evidence'.impact = evidence.impact
          /\ DOMAIN evidence' = Fields
      BY <3>1 DEF EvidenceInv, Fields, NoEvidence
    <3>3. Drawn' = Drawn
      BY <2>1, <3>2 DEF Drawn, ChartRows
    <3> QED BY <2>1, <3>2, <3>3 DEF EvidenceInv
  <2> QED BY <2>2, <2>3
<1>6. ASSUME UNCHANGED <<request, evidence, todo>> PROVE EvidenceInv'
  BY <1>6, CalculatedKept DEF EvidenceInv, Calculated
<1>7. CASE Compose \/ ReviewAgain \/ StartGrounded \/ Generate \/ Judge \/ ModelFails \/ UNCHANGED vars
  BY <1>6, <1>7 DEF Compose, ReviewAgain, StartGrounded, Generate, Judge, ModelFails, vars
<1>8. CASE ApproveAnswer \/ CorrectAnswer \/ Withhold
  BY <1>6, <1>8 DEF ApproveAnswer, CorrectAnswer, Withhold, Show
<1> QED BY <1>1, <1>2, <1>3, <1>4, <1>5, <1>7, <1>8 DEF Next

-----------------------------------------------------------------------------
(* The axis of a line *)

\* The places of two sets of rows of one series.
LEMMA PlacesOfBoth ==
  ASSUME NEW A, NEW B, NEW s
  PROVE  Places(Of1(A \cup B, s)) = Places(Of1(A, s)) \cup Places(Of1(B, s))
BY DEF Places, Of1

\* A point is filled in only where its series has no row.
LEMMA FilledApart ==
  ASSUME NEW rows, NEW expected, NEW s
  PROVE  Places(Of1(rows, s)) \cap Places(Of1(Filled(rows, expected), s)) = {}
<1> SUFFICES ASSUME NEW x \in Places(Of1(rows, s)), x \in Places(Of1(Filled(rows, expected), s)) PROVE FALSE
  OBVIOUS
<1>1. PICK r \in rows : r.series = s /\ r.at = x
  BY DEF Places, Of1
<1>2. PICK p \in Filled(rows, expected) : p.series = s /\ p.at = x
  BY DEF Places, Of1
<1>3. r.at # p.at \/ r.series # p.series
  BY <1>2 DEF Filled
<1> QED BY <1>1, <1>2, <1>3

\* What the gaps of a series tell is what its points leave of the axis.
LEMMA GapsOfSeries ==
  ASSUME NEW rows, NEW axis, NEW s \in SeriesOf(rows)
  PROVE  \A z : (\E g \in Gaps(rows, axis) : g.series = s /\ z \in g.missing) <=> z \in axis \ Places(Of1(rows, s))
<1> DEFINE gap == [series |-> s, missing |-> axis \ Places(Of1(rows, s))]
<1>1. \A g \in Gaps(rows, axis) : g.series = s => g = gap
  BY DEF Gaps
<1>2. gap.missing # {} => gap \in Gaps(rows, axis)
  BY DEF Gaps
<1>3. gap.missing = axis \ Places(Of1(rows, s)) /\ gap.series = s
  OBVIOUS
<1> HIDE DEF gap
<1> QED BY <1>1, <1>2, <1>3

\* build_chart_spec: a series of the rows that are drawn, on the axis of its line.
LEMMA PlaceOnce ==
  ASSUME NEW rows, NEW expected, NEW zeroFill, NEW chart, chart # Refused,
         chart = Line(rows, expected, zeroFill), NEW s \in SeriesOf(rows)
  PROVE  LET seen == Places(Of1(rows, s))
             filled == Places(Of1(chart.imputed, s))
         IN  /\ seen \cap filled = {}
             /\ \A z : (\E g \in chart.gaps : g.series = s /\ z \in g.missing) <=> z \in chart.axis \ (seen \cup filled)
<1> DEFINE seen == Places(Of1(rows, s))
           filled == Places(Of1(chart.imputed, s))
           imputed == IF zeroFill THEN Filled(rows, expected) ELSE {}
           axis == expected \cup Places(rows)
<1>1. chart.imputed = imputed /\ chart.axis = axis /\ chart.gaps = Gaps(rows \cup imputed, axis)
  BY DEF Line
<1>2. seen \cap filled = {}
  <2>1. CASE zeroFill
    BY <1>1, <2>1, FilledApart
  <2>2. CASE ~zeroFill
    BY <1>1, <2>2 DEF Places, Of1
  <2> QED BY <2>1, <2>2
<1> HIDE DEF imputed, axis
<1>3. s \in SeriesOf(rows \cup imputed)
  BY DEF SeriesOf
<1>4. \A z : (\E g \in chart.gaps : g.series = s /\ z \in g.missing)
              <=> z \in axis \ Places(Of1(rows \cup imputed, s))
  <2>1. \A z : (\E g \in Gaps(rows \cup imputed, axis) : g.series = s /\ z \in g.missing)
                <=> z \in axis \ Places(Of1(rows \cup imputed, s))
    BY <1>3, GapsOfSeries
  <2>2. chart.gaps = Gaps(rows \cup imputed, axis)
    BY <1>1
  <2> QED BY <2>1, <2>2
<1>5. Places(Of1(rows \cup imputed, s)) = seen \cup filled
  <2>1. Places(Of1(rows \cup imputed, s)) = Places(Of1(rows, s)) \cup Places(Of1(imputed, s))
    BY PlacesOfBoth
  <2> QED BY <1>1, <2>1
<1> QED BY <1>1, <1>2, <1>4, <1>5

\* build_chart_spec and its gaps: whatever rows a query returns and whatever
\* range is asked for, no place of a line is told twice or left out.
THEOREM AxisToldOnce == Spec => []AxisAccounted
<1>1. EvidenceInv => AxisAccounted
  <2> SUFFICES ASSUME EvidenceInv, evidence.chart # Refused, request.chart = "line",
                      NEW s \in SeriesOf(ChartRows), NEW x \in evidence.chart.axis
               PROVE  Cardinality({p \in {Places(Of1(ChartRows, s)), PlacesFilled(s), PlacesMissing(s)} : x \in p}) = 1
    BY DEF AxisAccounted
  <2>1. evidence.chart = Line(ChartRows, request.expected, request.zeroFill)
    BY DEF EvidenceInv, Drawn
  <2> DEFINE A == Places(Of1(ChartRows, s))
             B == PlacesFilled(s)
             C == PlacesMissing(s)
  <2>2. \A z : z \in C <=> \E g \in evidence.chart.gaps : g.series = s /\ z \in g.missing
    BY DEF PlacesMissing
  <2>3. B = Places(Of1(evidence.chart.imputed, s))
    BY DEF PlacesFilled
  <2>4. /\ Places(Of1(ChartRows, s)) \cap Places(Of1(evidence.chart.imputed, s)) = {}
        /\ \A z : (\E g \in evidence.chart.gaps : g.series = s /\ z \in g.missing)
                  <=> z \in evidence.chart.axis \ (A \cup Places(Of1(evidence.chart.imputed, s)))
    BY <2>1, PlaceOnce
  <2> DEFINE S == {p \in {A, B, C} : x \in p}
  <2> HIDE DEF A, B, C
  <2>5. A \cap B = {} /\ C = evidence.chart.axis \ (A \cup B)
    BY <2>2, <2>3, <2>4 DEF A
  <2>6. C \cap (A \cup B) = {} /\ (x \in A \/ x \in B \/ x \in C)
    BY <2>5
  <2>7. (x \in A => S = {A}) /\ (x \in B => S = {B}) /\ (x \in C => S = {C})
    BY <2>5, <2>6
  <2> HIDE DEF S
  <2>8. Cardinality(S) = 1
    BY <2>6, <2>7, FS_Singleton
  <2> QED BY <2>8 DEF A, B, C, S
<1> QED BY <1>1, InitEvidence, StepEvidence, PTL DEF Spec

-----------------------------------------------------------------------------
(* The estimates *)

\* Quotients of whole numbers.
LEMMA Quotient ==
  ASSUME NEW a \in Int, NEW b \in Int, NEW c \in Nat \ {0}
  PROVE  /\ a \div c \in Int
         /\ a >= b * c => a \div c >= b
         /\ a <= b * c => a \div c <= b
OBVIOUS

LEMMA PairSize ==
  ASSUME NEW a, NEW b
  PROVE  IsFiniteSet({a, b}) /\ (a # b => Cardinality({a, b}) = 2)
<1> DEFINE S == {a}
<1>1. IsFiniteSet(S) /\ Cardinality(S) = 1 /\ (a # b => b \notin S) /\ {a, b} = S \cup {b}
  BY FS_Singleton
<1> HIDE DEF S
<1> QED BY <1>1, FS_AddElement

LEMMA NearestTold ==
  ASSUME NEW found, IsFiniteSet(found), NEW otherwise, NEW x, x # otherwise
  PROVE  Nearest(found, otherwise) = x <=> found = {x}
<1>1. Cardinality({x}) = 1
  BY FS_Singleton
<1>2. Cardinality(found) = 1 => \E y : found = {y}
  BY FS_Singleton
<1> QED BY <1>1, <1>2 DEF Nearest

LEMMA NearestEither ==
  ASSUME NEW found, IsFiniteSet(found), NEW otherwise
  PROVE  Nearest(found, otherwise) = otherwise \/ found = {Nearest(found, otherwise)}
<1>2. Cardinality(found) = 1 => \E y : found = {y}
  BY FS_Singleton
<1> QED BY <1>2 DEF Nearest

\* _nearest_direction: a direction that is told is that of the sign and the
\* words, as far as they tell one.
LEMMA DirectionTold ==
  ASSUME NEW phrase, PhraseType(phrase), Direction(phrase) # 0
  PROVE  /\ Direction(phrase) \in {-1, 1}
         /\ phrase.sign \in {0, Direction(phrase)}
         /\ \/ phrase.words = {Direction(phrase)}
            \/ phrase.sign = Direction(phrase) /\ phrase.words # {-Direction(phrase)}
<1> DEFINE word == Nearest(phrase.words, 0)
<1>1. phrase.words \subseteq {-1, 1} /\ phrase.sign \in {-1, 0, 1}
  BY DEF PhraseType
<1>2. IsFiniteSet(phrase.words)
  <2> DEFINE m == -1
  <2>1. IsFiniteSet({m, 1})
    <3> HIDE DEF m
    <3> QED BY PairSize
  <2> QED BY <1>1, <2>1, FS_Subset
<1>3. word = 0 \/ phrase.words = {word}
  BY <1>2, NearestEither
<1>4. word \in {-1, 0, 1}
  BY <1>1, <1>3
<1>5. \A d \in {-1, 1} : phrase.words = {d} <=> word = d
  BY <1>2, NearestTold
<1>6. Direction(phrase) = IF phrase.sign # 0 /\ word # 0 /\ phrase.sign # word THEN 0
                          ELSE IF phrase.sign # 0 THEN phrase.sign ELSE word
  BY DEF Direction
<1> HIDE DEF word
<1>7. CASE phrase.sign # 0
  <2>1. Direction(phrase) = phrase.sign /\ (word = 0 \/ word = phrase.sign)
    BY <1>6, <1>7
  <2>2. phrase.sign \in {-1, 1} /\ -phrase.sign \in {-1, 1}
    BY <1>1, <1>7
  <2>3. word # -phrase.sign
    BY <2>1, <2>2
  <2> QED BY <2>1, <2>2, <2>3, <1>5
<1>8. CASE phrase.sign = 0
  <2>1. Direction(phrase) = word /\ word \in {-1, 1}
    BY <1>4, <1>6, <1>8
  <2> QED BY <2>1, <1>5, <1>8
<1> QED BY <1>7, <1>8

\* The values of finitely many, when there is no more than one.
LEMMA OneValue ==
  ASSUME NEW S, IsFiniteSet(S), NEW f, DOMAIN f = S, NEW T, T = {f[x] : x \in S}, ~(Cardinality(T) > 1)
  PROVE  \A x, y \in S : f[x] = f[y]
<1> SUFFICES ASSUME NEW x \in S, NEW y \in S, f[x] # f[y] PROVE FALSE
  OBVIOUS
<1>1. IsFiniteSet(T)
  <2> DEFINE g == [z \in S |-> f[z]]
  <2>1. g \in Surjection(S, T)
    BY DEF Surjection
  <2> QED BY <2>1, FS_Surjection
<1>2. {f[x], f[y]} \subseteq T
  OBVIOUS
<1>4. Cardinality({f[x], f[y]}) = 2
  BY PairSize
<1>5. Cardinality({f[x], f[y]}) <= Cardinality(T) /\ Cardinality(T) \in Nat
  BY <1>1, <1>2, FS_Subset, FS_CardinalityType
<1> QED BY <1>4, <1>5

\* _mixed_baseline_dimensions.
LEMMA OneBaseline ==
  ASSUME NEW cells, IsFiniteSet(cells), MixedDimensions(cells) = {}, NEW c \in cells
  PROVE  Cardinality({<<x.target, x.at>> : x \in cells}) = 1
<1>1. ~(Cardinality({x.target : x \in cells}) > 1) /\ ~(Cardinality({x.at : x \in cells}) > 1)
  BY DEF MixedDimensions
<1>2. \A x \in cells : x.target = c.target
  <2> DEFINE f == [x \in cells |-> x.target]
             T == {f[x] : x \in cells}
  <2>1. T = {x.target : x \in cells} /\ DOMAIN f = cells
    OBVIOUS
  <2>2. ~(Cardinality(T) > 1)
    BY <1>1, <2>1
  <2> HIDE DEF f
  <2>3. \A x, y \in cells : f[x] = f[y]
    BY <2>1, <2>2, OneValue
  <2> QED BY <2>3 DEF f
<1>3. \A x \in cells : x.at = c.at
  <2> DEFINE f == [x \in cells |-> x.at]
             T == {f[x] : x \in cells}
  <2>1. T = {x.at : x \in cells} /\ DOMAIN f = cells
    OBVIOUS
  <2>2. ~(Cardinality(T) > 1)
    BY <1>1, <2>1
  <2> HIDE DEF f
  <2>3. \A x, y \in cells : f[x] = f[y]
    BY <2>1, <2>2, OneValue
  <2> QED BY <2>3 DEF f
<1>4. {<<x.target, x.at>> : x \in cells} = {<<c.target, c.at>>}
  BY <1>2, <1>3
<1> QED BY <1>4, FS_Singleton

\* _numeric_means: the mean of a metric that is known is a whole number.
SumOf(seq) == FoldLeft(LAMBDA sum, c : sum + c.value, 0, seq)
LEMMA SumOfValues ==
  ASSUME NEW seq, NEW n \in Nat, DOMAIN seq = 1..n, \A k \in 1..n : seq[k].value \in Int
  PROVE  SumOf(seq) \in Int
<1> DEFINE w == [k \in 1..n |-> seq[k].value]
           Sums(f) == f = [T \in SUBSET (1..n) |-> IF T = {} THEN 0 ELSE f[T \ {Max(T)}] + seq[Max(T)].value]
           h == CHOOSE f : Sums(f)
<1>1. SumOf(seq) = h[1..n]
  BY DEF SumOf, FoldLeft, MapThenFoldSet
<1>2. \A T \in SUBSET (1..n) : T # {} => w[Max(T)] = seq[Max(T)].value
  BY MaxIn
<1>3. w \in [1..n -> Int]
  OBVIOUS
<1> HIDE DEF w
<1>4. ASSUME NEW f PROVE Sums(f) <=> Adds(f, w, n)
  BY <1>2 DEF Adds
<1>5. (\E f : Adds(f, w, n)) => Adds(h, w, n)
  <2> HIDE DEF Sums
  <2> QED BY <1>4
<1> HIDE DEF h
<1>6. h[1..n] \in Int
  BY <1>3, <1>5, SumInt
<1> QED BY <1>1, <1>6

LEMMA MeanInt ==
  ASSUME NEW cells, CellsType(cells), NEW metric, Known(cells, metric)
  PROVE  Mean(cells, metric) \in Int
<1> DEFINE of == {c \in cells : c.metric = metric}
           n == Cardinality(of)
           seq == SetToSeq(of)
<1>1. IsFiniteSet(of) /\ (\A c \in of : c.value \in Int) /\ of # {}
  BY FS_Subset DEF CellsType, Known
<1>2. Mean(cells, metric) = SumOf(seq) \div n
  BY DEF Mean, SumOf
<1>3. seq = CHOOSE f \in [1..n -> of] : IsInjective(f)
  BY DEF SetToSeq
<1> HIDE DEF of, seq
<1>4. n \in Nat \ {0} /\ ExistsBijection(1..n, of)
  BY <1>1, FS_CardinalityType, FS_EmptySet
<1> HIDE DEF n
<1>5. seq \in [1..n -> of]
  <2>1. PICK f \in [1..n -> of] : IsInjective(f)
    BY <1>4 DEF ExistsBijection, Bijection, Injection, IsInjective, Surjection
  <2> QED BY <2>1, <1>3
<1>6. SumOf(seq) \in Int
  BY <1>1, <1>4, <1>5, SumOfValues
<1> QED BY <1>2, <1>4, <1>6, Quotient

\* _estimate_utilization_change: the capacity grows with the utilization, and
\* the output with the capacity.
LEMMA CapacityGrows ==
  ASSUME NEW d \in {-1, 1}, NEW value \in Nat, NEW unit, NEW metric, NEW current \in 1..Whole,
         NEW p \in ProjectedUtilization([metric |-> metric, unit |-> unit, value |-> value, direction |-> d], current)
  PROVE  p \in 0..Whole /\ CapacityDelta(p, current) \in Int /\ d * CapacityDelta(p, current) >= 0
<1>1. p \in 0..Whole /\ (p = current + d * value \/ p = (current * (Whole + d * value)) \div Whole)
  BY DEF ProjectedUtilization
<1>2. Whole = 10000 /\ Whole \in Nat \ {0} /\ current \in Nat \ {0} /\ p \in Int
  BY <1>1 DEF Whole
<1> HIDE DEF Whole
<1>3. (d = 1 => p >= current) /\ (d = -1 => p <= current)
  <2>1. CASE p = current + d * value
    BY <2>1, <1>2
  <2>2. CASE p = (current * (Whole + d * value)) \div Whole
    <3>1. current * (Whole + d * value) \in Int
      BY <1>2
    <3>2. d = 1 => current * (Whole + d * value) >= current * Whole
      BY <1>2
    <3>3. d = -1 => current * (Whole + d * value) <= current * Whole
      BY <1>2
    <3> HIDE DEF Whole
    <3>4. \A a \in Int : (a >= current * Whole => a \div Whole >= current) /\ (a <= current * Whole => a \div Whole <= current)
      BY <1>2, Quotient
    <3> QED BY <2>2, <3>1, <3>2, <3>3, <3>4
  <2> QED BY <1>1, <2>1, <2>2
<1>4. p * Whole \in Int /\ (p >= current => p * Whole >= Whole * current) /\ (p <= current => p * Whole <= Whole * current)
  BY <1>2
<1>5. /\ (p * Whole) \div current \in Int
      /\ p >= current => (p * Whole) \div current >= Whole
      /\ p <= current => (p * Whole) \div current <= Whole
  <2>1. \A a \in Int : /\ a \div current \in Int
                       /\ a >= Whole * current => a \div current >= Whole
                       /\ a <= Whole * current => a \div current <= Whole
    <3>1. Whole \in Int /\ current \in Nat \ {0}
      BY <1>2
    <3> QED BY <3>1, Quotient
  <2> QED BY <1>4, <2>1
<1>6. CapacityDelta(p, current) = (p * Whole) \div current - Whole
  BY DEF CapacityDelta
<1>7. CapacityDelta(p, current) \in Int /\ (d = 1 => CapacityDelta(p, current) >= 0) /\ (d = -1 => CapacityDelta(p, current) <= 0)
  BY <1>2, <1>3, <1>5, <1>6
<1> QED BY <1>1, <1>7

LEMMA OutputGrows ==
  ASSUME NEW d \in {-1, 1}, NEW lots \in Nat, NEW delta \in Int, d * delta >= 0
  PROVE  (lots * delta) \div Whole \in Int /\ d * ((lots * delta) \div Whole) >= 0
<1>1. lots * delta \in Int /\ (d = 1 => lots * delta >= 0) /\ (d = -1 => lots * delta <= 0)
  OBVIOUS
<1>2. Whole \in Nat \ {0}
  BY DEF Whole
<1> HIDE DEF Whole
<1>3. \A a \in Int : a \div Whole \in Int /\ (a >= 0 => a \div Whole >= 0) /\ (a <= 0 => a \div Whole <= 0)
  <2>1. \A a \in Int : a \div Whole \in Int /\ (a >= 0 * Whole => a \div Whole >= 0) /\ (a <= 0 * Whole => a \div Whole <= 0)
    BY <1>2, Quotient
  <2> QED BY <2>1, <1>2
<1>4. /\ (lots * delta) \div Whole \in Int
      /\ (d = 1 => (lots * delta) \div Whole >= 0)
      /\ (d = -1 => (lots * delta) \div Whole <= 0)
  BY <1>1, <1>3
<1> QED BY <1>4

\* What is estimated of one change.
Fits(x, d, metric) ==
  /\ x.of = metric /\ metric \in {"utilization", "cycle_time"} /\ x.value \in Int
  /\ x.key = "projected_util_percent" => x.value \in 0..Whole
  /\ x.directional => d * x.value >= 0

LEMMA EstimateFits ==
  ASSUME NEW cells, CellsType(cells), NEW d \in {-1, 1}, NEW value \in Nat, NEW unit, NEW metric,
         NEW change, change = [metric |-> metric, unit |-> unit, value |-> value, direction |-> d],
         NEW x \in EstimatesOf(change, cells)
  PROVE  Fits(x, d, metric) /\ cells # {}
<1>1. CASE change.metric = "utilization" /\ change.unit \in {"point", "percent"}
  <2> DEFINE current == Mean(cells, "util")
             lots == Mean(cells, "lots")
  <2>1. x \in UtilizationEstimates(change, cells) /\ metric = "utilization"
    BY <1>1 DEF EstimatesOf
  <2>2. Known(cells, "util") /\ current \in 1..Whole
    BY <2>1 DEF UtilizationEstimates
  <2>3. PICK p \in ProjectedUtilization(change, current) :
          \/ x = Estimate("projected_util_percent", p, "utilization", FALSE)
          \/ x = Estimate("capacity_delta_percent", CapacityDelta(p, current), "utilization", TRUE)
          \/ Known(cells, "lots") /\ lots >= 0 /\ x \in LotEstimates(lots, p, current)
    BY <2>1, <2>2 DEF UtilizationEstimates
  <2>4. p \in 0..Whole /\ CapacityDelta(p, current) \in Int /\ d * CapacityDelta(p, current) >= 0
    BY <2>2, CapacityGrows
  <2>5. cells # {}
    BY <2>2 DEF Known
  <2>6. CASE x = Estimate("projected_util_percent", p, "utilization", FALSE)
    BY <2>1, <2>4, <2>5, <2>6 DEF Estimate, Fits
  <2>7. CASE x = Estimate("capacity_delta_percent", CapacityDelta(p, current), "utilization", TRUE)
    BY <2>1, <2>4, <2>5, <2>7 DEF Estimate, Fits
  <2>8. CASE Known(cells, "lots") /\ lots >= 0 /\ x \in LotEstimates(lots, p, current)
    <3>1. lots \in Nat
      BY <2>8, MeanInt
    <3>2. /\ (lots * CapacityDelta(p, current)) \div Whole \in Int
          /\ d * ((lots * CapacityDelta(p, current)) \div Whole) >= 0
      BY <3>1, <2>4, OutputGrows
    <3>2a. (lots * p) \div current \in Int
      <4>1. Whole \in Nat
        BY DEF Whole
      <4>2. current \in Nat \ {0} /\ p \in Nat /\ lots \in Nat
        BY <2>2, <2>4, <3>1, <4>1
      <4> HIDE DEF current, lots
      <4>3. lots * p \in Int
        BY <4>2
      <4> QED BY <4>2, <4>3, Quotient
    <3> HIDE DEF current, lots
    <3>3. \/ x = Estimate("estimated_lotcomps_delta", (lots * CapacityDelta(p, current)) \div Whole, "utilization", TRUE)
          \/ x = Estimate("projected_lotcomps", (lots * p) \div current, "utilization", FALSE)
      BY <2>8 DEF LotEstimates
    <3> QED BY <2>1, <2>5, <3>2, <3>2a, <3>3 DEF Estimate, Fits
  <2> QED BY <2>3, <2>6, <2>7, <2>8
<1>2. CASE change.metric = "cycle_time" /\ change.unit = "percent"
  <2>1. x \in CycleEstimates(change, cells) /\ metric = "cycle_time"
    BY <1>2 DEF EstimatesOf
  <2>2. Known(cells, "cycle")
    BY <2>1 DEF CycleEstimates
  <2> DEFINE current == Mean(cells, "cycle")
             after == (current * (Whole + d * value)) \div Whole
  <2>3. \/ x = Estimate("projected_cycle_time", after, "cycle_time", FALSE)
        \/ x = Estimate("cycle_time_change_percent", d * value, "cycle_time", TRUE)
    BY <2>1 DEF CycleEstimates
  <2>4. d * value \in Int /\ d * (d * value) >= 0
    OBVIOUS
  <2>5. after \in Int
    <3>1. current \in Int
      BY <2>2, MeanInt
    <3>2. Whole \in Nat \ {0}
      BY DEF Whole
    <3> HIDE DEF current, Whole
    <3>3. current * (Whole + d * value) \in Int
      BY <3>1, <3>2
    <3> QED BY <3>2, <3>3, Quotient
  <2> HIDE DEF after
  <2> QED BY <2>1, <2>2, <2>3, <2>4, <2>5 DEF Estimate, Fits, Known
<1> QED BY <1>1, <1>2 DEF EstimatesOf

\* estimate_output_delta.
LEMMA EstimatesBounded ==
  ASSUME NEW phrases, \A k \in DOMAIN phrases : PhraseType(phrases[k]), NEW cells, CellsType(cells),
         NEW x \in EstimateOutputDelta(phrases, cells).estimates
  PROVE  /\ x.value \in Int
         /\ Cardinality({<<c.target, c.at>> : c \in cells}) = 1
         /\ Cardinality({k \in DOMAIN phrases : phrases[k].metrics = {x.of}}) = 1
         /\ x.key = "projected_util_percent" => x.value \in 0..Whole
         /\ x.directional =>
              \A k \in DOMAIN phrases : phrases[k].metrics = {x.of} => Along(phrases[k], x.value)
<1> DEFINE changes == ParseChanges(phrases)
           mixed == MixedDimensions(cells)
<1>1. mixed = {} /\ x \in UNION {EstimatesOf(changes[k], cells) : k \in Calculable(changes)}
  BY DEF EstimateOutputDelta
<1>2. PICK k \in Calculable(changes) : x \in EstimatesOf(changes[k], cells)
  BY <1>1
<1>3. /\ k \in DOMAIN changes /\ changes[k].direction # 0
      /\ \A n \in DOMAIN changes : changes[n].metric = changes[k].metric => n = k
  BY <1>2 DEF Calculable
<1>4. /\ DOMAIN changes = DOMAIN phrases
      /\ \A n \in DOMAIN phrases :
           changes[n] = [metric |-> Nearest(phrases[n].metrics, "unknown"), unit |-> phrases[n].unit,
                         value |-> phrases[n].value, direction |-> Direction(phrases[n])]
  BY DEF ParseChanges
<1> HIDE DEF changes
<1>5. PhraseType(phrases[k]) /\ phrases[k].value \in Nat /\ Direction(phrases[k]) # 0
  BY <1>3, <1>4 DEF PhraseType
<1> DEFINE d == Direction(phrases[k])
           metric == Nearest(phrases[k].metrics, "unknown")
<1>6. /\ d \in {-1, 1} /\ phrases[k].sign \in {0, d}
      /\ phrases[k].words = {d} \/ (phrases[k].sign = d /\ phrases[k].words # {-d})
  BY <1>5, DirectionTold
<1>7. Fits(x, d, metric) /\ cells # {}
  <2>1. changes[k] = [metric |-> metric, unit |-> phrases[k].unit, value |-> phrases[k].value, direction |-> d]
    BY <1>3, <1>4
  <2> HIDE DEF d, metric
  <2> QED BY <1>2, <1>5, <1>6, <2>1, EstimateFits
<1>8. \A n \in DOMAIN phrases : phrases[n].metrics = {x.of} <=> Nearest(phrases[n].metrics, "unknown") = x.of
  <2>1. \A n \in DOMAIN phrases : IsFiniteSet(phrases[n].metrics)
    BY DEF PhraseType
  <2>2. x.of # "unknown"
    BY <1>7 DEF Fits
  <2> TAKE n \in DOMAIN phrases
  <2> DEFINE found == phrases[n].metrics
             of == x.of
  <2>3. IsFiniteSet(found) /\ of # "unknown"
    BY <2>1, <2>2
  <2> HIDE DEF found, of
  <2>4. Nearest(found, "unknown") = of <=> found = {of}
    BY <2>3, NearestTold
  <2> QED BY <2>4 DEF found, of
<1>9. \A n \in DOMAIN phrases : phrases[n].metrics = {x.of} <=> n = k
  <2>1. x.of = metric /\ k \in DOMAIN phrases
    BY <1>3, <1>4, <1>7 DEF Fits
  <2> QED BY <1>3, <1>4, <1>8, <2>1
<1>10. Cardinality({<<c.target, c.at>> : c \in cells}) = 1
  BY <1>1, <1>7, OneBaseline DEF CellsType
<1>11. Cardinality({n \in DOMAIN phrases : phrases[n].metrics = {x.of}}) = 1
  <2>1. {n \in DOMAIN phrases : phrases[n].metrics = {x.of}} = {k}
    BY <1>3, <1>4, <1>9
  <2> QED BY <2>1, FS_Singleton
<1>12. ASSUME x.directional, NEW n \in DOMAIN phrases, phrases[n].metrics = {x.of}
       PROVE  Along(phrases[n], x.value)
  <2>1. n = k
    BY <1>9, <1>12
  <2>2. d * x.value >= 0
    BY <1>7, <1>12 DEF Fits
  <2> HIDE DEF d
  <2> QED BY <1>6, <2>1, <2>2 DEF Along
<1> QED BY <1>7, <1>10, <1>11, <1>12 DEF Fits

\* estimate_output_delta: whatever a question changes and a query returns, an
\* estimate is of one baseline and one change, possible and in its direction.
THEOREM ImpactInBounds == Spec => []ImpactBounded
<1>1. EvidenceInv => ImpactBounded
  <2> SUFFICES ASSUME EvidenceInv, evidence.impact # Absent, NEW x \in evidence.impact.estimates
               PROVE  /\ Cardinality(Baselines) = 1
                      /\ Cardinality(ChangesOf(x.of)) = 1
                      /\ x.key = "projected_util_percent" => x.value \in 0..Whole
                      /\ x.directional => \A k \in ChangesOf(x.of) : Along(request.phrases[k], x.value)
    BY DEF ImpactBounded
  <2>1. /\ x \in EstimateOutputDelta(request.phrases, evidence.cells).estimates
        /\ CellsType(evidence.cells) /\ \A k \in DOMAIN request.phrases : PhraseType(request.phrases[k])
    BY InputAssumption DEF EvidenceInv
  <2>2. /\ x.value \in Int
        /\ Cardinality({<<c.target, c.at>> : c \in evidence.cells}) = 1
        /\ Cardinality({k \in DOMAIN request.phrases : request.phrases[k].metrics = {x.of}}) = 1
        /\ x.key = "projected_util_percent" => x.value \in 0..Whole
        /\ x.directional =>
             \A k \in DOMAIN request.phrases :
               request.phrases[k].metrics = {x.of} => Along(request.phrases[k], x.value)
    BY <2>1, EstimatesBounded
  <2> QED BY <2>2 DEF Baselines, ChangesOf
<1> QED BY <1>1, InitEvidence, StepEvidence, PTL DEF Spec

-----------------------------------------------------------------------------
(* Parts of a list *)

\* A list is one of its own elements.
LEMMA ListIs ==
  ASSUME NEW S, NEW f \in Seq(S)
  PROVE  IsList(f) /\ \A x \in ToSet(f) : x \in S /\ \E k \in DOMAIN f : f[k] = x
<1>1. DOMAIN f = 1..Len(f) /\ Len(f) \in Nat /\ f = [k \in 1..Len(f) |-> f[k]] /\ \A k \in DOMAIN f : f[k] \in S
  BY LenProperties
<1>2. \A k \in 1..Len(f) : f[k] \in ToSet(f)
  BY <1>1 DEF ToSet
<1>3. f \in [1..Len(f) -> ToSet(f)]
  BY <1>1, <1>2
<1>4. f \in Seq(ToSet(f))
  BY <1>1, <1>3
<1> QED BY <1>1, <1>4 DEF IsList, ToSet

\* A part of a list, by the places of its elements, and the beginning of one.
Picked(list, K) == [k \in DOMAIN Sorted(K) |-> list[Sorted(K)[k]]]

LEMMA PickedIs ==
  ASSUME NEW list, IsList(list), NEW K \in SUBSET (DOMAIN list)
  PROVE  /\ Cardinality(K) \in Nat /\ DOMAIN Picked(list, K) = 1..Cardinality(K) /\ Cardinality(K) <= Len(list)
         /\ Picked(list, K) \in Seq(ToSet(list)) /\ Len(Picked(list, K)) = Cardinality(K)
         /\ \A k \in DOMAIN Picked(list, K) : \E j \in K : Picked(list, K)[k] = list[j]
         /\ \A j \in K : \E k \in DOMAIN Picked(list, K) : Picked(list, K)[k] = list[j]
<1> DEFINE n == Len(list)
           D == DOMAIN list
<1>1. n \in Nat /\ D = 1..n
  BY LenProperties DEF IsList
<1>2. IsFiniteSet(D) /\ D \subseteq Int /\ Cardinality(D) = n
  BY <1>1, FS_Interval
<1> HIDE DEF D, n
<1>3. IsFiniteSet(K) /\ Cardinality(K) <= n /\ K \in SUBSET Int
  BY <1>2, FS_Subset DEF D
<1>4. Cardinality(K) \in Nat
  BY <1>3, FS_CardinalityType
<1>5. /\ DOMAIN Sorted(K) = 1..Cardinality(K)
      /\ \A k \in DOMAIN Sorted(K) : Sorted(K)[k] \in K
      /\ \A x \in K : \E k \in DOMAIN Sorted(K) : Sorted(K)[k] = x
  BY <1>3, NumbersInOrder
<1>6. /\ DOMAIN Picked(list, K) = 1..Cardinality(K)
      /\ \A k \in DOMAIN Picked(list, K) : Picked(list, K)[k] = list[Sorted(K)[k]]
      /\ Picked(list, K) = [k \in 1..Cardinality(K) |-> list[Sorted(K)[k]]]
  BY <1>5 DEF Picked
<1>7. \A j \in D : list[j] \in ToSet(list)
  BY DEF ToSet, D
<1>8. Picked(list, K) \in Seq(ToSet(list)) /\ Len(Picked(list, K)) = Cardinality(K)
  <2>1. \A k \in 1..Cardinality(K) : list[Sorted(K)[k]] \in ToSet(list)
    BY <1>5, <1>7 DEF D
  <2> DEFINE c == Cardinality(K)
             S == ToSet(list)
  <2>2. c \in Nat /\ Picked(list, K) \in [1..c -> S]
    BY <1>4, <1>6, <2>1
  <2> HIDE DEF c, S
  <2>3. Picked(list, K) \in Seq(S) /\ Len(Picked(list, K)) = c
    BY <2>2
  <2> QED BY <2>3 DEF c, S
<1> QED BY <1>3, <1>4, <1>5, <1>6, <1>8 DEF n

LEMMA CutIs ==
  ASSUME NEW S, NEW list \in Seq(S), NEW n \in Nat
  PROVE  /\ Cut(list, n) \in Seq(S) /\ Len(Cut(list, n)) <= n /\ Len(Cut(list, n)) <= Len(list)
         /\ \A k \in DOMAIN Cut(list, n) : k \in DOMAIN list /\ Cut(list, n)[k] = list[k]
<1> DEFINE m == IF Len(list) < n THEN Len(list) ELSE n
<1>1. m \in Nat /\ m <= n /\ m <= Len(list) /\ Len(list) \in Nat
  OBVIOUS
<1>2. Cut(list, n) = SubSeq(list, 1, m)
  BY DEF Cut
<1> HIDE DEF m
<1>3. \A i \in 1..m : list[i] \in S
  BY <1>1
<1>4. /\ SubSeq(list, 1, m) \in Seq(S)
      /\ Len(SubSeq(list, 1, m)) = m
      /\ \A i \in 1..m : SubSeq(list, 1, m)[i] = list[i]
  BY <1>1, <1>3
<1> QED BY <1>1, <1>2, <1>4

-----------------------------------------------------------------------------
(* The case search *)

\* _score_case: a score is a whole number, and only of a case that fits.
LEMMA ScoreType ==
  ASSUME NEW q, NEW case, case.match \in Nat
  PROVE  CaseScore(q, case) \in Nat /\ (CaseScore(q, case) > 0 => TargetMatches(q, case))
BY DEF CaseScore, AboutOther

\* The cases of a store in their order.
Scored(q, store) == {n \in DOMAIN store : CaseScore(q, store[n]) > 0}
LEMMA RankedIs ==
  ASSUME NEW q, NEW store, StoreType(store)
  PROVE  RankedCases(q, store) \in Seq(Scored(q, store)) /\ NoRepeat(RankedCases(q, store))
<1> DEFINE S == Scored(q, store)
           R == {p \in S \X S : Ahead(q, store, p[1], p[2])}
           f == RankedCases(q, store)
<1>1. \A m, n \in S : <<m, n>> \in R <=> Ahead(q, store, m, n)
  OBVIOUS
<1>2. IsFiniteSet(S) /\ \A n \in S : n \in Int /\ store[n].stamp \in Int /\ CaseScore(q, store[n]) \in Int
  <2>1. DOMAIN store = 1..Len(store) /\ Len(store) \in Nat
    BY LenProperties DEF StoreType, IsList
  <2>2. S \subseteq DOMAIN store
    BY DEF Scored
  <2>3. IsFiniteSet(DOMAIN store)
    BY <2>1, FS_Interval
  <2>4. \A n \in DOMAIN store : store[n].stamp \in Int /\ CaseScore(q, store[n]) \in Int
    BY ScoreType DEF StoreType
  <2>5. \A n \in DOMAIN store : n \in Int
    BY <2>1
  <2> QED BY <2>2, <2>3, <2>4, <2>5, FS_Subset
<1>3. f = [k \in 1..Cardinality(S) |-> CHOOSE x \in S : Cardinality({y \in S : Ahead(q, store, y, x)}) = k - 1]
  BY DEF RankedCases, InOrder, Scored
<1> HIDE DEF S, R, f
<1>4. TotalOn(S, R)
  <2>1. ASSUME NEW x \in S, NEW y \in S, NEW z \in S
        PROVE  /\ ~Ahead(q, store, x, x)
               /\ x # y => Ahead(q, store, x, y) \/ Ahead(q, store, y, x)
               /\ Ahead(q, store, x, y) /\ Ahead(q, store, y, z) => Ahead(q, store, x, z)
    <3>1. \A n \in {x, y, z} : n \in Int /\ store[n].stamp \in Int /\ CaseScore(q, store[n]) \in Int
      BY <1>2
    <3> QED BY <3>1 DEF Ahead
  <2> QED BY <1>1, <2>1 DEF TotalOn
<1>5. \A x \in S : {y \in S : Ahead(q, store, y, x)} = Before1(S, R, x)
  BY <1>1 DEF Before1
<1>6. ASSUME NEW k \in 1..Cardinality(S), NEW w \in S, Cardinality(Before1(S, R, w)) = k - 1
      PROVE  f[k] \in S /\ Cardinality(Before1(S, R, f[k])) = k - 1
  <2>1. \E x \in S : Cardinality({y \in S : Ahead(q, store, y, x)}) = k - 1
    BY <1>5, <1>6
  <2>2. f[k] = CHOOSE x \in S : Cardinality({y \in S : Ahead(q, store, y, x)}) = k - 1
    BY <1>3
  <2>3. f[k] \in S /\ Cardinality({y \in S : Ahead(q, store, y, f[k])}) = k - 1
    BY <2>1, <2>2
  <2> QED BY <2>3, <1>5
<1>7. f = [k \in 1..Cardinality(S) |-> f[k]]
  <2> DEFINE e(k) == CHOOSE x \in S : Cardinality({y \in S : Ahead(q, store, y, x)}) = k - 1
  <2>1. f = [k \in 1..Cardinality(S) |-> e(k)]
    BY <1>3
  <2> HIDE DEF e
  <2> QED BY <2>1
<1>8. PlacedIn(f, S, R)
  BY <1>6, <1>7 DEF PlacedIn
<1>9. f \in Seq(S) /\ NoRepeat(f)
  BY <1>2, <1>4, <1>8, Ordered
<1> QED BY <1>9 DEF f, S

\* _select_ranked_cases: each case once, as it is ranked.
LEMMA SelectedIs ==
  ASSUME NEW q, NEW store, NEW S, NEW ranked \in Seq(S), NoRepeat(ranked)
  PROVE  SelectRanked(q, store, ranked) \in Seq(S) /\ NoRepeat(SelectRanked(q, store, ranked))
<1> DEFINE chosen == Cut(ranked, CaseLimit)
           K == {k \in DOMAIN ranked : store[ranked[k]].verified}
           verified == Picked(ranked, K)
<1>1. SelectRanked(q, store, ranked) = WithVerified(q, store, chosen, verified)
  BY DEF SelectRanked, Filtered, Picked, Sorted, InOrder
<1>2. chosen \in Seq(S) /\ \A k \in DOMAIN chosen : k \in DOMAIN ranked /\ chosen[k] = ranked[k]
  BY CaseAssumption, CutIs
<1>3. NoRepeat(chosen)
  BY <1>2 DEF NoRepeat
<1>4. IsList(ranked)
  <2>1. DOMAIN ranked = 1..Len(ranked) /\ Len(ranked) \in Nat /\ ranked = [k \in 1..Len(ranked) |-> ranked[k]]
    BY LenProperties
  <2>2. \A k \in 1..Len(ranked) : ranked[k] \in ToSet(ranked)
    BY <2>1 DEF ToSet
  <2> QED BY <2>1, <2>2 DEF IsList
<1>4a. K \in SUBSET (DOMAIN ranked) /\ \A k \in K : store[ranked[k]].verified
  OBVIOUS
<1> HIDE DEF K
<1>5. \A k \in DOMAIN verified : \E j \in K : verified[k] = ranked[j]
  BY <1>4, <1>4a, PickedIs
<1>6. verified # << >> => 1 \in DOMAIN verified
  <2>1. verified \in Seq(ToSet(ranked))
    BY <1>4, <1>4a, PickedIs
  <2> HIDE DEF verified
  <2> QED BY <2>1
<1> HIDE DEF chosen, verified
<1>7. CASE ~Replaces(q, store, chosen, verified)
  BY <1>1, <1>2, <1>3, <1>7 DEF WithVerified
<1>8. CASE Replaces(q, store, chosen, verified)
  <2> DEFINE v == verified[1]
             front == Front(chosen)
             f == Append(front, v)
  <2>1. SelectRanked(q, store, ranked) = f
    BY <1>1, <1>8 DEF WithVerified
  <2>2. v \in S /\ store[v].verified
    <3>1. PICK j \in K : v = ranked[j]
      BY <1>5, <1>6, <1>8 DEF Replaces
    <3>2. j \in DOMAIN ranked /\ store[ranked[j]].verified
      BY <1>4a
    <3> QED BY <3>1, <3>2
  <2>3. chosen # << >> /\ \A n \in ToSet(chosen) : ~store[n].verified
    BY <1>8 DEF Replaces
  <2>4. \A k \in DOMAIN chosen : chosen[k] # v
    BY <2>2, <2>3 DEF ToSet
  <2> HIDE DEF v
  <2>5. /\ front \in Seq(S) /\ Len(front) = Len(chosen) - 1 /\ Len(chosen) \in Nat \ {0}
        /\ DOMAIN chosen = 1..Len(chosen)
        /\ \A k \in 1..Len(front) : front[k] = chosen[k]
    <3>1. Len(chosen) \in Nat \ {0} /\ DOMAIN chosen = 1..Len(chosen)
      BY <1>2, <2>3
    <3>2. front = SubSeq(chosen, 1, Len(chosen) - 1)
      BY DEF Front
    <3> DEFINE m == Len(chosen) - 1
    <3>3. m \in Nat /\ \A i \in 1..m : chosen[i] \in S
      BY <3>1, <1>2
    <3> HIDE DEF front, m
    <3>4. SubSeq(chosen, 1, m) \in Seq(S) /\ Len(SubSeq(chosen, 1, m)) = m
          /\ \A i \in 1..m : SubSeq(chosen, 1, m)[i] = chosen[i]
      <4> HIDE <3>1, <3>2
      <4> QED BY <3>3
    <3> QED BY <3>1, <3>2, <3>4 DEF m
  <2> HIDE DEF front
  <2>6. /\ f \in Seq(S) /\ Len(f) = Len(chosen) /\ DOMAIN f = 1..Len(chosen)
        /\ \A k \in 1..Len(front) : f[k] = chosen[k]
        /\ f[Len(chosen)] = v
    BY <2>2, <2>5
  <2> HIDE DEF f
  <2>7. NoRepeat(f)
    BY <1>3, <2>4, <2>5, <2>6 DEF NoRepeat
  <2> QED BY <2>1, <2>6, <2>7
<1> QED BY <1>7, <1>8

-----------------------------------------------------------------------------
(* What a candidate is scored by *)

\* The items of one issue, of the documents or the cases of a diagnosis.
ItemsType(seq) == IsList(seq) /\ \A k \in DOMAIN seq : seq[k].score \in Int

About(seq, issue) == {k \in DOMAIN seq : issue \in seq[k].issues}

LEMMA OfIs ==
  ASSUME NEW seq, ItemsType(seq), NEW issue
  PROVE  /\ ItemsType(Of(seq, issue)) /\ Len(Of(seq, issue)) = Cardinality(About(seq, issue))
         /\ Cardinality(About(seq, issue)) \in Nat /\ Cardinality(About(seq, issue)) <= Len(seq)
         /\ \A k \in DOMAIN Of(seq, issue) : \E j \in About(seq, issue) : Of(seq, issue)[k] = seq[j]
         /\ \A j \in About(seq, issue) : \E k \in DOMAIN Of(seq, issue) : Of(seq, issue)[k] = seq[j]
<1> DEFINE K == About(seq, issue)
           f == Of(seq, issue)
<1>1. f = Picked(seq, K)
  BY DEF Of, Filtered, Picked, Sorted, InOrder, About
<1>2. K \in SUBSET (DOMAIN seq) /\ IsList(seq) /\ \A k \in DOMAIN seq : seq[k].score \in Int
  BY DEF ItemsType, About
<1> HIDE DEF K, f
<1>3. /\ Cardinality(K) \in Nat /\ Cardinality(K) <= Len(seq)
      /\ f \in Seq(ToSet(seq)) /\ Len(f) = Cardinality(K)
      /\ \A k \in DOMAIN f : \E j \in K : f[k] = seq[j]
      /\ \A j \in K : \E k \in DOMAIN f : f[k] = seq[j]
  BY <1>1, <1>2, PickedIs
<1>4. IsList(f)
  BY <1>3, ListIs
<1>5. \A k \in DOMAIN f : f[k].score \in Int
  BY <1>2, <1>3
<1> QED BY <1>3, <1>4, <1>5 DEF ItemsType, K, f

\* The weights of a diagnosis are summed: of what is simulated one each, and
\* at least a verified one's twelve.
Weights(seq, n) == [k \in 1..n |-> Weight(seq[k].reliability)]
LEMMA WeightIs == ASSUME NEW r PROVE Weight(r) \in Nat
BY DEF Weight

LEMMA TotalIs ==
  ASSUME NEW seq, IsList(seq)
  PROVE  /\ Total(seq) \in Nat
         /\ (\A k \in DOMAIN seq : Weight(seq[k].reliability) = 1) => Total(seq) <= Len(seq)
         /\ \A k \in DOMAIN seq : Total(seq) >= Weight(seq[k].reliability)
<1> DEFINE n == Len(seq)
           w == Weights(seq, n)
           Sums(f) == f = [T \in SUBSET (1..n) |-> IF T = {} THEN 0 ELSE f[T \ {Max(T)}] + Weight(seq[Max(T)].reliability)]
           h == CHOOSE f : Sums(f)
           R == {p \in (SUBSET (1..n)) \X Int :
                   /\ p[2] >= 0
                   /\ (\A k \in p[1] : w[k] = 1) => p[2] <= Cardinality(p[1])
                   /\ \A k \in p[1] : p[2] >= w[k]}
<1>1. n \in Nat /\ DOMAIN seq = 1..n
  BY LenProperties DEF IsList
<1>2. Total(seq) = h[1..n]
  BY <1>1 DEF Total, FoldLeft, MapThenFoldSet
<1>3. /\ w \in [1..n -> Int]
      /\ \A k \in 1..n : w[k] = Weight(seq[k].reliability) /\ w[k] \in Nat
  BY WeightIs DEF Weights
<1>4. \A T \in SUBSET (1..n) : T # {} => Max(T) \in T /\ Max(T) \in 1..n
  BY <1>1, MaxIn
<1>5. ASSUME NEW f PROVE Sums(f) <=> Adds(f, w, n)
  BY <1>3, <1>4 DEF Adds
<1>6. (\E f : Adds(f, w, n)) => Adds(h, w, n)
  <2> HIDE DEF Sums
  <2> QED BY <1>5
<1> HIDE DEF n, w, h
<1>7. KeptBy(R, Int, 0, Plus(w, n), n)
  <2>1. <<{}, 0>> \in R
    <3>1. Cardinality({}) = 0
      BY FS_EmptySet
    <3> QED BY <3>1
  <2>2. ASSUME NEW T \in SUBSET (1..n), NEW v \in Int, T # {}, <<T \ {Max(T)}, v>> \in R
        PROVE  <<T, v + w[Max(T)]>> \in R
    <3> DEFINE m == Max(T)
               U == T \ {m}
    <3>1. m \in T /\ m \in 1..n /\ w[m] \in Nat /\ U \in SUBSET (1..n)
      BY <2>2, <1>3, <1>4
    <3>2. Cardinality(U) = Cardinality(T) - 1 /\ Cardinality(T) \in Nat
      BY <1>1, <3>1, PartsOf
    <3>3. /\ v >= 0 /\ ((\A k \in U : w[k] = 1) => v <= Cardinality(U))
          /\ \A k \in U : v >= w[k]
      BY <2>2
    <3> HIDE DEF m
    <3>4. v + w[m] \in Int /\ v + w[m] >= 0
      BY <3>1, <3>3
    <3>5. (\A k \in T : w[k] = 1) => v + w[m] <= Cardinality(T)
      BY <3>1, <3>2, <3>3
    <3>6. \A k \in T : v + w[m] >= w[k]
      <4> TAKE k \in T
      <4>1. w[k] \in Nat
        BY <1>3
      <4>2. k = m \/ k \in U
        OBVIOUS
      <4> QED BY <3>1, <3>3, <4>1, <4>2
    <3>7. <<T, v + w[m]>> \in R
      BY <3>4, <3>5, <3>6
    <3> QED BY <3>7 DEF m
  <2>3. \A T \in SUBSET (1..n), v \in Int : T # {} => Plus(w, n)[<<v, Max(T)>>] = v + w[Max(T)]
    BY <1>4 DEF Plus
  <2>4. R \subseteq (SUBSET (1..n)) \X Int
    OBVIOUS
  <2> HIDE DEF R
  <2> QED BY <2>1, <2>2, <2>3, <2>4 DEF KeptBy
<1>8. <<1..n, h[1..n]>> \in R
  <2> HIDE DEF R
  <2> QED BY <1>1, <1>3, <1>6, <1>7, SumHolds
<1>9. /\ Total(seq) \in Nat
      /\ (\A k \in 1..n : w[k] = 1) => Total(seq) <= Cardinality(1..n)
      /\ \A k \in 1..n : Total(seq) >= w[k]
  <2> DEFINE v == h[1..n]
             D == 1..n
  <2>1. <<D, v>> \in R
    BY <1>8
  <2> HIDE DEF v, D
  <2>2. /\ v \in Int /\ v >= 0 /\ ((\A k \in D : w[k] = 1) => v <= Cardinality(D))
        /\ \A k \in D : v >= w[k]
    BY <2>1
  <2> QED BY <1>2, <2>2 DEF v, D
<1>10. Cardinality(1..n) = n
  BY <1>1, FS_Interval
<1> QED BY <1>1, <1>3, <1>9, <1>10 DEF n

\* The best score is a whole number.
LEMMA TopIs ==
  ASSUME NEW seq, ItemsType(seq)
  PROVE  TopScore(seq) \in Int
<1> DEFINE n == Len(seq)
           Tops(f) == f = [T \in SUBSET (1..n) |->
             IF T = {} THEN 0
             ELSE IF seq[Max(T)].score > f[T \ {Max(T)}] THEN seq[Max(T)].score ELSE f[T \ {Max(T)}]]
           h == CHOOSE f : Tops(f)
           G == [p \in Int \X (1..n) |-> IF seq[p[2]].score > p[1] THEN seq[p[2]].score ELSE p[1]]
           R == (SUBSET (1..n)) \X Int
<1>1. n \in Nat /\ DOMAIN seq = 1..n /\ \A k \in 1..n : seq[k].score \in Int
  BY LenProperties DEF IsList, ItemsType
<1>2. TopScore(seq) = h[1..n]
  BY <1>1 DEF TopScore, FoldLeft, MapThenFoldSet
<1>3. /\ G \in [Int \X (1..n) -> Int] /\ 0 \in Int
      /\ \A v \in Int, k \in 1..n : G[<<v, k>>] = IF seq[k].score > v THEN seq[k].score ELSE v
  BY <1>1
<1>4. \A T \in SUBSET (1..n) : T # {} => Max(T) \in T /\ Max(T) \in 1..n
  BY <1>1, MaxIn
<1> HIDE DEF n, G
<1>5. ASSUME NEW f \in [SUBSET (1..n) -> Int], FoldIs(f, 0, G, n) PROVE Tops(f)
  <2>1. \A T \in SUBSET (1..n) : f[T] = IF T = {} THEN 0 ELSE G[<<f[T \ {Max(T)}], Max(T)>>]
    BY <1>5 DEF FoldIs
  <2>2. \A T \in SUBSET (1..n) : T # {} => f[T \ {Max(T)}] \in Int
    OBVIOUS
  <2> QED BY <1>3, <1>4, <2>1, <2>2
<1>6. ASSUME Tops(h) PROVE StepsBy(h, Int, 0, G, n)
  <2>1. \A T \in SUBSET (1..n) : h[T] = IF T = {} THEN 0
             ELSE IF seq[Max(T)].score > h[T \ {Max(T)}] THEN seq[Max(T)].score ELSE h[T \ {Max(T)}]
    <3> DEFINE g == h
    <3>1. Tops(g)
      BY <1>6
    <3> HIDE DEF g
    <3>2. \A T \in SUBSET (1..n) : g[T] = IF T = {} THEN 0
             ELSE IF seq[Max(T)].score > g[T \ {Max(T)}] THEN seq[Max(T)].score ELSE g[T \ {Max(T)}]
      BY <3>1
    <3> QED BY <3>2 DEF g
  <2> HIDE DEF h
  <2> QED BY <1>3, <1>4, <2>1 DEF StepsBy
<1>7. (\E f \in [SUBSET (1..n) -> Int] : FoldIs(f, 0, G, n)) => StepsBy(h, Int, 0, G, n)
  <2>1. (\E f : Tops(f)) => Tops(h)
    <3> HIDE DEF Tops
    <3> QED OBVIOUS
  <2> HIDE DEF Tops, h
  <2> QED BY <1>5, <1>6, <2>1
<1>8. KeptBy(R, Int, 0, G, n)
  BY <1>3, <1>4 DEF KeptBy
<1>9. <<1..n, h[1..n]>> \in R
  <2> HIDE DEF R, h
  <2> QED BY <1>1, <1>3, <1>7, <1>8, FoldHolds
<1> QED BY <1>2, <1>9

\* What a diagnosis takes from a document and from a case.
CauseOf(item, d) ==
  item.issues = DocumentIssues(d) /\ item.reliability = KnowledgeReliability(d) /\ item.score = d.score
CaseOf(q, item, c) ==
  /\ item.id = c.id /\ item.issues = Diagnostic(c.issue) /\ item.cause = c.cause
  /\ item.reliability = CaseReliability(q, c) /\ item.score = CaseScore(q, c)
Taken(items, kept) ==
  /\ IsList(items) /\ Len(items) <= CauseLimit /\ Len(items) <= Len(kept)
  /\ \A k \in DOMAIN items : k \in DOMAIN kept

LEMMA MappedIs ==
  ASSUME NEW S, NEW kept \in Seq(S), NEW f, f = [k \in DOMAIN kept |-> f[k]]
  PROVE  Taken(Cut(f, CauseLimit), kept) /\ \A k \in DOMAIN Cut(f, CauseLimit) : Cut(f, CauseLimit)[k] = f[k]
<1> DEFINE n == Len(kept)
           T == {f[k] : k \in 1..n}
<1>1. n \in Nat /\ DOMAIN kept = 1..n
  BY LenProperties
<1>2. f \in [1..n -> T] /\ CauseLimit \in Nat
  BY <1>1, CaseAssumption
<1> HIDE DEF n, T
<1>3. f \in Seq(T) /\ Len(f) = n
  BY <1>1, <1>2
<1>4. /\ Cut(f, CauseLimit) \in Seq(T) /\ Len(Cut(f, CauseLimit)) <= CauseLimit /\ Len(Cut(f, CauseLimit)) <= n
      /\ \A k \in DOMAIN Cut(f, CauseLimit) : k \in DOMAIN f /\ Cut(f, CauseLimit)[k] = f[k]
  BY <1>2, <1>3, CutIs
<1> QED BY <1>1, <1>2, <1>4, ListIs DEF Taken, n

LEMMA CausesAre ==
  ASSUME NEW docs, DocsType(docs)
  PROVE  /\ ItemsType(Causes(docs)) /\ Len(Causes(docs)) <= CauseLimit
         /\ \A k \in DOMAIN Causes(docs) : \E d \in ToSet(docs) : CauseOf(Causes(docs)[k], d)
<1> DEFINE K == {k \in DOMAIN docs : DocumentIssues(docs[k]) # {} /\ docs[k].aligned}
           kept == Picked(docs, K)
           f == [k \in DOMAIN kept |->
                   [issues |-> DocumentIssues(kept[k]), reliability |-> KnowledgeReliability(kept[k]),
                    score |-> kept[k].score]]
<1>1. Causes(docs) = Cut(f, CauseLimit)
  BY DEF Causes, Filtered, Picked, Sorted, InOrder
<1>2. IsList(docs) /\ K \in SUBSET (DOMAIN docs) /\ \A k \in DOMAIN docs : docs[k].score \in Int /\ docs[k] \in ToSet(docs)
  BY DEF DocsType, ToSet
<1> HIDE DEF K
<1>3. kept \in Seq(ToSet(docs)) /\ \A k \in DOMAIN kept : \E j \in K : kept[k] = docs[j]
  BY <1>2, PickedIs
<1>4. \A k \in DOMAIN kept : kept[k] \in ToSet(docs) /\ kept[k].score \in Int
  BY <1>2, <1>3
<1> HIDE DEF kept
<1>5. f = [k \in DOMAIN kept |-> f[k]]
  OBVIOUS
<1>6. \A k \in DOMAIN kept : CauseOf(f[k], kept[k])
  BY DEF CauseOf
<1> HIDE DEF f
<1>7. Taken(Cut(f, CauseLimit), kept) /\ \A k \in DOMAIN Cut(f, CauseLimit) : Cut(f, CauseLimit)[k] = f[k]
  <2>1. PICK S : kept \in Seq(S)
    BY <1>3
  <2> QED BY <1>5, <2>1, MappedIs
<1>8. \A k \in DOMAIN Causes(docs) : \E d \in ToSet(docs) : CauseOf(Causes(docs)[k], d) /\ d.score \in Int
  BY <1>1, <1>4, <1>6, <1>7 DEF Taken
<1>9. \A k \in DOMAIN Causes(docs) : Causes(docs)[k].score \in Int
  BY <1>8 DEF CauseOf
<1> QED BY <1>1, <1>7, <1>8, <1>9 DEF ItemsType, Taken

\* The cases of a search: each is found once, fits the question and is
\* documented if it is verified.
FoundType(q, found) ==
  /\ IsList(found)
  /\ \A m, n \in DOMAIN found : found[m].id = found[n].id => m = n
  /\ \A n \in DOMAIN found : /\ found[n].match \in Nat /\ CaseScore(q, found[n]) > 0
                             /\ found[n].verified => found[n].documented
                             /\ found[n].numbers \subseteq Int

LEMMA SimilarAre ==
  ASSUME NEW q, NEW found, FoundType(q, found)
  PROVE  /\ ItemsType(SimilarCases(q, found)) /\ Len(SimilarCases(q, found)) <= CauseLimit
         /\ Len(SimilarCases(q, found)) <= Len(found)
         /\ \A k \in DOMAIN SimilarCases(q, found) : \E c \in ToSet(found) : CaseOf(q, SimilarCases(q, found)[k], c)
<1> DEFINE K == {k \in DOMAIN found : Diagnostic(found[k].issue) # {}}
           kept == Picked(found, K)
           f == [k \in DOMAIN kept |->
                   [id |-> kept[k].id, issues |-> Diagnostic(kept[k].issue), cause |-> kept[k].cause,
                    reliability |-> CaseReliability(q, kept[k]), score |-> CaseScore(q, kept[k])]]
<1>1. SimilarCases(q, found) = Cut(f, CauseLimit)
  BY DEF SimilarCases, Filtered, Picked, Sorted, InOrder
<1>2. IsList(found) /\ K \in SUBSET (DOMAIN found)
      /\ \A k \in DOMAIN found : CaseScore(q, found[k]) \in Int /\ found[k] \in ToSet(found)
  BY ScoreType DEF FoundType, ToSet
<1> HIDE DEF K
<1>3. /\ kept \in Seq(ToSet(found)) /\ \A k \in DOMAIN kept : \E j \in K : kept[k] = found[j]
      /\ Len(kept) = Cardinality(K) /\ Cardinality(K) <= Len(found)
  BY <1>2, PickedIs
<1>4. \A k \in DOMAIN kept : kept[k] \in ToSet(found) /\ CaseScore(q, kept[k]) \in Int
  BY <1>2, <1>3
<1> HIDE DEF kept
<1>5. f = [k \in DOMAIN kept |-> f[k]]
  OBVIOUS
<1>6. \A k \in DOMAIN kept : CaseOf(q, f[k], kept[k])
  BY DEF CaseOf
<1> HIDE DEF f
<1>7. Taken(Cut(f, CauseLimit), kept) /\ \A k \in DOMAIN Cut(f, CauseLimit) : Cut(f, CauseLimit)[k] = f[k]
  <2>1. PICK S : kept \in Seq(S)
    BY <1>3
  <2> QED BY <1>5, <2>1, MappedIs
<1>8. \A k \in DOMAIN SimilarCases(q, found) :
        \E c \in ToSet(found) : CaseOf(q, SimilarCases(q, found)[k], c) /\ CaseScore(q, c) \in Int
  BY <1>1, <1>4, <1>6, <1>7 DEF Taken
<1>9. \A k \in DOMAIN SimilarCases(q, found) : SimilarCases(q, found)[k].score \in Int
  BY <1>8 DEF CaseOf
<1>10. Len(SimilarCases(q, found)) <= Len(found)
  <2>1. Len(SimilarCases(q, found)) <= Len(kept)
    BY <1>1, <1>7 DEF Taken
  <2>2. Len(SimilarCases(q, found)) \in Nat /\ Len(kept) \in Nat /\ Len(found) \in Nat
    <3>1. IsList(SimilarCases(q, found))
      BY <1>1, <1>7 DEF Taken
    <3> QED BY <1>3, <1>2, <3>1, LenProperties DEF IsList
  <2> QED BY <1>3, <2>1, <2>2
<1> QED BY <1>1, <1>7, <1>8, <1>9, <1>10 DEF ItemsType, Taken

\* The case search gives such cases, of a valid store.
LEMMA SearchFinds ==
  ASSUME NEW q, NEW store, StoreType(store)
  PROVE  FoundType(q, CasesAt(store, SelectRanked(q, store, Ranked(q, store))))
<1> DEFINE S == Scored(q, store)
           chosen == SelectRanked(q, store, Ranked(q, store))
           found == CasesAt(store, chosen)
<1>1. Ranked(q, store) \in Seq(S) /\ NoRepeat(Ranked(q, store))
  <2>1. CASE StoreValid(store)
    BY <2>1, RankedIs DEF Ranked
  <2>2. CASE ~StoreValid(store)
    BY <2>2 DEF Ranked, NoRepeat
  <2> QED BY <2>1, <2>2
<1>2. StoreValid(store) \/ Ranked(q, store) = << >>
  BY DEF Ranked
<1>3. chosen \in Seq(S) /\ NoRepeat(chosen)
  BY <1>1, SelectedIs
<1>4. Ranked(q, store) = << >> => chosen = << >>
  <2>1. SUFFICES ASSUME Ranked(q, store) = << >> PROVE chosen = << >>
    OBVIOUS
  <2>2. Cut(<< >>, CaseLimit) = << >>
    <3> DEFINE e == << >>
    <3>1. e \in Seq({}) /\ Len(e) = 0 /\ CaseLimit \in Nat
      BY CaseAssumption
    <3> HIDE DEF e
    <3>2. Cut(e, CaseLimit) \in Seq({}) /\ Len(Cut(e, CaseLimit)) <= 0
      BY <3>1, CutIs
    <3>3. Cut(e, CaseLimit) = << >>
      BY <3>2
    <3> QED BY <3>3 DEF e
  <2> QED BY <2>1, <2>2 DEF SelectRanked, WithVerified, Replaces
<1> HIDE DEF chosen, S
<1>5. /\ Len(chosen) \in Nat /\ DOMAIN chosen = 1..Len(chosen)
      /\ \A k \in DOMAIN chosen : chosen[k] \in S
  BY <1>3, LenProperties
<1>6. found = [k \in 1..Len(chosen) |-> store[chosen[k]]]
  BY <1>5 DEF CasesAt
<1>7. IsList(found)
  <2> DEFINE n == Len(chosen)
             T == {store[chosen[k]] : k \in 1..n}
  <2>1. n \in Nat /\ found \in [1..n -> T]
    BY <1>5, <1>6
  <2> HIDE DEF n, T, found
  <2>2. found \in Seq(T)
    BY <2>1
  <2> QED BY <2>2, ListIs
<1>8. \A k \in DOMAIN found : /\ k \in DOMAIN chosen /\ found[k] = store[chosen[k]]
                              /\ chosen[k] \in DOMAIN store /\ CaseScore(q, store[chosen[k]]) > 0
  BY <1>5, <1>6 DEF S, Scored
<1> HIDE DEF found
<1>9. \A k \in DOMAIN found : StoreValid(store)
  BY <1>2, <1>4, <1>8
<1>10. \A k \in DOMAIN found : /\ found[k].match \in Nat /\ CaseScore(q, found[k]) > 0
                               /\ found[k].verified => found[k].documented
                               /\ found[k].numbers \subseteq Int
  BY <1>8, <1>9 DEF StoreValid, StoreType
<1>11. ASSUME NEW m \in DOMAIN found, NEW n \in DOMAIN found, found[m].id = found[n].id PROVE m = n
  <2>1. store[chosen[m]].id = store[chosen[n]].id /\ StoreValid(store)
    BY <1>8, <1>9, <1>11
  <2>2. chosen[m] = chosen[n]
    BY <1>8, <2>1 DEF StoreValid
  <2> QED BY <1>3, <1>8, <2>2 DEF NoRepeat
<1> QED BY <1>7, <1>10, <1>11 DEF FoundType, found, chosen

\* The issues have places of their own.
LEMMA PlaceIs ==
  /\ IsFiniteSet(Issues)
  /\ \A i \in Issues : Place(i) \in Int
  /\ \A i, j \in Issues : Place(i) = Place(j) => i = j
<1> DEFINE n == Len(IssueOrder)
<1>1. n \in Nat /\ DOMAIN IssueOrder = 1..n
  BY IssueAssumption, LenProperties
<1>2. \A i \in Issues : \E k \in DOMAIN IssueOrder : IssueOrder[k] = i
  BY DEF Issues, ToSet
<1>3. \A i \in Issues : Place(i) \in DOMAIN IssueOrder /\ IssueOrder[Place(i)] = i
  BY <1>2 DEF Place
<1>4. IsFiniteSet(Issues)
  <2> DEFINE f == [k \in 1..n |-> IssueOrder[k]]
  <2>1. f \in Surjection(1..n, Issues)
    BY <1>1 DEF Surjection, Issues, ToSet
  <2>2. IsFiniteSet(1..n)
    BY <1>1, FS_Interval
  <2> QED BY <2>1, <2>2, FS_Surjection
<1> QED BY <1>1, <1>3, <1>4

LEMMA BothAre ==
  ASSUME NEW f, ItemsType(f), NEW g, ItemsType(g)
  PROVE  ItemsType(f \o g)
<1> DEFINE S == ToSet(f) \cup ToSet(g)
<1>1. f \in Seq(S) /\ g \in Seq(S)
  <2> DEFINE A == ToSet(f)
             B == ToSet(g)
  <2>1. f \in Seq(A) /\ g \in Seq(B)
    BY DEF ItemsType, IsList
  <2> HIDE DEF A, B
  <2>2. f \in Seq(A \cup B) /\ g \in Seq(A \cup B)
    BY <2>1
  <2> QED BY <2>2 DEF A, B
<1>2. \A x \in S : x.score \in Int
  BY DEF ItemsType, ToSet
<1> HIDE DEF S
<1>3. f \o g \in Seq(S)
  BY <1>1
<1>4. IsList(f \o g) /\ \A k \in DOMAIN (f \o g) : (f \o g)[k] \in S
  <2> DEFINE h == f \o g
  <2>1. h \in Seq(S)
    BY <1>3
  <2> HIDE DEF h
  <2>2. IsList(h) /\ \A k \in DOMAIN h : h[k] \in S
    BY <2>1, ListIs, LenProperties
  <2> QED BY <2>2 DEF h
<1> QED BY <1>2, <1>4 DEF ItemsType

\* _rank_candidates: one candidate of each issue, each before those it outranks.
CandidateOf(i, columns, causes, cases) ==
  Candidate(i, Marks[i] \cap columns # {}, Of(causes, i), Of(cases, i), Conflicts(cases))
Told(causes, cases) == {i \in Issues : Of(causes, i) # << >> \/ Of(cases, i) # << >>}

LEMMA CandidateType ==
  ASSUME NEW columns, NEW causes, ItemsType(causes), NEW cases, ItemsType(cases), NEW i
  PROVE  LET c == CandidateOf(i, columns, causes, cases)
         IN  c.issue = i /\ c.score \in Int /\ c.top \in Int
<1> DEFINE d == Of(causes, i)
           e == Of(cases, i)
           seen == Marks[i] \cap columns # {}
<1>1. ItemsType(d) /\ ItemsType(e)
  BY OfIs
<1> HIDE DEF d, e
<1>2. Total(d) \in Nat /\ Total(e) \in Nat /\ TopScore(d \o e) \in Int
  BY <1>1, TotalIs, TopIs, BothAre DEF ItemsType
<1>3. (IF seen THEN 2 ELSE 0) \in Int /\ (IF d # << >> /\ e # << >> THEN 4 ELSE 0) \in Int
  OBVIOUS
<1>4. CandidateOf(i, columns, causes, cases) = Candidate(i, seen, d, e, Conflicts(cases))
  BY DEF CandidateOf, d, e
<1> HIDE DEF seen
<1> QED BY <1>2, <1>3, <1>4 DEF Candidate

LEMMA RankingsAre ==
  ASSUME NEW columns, NEW causes, ItemsType(causes), NEW cases, ItemsType(cases)
  PROVE  /\ IsList(Rankings(columns, causes, cases))
         /\ \A k \in DOMAIN Rankings(columns, causes, cases) :
              \E i \in Issues : Rankings(columns, causes, cases)[k] = CandidateOf(i, columns, causes, cases)
         /\ \A k, n \in DOMAIN Rankings(columns, causes, cases) :
              k < n => Outranks(Rankings(columns, causes, cases)[k], Rankings(columns, causes, cases)[n])
<1> DEFINE S == {CandidateOf(i, columns, causes, cases) : i \in Told(causes, cases)}
           R == {p \in S \X S : Outranks(p[1], p[2])}
           f == Rankings(columns, causes, cases)
<1>1. \A x, y \in S : <<x, y>> \in R <=> Outranks(x, y)
  OBVIOUS
<1>2. \A i \in Issues : LET c == CandidateOf(i, columns, causes, cases)
                         IN  c.issue = i /\ c.score \in Int /\ c.top \in Int
  BY CandidateType
<1>3. IsFiniteSet(S)
  <2> DEFINE T == Told(causes, cases)
             g == [i \in T |-> CandidateOf(i, columns, causes, cases)]
  <2>1. IsFiniteSet(T)
    BY PlaceIs, FS_Subset DEF Told
  <2>2. g \in Surjection(T, S)
    BY DEF Surjection
  <2> QED BY <2>1, <2>2, FS_Surjection
<1>4. f = [k \in 1..Cardinality(S) |-> CHOOSE x \in S : Cardinality({y \in S : Outranks(y, x)}) = k - 1]
  BY DEF Rankings, InOrder, Told, CandidateOf
<1>5. \A x \in S : /\ x.issue \in Issues /\ x = CandidateOf(x.issue, columns, causes, cases)
                   /\ x.score \in Int /\ x.top \in Int /\ Place(x.issue) \in Int
  <2> TAKE x \in S
  <2>1. PICK i \in Told(causes, cases) : x = CandidateOf(i, columns, causes, cases)
    OBVIOUS
  <2>2. i \in Issues
    BY DEF Told
  <2> QED BY <2>1, <2>2, <1>2, PlaceIs
<1> HIDE DEF S, R, f
<1>6. TotalOn(S, R)
  <2>1. ASSUME NEW x \in S, NEW y \in S, NEW z \in S
        PROVE  /\ ~Outranks(x, x)
               /\ x # y => Outranks(x, y) \/ Outranks(y, x)
               /\ Outranks(x, y) /\ Outranks(y, z) => Outranks(x, z)
    <3>1. \A a \in {x, y, z} : a.score \in Int /\ a.top \in Int /\ Place(a.issue) \in Int
      BY <1>5
    <3>2. x # y => Place(x.issue) # Place(y.issue)
      BY <1>5, PlaceIs
    <3> QED BY <3>1, <3>2 DEF Outranks
  <2> QED BY <1>1, <2>1 DEF TotalOn
<1>7. \A x \in S : {y \in S : Outranks(y, x)} = Before1(S, R, x)
  BY <1>1 DEF Before1
<1>8. ASSUME NEW k \in 1..Cardinality(S), NEW w \in S, Cardinality(Before1(S, R, w)) = k - 1
      PROVE  f[k] \in S /\ Cardinality(Before1(S, R, f[k])) = k - 1
  <2>1. \E x \in S : Cardinality({y \in S : Outranks(y, x)}) = k - 1
    BY <1>7, <1>8
  <2>2. f[k] = CHOOSE x \in S : Cardinality({y \in S : Outranks(y, x)}) = k - 1
    BY <1>4
  <2>3. f[k] \in S /\ Cardinality({y \in S : Outranks(y, f[k])}) = k - 1
    BY <2>1, <2>2
  <2> QED BY <2>3, <1>7
<1>9. f = [k \in 1..Cardinality(S) |-> f[k]]
  <2> DEFINE e(k) == CHOOSE x \in S : Cardinality({y \in S : Outranks(y, x)}) = k - 1
  <2>1. f = [k \in 1..Cardinality(S) |-> e(k)]
    BY <1>4
  <2> HIDE DEF e
  <2> QED BY <2>1
<1>10. PlacedIn(f, S, R)
  BY <1>8, <1>9 DEF PlacedIn
<1>11. f \in Seq(S) /\ (\A k \in DOMAIN f : f[k] \in S) /\ \A k, n \in DOMAIN f : k < n => <<f[k], f[n]>> \in R
  BY <1>3, <1>6, <1>10, Ordered
<1>12. IsList(f)
  BY <1>11, ListIs
<1>13. \A k \in DOMAIN f : \E i \in Issues : f[k] = CandidateOf(i, columns, causes, cases)
  BY <1>5, <1>11
<1>14. \A k, n \in DOMAIN f : k < n => Outranks(f[k], f[n])
  BY <1>1, <1>11
<1> QED BY <1>12, <1>13, <1>14 DEF f

-----------------------------------------------------------------------------
(* The diagnosis *)

\* A diagnosis is drawn when rows and documents are there: the one that is kept
\* is that of the rows, the documents and the cases that are kept.
DiagnosisInv ==
  /\ DocsType(evidence.docs) /\ FoundType(request.q, evidence.cases)
  /\ {"text2sql", "rag"} \cap todo # {} => evidence.synthesis = Absent
  /\ evidence.synthesis # Absent =>
       evidence.synthesis = Synthesis(Columns, Causes(evidence.docs), SimilarCases(request.q, evidence.cases))

LEMMA InitDiagnosis == Init => DiagnosisInv
<1>1. IsList(<< >>)
  <2> DEFINE e == << >>
  <2>1. e \in Seq({})
    OBVIOUS
  <2> HIDE DEF e
  <2>2. IsList(e)
    BY <2>1, ListIs
  <2> QED BY <2>2 DEF e
<1> QED BY <1>1 DEF Init, DiagnosisInv, NoEvidence, DocsType, FoundType

LEMMA AfterSearch ==
  ASSUME Turn("case_search")
  PROVE  {"text2sql", "rag"} \cap todo = {}
<1>1. Order[1] = "text2sql" /\ Order[2] = "rag" /\ {1, 2} \subseteq DOMAIN Order
  BY DEF Order
<1>2. 3 \in DOMAIN Order /\ Order[3] = "case_search" /\ 1 < 3 /\ 2 < 3
  BY DEF Order
<1> QED BY <1>1, <1>2 DEF Turn

\* A step that leaves what a diagnosis is drawn from alone.
LEMMA DiagnosisKept ==
  ASSUME DiagnosisInv, request' = request, todo' \subseteq todo,
         UNCHANGED <<evidence.cells, evidence.docs, evidence.cases, evidence.synthesis>>
  PROVE  DiagnosisInv'
<1>1. Columns' = Columns
  BY DEF Columns
<1> QED BY <1>1 DEF DiagnosisInv

LEMMA StepDiagnosis == EvidenceInv /\ DiagnosisInv /\ [Next]_vars => DiagnosisInv'
<1> SUFFICES ASSUME EvidenceInv, DiagnosisInv, [Next]_vars PROVE DiagnosisInv'
  OBVIOUS
<1>0. DOMAIN evidence = Fields /\ request \in Questions
  BY DEF EvidenceInv
<1>1. CASE RunText2Sql
  <2>1. "text2sql" \in todo /\ evidence.synthesis = Absent
    BY <1>1 DEF RunText2Sql, Turn, DiagnosisInv
  <2>2. PICK result \in Results(request) :
          /\ evidence' = [evidence EXCEPT !.sql = result.sql, !.cells = result.cells,
               !.summary = result.summary, !.compared = result.compared, !.limited = result.limited, !.unavailable = result.unavailable, !.master = result.master,
               !.limitations = @ \/ result.sql = "failed" \/ result.unavailable # {}]
          /\ request' = request
    BY <1>1 DEF RunText2Sql
  <2>3. UNCHANGED <<evidence.docs, evidence.cases, evidence.synthesis>>
    BY <2>2, <1>0 DEF Fields, NoEvidence
  <2> QED BY <2>1, <2>2, <2>3 DEF DiagnosisInv
<1>2. CASE RunRag
  <2>1. "rag" \in todo /\ evidence.synthesis = Absent
    BY <1>2 DEF RunRag, Turn, DiagnosisInv
  <2>2. PICK found \in Retrieved(request) :
          /\ evidence' = [evidence EXCEPT !.docs = found.docs, !.sources = found.sources, !.bases = found.bases,
               !.topics = @ \cup found.topics, !.noted = @ \cup found.numbers,
               !.limitations = \/ @ \/ found.sources = {}
                               \/ \E d \in ToSet(found.docs) : d.simulated
                               \/ request.kind = "diagnosis" /\ "incident_playbook" \in found.bases]
          /\ request' = request
    BY <1>2 DEF RunRag
  <2>3. UNCHANGED <<evidence.cases, evidence.synthesis>> /\ evidence'.docs = found.docs
    BY <2>2, <1>0 DEF Fields, NoEvidence
  <2>4. DocsType(found.docs)
    BY <1>0, InputAssumption
  <2> QED BY <2>1, <2>2, <2>3, <2>4 DEF DiagnosisInv
<1>3. CASE RunCaseSearch
  <2>1. {"text2sql", "rag"} \cap todo = {} /\ todo' \subseteq todo /\ request' = request
    BY <1>3, AfterSearch DEF RunCaseSearch
  <2> DEFINE q == request.q
  <2>2. PICK store \in Stores(request) :
          LET found == CasesAt(store, SelectRanked(q, store, Ranked(q, store)))
          IN  evidence' = [evidence EXCEPT
                !.cases = found,
                !.synthesis = Synthesis(Columns, Causes(evidence.docs), SimilarCases(q, found)),
                !.topics = @ \cup {c.issue : c \in ToSet(found)},
                !.noted = @ \cup UNION {c.numbers : c \in ToSet(found)},
                !.limitations = @ \/ found = << >>]
    BY <1>3 DEF RunCaseSearch
  <2> DEFINE found == CasesAt(store, SelectRanked(q, store, Ranked(q, store)))
  <2>3. FoundType(q, found)
    BY <1>0, InputAssumption, SearchFinds
  <2> HIDE DEF found
  <2> DEFINE s == Synthesis(Columns, Causes(evidence.docs), SimilarCases(q, found))
  <2> HIDE DEF s
  <2>4. /\ evidence'.cases = found /\ evidence'.synthesis = s
        /\ evidence'.docs = evidence.docs /\ evidence'.cells = evidence.cells
    BY <2>2, <1>0 DEF Fields, NoEvidence, s, found
  <2>5. Columns' = Columns
    BY <2>4 DEF Columns
  <2>6. evidence'.synthesis = Synthesis(Columns', Causes(evidence'.docs), SimilarCases(request'.q, evidence'.cases))
    BY <2>1, <2>4, <2>5 DEF s
  <2> HIDE DEF q
  <2>7. FoundType(request'.q, evidence'.cases) /\ DocsType(evidence'.docs)
    BY <2>1, <2>3, <2>4 DEF q, DiagnosisInv
  <2> QED BY <2>1, <2>6, <2>7 DEF DiagnosisInv
<1>4. CASE RunImpact
  <2>1. /\ request' = request /\ todo' \subseteq todo
        /\ UNCHANGED <<evidence.cells, evidence.docs, evidence.cases, evidence.synthesis>>
    BY <1>0, <1>4 DEF RunImpact, Fields, NoEvidence
  <2> QED BY <2>1, DiagnosisKept
<1>5. CASE RunVisualization
  <2>1. /\ request' = request /\ todo' \subseteq todo
        /\ UNCHANGED <<evidence.cells, evidence.docs, evidence.cases, evidence.synthesis>>
    BY <1>0, <1>5 DEF RunVisualization, Fields, NoEvidence
  <2> QED BY <2>1, DiagnosisKept
<1>6. ASSUME UNCHANGED <<request, evidence, todo>> PROVE DiagnosisInv'
  BY <1>6, DiagnosisKept
<1>7. CASE Compose \/ ReviewAgain \/ StartGrounded \/ Generate \/ Judge \/ ModelFails \/ UNCHANGED vars
  BY <1>6, <1>7 DEF Compose, ReviewAgain, StartGrounded, Generate, Judge, ModelFails, vars
<1>8. CASE ApproveAnswer \/ CorrectAnswer \/ Withhold
  BY <1>6, <1>8 DEF ApproveAnswer, CorrectAnswer, Withhold, Show
<1> QED BY <1>1, <1>2, <1>3, <1>4, <1>5, <1>7, <1>8 DEF Next

\* The numbers that come with the rows, the documents and the cases.
NotedInv == evidence.summary \subseteq Int /\ evidence.compared \subseteq Int /\ evidence.noted \subseteq Int

LEMMA InitNoted == Init => NotedInv
BY DEF Init, NotedInv, NoEvidence

LEMMA StepNoted == EvidenceInv /\ NotedInv /\ [Next]_vars => NotedInv'
<1> SUFFICES ASSUME EvidenceInv, NotedInv, [Next]_vars PROVE NotedInv'
  OBVIOUS
<1> USE DEF NotedInv
<1>0. DOMAIN evidence = Fields /\ request \in Questions
  BY DEF EvidenceInv
<1>1. CASE RunText2Sql
  <2>1. PICK result \in Results(request) :
          evidence' = [evidence EXCEPT !.sql = result.sql, !.cells = result.cells,
               !.summary = result.summary, !.compared = result.compared, !.limited = result.limited,
               !.unavailable = result.unavailable, !.master = result.master,
               !.limitations = @ \/ result.sql = "failed" \/ result.unavailable # {}]
    BY <1>1 DEF RunText2Sql
  <2>2. evidence'.summary = result.summary /\ evidence'.compared = result.compared /\ evidence'.noted = evidence.noted
    BY <1>0, <2>1 DEF Fields, NoEvidence
  <2>3. result.summary \subseteq Int /\ result.compared \subseteq Int
    BY <1>0, InputAssumption
  <2> QED BY <2>2, <2>3
<1>2. CASE RunRag
  <2>1. PICK found \in Retrieved(request) :
          evidence' = [evidence EXCEPT !.docs = found.docs, !.sources = found.sources, !.bases = found.bases,
               !.topics = @ \cup found.topics, !.noted = @ \cup found.numbers,
               !.limitations = \/ @ \/ found.sources = {}
                               \/ \E d \in ToSet(found.docs) : d.simulated
                               \/ request.kind = "diagnosis" /\ "incident_playbook" \in found.bases]
    BY <1>2 DEF RunRag
  <2>2. /\ UNCHANGED <<evidence.summary, evidence.compared>>
        /\ evidence'.noted = evidence.noted \cup found.numbers
    BY <1>0, <2>1 DEF Fields, NoEvidence
  <2>3. found.numbers \subseteq Int
    BY <1>0, InputAssumption
  <2> QED BY <2>2, <2>3
<1>3. CASE RunCaseSearch
  <2> DEFINE q == request.q
  <2>1. PICK store \in Stores(request) :
          LET found == CasesAt(store, SelectRanked(q, store, Ranked(q, store)))
          IN  evidence' = [evidence EXCEPT
                !.cases = found,
                !.synthesis = Synthesis(Columns, Causes(evidence.docs), SimilarCases(q, found)),
                !.topics = @ \cup {c.issue : c \in ToSet(found)},
                !.noted = @ \cup UNION {c.numbers : c \in ToSet(found)},
                !.limitations = @ \/ found = << >>]
    BY <1>3 DEF RunCaseSearch
  <2> DEFINE found == CasesAt(store, SelectRanked(q, store, Ranked(q, store)))
  <2>2. FoundType(q, found)
    BY <1>0, InputAssumption, SearchFinds
  <2> HIDE DEF found
  <2> DEFINE numbers == UNION {c.numbers : c \in ToSet(found)}
  <2>3. numbers \subseteq Int
    <3>1. \A c \in ToSet(found) : c.numbers \subseteq Int
      BY <2>2 DEF FoundType, ToSet
    <3> QED BY <3>1
  <2> HIDE DEF numbers
  <2>4. /\ UNCHANGED <<evidence.summary, evidence.compared>>
        /\ evidence'.noted = evidence.noted \cup numbers
    BY <1>0, <2>1 DEF Fields, NoEvidence, found, numbers
  <2> QED BY <2>3, <2>4
<1>4. CASE RunImpact \/ RunVisualization
  BY <1>0, <1>4 DEF RunImpact, RunVisualization, Fields, NoEvidence
<1>5. CASE Compose \/ ReviewAgain \/ StartGrounded \/ Generate \/ Judge \/ ModelFails \/ UNCHANGED vars
  BY <1>5 DEF Compose, ReviewAgain, StartGrounded, Generate, Judge, ModelFails, vars
<1>6. CASE ApproveAnswer \/ CorrectAnswer \/ Withhold
  BY <1>6 DEF ApproveAnswer, CorrectAnswer, Withhold, Show
<1> QED BY <1>1, <1>2, <1>3, <1>4, <1>5, <1>6 DEF Next

\* What a candidate rests on, of its documents and its cases.
LEMMA CaseTold ==
  ASSUME NEW q, NEW found, FoundType(q, found), NEW x \in ToSet(SimilarCases(q, found))
  PROVE  \E c \in ToSet(found) : CaseOf(q, x, c) /\ (c.verified => c.documented) /\ CaseScore(q, c) > 0
<1>1. PICK k \in DOMAIN SimilarCases(q, found) : x = SimilarCases(q, found)[k]
  BY DEF ToSet
<1>2. PICK c \in ToSet(found) : CaseOf(q, x, c)
  BY <1>1, SimilarAre
<1>3. PICK n \in DOMAIN found : c = found[n]
  BY DEF ToSet
<1> QED BY <1>2, <1>3 DEF FoundType

\* A case of the question's time is not a historical one.
LEMMA TimelyIs ==
  ASSUME NEW q, NEW c
  PROVE  /\ CaseReliability(q, c) = "verified_analogy" =>
              c.verified /\ (q.days = {} \/ c.day = None \/ c.day \in q.days)
         /\ c.verified /\ (q.days = {} \/ c.day = None \/ c.day \in q.days) =>
              CaseReliability(q, c) = "verified_analogy"
         /\ ~c.verified => CaseReliability(q, c) = "simulation_only"
BY DEF CaseReliability, TemporalAlignment

\* A strong candidate is of a document and of a verified case of the time.
LEMMA StrongIsEarned ==
  ASSUME DiagnosisInv, evidence.synthesis # Absent, NEW k \in DOMAIN evidence.synthesis.rankings,
         evidence.synthesis.rankings[k].level = "strong_candidate"
  PROVE  LET at == evidence.synthesis.rankings[k]
         IN  Earned(at.issue) /\ "document" \in at.sources /\ at.issue \notin evidence.synthesis.conflicts
<1> DEFINE q == request.q
           found == evidence.cases
           causes == Causes(evidence.docs)
           cases == SimilarCases(q, found)
           at == evidence.synthesis.rankings[k]
<1>1. /\ evidence.synthesis.rankings = Rankings(Columns, causes, cases)
      /\ evidence.synthesis.cases = cases /\ evidence.synthesis.conflicts = Conflicts(cases)
  BY DEF DiagnosisInv, Synthesis
<1>2. FoundType(q, found) /\ ItemsType(causes) /\ ItemsType(cases)
  BY CausesAre, SimilarAre DEF DiagnosisInv
<1> HIDE DEF causes, cases
<1>3. PICK i \in Issues : at = CandidateOf(i, Columns, causes, cases)
  <2> DEFINE columns == Columns
             rankings == Rankings(columns, causes, cases)
  <2>1. k \in DOMAIN rankings /\ at = rankings[k]
    BY <1>1
  <2> HIDE DEF columns, at
  <2>2. \A n \in DOMAIN rankings : \E i \in Issues : rankings[n] = CandidateOf(i, columns, causes, cases)
    BY <1>2, RankingsAre
  <2> QED BY <2>1, <2>2 DEF columns
<1> DEFINE d == Of(causes, i)
           e == Of(cases, i)
           seen == Marks[i] \cap Columns # {}
<1>4. /\ at.issue = i /\ at.level = Level(i, seen, d, e, Conflicts(cases))
      /\ at.sources = (IF d # << >> THEN {"document"} ELSE {}) \cup (IF e # << >> THEN {"case"} ELSE {})
  BY <1>3 DEF CandidateOf, Candidate
<1> HIDE DEF seen
<1>5. i \notin Conflicts(cases) /\ d # << >> /\ \E c \in ToSet(e) : c.reliability = "verified_analogy"
  BY <1>4 DEF Level
<1>6. PICK x \in ToSet(cases) : x.reliability = "verified_analogy" /\ i \in x.issues
  <2>1. PICK m \in DOMAIN e : e[m].reliability = "verified_analogy"
    BY <1>5 DEF ToSet
  <2>2. PICK j \in About(cases, i) : e[m] = cases[j]
    BY <1>2, <2>1, OfIs
  <2>3. j \in DOMAIN cases /\ i \in cases[j].issues
    BY DEF About
  <2> QED BY <2>1, <2>2, <2>3 DEF ToSet
<1>7. PICK c \in ToSet(found) : CaseOf(q, x, c) /\ (c.verified => c.documented) /\ CaseScore(q, c) > 0
  BY <1>2, CaseTold DEF cases
<1>8. FitVerified(c)
  <2>1. c.verified /\ (q.days = {} \/ c.day = None \/ c.day \in q.days)
    BY <1>6, <1>7, TimelyIs DEF CaseOf
  <2>2. TargetMatches(q, c)
    BY <1>7 DEF CaseScore, AboutOther
  <2> QED BY <1>7, <2>1, <2>2 DEF FitVerified, TargetMatches
<1>9. DrawnFrom(c) /\ i \in Diagnostic(c.issue)
  BY <1>1, <1>6, <1>7 DEF DrawnFrom, CaseOf
<1>10. Earned(i)
  BY <1>8, <1>9 DEF Earned
<1> QED BY <1>1, <1>4, <1>5, <1>10

\* The score of a candidate that is simulated through and through, when one of
\* at most three cases tells of something else.
LEMMA SimulatedScore ==
  ASSUME NEW causes, ItemsType(causes), Len(causes) <= CauseLimit,
         NEW cases, ItemsType(cases), Len(cases) <= CauseLimit, NEW i, NEW columns,
         \A m \in DOMAIN causes : i \in causes[m].issues => causes[m].reliability = "simulation_reference",
         \A m \in DOMAIN cases : i \in cases[m].issues => cases[m].reliability = "simulation_only",
         NEW other \in DOMAIN cases, i \notin cases[other].issues
  PROVE  CandidateOf(i, columns, causes, cases).score <= 11
<1> DEFINE d == Of(causes, i)
           e == Of(cases, i)
           seen == Marks[i] \cap columns # {}
           D == About(causes, i)
           E == About(cases, i)
<1>1. /\ ItemsType(d) /\ Len(d) = Cardinality(D) /\ Cardinality(D) \in Nat /\ Cardinality(D) <= Len(causes)
      /\ \A k \in DOMAIN d : \E m \in D : d[k] = causes[m]
  BY OfIs
<1>2. /\ ItemsType(e) /\ Len(e) = Cardinality(E) /\ Cardinality(E) \in Nat /\ Cardinality(E) <= Len(cases)
      /\ \A k \in DOMAIN e : \E m \in E : e[k] = cases[m]
  BY OfIs
<1>3. \A k \in DOMAIN d : Weight(d[k].reliability) = 1
  BY <1>1 DEF Weight, About
<1>4. \A k \in DOMAIN e : Weight(e[k].reliability) = 1
  BY <1>2 DEF Weight, About
<1>5. Len(causes) \in Nat /\ Len(cases) \in Nat /\ DOMAIN cases = 1..Len(cases) /\ CauseLimit \in 1..3
  BY LenProperties, CaseAssumption DEF ItemsType, IsList
<1>6. Cardinality(E) <= Len(cases) - 1
  <2> DEFINE P == 1..Len(cases)
             l == Len(cases)
  <2>1. E \subseteq P \ {other} /\ other \in P
    BY <1>5 DEF About
  <2>2. IsFiniteSet(P) /\ Cardinality(P) = Len(cases)
    <3>1. l \in Nat
      BY <1>5
    <3> HIDE DEF l
    <3>2. IsFiniteSet(1..l) /\ Cardinality(1..l) = l
      BY <3>1, FS_Interval
    <3> QED BY <3>2 DEF l
  <2> HIDE DEF P, E
  <2>3. IsFiniteSet(P \ {other}) /\ Cardinality(P \ {other}) = Cardinality(P) - 1
    BY <2>1, <2>2, FS_RemoveElement
  <2> QED BY <2>1, <2>2, <2>3, FS_Subset
<1> HIDE DEF d, e, D, E, seen
<1>7. Total(d) \in Nat /\ Total(d) <= Len(d) /\ Total(e) \in Nat /\ Total(e) <= Len(e)
  BY <1>1, <1>2, <1>3, <1>4, TotalIs DEF ItemsType
<1>8. Total(d) <= 3 /\ Total(e) <= 2
  BY <1>1, <1>2, <1>5, <1>6, <1>7
<1>9. CandidateOf(i, columns, causes, cases) = Candidate(i, seen, d, e, Conflicts(cases))
  BY DEF CandidateOf, d, e, seen
<1>10. CandidateOf(i, columns, causes, cases).score =
         Total(d) + Total(e) + (IF seen THEN 2 ELSE 0) + (IF d # << >> /\ e # << >> THEN 4 ELSE 0)
  BY <1>9 DEF Candidate
<1>11. (IF seen THEN 2 ELSE 0) \in 0..2 /\ (IF d # << >> /\ e # << >> THEN 4 ELSE 0) \in 0..4
  OBVIOUS
<1> QED BY <1>7, <1>8, <1>10, <1>11

\* The score of one with a verified case of the time.
LEMMA VerifiedScore ==
  ASSUME NEW causes, ItemsType(causes), NEW cases, ItemsType(cases), NEW i, NEW columns,
         NEW one \in DOMAIN cases, i \in cases[one].issues, cases[one].reliability = "verified_analogy"
  PROVE  CandidateOf(i, columns, causes, cases).score >= 12
<1> DEFINE d == Of(causes, i)
           e == Of(cases, i)
           seen == Marks[i] \cap columns # {}
<1>1. ItemsType(d) /\ ItemsType(e)
  BY OfIs
<1>2. PICK k \in DOMAIN e : e[k] = cases[one]
  <2>1. one \in About(cases, i)
    BY DEF About
  <2> QED BY <2>1, OfIs
<1> HIDE DEF d, e, seen
<1>3. Total(d) \in Nat /\ Total(e) \in Nat /\ Total(e) >= Weight(e[k].reliability)
  BY <1>1, <1>2, TotalIs DEF ItemsType
<1>4. Weight(e[k].reliability) = 12
  BY <1>2 DEF Weight
<1>5. CandidateOf(i, columns, causes, cases) = Candidate(i, seen, d, e, Conflicts(cases))
  BY DEF CandidateOf, d, e, seen
<1>6. CandidateOf(i, columns, causes, cases).score =
        Total(d) + Total(e) + (IF seen THEN 2 ELSE 0) + (IF d # << >> /\ e # << >> THEN 4 ELSE 0)
  BY <1>5 DEF Candidate
<1>7. (IF seen THEN 2 ELSE 0) \in 0..2 /\ (IF d # << >> /\ e # << >> THEN 4 ELSE 0) \in 0..4
  OBVIOUS
<1> QED BY <1>3, <1>4, <1>6, <1>7

LEMMA SimulatedAfter ==
  ASSUME DiagnosisInv, evidence.synthesis # Absent,
         NEW k \in DOMAIN evidence.synthesis.rankings, NEW n \in DOMAIN evidence.synthesis.rankings, k < n,
         OnlySimulated(evidence.synthesis.rankings[k].issue), Earned(evidence.synthesis.rankings[n].issue)
  PROVE  FALSE
<1> DEFINE q == request.q
           found == evidence.cases
           docs == evidence.docs
           columns == Columns
           causes == Causes(docs)
           cases == SimilarCases(q, found)
           rankings == Rankings(columns, causes, cases)
<1>1. evidence.synthesis.rankings = rankings /\ evidence.synthesis.cases = cases
  BY DEF DiagnosisInv, Synthesis
<1>2. /\ FoundType(q, found) /\ ItemsType(causes) /\ ItemsType(cases)
      /\ Len(causes) <= CauseLimit /\ Len(cases) <= CauseLimit
      /\ \A m \in DOMAIN causes : \E d \in ToSet(docs) : CauseOf(causes[m], d)
  BY CausesAre, SimilarAre DEF DiagnosisInv
<1>3. \A x \in ToSet(cases) : \E c \in ToSet(found) : CaseOf(q, x, c)
  BY <1>2, CaseTold
<1> HIDE DEF causes, cases, columns, rankings
<1>4. /\ k \in DOMAIN rankings /\ n \in DOMAIN rankings
      /\ \A m \in DOMAIN rankings : \E i \in Issues : rankings[m] = CandidateOf(i, columns, causes, cases)
      /\ Outranks(rankings[k], rankings[n])
  <2>1. k \in DOMAIN rankings /\ n \in DOMAIN rankings
    BY <1>1
  <2>2. /\ \A m \in DOMAIN rankings : \E i \in Issues : rankings[m] = CandidateOf(i, columns, causes, cases)
        /\ \A m, l \in DOMAIN rankings : m < l => Outranks(rankings[m], rankings[l])
    BY <1>2, RankingsAre DEF rankings
  <2> QED BY <2>1, <2>2
<1>5. PICK i \in Issues, j \in Issues : rankings[k] = CandidateOf(i, columns, causes, cases)
                                       /\ rankings[n] = CandidateOf(j, columns, causes, cases)
  BY <1>4
<1>6. rankings[k].issue = i /\ rankings[n].issue = j
  BY <1>5 DEF CandidateOf, Candidate
<1>7. PICK c \in ToSet(found) : FitVerified(c) /\ j \in Diagnostic(c.issue) /\ DrawnFrom(c)
  BY <1>1, <1>6 DEF Earned
<1>8. PICK one \in DOMAIN cases : cases[one].id = c.id
  BY <1>1, <1>7 DEF DrawnFrom, ToSet
<1>9. CaseOf(q, cases[one], c)
  <2>1. PICK other \in ToSet(found) : CaseOf(q, cases[one], other)
    BY <1>3 DEF ToSet
  <2>2. other.id = c.id
    BY <1>8, <2>1 DEF CaseOf
  <2>3. \A a, b \in ToSet(found) : a.id = b.id => a = b
    BY <1>2 DEF FoundType, ToSet
  <2> QED BY <2>1, <2>2, <2>3
<1>10. cases[one].reliability = "verified_analogy" /\ j \in cases[one].issues
  BY <1>7, <1>9, TimelyIs DEF CaseOf, FitVerified
<1>11. \A a \in ToSet(found) : i \in Diagnostic(a.issue) => ~a.verified
  BY <1>1, <1>6 DEF OnlySimulated
<1>12. i \notin cases[one].issues
  BY <1>7, <1>9, <1>11 DEF CaseOf, FitVerified
<1>13. \A m \in DOMAIN cases : i \in cases[m].issues => cases[m].reliability = "simulation_only"
  <2> SUFFICES ASSUME NEW m \in DOMAIN cases, i \in cases[m].issues PROVE cases[m].reliability = "simulation_only"
    OBVIOUS
  <2>1. PICK a \in ToSet(found) : CaseOf(q, cases[m], a)
    BY <1>3 DEF ToSet
  <2> QED BY <2>1, <1>11, TimelyIs DEF CaseOf
<1>14. \A m \in DOMAIN causes : i \in causes[m].issues => causes[m].reliability = "simulation_reference"
  <2> SUFFICES ASSUME NEW m \in DOMAIN causes, i \in causes[m].issues PROVE causes[m].reliability = "simulation_reference"
    OBVIOUS
  <2>1. PICK d \in ToSet(docs) : CauseOf(causes[m], d)
    BY <1>2
  <2>2. i \in DocumentIssues(d) => d.simulated
    BY <1>1, <1>6 DEF OnlySimulated
  <2> QED BY <2>1, <2>2 DEF CauseOf, KnowledgeReliability
<1>15. rankings[k].score <= 11
  BY <1>2, <1>5, <1>12, <1>13, <1>14, SimulatedScore
<1>16. rankings[n].score >= 12
  BY <1>2, <1>5, <1>10, VerifiedScore
<1>17. rankings[k].score \in Int /\ rankings[n].score \in Int
  BY <1>2, <1>5, CandidateType
<1>18. rankings[k].score > rankings[n].score \/ rankings[k].score = rankings[n].score
  BY <1>4 DEF Outranks
<1> QED BY <1>15, <1>16, <1>17, <1>18

\* synthesize_diagnosis: whatever the rows, the documents and the cases are, a
\* strong candidate is earned, and no simulated one is ranked before an earned
\* one.
THEOREM CandidatesAreEarned == Spec => []CandidatesEarned
<1>1. DiagnosisInv => CandidatesEarned
  <2> SUFFICES ASSUME DiagnosisInv, evidence.synthesis # Absent, NEW k \in DOMAIN evidence.synthesis.rankings
               PROVE  LET at == evidence.synthesis.rankings[k]
                      IN  /\ at.level = "strong_candidate" =>
                               Earned(at.issue) /\ "document" \in at.sources
                               /\ at.issue \notin evidence.synthesis.conflicts
                          /\ OnlySimulated(at.issue) =>
                               \A n \in (k + 1)..Len(evidence.synthesis.rankings) :
                                 ~Earned(evidence.synthesis.rankings[n].issue)
    BY DEF CandidatesEarned
  <2>1. IsList(evidence.synthesis.rankings)
    <3>1. evidence.synthesis.rankings =
            Rankings(Columns, Causes(evidence.docs), SimilarCases(request.q, evidence.cases))
      BY DEF DiagnosisInv, Synthesis
    <3> QED BY <3>1, CausesAre, SimilarAre, RankingsAre DEF DiagnosisInv
  <2>2. \A n \in (k + 1)..Len(evidence.synthesis.rankings) : n \in DOMAIN evidence.synthesis.rankings /\ k < n
    <3> DEFINE f == evidence.synthesis.rankings
    <3> HIDE DEF f
    <3>1. DOMAIN f = 1..Len(f) /\ Len(f) \in Nat
      BY <2>1, LenProperties DEF IsList, f
    <3>2. k \in DOMAIN f
      BY DEF f
    <3>3. \A n \in (k + 1)..Len(f) : n \in DOMAIN f /\ k < n
      BY <3>1, <3>2
    <3> QED BY <3>3 DEF f
  <2> QED BY <2>2, StrongIsEarned, SimulatedAfter
<1>2. EvidenceInv /\ DiagnosisInv /\ [Next]_vars => EvidenceInv' /\ DiagnosisInv'
  BY StepEvidence, StepDiagnosis
<1> QED BY <1>1, <1>2, InitEvidence, InitDiagnosis, PTL DEF Spec

-----------------------------------------------------------------------------
(* The numbers of the evidence *)

\* The rows of a chart.
RowsType(rows) == IsFiniteSet(rows) /\ \A r \in rows : r.value \in Int /\ r.at \in Int

LEMMA ChartRowsAre ==
  ASSUME NEW cells, CellsType(cells)
  PROVE  RowsType({[at |-> c.at, series |-> <<c.target, c.metric>>, value |-> c.value] : c \in cells})
<1> DEFINE row == [c \in cells |-> [at |-> c.at, series |-> <<c.target, c.metric>>, value |-> c.value]]
           rows == {[at |-> c.at, series |-> <<c.target, c.metric>>, value |-> c.value] : c \in cells}
<1>1. row \in Surjection(cells, rows)
  BY DEF Surjection
<1>2. IsFiniteSet(rows)
  BY <1>1, FS_Surjection DEF CellsType
<1> QED BY <1>2 DEF RowsType, CellsType

\* _fill_zero_rows keeps one value in a place.
LEMMA FilledIs ==
  ASSUME NEW rows, RowsType(rows), UniqueKeys(rows), NEW expected \in SUBSET Int, IsFiniteSet(expected)
  PROVE  /\ IsFiniteSet(Filled(rows, expected))
         /\ RowsType(rows \cup Filled(rows, expected)) /\ UniqueKeys(rows \cup Filled(rows, expected))
<1> DEFINE F == Filled(rows, expected)
           T == expected \X SeriesOf(rows)
           key == [r \in F |-> <<r.at, r.series>>]
<1>1. \A r \in F : /\ r = [at |-> r.at, series |-> r.series, value |-> 0]
                   /\ r.at \in expected /\ r.series \in SeriesOf(rows) /\ r.value = 0
                   /\ \A s \in rows : s.at # r.at \/ s.series # r.series
  BY DEF Filled
<1> HIDE DEF F
<1>2. IsFiniteSet(SeriesOf(rows))
  <2> DEFINE g == [r \in rows |-> r.series]
  <2>1. g \in Surjection(rows, SeriesOf(rows))
    BY DEF Surjection, SeriesOf
  <2> QED BY <2>1, FS_Surjection DEF RowsType
<1>3. IsFiniteSet(T)
  BY <1>2, FS_Product
<1>4. key \in Injection(F, T)
  <2>1. key \in [F -> T]
    BY <1>1
  <2>2. \A r, s \in F : key[r] = key[s] => r = s
    <3> SUFFICES ASSUME NEW r \in F, NEW s \in F, r.at = s.at, r.series = s.series PROVE r = s
      OBVIOUS
    <3> QED BY <1>1
  <2> HIDE DEF key, T
  <2> QED BY <2>1, <2>2 DEF Injection, IsInjective
<1>5. IsFiniteSet(F)
  BY <1>3, <1>4, FS_Injection
<1>6. IsFiniteSet(rows \cup F)
  BY <1>5, FS_Union DEF RowsType
<1>7. \A r \in F : r.value \in Int /\ r.at \in Int
  BY <1>1
<1>8. UniqueKeys(rows \cup F)
  <2> SUFFICES ASSUME NEW r \in rows \cup F, NEW s \in rows \cup F, r.at = s.at, r.series = s.series PROVE r = s
    BY DEF UniqueKeys
  <2>1. CASE r \in rows /\ s \in rows
    BY <2>1 DEF UniqueKeys
  <2>2. CASE r \in F /\ s \in F
    BY <1>1, <2>2
  <2>3. CASE (r \in F /\ s \in rows) \/ (r \in rows /\ s \in F)
    BY <1>1, <2>3
  <2> QED BY <2>1, <2>2, <2>3
<1> QED BY <1>5, <1>6, <1>7, <1>8 DEF RowsType, F

\* The points of a series in the order of time.
LEMMA InTimeIs ==
  ASSUME NEW P, RowsType(P), \A p, r \in P : p.at = r.at => p = r
  PROVE  InTime(P) \in Seq(P) /\ Len(InTime(P)) = Cardinality(P)
<1> DEFINE R == {x \in P \X P : x[1].at < x[2].at}
           f == InTime(P)
<1>1. \A x, y \in P : <<x, y>> \in R <=> x.at < y.at
  OBVIOUS
<1>2. IsFiniteSet(P) /\ \A x \in P : x.at \in Int
  BY DEF RowsType
<1>3. f = [k \in 1..Cardinality(P) |-> CHOOSE x \in P : Cardinality({y \in P : y.at < x.at}) = k - 1]
  BY DEF InTime, InOrder
<1> HIDE DEF R, f
<1>4. TotalOn(P, R)
  <2>1. ASSUME NEW x \in P, NEW y \in P, NEW z \in P
        PROVE  /\ ~(x.at < x.at)
               /\ x # y => x.at < y.at \/ y.at < x.at
               /\ x.at < y.at /\ y.at < z.at => x.at < z.at
    <3>1. x.at \in Int /\ y.at \in Int /\ z.at \in Int /\ (x # y => x.at # y.at)
      BY <1>2
    <3> QED BY <3>1
  <2> QED BY <1>1, <2>1 DEF TotalOn
<1>5. \A x \in P : {y \in P : y.at < x.at} = Before1(P, R, x)
  BY <1>1 DEF Before1
<1>6. ASSUME NEW k \in 1..Cardinality(P), NEW w \in P, Cardinality(Before1(P, R, w)) = k - 1
      PROVE  f[k] \in P /\ Cardinality(Before1(P, R, f[k])) = k - 1
  <2>1. \E x \in P : Cardinality({y \in P : y.at < x.at}) = k - 1
    BY <1>5, <1>6
  <2>2. f[k] = CHOOSE x \in P : Cardinality({y \in P : y.at < x.at}) = k - 1
    BY <1>3
  <2>3. f[k] \in P /\ Cardinality({y \in P : y.at < f[k].at}) = k - 1
    BY <2>1, <2>2
  <2> QED BY <2>3, <1>5
<1>7. f = [k \in 1..Cardinality(P) |-> f[k]]
  <2> DEFINE e(k) == CHOOSE x \in P : Cardinality({y \in P : y.at < x.at}) = k - 1
  <2>1. f = [k \in 1..Cardinality(P) |-> e(k)]
    BY <1>3
  <2> HIDE DEF e
  <2> QED BY <2>1
<1>8. PlacedIn(f, P, R)
  BY <1>6, <1>7 DEF PlacedIn
<1>9. f \in Seq(P) /\ Len(f) = Cardinality(P)
  BY <1>2, <1>4, <1>8, Ordered
<1> QED BY <1>9 DEF f

\* The facts of a chart are whole numbers.
FactType(f) == f.start \in Int /\ f.end \in Int /\ f.delta \in Int /\ f.percent \subseteq Int

LEMMA PercentInt ==
  ASSUME NEW delta \in Int, NEW start \in Int
  PROVE  Percent(delta, start) \subseteq Int
<1>1. \A a \in Int, b \in Int : b > 0 => a \div b \in Int
  <2> SUFFICES ASSUME NEW a \in Int, NEW b \in Int, b > 0 PROVE a \div b \in Int
    OBVIOUS
  <2>1. b \in Nat \ {0}
    OBVIOUS
  <2> QED BY <2>1, Quotient
<1> DEFINE up == (delta * 10000) \div start
           down == (-delta * 10000) \div (-start)
<1>2. start > 0 => up \in Int
  BY <1>1
<1>3. start < 0 => down \in Int
  <2>1. -delta * 10000 \in Int /\ -start \in Int /\ (start < 0 => -start > 0)
    OBVIOUS
  <2> QED BY <2>1, <1>1
<1> HIDE DEF up, down
<1>4. Percent(delta, start) = IF start = 0 THEN {} ELSE {IF start > 0 THEN up ELSE down}
  BY DEF Percent, up, down
<1> QED BY <1>2, <1>3, <1>4

LEMMA Of1Is ==
  ASSUME NEW rows, RowsType(rows), NEW s
  PROVE  RowsType(Of1(rows, s)) /\ Cardinality(Of1(rows, s)) \in Nat
<1>1. Of1(rows, s) \subseteq rows
  BY DEF Of1
<1>2. IsFiniteSet(Of1(rows, s))
  BY <1>1, FS_Subset DEF RowsType
<1> QED BY <1>1, <1>2, FS_CardinalityType DEF RowsType

LEMMA TrendFacts ==
  ASSUME NEW rows, RowsType(rows), UniqueKeys(rows), NEW axis, NEW f \in TrendSummary(rows, axis)
  PROVE  FactType(f)
<1>1. PICK s \in SeriesOf(rows) :
        /\ Assessment(Cardinality(Of1(rows, s)), Cardinality(axis)) # "insufficient"
        /\ f = Trend(s, InTime(Of1(rows, s)))
  BY DEF TrendSummary, Coverage
<1> DEFINE P == Of1(rows, s)
           line == InTime(P)
<1>2. RowsType(P) /\ Cardinality(P) \in Nat
  BY Of1Is
<1>3. ~(Cardinality(P) < 2)
  BY <1>1 DEF Assessment
<1>4. \A p, r \in P : p.at = r.at => p = r
  BY DEF UniqueKeys, Of1
<1> HIDE DEF P
<1>5. line \in Seq(P) /\ Len(line) = Cardinality(P)
  BY <1>2, <1>4, InTimeIs
<1>6. Head(line) \in P /\ Last(line) \in P
  <2> HIDE DEF line
  <2>1. Len(line) \in Nat /\ Len(line) >= 2 /\ DOMAIN line = 1..Len(line)
    BY <1>2, <1>3, <1>5
  <2>2. Head(line) = line[1] /\ Last(line) = line[Len(line)]
    BY <1>5, <2>1 DEF Last
  <2> QED BY <1>5, <2>1, <2>2
<1>7. Head(line).value \in Int /\ Last(line).value \in Int
  BY <1>2, <1>6 DEF RowsType
<1> DEFINE a == Head(line).value
           b == Last(line).value
<1>8. f.start = a /\ f.end = b /\ f.delta = b - a /\ f.percent = Percent(b - a, a)
  BY <1>1 DEF Trend, P
<1> HIDE DEF line, a, b
<1>9. a \in Int /\ b \in Int /\ b - a \in Int
  BY <1>7 DEF a, b
<1> QED BY <1>8, <1>9, PercentInt DEF FactType

LEMMA BarFacts ==
  ASSUME NEW rows, RowsType(rows), rows # {}, UniqueKeys(rows), NEW f \in Bars(rows).comparison
  PROVE  FactType(f)
<1>1. PICK pair \in rows \X rows : f = Difference(pair[1].series, pair[1].value, pair[2].value)
  BY DEF Bars
<1> DEFINE a == pair[1].value
           b == pair[2].value
<1>2. a \in Int /\ b \in Int /\ b - a \in Int
  BY DEF RowsType
<1>3. f.start = a /\ f.end = b /\ f.delta = b - a /\ f.percent = Percent(b - a, a)
  BY <1>1 DEF Difference
<1> HIDE DEF a, b
<1> QED BY <1>2, <1>3, PercentInt DEF FactType

\* What a chart states in numbers.
ChartNumbers(chart) ==
  /\ "trend" \in DOMAIN chart => \A f \in chart.trend : FactType(f)
  /\ "comparison" \in DOMAIN chart => \A f \in chart.comparison : FactType(f)
  /\ "trend" \in DOMAIN chart \/ "comparison" \in DOMAIN chart
  /\ "coverage" \in DOMAIN chart =>
       /\ \A c \in chart.coverage : c.points \in Int /\ c.axis \in Nat \ {0}
       /\ Cardinality(chart.imputed) \in Int /\ \A p \in chart.imputed : p.value = 0

LEMMA LineNumbers ==
  ASSUME NEW rows, RowsType(rows), NEW expected \in SUBSET Int, IsFiniteSet(expected), NEW zeroFill,
         NEW chart, chart = Line(rows, expected, zeroFill), chart # Refused
  PROVE  ChartNumbers(chart)
<1> DEFINE imputed == IF zeroFill THEN Filled(rows, expected) ELSE {}
           axis == expected \cup Places(rows)
           all == rows \cup imputed
<1>1. rows # {} /\ UniqueKeys(rows)
  BY DEF Line
<1>2. chart = [rows |-> rows, imputed |-> imputed, axis |-> axis, trend |-> TrendSummary(all, axis),
               gaps |-> Gaps(all, axis), coverage |-> Coverage(all, axis)]
  BY <1>1 DEF Line
<1>3. IsFiniteSet(imputed) /\ RowsType(all) /\ UniqueKeys(all)
  BY <1>1, FilledIs, FS_EmptySet
<1>4. Cardinality(axis) \in Nat \ {0}
  <2> DEFINE place == [r \in rows |-> r.at]
  <2>1. place \in Surjection(rows, Places(rows))
    BY DEF Surjection, Places
  <2>2. IsFiniteSet(Places(rows))
    BY <2>1, FS_Surjection DEF RowsType
  <2>3. IsFiniteSet(axis) /\ axis # {}
    BY <1>1, <2>2, FS_Union DEF Places
  <2> HIDE DEF axis
  <2> QED BY <2>3, FS_EmptySet, FS_CardinalityType
<1>5. Cardinality(imputed) \in Nat /\ \A p \in imputed : p.value = 0
  BY <1>3, FS_CardinalityType DEF Filled
<1> HIDE DEF imputed, axis, all
<1>6. \A f \in TrendSummary(all, axis) : FactType(f)
  BY <1>3, TrendFacts
<1>7. \A c \in Coverage(all, axis) : c.points \in Int /\ c.axis \in Nat \ {0}
  BY <1>3, <1>4, Of1Is DEF Coverage
<1> QED BY <1>2, <1>5, <1>6, <1>7 DEF ChartNumbers

LEMMA BarNumbers ==
  ASSUME NEW rows, RowsType(rows), NEW chart, chart = Bars(rows), chart # Refused
  PROVE  ChartNumbers(chart)
<1>1. rows # {} /\ UniqueKeys(rows)
  BY DEF Bars
<1>2. \A f \in chart.comparison : FactType(f)
  BY <1>1, BarFacts
<1>3. DOMAIN chart = {"rows", "comparison"}
  BY <1>1 DEF Bars
<1> QED BY <1>2, <1>3 DEF ChartNumbers

LEMMA AbsInt == ASSUME NEW n \in Int PROVE Abs(n) \in Int
BY DEF Abs

LEMMA SizesInt == ASSUME NEW numbers \in SUBSET Int PROVE Sizes(numbers) \subseteq Int
BY AbsInt DEF Sizes

LEMMA ShareInt == ASSUME NEW c, c.points \in Int, c.axis \in Nat \ {0}, NEW whole \in Int PROVE Share(c, whole) \in Int
<1> DEFINE a == 2 * whole * c.points + c.axis
           b == 2 * c.axis
<1>1. a \in Int /\ b \in Nat \ {0}
  OBVIOUS
<1> HIDE DEF a, b
<1>2. a \div b \in Int
  BY <1>1, Quotient
<1> QED BY <1>2 DEF Share, a, b

LEMMA EachWithin ==
  ASSUME NEW S, NEW t, NEW told, NEW Z, \A x \in S : t[x] \subseteq Z, told \subseteq Z
  PROVE  \A v \in (UNION {t[x] : x \in S}) \cup told : v \in Z
OBVIOUS

\* The numbers an answer may tell are whole ones.
LEMMA NumbersInt ==
  ASSUME EvidenceInv, DiagnosisInv, NotedInv
  PROVE  /\ request.numbers \subseteq Int /\ CellValues(evidence) \subseteq Int
         /\ Sizes(SummaryNumbers(evidence)) \subseteq Int /\ ComparisonValues(evidence) \subseteq Int
         /\ CoverageValues(evidence) \subseteq Int /\ Sizes(evidence.summary) \subseteq Int /\ evidence.noted \subseteq Int
         /\ ImpactValues(evidence) \subseteq Int /\ SynthesisValues(evidence) \subseteq Int
         /\ Cardinality(Rows(evidence)) \in Int
<1>1. request \in Questions /\ CellsType(evidence.cells)
  BY DEF EvidenceInv
<1>2. /\ request.numbers \subseteq Int /\ IsFiniteSet(request.expected) /\ request.expected \subseteq Int
      /\ \A k \in DOMAIN request.phrases : PhraseType(request.phrases[k])
  BY <1>1, InputAssumption
<1>3. CellValues(evidence) \subseteq Int
  BY <1>1 DEF CellValues, CellsType
<1>4. evidence.chart # Refused => ChartNumbers(evidence.chart)
  <2> SUFFICES ASSUME evidence.chart # Refused PROVE ChartNumbers(evidence.chart)
    OBVIOUS
  <2> DEFINE rows == ChartRows
             chart == evidence.chart
  <2>1. chart = IF request.chart = "line" THEN Line(rows, request.expected, request.zeroFill) ELSE Bars(rows)
    BY DEF EvidenceInv, Drawn
  <2>2. RowsType(rows)
    BY <1>1, ChartRowsAre DEF ChartRows
  <2> HIDE DEF rows, chart
  <2>3. chart # Refused
    BY DEF chart
  <2>4. CASE request.chart = "line"
    BY <1>2, <2>1, <2>2, <2>3, <2>4, LineNumbers DEF chart
  <2>5. CASE request.chart # "line"
    BY <2>1, <2>2, <2>3, <2>5, BarNumbers DEF chart
  <2> QED BY <2>4, <2>5
<1>5. Sizes(SummaryNumbers(evidence)) \subseteq Int /\ ComparisonValues(evidence) \subseteq Int
  <2>1. (\A f \in Summaries(evidence) : FactType(f)) /\ \A f \in Comparisons(evidence) : FactType(f)
    BY <1>4 DEF Summaries, Comparisons, ChartNumbers
  <2>2. SummaryNumbers(evidence) \subseteq Int
    BY <2>1 DEF SummaryNumbers, FactNumbers, FactType
  <2> DEFINE Z == Int
             t == [f \in Comparisons(evidence) |-> FactNumbers(f) \cup {Abs(f.delta)} \cup {Abs(p) : p \in f.percent}]
             told == Sizes(evidence.compared)
  <2>3. told \subseteq Z
    BY SizesInt DEF NotedInv
  <2>4. \A f \in Comparisons(evidence) : t[f] \subseteq Z
    <3> SUFFICES ASSUME NEW f \in Comparisons(evidence) PROVE t[f] \subseteq Z
      OBVIOUS
    <3>1. f.start \in Int /\ f.end \in Int /\ f.delta \in Int /\ f.percent \subseteq Int
      BY <2>1 DEF FactType
    <3>2. Abs(f.delta) \in Int /\ \A p \in f.percent : Abs(p) \in Int
      BY <3>1, AbsInt
    <3>3. t[f] = {f.start, f.end, f.delta} \cup f.percent \cup {Abs(f.delta)} \cup {Abs(p) : p \in f.percent}
      BY DEF FactNumbers
    <3> HIDE DEF t
    <3> QED BY <3>1, <3>2, <3>3
  <2>5. ComparisonValues(evidence) = (UNION {t[f] : f \in Comparisons(evidence)}) \cup told
    BY DEF ComparisonValues
  <2> HIDE DEF t, told, Z
  <2>6. ComparisonValues(evidence) \subseteq Z
    BY <2>3, <2>4, <2>5, EachWithin
  <2> QED BY <2>2, <2>6, SizesInt DEF Z
<1>6. CoverageValues(evidence) \subseteq Int
  <2> SUFFICES ASSUME NEW v \in CoverageValues(evidence) PROVE v \in Int
    OBVIOUS
  <2> DEFINE coverage == evidence.chart.coverage
             imputed == evidence.chart.imputed
  <2>1. evidence.chart # Refused /\ "coverage" \in DOMAIN evidence.chart
    BY DEF CoverageValues, CoverageNumbers
  <2>2. /\ \A c \in coverage : c.points \in Int /\ c.axis \in Nat \ {0}
        /\ Cardinality(imputed) \in Int /\ \A p \in imputed : p.value = 0
    BY <1>4, <2>1 DEF ChartNumbers
  <2>3. \A c \in coverage : Share(c, 100) \in Int /\ Share(c, 10000) \in Int
    BY <2>2, ShareInt
  <2> DEFINE t == [c \in coverage |-> {100 * c.points, 100 * c.axis, Share(c, 100)}]
             zeros == {p.value : p \in imputed}
             shares == {Share(c, 10000) : c \in coverage}
             counts == {100 * Cardinality(points) : points \in {imputed} \ {{}}}
             Z == Int
  <2>4. CoverageNumbers(evidence) = (UNION {t[c] : c \in coverage}) \cup zeros
    BY <2>1 DEF CoverageNumbers
  <2>5. v \in CoverageNumbers(evidence) \/ v \in shares \/ v \in counts
    BY DEF CoverageValues
  <2>6. (\A c \in coverage : t[c] \subseteq Z) /\ zeros \subseteq Z /\ shares \subseteq Z /\ counts \subseteq Z
    BY <2>2, <2>3
  <2> HIDE DEF t, zeros, shares, counts, coverage, imputed, Z
  <2>7. v \in Z
    BY <2>4, <2>5, <2>6, EachWithin
  <2> QED BY <2>7 DEF Z
<1>7. ImpactValues(evidence) \subseteq Int
  <2> SUFFICES ASSUME NEW v \in ImpactValues(evidence) PROVE v \in Int
    OBVIOUS
  <2>1. evidence.impact # Absent /\ evidence.impact = EstimateOutputDelta(request.phrases, evidence.cells)
    BY DEF ImpactValues, EvidenceInv
  <2>2. \A x \in evidence.impact.estimates : x.value \in Int
    BY <1>1, <1>2, <2>1, EstimatesBounded
  <2>3. \A k \in DOMAIN evidence.impact.changes : evidence.impact.changes[k].value \in Int
    <3>1. evidence.impact.changes = ParseChanges(request.phrases)
      BY <2>1 DEF EstimateOutputDelta
    <3> QED BY <1>2, <3>1 DEF ParseChanges, PhraseType
  <2> DEFINE numbers == {x.value : x \in evidence.impact.estimates}
                        \cup {evidence.impact.changes[k].value : k \in DOMAIN evidence.impact.changes}
  <2>4. numbers \subseteq Int
    BY <2>2, <2>3
  <2>5. v \in Sizes(numbers)
    BY <2>1 DEF ImpactValues, Estimates
  <2> HIDE DEF numbers
  <2> QED BY <2>4, <2>5, SizesInt
<1>8. SynthesisValues(evidence) \subseteq Int
  <2> SUFFICES ASSUME evidence.synthesis # Absent PROVE SynthesisValues(evidence) \subseteq Int
    BY DEF SynthesisValues
  <2> DEFINE causes == Causes(evidence.docs)
             cases == SimilarCases(request.q, evidence.cases)
  <2>1. evidence.synthesis.causes = causes /\ evidence.synthesis.cases = cases
    BY DEF DiagnosisInv, Synthesis
  <2>2. IsList(causes) /\ IsList(cases)
    BY CausesAre, SimilarAre DEF DiagnosisInv, ItemsType
  <2> HIDE DEF causes, cases
  <2>3. Len(causes) \in Nat /\ Len(cases) \in Nat
    BY <2>2, LenProperties DEF IsList
  <2> QED BY <2>1, <2>3 DEF SynthesisValues
<1>9. Cardinality(Rows(evidence)) \in Int
  <2> DEFINE row == [c \in evidence.cells |-> <<c.target, c.at>>]
  <2>1. row \in Surjection(evidence.cells, Rows(evidence))
    BY DEF Surjection, Rows
  <2>2. IsFiniteSet(Rows(evidence))
    BY <1>1, <2>1, FS_Surjection DEF CellsType
  <2> QED BY <2>2, FS_CardinalityType
<1>10. Sizes(evidence.summary) \subseteq Int /\ evidence.noted \subseteq Int
  BY SizesInt DEF NotedInv
<1> QED BY <1>2, <1>3, <1>5, <1>6, <1>7, <1>8, <1>9, <1>10

\* _grounded_numeric_claim: what counts as told is near to a number.
LEMMA RoundedNear ==
  ASSUME NEW n \in Int, NEW unit \in {10, 100}
  PROVE  Rounded(n, unit) \in Int /\ 2 * Abs(n - Rounded(n, unit)) <= unit
<1>1. CASE unit = 10
  BY <1>1 DEF Rounded, Abs
<1>2. CASE unit = 100
  BY <1>2 DEF Rounded, Abs
<1> QED BY <1>1, <1>2

LEMMA GroundedNear ==
  ASSUME NEW s, s.value \in Int, NEW allowed \in SUBSET Int, NEW says \in SUBSET shown.says,
         Grounded(s, allowed, says)
  PROVE  \E n \in allowed : Near(s, n)
<1>0. \A form : Announced(s, form, says) => Announced(s, form, shown.says)
  BY DEF Announced
<1>1. CASE s.value \in allowed
  <2>1. Abs(s.value - s.value) = 0 /\ Tolerance(s) >= 0
    BY DEF Abs, Tolerance
  <2> QED BY <1>1, <2>1 DEF Near
<1>2. CASE Announced(s, "band", says) /\ InRange(s, allowed)
  <2>1. PICK n \in allowed : s.value <= n /\ n < s.value + 100
    BY <1>2 DEF InRange
  <2>2. n \in Int /\ Tolerance(s) = 99
    BY <1>0, <1>2 DEF Tolerance
  <2>3. Abs(n - s.value) <= 99
    BY <2>1, <2>2 DEF Abs
  <2> QED BY <2>2, <2>3 DEF Near
<1>3. CASE (s.form = "decimal" \/ Announced(s, "about", says)) /\ IsRounded(s, allowed)
  <2>1. PICK n \in allowed : Rounded(n, Printed(s)) = s.value
    BY <1>3 DEF IsRounded
  <2>2. Printed(s) \in {10, 100} /\ 2 * Tolerance(s) >= Printed(s) /\ Tolerance(s) \in Int
    <3>1. CASE s.form = "decimal"
      BY <3>1 DEF Printed, Tolerance, Announced
    <3>2. CASE s.form # "decimal"
      <4>1. Announced(s, "about", shown.says)
        BY <1>0, <1>3, <3>2
      <4> QED BY <3>2, <4>1 DEF Printed, Tolerance
    <3> QED BY <3>1, <3>2
  <2>3. 2 * Abs(n - s.value) <= Printed(s)
    BY <2>1, <2>2, RoundedNear
  <2>4. Abs(n - s.value) \in Int
    <3>1. n - s.value \in Int
      OBVIOUS
    <3> QED BY <3>1, AbsInt
  <2>5. Abs(n - s.value) <= Tolerance(s)
    BY <2>2, <2>3, <2>4
  <2> QED BY <2>5 DEF Near
<1> QED BY <1>1, <1>2, <1>3 DEF Grounded

-----------------------------------------------------------------------------
(* The text of an answer *)

\* What is reviewed, and what is shown of it, is a text a model may write.
TextInv ==
  /\ phase = "review" => candidate \in Answers(request)
  /\ Composed => shown \in Answers(request)

LEMMA InitText == Init => TextInv
BY DEF Init, TextInv, Composed

LEMMA StepText == EvidenceInv /\ IInv /\ TextInv /\ [Next]_vars => TextInv'
<1> SUFFICES ASSUME EvidenceInv, IInv, TextInv, [Next]_vars PROVE TextInv'
  OBVIOUS
<1> USE DEF TextInv, Composed
<1>0. /\ request \in Questions /\ \A text \in Answers(request) : Revisions(request, text) \subseteq Answers(request)
  BY InputAssumption DEF EvidenceInv
<1>1. CASE RunText2Sql \/ RunRag \/ RunCaseSearch \/ RunImpact \/ RunVisualization
  BY <1>1 DEF RunText2Sql, RunRag, RunCaseSearch, RunImpact, RunVisualization, Turn
<1>2. CASE Compose
  BY <1>2 DEF Compose
<1>3. CASE ReviewAgain
  BY <1>0, <1>3 DEF ReviewAgain
<1>4. ASSUME NEW text, NEW how, phase = "review", Show(text, how), text \in Answers(request) \cup {Withheld}
      PROVE  TextInv'
  <2>1. Withheld' = Withheld /\ request' = request /\ phase' = "done" /\ shown' = text
    BY <1>4 DEF Show
  <2> QED BY <1>4, <2>1
<1>5. CASE ApproveAnswer
  BY <1>4, <1>5 DEF ApproveAnswer
<1>6. CASE CorrectAnswer
  BY <1>0, <1>4, <1>6 DEF CorrectAnswer
<1>7. CASE Withhold
  BY <1>4, <1>7 DEF Withhold
<1>8. ASSUME UsesDocuments, UNCHANGED <<request, evidence>>, phase' # "review" PROVE TextInv'
  BY <1>8, SameWay
<1>9. CASE StartGrounded \/ Generate \/ Judge \/ ModelFails
  <2>1. UsesDocuments
    BY <1>9 DEF StartGrounded, Generate, Judge, ModelFails, IInv, PathDecided
  <2>2. UNCHANGED <<request, evidence>>
    BY <1>9 DEF StartGrounded, Generate, Judge, ModelFails
  <2>3. phase' # "review"
    BY <1>9 DEF StartGrounded, Generate, Judge, ModelFails
  <2> QED BY <1>8, <2>1, <2>2, <2>3
<1>10. CASE UNCHANGED vars
  BY <1>10, SameWay DEF vars
<1> QED BY <1>1, <1>2, <1>3, <1>5, <1>6, <1>7, <1>9, <1>10 DEF Next

\* The warnings an answer was shown without.
LEMMA NoWarning ==
  ASSUME BlockingOf(shown) = {}
  PROVE  /\ ScopeWarnings(request, evidence, shown) = {}
         /\ StatusWarnings(request, evidence, shown) = {}
         /\ ImpactWarnings(request, evidence, shown) = {}
         /\ TrendWarnings(request, evidence, shown) = {}
         /\ DiagnosisWarnings(request, evidence, shown) = {}
         /\ UnsupportedClaims(request, evidence, shown) = {}
<1>1. Warn(UnsupportedClaims(request, evidence, shown) # {}, "unsupported_numbers") = {}
  BY DEF BlockingOf, Blocking
<1> QED BY <1>1 DEF BlockingOf, Blocking, Warn

LEMMA SaidInt ==
  ASSUME EvidenceInv, TextInv, Composed, NEW s \in shown.says
  PROVE  s.value \in Int
<1>1. request \in Questions /\ shown \in Answers(request)
  BY DEF EvidenceInv, TextInv
<1>2. TextType(shown)
  BY <1>1, InputAssumption
<1> QED BY <1>2 DEF TextType

\* verify_response: a number that is not warned of is one that is known.
LEMMA Traceable ==
  ASSUME EvidenceInv, DiagnosisInv, NotedInv, TextInv, Composed, BlockingOf(shown) = {},
         request.kind \in Operational, NEW s \in shown.says
  PROVE  /\ \E n \in KnownNumbers : Near(s, n)
         /\ HasSqlEvidence(evidence) \/ s.unit = "none" \/ s.form = "rows"
<1>1. s.value \in Int
  BY SaidInt
<1>2. HasSqlEvidence(evidence) \/ s.unit = "none" \/ s.form = "rows"
  <2>1. Warn(~HasSqlEvidence(evidence) /\ (\E x \in shown.says \ Counts(evidence, shown) : x.unit # "none"),
             "numbers_without_sql") = {}
    BY NoWarning DEF ScopeWarnings
  <2> QED BY <2>1 DEF Warn, Counts, RowCount
<1>3. UnsupportedClaims(request, evidence, shown) = {}
  BY NoWarning
<1> DEFINE noted == IF request.kind = "diagnosis" THEN evidence.noted ELSE {}
           known == request.numbers \cup CellValues(evidence) \cup ComparisonValues(evidence)
                    \cup Sizes(evidence.summary) \cup Sizes(SummaryNumbers(evidence))
                    \cup CoverageValues(evidence) \cup ImpactValues(evidence) \cup SynthesisValues(evidence)
                    \cup noted
           count == 100 * Cardinality(Rows(evidence))
<1>4. KnownNumbers = known \cup {count}
  BY DEF KnownNumbers
<1>5. known \subseteq Int /\ count \in Int
  BY NumbersInt
<1>6. RowCount(s, evidence) \/ \E allowed \in SUBSET known : Grounded(s, allowed, shown.says)
  <2>1. CASE request.kind = "status"
    <3>1. StatusNumbers(request, evidence) \in SUBSET known
      BY DEF StatusNumbers
    <3>2. StatusClaims(request, evidence, shown) = {}
      BY <1>3, <2>1 DEF UnsupportedClaims
    <3>3. RowCount(s, evidence) \/ Grounded(s, StatusNumbers(request, evidence), shown.says)
      BY <3>2 DEF StatusClaims, Ungrounded, Counts
    <3> QED BY <3>1, <3>3
  <2>2. CASE request.kind # "status" /\ ImpactRequested(request)
    <3>1. ImpactNumbers(request, evidence) \in SUBSET known
      BY DEF ImpactNumbers
    <3>2. ImpactClaims(request, evidence, shown) = {}
      BY <1>3, <2>2 DEF UnsupportedClaims
    <3>3. Grounded(s, ImpactNumbers(request, evidence), shown.says)
      BY <3>2 DEF ImpactClaims, Ungrounded
    <3> QED BY <3>1, <3>3
  <2>3. CASE request.kind = "diagnosis" /\ ~ImpactRequested(request)
    <3>1. DiagnosisNumbers(request, evidence) \in SUBSET known
      <4>1. CoverageNumbers(evidence) \subseteq CoverageValues(evidence)
        BY DEF CoverageValues
      <4>2. \A numbers : numbers \subseteq Sizes(numbers)
        BY DEF Sizes
      <4> QED BY <2>3, <4>1, <4>2 DEF DiagnosisNumbers, StatusNumbers
    <3>2. DiagnosisClaims(request, evidence, shown) = {}
      BY <1>3, <2>3 DEF UnsupportedClaims
    <3>3. Grounded(s, DiagnosisNumbers(request, evidence), shown.says)
      BY <3>2 DEF DiagnosisClaims, Ungrounded
    <3> QED BY <3>1, <3>3
  <2>4. CASE request.kind = "trend" /\ ~ImpactRequested(request)
    <3>1. TrendNumbers(request, evidence) \in SUBSET known
      BY DEF TrendNumbers, StatusNumbers
    <3>2. TrendClaims(request, evidence, shown) = {}
      BY <1>3, <2>4 DEF UnsupportedClaims
    <3>3. RowCount(s, evidence) \/ Grounded(s, TrendNumbers(request, evidence), shown.says)
      BY <3>2 DEF TrendClaims, Ungrounded, Counts
    <3> QED BY <3>1, <3>3
  <2>5. request.kind = "impact" => ImpactRequested(request)
    BY DEF ImpactRequested
  <2> QED BY <2>1, <2>2, <2>3, <2>4, <2>5 DEF Operational
<1> HIDE DEF known, count
<1>7. CASE RowCount(s, evidence)
  <2>1. s.value = count
    BY <1>7 DEF RowCount, count
  <2>2. Grounded(s, {count}, shown.says)
    BY <2>1 DEF Grounded
  <2>3. \E n \in {count} : Near(s, n)
    BY <1>1, <1>5, <2>2, GroundedNear
  <2> QED BY <1>2, <1>4, <2>3
<1>8. CASE \E allowed \in SUBSET known : Grounded(s, allowed, shown.says)
  <2>1. PICK allowed \in SUBSET known : Grounded(s, allowed, shown.says)
    BY <1>8
  <2>2. allowed \in SUBSET Int
    BY <1>5
  <2>3. \E n \in allowed : Near(s, n)
    BY <1>1, <2>1, <2>2, GroundedNear
  <2> QED BY <1>2, <1>4, <2>3
<1> QED BY <1>6, <1>7, <1>8

LEMMA Directed ==
  ASSUME BlockingOf(shown) = {}, NEW s \in shown.says
  PROVE  /\ request.kind = "trend" =>
              \A f \in Summaries(evidence) : \A n \in f.percent :
                ~(Opposite(s, n) /\ s.unit = "percent" /\ s.target = f.series[1])
         /\ request.kind = "impact" =>
              \A x \in Estimates(evidence) : x.directional => ~Opposite(s, x.value)
<1>1. ASSUME request.kind = "trend", NEW f \in Summaries(evidence), NEW n \in f.percent,
             Opposite(s, n), s.unit = "percent", s.target = f.series[1]
      PROVE  FALSE
  <2>1. TrendWarnings(request, evidence, shown) = {}
    BY NoWarning
  <2>2. TrendConflicts(evidence, shown) = {}
    BY <1>1, <2>1 DEF TrendWarnings, Warn
  <2> QED BY <1>1, <2>2 DEF TrendConflicts, Reversed, Opposite
<1>2. ASSUME request.kind = "impact", NEW x \in Estimates(evidence), x.directional, Opposite(s, x.value)
      PROVE  FALSE
  <2>1. ImpactWarnings(request, evidence, shown) = {} /\ ImpactRequested(request)
    BY <1>2, NoWarning DEF ImpactRequested
  <2>2. ImpactConflicts(evidence, shown) = {}
    BY <2>1 DEF ImpactWarnings, Warn
  <2> QED BY <1>2, <2>2 DEF ImpactConflicts, Opposite
<1> QED BY <1>1, <1>2

PipelineInv == IInv /\ EvidenceInv /\ DiagnosisInv /\ NotedInv /\ TextInv
LEMMA InitPipeline == Init => PipelineInv
BY InitIInv, InitEvidence, InitDiagnosis, InitNoted, InitText DEF PipelineInv
LEMMA StepPipeline == PipelineInv /\ [Next]_vars => PipelineInv'
BY StepIInv, StepEvidence, StepDiagnosis, StepNoted, StepText DEF PipelineInv

\* verify_response: whatever the models write and the tools return, a number of
\* a composed answer is a known one, rounded as the text announces it, and no
\* change of a series of a line nor an estimate is told the other way round.
THEOREM NumbersAreKnown == Spec => []NumbersHold
<1>1. PipelineInv => NumbersHold
  <2> SUFFICES ASSUME PipelineInv, Composed PROVE NumbersHold
    BY DEF NumbersHold, NumbersTraceable, DirectionsHold
  <2>1. BlockingOf(shown) = {}
    BY DEF PipelineInv, IInv, ReviewedText
  <2>2. NumbersTraceable
    BY <2>1, Traceable DEF NumbersTraceable, PipelineInv
  <2>3. DirectionsHold
    BY <2>1, Directed DEF DirectionsHold
  <2> QED BY <2>2, <2>3 DEF NumbersHold
<1> QED BY <1>1, InitPipeline, StepPipeline, PTL DEF Spec


-----------------------------------------------------------------------------
(* What was asked *)

\* verify_response, of a status question: a value of each target.
LEMMA TargetsAreTold ==
  ASSUME EvidenceInv, TextInv, Composed, BlockingOf(shown) = {}, request.kind = "status"
  PROVE  TargetsTold
<1> SUFFICES ASSUME NEW t \in request.targets, NEW m \in request.metrics, ValuesFor(evidence, t, m) # {}
             PROVE  \E n \in ValuesFor(evidence, t, m) :
                      \/ \E s \in shown.says : s.target = t /\ (Near(s, n) \/ s.value = -n)
                      \/ \E x \in shown.digits : x.target = t /\ x.value = n
  BY DEF TargetsTold
<1>1. StatusWarnings(request, evidence, shown) = {}
  BY NoWarning
<1>2. MissingTargetValues(request, evidence, shown) = {}
  BY <1>1 DEF StatusWarnings, Warn
<1>3. AnyAppears(ValuesFor(evidence, t, m), Under(shown, t))
  <2> DEFINE p == <<t, m>>
  <2>1. p \in request.targets \X request.metrics /\ p[1] = t /\ p[2] = m
    OBVIOUS
  <2>2. p \notin {x \in request.targets \X request.metrics :
           ValuesFor(evidence, x[1], x[2]) # {} /\ ~AnyAppears(ValuesFor(evidence, x[1], x[2]), Under(shown, x[1]))}
    BY <1>2 DEF MissingTargetValues
  <2> QED BY <2>1, <2>2
<1>4. PICK n \in ValuesFor(evidence, t, m) : Appears(n, Under(shown, t))
  BY <1>3 DEF AnyAppears
<1>5. CASE \E x \in Under(shown, t).digits : x.value = n
  BY <1>5 DEF Under
<1>6. CASE \E s \in Under(shown, t).says : (n > 0 /\ s.value = -n) \/ Grounded(s, {n}, Under(shown, t).says)
  <2>1. PICK s \in Under(shown, t).says : (n > 0 /\ s.value = -n) \/ Grounded(s, {n}, Under(shown, t).says)
    BY <1>6
  <2>2. s \in shown.says /\ s.target = t /\ Under(shown, t).says \in SUBSET shown.says
    BY DEF Under
  <2>3. s.value \in Int /\ n \in Int
    BY <2>2, SaidInt DEF ValuesFor, EvidenceInv, CellsType
  <2>4. Grounded(s, {n}, Under(shown, t).says) => \E x \in {n} : Near(s, x)
    BY <2>2, <2>3, GroundedNear
  <2> QED BY <2>1, <2>2, <2>4
<1> QED BY <1>4, <1>5, <1>6 DEF Appears

\* ... of a diagnosis: each verified case it was drawn from.
LEMMA CasesAreCited ==
  ASSUME DiagnosisInv, BlockingOf(shown) = {}, request.kind = "diagnosis", evidence.synthesis # Absent
  PROVE  VerifiedCited
<1> DEFINE q == request.q
           found == evidence.cases
           cases == SimilarCases(q, found)
<1>1. FoundType(q, found) /\ evidence.synthesis.cases = cases
  BY DEF DiagnosisInv, Synthesis
<1> SUFFICES ASSUME NEW c \in ToSet(found), NEW x \in ToSet(cases), x.id = c.id, c.verified
             PROVE  c.id \in shown.notes
  BY <1>1 DEF VerifiedCited
<1>2. DiagnosisWarnings(request, evidence, shown) = {}
  BY NoWarning
<1>3. CitedCases(evidence) \ shown.notes = {}
  BY <1>2 DEF DiagnosisWarnings, Warn
<1>4. PICK other \in ToSet(found) : CaseOf(q, x, other)
  BY <1>1, CaseTold
<1>5. other = c
  <2>1. other.id = c.id
    BY <1>4 DEF CaseOf
  <2>2. \A a, b \in ToSet(found) : a.id = b.id => a = b
    BY <1>1 DEF FoundType, ToSet
  <2> QED BY <2>1, <2>2
<1>6. x.reliability \in Verified
  BY <1>4, <1>5 DEF CaseOf, CaseReliability, Verified
<1>7. x.id \in CitedCases(evidence)
  BY <1>1, <1>6 DEF CitedCases
<1> QED BY <1>3, <1>7

\* ... of a change: an estimate.
LEMMA EstimateIsTold ==
  ASSUME EvidenceInv, TextInv, Composed, BlockingOf(shown) = {}, ImpactRequested(request), evidence.impact # Absent
  PROVE  EstimateTold
<1> SUFFICES ASSUME evidence.impact.estimates # {}
             PROVE  \E s \in shown.says, x \in evidence.impact.estimates : Abs(s.value) = Abs(x.value)
  BY DEF EstimateTold
<1>1. ImpactWarnings(request, evidence, shown) = {}
  BY NoWarning
<1>2. PICK x \in evidence.impact.estimates : EstimateAppears(x, shown)
  BY <1>1 DEF ImpactWarnings, Warn, Estimates
<1>3. PICK s \in shown.says : s.value = x.value \/ s.value = -x.value
  BY <1>2 DEF EstimateAppears
<1>4. x.value \in Int
  <2>1. /\ evidence.impact = EstimateOutputDelta(request.phrases, evidence.cells) /\ CellsType(evidence.cells)
        /\ \A k \in DOMAIN request.phrases : PhraseType(request.phrases[k])
    BY InputAssumption DEF EvidenceInv
  <2> QED BY <2>1, EstimatesBounded
<1>5. Abs(s.value) = Abs(x.value)
  BY <1>3, <1>4 DEF Abs
<1> QED BY <1>5

\* ... of a trend: its gaps and what was filled.
LEMMA GapsAreTold ==
  ASSUME EvidenceInv, BlockingOf(shown) = {}, request.kind = "trend"
  PROVE  GapsTold
<1> SUFFICES ASSUME evidence.chart # Refused, request.chart = "line"
             PROVE  /\ evidence.chart.gaps # {} => "gap" \in shown.notes
                    /\ evidence.chart.imputed # {} => "zero filled" \in shown.notes
  BY DEF GapsTold
<1>1. TrendWarnings(request, evidence, shown) = {}
  BY NoWarning
<1>2. LineWarnings(evidence, shown) = {}
  BY <1>1 DEF TrendWarnings
<1>3. "coverage" \in DOMAIN evidence.chart
  <2>1. evidence.chart = Line(ChartRows, request.expected, request.zeroFill)
    BY DEF EvidenceInv, Drawn
  <2> QED BY <2>1 DEF Line
<1>4. UndisclosedGaps(evidence, shown) = {} /\ UndisclosedImputed(evidence, shown) = {}
  BY <1>2, <1>3 DEF LineWarnings, Warn
<1> QED BY <1>4 DEF UndisclosedGaps, UndisclosedImputed

\* verify_response: whatever the models write and the tools return, a composed
\* answer tells what was asked for and found.
THEOREM AskedIsAnswered == Spec => []AskedAnswered
<1>1. PipelineInv => AskedAnswered
  <2> SUFFICES ASSUME PipelineInv, Composed
               PROVE  /\ request.kind = "status" => TargetsTold
                      /\ request.kind = "diagnosis" /\ evidence.synthesis # Absent => VerifiedCited
                      /\ ImpactRequested(request) /\ evidence.impact # Absent => EstimateTold
                      /\ request.kind = "trend" => GapsTold
    BY DEF AskedAnswered
  <2>1. BlockingOf(shown) = {} /\ EvidenceInv /\ DiagnosisInv /\ TextInv
    BY DEF PipelineInv, IInv, ReviewedText
  <2> QED BY <2>1, TargetsAreTold, CasesAreCited, EstimateIsTold, GapsAreTold
<1> QED BY <1>1, InitPipeline, StepPipeline, PTL DEF Spec

=============================================================================
