--------------------------- MODULE Question_proofs ---------------------------
(***************************************************************************)
(* Proofs about a data question: what it is about and how it is answered.  *)
(*                                                                         *)
(* ConversationScope, for any FABs, areas, questions, panels and periods,  *)
(* any memory and as many requests at once as the memory holds exchanges:  *)
(* each part of a run's scope is what the conversation last said of it.    *)
(*                                                                         *)
(* Text2Sql, for any FABs, tables, questions and numbers of tables loaded  *)
(* or dropped meanwhile: what the query that is run, the plan that is      *)
(* shown and the FABs of the rows have to do with what was checked and     *)
(* asked for, and that the call implements QueryPromise.                   *)
(***************************************************************************)
EXTENDS Text2Sql, ConversationScope, FiniteSetTheorems, SequenceTheorems, WellFoundedInduction, TLAPS

-----------------------------------------------------------------------------
(* Numbers and folds over a list *)

\* A set of natural numbers has a least one.
LEMMA Least ==
  ASSUME NEW S \in SUBSET Nat, S # {}
  PROVE  \E n \in S : \A m \in S : n <= m
<1> DEFINE T == {0..n : n \in S}
<1>1. ASSUME NEW t \in T PROVE t \in FiniteSubsetsOf(Nat)
  <2>1. PICK n \in S : t = 0..n OBVIOUS
  <2>2. IsFiniteSet(0..n) BY FS_Interval
  <2> QED BY <2>1, <2>2 DEF FiniteSubsetsOf
<1>2. \E x \in T : \A y \in T : ~(<<y, x>> \in StrictSubsetOrdering(Nat))
  <2>1. T # {} OBVIOUS
  <2> HIDE DEF T
  <2>2. T \subseteq FiniteSubsetsOf(Nat)
    BY <1>1
  <2> QED BY <2>2, <2>1, FS_StrictSubsetOrderingWellFounded, WFMin
<1>3. PICK n \in S : \A m \in S : ~(<<0..m, 0..n>> \in StrictSubsetOrdering(Nat))
  BY <1>2
<1>4. ASSUME NEW m \in S, m < n PROVE FALSE
  <2>1. 0..m \subseteq 0..n /\ n \in 0..n /\ n \notin 0..m
    BY <1>4
  <2>2. <<0..m, 0..n>> \in StrictSubsetOrdering(Nat)
    BY <2>1 DEF StrictSubsetOrdering
  <2> QED BY <2>2, <1>3
<1> QED BY <1>4

\* Induction, over the members of a set.
LEMMA Climb ==
  ASSUME NEW S, 0 \in S, \A n \in Nat : n \in S => n + 1 \in S
  PROVE  Nat \subseteq S
<1>1. ASSUME NEW m \in Nat, m \notin S PROVE FALSE
  <2> DEFINE B == Nat \ S
  <2>1. PICK n \in B : \A k \in B : n <= k
    <3>1. B \in SUBSET Nat /\ B # {} BY <1>1
    <3> HIDE DEF B
    <3> QED BY <3>1, Least
  <2>2. n # 0 BY <2>1
  <2>3. n - 1 \in Nat /\ n - 1 \in S BY <2>1, <2>2
  <2> QED BY <2>3, <2>1
<1> QED BY <1>1

\* The greatest of some numbers up to n.
LEMMA MaxIn ==
  ASSUME NEW n \in Nat, NEW T \in SUBSET (1..n), T # {}
  PROVE  Max(T) \in T /\ \A t \in T : t <= Max(T)
<1> DEFINE B == {n - t : t \in T}
<1>1. B \in SUBSET Nat /\ B # {}
  <2>1. \A t \in T : n - t \in Nat
    OBVIOUS
  <2>2. PICK t \in T : TRUE
    OBVIOUS
  <2> QED BY <2>1, <2>2
<1>2. PICK b \in B : \A c \in B : b <= c
  <2> HIDE DEF B
  <2> QED BY <1>1, Least
<1>3. PICK t \in T : b = n - t
  BY <1>2
<1>4. \A u \in T : t >= u
  <2> TAKE u \in T
  <2>1. n - u \in B
    OBVIOUS
  <2> QED BY <2>1, <1>2, <1>3
<1>5. Max(T) \in T /\ \A u \in T : Max(T) >= u
  BY <1>3, <1>4 DEF Max
<1> QED BY <1>5

\* The parts of the places 1..n.
LEMMA PartsOf ==
  ASSUME NEW n \in Nat
  PROVE  /\ \A T \in SUBSET (1..n) : IsFiniteSet(T) /\ Cardinality(T) \in Nat /\ Cardinality(T) <= n
         /\ \A T \in SUBSET (1..n) : \A x \in T : Cardinality(T \ {x}) = Cardinality(T) - 1
         /\ \A T \in SUBSET (1..n) : (Cardinality(T) = 0 <=> T = {})
<1> DEFINE D == 1..n
<1>1. IsFiniteSet(D) /\ Cardinality(D) = n
  BY FS_Interval
<1>2. ASSUME NEW T \in SUBSET D PROVE IsFiniteSet(T) /\ Cardinality(T) \in Nat /\ Cardinality(T) <= n
  <2> HIDE DEF D
  <2>1. IsFiniteSet(T) /\ Cardinality(T) <= Cardinality(D)
    BY <1>1, FS_Subset
  <2> QED BY <1>1, <2>1, FS_CardinalityType
<1>3. ASSUME NEW T \in SUBSET D, NEW x \in T PROVE Cardinality(T \ {x}) = Cardinality(T) - 1
  BY <1>2, FS_RemoveElement
<1>4. ASSUME NEW T \in SUBSET D PROVE Cardinality(T) = 0 <=> T = {}
  BY <1>2, FS_EmptySet
<1> QED BY <1>2, <1>3, <1>4

\* What a fold over places 1..n goes through.
Stage(D, n) == {T \in SUBSET D : Cardinality(T) <= n}
FoldsUpTo(h, V, base, G, D) ==
  \A T \in DOMAIN h : h[T] = IF T = {} THEN base ELSE G[<<h[T \ {Max(T)}], Max(T)>>]

\* There is such a fold.
LEMMA FoldExists ==
  ASSUME NEW V, NEW base \in V, NEW n \in Nat, NEW G \in [V \X (1..n) -> V]
  PROVE  \E h \in [SUBSET (1..n) -> V] : FoldsUpTo(h, V, base, G, 1..n)
<1> DEFINE D == 1..n
           S == {k \in Nat : \E h \in [Stage(D, k) -> V] : FoldsUpTo(h, V, base, G, D)}
<1>0. /\ \A T \in SUBSET D : Cardinality(T) \in Nat /\ Cardinality(T) <= n
      /\ \A T \in SUBSET D : \A x \in T : Cardinality(T \ {x}) = Cardinality(T) - 1
      /\ \A T \in SUBSET D : (Cardinality(T) = 0 <=> T = {})
  BY PartsOf
<1>1. 0 \in S
  <2> DEFINE h == [T \in Stage(D, 0) |-> base]
  <2>1. \A T \in Stage(D, 0) : T = {}
    BY <1>0 DEF Stage
  <2>2. FoldsUpTo(h, V, base, G, D)
    BY <2>1 DEF FoldsUpTo
  <2> QED BY <2>2
<1>2. ASSUME NEW k \in Nat, k \in S PROVE k + 1 \in S
  <2>1. PICK h \in [Stage(D, k) -> V] : FoldsUpTo(h, V, base, G, D)
    BY <1>2
  <2> DEFINE g == [T \in Stage(D, k + 1) |-> IF T = {} THEN base ELSE G[<<h[T \ {Max(T)}], Max(T)>>]]
  <2>2. ASSUME NEW T \in Stage(D, k + 1), T # {}
        PROVE  Max(T) \in T /\ Max(T) \in D /\ T \ {Max(T)} \in Stage(D, k) /\ T \ {Max(T)} \in Stage(D, k + 1)
    <3>1. T \in SUBSET D /\ Cardinality(T) <= k + 1
      BY DEF Stage
    <3>2. Max(T) \in T /\ Max(T) \in D
      BY <2>2, <3>1, MaxIn
    <3>3. Cardinality(T \ {Max(T)}) = Cardinality(T) - 1 /\ Cardinality(T) \in Nat
      BY <3>1, <3>2, <1>0
    <3>4. T \ {Max(T)} \in SUBSET D
      BY <3>1
    <3>5. Cardinality(T \ {Max(T)}) <= k /\ Cardinality(T \ {Max(T)}) <= k + 1
      BY <3>1, <3>3
    <3> QED BY <3>2, <3>4, <3>5 DEF Stage
  <2>3. g \in [Stage(D, k + 1) -> V]
    <3> SUFFICES ASSUME NEW T \in Stage(D, k + 1) PROVE g[T] \in V
      OBVIOUS
    <3>1. CASE T = {}
      BY <3>1
    <3>2. CASE T # {}
      BY <3>2, <2>2, <2>1
    <3> QED BY <3>1, <3>2
  <2>4. \A T \in Stage(D, k) : T \in Stage(D, k + 1) /\ g[T] = h[T]
    <3> TAKE T \in Stage(D, k)
    <3>1. T \in Stage(D, k + 1)
      BY <1>0 DEF Stage
    <3>2. h[T] = IF T = {} THEN base ELSE G[<<h[T \ {Max(T)}], Max(T)>>]
      BY <2>1 DEF FoldsUpTo
    <3> QED BY <3>1, <3>2
  <2>5. FoldsUpTo(g, V, base, G, D)
    <3> SUFFICES ASSUME NEW T \in Stage(D, k + 1)
                 PROVE  g[T] = IF T = {} THEN base ELSE G[<<g[T \ {Max(T)}], Max(T)>>]
      BY DEF FoldsUpTo
    <3>1. CASE T = {}
      BY <3>1
    <3>2. CASE T # {}
      BY <3>2, <2>2, <2>4
    <3> QED BY <3>1, <3>2
  <2>6. \E f \in [Stage(D, k + 1) -> V] : FoldsUpTo(f, V, base, G, D)
    <3> HIDE DEF g, D
    <3> QED BY <2>3, <2>5
  <2> QED BY <2>6
<1>3. n \in S
  <2> HIDE DEF S
  <2> QED BY <1>1, <1>2, Climb
<1>4. Stage(D, n) = SUBSET D
  BY <1>0 DEF Stage
<1> QED BY <1>3, <1>4

\* A fold that stays in V: it is chosen as some function that is a fold.
FoldIs(h, base, G, n) ==
  h = [T \in SUBSET (1..n) |-> IF T = {} THEN base ELSE G[<<h[T \ {Max(T)}], Max(T)>>]]
StepsBy(h, V, base, G, n) ==
  /\ h[{}] = base
  /\ \A T \in SUBSET (1..n) : T # {} /\ h[T \ {Max(T)}] \in V => h[T] = G[<<h[T \ {Max(T)}], Max(T)>>]

LEMMA FoldStays ==
  ASSUME NEW V, NEW base \in V, NEW n \in Nat, NEW G \in [V \X (1..n) -> V], NEW h,
         StepsBy(h, V, base, G, n)
  PROVE  h[1..n] \in V
<1> DEFINE D == 1..n
           S == {k \in Nat : \A T \in Stage(D, k) : h[T] \in V}
<1>0. /\ \A T \in SUBSET D : Cardinality(T) \in Nat /\ Cardinality(T) <= n
      /\ \A T \in SUBSET D : \A x \in T : Cardinality(T \ {x}) = Cardinality(T) - 1
      /\ \A T \in SUBSET D : (Cardinality(T) = 0 <=> T = {})
  BY PartsOf
<1>a. /\ h[{}] = base
      /\ \A T \in SUBSET D : T # {} /\ h[T \ {Max(T)}] \in V => h[T] = G[<<h[T \ {Max(T)}], Max(T)>>]
  BY DEF StepsBy
<1>1. 0 \in S
  <2>1. \A T \in Stage(D, 0) : T = {}
    BY <1>0 DEF Stage
  <2> QED BY <2>1, <1>a
<1>2. ASSUME NEW k \in Nat, \A T \in Stage(D, k) : h[T] \in V, NEW T \in Stage(D, k + 1)
      PROVE  h[T] \in V
  <2>1. T \in SUBSET D /\ Cardinality(T) <= k + 1
    BY DEF Stage
  <2>2. CASE T = {}
    BY <2>2, <1>a
  <2>3. CASE T # {}
    <3>1. Max(T) \in T /\ Max(T) \in D
      BY <2>1, <2>3, MaxIn
    <3>2. T \ {Max(T)} \in Stage(D, k)
      <4>1. Cardinality(T \ {Max(T)}) = Cardinality(T) - 1 /\ Cardinality(T) \in Nat
        BY <2>1, <3>1, <1>0
      <4>2. T \ {Max(T)} \in SUBSET D
        BY <2>1
      <4> QED BY <4>1, <4>2, <2>1 DEF Stage
    <3>3. h[T \ {Max(T)}] \in V
      BY <1>2, <3>2
    <3>4. h[T] = G[<<h[T \ {Max(T)}], Max(T)>>]
      BY <2>1, <2>3, <3>3, <1>a
    <3> QED BY <3>1, <3>3, <3>4
  <2> QED BY <2>2, <2>3
<1>3. n \in S
  <2>1. \A k \in Nat : k \in S => k + 1 \in S
    BY <1>2
  <2> HIDE DEF S
  <2> QED BY <1>1, <2>1, Climb
<1>4. D \in Stage(D, n)
  BY <1>0 DEF Stage
<1> QED BY <1>3, <1>4

LEMMA FoldIn ==
  ASSUME NEW V, NEW base \in V, NEW n \in Nat, NEW G \in [V \X (1..n) -> V], NEW h,
         (\E f \in [SUBSET (1..n) -> V] : FoldIs(f, base, G, n)) => StepsBy(h, V, base, G, n)
  PROVE  h[1..n] \in V
<1>1. PICK f \in [SUBSET (1..n) -> V] : FoldsUpTo(f, V, base, G, 1..n)
  BY FoldExists
<1>2. FoldIs(f, base, G, n)
  BY <1>1 DEF FoldsUpTo, FoldIs
<1> QED BY <1>2, FoldStays

-----------------------------------------------------------------------------
(* The invariant *)

FabNames == {None} \cup Supported \cup UNION {Range(q.fabs) : q \in Recognised}
KeyNames ==
  {None} \cup Areas \cup {q[key] : q \in Recognised, key \in Keys \ {"process"}}
         \cup {PanelKey(p, key) : p \in Panels, key \in Keys}
KeyScopes == {keys \in [Keys -> KeyNames] : keys["process"] \in Areas \cup {None}}
RunRecord ==
  [question : Recognised, panel : Panels, seen : Nat, pc : {"running", "stored", "failed"},
   fab : FabNames, fabs : Seq(FabNames), keys : KeyScopes, areas : SUBSET Areas,
   period : Periods \cup {None}, unclear : BOOLEAN]
Typed == [fab : Supported \cup {None}, areas : SUBSET Areas]
ToldRecord ==
  [of : Nat, status : {"succeeded", "needs_clarification", "failed"}, result : Typed,
   fabIds : Seq(FabNames), queryAreas : SUBSET Areas, queryPeriod : Periods \cup {None}]

\* Runs and exchanges, and how they hang together: a run has seen exchanges there
\* are, an exchange is of a run that began before it, and of one only.
Records ==
  /\ runs \in Seq(RunRecord) /\ told \in Seq(ToldRecord)
  /\ \A i \in DOMAIN runs : runs[i].seen <= Len(told)
  /\ \A n \in DOMAIN told :
       /\ told[n].of \in DOMAIN runs /\ runs[told[n].of].pc = "stored" /\ runs[told[n].of].seen < n
       /\ told[n].result = NoTypedResult \/ told[n].result.fab \in Supported
  /\ \A m, n \in DOMAIN told : told[m].of = told[n].of => m = n

\* The runs that were under way when exchange n was stored, those that failed
\* meanwhile left out: fewer than MaxOpen.
Beside(n) ==
  {i \in DOMAIN runs :
     /\ runs[i].seen < n
     /\ runs[i].pc = "running" \/ \E m \in DOMAIN told : m > n /\ told[m].of = i}
FewBeside ==
  /\ Cardinality(Running) <= MaxOpen
  /\ \A n \in DOMAIN told : Cardinality(Beside(n)) < MaxOpen

FabAt(n) == runs[told[n].of].fab
KeyAt(n, key) == runs[told[n].of].keys[key]
AskedAt(n) == Asked(told[n])
SaysFab(s) == {n \in 1..s : FabAt(n) # None}
SaysKey(s, key) == {n \in 1..s : KeyAt(n, key) # None \/ Frees(AskedAt(n), key)}
Begins(s) == {n \in 1..s : ~GoesOn(AskedAt(n))}

\* What FabMeant, KeyMeant and PeriodMeant say of one run, given what the runs
\* before it have.
FabNext(run) ==
  LET chosen == /\ run.panel.fab # None
                /\ run.seen = 0 \/ run.panel.fab # runs[told[run.seen].of].panel.fab
  IN CASE run.question.fabs # <<>> -> run.question.fabs[1]
       [] run.question.fabs = <<>> /\ run.fabs # <<>> -> run.fabs[1]
       [] run.question.fabs = <<>> /\ run.fabs = <<>> ->
            IF chosen \/ SaysFab(run.seen) = {} THEN run.panel.fab ELSE FabAt(Max(SaysFab(run.seen)))
TheOne(areas) == CHOOSE area \in areas : TRUE
KeyNext(run, key) ==
  LET says == SaysKey(run.seen, key)
  IN IF key = "process" /\ Cardinality(run.areas) = 1 THEN TheOne(run.areas)
     ELSE IF NamedKey(run.question, key) # None THEN NamedKey(run.question, key)
     ELSE IF Frees(run.question, key) THEN None
     ELSE IF PanelKey(run.panel, key) # None THEN PanelKey(run.panel, key)
     ELSE IF says = {} \/ Frees(AskedAt(Max(says)), key) THEN None
     ELSE KeyAt(Max(says), key)
PeriodUpTo(s) == IF Begins(s) = {} THEN None ELSE AskedAt(Max(Begins(s))).period

\* Where areas and FABs nobody named may come from, of the first s exchanges.
AreasFrom(areas, s) ==
  areas = {} \/ \E n \in 1..s : areas \in {AskedAt(n).areas, told[n].result.areas}
FabEarned(fab, s) ==
  /\ fab \in Supported
  /\ \E n \in 1..s : /\ told[n].status = "succeeded"
                     /\ fab \in {FabAt(n)} \cup Range(runs[told[n].of].fabs)
RunSound(run) ==
  /\ run.fab = FabNext(run)
  /\ \A key \in Keys : run.keys[key] = KeyNext(run, key)
  /\ run.period = IF GoesOn(run.question) THEN PeriodUpTo(run.seen) ELSE run.question.period
  /\ run.areas = run.question.areas \/ AreasFrom(run.areas, run.seen)
  /\ run.question.fabs # <<>> => run.fabs = run.question.fabs
  /\ run.question.fabs = <<>> /\ run.fabs # <<>> =>
       /\ Len(run.fabs) >= 2 /\ IsInjective(run.fabs)
       /\ \A fab \in Range(run.fabs) : FabEarned(fab, run.seen)
ToldSound(n) ==
  /\ told[n].queryPeriod = PeriodUpTo(n)
  /\ AreasFrom(told[n].queryAreas, n)
  /\ \A fab \in Range(told[n].fabIds) : fab \in Range(AskedAt(n).fabs) \/ FabEarned(fab, n - 1)
ScopeIInv ==
  /\ Records
  /\ FewBeside
  /\ \A i \in DOMAIN runs : RunSound(runs[i])
  /\ \A n \in DOMAIN told : ToldSound(n)

-----------------------------------------------------------------------------
(* What the memory holds *)

LEMMA RunsAre ==
  ASSUME Records
  PROVE  /\ Len(runs) \in Nat /\ DOMAIN runs = 1..Len(runs) /\ \A i \in DOMAIN runs : runs[i] \in RunRecord
         /\ Len(told) \in Nat /\ DOMAIN told = 1..Len(told) /\ \A n \in DOMAIN told : told[n] \in ToldRecord
         /\ \A n \in DOMAIN told : runs[told[n].of] \in RunRecord
<1>1. /\ Len(runs) \in Nat /\ DOMAIN runs = 1..Len(runs) /\ runs \in [1..Len(runs) -> RunRecord]
      /\ Len(told) \in Nat /\ DOMAIN told = 1..Len(told) /\ told \in [1..Len(told) -> ToldRecord]
  BY LenProperties DEF Records
<1>2. \A n \in DOMAIN told : told[n].of \in DOMAIN runs
  BY DEF Records
<1> QED BY <1>1, <1>2

Dropped == IF Len(told) <= Window THEN 0 ELSE Len(told) - Window

\* The memory is what follows the exchanges it dropped.
LEMMA HistoryIs ==
  ASSUME Records
  PROVE  /\ Dropped \in 0..Len(told) /\ Len(History(told)) = Len(told) - Dropped
         /\ Len(told) > 0 => Dropped < Len(told)
         /\ Dropped > 0 => Dropped + Window = Len(told)
         /\ History(told) \in Seq(ToldRecord)
         /\ DOMAIN History(told) = 1..(Len(told) - Dropped)
         /\ \A k \in 1..(Len(told) - Dropped) : History(told)[k] = told[Dropped + k]
         /\ (History(told) = <<>>) <=> (Len(told) = 0)
         /\ Len(told) > 0 => Last(History(told)) = told[Len(told)]
<1> DEFINE L == Len(told)
<1>1. L \in Nat /\ told \in Seq(ToldRecord) /\ DOMAIN told = 1..L /\ \A n \in 1..L : told[n] \in ToldRecord
  BY RunsAre DEF Records
<1>2. Window \in Nat \ {0}
  BY ScopeBounds
<1>3. CASE L <= Window
  <2>1. History(told) = told /\ Dropped = 0
    BY <1>3 DEF History, Dropped
  <2>2. (told = <<>>) <=> (L = 0)
    BY <1>1, EmptySeq
  <2> QED BY <1>1, <2>1, <2>2 DEF Last
<1>4. CASE ~(L <= Window)
  <2> DEFINE h == SubSeq(told, L - Window + 1, L)
  <2>1. History(told) = h /\ Dropped = L - Window
    BY <1>4 DEF History, Dropped
  <2>2. /\ h \in Seq(ToldRecord) /\ Len(h) = Window
        /\ \A k \in 1..Window : h[k] = told[L - Window + k]
    <3>1. \A k \in (L - Window + 1)..L : told[k] \in ToldRecord
      BY <1>1, <1>2, <1>4
    <3>2. L - Window + 1 \in Int /\ L \in Int /\ L - (L - Window + 1) + 1 = Window
      BY <1>1, <1>2
    <3> HIDE DEF L, h
    <3>3. /\ SubSeq(told, L - Window + 1, L) \in Seq(ToldRecord)
          /\ Len(SubSeq(told, L - Window + 1, L)) = IF L - Window + 1 <= L THEN L - (L - Window + 1) + 1 ELSE 0
          /\ \A i \in 1..(L - (L - Window + 1) + 1) : SubSeq(told, L - Window + 1, L)[i] = told[(L - Window + 1) + i - 1]
      BY <3>1, <3>2, SubSeqProperties
    <3>4. \A k \in 1..Window : (L - Window + 1) + k - 1 = L - Window + k
      BY <3>2, <1>2
    <3> QED BY <3>2, <3>3, <3>4, <1>1, <1>2 DEF h, L
  <2> HIDE DEF h
  <2>3. DOMAIN h = 1..Window /\ h # <<>>
    BY <2>2, <1>2, LenProperties, EmptySeq
  <2>4. L - Dropped = Window
    BY <2>1, <1>1, <1>2
  <2> QED BY <1>1, <1>2, <1>4, <2>1, <2>2, <2>3, <2>4 DEF Last
<1> QED BY <1>3, <1>4

\* The newest of the places P of 1..n, looked for after the first off.
LEMMA Newest ==
  ASSUME NEW n \in Nat, NEW off \in 0..n, NEW P \in SUBSET (1..n),
         NEW Q \in SUBSET (1..(n - off)), \A k \in 1..(n - off) : k \in Q <=> off + k \in P
  PROVE  /\ Q # {} => P # {} /\ off + Max(Q) = Max(P)
         /\ P # {} /\ Max(P) > off => Q # {}
<1>1. P # {} => Max(P) \in P /\ \A p \in P : p <= Max(P)
  BY MaxIn
<1>2. Q \in SUBSET (1..(n - off)) /\ n - off \in Nat
  OBVIOUS
<1>3. Q # {} => Max(Q) \in Q /\ \A q \in Q : q <= Max(Q)
  BY <1>2, MaxIn
<1>4. ASSUME P # {}, Max(P) > off PROVE Q # {}
  <2> DEFINE a == Max(P)
  <2>1. a \in P /\ a > off
    BY <1>1, <1>4
  <2> HIDE DEF a
  <2>2. a - off \in 1..(n - off) /\ off + (a - off) = a
    BY <2>1
  <2> QED BY <2>1, <2>2
<1>5. ASSUME Q # {} PROVE P # {} /\ off + Max(Q) = Max(P)
  <2> DEFINE a == Max(P)
             b == Max(Q)
  <2>1. b \in 1..(n - off) /\ off + b \in P /\ \A q \in Q : q <= b
    BY <1>3, <1>5
  <2>2. a \in P /\ \A p \in P : p <= a
    BY <1>1, <2>1
  <2> HIDE DEF a, b
  <2>3. off + b <= a /\ a \in 1..n
    BY <2>1, <2>2
  <2>4. a - off \in 1..(n - off) /\ off + (a - off) = a
    BY <2>1, <2>3
  <2>5. a - off \in Q
    BY <2>4, <2>2
  <2>6. a - off <= b
    BY <2>1, <2>5
  <2> QED BY <2>1, <2>2, <2>3, <2>6 DEF a, b
<1> QED BY <1>4, <1>5

\* Of the exchanges stored after one that the memory dropped, one was begun with
\* it: there are at least MaxOpen of them, and fewer were under way beside it.
LEMMA SomeSaw ==
  ASSUME Records, FewBeside, NEW n \in DOMAIN told, n + Window <= Len(told)
  PROVE  \E m \in (n + 1)..Len(told) : runs[told[m].of].seen >= n
<1> SUFFICES ASSUME \A m \in (n + 1)..Len(told) : ~(runs[told[m].of].seen >= n) PROVE FALSE
  OBVIOUS
<1> DEFINE D == (n + 1)..Len(told)
           f == [m \in D |-> told[m].of]
           B == Beside(n)
<1>1. /\ Len(told) \in Nat /\ DOMAIN told = 1..Len(told) /\ n \in Nat
      /\ Len(runs) \in Nat /\ DOMAIN runs = 1..Len(runs)
      /\ \A m \in DOMAIN told : runs[told[m].of] \in RunRecord /\ told[m].of \in DOMAIN runs
  BY RunsAre DEF Records
<1>2. Window \in Nat \ {0} /\ MaxOpen \in 1..Window
  BY ScopeBounds
<1>3. \A m \in D : m \in DOMAIN told /\ m > n
  BY <1>1
<1>4. \A m \in D : told[m].of \in B
  <2> TAKE m \in D
  <2>1. runs[told[m].of].seen \in Nat /\ told[m].of \in DOMAIN runs
    BY <1>1, <1>3 DEF RunRecord
  <2>2. runs[told[m].of].seen < n
    BY <2>1, <1>1
  <2> QED BY <2>1, <2>2, <1>3 DEF Beside
<1>5. \A k, m \in D : told[k].of = told[m].of => k = m
  BY <1>3 DEF Records
<1>6. f \in Injection(D, B)
  BY <1>4, <1>5 DEF Injection, IsInjective
<1>7. IsFiniteSet(B) /\ Cardinality(B) \in Nat
  <2>1. IsFiniteSet(1..Len(runs))
    BY <1>1, FS_Interval
  <2>2. B \subseteq 1..Len(runs)
    BY <1>1 DEF Beside
  <2> HIDE DEF B
  <2> QED BY <2>1, <2>2, FS_Subset, FS_CardinalityType
<1>8. Cardinality(D) = Len(told) - n
  <2> HIDE DEF D, f, B
  <2>1. n + 1 \in Int /\ Len(told) \in Int /\ ~(n + 1 > Len(told)) /\ Len(told) - (n + 1) + 1 = Len(told) - n
    BY <1>1, <1>2
  <2>2. Cardinality((n + 1)..Len(told)) = IF n + 1 > Len(told) THEN 0 ELSE Len(told) - (n + 1) + 1
    BY <2>1, FS_Interval
  <2> QED BY <2>1, <2>2 DEF D
<1>9. Cardinality(B) < MaxOpen
  BY DEF FewBeside
<1> HIDE DEF D, f, B
<1>10. Cardinality(D) <= Cardinality(B)
  BY <1>6, <1>7, FS_Injection
<1> QED BY <1>1, <1>2, <1>7, <1>8, <1>9, <1>10

-----------------------------------------------------------------------------
(* What was said last is in the memory, or was set free *)

\* A run that saw something said of its FAB has one.
LEMMA FabGoesOn ==
  ASSUME Records, NEW i \in DOMAIN runs, RunSound(runs[i]), SaysFab(runs[i].seen) # {}
  PROVE  runs[i].fab # None
<1> DEFINE run == runs[i]
           says == SaysFab(run.seen)
<1>1. /\ run \in RunRecord /\ run.seen <= Len(told) /\ run.seen \in Nat /\ run.question \in Recognised
      /\ run.fabs \in Seq(FabNames)
  BY RunsAre DEF Records, RunRecord
<1>2. says \subseteq 1..run.seen /\ \A n \in says : FabAt(n) # None
  BY DEF SaysFab
<1>3. FabAt(Max(says)) # None
  <2> HIDE DEF says, run
  <2>1. says # {}
    BY DEF says, run
  <2> QED BY <1>1, <1>2, <2>1, MaxIn
<1>4. run.fab = FabNext(run)
  BY DEF RunSound
<1>5. CASE run.question.fabs # <<>>
  <2>1. run.question.fabs \in Seq(ToSet(run.question.fabs)) /\ None \notin Range(run.question.fabs)
    BY <1>1, ScopeAssumption DEF IsList
  <2>2. 1 \in DOMAIN run.question.fabs
    BY <2>1, <1>5, EmptySeq, LenProperties
  <2>3. run.question.fabs[1] # None
    BY <2>1, <2>2 DEF Range
  <2> QED BY <1>4, <1>5, <2>3 DEF FabNext
<1>6. CASE run.question.fabs = <<>> /\ run.fabs # <<>>
  <2>1. 1 \in DOMAIN run.fabs
    BY <1>1, <1>6, EmptySeq, LenProperties
  <2>2. \A fab \in Range(run.fabs) : fab \in Supported
    BY <1>6 DEF RunSound, FabEarned
  <2>3. run.fabs[1] # None
    BY <2>1, <2>2, ScopeAssumption DEF Range
  <2> QED BY <1>4, <1>6, <2>3 DEF FabNext
<1>7. CASE run.question.fabs = <<>> /\ run.fabs = <<>>
  <2>1. (run.fab = run.panel.fab /\ run.panel.fab # None) \/ run.fab = FabAt(Max(says))
    BY <1>4, <1>7 DEF FabNext
  <2> QED BY <2>1, <1>3
<1> QED BY <1>5, <1>6, <1>7

LEMMA FabKept ==
  ASSUME Records, FewBeside, \A i \in DOMAIN runs : RunSound(runs[i]), SaysFab(Len(told)) # {}
  PROVE  Max(SaysFab(Len(told))) > Dropped
<1> DEFINE L == Len(told)
           n == Max(SaysFab(L))
<1>1. L \in Nat /\ DOMAIN told = 1..L
  BY RunsAre
<1>2. n \in SaysFab(L) /\ \A m \in SaysFab(L) : m <= n
  <2>1. SaysFab(L) \in SUBSET (1..L)
    BY DEF SaysFab
  <2> QED BY <2>1, <1>1, MaxIn
<1> HIDE DEF n
<1>3. n \in 1..L /\ FabAt(n) # None
  BY <1>2 DEF SaysFab
<1> SUFFICES ASSUME ~(n > Dropped) PROVE FALSE
  BY DEF n
<1>a0. ~(n > Dropped)
  OBVIOUS
<1> HIDE DEF L
<1>4. Dropped \in 0..L /\ (Dropped > 0 => Dropped + Window = L)
  BY HistoryIs DEF L
<1>5. n + Window <= L
  <2>1. n \in Nat /\ n > 0 /\ n <= L
    BY <1>1, <1>3
  <2>2. Window \in Nat /\ Dropped \in Nat
    BY <1>1, <1>4, ScopeBounds
  <2>3. n <= Dropped
    BY <2>1, <2>2, <1>a0
  <2> QED BY <2>1, <2>2, <2>3, <1>1, <1>4
<1>6. PICK m \in (n + 1)..L : runs[told[m].of].seen >= n
  BY <1>1, <1>3, <1>5, SomeSaw DEF L
<1> DEFINE i == told[m].of
<1>7. m \in DOMAIN told /\ i \in DOMAIN runs /\ runs[i].seen \in Nat
  <2>1. m \in DOMAIN told
    BY <1>1, <1>3, <1>6
  <2> QED BY <2>1, RunsAre DEF Records, RunRecord, L
<1>8. n \in SaysFab(runs[i].seen)
  BY <1>3, <1>6, <1>7, <1>1 DEF SaysFab
<1>9. FabAt(m) # None
  BY <1>7, <1>8, FabGoesOn DEF FabAt
<1>10. m \in SaysFab(L)
  BY <1>9, <1>7, <1>1 DEF SaysFab
<1> QED BY <1>10, <1>2, <1>3, <1>6, <1>1

\* A key that was said last, and not set free, is said by every run that saw it.
LEMMA KeyGoesOn ==
  ASSUME Records, NEW i \in DOMAIN runs, RunSound(runs[i]), NEW key \in Keys,
         SaysKey(runs[i].seen, key) # {}, ~Frees(AskedAt(Max(SaysKey(runs[i].seen, key))), key)
  PROVE  runs[i].keys[key] # None \/ Frees(runs[i].question, key)
<1> DEFINE run == runs[i]
           says == SaysKey(run.seen, key)
<1>1. /\ run \in RunRecord /\ run.seen <= Len(told) /\ run.seen \in Nat /\ run.areas \in SUBSET Areas
  BY RunsAre DEF Records, RunRecord
<1>2. says \subseteq 1..run.seen /\ \A n \in says : KeyAt(n, key) # None \/ Frees(AskedAt(n), key)
  BY DEF SaysKey
<1>3. Max(says) \in says
  <2> HIDE DEF says, run
  <2>1. says # {}
    BY DEF says, run
  <2> QED BY <1>1, <1>2, <2>1, MaxIn
<1>4. KeyAt(Max(says), key) # None
  BY <1>2, <1>3
<1>5. run.keys[key] = KeyNext(run, key)
  BY DEF RunSound
<1>6. key = "process" /\ Cardinality(run.areas) = 1 => TheOne(run.areas) # None
  <2> SUFFICES ASSUME Cardinality(run.areas) = 1 PROVE TheOne(run.areas) # None
    OBVIOUS
  <2>1. run.areas # {}
    BY FS_EmptySet
  <2>2. TheOne(run.areas) \in run.areas
    BY <2>1 DEF TheOne
  <2> QED BY <2>2, <1>1, ScopeAssumption
<1> HIDE DEF says
<1>7. \/ key = "process" /\ Cardinality(run.areas) = 1 /\ run.keys[key] = TheOne(run.areas)
      \/ Frees(run.question, key)
      \/ run.keys[key] = NamedKey(run.question, key) /\ NamedKey(run.question, key) # None
      \/ run.keys[key] = PanelKey(run.panel, key) /\ PanelKey(run.panel, key) # None
      \/ run.keys[key] = KeyAt(Max(says), key)
  BY <1>5 DEF KeyNext, says
<1> QED BY <1>4, <1>6, <1>7

LEMMA KeyKept ==
  ASSUME Records, FewBeside, \A i \in DOMAIN runs : RunSound(runs[i]), NEW key \in Keys,
         SaysKey(Len(told), key) # {}, ~Frees(AskedAt(Max(SaysKey(Len(told), key))), key)
  PROVE  Max(SaysKey(Len(told), key)) > Dropped
<1> DEFINE L == Len(told)
           n == Max(SaysKey(L, key))
<1>1. L \in Nat /\ DOMAIN told = 1..L
  BY RunsAre
<1>2. n \in SaysKey(L, key) /\ \A m \in SaysKey(L, key) : m <= n
  <2>1. SaysKey(L, key) \in SUBSET (1..L)
    BY DEF SaysKey
  <2> QED BY <2>1, <1>1, MaxIn
<1>a. ~Frees(AskedAt(n), key)
  OBVIOUS
<1> HIDE DEF n
<1>3. n \in 1..L /\ KeyAt(n, key) # None
  BY <1>2, <1>a DEF SaysKey
<1> SUFFICES ASSUME ~(n > Dropped) PROVE FALSE
  BY DEF n
<1>a0. ~(n > Dropped)
  OBVIOUS
<1> HIDE DEF L
<1>4. Dropped \in 0..L /\ (Dropped > 0 => Dropped + Window = L)
  BY HistoryIs DEF L
<1>5. n + Window <= L
  <2>1. n \in Nat /\ n > 0 /\ n <= L
    BY <1>1, <1>3
  <2>2. Window \in Nat /\ Dropped \in Nat
    BY <1>1, <1>4, ScopeBounds
  <2>3. n <= Dropped
    BY <2>1, <2>2, <1>a0
  <2> QED BY <2>1, <2>2, <2>3, <1>1, <1>4
<1>6. PICK m \in (n + 1)..L : runs[told[m].of].seen >= n
  BY <1>1, <1>3, <1>5, SomeSaw DEF L
<1> DEFINE i == told[m].of
           s == runs[i].seen
<1>7. m \in DOMAIN told /\ i \in DOMAIN runs /\ s \in Nat /\ s <= L
  <2>1. m \in DOMAIN told
    BY <1>1, <1>3, <1>6
  <2> QED BY <2>1, RunsAre DEF Records, RunRecord, L
<1>8. n \in SaysKey(s, key) /\ Max(SaysKey(s, key)) = n
  <2> HIDE DEF s, i
  <2>1. n \in SaysKey(s, key)
    BY <1>2, <1>3, <1>6, <1>7, <1>1 DEF SaysKey, s, i
  <2>2. SaysKey(s, key) \subseteq SaysKey(L, key) /\ SaysKey(s, key) \in SUBSET (1..s)
    BY <1>7, <1>1 DEF SaysKey
  <2>3. \A m2 \in SaysKey(s, key) : m2 <= n
    BY <2>2, <1>2
  <2>4. Max(SaysKey(s, key)) \in SaysKey(s, key) /\ n <= Max(SaysKey(s, key))
    BY <2>1, <2>2, <1>7, MaxIn
  <2>5. Max(SaysKey(s, key)) <= n
    BY <2>3, <2>4
  <2>6. Max(SaysKey(s, key)) \in Nat
    BY <2>2, <2>4
  <2> QED BY <2>1, <2>4, <2>5, <2>6, <1>3
<1>9. KeyAt(m, key) # None \/ Frees(AskedAt(m), key)
  <2>1. runs[i].keys[key] # None \/ Frees(runs[i].question, key)
    BY <1>7, <1>8, <1>a, KeyGoesOn
  <2> QED BY <2>1 DEF KeyAt, AskedAt, Asked
<1>10. m \in SaysKey(L, key)
  BY <1>9, <1>7, <1>1 DEF SaysKey
<1> QED BY <1>10, <1>2, <1>3, <1>6, <1>1

\* So looking through the memory finds what looking through all would.
LEMMA InferredIs ==
  ASSUME Records, FewBeside, \A i \in DOMAIN runs : RunSound(runs[i])
  PROVE  /\ InferredFab(History(told)) =
              IF SaysFab(Len(told)) = {} THEN None ELSE FabAt(Max(SaysFab(Len(told))))
         /\ \A key \in Keys : Inferred(History(told), key) =
              LET says == SaysKey(Len(told), key)
              IN IF says = {} \/ Frees(AskedAt(Max(says)), key) THEN None ELSE KeyAt(Max(says), key)
<1> DEFINE L == Len(told)
           h == History(told)
<1>1. /\ L \in Nat /\ Dropped \in 0..L /\ DOMAIN h = 1..(L - Dropped)
      /\ \A k \in 1..(L - Dropped) : h[k] = told[Dropped + k]
  BY RunsAre, HistoryIs
<1> HIDE DEF L, h
<1>b. L \in Nat /\ Dropped \in 0..L
  BY <1>1
<1>2. InferredFab(h) = IF SaysFab(L) = {} THEN None ELSE FabAt(Max(SaysFab(L)))
  <2> DEFINE P == SaysFab(L)
             Q == {n \in DOMAIN h : runs[h[n].of].fab # None}
  <2>1. P \in SUBSET (1..L) /\ Q = {k \in 1..(L - Dropped) : Dropped + k \in P}
    <3>1. \A k \in 1..(L - Dropped) : Dropped + k \in 1..L /\ FabAt(Dropped + k) = runs[h[k].of].fab
      BY <1>1 DEF FabAt
    <3> QED BY <3>1, <1>1 DEF SaysFab
  <2>2. P # {} => Max(P) > Dropped
    BY FabKept DEF L
  <2>3. InferredFab(h) = IF Q = {} THEN None ELSE runs[h[Max(Q)].of].fab
    BY DEF InferredFab
  <2>4. Q # {} => Max(Q) \in Q
    <3>1. Q \in SUBSET (1..(L - Dropped)) /\ L - Dropped \in Nat
      BY <1>1
    <3> HIDE DEF Q
    <3> QED BY <3>1, MaxIn
  <2>a. /\ P \in SUBSET (1..L) /\ Q \in SUBSET (1..(L - Dropped))
        /\ \A k \in 1..(L - Dropped) : k \in Q <=> Dropped + k \in P
    BY <2>1
  <2> HIDE DEF P, Q
  <2>5. (Q = {} <=> P = {}) /\ (Q # {} => Dropped + Max(Q) = Max(P))
    <3>1. /\ Q # {} => P # {} /\ Dropped + Max(Q) = Max(P)
          /\ P # {} /\ Max(P) > Dropped => Q # {}
      BY ONLY <1>b, <2>a, Newest
    <3> QED BY <3>1, <2>2
  <2>6. Q # {} => runs[h[Max(Q)].of].fab = FabAt(Max(P))
    BY <2>1, <2>4, <2>5, <1>1 DEF FabAt
  <2> QED BY <2>3, <2>5, <2>6 DEF P
<1>3. ASSUME NEW key \in Keys
      PROVE  Inferred(h, key) =
              LET says == SaysKey(L, key)
              IN IF says = {} \/ Frees(AskedAt(Max(says)), key) THEN None ELSE KeyAt(Max(says), key)
  <2> DEFINE P == SaysKey(L, key)
             Q == {n \in DOMAIN h : runs[h[n].of].keys[key] # None \/ key \in Resets(Asked(h[n]))}
  <2>0. \A q : key \in Resets(q) <=> Frees(q, key)
    BY DEF Resets, Frees, Keys
  <2>1. P \in SUBSET (1..L) /\ Q = {k \in 1..(L - Dropped) : Dropped + k \in P}
    <3>1. \A k \in 1..(L - Dropped) :
            /\ Dropped + k \in 1..L /\ KeyAt(Dropped + k, key) = runs[h[k].of].keys[key]
            /\ AskedAt(Dropped + k) = Asked(h[k])
      BY <1>1 DEF KeyAt, AskedAt
    <3> QED BY <3>1, <1>1, <2>0 DEF SaysKey
  <2>2. P # {} /\ ~Frees(AskedAt(Max(P)), key) => Max(P) > Dropped
    BY KeyKept DEF L
  <2>3. Inferred(h, key) = IF Q = {} \/ key \in Resets(Asked(h[Max(Q)])) THEN None ELSE runs[h[Max(Q)].of].keys[key]
    BY DEF Inferred
  <2>4. Q # {} => Max(Q) \in Q
    <3>1. Q \in SUBSET (1..(L - Dropped)) /\ L - Dropped \in Nat
      BY <1>1
    <3> HIDE DEF Q
    <3> QED BY <3>1, MaxIn
  <2>a. /\ P \in SUBSET (1..L) /\ Q \in SUBSET (1..(L - Dropped))
        /\ \A k \in 1..(L - Dropped) : k \in Q <=> Dropped + k \in P
    BY <2>1
  <2> HIDE DEF P, Q
  <2>5. /\ Q # {} => P # {} /\ Dropped + Max(Q) = Max(P)
        /\ P # {} /\ Max(P) > Dropped => Q # {}
    <3> DEFINE d == Dropped
    <3>1. d \in 0..L /\ Q \in SUBSET (1..(L - d)) /\ \A k \in 1..(L - d) : k \in Q <=> d + k \in P
      BY <1>b, <2>a
    <3> HIDE DEF d
    <3>2. /\ Q # {} => P # {} /\ d + Max(Q) = Max(P)
          /\ P # {} /\ Max(P) > d => Q # {}
      BY <1>b, <2>a, <3>1, Newest
    <3> QED BY <3>2 DEF d
  <2>6. Q # {} => /\ runs[h[Max(Q)].of].keys[key] = KeyAt(Max(P), key)
                  /\ Asked(h[Max(Q)]) = AskedAt(Max(P))
    BY <2>1, <2>4, <2>5, <1>1 DEF KeyAt, AskedAt
  <2>7. Inferred(h, key) = IF P = {} \/ Frees(AskedAt(Max(P)), key) THEN None ELSE KeyAt(Max(P), key)
    BY <2>0, <2>2, <2>3, <2>5, <2>6
  <2> QED BY <2>7 DEF P
<1> QED BY <1>2, <1>3 DEF L, h


-----------------------------------------------------------------------------
(* The FABs of a comparison *)

\* Lists of supported FABs out of A, each once.
FabLists(A) == {f \in Seq(Supported) : IsInjective(f) /\ Range(f) \subseteq A}

LEMMA WithFabIn ==
  ASSUME NEW A, NEW f \in FabLists(A), NEW fab \in A
  PROVE  WithFab(f, fab) \in FabLists(A)
<1>1. f \in Seq(Supported) /\ IsInjective(f) /\ Range(f) \subseteq A
  BY DEF FabLists
<1>2. CASE ~(fab \in Supported /\ fab \notin Range(f))
  BY <1>2 DEF WithFab
<1>3. CASE fab \in Supported /\ fab \notin Range(f)
  <2> DEFINE g == <<fab>> \o f
             n == Len(f)
  <2>1. n \in Nat /\ DOMAIN f = 1..n
    BY <1>1, LenProperties
  <2>2. /\ g \in Seq(Supported) /\ Len(g) = n + 1
        /\ \A k \in 1..(n + 1) : g[k] = IF k <= 1 THEN <<fab>>[k] ELSE f[k - 1]
    <3>1. <<fab>> \in Seq(Supported) /\ Len(<<fab>>) = 1
      BY <1>3
    <3> HIDE DEF n
    <3> QED BY <1>1, <2>1, <3>1, ConcatProperties DEF n
  <2> HIDE DEF g, n
  <2>3. DOMAIN g = 1..(n + 1)
    BY <2>2, LenProperties
  <2>4. g[1] = fab /\ \A k \in 1..(n + 1) : k # 1 => k - 1 \in 1..n /\ g[k] = f[k - 1] /\ f[k - 1] \in Range(f)
    <3>1. g[1] = <<fab>>[1]
      <4>1. 1 \in 1..(n + 1) /\ 1 <= 1
        BY <2>1
      <4> QED BY <4>1, <2>2
    <3>2. ASSUME NEW k \in 1..(n + 1), k # 1 PROVE k - 1 \in 1..n /\ g[k] = f[k - 1] /\ f[k - 1] \in Range(f)
      <4>1. k - 1 \in 1..n /\ ~(k <= 1)
        BY <3>2, <2>1
      <4>2. g[k] = f[k - 1]
        BY <4>1, <2>2
      <4> QED BY <4>1, <4>2, <2>1 DEF Range
    <3> QED BY <3>1, <3>2
  <2>5. IsInjective(g)
    <3> SUFFICES ASSUME NEW a \in 1..(n + 1), NEW b \in 1..(n + 1), g[a] = g[b] PROVE a = b
      BY <2>3 DEF IsInjective
    <3>1. CASE a = 1 \/ b = 1
      BY <3>1, <2>4, <1>3
    <3>2. CASE a # 1 /\ b # 1
      <4>1. f[a - 1] = f[b - 1] /\ a - 1 \in 1..n /\ b - 1 \in 1..n
        BY <3>2, <2>4
      <4>2. a - 1 = b - 1
        BY <4>1, <1>1, <2>1 DEF IsInjective
      <4> QED BY <4>2, <2>1
    <3> QED BY <3>1, <3>2
  <2>6. Range(g) \subseteq A
    BY <2>3, <2>4, <1>1 DEF Range
  <2> QED BY <2>2, <2>5, <2>6, <1>3 DEF FabLists, WithFab, g
<1> QED BY <1>2, <1>3

\* A list turned round has the same members.
LEMMA ReverseIs ==
  ASSUME NEW S, NEW list \in Seq(S)
  PROVE  /\ Len(list) \in Nat /\ DOMAIN list = 1..Len(list) /\ DOMAIN Reverse(list) = 1..Len(list)
         /\ \A k \in 1..Len(list) : \E m \in DOMAIN list : Reverse(list)[k] = list[m]
<1>1. Len(list) \in Nat /\ DOMAIN list = 1..Len(list)
  BY LenProperties
<1>2. \A k \in 1..Len(list) : (Len(list) - k) + 1 \in 1..Len(list)
  BY <1>1
<1> QED BY <1>1, <1>2 DEF Reverse

LEMMA FabsAddedIn ==
  ASSUME NEW A, NEW found \in FabLists(A), NEW S, NEW list \in Seq(S), Range(list) \subseteq A
  PROVE  FoldLeft(WithFab, found, Reverse(list)) \in FabLists(A)
<1> DEFINE n == Len(list)
           r == Reverse(list)
           V == FabLists(A)
           Fold(f) == f = [T \in SUBSET (1..n) |-> IF T = {} THEN found ELSE WithFab(f[T \ {Max(T)}], r[Max(T)])]
           h == CHOOSE f : Fold(f)
           G == [p \in V \X (1..n) |-> WithFab(p[1], r[p[2]])]
<1>1. /\ n \in Nat /\ DOMAIN r = 1..n /\ \A k \in 1..n : r[k] \in A
  BY ReverseIs DEF Range
<1> HIDE DEF r
<1>2. FoldLeft(WithFab, found, r) = h[1..n]
  BY <1>1 DEF FoldLeft, MapThenFoldSet
<1>5. \A T \in SUBSET (1..n) : T # {} => Max(T) \in T /\ Max(T) \in 1..n
  BY <1>1, MaxIn
<1> HIDE DEF n
<1>6. \A f \in V, k \in 1..n : WithFab(f, r[k]) \in V
  BY <1>1, WithFabIn
<1> HIDE DEF V
<1>7. \A f \in V, k \in 1..n : G[<<f, k>>] = WithFab(f, r[k])
  OBVIOUS
<1>8. G \in [V \X (1..n) -> V]
  BY <1>6
<1> HIDE DEF G
<1>10. (\E f \in [SUBSET (1..n) -> V] : FoldIs(f, found, G, n)) => StepsBy(h, V, found, G, n)
  <2>1. ASSUME NEW f \in [SUBSET (1..n) -> V], FoldIs(f, found, G, n) PROVE Fold(f)
    <3>1. \A T \in SUBSET (1..n) : T # {} => f[T \ {Max(T)}] \in V /\ Max(T) \in 1..n
      BY <1>5
    <3>2. \A T \in SUBSET (1..n) : T # {} => G[<<f[T \ {Max(T)}], Max(T)>>] = WithFab(f[T \ {Max(T)}], r[Max(T)])
      BY <3>1, <1>7
    <3>3. \A T \in SUBSET (1..n) : f[T] = IF T = {} THEN found ELSE WithFab(f[T \ {Max(T)}], r[Max(T)])
      BY <2>1, <3>2 DEF FoldIs
    <3> QED BY <3>3, <2>1 DEF FoldIs
  <2>2. ASSUME Fold(h) PROVE StepsBy(h, V, found, G, n)
    <3> HIDE DEF h
    <3>1. \A T \in SUBSET (1..n) : h[T] = IF T = {} THEN found ELSE WithFab(h[T \ {Max(T)}], r[Max(T)])
      BY <2>2
    <3>2. \A T \in SUBSET (1..n) : T # {} /\ h[T \ {Max(T)}] \in V => h[T] = G[<<h[T \ {Max(T)}], Max(T)>>]
      BY <3>1, <1>5, <1>7
    <3>3. h[{}] = found
      BY <3>1
    <3> QED BY <3>2, <3>3 DEF StepsBy
  <2> HIDE DEF Fold
  <2> QED BY <2>1, <2>2
<1> HIDE DEF h
<1>11. found \in V
  BY DEF V
<1>12. h[1..n] \in V
  BY <1>1, <1>8, <1>10, <1>11, FoldIn
<1> QED BY <1>2, <1>12 DEF V, r

\* Found returns supported FABs, each once, out of the candidates of succeeded
\* exchanges.
LEMMA FoundIn ==
  ASSUME NEW A, NEW list \in Seq(ToldRecord),
         \A k \in DOMAIN list : list[k].status = "succeeded" =>
           Candidates(list[k]) \in Seq(FabNames) /\ Range(Candidates(list[k])) \subseteq A
  PROVE  Found(list) \in FabLists(A)
<1> DEFINE n == Len(list)
           r == Reverse(list)
           V == FabLists(A)
           Fold(f) == f = [T \in SUBSET (1..n) |-> IF T = {} THEN <<>> ELSE Visited(f[T \ {Max(T)}], r[Max(T)])]
           h == CHOOSE f : Fold(f)
           G == [p \in V \X (1..n) |-> Visited(p[1], r[p[2]])]
<1>1. /\ n \in Nat /\ DOMAIN r = 1..n
      /\ \A k \in 1..n : r[k].status = "succeeded" =>
           Candidates(r[k]) \in Seq(FabNames) /\ Range(Candidates(r[k])) \subseteq A
  <2>1. n \in Nat /\ DOMAIN r = 1..n /\ \A k \in 1..n : \E m \in DOMAIN list : r[k] = list[m]
    BY ReverseIs
  <2> HIDE DEF r, n
  <2>2. ASSUME NEW k \in 1..n, r[k].status = "succeeded"
        PROVE  Candidates(r[k]) \in Seq(FabNames) /\ Range(Candidates(r[k])) \subseteq A
    <3>1. PICK m \in DOMAIN list : r[k] = list[m]
      BY <2>1
    <3>2. list[m].status = "succeeded"
      BY <2>2, <3>1
    <3>3. Candidates(list[m]) \in Seq(FabNames) /\ Range(Candidates(list[m])) \subseteq A
      BY <3>2
    <3> QED BY <3>1, <3>3
  <2> QED BY <2>1, <2>2
<1> HIDE DEF r
<1>2. FoldLeft(Visited, <<>>, r) = h[1..n]
  BY <1>1 DEF FoldLeft, MapThenFoldSet
<1>5. \A T \in SUBSET (1..n) : T # {} => Max(T) \in T /\ Max(T) \in 1..n
  BY <1>1, MaxIn
<1> HIDE DEF n
<1>6. ASSUME NEW f \in V, NEW k \in 1..n PROVE Visited(f, r[k]) \in V
  <2>1. CASE Len(f) >= 2 \/ r[k].status # "succeeded"
    BY <2>1 DEF Visited
  <2>2. CASE ~(Len(f) >= 2 \/ r[k].status # "succeeded")
    <3>1. Candidates(r[k]) \in Seq(FabNames) /\ Range(Candidates(r[k])) \subseteq A
      BY <1>1, <2>2
    <3>2. FoldLeft(WithFab, f, Reverse(Candidates(r[k]))) \in V
      BY <3>1, FabsAddedIn
    <3>3. Visited(f, r[k]) = FoldLeft(WithFab, f, Reverse(Candidates(r[k])))
      BY <2>2 DEF Visited
    <3> QED BY <3>2, <3>3
  <2> QED BY <2>1, <2>2
<1>11. <<>> \in V
  BY EmptySeq DEF FabLists, IsInjective, Range
<1> HIDE DEF V
<1>7. \A f \in V, k \in 1..n : G[<<f, k>>] = Visited(f, r[k])
  OBVIOUS
<1>8. G \in [V \X (1..n) -> V]
  BY <1>6
<1> HIDE DEF G
<1>10. (\E f \in [SUBSET (1..n) -> V] : FoldIs(f, <<>>, G, n)) => StepsBy(h, V, <<>>, G, n)
  <2>1. ASSUME NEW f \in [SUBSET (1..n) -> V], FoldIs(f, <<>>, G, n) PROVE Fold(f)
    <3>1. \A T \in SUBSET (1..n) : T # {} => f[T \ {Max(T)}] \in V /\ Max(T) \in 1..n
      BY <1>5
    <3>2. \A T \in SUBSET (1..n) : T # {} => G[<<f[T \ {Max(T)}], Max(T)>>] = Visited(f[T \ {Max(T)}], r[Max(T)])
      BY <3>1, <1>7
    <3>3. \A T \in SUBSET (1..n) : f[T] = IF T = {} THEN <<>> ELSE Visited(f[T \ {Max(T)}], r[Max(T)])
      BY <2>1, <3>2 DEF FoldIs
    <3> QED BY <3>3, <2>1 DEF FoldIs
  <2>2. ASSUME Fold(h) PROVE StepsBy(h, V, <<>>, G, n)
    <3> HIDE DEF h
    <3>1. \A T \in SUBSET (1..n) : h[T] = IF T = {} THEN <<>> ELSE Visited(h[T \ {Max(T)}], r[Max(T)])
      BY <2>2
    <3>2. \A T \in SUBSET (1..n) : T # {} /\ h[T \ {Max(T)}] \in V => h[T] = G[<<h[T \ {Max(T)}], Max(T)>>]
      BY <3>1, <1>5, <1>7
    <3>3. h[{}] = <<>>
      BY <3>1
    <3> QED BY <3>2, <3>3 DEF StepsBy
  <2> HIDE DEF Fold
  <2> QED BY <2>1, <2>2
<1> HIDE DEF h
<1>12. h[1..n] \in V
  BY <1>1, <1>8, <1>10, <1>11, FoldIn
<1> QED BY <1>2, <1>12 DEF V, r, Found

-----------------------------------------------------------------------------
(* What is told stays told *)

\* No step takes a run or an exchange away, and of a run only its pc changes.
Grown ==
  /\ \A i \in DOMAIN runs :
       /\ i \in DOMAIN runs'
       /\ runs'[i].question = runs[i].question /\ runs'[i].panel = runs[i].panel
       /\ runs'[i].seen = runs[i].seen
       /\ runs'[i].fab = runs[i].fab /\ runs'[i].fabs = runs[i].fabs /\ runs'[i].keys = runs[i].keys
       /\ runs'[i].areas = runs[i].areas /\ runs'[i].period = runs[i].period
  /\ \A n \in DOMAIN told : n \in DOMAIN told' /\ told'[n] = told[n]

\* So what the first s exchanges say stays what they say.
LEMMA SaysStay ==
  ASSUME Records, Grown, NEW s \in 0..Len(told)
  PROVE  /\ \A n \in 1..s : FabAt(n)' = FabAt(n) /\ AskedAt(n)' = AskedAt(n) /\ told'[n] = told[n]
         /\ \A n \in 1..s : runs'[told'[n].of].fabs = runs[told[n].of].fabs
         /\ \A n \in 1..s : runs'[told'[n].of].panel = runs[told[n].of].panel
         /\ \A n \in 1..s, key \in Keys : KeyAt(n, key)' = KeyAt(n, key)
         /\ SaysFab(s)' = SaysFab(s) /\ Begins(s)' = Begins(s) /\ PeriodUpTo(s)' = PeriodUpTo(s)
         /\ SaysFab(s) # {} => FabAt(Max(SaysFab(s)))' = FabAt(Max(SaysFab(s)))
         /\ \A key \in Keys : SaysKey(s, key)' = SaysKey(s, key)
         /\ \A key \in Keys : SaysKey(s, key) # {} =>
              LET n == Max(SaysKey(s, key))
              IN n \in 1..s /\ KeyAt(n, key)' = KeyAt(n, key) /\ AskedAt(n)' = AskedAt(n)
         /\ \A areas : AreasFrom(areas, s) => AreasFrom(areas, s)'
         /\ \A fab : FabEarned(fab, s) => FabEarned(fab, s)'
<1>1. \A n \in 1..s : /\ n \in DOMAIN told /\ told'[n] = told[n] /\ told[n].of \in DOMAIN runs
  BY RunsAre DEF Records, Grown
<1>2. \A n \in 1..s : FabAt(n)' = FabAt(n) /\ AskedAt(n)' = AskedAt(n) /\ told'[n] = told[n]
  BY <1>1 DEF Grown, FabAt, AskedAt, Asked
<1>3. \A n \in 1..s, key \in Keys : KeyAt(n, key)' = KeyAt(n, key)
  BY <1>1 DEF Grown, KeyAt
<1>4. SaysFab(s)' = SaysFab(s) /\ Begins(s)' = Begins(s)
  BY <1>2 DEF SaysFab, Begins
<1>5. \A key \in Keys : SaysKey(s, key)' = SaysKey(s, key)
  BY <1>2, <1>3 DEF SaysKey
<1>6. s \in Nat /\ SaysFab(s) \in SUBSET (1..s) /\ Begins(s) \in SUBSET (1..s) /\ \A key \in Keys : SaysKey(s, key) \in SUBSET (1..s)
  BY RunsAre DEF SaysFab, Begins, SaysKey
<1>7. SaysFab(s) # {} => FabAt(Max(SaysFab(s)))' = FabAt(Max(SaysFab(s)))
  <2> SUFFICES ASSUME SaysFab(s) # {} PROVE FabAt(Max(SaysFab(s)))' = FabAt(Max(SaysFab(s)))
    OBVIOUS
  <2> DEFINE n == Max(SaysFab(s))
  <2>1. n \in 1..s /\ n' = n
    BY <1>4, <1>6, MaxIn
  <2> QED BY <2>1, <1>1 DEF FabAt, Grown
<1>8. Begins(s) # {} => AskedAt(Max(Begins(s)))' = AskedAt(Max(Begins(s)))
  <2> SUFFICES ASSUME Begins(s) # {} PROVE AskedAt(Max(Begins(s)))' = AskedAt(Max(Begins(s)))
    OBVIOUS
  <2> DEFINE n == Max(Begins(s))
  <2>1. n \in 1..s /\ n' = n
    BY <1>4, <1>6, MaxIn
  <2> QED BY <2>1, <1>1 DEF AskedAt, Asked, Grown
<1>9. PeriodUpTo(s)' = PeriodUpTo(s)
  BY <1>4, <1>8 DEF PeriodUpTo
<1>10. ASSUME NEW key \in Keys, SaysKey(s, key) # {}
       PROVE  LET n == Max(SaysKey(s, key))
              IN n \in 1..s /\ KeyAt(n, key)' = KeyAt(n, key) /\ AskedAt(n)' = AskedAt(n)
  <2> DEFINE n == Max(SaysKey(s, key))
  <2>1. n \in 1..s /\ n' = n
    BY <1>5, <1>6, <1>10, MaxIn
  <2> QED BY <2>1, <1>1 DEF KeyAt, AskedAt, Asked, Grown
<1>11. \A areas : AreasFrom(areas, s) => AreasFrom(areas, s)'
  BY <1>1, <1>2 DEF AreasFrom
<1>12. \A n \in 1..s : runs'[told'[n].of].fabs = runs[told[n].of].fabs /\ runs'[told'[n].of].panel = runs[told[n].of].panel
  BY <1>1 DEF Grown
<1>13. \A fab : FabEarned(fab, s) => FabEarned(fab, s)'
  BY <1>1, <1>2, <1>12 DEF FabEarned
<1> QED BY <1>2, <1>3, <1>4, <1>5, <1>7, <1>9, <1>10, <1>11, <1>12, <1>13

\* And a run that is sound stays sound.
LEMMA SoundStays ==
  ASSUME Records, Grown, NEW run, NEW later, RunSound(run), run.seen \in 0..Len(told),
         later.question = run.question, later.panel = run.panel, later.seen = run.seen,
         later.fab = run.fab, later.fabs = run.fabs, later.keys = run.keys,
         later.areas = run.areas, later.period = run.period
  PROVE  RunSound(later)'
<1>1. PICK s \in 0..Len(told) : s = run.seen
  OBVIOUS
<1>2. later.seen = s
  BY <1>1
<1>3. FabNext(later)' = FabNext(run)
  <2>1. s # 0 => runs'[told'[s].of].panel = runs[told[s].of].panel
    <3>1. s # 0 => s \in 1..s
      BY <1>1, RunsAre
    <3> QED BY <3>1, <1>1, SaysStay
  <2>2. SaysFab(s)' = SaysFab(s) /\ (SaysFab(s) # {} => FabAt(Max(SaysFab(s)))' = FabAt(Max(SaysFab(s))))
    BY <1>1, SaysStay
  <2> QED BY <1>1, <1>2, <2>1, <2>2 DEF FabNext
<1>4. ASSUME NEW key \in Keys PROVE KeyNext(later, key)' = KeyNext(run, key)
  <2>1. SaysKey(s, key)' = SaysKey(s, key)
    BY <1>1, SaysStay
  <2>2. SaysKey(s, key) # {} => /\ KeyAt(Max(SaysKey(s, key)), key)' = KeyAt(Max(SaysKey(s, key)), key)
                                /\ AskedAt(Max(SaysKey(s, key)))' = AskedAt(Max(SaysKey(s, key)))
    BY <1>1, SaysStay
  <2> QED BY <1>1, <1>2, <2>1, <2>2 DEF KeyNext
<1>5. /\ PeriodUpTo(s)' = PeriodUpTo(s)
      /\ \A areas : AreasFrom(areas, s) => AreasFrom(areas, s)'
      /\ \A fab : FabEarned(fab, s) => FabEarned(fab, s)'
  BY <1>1, SaysStay
<1> QED BY <1>1, <1>2, <1>3, <1>4, <1>5 DEF RunSound

LEMMA RunStays ==
  ASSUME Records, Grown, NEW i \in DOMAIN runs, RunSound(runs[i])
  PROVE  RunSound(runs[i])'
<1>1. runs[i].seen \in 0..Len(told)
  BY RunsAre DEF Records, RunRecord
<1>2. PICK run : run = runs[i]
  OBVIOUS
<1>3. PICK later : later = runs'[i]
  OBVIOUS
<1>4. RunSound(later)'
  BY <1>1, <1>2, <1>3, SoundStays DEF Grown
<1> QED BY <1>3, <1>4

LEMMA ToldStays ==
  ASSUME Records, Grown, NEW n \in DOMAIN told, ToldSound(n)
  PROVE  ToldSound(n)'
<1>1. n \in 0..Len(told) /\ n - 1 \in 0..Len(told) /\ n \in 1..n
  BY RunsAre
<1>2. PeriodUpTo(n)' = PeriodUpTo(n) /\ \A areas : AreasFrom(areas, n) => AreasFrom(areas, n)'
  BY <1>1, SaysStay
<1>3. AskedAt(n)' = AskedAt(n) /\ told'[n] = told[n]
  BY <1>1, SaysStay
<1>4. \A fab : FabEarned(fab, n - 1) => FabEarned(fab, n - 1)'
  BY <1>1, SaysStay
<1> QED BY <1>2, <1>3, <1>4 DEF ToldSound

-----------------------------------------------------------------------------
(* What a run has is what it is meant to have *)

\* What FabMeant says of run i when its earlier values are those of f.
FabFrom(f, i) ==
  LET run == runs[i]
      said == {n \in 1..run.seen : f[told[n].of] # None}
      chosen == /\ run.panel.fab # None
                /\ run.seen = 0 \/ run.panel.fab # runs[told[run.seen].of].panel.fab
  IN CASE run.question.fabs # <<>> -> run.question.fabs[1]
       [] run.question.fabs = <<>> /\ run.fabs # <<>> -> run.fabs[1]
       [] run.question.fabs = <<>> /\ run.fabs = <<>> ->
            IF chosen \/ said = {} THEN run.panel.fab ELSE f[told[Max(said)].of]

LEMMA FabFromIs ==
  ASSUME Records, NEW i \in DOMAIN runs, NEW f, \A n \in 1..runs[i].seen : f[told[n].of] = FabAt(n)
  PROVE  FabFrom(f, i) = FabNext(runs[i])
<1> DEFINE said == {n \in 1..runs[i].seen : f[told[n].of] # None}
           s == runs[i].seen
<1>1. said = SaysFab(s)
  BY DEF SaysFab
<1>2. s \in Nat /\ SaysFab(s) \in SUBSET (1..s)
  BY RunsAre DEF Records, RunRecord, SaysFab
<1>3. SaysFab(s) # {} => f[told[Max(SaysFab(s))].of] = FabAt(Max(SaysFab(s)))
  <2>1. SaysFab(s) # {} => Max(SaysFab(s)) \in 1..s
    BY <1>2, MaxIn
  <2> QED BY <2>1
<1>4. FabFrom(f, i) =
        CASE runs[i].question.fabs # <<>> -> runs[i].question.fabs[1]
          [] runs[i].question.fabs = <<>> /\ runs[i].fabs # <<>> -> runs[i].fabs[1]
          [] runs[i].question.fabs = <<>> /\ runs[i].fabs = <<>> ->
               IF \/ /\ runs[i].panel.fab # None
                     /\ s = 0 \/ runs[i].panel.fab # runs[told[s].of].panel.fab
                  \/ said = {} THEN runs[i].panel.fab ELSE f[told[Max(said)].of]
  BY DEF FabFrom
<1> HIDE DEF said, s
<1> QED BY <1>1, <1>3, <1>4 DEF FabNext, s

\* The recursion has one solution: an exchange a run saw is of a run that saw less.
LEMMA FabMeantIs ==
  ASSUME Records, \A i \in DOMAIN runs : RunSound(runs[i])
  PROVE  \A i \in DOMAIN runs : FabMeant[i] = runs[i].fab
<1> DEFINE Fold(f) == f = [i \in DOMAIN runs |-> FabFrom(f, i)]
           w == [i \in DOMAIN runs |-> runs[i].fab]
           m == CHOOSE f : Fold(f)
           S == {k \in Nat : \A i \in DOMAIN runs : runs[i].seen < k => m[i] = runs[i].fab}
<1>1. FabMeant = m
  BY DEF FabMeant, FabFrom
<1>2. \A i \in DOMAIN runs : /\ runs[i].seen \in Nat /\ runs[i].seen <= Len(told) /\ FabNext(runs[i]) = runs[i].fab
                             /\ \A n \in 1..runs[i].seen : n \in DOMAIN told /\ told[n].of \in DOMAIN runs /\ runs[told[n].of].seen < n
  BY RunsAre DEF Records, RunRecord, RunSound
<1>3. Fold(w)
  <2>1. \A i \in DOMAIN runs : \A n \in 1..runs[i].seen : w[told[n].of] = FabAt(n)
    BY <1>2 DEF FabAt
  <2> HIDE DEF w
  <2>2. \A i \in DOMAIN runs : FabFrom(w, i) = runs[i].fab
    BY <2>1, <1>2, FabFromIs
  <2> QED BY <2>2 DEF w
<1>4. Fold(m)
  <2> HIDE DEF Fold, w
  <2> QED BY <1>3
<1> HIDE DEF m
<1>5. 0 \in S
  BY <1>2
<1>6. ASSUME NEW k \in Nat, k \in S, NEW i \in DOMAIN runs, runs[i].seen < k + 1
      PROVE  m[i] = runs[i].fab
  <2>1. \A n \in 1..runs[i].seen : m[told[n].of] = FabAt(n)
    <3> TAKE n \in 1..runs[i].seen
    <3>1. told[n].of \in DOMAIN runs /\ runs[told[n].of].seen < n /\ runs[told[n].of].seen \in Nat /\ n <= k
      BY <1>2, <1>6
    <3>2. runs[told[n].of].seen < k
      BY <3>1
    <3> QED BY <3>1, <3>2, <1>6 DEF FabAt
  <2>2. m[i] = FabFrom(m, i)
    BY <1>4
  <2> QED BY <2>1, <2>2, <1>2, FabFromIs
<1>7. Nat \subseteq S
  <2>1. \A k \in Nat : k \in S => k + 1 \in S
    BY <1>6
  <2> HIDE DEF S
  <2> QED BY <1>5, <2>1, Climb
<1>8. \A i \in DOMAIN runs : m[i] = runs[i].fab
  <2> TAKE i \in DOMAIN runs
  <2>1. runs[i].seen + 1 \in S /\ runs[i].seen < runs[i].seen + 1
    BY <1>2, <1>7
  <2> QED BY <2>1
<1> QED BY <1>1, <1>8

\* The same of a key.
KeyFrom(f, i, key) ==
  LET run == runs[i]
      says == {n \in 1..run.seen :
                 f[<<told[n].of, key>>] # None \/ Frees(Asked(told[n]), key)}
  IN IF key = "process" /\ Cardinality(run.areas) = 1 THEN TheOne(run.areas)
     ELSE IF NamedKey(run.question, key) # None THEN NamedKey(run.question, key)
     ELSE IF Frees(run.question, key) THEN None
     ELSE IF PanelKey(run.panel, key) # None THEN PanelKey(run.panel, key)
     ELSE IF says = {} \/ Frees(Asked(told[Max(says)]), key) THEN None
     ELSE f[<<told[Max(says)].of, key>>]
KeyChoice(run, key, none, value) ==
  IF key = "process" /\ Cardinality(run.areas) = 1 THEN TheOne(run.areas)
  ELSE IF NamedKey(run.question, key) # None THEN NamedKey(run.question, key)
  ELSE IF Frees(run.question, key) THEN None
  ELSE IF PanelKey(run.panel, key) # None THEN PanelKey(run.panel, key)
  ELSE IF none THEN None
  ELSE value

LEMMA KeyFromIs ==
  ASSUME Records, NEW i \in DOMAIN runs, NEW key \in Keys, NEW f,
         \A n \in 1..runs[i].seen : f[<<told[n].of, key>>] = KeyAt(n, key)
  PROVE  KeyFrom(f, i, key) = KeyNext(runs[i], key)
<1> DEFINE s == runs[i].seen
           says == {n \in 1..s : f[<<told[n].of, key>>] # None \/ Frees(Asked(told[n]), key)}
           last == Max(SaysKey(s, key))
<1>1. says = SaysKey(s, key)
  BY DEF SaysKey, AskedAt
<1>2. s \in Nat /\ SaysKey(s, key) \in SUBSET (1..s)
  BY RunsAre DEF Records, RunRecord, SaysKey
<1>3. SaysKey(s, key) # {} => f[<<told[last].of, key>>] = KeyAt(last, key)
  <2>1. SaysKey(s, key) # {} => last \in 1..s
    BY <1>2, MaxIn
  <2> QED BY <2>1
<1>4. KeyFrom(f, i, key) =
        KeyChoice(runs[i], key, says = {} \/ Frees(Asked(told[Max(says)]), key), f[<<told[Max(says)].of, key>>])
  BY DEF KeyFrom, KeyChoice
<1>5. KeyNext(runs[i], key) =
        KeyChoice(runs[i], key, SaysKey(s, key) = {} \/ Frees(Asked(told[last]), key), KeyAt(last, key))
  BY DEF KeyNext, KeyChoice, AskedAt
<1> HIDE DEF says, s
<1>6. CASE SaysKey(s, key) # {}
  BY <1>1, <1>3, <1>4, <1>5, <1>6
<1>7. CASE SaysKey(s, key) = {}
  BY <1>1, <1>4, <1>5, <1>7 DEF KeyChoice
<1> QED BY <1>6, <1>7

LEMMA KeyMeantIs ==
  ASSUME Records, \A i \in DOMAIN runs : RunSound(runs[i])
  PROVE  \A i \in DOMAIN runs : \A key \in Keys : KeyMeant[<<i, key>>] = runs[i].keys[key]
<1> DEFINE D == (DOMAIN runs) \X Keys
           Fold(f) == f = [p \in D |-> KeyFrom(f, p[1], p[2])]
           w == [p \in D |-> runs[p[1]].keys[p[2]]]
           m == CHOOSE f : Fold(f)
           S == {k \in Nat : \A i \in DOMAIN runs : \A key \in Keys :
                   runs[i].seen < k => m[<<i, key>>] = runs[i].keys[key]}
<1>1. KeyMeant = m
  BY DEF KeyMeant, KeyFrom, TheOne
<1>2. \A i \in DOMAIN runs : /\ runs[i].seen \in Nat /\ runs[i].seen <= Len(told)
                             /\ \A key \in Keys : KeyNext(runs[i], key) = runs[i].keys[key]
                             /\ \A n \in 1..runs[i].seen : n \in DOMAIN told /\ told[n].of \in DOMAIN runs /\ runs[told[n].of].seen < n
  BY RunsAre DEF Records, RunRecord, RunSound
<1>3. Fold(w)
  <2>1. \A i \in DOMAIN runs : \A key \in Keys : \A n \in 1..runs[i].seen : w[<<told[n].of, key>>] = KeyAt(n, key)
    BY <1>2 DEF KeyAt
  <2> HIDE DEF w
  <2>2. \A i \in DOMAIN runs : \A key \in Keys : KeyFrom(w, i, key) = runs[i].keys[key]
    BY <2>1, <1>2, KeyFromIs
  <2>3. \A p \in D : KeyFrom(w, p[1], p[2]) = runs[p[1]].keys[p[2]]
    BY <2>2
  <2> QED BY <2>3 DEF w
<1>4. Fold(m)
  <2> HIDE DEF Fold, w
  <2> QED BY <1>3
<1> HIDE DEF m
<1>5. 0 \in S
  BY <1>2
<1>6. ASSUME NEW k \in Nat, k \in S, NEW i \in DOMAIN runs, NEW key \in Keys, runs[i].seen < k + 1
      PROVE  m[<<i, key>>] = runs[i].keys[key]
  <2>1. \A n \in 1..runs[i].seen : m[<<told[n].of, key>>] = KeyAt(n, key)
    <3> TAKE n \in 1..runs[i].seen
    <3>1. told[n].of \in DOMAIN runs /\ runs[told[n].of].seen < n /\ runs[told[n].of].seen \in Nat /\ n <= k
      BY <1>2, <1>6
    <3>2. runs[told[n].of].seen < k
      BY <3>1
    <3> QED BY <3>1, <3>2, <1>6 DEF KeyAt
  <2>2. m[<<i, key>>] = KeyFrom(m, i, key)
    BY <1>4
  <2> QED BY <2>1, <2>2, <1>2, KeyFromIs
<1>7. Nat \subseteq S
  <2>1. \A k \in Nat : k \in S => k + 1 \in S
    BY <1>6
  <2> HIDE DEF S
  <2> QED BY <1>5, <2>1, Climb
<1>8. ASSUME NEW i \in DOMAIN runs, NEW key \in Keys PROVE m[<<i, key>>] = runs[i].keys[key]
  <2>1. runs[i].seen + 1 \in S /\ runs[i].seen < runs[i].seen + 1
    BY <1>2, <1>7
  <2> QED BY <2>1
<1> QED BY <1>1, <1>8

\* The invariant says what ScopeAsMeant asks.
LEMMA SoundIsMeant == ScopeIInv => ScopeAsMeant
<1> SUFFICES ASSUME ScopeIInv PROVE ScopeAsMeant
  OBVIOUS
<1>1. Records /\ \A i \in DOMAIN runs : RunSound(runs[i])
  BY DEF ScopeIInv
<1>2. ScopeTypeOK
  <2>1. \A i \in DOMAIN runs : runs[i] \in RunRecord /\ runs[i].seen \in 0..Len(told)
    BY <1>1, RunsAre DEF Records, RunRecord
  <2>2. \A n \in DOMAIN told : told[n] \in ToldRecord
    BY <1>1, RunsAre
  <2>3. ASSUME NEW i \in DOMAIN runs
        PROVE  /\ runs[i].question \in Recognised
               /\ runs[i].panel \in Panels
               /\ runs[i].seen \in 0..Len(told)
               /\ runs[i].pc \in {"running", "stored", "failed"}
               /\ runs[i].areas \subseteq Areas
               /\ runs[i].period \in Periods \cup {None}
    BY <2>1 DEF RunRecord
  <2>4. ASSUME NEW n \in DOMAIN told
        PROVE  /\ runs[told[n].of].pc = "stored"
               /\ runs[told[n].of].seen < n
               /\ told[n].queryAreas \subseteq Areas
               /\ told[n].queryPeriod \in Periods \cup {None}
               /\ told[n].status \in {"succeeded", "needs_clarification", "failed"}
               /\ told[n].result = NoTypedResult \/ told[n].result.fab \in Supported
    BY <2>2, <1>1 DEF ToldRecord, Records
  <2> QED BY <2>3, <2>4 DEF ScopeTypeOK
<1>3. \A i \in DOMAIN runs : runs[i].fab = FabMeant[i]
  BY <1>1, FabMeantIs
<1>4. ASSUME NEW i \in DOMAIN runs PROVE ComparisonEarned(runs[i])
  BY <1>1 DEF RunSound, ComparisonEarned, FabEarned, FabAt
<1>5. \A i \in DOMAIN runs : \A key \in Keys : runs[i].keys[key] = KeyMeant[<<i, key>>]
  BY <1>1, KeyMeantIs
<1>6. ASSUME NEW i \in DOMAIN runs PROVE runs[i].period = PeriodMeant(runs[i])
  BY <1>1 DEF RunSound, PeriodMeant, PeriodUpTo, Begins, AskedAt
<1>7. ASSUME NEW i \in DOMAIN runs PROVE AreasEarned(runs[i])
  BY <1>1 DEF RunSound, AreasEarned, AreasFrom, AskedAt
<1> QED BY <1>2, <1>3, <1>4, <1>5, <1>6, <1>7 DEF ScopeAsMeant, FabAsMeant, ScopeCarried

-----------------------------------------------------------------------------
(* What a question is completed to *)

LEMMA QuestionIs ==
  ASSUME NEW q \in Recognised
  PROVE  /\ q.fabs \in Seq(FabNames) /\ q.areas \in SUBSET Areas /\ q.period \in Periods \cup {None}
         /\ \A fab \in Range(q.fabs) : fab # None
         /\ \A key \in Keys : NamedKey(q, key) \in KeyNames
         /\ NamedKey(q, "process") \in Areas \cup {None}
<1>1. q.fabs \in Seq(ToSet(q.fabs)) /\ ToSet(q.fabs) \subseteq FabNames
  BY ScopeAssumption DEF IsList, FabNames, ToSet, Range
<1>2. q.areas \in SUBSET Areas /\ q.period \in Periods \cup {None} /\ \A fab \in Range(q.fabs) : fab # None
  BY ScopeAssumption
<1>3. q.fabs \in Seq(FabNames)
  <2>1. Len(q.fabs) \in Nat /\ q.fabs \in [1..Len(q.fabs) -> ToSet(q.fabs)]
    BY <1>1, LenProperties
  <2>2. q.fabs \in [1..Len(q.fabs) -> FabNames]
    BY <1>1, <2>1
  <2> QED BY <2>1, <2>2, SeqDef
<1>5. NamedKey(q, "process") \in Areas \cup {None}
  <2>1. Cardinality(q.areas) = 1 => q.areas # {}
    BY FS_EmptySet
  <2>2. Cardinality(q.areas) = 1 => (CHOOSE area \in q.areas : TRUE) \in q.areas
    BY <2>1
  <2> QED BY <2>2, <1>2 DEF NamedKey
<1>4. ASSUME NEW key \in Keys PROVE NamedKey(q, key) \in KeyNames
  <2>1. CASE key = "process"
    BY <2>1, <1>5 DEF KeyNames
  <2>2. CASE key # "process"
    <3>1. NamedKey(q, key) = q[key] /\ key \in Keys \ {"process"}
      BY <2>2 DEF NamedKey
    <3> QED BY <3>1 DEF KeyNames
  <2> QED BY <2>1, <2>2
<1> QED BY <1>1, <1>2, <1>3, <1>4, <1>5

\* The FABs an exchange can give to a comparison are its run's or earlier ones.
LEMMA CandidatesAre ==
  ASSUME ScopeIInv, NEW n \in DOMAIN told
  PROVE  /\ Candidates(told[n]) \in Seq(FabNames)
         /\ \A fab \in Range(Candidates(told[n])) :
              \/ fab \in {FabAt(n)} \cup Range(runs[told[n].of].fabs)
              \/ FabEarned(fab, n - 1)
<1> DEFINE run == runs[told[n].of]
<1>1. Records /\ ToldSound(n)
  BY DEF ScopeIInv
<1>2. told[n] \in ToldRecord /\ told[n].of \in DOMAIN runs /\ run \in RunRecord /\ RunSound(run)
  BY <1>1, RunsAre DEF Records, ScopeIInv
<1>3. run.question \in Recognised /\ run.fab \in FabNames /\ told[n].fabIds \in Seq(FabNames)
  BY <1>2 DEF RunRecord, ToldRecord
<1>4. Asked(told[n]) = run.question /\ AskedAt(n) = run.question /\ FabAt(n) = run.fab
  BY DEF Asked, AskedAt, FabAt
<1>5. \A fab \in Range(run.question.fabs) : fab \in Range(run.fabs)
  <2>1. run.question.fabs # <<>> => run.fabs = run.question.fabs
    BY <1>2 DEF RunSound
  <2>2. Range(<<>>) = {}
    BY DEF Range
  <2> QED BY <2>1, <2>2
<1>6. CASE told[n].fabIds # <<>>
  <2>1. Candidates(told[n]) = told[n].fabIds
    BY <1>6 DEF Candidates
  <2>2. \A fab \in Range(told[n].fabIds) : fab \in Range(run.question.fabs) \/ FabEarned(fab, n - 1)
    BY <1>1, <1>4 DEF ToldSound
  <2> QED BY <2>1, <2>2, <1>3, <1>5
<1>7. CASE told[n].fabIds = <<>> /\ run.question.fabs # <<>>
  <2>1. Candidates(told[n]) = run.question.fabs
    BY <1>7, <1>4 DEF Candidates
  <2> QED BY <2>1, <1>3, <1>5, QuestionIs
<1>8. CASE told[n].fabIds = <<>> /\ run.question.fabs = <<>>
  <2>1. Candidates(told[n]) = <<run.fab>>
    BY <1>8, <1>4 DEF Candidates
  <2>2. <<run.fab>> \in Seq(FabNames) /\ Range(<<run.fab>>) = {run.fab}
    BY <1>3 DEF Range
  <2> QED BY <2>1, <2>2, <1>4
<1> QED BY <1>6, <1>7, <1>8

LEMMA FoundIs ==
  ASSUME ScopeIInv
  PROVE  /\ Found(History(told)) \in Seq(FabNames) /\ IsInjective(Found(History(told)))
         /\ \A fab \in Range(Found(History(told))) : FabEarned(fab, Len(told))
<1> DEFINE h == History(told)
           L == Len(told)
           Said(fab) == \E n \in 1..L : /\ told[n].status = "succeeded"
                                        /\ fab \in {FabAt(n)} \cup Range(runs[told[n].of].fabs)
           A == {fab \in FabNames : Said(fab)}
<1>1. /\ L \in Nat /\ DOMAIN told = 1..L /\ Dropped \in 0..L /\ h \in Seq(ToldRecord) /\ DOMAIN h = 1..(L - Dropped)
      /\ \A k \in 1..(L - Dropped) : h[k] = told[Dropped + k]
  BY RunsAre, HistoryIs DEF ScopeIInv
<1>2. ASSUME NEW k \in DOMAIN h, h[k].status = "succeeded"
      PROVE  Candidates(h[k]) \in Seq(FabNames) /\ Range(Candidates(h[k])) \subseteq A
  <2> DEFINE n == Dropped + k
  <2>1. n \in 1..L /\ h[k] = told[n]
    <3> HIDE DEF h, L
    <3>1. k \in 1..(L - Dropped)
      BY <1>1
    <3> QED BY <1>1, <3>1
  <2> HIDE DEF n, h
  <2>2. /\ Candidates(told[n]) \in Seq(FabNames)
        /\ \A fab \in Range(Candidates(told[n])) :
             \/ fab \in {FabAt(n)} \cup Range(runs[told[n].of].fabs)
             \/ FabEarned(fab, n - 1)
    BY <2>1, <1>1, CandidatesAre
  <2>3. Range(Candidates(told[n])) \subseteq FabNames
    <3>1. Candidates(told[n]) \in [1..Len(Candidates(told[n])) -> FabNames]
      BY <2>2, LenProperties
    <3> QED BY <3>1 DEF Range
  <2>4. ASSUME NEW fab \in Range(Candidates(told[n])) PROVE Said(fab)
    <3>1. CASE fab \in {FabAt(n)} \cup Range(runs[told[n].of].fabs)
      BY <3>1, <2>1, <1>2
    <3>2. CASE FabEarned(fab, n - 1)
      <4>1. 1..(n - 1) \subseteq 1..L
        BY <2>1, <1>1
      <4> QED BY <3>2, <4>1 DEF FabEarned
    <3> QED BY <3>1, <3>2, <2>2
  <2> QED BY <2>1, <2>2, <2>3, <2>4
<1> HIDE DEF h, A
<1>3. Found(h) \in FabLists(A)
  BY <1>1, <1>2, FoundIn
<1> DEFINE f == Found(h)
<1>4. f \in Seq(Supported) /\ IsInjective(f) /\ Range(f) \subseteq A
  BY <1>3 DEF FabLists
<1> HIDE DEF f
<1>5. f \in [1..Len(f) -> Supported] /\ Len(f) \in Nat
  BY <1>4, LenProperties
<1>6. f \in Seq(FabNames)
  <2>1. f \in [1..Len(f) -> FabNames]
    BY <1>5 DEF FabNames
  <2> QED BY <2>1, <1>5, SeqDef
<1>7. \A fab \in Range(f) : FabEarned(fab, L)
  <2>1. \A fab \in Range(f) : fab \in Supported
    BY <1>5 DEF Range
  <2> QED BY <2>1, <1>4 DEF FabEarned, A
<1> QED BY <1>4, <1>6, <1>7 DEF f, h

LEMMA ComparedIs ==
  ASSUME ScopeIInv, NEW q \in Recognised
  PROVE  LET h == History(told) IN
         /\ ComparedFabs(h, q) \in Seq(FabNames) /\ RunFabs(h, q) \in Seq(FabNames)
         /\ \A fab \in Range(ComparedFabs(h, q)) : fab \in Range(q.fabs) \/ FabEarned(fab, Len(told))
         /\ q.fabs # <<>> => RunFabs(h, q) = q.fabs
         /\ q.fabs = <<>> /\ RunFabs(h, q) # <<>> =>
              /\ Len(RunFabs(h, q)) >= 2 /\ IsInjective(RunFabs(h, q))
              /\ \A fab \in Range(RunFabs(h, q)) : FabEarned(fab, Len(told))
<1> DEFINE h == History(told)
<1>1. /\ Found(h) \in Seq(FabNames) /\ IsInjective(Found(h))
      /\ \A fab \in Range(Found(h)) : FabEarned(fab, Len(told))
  BY FoundIs
<1>2. q.fabs \in Seq(FabNames) /\ <<>> \in Seq(FabNames) /\ Range(<<>>) = {}
  BY QuestionIs, EmptySeq DEF Range
<1> HIDE DEF h
<1>3. CASE q.fabs # <<>>
  <2>1. ComparedFabs(h, q) \in {q.fabs, <<>>} /\ RunFabs(h, q) = q.fabs
    BY <1>3 DEF ComparedFabs, RunFabs
  <2> QED BY <2>1, <1>2, <1>3 DEF h
<1>4. CASE q.fabs = <<>>
  <2>1. \/ ComparedFabs(h, q) = <<>> /\ RunFabs(h, q) = <<>>
        \/ ComparedFabs(h, q) = Found(h) /\ Len(Found(h)) >= 2 /\ RunFabs(h, q) \in {Found(h), <<>>}
    BY <1>4 DEF ComparedFabs, RunFabs
  <2> QED BY <2>1, <1>1, <1>2, <1>4 DEF h
<1> QED BY <1>3, <1>4

LEMMA PeriodIs ==
  ASSUME ScopeIInv, NEW q \in Recognised
  PROVE  /\ PeriodScope(History(told), q) = IF GoesOn(q) THEN PeriodUpTo(Len(told)) ELSE q.period
         /\ PeriodScope(History(told), q) \in Periods \cup {None}
<1> DEFINE h == History(told)
           L == Len(told)
<1>1. /\ L \in Nat /\ DOMAIN told = 1..L /\ ((h = <<>>) <=> (L = 0)) /\ (L > 0 => Last(h) = told[L])
  BY RunsAre, HistoryIs DEF ScopeIInv
<1> HIDE DEF h, L
<1>2. L > 0 => told[L] \in ToldRecord /\ ToldSound(L)
  BY <1>1, RunsAre DEF ScopeIInv
<1>3. q.period \in Periods \cup {None}
  BY QuestionIs
<1>4. CASE ~GoesOn(q)
  BY <1>3, <1>4 DEF GoesOn, PeriodScope, h
<1>5. CASE GoesOn(q) /\ L = 0
  <2>1. Begins(L) = {}
    BY <1>5 DEF Begins
  <2>2. q.period = None
    BY <1>5 DEF GoesOn
  <2> QED BY <1>1, <1>5, <2>1, <2>2 DEF PeriodScope, PeriodUpTo, h, L
<1>6. CASE GoesOn(q) /\ L > 0
  <2>1. PeriodScope(h, q) = told[L].queryPeriod
    BY <1>1, <1>6 DEF PeriodScope, GoesOn
  <2> QED BY <2>1, <1>2, <1>6 DEF ToldSound, ToldRecord, h, L
<1> QED BY <1>1, <1>4, <1>5, <1>6

LEMMA AreasAre ==
  ASSUME ScopeIInv, NEW q \in Recognised, NEW fab
  PROVE  LET scope == AreaScope(History(told), q, fab) IN
         /\ scope.areas \in SUBSET Areas /\ scope.unresolved \in BOOLEAN
         /\ scope.areas = q.areas \/ AreasFrom(scope.areas, Len(told))
<1> DEFINE h == History(told)
           L == Len(told)
           scope == AreaScope(h, q, fab)
           referred == ReferredResult(h)
           counts == {n \in DOMAIN h : h[n].result # NoTypedResult \/ h[n].status # "needs_clarification"}
<1>1. /\ L \in Nat /\ DOMAIN told = 1..L /\ ((h = <<>>) <=> (L = 0)) /\ (L > 0 => Last(h) = told[L])
      /\ Dropped \in 0..L /\ DOMAIN h = 1..(L - Dropped) /\ \A k \in 1..(L - Dropped) : h[k] = told[Dropped + k]
  BY RunsAre, HistoryIs DEF ScopeIInv
<1>2. \A n \in 1..L : told[n] \in ToldRecord /\ ToldSound(n)
  BY RunsAre DEF ScopeIInv
<1>3. q.areas \in SUBSET Areas
  BY QuestionIs
<1> HIDE DEF h, L
<1>4. referred.areas \in SUBSET Areas /\ AreasFrom(referred.areas, L)
  <2>1. CASE counts = {}
    <3>1. referred.areas = {}
      BY <2>1 DEF ReferredResult, NoTypedResult
    <3> QED BY <3>1 DEF AreasFrom
  <2>2. CASE counts # {}
    <3> DEFINE k == Max(counts)
               n == Dropped + k
    <3>1. referred = h[k].result
      BY <2>2 DEF ReferredResult
    <3>2. k \in 1..(L - Dropped)
      <4>1. counts \in SUBSET (1..(L - Dropped)) /\ L - Dropped \in Nat
        BY <1>1
      <4> HIDE DEF counts
      <4> QED BY <4>1, <2>2, MaxIn
    <3> HIDE DEF k, referred
    <3>3. n \in 1..L /\ h[k] = told[n]
      BY <3>2, <1>1
    <3> HIDE DEF n
    <3>4. referred = told[n].result /\ told[n].result \in Typed
      BY <3>1, <3>3, <1>2 DEF ToldRecord
    <3>5. referred.areas = told[n].result.areas /\ told[n].result.areas \in SUBSET Areas
      BY <3>4 DEF Typed
    <3> QED BY <3>3, <3>5 DEF AreasFrom
  <2> QED BY <2>1, <2>2
<1>5. FollowedAreas(h, q) \in SUBSET Areas /\ (FollowedAreas(h, q) = q.areas \/ AreasFrom(FollowedAreas(h, q), L))
  <2>1. \/ FollowedAreas(h, q) = q.areas
        \/ FollowedAreas(h, q) = {}
        \/ h # <<>> /\ FollowedAreas(h, q) = Last(h).queryAreas
    BY DEF FollowedAreas
  <2>2. h # <<>> => Last(h).queryAreas \in SUBSET Areas /\ AreasFrom(Last(h).queryAreas, L)
    <3>1. h # <<>> => L \in 1..L /\ Last(h) = told[L]
      BY <1>1
    <3>2. h # <<>> => told[L] \in ToldRecord /\ ToldSound(L)
      BY <3>1, <1>2
    <3> QED BY <3>1, <3>2 DEF ToldRecord, ToldSound
  <2>3. AreasFrom({}, L)
    BY DEF AreasFrom
  <2> QED BY <2>1, <2>2, <2>3, <1>3
<1>6. AreasFrom({}, L)
  BY DEF AreasFrom
<1>7. \/ scope = [areas |-> referred.areas, unresolved |-> FALSE]
      \/ scope = [areas |-> {}, unresolved |-> TRUE]
      \/ scope = [areas |-> FollowedAreas(h, q), unresolved |-> FALSE]
  BY DEF AreaScope
<1> HIDE DEF scope, referred
<1>8. /\ scope.areas \in SUBSET Areas /\ scope.unresolved \in BOOLEAN
      /\ scope.areas = q.areas \/ AreasFrom(scope.areas, L)
  <2>1. CASE scope = [areas |-> referred.areas, unresolved |-> FALSE]
    <3>1. scope.areas = referred.areas /\ scope.unresolved = FALSE
      BY <2>1
    <3> QED BY <3>1, <1>4
  <2>2. CASE scope = [areas |-> {}, unresolved |-> TRUE]
    <3>1. scope.areas = {} /\ scope.unresolved = TRUE
      BY <2>2
    <3> QED BY <3>1, <1>6
  <2>3. CASE scope = [areas |-> FollowedAreas(h, q), unresolved |-> FALSE]
    <3> DEFINE x == FollowedAreas(h, q)
    <3>1. scope.areas = x /\ scope.unresolved = FALSE
      BY <2>3
    <3>2. x \in SUBSET Areas /\ (x = q.areas \/ AreasFrom(x, L))
      BY <1>5
    <3> HIDE DEF x
    <3> QED BY <3>1, <3>2
  <2> QED BY <2>1, <2>2, <2>3, <1>7
<1> QED BY <1>8 DEF scope, h, L

LEMMA FabIs ==
  ASSUME ScopeIInv, NEW q \in Recognised, NEW panel \in Panels
  PROVE  LET L == Len(told)
             chosen == /\ panel.fab # None
                       /\ L = 0 \/ panel.fab # runs[told[L].of].panel.fab
         IN /\ PreparedFab(History(told), q, panel) \in FabNames
            /\ q.fabs = <<>> => PreparedFab(History(told), q, panel) =
                 IF chosen \/ SaysFab(L) = {} THEN panel.fab ELSE FabAt(Max(SaysFab(L)))
<1> DEFINE h == History(told)
           L == Len(told)
           last == FabAt(Max(SaysFab(L)))
           before == runs[told[L].of].panel.fab
           prepared == PreparedFab(h, q, panel)
<1>1. /\ L \in Nat /\ DOMAIN told = 1..L /\ ((h = <<>>) <=> (L = 0)) /\ (L > 0 => Last(h) = told[L])
  BY RunsAre, HistoryIs DEF ScopeIInv
<1>2. InferredFab(h) = IF SaysFab(L) = {} THEN None ELSE last
  BY InferredIs DEF ScopeIInv
<1> HIDE DEF h
<1>3. SaysFab(L) # {} => L > 0 /\ last # None /\ last \in FabNames
  <2> SUFFICES ASSUME SaysFab(L) # {} PROVE L > 0 /\ last # None /\ last \in FabNames
    OBVIOUS
  <2>1. SaysFab(L) \in SUBSET (1..L)
    BY DEF SaysFab
  <2> DEFINE n == Max(SaysFab(L))
  <2>2. n \in SaysFab(L)
    <3> HIDE DEF L
    <3> QED BY <1>1, <2>1, MaxIn
  <2> HIDE DEF n
  <2>3. n \in 1..L /\ FabAt(n) # None
    BY <2>2 DEF SaysFab
  <2>4. runs[told[n].of] \in RunRecord
    BY <2>3, <1>1, RunsAre DEF ScopeIInv
  <2>5. FabAt(n) \in FabNames
    BY <2>4 DEF FabAt, RunRecord
  <2> QED BY <2>3, <2>5, <1>1 DEF n
<1> HIDE DEF L, last
<1>4. panel.fab \in FabNames /\ None \in FabNames
  BY ScopeAssumption DEF FabNames
<1>5. ParsedFab(q) \in FabNames
  BY <1>4 DEF ParsedFab, FabNames
<1>6. q.fabs = <<>> => ParsedFab(q) = None
  BY DEF ParsedFab
<1>7. SuppliedFab(h, panel) = IF L # 0 /\ panel.fab = before /\ InferredFab(h) # None
                                THEN InferredFab(h) ELSE panel.fab
  BY <1>1 DEF SuppliedFab, L
<1> HIDE DEF before
<1>8. prepared = IF ParsedFab(q) # None THEN ParsedFab(q)
                 ELSE IF SuppliedFab(h, panel) # None THEN SuppliedFab(h, panel) ELSE InferredFab(h)
  BY DEF PreparedFab
<1> HIDE DEF prepared
<1>9. prepared \in FabNames
  BY <1>2, <1>3, <1>4, <1>5, <1>7, <1>8
<1>10. q.fabs = <<>> => prepared = IF (panel.fab # None /\ (L = 0 \/ panel.fab # before)) \/ SaysFab(L) = {}
                                     THEN panel.fab ELSE last
  BY <1>2, <1>3, <1>6, <1>7, <1>8
<1> QED BY <1>9, <1>10 DEF prepared, last, before, L, h

LEMMA ResetsIs ==
  ASSUME NEW key \in Keys
  PROVE  \A q : key \in Resets(q) <=> Frees(q, key)
BY DEF Resets, Frees, Keys

LEMMA KeyIs ==
  ASSUME ScopeIInv, NEW q \in Recognised, NEW panel \in Panels, NEW fab, NEW key \in Keys,
         NEW run, run.question = q, run.panel = panel, run.seen = Len(told),
         run.areas = AreaScope(History(told), q, fab).areas
  PROVE  /\ ResolvedKey(History(told), q, panel, fab, key) \in KeyNames
         /\ key = "process" => ResolvedKey(History(told), q, panel, fab, key) \in Areas \cup {None}
         /\ ResolvedKey(History(told), q, panel, fab, key) = KeyNext(run, key)
<1> DEFINE h == History(told)
           L == Len(told)
           says == SaysKey(L, key)
           last == Max(says)
<1>0. PICK areas : areas = AreaScope(h, q, fab).areas
  OBVIOUS
<1>1. Inferred(h, key) = IF says = {} \/ Frees(AskedAt(last), key) THEN None ELSE KeyAt(last, key)
  BY InferredIs DEF ScopeIInv
<1>2. says # {} => KeyAt(last, key) \in KeyNames /\ (key = "process" => KeyAt(last, key) \in Areas \cup {None})
  <2> SUFFICES ASSUME says # {}
               PROVE  KeyAt(last, key) \in KeyNames /\ (key = "process" => KeyAt(last, key) \in Areas \cup {None})
    OBVIOUS
  <2>1. says \in SUBSET (1..L) /\ L \in Nat /\ DOMAIN told = 1..L
    BY RunsAre DEF SaysKey, ScopeIInv
  <2>2. last \in 1..L
    <3> HIDE DEF says, L
    <3> QED BY <2>1, MaxIn
  <2> HIDE DEF last
  <2>3. runs[told[last].of] \in RunRecord
    BY <2>1, <2>2, RunsAre DEF ScopeIInv
  <2> QED BY <2>3 DEF KeyAt, RunRecord, KeyScopes
<1>3. areas \in SUBSET Areas
  BY <1>0, AreasAre
<1>4. NamedKey(q, key) \in KeyNames /\ None \in KeyNames /\ PanelKey(panel, key) \in KeyNames
  BY QuestionIs DEF KeyNames
<1>a. NamedKey(q, "process") \in Areas \cup {None} /\ PanelKey(panel, "process") \in Areas \cup {None}
  BY QuestionIs, ScopeAssumption DEF PanelKey
<1>5. key \in Resets(q) <=> Frees(q, key)
  BY ResetsIs
<1>6. Cardinality(areas) = 1 => TheOne(areas) \in KeyNames /\ TheOne(areas) \in Areas
  <2>0. Cardinality({}) = 0
    BY FS_EmptySet
  <2>1. Cardinality(areas) = 1 => areas # {}
    <3>1. areas = {} => Cardinality(areas) = Cardinality({})
      BY Zenon
    <3> QED BY <2>0, <3>1
  <2>2. Cardinality(areas) = 1 => TheOne(areas) \in areas
    BY <2>1 DEF TheOne
  <2> QED BY <2>2, <1>3 DEF KeyNames
<1> HIDE DEF h
<1>7. ResolvedKey(h, q, panel, fab, key) =
        IF key = "process" /\ Cardinality(areas) = 1 THEN TheOne(areas)
        ELSE PreparedKey(h, q, panel, key)
  BY <1>0 DEF ResolvedKey, TheOne
<1>8. PreparedKey(h, q, panel, key) =
        IF NamedKey(q, key) # None THEN NamedKey(q, key)
        ELSE IF key \in Resets(q) THEN None
        ELSE IF PanelKey(panel, key) # None THEN PanelKey(panel, key) ELSE Inferred(h, key)
  BY DEF PreparedKey
<1>9. ResolvedKey(h, q, panel, fab, key) \in KeyNames
  <2> HIDE DEF says, last
  <2> QED BY <1>1, <1>2, <1>4, <1>6, <1>7, <1>8
<1>b. key = "process" => ResolvedKey(h, q, panel, fab, key) \in Areas \cup {None}
  <2> HIDE DEF says, last
  <2> QED BY <1>1, <1>2, <1>a, <1>6, <1>7, <1>8
<1>10. KeyNext(run, key) =
         IF key = "process" /\ Cardinality(areas) = 1 THEN TheOne(areas)
         ELSE IF NamedKey(q, key) # None THEN NamedKey(q, key)
         ELSE IF Frees(q, key) THEN None
         ELSE IF PanelKey(panel, key) # None THEN PanelKey(panel, key)
         ELSE IF says = {} THEN None
         ELSE IF Frees(AskedAt(last), key) THEN None ELSE KeyAt(last, key)
  <2>1. run.areas = areas /\ run.question = q /\ run.panel = panel
    BY <1>0 DEF h
  <2> DEFINE seen == SaysKey(run.seen, key)
  <2>2. KeyNext(run, key) = KeyChoice(run, key, seen = {} \/ Frees(AskedAt(Max(seen)), key), KeyAt(Max(seen), key))
    BY DEF KeyNext, KeyChoice
  <2>3. seen = says
    OBVIOUS
  <2>4. Frees(AskedAt(Max(seen)), key) = Frees(AskedAt(last), key) /\ KeyAt(Max(seen), key) = KeyAt(last, key)
    BY <2>3
  <2> HIDE DEF says, seen, last
  <2>5. KeyNext(run, key) = KeyChoice(run, key, says = {} \/ Frees(AskedAt(last), key), KeyAt(last, key))
    BY <2>2, <2>3, <2>4
  <2> QED BY <2>1, <2>5 DEF KeyChoice
<1> HIDE DEF says, last
<1>11. ResolvedKey(h, q, panel, fab, key) = KeyNext(run, key)
  BY <1>1, <1>5, <1>7, <1>8, <1>10
<1> QED BY <1>9, <1>b, <1>11 DEF h

-----------------------------------------------------------------------------
(* Every step *)

LEMMA ScopeInitHolds == ScopeInit => ScopeIInv
<1> SUFFICES ASSUME ScopeInit PROVE ScopeIInv
  OBVIOUS
<1>1. runs = <<>> /\ told = <<>>
  BY DEF ScopeInit
<1>2. Records
  <2>1. runs \in Seq(RunRecord) /\ told \in Seq(ToldRecord) /\ DOMAIN runs = {} /\ DOMAIN told = {}
    BY <1>1, EmptySeq
  <2> QED BY <2>1 DEF Records
<1>3. FewBeside
  <2>1. Running = {} /\ DOMAIN told = {}
    BY <1>1 DEF Running
  <2>2. Cardinality({}) = 0 /\ MaxOpen \in Nat /\ 0 <= MaxOpen
    BY FS_EmptySet, ScopeBounds
  <2> QED BY <2>1, <2>2 DEF FewBeside
<1> QED BY <1>1, <1>2, <1>3 DEF ScopeIInv

\* The records of a list with one more.
LEMMA OneMore ==
  ASSUME NEW S, NEW list \in Seq(S), NEW e \in S
  PROVE  /\ Append(list, e) \in Seq(S) /\ Len(list) \in Nat /\ Len(Append(list, e)) = Len(list) + 1
         /\ DOMAIN list = 1..Len(list) /\ DOMAIN Append(list, e) = 1..(Len(list) + 1)
         /\ \A k \in 1..Len(list) : k \in DOMAIN Append(list, e) /\ Append(list, e)[k] = list[k]
         /\ Append(list, e)[Len(list) + 1] = e
<1>1. /\ Append(list, e) \in Seq(S) /\ Len(Append(list, e)) = Len(list) + 1
      /\ \A i \in 1..Len(list) : Append(list, e)[i] = list[i]
      /\ Append(list, e)[Len(list) + 1] = e
  BY AppendProperties
<1>2. Len(list) \in Nat /\ DOMAIN list = 1..Len(list)
  BY LenProperties
<1>3. DOMAIN Append(list, e) = 1..(Len(list) + 1)
  BY <1>1, LenProperties
<1> QED BY <1>1, <1>2, <1>3

\* What a run starts with.
Begun(q, panel) ==
  LET h == History(told)
      prepared == PreparedFab(h, q, panel)
      fabs == RunFabs(h, q)
      scope == AreaScope(h, q, prepared)
  IN [question |-> q, panel |-> panel, seen |-> Len(told), pc |-> "running",
      fab |-> IF fabs # <<>> THEN fabs[1] ELSE prepared,
      fabs |-> fabs,
      keys |-> [key \in Keys |-> ResolvedKey(h, q, panel, prepared, key)],
      areas |-> scope.areas,
      period |-> PeriodScope(h, q),
      unclear |-> scope.unresolved \/ ~(Range(fabs) \subseteq Supported)]

LEMMA BegunSound ==
  ASSUME ScopeIInv, NEW q \in Recognised, NEW panel \in Panels
  PROVE  Begun(q, panel) \in RunRecord /\ RunSound(Begun(q, panel))
<1> DEFINE h == History(told)
           L == Len(told)
           last == FabAt(Max(SaysFab(L)))
           chosen == /\ panel.fab # None
                     /\ L = 0 \/ panel.fab # runs[told[L].of].panel.fab
<1>1. PICK prepared : prepared = PreparedFab(h, q, panel)
  OBVIOUS
<1>2. PICK fabs : fabs = RunFabs(h, q)
  OBVIOUS
<1>3. PICK scope : scope = AreaScope(h, q, prepared)
  OBVIOUS
<1>4. PICK run : run = Begun(q, panel)
  OBVIOUS
<1>5. /\ run = [question |-> q, panel |-> panel, seen |-> L, pc |-> "running",
                fab |-> IF fabs # <<>> THEN fabs[1] ELSE prepared,
                fabs |-> fabs,
                keys |-> [key \in Keys |-> ResolvedKey(h, q, panel, prepared, key)],
                areas |-> scope.areas,
                period |-> PeriodScope(h, q),
                unclear |-> scope.unresolved \/ ~(Range(fabs) \subseteq Supported)]
  BY <1>1, <1>2, <1>3, <1>4 DEF Begun
<1>6. /\ run.question = q /\ run.panel = panel /\ run.seen = L
      /\ run.fab = (IF fabs # <<>> THEN fabs[1] ELSE prepared) /\ run.fabs = fabs
      /\ run.areas = scope.areas /\ run.period = PeriodScope(h, q)
      /\ \A key \in Keys : run.keys[key] = ResolvedKey(h, q, panel, prepared, key)
  BY <1>5
<1>7. /\ prepared \in FabNames
      /\ q.fabs = <<>> => prepared = IF chosen \/ SaysFab(L) = {} THEN panel.fab ELSE last
  BY <1>1, FabIs
<1>8. /\ fabs \in Seq(FabNames) /\ (q.fabs # <<>> => fabs = q.fabs)
      /\ q.fabs = <<>> /\ fabs # <<>> =>
           Len(fabs) >= 2 /\ IsInjective(fabs) /\ \A fab \in Range(fabs) : FabEarned(fab, L)
  BY <1>2, ComparedIs
<1>9. /\ scope.areas \in SUBSET Areas /\ scope.unresolved \in BOOLEAN
      /\ scope.areas = q.areas \/ AreasFrom(scope.areas, L)
  BY <1>3, AreasAre
<1>10. /\ PeriodScope(h, q) = IF GoesOn(q) THEN PeriodUpTo(L) ELSE q.period
       /\ PeriodScope(h, q) \in Periods \cup {None}
  BY PeriodIs
<1>11. ASSUME NEW key \in Keys
       PROVE  /\ ResolvedKey(h, q, panel, prepared, key) \in KeyNames
              /\ key = "process" => ResolvedKey(h, q, panel, prepared, key) \in Areas \cup {None}
              /\ ResolvedKey(h, q, panel, prepared, key) = KeyNext(run, key)
  BY <1>3, <1>6, KeyIs
<1>12. run \in RunRecord
  <2>1. (IF fabs # <<>> THEN fabs[1] ELSE prepared) \in FabNames
    <3>1. fabs # <<>> => 1 \in 1..Len(fabs) /\ fabs \in [1..Len(fabs) -> FabNames]
      BY <1>8, EmptySeq, LenProperties
    <3> QED BY <3>1, <1>7
  <2>2. L \in Nat
    BY RunsAre DEF ScopeIInv
  <2>3. [key \in Keys |-> ResolvedKey(h, q, panel, prepared, key)] \in KeyScopes
    <3>1. "process" \in Keys
      BY DEF Keys
    <3> QED BY <1>11, <3>1 DEF KeyScopes
  <2>4. (scope.unresolved \/ ~(Range(fabs) \subseteq Supported)) \in BOOLEAN
    OBVIOUS
  <2> HIDE DEF h, L
  <2> QED BY <1>5, <1>8, <1>9, <1>10, <2>1, <2>2, <2>3, <2>4 DEF RunRecord
<1>13. run.fab = FabNext(run)
  <2>1. CASE q.fabs # <<>>
    BY <2>1, <1>6, <1>8 DEF FabNext
  <2>2. CASE q.fabs = <<>> /\ fabs # <<>>
    BY <2>2, <1>6 DEF FabNext
  <2>3. CASE q.fabs = <<>> /\ fabs = <<>>
    <3>1. run.fab = IF chosen \/ SaysFab(L) = {} THEN panel.fab ELSE last
      BY <2>3, <1>6, <1>7
    <3> QED BY <2>3, <3>1, <1>6 DEF FabNext
  <2> QED BY <2>1, <2>2, <2>3
<1>14. RunSound(run)
  <2>1. \A key \in Keys : run.keys[key] = KeyNext(run, key)
    BY <1>6, <1>11
  <2>2. run.period = IF GoesOn(run.question) THEN PeriodUpTo(run.seen) ELSE run.question.period
    BY <1>6, <1>10
  <2>3. run.areas = run.question.areas \/ AreasFrom(run.areas, run.seen)
    BY <1>6, <1>9
  <2>4. /\ run.question.fabs # <<>> => run.fabs = run.question.fabs
        /\ run.question.fabs = <<>> /\ run.fabs # <<>> =>
             Len(run.fabs) >= 2 /\ IsInjective(run.fabs) /\ \A fab \in Range(run.fabs) : FabEarned(fab, run.seen)
    BY <1>6, <1>8
  <2> QED BY <1>13, <2>1, <2>2, <2>3, <2>4 DEF RunSound
<1> QED BY <1>4, <1>12, <1>14

LEMMA AskKeeps ==
  ASSUME ScopeIInv, NEW q \in Recognised, NEW panel \in Panels, Ask(q, panel)
  PROVE  ScopeIInv'
<1>1. PICK run : run = Begun(q, panel)
  OBVIOUS
<1>2. run \in RunRecord /\ RunSound(run) /\ run.seen = Len(told) /\ run.pc = "running"
  BY <1>1, BegunSound DEF Begun
<1>3. runs' = Append(runs, run) /\ told' = told /\ Cardinality(Running) < MaxOpen
  BY <1>1 DEF Ask, Begun
<1>4. Records
  BY DEF ScopeIInv
<1> DEFINE N == Len(runs)
<1>5. /\ runs' \in Seq(RunRecord) /\ N \in Nat /\ DOMAIN runs = 1..N /\ DOMAIN runs' = 1..(N + 1)
      /\ \A i \in 1..N : i \in DOMAIN runs' /\ runs'[i] = runs[i]
      /\ runs'[N + 1] = run
  BY <1>2, <1>3, <1>4, OneMore DEF Records
<1>6. Len(told) \in Nat /\ DOMAIN told = 1..Len(told) /\ \A n \in DOMAIN told : told[n].of \in 1..N
  BY <1>4, <1>5, RunsAre DEF Records
<1> HIDE DEF N
<1>7. Grown
  BY <1>3, <1>5 DEF Grown
<1>8. Records'
  <2>1. \A i \in DOMAIN runs' : runs'[i].seen <= Len(told')
    <3> TAKE i \in DOMAIN runs'
    <3>1. CASE i \in 1..N
      BY <3>1, <1>3, <1>4, <1>5 DEF Records
    <3>2. CASE i = N + 1
      BY <3>2, <1>2, <1>3, <1>5, <1>6
    <3> QED BY <3>1, <3>2, <1>5
  <2>2. \A n \in DOMAIN told' :
          /\ told'[n].of \in DOMAIN runs' /\ runs'[told'[n].of].pc = "stored" /\ runs'[told'[n].of].seen < n
          /\ told'[n].result = NoTypedResult \/ told'[n].result.fab \in Supported
    BY <1>3, <1>4, <1>5, <1>6 DEF Records
  <2>3. told' \in Seq(ToldRecord) /\ \A m, n \in DOMAIN told' : told'[m].of = told'[n].of => m = n
    BY <1>3, <1>4 DEF Records
  <2> QED BY <1>5, <2>1, <2>2, <2>3 DEF Records
<1>9. FewBeside'
  <2>1. Running' \subseteq Running \cup {N + 1} /\ Running \subseteq 1..N
    BY <1>5 DEF Running
  <2>2. Cardinality(Running') <= MaxOpen
    <3>0. IsFiniteSet(1..N)
      <4>1. N \in Int /\ 1 \in Int
        BY <1>5
      <4> QED BY ONLY <4>1, FS_Interval
    <3>1. IsFiniteSet(Running)
      BY <2>1, <3>0, FS_Subset
    <3>2. /\ IsFiniteSet(Running \cup {N + 1})
          /\ Cardinality(Running \cup {N + 1}) <= Cardinality(Running) + 1
      <4>1. IsFiniteSet(Running \cup {N + 1}) /\ Cardinality(Running) \in Nat
        BY <3>1, FS_AddElement, FS_CardinalityType
      <4>2. Cardinality(Running \cup {N + 1}) =
              IF N + 1 \in Running THEN Cardinality(Running) ELSE Cardinality(Running) + 1
        BY <3>1, FS_AddElement
      <4> QED BY <4>1, <4>2
    <3>3. Cardinality(Running') <= Cardinality(Running \cup {N + 1}) /\ IsFiniteSet(Running')
      BY <2>1, <3>2, FS_Subset
    <3>4. Cardinality(Running) \in Nat /\ Cardinality(Running') \in Nat /\ Cardinality(Running \cup {N + 1}) \in Nat /\ MaxOpen \in Nat
      BY <3>1, <3>2, <3>3, FS_CardinalityType, ScopeBounds
    <3> QED BY <1>3, <3>2, <3>3, <3>4
  <2>3. ASSUME NEW n \in DOMAIN told' PROVE Cardinality(Beside(n)') < MaxOpen
    <3>1. n \in DOMAIN told /\ ~(run.seen < n)
      BY <2>3, <1>2, <1>3, <1>6
    <3>2. Beside(n)' = Beside(n)
      <4>1. \A i \in DOMAIN runs' : runs'[i].seen < n => i \in 1..N
        BY <1>5, <3>1
      <4> QED BY <4>1, <1>3, <1>5 DEF Beside
    <3> QED BY <3>1, <3>2 DEF FewBeside, ScopeIInv
  <2> QED BY <2>2, <2>3 DEF FewBeside
<1>10. ASSUME NEW i \in DOMAIN runs' PROVE RunSound(runs[i])'
  <2>1. CASE i \in 1..N
    <3>1. i \in DOMAIN runs /\ RunSound(runs[i])
      BY <2>1, <1>5 DEF ScopeIInv
    <3> QED BY <3>1, <1>4, <1>7, RunStays
  <2>2. CASE i = N + 1
    <3>1. run.seen \in 0..Len(told)
      BY <1>2, <1>6
    <3>2. RunSound(run)'
      BY <1>2, <1>4, <1>7, <3>1, SoundStays
    <3> QED BY <2>2, <3>2, <1>5
  <2> QED BY <2>1, <2>2, <1>5
<1>11. ASSUME NEW n \in DOMAIN told' PROVE ToldSound(n)'
  <2>1. n \in DOMAIN told /\ ToldSound(n)
    BY <1>3 DEF ScopeIInv
  <2> QED BY <2>1, <1>4, <1>7, ToldStays
<1> QED BY <1>8, <1>9, <1>10, <1>11 DEF ScopeIInv

\* What is stored of a run is sound, whatever was stored since it began.
LEMMA StoreKeeps ==
  ASSUME ScopeIInv, NEW i \in DOMAIN runs, runs[i].pc = "running",
         NEW status \in {"succeeded", "needs_clarification", "failed"},
         NEW typed \in Typed, typed = NoTypedResult \/ typed.fab \in Supported,
         Store(i, status, typed)
  PROVE  ScopeIInv'
<1> DEFINE L == Len(told)
           h == History(told)
<1>1. PICK q : q = runs[i].question
  OBVIOUS
<1>2. PICK scope : scope = AreaScope(h, q, None)
  OBVIOUS
<1>3. PICK e : e = [of |-> i, status |-> status, result |-> typed, fabIds |-> ComparedFabs(h, q),
                    queryAreas |-> IF Cardinality(scope.areas) > 1 THEN scope.areas ELSE {},
                    queryPeriod |-> PeriodScope(h, q)]
  OBVIOUS
<1>4. told' = Append(told, e) /\ runs' = [runs EXCEPT ![i].pc = "stored"]
  BY <1>1, <1>2, <1>3 DEF Store
<1>5. Records
  BY DEF ScopeIInv
<1>6. /\ runs[i] \in RunRecord /\ q \in Recognised /\ i \in Nat /\ runs[i].seen \in 0..L
  BY <1>1, <1>5, RunsAre DEF RunRecord, Records
<1>7. /\ ComparedFabs(h, q) \in Seq(FabNames)
      /\ \A fab \in Range(ComparedFabs(h, q)) : fab \in Range(q.fabs) \/ FabEarned(fab, L)
  BY <1>6, ComparedIs
<1>8. scope.areas \in SUBSET Areas /\ (scope.areas = q.areas \/ AreasFrom(scope.areas, L))
  BY <1>2, <1>6, AreasAre
<1>9. /\ PeriodScope(h, q) = IF GoesOn(q) THEN PeriodUpTo(L) ELSE q.period
      /\ PeriodScope(h, q) \in Periods \cup {None}
  BY <1>6, PeriodIs
<1>10. e \in ToldRecord
  <2> HIDE DEF h
  <2> QED BY <1>3, <1>6, <1>7, <1>8, <1>9 DEF ToldRecord
<1>11. /\ told' \in Seq(ToldRecord) /\ L \in Nat /\ Len(told') = L + 1 /\ DOMAIN told = 1..L /\ DOMAIN told' = 1..(L + 1)
       /\ \A n \in 1..L : n \in DOMAIN told' /\ told'[n] = told[n]
       /\ told'[L + 1] = e
  BY <1>4, <1>5, <1>10, OneMore DEF Records
<1>12. /\ runs' \in Seq(RunRecord) /\ DOMAIN runs' = DOMAIN runs
       /\ runs'[i] = [runs[i] EXCEPT !.pc = "stored"]
       /\ \A j \in DOMAIN runs : j # i => runs'[j] = runs[j]
  <2>1. /\ DOMAIN runs' = DOMAIN runs /\ runs'[i] = [runs[i] EXCEPT !.pc = "stored"]
        /\ \A j \in DOMAIN runs : j # i => runs'[j] = runs[j]
    BY <1>4, <1>5 DEF Records
  <2>2. runs'[i] \in RunRecord
    BY <1>6, <2>1 DEF RunRecord
  <2>3. runs' \in [1..Len(runs) -> RunRecord] /\ Len(runs) \in Nat
    <3>1. Len(runs) \in Nat /\ DOMAIN runs = 1..Len(runs) /\ \A j \in DOMAIN runs : runs[j] \in RunRecord
      BY <1>5, RunsAre
    <3>2. \A j \in 1..Len(runs) : runs'[j] \in RunRecord
      BY <3>1, <2>1, <2>2
    <3>3. runs' = [j \in 1..Len(runs) |-> runs'[j]]
      BY <1>4, <3>1
    <3> QED BY <3>1, <3>2, <3>3
  <2>4. runs' \in Seq(RunRecord)
    BY <2>3, SeqDef
  <2> QED BY <2>1, <2>4
<1>13. runs'[i].pc = "stored" /\ runs'[i].seen = runs[i].seen /\ runs'[i].question = q
  BY <1>1, <1>6, <1>12 DEF RunRecord
<1>14. Grown
  <2>1. \A j \in DOMAIN runs : runs[j] \in RunRecord
    BY <1>5, RunsAre
  <2>2. /\ runs'[i].question = runs[i].question /\ runs'[i].panel = runs[i].panel
        /\ runs'[i].seen = runs[i].seen
        /\ runs'[i].fab = runs[i].fab /\ runs'[i].fabs = runs[i].fabs /\ runs'[i].keys = runs[i].keys
        /\ runs'[i].areas = runs[i].areas /\ runs'[i].period = runs[i].period
    BY <1>6, <1>12 DEF RunRecord
  <2> QED BY <2>2, <1>11, <1>12 DEF Grown
<1>15. /\ \A n \in DOMAIN told : told[n].of \in DOMAIN runs /\ runs[told[n].of].pc = "stored" /\ told[n].of # i
       /\ \A j \in DOMAIN runs : runs'[j].seen = runs[j].seen
  BY <1>5, <1>12, <1>13 DEF Records
<1> HIDE DEF L
<1>16. Records'
  <2>1. \A j \in DOMAIN runs' : runs'[j].seen <= Len(told')
    <3> TAKE j \in DOMAIN runs'
    <3>1. runs[j].seen \in Nat /\ runs[j].seen <= L
      BY <1>5, <1>12, RunsAre DEF Records, RunRecord, L
    <3> QED BY <3>1, <1>11, <1>12, <1>15
  <2>2. ASSUME NEW n \in DOMAIN told'
        PROVE  /\ told'[n].of \in DOMAIN runs' /\ runs'[told'[n].of].pc = "stored" /\ runs'[told'[n].of].seen < n
               /\ told'[n].result = NoTypedResult \/ told'[n].result.fab \in Supported
    <3>1. CASE n \in 1..L
      <4>1. n \in DOMAIN told /\ told'[n] = told[n]
        BY <3>1, <1>11
      <4> QED BY <4>1, <1>5, <1>12, <1>15 DEF Records
    <3>2. CASE n = L + 1
      <4>1. told'[n].of = i /\ told'[n].result = typed
        BY <3>2, <1>3, <1>11
      <4>2. runs[i].seen \in Nat /\ runs[i].seen <= L
        BY <1>6, <1>11
      <4> QED BY <4>1, <4>2, <3>2, <1>11, <1>12, <1>13
    <3> QED BY <3>1, <3>2, <1>11
  <2>3. ASSUME NEW m \in DOMAIN told', NEW n \in DOMAIN told', told'[m].of = told'[n].of PROVE m = n
    <3>1. told'[L + 1].of = i /\ \A k \in 1..L : told'[k].of = told[k].of /\ k \in DOMAIN told
      BY <1>3, <1>11
    <3>2. CASE m \in 1..L /\ n \in 1..L
      BY <2>3, <3>1, <3>2, <1>5 DEF Records
    <3>3. CASE m = L + 1 \/ n = L + 1
      BY <2>3, <3>1, <3>3, <1>11, <1>15
    <3> QED BY <3>2, <3>3, <1>11
  <2> QED BY <1>11, <1>12, <2>1, <2>2, <2>3 DEF Records
<1>17. FewBeside'
  <2>1. Running' = Running \ {i} /\ i \in Running
    BY <1>12, <1>13 DEF Running
  <2>2. IsFiniteSet(Running) /\ Cardinality(Running) \in Nat /\ MaxOpen \in Nat /\ Cardinality(Running) <= MaxOpen
    <3>1. IsFiniteSet(1..Len(runs)) /\ Running \subseteq 1..Len(runs)
      BY <1>5, RunsAre, FS_Interval DEF Running
    <3>2. IsFiniteSet(Running) /\ Cardinality(Running) \in Nat
      BY <3>1, FS_Subset, FS_CardinalityType
    <3> QED BY <3>2, ScopeBounds DEF FewBeside, ScopeIInv
  <2>3. Cardinality(Running') = Cardinality(Running) - 1 /\ IsFiniteSet(Running')
    <3>1. Cardinality(Running \ {i}) = Cardinality(Running) - 1 /\ IsFiniteSet(Running \ {i})
      BY <2>1, <2>2, FS_RemoveElement
    <3> QED BY <3>1, <2>1
  <2>4. ASSUME NEW n \in DOMAIN told' PROVE Cardinality(Beside(n)') < MaxOpen
    <3>1. CASE n \in 1..L
      <4>1. Beside(n)' = Beside(n)
        <5>1. \A j \in DOMAIN runs : (\E m \in DOMAIN told' : m > n /\ told'[m].of = j) <=>
                                     j = i \/ \E m \in DOMAIN told : m > n /\ told[m].of = j
          <6>1. told'[L + 1].of = i /\ L + 1 > n /\ L + 1 \in DOMAIN told'
            BY <3>1, <1>3, <1>11
          <6>2. \A m \in DOMAIN told' : m = L + 1 \/ (m \in DOMAIN told /\ told'[m] = told[m])
            BY <1>11
          <6>3. \A m \in DOMAIN told : m \in DOMAIN told' /\ told'[m] = told[m]
            BY <1>11
          <6> QED BY <6>1, <6>2, <6>3
        <5> QED BY <5>1, <1>12, <1>13, <1>15 DEF Beside
      <4> QED BY <4>1, <3>1, <1>11 DEF FewBeside, ScopeIInv
    <3>2. CASE n = L + 1
      <4>1. Beside(n)' \subseteq Running'
        <5>1. \A m \in DOMAIN told' : ~(m > n)
          BY <3>2, <1>11
        <5> QED BY <5>1 DEF Beside, Running
      <4>2. Cardinality(Beside(n)') <= Cardinality(Running') /\ IsFiniteSet(Beside(n)')
        BY <4>1, <2>3, FS_Subset
      <4>3. Cardinality(Beside(n)') \in Nat
        BY <4>2, FS_CardinalityType
      <4> QED BY <4>2, <4>3, <2>2, <2>3
    <3> QED BY <3>1, <3>2, <1>11
  <2> QED BY <2>2, <2>3, <2>4 DEF FewBeside
<1>18. ASSUME NEW j \in DOMAIN runs' PROVE RunSound(runs[j])'
  BY <1>5, <1>12, <1>14, RunStays DEF ScopeIInv
<1>19. ASSUME NEW n \in DOMAIN told' PROVE ToldSound(n)'
  <2>1. CASE n \in 1..L
    <3>1. n \in DOMAIN told /\ ToldSound(n)
      BY <2>1, <1>11 DEF ScopeIInv
    <3> QED BY <3>1, <1>5, <1>14, ToldStays
  <2>2. CASE n = L + 1
    <3> DEFINE s == n - 1
    <3>1. s \in 0..Len(told) /\ s = Len(told)
      BY <2>2, <1>11 DEF L
    <3>2. PeriodScope(h, q) = (IF GoesOn(q) THEN PeriodUpTo(s) ELSE q.period)
          /\ (scope.areas = q.areas \/ AreasFrom(scope.areas, s))
          /\ \A fab \in Range(ComparedFabs(h, q)) : fab \in Range(q.fabs) \/ FabEarned(fab, s)
      BY <3>1, <1>7, <1>8, <1>9 DEF L
    <3>3. /\ s \in Nat /\ n \in Nat /\ told'[n] = e /\ n \in 1..n /\ 1..s \subseteq 1..n
          /\ \A k \in 1..n : k = n \/ k \in 1..s
      BY <2>2, <1>11
    <3>4. AskedAt(n)' = q
      BY <3>3, <1>3, <1>13 DEF AskedAt, Asked
    <3>5. /\ Begins(s)' = Begins(s) /\ PeriodUpTo(s)' = PeriodUpTo(s)
          /\ \A areas : AreasFrom(areas, s) => AreasFrom(areas, s)'
          /\ \A fab : FabEarned(fab, s) => FabEarned(fab, s)'
      BY <3>1, <1>5, <1>14, SaysStay
    <3>6. \A areas : AreasFrom(areas, s) => AreasFrom(areas, n)'
      <4>1. \A areas : AreasFrom(areas, s)' => AreasFrom(areas, n)'
        BY <3>3 DEF AreasFrom
      <4> QED BY <4>1, <3>5
    <3>7. e.queryPeriod = PeriodUpTo(n)'
      <4>1. e.queryPeriod = IF GoesOn(q) THEN PeriodUpTo(s) ELSE q.period
        BY <3>2, <1>3
      <4>2. CASE GoesOn(q)
        <5>1. Begins(n)' = Begins(s)'
          BY <3>3, <3>4, <4>2 DEF Begins
        <5>2. PeriodUpTo(n)' = PeriodUpTo(s)'
          BY <5>1 DEF PeriodUpTo
        <5> QED BY <5>2, <4>1, <4>2, <3>5
      <4>3. CASE ~GoesOn(q)
        <5>1. PICK B : B = Begins(n)'
          OBVIOUS
        <5>2. n \in B /\ B \in SUBSET (1..n)
          BY <5>1, <3>3, <3>4, <4>3 DEF Begins
        <5>3. Max(B) = n
          <6>1. Max(B) \in B /\ \A b \in B : b <= Max(B)
            BY <5>2, <3>3, MaxIn
          <6>2. Max(B) \in 1..n /\ n <= Max(B)
            BY <6>1, <5>2
          <6> QED BY <6>2, <3>3
        <5>4. Begins(n)' # {} /\ AskedAt(Max(Begins(n)))' = q
          BY <5>1, <5>2, <5>3, <3>4
        <5> QED BY <5>4, <4>1, <4>3 DEF PeriodUpTo
      <4> QED BY <4>2, <4>3
    <3>8. AreasFrom(e.queryAreas, n)'
      <4>1. e.queryAreas \in {{}, scope.areas}
        BY <1>3
      <4>2. AreasFrom({}, n)' /\ AreasFrom(q.areas, n)'
        BY <3>3, <3>4 DEF AreasFrom
      <4>3. scope.areas = q.areas \/ AreasFrom(scope.areas, n)'
        BY <3>2, <3>6
      <4>4. AreasFrom(scope.areas, n)'
        BY <4>2, <4>3
      <4> QED BY <4>1, <4>2, <4>4
    <3>9. \A fab \in Range(e.fabIds) : fab \in Range(q.fabs) \/ FabEarned(fab, s)'
      <4>1. e.fabIds = ComparedFabs(h, q)
        BY <1>3
      <4> QED BY <4>1, <3>2, <3>5
    <3> QED BY <3>3, <3>4, <3>7, <3>8, <3>9 DEF ToldSound
  <2> QED BY <2>1, <2>2, <1>11
<1> QED BY <1>16, <1>17, <1>18, <1>19 DEF ScopeIInv

LEMMA AnswerKeeps ==
  ASSUME ScopeIInv, NEW i \in DOMAIN runs, Answer(i)
  PROVE  ScopeIInv'
<1>1. runs[i].pc = "running" /\ runs[i] \in RunRecord
  BY RunsAre DEF Answer, ScopeIInv
<1>2. NoTypedResult \in Typed
  BY DEF NoTypedResult, Typed
<1>3. ASSUME NEW typed \in Results(runs[i]) \cup {NoTypedResult}
      PROVE  typed \in Typed /\ (typed = NoTypedResult \/ typed.fab \in Supported)
  <2>1. CASE typed = NoTypedResult
    BY <2>1, <1>2
  <2>2. CASE typed \in Results(runs[i])
    <3> DEFINE run == runs[i]
               about == IF run.areas # {} THEN run.areas
                        ELSE IF run.keys["process"] # None THEN {run.keys["process"]} ELSE Areas
    <3>1. about \subseteq Areas
      BY <1>1 DEF RunRecord, KeyScopes
    <3> HIDE DEF about
    <3>2. run.fab \in Supported /\ typed \in [fab : {run.fab}, areas : (SUBSET about) \ {{}}]
      BY <2>2 DEF Results, about
    <3> QED BY <3>1, <3>2 DEF Typed
  <2> QED BY <2>1, <2>2, <1>3
<1>4. ASSUME NEW typed \in Results(runs[i]) \cup {NoTypedResult}, Store(i, "succeeded", typed)
      PROVE  ScopeIInv'
  BY <1>1, <1>3, <1>4, StoreKeeps
<1>5. ASSUME Store(i, "failed", NoTypedResult) PROVE ScopeIInv'
  BY <1>1, <1>2, <1>5, StoreKeeps
<1> QED BY <1>4, <1>5 DEF Answer

LEMMA AskBackKeeps ==
  ASSUME ScopeIInv, NEW i \in DOMAIN runs, AskBack(i)
  PROVE  ScopeIInv'
<1>1. NoTypedResult \in Typed
  BY DEF NoTypedResult, Typed
<1> QED BY <1>1, StoreKeeps DEF AskBack

LEMMA AbandonKeeps ==
  ASSUME ScopeIInv, NEW i \in DOMAIN runs, Abandon(i)
  PROVE  ScopeIInv'
<1>1. runs' = [runs EXCEPT ![i].pc = "failed"] /\ told' = told /\ runs[i].pc = "running"
  BY DEF Abandon
<1>2. Records
  BY DEF ScopeIInv
<1>3. /\ Len(runs) \in Nat /\ DOMAIN runs = 1..Len(runs) /\ \A j \in DOMAIN runs : runs[j] \in RunRecord
  BY <1>2, RunsAre
<1>4. /\ DOMAIN runs' = DOMAIN runs /\ runs'[i] = [runs[i] EXCEPT !.pc = "failed"]
      /\ \A j \in DOMAIN runs : j # i => runs'[j] = runs[j]
  BY <1>1, <1>2 DEF Records
<1>5. runs' \in Seq(RunRecord)
  <2>1. runs'[i] \in RunRecord
    BY <1>3, <1>4 DEF RunRecord
  <2>2. \A j \in 1..Len(runs) : runs'[j] \in RunRecord
    BY <1>3, <1>4, <2>1
  <2>3. runs' = [j \in 1..Len(runs) |-> runs'[j]]
    BY <1>1, <1>3
  <2>4. runs' \in [1..Len(runs) -> RunRecord]
    BY <2>2, <2>3
  <2> QED BY <2>4, <1>3, SeqDef
<1>6. runs'[i].pc = "failed" /\ \A j \in DOMAIN runs : runs'[j].seen = runs[j].seen
  BY <1>3, <1>4 DEF RunRecord
<1>7. Grown
  <2>1. /\ runs'[i].question = runs[i].question /\ runs'[i].panel = runs[i].panel
        /\ runs'[i].seen = runs[i].seen
        /\ runs'[i].fab = runs[i].fab /\ runs'[i].fabs = runs[i].fabs /\ runs'[i].keys = runs[i].keys
        /\ runs'[i].areas = runs[i].areas /\ runs'[i].period = runs[i].period
    BY <1>3, <1>4 DEF RunRecord
  <2> QED BY <2>1, <1>1, <1>4 DEF Grown
<1>8. \A n \in DOMAIN told : told[n].of \in DOMAIN runs /\ told[n].of # i
  BY <1>1, <1>2 DEF Records
<1>9. Records'
  BY <1>1, <1>2, <1>4, <1>5, <1>6, <1>8 DEF Records
<1>10. FewBeside'
  <2>1. Running' \subseteq Running /\ \A n \in DOMAIN told : Beside(n)' \subseteq Beside(n)
    BY <1>1, <1>4, <1>6 DEF Running, Beside
  <2>2. IsFiniteSet(1..Len(runs)) /\ Running \subseteq 1..Len(runs) /\ \A n \in DOMAIN told : Beside(n) \subseteq 1..Len(runs)
    <3>1. IsFiniteSet(1..Len(runs))
      BY <1>3, FS_Interval
    <3>2. Running \subseteq 1..Len(runs) /\ \A n \in DOMAIN told : Beside(n) \subseteq 1..Len(runs)
      BY <1>3 DEF Running, Beside
    <3> QED BY <3>1, <3>2
  <2>3. MaxOpen \in Nat
    BY ScopeBounds
  <2>4. Cardinality(Running') <= MaxOpen
    <3>1. IsFiniteSet(Running) /\ Cardinality(Running) <= MaxOpen
      BY <2>2, FS_Subset DEF FewBeside, ScopeIInv
    <3>2. IsFiniteSet(Running') /\ Cardinality(Running') <= Cardinality(Running)
      BY <2>1, <3>1, FS_Subset
    <3>3. Cardinality(Running) \in Nat /\ Cardinality(Running') \in Nat
      BY <3>1, <3>2, FS_CardinalityType
    <3> QED BY <2>3, <3>1, <3>2, <3>3
  <2>5. ASSUME NEW n \in DOMAIN told' PROVE Cardinality(Beside(n)') < MaxOpen
    <3>0. n \in DOMAIN told
      BY <1>1
    <3>1. IsFiniteSet(Beside(n)) /\ Cardinality(Beside(n)) < MaxOpen
      BY <2>2, <3>0, FS_Subset DEF FewBeside, ScopeIInv
    <3>2. IsFiniteSet(Beside(n)') /\ Cardinality(Beside(n)') <= Cardinality(Beside(n))
      BY <2>1, <3>0, <3>1, FS_Subset
    <3>3. Cardinality(Beside(n)) \in Nat /\ Cardinality(Beside(n)') \in Nat
      BY <3>1, <3>2, FS_CardinalityType
    <3> QED BY <2>3, <3>1, <3>2, <3>3
  <2> QED BY <2>4, <2>5 DEF FewBeside
<1>11. ASSUME NEW j \in DOMAIN runs' PROVE RunSound(runs[j])'
  BY <1>2, <1>4, <1>7, RunStays DEF ScopeIInv
<1>12. ASSUME NEW n \in DOMAIN told' PROVE ToldSound(n)'
  <2>1. n \in DOMAIN told /\ ToldSound(n)
    BY <1>1 DEF ScopeIInv
  <2> QED BY <2>1, <1>2, <1>7, ToldStays
<1> QED BY <1>9, <1>10, <1>11, <1>12 DEF ScopeIInv

LEMMA ScopeNextKeeps == ScopeIInv /\ [ScopeNext]_scopeVars => ScopeIInv'
<1> SUFFICES ASSUME ScopeIInv, [ScopeNext]_scopeVars PROVE ScopeIInv'
  OBVIOUS
<1>1. ASSUME NEW q \in Recognised, NEW panel \in Panels, Ask(q, panel) PROVE ScopeIInv'
  BY <1>1, AskKeeps
<1>2. ASSUME NEW i \in DOMAIN runs, Answer(i) PROVE ScopeIInv'
  BY <1>2, AnswerKeeps
<1>3. ASSUME NEW i \in DOMAIN runs, AskBack(i) PROVE ScopeIInv'
  BY <1>3, AskBackKeeps
<1>4. ASSUME NEW i \in DOMAIN runs, Abandon(i) PROVE ScopeIInv'
  BY <1>4, AbandonKeeps
<1>5. CASE UNCHANGED scopeVars
  <2>1. runs' = runs /\ told' = told
    BY <1>5 DEF scopeVars
  <2>2. Records /\ Grown
    BY <2>1 DEF ScopeIInv, Grown
  <2>3. Records'
    BY <2>1, <2>2 DEF Records
  <2>4. FewBeside'
    BY <2>1 DEF ScopeIInv, FewBeside, Running, Beside
  <2>5. \A i \in DOMAIN runs' : RunSound(runs[i])'
    BY <2>1, <2>2, RunStays DEF ScopeIInv
  <2>6. \A n \in DOMAIN told' : ToldSound(n)'
    BY <2>1, <2>2, ToldStays DEF ScopeIInv
  <2> QED BY <2>3, <2>4, <2>5, <2>6 DEF ScopeIInv
<1> QED BY <1>1, <1>2, <1>3, <1>4, <1>5 DEF ScopeNext

\* A run is about what its question and the conversation before it say: the FAB,
\* each key, the period and the areas it works with (prepare_request, the intent
\* analysis) are those the conversation last gave, also when the memory dropped
\* the exchange that gave them and when exchanges were stored in another order
\* than they were asked (append_exchange).
THEOREM ScopeStaysAsMeant == ScopeSpec => []ScopeAsMeant
<1>1. ScopeIInv /\ [ScopeNext]_scopeVars => ScopeIInv'
  BY ScopeNextKeeps
<1> QED BY <1>1, ScopeInitHolds, SoundIsMeant, PTL DEF ScopeSpec

-----------------------------------------------------------------------------
(* The inductive invariant                                                 *)

\* Catalogs are read of the FABs asked for only.
CatalogAsked ==
  /\ \A i \in DOMAIN loading : loading[i] \in Planned
  /\ \A t \in catalog : t[1] \in Planned

\* The model sees tables of the FAB asked for.
SchemaOwned == schema \subseteq Own(question.fab)

\* Plans, candidates and results know the attempt they come from.
AttemptsNumbered ==
  /\ pc \in {"catalog", "probe", "plan"} => attempt = 0
  /\ pc \in {"ask_plan", "ask_sql", "review"} => attempt \in {1, 2}
  /\ plan.by \in {0, attempt}
  /\ pc = "ask_sql" => plan.by = attempt
  /\ candidate.plan.by \in {0, candidate.attempt}
  /\ pc \in {"review", "execute"} => candidate.attempt = attempt
  /\ pc = "done" => result.plan.by \in {0, result.attempt}

\* A query that may be run.
Passed ==
  /\ candidate.sql.readOnly /\ candidate.sql.keeps /\ candidate.sql.follows
  /\ candidate.sql.tables # {} /\ candidate.sql.tables \subseteq catalog
  /\ candidate.plan.by = attempt
  /\ attempt > 0 => candidate.sql.tables = candidate.plan.tables

CandidateChecked ==
  /\ pc = "execute" => candidate.status = "succeeded"
  /\ pc = "review" => candidate.status # "none"
  /\ pc \in {"ask_plan", "ask_sql"} /\ attempt = 2 => candidate.status \in {"unsupported", "failed"}
  /\ pc \in {"review", "execute"} /\ candidate.status = "succeeded" => Passed

IInv ==
  /\ TypeOK
  /\ CatalogAsked
  /\ SchemaOwned
  /\ AttemptsNumbered
  /\ CandidateChecked
  /\ RowsInScope

-----------------------------------------------------------------------------
(* The initial state                                                       *)

LEMMA TargetsPlanned ==
  ASSUME question \in Question
  PROVE  /\ Targets \in Seq(Fabs)
         /\ \A i \in DOMAIN Targets : Targets[i] \in Planned
<1>1. CASE Comparing
  <2>1. question.compared \in Seq(Fabs \cup {Foreign})
    BY DEF Question
  <2>2. CASE \E i \in DOMAIN question.compared : question.compared[i] = Foreign
    BY <1>1, <2>2 DEF Targets
  <2>3. CASE \A i \in DOMAIN question.compared : question.compared[i] # Foreign
    <3>1. question.compared \in Seq(Fabs)
      <4>1. Len(question.compared) \in Nat
        BY <2>1
      <4>2. question.compared \in [1..Len(question.compared) -> Fabs]
        BY <2>1, <2>3
      <4> QED BY <4>1, <4>2
    <3> QED BY <1>1, <2>3, <3>1 DEF Targets, Planned
  <2> QED BY <2>2, <2>3
<1>2. CASE ~ Comparing
  <2>1. question.fab \in Fabs \cup {NoFab}
    BY DEF Question
  <2>2. CASE question.fab = NoFab
    BY <1>2, <2>2 DEF Targets
  <2>3. CASE question.fab # NoFab
    BY <1>2, <2>1, <2>3 DEF Targets, Planned
  <2> QED BY <2>2, <2>3
<1> QED BY <1>1, <1>2

LEMMA InitHolds == Init => IInv
<1> SUFFICES ASSUME Init
             PROVE  IInv
  OBVIOUS
<1>1. question \in Question
  BY QuestionsAssumption DEF Init
<1>2. NoPlan \in Plan /\ NoCandidate \in Candidate /\ NoResult \in Result
  BY DEF NoPlan, Plan, NoCandidate, Candidate, Rendered, Sql, NoResult, Result, Statuses
<1>3. TypeOK
  <2>1. loading \in Seq(Fabs)
    BY <1>1, TargetsPlanned DEF Init
  <2>2. plan \in Plan /\ candidate \in Candidate /\ result \in Result
    BY <1>2 DEF Init
  <2>3. changes \in 0..MaxChanges /\ attempt \in 0..2
    BY BoundsAssumption DEF Init
  <2>4. db \in SUBSET Table /\ question \in Questions /\ catalog \in SUBSET Table
        /\ schema \in SUBSET Table /\ ran \in SUBSET Table /\ outage \in BOOLEAN
    BY DEF Init
  <2>5. pc \in {"catalog", "probe", "plan", "ask_plan", "ask_sql", "review", "execute", "done"}
    BY DEF Init
  <2> QED BY <2>1, <2>2, <2>3, <2>4, <2>5 DEF TypeOK
<1>4. CatalogAsked
  BY <1>1, TargetsPlanned DEF Init, CatalogAsked
<1> QED BY <1>3, <1>4 DEF Init, IInv, SchemaOwned, AttemptsNumbered, CandidateChecked, RowsInScope,
  NoPlan, NoCandidate

-----------------------------------------------------------------------------
(* What the actions have in common                                         *)

\* Everything but the answer stays as it is at the end of the call.
LEMMA EndKeeps ==
  ASSUME IInv, pc' = "done", result' \in Result, result'.plan.by \in {0, result'.attempt},
         result'.told = "rows" => result'.rows = Planned,
         ran' \in SUBSET Table, outage' \in BOOLEAN,
         UNCHANGED <<outsideVars, loading, catalog, draftVars>>
  PROVE  IInv'
<1> USE DEF IInv, outsideVars, draftVars
<1>1. TypeOK'
  BY DEF TypeOK
<1>2. Planned' = Planned /\ Own(question.fab)' = Own(question.fab)
  BY DEF Planned, Comparing, Own
<1> QED BY <1>1, <1>2 DEF CatalogAsked, SchemaOwned, AttemptsNumbered, CandidateChecked, RowsInScope

LEMMA FinishKeeps ==
  ASSUME IInv, NEW status \in Statuses, NEW said \in {"declined", "failed", "missing", "called_missing"},
         Finish(status, said), ran' \in SUBSET Table, outage' \in BOOLEAN,
         UNCHANGED <<outsideVars, loading, catalog, draftVars>>
  PROVE  IInv'
<1>1. result' = [status |-> status, told |-> said, rows |-> {}, plan |-> NoPlan, attempt |-> 0]
  BY DEF Finish, NoResult
<1>2. NoPlan \in Plan /\ NoPlan.by = 0
  BY DEF NoPlan, Plan
<1>3. result' \in Result /\ result'.plan.by = 0 /\ result'.told = said
  BY <1>1, <1>2 DEF Result
<1>4. pc' = "done"
  BY DEF Finish
<1> QED BY <1>3, <1>4, EndKeeps

LEMMA EndsKeeps ==
  ASSUME IInv, NEW status \in Statuses, Ends(status)
  PROVE  IInv'
<1>1. ran' \in SUBSET Table /\ outage' \in BOOLEAN
  BY DEF IInv, TypeOK, Ends
<1>2. (IF status = "failed" THEN "failed" ELSE "declined")
        \in {"declined", "failed", "missing", "called_missing"}
  OBVIOUS
<1>3. /\ Finish(status, IF status = "failed" THEN "failed" ELSE "declined")
      /\ UNCHANGED <<outsideVars, loading, catalog, draftVars>>
  BY DEF Ends
<1> QED BY <1>1, <1>2, <1>3, FinishKeeps

\* A template's query is checked like any other.
LEMMA PlansKeeps ==
  ASSUME IInv, pc = "plan", NEW T \in SUBSET catalog, T # {}, Plans(T, TRUE)
  PROVE  IInv'
<1> USE DEF IInv, outsideVars
<1>1. candidate' \in Candidate
  BY DEF TypeOK, Plans, Candidate, Rendered, Sql, NoPlan, Plan
<1>2. TypeOK'
  BY <1>1 DEF TypeOK, Plans
<1>3. Planned' = Planned /\ Own(question.fab)' = Own(question.fab)
  BY DEF Planned, Comparing, Own, Plans
<1>4. Passed'
  BY DEF Passed, Plans, Rendered, NoPlan, AttemptsNumbered
<1> QED BY <1>2, <1>3, <1>4 DEF Plans, NoPlan, CatalogAsked, SchemaOwned, AttemptsNumbered,
  CandidateChecked, RowsInScope

\* An attempt that ends with the plan it shows.
LEMMA ProposesKeeps ==
  ASSUME IInv, pc \in {"ask_plan", "ask_sql"}, NEW status \in {"succeeded", "unsupported", "failed"},
         NEW s \in Sql, Proposes(status, s, plan'), plan' \in Plan, plan'.by \in {0, attempt},
         status = "succeeded" => Valid(s) /\ plan'.by = attempt /\ s.tables = plan'.tables
  PROVE  IInv'
<1> USE DEF IInv, outsideVars
<1>1. candidate' = [status |-> status, sql |-> s, plan |-> plan', attempt |-> attempt]
  BY DEF Proposes
<1>2. candidate' \in Candidate
  BY <1>1 DEF TypeOK, Candidate
<1>3. TypeOK'
  BY <1>2 DEF TypeOK, Proposes
<1>4. Planned' = Planned /\ Own(question.fab)' = Own(question.fab)
  BY DEF Planned, Comparing, Own, Proposes
<1>5. ASSUME status = "succeeded" PROVE Passed'
  <2>1. s.tables \subseteq catalog /\ s.tables # {}
    BY <1>5 DEF Valid, SchemaOwned, Own
  <2>2. catalog' = catalog /\ attempt' = attempt
    BY DEF Proposes
  <2> QED BY <1>1, <1>5, <2>1, <2>2 DEF Passed, Valid
<1> QED BY <1>1, <1>3, <1>4, <1>5 DEF Proposes, CatalogAsked, SchemaOwned, AttemptsNumbered,
  CandidateChecked, RowsInScope

\* A result of the query, with the plan of the candidate.
LEMMA ReturnedKeeps ==
  ASSUME IInv, NEW status \in Statuses,
         NEW said \in {"rows", "no_rows", "missing", "called_missing", "failed"}, NEW rows \in SUBSET Fabs,
         Returned(status, said, rows), said = "rows" => rows = Planned,
         ran' \in SUBSET Table, outage' \in BOOLEAN,
         UNCHANGED <<outsideVars, loading, catalog, draftVars>>
  PROVE  IInv'
<1>1. candidate \in Candidate /\ candidate.plan.by \in {0, candidate.attempt}
  BY DEF IInv, TypeOK, AttemptsNumbered
<1>2. result' = [status |-> status, told |-> said, rows |-> rows, plan |-> candidate.plan,
                 attempt |-> candidate.attempt]
  BY DEF Returned
<1>3. result' \in Result
  BY <1>1, <1>2 DEF Result, Candidate
<1>4. pc' = "done"
  BY DEF Returned
<1> QED BY <1>1, <1>2, <1>3, <1>4, EndKeeps

-----------------------------------------------------------------------------
(* The actions                                                             *)

LEMMA LoadKeeps ==
  ASSUME IInv, LoadFabCatalog
  PROVE  IInv'
<1> USE DEF IInv, outsideVars, draftVars
<1>1. loading \in Seq(Fabs) /\ loading # << >>
  BY DEF TypeOK, LoadFabCatalog
<1>2. /\ Head(loading) = loading[1] /\ 1 \in DOMAIN loading
      /\ Tail(loading) \in Seq(Fabs)
      /\ \A i \in DOMAIN Tail(loading) : i + 1 \in DOMAIN loading /\ Tail(loading)[i] = loading[i + 1]
  BY <1>1
<1>3. TypeOK'
  BY <1>2 DEF TypeOK, LoadFabCatalog
<1>4. Planned' = Planned
  BY DEF Planned, Comparing, LoadFabCatalog
<1>5. CatalogAsked'
  BY <1>2, <1>4 DEF CatalogAsked, LoadFabCatalog
<1>6. SchemaOwned' /\ AttemptsNumbered' /\ CandidateChecked' /\ RowsInScope'
  BY DEF LoadFabCatalog, SchemaOwned, Own, AttemptsNumbered, CandidateChecked, RowsInScope
<1> QED BY <1>3, <1>5, <1>6

\* The steps that only go on.
LEMMA ProceedKeeps ==
  ASSUME IInv, CatalogRead \/ ProbeEntitySources
  PROVE  IInv'
<1> USE DEF IInv, outsideVars, draftVars
<1>1. /\ pc \in {"catalog", "probe"} /\ pc' \in {"probe", "plan"}
      /\ UNCHANGED <<outsideVars, loading, catalog, draftVars, result, ran, outage>>
  BY DEF CatalogRead, ProbeEntitySources
<1>2. TypeOK'
  BY <1>1 DEF TypeOK
<1>3. Planned' = Planned
  BY <1>1 DEF Planned, Comparing
<1> QED BY <1>1, <1>2, <1>3 DEF CatalogAsked, SchemaOwned, Own, AttemptsNumbered, CandidateChecked,
  RowsInScope

LEMMA CatalogFailsKeeps ==
  ASSUME IInv, CatalogFails
  PROVE  IInv'
<1>1. ran' \in SUBSET Table /\ outage' \in BOOLEAN
  BY DEF IInv, TypeOK, CatalogFails
<1>2. "failed" \in Statuses
  BY DEF Statuses
<1> QED BY <1>1, <1>2, FinishKeeps DEF CatalogFails

LEMMA DeclineKeeps ==
  ASSUME IInv, Decline
  PROVE  IInv'
<1>1. {"unsupported", "needs_clarification", "data_unavailable"} \subseteq Statuses
  BY DEF Statuses
<1> QED BY <1>1, EndsKeeps DEF Decline

LEMMA PlanComparisonKeeps ==
  ASSUME IInv, PlanComparison
  PROVE  IInv'
<1> DEFINE T == {Snapshots(question.compared[i]) : i \in DOMAIN question.compared}
<1>1. pc = "plan" /\ Comparing
  BY DEF PlanComparison, Returns, Reaches, Order, Early
<1>2. T # {}
  <2>1. question.compared \in Seq(Fabs \cup {Foreign})
    BY QuestionsAssumption DEF IInv, TypeOK, Question
  <2>2. 1 \in DOMAIN question.compared
    BY <1>1, <2>1 DEF Comparing
  <2> QED BY <2>2
<1>3. CASE T \subseteq catalog /\ Plans(T, TRUE)
  <2> HIDE DEF T
  <2> QED BY <1>1, <1>2, <1>3, PlansKeeps
<1>4. CASE Ends("data_unavailable")
  BY <1>4, EndsKeeps DEF Statuses
<1> QED BY <1>3, <1>4 DEF PlanComparison

LEMMA PlanGroundedKeeps ==
  ASSUME IInv, PlanGrounded
  PROVE  IInv'
<1>1. CASE Returns("counts") /\ Plans({<<question.fab, "toolgroups">>}, TRUE)
  <2>1. pc = "plan" /\ <<question.fab, "toolgroups">> \in catalog
    BY <1>1 DEF Returns, Reaches, Order, Early
  <2> QED BY <1>1, <2>1, PlansKeeps
<1>2. CASE Returns("snapshot") /\ Plans({Snapshots(question.fab)}, TRUE)
  <2>1. pc = "plan" /\ Snapshots(question.fab) \in catalog
    BY <1>2 DEF Returns, Reaches, Order, Early
  <2> QED BY <1>2, <2>1, PlansKeeps
<1> QED BY <1>1, <1>2 DEF PlanGrounded

LEMMA FastPathKeeps ==
  ASSUME IInv, FastPath
  PROVE  IInv'
<1>1. pc = "plan"
  BY DEF FastPath, FastPathAllowed, Reaches
<1>2. CASE Ends("needs_clarification") \/ Ends("failed")
  BY <1>2, EndsKeeps DEF Statuses
<1>3. ASSUME NEW S \in SUBSET Families, S # {}, {question.fab} \X S \subseteq catalog,
             Plans({question.fab} \X S, TRUE)
      PROVE  IInv'
  <2>1. {question.fab} \X S # {}
    <3>1. PICK x \in S : TRUE
      BY <1>3
    <3>2. <<question.fab, x>> \in {question.fab} \X S
      BY <3>1
    <3> QED BY <3>2
  <2> QED BY <1>1, <1>3, <2>1, PlansKeeps
<1> QED BY <1>2, <1>3 DEF FastPath

LEMMA SelectSchemaKeeps ==
  ASSUME IInv, SelectSchema
  PROVE  IInv'
<1>1. CASE Ends("unsupported")
  BY <1>1, EndsKeeps DEF Statuses
<1>2. CASE /\ schema' \in (SUBSET Own(question.fab)) \ {{}}
           /\ attempt' = 1
           /\ pc' = "ask_plan"
           /\ UNCHANGED <<outsideVars, loading, catalog, plan, candidate, result, ran, outage>>
  <2> USE DEF IInv, outsideVars
  <2>1. pc = "plan"
    BY DEF SelectSchema, Reaches
  <2>2. TypeOK'
    BY <1>2 DEF TypeOK, Own
  <2>3. Planned' = Planned /\ Own(question.fab)' = Own(question.fab)
    BY <1>2 DEF Planned, Comparing, Own
  <2> QED BY <1>2, <2>1, <2>2, <2>3 DEF CatalogAsked, SchemaOwned, AttemptsNumbered,
    CandidateChecked, RowsInScope
<1> QED BY <1>1, <1>2 DEF SelectSchema

LEMMA RefusedSql == NoCandidate.sql \in Sql
  BY DEF NoCandidate, Rendered, Sql

LEMMA PlanRejectedKeeps ==
  ASSUME IInv, PlanRejected
  PROVE  IInv'
<1>1. plan' = plan /\ plan \in Plan /\ plan.by \in {0, attempt}
  BY DEF IInv, TypeOK, AttemptsNumbered, PlanRejected
<1>2. pc = "ask_plan" /\ Proposes("failed", NoCandidate.sql, plan')
  BY <1>1 DEF PlanRejected
<1> QED BY <1>1, <1>2, RefusedSql, ProposesKeeps

LEMMA PlanDeclinesKeeps ==
  ASSUME IInv, PlanDeclines
  PROVE  IInv'
<1>1. plan' \in Plan /\ plan'.by = attempt
  BY DEF IInv, TypeOK, PlanDeclines, Plan
<1>2. pc = "ask_plan" /\ Proposes("unsupported", NoCandidate.sql, plan')
  BY DEF PlanDeclines
<1> QED BY <1>1, <1>2, RefusedSql, ProposesKeeps

\* A text that passed the checks, or the failure of one that did not.
LEMMA CheckedKeeps ==
  ASSUME IInv, pc \in {"ask_plan", "ask_sql"}, NEW s \in Sql, plan' \in Plan, plan'.by = attempt,
         Valid(s) => s.tables = plan'.tables, Checked(s, plan')
  PROVE  IInv'
<1>1. CASE Valid(s)
  <2>1. Proposes("succeeded", s, plan')
    BY <1>1 DEF Checked
  <2> QED BY <1>1, <2>1, ProposesKeeps
<1>2. CASE ~ Valid(s)
  <2>1. Proposes("failed", NoCandidate.sql, plan')
    BY <1>2 DEF Checked
  <2> QED BY <2>1, RefusedSql, ProposesKeeps
<1> QED BY <1>1, <1>2

LEMMA PlanValidatedKeeps ==
  ASSUME IInv, PlanValidated
  PROVE  IInv'
<1>1. PICK T \in (SUBSET schema) \ {{}} :
        /\ plan' = [by |-> attempt, tables |-> T]
        /\ \/ \E keeps \in BOOLEAN : Checked(Rendered(T, keeps), plan')
           \/ /\ pc' = "ask_sql"
              /\ UNCHANGED <<outsideVars, loading, catalog, attempt, schema, candidate, result,
                             ran, outage>>
  BY DEF PlanValidated
<1>2. pc = "ask_plan"
  BY DEF PlanValidated
<1>3. plan' \in Plan /\ plan'.by = attempt /\ plan'.tables = T /\ T \in SUBSET Table
  BY <1>1 DEF IInv, TypeOK, Plan
<1>4. ASSUME NEW keeps \in BOOLEAN, Checked(Rendered(T, keeps), plan')
      PROVE  IInv'
  <2>1. Rendered(T, keeps) \in Sql /\ Rendered(T, keeps).tables = T
    BY <1>3 DEF Rendered, Sql
  <2> QED BY <1>2, <1>3, <1>4, <2>1, CheckedKeeps
<1>5. CASE /\ pc' = "ask_sql"
           /\ UNCHANGED <<outsideVars, loading, catalog, attempt, schema, candidate, result,
                          ran, outage>>
  <2> USE DEF IInv, outsideVars
  <2>1. TypeOK'
    BY <1>3, <1>5 DEF TypeOK
  <2>2. Planned' = Planned /\ Own(question.fab)' = Own(question.fab)
    BY <1>5 DEF Planned, Comparing, Own
  <2> QED BY <1>2, <1>3, <1>5, <2>1, <2>2 DEF CatalogAsked, SchemaOwned, AttemptsNumbered,
    CandidateChecked, RowsInScope
<1> QED BY <1>1, <1>4, <1>5

LEMMA WriteSqlKeeps ==
  ASSUME IInv, WriteSql
  PROVE  IInv'
<1>1. pc = "ask_sql" /\ plan' = plan /\ plan \in Plan /\ plan.by = attempt
  BY DEF IInv, TypeOK, AttemptsNumbered, WriteSql
<1>2. CASE Proposes("unsupported", NoCandidate.sql, plan)
  BY <1>1, <1>2, RefusedSql, ProposesKeeps
<1>3. ASSUME NEW T \in Written, NEW readOnly \in BOOLEAN, NEW follows \in BOOLEAN,
             NEW keeps \in BOOLEAN, follows => T = plan.tables,
             Checked([tables |-> T, readOnly |-> readOnly, keeps |-> keeps, follows |-> follows], plan)
      PROVE  IInv'
  <2> DEFINE s == [tables |-> T, readOnly |-> readOnly, keeps |-> keeps, follows |-> follows]
  <2>1. s \in Sql
    BY QuestionsAssumption DEF Sql
  <2>2. Valid(s) => s.tables = plan'.tables
    BY <1>1, <1>3 DEF Valid
  <2>3. Checked(s, plan')
    BY <1>1, <1>3
  <2> HIDE DEF s
  <2> QED BY <1>1, <2>1, <2>2, <2>3, CheckedKeeps
<1> QED BY <1>2, <1>3 DEF WriteSql

\* The candidate of the last attempt becomes the result.
LEMMA DeliversKeeps ==
  ASSUME IInv, candidate.status \in {"unsupported", "failed"}, Delivers(candidate),
         UNCHANGED <<outsideVars, loading, catalog, draftVars, ran, outage>>
  PROVE  IInv'
<1>1. candidate \in Candidate /\ candidate.plan.by \in {0, candidate.attempt}
  BY DEF IInv, TypeOK, AttemptsNumbered
<1>2. /\ pc' = "done"
      /\ result' = [status |-> candidate.status,
                    told |-> IF candidate.status = "failed" THEN "failed" ELSE "declined",
                    rows |-> {}, plan |-> candidate.plan, attempt |-> candidate.attempt]
  BY DEF Delivers
<1>3. result' \in Result /\ result'.told # "rows"
  BY <1>1, <1>2 DEF Result, Candidate, Statuses
<1>4. ran' \in SUBSET Table /\ outage' \in BOOLEAN
  BY DEF IInv, TypeOK
<1> QED BY <1>1, <1>2, <1>3, <1>4, EndKeeps

LEMMA ModelFailsKeeps ==
  ASSUME IInv, ModelFails
  PROVE  IInv'
<1>1. /\ pc \in {"ask_plan", "ask_sql"}
      /\ UNCHANGED <<outsideVars, loading, catalog, draftVars, ran, outage>>
  BY DEF ModelFails
<1>2. CASE attempt = 1
  <2>1. pc' = "done" /\ result' = [NoResult EXCEPT !.plan = plan, !.attempt = 1]
    BY <1>2 DEF ModelFails
  <2>2. result' = [status |-> "failed", told |-> "failed", rows |-> {}, plan |-> plan, attempt |-> 1]
    BY <2>1 DEF NoResult
  <2>3. plan \in Plan /\ plan.by \in {0, 1} /\ ran' \in SUBSET Table /\ outage' \in BOOLEAN
    BY <1>1, <1>2 DEF IInv, TypeOK, AttemptsNumbered
  <2>4. result' \in Result
    BY <2>2, <2>3 DEF Result, Statuses
  <2>5. result'.plan.by \in {0, result'.attempt} /\ result'.told # "rows"
    BY <2>2, <2>3
  <2> QED BY <1>1, <2>1, <2>3, <2>4, <2>5, EndKeeps
<1>3. CASE attempt # 1
  <2>1. Delivers(candidate)
    BY <1>3 DEF ModelFails
  <2>2. candidate.status \in {"unsupported", "failed"}
    BY <1>1, <1>3 DEF IInv, AttemptsNumbered, CandidateChecked
  <2> QED BY <1>1, <2>1, <2>2, DeliversKeeps
<1> QED BY <1>2, <1>3

LEMMA ReviewKeeps ==
  ASSUME IInv, Review
  PROVE  IInv'
<1>1. pc = "review" /\ UNCHANGED <<outsideVars, loading, catalog, ran, outage>>
  BY DEF Review
<1>2. CASE Retry
  <2> USE DEF IInv, outsideVars
  <2>1. /\ attempt = 1 /\ attempt' = 2 /\ plan' = NoPlan /\ pc' = "ask_plan"
        /\ schema' \in {schema, Own(question.fab)}
        /\ candidate' = candidate /\ result' = result
        /\ candidate.status \in {"unsupported", "failed"}
    BY <1>2 DEF Review, PlanDropped, Retry
  <2>2. NoPlan \in Plan /\ NoPlan.by = 0
    BY DEF NoPlan, Plan
  <2>3. Planned' = Planned /\ Own(question.fab)' = Own(question.fab)
    BY <1>1 DEF Planned, Comparing, Own
  <2>4. TypeOK'
    BY <1>1, <2>1, <2>2 DEF TypeOK, Own
  <2>5. CatalogAsked' /\ RowsInScope'
    BY <1>1, <2>1, <2>3 DEF CatalogAsked, RowsInScope
  <2>6. SchemaOwned'
    BY <2>1, <2>3 DEF SchemaOwned
  <2>7. AttemptsNumbered'
    BY <1>1, <2>1, <2>2 DEF AttemptsNumbered
  <2>8. CandidateChecked'
    BY <2>1 DEF CandidateChecked
  <2> QED BY <2>4, <2>5, <2>6, <2>7, <2>8
<1>3. CASE ~ Retry /\ candidate.status = "succeeded"
  <2> USE DEF IInv, outsideVars, draftVars
  <2>1. pc' = "execute" /\ UNCHANGED <<draftVars, result>>
    BY <1>3 DEF Review
  <2>2. Planned' = Planned /\ Own(question.fab)' = Own(question.fab)
    BY <1>1 DEF Planned, Comparing, Own
  <2>3. TypeOK'
    BY <1>1, <2>1 DEF TypeOK
  <2>4. Passed'
    BY <1>1, <1>3, <2>1 DEF CandidateChecked, Passed
  <2> QED BY <1>1, <1>3, <2>1, <2>2, <2>3, <2>4 DEF CatalogAsked, SchemaOwned, AttemptsNumbered,
    CandidateChecked, RowsInScope
<1>4. CASE ~ Retry /\ candidate.status # "succeeded"
  <2>1. Delivers(candidate) /\ UNCHANGED draftVars
    BY <1>4 DEF Review
  <2>2. candidate.status \in {"unsupported", "failed"}
    BY <1>1, <1>4 DEF IInv, TypeOK, Candidate, CandidateChecked
  <2> QED BY <1>1, <2>1, <2>2, DeliversKeeps
<1> QED BY <1>2, <1>3, <1>4

\* What the query read was found in the catalog and is in the database.
LEMMA ReadsCatalog ==
  ASSUME IInv, pc = "execute"
  PROVE  /\ candidate.sql.tables # {}
         /\ candidate.sql.tables \subseteq catalog
         /\ candidate.sql.tables \subseteq Table
         /\ {t[1] : t \in candidate.sql.tables} \subseteq Planned \cap Fabs
<1>1. Passed /\ catalog \subseteq Table
  BY DEF IInv, TypeOK, CandidateChecked
<1>2. \A t \in Table : t[1] \in Fabs
  BY FamiliesAssumption
<1> QED BY <1>1, <1>2 DEF IInv, CatalogAsked, Passed

LEMMA QueryRunsKeeps ==
  ASSUME IInv, QueryRuns
  PROVE  IInv'
<1>1. /\ ran' = candidate.sql.tables /\ pc = "execute"
      /\ UNCHANGED <<outsideVars, loading, catalog, draftVars, outage>>
  BY DEF QueryRuns
<1>2. ran' \in SUBSET Table /\ outage' \in BOOLEAN
  BY <1>1, ReadsCatalog DEF IInv, TypeOK
<1>3. PICK back \in SUBSET {t[1] : t \in candidate.sql.tables} :
        \/ Returned("data_unavailable", "no_rows", {})
        \/ Returned("failed", "failed", {})
        \/ ~ OutOfScope(back) /\ back = {} /\ Returned("succeeded", "no_rows", back)
        \/ ~ OutOfScope(back) /\ back # {} /\ Returned("succeeded", "rows", back)
  BY DEF QueryRuns
<1>4. back \in SUBSET Fabs /\ back \subseteq Planned
  BY <1>1, ReadsCatalog
<1>5. {"data_unavailable", "failed", "succeeded"} \subseteq Statuses
  BY DEF Statuses
<1>6. ASSUME ~ OutOfScope(back), back # {}
      PROVE  back = Planned
  <2>1. CASE Comparing
    BY <1>6, <2>1 DEF OutOfScope
  <2>2. CASE ~ Comparing
    BY <1>4, <1>6, <2>2 DEF Planned
  <2> QED BY <2>1, <2>2
<1>7. CASE Returned("data_unavailable", "no_rows", {})
  BY <1>1, <1>2, <1>5, <1>7, ReturnedKeeps
<1>8. CASE Returned("failed", "failed", {})
  BY <1>1, <1>2, <1>5, <1>8, ReturnedKeeps
<1>9. CASE Returned("succeeded", "no_rows", back)
  BY <1>1, <1>2, <1>4, <1>5, <1>9, ReturnedKeeps
<1>10. CASE ~ OutOfScope(back) /\ back # {} /\ Returned("succeeded", "rows", back)
  BY <1>1, <1>2, <1>4, <1>5, <1>6, <1>10, ReturnedKeeps
<1> QED BY <1>3, <1>7, <1>8, <1>9, <1>10

\* An error is told as missing data or as a failure.
LEMMA QueryErrsKeeps ==
  ASSUME IInv, NEW quoted, NEW said \in {"missing", "called_missing"}, QueryErrs(quoted, said),
         UNCHANGED <<outsideVars, loading, catalog, draftVars, ran, outage>>
  PROVE  IInv'
<1>1. ran' \in SUBSET Table /\ outage' \in BOOLEAN
  BY DEF IInv, TypeOK
<1>2. \/ Finish("data_unavailable", said)
      \/ Returned("data_unavailable", said, {})
      \/ Returned("failed", "failed", {})
  BY DEF QueryErrs
<1>3. {"data_unavailable", "failed"} \subseteq Statuses
  BY DEF Statuses
<1> QED BY <1>1, <1>2, <1>3, FinishKeeps, ReturnedKeeps

LEMMA QueryUnansweredKeeps ==
  ASSUME IInv, QueryUnanswered
  PROVE  IInv'
<1>1. ran' \in SUBSET Table /\ outage' \in BOOLEAN
  BY DEF IInv, TypeOK, QueryUnanswered
<1>2. "failed" \in Statuses
  BY DEF Statuses
<1> QED BY <1>1, <1>2, ReturnedKeeps DEF QueryUnanswered

LEMMA ChangeTableKeeps ==
  ASSUME IInv, NEW t \in Table, ChangeTable(t)
  PROVE  IInv'
<1> USE DEF IInv, draftVars
<1>1. TypeOK'
  BY BoundsAssumption DEF TypeOK, ChangeTable
<1>2. Planned' = Planned /\ Own(question.fab)' = Own(question.fab) /\ Passed' = Passed
  BY DEF Planned, Comparing, Own, Passed, ChangeTable
<1> QED BY <1>1, <1>2 DEF ChangeTable, CatalogAsked, SchemaOwned, AttemptsNumbered,
  CandidateChecked, RowsInScope

LEMMA StutterKeeps ==
  ASSUME IInv, UNCHANGED vars
  PROVE  IInv'
<1> USE DEF IInv, vars, outsideVars, draftVars
<1>1. TypeOK'
  BY DEF TypeOK
<1>2. Planned' = Planned /\ Own(question.fab)' = Own(question.fab) /\ Passed' = Passed
  BY DEF Planned, Comparing, Own, Passed
<1>3. CatalogAsked' /\ SchemaOwned' /\ AttemptsNumbered'
  BY <1>2 DEF CatalogAsked, SchemaOwned, AttemptsNumbered
<1>4. CandidateChecked' /\ RowsInScope'
  BY <1>2 DEF CandidateChecked, RowsInScope
<1> QED BY <1>1, <1>3, <1>4

LEMMA NextKeeps ==
  ASSUME IInv, [Next]_vars
  PROVE  IInv'
<1>1. CASE LoadFabCatalog
  BY <1>1, LoadKeeps
<1>2. CASE CatalogRead \/ ProbeEntitySources
  BY <1>2, ProceedKeeps
<1>3. CASE CatalogFails
  BY <1>3, CatalogFailsKeeps
<1>4. CASE Decline
  BY <1>4, DeclineKeeps
<1>5. CASE PlanComparison
  BY <1>5, PlanComparisonKeeps
<1>6. CASE PlanGrounded
  BY <1>6, PlanGroundedKeeps
<1>7. CASE FastPath
  BY <1>7, FastPathKeeps
<1>8. CASE SelectSchema
  BY <1>8, SelectSchemaKeeps
<1>9. CASE PlanRejected
  BY <1>9, PlanRejectedKeeps
<1>10. CASE PlanDeclines
  BY <1>10, PlanDeclinesKeeps
<1>11. CASE PlanValidated
  BY <1>11, PlanValidatedKeeps
<1>12. CASE WriteSql
  BY <1>12, WriteSqlKeeps
<1>13. CASE ModelFails
  BY <1>13, ModelFailsKeeps
<1>14. CASE Review
  BY <1>14, ReviewKeeps
<1>15. CASE QueryRuns
  BY <1>15, QueryRunsKeeps
<1>16. CASE TablesMissing
  BY <1>16, QueryErrsKeeps DEF TablesMissing
<1>17. CASE TypeError
  BY <1>17, QueryErrsKeeps DEF TypeError
<1>18. CASE QueryUnanswered
  BY <1>18, QueryUnansweredKeeps
<1>19. ASSUME NEW t \in Table, ChangeTable(t)
       PROVE  IInv'
  BY <1>19, ChangeTableKeeps
<1>20. CASE UNCHANGED vars
  BY <1>20, StutterKeeps
<1> QED BY <1>1, <1>2, <1>3, <1>4, <1>5, <1>6, <1>7, <1>8, <1>9, <1>10, <1>11, <1>12, <1>13, <1>14,
  <1>15, <1>16, <1>17, <1>18, <1>19, <1>20 DEF Next, Call

-----------------------------------------------------------------------------
(* The theorems                                                            *)

THEOREM Invariance == Spec => []IInv
<1>1. IInv /\ [Next]_vars => IInv'
  BY NextKeeps
<1> QED BY InitHolds, <1>1, PTL DEF Spec

\* For any FABs, tables and questions the state of a call keeps its types: nothing that
\* is not a table of a FAB gets into the catalog, a schema, a plan or a query.
THEOREM CallTypeCorrect == Spec => []TypeOK
<1>1. IInv => TypeOK
  BY DEF IInv
<1> QED BY Invariance, <1>1, PTL

\* answer_question runs only what was checked in the attempt that wrote it.
THEOREM QueryWasChecked == Spec => []RunsWhatWasChecked
<1>1. IInv => RunsWhatWasChecked
  BY ReadsCatalog DEF IInv, CandidateChecked, Passed, RunsWhatWasChecked
<1> QED BY Invariance, <1>1, PTL

\* A result of plan_text2sql shows the semantic plan of the attempt it comes from.
THEOREM PlanIsItsOwn == Spec => []PlanOfItsAttempt
<1>1. IInv => PlanOfItsAttempt
  BY DEF IInv, AttemptsNumbered, PlanOfItsAttempt
<1> QED BY Invariance, <1>1, PTL

\* Query and plan are those of one checked attempt.
THEOREM AttemptsKeptApart == Spec => []CheckedInItsAttempt
<1>1. RunsWhatWasChecked /\ PlanOfItsAttempt => CheckedInItsAttempt
  BY DEF CheckedInItsAttempt
<1> QED BY <1>1, QueryWasChecked, PlanIsItsOwn, PTL

\* The rows a text2sql node passes on are of the FABs the planner asked for.
THEOREM ScopeOfRows == Spec => []RowsInScope
<1>1. IInv => RowsInScope
  BY DEF IInv
<1> QED BY Invariance, <1>1, PTL

-----------------------------------------------------------------------------
(* Text2Sql implements QueryPromise                                        *)

LEMMA InitPromised == Init => Promise!Init
BY DEF Init, Promise!Init, Told

\* An end of the call without rows that leaves the tables and the catalog alone.
LEMMA EndPromised ==
  ASSUME pc # "done", pc' = "done", UNCHANGED <<db, catalog, ran>>,
         \/ outage' = outage /\ result'.told \in {"declined", "failed"}
         \/ outage' = TRUE /\ result'.told = "failed"
  PROVE  Promise!Next
<1>1. Told = "pending" /\ Told' = result'.told
  BY DEF Told
<1> QED BY <1>1 DEF Promise!Next, Promise!Decline, Promise!LoseDatabase

\* A step of the call that nobody sees.
LEMMA InsidePromised ==
  ASSUME pc # "done", pc' # "done", UNCHANGED <<db, catalog, ran, outage>>
  PROVE  UNCHANGED Promise!vars
BY DEF Promise!vars, Told

LEMMA EndsPromised ==
  ASSUME pc # "done", NEW status, Ends(status)
  PROVE  Promise!Next
<1>1. /\ pc' = "done" /\ UNCHANGED <<db, catalog, ran, outage>>
      /\ result'.told \in {"declined", "failed"}
  BY DEF Ends, Finish, NoResult, outsideVars
<1> QED BY <1>1, EndPromised

LEMMA PlansPromised ==
  ASSUME pc # "done", NEW T, Plans(T, TRUE)
  PROVE  UNCHANGED Promise!vars
BY InsidePromised DEF Plans, outsideVars

LEMMA DeliversPromised ==
  ASSUME pc # "done", NEW c, Delivers(c), UNCHANGED <<outsideVars, catalog, ran, outage>>
  PROVE  Promise!Next
BY EndPromised DEF Delivers, outsideVars

LEMMA CatalogPromised ==
  ASSUME IInv, LoadFabCatalog \/ CatalogRead \/ ProbeEntitySources \/ CatalogFails
  PROVE  [Promise!Next]_(Promise!vars)
<1>1. CASE LoadFabCatalog
  <2>1. Told = "pending" /\ Told' = "pending"
    BY <1>1 DEF Told, LoadFabCatalog
  <2>2. /\ {t \in db : t[1] = Head(loading)} \in SUBSET db
        /\ catalog' = catalog \cup {t \in db : t[1] = Head(loading)}
        /\ UNCHANGED <<db, ran, outage>>
    BY <1>1 DEF LoadFabCatalog, outsideVars
  <2> QED BY <2>1, <2>2 DEF Promise!Next, Promise!LookUp
<1>2. CASE CatalogRead \/ ProbeEntitySources
  BY <1>2, InsidePromised DEF CatalogRead, ProbeEntitySources, outsideVars
<1>3. CASE CatalogFails
  <2>1. pc # "done" /\ pc' = "done" /\ outage' = TRUE /\ result'.told = "failed"
        /\ UNCHANGED <<db, catalog, ran>>
    BY <1>3 DEF CatalogFails, Finish, NoResult, outsideVars
  <2> QED BY <2>1, EndPromised
<1> QED BY <1>1, <1>2, <1>3

LEMMA PlanningPromised ==
  ASSUME IInv, Decline \/ PlanComparison \/ PlanGrounded \/ FastPath \/ SelectSchema
  PROVE  [Promise!Next]_(Promise!vars)
<1>1. pc = "plan"
  BY DEF Decline, PlanComparison, PlanGrounded, FastPath, FastPathAllowed, SelectSchema, Returns, Reaches
<1>2. CASE \E status : Ends(status)
  BY <1>1, <1>2, EndsPromised
<1>3. CASE \E T : Plans(T, TRUE)
  BY <1>1, <1>3, PlansPromised
<1>4. CASE pc' = "ask_plan" /\ UNCHANGED <<outsideVars, catalog, ran, outage>>
  BY <1>1, <1>4, InsidePromised DEF outsideVars
<1>5. CASE Decline
  BY <1>2, <1>5 DEF Decline
<1>6. CASE PlanComparison
  BY <1>2, <1>3, <1>6 DEF PlanComparison
<1>7. CASE PlanGrounded
  BY <1>3, <1>7 DEF PlanGrounded
<1>8. CASE FastPath
  BY <1>2, <1>3, <1>8 DEF FastPath
<1>9. CASE SelectSchema
  BY <1>2, <1>4, <1>9 DEF SelectSchema
<1> QED BY <1>5, <1>6, <1>7, <1>8, <1>9

LEMMA ProposesPromised ==
  ASSUME pc # "done", NEW status, NEW s, NEW p, Proposes(status, s, p)
  PROVE  UNCHANGED Promise!vars
BY InsidePromised DEF Proposes, outsideVars

LEMMA AttemptPromised ==
  ASSUME IInv, PlanRejected \/ PlanDeclines \/ PlanValidated \/ WriteSql \/ ModelFails \/ Review
  PROVE  [Promise!Next]_(Promise!vars)
<1>1. pc # "done"
  BY DEF PlanRejected, PlanDeclines, PlanValidated, WriteSql, ModelFails, Review
<1>2. CASE \E status, s, p : Proposes(status, s, p)
  BY <1>1, <1>2, ProposesPromised
<1>3. CASE pc' # "done" /\ UNCHANGED <<outsideVars, catalog, ran, outage>>
  BY <1>1, <1>3, InsidePromised DEF outsideVars
<1>4. CASE Delivers(candidate) /\ UNCHANGED <<outsideVars, catalog, ran, outage>>
  BY <1>1, <1>4, DeliversPromised
<1>5. CASE PlanRejected \/ PlanDeclines
  BY <1>2, <1>5 DEF PlanRejected, PlanDeclines
<1>6. CASE PlanValidated
  BY <1>2, <1>3, <1>6 DEF PlanValidated, Checked
<1>7. CASE WriteSql
  BY <1>2, <1>7 DEF WriteSql, Checked
<1>8. CASE ModelFails
  <2>1. CASE attempt = 1
    <3>1. pc' = "done" /\ result'.told = "failed" /\ UNCHANGED <<db, catalog, ran, outage>>
      BY <1>8, <2>1 DEF ModelFails, NoResult, outsideVars
    <3> QED BY <1>1, <3>1, EndPromised
  <2>2. CASE attempt # 1
    BY <1>4, <1>8, <2>2 DEF ModelFails
  <2> QED BY <2>1, <2>2
<1>9. CASE Review
  BY <1>3, <1>4, <1>9 DEF Review
<1> QED BY <1>5, <1>6, <1>7, <1>8, <1>9

LEMMA ReadPromised ==
  ASSUME IInv, QueryRuns
  PROVE  Promise!Next
<1>1. pc = "execute" /\ ran' = candidate.sql.tables /\ candidate.sql.tables \subseteq db
      /\ UNCHANGED <<db, catalog, outage>>
  BY DEF QueryRuns, outsideVars
<1>2. ran' \in (SUBSET (catalog \cap db)) \ {{}}
  <2>1. ran' # {} /\ ran' \subseteq catalog /\ ran' \subseteq db
    BY <1>1, ReadsCatalog
  <2> QED BY <2>1
<1>3. pc' = "done" /\ result'.told \in {"rows", "no_rows", "failed"}
  BY DEF QueryRuns, Returned
<1>4. Told = "pending" /\ Told' = result'.told
  BY <1>1, <1>3 DEF Told
<1> QED BY <1>1, <1>2, <1>3, <1>4 DEF Promise!Next, Promise!Read

LEMMA ErrorPromised ==
  ASSUME IInv, TablesMissing \/ TypeError
  PROVE  Promise!Next
<1>1. pc = "execute" /\ UNCHANGED <<db, catalog, ran, outage>>
  BY DEF TablesMissing, TypeError, outsideVars
<1>2. catalog # {} /\ candidate.sql.tables \subseteq catalog
  BY <1>1, ReadsCatalog
<1>3. ASSUME NEW quoted, NEW said, QueryErrs(quoted, said)
      PROVE  pc' = "done" /\ result'.told \in {said, "failed"}
  <2>1. CASE Finish("data_unavailable", said)
    <3>1. pc' = "done" /\ result' = [status |-> "data_unavailable", told |-> said, rows |-> {},
                                     plan |-> NoPlan, attempt |-> 0]
      BY <2>1 DEF Finish, NoResult
    <3> QED BY <3>1
  <2>2. CASE Returned("data_unavailable", said, {}) \/ Returned("failed", "failed", {})
    BY <2>2 DEF Returned
  <2> QED BY <1>3, <2>1, <2>2 DEF QueryErrs
<1>4. pc' = "done"
  BY <1>3 DEF TablesMissing, TypeError
<1>5. Told = "pending" /\ Told' = result'.told
  BY <1>1, <1>4 DEF Told
<1>6. CASE TablesMissing
  <2>1. ~ catalog \subseteq db
    BY <1>2, <1>6 DEF TablesMissing
  <2>2. result'.told \in {"missing", "failed"}
    BY <1>3, <1>6 DEF TablesMissing
  <2> QED BY <1>1, <1>5, <2>1, <2>2 DEF Promise!Next, Promise!FindMissing, Promise!Decline
<1>7. CASE TypeError
  <2>1. result'.told \in {"called_missing", "failed"}
    BY <1>3, <1>7 DEF TypeError
  <2> QED BY <1>1, <1>2, <1>5, <2>1 DEF Promise!Next, Promise!Refuse, Promise!Decline
<1> QED BY <1>6, <1>7

LEMMA NextPromised ==
  ASSUME IInv, [Next]_vars
  PROVE  [Promise!Next]_(Promise!vars)
<1>1. CASE QueryUnanswered
  <2>1. pc # "done" /\ pc' = "done" /\ outage' = TRUE /\ result'.told = "failed"
        /\ UNCHANGED <<db, catalog, ran>>
    BY <1>1 DEF QueryUnanswered, Returned, outsideVars
  <2> QED BY <2>1, EndPromised
<1>2. ASSUME NEW t \in Table, ChangeTable(t)
      PROVE  Promise!Next
  <2>1. db' \in SUBSET Table
    BY <1>2 DEF ChangeTable, IInv, TypeOK
  <2>2. UNCHANGED <<catalog, ran, outage, Told>>
    BY <1>2 DEF ChangeTable, Told
  <2> QED BY <2>1, <2>2 DEF Promise!Next, Promise!Change
<1>3. CASE UNCHANGED vars
  BY <1>3 DEF vars, outsideVars, Promise!vars, Told
<1>4. CASE QueryRuns \/ TablesMissing \/ TypeError
  BY <1>4, ReadPromised, ErrorPromised
<1> QED BY <1>1, <1>2, <1>3, <1>4, CatalogPromised, PlanningPromised, AttemptPromised DEF Next, Call

\* A call of answer_question keeps the promise of QueryPromise, whatever tables come and
\* go and wherever the database or the model fails.
THEOREM Implements == Spec => KeepsPromise
<1>1. IInv /\ [Next]_vars => [Promise!Next]_(Promise!vars)
  BY NextPromised
<1> QED BY InitPromised, Invariance, <1>1, PTL DEF Spec, KeepsPromise, Promise!Spec

=============================================================================
