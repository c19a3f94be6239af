------------------------ MODULE FeedbackStore_proofs ------------------------
(***************************************************************************)
(* Proofs about FeedbackStore for every set of answers, votes and texts:   *)
(* where votes land, how votes and rows correspond, what an approved       *)
(* example rests on, and what the audit says of each example.              *)
(***************************************************************************)
EXTENDS FeedbackStore, FiniteSetTheorems, SequenceTheorems, TLAPS

-----------------------------------------------------------------------------
(* The inductive invariant.  The properties need to know that the stored   *)
(* answers are totally ordered, that votes are attached in order, and that *)
(* only a row that no example uses can still be repaired.                  *)

TurnsOrdered ==
  /\ \A a \in Stored : turn[a] <= Cardinality(Stored)
  /\ \A a, b \in Stored : turn[a] = turn[b] => a = b

OnlyOldRelinked == \A r \in Rows : relinks[r] # None => r \in DOMAIN feedback /\ ~feedback[r].modern

PlacesBelow == \A v \in votes : v.at < NextPlace

VotesDistinct == \A v, w \in votes : (v.row = w.row \/ v.at = w.at) => v = w

RowsVoted == \A r \in DOMAIN feedback : \E v \in votes : v.row = r

\* An example uses a vote of the current client or a repaired one.
Sourced ==
  \A a \in Answers : examples[a] # NoExample =>
    /\ Source(examples[a].row) = a
    /\ feedback[examples[a].row].modern \/ relinks[examples[a].row] # None

\* ReviewOfLastVote without its CHOOSE.
UsesLastVote ==
  \A a \in Answers : examples[a] # NoExample =>
    \E v \in votes : /\ v.answer = a /\ v.row = examples[a].row
                     /\ \A w \in votes : w.answer = a => w.at <= v.at

IInv ==
  /\ TypeOK /\ TurnsOrdered /\ OnlyOldRelinked /\ PlacesBelow /\ VotesDistinct /\ RowsVoted
  /\ Sourced /\ UsesLastVote /\ ApprovedFromSource /\ VoteAsMeant

-----------------------------------------------------------------------------
(* Operators. *)

\* A target that is not refused is the answer the voter means.
LEMMA TargetIsMeant ==
  ASSUME TypeOK, NEW way \in Ways, NEW a \in Stored, ~RefusesTarget(way, a)
  PROVE  Latest(Candidates(way, a)) = a
<1> DEFINE C == Candidates(way, a)
<1>1. a \in C /\ C \subseteq Answers
  BY DEF Candidates, InConversation, Stored, Ways
<1>2. IsFiniteSet(C) /\ Cardinality(C) \in Nat
  BY <1>1, FS_Subset, FS_CardinalityType, OldAssumption
<1>3. Cardinality(C) <= 1
  BY <1>2 DEF RefusesTarget
<1>4. IsFiniteSet({a}) /\ Cardinality({a}) = 1
  BY FS_Singleton
<1>5. {a} \subseteq C
  BY <1>1
<1>6. Cardinality({a}) <= Cardinality(C)
  BY <1>2, <1>5, FS_Subset
<1>7. {a} = C
  BY <1>2, <1>3, <1>4, <1>5, <1>6, FS_Subset
<1>8. turn[a] \in Nat
  BY DEF TypeOK, Stored
<1>9. Latest({a}) = a
  BY <1>8 DEF Latest
<1> QED BY <1>7, <1>9

\* The snapshot kept with a vote ends with the answer voted on.
LEMMA SnapshotEndsThere ==
  ASSUME TypeOK, TurnsOrdered, NEW b \in Stored
  PROVE  SnapshotEnd(b) = b
<1> DEFINE S == {c \in InConversation(b) : turn[c] <= turn[b]}
<1>1. turn \in [Answers -> Nat] /\ Stored \subseteq Answers /\ S \subseteq Stored
  BY DEF TypeOK, Stored, InConversation
<1>2. b \in S /\ \A c \in S : turn[c] <= turn[b]
  BY <1>1 DEF InConversation
<1>3. ASSUME NEW x \in S, \A c \in S : turn[c] <= turn[x] PROVE x = b
  <2>1. turn[x] = turn[b]
    BY <1>1, <1>2, <1>3
  <2> QED BY <1>1, <2>1 DEF TurnsOrdered
<1> QED BY <1>2, <1>3 DEF SnapshotEnd, Latest

\* The number of relinks is a number, and one more relink is one more.
LEMMA Places ==
  ASSUME TypeOK
  PROVE  /\ NextPlace \in Nat
         /\ \A r \in Rows, b \in Answers : relinks[r] = None /\ relinks' = [relinks EXCEPT ![r] = b]
              /\ feedback' = feedback => NextPlace' = NextPlace + 1
         /\ \A row \in FeedbackRow : relinks' = relinks /\ feedback' = Append(feedback, row) => NextPlace' = NextPlace + 1
<1> DEFINE L == {r \in Rows : relinks[r] # None}
<1>1. IsFiniteSet(Rows)
  BY BoundsAssumption, FS_Interval DEF Rows
<1>2. IsFiniteSet(L) /\ Cardinality(L) \in Nat
  BY <1>1, FS_Subset, FS_CardinalityType
<1>3. Len(feedback) \in Nat
  BY DEF TypeOK
<1>4. NextPlace \in Nat
  BY <1>2, <1>3 DEF NextPlace
<1>5. ASSUME NEW r \in Rows, NEW b \in Answers, relinks[r] = None,
             relinks' = [relinks EXCEPT ![r] = b], feedback' = feedback
      PROVE  NextPlace' = NextPlace + 1
  <2>1. {q \in Rows : relinks'[q] # None} = L \cup {r}
    BY <1>5, OldAssumption DEF TypeOK
  <2>2. Cardinality(L \cup {r}) = Cardinality(L) + 1
    BY <1>2, <1>5, FS_AddElement
  <2>3. NextPlace' = Len(feedback) + Cardinality(L \cup {r}) + 1
    BY <1>5, <2>1, Zenon DEF NextPlace
  <2> QED BY <1>2, <1>3, <2>2, <2>3 DEF NextPlace
<1>6. ASSUME NEW row \in FeedbackRow, relinks' = relinks, feedback' = Append(feedback, row)
      PROVE  NextPlace' = NextPlace + 1
  <2>1. Len(Append(feedback, row)) = Len(feedback) + 1
    <3>1. feedback \in Seq(FeedbackRow)
      BY DEF TypeOK
    <3> QED BY <3>1, AppendProperties
  <2>2. {q \in Rows : relinks'[q] # None} = L
    BY <1>6
  <2>3. Rows' = Rows /\ Len(feedback') = Len(feedback) + 1
    BY <1>6, <2>1 DEF Rows
  <2>4. NextPlace' = Len(feedback) + 1 + Cardinality(L) + 1
    BY <2>2, <2>3, Zenon DEF NextPlace
  <2> QED BY <1>2, <1>3, <2>4 DEF NextPlace
<1> QED BY <1>4, <1>5, <1>6

-----------------------------------------------------------------------------
(* The initial states. *)

LEMMA InitIInv ==
  ASSUME Init
  PROVE  IInv
<1>1. /\ OldVotes \in Seq([on : OldAnswers, trace : Answers, helpful : BOOLEAN])
      /\ Len(OldVotes) \in Nat /\ OldAnswers \subseteq Answers /\ None \notin Answers
      /\ IsFiniteSet(OldAnswers) /\ Cardinality(OldAnswers) \in Nat
      /\ \A i \in 1..Len(OldVotes) : OldVotes[i] \in [on : OldAnswers, trace : Answers, helpful : BOOLEAN]
  <2>1. IsFiniteSet(OldAnswers) /\ Cardinality(OldAnswers) \in Nat
    BY OldAssumption, FS_Subset, FS_CardinalityType
  <2> QED BY <2>1, OldAssumption, LenProperties, ElementOfSeq
<1>2. /\ Len(feedback) = Len(OldVotes) /\ DOMAIN feedback = 1..Len(OldVotes)
      /\ feedback \in Seq(FeedbackRow)
      /\ \A i \in DOMAIN feedback : ~feedback[i].modern
  BY <1>1 DEF Init, FeedbackRow
<1>3. Stored = OldAnswers
  BY <1>1 DEF Init, Stored
<1>4. NextPlace = Len(OldVotes) + 1
  <2>1. {r \in Rows : relinks[r] # None} = {}
    BY DEF Init
  <2>2. Cardinality({r \in Rows : relinks[r] # None}) = 0
    BY <2>1, FS_EmptySet
  <2> QED BY <1>1, <1>2, <2>2 DEF NextPlace
<1>5. TypeOK
  <2>1. votes \subseteq VoteEntry
    <3> SUFFICES ASSUME NEW i \in 1..Len(OldVotes)
                 PROVE  [answer |-> OldVotes[i].on, row |-> i, at |-> i, linked |-> FALSE] \in VoteEntry
      BY DEF Init
    <3>1. OldVotes[i].on \in Answers /\ i \in Rows /\ i \in Nat
      BY <1>1, OldAssumption, BoundsAssumption DEF Rows
    <3> QED BY <3>1 DEF VoteEntry
  <2>2. \A v \in votes : v.row \in DOMAIN feedback
    BY <1>2 DEF Init
  <2>3. turn \in [Answers -> Nat]
    BY <1>1 DEF Init
  <2>4. /\ relinks \in [Rows -> Answers \cup {None}]
        /\ examples \in [Answers -> Example \cup {NoExample}]
        /\ \A a \in Answers : examples[a] # NoExample => examples[a].row \in DOMAIN feedback
        /\ audit \in Seq(AuditEntry)
        /\ inspected \in [Answers -> 0..MaxRows]
    BY BoundsAssumption DEF Init
  <2> QED BY <1>2, <2>1, <2>2, <2>3, <2>4, OldAssumption DEF TypeOK
<1>6. TurnsOrdered
  BY <1>1, <1>3 DEF TurnsOrdered, Init
<1>7. OnlyOldRelinked /\ VotesDistinct /\ RowsVoted
  <2>1. OnlyOldRelinked
    BY DEF OnlyOldRelinked, Init
  <2>2. VotesDistinct
    <3>1. \A v \in votes : v.row = v.at /\ v.answer = OldVotes[v.row].on /\ v.linked = FALSE
            /\ v = [answer |-> OldVotes[v.row].on, row |-> v.row, at |-> v.row, linked |-> FALSE]
      BY DEF Init
    <3> QED BY <3>1 DEF VotesDistinct
  <2>3. ASSUME NEW r \in 1..Len(OldVotes)
        PROVE  \E v \in votes : v.row = r
    <3>1. [answer |-> OldVotes[r].on, row |-> r, at |-> r, linked |-> FALSE] \in votes
      BY DEF Init
    <3> QED BY <3>1
  <2> QED BY <1>2, <2>1, <2>2, <2>3 DEF RowsVoted
<1>8. PlacesBelow
  BY <1>1, <1>4 DEF PlacesBelow, Init
<1>9. Sourced /\ UsesLastVote /\ ApprovedFromSource /\ VoteAsMeant
  BY <1>2 DEF Sourced, UsesLastVote, ApprovedFromSource, VoteAsMeant, Init, NoExample, None
<1> QED BY <1>5, <1>6, <1>7, <1>8, <1>9 DEF IInv

-----------------------------------------------------------------------------
(* The actions. *)

LEMMA AppendExchangeKeeps ==
  ASSUME IInv, NEW a \in Answers, AppendExchange(a)
  PROVE  IInv'
<1> USE DEF IInv
<1>1. Stored' = Stored \cup {a} /\ a \notin Stored /\ Stored \subseteq Answers
  <2>1. IsFiniteSet(Stored) /\ Cardinality(Stored) \in Nat
    BY OldAssumption, FS_Subset, FS_CardinalityType DEF Stored
  <2>2. turn' = [turn EXCEPT ![a] = Cardinality(Stored) + 1] /\ Cardinality(Stored) + 1 > 0
    BY <2>1 DEF AppendExchange
  <2>3. turn \in [Answers -> Nat]
    BY DEF TypeOK
  <2> QED BY <2>2, <2>3 DEF AppendExchange, Stored
<1>2. IsFiniteSet(Stored) /\ Cardinality(Stored) \in Nat
  BY <1>1, OldAssumption, FS_Subset, FS_CardinalityType
<1>3. Cardinality(Stored') = Cardinality(Stored) + 1
  BY <1>1, <1>2, FS_AddElement
<1>4. TypeOK'
  BY <1>2 DEF TypeOK, AppendExchange
<1>5. TurnsOrdered'
  <2>1. \A b \in Stored : turn'[b] = turn[b] /\ turn[b] \in Nat
    BY <1>1 DEF AppendExchange, TypeOK
  <2>2. turn'[a] = Cardinality(Stored) + 1
    BY DEF AppendExchange, TypeOK
  <2> QED BY <1>1, <1>2, <1>3, <2>1, <2>2 DEF TurnsOrdered
<1>6. NextPlace' = NextPlace
  BY DEF AppendExchange, NextPlace
<1>7. \A r : Source(r)' = Source(r)
  BY DEF Source, AppendExchange
<1> QED BY <1>4, <1>5, <1>6, <1>7 DEF AppendExchange, OnlyOldRelinked, PlacesBelow, VotesDistinct,
  RowsVoted, Sourced, UsesLastVote, ApprovedFromSource, VoteAsMeant

LEMMA InspectKeeps ==
  ASSUME IInv, NEW a \in Answers, Inspect(a)
  PROVE  IInv'
<1> USE DEF IInv
<1>1. TypeOK'
  <2>1. examples[a].row \in 0..MaxRows
    BY BoundsAssumption DEF TypeOK, Inspect
  <2> QED BY <2>1 DEF TypeOK, Inspect
<1>2. NextPlace' = NextPlace /\ Stored' = Stored /\ \A r : Source(r)' = Source(r)
  BY DEF Inspect, NextPlace, Stored, Source
<1> QED BY <1>1, <1>2 DEF Inspect, TurnsOrdered, OnlyOldRelinked, PlacesBelow, VotesDistinct,
  RowsVoted, Sourced, UsesLastVote, ApprovedFromSource, VoteAsMeant

\* Approval and rejection both write the example and its audit entry.
LEMMA ReviewKeeps ==
  ASSUME IInv, NEW a \in Answers, examples[a] # NoExample, NEW event \in {"approved", "rejected"},
         NEW e \in Example, e.row = examples[a].row, RecordReview(a, event, e),
         e.status = "approved" => /\ feedback[e.row].helpful
                                  /\ Exchange[Source(e.row)].status = "succeeded",
         UNCHANGED <<turn, votes, feedback, relinks, inspected>>
  PROVE  IInv'
<1> USE DEF IInv
<1>1. /\ examples' = [examples EXCEPT ![a] = e]
      /\ audit' = Append(audit, [answer |-> a, event |-> event, example |-> e, cause |-> 0])
  BY DEF RecordReview
<1>2. examples \in [Answers -> Example \cup {NoExample}]
  BY DEF TypeOK
<1>3. e # NoExample
  BY DEF Example, NoExample, None
<1>4. audit' \in Seq(AuditEntry)
  <2>1. [answer |-> a, event |-> event, example |-> e, cause |-> 0] \in AuditEntry
    BY BoundsAssumption DEF AuditEntry
  <2>2. audit \in Seq(AuditEntry)
    BY DEF TypeOK
  <2> QED BY <1>1, <2>1, <2>2, AppendProperties
<1>5. TypeOK'
  BY <1>1, <1>2, <1>4 DEF TypeOK
<1>6. NextPlace' = NextPlace /\ Stored' = Stored /\ \A r : Source(r)' = Source(r)
  BY DEF NextPlace, Stored, Source
<1>7. \A b \in Answers : examples'[b] # NoExample =>
        examples[b] # NoExample /\ examples'[b].row = examples[b].row
  BY <1>1, <1>2
<1>8. Sourced'
  BY <1>6, <1>7 DEF Sourced
<1>9. UsesLastVote'
  BY <1>7 DEF UsesLastVote
<1>10. ApprovedFromSource'
  <2> SUFFICES ASSUME NEW b \in Answers, examples'[b].status = "approved"
               PROVE  /\ feedback[examples'[b].row].helpful
                      /\ Source(examples'[b].row) = b
                      /\ Exchange[b].status = "succeeded"
    BY <1>6 DEF ApprovedFromSource
  <2>1. CASE b = a
    <3>1. examples'[b] = e /\ Source(e.row) = a
      BY <1>1, <1>2, <2>1 DEF Sourced
    <3> QED BY <2>1, <3>1
  <2>2. CASE b # a
    BY <1>1, <1>2, <2>2 DEF ApprovedFromSource
  <2> QED BY <2>1, <2>2
<1> QED BY <1>5, <1>6, <1>8, <1>9, <1>10 DEF TurnsOrdered, OnlyOldRelinked, PlacesBelow, VotesDistinct,
  RowsVoted, VoteAsMeant

LEMMA ApproveKeeps ==
  ASSUME IInv, NEW a \in Answers, NEW text \in Texts, NEW sourceNote \in BOOLEAN,
         Approve(a, text, sourceNote)
  PROVE  IInv'
<1> DEFINE e == [examples[a] EXCEPT !.status = "approved", !.text = text, !.reviewed = TRUE]
<1>1. examples[a] \in Example
  BY DEF IInv, TypeOK, Approve
<1>2. e \in Example /\ e.row = examples[a].row
  BY <1>1 DEF Example
<1>3. RecordReview(a, "approved", e) /\ UNCHANGED <<turn, votes, feedback, relinks, inspected>>
  BY DEF Approve
<1>4. feedback[e.row].helpful /\ Exchange[Source(e.row)].status = "succeeded"
  BY <1>2 DEF Approve, Approvable
<1> HIDE DEF e
<1> QED BY <1>2, <1>3, <1>4, ReviewKeeps DEF Approve

LEMMA RejectKeeps ==
  ASSUME IInv, NEW a \in Answers, Reject(a)
  PROVE  IInv'
<1> DEFINE e == [examples[a] EXCEPT !.status = "rejected", !.reviewed = TRUE]
<1>1. examples[a] \in Example
  BY DEF IInv, TypeOK, Reject
<1>2. e \in Example /\ e.row = examples[a].row /\ e.status # "approved"
  BY <1>1 DEF Example
<1>3. RecordReview(a, "rejected", e) /\ UNCHANGED <<turn, votes, feedback, relinks, inspected>>
  BY DEF Reject
<1> HIDE DEF e
<1> QED BY <1>2, <1>3, ReviewKeeps DEF Reject

\* What a new example of row r looks like.
LEMMA NewExampleType ==
  ASSUME NEW r \in Rows, NEW eligible \in BOOLEAN
  PROVE  /\ NewExample(r, eligible) \in Example
         /\ NewExample(r, eligible) # NoExample
         /\ NewExample(r, eligible).row = r
         /\ NewExample(r, eligible).status # "approved"
  BY DEF NewExample, Example, NoExample, None

LEMMA VoteKeeps ==
  ASSUME IInv, NEW way \in Ways, NEW a \in Answers, NEW helpful \in BOOLEAN,
         NEW comment \in Comments \cup {None}, Vote(way, a, helpful, comment)
  PROVE  IInv'
<1> USE DEF IInv
<1>0. PICK r \in Nat : r = Len(feedback) + 1
  BY DEF TypeOK
<1> DEFINE row == [ends |-> a, meant |-> a, helpful |-> helpful, comment |-> comment, modern |-> TRUE]
           vote == [answer |-> a, row |-> r, at |-> NextPlace, linked |-> TRUE]
           e == NewExample(r, Eligible(a, helpful))
<1>1. a \in Stored
  BY DEF Vote
<1>2. Latest(Candidates(way, a)) = a /\ SnapshotEnd(a) = a
  BY <1>1, TargetIsMeant, SnapshotEndsThere DEF Vote
<1>3. /\ votes' = votes \cup {vote}
      /\ feedback' = Append(feedback, row)
      /\ audit' = AuditChange(a, r)
      /\ examples' = [examples EXCEPT ![a] = e]
      /\ UNCHANGED <<turn, relinks, inspected>>
  BY <1>0, <1>2 DEF Vote, UpsertExample
<1>4. feedback \in Seq(FeedbackRow) /\ Len(feedback) \in Nat /\ DOMAIN feedback = 1..Len(feedback)
  BY DEF TypeOK
<1>5. r \in Rows
  BY <1>0, <1>4, BoundsAssumption DEF Vote, Rows
<1>6. row \in FeedbackRow /\ row.modern /\ row.ends = a /\ row.meant = a
  BY DEF FeedbackRow
<1>7. /\ feedback' \in Seq(FeedbackRow) /\ Len(feedback') = r /\ DOMAIN feedback' = 1..r
      /\ \A q \in DOMAIN feedback : feedback'[q] = feedback[q] /\ q \in DOMAIN feedback' /\ q # r
      /\ feedback'[r] = row
  BY <1>0, <1>3, <1>4, <1>6, AppendProperties, LenProperties
<1>8. e \in Example /\ e # NoExample /\ e.row = r /\ e.status # "approved"
  BY <1>5, NewExampleType DEF Eligible
<1>9. NextPlace \in Nat /\ NextPlace' = NextPlace + 1
  BY <1>3, <1>6, Places
<1>10. vote \in VoteEntry /\ vote.answer = a /\ vote.row = r /\ vote.at = NextPlace
  BY <1>5, <1>9 DEF VoteEntry
<1> HIDE DEF row, vote, e
<1>11. TypeOK'
  <2>1. audit' \in Seq(AuditEntry)
    <3>1. CASE examples[a] # NoExample /\ examples[a].reviewed
      <4>1. [answer |-> a, event |-> "feedback_changed", example |-> examples[a], cause |-> r] \in AuditEntry
        BY <1>5, <3>1 DEF AuditEntry, TypeOK, Rows
      <4>2. audit \in Seq(AuditEntry)
        BY DEF TypeOK
      <4>3. Append(audit, [answer |-> a, event |-> "feedback_changed", example |-> examples[a],
                           cause |-> r]) \in Seq(AuditEntry)
        BY <4>1, <4>2, AppendProperties
      <4> QED BY <1>3, <3>1, <4>3 DEF AuditChange
    <3>2. CASE ~(examples[a] # NoExample /\ examples[a].reviewed)
      BY <1>3, <3>2 DEF AuditChange, TypeOK
    <3> QED BY <3>1, <3>2
  <2>2. votes' \subseteq VoteEntry /\ \A v \in votes' : v.row \in DOMAIN feedback'
    BY <1>0, <1>3, <1>4, <1>7, <1>10 DEF TypeOK
  <2>3. /\ examples' \in [Answers -> Example \cup {NoExample}]
        /\ \A b \in Answers : examples'[b] # NoExample => examples'[b].row \in DOMAIN feedback'
    BY <1>0, <1>3, <1>4, <1>7, <1>8 DEF TypeOK
  <2>4. Len(feedback') <= MaxRows
    BY <1>5, <1>7, BoundsAssumption DEF Rows
  <2> QED BY <1>3, <1>7, <2>1, <2>2, <2>3, <2>4 DEF TypeOK
<1>12. OnlyOldRelinked'
  BY <1>3, <1>7 DEF OnlyOldRelinked
<1>13. relinks[r] = None
  BY <1>0, <1>4, <1>5 DEF OnlyOldRelinked, TypeOK, Rows
<1>14. /\ \A q \in DOMAIN feedback : Source(q)' = Source(q)
       /\ Source(r)' = a
  <2>1. \A q : Source(q)' = IF relinks[q] # None THEN relinks[q] ELSE feedback'[q].ends
    BY <1>3 DEF Source
  <2>2. \A q \in DOMAIN feedback : feedback'[q].ends = feedback[q].ends
    BY <1>7
  <2> QED BY <1>6, <1>7, <1>13, <2>1, <2>2 DEF Source
<1>15. PlacesBelow' /\ VotesDistinct'
  <2>1. \A v \in votes : v.at \in Nat /\ v.at < NextPlace /\ v.row \in DOMAIN feedback
    BY DEF PlacesBelow, TypeOK, VoteEntry
  <2> QED BY <1>0, <1>3, <1>4, <1>9, <1>10, <2>1 DEF PlacesBelow, VotesDistinct
<1>16. RowsVoted'
  BY <1>0, <1>3, <1>4, <1>7, <1>10 DEF RowsVoted
<1>17. ASSUME NEW b \in Answers, b # a
       PROVE  /\ examples'[b] = examples[b]
              /\ examples[b] # NoExample => examples[b].row \in DOMAIN feedback
  BY <1>3, <1>17 DEF TypeOK
<1>18. examples'[a] = e
  BY <1>3 DEF TypeOK
<1>19. Sourced'
  <2> SUFFICES ASSUME NEW b \in Answers, examples'[b] # NoExample
               PROVE  /\ Source(examples[b].row)' = b
                      /\ feedback'[examples'[b].row].modern \/ relinks'[examples'[b].row] # None
    BY DEF Sourced
  <2>0. \A q : q = examples'[b].row => Source(examples[b].row)' = Source(q)'
    BY DEF Source
  <2>1. CASE b = a
    BY <1>6, <1>7, <1>8, <1>14, <1>18, <2>0, <2>1
  <2>2. CASE b # a
    BY <1>3, <1>7, <1>14, <1>17, <2>0, <2>2 DEF Sourced
  <2> QED BY <2>1, <2>2
<1>20. UsesLastVote'
  <2> SUFFICES ASSUME NEW b \in Answers, examples'[b] # NoExample
               PROVE  \E v \in votes' : /\ v.answer = b /\ v.row = examples'[b].row
                                        /\ \A w \in votes' : w.answer = b => w.at <= v.at
    BY DEF UsesLastVote
  <2>1. CASE b = a
    <3>1. \A w \in votes' : w.at <= vote.at
      BY <1>3, <1>9, <1>10 DEF PlacesBelow, TypeOK, VoteEntry
    <3> QED BY <1>3, <1>8, <1>10, <1>18, <2>1, <3>1
  <2>2. CASE b # a
    BY <1>3, <1>10, <1>17, <2>2 DEF UsesLastVote
  <2> QED BY <2>1, <2>2
<1>21. ApprovedFromSource'
  <2> SUFFICES ASSUME NEW b \in Answers, examples'[b].status = "approved"
               PROVE  /\ feedback'[examples'[b].row].helpful
                      /\ Source(examples[b].row)' = b
                      /\ Exchange[b].status = "succeeded"
    BY DEF ApprovedFromSource
  <2>1. b # a
    BY <1>8, <1>18
  <2>2. examples[b] # NoExample
    BY <1>17, <2>1 DEF NoExample, None
  <2>3. Source(examples[b].row)' = b
    BY <1>19, <1>17, <2>1, <2>2 DEF Sourced
  <2> QED BY <1>7, <1>17, <2>1, <2>2, <2>3 DEF ApprovedFromSource
<1>22. VoteAsMeant'
  BY <1>0, <1>4, <1>6, <1>7 DEF VoteAsMeant
<1>23. TurnsOrdered'
  BY <1>3 DEF TurnsOrdered, Stored
<1> QED BY <1>11, <1>12, <1>15, <1>16, <1>19, <1>20, <1>21, <1>22, <1>23

LEMMA RepairKeeps ==
  ASSUME IInv, NEW t \in Answers, NEW question \in Questions, RepairLegacy(t, question)
  PROVE  IInv'
<1> USE DEF IInv
<1>1. PICK r \in DOMAIN feedback, b \in Stored :
        /\ {i \in DOMAIN feedback : feedback[i].meant = t} = {r}
        /\ ~feedback[r].modern
        /\ relinks[r] = None
        /\ examples[b] = NoExample
        /\ votes' = (votes \ Moved(t)) \cup {[answer |-> b, row |-> r, at |-> NextPlace, linked |-> TRUE]}
        /\ relinks' = [relinks EXCEPT ![r] = b]
        /\ examples' = [examples EXCEPT ![b] =
                          NewExample(r, feedback[r].helpful /\ Exchange[b].status = "succeeded")]
        /\ UNCHANGED <<turn, feedback, audit, inspected>>
  BY DEF RepairLegacy
<1> DEFINE vote == [answer |-> b, row |-> r, at |-> NextPlace, linked |-> TRUE]
           good == feedback[r].helpful /\ Exchange[b].status = "succeeded"
           e == NewExample(r, good)
<1>2. feedback \in Seq(FeedbackRow) /\ DOMAIN feedback = 1..Len(feedback) /\ Len(feedback) <= MaxRows
  BY DEF TypeOK
<1>3. r \in Rows /\ b \in Answers
  BY <1>2, BoundsAssumption DEF Rows, Stored
<1>4. /\ feedback[r] \in FeedbackRow /\ b # None
      /\ feedback[r].helpful \in BOOLEAN
  <2>1. feedback[r] \in FeedbackRow
    BY <1>2, ElementOfSeq
  <2> QED BY <2>1, <1>3, OldAssumption DEF FeedbackRow
<1>5. e \in Example /\ e # NoExample /\ e.row = r /\ e.status # "approved"
  BY <1>3, <1>4, NewExampleType
<1>6. NextPlace \in Nat /\ NextPlace' = NextPlace + 1
  BY <1>1, <1>3, Places
<1>7. vote \in VoteEntry /\ vote.answer = b /\ vote.row = r /\ vote.at = NextPlace
  BY <1>3, <1>6 DEF VoteEntry
<1>8. Moved(t) = {v \in votes : v.row = r}
  BY <1>1 DEF Moved, TypeOK
<1>9. votes' = {v \in votes : v.row # r} \cup {vote}
  BY <1>1, <1>8
<1>10. examples' = [examples EXCEPT ![b] = e]
  BY <1>1
<1> HIDE DEF vote, e
<1>11. TypeOK'
  <2>1. votes' \subseteq VoteEntry /\ \A v \in votes' : v.row \in DOMAIN feedback'
    BY <1>1, <1>7, <1>9 DEF TypeOK
  <2>2. relinks' \in [Rows -> Answers \cup {None}]
    BY <1>1, <1>3 DEF TypeOK
  <2>3. /\ examples' \in [Answers -> Example \cup {NoExample}]
        /\ \A a \in Answers : examples'[a] # NoExample => examples'[a].row \in DOMAIN feedback'
    BY <1>1, <1>3, <1>5, <1>10 DEF TypeOK
  <2> QED BY <1>1, <2>1, <2>2, <2>3 DEF TypeOK
<1>12. relinks'[r] = b /\ \A q \in Rows : q # r => relinks'[q] = relinks[q]
  BY <1>1, <1>3 DEF TypeOK
<1>13. OnlyOldRelinked'
  BY <1>1, <1>12 DEF OnlyOldRelinked
<1>14. PlacesBelow' /\ VotesDistinct'
  <2>1. \A v \in votes : v.at \in Nat /\ v.at < NextPlace
    BY DEF PlacesBelow, TypeOK, VoteEntry
  <2> QED BY <1>6, <1>7, <1>9, <2>1 DEF PlacesBelow, VotesDistinct
<1>15. RowsVoted'
  <2> SUFFICES ASSUME NEW q \in DOMAIN feedback PROVE \E v \in votes' : v.row = q
    BY <1>1 DEF RowsVoted
  <2>1. CASE q = r
    BY <1>7, <1>9, <2>1
  <2>2. CASE q # r
    BY <1>9, <2>2 DEF RowsVoted
  <2> QED BY <2>1, <2>2
<1>16. examples'[b] = e /\ \A a \in Answers : a # b => examples'[a] = examples[a]
  BY <1>3, <1>10 DEF TypeOK
\* No example uses the row that is repaired: it is neither new nor repaired.
<1>17. ASSUME NEW a \in Answers, examples[a] # NoExample
       PROVE  examples[a].row # r /\ examples[a].row \in DOMAIN feedback /\ examples[a].row \in Rows
  <2>1. examples[a].row \in DOMAIN feedback
    BY <1>17 DEF TypeOK
  <2>2. examples[a].row # r
    BY <1>1, <1>17 DEF Sourced
  <2> QED BY <1>2, <2>1, <2>2, BoundsAssumption DEF Rows
<1>18. Source(r)' = b /\ \A q \in Rows : q # r => Source(q)' = Source(q)
  <2>1. \A q : Source(q)' = IF relinks'[q] # None THEN relinks'[q] ELSE feedback[q].ends
    BY <1>1 DEF Source
  <2> QED BY <1>4, <1>12, <2>1 DEF Source
<1>19. Sourced'
  <2> SUFFICES ASSUME NEW a \in Answers, examples'[a] # NoExample
               PROVE  /\ Source(examples[a].row)' = a
                      /\ feedback'[examples'[a].row].modern \/ relinks'[examples'[a].row] # None
    BY DEF Sourced
  <2>0. \A q : q = examples'[a].row => Source(examples[a].row)' = Source(q)'
    BY DEF Source
  <2>1. CASE a = b
    BY <1>4, <1>5, <1>12, <1>16, <1>18, <2>0, <2>1
  <2>2. CASE a # b
    BY <1>1, <1>12, <1>16, <1>17, <1>18, <2>0, <2>2 DEF Sourced
  <2> QED BY <2>1, <2>2
<1>20. UsesLastVote'
  <2> SUFFICES ASSUME NEW a \in Answers, examples'[a] # NoExample
               PROVE  \E v \in votes' : /\ v.answer = a /\ v.row = examples'[a].row
                                        /\ \A w \in votes' : w.answer = a => w.at <= v.at
    BY DEF UsesLastVote
  <2>1. CASE a = b
    <3>1. \A w \in votes' : w.at <= vote.at
      BY <1>6, <1>7, <1>9 DEF PlacesBelow, TypeOK, VoteEntry
    <3> QED BY <1>5, <1>7, <1>9, <1>16, <2>1, <3>1
  <2>2. CASE a # b
    BY <1>7, <1>9, <1>16, <1>17, <2>2 DEF UsesLastVote
  <2> QED BY <2>1, <2>2
<1>21. ApprovedFromSource'
  <2> SUFFICES ASSUME NEW a \in Answers, examples'[a].status = "approved"
               PROVE  /\ feedback'[examples'[a].row].helpful
                      /\ Source(examples[a].row)' = a
                      /\ Exchange[a].status = "succeeded"
    BY DEF ApprovedFromSource
  <2>1. a # b
    BY <1>5, <1>16
  <2>2. examples'[a] # NoExample
    BY DEF NoExample, None
  <2>3. Source(examples[a].row)' = a
    BY <1>19, <2>2 DEF Sourced
  <2> QED BY <1>1, <1>16, <2>1, <2>3 DEF ApprovedFromSource
<1>22. VoteAsMeant' /\ TurnsOrdered'
  BY <1>1 DEF VoteAsMeant, TurnsOrdered, Stored
<1> QED BY <1>11, <1>13, <1>14, <1>15, <1>19, <1>20, <1>21, <1>22

-----------------------------------------------------------------------------
(* The theorems. *)

\* The strengthening holds in every reachable state.
LEMMA Inductive == Spec => []IInv
<1>1. Init => IInv
  BY InitIInv
<1>2. IInv /\ [Next]_vars => IInv'
  <2> SUFFICES ASSUME IInv, [Next]_vars PROVE IInv'
    OBVIOUS
  <2>1. ASSUME NEW a \in Answers, AppendExchange(a) PROVE IInv'
    BY <2>1, AppendExchangeKeeps
  <2>2. ASSUME NEW way \in Ways, NEW a \in Answers, NEW helpful \in BOOLEAN,
               NEW comment \in Comments \cup {None}, Vote(way, a, helpful, comment)
        PROVE  IInv'
    BY <2>2, VoteKeeps
  <2>3. ASSUME NEW t \in Answers, NEW question \in Questions, RepairLegacy(t, question) PROVE IInv'
    BY <2>3, RepairKeeps
  <2>4. ASSUME NEW a \in Answers, Inspect(a) PROVE IInv'
    BY <2>4, InspectKeeps
  <2>5. ASSUME NEW a \in Answers, Reject(a) PROVE IInv'
    BY <2>5, RejectKeeps
  <2>6. ASSUME NEW a \in Answers, NEW text \in Texts, NEW sourceNote \in BOOLEAN,
               Approve(a, text, sourceNote)
        PROVE  IInv'
    BY <2>6, ApproveKeeps
  <2>7. CASE UNCHANGED vars
    <3>1. /\ UNCHANGED <<turn, votes, feedback, relinks, examples, audit, inspected>>
      BY <2>7 DEF vars
    <3>2. NextPlace' = NextPlace /\ Stored' = Stored /\ \A r : Source(r)' = Source(r)
      BY <3>1 DEF NextPlace, Stored, Source
    <3> QED BY <3>1, <3>2 DEF IInv, TypeOK, TurnsOrdered, OnlyOldRelinked, PlacesBelow, VotesDistinct,
      RowsVoted, Sourced, UsesLastVote, ApprovedFromSource, VoteAsMeant
  <2> QED BY <2>1, <2>2, <2>3, <2>4, <2>5, <2>6, <2>7 DEF Next
<1> QED BY <1>1, <1>2, PTL DEF Spec

\* Type correctness: the tables keep their types and every reference to a row
\* of feedback resolves.
THEOREM StoreTypeCorrect == Spec => []TypeOK
<1>1. IInv => TypeOK
  BY DEF IInv
<1> QED BY <1>1, Inductive, PTL

\* An approved example rests on a helpful vote on this very, successful answer.
THEOREM ApprovedRestsOnSource == Spec => []ApprovedFromSource
<1>1. IInv => ApprovedFromSource
  BY DEF IInv
<1> QED BY <1>1, Inductive, PTL

\* A vote lands on the answer its voter looked at, or is refused.
THEOREM VotesLandAsMeant == Spec => []VoteAsMeant
<1>1. IInv => VoteAsMeant
  BY DEF IInv
<1> QED BY <1>1, Inductive, PTL

\* The votes in the turns and the rows of the table are the same votes.
THEOREM VotesAreRows == Spec => []VotesMatchRows
<1>1. IInv => VotesMatchRows
  BY DEF IInv, RowsVoted, VotesDistinct, VotesMatchRows
<1> QED BY <1>1, Inductive, PTL

\* Every vote is stored once, in a turn and in the table, on the answer it was meant for.
THEOREM VotesStayKept == Spec => []VotesKept
<1>1. VoteAsMeant /\ VotesMatchRows => VotesKept
  BY DEF VotesKept
<1> QED BY <1>1, VotesLandAsMeant, VotesAreRows, PTL

\* Every example is an example of its answer's last vote.
THEOREM LastVoteReviewed == Spec => []ReviewOfLastVote
<1>1. IInv => ReviewOfLastVote
  <2> SUFFICES ASSUME IInv, NEW a \in Answers, examples[a] # NoExample
               PROVE  VotesOn(a) # {} /\ LastVote(a).row = examples[a].row
    BY DEF ReviewOfLastVote
  <2>1. PICK v \in votes : /\ v.answer = a /\ v.row = examples[a].row
                           /\ \A w \in votes : w.answer = a => w.at <= v.at
    BY DEF IInv, UsesLastVote
  <2>2. v \in VotesOn(a) /\ \A w \in VotesOn(a) : w.at <= v.at
    BY <2>1 DEF VotesOn
  <2>3. ASSUME NEW w \in VotesOn(a), \A u \in VotesOn(a) : u.at <= w.at PROVE w = v
    <3>1. w \in votes /\ w.at \in Nat /\ v.at \in Nat
      BY <2>3 DEF IInv, TypeOK, VoteEntry, VotesOn
    <3>2. w.at = v.at
      BY <2>2, <2>3, <3>1
    <3> QED BY <3>1, <3>2 DEF IInv, VotesDistinct
  <2>4. LastVote(a) = v
    BY <2>2, <2>3 DEF LastVote
  <2> QED BY <2>1, <2>2, <2>4
<1> QED BY <1>1, Inductive, PTL

\* review_example and the votes that follow it: what is approved and what is
\* reviewed are told by the votes alone.
THEOREM ReviewsFollowVotes == Spec => []ReviewsRestOnVotes
<1>1. ApprovedFromSource /\ ReviewOfLastVote => ReviewsRestOnVotes
  BY DEF ReviewsRestOnVotes
<1> QED BY <1>1, ApprovedRestsOnSource, LastVoteReviewed, PTL

-----------------------------------------------------------------------------
(* The audit. *)

\* Entry i of the audit says what example e is.
Explains(i, e) ==
  /\ e # NoExample
  /\ audit[i].event = "feedback_changed" => ~e.reviewed /\ audit[i].cause <= e.row
  /\ audit[i].event # "feedback_changed" => e = audit[i].example /\ e.reviewed

\* AuditExplains without its CHOOSE, and an answer that has been reviewed once
\* has an example from then on.
AuditTold ==
  \A a \in Answers :
    \/ EntriesOf(a) = {} /\ (examples[a] # NoExample => ~examples[a].reviewed)
    \/ \E i \in EntriesOf(a) : /\ \A j \in EntriesOf(a) : j <= i
                               /\ Explains(i, examples[a])

\* A new entry is the last of its answer and leaves those of the others alone.
LEMMA EntryAppended ==
  ASSUME TypeOK, NEW a \in Answers, NEW entry, entry.answer = a, audit' = Append(audit, entry)
  PROVE  /\ Len(audit) \in Nat /\ DOMAIN audit = 1..Len(audit)
         /\ \A i \in DOMAIN audit : audit'[i] = audit[i]
         /\ audit'[Len(audit) + 1] = entry
         /\ EntriesOf(a)' = EntriesOf(a) \cup {Len(audit) + 1}
         /\ \A b : b # a => {i \in DOMAIN audit' : audit'[i].answer = b} = EntriesOf(b)
<1>1. /\ audit \in Seq(AuditEntry) /\ Len(audit) \in Nat /\ DOMAIN audit = 1..Len(audit)
  BY LenProperties DEF TypeOK
<1>2. /\ \A i \in DOMAIN audit : audit'[i] = audit[i]
      /\ audit'[Len(audit) + 1] = entry
      /\ DOMAIN audit' = 1..(Len(audit) + 1)
  BY <1>1
<1>3. DOMAIN audit' = DOMAIN audit \cup {Len(audit) + 1} /\ Len(audit) + 1 \notin DOMAIN audit
  BY <1>1, <1>2
<1>4. \A b : {i \in DOMAIN audit' : audit'[i].answer = b} =
              {i \in DOMAIN audit : audit[i].answer = b}
                \cup (IF b = a THEN {Len(audit) + 1} ELSE {})
  BY <1>2, <1>3
<1>5. QED
  BY <1>1, <1>2, <1>4 DEF EntriesOf

\* An entry that explains its answer's new example.
LEMMA ToldAppended ==
  ASSUME TypeOK, AuditTold, NEW a \in Answers, NEW e, e # NoExample,
         NEW entry, entry.answer = a, audit' = Append(audit, entry),
         examples' = [examples EXCEPT ![a] = e],
         entry.event = "feedback_changed" => ~e.reviewed /\ entry.cause <= e.row,
         entry.event # "feedback_changed" => e = entry.example /\ e.reviewed
  PROVE  AuditTold'
<1>0. PICK n : n = Len(audit) + 1
  OBVIOUS
<1>1. /\ DOMAIN audit = 1..Len(audit) /\ Len(audit) \in Nat
      /\ \A i \in DOMAIN audit : audit'[i] = audit[i]
      /\ audit'[n] = entry
      /\ EntriesOf(a)' = EntriesOf(a) \cup {n}
      /\ \A b : b # a => {i \in DOMAIN audit' : audit'[i].answer = b} = EntriesOf(b)
  BY <1>0, EntryAppended
<1>2. examples'[a] = e /\ \A b \in Answers : b # a => examples'[b] = examples[b]
  BY DEF TypeOK
<1> SUFFICES ASSUME NEW b \in Answers
             PROVE  \/ EntriesOf(b)' = {} /\ (examples'[b] # NoExample => ~examples'[b].reviewed)
                    \/ \E i \in EntriesOf(b)' : /\ \A j \in EntriesOf(b)' : j <= i
                                                /\ Explains(i, examples[b])'
  BY DEF AuditTold
<1>3. CASE b = a
  <2>1. EntriesOf(b)' = EntriesOf(b) \cup {n}
    BY <1>1, <1>3
  <2>2. n \in EntriesOf(b)' /\ \A j \in EntriesOf(b)' : j <= n
    BY <1>0, <1>1, <2>1 DEF EntriesOf
  <2>3. Explains(n, examples[b])'
    BY <1>1, <1>2, <1>3 DEF Explains, NoExample
  <2>4. QED
    BY <2>2, <2>3
<1>4. CASE b # a
  <2>1. EntriesOf(b)' = EntriesOf(b)
    BY <1>1, <1>4 DEF EntriesOf
  <2>2. \A i \in EntriesOf(b) : Explains(i, examples[b])' <=> Explains(i, examples[b])
    BY <1>1, <1>2, <1>4 DEF Explains, EntriesOf, NoExample
  <2>3. QED
    BY <1>2, <1>4, <2>1, <2>2 DEF AuditTold, NoExample
<1>5. QED
  BY <1>3, <1>4

\* A new example without an entry of its own: of an answer without entries, or
\* of one whose last entry is of a vote before this one.
LEMMA ToldUnreviewed ==
  ASSUME TypeOK, AuditTold, NEW a \in Answers, NEW e, e # NoExample, ~e.reviewed,
         examples' = [examples EXCEPT ![a] = e], audit' = audit,
         examples[a] # NoExample => ~examples[a].reviewed /\ examples[a].row <= e.row,
         e.row \in Nat
  PROVE  AuditTold'
<1>1. examples'[a] = e /\ \A b \in Answers : b # a => examples'[b] = examples[b]
  BY DEF TypeOK
<1>2. \A b : EntriesOf(b)' = EntriesOf(b)
  BY DEF EntriesOf
<1> SUFFICES ASSUME NEW b \in Answers
             PROVE  \/ EntriesOf(b) = {} /\ (examples'[b] # NoExample => ~examples'[b].reviewed)
                    \/ \E i \in EntriesOf(b) : /\ \A j \in EntriesOf(b) : j <= i
                                               /\ Explains(i, examples[b])'
  BY <1>2 DEF AuditTold, NoExample
<1>3. CASE b = a
  <2>1. ASSUME NEW i \in EntriesOf(b), Explains(i, examples[b]) PROVE Explains(i, examples[b])'
    <3>1. audit[i].event = "feedback_changed" /\ audit[i].cause <= examples[b].row
      BY <1>3, <2>1 DEF Explains
    <3>2. audit[i].cause \in Nat /\ examples[b].row \in Nat
      <4>1. audit[i] \in AuditEntry
        BY ElementOfSeq, LenProperties DEF EntriesOf, TypeOK
      <4>2. examples[b] \in Example
        BY <2>1 DEF Explains, TypeOK
      <4>3. QED
        BY <4>1, <4>2, BoundsAssumption DEF AuditEntry, Example, Rows
    <3>3. examples[b].row <= e.row
      BY <1>3, <2>1 DEF Explains
    <3>4. audit[i].cause <= e.row
      BY <3>1, <3>2, <3>3
    <3>5. QED
      BY <1>1, <1>3, <3>1, <3>4 DEF Explains, NoExample
  <2>2. QED
    BY <1>1, <1>3, <2>1 DEF AuditTold
<1>4. CASE b # a
  <2>1. \A i : Explains(i, examples[b])' <=> Explains(i, examples[b])
    BY <1>1, <1>4 DEF Explains, NoExample
  <2>2. QED
    BY <1>1, <1>4, <2>1 DEF AuditTold
<1>5. QED
  BY <1>3, <1>4

\* A vote revokes a review and says so.
LEMMA ToldVote ==
  ASSUME IInv, AuditTold, NEW way \in Ways, NEW a \in Answers, NEW helpful \in BOOLEAN,
         NEW comment \in Comments \cup {None}, Vote(way, a, helpful, comment)
  PROVE  AuditTold'
<1> DEFINE r == Len(feedback) + 1
           e == NewExample(r, Eligible(a, helpful))
<1>1. TypeOK /\ TurnsOrdered /\ a \in Stored
  BY DEF IInv, Vote
<1>2. Latest(Candidates(way, a)) = a
  BY <1>1, TargetIsMeant DEF Vote
<1>3. audit' = AuditChange(a, r) /\ examples' = [examples EXCEPT ![a] = e]
  BY <1>2 DEF Vote, UpsertExample
<1>4. r \in Nat /\ r \in Rows /\ DOMAIN feedback = 1..Len(feedback) /\ Len(feedback) \in Nat
  BY <1>1, LenProperties, BoundsAssumption DEF TypeOK, Vote, Rows
<1>5. e # NoExample /\ e.row = r /\ ~e.reviewed
  BY <1>4, NewExampleType DEF Eligible, NewExample
<1> HIDE DEF e
<1>6. CASE examples[a] # NoExample /\ examples[a].reviewed
  <2> DEFINE entry == [answer |-> a, event |-> "feedback_changed", example |-> examples[a], cause |-> r]
  <2>1. audit' = Append(audit, entry)
    BY <1>3, <1>6 DEF AuditChange
  <2>2. entry.answer = a /\ entry.event = "feedback_changed" /\ entry.cause <= e.row
    BY <1>4, <1>5
  <2> HIDE DEF entry
  <2>3. QED
    BY <1>1, <1>3, <1>5, <2>1, <2>2, ToldAppended
<1>7. CASE ~(examples[a] # NoExample /\ examples[a].reviewed)
  <2>1. audit' = audit
    BY <1>3, <1>7 DEF AuditChange
  <2>2. examples[a] # NoExample => examples[a].row \in 1..Len(feedback)
    BY <1>1, <1>4 DEF TypeOK
  <2>3. examples[a] # NoExample => ~examples[a].reviewed /\ examples[a].row <= e.row
    BY <1>4, <1>5, <1>7, <2>2
  <2>4. e.row \in Nat
    BY <1>4, <1>5
  <2>5. QED
    BY <1>1, <1>3, <1>5, <2>1, <2>3, <2>4, ToldUnreviewed
<1>8. QED
  BY <1>6, <1>7

\* A repair makes the first example of its answer.
LEMMA ToldRepair ==
  ASSUME IInv, AuditTold, NEW t \in Answers, NEW question \in Questions, RepairLegacy(t, question)
  PROVE  AuditTold'
<1>1. PICK r \in DOMAIN feedback, b \in Stored :
        /\ examples[b] = NoExample
        /\ examples' = [examples EXCEPT ![b] =
                          NewExample(r, feedback[r].helpful /\ Exchange[b].status = "succeeded")]
        /\ UNCHANGED <<turn, feedback, audit, inspected>>
  BY DEF RepairLegacy
<1> DEFINE e == NewExample(r, feedback[r].helpful /\ Exchange[b].status = "succeeded")
<1>2. TypeOK /\ b \in Answers /\ r \in Nat
  BY <1>1, LenProperties DEF IInv, TypeOK, Stored
<1>3. e # NoExample /\ ~e.reviewed /\ e.row = r
  BY DEF NewExample, NoExample, None
<1>4. examples' = [examples EXCEPT ![b] = e] /\ audit' = audit
  BY <1>1
<1> HIDE DEF e
<1>5. QED
  BY <1>1, <1>2, <1>3, <1>4, ToldUnreviewed

\* A review writes the entry of what it makes of the example.
LEMMA ToldReview ==
  ASSUME IInv, AuditTold, NEW a \in Answers, NEW event \in {"approved", "rejected"},
         NEW e \in Example, e.reviewed, RecordReview(a, event, e)
  PROVE  AuditTold'
<1> DEFINE entry == [answer |-> a, event |-> event, example |-> e, cause |-> 0]
<1>1. audit' = Append(audit, entry) /\ examples' = [examples EXCEPT ![a] = e]
  BY DEF RecordReview
<1>2. entry.answer = a /\ entry.event # "feedback_changed" /\ e = entry.example
  OBVIOUS
<1>3. e # NoExample /\ TypeOK
  BY DEF IInv, Example, NoExample, None
<1> HIDE DEF entry
<1>4. QED
  BY <1>1, <1>2, <1>3, ToldAppended

\* Every step keeps the audit.
LEMMA ToldStep == IInv /\ AuditTold /\ [Next]_vars => AuditTold'
<1> SUFFICES ASSUME IInv, AuditTold, [Next]_vars PROVE AuditTold'
  OBVIOUS
<1>1. CASE UNCHANGED <<examples, audit>>
  BY <1>1 DEF AuditTold, EntriesOf, Explains, NoExample
<1>2. ASSUME NEW a \in Answers, AppendExchange(a) \/ Inspect(a) PROVE UNCHANGED <<examples, audit>>
  BY <1>2 DEF AppendExchange, Inspect
<1>3. CASE UNCHANGED vars
  BY <1>1, <1>3 DEF vars
<1>4. ASSUME NEW a \in Answers, Reject(a) PROVE AuditTold'
  <2> DEFINE e == [examples[a] EXCEPT !.status = "rejected", !.reviewed = TRUE]
  <2>1. examples[a] \in Example
    BY <1>4 DEF IInv, TypeOK, Reject
  <2>2. e \in Example /\ e.reviewed /\ RecordReview(a, "rejected", e)
    BY <1>4, <2>1 DEF Example, Reject
  <2> HIDE DEF e
  <2>3. QED
    BY <2>2, ToldReview
<1>5. ASSUME NEW a \in Answers, NEW text \in Texts, NEW sourceNote \in BOOLEAN,
             Approve(a, text, sourceNote)
      PROVE  AuditTold'
  <2> DEFINE e == [examples[a] EXCEPT !.status = "approved", !.text = text, !.reviewed = TRUE]
  <2>1. examples[a] \in Example
    BY <1>5 DEF IInv, TypeOK, Approve
  <2>2. e \in Example /\ e.reviewed /\ RecordReview(a, "approved", e)
    BY <1>5, <2>1 DEF Example, Approve
  <2> HIDE DEF e
  <2>3. QED
    BY <2>2, ToldReview
<1>6. QED
  BY <1>1, <1>2, <1>3, <1>4, <1>5, ToldVote, ToldRepair DEF Next

\* Whatever is voted, repaired and reviewed in whatever order, the last entry of
\* an answer's audit says what its example is and why (_audit_example,
\* review_example).
THEOREM AuditAlwaysExplains == Spec => []AuditExplains
<1>1. Init => AuditTold
  <2>1. ASSUME Init, NEW a \in Answers PROVE EntriesOf(a) = {} /\ examples[a] = NoExample
    BY <2>1 DEF Init, EntriesOf
  <2>2. QED
    BY <2>1 DEF AuditTold
<1>2. IInv /\ AuditTold => AuditExplains
  <2> SUFFICES ASSUME IInv, AuditTold, NEW a \in Answers, examples[a] # NoExample, EntriesOf(a) # {}
               PROVE  LET last == audit[CHOOSE i \in EntriesOf(a) : \A j \in EntriesOf(a) : j <= i]
                      IN IF last.event = "feedback_changed"
                         THEN ~examples[a].reviewed /\ last.cause <= examples[a].row
                         ELSE examples[a] = last.example
    BY DEF AuditExplains, AuditTold
  <2>1. PICK i \in EntriesOf(a) : (\A j \in EntriesOf(a) : j <= i) /\ Explains(i, examples[a])
    BY DEF AuditTold
  <2>2. EntriesOf(a) \subseteq Nat
    BY LenProperties DEF IInv, TypeOK, EntriesOf
  <2>3. (CHOOSE k \in EntriesOf(a) : \A j \in EntriesOf(a) : j <= k) = i
    BY <2>1, <2>2
  <2>4. QED
    BY <2>1, <2>3 DEF Explains
<1>3. QED
  BY <1>1, <1>2, Inductive, ToldStep, PTL DEF Spec

=============================================================================
