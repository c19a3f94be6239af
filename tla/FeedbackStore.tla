---------------------------- MODULE FeedbackStore ----------------------------
(***************************************************************************)
(* The durable store of conversations, votes and reviewed examples         *)
(* (services/state_store.py), the service that records a vote              *)
(* (services/feedback_service.py), the repair of votes of the old browser  *)
(* client (services/feedback_repair.py) and the reviewer's command line    *)
(* (scripts/manage_feedback_examples.py).                                  *)
(*                                                                         *)
(* The store is SQLite: what one `with self._connect()` block writes is    *)
(* one transaction, so it is one action; the server's threads, the command *)
(* line and the repair tool interleave between transactions.  Requests may *)
(* arrive late, twice or in any order: any vote for a stored answer may be *)
(* processed at any time.                                                  *)
(***************************************************************************)
EXTENDS Naturals, Sequences, FiniteSets

CONSTANTS
  Answers,      \* assistant turns, each with its question one exchange
  Exchange,     \* Exchange[a]: conversation, question, text, status and evidence of a
  OldAnswers,   \* answers stored before votes had a message id
  OldVotes,     \* votes of that time: the answer they were attached to, the trace
                \* of the browser's message, and the vote
  Comments,     \* comments a vote may carry
  Texts,        \* texts a reviewer may approve
  MaxRows,      \* bound: rows of the feedback table
  MaxReviews    \* bound: reviews

None == "none"
Conversations == {Exchange[a].conversation : a \in Answers}
Questions == {Exchange[a].question : a \in Answers}
Rows == 1..MaxRows

ASSUME ExchangeAssumption ==
  \A a \in Answers :
    /\ DOMAIN Exchange[a] = {"conversation", "question", "text", "status", "evidence"}
    /\ Exchange[a].evidence \in BOOLEAN
ASSUME OldAssumption ==
  /\ None \notin Answers
  /\ OldAnswers \subseteq Answers /\ IsFiniteSet(Answers)
  /\ OldVotes \in Seq([on : OldAnswers, trace : Answers, helpful : BOOLEAN])
  /\ Len(OldVotes) <= MaxRows
ASSUME BoundsAssumption == MaxRows \in Nat /\ MaxReviews \in Nat

VARIABLES
  turn,       \* conversation_turns: row id of the stored answers, 0 before that
  votes,      \* user_feedback in the metadata of the turns; at orders them
  feedback,   \* table feedback: one immutable row per vote
  relinks,    \* table feedback_relinks: the answer an old vote was moved to
  examples,   \* table feedback_examples
  audit,      \* table feedback_example_audit
  inspected   \* the reviewer's notes: the row seen when the answer was inspected

vars == <<turn, votes, feedback, relinks, examples, audit, inspected>>

\* The trace id of a vote is the browser's id of the message it shows the
\* answer in, so the answer meant names it; meant is what the voter looks at.
FeedbackRow == [ends : Answers, meant : Answers, helpful : BOOLEAN, comment : Comments \cup {None},
                modern : BOOLEAN]
VoteEntry == [answer : Answers, row : Rows, at : Nat, linked : BOOLEAN]
Example == [status : {"pending", "approved", "rejected", "excluded"}, row : Rows,
            text : Texts \cup {"original"}, reviewed : BOOLEAN]
NoExample == [status |-> None]
AuditEntry == [answer : Answers, event : {"approved", "rejected", "feedback_changed"},
               example : Example, cause : 0..MaxRows]

Stored == {a \in Answers : turn[a] > 0}
InConversation(a) == {b \in Stored : Exchange[b].conversation = Exchange[a].conversation}
Latest(S) == CHOOSE b \in S : \A c \in S : turn[c] <= turn[b]

VotesOn(a) == {v \in votes : v.answer = a}
LastVote(a) == CHOOSE v \in VotesOn(a) : \A w \in VotesOn(a) : w.at <= v.at

\* The next place in the lists of votes: every row and every relink made one.
NextPlace == Len(feedback) + Cardinality({r \in Rows : relinks[r] # None}) + 1

-----------------------------------------------------------------------------
(* The old data, after _initialize has given every answer its message id. *)

Init ==
  /\ turn \in [Answers -> 0..Cardinality(OldAnswers)]
  /\ \A a \in Answers : turn[a] > 0 <=> a \in OldAnswers
  /\ \A a, b \in OldAnswers : turn[a] = turn[b] => a = b
  /\ feedback = [i \in 1..Len(OldVotes) |->
                   [ends |-> OldVotes[i].on, meant |-> OldVotes[i].trace,
                    helpful |-> OldVotes[i].helpful, comment |-> None, modern |-> FALSE]]
  /\ votes = {[answer |-> OldVotes[i].on, row |-> i, at |-> i, linked |-> FALSE] :
                i \in 1..Len(OldVotes)}
  /\ relinks = [r \in Rows |-> None]
  /\ examples = [a \in Answers |-> NoExample]
  /\ audit = <<>>
  /\ inspected = [a \in Answers |-> 0]

\* append_exchange: question and answer in one transaction, so the turn before
\* an answer is its question.
AppendExchange(a) ==
  /\ a \notin Stored
  /\ turn' = [turn EXCEPT ![a] = Cardinality(Stored) + 1]
  /\ UNCHANGED <<votes, feedback, relinks, examples, audit, inspected>>

-----------------------------------------------------------------------------
(* A vote.  The client names the answer by its message id, an older session by *)
(* the texts of question and answer, a bare API call by the conversation only. *)

Ways == {"message_id", "texts", "conversation"}
Candidates(way, a) ==
  CASE way = "message_id" -> {a}
    [] way = "texts" -> {b \in InConversation(a) : /\ Exchange[b].question = Exchange[a].question
                                                    /\ Exchange[b].text = Exchange[a].text}
    [] OTHER -> InConversation(a)

\* Mutant: the latest answer is taken when several match.
RefusesNothing(way, a) == FALSE
\* resolve_answer and record_answer_feedback refuse an ambiguous target.
RefusesTarget(way, a) == Cardinality(Candidates(way, a)) > 1

\* The same vote again returns the id of the first and changes nothing.
Repeats(b, helpful, comment) ==
  /\ VotesOn(b) # {} /\ LastVote(b).linked
  /\ feedback[LastVote(b).row].helpful = helpful
  /\ feedback[LastVote(b).row].comment = comment

\* Mutant: the snapshot runs to the end of the conversation.
SnapshotOfAll(b) == Latest(InConversation(b))
\* The last turn of the snapshot kept with a vote: id <= target.
SnapshotEnd(b) == Latest({c \in InConversation(b) : turn[c] <= turn[b]})

Eligible(b, helpful) ==
  helpful /\ Exchange[b].status = "succeeded" /\ Exchange[b].question # "" /\ Exchange[b].text # ""
\* An example as a vote or a repair writes it: feedback_id is the vote's row.
NewExample(r, eligible) ==
  [status |-> IF eligible THEN "pending" ELSE "excluded", row |-> r, text |-> "original",
   reviewed |-> FALSE]

\* Mutant: an example that is already there keeps its review.
KeepExample(b, r, eligible) == IF examples[b] = NoExample THEN NewExample(r, eligible) ELSE examples[b]
\* INSERT ... ON CONFLICT: a changed vote revokes an earlier review.
UpsertExample(b, r, eligible) == NewExample(r, eligible)

\* _audit_example for a changed vote: only a reviewed version is worth keeping.
AuditChange(b, r) ==
  IF examples[b] # NoExample /\ examples[b].reviewed
  THEN Append(audit, [answer |-> b, event |-> "feedback_changed", example |-> examples[b], cause |-> r])
  ELSE audit

\* record_answer_feedback, with resolve_answer before it: the id it resolves
\* names the same answer whatever is stored in between.
Vote(way, a, helpful, comment) ==
  /\ a \in Stored /\ Len(feedback) < MaxRows
  /\ ~RefusesTarget(way, a)
  /\ LET b == Latest(Candidates(way, a))
         r == Len(feedback) + 1
     IN /\ ~Repeats(b, helpful, comment)
        /\ votes' = votes \cup {[answer |-> b, row |-> r, at |-> NextPlace, linked |-> TRUE]}
        /\ feedback' = Append(feedback, [ends |-> SnapshotEnd(b), meant |-> a, helpful |-> helpful,
                                         comment |-> comment, modern |-> TRUE])
        /\ audit' = AuditChange(b, r)
        /\ examples' = [examples EXCEPT ![b] = UpsertExample(b, r, Eligible(b, helpful))]
  /\ UNCHANGED <<turn, relinks, inspected>>

-----------------------------------------------------------------------------
(* Repair of an old vote: trace observed in the browser, question beside it. *)

\* Mutant: the vote stays where it was.
MovedNothing(t) == {}
\* Every vote of this trace leaves the turns; one comes back on the target.
Moved(t) == {v \in votes : feedback[v.row].meant = t}

RepairLegacy(t, question) ==
  \E r \in DOMAIN feedback, b \in Stored :
    /\ {i \in DOMAIN feedback : feedback[i].meant = t} = {r}
    /\ ~feedback[r].modern
    /\ {c \in InConversation(feedback[r].ends) : Exchange[c].question = question} = {b}
    /\ relinks[r] = None
    /\ examples[b] = NoExample    \* otherwise the INSERT fails and all is rolled back
    /\ votes' = (votes \ Moved(t)) \cup {[answer |-> b, row |-> r, at |-> NextPlace, linked |-> TRUE]}
    /\ relinks' = [relinks EXCEPT ![r] = b]
    /\ examples' = [examples EXCEPT ![b] =
                      NewExample(r, feedback[r].helpful /\ Exchange[b].status = "succeeded")]
    /\ UNCHANGED <<turn, feedback, audit, inspected>>

-----------------------------------------------------------------------------
(* The reviewer: inspects an example, writes the texts, approves or rejects. *)

Inspect(a) ==
  /\ examples[a] # NoExample
  /\ inspected' = [inspected EXCEPT ![a] = examples[a].row]
  /\ UNCHANGED <<turn, votes, feedback, relinks, examples, audit>>

Reviews == {i \in DOMAIN audit : audit[i].event # "feedback_changed"}

\* The answer the snapshot of an example ends with, a relink before the row.
Source(r) == IF relinks[r] # None THEN relinks[r] ELSE feedback[r].ends

\* Mutant: the review status alone is checked.
ApprovableStatus(a, sourceNote) == examples[a].status # "excluded"
\* review_example: status, vote, status of the answer and evidence, read in the
\* transaction that approves.
Approvable(a, sourceNote) ==
  /\ examples[a].status # "excluded"
  /\ feedback[examples[a].row].helpful
  /\ Exchange[Source(examples[a].row)].status = "succeeded"
  /\ Exchange[Source(examples[a].row)].evidence \/ sourceNote

\* Mutant: the audit entry is written before the update.
RecordBefore(a, event, e) ==
  /\ audit' = Append(audit, [answer |-> a, event |-> event, example |-> examples[a], cause |-> 0])
  /\ examples' = [examples EXCEPT ![a] = e]
RecordReview(a, event, e) ==
  /\ audit' = Append(audit, [answer |-> a, event |-> event, example |-> e, cause |-> 0])
  /\ examples' = [examples EXCEPT ![a] = e]

Approve(a, text, sourceNote) ==
  /\ examples[a] # NoExample /\ inspected[a] # 0
  /\ Cardinality(Reviews) < MaxReviews
  /\ Approvable(a, sourceNote)
  /\ RecordReview(a, "approved", [examples[a] EXCEPT !.status = "approved", !.text = text,
                                                     !.reviewed = TRUE])
  /\ UNCHANGED <<turn, votes, feedback, relinks, inspected>>

Reject(a) ==
  /\ examples[a] # NoExample
  /\ Cardinality(Reviews) < MaxReviews
  /\ RecordReview(a, "rejected", [examples[a] EXCEPT !.status = "rejected", !.reviewed = TRUE])
  /\ UNCHANGED <<turn, votes, feedback, relinks, inspected>>

Next ==
  \/ \E a \in Answers : AppendExchange(a)
  \/ \E way \in Ways, a \in Answers, helpful \in BOOLEAN, comment \in Comments \cup {None} :
       Vote(way, a, helpful, comment)
  \/ \E t \in Answers, question \in Questions : RepairLegacy(t, question)
  \/ \E a \in Answers : Inspect(a) \/ Reject(a)
  \/ \E a \in Answers, text \in Texts, sourceNote \in BOOLEAN : Approve(a, text, sourceNote)

Spec == Init /\ [][Next]_vars

-----------------------------------------------------------------------------
(* Properties. *)

\* The tables keep their types; every reference to a row of feedback (the
\* foreign keys of examples and relinks, the ids in the turns) resolves.
TypeOK ==
  /\ turn \in [Answers -> Nat]
  /\ feedback \in Seq(FeedbackRow) /\ Len(feedback) <= MaxRows
  /\ votes \subseteq VoteEntry
  /\ \A v \in votes : v.row \in DOMAIN feedback
  /\ relinks \in [Rows -> Answers \cup {None}]
  /\ examples \in [Answers -> Example \cup {NoExample}]
  /\ \A a \in Answers : examples[a] # NoExample => examples[a].row \in DOMAIN feedback
  /\ audit \in Seq(AuditEntry)
  /\ inspected \in [Answers -> 0..MaxRows]

\* An approved example rests on a helpful vote whose snapshot, or repaired
\* snapshot, ends with this very answer, and the answer succeeded: no sequence
\* of votes, rejections and repairs makes a disliked or failed answer a model
\* for later ones (review_example).
ApprovedFromSource ==
  \A a \in Answers : examples[a].status = "approved" =>
    /\ feedback[examples[a].row].helpful
    /\ Source(examples[a].row) = a
    /\ Exchange[a].status = "succeeded"

\* The review of an example is a review of the answer's current vote: a later
\* vote, in whatever order votes, repairs and reviews arrive, takes it away.
ReviewOfLastVote ==
  \A a \in Answers : examples[a] # NoExample =>
    VotesOn(a) # {} /\ LastVote(a).row = examples[a].row

\* What is approved is a helpful vote's own, successful answer, and no review
\* of any example outlives the vote it was a review of.
ReviewsRestOnVotes == ApprovedFromSource /\ ReviewOfLastVote

\* The votes in the turns and the rows of feedback are the same votes: none is
\* lost, doubled or left behind by a vote or a repair.
VotesMatchRows ==
  /\ \A r \in DOMAIN feedback : \E v \in votes : v.row = r
  /\ \A v, w \in votes : (v.row = w.row \/ v.at = w.at) => v = w

\* A vote lands on the answer its voter looked at, or is refused, however the
\* client named the answer and whatever was stored meanwhile.
VoteAsMeant == \A r \in DOMAIN feedback : feedback[r].modern => feedback[r].ends = feedback[r].meant

\* Every vote is stored once, and on the answer it was meant for.
VotesKept == VoteAsMeant /\ VotesMatchRows

\* The audit explains the state: an example is exactly what its last review
\* made it, unless a vote counted since then, which the audit names.
EntriesOf(a) == {i \in DOMAIN audit : audit[i].answer = a}
AuditExplains ==
  \A a \in Answers : examples[a] # NoExample =>
    IF EntriesOf(a) = {} THEN ~examples[a].reviewed
    ELSE LET last == audit[CHOOSE i \in EntriesOf(a) : \A j \in EntriesOf(a) : j <= i]
         IN IF last.event = "feedback_changed"
            THEN ~examples[a].reviewed /\ last.cause <= examples[a].row
            ELSE examples[a] = last.example

(* What the document says of the review and the store does not keep. *)

\* feedback_few_shot.md: the reviewer checks the original answer, the evidence
\* and the comment of the vote, then approves.
ApprovedAsInspected ==
  \A a \in Answers : examples[a].status = "approved" => inspected[a] = examples[a].row

=============================================================================
