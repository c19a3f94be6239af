--------------------------- MODULE MCFeedbackStore ---------------------------
(***************************************************************************)
(* Instances of FeedbackStore for TLC.                                     *)
(***************************************************************************)
EXTENDS FeedbackStore

\* A question answered twice with the same words, once without evidence, and
\* an answer that failed, in one conversation.
Exchanges ==
  [a1 |-> [conversation |-> "c1", question |-> "q1", text |-> "t1", status |-> "succeeded",
           evidence |-> FALSE],
   a2 |-> [conversation |-> "c1", question |-> "q1", text |-> "t1", status |-> "succeeded",
           evidence |-> TRUE],
   a3 |-> [conversation |-> "c1", question |-> "q3", text |-> "t3", status |-> "failed",
           evidence |-> TRUE]]

\* The old client attached a vote for the first answer to the latest one.
VoteOnLatest == <<[on |-> "a3", trace |-> "a1", helpful |-> TRUE]>>

=============================================================================
