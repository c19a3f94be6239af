SPECIFICATION Spec
CONSTANTS
  Answers = {"a1", "a2", "a3"}
  Exchange <- Exchanges
  OldAnswers = {"a1", "a3"}
  OldVotes <- VoteOnLatest
  Comments = {"c"}
  Texts = {"reviewed"}
  MaxRows = 3
  MaxReviews = 3
INVARIANTS
  ReviewsRestOnVotes
  VotesKept
  AuditExplains
CHECK_DEADLOCK FALSE
