SPECIFICATION Spec
CONSTANTS
  helpful = helpful
  unhelpful = unhelpful
  Opinions <- EitherOpinion
  Window = 1
  MaxQuestions = 2
  MaxAttempts = 3
  MaxIncidents = 2
INVARIANTS
  AnswersKept
  SeesEarlierAnswers
  MemoryFollowsStore
  ShownVoteStored
PROPERTIES
  ConversationDurable
SYMMETRY SwapOpinions
CHECK_DEADLOCK FALSE
