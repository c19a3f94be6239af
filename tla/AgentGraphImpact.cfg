SPECIFICATION Spec
CONSTANTS
  QueryTypes = {"impact", "knowledge_lookup"}
  ExtraAgents = {"rag", "visualization"}
  PlanStatuses = {"ready", "needs_clarification", "data_unavailable"}
  Outcome <- SucceedOrFail
  RetryBudget = 1
  ReplanBudget = 1
  AlternateBudget = 1
  RecursionLimit = 40
INVARIANTS
  PlacesAgree
  SuccessEarned
