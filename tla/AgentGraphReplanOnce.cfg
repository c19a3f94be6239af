SPECIFICATION Spec
CONSTANTS
  QueryTypes = {"trend"}
  ExtraAgents = {"rag"}
  PlanStatuses = {"ready", "needs_clarification"}
  Outcome <- SucceedOrFail
  RetryBudget = 2
  ReplanBudget = 1
  AlternateBudget = 1
  RecursionLimit = 100
INVARIANTS
  ReplanOnce
