SPECIFICATION Spec
CONSTANTS
  QueryTypes = {"diagnosis"}
  ExtraAgents = {}
  PlanStatuses = {"ready", "needs_clarification", "unsupported"}
  Outcome <- SearchMayFail
  RetryBudget = 2
  ReplanBudget = 1
  AlternateBudget = 1
  RecursionLimit = 56
INVARIANTS
  BudgetsKept
  NothingStale
  EveryStepRuns
PROPERTIES
  Terminates
