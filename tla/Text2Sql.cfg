SPECIFICATION FairSpec
CONSTANTS
  Fabs = {"fab10", "fab11"}
  Foreign = "fab99"
  NoFab = "none"
  Table <- FourTables
  Families <- ThreeFamilies
  SourceType <- KindOf
  LineFamilies = {"autosched_perf"}
  MetricFamilies = {"live_process_snapshots", "autosched_perf"}
  Questions <- Asked
  Written <- AnyTables
  MaxChanges = 1
INVARIANTS
  CheckedInItsAttempt
  RowsInScope
PROPERTIES
  Terminates
  KeepsPromise
CHECK_DEADLOCK FALSE
