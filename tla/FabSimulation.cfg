SPECIFICATION Spec
CONSTANTS
  Jobs = {j1, j2, j3}
  Projectors = {p1, p2}
  Horizon = 4
  DayLength = 1
  LiveEnds = {1}
  Types = {"etch"}
  Durations = {1}
  RecoveryTime = 1
CONSTRAINT TwoBesideTables
SYMMETRY RunsAlike
INVARIANTS
  StateNamesOpen
  LedgerInOrder
  EventsExplained
  ProjectionKept
PROPERTIES
  LifecycleForward
