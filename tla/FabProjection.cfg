SPECIFICATION Spec
CONSTANTS
  Jobs = {j1, j2}
  Projectors = {p1}
  Horizon = 4
  DayLength = 2
  LiveEnds = {}
  Types = {"etch"}
  Durations = {1}
  RecoveryTime = 1
SYMMETRY RunsAlike
INVARIANTS
  ProjectedDayKept
