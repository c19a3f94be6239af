SPECIFICATION FairSpec
CONSTANTS
  Threads <- TwoThreads
  Endpoints = {"e1", "e2"}
  Timeouts = {"30s", "45s"}
  MaxCalls = 3
INVARIANTS
  NoneClosedInUse
  BrokenNotCalled
PROPERTIES
  SilentAfterCancel
  ClosedInTheEnd
CHECK_DEADLOCK FALSE
