SPECIFICATION FairSpec
CONSTANTS
  w1 = w1
  w2 = w2
  NoPlan = NoPlan
  Missing = Missing
  Workspaces = {w1, w2}
  RunStatuses = {"planning", "planned_and_finished", "errored"}
  MaxClock = 1
  Listings <- MCListings
  MaxPositions = 2
  Histories <- MCHistories
  ReadFails = TRUE
INVARIANTS
  TypeOK
  NoGoroutineLeft
  FinishedIsEnded
PROPERTIES
  FanOutSpec
  CallReturns
CHECK_DEADLOCK FALSE
