SPECIFICATION FairSpec
CONSTANTS
  w1 = w1
  w2 = w2
  Workspaces <- MCWorkspaces
  Calls = {c1, c2}
  Workers = {k1, k2}
  PlansOf <- MCPlansOf
  NoPlan = NoPlan
  Missing = Missing
  NoWorkspace = NoWorkspace
  Listings <- MCListings
  MaxOpen = 1
INVARIANTS
  TypeOK
  CompleteOutput
  NoLeftovers
  PoolInv
PROPERTIES
  FanOutSpec
  CallsReturn
  WorkersStop
CHECK_DEADLOCK FALSE
