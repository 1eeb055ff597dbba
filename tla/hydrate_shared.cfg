SPECIFICATION FairSpec
CONSTANTS
  w1 = w1
  w2 = w2
  Workspaces <- MCWorkspaces
  Calls = {c1, c2}
  Workers = {k1, k2}
  PlansOf <- MCPlansOf
  NoPlan = NoPlan
  Missing = Missing
  NoWorkspace = NoWorkspace
  Listings <- MCListings
  MaxOpen = 2
INVARIANTS
  CompleteOutput
CHECK_DEADLOCK FALSE
