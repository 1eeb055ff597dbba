SPECIFICATION FairSpec
CONSTANTS
  w1 = w1
  w2 = w2
  w3 = w3
  w4 = w4
  NoPlan = NoPlan
  Workspaces <- MCWorkspaces
  Broken = {w1}
  Listings <- MCListings
  NotBefore = 1
  MaxPlans = 2
INVARIANTS
  TypeOK
PROPERTIES
  AllChecked
  OldestChosen
  NoOvertaking
CHECK_DEADLOCK FALSE
