SPECIFICATION Spec
CONSTANTS
  w1 = w1
  w2 = w2
  w3 = w3
  NoPlan = NoPlan
  Calls = {c1}
  Workspaces <- MCOneWorkspace
  Workers = {k1}
  PlansOf <- MCOnePlan
  Missing = Missing
  NoWorkspace = NoWorkspace
  Listings <- MCOneListing
  Names <- MCNames
  MaxScrapes = 1
INVARIANTS
  NoSendAfterClose
CHECK_DEADLOCK FALSE
