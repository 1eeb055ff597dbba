SPECIFICATION FairSpec
CONSTANTS
  w1 = w1
  w2 = w2
  w3 = w3
  NoPlan = NoPlan
  Workspaces = {w1, w2, w3}
  RunStatuses = {"policy_checking", "planned_and_finished", "errored"}
  MaxClock = 3
  Detectors = {d1}
  Controllers = {}
  Quiet = {}
  DryRun = {}
  Listings <- MCListings
  IncludeNames = {}
  ExcludeNames <- MCExclude
  NotBefore = 1
  MaxPlans = 1
  MaxCycles = 3
  Faults = {}
PROPERTIES
  CleanVerdict
CHECK_DEADLOCK FALSE
