SPECIFICATION FairSpec
CONSTANTS
  w1 = w1
  w2 = w2
  w3 = w3
  NoPlan = NoPlan
  Workspaces = {w1, w2, w3}
  RunStatuses = {"planned_and_finished", "errored"}
  MaxClock = 2
  Detectors = {d1, d2}
  Controllers = {d2}
  Quiet = {}
  DryRun = {d2}
  Listings <- MCOneListing
  IncludeNames <- MCInclude
  ExcludeNames = {}
  NotBefore = 1
  MaxPlans = 0
  MaxCycles = 2
  Faults = {"fetch", "late"}
INVARIANTS
  SureInv
PROPERTIES
  NoErrorNoSecondRun
  CleanVerdict
CHECK_DEADLOCK FALSE
