SPECIFICATION FairSpec
CONSTANTS
  w1 = w1
  w2 = w2
  w3 = w3
  NoPlan = NoPlan
  Workspaces = {w1, w2, w3}
  RunStatuses = {"planning", "planned_and_finished", "errored"}
  MaxClock = 3
  Detectors = {d1}
  Controllers = {}
  Quiet = {}
  DryRun = {}
  Listings <- MCListings
  IncludeNames = {}
  ExcludeNames <- MCExclude
  NotBefore = 1
  MaxPlans = 1
  MaxCycles = 3
  Faults = {"fetch", "late"}
PROPERTIES
  NoSecondQueuedRun
CHECK_DEADLOCK FALSE
