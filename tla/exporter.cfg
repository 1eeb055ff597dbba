SPECIFICATION FairSpec
CONSTANTS
  w1 = w1
  w2 = w2
  w3 = w3
  NoPlan = NoPlan
  Calls = {c1, c2}
  Workspaces <- MCWorkspaces
  Workers = {k1}
  PlansOf <- MCPlansOf
  Missing = Missing
  NoWorkspace = NoWorkspace
  Listings <- MCListings
  Names <- MCNames
  MaxScrapes = 2
INVARIANTS
  TypeOK
  LoneScrape
  PoolDrained
  PoolGoesOn
  WithinScrape
PROPERTIES
  FreshReports
  ScrapesReturn
  ExporterStops
CHECK_DEADLOCK FALSE
