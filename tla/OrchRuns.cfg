SPECIFICATION FairSpec
CONSTANTS
  h1 = h1  h2 = h2  h3 = h3  nb = nb
  Host = {h1, h2, h3, nb}
  Ptr <- Names
  Scopes <- AllScopes
  PlanSample = 1
  MaxRuns = 2
  MaxDrops = 1
INVARIANTS LaunchesInScope TornDown ResultsLand ReportsOfOneRun
PROPERTIES Finishes
CHECK_DEADLOCK FALSE
