SPECIFICATION Spec
CONSTANTS
  h1 = h1  h2 = h2  h3 = h3  nb = nb
  Host = {h1, h2, h3, nb}
  Ptr <- Names
  Scopes <- TwoScopes
  PlanSample = 1
  MaxRuns = 2
  MaxDrops = 1
INVARIANTS BlamesOwnWrites
CHECK_DEADLOCK FALSE
