SPECIFICATION Spec
CONSTANTS
  n1 = n1  nt = nt  k1 = k1  k2 = k2  p1 = p1  u1 = u1
  NoFile = NoFile
  File = {n1, nt, k1, k2, p1, u1}
  Kind <- Outcomes
  Twin <- Twins
  Bundled = {"nmap", "vuln"}
  Order <- TwoSensors
  Folder <- Folders
  Name <- Names
  Path <- Paths
  Family <- Families
  KeepShaped = {k1, k2}
  Marked = {k1, k2}
  Bannered = {k2}
  DemoClient = FALSE
  Seeded = {k2}
  NmapXml = {n1, p1}
  PackIn = TRUE
  Cmds = {"ciso", "write", "prove", "prior", "refresh"}
  MaxRuns = 2
  MaxEdits = 1
INVARIANTS FixturesLabelled StagedClientClean
PROPERTIES PublishesOwnRun CoverageHonest GapsNamed PriorCarried
CHECK_DEADLOCK FALSE
