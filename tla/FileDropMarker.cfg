SPECIFICATION Spec
CONSTANTS
  n1 = n1  nt = nt  k1 = k1  k2 = k2  p1 = p1  u1 = u1
  NoFile = NoFile
  File = {k2, p1}
  Kind <- Outcomes
  Twin <- Twins
  Bundled = {"nmap", "vuln"}
  Order <- TwoSensors
  Folder <- Folders
  Name <- Names
  Path <- Paths
  Family <- Families
  KeepShaped = {k2}
  Marked = {k2}
  Bannered = {}
  DemoClient = FALSE
  Seeded = {}
  NmapXml = {p1}
  PackIn = FALSE
  Cmds = {"ciso"}
  MaxRuns = 2
  MaxEdits = 1
INVARIANT NoMarkedClient
CHECK_DEADLOCK FALSE
