SPECIFICATION LSpec
CONSTANTS
  x = x  y = y  m = m  ip1 = ip1  ip2 = ip2  ip3 = ip3
  nmap = nmap  wazuh = wazuh  telnet = telnet
  Val = {x, y, m, ip1, ip2, ip3}
  Src = {nmap, wazuh}
  Weakness = {telnet}
  NRec = 5
  Ids <- HomeIds
  Source <- BySensor
  Age <- Later
  Reports <- Telnets
  Scans <- HomeScans
  Label <- NoLabels
  Net <- OneNet
  Span = 2
  Lease = 9
  Orders = {}
  MaxRuns = 3
INVARIANT RowsNameAssets
PROPERTIES RerunKeepsIds SteadyHostSameId
CHECK_DEADLOCK FALSE
