SPECIFICATION Spec
CONSTANTS
  x = x  y = y  m = m  web = web  webCorp = webCorp  webLab = webLab
  ip1 = ip1  ip2 = ip2  nmap = nmap  wazuh = wazuh
  Val = {x, y, m, web, webCorp, webLab, ip1, ip2}
  Src = {nmap, wazuh}
  NRec = 5
  Ids <- LanIds
  Source <- LanSource
  Age <- LanAge
  Label <- AllLabels
  Net <- AllNets
  Span = 2
  Lease = 2
  Orders <- TwoOrders
  MaxRuns = 3
INVARIANTS OneHolder NoConflation StampedActive
PROPERTIES UncoveredNotAged
CHECK_DEADLOCK FALSE
