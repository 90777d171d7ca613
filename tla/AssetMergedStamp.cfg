SPECIFICATION Spec
CONSTANTS
  x = x  y = y  m = m  web = web  webCorp = webCorp  webLab = webLab
  ip1 = ip1  ip2 = ip2  nmap = nmap  wazuh = wazuh
  Val = {x, y, m, web, webCorp, webLab, ip1, ip2}
  Src = {nmap, wazuh}
  NRec = 4
  Ids <- NicIds
  Source <- NicSource
  Age <- NicAge
  Label <- AllLabels
  Net <- AllNets
  Span = 2
  Lease = 2
  Orders = {}
  MaxRuns = 1
INVARIANT StampedActive
CHECK_DEADLOCK FALSE
