SPECIFICATION Spec
CONSTANTS
  x = x  y = y  m = m  web = web  webCorp = webCorp  webLab = webLab
  ip1 = ip1  ip2 = ip2  nmap = nmap  wazuh = wazuh
  Val = {x, y, m, web, webCorp, webLab, ip1, ip2}
  Src = {nmap, wazuh}
  NRec = 5
  Ids <- NameIds
  Source <- NameSource
  Age <- NameAge
  Label <- AllLabels
  Net <- AllNets
  Span = 2
  Lease = 2
  Orders = {}
  MaxRuns = 2
INVARIANT NoConflation
CHECK_DEADLOCK FALSE
