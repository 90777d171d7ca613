SPECIFICATION FairSpec
CONSTANTS
  t1 = t1 t2 = t2 www = www ip1 = ip1 ip2 = ip2 d1 = d1 d2 = d2 demo = demo H = H P = P
  Thread = {t1, t2}
  Name = {www}
  Ip = {ip1, ip2}
  NoIp = NoIp
  Port = {H, P}
  Web = {H, P}
  Paired = {H}
  Exchanges = 1
  Day = {1, 2}
  Digest = {d1, d2, demo}
  DemoDigest = demo
  Texts <- FiveTexts
  Starts <- Bounds
  Empty = Empty
  Nobody = Nobody
CHECK_DEADLOCK FALSE
INVARIANTS ConnectsAuthorised FewLateConnects
PROPERTIES RunsEnd
