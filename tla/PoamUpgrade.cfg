SPECIFICATION Spec
CONSTANTS
  a = a  b = b  m = m  n = n
  ca = ca  cb = cb  cm = cm  cn = cn  da = da  db = db  dm = dm  dn = dn
  p = p  q = q  ra = ra  ra2 = ra2  rb = rb  rm = rm  rn = rn  rc = rc
  NoCore = NoCore
  Fp = {a, b, m, n}
  Core = {ca, cb, cm, cn, da, db, dm, dn}
  Place = {p, q}
  Inst <- UpInst
  FpOf <- UpFpOf
  Legacy <- UpLegacy
  Near <- UpNear
  Absorbs <- UpAbsorbs
  Epoch <- UpEpoch
  Target <- UpTarget
  Covers <- UpCovers
  Short <- UpShort
  Long <- UpLong
  Undated = {rb}
  Seeds <- NoSeeds
  Env = {"close", "clear", "vendor"}
  MaxScans = 3
  MaxReopen = 2
INVARIANTS LineageKept
PROPERTIES DetectionDateKept
CHECK_DEADLOCK FALSE
