SPECIFICATION Spec
CONSTANTS
  a = a  b = b  m = m  n = n
  ca = ca  cb = cb  cm = cm  cn = cn  da = da  db = db  dm = dm  dn = dn
  p = p  q = q  ra = ra  ra2 = ra2  rb = rb  rm = rm  rn = rn  rc = rc
  NoCore = NoCore
  Fp = {a, b}
  Core = {ca, cb, da, db}
  Place = {p}
  Inst <- TwinInst
  FpOf <- TwinFpOf
  Legacy <- TwinLegacy
  Near <- TwinNone
  Absorbs <- TwinNone
  Epoch <- TwinEpoch
  Target <- StableTarget
  Covers <- TwinCovers
  Short <- TwinShort
  Long <- StableLong
  Undated = {}
  Seeds <- NoSeeds
  Env = {"close"}
  MaxScans = 4
  MaxReopen = 3
PROPERTIES ClosedStays
CHECK_DEADLOCK FALSE
