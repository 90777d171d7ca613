SPECIFICATION Spec
CONSTANTS
  a = a  b = b  m = m  n = n
  ca = ca  cb = cb  cm = cm  cn = cn  da = da  db = db  dm = dm  dn = dn
  p = p  q = q  ra = ra  ra2 = ra2  rb = rb  rm = rm  rn = rn  rc = rc
  NoCore = NoCore
  Fp = {a, b}
  Core = {ca, da, db}
  Place = {p}
  Inst <- PairInst
  FpOf <- PairFpOf
  Legacy <- PairNone
  Near <- PairNone
  Absorbs <- PairNone
  Epoch <- PairEpoch
  Target <- StableTarget
  Covers <- PairCovers
  Short <- StableShort
  Long <- StableLong
  Undated = {rb}
  Seeds <- NoSeeds
  Env = {"carry", "discipline", "edit", "crash"}
  MaxScans = 4
  MaxReopen = 3
INVARIANTS PendingMeansTwoRescans
CHECK_DEADLOCK FALSE
