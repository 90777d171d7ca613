SPECIFICATION Spec
CONSTANTS
  a = a  b = b  m = m  n = n
  ca = ca  cb = cb  cm = cm  cn = cn  da = da  db = db  dm = dm  dn = dn
  p = p  q = q  ra = ra  ra2 = ra2  rb = rb  rm = rm  rn = rn  rc = rc
  NoCore = NoCore
  Fp = {a, b}
  Core = {ca, da, db}
  Place = {p}
  Inst <- StableInst
  FpOf <- StableFpOf
  Legacy <- StableNone
  Near <- StableNone
  Absorbs <- StableNone
  Epoch <- StableEpoch
  Target <- StableTarget
  Covers <- StableCovers
  Short <- StableShort
  Long <- StableLong
  Undated = {ra2}
  Seeds <- NoSeeds
  Env = {"crash", "lose", "close"}
  MaxScans = 3
  MaxReopen = 2
INVARIANTS NeverAutoCloses IdsDistinct NoSilentLoss
PROPERTIES Implements
CHECK_DEADLOCK FALSE
