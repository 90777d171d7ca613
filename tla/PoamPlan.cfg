SPECIFICATION Spec
CONSTANTS
  rdp = rdp  tw = tw  nuc = nuc  nes = nes  dup = dup  ly = ly
  hk = hk  al1 = al1  al2 = al2  mut = mut  up1 = up1  up2 = up2  mv = mv  sa1 = sa1  sa2 = sa2
  Rec = {rdp, tw, nuc, nes, dup, ly, hk, al1, al2, mut, up1, up2, mv, sa1, sa2}
  Attr <- Facts
  Fp = {1, 2, 3, 4, 5, 6, 7, 8, 9, 10, 11, 12, 13}
  Lighter = FALSE
  Seeds <- OldLedgers
  Scans <- Orders
  MaxRuns = 2
INVARIANTS OneRowPerFp OneRowPerId AliasNamesRow AliasesLand
PROPERTIES Accounted CarriedOn
CHECK_DEADLOCK FALSE
