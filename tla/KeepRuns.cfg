SPECIFICATION FairSpec
CONSTANTS
  m1 = m1 w1 = w1 s1 = s1 s2 = s2
  c1 = c1 c2 = c2 sa = sa lb = lb
  Call = {m1, w1, s1, s2}
  Mcp = {m1}
  Own = {m1, w1}
  Base = Base
  Workloads <- Together
  Overlap = TRUE
  Undo = FALSE
  Order <- TwoFamilies
  Name = {"a", "b", "b2"}
  Fam <- Families
  Content = {c1, c2, sa, lb}
  Absent = Absent
  Mark <- Marks
  Leaf <- Leaves
  MaxFaults = 1
CHECK_DEADLOCK FALSE
INVARIANTS OkIsWhole
PROPERTIES ClientIsSnapshot EveryCallEnds
