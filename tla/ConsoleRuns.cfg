SPECIFICATION FairSpec
CONSTANTS
  t1 = t1  t2 = t2  fresh = fresh  lab = lab  client = client
  Thread = {t1, t2}
  Out = {fresh, lab, client}
  Marked = {lab}
  UsedIn = {}
  Found <- Summaries
  NSensors = 2
  Traffics <- Steady
  MaxRuns = 3
INVARIANTS RefreshWhole
PROPERTIES ReloadOnly Answered
