SPECIFICATION Spec
CONSTANTS
  t1 = t1  t2 = t2  fresh = fresh  lab = lab  client = client
  Thread = {t1, t2}
  Out = {fresh, lab, client}
  Marked = {lab}
  UsedIn = {}
  Found <- Summaries
  NSensors = 1
  Traffics <- SwitchDuringRefresh
  MaxRuns = 1
PROPERTIES ReloadOnly
