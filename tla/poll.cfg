CONSTANTS
  r1 = r1
  r2 = r2
  code = code
  alert1 = alert1
  alert2 = alert2
  Repo = {r1, r2}
  Finding = {code, alert1, alert2}
  Home <- MCHome
  Category <- MCCategory
  Name <- ThreeNames
  Polls <- EveryPoll
  MaxAlerts = 1
  MaxChanges = 1
  MaxFaults = 1
SPECIFICATION Spec
SYMMETRY Alike
INVARIANTS TypeOK FindingsAreCounted ZeroIsExplained
CHECK_DEADLOCK FALSE
