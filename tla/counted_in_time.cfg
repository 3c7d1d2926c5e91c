CONSTANTS
  f1 = f1
  f2 = f2
  f3 = f3
  s1 = s1
  i1 = i1
  i2 = i2
  i3 = i3
  a = a
  b = b
  Finding <- Findings3
  Scope <- Scopes1
  Job <- Jobs1
  Id <- Ids
  ScopeOf <- OneScope
  IdOf <- OwnIds
  Covers <- Shared
  Windows <- Window2or5
  MaxAge = 6
  MaxRun = 0
  MaxFaults = 1
  DataLoss = FALSE
  EveryTick = TRUE
SPECIFICATION Spec
INVARIANTS CountedInTime RecountsAreSpaced
