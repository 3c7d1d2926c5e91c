CONSTANTS
  f1 = f1
  f2 = f2
  f3 = f3
  s1 = s1
  i1 = i1
  i2 = i2
  i3 = i3
  a = a
  b = b
  Finding <- Findings2
  Scope <- Scopes1
  Job <- Jobs2
  Id <- Ids
  ScopeOf <- OneScope
  IdOf <- OwnIds
  Covers <- Shared
  Windows <- Window1
  MaxAge = 2
  MaxRun = 0
  MaxFaults = 2
  DataLoss = TRUE
  EveryTick = FALSE
SPECIFICATION FairSpec
INVARIANTS TypeOK NothingDropped CountedOnce NothingInvented
PROPERTIES ImplementsLedger HistogramsReported PushesAreCurrent
