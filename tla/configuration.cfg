CONSTANTS
  None = None
  o1 = o1
  o2 = o2
  r1 = r1
  r2 = r2
  s1 = s1
  k1 = k1
  ns1 = ns1
  ns2 = ns2
  Owner = {o1, o2}
  Repo = {r1, r2}
  Owns <- MCOwns
  Secret = {s1}
  Key = {k1}
  Password = k1
  Namespace = {ns1, ns2}
  Watched = {ns1}
  Webhook = TRUE
  Resources <- Edits
  BackoffLimit = 1
  MaxEdits = 3
  MaxFaults = 1
SPECIFICATION FairSpec
INVARIANTS TypeOK ExitsAreExplained
PROPERTIES RefusalsAreNews EditsTakeEffect
CHECK_DEADLOCK FALSE
