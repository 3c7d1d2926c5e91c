CONSTANTS
  api = api
  web = web
  ops = ops
  Repo <- Repos3
  Listings <- Fixed3
  Parallelism = 1
  Interval = 1
  TTL = 0
  BackoffLimit = 2
  Prompt = FALSE
  MaxPass = 0
  MaxLag = 1
  MaxFaults = 1
SPECIFICATION Spec
INVARIANTS TypeOK OvershootWithinLag
