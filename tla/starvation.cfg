CONSTANTS
  api = api
  web = web
  ops = ops
  Repo <- Repos3
  Listings <- Fixed3
  Parallelism = 1
  Interval = 2
  TTL = 1
  BackoffLimit = 0
  Prompt = TRUE
  MaxPass = 0
  MaxLag = 1
  MaxFaults = 0
SPECIFICATION FairSpec
PROPERTY EveryRepoCollected
