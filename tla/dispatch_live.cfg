CONSTANTS
  api = api
  web = web
  ops = ops
  Repo <- Repos1
  Listings <- Fixed1
  Parallelism = 1
  Interval = 1
  TTL = 0
  BackoffLimit = 1
  Prompt = FALSE
  MaxPass = 0
  MaxLag = 1
  MaxFaults = 2
SPECIFICATION FairSpec
PROPERTIES ReadyOnceCredentialsHold EditsAreObserved EveryRepoCollected
