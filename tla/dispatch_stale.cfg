CONSTANTS
  api = api
  web = web
  ops = ops
  Repo <- Repos2
  Listings <- Changing2
  Parallelism = 1
  Interval = 1
  TTL = 1
  BackoffLimit = 0
  Prompt = FALSE
  MaxPass = 1
  MaxLag = 1
  MaxFaults = 1
SPECIFICATION CycleSpec
INVARIANTS OwedWorkIsScheduled UnsettledIsRetried JobsAreSpaced
PROPERTIES StatusNeverRollsBack
