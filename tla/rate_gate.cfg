CONSTANTS
  Bucket <- MCGitHub
  ProbeCost = 0
  Threshold = 4
  Limit = 5
  Window = 2
  Parallelism = 1
  Interval = 2
  JobCost = 1
  DiscoveryCost = 1
  Sizes = {1}
  Stales = {TRUE, FALSE}
  MaxFaults = 1
SPECIFICATION FairSpec
INVARIANTS TypeOK FloorHolds PauseIsQuiet PauseEnds
PROPERTIES Resumes
