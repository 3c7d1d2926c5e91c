CONSTANTS
  Bucket <- MCGitLab
  ProbeCost = 1
  Threshold = 3
  Limit = 8
  Window = 3
  Parallelism = 1
  Interval = 3
  JobCost = 1
  DiscoveryCost = 1
  Sizes = {1, 2}
  Stales = {FALSE}
  MaxFaults = 0
SPECIFICATION FairSpec
INVARIANTS PauseIsQuiet
