CONSTANTS
  Nothing = Nothing
  BackoffLimit = 1
  MaxFaults = 2
SPECIFICATION FairSpec
INVARIANTS TypeOK GapsAreExplained SuccessIsCollected
PROPERTIES RetriedOnlyForNothing TerminationEnds
