CONSTANTS
  Entry <- MCTrio
  Repo <- MCRepo
  Selectors <- MCSelectors
  Calls <- MCCalls
  Honesty = {TRUE, FALSE}
  PerPage = 1
  MaxPages = 2
  MaxChanges = 1
  MaxFaults = 1
SPECIFICATION FairSpec
INVARIANTS TypeOK Exact TakenOnce
PROPERTIES Ends Settles
