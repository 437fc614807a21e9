\* Queries may ask for a search of zero visits.
SPECIFICATION FairSpec
CONSTANTS
  NumAnalysisThreads = 1
  Ids = {"a"}
  Turns = {0}
  Priorities = {0}
  Reporting = {FALSE}
  ZeroCaps = {FALSE, TRUE}
  MaxRequests = 1
  MaxOthers = 1
CHECK_DEADLOCK FALSE
INVARIANTS
  NoResultsOnlyWhenQuitting
