\* Two analysis threads, two requests, one terminate action
\* or rejected query, reports during the searches.
SPECIFICATION FairSpec
CONSTANTS
  NumAnalysisThreads = 2
  Ids = {"a"}
  Turns = {0}
  Priorities = {0}
  Reporting = {TRUE}
  ZeroCaps = {FALSE}
  MaxRequests = 2
  MaxOthers = 1
CHECK_DEADLOCK FALSE
INVARIANTS
  FinalAnswerIsLast
PROPERTIES
  TerminatedIsAnswered
  QuickQuitEnds
  EveryRequestAnswered
