\* Two analysis threads, two requests of one id, which may differ in turn and priority
\* and may come in one query or two; two terminate actions or rejected queries.
SPECIFICATION FairSpec
CONSTANTS
  NumAnalysisThreads = 2
  Ids = {"a"}
  Turns = {0, 1}
  Priorities = {0, 1}
  Reporting = {FALSE}
  ZeroCaps = {FALSE}
  MaxRequests = 2
  MaxOthers = 2
CHECK_DEADLOCK FALSE
INVARIANTS
  OneFinalAnswer
  StopHitsTarget
  NoUseAfterFree
  NoOvertaking
  AssertsHold
  QuitLeavesNothing
