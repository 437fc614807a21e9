\* A search may end with an exception.
SPECIFICATION FairSpecThrowing
CONSTANTS
  i1 = i1
  NULL = NULL
  SearchIds = {i1}
PROPERTIES
  StopReturns
