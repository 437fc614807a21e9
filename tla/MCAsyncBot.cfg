\* One user, two search ids, killers and stoppers at any time; searches do not throw.
SPECIFICATION FairSpec
CONSTANTS
  i1 = i1
  i2 = i2
  NULL = NULL
  SearchIds = {i1, i2}
INVARIANTS
  SearchUndisturbed
  MoveOwed
PROPERTIES
  StopReturns
  KillEndsAll
