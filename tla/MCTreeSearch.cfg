SPECIFICATION Spec
CONSTANTS
  Threads = {t1, t2}
  MutexOf <- MCMutexOf
  Moves = {a, pass}
  PASS = pass
  VirtualLosses = 1
  conservativePass = TRUE
  isGameFinished <- MCIsGameFinished
  passWouldEndGame <- MCPassWouldEndGame
  LocalPattern <- MCLocalPattern
  MaxVisitsOfSearches <- MCMaxVisits
  MaxPlayoutsOfSearches <- MCMaxPlayouts
  MaxMoves = 1
INVARIANTS
  VisitsAddUp
  BiasConserved
PROPERTIES
  SearchEnds
CHECK_DEADLOCK FALSE
