\* Selfplay: two game threads, two games, up to two newer nets.  Contribute: two task
\* loops and one game thread, two models, two tasks of two games each.
\* Gatekeeper: two game threads, four games in a match, two models.
SPECIFICATION Spec
CONSTANTS
  NULL = NULL
  NONE = NONE
  Managers = {self, rating}
  MaxNets = 3
  maxDataQueueSize = 1
  Players = {g1, g2}
  SELFPLAY = self
  maxGamesTotal = 2
  TaskLoops = {l1, l2}
  Workers = {g1}
  SELF = self
  RATING = rating
  Names = {a, b}
  taskRepFactor = 2
  maxRatingMatches = 1
  onlyPlayRatingMatches = FALSE
  MaxTasks = 2
  GameThreads = {g1, g2}
  numGamesPerGating = 4
  MaxCandidates = 1
INVARIANTS
  HeldNetsStay
  GamesKept
  GamesHaveNets
PROPERTIES
  CommandEnds
  VerdictStands
CHECK_DEADLOCK FALSE
