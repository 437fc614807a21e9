\* Two task loops, room for one chunk of two rating games, three game threads.
SPECIFICATION ContributeSpec
CONSTANTS
  NONE = NONE
  Managers = {self, rating}
  MaxNets = 3
  maxDataQueueSize = 1
  TaskLoops = {l1, l2}
  Workers = {g1, g2, g3}
  SELF = self
  RATING = rating
  Names = {a, b}
  taskRepFactor = 2
  maxRatingMatches = 1
  onlyPlayRatingMatches = FALSE
  MaxTasks = 2
INVARIANTS
  RatingGamesAsSized
CHECK_DEADLOCK FALSE
