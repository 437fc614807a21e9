SPECIFICATION Spec
CONSTANTS
  NUM_RECENT_BOARDS = 3
  Komis = {1, 4}
  Setups <- MCSetups
INVARIANTS
  ChainsAreGroups
  ForecastsRight
  HistoryTellsGame
  EveryGameEnds
PROPERTIES
  RefinesRules
  PassAliveStays
CHECK_DEADLOCK FALSE
