SPECIFICATION GameScreenSpec
CONSTANTS
  MaxGames = 1
  MaxRounds = 1
  MaxDrops = 0
INVARIANTS EarlyTapIsFalseStart
CHECK_DEADLOCK FALSE
