SPECIFICATION FairSpec
CONSTANTS
  ann = ann
  bob = bob
  MaxSends = 1
  Challenger = ann
  Opponent = bob
  Nobody = Nobody
  Types = {"TAP", "REACTION"}
  Points <- FewPoints
  MAX_ROUNDS = 2
  GAME_EXPIRE_MAX_ATTEMPTS = 2
  MayFail <- OnlyDeadlines
  MaxFailures = 1
  MaxCrashes = 0
INVARIANTS NoFalseStartAfterGo SomeoneSettles
PROPERTIES EveryGameEnds
CHECK_DEADLOCK FALSE
