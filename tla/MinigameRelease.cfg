SPECIFICATION Spec
CONSTANTS
  ann = ann
  bob = bob
  MaxSends = 2
  Challenger = ann
  Opponent = bob
  Nobody = Nobody
  Types = {"TAP", "REACTION"}
  Points <- FewPoints
  MAX_ROUNDS = 2
  GAME_EXPIRE_MAX_ATTEMPTS = 2
  MayFail <- Everyone
  MaxFailures = 1
  MaxCrashes = 0
PROPERTIES ReleasedIsRetried
CHECK_DEADLOCK FALSE
