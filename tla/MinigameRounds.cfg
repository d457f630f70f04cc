SPECIFICATION Spec
CONSTANTS
  ann = ann
  bob = bob
  MaxSends = 2
  Challenger = ann
  Opponent = bob
  Nobody = Nobody
  Types = {"TAP"}
  Points <- MCPoints
  MAX_ROUNDS = 2
  GAME_EXPIRE_MAX_ATTEMPTS = 2
  MayFail <- Everyone
  MaxFailures = 1
  MaxCrashes = 1
INVARIANTS TypeOK OneStartPerRound ResultStands
PROPERTIES SettledOnTime
SYMMETRY PlayerSymmetry
CHECK_DEADLOCK FALSE
