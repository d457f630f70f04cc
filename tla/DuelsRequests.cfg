SPECIFICATION Spec
CONSTANTS
  ann = ann
  amy = amy
  bob = bob
  r1 = r1
  Users <- MCUsers
  NoUser = NoUser
  Team <- MCTeam
  Rank <- MCRank
  RequestIds = {r1}
  NoRequest = NoRequest
  Asks <- Crossed
  MaxAsks = 2
  Leavers = {}
  Winners = {}
  MaxCrashes = 0
  MaxLapses = 0
  MaxDuels = 2
  MaxReports = 0
  Slots = {s1, s2}
  DUEL_REQUEST_TTL = 1
  DUEL_ACTIVE_TTL = 2
  DUEL_RESULT_TTL = 0
  DUEL_SWEEP_GRACE = 0
SYMMETRY SlotSymmetry
INVARIANTS OneActiveDuel AnswerableHoldsLock
PROPERTIES RequestIsIdempotent ActiveLockStays
