SPECIFICATION FairSpec
CONSTANTS
  ann = ann
  amy = amy
  bob = bob
  r1 = r1
  Users <- MCUsers
  NoUser = NoUser
  Team <- MCTeam
  Rank <- MCRank
  RequestIds = {r1}
  NoRequest = NoRequest
  Asks <- CrossedPair
  MaxAsks = 2
  Leavers = {}
  Winners = {}
  MaxCrashes = 1
  MaxLapses = 0
  MaxDuels = 1
  MaxReports = 1
  Slots = {s1, s2}
  DUEL_REQUEST_TTL = 1
  DUEL_ACTIVE_TTL = 1
  DUEL_RESULT_TTL = 0
  DUEL_SWEEP_GRACE = 1
PROPERTIES EveryDuelEnds EveryRequestAnswered
