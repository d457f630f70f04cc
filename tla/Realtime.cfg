SPECIFICATION RealtimeSpec
CONSTANTS
  x1 = x1 x2 = x2 y1 = y1 y2 = y2 z = z
  Members = {x1, x2}
  Relays = {y1, y2}
  MaxChanges = 2
  MaxOutages = 1
  Sockets = {y1, y2}
  Opponents = {x1, x2}
  Notices = {x1, x2}
  QueueMax = 1
  MaxTroubles = 1
  Messages = {x1, x2}
  MaxEmits = 3
  MaxSwitches = 2
  Foes = {y1, y2}
  MaxDuels = 2
  MaxChallenges = 2
  MaxLapses = 1
  MaxAccounts = 2
  MaxBothers = 1
  MaxGenerations = 2
  MaxTaps = 1
  MaxGames = 1
  MaxRounds = 2
  MaxDrops = 1
  Sites = {x1, x2}
  MaxActs = 6
  MaxCalls = 2
  FirstSeason = 2
  LastSeason = 3
  MaxSteps = 3
  MaxFetches = 2
SYMMETRY MCSymmetry
INVARIANTS
  RealtimeTypeOK BlockedHearNothing MapShowsWhoIsThere NothingLostSilently ShownAsItIs OverlayFollowsDuel SignUpHolds WatcherServesScreens ScreenPlaysTheRound SheetIsOfThisVisit RankingUnderItsNumber
PROPERTIES
  ClosedForAReason
CHECK_DEADLOCK FALSE
