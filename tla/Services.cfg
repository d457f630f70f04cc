SPECIFICATION ServicesSpec
CONSTANTS
  x1 = x1 x2 = x2 x3 = x3 y1 = y1 y2 = y2 z = z A = A B = B
  Visitors = {y1, y2, z}
  Attempts = {x1, x2, x3}
  Asked = {"claim", "photo"}
  Teams = {A, B}
  HeldBefore = A
  TeamOf <- MCTeamOf
  MaxEvents = 2
  Districts = {y1, y2}
  Workers = {y1, y2}
  MaxWeek = 1
  Requests = {x1, x2, x3, z}
  Reports = {z}
  MaxUids = 3
  MaxMishaps = 2
  Players = {z}
  Sides = {A}
  SideOf <- MCSideOf
  Postings = {z}
  Readers = {y1, y2}
  MaxFaults = 1
  Items <- MCItems
  Syncs = {y1, y2}
  PageSize = 1
  MaxPages = 2
  LastDay = 1
  CsvRows <- MCCsvRows
  MaxRows = 2
  SpotRows <- MCSpotRows
  MaxSpotRows = 2
  Prefixed = {"MISSION1", "MISSION2"}
  Legacy = {"KTO1", "KTO2"}
  Posts = {z}
  MaxSeeds = 2
  Releases <- MCReleases
  Servers = {y1, y2}
  Scale = 10000
  MaxBoots = 3
SYMMETRY MCSymmetry
INVARIANTS
  ServicesTypeOK OncePerDay FailedVisitLeavesNothing CapitalIsDesignated
  AccountsAgree CachedRankingHolds FestivalsAreKept SeedLosesNothing ServesFairWeights
PROPERTIES
  CapitalNotHidden EarnedDefenceStays
CHECK_DEADLOCK FALSE
