CONSTANTS
  Replicas = {p1, p2}
  Gone = Gone
  Ids = {i1, i2}
  Requests = {q1, q2, q3}
  PoolSize = 2
  Nodes = {1, 2, 3, 4}
  Unknown = {5}
  Edges = {1, 2, 3, 4}
  Inf = Inf
  NoCoupon = NoCoupon
  Plans <- MCPlans
  Usages <- MCUsages
  Coupons <- MCCoupons
  Prorations <- MCProrations
  TaxRates = {0, 825}
  TierLists <- MCTierLists
  Revenues = {0, 10, 30, 60, 100}
  Hashes = {0, 1, 5}
  Candidates <- MCCandidates
  PartnerTiers <- MCPartnerTiers
  Referrals <- MCReferrals
  Places = {"WORLDWIDE", "EEA", "EU", "NORDICS", "G7", "LATAM", "NO", "XX"}
  Excluded = {"NO", "DE"}
  Asked = {"NO", "DE", "US", "BR", "RU", "XX"}
  Counters <- MCCounters
  Scale = 2
  Recorded = {"error_rate", "new"}
  NewIds = {"new"}
  NewLimits <- MCLimits
  KpiValues = {5, 10, 30, 60}
  NoValue = NoValue
  Series <- MCSeries
  Sensitivities = {2, 3, 4}
  Horizon = 2
  Characters <- MCCharacters
  Lower <- MCLower
  Upper <- MCUpper
  Blanks = {" "}
  Codes <- MCCodes
  Bar = "|"
  Untitled <- MCUntitled
  UnknownArtist <- MCUnknown
  Strings <- MCStrings
  Entries <- MCEntries
  Wanted <- MCWanted
  Records <- MCRecords
  MaxBatch = 3
  None = None
SPECIFICATION DataSpec
CHECK_DEADLOCK FALSE
SYMMETRY StoreSymmetry
INVARIANTS SettledRowsAgree GraphAnswersCorrect AmountsExact RightsAndTracksKept VerdictsStable
PROPERTIES RestartKeepsRows FiguresFaithful
