CONSTANTS
  GenIds = {"j1", "j2"}
  ExpUsers = {"u1", "u2"}
  ExpWeights <- MCExpWeights
  NoVariant = NoVariant
  MaxEvents = 1
  CampaignIds = {"c1"}
  Segments = {"s1", "s2"}
  Definitions <- MCDefinitions
  Subjects = {"u1", "u2"}
  Point <- MCPoint
  Denominator = 10
  NoCampaign = NoCampaign
  MaxStats = 2
  Spans = {"a", "b", "c"}
  Exporters = 2
  Throwing = {2}
  NoSpan = NoSpan
  MetricNames = {"n1"}
  Instances = {"m1", "m2"}
  Series = {"l1"}
  OtherLabels = {"bad"}
  Bounds <- MCBounds
  Values = {1, 2, 4}
  NoMetric = NoMetric
  MaxSamples = 3
  Clients = {"k1"}
  Window = 3
  MaxRpm = 2
  Pass = Pass
  CustomTypes <- MCCustomTypes
  Contexts = {"root", "left", "right"}
  Root = "root"
  Variables = {"x"}
  ContextNodes = {"n"}
  Contents = {"p", "q"}
  Absent = Absent
  DataSubjects = {"d1"}
  Purposes = {"p1", "p2"}
  Expiries = {0, 2}
  NoExpiry = NoExpiry
  NoGrant = NoGrant
  Rules <- MCRules
  AccessRequests = {"a", "b", "c", "d"}
  DefaultEffect = "deny"
  NoRule = NoRule
  Txs = {"t1", "t2"}
  MaxQueries = 2
  Dimensions = 2
  Metric = "cosine"
  Batches <- MCBatches
  VectorIds = {"x", "y", "z", "w"}
  Tags = {"t", "u"}
  Queries <- MCQueries
  AccessTtl = 2
  RefreshTtl = 3
  Matched = Matched
  Word = Word
  PromptIds = {"p1", "genre_classification"}
  Texts <- MCTexts
  PromptValues <- MCPromptValues
  NoPrompt = NoPrompt
  BuilderNodes = {"n1", "n2"}
  Settings = {"s1"}
  DefaultSetting = "s0"
  Chains <- MCChains
  MaxNodes = 3
  MaxEdges = 2
  MaxBuilt = 2
SPECIFICATION ServicesSpec
CHECK_DEADLOCK FALSE
INVARIANTS CampaignsCount TracesFaithful HistogramsFaithful AccessLimited DecisionsExplained SearchesSound 
PROPERTIES EverythingSettles FinishedStays ExperimentsCount ScopesKept ConsentKept
