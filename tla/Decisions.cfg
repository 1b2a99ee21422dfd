SPECIFICATION MCDecisionsSpec
CONSTANTS
  DayTicks = 20
  Absent = Absent
  SlotTicks = 2
  BaselineSessions = 1
  RangeBars = 2
  SwingBars = 1
  StatisticsBars = 1
  QuoteStale = 2
  SpreadWindow = 4
  Lookback = 5
  FeatureEvents <- MCFeatureEvents
  FeaturePast <- MCFeaturePast
  FeatureContexts <- MCFeatureContexts
  FeatureCalendar <- MCFeatureCalendar
  FeatureStart = 65
  FeatureEnd = 67
  Trade <- MCTrade
  WindowTrades = 3
  MinimumTrades = 2
  MinimumMultiplier = 0
  InitialMultiplier = 1
  MaximumMultiplier = 2
  MaxIncrease = 1
  IncreaseInterval = 2
  MaxDrawdown = 2
  None = None
  MaxTime = 6
  MomentumRules <- MCMomentumRules
  TailUnit = 10
  ReturnUnit = 100
  Listed <- MCListed
  Rules <- MCRules
  Scene <- MCScene
  Routing <- MCRouting
  MomentumAt = {25, 45}
  BreakoutRules <- MCBreakoutRules
  BarTicks = 2
  AtrUnit = 10
  BreakoutMaster <- MCBreakoutMaster
  BreakoutUniverse <- MCBreakoutUniverse
  BreakoutCalendar <- MCBreakoutCalendar
  Watched = 1
  Others <- MCOthers
  Price = {97, 103, 110}
  FirstClose = 100
  Features <- MCFeatures
  Swings = {Absent, 101}
  Outcomes <- MCOutcomes
  SessionBars = 4
  VwapRules <- MCVwapRules
  VwapBarTicks = 2
  StretchUnit = 10
  VwapMaster <- MCVwapMaster
  VwapUniverse <- MCVwapUniverse
  VwapCalendar <- MCVwapCalendar
  VwapPrefix <- MCVwapPrefix
  VwapClose = {92, 94, 106, 108}
  Delay = {0, 3}
  VwapRouting <- MCVwapRouting
  Liquidity <- MCLiquidity
  Modes = {"PAPER"}
  VwapBars = 7
  PairRules <- MCPairRules
  PairBarTicks = 2
  BetaUnit = 10
  ZUnit = 10
  PairListing <- MCPairListing
  Pair <- MCPair
  PairCalendar <- MCPairCalendar
  PairClose = {7, 8, 10, 12}
  Fits <- MCFits
  PairRouting <- MCPairRouting
  Narrow = {TRUE, FALSE}
  FirstSlot = 28
  LastSlot = 62
  PairReceipts = {0, 3, Absent}
  RvRules <- MCRvRules
  RvBarTicks = 2
  RvTailUnit = 10
  BetaOne = 10
  Nifty = 0
  RvListing <- MCRvListing
  RvCalendar <- MCRvCalendar
  RvInstants = {30, 47, 48, 49, 50, 52}
  PairTokens = {{1, 2}, {3, 7}}
  RvScene <- MCRvScene
  RvRouting <- MCRvRouting
  MaxPairs = 2
  Registry <- MCRegistry
  ScoreUnit = 4
  One = 100
  Quantum = 10
  Caps <- MCCaps
  Master <- MCMaster
  Universe <- MCUniverse
  DeskCalendar <- MCCalendar
  Instant = {23, 24, 25, 43}
  Request <- MCRequest
  Outlook <- MCOutlook
  Supply <- MCSupply
  MaxBatch = 3
INVARIANTS
  DecisionTypeOK SnapshotsReplay HistoriesAreSound MultiplierIsEarned RankingIsFair
  SignalsAreNew StatusesFollowTheBars ReplayDecidesTheSame ExitsFollowTheTape
  RoundTripsClose OpenPairsAreWatched OverlapIsRecent BasketsAreCoherent
  SelectionIsFair PlanIsSound ClippingSuffices
PROPERTY ApprovalKeepsCaps
CHECK_DEADLOCK FALSE
