SPECIFICATION MCSpec
CONSTANTS
  a = a
  b = b
  Listing <- MCListing
  Initial <- MCInitial
  Price <- MCPrice
  Cash = 1
  Targets <- MCTargets
  SliceSize = 1
  MaxBatches = 2
  Gateways = {"paper", "live"}
  Crashing = {"paper", "live"}
  Expiring = {"live"}
  MaxCrashes = 1
  MaxEnded = 1
  NoSnapshot = NoSnapshot
  s1 = s1
  s2 = s2
  y1 = y1
  y2 = y2
  y3 = y3
  Instruments = {y1, y2, y3}
  Sleeves = {s1, s2}
  SymbolOrder <- MCSymbolOrder
  SleeveOrder <- MCSleeveOrder
  Indicators <- MCIndicators
  Trait <- MCTrait
  Coarse <- MCCoarse
  Models <- MCModels
  FineOn <- MCFineOn
  MinReadyRatio = 60
  FirstDay <- MCFirstDay
  Feeds <- MCFeeds
  Outages <- MCOutages
  MinSuccess = 1
  UniverseCadence = "once_per_day"
  KeepBars = 3
  NeededBars = 2
  Lookback = 2
  Fills <- MCFills
  StartDay = 4
  LastDay = 5
  MaxSnapshots = 2
  MaxReloads = 1
  MaxMoves = 1
  n1 = n1
  n2 = n2
  Absent = Absent
  Names = {n1, n2}
  NameOrder <- MCNameOrder
  AlphaWeight <- MCAlphaWeight
  RegimeWeight <- MCRegimeWeight
  Bandings <- MCBandings
  NewsLists <- MCNewsLists
  PriceTables <- MCPriceTables
  CyclesPerDay = 2
  MaxCycles = 4
  Days <- MCDays
  Minutes <- MCMinutes
  Strikes <- MCStrikes
  Quotes <- MCQuotes
  Capital = 20000
  CyclesADay = 2
  LastCycle = 5
  Never = Never
  Configurations <- MCConfigurations
  Environments <- MCEnvironments
  LogBeside <- MCLogBeside
  Transfers <- MCTransfers
  Residual = "base"
  BrokerBalances = {1, 4}
  CommandsInAll = 3
  Unnamed = Unnamed
INVARIANTS
  OrdersCovered
  LinePlacedOnce
  FeedSound
PROPERTIES
  TowardsTargetInSync
  SleevesKeepRules
  CommandsKeepRules
CHECK_DEADLOCK FALSE
