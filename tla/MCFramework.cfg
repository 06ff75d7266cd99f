SPECIFICATION MCSpec
CONSTANTS
  a = a
  b = b
  u = u
  trend = trend
  guard = guard
  inverse = inverse
  None = None
  Never = Never
  MinutesPerDay = 2
  DaysPerMonth = 30
  Symbols = {a, b, u}
  Policies <- MCPolicies
  Alphas <- MCAlphas
  CadenceOf <- MCCadenceOf
  SignalsOf <- MCSignalsOf
  Conditions <- MCConditions
  Full = 4
  Steps = {1}
  MaxTime = 6
  MaxCrashes = 1
  Currencies = {"KRW", "USD"}
  CurrencyOf <- MCCurrencyOf
  InitialCash <- MCInitialCash
  OptimizerFraction = 1
  Setups <- MCSetups
  PriceLists <- MCPriceLists
  Batches <- MCBatches
  SlicesPerDay = 2
  MaxSlices = 4
  WarmUp = 1
  CostUnit = 4
  NoValue = NoValue
  Stocks = {a, b, inverse}
  Safety = {inverse}
  HedgeSetups <- MCHedgeSetups
  ExecutionFor <- MCExecutionFor
  ScenesFor <- MCScenesFor
  LeapsBatches <- MCLeapsBatches
  StartingBooks <- MCStartingBooks
  SessionLength = 4
  StartAt <- MCStartAt
  MaxMoments = 4
  MaxLeapsBatches = 1
CHECK_DEADLOCK FALSE
INVARIANTS
  RemainderSpentOnce
  BooksBalance
  CyclesSound
  BlendArrives
  NoLookAhead
PROPERTIES
  RiskLimitsHold
  MemoryKept
  ExitGoesThrough
  LeapsGuardsHold
