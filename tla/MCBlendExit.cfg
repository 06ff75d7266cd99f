SPECIFICATION MCSpec
CONSTANTS
  a = a
  b = b
  u = u
  trend = trend
  guard = guard
  inverse = inverse
  None = None
  Never = Never
  MinutesPerDay = 2
  DaysPerMonth = 30
  Symbols = {a, b, u}
  Policies <- MCBlendPolicies
  Alphas <- MCAlphas
  CadenceOf <- MCCadenceOf
  SignalsOf <- MCSignalsOf
  Conditions <- MCConditions
  Full = 4
  Steps = {1}
  MaxTime = 4
  MaxCrashes = 0
  Currencies = {"KRW", "USD"}
  CurrencyOf <- MCCurrencyOf
  InitialCash <- MCInitialCash
  OptimizerFraction = 1
  Setups <- MCSetups
  PriceLists <- MCPriceLists
  Batches <- MCBatches
  SlicesPerDay = 2
  MaxSlices = 1
  WarmUp = 1
  CostUnit = 4
  NoValue = NoValue
  Stocks = {a, b, inverse}
  Safety = {inverse}
  HedgeSetups <- MCHedgeSetups
  ExecutionFor <- MCExecutionFor
  ScenesFor <- MCScenesFor
  LeapsBatches <- MCLeapsBatches
  StartingBooks <- MCStartingBooks
  SessionLength = 4
  StartAt <- MCStartAt
  MaxMoments = 0
  MaxLeapsBatches = 1
CHECK_DEADLOCK FALSE
INVARIANTS
  ExitNotSlowed
