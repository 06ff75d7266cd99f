SPECIFICATION Spec
CONSTANTS
  leaps = leaps
  base = base
  unassigned = unassigned
  krx = krx
  krw = krw
  o1 = o1
  num = num
  full = full
  f1 = f1
  f2 = f2
  fe = fe
  Sleeves = {leaps, unassigned}
  Unassigned = unassigned
  NoSleeve = NoSleeve
  CashSleeve = unassigned
  Symbols = {krx}
  Currencies = {krw}
  CurrencyOf <- MCCurrencyOf
  Orders = {o1}
  SleeveOf <- MCSleeveOf
  BrokerIds = {num, full}
  AliasesOf <- MCAliasesOf
  NoBroker = NoBroker
  FillIds = {f1, f2, fe}
  Rows <- MCFillRows
  EventRows <- MCOrderEventRows
  SeedCash <- MCSeedCash
  CurrencySeeded = {leaps}
  Overwrites = {FALSE}
  Openings <- MCOpenings
  Amounts = {2}
  Balances = {3}
  Marks = {1, 3}
  MaxTransfers = 1
INVARIANTS
  FillRecordsAgree
  CashMatchesLedger
  HoldingsMatchFills
  PositionMirrorsHolding
  AllocationsPosted
PROPERTIES
  WatermarkNeverFalls
  LedgersAppendOnly
  PostsLedger
CONSTRAINT TransfersApart
