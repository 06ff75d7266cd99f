SPECIFICATION SyncSpec
CONSTANTS
  leaps = leaps
  base = base
  unassigned = unassigned
  krx = krx
  krw = krw
  o1 = o1
  num = num
  full = full
  manual = manual
  f1 = f1
  f2 = f2
  Sleeves = {leaps, base, unassigned}
  Unassigned = unassigned
  NoSleeve = NoSleeve
  CashSleeve = base
  Symbols = {krx}
  Currencies = {krw}
  CurrencyOf <- MCCurrencyOf
  Orders = {o1}
  SleeveOf <- MCSleeveOf
  BrokerIds = {num, full, manual}
  AliasesOf <- MCAliasesOf
  NoBroker = NoBroker
  FillIds = {f1, f2}
  Rows <- MCRows
  EventRows <- MCNoRows
  SeedCash <- MCSeedCash
  CurrencySeeded = {}
  Overwrites = {}
  Openings = {}
  Amounts = {}
  Balances = {}
  Marks = {}
  MaxTransfers = 0
  Importers = {loop, operator}
  Loop = loop
  Assigns = {base}
  ReportSleeve = leaps
  NumberOf <- MCNumberOf
  LateBinding = FALSE
INVARIANTS
  CreditedOnce
