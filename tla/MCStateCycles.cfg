SPECIFICATION MCSpec
CONSTANTS
  leaps = leaps
  rotation = rotation
  krx = krx
  none = none
  live = live
  seed = seed
  probe = probe
  other = other
  Keys <- MCKeys
  Fields = {"high", "selected"}
  Data <- MCData
  Writers = {live, seed, probe, other}
  Batches <- MCBatches
  Sleeves = {leaps, rotation}
  Symbols = {krx}
  NoSymbol = none
  SleeveOf <- MCSleeveOf
  Runs = {live, probe}
  Seeders = {seed, other}
  ReadOnly = {probe}
  Exclusive = TRUE
  Cadence = "once_per_day"
  ModelPatches <- MCModelPatches
  Prices = {1, 2}
  Days = 2
  MaxProposed = 2
  MaxEvents = 3
  Loops = {1, 2}
  Listed <- MCListed
  FirstConfig = "first"
  Startup = {"kr", "us"}
  Session <- MCSession
  ClosedDays <- MCClosedDays
  RunCadence <- MCRunCadence
  BatchHashes <- MCBatchHashes
  Scripts <- MCScripts
  Surroundings <- MCSurroundings
  MaxBeatAge = 0
  DayLength = 2
  LastMinute = 2
  CyclesInAll = 2
  Nothing = Nothing
  Blank = Blank
  Missing = Missing
  Unreadable = Unreadable
  Callers = {"t1", "t2"}
  Plans <- MCPlans
  Interval = 1
  Margin = 3
  Lifetime = 6
  Patience = 2
  QuoteAge = 2
  Attempts = 2
  LastMoment = 7
  FileUsers = {"writer", "reader"}
  FilePlans <- MCFilePlans
  Universe <- MCUniverse
  Trades <- MCTrades
  LastDate = 3
  Weekend = {0, 3}
  ChunkDays <- MCChunkDays
  Versions = 2
  FileFaults = 1
INVARIANTS
  RecordsReplayed
  Isolated
  SelectedOncePerDay
PROPERTIES
  WatermarkNeverFalls
  MapSpec
  ProcessKeepsRules
CHECK_DEADLOCK FALSE
