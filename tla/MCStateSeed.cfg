SPECIFICATION Spec
CONSTANTS
  leaps = leaps
  rotation = rotation
  krx = krx
  none = none
  live = live
  seed = seed
  probe = probe
  other = other
  Keys <- MCKeys
  Fields = {"high", "selected"}
  Data <- MCData
  Writers = {live, seed}
  Batches <- MCBatches
  Sleeves = {leaps}
  Symbols = {krx}
  NoSymbol = none
  SleeveOf <- MCSleeveOf
  Runs = {live}
  Seeders = {seed}
  ReadOnly = {}
  Exclusive = FALSE
  Cadence = "once_per_day"
  ModelPatches <- MCNoPatches
  Prices = {1, 2}
  Days = 2
  MaxProposed = 2
  MaxEvents = 4
PROPERTIES
  SeedNeverLowers
