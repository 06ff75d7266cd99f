SPECIFICATION Spec
CONSTANTS
  a = a
  b = b
  Listing <- MCListing
  Initial <- MCInitial
  Price <- MCPrice
  Cash = 1
  Targets <- MCTargets
  SliceSize = 1
  MaxBatches = 2
  Gateways = {"live"}
  Crashing = {"live"}
  Expiring = {}
  MaxCrashes = 1
  MaxEnded = 1
PROPERTIES
  TowardsTarget
CHECK_DEADLOCK FALSE
