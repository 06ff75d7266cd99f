SPECIFICATION Spec
CONSTANTS
  Orders = {o1, o2, o3}
  Target = 2
  Wants = {1, 2}
  Gateways = {"live", "paper"}
  PartialFills = FALSE
  LostReplies = FALSE
  Reconciles = {TRUE}
  Sequential = TRUE
  MaxDay = 0
  MaxSubmitCrashes = 1
  MaxSuperviseCrashes = 0
  MaxFetchFailures = 0
INVARIANTS
  NeverOverTarget
  PlacedOnce
