SPECIFICATION Spec
CONSTANTS
  Orders = {o1, o2}
  Target = 2
  Wants = {2}
  Gateways = {"live"}
  PartialFills = FALSE
  LostReplies = FALSE
  Reconciles = {TRUE, FALSE}
  Sequential = TRUE
  MaxDay = 0
  MaxSubmitCrashes = 0
  MaxSuperviseCrashes = 0
  MaxFetchFailures = 0
INVARIANTS
  NeverOverTarget
