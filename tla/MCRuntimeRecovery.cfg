SPECIFICATION FairSpec
CONSTANTS
  Orders = {o1}
  Target = 3
  Wants = {3}
  Gateways = {"live"}
  PartialFills = TRUE
  LostReplies = TRUE
  Reconciles = {TRUE, FALSE}
  Sequential = FALSE
  MaxDay = 1
  MaxSubmitCrashes = 2
  MaxSuperviseCrashes = 2
  MaxFetchFailures = 2
INVARIANTS
  TicketsWithinExecuted
  CreditedWithinExecuted
PROPERTIES
  OwnFillsCredited
  CreditedFillsLogged
  TicketsClose
