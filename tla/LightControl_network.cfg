CONSTANTS
  MaxCallbacks = 6
  MaxMessages = 3
  Endpoints <- LightOnly
  Commands <- AllCommands
  OtherStatus = TRUE
  Preempt = FALSE
SPECIFICATION FairSpec
INVARIANTS
  AppKnowsNetwork
  OperatesOnNetwork
PROPERTIES
  OperatesUnlessLeft
