CONSTANTS
  MaxCallbacks = 2
  MaxMessages = 1
  Endpoints <- LightOnly
  Commands <- FormOnly
  OtherStatus = FALSE
  Preempt = TRUE
SPECIFICATION Spec
INVARIANTS
  LightCountsToggles
