CONSTANTS
  MaxCallbacks = 6
  MaxMessages = 0
  Endpoints <- LightOnly
  Commands <- FormAndLeave
  OtherStatus = FALSE
  Preempt = FALSE
SPECIFICATION FairSpec
PROPERTIES
  NetworkUpIsOperated
