CONSTANTS
  MaxCallbacks = 3
  MaxMessages = 2
  Endpoints <- LightAndOther
  Commands <- AllCommands
  OtherStatus = TRUE
  Preempt = TRUE
SPECIFICATION Spec
INVARIANTS
  TypeOK
  NoInventedToggle
PROPERTIES
  ToggleSynchronises
