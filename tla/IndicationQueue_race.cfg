CONSTANTS
  Length = 10
  Subscribes <- TriggerAndAddress
  Writes <- LightOnly
  Reads <- None
  Unsubscribes = TRUE
  Disconnects = TRUE
  Preempt = TRUE
SPECIFICATION Spec
INVARIANTS
  SendsAfterConfirmation
  ConfirmedIsFirst
  WritesToSlot
  QueueNeverFull
CHECK_DEADLOCK FALSE
