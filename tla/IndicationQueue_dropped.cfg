CONSTANTS
  Length = 8
  Subscribes <- LightAndTrigger
  Writes <- LightOnly
  Reads <- None
  Unsubscribes = FALSE
  Disconnects = TRUE
  Preempt = FALSE
SPECIFICATION FairSpec
PROPERTIES
  QueuedIsSent
CHECK_DEADLOCK FALSE
