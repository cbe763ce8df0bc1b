CONSTANTS
  Length = 8
  Subscribes <- All
  Writes <- All
  Reads <- LightOnly
  Unsubscribes = FALSE
  Disconnects = FALSE
  Preempt = FALSE
SPECIFICATION FairSpec
INVARIANTS
  TypeOK
  QueueWellFormed
  FlagIsHonest
PROPERTIES
  QueuedIsSent
  ImplementsOutbox
