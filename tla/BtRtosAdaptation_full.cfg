CONSTANTS
  app = app
  c = c
  e = e
  f = f
  None = None
  Tasks <- OneTask
  Starters <- OneTask
  Stoppers <- OneTask
  Commands <- OneCommand
  Events <- TwoEvents
  MaxPending = 1
  Failures = TRUE
SPECIFICATION FairSpec
CHECK_DEADLOCK FALSE
INVARIANTS
  TypeOK
  LockExcludes
  AnswersTheCall
  EventIntact
  StartFindsNothing
PROPERTIES
  ImplementsService
  CommandReturns
  EventArrives
  StopEnds
