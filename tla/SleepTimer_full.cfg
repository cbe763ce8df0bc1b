CONSTANTS
  alarm = alarm
  beat = beat
  None = None
  Timers <- AllTimers
  Priority <- Priorities
  Requests <- SomeRequests
  W = 20
  MaxBusy = 1
  MaxStall = 1
SPECIFICATION Spec
INVARIANTS
  TypeOK
  DeltasTellTime
  AlarmIsSet
  NeverLate
PROPERTIES
  NeverEarly
  UrgentFirst
