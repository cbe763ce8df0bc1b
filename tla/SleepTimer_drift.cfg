CONSTANTS
  alarm = alarm
  beat = beat
  None = None
  Timers <- OnlyBeat
  Priority <- BeatPriority
  Requests <- ShortRequests
  W = 20
  MaxBusy = 1
  MaxStall = 1
SPECIFICATION Spec
INVARIANTS
  NeverLate
