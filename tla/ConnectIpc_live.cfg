CONSTANTS
  AF = AF
  cli = cli
  x = x
  y = y
  p = p
  q = q
  r = r
  None = None
  Tasks <- Callers
  Arguments <- OneArgument
  Callbacks <- OneArgument
  Slots = 2
  Heap <- TwoPlaces
SPECIFICATION FairSpec
PROPERTIES
  CallReturns
  CallbackArrives
