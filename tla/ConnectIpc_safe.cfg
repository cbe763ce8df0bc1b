CONSTANTS
  AF = AF
  cli = cli
  x = x
  y = y
  p = p
  q = q
  r = r
  None = None
  Tasks <- Callers
  Arguments <- OneArgument
  Callbacks <- TwoArguments
  Slots = 2
  Heap <- ThreePlaces
SPECIFICATION Spec
INVARIANTS
  TypeOK
  ServesTheCaller
  AnswersTheCall
  HandlesAccounted
  PutSucceeds
PROPERTIES
  ImplementsService
