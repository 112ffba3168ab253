SPECIFICATION Spec
CONSTANTS
  TimelineWait = FALSE
  InOrder = FALSE
  Inserted <- MCInserted
  MaxFrames = 3
  Refusable <- MCAnySubmit
  MayLose = TRUE
INVARIANTS
  NeverStalls
  SignalsAdvance
  ReuseSafe
PROPERTIES
  CallsReturn
  StreamsFrames
