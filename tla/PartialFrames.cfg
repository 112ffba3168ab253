SPECIFICATION EitherSpec
CONSTANTS
  TimelineWait = TRUE
  InOrder = TRUE
  Totals <- MCTotals
  MaxFrames = 3
  Protocols <- MCBoth
  Plans <- MCPlans
  MaxContexts = 2
INVARIANTS
  RecordedIdle
  SignalledIntact
PROPERTIES
  CallsReturn
