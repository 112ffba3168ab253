SPECIFICATION Spec
CONSTANTS
  RealDrawables = 3
  MaxShown = 10
  MaxResets = 1
INVARIANTS
  NeverStillRead
