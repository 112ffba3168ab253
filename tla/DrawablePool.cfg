SPECIFICATION Spec
CONSTANTS
  t1 = t1
  t2 = t2
  t3 = t3
  Textures <- MCTextures
  Plans <- MCPlans
  NativeOff = FALSE
  Faults <- MCNoFaults
  Ways = {"buffer", "metal4", "direct"}
  Keeps = FALSE
  Limit = 2
  MaxFrames = 3
  MaxResizes = 1
INVARIANTS
  TextureHeld
  OutstandingExact
  PresentsCovered
  FramesInOrder
PROPERTIES
  ContextIdle
SYMMETRY MCSymmetry
CHECK_DEADLOCK FALSE
