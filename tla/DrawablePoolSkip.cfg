SPECIFICATION Spec
CONSTANTS
  t1 = t1
  t2 = t2
  t3 = t3
  Textures <- MCTextures
  Plans <- MCOnePlan
  NativeOff = FALSE
  Faults <- MCSkip
  Ways = {"buffer"}
  Keeps = FALSE
  Limit = 2
  MaxFrames = 2
  MaxResizes = 0
INVARIANTS
  TextureHeld
CHECK_DEADLOCK FALSE
