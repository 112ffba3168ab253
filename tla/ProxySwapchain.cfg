SPECIFICATION SwapSpec
CONSTANTS
  Textures <- MCTwoImages
  Plans <- MCOnePlan
  NativeOff = FALSE
  Faults <- MCPresent
  MaxPresents = 2
INVARIANTS
  QueuedIsHeld
  ImageUntouched
PROPERTIES
  ImagesReturn
CHECK_DEADLOCK FALSE
