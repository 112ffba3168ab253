CONSTANTS
  k1 = k1
  Keys = {k1}
  None = None
  Views <- SomeViews
  Reuses = TRUE
  MaxFlips = 3
SPECIFICATION Spec
INVARIANTS
  SurfacesInTurn
  NamesOwn
  EngineFits
  PinTakenBack
  BackDefined
