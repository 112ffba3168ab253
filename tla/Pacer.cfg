SPECIFICATION PacerSpec
CONSTANTS
  Cap = 4
  Paces <- SomePaces
  MaxChanges = 2
INVARIANTS
  SlotsFit
  ProbeShort
PROPERTIES
  NotHeldBack
  DisplayFed
