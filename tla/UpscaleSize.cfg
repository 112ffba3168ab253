SPECIFICATION SizeSpec
CONSTANTS
  Sizes = {1, 2, 3}
  MaxChanges = 2
INVARIANTS
  KeepShownSize
CHECK_DEADLOCK FALSE
