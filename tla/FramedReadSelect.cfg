SPECIFICATION Spec
CONSTANTS
  Sides <- MCSides
  Sizes = {1, 2}
  MaxFrames = 2
INVARIANT
  PacketsIntact
CHECK_DEADLOCK FALSE
