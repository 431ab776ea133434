SPECIFICATION Spec
CONSTANTS
  Sides <- MCSides
  Sizes = {1, 2}
  MaxFrames = 2
INVARIANTS
  IntactUnlessDropped
CHECK_DEADLOCK FALSE
