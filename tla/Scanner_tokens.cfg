SPECIFICATION Spec
CONSTANTS
  Sources <- MCSources
  MaxInterpDepth = 3
  OpenAtStart = {0}
INVARIANTS MaximalMunch Tiling FStringNesting
CHECK_DEADLOCK FALSE
