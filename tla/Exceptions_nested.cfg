SPECIFICATION Spec
CONSTANTS
  Try <- MCTry
  Exc <- MCExc
  RuntimeExc = "error"
  Catches <- MCCatches
  WithFinally <- MCWithFinally
  MaxHandlers = 3
  Avoid = {}
  MaxNest = 2
  MaxFrames = 2
INVARIANTS FinallyAtMostOnce
CHECK_DEADLOCK FALSE
