SPECIFICATION Spec
CONSTANTS
  Try <- MCTry
  Exc <- MCExc
  RuntimeExc = "error"
  Catches <- MCCatches
  WithFinally <- MCWithFinally
  MaxHandlers = 2
  Avoid = {"outerHandler"}
  MaxNest = 3
  MaxFrames = 4
INVARIANTS TypeOK FinallyAtMostOnce HandlersMirror
PROPERTIES FinallyNotSkipped CatchExact
CONSTRAINTS ShallowCalls
CHECK_DEADLOCK FALSE
