SPECIFICATION Spec
CONSTANTS
  Templates <- Library
  Runs <- MCRuns
  DisplaySize = 2
  MaxChecks = 2
INVARIANTS TypeOK SubtypeExact DispatchExact FieldLayout
CHECK_DEADLOCK FALSE
