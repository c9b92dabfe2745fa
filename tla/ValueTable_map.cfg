SPECIFICATION Spec
CONSTANTS
  Key <- MCKey
  Value = {v1, v2}
  h <- MCHash
  HashRange = 16
  Missing = Missing
  InitialSize = 4
  MaxMod = 7
INVARIANTS TypeOK ChainsExact
PROPERTIES ImplementsOrderedMap
CHECK_DEADLOCK FALSE
