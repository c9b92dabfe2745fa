SPECIFICATION Spec
CONSTANTS
  NULL = NULL
  HashRange = 16
  MinCapacity = 4
  Key <- MCKeys
  Value <- MCValues
  Hash <- MCHash
INVARIANTS TypeOK Findable
PROPERTIES ImplementsMap
CONSTRAINT OneChanges
