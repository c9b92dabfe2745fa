SPECIFICATION Spec
CONSTANTS
  a = a
  b = b
  c = c
  p = p
  None = None
  MainObj <- ThreeObjects
  PermObj <- OnePermanent
  StorablePerm <- NoObject
  MinCapacity = 1
  FirstGC = 2
  MaxBytes = 5
INVARIANTS TypeOK NoDangling CleanBetween PreciseInv
PROPERTIES ImplementsManagedHeap CollectionShrinks
SYMMETRY Symmetry
