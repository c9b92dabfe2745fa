SPECIFICATION Spec
CONSTANTS
  NULL = NULL
  HashRange = 16
  MinCapacity = 4
  Addr <- MCAddr
  Text <- MCText
  HashOf <- ClusteredHash
INVARIANTS TypeOK HeldIntact Interned
CONSTRAINT NoStaleEntry
