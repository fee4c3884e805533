CONSTANTS
  W = 6
  Ptr <- Bytes
  Rehash <- Clashing
  MaxBits = 3
  MaxElems = 4
  MaxLocks = 1
SPECIFICATION Spec
INVARIANTS
  TypeOK HtableCheck RoomToProbe IInv
PROPERTIES
  ImplementsBag IterationSafe
