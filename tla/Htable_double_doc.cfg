CONSTANTS
  W = 6
  Ptr <- Objects
  Rehash <- Keys
  MaxBits = 3
  MaxElems = 4
  MaxLocks = 1
SPECIFICATION Spec
INVARIANT
  NoWildPointer
