SPECIFICATION Spec
CONSTANTS
  NoPtr = NoPtr
  Ptr = {p1, p2}
  MaxSize = 3
INVARIANTS
  TypeOK
  CountMatchesIndices
PROPERTY
  RefinesBoundedFifo
