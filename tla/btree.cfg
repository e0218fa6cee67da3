\* Odd leafOccupancy and even nodeOccupancy, as in the code (681 and 1022).
CONSTANTS
  Keys <- KeySet
  leafOccupancy = 3
  nodeOccupancy = 2
  MaxPages = 12
  AnyOrder = 8
  MaxGaps = 1
\* Every key may be in, or a split interrupted: no insertion is left then.
CHECK_DEADLOCK FALSE
SPECIFICATION Spec
CONSTRAINT Bound
INVARIANTS
  TypeOK
  ChainSorted
  Searchable
  Balanced
  HalfFull
PROPERTIES
  IndexSpec
