CONSTANTS
  Keys <- KeySet
  Bounds <- BoundSet
  IntMax = 3
  leafOccupancy = 2
  nodeOccupancy = 3
  MaxPages = 5
\* No step follows once the stream of the index file has failed.
CHECK_DEADLOCK FALSE
SPECIFICATION ScanSpec
PROPERTIES
  NoSuchKeyIfNone
