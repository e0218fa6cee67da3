CONSTANTS
  Empty = Empty
  Full = Full
  Free = Free
  NoCopy = NoCopy
  MaxPages = 4
  Data = {Empty, Full}
\* A call that walks a cyclic list never returns: the program stops there.
CHECK_DEADLOCK FALSE
SPECIFICATION Spec
INVARIANTS
  TypeOK
  FreeListSound
PROPERTIES
  UsedListKept
  StoreSpec
