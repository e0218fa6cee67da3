CONSTANTS
  DATA_SIZE = 8
  Contents = {"x", "y"}
  LooksUsed = {"x"}
  Lengths = {1, 3}
\* SlotInUseException ends the program.
CHECK_DEADLOCK FALSE
SPECIFICATION Spec
INVARIANTS
  SpaceAccounted
  InUseOnlyAfterMove
  IteratorMissesNone
PROPERTIES
  StoreSpec
