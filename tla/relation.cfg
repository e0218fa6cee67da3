CONSTANTS
  AnyPages <- SomePages
  AnyBufs = 3
  NumBufs = 5
  relationSize = 4
  LargeSize = 6
  PageCap = 2
  LeafCap = 2
\* The tests end.
CHECK_DEADLOCK FALSE
SPECIFICATION Spec
INVARIANTS
  EachInTurn
  NoDangling
PROPERTIES
  TestsPass
