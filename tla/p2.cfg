CONSTANTS
  anyF = anyF
  anyG = anyG
  test1 = test1
  test2 = test2
  test3 = test3
  test4 = test4
  test5 = test5
  algo_test = algo_test
  page_test = page_test
  page_test2 = page_test2
  NoName = NoName
  Empty = Empty
  Free = Free
  Names <- AllNames
  Hash <- SomeHash
  AnyFiles = {anyF, anyG}
  AnyBufs = 2
  AnyPages = 1
  MaxPages = 9
  MaxPins = 2
  MaxHandles = 2
  Num = 6
  Held = 1
\* The tests end.
CHECK_DEADLOCK FALSE
SPECIFICATION Spec
INVARIANTS
  TableMatches
  OpenCounted
PROPERTIES
  AllocEnds
  TestsPass
