CONSTANTS
  c1 = c1
  c2 = c2
  f1 = f1
  f2 = f2
  name1 = name1
  name2 = name2
  Empty = Empty
  Full = Full
  Free = Free
  NoFile = NoFile
  NumBufs = 2
  Clients = {c1, c2}
  Files = {f1, f2}
  Names = {name1, name2}
  Name <- OneEach
  Pages = {1}
  Data = {Empty, Full}
SPECIFICATION Spec
INVARIANTS
  TypeOK
  CachedIsOnDisk
  CleanMatchesDisk
  FrameHashed
  PinsMatch
PROPERTIES
  SecondChance
  StoreSpec
