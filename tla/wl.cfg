CONSTANTS
  f1 = f1
  Paths = {f1}
  Texts <- TextSet
  Missing = Missing
  WordChars <- Letters
  Lower <- ToLower
  Asked <- AskedSet
  Numbers = {1, 2, 3}
  MaxOccurrence = 2
\* The program ends.
CHECK_DEADLOCK FALSE
SPECIFICATION Spec
INVARIANTS
  LocateRight
  FiledOnce
