CONSTANTS
  None = None
  Null = Null
  Fields <- SomeFields
  Inputs <- SomeInputs
\* The program ends.
CHECK_DEADLOCK FALSE
SPECIFICATION Spec
INVARIANTS
  UsersMerged
  KeysHold
  NullKeysKnown
