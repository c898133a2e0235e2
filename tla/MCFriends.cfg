SPECIFICATION Spec
CONSTANTS
  a = a
  b = b
  c = c
  Keys <- MCKeys
  Missing = Missing
  Torn = Torn
  Faults = {"open", "write", "rename", "read"}
  MaxMade = 3
INVARIANTS
  IInv
  SaveIsLoadable
  AnsweredIsDurable
PROPERTIES
  IdentityKept
  ImplementsRegister
CHECK_DEADLOCK FALSE
