SPECIFICATION Spec
CONSTANTS
  a = a
  b = b
  m1 = m1
  m2 = m2
  m3 = m3
  m4 = m4
  m5 = m5
  NoClient = NoClient
  Clients <- MCClients
  Messages <- MCLight
  Unstorable <- MCUnstorable
  From <- MCFrom
  To <- MCTo
  LocalId <- MCLocalId
  Bytes <- MCBytes
  MaxBytes = 8
  Limit = 1
  CountMod = 4
  DbFaults = FALSE
  MaxQueue = 2
  MaxSends = 3
  MaxAsks = 1
  MaxConnects = 3
INVARIANTS
  IInv
  AckedIsKept
  FinalPageIsComplete
PROPERTIES
  NoUnseenDeletion
