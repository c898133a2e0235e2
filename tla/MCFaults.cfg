SPECIFICATION Spec
CONSTANTS
  a = a
  b = b
  m1 = m1
  m2 = m2
  m3 = m3
  m4 = m4
  m5 = m5
  NoClient = NoClient
  Clients <- MCClients
  Messages <- MCMessages
  Unstorable <- MCUnstorable
  From <- MCFrom
  To <- MCTo
  LocalId <- MCLocalId
  Bytes <- MCBytes
  MaxBytes = 8
  Limit = 3
  CountMod = 4
  DbFaults = TRUE
  MaxQueue = 2
  MaxSends = 3
  MaxAsks = 0
  MaxConnects = 2
INVARIANTS
  TypeOK
  DeletableIsReceived
  FinalPageIsComplete
PROPERTIES
  NoUnseenDeletion
  ImplementsMailbox
