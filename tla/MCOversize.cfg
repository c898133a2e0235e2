SPECIFICATION LiveSpec
CONSTANTS
  a = a
  b = b
  m1 = m1
  m2 = m2
  m3 = m3
  m4 = m4
  m5 = m5
  NoClient = NoClient
  Clients <- MCClients
  Messages <- MCMessages
  Unstorable <- MCUnstorable
  From <- MCFrom
  To <- MCTo
  LocalId <- MCLocalId
  Bytes <- MCBytesOversize
  MaxBytes = 8
  Limit = 2
  CountMod = 4
  DbFaults = FALSE
  MaxQueue = 4
  MaxSends = 2
  MaxAsks = 0
  MaxConnects = 2
PROPERTIES
  AnnouncedIsReceived
