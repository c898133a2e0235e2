SPECIFICATION Spec
CONSTANTS
  none = none
  a = a
  b = b
  c = c
  short = short
  long = long
  NoKey = NoKey
  NoReply = NoReply
  Strings <- MCStrings
  Empty = none
  LengthOf <- MCLengthOf
  Half = 1048576
  Word32 = 16384
  Keys <- MCKeys
  Friends <- MCFriends
  KeyOf <- MCKeyOf
  Times = {1}
  Inputs <- MCInputs
  Limit = 10
  MaxBytes = 1024
  MaxContent = 2048
  KeyLength = 64
  MaxPacket = 1372
  MaxRows = 2
INVARIANTS
  ParsedIsMeant
  AckNamesRequest
  PageIsFaithful
  AnswersFit
  QueryAnswersForKey
  IInv
PROPERTIES
  NoHalfRequest
  StoredIsSent
  OnlyNamedIsDeleted
