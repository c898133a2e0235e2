SPECIFICATION Spec
CONSTANTS
  a = a
  b = b
  small = small
  large = large
  empty = empty
  Friends <- MCFriends
  Images <- MCImages
  Size <- MCSize
  Absent = Absent
  Files = {1, 2}
INVARIANTS
  TypeOK
  SentIsOffered
  ChunksInRange
