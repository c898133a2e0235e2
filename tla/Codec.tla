------------------------------- MODULE Codec -------------------------------
(***************************************************************************)
(* What the classes generated from message.proto do with the bytes of a    *)
(* packet (message.pb.h, message.pb.cc).  No variables: a message is a     *)
(* value, a packet is a sequence of fields.                                *)
(*                                                                         *)
(* Every class is generated by the same rules, so its fields and their     *)
(* numbers are stated class by class, and its methods once, for all        *)
(* classes.  A field of a packet is one tag with its payload; a field that *)
(* cannot be read (cut off, or of a wire type that does not exist) is not  *)
(* whole.  Byte strings are only told apart and measured.                  *)
(***************************************************************************)
EXTENDS Integers, Sequences, FiniteSets, FiniteSetsExt

CONSTANTS
  Strings,   \* the byte strings that may stand in a field
  Empty,     \* the one of length 0
  LengthOf,  \* LengthOf[s]: its length
  Half,      \* 2^63
  Word32     \* 2^32

ASSUME CodecAssumption ==
  /\ Empty \in Strings
  /\ LengthOf \in [Strings -> Nat]
  /\ Half \in Nat \ {0}
  /\ Word32 \in Nat \ {0, 1}

-----------------------------------------------------------------------------
(* The classes: the type of each field. *)

QueryFriendReq == [pk |-> "bytes"]

QueryFriendRes == [exist |-> "uint32", pk |-> "bytes"]

OfflineMessageReq ==
  [local_msg_id |-> "int64", to_pk |-> "bytes", crypto_message |-> "bytes"]

OfflineMessageRes == [local_msg_id |-> "int64"]

OfflineMessageReadNotice == [latest_msg_id |-> "uint64"]

OfflineMessage ==
  [local_msg_id |-> "int64", msg_id |-> "uint64", fr_pk |-> "bytes",
   to_pk |-> "bytes", content |-> "bytes", create_time |-> "uint64"]

OfflineMessageDelReq == [last_msg_id |-> "uint64"]

\* The values a field of each type has.
ValuesOf ==
  [int64 |-> -Half .. Half - 1, uint64 |-> 0 .. 2 * Half - 1,
   uint32 |-> 0 .. Word32 - 1, bytes |-> Strings]

(* The classes: the number that MergePartialFromCodedStream looks for. *)

QueryFriendReqNumbers == [pk |-> 1]

QueryFriendResNumbers == [exist |-> 1, pk |-> 2]

OfflineMessageReqNumbers ==
  [local_msg_id |-> 1, to_pk |-> 2, crypto_message |-> 3]

\* Mutant of OfflineMessageResNumbers: not the number of OfflineMessageReq.
OfflineMessageResRenumbered == [local_msg_id |-> 2]

OfflineMessageResNumbers == [local_msg_id |-> 1]

OfflineMessageReadNoticeNumbers == [latest_msg_id |-> 1]

OfflineMessageNumbers ==
  [local_msg_id |-> 1, msg_id |-> 2, fr_pk |-> 3, to_pk |-> 4, content |-> 5,
   create_time |-> 6]

\* Mutant of OfflineMessageDelReqNumbers: the first number.
OfflineMessageDelReqRenumbered == [last_msg_id |-> 1]

OfflineMessageDelReqNumbers == [last_msg_id |-> 2]

Class ==
  [QueryFriendReq |-> QueryFriendReq,
   QueryFriendRes |-> QueryFriendRes,
   OfflineMessageReq |-> OfflineMessageReq,
   OfflineMessageRes |-> OfflineMessageRes,
   OfflineMessageReadNotice |-> OfflineMessageReadNotice,
   OfflineMessage |-> OfflineMessage,
   OfflineMessageDelReq |-> OfflineMessageDelReq]

Numbers ==
  [QueryFriendReq |-> QueryFriendReqNumbers,
   QueryFriendRes |-> QueryFriendResNumbers,
   OfflineMessageReq |-> OfflineMessageReqNumbers,
   OfflineMessageRes |-> OfflineMessageResNumbers,
   OfflineMessageReadNotice |-> OfflineMessageReadNoticeNumbers,
   OfflineMessage |-> OfflineMessageNumbers,
   OfflineMessageDelReq |-> OfflineMessageDelReqNumbers]

Classes == DOMAIN Class

Fields(T) == DOMAIN Class[T]

-----------------------------------------------------------------------------
(* Fields of packets. *)

WireType(type) == IF type = "bytes" THEN "length_delimited" ELSE "varint"

Default(type) == IF type = "bytes" THEN Empty ELSE 0

\* ReadPrimitive, ReadBytes: a varint has 64 bits, two's complement.
ReadValue(type, v) ==
  CASE type = "int64" -> IF v >= Half THEN v - 2 * Half ELSE v
    [] type = "uint32" -> v % Word32
    [] OTHER -> v

\* WriteInt64 and its like: the varint of a negative number.
WriteValue(type, x) == IF type = "int64" /\ x < 0 THEN x + 2 * Half ELSE x

\* The bytes of a varint: seven bits in each, ten at most.
VarintSize(n) ==
  IF n < 128 THEN 1
  ELSE CHOOSE k \in 2 .. 10 :
         /\ k = 2 \/ ~(n < 128 ^ (k - 1))
         /\ k = 10 \/ n < 128 ^ k

\* A field with its payload; size is the payload's length.
VarintField(number, v) ==
  [number |-> number, wire |-> "varint", val |-> v, size |-> VarintSize(v),
   whole |-> TRUE]

BytesField(number, s, length) ==
  [number |-> number, wire |-> "length_delimited", val |-> s,
   size |-> VarintSize(length) + length, whole |-> TRUE]

\* The fields that a flat message is made of.
WireField ==
  [number : Nat, wire : {"varint"}, val : 0 .. 2 * Half - 1, size : Nat,
   whole : BOOLEAN]
    \cup [number : Nat, wire : {"length_delimited"}, val : Strings, size : Nat,
          whole : BOOLEAN]

\* A tag that is not whole, or one that stops SkipField.
Readable(stream) == \A i \in 1 .. Len(stream) : stream[i].whole

\* The sum of a sequence of numbers.
Total(s) ==
  LET upTo[n \in 0 .. Len(s)] == IF n = 0 THEN 0 ELSE upTo[n - 1] + s[n]
  IN upTo[Len(s)]

\* The bytes of a packet, tags included.
StreamSize(stream) ==
  Total([i \in 1 .. Len(stream) |->
           VarintSize(8 * stream[i].number) + stream[i].size])

-----------------------------------------------------------------------------
(* Messages: the values of the fields, and the fields nobody knows. *)

\* The constructor, Clear: every field has its default.
Cleared(T) ==
  [val |-> [f \in Fields(T) |-> Default(Class[T][f])], unknown |-> <<>>]

\* A message of class T.
IsMessage(T, m) ==
  /\ m = [val |-> m.val, unknown |-> m.unknown]
  /\ m.val = [f \in Fields(T) |-> m.val[f]]
  /\ \A f \in Fields(T) : m.val[f] \in ValuesOf[Class[T][f]]
  /\ m.unknown \in Seq(WireField)

\* set_f
With(m, f, v) == [m EXCEPT !.val = [@ EXCEPT ![f] = v]]

\* Whether a field of a packet is field f of the class.
Matches(T, f, field) ==
  /\ field.number = Numbers[T][f]
  /\ field.wire = WireType(Class[T][f])

Known(T, field) == \E f \in Fields(T) : Matches(T, f, field)

\* MergePartialFromCodedStream, one tag: a field of the class.
ReadField(T, m, f, field) ==
  With(m, f, ReadValue(Class[T][f], field.val))

\* MergePartialFromCodedStream, one tag: handle_unusual.
SkipField(m, field) == [m EXCEPT !.unknown = Append(@, field)]

(***************************************************************************)
(* What a parsed packet means: of several fields with a number the last.   *)
(***************************************************************************)
Hits(T, f, stream, n) == {i \in 1 .. n : Matches(T, f, stream[i])}

ValueIn(T, f, stream, n) ==
  LET hits == Hits(T, f, stream, n) IN
  IF hits = {} THEN Default(Class[T][f])
  ELSE ReadValue(Class[T][f], stream[Max(hits)].val)

Unknown(T, stream) == SelectSeq(stream, LAMBDA field : ~Known(T, field))

Parsed(T, stream) ==
  [val |-> [f \in Fields(T) |-> ValueIn(T, f, stream, Len(stream))],
   unknown |-> Unknown(T, stream)]

Present(T, m) == {f \in Fields(T) : m.val[f] # Default(Class[T][f])}

FieldOf(T, m, f) ==
  IF Class[T][f] = "bytes"
    THEN BytesField(Numbers[T][f], m.val[f], LengthOf[m.val[f]])
    ELSE VarintField(Numbers[T][f], WriteValue(Class[T][f], m.val[f]))

\* The field of number n, if the class has one and it is not the default.
Numbered(T, m, n) == {f \in Present(T, m) : Numbers[T][f] = n}

\* SerializeWithCachedSizes, one of its ifs.
Written(T, m, n) ==
  IF Numbered(T, m, n) = {} THEN <<>>
  ELSE <<FieldOf(T, m, CHOOSE f \in Numbered(T, m, n) : TRUE)>>

\* SerializeWithCachedSizes: the ifs in the order of the numbers (no class has
\* one above 6), and what nobody knows.
Serialized(T, m) ==
  Written(T, m, 1) \o Written(T, m, 2) \o Written(T, m, 3) \o Written(T, m, 4)
    \o Written(T, m, 5) \o Written(T, m, 6) \o m.unknown

\* ByteSizeLong, one of its ifs.
WrittenSize(T, m, n) ==
  IF Numbered(T, m, n) = {} THEN 0
  ELSE 1 + FieldOf(T, m, CHOOSE f \in Numbered(T, m, n) : TRUE).size

\* ByteSizeLong: how many bytes Serialized will take.
ByteSizeLong(T, m) ==
  WrittenSize(T, m, 1) + WrittenSize(T, m, 2) + WrittenSize(T, m, 3)
    + WrittenSize(T, m, 4) + WrittenSize(T, m, 5) + WrittenSize(T, m, 6)
    + StreamSize(m.unknown)

-----------------------------------------------------------------------------
(* OfflineMessagePullRes, the one class with a field of messages. *)

NoPage == [msg |-> <<>>, left_count |-> 0]

PullResNumbers == [msg |-> 1, left_count |-> 2]

\* add_msg
AddMsg(res, m) == [res EXCEPT !.msg = Append(@, m)]

\* One msg field of the page.
MsgField(m) ==
  LET packet == Serialized("OfflineMessage", m)
  IN BytesField(PullResNumbers.msg, packet, StreamSize(packet))

PullResSerialized(res) ==
  [i \in 1 .. Len(res.msg) |-> MsgField(res.msg[i])]
  \o IF res.left_count = 0 THEN <<>>
     ELSE <<VarintField(PullResNumbers.left_count, res.left_count)>>

\* MessageSizeNoVirtual, with the tag.
MsgSize(m) ==
  LET n == ByteSizeLong("OfflineMessage", m) IN 1 + VarintSize(n) + n

PullResByteSizeLong(res) ==
  Total([i \in 1 .. Len(res.msg) |-> MsgSize(res.msg[i])])
  + IF res.left_count = 0 THEN 0 ELSE 1 + VarintSize(res.left_count)

IsMsg(field) ==
  field.number = PullResNumbers.msg /\ field.wire = "length_delimited"

IsLeftCount(field) ==
  field.number = PullResNumbers.left_count /\ field.wire = "varint"

\* Of the messages all, in their order; of several left_counts the last.
PullResParsed(stream) ==
  LET msgs == {i \in 1 .. Len(stream) : IsMsg(stream[i])}
      lefts == {i \in 1 .. Len(stream) : IsLeftCount(stream[i])}
      nth(n) == CHOOSE i \in msgs : Cardinality({j \in msgs : j <= i}) = n
  IN [msg |-> [n \in 1 .. Cardinality(msgs) |->
                 Parsed("OfflineMessage", stream[nth(n)].val)],
      left_count |-> IF lefts = {} THEN 0
                     ELSE ReadValue("uint32", stream[Max(lefts)].val)]
=============================================================================
