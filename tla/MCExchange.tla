----------------------------- MODULE MCExchange -----------------------------
(***************************************************************************)
(* A small instance of Exchange for TLC: friends a and b, another key c.   *)
(* Each request is serialized from a sample message; a tag may come before *)
(* its fields and another one after them.                                  *)
(***************************************************************************)
EXTENDS Exchange

CONSTANTS none, a, b, c, short, long

MCKeys == {a, b, c}

MCFriends == {a, b}

MCStrings == {none, a, b, c, short, long}

MCLengthOf == [s \in MCStrings |->
  CASE s = none -> 0 [] s = short -> 30 [] s = long -> 700 [] OTHER -> 64]

MCKeyOf == [s \in MCStrings |-> IF s \in MCKeys THEN s ELSE NoKey]

\* A field nobody knows, a number before its time, one of another type.
Before ==
  {<<>>, <<VarintField(1, 5), VarintField(9, 1)>>,
   <<BytesField(1, b, 64), VarintField(2, 1)>>}

Cut(field) == [field EXCEPT !.whole = FALSE]

After == {<<>>, <<BytesField(2, none, 0)>>, <<Cut(BytesField(3, long, 700))>>}

Sends ==
  {[val |-> [local_msg_id |-> s[1], to_pk |-> b, crypto_message |-> s[2]],
    unknown |-> <<>>] : s \in {<<-1, short>>, <<1, long>>, <<2, short>>, <<3, long>>}}

Dels ==
  {[val |-> [last_msg_id |-> last], unknown |-> <<>>] :
     last \in {1, 2, 2 * Half - 1}}

Queries ==
  {[val |-> [pk |-> pk], unknown |-> <<>>] : pk \in {none, a, c, short}}

Around(packets) == {x \o p \o y : x \in Before, p \in packets, y \in After}

SendPackets == {Serialized("OfflineMessageReq", m) : m \in Sends}

MCInputs ==
  [QUERY_FRIEND_REQUEST |->
     Around({Serialized("QueryFriendReq", m) : m \in Queries}),
   SEND_REQUEST |-> Around(SendPackets),
   DEL_REQUEST |->
     Around({Serialized("OfflineMessageDelReq", m) : m \in Dels}) \cup SendPackets]
=============================================================================
