------------------------------ MODULE Exchange ------------------------------
(***************************************************************************)
(* The callbacks of assisant.cc between the bytes of a request and the     *)
(* bytes of the answer: friend_message_offline_cb parses what the client   *)
(* sent tag by tag, calls the table, and serializes an answer.             *)
(* OfflineMessageBot takes requests and answers as they are meant; this    *)
(* module is about what becomes of them on the way.  One thread handles    *)
(* one packet after the other, so there is one task at a time.             *)
(*                                                                         *)
(* A client may send any packet: fields in any order, twice, of another    *)
(* type, of numbers that the bot does not know, or cut off.                *)
(***************************************************************************)
EXTENDS Codec

CONSTANTS
  Keys,       \* public keys in hex
  Friends,    \* the bot's friends
  KeyOf,      \* KeyOf[s]: the key that s, read as hex, begins with, or NoKey
  NoKey,
  Times,      \* what tox_unixtime may return
  Inputs,     \* Inputs[cmd]: the packets that arrive with a command
  NoReply,    \* no answer was sent
  Limit,      \* the default limit of get_list, 10 in the code
  MaxBytes,   \* max_size of message_offline_pull, 1024 in the code
  MaxContent, \* varbinary(2048)
  KeyLength,  \* char(64)
  MaxPacket,  \* what tox_friend_send_message_offline takes, 1372 bytes
  MaxRows     \* bound: rows made in a behaviour

ClassOf ==
  [QUERY_FRIEND_REQUEST |-> "QueryFriendReq",
   SEND_REQUEST |-> "OfflineMessageReq",
   DEL_REQUEST |-> "OfflineMessageDelReq"]

RequestFields == UNION {Fields(ClassOf[cmd]) : cmd \in DOMAIN ClassOf}

ASSUME ExchangeAssumption ==
  /\ Keys \subseteq Strings
  /\ Friends \subseteq Keys
  /\ KeyOf \in [Strings -> Keys \cup {NoKey}]
  /\ NoKey \notin Keys
  /\ Times \subseteq 1 .. Half - 1
  /\ \A cmd \in DOMAIN ClassOf : Inputs[cmd] \subseteq Seq(WireField)
  /\ Limit \in Nat
  /\ MaxBytes \in Nat
  /\ MaxRows \in 1 .. Half - 1

\* The most that a tag and a length, or a tag and a number, take.
Overhead == 11

\* The room that toxcore leaves above max_size: 1372 - 1024 bytes, for a tag and
\* a length of every message and for left_count.
ASSUME PacketAssumption ==
  /\ MaxPacket \in Nat
  /\ MaxBytes + Overhead * (Limit + 1) <= MaxPacket

VARIABLES
  rows,     \* t_offline_message
  autoInc,  \* its AUTO_INCREMENT counter
  task,     \* the packet being handled, or handled last
  page,     \* the locals of message_offline_pull
  reply     \* the answer of the task: a command and a message

table == <<rows, autoInc>>
vars == <<rows, autoInc, task, page, reply>>

\* What add is given, when the table takes it: local_msg_id is unsigned.
Stored ==
  [local_msg_id : 0 .. Half - 1, fr_pk : Keys, to_pk : Strings,
   content : Strings, create_time : Times]

Table == INSTANCE OfflineMessageModel WITH
  Clients <- Keys,
  Messages <- Stored,
  Unstorable <- {},     \* add is given only what is Storable
  From <- [m \in Stored |-> m.fr_pk],
  To <- [m \in Stored |-> m.to_pk],
  LocalId <- [m \in Stored |-> m.local_msg_id],
  CountMod <- Word32,
  DbFaults <- FALSE

Row == [id : 1 .. MaxRows, msg : Stored]

\* The task of a handler that parses nothing.
Unparsed(phase, c) ==
  [phase |-> phase, who |-> c, cmd |-> "NONE", input |-> <<>>, pos |-> 0,
   msg |-> Cleared("QueryFriendReq")]

EmptyPage == [todo |-> {}, total |-> 0, count |-> 0, res |-> NoPage]

\* Mutant of MessageOf: the sender's number for the bot's.
MessageOfLocal(r) ==
  [val |-> [local_msg_id |-> r.msg.local_msg_id, msg_id |-> r.msg.local_msg_id,
            fr_pk |-> r.msg.fr_pk, to_pk |-> r.msg.to_pk,
            content |-> r.msg.content, create_time |-> r.msg.create_time],
   unknown |-> <<>>]

\* The message that is added to the answer, and that bytes_size measures.
MessageOf(r) ==
  [val |-> [local_msg_id |-> r.msg.local_msg_id, msg_id |-> r.id,
            fr_pk |-> r.msg.fr_pk, to_pk |-> r.msg.to_pk,
            content |-> r.msg.content, create_time |-> r.msg.create_time],
   unknown |-> <<>>]

\* What MessageOf makes of rows.
Paged ==
  [val : [local_msg_id : 0 .. Half - 1, msg_id : 1 .. MaxRows, fr_pk : Keys,
          to_pk : Strings, content : Strings, create_time : Times],
   unknown : {<<>>}]

RowsType ==
  /\ rows \in SUBSET Row
  /\ IsFiniteSet(rows)
  /\ autoInc \in 1 .. MaxRows + 1

TaskType ==
  /\ task = [phase |-> task.phase, who |-> task.who, cmd |-> task.cmd,
             input |-> task.input, pos |-> task.pos, msg |-> task.msg]
  /\ task.phase \in {"parsing", "paging", "done"}
  /\ task.who \in Keys \cup {NoKey}
  /\ task.input \in Seq(WireField)
  /\ task.pos \in 0 .. Len(task.input)
  /\ task.phase = "parsing" =>
       /\ task.cmd \in DOMAIN ClassOf
       /\ task.who \in Keys
       /\ IsMessage(ClassOf[task.cmd], task.msg)

PageType ==
  /\ page = [todo |-> page.todo, total |-> page.total, count |-> page.count,
             res |-> page.res]
  /\ page.todo \subseteq rows
  /\ page.count \in 0 .. Word32 - 1
  /\ page.res = [msg |-> page.res.msg, left_count |-> 0]
  /\ page.res.msg \in Seq(Paged)

\* The types; a message under construction is one of its command's class, the
\* rows still to be paged are in the table.
TypeOK == RowsType /\ TaskType /\ PageType

Init ==
  /\ rows = {}
  /\ autoInc = 1
  /\ task = Unparsed("done", NoKey)
  /\ page = EmptyPage
  /\ reply = NoReply

-----------------------------------------------------------------------------
\* Mutant of Dispatch: one message object for all requests, never cleared.
DispatchUncleared(c, cmd, input) ==
  /\ task.phase = "done"
  /\ cmd = "SEND_REQUEST" => autoInc <= MaxRows
  /\ task' = [phase |-> "parsing", who |-> c, cmd |-> cmd, input |-> input,
              pos |-> 0, msg |-> IF task.cmd = cmd THEN task.msg
                                 ELSE Cleared(ClassOf[cmd])]
  /\ reply' = NoReply
  /\ UNCHANGED <<table, page>>

(***************************************************************************)
(* friend_message_offline_cb: the case of the command, up to the parser's  *)
(* loop; ParseFromArray clears the message first.                          *)
(***************************************************************************)
Dispatch(c, cmd, input) ==
  /\ task.phase = "done"
  /\ cmd = "SEND_REQUEST" => autoInc <= MaxRows
  /\ task' = [phase |-> "parsing", who |-> c, cmd |-> cmd, input |-> input,
              pos |-> 0, msg |-> Cleared(ClassOf[cmd])]
  /\ reply' = NoReply
  /\ UNCHANGED <<table, page>>

\* The next tag of the packet.
NextField == task.input[task.pos + 1]

Parsing == task.phase = "parsing" /\ task.pos < Len(task.input)

\* Mutant of ParseField: what was set before is kept.
ParseFieldOnce(f) ==
  /\ Parsing
  /\ NextField.whole
  /\ f \in Fields(ClassOf[task.cmd])
  /\ Matches(ClassOf[task.cmd], f, NextField)
  /\ task' = [task EXCEPT !.pos = @ + 1,
                          !.msg = IF f \in Present(ClassOf[task.cmd], @) THEN @
                            ELSE ReadField(ClassOf[task.cmd], @, f, NextField)]
  /\ UNCHANGED <<table, page, reply>>

\* One round of the parser's loop: a field of the class.
ParseField(f) ==
  /\ Parsing
  /\ NextField.whole
  /\ f \in Fields(ClassOf[task.cmd])
  /\ Matches(ClassOf[task.cmd], f, NextField)
  /\ task' = [task EXCEPT !.pos = @ + 1,
                          !.msg = ReadField(ClassOf[task.cmd], @, f, NextField)]
  /\ UNCHANGED <<table, page, reply>>

\* One round of the parser's loop: any other field.
ParseUnknown ==
  /\ Parsing
  /\ NextField.whole
  /\ ~Known(ClassOf[task.cmd], NextField)
  /\ task' = [task EXCEPT !.pos = @ + 1, !.msg = SkipField(@, NextField)]
  /\ UNCHANGED <<table, page, reply>>

\* Mutant of ParseFails: the result of ParseFromArray is not looked at.
ParseFailsUnnoticed ==
  /\ Parsing
  /\ ~NextField.whole
  /\ task' = [task EXCEPT !.pos = Len(task.input)]
  /\ UNCHANGED <<table, page, reply>>

\* ParseFromArray returns false, and the handler with it.
ParseFails ==
  /\ Parsing
  /\ ~NextField.whole
  /\ task' = [task EXCEPT !.phase = "done"]
  /\ UNCHANGED <<table, page, reply>>

\* The parser has read the whole packet of a command.
Complete(cmd) ==
  /\ task.phase = "parsing"
  /\ task.pos = Len(task.input)
  /\ task.cmd = cmd
  /\ task' = [task EXCEPT !.phase = "done"]

Request == task.msg.val

-----------------------------------------------------------------------------
(***************************************************************************)
(* get_id_by_pk: a string of less than 64 hex digits leaves part of bin as *)
(* it was, uninitialized, and toxcore is asked about whatever that makes.  *)
(***************************************************************************)
MayExist(s) ==
  IF KeyOf[s] = NoKey THEN {0, 1}
  ELSE IF KeyOf[s] \in Friends THEN {1} ELSE {0}

\* Mutant of QueryFriend: about the client itself.
QueryFriendAsker ==
  /\ Complete("QUERY_FRIEND_REQUEST")
  /\ \E exist \in MayExist(task.who) :
        reply' = [cmd |-> "QUERY_FRIEND_RESPONSE", class |-> "QueryFriendRes",
                  msg |-> With(With(Cleared("QueryFriendRes"), "exist", exist),
                               "pk", Request.pk)]
  /\ UNCHANGED <<table, page>>

\* query_friend after the parser.
QueryFriend ==
  /\ Complete("QUERY_FRIEND_REQUEST")
  /\ \E exist \in MayExist(Request.pk) :
        reply' = [cmd |-> "QUERY_FRIEND_RESPONSE", class |-> "QueryFriendRes",
                  msg |-> With(With(Cleared("QueryFriendRes"), "exist", exist),
                               "pk", Request.pk)]
  /\ UNCHANGED <<table, page>>

\* What the columns of t_offline_message take (external: strict SQL mode).
Storable(local, to, content) ==
  /\ local \in 0 .. Half - 1
  /\ LengthOf[to] <= KeyLength
  /\ LengthOf[content] <= MaxContent

\* message_offline_recv: its answer is a request with nothing but the number.
Acknowledgement ==
  [cmd |-> "SEND_RESPONSE", class |-> "OfflineMessageReq",
   msg |-> With(Cleared("OfflineMessageReq"), "local_msg_id",
                Request.local_msg_id)]

\* Mutant of MessageRecv: sender and receiver the wrong way round.
MessageRecvSwapped ==
  /\ Complete("SEND_REQUEST")
  /\ \/ /\ Storable(Request.local_msg_id, Request.to_pk, Request.crypto_message)
        /\ Request.to_pk \in Keys
        /\ \E now \in Times :
           \E outcome \in Table!Add(rows, autoInc,
                [local_msg_id |-> Request.local_msg_id, fr_pk |-> Request.to_pk,
                 to_pk |-> task.who, content |-> Request.crypto_message,
                 create_time |-> now]) :
              rows' = outcome[1] /\ autoInc' = outcome[2]
     \/ /\ ~Storable(Request.local_msg_id, Request.to_pk, Request.crypto_message)
        /\ UNCHANGED table
  /\ reply' = Acknowledgement
  /\ UNCHANGED page

\* message_offline_recv after the parser: an INSERT that fails is not noticed.
MessageRecv ==
  /\ Complete("SEND_REQUEST")
  /\ \/ /\ Storable(Request.local_msg_id, Request.to_pk, Request.crypto_message)
        /\ \E now \in Times :
           \E outcome \in Table!Add(rows, autoInc,
                [local_msg_id |-> Request.local_msg_id, fr_pk |-> task.who,
                 to_pk |-> Request.to_pk, content |-> Request.crypto_message,
                 create_time |-> now]) :
              rows' = outcome[1] /\ autoInc' = outcome[2]
     \/ /\ ~Storable(Request.local_msg_id, Request.to_pk, Request.crypto_message)
        /\ UNCHANGED table
  /\ reply' = Acknowledgement
  /\ UNCHANGED page

\* setInt64 binds a uint64_t as a signed number.
Signed(n) == IF n >= Half THEN n - 2 * Half ELSE n

\* message_offline_del after the parser.
MessageDel ==
  /\ Complete("DEL_REQUEST")
  /\ rows' \in Table!Del(rows, task.who, Signed(Request.last_msg_id))
  /\ UNCHANGED <<autoInc, page, reply>>

-----------------------------------------------------------------------------
(* The handlers that parse nothing. *)

\* message_offline_read_notice, on a connection.
ReadNotice(c) ==
  /\ task.phase = "done"
  /\ task' = Unparsed("done", c)
  /\ \E id \in Table!GetLatestId(rows, c) :
        reply' = IF id = 0 THEN NoReply
                 ELSE [cmd |-> "READ_NOTICE", class |-> "OfflineMessageReadNotice",
                       msg |-> With(Cleared("OfflineMessageReadNotice"),
                                    "latest_msg_id", id)]
  /\ UNCHANGED <<table, page>>

\* message_offline_pull up to its loop; the packet is not looked at.
PullStart(c) ==
  /\ task.phase = "done"
  /\ task' = Unparsed("paging", c)
  /\ reply' = NoReply
  /\ \E list \in Table!GetList(rows, c), count \in Table!GetCount(rows, c) :
        page' = [EmptyPage EXCEPT !.todo = list, !.count = count]
  /\ UNCHANGED table

\* Mutant of PullRow: the size is compared before the row is counted.
PullRowLate ==
  /\ task.phase = "paging"
  /\ \E r \in page.todo :
        /\ \A o \in page.todo : r.id <= o.id
        /\ page' = [page EXCEPT
             !.todo = @ \ {r},
             !.total = @ + ByteSizeLong("OfflineMessage", MessageOf(r)),
             !.res = IF page.total < MaxBytes THEN AddMsg(@, MessageOf(r)) ELSE @]
  /\ UNCHANGED <<table, task, reply>>

\* One iteration of the loop of message_offline_pull.
PullRow ==
  /\ task.phase = "paging"
  /\ \E r \in page.todo :
        /\ \A o \in page.todo : r.id <= o.id
        /\ page' = [page EXCEPT
             !.todo = @ \ {r},
             !.total = @ + ByteSizeLong("OfflineMessage", MessageOf(r)),
             !.res = IF page.total + ByteSizeLong("OfflineMessage", MessageOf(r))
                          < MaxBytes
                       THEN AddMsg(@, MessageOf(r)) ELSE @]
  /\ UNCHANGED <<table, task, reply>>

\* message_offline_pull after its loop.
PullReply ==
  /\ task.phase = "paging"
  /\ page.todo = {}
  /\ task' = [task EXCEPT !.phase = "done"]
  /\ reply' = [cmd |-> "PULL_RESPONSE", class |-> "OfflineMessagePullRes",
               msg |-> [page.res EXCEPT
                 !.left_count = (page.count - Len(page.res.msg)) % Word32]]
  /\ page' = EmptyPage
  /\ UNCHANGED table

Next ==
  \/ \E c \in Friends :
        \/ \E cmd \in DOMAIN ClassOf : \E input \in Inputs[cmd] :
              Dispatch(c, cmd, input)
        \/ ReadNotice(c)
        \/ PullStart(c)
  \/ \E f \in RequestFields : ParseField(f)
  \/ ParseUnknown
  \/ ParseFails
  \/ QueryFriend
  \/ MessageRecv
  \/ MessageDel
  \/ PullRow
  \/ PullReply

Spec == Init /\ [][Next]_vars

-----------------------------------------------------------------------------
(* What the bytes are worth. *)

Packet(r) ==
  IF r.class = "OfflineMessagePullRes" THEN PullResSerialized(r.msg)
  ELSE Serialized(r.class, r.msg)

\* What the handlers malloc before they call SerializeToArray.
Room(r) ==
  IF r.class = "OfflineMessagePullRes" THEN PullResByteSizeLong(r.msg)
  ELSE ByteSizeLong(r.class, r.msg)

(***************************************************************************)
(* At every tag the message under construction is what the tags read so    *)
(* far mean: of the fields of a number and type the last one, unknown and  *)
(* mistyped ones left out, whatever their order.                           *)
(***************************************************************************)
ParsedIsMeant ==
  task.phase = "parsing" =>
    \A f \in Fields(ClassOf[task.cmd]) :
      task.msg.val[f] = ValueIn(ClassOf[task.cmd], f, task.input, task.pos)

(***************************************************************************)
(* A packet that is cut off, in whatever field, has no effect and no       *)
(* answer, though the fields before the cut were already in the message.   *)
(***************************************************************************)
NoHalfRequest ==
  [][~Readable(task'.input) => UNCHANGED table /\ reply' = NoReply]_vars

(***************************************************************************)
(* A row holds what the sender's packet says, under the sender's own key   *)
(* (message_offline_recv, add).                                            *)
(***************************************************************************)
StoredIsSent ==
  [][\A r \in rows' \ rows :
       LET sent(f) == ValueIn("OfflineMessageReq", f, task.input, Len(task.input))
       IN /\ task.cmd = "SEND_REQUEST"
          /\ r.msg.fr_pk = task.who
          /\ r.msg.to_pk = sent("to_pk")
          /\ r.msg.content = sent("crypto_message")
          /\ r.msg.local_msg_id = sent("local_msg_id")]_vars

(***************************************************************************)
(* A deletion only takes rows of its client up to a number that stands in  *)
(* the packet as field 2: another message under the command, or a packet   *)
(* without the field, deletes nothing.                                     *)
(***************************************************************************)
OnlyNamedIsDeleted ==
  [][\A r \in rows \ rows' :
       /\ task.cmd = "DEL_REQUEST"
       /\ r.msg.to_pk = task.who
       /\ \E i \in 1 .. Len(task.input) :
             /\ task.input[i].number = 2
             /\ task.input[i].wire = "varint"
             /\ r.id <= task.input[i].val]_vars

(***************************************************************************)
(* The client reads a SEND_RESPONSE as OfflineMessageRes, the bot writes   *)
(* an OfflineMessageReq: the number is still the one in the request, a     *)
(* negative one too.                                                       *)
(***************************************************************************)
AckNamesRequest ==
  reply # NoReply /\ reply.cmd = "SEND_RESPONSE" =>
    Parsed("OfflineMessageRes", Packet(reply)).val.local_msg_id
      = ValueIn("OfflineMessageReq", "local_msg_id", task.input, Len(task.input))

(***************************************************************************)
(* The page that a client reads from a PULL_RESPONSE is the table's: its   *)
(* oldest rows in order, column by column, and the number of the others in *)
(* 32 bits.                                                                *)
(***************************************************************************)
PageIsFaithful ==
  reply # NoReply /\ reply.cmd = "PULL_RESPONSE" =>
    LET got == PullResParsed(Packet(reply))
        mine == Table!Addressed(rows, task.who)
    IN /\ \A i \in 1 .. Len(got.msg) : \E r \in mine :
            /\ got.msg[i].val =
                 [local_msg_id |-> r.msg.local_msg_id, msg_id |-> r.id,
                  fr_pk |-> r.msg.fr_pk, to_pk |-> r.msg.to_pk,
                  content |-> r.msg.content, create_time |-> r.msg.create_time]
            /\ Cardinality({o \in mine : o.id <= r.id}) = i
       /\ got.left_count = (Cardinality(mine) - Len(got.msg)) % Word32

(***************************************************************************)
(* Every answer fills exactly the buffer that was allocated for it, and a  *)
(* page is one that toxcore takes, although the size that                  *)
(* message_offline_pull compares leaves out the page's own tags and        *)
(* lengths.                                                                *)
(***************************************************************************)
AnswersFit ==
  reply # NoReply =>
    /\ Room(reply) = StreamSize(Packet(reply))
    /\ reply.cmd = "PULL_RESPONSE" => Room(reply) <= MaxPacket

(***************************************************************************)
(* query_friend answers about the key in the request: for one that is hex  *)
(* of the right length, exist is whether it is a friend's.                 *)
(***************************************************************************)
QueryAnswersForKey ==
  reply # NoReply /\ reply.cmd = "QUERY_FRIEND_RESPONSE" =>
    LET got == Parsed("QueryFriendRes", Packet(reply)).val
        pk == ValueIn("QueryFriendReq", "pk", task.input, Len(task.input))
    IN /\ got.pk = pk
       /\ KeyOf[pk] # NoKey => (got.exist = 1 <=> KeyOf[pk] \in Friends)

-----------------------------------------------------------------------------
(* The inductive invariant. *)

\* A task in progress: what has been read was whole, nothing is answered yet.
TaskOK ==
  /\ task.phase = "parsing" =>
       /\ \A i \in 1 .. task.pos : task.input[i].whole
       /\ reply = NoReply
       /\ task.cmd = "SEND_REQUEST" => autoInc <= MaxRows
  /\ task.phase = "paging" => task.input = <<>>
  /\ task.phase # "paging" => page = EmptyPage

\* The message under construction is what was read of the packet.
ParseInv == TypeOK /\ ParsedIsMeant /\ TaskOK

\* The counter is past every id, and no id is used twice.
IdsOK ==
  /\ \A r \in rows : r.id < autoInc
  /\ \A r, o \in rows : r.id = o.id => r = o

\* Where a row stands among the rows of client c.
Rank(r, c) == Cardinality({o \in Table!Addressed(rows, c) : o.id <= r.id})

\* Message i was made of the i-th row that the page's query selects.
OldestFirst(msgs, c) ==
  \A i \in 1 .. Len(msgs) : \E r \in Table!Oldest(rows, c) :
     msgs[i] = MessageOf(r) /\ Rank(r, c) = i

\* What the messages of a page take, with their tags and lengths.
MsgBytes(msgs) == Total([i \in 1 .. Len(msgs) |-> MsgSize(msgs[i])])

(***************************************************************************)
(* The loop of message_offline_pull: the rows that were looked at are the  *)
(* first of the list, those that were added the first of them, all of them *)
(* while the size compared is below the limit.                             *)
(***************************************************************************)
PageOK ==
  task.phase = "paging" =>
    LET list == Table!Oldest(rows, task.who)
        seen == list \ page.todo
        msgs == page.res.msg
    IN /\ page.todo \subseteq list
       /\ page.count = Cardinality(Table!Addressed(rows, task.who)) % Word32
       /\ \A r \in seen, o \in page.todo : r.id < o.id
       /\ OldestFirst(msgs, task.who)
       /\ page.total \in Nat
       /\ page.total < MaxBytes => Len(msgs) = Cardinality(seen)
       /\ MsgBytes(msgs) <= page.total + Overhead * Len(msgs)
       /\ MsgBytes(msgs) <= MaxBytes + Overhead * Len(msgs)

\* What the packet of the last task says.
Asked(T, f) == ValueIn(T, f, task.input, Len(task.input))

(***************************************************************************)
(* An answer is given at the end of a task, and is the one that the packet *)
(* or the table calls for.                                                 *)
(***************************************************************************)
AnswerOK ==
  reply # NoReply =>
    /\ task.phase = "done"
    /\ \/ reply = [cmd |-> "SEND_RESPONSE", class |-> "OfflineMessageReq",
                   msg |-> With(Cleared("OfflineMessageReq"), "local_msg_id",
                                Asked("OfflineMessageReq", "local_msg_id"))]
       \/ \E exist \in MayExist(Asked("QueryFriendReq", "pk")) :
            reply = [cmd |-> "QUERY_FRIEND_RESPONSE", class |-> "QueryFriendRes",
                     msg |-> With(With(Cleared("QueryFriendRes"), "exist", exist),
                                  "pk", Asked("QueryFriendReq", "pk"))]
       \/ \E id \in 1 .. MaxRows :
            reply = [cmd |-> "READ_NOTICE", class |-> "OfflineMessageReadNotice",
                     msg |-> With(Cleared("OfflineMessageReadNotice"),
                                  "latest_msg_id", id)]
       \/ /\ reply.cmd = "PULL_RESPONSE"
          /\ reply = [cmd |-> "PULL_RESPONSE", class |-> "OfflineMessagePullRes",
                      msg |-> [msg |-> reply.msg.msg, left_count |->
                        (Cardinality(Table!Addressed(rows, task.who))
                           - Len(reply.msg.msg)) % Word32]]
          /\ reply.msg.msg \in Seq(Paged)
          /\ OldestFirst(reply.msg.msg, task.who)
          /\ MsgBytes(reply.msg.msg)
               <= MaxBytes + Overhead * Len(reply.msg.msg)

(***************************************************************************)
(* Parsing, the page and the answers: no effect and no answer comes before *)
(* the end of the packet, and none that was not asked for.                 *)
(***************************************************************************)
IInv == ParseInv /\ IdsOK /\ PageOK /\ AnswerOK
=============================================================================
