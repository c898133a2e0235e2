--------------------------- MODULE ExchangeProofs ---------------------------
(***************************************************************************)
(* Theorems about Exchange: the parser's loop reads what the packet means, *)
(* the handlers act on whole packets only, and the client reads from the   *)
(* bot's answers what the bot put into them, in packets that toxcore       *)
(* takes; for any byte strings, any packets and any number of tags.        *)
(***************************************************************************)
EXTENDS Exchange, CodecProofs

\* A request is of one of the classes.
LEMMA RequestClass ==
  ASSUME NEW cmd \in DOMAIN ClassOf
  PROVE  ClassOf[cmd] \in Classes
BY DEF ClassOf, Classes, Class

\* No two fields of a request have the same number.
LEMMA OneField ==
  ASSUME NEW cmd \in DOMAIN ClassOf, NEW f \in Fields(ClassOf[cmd]),
         NEW g \in Fields(ClassOf[cmd]),
         Numbers[ClassOf[cmd]][f] = Numbers[ClassOf[cmd]][g]
  PROVE  f = g
BY DEF ClassOf, Class, Fields, Numbers, QueryFriendReq, OfflineMessageReq,
   OfflineMessageDelReq, QueryFriendReqNumbers, OfflineMessageReqNumbers,
   OfflineMessageDelReqNumbers

-----------------------------------------------------------------------------
(* What the table does. *)

\* INSERT adds the row it was given, under the next id, or nothing.
LEMMA AddFacts ==
  ASSUME NEW m \in Stored, NEW outcome \in Table!Add(rows, autoInc, m)
  PROVE  /\ \/ outcome[1] = rows
            \/ outcome[1] = rows \cup {[id |-> autoInc, msg |-> m]}
         /\ outcome[2] = autoInc + 1
BY DEF Table!Add, Table!Collides

\* DELETE takes the rows of the client up to the number.
LEMMA DelFacts ==
  ASSUME NEW pk, NEW last, NEW left \in Table!Del(rows, pk, last), TypeOK
  PROVE  /\ left \subseteq rows
         /\ \A r \in rows \ left : r.id <= last /\ r.msg.to_pk = pk
<1>1. left = {r \in rows : ~(r.id <= last /\ [m \in Stored |-> m.to_pk][r.msg] = pk)}
  BY DEF Table!Del
<1>2. \A r \in rows : r.msg \in Stored
  BY DEF TypeOK, RowsType, Row
<1>3. \A r \in rows : [m \in Stored |-> m.to_pk][r.msg] = r.msg.to_pk
  BY <1>2
<1> QED
  BY <1>1, <1>3

\* The table counts as Cardinality does.
LEMMA TableCardinality == \A S : Table!Cardinality(S) = Cardinality(S)
BY DEF Table!Cardinality, Cardinality

\* The rows of a page are rows, and a count is a 32 bit number.
LEMMA ListFacts ==
  ASSUME NEW pk, TypeOK
  PROVE  /\ \A list \in Table!GetList(rows, pk) : list \subseteq rows
         /\ \A n \in Table!GetCount(rows, pk) : n \in 0 .. Word32 - 1
<1>1. \A list \in Table!GetList(rows, pk) : list \subseteq rows
  BY DEF Table!GetList, Table!Oldest, Table!Addressed
<1>2. Cardinality(Table!Addressed(rows, pk)) \in Nat
  <2>1. Table!Addressed(rows, pk) \subseteq rows
    BY DEF Table!Addressed
  <2> QED
    BY <2>1, FS_Subset, FS_CardinalityType DEF TypeOK, RowsType
<1>3. Cardinality(Table!Addressed(rows, pk)) % Word32 \in 0 .. Word32 - 1
  BY <1>2, CodecAssumption
<1> QED
  BY <1>1, <1>3, TableCardinality DEF Table!GetCount

-----------------------------------------------------------------------------
(* The invariant. *)

\* The page before a pull and after it.
LEMMA EmptyPageType ==
  /\ page = EmptyPage => PageType
  /\ page' = EmptyPage => PageType'
<1>1. EmptyPage = [todo |-> {}, total |-> 0, count |-> 0,
                   res |-> [msg |-> <<>>, left_count |-> 0]]
  BY DEF EmptyPage, NoPage
<1>2. <<>> \in Seq(Paged)
  OBVIOUS
<1>3. 0 \in 0 .. Word32 - 1
  BY CodecAssumption
<1>4. ASSUME page = EmptyPage PROVE PageType
  <2>1. /\ page.todo = {} /\ page.total = 0 /\ page.count = 0
        /\ page.res = [msg |-> <<>>, left_count |-> 0]
    BY <1>1, <1>4
  <2>2. page = [todo |-> page.todo, total |-> page.total,
                count |-> page.count, res |-> page.res]
    BY <1>1, <1>4
  <2> QED
    BY <1>2, <1>3, <2>1, <2>2 DEF PageType
<1>5. ASSUME page' = EmptyPage PROVE PageType'
  <2>1. /\ page'.todo = {} /\ page'.total = 0 /\ page'.count = 0
        /\ page'.res = [msg |-> <<>>, left_count |-> 0]
    BY <1>1, <1>5
  <2>2. page' = [todo |-> page'.todo, total |-> page'.total,
                 count |-> page'.count, res |-> page'.res]
    BY <1>1, <1>5
  <2> QED
    BY <1>2, <1>3, <2>1, <2>2 DEF PageType
<1> QED
  BY <1>4, <1>5

\* Before the first packet.
LEMMA ParseInitially == Init => ParseInv
<1> SUFFICES ASSUME Init PROVE ParseInv
  OBVIOUS
<1>1. RowsType
  BY ExchangeAssumption, FS_EmptySet DEF Init, RowsType
<1>2. TaskType
  BY DEF Init, TaskType, Unparsed
<1>3. PageType
  BY EmptyPageType DEF Init
<1>4. ParsedIsMeant /\ TaskOK
  BY DEF Init, ParsedIsMeant, TaskOK, Unparsed
<1> QED
  BY <1>1, <1>2, <1>3, <1>4 DEF ParseInv, TypeOK

\* A new packet: the message is cleared, no tag has been read.
LEMMA DispatchStep ==
  ASSUME ParseInv, NEW c \in Friends, NEW cmd \in DOMAIN ClassOf,
         NEW input \in Inputs[cmd], Dispatch(c, cmd, input)
  PROVE  ParseInv'
<1> USE DEF ParseInv, TypeOK, Dispatch
<1>1. RowsType' /\ PageType'
  BY DEF RowsType, PageType, table
<1>2. /\ input \in Seq(WireField) /\ c \in Keys
      /\ IsMessage(ClassOf[cmd], Cleared(ClassOf[cmd]))
  BY ExchangeAssumption, RequestClass, ClearedIsMessage
<1>3. TaskType'
  BY <1>2 DEF TaskType
<1>4. ParsedIsMeant'
  <2>1. \A f : Hits(ClassOf[cmd], f, input, 0) = {}
    BY DEF Hits
  <2>2. \A f \in Fields(ClassOf[cmd]) :
          Cleared(ClassOf[cmd]).val[f] = ValueIn(ClassOf[cmd], f, input, 0)
    BY <2>1 DEF ValueIn, Cleared
  <2> QED
    BY <2>2 DEF ParsedIsMeant
<1>5. TaskOK'
  BY DEF TaskOK, table
<1> QED
  BY <1>1, <1>3, <1>4, <1>5

\* A field of the class: the meaning of that field changes, no other's does.
LEMMA ParseFieldStep ==
  ASSUME ParseInv, NEW f \in RequestFields, ParseField(f)
  PROVE  ParseInv'
<1> USE DEF ParseInv, TypeOK
<1> DEFINE T == ClassOf[task.cmd]
           v == ReadValue(Class[T][f], NextField.val)
<1>1. /\ task.phase = "parsing" /\ task.pos < Len(task.input)
      /\ NextField.whole /\ f \in Fields(T) /\ Matches(T, f, NextField)
      /\ task' = [task EXCEPT !.pos = @ + 1, !.msg = With(@, f, v)]
      /\ rows' = rows /\ autoInc' = autoInc /\ page' = page /\ reply' = reply
  BY DEF ParseField, Parsing, ReadField, table
<1>2. /\ task.cmd \in DOMAIN ClassOf /\ T \in Classes
      /\ task.pos \in Nat /\ task.pos + 1 \in 1 .. Len(task.input)
      /\ NextField \in WireField /\ IsMessage(T, task.msg)
  BY <1>1, RequestClass DEF TaskType, NextField
<1>3. v \in ValuesOf[Class[T][f]]
  BY <1>1, <1>2, FieldTypes, ReadType DEF Matches
<1>4. /\ IsMessage(T, With(task.msg, f, v))
      /\ With(task.msg, f, v).val = [task.msg.val EXCEPT ![f] = v]
  BY <1>1, <1>2, <1>3, WithIsMessage
<1>5. /\ task'.phase = task.phase /\ task'.who = task.who
      /\ task'.cmd = task.cmd /\ task'.input = task.input
      /\ task'.pos = task.pos + 1 /\ task'.msg = With(task.msg, f, v)
      /\ task' = [phase |-> task'.phase, who |-> task'.who, cmd |-> task'.cmd,
                  input |-> task'.input, pos |-> task'.pos, msg |-> task'.msg]
  BY <1>1 DEF TaskType
<1>6. RowsType' /\ PageType'
  BY <1>1 DEF RowsType, PageType
<1>7. TaskType'
  BY <1>2, <1>4, <1>5 DEF TaskType
<1>8. ParsedIsMeant'
  <2> SUFFICES ASSUME NEW g \in Fields(T)
               PROVE  task'.msg.val[g] = ValueIn(T, g, task.input, task.pos + 1)
    BY <1>5 DEF ParsedIsMeant
  <2>1. task.msg.val = [h \in Fields(T) |-> task.msg.val[h]]
    BY <1>2 DEF IsMessage
  <2>2. CASE g = f
    <3>1. task'.msg.val[g] = v
      BY <1>4, <1>5, <2>1, <2>2
    <3>2. ValueIn(T, f, task.input, task.pos + 1) = v
      BY <1>1, <1>2, HitMeaning DEF NextField
    <3> QED
      BY <2>2, <3>1, <3>2
  <2>3. CASE g # f
    <3>1. task'.msg.val[g] = task.msg.val[g]
      BY <1>4, <1>5, <2>1, <2>3
    <3>2. ~Matches(T, g, task.input[task.pos + 1])
      BY <1>1, <1>2, <2>3, OneField DEF Matches, NextField
    <3>3. task.msg.val[g] = ValueIn(T, g, task.input, task.pos)
      BY <1>1 DEF ParsedIsMeant
    <3> QED
      BY <1>2, <3>1, <3>2, <3>3, MissMeaning
  <2> QED
    BY <2>2, <2>3
<1>9. TaskOK'
  BY <1>1, <1>2, <1>5 DEF TaskOK, NextField
<1> QED
  BY <1>6, <1>7, <1>8, <1>9

\* Any other field: no meaning changes.
LEMMA ParseUnknownStep ==
  ASSUME ParseInv, ParseUnknown
  PROVE  ParseInv'
<1> USE DEF ParseInv, TypeOK
<1> DEFINE T == ClassOf[task.cmd]
<1>1. /\ task.phase = "parsing" /\ task.pos < Len(task.input)
      /\ NextField.whole /\ ~Known(T, NextField)
      /\ task' = [task EXCEPT !.pos = @ + 1, !.msg = SkipField(@, NextField)]
      /\ rows' = rows /\ autoInc' = autoInc /\ page' = page /\ reply' = reply
  BY DEF ParseUnknown, Parsing, table
<1>2. /\ task.cmd \in DOMAIN ClassOf
      /\ task.pos \in Nat /\ task.pos + 1 \in 1 .. Len(task.input)
      /\ NextField \in WireField /\ IsMessage(T, task.msg)
  BY <1>1 DEF TaskType, NextField
<1>3. /\ IsMessage(T, SkipField(task.msg, NextField))
      /\ SkipField(task.msg, NextField).val = task.msg.val
  BY <1>2, SkipIsMessage
<1>4. /\ task'.phase = task.phase /\ task'.who = task.who
      /\ task'.cmd = task.cmd /\ task'.input = task.input
      /\ task'.pos = task.pos + 1 /\ task'.msg = SkipField(task.msg, NextField)
      /\ task' = [phase |-> task'.phase, who |-> task'.who, cmd |-> task'.cmd,
                  input |-> task'.input, pos |-> task'.pos, msg |-> task'.msg]
  BY <1>1 DEF TaskType
<1>5. RowsType' /\ PageType'
  BY <1>1 DEF RowsType, PageType
<1>6. TaskType'
  BY <1>2, <1>3, <1>4 DEF TaskType
<1>7. ParsedIsMeant'
  <2> SUFFICES ASSUME NEW g \in Fields(T)
               PROVE  task.msg.val[g] = ValueIn(T, g, task.input, task.pos + 1)
    BY <1>3, <1>4 DEF ParsedIsMeant
  <2>1. ~Matches(T, g, task.input[task.pos + 1])
    BY <1>1 DEF Known, NextField
  <2>2. task.msg.val[g] = ValueIn(T, g, task.input, task.pos)
    BY <1>1 DEF ParsedIsMeant
  <2> QED
    BY <1>2, <2>1, <2>2, MissMeaning
<1>8. TaskOK'
  BY <1>1, <1>2, <1>4 DEF TaskOK, NextField
<1> QED
  BY <1>5, <1>6, <1>7, <1>8

\* A task that ends leaves nothing to be shown of it.
LEMMA TaskEnds ==
  ASSUME ParseInv, task' = [task EXCEPT !.phase = "done"]
  PROVE  /\ TaskType' /\ ParsedIsMeant'
         /\ task'.phase = "done" /\ task'.input = task.input
<1>1. /\ task'.phase = "done" /\ task'.who = task.who
      /\ task'.cmd = task.cmd /\ task'.input = task.input
      /\ task'.pos = task.pos /\ task'.msg = task.msg
      /\ task' = [phase |-> task'.phase, who |-> task'.who, cmd |-> task'.cmd,
                  input |-> task'.input, pos |-> task'.pos, msg |-> task'.msg]
  BY DEF ParseInv, TypeOK, TaskType
<1> QED
  BY <1>1 DEF ParseInv, TypeOK, TaskType, ParsedIsMeant

\* A packet that cannot be read: the task ends without an answer.
LEMMA ParseFailsStep ==
  ASSUME ParseInv, ParseFails
  PROVE  ParseInv'
<1>1. /\ task' = [task EXCEPT !.phase = "done"] /\ task.phase = "parsing"
      /\ rows' = rows /\ autoInc' = autoInc /\ page' = page /\ reply' = reply
  BY DEF ParseFails, Parsing, table
<1>2. RowsType' /\ PageType'
  BY <1>1 DEF ParseInv, TypeOK, RowsType, PageType
<1>3. TaskOK'
  BY <1>1, TaskEnds DEF ParseInv, TaskOK
<1> QED
  BY <1>1, <1>2, <1>3, TaskEnds DEF ParseInv, TypeOK

\* The end of a packet: the task ends, and the page is empty as before.
LEMMA CompleteStep ==
  ASSUME ParseInv, NEW cmd, Complete(cmd), page' = page, RowsType'
  PROVE  ParseInv'
<1>1. /\ task' = [task EXCEPT !.phase = "done"] /\ task.phase = "parsing"
  BY DEF Complete
<1>2. page = EmptyPage
  BY <1>1 DEF ParseInv, TaskOK
<1>3. PageType'
  <2>1. page' = EmptyPage
    BY <1>2
  <2> QED
    BY <2>1, EmptyPageType
<1>4. TaskOK'
  BY <1>1, <1>2, TaskEnds DEF TaskOK
<1> QED
  BY <1>1, <1>3, <1>4, TaskEnds DEF ParseInv, TypeOK

\* query_friend leaves the table alone.
LEMMA QueryFriendStep ==
  ASSUME ParseInv, QueryFriend
  PROVE  ParseInv'
<1>1. RowsType'
  BY DEF QueryFriend, table, ParseInv, TypeOK, RowsType
<1> QED
  BY <1>1, CompleteStep DEF QueryFriend

\* What message_offline_recv gives to add is a row the table may take.
LEMMA SentIsStored ==
  ASSUME ParseInv, Complete("SEND_REQUEST"), NEW now \in Times,
         Storable(Request.local_msg_id, Request.to_pk, Request.crypto_message)
  PROVE  [local_msg_id |-> Request.local_msg_id, fr_pk |-> task.who,
          to_pk |-> Request.to_pk, content |-> Request.crypto_message,
          create_time |-> now] \in Stored
<1>1. /\ task.phase = "parsing" /\ ClassOf[task.cmd] = "OfflineMessageReq"
      /\ task.who \in Keys /\ IsMessage("OfflineMessageReq", task.msg)
  BY DEF ParseInv, TypeOK, TaskType, Complete, ClassOf
<1>2. /\ Fields("OfflineMessageReq") = {"local_msg_id", "to_pk", "crypto_message"}
      /\ ValuesOf[Class["OfflineMessageReq"]["to_pk"]] = Strings
      /\ ValuesOf[Class["OfflineMessageReq"]["crypto_message"]] = Strings
  BY DEF Fields, Class, OfflineMessageReq, ValuesOf
<1>3. Request.to_pk \in Strings /\ Request.crypto_message \in Strings
  BY <1>1, <1>2 DEF IsMessage, Request
<1> QED
  BY <1>1, <1>3 DEF Stored, Storable

\* message_offline_recv leaves the table alone or calls add.
LEMMA RecvOutcome ==
  ASSUME ParseInv, MessageRecv
  PROVE  \/ UNCHANGED table
         \/ \E m \in Stored : \E outcome \in Table!Add(rows, autoInc, m) :
              rows' = outcome[1] /\ autoInc' = outcome[2]
BY SentIsStored DEF MessageRecv

\* message_offline_recv adds at most one row, under an id not yet taken.
LEMMA MessageRecvStep ==
  ASSUME ParseInv, MessageRecv
  PROVE  ParseInv'
<1>1. autoInc \in 1 .. MaxRows
  BY ExchangeAssumption
  DEF MessageRecv, Complete, ParseInv, TypeOK, RowsType, TaskOK
<1>2. RowsType'
  <2>1. CASE UNCHANGED table
    BY <2>1 DEF table, ParseInv, TypeOK, RowsType
  <2>2. ASSUME NEW m \in Stored, NEW outcome \in Table!Add(rows, autoInc, m),
               rows' = outcome[1], autoInc' = outcome[2]
        PROVE  RowsType'
    <3>1. autoInc' = autoInc + 1
      BY <2>2, AddFacts
    <3>2. rows' = rows \/ rows' = rows \cup {[id |-> autoInc, msg |-> m]}
      BY <2>2, AddFacts
    <3>3. [id |-> autoInc, msg |-> m] \in Row
      BY <1>1, <2>2 DEF Row
    <3>4. rows \in SUBSET Row /\ IsFiniteSet(rows)
      BY DEF ParseInv, TypeOK, RowsType
    <3>5. IsFiniteSet(rows')
      <4>1. IsFiniteSet(rows \cup {[id |-> autoInc, msg |-> m]})
        BY <3>4, FS_AddElement
      <4> QED
        BY <3>2, <3>4, <4>1
    <3>6. rows' \in SUBSET Row
      BY <3>2, <3>3, <3>4
    <3> QED
      BY <1>1, <3>1, <3>5, <3>6, ExchangeAssumption DEF RowsType
  <2> QED
    BY <2>1, <2>2, RecvOutcome
<1> QED
  BY <1>2, CompleteStep DEF MessageRecv

\* message_offline_del takes rows away.
LEMMA MessageDelStep ==
  ASSUME ParseInv, MessageDel
  PROVE  ParseInv'
<1>1. rows' \subseteq rows
  BY DelFacts DEF MessageDel, ParseInv
<1>2. RowsType'
  BY <1>1, FS_Subset DEF MessageDel, ParseInv, TypeOK, RowsType
<1> QED
  BY <1>2, CompleteStep DEF MessageDel

\* message_offline_read_notice and message_offline_pull parse nothing.
LEMMA NoInput ==
  ASSUME ParseInv, NEW c \in Friends, NEW phase \in {"paging", "done"},
         task' = Unparsed(phase, c)
  PROVE  TaskType' /\ ParsedIsMeant' /\ task'.phase = phase /\ task'.input = <<>>
<1>1. /\ task'.phase = phase /\ task'.who = c
      /\ task'.input = <<>> /\ task'.pos = 0
      /\ task' = [phase |-> task'.phase, who |-> task'.who, cmd |-> task'.cmd,
                  input |-> task'.input, pos |-> task'.pos, msg |-> task'.msg]
  BY DEF Unparsed
<1>2. c \in Keys
  BY ExchangeAssumption
<1> QED
  BY <1>1, <1>2 DEF TaskType, ParsedIsMeant

\* message_offline_read_notice leaves the table alone.
LEMMA ReadNoticeStep ==
  ASSUME ParseInv, NEW c \in Friends, ReadNotice(c)
  PROVE  ParseInv'
<1>1. task' = Unparsed("done", c)
  BY DEF ReadNotice
<1>2. page = EmptyPage
  BY DEF ReadNotice, ParseInv, TaskOK
<1>3. RowsType' /\ PageType'
  BY DEF ReadNotice, ParseInv, TypeOK, RowsType, PageType, table
<1>4. TaskOK'
  BY <1>1, <1>2, NoInput DEF ReadNotice, TaskOK
<1> QED
  BY <1>1, <1>3, <1>4, NoInput DEF ParseInv, TypeOK

\* message_offline_pull starts with rows of the table.
LEMMA PullStartStep ==
  ASSUME ParseInv, NEW c \in Friends, PullStart(c)
  PROVE  ParseInv'
<1>1. task' = Unparsed("paging", c)
  BY DEF PullStart
<1>2. PICK list \in Table!GetList(rows, c), count \in Table!GetCount(rows, c) :
        page' = [EmptyPage EXCEPT !.todo = list, !.count = count]
  BY DEF PullStart
<1>3. list \subseteq rows /\ count \in 0 .. Word32 - 1
  BY ListFacts DEF ParseInv
<1>4. RowsType' /\ rows' = rows
  BY DEF PullStart, ParseInv, TypeOK, RowsType, table
<1>5. PageType'
  <2>1. page' = [todo |-> list, total |-> 0, count |-> count,
                 res |-> [msg |-> <<>>, left_count |-> 0]]
    BY <1>2 DEF EmptyPage, NoPage
  <2>2. <<>> \in Seq(Paged)
    OBVIOUS
  <2> QED
    BY <1>3, <1>4, <2>1, <2>2 DEF PageType
<1>6. TaskOK'
  BY <1>1, NoInput DEF TaskOK
<1> QED
  BY <1>1, <1>4, <1>5, <1>6, NoInput DEF ParseInv, TypeOK

\* One iteration of the loop: a message made of a row may join the page.
LEMMA PullRowStep ==
  ASSUME ParseInv, PullRow
  PROVE  ParseInv'
<1>1. PICK r \in page.todo : \E fits \in BOOLEAN : \E total :
        page' = [page EXCEPT !.todo = @ \ {r}, !.total = total,
                             !.res = IF fits THEN AddMsg(@, MessageOf(r)) ELSE @]
  BY DEF PullRow
<1>2. /\ task.phase = "paging" /\ task' = task /\ reply' = reply
      /\ rows' = rows /\ autoInc' = autoInc
  BY DEF PullRow, table
<1>3. RowsType' /\ TaskType' /\ ParsedIsMeant'
  BY <1>2 DEF ParseInv, TypeOK, RowsType, TaskType, ParsedIsMeant
<1>4. PageType'
  <2>0. PICK fits \in BOOLEAN : \E total :
          page' = [page EXCEPT !.todo = @ \ {r}, !.total = total,
                               !.res = IF fits THEN AddMsg(@, MessageOf(r)) ELSE @]
    BY <1>1
  <2>1. PICK total :
          page' = [page EXCEPT !.todo = @ \ {r}, !.total = total,
                               !.res = IF fits THEN AddMsg(@, MessageOf(r)) ELSE @]
    BY <2>0
  <2>2. PageType
    BY DEF ParseInv, TypeOK
  <2>3. r \in Row
    BY <2>2 DEF PageType, ParseInv, TypeOK, RowsType
  <2>4. AddMsg(page.res, MessageOf(r))
          = [msg |-> Append(page.res.msg, MessageOf(r)), left_count |-> 0]
    <3>1. page.res = [msg |-> page.res.msg, left_count |-> 0]
      BY <2>2 DEF PageType
    <3>2. \A msgs, m : AddMsg([msg |-> msgs, left_count |-> 0], m)
                         = [msg |-> Append(msgs, m), left_count |-> 0]
      BY DEF AddMsg
    <3> QED
      BY <3>1, <3>2
  <2>5. Append(page.res.msg, MessageOf(r)) \in Seq(Paged)
    <3>1. MessageOf(r) \in Paged
      BY <2>3 DEF Row, Stored, MessageOf, Paged
    <3> QED
      BY <2>2, <3>1 DEF PageType
  <2>6. PICK res : /\ res = [msg |-> res.msg, left_count |-> 0]
                   /\ res.msg \in Seq(Paged)
                   /\ page' = [page EXCEPT !.todo = @ \ {r}, !.total = total,
                                           !.res = res]
    BY <2>1, <2>2, <2>4, <2>5 DEF PageType
  <2>7. page' = [todo |-> page.todo \ {r}, total |-> total,
                 count |-> page.count, res |-> res]
    BY <2>2, <2>6 DEF PageType
  <2> QED
    BY <1>2, <2>2, <2>6, <2>7 DEF PageType
<1>5. TaskOK'
  BY <1>2 DEF ParseInv, TaskOK
<1> QED
  BY <1>3, <1>4, <1>5 DEF ParseInv, TypeOK

\* The answer to a pull: the locals are gone.
LEMMA PullReplyStep ==
  ASSUME ParseInv, PullReply
  PROVE  ParseInv'
<1>1. /\ task' = [task EXCEPT !.phase = "done"] /\ page' = EmptyPage
      /\ rows' = rows /\ autoInc' = autoInc
  BY DEF PullReply, table
<1>2. RowsType'
  BY <1>1 DEF ParseInv, TypeOK, RowsType
<1>3. PageType'
  BY <1>1, EmptyPageType
<1>4. TaskOK'
  BY <1>1, TaskEnds DEF TaskOK
<1> QED
  BY <1>1, <1>2, <1>3, <1>4, TaskEnds DEF ParseInv, TypeOK

\* Every step preserves the invariant.
LEMMA ParseStep == ParseInv /\ [Next]_vars => ParseInv'
<1> SUFFICES ASSUME ParseInv, [Next]_vars PROVE ParseInv'
  OBVIOUS
<1>1. CASE UNCHANGED vars
  BY <1>1 DEF vars, ParseInv, TypeOK, RowsType, TaskType, PageType, ParsedIsMeant,
     TaskOK
<1>2. CASE Next
  BY <1>2, DispatchStep, ReadNoticeStep, PullStartStep, ParseFieldStep,
     ParseUnknownStep, ParseFailsStep, QueryFriendStep, MessageRecvStep,
     MessageDelStep, PullRowStep, PullReplyStep
  DEF Next
<1> QED
  BY <1>1, <1>2

\* The invariant holds in every behaviour.
LEMMA ParseInvariance == Spec => []ParseInv
<1> QED
  BY ParseInitially, ParseStep, PTL DEF Spec

-----------------------------------------------------------------------------
(* Numbers of 32 bits. *)

\* Quotient and remainder.
LEMMA Division ==
  ASSUME NEW x \in Int, NEW W \in Nat \ {0}
  PROVE  /\ x = W * (x \div W) + (x % W)
         /\ x \div W \in Int /\ x % W \in 0 .. W - 1
OBVIOUS

\* A number has one remainder.
LEMMA OneRemainder ==
  ASSUME NEW W \in Nat \ {0}, NEW k \in Int, NEW l \in Int,
         NEW r \in 0 .. W - 1, NEW s \in 0 .. W - 1, W * k + r = W * l + s
  PROVE  r = s
<1>1. CASE k = l
  BY <1>1
<1>2. CASE k < l
  <2>1. W * (l - k) = r - s
    OBVIOUS
  <2>2. W * (l - k) >= W
    BY <1>2
  <2> QED
    BY <2>1, <2>2
<1>3. CASE k > l
  <2>1. W * (k - l) = s - r
    OBVIOUS
  <2>2. W * (k - l) >= W
    BY <1>3
  <2> QED
    BY <2>1, <2>2
<1> QED
  BY <1>1, <1>2, <1>3

\* Cutting a count before the subtraction changes nothing.
LEMMA CutTwice ==
  ASSUME NEW a \in Nat, NEW b \in Int, NEW W \in Nat \ {0}
  PROVE  ((a % W) - b) % W = (a - b) % W
<1> DEFINE k == a \div W
           y == a % W
           l == (y - b) \div W
           r == (y - b) % W
           n == (a - b) \div W
           s == (a - b) % W
<1>1. a = W * k + y /\ k \in Int /\ y \in 0 .. W - 1
  BY Division
<1>2. y - b \in Int /\ a - b \in Int
  BY <1>1
<1>3. y - b = W * l + r /\ l \in Int /\ r \in 0 .. W - 1
  BY <1>2, Division
<1>4. a - b = W * n + s /\ n \in Int /\ s \in 0 .. W - 1
  BY <1>2, Division
<1> SUFFICES r = s
  OBVIOUS
<1> HIDE DEF k, y, l, r, n, s
<1>5. W * (k + l) = W * k + W * l
  BY <1>1, <1>3
<1>6. W * (k + l) + r = W * n + s /\ k + l \in Int
  BY <1>1, <1>3, <1>4, <1>5
<1> QED
  BY <1>3, <1>4, <1>6, OneRemainder

-----------------------------------------------------------------------------
(* The rows of a client, in the order of their ids. *)

\* A row stands where the rows up to it say, and a later one not before it.
LEMMA RankFacts ==
  ASSUME TypeOK, NEW c
  PROVE  /\ \A r \in rows : Rank(r, c) \in Nat
         /\ \A r, o \in rows : o.id <= r.id => Rank(o, c) <= Rank(r, c)
<1> DEFINE Upto(r) == {o \in Table!Addressed(rows, c) : o.id <= r.id}
<1>1. IsFiniteSet(rows) /\ Table!Addressed(rows, c) \subseteq rows
  BY DEF TypeOK, RowsType, Table!Addressed
<1>2. \A r \in rows : r.id \in Nat
  BY ExchangeAssumption DEF TypeOK, RowsType, Row
<1>3. \A r \in rows : IsFiniteSet(Upto(r)) /\ Cardinality(Upto(r)) \in Nat
  <2>1. \A r \in rows : Upto(r) \subseteq rows
    BY <1>1
  <2> HIDE DEF Upto
  <2> QED
    BY <1>1, <2>1, FS_Subset, FS_CardinalityType
<1>4. ASSUME NEW r \in rows, NEW o \in rows, o.id <= r.id
      PROVE  Cardinality(Upto(o)) <= Cardinality(Upto(r))
  <2>1. Upto(o) \subseteq Upto(r)
    BY <1>1, <1>2, <1>4
  <2> HIDE DEF Upto
  <2> QED
    BY <1>3, <2>1, FS_Subset
<1> QED
  BY <1>3, <1>4 DEF Rank

\* The page's query selects by rank.
LEMMA OldestFacts ==
  ASSUME TypeOK, NEW c
  PROVE  /\ Table!Oldest(rows, c)
              = {r \in Table!Addressed(rows, c) : Rank(r, c) <= Limit}
         /\ Table!Oldest(rows, c) \subseteq rows
         /\ Table!Addressed(rows, c) = {r \in rows : r.msg.to_pk = c}
<1>1. Table!Addressed(rows, c)
        = {r \in rows : [m \in Stored |-> m.to_pk][r.msg] = c}
  BY DEF Table!Addressed
<1>2. \A r \in rows : [m \in Stored |-> m.to_pk][r.msg] = r.msg.to_pk
  BY DEF TypeOK, RowsType, Row
<1>3. Table!Addressed(rows, c) = {r \in rows : r.msg.to_pk = c}
  BY <1>1, <1>2
<1>4. Table!Oldest(rows, c)
        = {r \in Table!Addressed(rows, c) : Rank(r, c) <= Limit}
  BY TableCardinality DEF Table!Oldest, Rank
<1> QED
  BY <1>3, <1>4

\* The first row of those still to be looked at is the one after those seen.
LEMMA NextRow ==
  ASSUME TypeOK, IdsOK, NEW c, NEW todo \in SUBSET Table!Oldest(rows, c),
         NEW r \in todo, \A o \in todo : r.id <= o.id,
         \A s \in Table!Oldest(rows, c) \ todo : \A o \in todo : s.id < o.id
  PROVE  LET seen == Table!Oldest(rows, c) \ todo
             now == Table!Oldest(rows, c) \ (todo \ {r})
         IN /\ Cardinality(seen) \in Nat
            /\ Rank(r, c) = Cardinality(seen) + 1
            /\ Cardinality(now) = Cardinality(seen) + 1
            /\ \A s \in now : \A o \in todo \ {r} : s.id < o.id
<1> DEFINE list == Table!Oldest(rows, c)
           mine == Table!Addressed(rows, c)
           seen == list \ todo
           now == list \ (todo \ {r})
<1>1. /\ list = {x \in mine : Rank(x, c) <= Limit}
      /\ list \subseteq rows /\ mine \subseteq rows
  BY OldestFacts
<1>2. /\ \A x \in rows : x.id \in Nat
      /\ \A x, y \in rows : x.id = y.id => x = y
      /\ IsFiniteSet(rows)
  BY ExchangeAssumption DEF TypeOK, RowsType, Row, IdsOK
<1>3. r \in list /\ r \notin seen
  OBVIOUS
<1>4. {o \in mine : o.id <= r.id} = seen \cup {r}
  <2>1. ASSUME NEW o \in mine, o.id <= r.id PROVE o \in seen \cup {r}
    <3>1. Rank(o, c) <= Rank(r, c) /\ Rank(o, c) \in Nat /\ Rank(r, c) \in Nat
      BY <1>1, <1>3, <2>1, RankFacts
    <3>2. o \in list
      BY <1>1, <1>3, <3>1, ExchangeAssumption
    <3>3. CASE o \in todo
      <4>1. o.id = r.id
        BY <1>1, <1>2, <1>3, <2>1, <3>2, <3>3
      <4> QED
        BY <1>1, <1>2, <1>3, <3>2, <4>1
    <3> QED
      BY <3>2, <3>3
  <2>2. ASSUME NEW o \in seen \cup {r} PROVE o \in mine /\ o.id <= r.id
    BY <1>1, <1>2, <1>3
  <2> QED
    BY <2>1, <2>2
<1>5. IsFiniteSet(seen)
  BY <1>1, <1>2, FS_Subset
<1>6. /\ Cardinality(seen) \in Nat
      /\ Cardinality(seen \cup {r}) = Cardinality(seen) + 1
  <2> HIDE DEF seen
  <2> QED
    BY <1>3, <1>5, FS_CardinalityType, FS_AddElement
<1>7. now = seen \cup {r}
  BY <1>3
<1>8. \A s \in now : \A o \in todo \ {r} : s.id < o.id
  BY <1>1, <1>2, <1>3, <1>7
<1> HIDE DEF list, mine, seen, now
<1>9. Rank(r, c) = Cardinality(seen) + 1
  BY <1>4, <1>6 DEF Rank, mine
<1> QED
  BY <1>6, <1>7, <1>8, <1>9 DEF list, seen, now

-----------------------------------------------------------------------------
(* The messages of a page. *)

\* A message made of a row is one of the class.
LEMMA PagedIsMessage ==
  ASSUME NEW m \in Paged
  PROVE  IsMessage("OfflineMessage", m) /\ m.unknown = <<>>
<1>1. /\ m = [val |-> m.val, unknown |-> m.unknown] /\ m.unknown = <<>>
      /\ m.val \in [local_msg_id : 0 .. Half - 1, msg_id : 1 .. MaxRows,
                    fr_pk : Keys, to_pk : Strings, content : Strings,
                    create_time : Times]
  BY DEF Paged
<1>2. /\ Fields("OfflineMessage")
           = {"local_msg_id", "msg_id", "fr_pk", "to_pk", "content",
              "create_time"}
      /\ Class["OfflineMessage"] = OfflineMessage
  BY DEF Fields, Class, OfflineMessage
<1>3. m.val = [f \in Fields("OfflineMessage") |-> m.val[f]]
  BY <1>1, <1>2
<1>4. \A f \in Fields("OfflineMessage") :
        m.val[f] \in ValuesOf[Class["OfflineMessage"][f]]
  <2>1. /\ m.val.local_msg_id \in -Half .. Half - 1
        /\ m.val.msg_id \in 0 .. 2 * Half - 1
        /\ m.val.create_time \in 0 .. 2 * Half - 1
        /\ m.val.fr_pk \in Strings /\ m.val.to_pk \in Strings
        /\ m.val.content \in Strings
    BY <1>1, CodecAssumption, ExchangeAssumption
  <2>2. /\ ValuesOf["int64"] = -Half .. Half - 1
        /\ ValuesOf["uint64"] = 0 .. 2 * Half - 1
        /\ ValuesOf["bytes"] = Strings
    BY DEF ValuesOf
  <2>3. /\ OfflineMessage["local_msg_id"] = "int64"
        /\ OfflineMessage["msg_id"] = "uint64"
        /\ OfflineMessage["fr_pk"] = "bytes"
        /\ OfflineMessage["to_pk"] = "bytes"
        /\ OfflineMessage["content"] = "bytes"
        /\ OfflineMessage["create_time"] = "uint64"
    BY DEF OfflineMessage
  <2> QED
    BY <1>2, <2>1, <2>2, <2>3
<1>5. m.unknown \in Seq(WireField)
  BY <1>1
<1> QED
  BY <1>1, <1>3, <1>4, <1>5 DEF IsMessage

\* What message_offline_pull compares is at most 11 bytes short of what a
\* message takes.
LEMMA MsgSizeBound ==
  ASSUME NEW m \in Paged
  PROVE  /\ ByteSizeLong("OfflineMessage", m) \in Nat
         /\ MsgSize(m) \in Nat
         /\ MsgSize(m) <= ByteSizeLong("OfflineMessage", m) + Overhead
<1>1. PICK n \in Nat : n = ByteSizeLong("OfflineMessage", m)
  <2>1. "OfflineMessage" \in Classes
    BY DEF Classes, Class
  <2> QED
    BY <2>1, PagedIsMessage, SizeIsExact
<1>2. VarintSize(n) \in 1 .. 10
  BY VarintSizeRange
<1>3. MsgSize(m) = 1 + VarintSize(n) + n
  BY <1>1 DEF MsgSize
<1> QED
  BY <1>1, <1>2, <1>3 DEF Overhead

\* The bytes of no messages, and of one more.
LEMMA MsgBytesFacts ==
  /\ MsgBytes(<<>>) = 0
  /\ \A msgs \in Seq(Paged) : MsgBytes(msgs) \in Nat
  /\ \A msgs \in Seq(Paged), m \in Paged :
       MsgBytes(Append(msgs, m)) = MsgBytes(msgs) + MsgSize(m)
<1> DEFINE B(msgs) == [i \in 1 .. Len(msgs) |-> MsgSize(msgs[i])]
<1>1. \A msgs \in Seq(Paged) : B(msgs) \in Seq(Nat)
  <2> SUFFICES ASSUME NEW msgs \in Seq(Paged) PROVE B(msgs) \in Seq(Nat)
    OBVIOUS
  <2>1. \A i \in 1 .. Len(msgs) : MsgSize(msgs[i]) \in Nat
    BY MsgSizeBound
  <2> QED
    BY <2>1
<1>2. MsgBytes(<<>>) = 0
  <2>1. B(<<>>) = <<>>
    OBVIOUS
  <2> QED
    BY <2>1, TotalShort DEF MsgBytes
<1>3. \A msgs \in Seq(Paged) : MsgBytes(msgs) \in Nat
  BY <1>1, TotalType DEF MsgBytes
<1>4. ASSUME NEW msgs \in Seq(Paged), NEW m \in Paged
      PROVE  MsgBytes(Append(msgs, m)) = MsgBytes(msgs) + MsgSize(m)
  <2>0. Append(msgs, m) \in Seq(Paged)
    OBVIOUS
  <2>1. PICK u \in Seq(Paged) : u = Append(msgs, m)
    BY <2>0
  <2>2. PICK x, y, z : x = B(msgs) /\ y = <<MsgSize(m)>> /\ z = B(u)
    OBVIOUS
  <2>3. x \in Seq(Nat) /\ y \in Seq(Nat) /\ z \in Seq(Nat)
    BY <1>1, <2>2, MsgSizeBound
  <2>4. /\ Len(msgs) \in Nat /\ Len(x) = Len(msgs) /\ Len(y) = 1
        /\ Len(z) = Len(u) /\ Len(u) = Len(msgs) + 1
    BY <2>1, <2>2
  <2>5. /\ \A i \in 1 .. Len(msgs) : u[i] = msgs[i]
        /\ u[Len(msgs) + 1] = m
    BY <2>1
  <2>6. z = x \o y
    <3>1. \A i \in 1 .. Len(x) : z[i] = x[i]
      BY <2>2, <2>4, <2>5
    <3>2. \A i \in 1 .. Len(y) : z[Len(x) + i] = y[i]
      <4>1. z[Len(x) + 1] = y[1]
        BY <2>2, <2>4, <2>5
      <4> QED
        BY <2>4, <4>1
    <3>3. Len(z) = Len(x) + Len(y)
      BY <2>4
    <3> QED
      BY <2>3, <3>1, <3>2, <3>3, IsConcat
  <2>7. Total(x \o y) = Total(x) + Total(y)
    BY <2>3, TotalConcat
  <2>8. Total(y) = MsgSize(m)
    BY <2>2, MsgSizeBound, TotalShort
  <2>9. MsgBytes(msgs) = Total(x) /\ MsgBytes(u) = Total(z)
    BY <2>2 DEF MsgBytes
  <2> QED
    BY <2>1, <2>6, <2>7, <2>8, <2>9
<1> QED
  BY <1>2, <1>3, <1>4

-----------------------------------------------------------------------------
(* The rest of the invariant. *)

\* Every step keeps the ids apart and below the counter.
LEMMA IdsStep ==
  ASSUME IInv, [Next]_vars
  PROVE  IdsOK'
<1>1. /\ \A r \in rows : r.id < autoInc /\ r.id \in Nat
      /\ \A r, o \in rows : r.id = o.id => r = o
      /\ autoInc \in Nat
  BY ExchangeAssumption DEF IInv, ParseInv, TypeOK, RowsType, Row, IdsOK
<1>2. CASE MessageRecv
  <2>1. CASE UNCHANGED table
    BY <1>1, <2>1 DEF table, IdsOK
  <2>2. ASSUME NEW m \in Stored, NEW outcome \in Table!Add(rows, autoInc, m),
               rows' = outcome[1], autoInc' = outcome[2]
        PROVE  IdsOK'
    <3>1. PICK r : r = [id |-> autoInc, msg |-> m]
      OBVIOUS
    <3>2. /\ autoInc' = autoInc + 1 /\ r.id = autoInc
          /\ rows' = rows \/ rows' = rows \cup {r}
      BY <2>2, <3>1, AddFacts
    <3> QED
      BY <1>1, <3>2 DEF IdsOK
  <2> QED
    BY <1>2, <2>1, <2>2, RecvOutcome DEF IInv
<1>3. CASE MessageDel
  <2>1. rows' \subseteq rows /\ autoInc' = autoInc
    BY <1>3, DelFacts DEF MessageDel, IInv, ParseInv
  <2> QED
    BY <1>1, <2>1 DEF IdsOK
<1>4. CASE ~MessageRecv /\ ~MessageDel
  <2>1. rows' = rows /\ autoInc' = autoInc
    BY <1>4 DEF Next, vars, Dispatch, ReadNotice, PullStart, ParseField,
       ParseUnknown, ParseFails, QueryFriend, PullRow, PullReply, table
  <2> QED
    BY <1>1, <2>1 DEF IdsOK
<1> QED
  BY <1>2, <1>3, <1>4

\* message_offline_pull begins with an empty page and all that it will look at.
LEMMA PullStartPage ==
  ASSUME IInv, NEW c \in Friends, PullStart(c)
  PROVE  PageOK'
<1>1. /\ task'.who = c /\ rows' = rows
      /\ page' = [todo |-> Table!Oldest(rows, c), total |-> 0,
                  count |-> Cardinality(Table!Addressed(rows, c)) % Word32,
                  res |-> [msg |-> <<>>, left_count |-> 0]]
  <2>1. PICK list \in Table!GetList(rows, c), count \in Table!GetCount(rows, c) :
          page' = [EmptyPage EXCEPT !.todo = list, !.count = count]
    BY DEF PullStart
  <2>2. /\ list = Table!Oldest(rows, c)
        /\ count = Cardinality(Table!Addressed(rows, c)) % Word32
    BY TableCardinality DEF Table!GetList, Table!GetCount
  <2>3. task'.who = c /\ rows' = rows
    BY DEF PullStart, Unparsed, table
  <2> QED
    BY <2>1, <2>2, <2>3 DEF EmptyPage, NoPage
<1>2. Len(<<>>) = 0 /\ MsgBytes(<<>>) = 0 /\ Cardinality({}) = 0
  BY MsgBytesFacts, FS_EmptySet
<1>3. MaxBytes \in Nat /\ Overhead = 11
  BY ExchangeAssumption DEF Overhead
<1>4. OldestFirst(page.res.msg, task.who)' /\ MsgBytes(page.res.msg)' = 0
  BY <1>1, <1>2 DEF OldestFirst, MsgBytes
<1>5. /\ page'.todo = Table!Oldest(rows', task'.who)
      /\ page'.res.msg = <<>> /\ page'.total = 0
      /\ page'.count = Cardinality(Table!Addressed(rows', task'.who)) % Word32
  BY <1>1
<1>6. Table!Oldest(rows', task'.who) \ page'.todo = {}
  BY <1>5
<1>7. /\ Len(page'.res.msg) = 0
      /\ Cardinality(Table!Oldest(rows', task'.who) \ page'.todo) = 0
  BY <1>2, <1>5, <1>6
<1>8. page'.total \in Nat /\ page'.todo \subseteq Table!Oldest(rows', task'.who)
  BY <1>5
<1>9. /\ page'.total + Overhead * Len(page'.res.msg) = 0
      /\ MaxBytes + Overhead * Len(page'.res.msg) = MaxBytes
      /\ 0 <= MaxBytes /\ 0 <= 0
  <2>1. 0 + 11 * 0 = 0 /\ MaxBytes + 11 * 0 = MaxBytes /\ 0 <= MaxBytes
    BY <1>3
  <2> QED
    BY <1>3, <1>5, <1>7, <2>1
<1> QED
  BY <1>4, <1>5, <1>6, <1>7, <1>8, <1>9, Zenon DEF PageOK

\* One iteration: the row is the next one, and its message joins the page if
\* the size stays below the limit.
LEMMA PullRowPage ==
  ASSUME IInv, PullRow
  PROVE  PageOK'
<1> DEFINE c == task.who
           list == Table!Oldest(rows, c)
           todo == page.todo
           seen == list \ todo
           msgs == page.res.msg
           total == page.total
<1>1. PICK r \in todo :
        /\ \A o \in todo : r.id <= o.id
        /\ page' = [page EXCEPT
             !.todo = @ \ {r},
             !.total = @ + ByteSizeLong("OfflineMessage", MessageOf(r)),
             !.res = IF page.total + ByteSizeLong("OfflineMessage", MessageOf(r))
                          < MaxBytes
                       THEN AddMsg(@, MessageOf(r)) ELSE @]
  BY DEF PullRow
<1>2. task.phase = "paging" /\ task' = task /\ rows' = rows
  BY DEF PullRow, table
<1>3. /\ todo \subseteq list
      /\ page.count = Cardinality(Table!Addressed(rows, c)) % Word32
      /\ \A s \in seen, o \in todo : s.id < o.id
      /\ OldestFirst(msgs, c)
      /\ total \in Nat
      /\ total < MaxBytes => Len(msgs) = Cardinality(seen)
      /\ MsgBytes(msgs) <= total + Overhead * Len(msgs)
      /\ MsgBytes(msgs) <= MaxBytes + Overhead * Len(msgs)
  BY <1>2 DEF IInv, PageOK
<1>4. /\ TypeOK /\ IdsOK /\ page.res = [msg |-> msgs, left_count |-> 0]
      /\ msgs \in Seq(Paged)
      /\ page = [todo |-> todo, total |-> total, count |-> page.count,
                 res |-> page.res]
  BY DEF IInv, ParseInv, TypeOK, PageType
<1>5. PICK m : m = MessageOf(r)
  OBVIOUS
<1>6. PICK n : n = ByteSizeLong("OfflineMessage", m)
  OBVIOUS
<1>7. m \in Paged
  <2>1. r \in Row
    BY <1>4 DEF PageType, TypeOK, RowsType
  <2> QED
    BY <1>5, <2>1 DEF Row, Stored, MessageOf, Paged
<1>8. n \in Nat /\ MsgSize(m) \in Nat /\ MsgSize(m) <= n + Overhead
  BY <1>6, <1>7, MsgSizeBound
<1>9. PICK more : more = IF total + n < MaxBytes THEN Append(msgs, m) ELSE msgs
  OBVIOUS
<1>10. page' = [todo |-> todo \ {r}, total |-> total + n, count |-> page.count,
                res |-> [msg |-> more, left_count |-> 0]]
  <2>1. AddMsg(page.res, m) = [msg |-> Append(msgs, m), left_count |-> 0]
    <3>1. \A x, y : AddMsg([msg |-> x, left_count |-> 0], y)
                      = [msg |-> Append(x, y), left_count |-> 0]
      BY DEF AddMsg
    <3> QED
      BY <1>4, <3>1
  <2>2. page' = [page EXCEPT !.todo = @ \ {r}, !.total = @ + n,
                   !.res = IF total + n < MaxBytes THEN AddMsg(@, m) ELSE @]
    BY <1>1, <1>5, <1>6
  <2>3. PICK res : res = IF total + n < MaxBytes THEN AddMsg(page.res, m)
                         ELSE page.res
    OBVIOUS
  <2>4. res = [msg |-> more, left_count |-> 0]
    BY <1>4, <1>9, <2>1, <2>3
  <2>5. page' = [page EXCEPT !.todo = @ \ {r}, !.total = @ + n, !.res = res]
    BY <2>2, <2>3
  <2> HIDE DEF todo, total
  <2> QED
    BY <1>4, <2>4, <2>5 DEF todo, total
<1>11. /\ Cardinality(seen) \in Nat
       /\ Rank(r, c) = Cardinality(seen) + 1
       /\ Cardinality(list \ (todo \ {r})) = Cardinality(seen) + 1
       /\ \A s \in list \ (todo \ {r}) : \A o \in todo \ {r} : s.id < o.id
  BY <1>1, <1>3, <1>4, NextRow
<1>12. MaxBytes \in Nat /\ Overhead = 11 /\ Len(msgs) \in Nat
  BY <1>4, ExchangeAssumption DEF Overhead
<1>13. /\ OldestFirst(more, c)
       /\ total + n < MaxBytes => Len(more) = Cardinality(seen) + 1
       /\ MsgBytes(more) <= (total + n) + Overhead * Len(more)
       /\ MsgBytes(more) <= MaxBytes + Overhead * Len(more)
  <2> HIDE DEF list, todo, seen, msgs, total, c
  <2>1. CASE total + n < MaxBytes
    <3>1. /\ more = Append(msgs, m) /\ Len(more) = Len(msgs) + 1
          /\ \A i \in 1 .. Len(msgs) : more[i] = msgs[i]
          /\ more[Len(msgs) + 1] = m
      BY <1>4, <1>7, <1>9, <2>1
    <3>2. Len(msgs) = Cardinality(seen)
      BY <1>3, <1>8, <1>12, <2>1
    <3>3. MsgBytes(more) = MsgBytes(msgs) + MsgSize(m) /\ MsgBytes(msgs) \in Nat
      BY <1>4, <1>7, <3>1, MsgBytesFacts
    <3>4. OldestFirst(more, c)
      <4>1. r \in list
        BY <1>1, <1>3 DEF list, todo
      <4>2. \A i \in 1 .. Len(more) : i = Len(msgs) + 1 \/ i \in 1 .. Len(msgs)
        BY <1>12, <3>1
      <4> QED
        BY <1>3, <1>5, <1>11, <3>1, <3>2, <4>1, <4>2 DEF OldestFirst, list
    <3> QED
      BY <1>3, <1>8, <1>12, <2>1, <3>1, <3>2, <3>3, <3>4
  <2>2. CASE ~(total + n < MaxBytes)
    <3>1. MsgBytes(msgs) \in Nat
      BY <1>4, MsgBytesFacts
    <3> QED
      BY <1>3, <1>8, <1>9, <1>12, <2>2, <3>1
  <2> QED
    BY <2>1, <2>2
<1>14. /\ page'.todo = todo \ {r} /\ page'.total = total + n
       /\ page'.count = page.count /\ page'.res.msg = more
  BY <1>10
<1>15. OldestFirst(page.res.msg, task.who)'
  BY <1>2, <1>13, <1>14 DEF OldestFirst, Rank
<1>16. MsgBytes(page.res.msg)' = MsgBytes(more)
  BY <1>14 DEF MsgBytes
<1> QED
  BY <1>2, <1>3, <1>8, <1>11, <1>13, <1>14, <1>15, <1>16 DEF PageOK

\* Every step keeps the page as the loop of message_offline_pull makes it.
LEMMA PageStep ==
  ASSUME IInv, [Next]_vars
  PROVE  PageOK'
<1>1. CASE UNCHANGED vars
  BY <1>1 DEF vars, IInv, PageOK, OldestFirst, Rank
<1>2. ASSUME NEW c \in Friends, PullStart(c) PROVE PageOK'
  BY <1>2, PullStartPage
<1>3. CASE PullRow
  BY <1>3, PullRowPage
<1>4. ASSUME task'.phase # "paging" PROVE PageOK'
  BY <1>4 DEF PageOK
<1>5. task = [phase |-> task.phase, who |-> task.who, cmd |-> task.cmd,
              input |-> task.input, pos |-> task.pos, msg |-> task.msg]
  BY DEF IInv, ParseInv, TypeOK, TaskType
<1>6. ASSUME task' = [task EXCEPT !.phase = "done"] PROVE PageOK'
  BY <1>4, <1>5, <1>6
<1>7. ASSUME NEW f, ParseField(f) PROVE PageOK'
  BY <1>4, <1>5, <1>7 DEF ParseField, Parsing
<1>8. CASE ParseUnknown
  BY <1>4, <1>5, <1>8 DEF ParseUnknown, Parsing
<1>9. ASSUME NEW c \in Friends, ReadNotice(c) PROVE PageOK'
  BY <1>4, <1>9 DEF ReadNotice, Unparsed
<1>10. ASSUME NEW c, NEW cmd, NEW input, Dispatch(c, cmd, input) PROVE PageOK'
  BY <1>4, <1>10 DEF Dispatch
<1>11. CASE ParseFails \/ PullReply
  BY <1>6, <1>11 DEF ParseFails, PullReply
<1>12. CASE QueryFriend \/ MessageRecv \/ MessageDel
  BY <1>6, <1>12 DEF QueryFriend, MessageRecv, MessageDel, Complete
<1> QED
  BY <1>1, <1>2, <1>3, <1>7, <1>8, <1>9, <1>10, <1>11, <1>12 DEF Next

-----------------------------------------------------------------------------
(* The answers. *)

\* At the end of a packet the request is what the packet means.
LEMMA RequestIsMeant ==
  ASSUME ParseInv, NEW cmd, Complete(cmd)
  PROVE  /\ task.cmd = cmd /\ task.phase = "parsing"
         /\ Readable(task.input) /\ task'.input = task.input
         /\ task'.phase = "done"
         /\ \A f \in Fields(ClassOf[cmd]) :
              Request[f] = ValueIn(ClassOf[cmd], f, task.input, Len(task.input))
<1>1. task.cmd = cmd /\ task.phase = "parsing" /\ task.pos = Len(task.input)
  BY DEF Complete
<1>2. Readable(task.input)
  BY <1>1 DEF ParseInv, TaskOK, Readable
<1>3. task'.input = task.input /\ task'.phase = "done"
  BY TaskEnds DEF Complete
<1> QED
  BY <1>1, <1>2, <1>3 DEF ParseInv, ParsedIsMeant, Request

\* query_friend answers about the key of its packet.
LEMMA QueryFriendAnswer ==
  ASSUME IInv, QueryFriend
  PROVE  AnswerOK'
<1>1. /\ task'.input = task.input /\ task'.phase = "done"
      /\ Request.pk = Asked("QueryFriendReq", "pk")
  BY RequestIsMeant
  DEF IInv, QueryFriend, ClassOf, Fields, Class, QueryFriendReq, Asked
<1>2. Asked("QueryFriendReq", "pk")' = Request.pk
  BY <1>1 DEF Asked
<1>3. PICK exist \in MayExist(Request.pk) :
        reply' = [cmd |-> "QUERY_FRIEND_RESPONSE", class |-> "QueryFriendRes",
                  msg |-> With(With(Cleared("QueryFriendRes"), "exist", exist),
                               "pk", Request.pk)]
  BY DEF QueryFriend
<1> QED
  BY <1>1, <1>2, <1>3 DEF AnswerOK

\* message_offline_recv answers with the number of its packet.
LEMMA MessageRecvAnswer ==
  ASSUME IInv, MessageRecv
  PROVE  AnswerOK'
<1>1. /\ task'.input = task.input /\ task'.phase = "done"
      /\ Request.local_msg_id = Asked("OfflineMessageReq", "local_msg_id")
  BY RequestIsMeant
  DEF IInv, MessageRecv, ClassOf, Fields, Class, OfflineMessageReq, Asked
<1>2. Asked("OfflineMessageReq", "local_msg_id")' = Request.local_msg_id
  BY <1>1 DEF Asked
<1>3. reply' = [cmd |-> "SEND_RESPONSE", class |-> "OfflineMessageReq",
                msg |-> With(Cleared("OfflineMessageReq"), "local_msg_id",
                             Request.local_msg_id)]
  BY DEF MessageRecv, Acknowledgement
<1> QED
  BY <1>1, <1>2, <1>3 DEF AnswerOK

\* message_offline_read_notice tells the id of a row.
LEMMA ReadNoticeAnswer ==
  ASSUME IInv, NEW c \in Friends, ReadNotice(c)
  PROVE  AnswerOK'
<1>1. task'.phase = "done"
  BY DEF ReadNotice, Unparsed
<1>2. PICK id \in Table!GetLatestId(rows, c) :
        reply' = IF id = 0 THEN NoReply
                 ELSE [cmd |-> "READ_NOTICE", class |-> "OfflineMessageReadNotice",
                       msg |-> With(Cleared("OfflineMessageReadNotice"),
                                    "latest_msg_id", id)]
  BY DEF ReadNotice
<1>3. id = 0 \/ id \in 1 .. MaxRows
  BY DEF Table!GetLatestId, Table!Addressed, IInv, ParseInv, TypeOK, RowsType,
     Row
<1> QED
  BY <1>1, <1>2, <1>3 DEF AnswerOK

\* message_offline_pull answers with the page that its loop made.
LEMMA PullReplyAnswer ==
  ASSUME IInv, PullReply
  PROVE  AnswerOK'
<1> DEFINE msgs == page.res.msg
           mine == Table!Addressed(rows, task.who)
<1>1. /\ task.phase = "paging" /\ rows' = rows
      /\ task' = [task EXCEPT !.phase = "done"]
      /\ reply' = [cmd |-> "PULL_RESPONSE", class |-> "OfflineMessagePullRes",
                   msg |-> [page.res EXCEPT
                     !.left_count = (page.count - Len(page.res.msg)) % Word32]]
  BY DEF PullReply, table
<1>2. task'.phase = "done" /\ task'.who = task.who
  BY <1>1 DEF IInv, ParseInv, TypeOK, TaskType
<1>3. /\ page.res = [msg |-> msgs, left_count |-> 0]
      /\ msgs \in Seq(Paged) /\ Len(msgs) \in Int
  BY DEF IInv, ParseInv, TypeOK, PageType
<1>4. /\ page.count = Cardinality(mine) % Word32
      /\ OldestFirst(msgs, task.who)
      /\ MsgBytes(msgs) <= MaxBytes + Overhead * Len(msgs)
  BY <1>1 DEF IInv, PageOK
<1>5. Cardinality(mine) \in Nat
  <2>1. mine \subseteq rows /\ IsFiniteSet(rows)
    BY DEF Table!Addressed, IInv, ParseInv, TypeOK, RowsType
  <2> HIDE DEF mine
  <2> QED
    BY <2>1, FS_Subset, FS_CardinalityType
<1>6. PICK left : left = (Cardinality(mine) - Len(msgs)) % Word32
  OBVIOUS
<1>7. (page.count - Len(msgs)) % Word32 = left
  <2> HIDE DEF mine, msgs
  <2> QED
    BY <1>3, <1>4, <1>5, <1>6, CutTwice, CodecAssumption
<1>8. reply' = [cmd |-> "PULL_RESPONSE", class |-> "OfflineMessagePullRes",
                msg |-> [msg |-> msgs, left_count |-> left]]
  <2>1. \A x, y : [[msg |-> x, left_count |-> 0] EXCEPT !.left_count = y]
                    = [msg |-> x, left_count |-> y]
    OBVIOUS
  <2>2. [page.res EXCEPT !.left_count = left] = [msg |-> msgs, left_count |-> left]
    BY <1>3, <2>1
  <2> QED
    BY <1>1, <1>7, <2>2
<1>9. reply'.msg.msg = msgs /\ reply'.cmd = "PULL_RESPONSE"
  BY <1>8
<1>10. OldestFirst(reply.msg.msg, task.who)'
  <2>1. rows' = rows /\ task'.who = task.who /\ reply'.msg.msg = msgs
    BY <1>1, <1>2, <1>9
  <2> HIDE DEF msgs
  <2> QED
    BY <1>4, <2>1, Zenon DEF OldestFirst, Rank
<1>11. MsgBytes(reply.msg.msg)' <= MaxBytes + Overhead * Len(reply'.msg.msg)
  BY <1>4, <1>9 DEF MsgBytes
<1>12. left = (Cardinality(Table!Addressed(rows', task'.who))
                 - Len(reply'.msg.msg)) % Word32
  BY <1>1, <1>2, <1>6, <1>9
<1> QED
  BY <1>2, <1>3, <1>8, <1>9, <1>10, <1>11, <1>12 DEF AnswerOK

\* Every step leaves an answer that was called for, or none.
LEMMA AnswerStep ==
  ASSUME IInv, [Next]_vars
  PROVE  AnswerOK'
<1>1. CASE UNCHANGED vars
  BY <1>1 DEF vars, IInv, AnswerOK, Asked, OldestFirst, Rank
<1>2. ASSUME reply' = NoReply PROVE AnswerOK'
  BY <1>2 DEF AnswerOK
<1>3. task.phase # "done" => reply = NoReply
  BY DEF IInv, AnswerOK
<1>4. ASSUME NEW c, NEW cmd, NEW input, Dispatch(c, cmd, input) PROVE AnswerOK'
  BY <1>2, <1>4 DEF Dispatch
<1>5. ASSUME NEW c, PullStart(c) PROVE AnswerOK'
  BY <1>2, <1>5 DEF PullStart
<1>6. ASSUME NEW f, ParseField(f) PROVE AnswerOK'
  BY <1>2, <1>3, <1>6 DEF ParseField, Parsing
<1>7. CASE ParseUnknown \/ ParseFails
  BY <1>2, <1>3, <1>7 DEF ParseUnknown, ParseFails, Parsing
<1>8. CASE MessageDel \/ PullRow
  BY <1>2, <1>3, <1>8 DEF MessageDel, Complete, PullRow
<1> QED
  BY <1>1, <1>4, <1>5, <1>6, <1>7, <1>8, QueryFriendAnswer, MessageRecvAnswer,
     ReadNoticeAnswer, PullReplyAnswer
  DEF Next

\* Before the first packet there are no rows, no page and no answer.
THEOREM Initially == Init => IInv
<1> SUFFICES ASSUME Init PROVE IInv
  OBVIOUS
<1>1. IdsOK /\ AnswerOK
  BY DEF Init, IdsOK, AnswerOK
<1>2. PageOK
  BY DEF Init, Unparsed, PageOK
<1> QED
  BY <1>1, <1>2, ParseInitially DEF IInv

\* Every step preserves the invariant.
THEOREM Step == IInv /\ [Next]_vars => IInv'
BY ParseStep, IdsStep, PageStep, AnswerStep DEF IInv

\* Nothing is answered that was not asked for, and nothing before the end of
\* the packet, in every behaviour.
THEOREM Invariance == Spec => []IInv
BY Initially, Step, PTL DEF Spec

-----------------------------------------------------------------------------
(* The properties. *)

\* Every state is well-typed.
THEOREM TypeCorrect == Spec => []TypeOK
<1>1. ParseInv => TypeOK
  BY DEF ParseInv
<1> QED
  BY <1>1, ParseInvariance, PTL

\* Whatever a client sends, the message under construction is what the tags
\* read so far mean (MergePartialFromCodedStream).
THEOREM Meaning == Spec => []ParsedIsMeant
<1>1. ParseInv => ParsedIsMeant
  BY DEF ParseInv
<1> QED
  BY <1>1, ParseInvariance, PTL

\* A packet that is cut off has no effect and no answer
\* (friend_message_offline_cb and its handlers).
THEOREM NothingByHalves == Spec => NoHalfRequest
<1>1. ASSUME ParseInv, [Next]_vars, ~Readable(task'.input)
      PROVE  UNCHANGED table /\ (reply' = NoReply \/ UNCHANGED vars)
  <2> USE <1>1
  <2>1. CASE UNCHANGED vars
    BY <2>1 DEF vars, table
  <2>2. ASSUME NEW c \in Friends, NEW cmd \in DOMAIN ClassOf,
               NEW input \in Inputs[cmd], Dispatch(c, cmd, input)
        PROVE  UNCHANGED table /\ reply' = NoReply
    BY <2>2 DEF Dispatch
  <2>3. ASSUME NEW c \in Friends, ReadNotice(c) \/ PullStart(c)
        PROVE  FALSE
    <3>1. PICK phase \in {"paging", "done"} : task' = Unparsed(phase, c)
      BY <2>3 DEF ReadNotice, PullStart
    <3>2. task'.input = <<>>
      BY <3>1 DEF Unparsed
    <3> QED
      BY <3>2 DEF Readable
  <2>4. ASSUME \/ \E f \in RequestFields : ParseField(f)
               \/ ParseUnknown
               \/ ParseFails
        PROVE  UNCHANGED table /\ reply' = NoReply
    BY <2>4 DEF ParseField, ParseUnknown, ParseFails, Parsing, ParseInv, TaskOK
  <2>5. ASSUME QueryFriend \/ MessageRecv \/ MessageDel
        PROVE  FALSE
    BY <2>5, RequestIsMeant DEF QueryFriend, MessageRecv, MessageDel
  <2>6. ASSUME PullRow \/ PullReply
        PROVE  FALSE
    <3>1. task.input = <<>>
      BY <2>6 DEF PullRow, PullReply, ParseInv, TaskOK
    <3>2. task'.input = task.input
      BY <2>6, TaskEnds DEF PullRow, PullReply
    <3> QED
      BY <3>1, <3>2 DEF Readable
  <2> QED
    BY <2>1, <2>2, <2>3, <2>4, <2>5, <2>6 DEF Next
<1>2. ParseInv /\ [Next]_vars
        => [~Readable(task'.input) => UNCHANGED table /\ reply' = NoReply]_vars
  BY <1>1
<1> QED
  BY <1>2, ParseInvariance, PTL DEF Spec, NoHalfRequest

\* Only message_offline_recv makes a row, and it says what the packet says.
THEOREM StorageIsFaithful == Spec => StoredIsSent
<1> DEFINE Sent(f) ==
             ValueIn("OfflineMessageReq", f, task.input, Len(task.input))
           Says(r) == /\ task.cmd = "SEND_REQUEST"
                      /\ r.msg.fr_pk = task.who
                      /\ r.msg.to_pk = Sent("to_pk")
                      /\ r.msg.content = Sent("crypto_message")
                      /\ r.msg.local_msg_id = Sent("local_msg_id")
<1>1. ASSUME ParseInv, Next, NEW r \in rows' \ rows
      PROVE  Says(r)
  <2> USE <1>1
  <2>1. CASE MessageRecv
    <3>1. PICK now \in Times : \E outcome \in Table!Add(rows, autoInc,
                [local_msg_id |-> Request.local_msg_id, fr_pk |-> task.who,
                 to_pk |-> Request.to_pk, content |-> Request.crypto_message,
                 create_time |-> now]) :
            /\ Storable(Request.local_msg_id, Request.to_pk,
                        Request.crypto_message)
            /\ rows' = outcome[1]
      BY <2>1 DEF MessageRecv, table
    <3>2. r.msg = [local_msg_id |-> Request.local_msg_id, fr_pk |-> task.who,
                   to_pk |-> Request.to_pk, content |-> Request.crypto_message,
                   create_time |-> now]
      BY <2>1, <3>1, AddFacts, SentIsStored DEF MessageRecv
    <3>3. \A f \in {"local_msg_id", "to_pk", "crypto_message"} :
            Request[f] = Sent(f)
      BY <2>1, RequestIsMeant
      DEF MessageRecv, ClassOf, Fields, Class, OfflineMessageReq
    <3>4. task.cmd = "SEND_REQUEST"
      BY <2>1, RequestIsMeant DEF MessageRecv
    <3> QED
      BY <3>2, <3>3, <3>4
  <2>2. CASE MessageDel
    BY <2>2, DelFacts DEF MessageDel, ParseInv
  <2>3. CASE ~MessageRecv /\ ~MessageDel
    BY <2>3 DEF Next, Dispatch, ReadNotice, PullStart, ParseField, ParseUnknown,
       ParseFails, QueryFriend, PullRow, PullReply, table
  <2> QED
    BY <2>1, <2>2, <2>3
<1>2. ParseInv /\ [Next]_vars => [\A r \in rows' \ rows : Says(r)]_vars
  BY <1>1
<1> QED
  BY <1>2, ParseInvariance, PTL DEF Spec, StoredIsSent

\* Only message_offline_del takes a row, of its client, up to a number that
\* stands in the packet: the default, and a number cast to a negative one,
\* take none.
THEOREM DeletionIsNamed == Spec => OnlyNamedIsDeleted
<1> DEFINE Named(r) == /\ task.cmd = "DEL_REQUEST"
                       /\ r.msg.to_pk = task.who
                       /\ \E i \in 1 .. Len(task.input) :
                            /\ task.input[i].number = 2
                            /\ task.input[i].wire = "varint"
                            /\ r.id <= task.input[i].val
<1>1. ASSUME ParseInv, Next, NEW r \in rows \ rows'
      PROVE  Named(r)
  <2> USE <1>1
  <2>1. CASE MessageDel
    <3> DEFINE last == Request.last_msg_id
    <3>1. r.id <= Signed(last) /\ r.msg.to_pk = task.who
      BY <2>1, DelFacts DEF MessageDel, ParseInv
    <3>2. /\ task.cmd = "DEL_REQUEST"
          /\ last = ValueIn("OfflineMessageDelReq", "last_msg_id", task.input,
                            Len(task.input))
      BY <2>1, RequestIsMeant
      DEF MessageDel, ClassOf, Fields, Class, OfflineMessageDelReq
    <3>3. /\ Class["OfflineMessageDelReq"]["last_msg_id"] = "uint64"
          /\ Numbers["OfflineMessageDelReq"]["last_msg_id"] = 2
      BY DEF Class, OfflineMessageDelReq, Numbers, OfflineMessageDelReqNumbers
    <3>4. r.id \in Nat \ {0} /\ task.input \in Seq(WireField)
      BY ExchangeAssumption DEF ParseInv, TypeOK, RowsType, TaskType, Row
    <3>5. CASE last = 0
      BY <3>1, <3>4, <3>5, CodecAssumption DEF Signed
    <3>6. ASSUME NEW i \in 1 .. Len(task.input),
                 Matches("OfflineMessageDelReq", "last_msg_id", task.input[i]),
                 last = task.input[i].val
          PROVE  Named(r)
      <4>1. task.input[i].number = 2 /\ task.input[i].wire = "varint"
        BY <3>3, <3>6 DEF Matches, WireType
      <4>2. last \in Nat
        BY <3>4, <3>6, <4>1, CodecAssumption DEF WireField
      <4>3. Signed(last) <= last
        BY <4>2, CodecAssumption DEF Signed
      <4>4. Signed(last) \in Int
        BY <4>2, CodecAssumption DEF Signed
      <4> QED
        BY <3>1, <3>2, <3>4, <3>6, <4>1, <4>2, <4>3, <4>4
    <3>7. \/ last = 0
          \/ \E i \in 1 .. Len(task.input) :
               /\ Matches("OfflineMessageDelReq", "last_msg_id", task.input[i])
               /\ last = task.input[i].val
      <4>1. Len(task.input) \in Nat
        BY <3>4
      <4> QED
        BY <3>2, <3>3, <4>1, ValueStands DEF Default, ReadValue
    <3> QED
      BY <3>5, <3>6, <3>7
  <2>2. CASE MessageRecv
    <3>1. rows' = rows \/ \E x : rows' = rows \cup {x}
      BY <2>2, RecvOutcome, AddFacts DEF table
    <3> QED
      BY <3>1
  <2>3. CASE ~MessageRecv /\ ~MessageDel
    BY <2>3 DEF Next, Dispatch, ReadNotice, PullStart, ParseField, ParseUnknown,
       ParseFails, QueryFriend, PullRow, PullReply, table
  <2> QED
    BY <2>1, <2>2, <2>3
<1>2. ParseInv /\ [Next]_vars => [\A r \in rows \ rows' : Named(r)]_vars
  BY <1>1
<1> QED
  BY <1>2, ParseInvariance, PTL DEF Spec, OnlyNamedIsDeleted

-----------------------------------------------------------------------------
(* What a client reads. *)

\* A cleared message in which a field was set, and one in which two were.
LEMMA SetMessage ==
  ASSUME NEW T \in Classes, NEW f \in Fields(T), NEW v \in ValuesOf[Class[T][f]]
  PROVE  /\ IsMessage(T, With(Cleared(T), f, v))
         /\ With(Cleared(T), f, v).unknown = <<>>
         /\ With(Cleared(T), f, v).val[f] = v
         /\ \A g \in Fields(T) : \A w \in ValuesOf[Class[T][g]] : g # f =>
              LET m == With(With(Cleared(T), f, v), g, w)
              IN /\ IsMessage(T, m) /\ m.unknown = <<>>
                 /\ m.val[f] = v /\ m.val[g] = w
<1>1. \A m, h, x : With(m, h, x).unknown = m.unknown \/ ~IsMessage(T, m)
  BY DEF With, IsMessage
<1>2. Cleared(T).unknown = <<>> /\ IsMessage(T, Cleared(T))
  BY ClearedIsMessage DEF Cleared
<1>3. \A m : IsMessage(T, m) => m.val = [h \in Fields(T) |-> m.val[h]]
  BY DEF IsMessage
<1>4. PICK n : n = With(Cleared(T), f, v)
  OBVIOUS
<1>5. /\ IsMessage(T, n) /\ n.unknown = <<>>
      /\ n.val = [Cleared(T).val EXCEPT ![f] = v]
  BY <1>1, <1>2, <1>4, WithIsMessage
<1>6. n.val[f] = v
  BY <1>2, <1>3, <1>5
<1>7. ASSUME NEW g \in Fields(T), NEW w \in ValuesOf[Class[T][g]], g # f,
             NEW m, m = With(n, g, w)
      PROVE  /\ IsMessage(T, m) /\ m.unknown = <<>>
             /\ m.val[f] = v /\ m.val[g] = w
  <2>1. /\ IsMessage(T, m) /\ m.unknown = <<>>
        /\ m.val = [n.val EXCEPT ![g] = w]
    BY <1>1, <1>5, <1>7, WithIsMessage
  <2> QED
    BY <1>3, <1>5, <1>6, <1>7, <2>1
<1> QED
  BY <1>4, <1>5, <1>6, <1>7

\* The answers, one command after the other.
LEMMA Answers ==
  ASSUME IInv, reply # NoReply
  PROVE  /\ reply.cmd \in {"SEND_RESPONSE", "QUERY_FRIEND_RESPONSE",
                           "READ_NOTICE", "PULL_RESPONSE"}
         /\ reply.cmd = "SEND_RESPONSE" =>
              /\ reply.class = "OfflineMessageReq"
              /\ reply.msg.val["local_msg_id"]
                   = Asked("OfflineMessageReq", "local_msg_id")
         /\ reply.cmd = "QUERY_FRIEND_RESPONSE" =>
              /\ reply.class = "QueryFriendRes"
              /\ reply.msg.val["pk"] = Asked("QueryFriendReq", "pk")
              /\ reply.msg.val["exist"]
                   \in MayExist(Asked("QueryFriendReq", "pk"))
         /\ reply.cmd = "READ_NOTICE" =>
              reply.class = "OfflineMessageReadNotice"
         /\ reply.cmd # "PULL_RESPONSE" =>
              /\ reply.class \in Classes
              /\ IsMessage(reply.class, reply.msg)
              /\ reply.msg.unknown = <<>>
<1>1. task.input \in Seq(WireField)
  BY DEF IInv, ParseInv, TypeOK, TaskType
<1>2. /\ "OfflineMessageReq" \in Classes /\ "QueryFriendReq" \in Classes
      /\ "QueryFriendRes" \in Classes /\ "OfflineMessageReadNotice" \in Classes
      /\ "local_msg_id" \in Fields("OfflineMessageReq")
      /\ "pk" \in Fields("QueryFriendReq") /\ "pk" \in Fields("QueryFriendRes")
      /\ "exist" \in Fields("QueryFriendRes")
      /\ "latest_msg_id" \in Fields("OfflineMessageReadNotice")
      /\ Class["QueryFriendReq"]["pk"] = "bytes"
      /\ Class["QueryFriendRes"]["pk"] = "bytes"
      /\ Class["QueryFriendRes"]["exist"] = "uint32"
      /\ Class["OfflineMessageReadNotice"]["latest_msg_id"] = "uint64"
  BY DEF Classes, Class, Fields, OfflineMessageReq, QueryFriendReq,
     QueryFriendRes, OfflineMessageReadNotice
<1>3. \/ reply = [cmd |-> "SEND_RESPONSE", class |-> "OfflineMessageReq",
                  msg |-> With(Cleared("OfflineMessageReq"), "local_msg_id",
                               Asked("OfflineMessageReq", "local_msg_id"))]
      \/ \E exist \in MayExist(Asked("QueryFriendReq", "pk")) :
           reply = [cmd |-> "QUERY_FRIEND_RESPONSE", class |-> "QueryFriendRes",
                    msg |-> With(With(Cleared("QueryFriendRes"), "exist", exist),
                                 "pk", Asked("QueryFriendReq", "pk"))]
      \/ \E id \in 1 .. MaxRows :
           reply = [cmd |-> "READ_NOTICE", class |-> "OfflineMessageReadNotice",
                    msg |-> With(Cleared("OfflineMessageReadNotice"),
                                 "latest_msg_id", id)]
      \/ reply.cmd = "PULL_RESPONSE"
  BY DEF IInv, AnswerOK
<1>4. CASE reply = [cmd |-> "SEND_RESPONSE", class |-> "OfflineMessageReq",
                    msg |-> With(Cleared("OfflineMessageReq"), "local_msg_id",
                                 Asked("OfflineMessageReq", "local_msg_id"))]
  <2>1. PICK n \in ValuesOf[Class["OfflineMessageReq"]["local_msg_id"]] :
          n = Asked("OfflineMessageReq", "local_msg_id")
    BY <1>1, <1>2, MeaningType DEF Asked
  <2>2. PICK m : m = With(Cleared("OfflineMessageReq"), "local_msg_id", n)
    OBVIOUS
  <2>3. /\ IsMessage("OfflineMessageReq", m) /\ m.unknown = <<>>
        /\ m.val["local_msg_id"] = n
    BY <1>2, <2>2, SetMessage
  <2>4. reply = [cmd |-> "SEND_RESPONSE", class |-> "OfflineMessageReq", msg |-> m]
    BY <1>4, <2>1, <2>2
  <2> QED
    BY <1>2, <2>1, <2>3, <2>4
<1>5. ASSUME NEW exist \in MayExist(Asked("QueryFriendReq", "pk")),
             reply = [cmd |-> "QUERY_FRIEND_RESPONSE", class |-> "QueryFriendRes",
                      msg |-> With(With(Cleared("QueryFriendRes"), "exist",
                                        exist),
                                   "pk", Asked("QueryFriendReq", "pk"))]
      PROVE  /\ reply.cmd = "QUERY_FRIEND_RESPONSE"
             /\ reply.class = "QueryFriendRes"
             /\ reply.msg.val["pk"] = Asked("QueryFriendReq", "pk")
             /\ reply.msg.val["exist"] = exist
             /\ IsMessage(reply.class, reply.msg)
             /\ reply.msg.unknown = <<>>
  <2>1. PICK pk \in Strings : pk = Asked("QueryFriendReq", "pk")
    <3>1. ValuesOf["bytes"] = Strings
      BY DEF ValuesOf
    <3> QED
      BY <1>1, <1>2, <3>1, MeaningType DEF Asked
  <2>2. /\ exist \in ValuesOf[Class["QueryFriendRes"]["exist"]]
        /\ pk \in ValuesOf[Class["QueryFriendRes"]["pk"]]
    <3>1. exist \in {0, 1}
      BY DEF MayExist
    <3>2. /\ ValuesOf["bytes"] = Strings
          /\ ValuesOf["uint32"] = 0 .. Word32 - 1
      BY DEF ValuesOf
    <3> QED
      BY <1>2, <3>1, <3>2, CodecAssumption
  <2>3. PICK m : m = With(With(Cleared("QueryFriendRes"), "exist", exist),
                          "pk", pk)
    OBVIOUS
  <2>4. /\ IsMessage("QueryFriendRes", m) /\ m.unknown = <<>>
        /\ m.val["exist"] = exist /\ m.val["pk"] = pk
    BY <1>2, <2>2, <2>3, SetMessage
  <2>5. reply = [cmd |-> "QUERY_FRIEND_RESPONSE", class |-> "QueryFriendRes",
                 msg |-> m]
    BY <1>5, <2>1, <2>3
  <2> QED
    BY <2>1, <2>4, <2>5
<1>6. ASSUME NEW id \in 1 .. MaxRows,
             reply = [cmd |-> "READ_NOTICE", class |-> "OfflineMessageReadNotice",
                      msg |-> With(Cleared("OfflineMessageReadNotice"),
                                   "latest_msg_id", id)]
      PROVE  /\ reply.cmd = "READ_NOTICE"
             /\ reply.class = "OfflineMessageReadNotice"
             /\ IsMessage(reply.class, reply.msg)
             /\ reply.msg.unknown = <<>>
  <2>1. id \in ValuesOf[Class["OfflineMessageReadNotice"]["latest_msg_id"]]
    <3>1. ValuesOf["uint64"] = 0 .. 2 * Half - 1
      BY DEF ValuesOf
    <3> QED
      BY <1>2, <3>1, CodecAssumption, ExchangeAssumption
  <2>2. PICK m : m = With(Cleared("OfflineMessageReadNotice"), "latest_msg_id", id)
    OBVIOUS
  <2>3. IsMessage("OfflineMessageReadNotice", m) /\ m.unknown = <<>>
    BY <1>2, <2>1, <2>2, SetMessage
  <2> QED
    BY <1>6, <2>2, <2>3
<1>7. CASE reply.cmd = "PULL_RESPONSE"
  BY <1>7
<1> QED
  BY <1>2, <1>3, <1>4, <1>5, <1>6, <1>7

\* A SEND_RESPONSE is written as one class and read as another: its client still
\* reads the number of its own request (message_offline_recv).
THEOREM AcksAreNumbered == Spec => []AckNamesRequest
<1>1. ASSUME IInv, reply # NoReply, reply.cmd = "SEND_RESPONSE"
      PROVE  Parsed("OfflineMessageRes", Packet(reply)).val.local_msg_id
               = Asked("OfflineMessageReq", "local_msg_id")
  <2> DEFINE T == "OfflineMessageReq"
             R == "OfflineMessageRes"
             f == "local_msg_id"
  <2>1. /\ reply.class = T /\ T \in Classes /\ IsMessage(T, reply.msg)
        /\ reply.msg.unknown = <<>> /\ reply.msg.val[f] = Asked(T, f)
    BY <1>1, Answers
  <2>2. /\ f \in Fields(T) /\ f \in Fields(R)
        /\ Numbers[R][f] = Numbers[T][f] /\ Class[R][f] = Class[T][f]
    BY DEF Fields, Class, Numbers, OfflineMessageReq, OfflineMessageRes,
       OfflineMessageReqNumbers, OfflineMessageResNumbers
  <2>3. Packet(reply) = Serialized(T, reply.msg)
    BY <2>1 DEF Packet
  <2>4. ReadFrom(R, f, Serialized(T, reply.msg)) = reply.msg.val[f]
    BY <2>1, <2>2, ReadBack
  <2>5. Parsed(R, Packet(reply)).val[f] = ReadFrom(R, f, Packet(reply))
    BY <2>2 DEF Parsed, ReadFrom
  <2> QED
    BY <2>1, <2>3, <2>4, <2>5
<1>2. IInv => AckNamesRequest
  BY <1>1 DEF AckNamesRequest, Asked
<1> QED
  BY <1>2, Invariance, PTL

\* query_friend answers about the key in its packet, and what it says is so.
THEOREM FriendsAreTold == Spec => []QueryAnswersForKey
<1>1. ASSUME IInv, reply # NoReply, reply.cmd = "QUERY_FRIEND_RESPONSE"
      PROVE  LET got == Parsed("QueryFriendRes", Packet(reply)).val
                 pk == Asked("QueryFriendReq", "pk")
             IN /\ got.pk = pk
                /\ KeyOf[pk] # NoKey => (got.exist = 1 <=> KeyOf[pk] \in Friends)
  <2> DEFINE pk == Asked("QueryFriendReq", "pk")
  <2>1. /\ reply.class = "QueryFriendRes" /\ "QueryFriendRes" \in Classes
        /\ IsMessage("QueryFriendRes", reply.msg) /\ reply.msg.unknown = <<>>
        /\ reply.msg.val["pk"] = pk /\ reply.msg.val["exist"] \in MayExist(pk)
    BY <1>1, Answers
  <2>2. Packet(reply) = Serialized("QueryFriendRes", reply.msg)
    BY <2>1 DEF Packet
  <2>3. Parsed("QueryFriendRes", Packet(reply)).val = reply.msg.val
    <3>1. \A i \in 1 .. Len(reply.msg.unknown) :
            ~Known("QueryFriendRes", reply.msg.unknown[i])
      BY <2>1
    <3> QED
      BY <2>1, <2>2, <3>1, Roundtrip
  <2>4. KeyOf[pk] # NoKey =>
          (reply.msg.val["exist"] = 1 <=> KeyOf[pk] \in Friends)
    BY <2>1 DEF MayExist
  <2> QED
    BY <2>1, <2>3, <2>4
<1>2. IInv => QueryAnswersForKey
  BY <1>1 DEF QueryAnswersForKey, Asked
<1> QED
  BY <1>2, Invariance, PTL

\* The facts about an answer to a pull.
LEMMA PullAnswer ==
  ASSUME IInv, reply # NoReply, reply.cmd = "PULL_RESPONSE"
  PROVE  LET msgs == reply.msg.msg
         IN /\ reply.class = "OfflineMessagePullRes"
            /\ msgs \in Seq(Paged) /\ Len(msgs) \in 0 .. Limit
            /\ IsPage(reply.msg)
            /\ \A i \in 1 .. Len(msgs) : msgs[i].unknown = <<>>
            /\ reply.msg.left_count
                 = (Cardinality(Table!Addressed(rows, task.who)) - Len(msgs))
                     % Word32
            /\ OldestFirst(msgs, task.who)
            /\ MsgBytes(msgs) <= MaxBytes + Overhead * Len(msgs)
<1> DEFINE msgs == reply.msg.msg
           mine == Table!Addressed(rows, task.who)
<1>1. /\ reply = [cmd |-> "PULL_RESPONSE", class |-> "OfflineMessagePullRes",
                  msg |-> [msg |-> msgs, left_count |->
                    (Cardinality(mine) - Len(msgs)) % Word32]]
      /\ msgs \in Seq(Paged)
      /\ OldestFirst(msgs, task.who)
      /\ MsgBytes(msgs) <= MaxBytes + Overhead * Len(msgs)
  BY DEF IInv, AnswerOK
<1>2. /\ reply.class = "OfflineMessagePullRes"
      /\ reply.msg.left_count = (Cardinality(mine) - Len(msgs)) % Word32
  <2> HIDE DEF mine
  <2>1. PICK left, x :
          reply = [cmd |-> "PULL_RESPONSE", class |-> "OfflineMessagePullRes",
                   msg |-> [msg |-> x, left_count |-> left]]
          /\ left = (Cardinality(mine) - Len(msgs)) % Word32
    BY <1>1
  <2> QED
    BY <2>1
<1>3. Len(msgs) \in 0 .. Limit
  <2>1. Len(msgs) \in Nat
    BY <1>1
  <2>2. CASE Len(msgs) = 0
    BY <2>2, ExchangeAssumption
  <2>3. CASE Len(msgs) # 0
    <3>1. PICK r \in Table!Oldest(rows, task.who) :
            Rank(r, task.who) = Len(msgs)
      <4>1. Len(msgs) \in 1 .. Len(msgs)
        BY <2>1, <2>3
      <4> HIDE DEF msgs
      <4> QED
        BY <1>1, <4>1 DEF OldestFirst
    <3>2. Rank(r, task.who) <= Limit
      BY OldestFacts DEF IInv, ParseInv
    <3> QED
      BY <2>1, <3>1, <3>2, ExchangeAssumption
  <2> QED
    BY <2>2, <2>3
<1>4. \A i \in 1 .. Len(msgs) :
        IsMessage("OfflineMessage", msgs[i]) /\ msgs[i].unknown = <<>>
  BY <1>1, PagedIsMessage
<1>5. Cardinality(mine) \in Nat
  <2>1. mine \subseteq rows /\ IsFiniteSet(rows)
    BY DEF Table!Addressed, IInv, ParseInv, TypeOK, RowsType
  <2> HIDE DEF mine
  <2> QED
    BY <2>1, FS_Subset, FS_CardinalityType
<1>6. reply.msg.left_count \in 0 .. Word32 - 1
  <2>1. Cardinality(mine) - Len(msgs) \in Int
    BY <1>3, <1>5
  <2> HIDE DEF mine, msgs
  <2> QED
    BY <1>2, <2>1, Division, CodecAssumption
<1>7. IsPage(reply.msg)
  BY <1>3, <1>4, <1>6 DEF IsPage
<1> QED
  BY <1>1, <1>2, <1>3, <1>4, <1>7

\* The client reads the table's oldest rows, in order and column by column, and
\* the number of the others (message_offline_pull, get_list, get_count).
THEOREM PagesAreFaithful == Spec => []PageIsFaithful
<1>1. ASSUME IInv, reply # NoReply, reply.cmd = "PULL_RESPONSE"
      PROVE  LET got == PullResParsed(Packet(reply))
                 mine == Table!Addressed(rows, task.who)
             IN /\ \A i \in 1 .. Len(got.msg) : \E r \in mine :
                     /\ got.msg[i].val = MessageOf(r).val
                     /\ Cardinality({o \in mine : o.id <= r.id}) = i
                /\ got.left_count
                     = (Cardinality(mine) - Len(got.msg)) % Word32
  <2> DEFINE msgs == reply.msg.msg
             got == PullResParsed(Packet(reply))
             mine == Table!Addressed(rows, task.who)
  <2>1. /\ reply.class = "OfflineMessagePullRes" /\ IsPage(reply.msg)
        /\ \A i \in 1 .. Len(msgs) : msgs[i].unknown = <<>>
        /\ reply.msg.left_count = (Cardinality(mine) - Len(msgs)) % Word32
        /\ OldestFirst(msgs, task.who)
    BY <1>1, PullAnswer
  <2>2. Packet(reply) = PullResSerialized(reply.msg)
    BY <2>1 DEF Packet
  <2>3. /\ Len(got.msg) = Len(msgs)
        /\ \A i \in 1 .. Len(msgs) : got.msg[i].val = msgs[i].val
        /\ got.left_count = reply.msg.left_count
    BY <2>1, <2>2, PageRoundtrip
  <2>4. ASSUME NEW i \in 1 .. Len(msgs)
        PROVE  \E r \in mine : /\ got.msg[i].val = MessageOf(r).val
                               /\ Cardinality({o \in mine : o.id <= r.id}) = i
    <3>1. PICK r \in Table!Oldest(rows, task.who) :
            msgs[i] = MessageOf(r) /\ Rank(r, task.who) = i
      BY <2>1 DEF OldestFirst
    <3>2. r \in mine
      BY <3>1 DEF Table!Oldest
    <3>3. got.msg[i].val = MessageOf(r).val
      BY <2>3, <3>1
    <3> QED
      BY <3>1, <3>2, <3>3 DEF Rank
  <2> HIDE DEF got, mine, msgs
  <2> QED
    BY <2>1, <2>3, <2>4 DEF got, mine
<1>2. \A r : MessageOf(r).val
               = [local_msg_id |-> r.msg.local_msg_id, msg_id |-> r.id,
                  fr_pk |-> r.msg.fr_pk, to_pk |-> r.msg.to_pk,
                  content |-> r.msg.content, create_time |-> r.msg.create_time]
  BY DEF MessageOf
<1>3. IInv => PageIsFaithful
  BY <1>1, <1>2 DEF PageIsFaithful
<1> QED
  BY <1>3, Invariance, PTL

\* The buffer that is allocated for an answer is the one that is filled, and a
\* page goes into one packet.
THEOREM AnswersFitPackets == Spec => []AnswersFit
<1>1. ASSUME IInv, reply # NoReply
      PROVE  /\ Room(reply) = StreamSize(Packet(reply))
             /\ reply.cmd = "PULL_RESPONSE" => Room(reply) <= MaxPacket
  <2>1. CASE reply.cmd = "PULL_RESPONSE"
    <3> DEFINE msgs == reply.msg.msg
    <3>1. /\ reply.class = "OfflineMessagePullRes" /\ IsPage(reply.msg)
          /\ msgs \in Seq(Paged) /\ Len(msgs) \in 0 .. Limit
          /\ MsgBytes(msgs) <= MaxBytes + Overhead * Len(msgs)
      BY <1>1, <2>1, PullAnswer
    <3>2. /\ Packet(reply) = PullResSerialized(reply.msg)
          /\ Room(reply) = PullResByteSizeLong(reply.msg)
      BY <3>1 DEF Packet, Room
    <3>3. StreamSize(PullResSerialized(reply.msg))
            = PullResByteSizeLong(reply.msg)
      BY <3>1, PageSizeIsExact
    <3>4. PICK left \in 0 .. 11 :
            PullResByteSizeLong(reply.msg) = MsgBytes(msgs) + left
      <4>1. VarintSize(reply.msg.left_count) \in 1 .. 10
        BY <3>1, VarintSizeRange, CodecAssumption DEF IsPage
      <4>2. PullResByteSizeLong(reply.msg)
              = MsgBytes(msgs) + IF reply.msg.left_count = 0 THEN 0
                                 ELSE 1 + VarintSize(reply.msg.left_count)
        BY DEF PullResByteSizeLong, MsgBytes
      <4> QED
        BY <4>1, <4>2
    <3>5. MsgBytes(msgs) \in Nat
      BY <3>1, MsgBytesFacts
    <3>6. MsgBytes(msgs) + left <= MaxPacket
      <4>1. /\ Overhead = 11 /\ Limit \in Nat /\ MaxBytes \in Nat
            /\ MaxPacket \in Nat /\ MaxBytes + 11 * (Limit + 1) <= MaxPacket
        BY ExchangeAssumption, PacketAssumption DEF Overhead
      <4>2. PICK n \in 0 .. Limit : n = Len(msgs)
        BY <3>1
      <4>3. MsgBytes(msgs) <= MaxBytes + 11 * n
        BY <3>1, <4>1, <4>2
      <4>4. 11 * n + 11 <= 11 * (Limit + 1)
        BY <4>1, <4>2
      <4> HIDE DEF msgs
      <4> QED
        BY <3>4, <3>5, <4>1, <4>2, <4>3, <4>4
    <3> QED
      BY <3>2, <3>3, <3>4, <3>6
  <2>2. CASE reply.cmd # "PULL_RESPONSE"
    <3>1. reply.class \in Classes /\ IsMessage(reply.class, reply.msg)
      BY <1>1, <2>2, Answers
    <3>2. reply.class # "OfflineMessagePullRes"
      BY <3>1 DEF Classes, Class
    <3>3. /\ Packet(reply) = Serialized(reply.class, reply.msg)
          /\ Room(reply) = ByteSizeLong(reply.class, reply.msg)
      BY <3>2 DEF Packet, Room
    <3> QED
      BY <2>2, <3>1, <3>3, SizeIsExact
  <2> QED
    BY <2>1, <2>2
<1>2. IInv => AnswersFit
  BY <1>1 DEF AnswersFit
<1> QED
  BY <1>2, Invariance, PTL
=============================================================================
