-------------------------- MODULE OfflineMessageBot --------------------------
(***************************************************************************)
(* The bot's offline-message service: the callbacks that one thread runs   *)
(* from tox_iterate (main.cc), the table they keep in MySQL, and the       *)
(* clients and the Tox connections around them.                            *)
(*                                                                         *)
(* Bot: ConnectionUp (tox_friend_connection_status_callback), the cases of *)
(* friend_message_offline_cb, Crash (the process ends and is started again;*)
(* only the table survives).  A handler runs to its end before tox_iterate *)
(* dispatches the next event: handlers are single actions, except          *)
(* message_offline_pull, whose loop over the rows is one action per row;   *)
(* job holds its local variables, and no other handler starts while it     *)
(* runs.                                                                   *)
(*                                                                         *)
(* External: the Tox connection to a friend delivers in order while it     *)
(* lasts and loses what is under way when it breaks; the clients follow    *)
(* the protocol of message.proto.                                          *)
(***************************************************************************)
EXTENDS OfflineMessageModel, Sequences, Functions

CONSTANTS
  Bytes,        \* Bytes[m]: bytes_size() of the row that stores m
  MaxBytes,     \* max_size of message_offline_pull, 1024 in the code
  NoClient,     \* job.who while no pull is being answered
  MaxQueue,     \* bound: packets under way in one direction
  MaxSends,     \* bound: SEND requests in a behaviour
  MaxAsks,      \* bound: requests out of turn in a behaviour
  MaxConnects   \* bound: connection-status events in a behaviour

ASSUME SizeAssumption ==
  /\ Bytes \in [Messages -> Nat]
  /\ MaxBytes \in Nat
  /\ NoClient \notin Clients
  /\ MaxQueue \in Nat
  /\ MaxSends \in Nat
  /\ MaxAsks \in Nat
  /\ MaxConnects \in Nat

VARIABLES
  rows,      \* t_offline_message
  autoInc,   \* its AUTO_INCREMENT counter
  job,       \* the locals of message_offline_pull
  online,    \* friends whose connection status is not NONE
  toBot,     \* toBot[c]: requests under way from c, oldest first
  toClient,  \* toClient[c]: responses under way to c, oldest first
  acked,     \* messages whose sender was told that the bot has them
  received,  \* messages that have reached the client they are meant for
  lastRead,  \* lastRead[c]: id of the last row of the last page c received
  sends, asks, connects  \* bookkeeping for MaxSends, MaxAsks, MaxConnects

table == <<rows, autoInc>>
client == <<acked, received, lastRead>>
bounds == <<sends, asks, connects>>
vars == <<rows, autoInc, job, online, toBot, toClient, acked, received,
          lastRead, sends, asks, connects>>

Requests ==
  [cmd : {"SEND_REQUEST"}, msg : Messages]
    \cup [cmd : {"PULL_REQUEST", "INVALID"}]
    \cup [cmd : {"DEL_REQUEST"}, last : Nat]

(***************************************************************************)
(* asof is not on the wire: it is the counter's value when the page was    *)
(* made, for the properties to tell older rows from newer ones.            *)
(***************************************************************************)
Responses ==
  [cmd : {"SEND_RESPONSE"}, localId : Range(LocalId)]
    \cup [cmd : {"READ_NOTICE"}, latest : Ids]
    \cup [cmd : {"PULL_RESPONSE"}, page : SUBSET Row, left : Nat, asof : Ids]

Jobs ==
  [who : Clients \cup {NoClient}, todo : SUBSET Row, page : SUBSET Row,
   total : Nat, count : Nat]

Idle == [who |-> NoClient, todo |-> {}, page |-> {}, total |-> 0, count |-> 0]

(***************************************************************************)
(* The types; the table and the page in the making are finite.             *)
(***************************************************************************)
TypeOK ==
  /\ rows \in SUBSET Row
  /\ IsFiniteSet(rows)
  /\ autoInc \in Ids
  /\ job \in Jobs
  /\ IsFiniteSet(job.page)
  /\ online \in SUBSET Clients
  /\ toBot \in [Clients -> Seq(Requests)]
  /\ toClient \in [Clients -> Seq(Responses)]
  /\ acked \in SUBSET Messages
  /\ received \in SUBSET Messages
  /\ lastRead \in [Clients -> Nat]
  /\ sends \in Nat
  /\ asks \in Nat
  /\ connects \in Nat

Init ==
  /\ rows = {}
  /\ autoInc = 1
  /\ job = Idle
  /\ online = {}
  /\ toBot = [c \in Clients |-> <<>>]
  /\ toClient = [c \in Clients |-> <<>>]
  /\ acked = {}
  /\ received = {}
  /\ lastRead = [c \in Clients |-> 0]
  /\ sends = 0
  /\ asks = 0
  /\ connects = 0

-----------------------------------------------------------------------------
(* What the handlers share. *)

\* The client's next request, read and taken off its connection.
Dispatch(c, cmd) ==
  /\ job.who = NoClient
  /\ toBot[c] # <<>>
  /\ Head(toBot[c]).cmd = cmd
  /\ toBot' = [toBot EXCEPT ![c] = Tail(@)]

(***************************************************************************)
(* friend_send_message_offline: toxcore refuses the packet when the friend *)
(* is not connected or its send queue is full, and the bot only logs that. *)
(***************************************************************************)
Sent(up, c, response) ==
  IF c \in up /\ Len(toClient[c]) < MaxQueue
    THEN [toClient EXCEPT ![c] = Append(@, response)]
    ELSE toClient

Acknowledgement(m) == [cmd |-> "SEND_RESPONSE", localId |-> LocalId[m]]

Notice(id) == [cmd |-> "READ_NOTICE", latest |-> id]

-----------------------------------------------------------------------------
(* The bot. *)

(***************************************************************************)
(* tox_friend_connection_status_callback with a status other than NONE: a  *)
(* friend comes online, or one that is online changes between TCP and UDP. *)
(* The avatar it also offers is not part of this module's state.           *)
(***************************************************************************)
ConnectionUp(c) ==
  /\ job.who = NoClient
  /\ connects < MaxConnects
  /\ connects' = connects + 1
  /\ online' = online \cup {c}
  /\ \E id \in GetLatestId(rows, c) :
        toClient' = IF id = 0 THEN toClient ELSE Sent(online', c, Notice(id))
  /\ UNCHANGED <<table, job, toBot, client, sends, asks>>

\* Mutant of HandleSend: a row that the table refuses is not acknowledged.
HandleSendOfNew(c) ==
  /\ Dispatch(c, "SEND_REQUEST")
  /\ LET m == Head(toBot[c]).msg IN
     /\ \E outcome \in Add(rows, autoInc, m) :
           /\ rows' = outcome[1]
           /\ autoInc' = outcome[2]
     /\ toClient' = IF rows' = rows THEN toClient
                    ELSE Sent(online, c, Acknowledgement(m))
  /\ UNCHANGED <<job, online, client, bounds>>

\* message_offline_recv: the result of add is not looked at.
HandleSend(c) ==
  /\ Dispatch(c, "SEND_REQUEST")
  /\ LET m == Head(toBot[c]).msg IN
     /\ \E outcome \in Add(rows, autoInc, m) :
           /\ rows' = outcome[1]
           /\ autoInc' = outcome[2]
     /\ toClient' = Sent(online, c, Acknowledgement(m))
  /\ UNCHANGED <<job, online, client, bounds>>

\* message_offline_pull up to its loop: the two queries.
HandlePull(c) ==
  /\ Dispatch(c, "PULL_REQUEST")
  /\ \E list \in GetList(rows, c), count \in GetCount(rows, c) :
        job' = [who |-> c, todo |-> list, page |-> {}, total |-> 0,
                count |-> count]
  /\ UNCHANGED <<table, online, toClient, client, bounds>>

\* The size compared with max_size counts the rows left out before.
TotalWith(r) == job.total + Bytes[r.msg]

Fits(r) == TotalWith(r) < MaxBytes

\* Mutant of PullRow: a row that is left out is not counted.
PullRowSkipping ==
  /\ job.who # NoClient
  /\ \E r \in job.todo :
        /\ \A o \in job.todo : r.id <= o.id
        /\ job' = [job EXCEPT !.todo = @ \ {r},
                              !.total = IF Fits(r) THEN TotalWith(r) ELSE @,
                              !.page = IF Fits(r) THEN @ \cup {r} ELSE @]
  /\ UNCHANGED <<table, online, toBot, toClient, client, bounds>>

\* One iteration of the loop: the next row of the list, oldest first.
PullRow ==
  /\ job.who # NoClient
  /\ \E r \in job.todo :
        /\ \A o \in job.todo : r.id <= o.id
        /\ job' = [job EXCEPT !.todo = @ \ {r},
                              !.total = TotalWith(r),
                              !.page = IF Fits(r) THEN @ \cup {r} ELSE @]
  /\ UNCHANGED <<table, online, toBot, toClient, client, bounds>>

\* Mutant of LeftCount: not in uint32_t.
LeftCountSigned == job.count - Cardinality(job.page)

\* Mutant of LeftCount: a page shorter than the limit is taken for the last.
LeftCountOfShortPage ==
  IF Cardinality(job.page) < Limit
    THEN 0 ELSE (job.count - Cardinality(job.page)) % CountMod

\* total_count - count, in uint32_t.
LeftCount == (job.count - Cardinality(job.page)) % CountMod

\* message_offline_pull after its loop.
PullReply ==
  /\ job.who # NoClient
  /\ job.todo = {}
  /\ toClient' = Sent(online, job.who,
                      [cmd |-> "PULL_RESPONSE", page |-> job.page,
                       left |-> LeftCount, asof |-> autoInc])
  /\ job' = Idle
  /\ UNCHANGED <<table, online, toBot, client, bounds>>

\* message_offline_del
HandleDel(c) ==
  /\ Dispatch(c, "DEL_REQUEST")
  /\ rows' \in Del(rows, c, Head(toBot[c]).last)
  /\ UNCHANGED <<autoInc, job, online, toClient, client, bounds>>

\* An unknown command, or a payload that does not parse.
HandleInvalid(c) ==
  /\ Dispatch(c, "INVALID")
  /\ UNCHANGED <<table, job, online, toClient, client, bounds>>

(***************************************************************************)
(* The process ends, in a handler or between two, and is started again: it *)
(* has lost the pull it was answering and its connections, not the table.  *)
(***************************************************************************)
Crash ==
  /\ job' = Idle
  /\ online' = {}
  /\ toBot' = [c \in Clients |-> <<>>]
  /\ toClient' = [c \in Clients |-> <<>>]
  /\ UNCHANGED <<table, client, bounds>>

-----------------------------------------------------------------------------
(* The connections and the clients (external). *)

\* The connection to c breaks; the status callback does nothing for NONE.
Disconnect(c) ==
  /\ c \in online
  /\ online' = online \ {c}
  /\ toBot' = [toBot EXCEPT ![c] = <<>>]
  /\ toClient' = [toClient EXCEPT ![c] = <<>>]
  /\ UNCHANGED <<table, job, client, bounds>>

\* A client leaves a message, or repeats one that was not acknowledged.
ClientSends(m) ==
  LET c == From[m] IN
  /\ c \in online
  /\ m \notin acked
  /\ sends < MaxSends
  /\ Len(toBot[c]) < MaxQueue
  /\ sends' = sends + 1
  /\ toBot' = [toBot EXCEPT ![c] =
                 Append(@, [cmd |-> "SEND_REQUEST", msg |-> m])]
  /\ UNCHANGED <<table, job, online, toClient, client, asks, connects>>

(***************************************************************************)
(* A request out of turn: a pull no notice asked for, a deletion repeated  *)
(* or up to an older row than the last one read, a packet the bot cannot   *)
(* use.                                                                    *)
(***************************************************************************)
ClientAsks(c) ==
  /\ c \in online
  /\ Len(toBot[c]) < MaxQueue
  /\ asks < MaxAsks
  /\ asks' = asks + 1
  /\ \E r \in {[cmd |-> "PULL_REQUEST"], [cmd |-> "INVALID"]} \cup
        {[cmd |-> "DEL_REQUEST", last |-> last] : last \in 0 .. lastRead[c]} :
        toBot' = [toBot EXCEPT ![c] = Append(@, r)]
  /\ UNCHANGED <<table, job, online, toClient, client, sends, connects>>

\* The client takes the next response off its connection.
Receive(c, cmd) ==
  /\ toClient[c] # <<>>
  /\ Head(toClient[c]).cmd = cmd
  /\ toClient' = [toClient EXCEPT ![c] = Tail(@)]

\* A sender learns that the bot has the message with this number.
ReceiveAcknowledgement(c) ==
  /\ Receive(c, "SEND_RESPONSE")
  /\ acked' = acked \cup {m \in Messages :
                 From[m] = c /\ LocalId[m] = Head(toClient[c]).localId}
  /\ UNCHANGED <<table, job, online, toBot, received, lastRead, bounds>>

\* A notice makes the client pull.
ReceiveNotice(c) ==
  /\ Receive(c, "READ_NOTICE")
  /\ Len(toBot[c]) < MaxQueue
  /\ toBot' = [toBot EXCEPT ![c] = Append(@, [cmd |-> "PULL_REQUEST"])]
  /\ UNCHANGED <<table, job, online, client, bounds>>

AppendIf(queue, needed, request) ==
  IF needed THEN Append(queue, request) ELSE queue

(***************************************************************************)
(* The client keeps the messages of a page, has the bot delete them, and   *)
(* pulls again while the bot says that rows are left.                      *)
(***************************************************************************)
ReceivePage(c) ==
  /\ Receive(c, "PULL_RESPONSE")
  /\ Len(toBot[c]) + 2 <= MaxQueue
  /\ LET reply == Head(toClient[c])
         page == reply.page
     IN \E last \in IF page = {} THEN {0}
                    ELSE {p.id : p \in {x \in page :
                                          \A o \in page : o.id <= x.id}} :
          /\ received' = received \cup {p.msg : p \in page}
          /\ lastRead' = IF last = 0 THEN lastRead
                         ELSE [lastRead EXCEPT ![c] = last]
          /\ toBot' = [toBot EXCEPT ![c] =
               AppendIf(
                 AppendIf(@, last # 0, [cmd |-> "DEL_REQUEST", last |-> last]),
                 reply.left # 0, [cmd |-> "PULL_REQUEST"])]
  /\ UNCHANGED <<table, job, online, acked, bounds>>

-----------------------------------------------------------------------------
Handle(c) ==
  \/ HandleSend(c) \/ HandlePull(c) \/ HandleDel(c) \/ HandleInvalid(c)

ClientReceives(c) ==
  \/ ReceiveAcknowledgement(c) \/ ReceiveNotice(c) \/ ReceivePage(c)

Next ==
  \/ PullRow
  \/ PullReply
  \/ Crash
  \/ \E c \in Clients :
        \/ ConnectionUp(c)
        \/ Handle(c)
        \/ Disconnect(c)
        \/ ClientAsks(c)
        \/ ClientReceives(c)
  \/ \E m \in Messages : ClientSends(m)

Spec == Init /\ [][Next]_vars

(***************************************************************************)
(* main's loop calls tox_iterate for ever, every call dispatches what has  *)
(* arrived from every friend, and a handler that has started runs to its   *)
(* end.  A client that is connected reads what has reached it.             *)
(***************************************************************************)
Fairness ==
  /\ WF_vars(PullRow)
  /\ WF_vars(PullReply)
  /\ \A c \in Clients : SF_vars(Handle(c)) /\ WF_vars(ClientReceives(c))

LiveSpec == Spec /\ Fairness

-----------------------------------------------------------------------------
(* What the service promises. *)

(***************************************************************************)
(* DELETE takes every row up to an id, so the client must have received    *)
(* them all: no page skips a row and then goes on (the total_size test in  *)
(* message_offline_pull), whatever was stored, deleted, lost or repeated   *)
(* between the page and the request.                                       *)
(***************************************************************************)
DeletableIsReceived ==
  \A r \in rows : r.id <= lastRead[To[r.msg]] => r.msg \in received

(***************************************************************************)
(* No step takes a message out of the table before the client it is meant  *)
(* for has received it: message_offline_del never destroys the only copy.  *)
(***************************************************************************)
NoUnseenDeletion ==
  [][\A r \in rows \ rows' : r.msg \in received]_vars

(***************************************************************************)
(* A page that says left_count = 0 is the last one the client pulls for:   *)
(* it has then received every message that was in the table when the pull  *)
(* was answered.  An empty page after a failed query is the exception.     *)
(***************************************************************************)
FinalPageIsComplete ==
  \A c \in Clients : \A reply \in Range(toClient[c]) :
    /\ reply.cmd = "PULL_RESPONSE"
    /\ reply.left = 0
    /\ reply.page # {} \/ ~DbFaults
    => \A r \in Addressed(rows, c) :
          r.id < reply.asof => \/ r \in reply.page
                              \/ r.msg \in received

\* The table has message m, or its addressee.
Kept(m) == m \in received \/ \E r \in rows : r.msg = m

(***************************************************************************)
(* A message whose sender was told that the bot has it (the SEND_RESPONSE  *)
(* of message_offline_recv) is in the table until it has been received.    *)
(* Nothing is promised of a message that a column cannot hold: the INSERT  *)
(* is refused, nobody looks at the result, and the sender is told that the *)
(* bot has it.                                                             *)
(***************************************************************************)
AckedIsKept == \A m \in acked \ Unstorable : Kept(m)

(***************************************************************************)
(* A client that a READ_NOTICE has told of messages receives all that were *)
(* kept for it by then, unless its connection breaks first.                *)
(***************************************************************************)
Announced(r) ==
  \E notice \in Range(toClient[To[r.msg]]) :
    notice.cmd = "READ_NOTICE" /\ r.id <= notice.latest

AnnouncedIsReceived ==
  \A m \in Messages :
    (\E r \in rows : r.msg = m /\ Announced(r))
      ~> (m \in received \/ To[m] \notin online)

(***************************************************************************)
(* A request to keep a message is answered, and so is its repetition after *)
(* an answer that was lost: the sender learns that the bot has the message *)
(* unless its connection breaks first.                                     *)
(***************************************************************************)
SentIsAcked ==
  \A m \in Messages :
    ([cmd |-> "SEND_REQUEST", msg |-> m] \in Range(toBot[From[m]]))
      ~> (m \in acked \/ From[m] \notin online)

Mailbox == INSTANCE Mailbox WITH kept <- rows, seen <- received

(***************************************************************************)
(* The service is a mailbox: it takes messages in, hands them out oldest   *)
(* first, and discards only what has been read.                            *)
(***************************************************************************)
ImplementsMailbox == Mailbox!Spec

-----------------------------------------------------------------------------
(* The inductive invariant behind the safety properties. *)

\* The table's key: ids are below the counter and belong to one row.
TableOK ==
  /\ \A r \in rows : r.id < autoInc
  /\ \A r, s \in rows : r.id = s.id => r = s

\* Every row for c up to the last of S is in S.
NoGaps(c, S) ==
  \A p \in S : \A r \in Addressed(rows, c) : r.id <= p.id => r \in S

(***************************************************************************)
(* While no row was left out, the page and the rows to come have no gap;   *)
(* once one was, the page stays as it is.                                  *)
(***************************************************************************)
JobOK ==
  job.who # NoClient =>
    /\ job.page \cup job.todo \subseteq Addressed(rows, job.who)
    /\ NoGaps(job.who, job.page)
    /\ job.total < MaxBytes => NoGaps(job.who, job.page \cup job.todo)

\* What c may delete: every row for it up to id last has been received.
Covered(c, last) ==
  /\ last < autoInc
  /\ \A r \in Addressed(rows, c) : r.id <= last => r.msg \in received

\* A page under way to c.
PageOK(c, page) ==
  \A p \in page :
    /\ To[p.msg] = c
    /\ p.id < autoInc
    /\ p \in rows \/ p.msg \in received
    /\ \A r \in Addressed(rows, c) :
          r.id <= p.id => r \in page \/ r.msg \in received

PagesOK ==
  \A c \in Clients : \A reply \in Range(toClient[c]) :
    reply.cmd = "PULL_RESPONSE" => PageOK(c, reply.page)

DelsOK ==
  \A c \in Clients : \A request \in Range(toBot[c]) :
    request.cmd = "DEL_REQUEST" => Covered(c, request.last)

LastReadOK == \A c \in Clients : Covered(c, lastRead[c])

(***************************************************************************)
(* Nothing under way can make the bot delete what was not received: the    *)
(* pull in the making, the pages and the deletions on their way, and the   *)
(* last id that each client has read.                                      *)
(***************************************************************************)
IInv ==
  /\ TypeOK
  /\ TableOK
  /\ JobOK
  /\ PagesOK
  /\ DelsOK
  /\ LastReadOK
=============================================================================
