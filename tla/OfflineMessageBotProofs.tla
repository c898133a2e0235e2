----------------------- MODULE OfflineMessageBotProofs -----------------------
(***************************************************************************)
(* Proofs about OfflineMessageBot: it is type-correct, the inductive       *)
(* invariant IInv holds, and with it the safety properties; it implements  *)
(* Mailbox; an acknowledged message is kept where no statement fails and   *)
(* the clients' numbers differ, and the page that ends a client's pulling  *)
(* is complete.                                                            *)
(***************************************************************************)
EXTENDS OfflineMessageBot, FiniteSetTheorems, TLAPS

USE DEF Ids, Row

-----------------------------------------------------------------------------
(* Queues. *)

\* What Append does to a queue and to the set of its elements.
LEMMA AppendFacts ==
  ASSUME NEW S, NEW q \in Seq(S), NEW x \in S
  PROVE  /\ Append(q, x) \in Seq(S)
         /\ Range(Append(q, x)) \subseteq Range(q) \cup {x}
BY DEF Range

\* Taking the head off a queue leaves elements it had.
LEMMA TailFacts ==
  ASSUME NEW S, NEW q \in Seq(S), q # <<>>
  PROVE  /\ Head(q) \in S
         /\ Head(q) \in Range(q)
         /\ Tail(q) \in Seq(S)
         /\ Range(Tail(q)) \subseteq Range(q)
BY DEF Range

\* AppendIf adds the request or leaves the queue alone.
LEMMA AppendIfFacts ==
  ASSUME NEW S, NEW q \in Seq(S), NEW needed, NEW x, needed => x \in S
  PROVE  /\ AppendIf(q, needed, x) \in Seq(S)
         /\ \A y \in Range(AppendIf(q, needed, x)) :
               y \in Range(q) \/ (needed /\ y = x)
BY AppendFacts DEF AppendIf

\* The empty queue has no elements.
LEMMA EmptyRange == Range(<<>>) = {}
BY DEF Range

\* What a client asks for is a request.
LEMMA RequestTypes ==
  /\ \A m \in Messages : [cmd |-> "SEND_REQUEST", msg |-> m] \in Requests
  /\ [cmd |-> "PULL_REQUEST"] \in Requests
  /\ [cmd |-> "INVALID"] \in Requests
  /\ \A last \in Nat : [cmd |-> "DEL_REQUEST", last |-> last] \in Requests
  /\ \A q \in Requests : q.cmd = "SEND_REQUEST" => q.msg \in Messages
  /\ \A q \in Requests : q.cmd = "DEL_REQUEST" => q.last \in Nat
BY DEF Requests

\* What the bot sends is a response.
LEMMA ResponseTypes ==
  /\ \A m \in Messages : Acknowledgement(m) \in Responses
  /\ \A id \in Ids : Notice(id) \in Responses
  /\ \A page \in SUBSET Row, left \in Nat, asof \in Ids :
        [cmd |-> "PULL_RESPONSE", page |-> page, left |-> left,
         asof |-> asof] \in Responses
  /\ \A r \in Responses : r.cmd = "PULL_RESPONSE" =>
        r.page \in SUBSET Row /\ r.left \in Nat /\ r.asof \in Ids
<1>1. \A m \in Messages : LocalId[m] \in Range(LocalId)
  BY MessageAssumption DEF Range
<1> QED
  BY <1>1 DEF Responses, Acknowledgement, Notice

\* A handler takes the head of one queue and leaves the others alone.
LEMMA DispatchFacts ==
  ASSUME TypeOK, NEW c \in Clients, NEW cmd, Dispatch(c, cmd)
  PROVE  /\ toBot' \in [Clients -> Seq(Requests)]
         /\ \A d \in Clients : Range(toBot'[d]) \subseteq Range(toBot[d])
         /\ Head(toBot[c]) \in Requests
         /\ Head(toBot[c]) \in Range(toBot[c])
         /\ Head(toBot[c]).cmd = cmd
         /\ job.who = NoClient
<1>1. toBot[c] \in Seq(Requests) /\ toBot[c] # <<>>
  BY DEF TypeOK, Dispatch
<1> QED
  BY <1>1, TailFacts DEF TypeOK, Dispatch

\* So does a client.
LEMMA ReceiveFacts ==
  ASSUME TypeOK, NEW c \in Clients, NEW cmd, Receive(c, cmd)
  PROVE  /\ toClient' \in [Clients -> Seq(Responses)]
         /\ \A d \in Clients :
               Range(toClient'[d]) \subseteq Range(toClient[d])
         /\ Head(toClient[c]) \in Responses
         /\ Head(toClient[c]) \in Range(toClient[c])
         /\ Head(toClient[c]).cmd = cmd
<1>1. toClient[c] \in Seq(Responses) /\ toClient[c] # <<>>
  BY DEF TypeOK, Receive
<1> QED
  BY <1>1, TailFacts DEF TypeOK, Receive

\* A response is added to its addressee's queue or to none.
LEMMA SentFacts ==
  ASSUME TypeOK, NEW up, NEW c \in Clients, NEW response \in Responses
  PROVE  /\ Sent(up, c, response) \in [Clients -> Seq(Responses)]
         /\ \A d \in Clients : \A y \in Range(Sent(up, c, response)[d]) :
               y \in Range(toClient[d]) \/ (d = c /\ y = response)
<1>1. toClient[c] \in Seq(Responses)
  BY DEF TypeOK
<1> QED
  BY <1>1, AppendFacts DEF TypeOK, Sent

\* In terms of the step: what is new under way is the response.
LEMMA SendStep ==
  ASSUME TypeOK, NEW up, NEW c \in Clients, NEW response \in Responses,
         toClient' = Sent(up, c, response)
  PROVE  \A d \in Clients : \A y \in Range(toClient'[d]) :
           y \in Range(toClient[d]) \/ (d = c /\ y = response)
BY SentFacts

\* One more request in the queue of c.
LEMMA RequestedFacts ==
  ASSUME TypeOK, NEW c \in Clients, NEW q \in Requests,
         toBot' = [toBot EXCEPT ![c] = Append(@, q)]
  PROVE  /\ toBot' \in [Clients -> Seq(Requests)]
         /\ \A d \in Clients : \A y \in Range(toBot'[d]) :
               y \in Range(toBot[d]) \/ (d = c /\ y = q)
<1>1. toBot[c] \in Seq(Requests)
  BY DEF TypeOK
<1> QED
  BY <1>1, AppendFacts DEF TypeOK

-----------------------------------------------------------------------------
(* The statements. *)

\* What the methods of OfflineMessageModel return.
LEMMA ModelTypes ==
  ASSUME rows \in SUBSET Row, IsFiniteSet(rows), NEW c \in Clients
  PROVE  /\ GetLatestId(rows, c) \subseteq Nat
         /\ GetCount(rows, c) \subseteq Nat
         /\ GetList(rows, c) \subseteq SUBSET Addressed(rows, c)
<1>1. IsFiniteSet(Addressed(rows, c))
  BY FS_Subset DEF Addressed
<1>2. Cardinality(Addressed(rows, c)) % CountMod \in Nat
  BY <1>1, FS_CardinalityType, NumberAssumption
<1>3. GetLatestId(rows, c) \subseteq Nat
  BY DEF GetLatestId, Addressed
<1>4. GetCount(rows, c) \subseteq Nat
  BY <1>2 DEF GetCount
<1>5. GetList(rows, c) \subseteq SUBSET Addressed(rows, c)
  BY DEF GetList, Oldest
<1> QED
  BY <1>3, <1>4, <1>5

\* An INSERT adds the row, or it fails or is refused.
LEMMA AddFacts ==
  ASSUME autoInc \in Ids, NEW m \in Messages,
         NEW outcome \in Add(rows, autoInc, m)
  PROVE  \E r \in Row :
           /\ r.id = autoInc
           /\ r.msg = m
           /\ \/ /\ outcome[1] = rows \cup {r}
                 /\ outcome[2] = autoInc + 1
              \/ /\ outcome[1] = rows
                 /\ outcome[2] = autoInc \/ outcome[2] = autoInc + 1
                 /\ DbFaults \/ Collides(rows, m) \/ m \in Unstorable
<1>1. PICK r \in Row : r = [id |-> autoInc, msg |-> m]
  OBVIOUS
<1>2. CASE outcome = <<rows, autoInc>> /\ (DbFaults \/ m \in Unstorable)
  BY <1>1, <1>2
<1>3. CASE outcome = <<rows, autoInc + 1>> /\ Collides(rows, m)
  BY <1>1, <1>3
<1>4. CASE outcome = <<rows \cup {r}, autoInc + 1>>
  BY <1>1, <1>4
<1>5. \/ outcome = <<rows, autoInc>> /\ (DbFaults \/ m \in Unstorable)
      \/ outcome = <<IF Collides(rows, m)
                       THEN rows
                       ELSE rows \cup {[id |-> autoInc, msg |-> m]},
                     autoInc + 1>>
  BY DEF Add
<1> QED
  BY <1>1, <1>2, <1>3, <1>4, <1>5

-----------------------------------------------------------------------------
(* Type correctness. *)

\* The types hold at the start.
LEMMA TypeInit == Init => TypeOK
<1> SUFFICES ASSUME Init PROVE TypeOK
  OBVIOUS
<1>1. IsFiniteSet(rows) /\ IsFiniteSet(job.page)
  BY FS_EmptySet DEF Init, Idle
<1>2. job \in Jobs
  BY DEF Init, Idle, Jobs
<1> QED
  BY <1>1, <1>2 DEF Init, TypeOK

\* Every step keeps the types.
LEMMA TypeStep == TypeOK /\ [Next]_vars => TypeOK'
<1> SUFFICES ASSUME TypeOK, [Next]_vars PROVE TypeOK'
  OBVIOUS
<1>1. CASE PullRow
  <2>1. job' \in Jobs /\ IsFiniteSet(job'.page)
    <3>1. PICK r \in job.todo :
            job' = [job EXCEPT !.todo = @ \ {r}, !.total = TotalWith(r),
                               !.page = IF Fits(r) THEN @ \cup {r} ELSE @]
      BY <1>1 DEF PullRow
    <3>2. r \in Row /\ TotalWith(r) \in Nat
      BY SizeAssumption DEF TypeOK, Jobs, TotalWith
    <3>3. IsFiniteSet(job.page \cup {r})
      BY FS_AddElement DEF TypeOK
    <3> QED
      BY <3>1, <3>2, <3>3 DEF TypeOK, Jobs
  <2> QED
    BY <1>1, <2>1 DEF PullRow, TypeOK, table, client, bounds
<1>2. CASE PullReply
  <2>1. job.who \in Clients
    BY <1>2 DEF PullReply, TypeOK, Jobs
  <2>2. LeftCount \in Nat
    BY FS_CardinalityType, NumberAssumption DEF LeftCount, TypeOK, Jobs
  <2>3. [cmd |-> "PULL_RESPONSE", page |-> job.page, left |-> LeftCount,
         asof |-> autoInc] \in Responses
    BY <2>2, ResponseTypes DEF TypeOK, Jobs
  <2>4. toClient' \in [Clients -> Seq(Responses)]
    BY <1>2, <2>1, <2>3, SentFacts DEF PullReply
  <2>5. job' \in Jobs /\ IsFiniteSet(job'.page)
    BY <1>2, FS_EmptySet DEF PullReply, Idle, Jobs
  <2> QED
    BY <1>2, <2>4, <2>5 DEF PullReply, TypeOK, table, client, bounds
<1>3. CASE Crash
  <2>1. job' \in Jobs /\ IsFiniteSet(job'.page)
    BY <1>3, FS_EmptySet DEF Crash, Idle, Jobs
  <2> QED
    BY <1>3, <2>1 DEF Crash, TypeOK, table, client, bounds
<1>4. ASSUME NEW c \in Clients, ConnectionUp(c) PROVE TypeOK'
  <2>1. PICK id \in GetLatestId(rows, c) :
          toClient' = IF id = 0 THEN toClient ELSE Sent(online', c, Notice(id))
    BY <1>4 DEF ConnectionUp
  <2>2. id # 0 => Notice(id) \in Responses
    BY ModelTypes, ResponseTypes DEF TypeOK
  <2>3. toClient' \in [Clients -> Seq(Responses)]
    BY <2>1, <2>2, SentFacts DEF TypeOK
  <2>4. /\ online' = online \cup {c}
        /\ connects' = connects + 1
        /\ UNCHANGED <<table, job, toBot, client, sends, asks>>
    BY <1>4 DEF ConnectionUp
  <2> QED
    BY <2>3, <2>4 DEF TypeOK, table, client
<1>5. ASSUME NEW c \in Clients, HandleSend(c) PROVE TypeOK'
  <2> DEFINE m == Head(toBot[c]).msg
  <2>1. /\ toBot' \in [Clients -> Seq(Requests)]
        /\ m \in Messages
    BY <1>5, DispatchFacts, RequestTypes DEF HandleSend
  <2>2. toClient' \in [Clients -> Seq(Responses)]
    BY <1>5, <2>1, ResponseTypes, SentFacts DEF HandleSend
  <2>3. PICK outcome \in Add(rows, autoInc, m) :
          rows' = outcome[1] /\ autoInc' = outcome[2]
    BY <1>5 DEF HandleSend
  <2>4. PICK r \in Row :
          /\ rows' = rows \/ rows' = rows \cup {r}
          /\ autoInc' = autoInc \/ autoInc' = autoInc + 1
    <3>1. autoInc \in Ids
      BY DEF TypeOK
    <3> HIDE DEF m
    <3> QED
      BY <2>1, <2>3, <3>1, AddFacts
  <2>5. IsFiniteSet(rows \cup {r})
    BY FS_AddElement DEF TypeOK
  <2>6. IsFiniteSet(rows')
    BY <2>4, <2>5, Zenon DEF TypeOK
  <2>7. rows' \in SUBSET Row /\ autoInc' \in Ids
    BY <2>4 DEF TypeOK
  <2> QED
    BY <1>5, <2>1, <2>2, <2>6, <2>7 DEF HandleSend, TypeOK, client, bounds
<1>6. ASSUME NEW c \in Clients, HandlePull(c) PROVE TypeOK'
  <2>1. PICK list \in GetList(rows, c), count \in GetCount(rows, c) :
          job' = [who |-> c, todo |-> list, page |-> {}, total |-> 0,
                  count |-> count]
    BY <1>6 DEF HandlePull
  <2>2. list \in SUBSET Row /\ count \in Nat
    BY ModelTypes DEF TypeOK, Addressed
  <2>3. job' \in Jobs /\ IsFiniteSet(job'.page)
    BY <2>1, <2>2, FS_EmptySet DEF Jobs
  <2>4. toBot' \in [Clients -> Seq(Requests)]
    BY <1>6, DispatchFacts DEF HandlePull
  <2> QED
    BY <1>6, <2>3, <2>4 DEF HandlePull, TypeOK, table, client, bounds
<1>7. ASSUME NEW c \in Clients, HandleDel(c) PROVE TypeOK'
  <2>1. toBot' \in [Clients -> Seq(Requests)]
    BY <1>7, DispatchFacts DEF HandleDel
  <2>2. rows' \subseteq rows
    BY <1>7 DEF HandleDel, Del
  <2>3. rows' \in SUBSET Row /\ IsFiniteSet(rows')
    BY <2>2, FS_Subset DEF TypeOK
  <2> QED
    BY <1>7, <2>1, <2>3 DEF HandleDel, TypeOK, client, bounds
<1>8. ASSUME NEW c \in Clients, HandleInvalid(c) PROVE TypeOK'
  <2>1. toBot' \in [Clients -> Seq(Requests)]
    BY <1>8, DispatchFacts DEF HandleInvalid
  <2> QED
    BY <1>8, <2>1 DEF HandleInvalid, TypeOK, table, client, bounds
<1>9. ASSUME NEW c \in Clients, Disconnect(c) PROVE TypeOK'
  BY <1>9 DEF Disconnect, TypeOK, table, client, bounds
<1>10. ASSUME NEW c \in Clients, ClientAsks(c) PROVE TypeOK'
  <2>1. PICK q \in {[cmd |-> "PULL_REQUEST"], [cmd |-> "INVALID"]} \cup
          {[cmd |-> "DEL_REQUEST", last |-> last] :
             last \in 0 .. lastRead[c]} :
          toBot' = [toBot EXCEPT ![c] = Append(@, q)]
    BY <1>10 DEF ClientAsks
  <2>2. q \in Requests
    BY RequestTypes DEF TypeOK
  <2>3. toBot' \in [Clients -> Seq(Requests)]
    BY <2>1, <2>2, RequestedFacts
  <2> QED
    BY <1>10, <2>3 DEF ClientAsks, TypeOK, table, client
<1>11. ASSUME NEW c \in Clients, ReceiveAcknowledgement(c) PROVE TypeOK'
  <2>1. toClient' \in [Clients -> Seq(Responses)]
    BY <1>11, ReceiveFacts DEF ReceiveAcknowledgement
  <2> QED
    BY <1>11, <2>1 DEF ReceiveAcknowledgement, TypeOK, table, bounds
<1>12. ASSUME NEW c \in Clients, ReceiveNotice(c) PROVE TypeOK'
  <2>1. toClient' \in [Clients -> Seq(Responses)]
    BY <1>12, ReceiveFacts DEF ReceiveNotice
  <2>2. toBot' \in [Clients -> Seq(Requests)]
    BY <1>12, RequestTypes, RequestedFacts DEF ReceiveNotice
  <2> QED
    BY <1>12, <2>1, <2>2 DEF ReceiveNotice, TypeOK, table, client, bounds
<1>13. ASSUME NEW c \in Clients, ReceivePage(c) PROVE TypeOK'
  <2> DEFINE reply == Head(toClient[c])
             page == reply.page
             del(last) == [cmd |-> "DEL_REQUEST", last |-> last]
             pull == [cmd |-> "PULL_REQUEST"]
  <2>1. /\ toClient' \in [Clients -> Seq(Responses)]
        /\ page \in SUBSET Row
    BY <1>13, ReceiveFacts, ResponseTypes DEF ReceivePage
  <2>2. PICK last \in IF page = {} THEN {0}
                      ELSE {p.id : p \in {x \in page :
                                            \A o \in page : o.id <= x.id}} :
          /\ received' = received \cup {p.msg : p \in page}
          /\ lastRead' = IF last = 0 THEN lastRead
                         ELSE [lastRead EXCEPT ![c] = last]
          /\ toBot' = [toBot EXCEPT ![c] =
               AppendIf(AppendIf(@, last # 0, del(last)),
                        reply.left # 0, pull)]
    BY <1>13 DEF ReceivePage
  <2>3. last \in Nat
    BY <2>1
  <2>4. del(last) \in Requests /\ pull \in Requests
    BY <2>3, RequestTypes
  <2>5. AppendIf(toBot[c], last # 0, del(last)) \in Seq(Requests)
    BY <2>4, AppendIfFacts DEF TypeOK
  <2>6. AppendIf(AppendIf(toBot[c], last # 0, del(last)),
                 reply.left # 0, pull) \in Seq(Requests)
    BY <2>4, <2>5, AppendIfFacts
  <2>7. toBot' \in [Clients -> Seq(Requests)]
    BY <2>2, <2>6 DEF TypeOK
  <2>8. received' \in SUBSET Messages /\ lastRead' \in [Clients -> Nat]
    BY <2>1, <2>2, <2>3 DEF TypeOK
  <2> QED
    BY <1>13, <2>1, <2>7, <2>8 DEF ReceivePage, TypeOK, table, bounds
<1>14. ASSUME NEW m \in Messages, ClientSends(m) PROVE TypeOK'
  <2>1. toBot' \in [Clients -> Seq(Requests)]
    BY <1>14, MessageAssumption, RequestTypes, RequestedFacts DEF ClientSends
  <2> QED
    BY <1>14, <2>1 DEF ClientSends, TypeOK, table, client
<1>15. CASE UNCHANGED vars
  BY <1>15 DEF vars, TypeOK
<1> QED
  BY <1>1, <1>2, <1>3, <1>4, <1>5, <1>6, <1>7, <1>8, <1>9, <1>10, <1>11,
     <1>12, <1>13, <1>14, <1>15 DEF Next, Handle, ClientReceives

\* Every variable keeps its type: no count goes below zero, no page is
\* infinite, nothing but requests and responses is under way.
THEOREM TypeCorrect == Spec => []TypeOK
<1> QED
  BY TypeInit, TypeStep, PTL DEF Spec

-----------------------------------------------------------------------------
(* The inductive invariant.  A step keeps what holds of the requests and   *)
(* pages under way if it keeps Covered and PageOK.                         *)

Keeps ==
  /\ \A c \in Clients, last \in Nat : Covered(c, last) => Covered(c, last)'
  /\ \A c \in Clients, page \in SUBSET Row :
        PageOK(c, page) => PageOK(c, page)'

\* No new page, deletion or page end is under way but good ones.
LEMMA UnderWay ==
  ASSUME TypeOK, PagesOK, DelsOK, LastReadOK, Keeps,
         \A d \in Clients : \A y \in Range(toClient'[d]) :
           \/ y \in Range(toClient[d])
           \/ y.cmd = "PULL_RESPONSE" => PageOK(d, y.page)',
         \A d \in Clients : \A q \in Range(toBot'[d]) :
           \/ q \in Range(toBot[d])
           \/ q.cmd = "DEL_REQUEST" => Covered(d, q.last)',
         \A d \in Clients, k \in Nat :
           k = lastRead'[d] => k = lastRead[d] \/ Covered(d, k)',
         TypeOK'
  PROVE  PagesOK' /\ DelsOK' /\ LastReadOK'
<1>1. PagesOK'
  <2> SUFFICES ASSUME NEW d \in Clients, NEW y \in Range(toClient'[d]),
                      y.cmd = "PULL_RESPONSE"
               PROVE  PageOK(d, y.page)'
    BY DEF PagesOK
  <2>1. CASE y \in Range(toClient[d])
    <3>1. y \in Responses
      BY <2>1 DEF TypeOK, Range
    <3>2. PageOK(d, y.page) /\ y.page \in SUBSET Row
      BY <2>1, <3>1, ResponseTypes DEF PagesOK
    <3> QED
      BY <3>2 DEF Keeps
  <2> QED
    BY <2>1
<1>2. DelsOK'
  <2> SUFFICES ASSUME NEW d \in Clients, NEW q \in Range(toBot'[d]),
                      q.cmd = "DEL_REQUEST"
               PROVE  Covered(d, q.last)'
    BY DEF DelsOK
  <2>1. CASE q \in Range(toBot[d])
    <3>1. q \in Requests
      BY <2>1 DEF TypeOK, Range
    <3>2. Covered(d, q.last) /\ q.last \in Nat
      BY <2>1, <3>1, RequestTypes DEF DelsOK
    <3> QED
      BY <3>2 DEF Keeps
  <2> QED
    BY <2>1
<1>3. LastReadOK'
  <2> SUFFICES ASSUME NEW d \in Clients, NEW k \in Nat, k = lastRead'[d]
               PROVE  Covered(d, k)'
    BY DEF LastReadOK, TypeOK, Covered
  <2> QED
    BY DEF LastReadOK, Keeps
<1> QED
  BY <1>1, <1>2, <1>3

\* A step that leaves table and clients alone keeps everything.
LEMMA QuietKeeps ==
  ASSUME UNCHANGED <<rows, autoInc, received>>
  PROVE  /\ Keeps
         /\ TableOK => TableOK'
         /\ \A c, S : NoGaps(c, S) => NoGaps(c, S)'
BY DEF Keeps, TableOK, NoGaps, Covered, PageOK, Addressed

\* A new row is newer than everything that is covered or under way.
LEMMA AddKeeps ==
  ASSUME TypeOK, TableOK, NEW r \in Row, r.id = autoInc,
         rows' = rows \cup {r}, autoInc' = autoInc + 1,
         received' = received
  PROVE  Keeps /\ TableOK'
<1>1. TableOK'
  BY DEF TypeOK, TableOK
<1>2. ASSUME NEW c \in Clients, NEW last \in Nat, Covered(c, last)
      PROVE  Covered(c, last)'
  BY <1>2 DEF Covered, Addressed, TypeOK
<1>3. ASSUME NEW c \in Clients, NEW page \in SUBSET Row, PageOK(c, page)
      PROVE  PageOK(c, page)'
  BY <1>3 DEF PageOK, Addressed, TypeOK
<1> QED
  BY <1>1, <1>2, <1>3 DEF Keeps

\* Deleting what is covered takes no page's message away.
LEMMA DelKeeps ==
  ASSUME TypeOK, TableOK, NEW c \in Clients, NEW last \in Nat,
         Covered(c, last), rows' \in Del(rows, c, last),
         UNCHANGED <<autoInc, received>>
  PROVE  Keeps /\ TableOK'
<1>1. /\ rows' \subseteq rows
      /\ \A r \in rows \ rows' : r.msg \in received
  BY DEF Del, Covered, Addressed
<1>2. TableOK'
  BY <1>1 DEF TableOK
<1>3. ASSUME NEW d \in Clients, NEW k \in Nat, Covered(d, k)
      PROVE  Covered(d, k)'
  BY <1>1, <1>3 DEF Covered, Addressed
<1>4. ASSUME NEW d \in Clients, NEW page \in SUBSET Row, PageOK(d, page)
      PROVE  PageOK(d, page)'
  BY <1>1, <1>4 DEF PageOK, Addressed
<1> QED
  BY <1>2, <1>3, <1>4 DEF Keeps

\* Receiving more keeps what was covered.
LEMMA ReceivingKeeps ==
  ASSUME received \subseteq received', UNCHANGED <<rows, autoInc>>
  PROVE  /\ Keeps
         /\ TableOK => TableOK'
         /\ \A c, S : NoGaps(c, S) => NoGaps(c, S)'
BY DEF Keeps, TableOK, NoGaps, Covered, PageOK, Addressed

\* get_list returns a prefix of the client's rows in the order of their ids.
LEMMA ListIsPrefix ==
  ASSUME TypeOK, NEW c \in Clients, NEW list \in GetList(rows, c)
  PROVE  list \subseteq Addressed(rows, c) /\ NoGaps(c, list)
<1> DEFINE all == Addressed(rows, c)
           upTo(r) == {o \in all : o.id <= r.id}
<1>1. /\ rows \in SUBSET Row
      /\ IsFiniteSet(all)
  BY FS_Subset DEF TypeOK, Addressed
<1>2. ASSUME NEW p \in all, NEW r \in all, r.id <= p.id
      PROVE  Cardinality(upTo(r)) <= Cardinality(upTo(p))
  <2>1. upTo(r) \subseteq upTo(p) /\ upTo(p) \subseteq all
    BY <1>1, <1>2 DEF Addressed
  <2>2. IsFiniteSet(upTo(p))
    BY <1>1, <2>1, FS_Subset
  <2> QED
    BY <2>1, <2>2, FS_Subset
<1>3. \A r \in all : Cardinality(upTo(r)) \in Nat
  BY <1>1, FS_Subset, FS_CardinalityType
<1>4. Oldest(rows, c) \subseteq all
  BY DEF Oldest
<1>5. NoGaps(c, Oldest(rows, c))
  <2> SUFFICES ASSUME NEW p \in Oldest(rows, c), NEW r \in all, r.id <= p.id
               PROVE  r \in Oldest(rows, c)
    BY DEF NoGaps
  <2>1. Cardinality(upTo(p)) <= Limit
    BY DEF Oldest
  <2>2. Cardinality(upTo(r)) <= Limit
    <3> HIDE DEF upTo
    <3> QED
      BY <1>2, <1>3, <1>4, <2>1, NumberAssumption
  <2> QED
    BY <2>2 DEF Oldest
<1>6. CASE list = Oldest(rows, c)
  BY <1>4, <1>5, <1>6
<1>7. CASE \E cut \in Oldest(rows, c) :
             list = {r \in Oldest(rows, c) : r.id < cut.id}
  BY <1>1, <1>4, <1>5, <1>7 DEF NoGaps, Addressed
<1> QED
  BY <1>6, <1>7 DEF GetList

\* The inductive invariant holds at the start.
LEMMA InvInit == Init => IInv
<1> SUFFICES ASSUME Init PROVE IInv
  OBVIOUS
<1>1. TypeOK
  BY TypeInit
<1>2. PagesOK /\ DelsOK
  BY EmptyRange DEF Init, PagesOK, DelsOK
<1>3. TableOK /\ JobOK /\ LastReadOK
  BY DEF Init, TableOK, JobOK, Idle, LastReadOK, Covered, Addressed
<1> QED
  BY <1>1, <1>2, <1>3 DEF IInv

\* The job of a pull is kept by a step that changes neither it nor the rows.
LEMMA JobKept ==
  ASSUME JobOK, job' = job, rows' = rows
  PROVE  JobOK'
BY DEF JobOK, NoGaps, Addressed

\* No pull is being answered after the step.
LEMMA NoJob ==
  ASSUME job'.who = NoClient
  PROVE  JobOK'
BY DEF JobOK

\* Every step keeps the inductive invariant.
LEMMA InvStep == IInv /\ [Next]_vars => IInv'
<1> SUFFICES ASSUME IInv, [Next]_vars PROVE IInv'
  OBVIOUS
<1> USE DEF IInv
<1>0. TypeOK'
  BY TypeStep
<1>1. CASE PullRow
  <2>1. Keeps /\ TableOK'
    BY <1>1, QuietKeeps DEF PullRow, table, client
  <2>2. JobOK'
    <3>1. PICK r \in job.todo :
            /\ \A o \in job.todo : r.id <= o.id
            /\ job' = [job EXCEPT !.todo = @ \ {r}, !.total = TotalWith(r),
                                  !.page = IF Fits(r) THEN @ \cup {r} ELSE @]
      BY <1>1 DEF PullRow
    <3> DEFINE c == job.who
    <3>2. /\ c # NoClient
          /\ rows' = rows
          /\ job'.who = c
          /\ job'.todo = job.todo \ {r}
          /\ job'.total = job.total + Bytes[r.msg]
          /\ job'.page = IF Fits(r) THEN job.page \cup {r} ELSE job.page
      BY <1>1, <3>1 DEF PullRow, table, TypeOK, Jobs, TotalWith
    <3>3. /\ job.page \cup job.todo \subseteq Addressed(rows, c)
          /\ NoGaps(c, job.page)
          /\ job.total < MaxBytes => NoGaps(c, job.page \cup job.todo)
      BY <3>2 DEF JobOK
    <3>4. r \in rows /\ r \in Row
      BY <3>3 DEF Addressed, TypeOK
    <3>5. job'.total < MaxBytes => Fits(r) /\ job.total < MaxBytes
      BY <3>2, <3>4, SizeAssumption DEF Fits, TotalWith, TypeOK, Jobs
    <3>6. Fits(r) => job.total < MaxBytes
      BY <3>4, SizeAssumption DEF Fits, TotalWith, TypeOK, Jobs
    <3>7. CASE Fits(r)
      <4>1. job'.page = job.page \cup {r} /\ NoGaps(c, job.page \cup job.todo)
        BY <3>2, <3>3, <3>6, <3>7
      <4>2. NoGaps(c, job.page \cup {r})
        <5> SUFFICES ASSUME NEW p \in job.page \cup {r},
                            NEW x \in Addressed(rows, c), x.id <= p.id
                     PROVE  x \in job.page \cup {r}
          BY DEF NoGaps
        <5>1. CASE p \in job.page
          BY <5>1, <3>3 DEF NoGaps
        <5>2. CASE p = r
          <6>1. x \in job.page \/ x \in job.todo
            BY <4>1, <5>2 DEF NoGaps
          <6>2. CASE x \in job.todo
            <7>1. r.id <= x.id /\ x.id <= r.id
              BY <3>1, <5>2, <6>2
            <7>2. x \in rows /\ x.id \in Nat /\ r.id \in Nat
              BY <3>4 DEF Addressed, TypeOK
            <7> QED
              BY <3>4, <7>1, <7>2 DEF TableOK
          <6> QED
            BY <6>1, <6>2
        <5> QED
          BY <5>1, <5>2
      <4>3. job'.page \cup job'.todo = job.page \cup job.todo
        BY <3>2, <4>1
      <4>4. NoGaps(c, job'.page) /\ NoGaps(c, job'.page \cup job'.todo)
        BY <4>1, <4>2, <4>3
      <4>5. job'.page \cup job'.todo \subseteq Addressed(rows, c)
        BY <3>3, <4>3
      <4> QED
        BY <3>2, <4>4, <4>5 DEF JobOK, NoGaps, Addressed
    <3>8. CASE ~Fits(r)
      BY <3>2, <3>3, <3>5, <3>8 DEF JobOK, NoGaps, Addressed
    <3> QED
      BY <3>7, <3>8
  <2>3. PagesOK' /\ DelsOK' /\ LastReadOK'
    BY <1>0, <1>1, <2>1, UnderWay DEF PullRow, client
  <2> QED
    BY <1>0, <2>1, <2>2, <2>3
<1>2. CASE PullReply
  <2> DEFINE reply == [cmd |-> "PULL_RESPONSE", page |-> job.page,
                       left |-> LeftCount, asof |-> autoInc]
  <2>1. Keeps /\ TableOK'
    BY <1>2, QuietKeeps DEF PullReply, table, client
  <2>2. JobOK'
    BY <1>2, NoJob DEF PullReply, Idle
  <2>3. PICK c \in Clients, page \in SUBSET Row : c = job.who /\ page = job.page
    BY <1>2 DEF PullReply, TypeOK, Jobs
  <2>4. PICK sent \in Responses : sent = reply
    <3>1. LeftCount \in Nat
      BY FS_CardinalityType, NumberAssumption DEF LeftCount, TypeOK, Jobs
    <3> QED
      BY <3>1, ResponseTypes DEF TypeOK, Jobs
  <2>5. sent.page = page
    BY <2>3, <2>4
  <2>6. \A d \in Clients : \A y \in Range(toClient'[d]) :
          y \in Range(toClient[d]) \/ (d = c /\ y = sent)
    <3>1. toClient' = Sent(online, c, sent)
      BY <1>2, <2>3, <2>4 DEF PullReply
    <3> QED
      BY <3>1, SendStep
  <2>7. PageOK(c, page)'
    <3>1. page \subseteq Addressed(rows, c) /\ NoGaps(c, page)
      BY <2>3, SizeAssumption DEF JobOK
    <3>2. PageOK(c, page)
      BY <3>1 DEF PageOK, NoGaps, TableOK, Addressed
    <3> QED
      BY <2>1, <3>2 DEF Keeps
  <2>8. toBot' = toBot /\ lastRead' = lastRead
    BY <1>2 DEF PullReply, client
  <2>9. \A d \in Clients : \A y \in Range(toClient'[d]) :
          \/ y \in Range(toClient[d])
          \/ y.cmd = "PULL_RESPONSE" => PageOK(d, y.page)'
    BY <2>5, <2>6, <2>7 DEF PageOK
  <2>10. PagesOK' /\ DelsOK' /\ LastReadOK'
    BY <1>0, <2>1, <2>8, <2>9, UnderWay
  <2> QED
    BY <1>0, <2>1, <2>2, <2>10
<1>3. CASE Crash
  <2>1. Keeps /\ TableOK'
    BY <1>3, QuietKeeps DEF Crash, table, client
  <2>2. JobOK'
    BY <1>3, NoJob DEF Crash, Idle
  <2>3. PagesOK' /\ DelsOK' /\ LastReadOK'
    BY <1>0, <1>3, <2>1, UnderWay, EmptyRange DEF Crash, client
  <2> QED
    BY <1>0, <2>1, <2>2, <2>3
<1>4. ASSUME NEW c \in Clients, ConnectionUp(c) PROVE IInv'
  <2>1. Keeps /\ TableOK' /\ JobOK'
    BY <1>4, QuietKeeps, JobKept DEF ConnectionUp, table, client
  <2>2. PICK id \in GetLatestId(rows, c) :
          toClient' = IF id = 0 THEN toClient ELSE Sent(online', c, Notice(id))
    BY <1>4 DEF ConnectionUp
  <2>3. id # 0 => Notice(id) \in Responses
    BY ModelTypes, ResponseTypes DEF TypeOK
  <2>4. \A d \in Clients : \A y \in Range(toClient'[d]) :
          y \in Range(toClient[d]) \/ y.cmd = "READ_NOTICE"
    <3>1. CASE id = 0
      BY <2>2, <3>1
    <3>2. CASE id # 0
      <4>1. PICK sent \in Responses : sent = Notice(id)
        BY <2>3, <3>2
      <4>2. sent.cmd = "READ_NOTICE"
        BY <4>1 DEF Notice
      <4>3. toClient' = Sent(online', c, sent)
        BY <2>2, <3>2, <4>1
      <4> QED
        BY <4>2, <4>3, SendStep
    <3> QED
      BY <3>1, <3>2
  <2>5. toBot' = toBot /\ lastRead' = lastRead
    BY <1>4 DEF ConnectionUp, client
  <2>6. PagesOK' /\ DelsOK' /\ LastReadOK'
    BY <1>0, <2>1, <2>4, <2>5, UnderWay
  <2> QED
    BY <1>0, <2>1, <2>6
<1>5. ASSUME NEW c \in Clients, HandleSend(c) PROVE IInv'
  <2> DEFINE m == Head(toBot[c]).msg
  <2>1. /\ m \in Messages
        /\ job.who = NoClient
        /\ \A d \in Clients : Range(toBot'[d]) \subseteq Range(toBot[d])
    BY <1>5, DispatchFacts, RequestTypes DEF HandleSend
  <2>2. PICK outcome \in Add(rows, autoInc, m) :
          rows' = outcome[1] /\ autoInc' = outcome[2]
    BY <1>5 DEF HandleSend
  <2>3. Keeps /\ TableOK'
    <3>1. autoInc \in Ids /\ received' = received
      BY <1>5 DEF HandleSend, client, TypeOK
    <3> HIDE DEF m
    <3>2. PICK r \in Row :
            /\ r.id = autoInc
            /\ \/ rows' = rows \cup {r} /\ autoInc' = autoInc + 1
               \/ rows' = rows /\ autoInc' \in {autoInc, autoInc + 1}
      BY <2>1, <2>2, <3>1, AddFacts
    <3>3. CASE rows' = rows \cup {r} /\ autoInc' = autoInc + 1
      BY <3>1, <3>2, <3>3, AddKeeps
    <3>4. CASE rows' = rows /\ autoInc' \in {autoInc, autoInc + 1}
      BY <3>1, <3>4 DEF Keeps, TableOK, Covered, PageOK, Addressed, TypeOK
    <3> QED
      BY <3>2, <3>3, <3>4
  <2>4. JobOK'
    BY <1>5, <2>1, NoJob DEF HandleSend
  <2>5. \A d \in Clients : \A y \in Range(toClient'[d]) :
          y \in Range(toClient[d]) \/ y.cmd = "SEND_RESPONSE"
    <3>1. PICK sent \in Responses : sent = Acknowledgement(m)
      BY <2>1, ResponseTypes
    <3>2. sent.cmd = "SEND_RESPONSE"
      BY <3>1 DEF Acknowledgement
    <3>3. toClient' = Sent(online, c, sent)
      BY <1>5, <3>1 DEF HandleSend
    <3> QED
      BY <3>2, <3>3, SendStep
  <2>6. PagesOK' /\ DelsOK' /\ LastReadOK'
    BY <1>0, <1>5, <2>1, <2>3, <2>5, UnderWay DEF HandleSend, client
  <2> QED
    BY <1>0, <2>3, <2>4, <2>6
<1>6. ASSUME NEW c \in Clients, HandlePull(c) PROVE IInv'
  <2>1. Keeps /\ TableOK'
    BY <1>6, QuietKeeps DEF HandlePull, table, client
  <2>2. PICK list \in GetList(rows, c), count \in GetCount(rows, c) :
          job' = [who |-> c, todo |-> list, page |-> {}, total |-> 0,
                  count |-> count]
    BY <1>6 DEF HandlePull
  <2>3. JobOK'
    <3>1. list \subseteq Addressed(rows, c) /\ NoGaps(c, list)
      BY ListIsPrefix
    <3>2. rows' = rows
      BY <1>6 DEF HandlePull, table
    <3> QED
      BY <2>2, <3>1, <3>2 DEF JobOK, NoGaps, Addressed
  <2>4. \A d \in Clients : Range(toBot'[d]) \subseteq Range(toBot[d])
    BY <1>6, DispatchFacts DEF HandlePull
  <2>5. PagesOK' /\ DelsOK' /\ LastReadOK'
    BY <1>0, <1>6, <2>1, <2>4, UnderWay DEF HandlePull, client
  <2> QED
    BY <1>0, <2>1, <2>3, <2>5
<1>7. ASSUME NEW c \in Clients, HandleDel(c) PROVE IInv'
  <2> DEFINE last == Head(toBot[c]).last
  <2>1. /\ last \in Nat
        /\ Covered(c, last)
        /\ job.who = NoClient
        /\ \A d \in Clients : Range(toBot'[d]) \subseteq Range(toBot[d])
    BY <1>7, DispatchFacts, RequestTypes DEF HandleDel, DelsOK
  <2>2. rows' \in Del(rows, c, last) /\ UNCHANGED <<autoInc, received>>
    BY <1>7 DEF HandleDel, client
  <2>3. Keeps /\ TableOK'
    <3> HIDE DEF last
    <3> QED
      BY <2>1, <2>2, DelKeeps
  <2>4. JobOK'
    BY <1>7, <2>1, NoJob DEF HandleDel
  <2>5. PagesOK' /\ DelsOK' /\ LastReadOK'
    BY <1>0, <1>7, <2>1, <2>3, UnderWay DEF HandleDel, client
  <2> QED
    BY <1>0, <2>3, <2>4, <2>5
<1>8. ASSUME NEW c \in Clients, HandleInvalid(c) PROVE IInv'
  <2>1. Keeps /\ TableOK' /\ JobOK'
    BY <1>8, QuietKeeps, JobKept DEF HandleInvalid, table, client
  <2>2. \A d \in Clients : Range(toBot'[d]) \subseteq Range(toBot[d])
    BY <1>8, DispatchFacts DEF HandleInvalid
  <2>3. PagesOK' /\ DelsOK' /\ LastReadOK'
    BY <1>0, <1>8, <2>1, <2>2, UnderWay DEF HandleInvalid, client
  <2> QED
    BY <1>0, <2>1, <2>3
<1>9. ASSUME NEW c \in Clients, Disconnect(c) PROVE IInv'
  <2>1. Keeps /\ TableOK' /\ JobOK'
    BY <1>9, QuietKeeps, JobKept DEF Disconnect, table, client
  <2>2. \A d \in Clients : /\ Range(toBot'[d]) \subseteq Range(toBot[d])
                           /\ Range(toClient'[d]) \subseteq Range(toClient[d])
    BY <1>9, EmptyRange DEF Disconnect, TypeOK
  <2>3. PagesOK' /\ DelsOK' /\ LastReadOK'
    BY <1>0, <1>9, <2>1, <2>2, UnderWay DEF Disconnect, client
  <2> QED
    BY <1>0, <2>1, <2>3
<1>10. ASSUME NEW c \in Clients, ClientAsks(c) PROVE IInv'
  <2>1. Keeps /\ TableOK' /\ JobOK'
    BY <1>10, QuietKeeps, JobKept DEF ClientAsks, table, client
  <2>2. PICK q \in {[cmd |-> "PULL_REQUEST"], [cmd |-> "INVALID"]} \cup
          {[cmd |-> "DEL_REQUEST", last |-> last] :
             last \in 0 .. lastRead[c]} :
          toBot' = [toBot EXCEPT ![c] = Append(@, q)]
    BY <1>10 DEF ClientAsks
  <2>3. q \in Requests
    BY RequestTypes DEF TypeOK
  <2>4. q.cmd = "DEL_REQUEST" => Covered(c, q.last)'
    <3>1. lastRead[c] \in Nat /\ Covered(c, lastRead[c])
      BY DEF LastReadOK, TypeOK
    <3>2. \A last \in 0 .. lastRead[c] : Covered(c, last)
      BY <3>1 DEF Covered, Addressed, TypeOK
    <3>3. q.cmd = "DEL_REQUEST" => q.last \in 0 .. lastRead[c]
      OBVIOUS
    <3>4. q.cmd = "DEL_REQUEST" => Covered(c, q.last) /\ q.last \in Nat
      BY <3>1, <3>2, <3>3
    <3> QED
      BY <2>1, <3>4 DEF Keeps
  <2>5. \A d \in Clients : \A y \in Range(toBot'[d]) :
          y \in Range(toBot[d]) \/ (d = c /\ y = q)
    BY <2>2, <2>3, RequestedFacts
  <2>6. PagesOK' /\ DelsOK' /\ LastReadOK'
    BY <1>0, <1>10, <2>1, <2>4, <2>5, UnderWay DEF ClientAsks, client
  <2> QED
    BY <1>0, <2>1, <2>6
<1>11. ASSUME NEW c \in Clients, ReceiveAcknowledgement(c) PROVE IInv'
  <2>1. Keeps /\ TableOK' /\ JobOK'
    BY <1>11, QuietKeeps, JobKept DEF ReceiveAcknowledgement, table
  <2>2. \A d \in Clients : Range(toClient'[d]) \subseteq Range(toClient[d])
    BY <1>11, ReceiveFacts DEF ReceiveAcknowledgement
  <2>3. PagesOK' /\ DelsOK' /\ LastReadOK'
    BY <1>0, <1>11, <2>1, <2>2, UnderWay DEF ReceiveAcknowledgement
  <2> QED
    BY <1>0, <2>1, <2>3
<1>12. ASSUME NEW c \in Clients, ReceiveNotice(c) PROVE IInv'
  <2>1. Keeps /\ TableOK' /\ JobOK'
    BY <1>12, QuietKeeps, JobKept DEF ReceiveNotice, table, client
  <2>2. \A d \in Clients : Range(toClient'[d]) \subseteq Range(toClient[d])
    BY <1>12, ReceiveFacts DEF ReceiveNotice
  <2>3. \A d \in Clients : \A q \in Range(toBot'[d]) :
          q \in Range(toBot[d]) \/ q.cmd = "PULL_REQUEST"
    <3>1. PICK r \in Requests : r = [cmd |-> "PULL_REQUEST"]
      BY RequestTypes
    <3>2. r.cmd = "PULL_REQUEST"
      BY <3>1
    <3>3. toBot' = [toBot EXCEPT ![c] = Append(@, r)]
      BY <1>12, <3>1 DEF ReceiveNotice
    <3> QED
      BY <3>2, <3>3, RequestedFacts
  <2>4. PagesOK' /\ DelsOK' /\ LastReadOK'
    BY <1>0, <1>12, <2>1, <2>2, <2>3, UnderWay DEF ReceiveNotice, client
  <2> QED
    BY <1>0, <2>1, <2>4
<1>13. ASSUME NEW c \in Clients, ReceivePage(c) PROVE IInv'
  <2> DEFINE reply == Head(toClient[c])
             page == reply.page
             del(last) == [cmd |-> "DEL_REQUEST", last |-> last]
             pull == [cmd |-> "PULL_REQUEST"]
  <2>1. /\ page \in SUBSET Row
        /\ PageOK(c, page)
        /\ \A d \in Clients : Range(toClient'[d]) \subseteq Range(toClient[d])
    BY <1>13, ReceiveFacts, ResponseTypes DEF ReceivePage, PagesOK
  <2>2. PICK last \in IF page = {} THEN {0}
                      ELSE {p.id : p \in {x \in page :
                                            \A o \in page : o.id <= x.id}} :
          /\ received' = received \cup {p.msg : p \in page}
          /\ lastRead' = IF last = 0 THEN lastRead
                         ELSE [lastRead EXCEPT ![c] = last]
          /\ toBot' = [toBot EXCEPT ![c] =
               AppendIf(AppendIf(@, last # 0, del(last)),
                        reply.left # 0, pull)]
    BY <1>13 DEF ReceivePage
  <2>3. UNCHANGED <<rows, autoInc, job>>
    BY <1>13 DEF ReceivePage, table
  <2>4. Keeps /\ TableOK' /\ JobOK'
    BY <2>2, <2>3, ReceivingKeeps, JobKept
  <2>5. last \in Nat /\ (last # 0 => Covered(c, last)')
    <3>1. last # 0 => \E p \in page : p.id = last
      OBVIOUS
    <3> HIDE DEF page
    <3>2. last # 0 => Covered(c, last)'
      BY <2>1, <2>2, <2>3, <3>1 DEF PageOK, Covered, Addressed
    <3>3. last \in Nat
      BY <2>1, <3>1
    <3> QED
      BY <3>2, <3>3
  <2>6. \A d \in Clients : \A q \in Range(toBot'[d]) :
          \/ q \in Range(toBot[d])
          \/ q.cmd = "DEL_REQUEST" => Covered(d, q.last)'
    <3> DEFINE once == AppendIf(toBot[c], last # 0, del(last))
               twice == AppendIf(once, reply.left # 0, pull)
    <3>1. del(last) \in Requests /\ pull \in Requests
      BY <2>5, RequestTypes
    <3>2. /\ once \in Seq(Requests)
          /\ \A y \in Range(once) :
               y \in Range(toBot[c]) \/ (last # 0 /\ y = del(last))
      <4>1. PICK d \in Requests : d = del(last)
        BY <3>1
      <4>2. toBot[c] \in Seq(Requests)
        BY DEF TypeOK
      <4> HIDE DEF del
      <4> QED
        BY <4>1, <4>2, AppendIfFacts
    <3> HIDE DEF once
    <3>3. \A y \in Range(twice) : y \in Range(once) \/ y = pull
      BY <3>1, <3>2, AppendIfFacts
    <3>4. toBot' = [toBot EXCEPT ![c] = twice]
      BY <2>2 DEF once
    <3>5. del(last).cmd = "DEL_REQUEST" /\ del(last).last = last
      OBVIOUS
    <3>6. \A y \in Range(twice) :
            \/ y \in Range(toBot[c])
            \/ y.cmd = "DEL_REQUEST" => Covered(c, y.last)'
      <4> SUFFICES ASSUME NEW y \in Range(twice), y \notin Range(toBot[c]),
                          y.cmd = "DEL_REQUEST"
                   PROVE  Covered(c, y.last)'
        OBVIOUS
      <4>1. last # 0 /\ y.last = last
        BY <3>2, <3>3, <3>5
      <4> QED
        BY <2>5, <4>1 DEF Covered
    <3> HIDE DEF twice
    <3> QED
      BY <3>4, <3>6 DEF TypeOK
  <2>7. \A d \in Clients, k \in Nat :
          k = lastRead'[d] => k = lastRead[d] \/ Covered(d, k)'
    BY <2>2, <2>5 DEF TypeOK, Covered
  <2>8. PagesOK' /\ DelsOK' /\ LastReadOK'
    BY <1>0, <2>1, <2>4, <2>6, <2>7, UnderWay
  <2> QED
    BY <1>0, <2>4, <2>8
<1>14. ASSUME NEW m \in Messages, ClientSends(m) PROVE IInv'
  <2>1. Keeps /\ TableOK' /\ JobOK'
    BY <1>14, QuietKeeps, JobKept DEF ClientSends, table, client
  <2>2. \A d \in Clients : \A q \in Range(toBot'[d]) :
          q \in Range(toBot[d]) \/ q.cmd = "SEND_REQUEST"
    <3>1. PICK r \in Requests : r = [cmd |-> "SEND_REQUEST", msg |-> m]
      BY RequestTypes
    <3>2. r.cmd = "SEND_REQUEST"
      BY <3>1
    <3>3. PICK c \in Clients : c = From[m]
      BY MessageAssumption
    <3>4. toBot' = [toBot EXCEPT ![c] = Append(@, r)]
      BY <1>14, <3>1, <3>3 DEF ClientSends
    <3> QED
      BY <3>2, <3>4, RequestedFacts
  <2>3. PagesOK' /\ DelsOK' /\ LastReadOK'
    BY <1>0, <1>14, <2>1, <2>2, UnderWay DEF ClientSends, client
  <2> QED
    BY <1>0, <2>1, <2>3
<1>15. CASE UNCHANGED vars
  <2>1. Keeps /\ TableOK' /\ JobOK'
    BY <1>15, QuietKeeps, JobKept DEF vars
  <2>2. PagesOK' /\ DelsOK' /\ LastReadOK'
    BY <1>0, <1>15, <2>1, UnderWay DEF vars
  <2> QED
    BY <1>0, <2>1, <2>2
<1> QED
  BY <1>1, <1>2, <1>3, <1>4, <1>5, <1>6, <1>7, <1>8, <1>9, <1>10, <1>11,
     <1>12, <1>13, <1>14, <1>15 DEF Next, Handle, ClientReceives

\* The inductive invariant holds in every reachable state.
THEOREM Invariance == Spec => []IInv
<1> QED
  BY InvInit, InvStep, PTL DEF Spec

-----------------------------------------------------------------------------
(* What the invariant gives. *)

\* A client may have everything deleted up to the last row it has read: no
\* page of message_offline_pull skips a row, for any sizes and limits.
THEOREM ReadIsDeletable == Spec => []DeletableIsReceived
<1>1. IInv => DeletableIsReceived
  BY MessageAssumption
     DEF IInv, TypeOK, LastReadOK, Covered, Addressed, DeletableIsReceived
<1> QED
  BY <1>1, Invariance, PTL

\* Apart from message_offline_del no step takes a row away, and it takes
\* only what the requesting client has received.
LEMMA RemovedRows ==
  ASSUME IInv, Next
  PROVE  \/ rows \subseteq rows'
         \/ \E c \in Clients, last \in Nat :
               /\ rows' = {r \in rows : ~(r.id <= last /\ To[r.msg] = c)}
               /\ received' = received
               /\ Covered(c, last)
<1> USE DEF table
<1>1. CASE \E c \in Clients : HandleDel(c)
  <2>1. PICK c \in Clients : HandleDel(c)
    BY <1>1
  <2> DEFINE last == Head(toBot[c]).last
  <2>2. last \in Nat /\ Covered(c, last)
    BY <2>1, DispatchFacts, RequestTypes DEF HandleDel, IInv, DelsOK
  <2>3. rows' \in Del(rows, c, last) /\ received' = received
    BY <2>1 DEF HandleDel, client
  <2> QED
    BY <2>2, <2>3 DEF Del
<1>2. CASE \E c \in Clients : HandleSend(c)
  <2>1. PICK c \in Clients : HandleSend(c)
    BY <1>2
  <2>2. PICK outcome \in Add(rows, autoInc, Head(toBot[c]).msg) :
          rows' = outcome[1]
    BY <2>1 DEF HandleSend
  <2>3. rows \subseteq outcome[1]
    BY <2>2 DEF Add
  <2> QED
    BY <2>2, <2>3
<1>3. CASE ~ \E c \in Clients : HandleDel(c) \/ HandleSend(c)
  <2>1. rows' = rows
    BY <1>3 DEF Next, Handle, ClientReceives, PullRow, PullReply, Crash,
       ConnectionUp, HandlePull, HandleInvalid, Disconnect, ClientAsks,
       ReceiveAcknowledgement, ReceiveNotice, ReceivePage, ClientSends
  <2> QED
    BY <2>1
<1> QED
  BY <1>1, <1>2, <1>3

\* No message leaves the table unseen, whatever fails or is repeated.
THEOREM NothingLostUnseen == Spec => NoUnseenDeletion
<1>1. IInv /\ [Next]_vars => [\A r \in rows \ rows' : r.msg \in received]_vars
  <2> SUFFICES ASSUME IInv, Next, NEW r \in rows \ rows'
               PROVE  r.msg \in received
    OBVIOUS
  <2> QED
    BY RemovedRows DEF Covered, Addressed
<1> QED
  BY <1>1, Invariance, PTL DEF Spec, NoUnseenDeletion

-----------------------------------------------------------------------------
(* The service implements the mailbox. *)

\* A stored message is behind all the others.
LEMMA SendAccepts ==
  ASSUME IInv, NEW c \in Clients, HandleSend(c)
  PROVE  Mailbox!Next \/ UNCHANGED <<rows, received>>
<1> DEFINE m == Head(toBot[c]).msg
<1>1. m \in Messages /\ autoInc \in Ids /\ received' = received
  BY DispatchFacts, RequestTypes DEF HandleSend, IInv, TypeOK, client
<1>2. PICK outcome \in Add(rows, autoInc, m) : rows' = outcome[1]
  BY DEF HandleSend
<1> HIDE DEF m
<1>3. PICK r \in Row :
        /\ r.id = autoInc
        /\ rows' = rows \cup {r} \/ rows' = rows
  BY <1>1, <1>2, AddFacts
<1>4. CASE rows' = rows \cup {r}
  <2>1. \A o \in rows : o.id < r.id
    BY <1>3 DEF IInv, TableOK
  <2> QED
    BY <1>1, <1>4, <2>1 DEF Mailbox!Next, Mailbox!Accept
<1> QED
  BY <1>1, <1>3, <1>4

\* A deletion discards what has been seen, the oldest first.
LEMMA DelDiscards ==
  ASSUME IInv, NEW c \in Clients, HandleDel(c)
  PROVE  Mailbox!Next \/ UNCHANGED <<rows, received>>
<1> DEFINE last == Head(toBot[c]).last
<1>1. /\ last \in Nat
      /\ Covered(c, last)
      /\ rows' \in Del(rows, c, last)
      /\ received' = received
  BY DispatchFacts, RequestTypes DEF HandleDel, IInv, DelsOK, client
<1>2. rows \subseteq Row
  BY DEF IInv, TypeOK
<1> HIDE DEF last
<1>3. CASE rows' = {r \in rows : ~(r.id <= last /\ To[r.msg] = c)}
  <2>1. ASSUME NEW r \in rows \ rows'
        PROVE  /\ To[r.msg] = c
               /\ r.msg \in received
               /\ \A o \in rows : To[o.msg] = c /\ o.id <= r.id => o \notin rows'
    BY <1>1, <1>2, <1>3, <2>1 DEF Covered, Addressed
  <2>2. Mailbox!Discard(c)
    BY <1>1, <1>3, <2>1 DEF Mailbox!Discard, Mailbox!Held
  <2> QED
    BY <2>2 DEF Mailbox!Next
<1> QED
  BY <1>1, <1>3 DEF Del

\* A page hands a client its oldest messages.
LEMMA PageReads ==
  ASSUME IInv, NEW c \in Clients, ReceivePage(c)
  PROVE  Mailbox!Next
<1> DEFINE page == Head(toClient[c]).page
           handed == {p.msg : p \in page}
<1>1. /\ page \in SUBSET Row
      /\ PageOK(c, page)
  BY ReceiveFacts, ResponseTypes DEF ReceivePage, IInv, PagesOK
<1>2. received' = received \cup handed /\ rows' = rows
  BY DEF ReceivePage, table
<1> HIDE DEF page
<1>3. handed \in SUBSET Messages
  BY <1>1
<1>4. ASSUME NEW m \in handed \ received
      PROVE  \E r \in Addressed(rows, c) :
               /\ r.msg = m
               /\ \A o \in Addressed(rows, c) :
                     o.id <= r.id => o.msg \in received'
  <2>1. PICK p \in page : p.msg = m
    OBVIOUS
  <2>2. p \in Addressed(rows, c)
    BY <1>1, <2>1 DEF PageOK, Addressed
  <2>3. \A o \in Addressed(rows, c) : o.id <= p.id => o.msg \in received'
    BY <1>1, <1>2 DEF PageOK
  <2> QED
    BY <2>1, <2>2, <2>3
<1>5. Mailbox!Read(c)
  BY <1>2, <1>3, <1>4 DEF Mailbox!Read, Mailbox!Held, Addressed
<1> QED
  BY <1>5 DEF Mailbox!Next

\* The bot, its faults and its clients together are a mailbox: messages are
\* taken in, handed out oldest first, and discarded once they are seen.
THEOREM Implementation == Spec => ImplementsMailbox
<1>1. Init => Mailbox!Init
  BY DEF Init, Mailbox!Init
<1>2. IInv /\ [Next]_vars => [Mailbox!Next]_<<rows, received>>
  <2> SUFFICES ASSUME IInv, [Next]_vars
               PROVE  Mailbox!Next \/ UNCHANGED <<rows, received>>
    OBVIOUS
  <2>1. CASE \E c \in Clients : HandleSend(c)
    BY <2>1, SendAccepts
  <2>2. CASE \E c \in Clients : HandleDel(c)
    BY <2>2, DelDiscards
  <2>3. CASE \E c \in Clients : ReceivePage(c)
    BY <2>3, PageReads
  <2>4. CASE Next /\ ~ \E c \in Clients :
                         HandleSend(c) \/ HandleDel(c) \/ ReceivePage(c)
    BY <2>4 DEF Next, Handle, ClientReceives, PullRow, PullReply, Crash,
       ConnectionUp, HandlePull, HandleInvalid, Disconnect, ClientAsks,
       ReceiveAcknowledgement, ReceiveNotice, ClientSends, table, client
  <2>5. CASE UNCHANGED vars
    BY <2>5 DEF vars
  <2> QED
    BY <2>1, <2>2, <2>3, <2>4, <2>5
<1> QED
  BY <1>1, <1>2, Invariance, PTL DEF Spec, ImplementsMailbox, Mailbox!Spec

-----------------------------------------------------------------------------
(* Facts about any step. *)

\* received only grows.
LEMMA ReceivedGrows ==
  ASSUME IInv, Next
  PROVE  received \subseteq received'
<1>1. CASE \E c \in Clients : ReceivePage(c)
  BY <1>1 DEF ReceivePage
<1>2. CASE ~ \E c \in Clients : ReceivePage(c)
  BY <1>2 DEF Next, Handle, ClientReceives, PullRow, PullReply, Crash,
     ConnectionUp, HandleSend, HandlePull, HandleDel, HandleInvalid,
     Disconnect, ClientAsks, ReceiveAcknowledgement, ReceiveNotice,
     ClientSends, client
<1> QED
  BY <1>1, <1>2

\* What the bot has, it keeps until it is received.
LEMMA KeptStays ==
  ASSUME IInv, [Next]_vars, NEW m, Kept(m)
  PROVE  Kept(m)'
<1>1. CASE Next
  <2>1. received \subseteq received'
    BY <1>1, ReceivedGrows
  <2>2. \A r \in rows \ rows' : r.msg \in received
    BY <1>1, RemovedRows DEF Covered, Addressed
  <2> QED
    BY <2>1, <2>2 DEF Kept
<1>2. CASE UNCHANGED vars
  BY <1>2 DEF vars, Kept
<1> QED
  BY <1>1, <1>2

(***************************************************************************)
(* Where a response comes from: it was under way before, or it is a notice,*)
(* the page of the current pull, or the answer to a SEND request.          *)
(***************************************************************************)
LEMMA NewResponses ==
  ASSUME IInv, [Next]_vars, NEW d \in Clients, NEW y \in Range(toClient'[d]),
         y \notin Range(toClient[d])
  PROVE  \/ y.cmd = "READ_NOTICE"
         \/ /\ PullReply
            /\ d = job.who
            /\ y = [cmd |-> "PULL_RESPONSE", page |-> job.page,
                    left |-> LeftCount, asof |-> autoInc]
         \/ /\ HandleSend(d)
            /\ y = Acknowledgement(Head(toBot[d]).msg)
<1> USE DEF IInv
<1>1. CASE PullReply
  <2> DEFINE reply == [cmd |-> "PULL_RESPONSE", page |-> job.page,
                       left |-> LeftCount, asof |-> autoInc]
  <2>1. job.who \in Clients
    BY <1>1 DEF PullReply, TypeOK, Jobs
  <2>2. PICK sent \in Responses : sent = reply
    <3>1. LeftCount \in Nat
      BY FS_CardinalityType, NumberAssumption DEF LeftCount, TypeOK, Jobs
    <3> QED
      BY <3>1, ResponseTypes DEF TypeOK, Jobs
  <2>3. toClient' = Sent(online, job.who, sent)
    BY <1>1, <2>2 DEF PullReply
  <2>4. d = job.who /\ y = sent
    BY <2>1, <2>3, SendStep
  <2> QED
    BY <1>1, <2>2, <2>4
<1>2. CASE \E c \in Clients : ConnectionUp(c)
  <2>1. PICK c \in Clients : ConnectionUp(c)
    BY <1>2
  <2>2. PICK id \in GetLatestId(rows, c) :
          toClient' = IF id = 0 THEN toClient ELSE Sent(online', c, Notice(id))
    BY <2>1 DEF ConnectionUp
  <2>3. id # 0
    BY <2>2
  <2>4. PICK sent \in Responses : sent = Notice(id)
    <3>1. id \in Ids
      BY <2>3, ModelTypes DEF TypeOK
    <3>2. Notice(id) \in Responses
      BY <3>1, ResponseTypes
    <3> QED
      BY <3>2
  <2>5. toClient' = Sent(online', c, sent)
    BY <2>2, <2>3, <2>4
  <2>6. y = sent
    BY <2>5, SendStep
  <2> QED
    BY <2>4, <2>6 DEF Notice
<1>3. CASE \E c \in Clients : HandleSend(c)
  <2>1. PICK c \in Clients : HandleSend(c)
    BY <1>3
  <2> DEFINE m == Head(toBot[c]).msg
  <2>2. m \in Messages
    BY <2>1, DispatchFacts, RequestTypes DEF HandleSend
  <2>3. PICK sent \in Responses : sent = Acknowledgement(m)
    BY <2>2, ResponseTypes
  <2>4. toClient' = Sent(online, c, sent)
    BY <2>1, <2>3 DEF HandleSend
  <2>5. d = c /\ y = sent
    BY <2>4, SendStep
  <2> QED
    BY <2>1, <2>3, <2>5
<1>4. CASE /\ ~PullReply
           /\ ~ \E c \in Clients : ConnectionUp(c) \/ HandleSend(c)
  <2>1. CASE toClient' = toClient
    BY <2>1
  <2>2. CASE Crash \/ \E c \in Clients : Disconnect(c)
    BY <2>2, EmptyRange DEF Crash, Disconnect, TypeOK
  <2>3. CASE \E c \in Clients : ClientReceives(c)
    BY <2>3, ReceiveFacts DEF ClientReceives, ReceiveAcknowledgement,
       ReceiveNotice, ReceivePage
  <2> QED
    BY <1>4, <2>1, <2>2, <2>3 DEF Next, Handle, PullRow, HandlePull,
       HandleDel, HandleInvalid, ClientAsks, ClientSends, vars
<1> QED
  BY <1>1, <1>2, <1>3, <1>4

-----------------------------------------------------------------------------
(* Acknowledgements. *)

\* No two messages have the same number: what the UNIQUE KEY on
\* local_msg_id needs, and more than the clients can see to.
NumbersDiffer ==
  \A m, n \in Messages : LocalId[m] = LocalId[n] => m = n

\* Every acknowledgement under way is of messages that are kept, or that no
\* table could keep.
AcksOK ==
  \A c \in Clients : \A y \in Range(toClient[c]) :
    y.cmd = "SEND_RESPONSE" =>
      \A m \in Messages \ Unstorable :
        From[m] = c /\ LocalId[m] = y.localId => Kept(m)

AckInv == AcksOK /\ AckedIsKept

\* If the INSERT of a message that fits did not add it, it was there.
LEMMA StoredOrThere ==
  ASSUME NumbersDiffer, ~DbFaults, IInv, NEW c \in Clients, HandleSend(c),
         NEW n \in Messages \ Unstorable, n = Head(toBot[c]).msg
  PROVE  Kept(n)'
<1>1. autoInc \in Ids /\ rows \subseteq Row
  BY DEF IInv, TypeOK
<1>2. PICK outcome \in Add(rows, autoInc, n) : rows' = outcome[1]
  BY DEF HandleSend
<1>3. PICK r \in Row :
        /\ r.msg = n
        /\ rows' = rows \cup {r} \/ (rows' = rows /\ Collides(rows, n))
  BY <1>1, <1>2, AddFacts
<1>4. CASE rows' = rows \cup {r}
  BY <1>3, <1>4 DEF Kept
<1>5. CASE rows' = rows /\ Collides(rows, n)
  BY <1>1, <1>5 DEF Collides, NumbersDiffer, Kept
<1> QED
  BY <1>3, <1>4, <1>5

\* Every step keeps what AcknowledgedIsKept needs.
LEMMA AckStep ==
  ASSUME NumbersDiffer, ~DbFaults
  PROVE  IInv /\ AckInv /\ [Next]_vars => AckInv'
<1> SUFFICES ASSUME IInv, AckInv, [Next]_vars PROVE AckInv'
  OBVIOUS
<1> USE DEF AckInv
<1>1. AcksOK'
  <2> SUFFICES ASSUME NEW c \in Clients, NEW y \in Range(toClient'[c]),
                      y.cmd = "SEND_RESPONSE",
                      NEW m \in Messages \ Unstorable,
                      From[m] = c, LocalId[m] = y.localId
               PROVE  Kept(m)'
    BY DEF AcksOK
  <2>1. CASE y \in Range(toClient[c])
    BY <2>1, KeptStays DEF AcksOK
  <2>2. CASE y \notin Range(toClient[c])
    <3>1. /\ HandleSend(c)
          /\ y = Acknowledgement(Head(toBot[c]).msg)
      <4>1. y.cmd # "READ_NOTICE"
        OBVIOUS
      <4>2. y # [cmd |-> "PULL_RESPONSE", page |-> job.page,
                 left |-> LeftCount, asof |-> autoInc]
        OBVIOUS
      <4> QED
        BY <2>2, <4>1, <4>2, NewResponses
    <3>2. PICK n \in Messages : n = Head(toBot[c]).msg
      BY <3>1, DispatchFacts, RequestTypes DEF HandleSend, IInv
    <3>3. LocalId[n] = LocalId[m]
      BY <3>1, <3>2 DEF Acknowledgement
    <3>4. m = n
      BY <3>3 DEF NumbersDiffer
    <3> QED
      BY <3>1, <3>2, <3>4, StoredOrThere
  <2> QED
    BY <2>1, <2>2
<1>2. AckedIsKept'
  <2> SUFFICES ASSUME NEW m \in acked' \ Unstorable PROVE Kept(m)'
    BY DEF AckedIsKept
  <2>1. CASE m \in acked
    BY <2>1, KeptStays DEF AckedIsKept
  <2>2. CASE m \notin acked
    <3>1. PICK c \in Clients : ReceiveAcknowledgement(c)
      BY <2>2 DEF Next, Handle, ClientReceives, PullRow, PullReply, Crash,
         ConnectionUp, HandleSend, HandlePull, HandleDel, HandleInvalid,
         Disconnect, ClientAsks, ReceiveNotice, ReceivePage, ClientSends,
         client, vars
    <3>2. /\ m \in Messages
          /\ From[m] = c
          /\ LocalId[m] = Head(toClient[c]).localId
      BY <2>2, <3>1 DEF ReceiveAcknowledgement
    <3>3. /\ Head(toClient[c]) \in Range(toClient[c])
          /\ Head(toClient[c]).cmd = "SEND_RESPONSE"
      BY <3>1, ReceiveFacts DEF ReceiveAcknowledgement, IInv
    <3>4. Kept(m)
      BY <3>2, <3>3 DEF AcksOK
    <3> QED
      BY <3>4, KeptStays
  <2> QED
    BY <2>1, <2>2
<1> QED
  BY <1>1, <1>2

\* What a sender was told is true of every message that the columns can hold,
\* if no statement fails and no two messages bear the same number, though the
\* bot never looks at the result of add.
THEOREM AcknowledgedIsKept ==
  ASSUME NumbersDiffer, ~DbFaults
  PROVE  Spec => []AckedIsKept
<1>1. Init => AckInv
  BY EmptyRange DEF Init, AckInv, AcksOK, AckedIsKept
<1>2. IInv /\ AckInv /\ [Next]_vars => AckInv'
  BY AckStep
<1>3. AckInv => AckedIsKept
  BY DEF AckInv
<1> QED
  BY <1>1, <1>2, <1>3, Invariance, PTL DEF Spec

-----------------------------------------------------------------------------
(* The last page. *)

\* In 32 bits the difference of two counts is 0 only if they are equal.
LEMMA NothingLeft ==
  ASSUME NEW n \in Nat, NEW p \in Nat, n < CountMod, p < CountMod,
         (n - p) % CountMod = 0
  PROVE  n = p
<1>1. CountMod \in Nat /\ CountMod > 0
  BY NumberAssumption
<1>2. CASE n - p >= 0
  <2>1. (n - p) % CountMod = n - p
    BY <1>1, <1>2
  <2> QED
    BY <2>1
<1>3. CASE n - p < 0
  <2>1. (n - p) % CountMod = n - p + CountMod
    BY <1>1, <1>3
  <2> QED
    BY <1>1, <2>1
<1> QED
  BY <1>2, <1>3

\* The table has fewer rows than a uint32_t can count.
Countable == Cardinality(rows) < CountMod

\* The number of rows the current pull found, unless the query failed.
CountOK ==
  job.who # NoClient =>
    \/ job.count = Cardinality(Addressed(rows, job.who))
    \/ DbFaults /\ job.count = 0

\* Every final page under way is complete, and as old as it says.
FinalsOK ==
  \A c \in Clients : \A reply \in Range(toClient[c]) :
    reply.cmd = "PULL_RESPONSE" =>
      /\ reply.asof <= autoInc
      /\ reply.left = 0 /\ (reply.page # {} \/ ~DbFaults) =>
           \A r \in Addressed(rows, c) :
             r.id < reply.asof => r \in reply.page \/ r.msg \in received

FinalInv == CountOK /\ FinalsOK

\* A row that is new has the id that was next.
LEMMA NewRows ==
  ASSUME IInv, [Next]_vars
  PROVE  /\ \A r \in rows' \ rows : r.id = autoInc
         /\ autoInc <= autoInc'
<1>1. CASE \E c \in Clients : HandleSend(c)
  <2>1. PICK c \in Clients : HandleSend(c)
    BY <1>1
  <2>2. PICK m \in Messages : m = Head(toBot[c]).msg
    BY <2>1, DispatchFacts, RequestTypes DEF HandleSend, IInv
  <2>3. PICK outcome \in Add(rows, autoInc, m) :
          rows' = outcome[1] /\ autoInc' = outcome[2]
    BY <2>1, <2>2 DEF HandleSend
  <2>4. autoInc \in Ids
    BY DEF IInv, TypeOK
  <2> QED
    BY <2>3, <2>4, AddFacts
<1>2. CASE \E c \in Clients : HandleDel(c)
  BY <1>2 DEF HandleDel, Del, IInv, TypeOK
<1>3. CASE ~ \E c \in Clients : HandleSend(c) \/ HandleDel(c)
  <2>1. rows' = rows /\ autoInc' = autoInc
    BY <1>3 DEF Next, Handle, ClientReceives, PullRow, PullReply, Crash,
       ConnectionUp, HandlePull, HandleInvalid, Disconnect, ClientAsks,
       ReceiveAcknowledgement, ReceiveNotice, ReceivePage, ClientSends,
       table, vars
  <2>2. autoInc \in Nat
    BY DEF IInv, TypeOK
  <2> QED
    BY <2>1, <2>2
<1> QED
  BY <1>1, <1>2, <1>3

\* Every step keeps the counted rows of a pull.
LEMMA CountStep ==
  ASSUME IInv, CountOK, Countable, [Next]_vars
  PROVE  CountOK'
<1>1. CASE \E c \in Clients : HandlePull(c)
  <2>1. PICK c \in Clients : HandlePull(c)
    BY <1>1
  <2>2. PICK list \in GetList(rows, c), count \in GetCount(rows, c) :
          job' = [who |-> c, todo |-> list, page |-> {}, total |-> 0,
                  count |-> count]
    BY <2>1 DEF HandlePull
  <2> DEFINE n == Cardinality(Addressed(rows, c))
  <2>3. n \in Nat /\ n < CountMod
    <3>1. IsFiniteSet(rows) /\ Addressed(rows, c) \subseteq rows
      BY DEF IInv, TypeOK, Addressed
    <3>2. /\ IsFiniteSet(Addressed(rows, c))
          /\ Cardinality(Addressed(rows, c)) <= Cardinality(rows)
      BY <3>1, FS_Subset
    <3> QED
      BY <3>1, <3>2, FS_CardinalityType, NumberAssumption DEF Countable
  <2>4. n % CountMod = n
    <3> HIDE DEF n
    <3> QED
      BY <2>3, NumberAssumption
  <2>5. count = n \/ (DbFaults /\ count = 0)
    BY <2>4 DEF GetCount
  <2>6. rows' = rows /\ job'.who = c /\ job'.count = count
    BY <2>1, <2>2 DEF HandlePull, table
  <2> QED
    BY <2>5, <2>6 DEF CountOK
<1>2. CASE PullRow
  <2>1. job'.who = job.who /\ job'.count = job.count
    BY <1>2 DEF PullRow, IInv, TypeOK, Jobs
  <2>2. rows' = rows
    BY <1>2 DEF PullRow, table
  <2> QED
    BY <2>1, <2>2 DEF CountOK
<1>3. CASE PullReply \/ Crash
  BY <1>3 DEF PullReply, Crash, Idle, CountOK
<1>4. CASE job' = job /\ rows' = rows
  BY <1>4 DEF CountOK
<1>5. CASE \E c \in Clients : HandleSend(c) \/ HandleDel(c)
  BY <1>5 DEF HandleSend, HandleDel, Dispatch, CountOK
<1> QED
  BY <1>1, <1>2, <1>3, <1>4, <1>5 DEF Next, Handle, ClientReceives,
     ConnectionUp, HandleInvalid, Disconnect, ClientAsks,
     ReceiveAcknowledgement, ReceiveNotice, ReceivePage, ClientSends,
     table, vars

\* The page of the current pull, if it will say that nothing is left.
LEMMA LastPage ==
  ASSUME IInv, CountOK, Countable, job.who # NoClient, LeftCount = 0,
         job.page # {} \/ ~DbFaults
  PROVE  job.page = Addressed(rows, job.who)
<1> DEFINE all == Addressed(rows, job.who)
           n == Cardinality(all)
           p == Cardinality(job.page)
<1>1. job.page \subseteq all /\ job.count \in Nat
  BY DEF IInv, JobOK, TypeOK, Jobs
<1>2. IsFiniteSet(rows) /\ all \subseteq rows
  BY DEF IInv, TypeOK, Addressed
<1>3. IsFiniteSet(all) /\ n <= Cardinality(rows)
  BY <1>2, FS_Subset
<1>4. IsFiniteSet(job.page) /\ p <= n /\ (p = n => job.page = all)
  BY <1>1, <1>3, FS_Subset
<1>5. n \in Nat /\ p \in Nat /\ Cardinality(rows) \in Nat
  BY <1>2, <1>3, <1>4, FS_CardinalityType
<1>6. n < CountMod /\ p < CountMod
  BY <1>3, <1>4, <1>5, NumberAssumption DEF Countable
<1>7. job.count = n \/ (DbFaults /\ job.count = 0)
  BY DEF CountOK
<1>8. job.count = p
  <2>1. job.count < CountMod /\ (job.count - p) % CountMod = 0
    BY <1>6, <1>7, NumberAssumption DEF LeftCount
  <2> HIDE DEF p, n
  <2> QED
    BY <1>1, <1>5, <1>6, <2>1, NothingLeft
<1>9. CASE job.count = n
  BY <1>4, <1>8, <1>9
<1>10. CASE DbFaults /\ job.count = 0
  <2>1. p = 0
    BY <1>8, <1>10
  <2>2. job.page = {}
    BY <1>4, <2>1, FS_EmptySet
  <2> QED
    BY <1>10, <2>2
<1> QED
  BY <1>7, <1>9, <1>10

\* Every step keeps what FinalPages needs.
LEMMA FinalStep == IInv /\ FinalInv /\ Countable /\ [Next]_vars => FinalInv'
<1> SUFFICES ASSUME IInv, FinalInv, Countable, [Next]_vars PROVE FinalInv'
  OBVIOUS
<1> USE DEF FinalInv
<1>1. CountOK'
  BY CountStep
<1>2. autoInc \in Nat /\ autoInc' \in Nat /\ rows' \subseteq Row
  BY TypeStep DEF IInv, TypeOK
<1>3. received \subseteq received'
  BY ReceivedGrows DEF vars
<1>4. FinalsOK'
  <2> SUFFICES ASSUME NEW c \in Clients, NEW reply \in Range(toClient'[c]),
                      reply.cmd = "PULL_RESPONSE"
               PROVE  /\ reply.asof <= autoInc'
                      /\ reply.left = 0 /\ (reply.page # {} \/ ~DbFaults) =>
                           \A r \in Addressed(rows', c) :
                             r.id < reply.asof =>
                               r \in reply.page \/ r.msg \in received'
    BY DEF FinalsOK, Addressed
  <2>1. CASE reply \in Range(toClient[c])
    <3>1. reply.asof \in Nat
      <4>1. reply \in Responses
        BY <2>1 DEF IInv, TypeOK, Range
      <4> QED
        BY <4>1, ResponseTypes
    <3>2. reply.asof <= autoInc
      BY <2>1 DEF FinalsOK
    <3>3. \A r \in Addressed(rows', c) :
            r.id < reply.asof => r \in Addressed(rows, c)
      BY <1>2, <3>1, <3>2, NewRows DEF Addressed
    <3> QED
      BY <1>2, <1>3, <2>1, <3>1, <3>2, <3>3, NewRows DEF FinalsOK
  <2>2. CASE reply \notin Range(toClient[c])
    <3>1. /\ PullReply
          /\ c = job.who
          /\ reply = [cmd |-> "PULL_RESPONSE", page |-> job.page,
                      left |-> LeftCount, asof |-> autoInc]
      <4>1. reply.cmd # "READ_NOTICE"
        OBVIOUS
      <4>2. \A n : reply # Acknowledgement(n)
        BY DEF Acknowledgement
      <4> QED
        BY <2>2, <4>1, <4>2, NewResponses
    <3>2. /\ reply.page = job.page
          /\ reply.left = LeftCount
          /\ reply.asof = autoInc
      BY <3>1
    <3>3. rows' = rows /\ autoInc' = autoInc
      BY <3>1 DEF PullReply, table
    <3>4. job.who # NoClient
      BY <3>1 DEF PullReply
    <3>5. LeftCount = 0 /\ (job.page # {} \/ ~DbFaults)
            => job.page = Addressed(rows, c)
      BY <3>1, <3>4, LastPage
    <3> QED
      BY <1>2, <3>2, <3>3, <3>5
  <2> QED
    BY <2>1, <2>2
<1> QED
  BY <1>1, <1>4

\* A client that is told that nothing is left has everything the table held
\* for it then, as long as the table can be counted in 32 bits.
THEOREM FinalPages == Spec /\ []Countable => []FinalPageIsComplete
<1>1. Init => FinalInv
  BY EmptyRange DEF Init, Idle, FinalInv, CountOK, FinalsOK
<1>2. IInv /\ FinalInv /\ Countable /\ [Next]_vars => FinalInv'
  BY FinalStep
<1>3. FinalInv => FinalPageIsComplete
  BY DEF FinalInv, FinalsOK, FinalPageIsComplete
<1> QED
  BY <1>1, <1>2, <1>3, Invariance, PTL DEF Spec
=============================================================================
