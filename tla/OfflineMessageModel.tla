------------------------- MODULE OfflineMessageModel -------------------------
(***************************************************************************)
(* The table t_offline_message and the five statements the bot executes on *)
(* it (class OfflineMessageModel).  This module has no variables: a table  *)
(* is a set of rows, and a method is an operator that returns the set of   *)
(* the outcomes it may have.  A method has more than one outcome only when *)
(* a statement may fail (DbFaults): every method catches sql::SQLException,*)
(* logs it and returns what it had computed by then, so that its caller    *)
(* goes on with an empty list, a count of 0 or an id of 0.                 *)
(*                                                                         *)
(* A row, and the OfflineMessage that get_list makes of it, is its primary *)
(* key and the message it stores; the columns local_msg_id, fr_pk and      *)
(* to_pk are functions of the message, and content and create_time only    *)
(* matter through the size of the row.                                     *)
(***************************************************************************)
EXTENDS Integers, FiniteSets

CONSTANTS
  Clients,   \* the public keys of the bot's friends
  Messages,  \* the messages that clients may leave with the bot
  Unstorable,  \* those that some column cannot hold
  From,      \* From[m]: the sender of message m (column fr_pk)
  To,        \* To[m]: the client it is meant for (column to_pk)
  LocalId,   \* LocalId[m]: the number its sender gave it (local_msg_id)
  Limit,     \* the default limit of get_list, 10 in the code
  CountMod,  \* 2^32: a count is kept in a uint32_t
  DbFaults   \* whether an SQL statement may throw

(***************************************************************************)
(* A client numbers its own messages without repetition; two clients may   *)
(* use the same number.  What a column cannot hold (a negative number, for *)
(* local_msg_id is unsigned; too long a key or content) MySQL refuses in   *)
(* its strict mode, the default; that mode is external.                    *)
(***************************************************************************)
ASSUME MessageAssumption ==
  /\ From \in [Messages -> Clients]
  /\ To \in [Messages -> Clients]
  /\ LocalId \in [Messages -> Int]
  /\ \A m, n \in Messages :
        From[m] = From[n] /\ LocalId[m] = LocalId[n] => m = n
  /\ {m \in Messages : LocalId[m] < 0} \subseteq Unstorable

ASSUME NumberAssumption ==
  /\ Limit \in Nat
  /\ CountMod \in Nat \ {0}
  /\ Limit < CountMod
  /\ DbFaults \in BOOLEAN

Ids == Nat \ {0}

Row == [id : Ids, msg : Messages]

\* The rows that "WHERE to_pk = ?" selects.
Addressed(rows, pk) == {r \in rows : To[r.msg] = pk}

\* Whether the UNIQUE KEY on local_msg_id refuses message m.
Collides(rows, m) == \E r \in rows : LocalId[r.msg] = LocalId[m]

\* Mutant of Add: the number after the greatest one in use, not a counter.
AddReusingIds(rows, next, m) ==
  LET used == {0} \cup {r.id : r \in rows}
      id == 1 + CHOOSE k \in used : \A j \in used : j <= k
  IN IF m \in Unstorable THEN { <<rows, next>> }
     ELSE { <<IF Collides(rows, m) THEN rows
              ELSE rows \cup {[id |-> id, msg |-> m]}, next + 1>> }
          \cup IF DbFaults THEN { <<rows, next>> } ELSE {}

(***************************************************************************)
(* add: the table and its AUTO_INCREMENT counter next after the INSERT.    *)
(* InnoDB takes the counter's value before it finds the duplicate key, so  *)
(* a row refused for that uses up an id; one with a column out of range    *)
(* does not get so far.                                                    *)
(***************************************************************************)
Add(rows, next, m) ==
  IF m \in Unstorable THEN { <<rows, next>> }
  ELSE { <<IF Collides(rows, m) THEN rows
           ELSE rows \cup {[id |-> next, msg |-> m]}, next + 1>> }
       \cup IF DbFaults THEN { <<rows, next>> } ELSE {}

\* Mutant of Del: the rows of every client.
DelOfAnyone(rows, pk, last) ==
  { {r \in rows : r.id > last} } \cup IF DbFaults THEN {rows} ELSE {}

\* Mutant of Del: one id too many.
DelOneMore(rows, pk, last) ==
  { {r \in rows : ~(r.id <= last + 1 /\ To[r.msg] = pk)} }
  \cup IF DbFaults THEN {rows} ELSE {}

\* del: what "DELETE ... WHERE id <= ? and to_pk = ?" leaves of the table.
Del(rows, pk, last) ==
  { {r \in rows : ~(r.id <= last /\ To[r.msg] = pk)} }
  \cup IF DbFaults THEN {rows} ELSE {}

\* get_latest_id: 0 stands for no row, and for a query that failed.
GetLatestId(rows, pk) ==
  LET all == Addressed(rows, pk) IN
  {r.id : r \in {x \in all : \A o \in all : o.id <= x.id}}
  \cup IF all = {} \/ DbFaults THEN {0} ELSE {}

\* Mutant of Oldest: ORDER BY ID DESC.
Newest(rows, pk) ==
  LET all == Addressed(rows, pk) IN
  {r \in all : Cardinality({o \in all : o.id >= r.id}) <= Limit}

\* "ORDER BY ID ASC LIMIT ?": a row is selected by its rank.
Oldest(rows, pk) ==
  LET all == Addressed(rows, pk) IN
  {r \in all : Cardinality({o \in all : o.id <= r.id}) <= Limit}

(***************************************************************************)
(* get_list: the rows pushed on the caller's vector.  An exception while   *)
(* the result is read leaves the rows that were read before it.            *)
(***************************************************************************)
GetList(rows, pk) ==
  LET list == Oldest(rows, pk) IN
  {list}
  \cup IF DbFaults THEN {{r \in list : r.id < cut.id} : cut \in list} ELSE {}

\* Mutant of GetCount: the rows of the list, not those of the client.
GetCountOfList(rows, pk) ==
  {Cardinality(Oldest(rows, pk)) % CountMod}
  \cup IF DbFaults THEN {0} ELSE {}

\* get_count: the number of rows, cut to 32 bits.
GetCount(rows, pk) ==
  {Cardinality(Addressed(rows, pk)) % CountMod}
  \cup IF DbFaults THEN {0} ELSE {}
=============================================================================
