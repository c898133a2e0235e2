------------------------------- MODULE DBConn --------------------------------
(***************************************************************************)
(* The pool of MySQL connections (class DBConn) and the use that every     *)
(* method of OfflineMessageModel makes of it: allocate, one statement,     *)
(* release, whether the statement throws or not.                           *)
(*                                                                         *)
(* The program has one caller, the thread of main.  The class is written   *)
(* for several, with a lock, and is specified for any number of them; with *)
(* more than one it takes a build in which lock.h has a real mutex_lock.   *)
(* What the lock covers is one action.  The size that release compares     *)
(* with max_conn_ is read outside it.                                      *)
(***************************************************************************)
EXTENDS Integers, SequencesExt

CONSTANTS
  Callers,      \* threads that use the pool
  Connections,  \* bound: sql::Connection objects at one time
  Null,         \* the nullptr of a connect that failed
  max_conn_     \* the limit of the pool

ASSUME PoolAssumption ==
  /\ IsFiniteSet(Callers)
  /\ IsFiniteSet(Connections)
  /\ Null \notin Connections
  /\ max_conn_ \in Nat

VARIABLES
  free_list_,  \* connections that wait for a caller
  live,        \* objects made and not deleted
  gone,        \* those of them that are closed or have lost the server
  step,        \* step[t]: what caller t does next
  conn         \* conn[t]: the connection it has

vars == <<free_list_, live, gone, step, conn>>

\* The types; what is gone is an object still.
TypeOK ==
  /\ free_list_ \in Seq(Connections)
  /\ live \in SUBSET Connections
  /\ gone \in SUBSET live
  /\ step \in [Callers -> {"allocate", "use", "release", "destroy", "push"}]
  /\ conn \in [Callers -> Connections \cup {Null}]

Init ==
  /\ free_list_ = <<>>
  /\ live = {}
  /\ gone = {}
  /\ step = [t \in Callers |-> "allocate"]
  /\ conn = [t \in Callers |-> Null]

Goes(t, from, to) == step[t] = from /\ step' = [step EXCEPT ![t] = to]

(***************************************************************************)
(* _create_connection: a connection, a connection that is not valid, or,   *)
(* after an exception, no object at all.  others are the objects there     *)
(* are, lost those of them that are gone.                                  *)
(***************************************************************************)
CreateConnection(t, others, lost) ==
  \/ /\ conn' = [conn EXCEPT ![t] = Null]
     /\ live' = others
     /\ gone' = lost
  \/ \E c \in Connections \ others :
        /\ conn' = [conn EXCEPT ![t] = c]
        /\ live' = others \cup {c}
        /\ gone' \in {lost, lost \cup {c}}

\* Mutant of AllocateNew: a new connection in any case.
AllocateAlwaysNew(t) ==
  /\ Goes(t, "allocate", "use")
  /\ CreateConnection(t, live, gone)
  /\ UNCHANGED free_list_

\* allocate with an empty list
AllocateNew(t) ==
  /\ Goes(t, "allocate", "use")
  /\ free_list_ = <<>>
  /\ CreateConnection(t, live, gone)
  /\ UNCHANGED free_list_

\* Mutant of AllocateFree: back() without pop_back().
AllocateUnpopped(t) ==
  /\ Goes(t, "allocate", "use")
  /\ free_list_ # <<>>
  /\ conn' = [conn EXCEPT ![t] = Last(free_list_)]
  /\ UNCHANGED <<free_list_, live, gone>>

(***************************************************************************)
(* allocate from the list.  A connection that is closed is deleted and     *)
(* replaced, unless OPT_RECONNECT has brought it back by the time isClosed *)
(* answers.                                                                *)
(***************************************************************************)
AllocateFree(t) ==
  /\ Goes(t, "allocate", "use")
  /\ free_list_ # <<>>
  /\ free_list_' = Front(free_list_)
  /\ LET c == Last(free_list_) IN
     \/ /\ conn' = [conn EXCEPT ![t] = c]
        /\ gone' = gone \ {c}
        /\ live' = live
     \/ /\ c \in gone
        /\ CreateConnection(t, live \ {c}, gone \ {c})

\* Mutant of Use: an exception handler that does not release.
UseUnreleased(t) ==
  /\ \/ Goes(t, "use", "release") /\ conn' = conn
     \/ Goes(t, "use", "allocate") /\ conn' = [conn EXCEPT ![t] = Null]
  /\ conn[t] # Null
  /\ UNCHANGED <<free_list_, live, gone>>

\* Mutant of Use: a test for nullptr that goes on to release.
UseOfNull(t) ==
  /\ Goes(t, "use", "release")
  /\ UNCHANGED <<free_list_, live, gone, conn>>

(***************************************************************************)
(* The statement of a method, executed or ended by an exception: both ways *)
(* lead to one release.  The method does not test connection for nullptr;  *)
(* with it the process ends here (Crash).                                  *)
(***************************************************************************)
Use(t) ==
  /\ Goes(t, "use", "release")
  /\ conn[t] # Null
  /\ UNCHANGED <<free_list_, live, gone, conn>>

\* release: the comparison, outside the lock
ReleaseTests(t) ==
  /\ Goes(t, "release",
          IF Len(free_list_) > max_conn_ THEN "destroy" ELSE "push")
  /\ UNCHANGED <<free_list_, live, gone, conn>>

\* _destroy: close throws for a closed connection, whose object then stays.
Destroy(t) ==
  /\ Goes(t, "destroy", "allocate")
  /\ \/ live' = live \ {conn[t]} /\ gone' = gone \ {conn[t]}
     \/ conn[t] \in gone /\ UNCHANGED <<live, gone>>
  /\ conn' = [conn EXCEPT ![t] = Null]
  /\ UNCHANGED free_list_

\* release: the connection goes to the back of the list.
ReleasePushes(t) ==
  /\ Goes(t, "push", "allocate")
  /\ free_list_' = Append(free_list_, conn[t])
  /\ conn' = [conn EXCEPT ![t] = Null]
  /\ UNCHANGED <<live, gone>>

\* The server closes a connection, or its network fails.
Lose ==
  /\ \E c \in live \ gone : gone' = gone \cup {c}
  /\ UNCHANGED <<free_list_, live, step, conn>>

\* The process ends and is started again.
Crash ==
  /\ free_list_' = <<>>
  /\ live' = {}
  /\ gone' = {}
  /\ step' = [t \in Callers |-> "allocate"]
  /\ conn' = [t \in Callers |-> Null]

Next ==
  \/ \E t \in Callers :
        \/ AllocateNew(t)
        \/ AllocateFree(t)
        \/ Use(t)
        \/ ReleaseTests(t)
        \/ Destroy(t)
        \/ ReleasePushes(t)
  \/ Lose
  \/ Crash

Spec == Init /\ [][Next]_vars

-----------------------------------------------------------------------------
Held == {conn[t] : t \in Callers} \ {Null}

Pooled == ToSet(free_list_)

(***************************************************************************)
(* No connection is in two hands, in the list twice, or in hand and in the *)
(* list, and none that was deleted is in either: each allocate is answered *)
(* by one release on every path through the methods of                     *)
(* OfflineMessageModel, and a nullptr never gets into the list.            *)
(***************************************************************************)
Exclusive ==
  /\ Held \cap Pooled = {}
  /\ Held \cup Pooled \subseteq live
  /\ IsInjective(free_list_)
  /\ \A t, u \in Callers : conn[t] = conn[u] => t = u \/ conn[t] = Null

(***************************************************************************)
(* A connection that works is in somebody's hand or in the list: only      *)
(* _destroy, when close throws, forgets one, and that one is closed.       *)
(***************************************************************************)
NoneForgotten == live \ gone \subseteq Held \cup Pooled

(***************************************************************************)
(* There are never more connections in use and in the list than callers:   *)
(* one in this program, whatever max_conn says.                            *)
(***************************************************************************)
OnePerCaller == Cardinality(Held \cup Pooled) <= Cardinality(Callers)

-----------------------------------------------------------------------------
\* A caller has a connection from allocate on until it is released.
HoldsOK ==
  \A t \in Callers :
    /\ step[t] = "allocate" => conn[t] = Null
    /\ step[t] \in {"release", "destroy", "push"} => conn[t] # Null

(***************************************************************************)
(* Every connection has one place, and a caller has one while it needs it. *)
(***************************************************************************)
IInv ==
  /\ TypeOK
  /\ HoldsOK
  /\ Exclusive
  /\ NoneForgotten
  /\ OnePerCaller
=============================================================================
