------------------------------- MODULE Mailbox -------------------------------
(***************************************************************************)
(* What the offline-message service is for, without connections, pages,    *)
(* queries or faults: a mailbox per client.  kept is what it holds, each   *)
(* message with the number that orders it; seen is what its owners have.   *)
(***************************************************************************)
EXTENDS Integers

CONSTANTS Clients, Messages, To

VARIABLES kept, seen

Held(c) == {r \in kept : To[r.msg] = c}

Init == kept = {} /\ seen = {}

\* A message is taken in behind all the others.
Accept ==
  /\ \E r \in kept' :
        /\ kept' = kept \cup {r}
        /\ r.msg \in Messages
        /\ \A o \in kept : o.id < r.id
  /\ UNCHANGED seen

(***************************************************************************)
(* A client is handed messages, some perhaps again; what is new to it it   *)
(* gets in the order of the mailbox, nothing older left out.               *)
(***************************************************************************)
Read(c) ==
  /\ \E handed \in SUBSET Messages :
        /\ seen' = seen \cup handed
        /\ \A m \in handed \ seen : \E r \in Held(c) :
              /\ r.msg = m
              /\ \A o \in Held(c) : o.id <= r.id => o.msg \in seen'
  /\ UNCHANGED kept

\* Of a client's messages, the oldest are discarded, all of them seen.
Discard(c) ==
  /\ kept' \subseteq kept
  /\ \A r \in kept \ kept' :
        /\ To[r.msg] = c
        /\ r.msg \in seen
        /\ \A o \in Held(c) : o.id <= r.id => o \notin kept'
  /\ UNCHANGED seen

Next ==
  \/ Accept
  \/ \E c \in Clients : Read(c) \/ Discard(c)

Spec == Init /\ [][Next]_<<kept, seen>>
=============================================================================
