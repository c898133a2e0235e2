------------------------- MODULE MCOfflineMessageBot -------------------------
(***************************************************************************)
(* Small instances of OfflineMessageBot for TLC: two clients; m1, m2, m3   *)
(* and m5 go from a to b, m4 goes back.  The table cannot hold m5.         *)
(***************************************************************************)
EXTENDS OfflineMessageBot

CONSTANTS a, b, m1, m2, m3, m4, m5

MCClients == {a, b}

MCMessages == {m1, m2, m3, m4}

MCAll == MCMessages \cup {m5}

\* Without m2: what goes to b fits on one page, if Limit allows it.
MCLight == MCAll \ {m2}

MCUnstorable == Messages \cap {m5}

MCFrom == [m \in Messages |-> IF m = m4 THEN b ELSE a]

MCTo == [m \in Messages |-> IF m = m4 THEN a ELSE b]

\* The clients' numbers differ, as the UNIQUE KEY takes for granted.
MCLocalId == [m \in Messages |->
  CASE m = m1 -> 1 [] m = m2 -> 2 [] m = m3 -> 3 [] m = m4 -> 4 [] m = m5 -> -1]

\* Each client counts from 1.
MCLocalIdPerClient == [MCLocalId EXCEPT ![m4] = 1]

(***************************************************************************)
(* With max_size 8, m1 and m2 do not fit on one page, m1 and m3 would: the *)
(* case in which skipping one row and taking the next would go wrong.      *)
(***************************************************************************)
MCBytes == [m \in Messages |->
  CASE m = m1 -> 4 [] m = m2 -> 6 [] m = m3 -> 3 [] m = m4 -> 4 [] m = m5 -> 4]

\* m1 does not fit on any page.
MCBytesOversize == [MCBytes EXCEPT ![m1] = 8]
=============================================================================
