------------------------------- MODULE MCDBConn ------------------------------
(* Three callers, a limit below their number, and connections to spare.    *)
EXTENDS DBConn, TLC

CONSTANTS main, t2, t3, c1, c2, c3, c4

MCCallers == {main, t2, t3}

MCConnections == {c1, c2, c3, c4}

\* Nothing tells one caller or one object from another.
PoolSymmetry == Permutations(MCCallers) \cup Permutations(MCConnections)
=============================================================================
