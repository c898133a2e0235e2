---------------------------- MODULE MCLockedQueue ----------------------------
(* Three threads, a limit of one object, and objects enough to exceed it.  *)
EXTENDS LockedQueue, TLC

CONSTANTS t1, t2, t3, o1, o2, o3, o4, o5

MCThreads == {t1, t2, t3}

MCObjects == {o1, o2, o3, o4, o5}

\* Nothing tells one thread or one object from another.
QueueSymmetry == Permutations(MCThreads) \cup Permutations(MCObjects)
=============================================================================
