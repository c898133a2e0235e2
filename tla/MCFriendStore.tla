---------------------------- MODULE MCFriendStore ----------------------------
(* A small instance of FriendStore for TLC. *)
EXTENDS FriendStore

CONSTANTS a, b, c

MCKeys == {a, b, c}
=============================================================================
