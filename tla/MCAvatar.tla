------------------------------- MODULE MCAvatar -------------------------------
(***************************************************************************)
(* Two friends, two transfers each, and a file that is replaced by one of  *)
(* another size or by an empty one.                                        *)
(***************************************************************************)
EXTENDS Avatar

CONSTANTS a, b, small, large, empty

MCFriends == {a, b}

MCImages == {small, large, empty}

MCSize == [i \in MCImages |-> CASE i = small -> 1 [] i = large -> 2
                                [] i = empty -> 0]
=============================================================================
