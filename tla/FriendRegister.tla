--------------------------- MODULE FriendRegister ---------------------------
(***************************************************************************)
(* What the save file is for: one register that holds the bot's profile,   *)
(* its identity and its friends.  Once there is a profile the identity     *)
(* stays and no friend is lost, whatever happens to the process.  Only an  *)
(* operation on a file that fails may put an end to that.                  *)
(***************************************************************************)
CONSTANTS Profile, Missing, Lost

VARIABLE saved

Init == saved = Missing

\* The bot is started for the first time.
Create == saved = Missing /\ saved' \in Profile

\* New friends are taken down.
Grow ==
  /\ saved \in Profile
  /\ saved' \in Profile
  /\ saved'.id = saved.id
  /\ saved.friends \subseteq saved'.friends

\* A file was not written or not read as it should have been.
Lose == saved' = Lost

Spec == Init /\ [][Create \/ Grow \/ Lose]_saved
=============================================================================
