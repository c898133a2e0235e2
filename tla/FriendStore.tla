----------------------------- MODULE FriendStore -----------------------------
(***************************************************************************)
(* The bot's Tox profile (its identity and its friends) in memory, in the  *)
(* save file and in the temporary file: main and Bot::create_tox start     *)
(* from the save file; friend_request_cb adds a friend; that callback,     *)
(* friend_name_cb, friend_status_message_cb and main write the profile     *)
(* with update_savedata_file; query_friend answers from memory.            *)
(*                                                                         *)
(* The process may end between any two steps of update_savedata_file,      *)
(* which is why each of its calls is an action; step is the call that      *)
(* comes next.  One thread runs everything, so no event is dispatched      *)
(* before a save has ended.  The machine itself stays up: what was written *)
(* and closed is there after a restart.                                    *)
(***************************************************************************)
EXTENDS Integers

CONSTANTS
  Keys,      \* public keys that may ask the bot to be its friend
  Missing,   \* a file that does not exist
  Torn,      \* a file that holds less than a profile
  Faults,    \* the file operations that may fail
  MaxMade    \* bound: identities made

ASSUME StoreAssumption ==
  /\ Missing # Torn
  /\ Faults \subseteq {"open", "write", "rename", "read"}
  /\ MaxMade \in Nat

VARIABLES
  tox,     \* the profile in memory; when down, the last one
  file,    \* save_data_file
  tmp,     \* save_data_tmp_file
  step,    \* "down", "run" (in tox_iterate), or the next call of a save
  told,    \* keys that a client was told are friends of the bot
  made,    \* identities made so far; numbers them, and is kept for MaxMade
  failed   \* the file operations that have failed so far

vars == <<tox, file, tmp, step, told, made, failed>>

Profile == [id : Nat, friends : SUBSET Keys]

ASSUME FileAssumption == Missing \notin Profile /\ Torn \notin Profile

File == Profile \cup {Missing, Torn}

\* The types: the profile is whole, a file may also be torn or missing.
TypeOK ==
  /\ tox \in Profile
  /\ file \in File
  /\ tmp \in File
  /\ step \in {"down", "run", "open", "write", "close", "rename"}
  /\ told \in SUBSET Keys
  /\ made \in Nat
  /\ failed \in SUBSET Faults

Init ==
  /\ tox = [id |-> 0, friends |-> {}]
  /\ file = Missing
  /\ tmp = Missing
  /\ step = "down"
  /\ told = {}
  /\ made = 0
  /\ failed = {}

-----------------------------------------------------------------------------
\* A profile that tox_new makes from nothing.
NewIdentity ==
  /\ made < MaxMade
  /\ made' = made + 1
  /\ tox' = [id |-> made', friends |-> {}]

\* What tox_new may make of a part of a profile (external): some of it.
PartOf(profile) ==
  /\ made' = made
  /\ \E kept \in SUBSET profile.friends : tox' = [profile EXCEPT !.friends = kept]

\* Mutant of Start: the profile is not saved before the loop.
StartUnsaved ==
  /\ step = "down"
  /\ \/ file \in Profile /\ tox' = file /\ made' = made
     \/ file = Missing /\ NewIdentity
  /\ step' = "run"
  /\ UNCHANGED <<file, tmp, told, failed>>

\* Mutant of Start: a new identity every time.
StartAnew ==
  /\ step = "down"
  /\ NewIdentity
  /\ step' = "open"
  /\ UNCHANGED <<file, tmp, told, failed>>

(***************************************************************************)
(* main: create_tox takes the profile from the save file, or makes a new   *)
(* identity when fopen returns NULL for whatever reason.  Nothing looks at *)
(* what fread and tox_new return, so that of a file that is not whole, or  *)
(* not read to its end, toxcore takes what it can (or it makes no Tox, and *)
(* the bot does not come up).  The profile is saved before the loop.       *)
(***************************************************************************)
Start ==
  /\ step = "down"
  /\ \/ file \in Profile /\ tox' = file /\ made' = made /\ failed' = failed
     \/ file = Missing /\ NewIdentity /\ failed' = failed
     \/ file = Torn /\ (NewIdentity \/ PartOf(tox)) /\ failed' = failed
     \/ /\ "read" \in Faults
        /\ file \in Profile
        /\ NewIdentity \/ PartOf(file)
        /\ failed' = failed \cup {"read"}
  /\ step' = "open"
  /\ UNCHANGED <<file, tmp, told>>

\* Mutant of FriendRequest: no save.
FriendRequestUnsaved(k) ==
  /\ step = "run"
  /\ \E added \in SUBSET {k} : tox' = [tox EXCEPT !.friends = @ \cup added]
  /\ UNCHANGED <<file, tmp, step, told, made, failed>>

(***************************************************************************)
(* friend_request_cb: the result of tox_friend_add_norequest is not looked *)
(* at, the save follows in any case.                                       *)
(***************************************************************************)
FriendRequest(k) ==
  /\ step = "run"
  /\ \E added \in SUBSET {k} : tox' = [tox EXCEPT !.friends = @ \cup added]
  /\ step' = "open"
  /\ UNCHANGED <<file, tmp, told, made, failed>>

\* friend_name_cb and friend_status_message_cb
FriendChanges ==
  /\ step = "run"
  /\ tox.friends # {}
  /\ step' = "open"
  /\ UNCHANGED <<tox, file, tmp, told, made, failed>>

\* query_friend, asked by a friend about k
QueryFriend(k) ==
  /\ step = "run"
  /\ tox.friends # {}
  /\ told' = told \cup ({k} \cap tox.friends)
  /\ UNCHANGED <<tox, file, tmp, step, made, failed>>

-----------------------------------------------------------------------------
(* update_savedata_file, call by call. *)

\* fopen with "wb"; fwrite to the NULL of a failed one ends the process.
OpenTmp ==
  /\ step = "open"
  /\ \/ tmp' = Torn /\ step' = "write" /\ failed' = failed
     \/ /\ "open" \in Faults
        /\ failed' = failed \cup {"open"}
        /\ step' = "down"
        /\ tmp' = tmp
  /\ UNCHANGED <<tox, file, told, made>>

\* Mutant of WriteTmp: renamed before it is closed.
WriteTmpUnclosed ==
  /\ step = "write"
  /\ tmp' \in {Torn, tox}
  /\ step' = "rename"
  /\ UNCHANGED <<tox, file, told, made, failed>>

\* fwrite: stdio may hold back the bytes until the file is closed.
WriteTmp ==
  /\ step = "write"
  /\ tmp' \in {Torn, tox}
  /\ step' = "close"
  /\ UNCHANGED <<tox, file, told, made, failed>>

\* fclose; neither its result nor that of fwrite is looked at.
CloseTmp ==
  /\ step = "close"
  /\ \/ tmp' = tox /\ failed' = failed
     \/ "write" \in Faults /\ tmp' = Torn /\ failed' = failed \cup {"write"}
  /\ step' = "rename"
  /\ UNCHANGED <<tox, file, told, made>>

\* rename replaces the save file at one stroke; its result is not looked at.
RenameTmp ==
  /\ step = "rename"
  /\ \/ file' = tmp /\ tmp' = Missing /\ failed' = failed
     \/ "rename" \in Faults /\ failed' = failed \cup {"rename"} /\ UNCHANGED <<file, tmp>>
  /\ step' = "run"
  /\ UNCHANGED <<tox, told, made>>

\* The process ends.
Crash ==
  /\ step # "down"
  /\ step' = "down"
  /\ UNCHANGED <<tox, file, tmp, told, made, failed>>

Next ==
  \/ Start
  \/ \E k \in Keys : FriendRequest(k) \/ QueryFriend(k)
  \/ FriendChanges
  \/ OpenTmp
  \/ WriteTmp
  \/ CloseTmp
  \/ RenameTmp
  \/ Crash

Spec == Init /\ [][Next]_vars

-----------------------------------------------------------------------------
(***************************************************************************)
(* A client that was told exist = 1 by query_friend relies on it when it   *)
(* leaves messages: the key is in the save file by then, so that no crash  *)
(* makes the bot forget that friend, unless an operation on the file has   *)
(* failed unnoticed.                                                       *)
(***************************************************************************)
AnsweredIsDurable ==
  failed \subseteq {"open"} /\ told # {} =>
    file \in Profile /\ told \subseteq file.friends

(***************************************************************************)
(* However a save is interrupted, and even when fopen or rename fails, the *)
(* save file holds a whole profile or is not there: only a write that is   *)
(* cut short makes one that is not.                                        *)
(***************************************************************************)
SaveIsLoadable == "write" \notin failed => file # Torn

(***************************************************************************)
(* A bot that has friends never comes back under another identity, which   *)
(* its friends would not know (the save in main before the loop), unless a *)
(* read, a write or a rename has failed.                                   *)
(***************************************************************************)
IdentityKept ==
  [][failed' \subseteq {"open"} /\ tox.friends # {} => tox'.id = tox.id]_vars

Register == INSTANCE FriendRegister WITH
  Lost <- Torn,
  saved <- IF failed \subseteq {"open", "rename"} THEN file ELSE Torn

(***************************************************************************)
(* The save file is a register: it is created once and no later save, as   *)
(* far as it gets, takes the identity or a friend out of it, until a read  *)
(* or a write goes wrong.                                                  *)
(***************************************************************************)
ImplementsRegister == Register!Spec

-----------------------------------------------------------------------------
(* The inductive invariant behind them, each part under the faults it bears. *)

\* The temporary file is a profile, if at all, then the current one.
TmpOK ==
  /\ step \in {"write", "close", "rename"} => tmp \in {tox, Torn}
  /\ step = "rename" /\ "write" \notin failed => tmp = tox

\* The profile in memory is the saved one, or ahead of it by new friends.
Ahead ==
  file \in Profile => file.id = tox.id /\ file.friends \subseteq tox.friends

\* Outside a save the file is up to date; friends come after the first save.
RunOK ==
  /\ step = "run" => file = tox
  /\ file = Missing => tox.friends = {}

(***************************************************************************)
(* What memory, save file and temporary file have to do with each other at *)
(* every step of update_savedata_file and of a restart.                    *)
(***************************************************************************)
IInv ==
  /\ TypeOK
  /\ TmpOK
  /\ SaveIsLoadable
  /\ failed \subseteq {"open", "rename"} => Ahead
  /\ failed \subseteq {"open"} => RunOK
  /\ AnsweredIsDurable
=============================================================================
