------------------------------- MODULE Startup -------------------------------
(***************************************************************************)
(* The start of the bot, step by step as main makes it: the command line,  *)
(* config.ini, the Tox profile, the nodes to connect to, the first save,   *)
(* the loop.  main looks at none of the results: parse_option and          *)
(* parse_conf return false, and the start goes on with what conf holds     *)
(* then.                                                                   *)
(*                                                                         *)
(* The operator may change the command line and the files at any time,     *)
(* also between two steps of a start.  Nor are the results of fopen,       *)
(* fread, fwrite, fclose and rename looked at: each of them may fail, and  *)
(* the process may end between any two.  A profile is named by its         *)
(* identity; its friends are in FriendStore.                               *)
(***************************************************************************)
EXTENDS Integers

CONSTANTS
  Configs,     \* complete configurations
  Paths,       \* what they may name as save_data_file or save_data_tmp_file
  Save,        \* Save[c]: the save_data_file of c
  Tmp,         \* Tmp[c]: its save_data_tmp_file; may be any save file as well
  Nodes,       \* nodes of the Tox network
  Rejected,    \* a config.ini that parse_config_file throws for
  Incomplete,  \* one that lacks an option, or is not there
  Unset,       \* conf as its constructor leaves it: every string is empty
  Missing,     \* what is at a path without a file
  MaxMade      \* bound: identities made

\* A profile on disk; of one that is not whole the beginning is there.
Profile == [id : Nat \ {0}, whole : BOOLEAN]

ASSUME StartAssumption ==
  /\ Save \in [Configs -> Paths]
  /\ Tmp \in [Configs -> Paths]
  /\ Missing \notin Profile
  /\ Configs \cap {Rejected, Incomplete, Unset} = {}
  /\ Rejected # Incomplete
  /\ MaxMade \in Nat

VARIABLES
  option,  \* the command line: "file" (-f given), "none" or "undefined"
  ini,     \* config.ini
  nodes,   \* the nodes file; its list is {} also if it is not there
  disk,    \* disk[p]: the profile in the file p, or Missing
  named,   \* whether conf_file_name is set
  conf,
  tox,     \* the identity in memory
  known,   \* nodes that tox was given
  step,    \* the next call of main; "loop", or "down"
  failed,  \* failures unnoticed: of the read, of the last write or rename
  made     \* identities made so far; numbers them, and is kept for MaxMade

inputs == <<option, ini, nodes>>
vars == <<option, ini, nodes, disk, named, conf, tox, known, step, failed, made>>

\* The nodes file; bootstrap ends the process for one that it cannot read.
NodesFile == [readable : BOOLEAN, list : SUBSET Nodes]

\* The types: a running bot has an identity.
TypeOK ==
  /\ option \in {"file", "none", "undefined"}
  /\ ini \in Configs \cup {Rejected, Incomplete}
  /\ nodes \in NodesFile
  /\ disk \in [Paths -> Profile \cup {Missing}]
  /\ named \in BOOLEAN
  /\ conf \in Configs \cup {Unset}
  /\ tox \in Nat
  /\ known \in SUBSET Nodes
  /\ step \in {"down", "parse_option", "parse_conf", "create_tox",
               "bootstrap", "save", "rename", "loop"}
  /\ failed \in SUBSET {"read", "write", "rename"}
  /\ made \in Nat
  /\ step \in {"bootstrap", "save", "rename", "loop"} => tox # 0

Init ==
  /\ option = "file"
  /\ ini \in Configs
  /\ nodes = [readable |-> TRUE, list |-> Nodes]
  /\ disk = [p \in Paths |-> Missing]
  /\ named = FALSE
  /\ conf = Unset
  /\ tox = 0
  /\ known = {}
  /\ step = "down"
  /\ failed = {}
  /\ made = 0

-----------------------------------------------------------------------------
\* The process is started.
Start ==
  /\ step = "down"
  /\ step' = "parse_option"
  /\ named' = FALSE
  /\ conf' = Unset
  /\ tox' = 0
  /\ known' = {}
  /\ failed' = {}
  /\ UNCHANGED <<inputs, disk, made>>

(***************************************************************************)
(* parse_option: an undefined option is reported and leaves                *)
(* conf_file_name empty; without -f notify throws, and nobody catches it.  *)
(***************************************************************************)
ParseOption ==
  /\ step = "parse_option"
  /\ step' = IF option = "none" THEN "down" ELSE "parse_conf"
  /\ named' = (option = "file")
  /\ UNCHANGED <<inputs, disk, conf, tox, known, failed, made>>

(***************************************************************************)
(* parse_conf: a file that cannot be parsed is reported and leaves conf as *)
(* it was.  For a missing option, and so for a file that does not open,    *)
(* notify throws outside of the try block.                                 *)
(***************************************************************************)
ParseConf ==
  /\ step = "parse_conf"
  /\ \/ /\ ~named \/ ini = Incomplete
        /\ step' = "down"
        /\ conf' = conf
     \/ /\ named
        /\ ini # Incomplete
        /\ conf' = IF ini = Rejected THEN conf ELSE ini
        /\ step' = "create_tox"
  /\ UNCHANGED <<inputs, disk, named, tox, known, failed, made>>

\* What fopen(save_data_file) finds; the empty path is no file.
Saved == IF conf = Unset THEN Missing ELSE disk[Save[conf]]

\* The file p holds a whole profile.
Holds(p) == disk[p] # Missing /\ disk[p].whole

\* tox_new without a profile, or with one that is none.
NewIdentity ==
  /\ made < MaxMade
  /\ made' = made + 1
  /\ tox' = made'

\* Mutant of CreateTox: the temporary file is read.
CreateToxFromTmp ==
  /\ step = "create_tox"
  /\ \/ /\ conf # Unset
        /\ disk[Tmp[conf]] # Missing
        /\ tox' = disk[Tmp[conf]].id
        /\ UNCHANGED <<failed, made>>
     \/ /\ conf # Unset => disk[Tmp[conf]] = Missing
        /\ NewIdentity
        /\ failed' = failed
  /\ step' = "bootstrap"
  /\ UNCHANGED <<inputs, disk, named, conf, known>>

(***************************************************************************)
(* create_tox: the saved identity, or a new one.  Every failure of fopen   *)
(* is taken for a first start, and fread is not checked: a whole profile   *)
(* may be there and a new identity made all the same.  What toxcore makes  *)
(* of part of a profile, its identity or a new one, is external; without   *)
(* an instance the process ends, which is Crash.                           *)
(***************************************************************************)
CreateTox ==
  /\ step = "create_tox"
  /\ \/ /\ Saved # Missing
        /\ tox' = Saved.id
        /\ UNCHANGED <<failed, made>>
     \/ /\ NewIdentity
        /\ failed' = IF Saved # Missing /\ Saved.whole
                     THEN failed \cup {"read"} ELSE failed
  /\ step' = "bootstrap"
  /\ UNCHANGED <<inputs, disk, named, conf, known>>

(***************************************************************************)
(* bootstrap: without a file there is nothing to do; with one that is not  *)
(* as expected the process ends; a node that tox does not take is only     *)
(* reported.                                                               *)
(***************************************************************************)
Bootstrap ==
  /\ step = "bootstrap"
  /\ \/ /\ conf # Unset
        /\ ~nodes.readable
        /\ step' = "down"
        /\ known' = known
     \/ /\ conf # Unset => nodes.readable
        /\ known' \in IF conf = Unset THEN {{}} ELSE SUBSET nodes.list
        /\ step' = "save"
  /\ UNCHANGED <<inputs, disk, named, conf, tox, failed, made>>

\* The profile in memory is written to the temporary file, or part of it.
Written(whole) ==
  disk' = [disk EXCEPT ![Tmp[conf]] = [id |-> tox, whole |-> whole]]

\* Mutant of WriteTmp: it returns when fopen gives NULL.
WriteTmpTested ==
  /\ step = "save"
  /\ \/ /\ conf # Unset
        /\ Written(TRUE)
        /\ step' = "rename"
     \/ /\ disk' = disk
        /\ step' = "loop"
  /\ UNCHANGED <<inputs, named, conf, tox, known, failed, made>>

(***************************************************************************)
(* update_savedata_file up to fclose.  A short fwrite and a failing fclose *)
(* go unnoticed.  The process may end on the way; fwrite to the NULL of a  *)
(* failed fopen ends it, as it always does when the path is empty.         *)
(***************************************************************************)
WriteTmp ==
  /\ step = "save"
  /\ \/ /\ conf # Unset
        /\ \/ Written(TRUE) /\ failed' = failed /\ step' = "rename"
           \/ Written(FALSE) /\ failed' = failed \cup {"write"} /\ step' = "rename"
           \/ Written(FALSE) /\ failed' = failed /\ step' = "down"
     \/ /\ step' = "down"
        /\ UNCHANGED <<disk, failed>>
  /\ UNCHANGED <<inputs, named, conf, tox, known, made>>

\* rename(from, to), which does nothing when both are one file.
Renamed(from, to) ==
  IF from = to THEN disk
  ELSE [disk EXCEPT ![to] = disk[from], ![from] = Missing]

\* Mutant of RenameTmp: save_data_file is looked up in config.ini again.
RenameTmpElsewhere ==
  /\ step = "rename"
  /\ ini \in Configs
  /\ disk' = Renamed(Tmp[conf], Save[ini])
  /\ step' = "loop"
  /\ UNCHANGED <<inputs, named, conf, tox, known, failed, made>>

\* The rest of update_savedata_file: rename is not checked either.
RenameTmp ==
  /\ step = "rename"
  /\ \/ disk' = Renamed(Tmp[conf], Save[conf]) /\ failed' = failed
     \/ disk' = disk /\ failed' = failed \cup {"rename"}
  /\ step' = "loop"
  /\ UNCHANGED <<inputs, named, conf, tox, known, made>>

\* friend_request_cb and the other callbacks that save the profile again.
SaveAgain ==
  /\ step = "loop"
  /\ step' = "save"
  /\ failed' = failed \cap {"read"}
  /\ UNCHANGED <<inputs, disk, named, conf, tox, known, made>>

\* The process ends.
Crash ==
  /\ step # "down"
  /\ step' = "down"
  /\ UNCHANGED <<inputs, disk, named, conf, tox, known, failed, made>>

\* The operator changes the command line of the next start, or a file.
Edit ==
  /\ \/ option' \in {"file", "none", "undefined"} /\ UNCHANGED <<ini, nodes>>
     \/ ini' \in Configs \cup {Rejected, Incomplete} /\ UNCHANGED <<option, nodes>>
     \/ nodes' \in NodesFile /\ UNCHANGED <<option, ini>>
  /\ UNCHANGED <<disk, named, conf, tox, known, step, failed, made>>

Next ==
  \/ Start \/ ParseOption \/ ParseConf \/ CreateTox \/ Bootstrap
  \/ WriteTmp \/ RenameTmp \/ SaveAgain
  \/ Crash
  \/ Edit

Spec == Init /\ [][Next]_vars

-----------------------------------------------------------------------------
(***************************************************************************)
(* A bot that has come to its loop, and answers clients, has read a whole  *)
(* configuration, although main tests no result: what stops the others is  *)
(* the exception of notify and the fwrite to NULL.  And unless its last    *)
(* write or rename failed unnoticed, it has its identity, whole, where it  *)
(* will look for it again.                                                 *)
(***************************************************************************)
ServesConfigured ==
  step = "loop" =>
    /\ conf # Unset
    /\ failed \cap {"write", "rename"} = {} =>
         disk[Save[conf]] = [id |-> tox, whole |-> TRUE]

(***************************************************************************)
(* A file with a whole profile is left as it is by every step of every     *)
(* start, however the operator changes config.ini from save file to save   *)
(* file, during a start as well: except the temporary file of the          *)
(* configuration in use, and its save file when this start failed to read  *)
(* it, or when part of a profile was written.                              *)
(***************************************************************************)
IdentityStays ==
  [][\A p \in Paths : Holds(p) /\ disk'[p] # disk[p] =>
       \/ p = Tmp[conf]
       \/ p = Save[conf] /\ failed \cap {"read", "write"} # {}]_vars

-----------------------------------------------------------------------------
(***************************************************************************)
(* From create_tox on a save file that was read and holds a whole profile  *)
(* holds the identity in memory; what is about to be renamed is what was   *)
(* written.                                                                *)
(***************************************************************************)
IInv ==
  /\ TypeOK
  /\ step \in {"parse_option", "parse_conf", "create_tox"} => failed = {}
  /\ step \in {"bootstrap", "save"} => failed \subseteq {"read"}
  /\ /\ step \in {"bootstrap", "save", "rename", "loop"}
     /\ conf # Unset
     /\ "read" \notin failed
     /\ Holds(Save[conf])
     => disk[Save[conf]].id = tox
  /\ step = "rename" =>
       /\ conf # Unset
       /\ disk[Tmp[conf]] = [id |-> tox, whole |-> "write" \notin failed]
  /\ ServesConfigured
=============================================================================
