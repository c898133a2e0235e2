---------------------------- MODULE StartupProofs ----------------------------
(***************************************************************************)
(* Proofs about Startup: a bot that serves is configured, and identities   *)
(* stay where they are, for any configurations and save files.             *)
(***************************************************************************)
EXTENDS Startup, TLAPS

\* The invariant holds before the first start.
LEMMA InvInit == Init => IInv
<1> SUFFICES ASSUME Init PROVE IInv
  OBVIOUS
<1>1. nodes \in NodesFile
  BY DEF Init, NodesFile
<1>2. disk \in [Paths -> Profile \cup {Missing}] /\ known \in SUBSET Nodes
  BY DEF Init
<1>3. /\ step = "down"
      /\ failed = {}
  BY DEF Init
<1> QED
  BY <1>1, <1>2, <1>3, StartAssumption DEF Init, IInv, TypeOK, ServesConfigured

\* What is at a path, and what a write or a rename makes of the disk.
LEMMA DiskFacts ==
  ASSUME TypeOK, conf # Unset
  PROVE  /\ Save[conf] \in Paths /\ Tmp[conf] \in Paths
         /\ \A whole \in BOOLEAN : tox # 0 /\ Written(whole) =>
              /\ disk' \in [Paths -> Profile \cup {Missing}]
              /\ disk'[Tmp[conf]] = [id |-> tox, whole |-> whole]
              /\ \A p \in Paths \ {Tmp[conf]} : disk'[p] = disk[p]
         /\ LET r == Renamed(Tmp[conf], Save[conf]) IN
              /\ r \in [Paths -> Profile \cup {Missing}]
              /\ r[Save[conf]] = disk[Tmp[conf]]
              /\ \A p \in Paths \ {Tmp[conf], Save[conf]} : r[p] = disk[p]
<1>1. Save[conf] \in Paths /\ Tmp[conf] \in Paths
  BY StartAssumption DEF TypeOK
<1>2. disk \in [Paths -> Profile \cup {Missing}] /\ tox \in Nat
  BY DEF TypeOK
<1>3. ASSUME NEW whole \in BOOLEAN, tox # 0, Written(whole)
      PROVE  /\ disk' \in [Paths -> Profile \cup {Missing}]
             /\ disk'[Tmp[conf]] = [id |-> tox, whole |-> whole]
             /\ \A p \in Paths \ {Tmp[conf]} : disk'[p] = disk[p]
  <2>1. [id |-> tox, whole |-> whole] \in Profile
    BY <1>2, <1>3 DEF Profile
  <2> QED
    BY <1>1, <1>2, <1>3, <2>1 DEF Written
<1>4. LET r == Renamed(Tmp[conf], Save[conf]) IN
        /\ r \in [Paths -> Profile \cup {Missing}]
        /\ r[Save[conf]] = disk[Tmp[conf]]
        /\ \A p \in Paths \ {Tmp[conf], Save[conf]} : r[p] = disk[p]
  BY <1>1, <1>2 DEF Renamed
<1> QED
  BY <1>1, <1>3, <1>4

\* create_tox takes the identity in the save file, unless it fails to read it.
LEMMA CreateToxStep == IInv /\ CreateTox => IInv'
<1> SUFFICES ASSUME IInv, CreateTox PROVE IInv'
  OBVIOUS
<1>1. /\ step' = "bootstrap"
      /\ UNCHANGED <<option, ini, nodes, disk, named, conf, known>>
      /\ failed = {}
  BY DEF CreateTox, inputs, IInv
<1>2. /\ tox' \in Nat \ {0}
      /\ made' \in Nat
      /\ failed' \in SUBSET {"read"}
      /\ conf # Unset /\ "read" \notin failed' /\ Holds(Save[conf]) =>
           disk[Save[conf]].id = tox'
  <2>1. CASE NewIdentity /\ failed' = IF Saved # Missing /\ Saved.whole
                                      THEN failed \cup {"read"} ELSE failed
    <3>1. tox' \in Nat \ {0} /\ made' \in Nat
      BY <2>1 DEF NewIdentity, IInv, TypeOK
    <3>2. conf # Unset /\ Holds(Save[conf]) => Saved # Missing /\ Saved.whole
      BY DEF Saved, Holds
    <3> QED
      BY <1>1, <2>1, <3>1, <3>2
  <2>2. CASE Saved # Missing /\ tox' = Saved.id /\ UNCHANGED <<failed, made>>
    <3>1. conf # Unset /\ Saved = disk[Save[conf]]
      BY <2>2 DEF Saved
    <3>2. Saved \in Profile
      BY <2>2, <3>1, DiskFacts DEF IInv, TypeOK
    <3>3. tox' \in Nat \ {0} /\ made' \in Nat
      BY <2>2, <3>2 DEF Profile, IInv, TypeOK
    <3> QED
      BY <1>1, <2>2, <3>1, <3>3
  <2> QED
    BY <2>1, <2>2 DEF CreateTox
<1>3. TypeOK'
  BY <1>1, <1>2 DEF IInv, TypeOK
<1>4. Holds(Save[conf])' <=> Holds(Save[conf])
  BY <1>1 DEF Holds
<1> QED
  BY <1>1, <1>2, <1>3, <1>4 DEF IInv, ServesConfigured

\* The temporary file is renamed only after it was written, whole or not.
LEMMA WriteTmpStep == IInv /\ WriteTmp => IInv'
<1> SUFFICES ASSUME IInv, WriteTmp PROVE IInv'
  OBVIOUS
<1>1. /\ step = "save"
      /\ step' \in {"rename", "down"}
      /\ UNCHANGED <<option, ini, nodes, named, conf, tox, known, made>>
      /\ failed \subseteq {"read"}
      /\ tox \in Nat \ {0}
  BY DEF WriteTmp, inputs, IInv, TypeOK
<1>2. CASE UNCHANGED <<disk, failed>> /\ step' = "down"
  BY <1>1, <1>2 DEF IInv, TypeOK, ServesConfigured
<1>3. CASE /\ conf # Unset
           /\ \E whole \in BOOLEAN :
                /\ Written(whole)
                /\ step' = "rename" => whole = ("write" \notin failed')
           /\ failed' \in {failed, failed \cup {"write"}}
  <2>1. PICK whole \in BOOLEAN :
          /\ Written(whole)
          /\ step' = "rename" => whole = ("write" \notin failed')
    BY <1>3
  <2>2. /\ disk' \in [Paths -> Profile \cup {Missing}]
        /\ disk'[Tmp[conf]] = [id |-> tox, whole |-> whole]
        /\ \A p \in Paths \ {Tmp[conf]} : disk'[p] = disk[p]
        /\ Save[conf] \in Paths
    BY <1>1, <1>3, <2>1, DiskFacts DEF IInv
  <2>3. TypeOK'
    BY <1>1, <1>3, <2>2 DEF IInv, TypeOK
  <2>4. "read" \notin failed' /\ Holds(Save[conf])' =>
          disk'[Save[conf]].id = tox
    <3>1. CASE Save[conf] = Tmp[conf]
      BY <2>2, <3>1
    <3>2. CASE Save[conf] # Tmp[conf]
      <4>1. disk'[Save[conf]] = disk[Save[conf]] /\ conf' = conf
        BY <1>1, <2>2, <3>2
      <4> QED
        BY <1>1, <1>3, <4>1 DEF IInv, Holds
    <3> QED
      BY <3>1, <3>2
  <2> QED
    BY <1>1, <1>3, <2>1, <2>2, <2>3, <2>4 DEF IInv, ServesConfigured
<1> QED
  <2>1. CASE Written(TRUE) /\ failed' = failed /\ step' = "rename" /\ conf # Unset
    BY <1>1, <1>3, <2>1
  <2>2. CASE /\ Written(FALSE) /\ failed' = failed \cup {"write"}
             /\ step' = "rename" /\ conf # Unset
    BY <1>1, <1>3, <2>2
  <2>3. CASE Written(FALSE) /\ failed' = failed /\ step' = "down" /\ conf # Unset
    BY <1>1, <1>3, <2>3
  <2> QED
    BY <1>2, <2>1, <2>2, <2>3 DEF WriteTmp

\* After the rename the save file is what was written.
LEMMA RenameTmpStep == IInv /\ RenameTmp => IInv'
<1> SUFFICES ASSUME IInv, RenameTmp PROVE IInv'
  OBVIOUS
<1>1. /\ step' = "loop"
      /\ UNCHANGED <<option, ini, nodes, named, conf, tox, known, made>>
      /\ conf # Unset
      /\ disk[Tmp[conf]] = [id |-> tox, whole |-> "write" \notin failed]
      /\ tox \in Nat \ {0}
  BY DEF RenameTmp, inputs, IInv, TypeOK
<1>2. CASE disk' = Renamed(Tmp[conf], Save[conf]) /\ failed' = failed
  <2>1. /\ disk' \in [Paths -> Profile \cup {Missing}]
        /\ disk'[Save[conf]] = disk[Tmp[conf]]
    BY <1>1, <1>2, DiskFacts DEF IInv
  <2>2. TypeOK'
    BY <1>1, <1>2, <2>1 DEF IInv, TypeOK
  <2>3. disk'[Save[conf]].id = tox
    BY <1>1, <2>1
  <2>4. "write" \notin failed => disk'[Save[conf]] = [id |-> tox, whole |-> TRUE]
    BY <1>1, <2>1
  <2> QED
    BY <1>1, <1>2, <2>2, <2>3, <2>4 DEF IInv, ServesConfigured
<1>3. CASE disk' = disk /\ failed' = failed \cup {"rename"}
  <2>1. TypeOK'
    BY <1>1, <1>3 DEF IInv, TypeOK
  <2>2. "read" \notin failed' /\ Holds(Save[conf])' =>
          disk'[Save[conf]].id = tox
    BY <1>1, <1>3 DEF IInv, RenameTmp, Holds
  <2> QED
    BY <1>1, <1>3, <2>1, <2>2 DEF IInv, ServesConfigured
<1> QED
  BY <1>2, <1>3 DEF RenameTmp

\* Every step keeps the invariant.
LEMMA InvStep == IInv /\ [Next]_vars => IInv'
<1> SUFFICES ASSUME IInv, [Next]_vars PROVE IInv'
  OBVIOUS
<1> USE StartAssumption DEF IInv, TypeOK, ServesConfigured, inputs, Holds
<1>1. CASE Start
  BY <1>1 DEF Start
<1>2. CASE ParseOption
  BY <1>2 DEF ParseOption
<1>3. CASE ParseConf
  BY <1>3 DEF ParseConf
<1>4. CASE CreateTox
  BY <1>4, CreateToxStep
<1>5. CASE Bootstrap
  BY <1>5 DEF Bootstrap, NodesFile
<1>6. CASE WriteTmp
  BY <1>6, WriteTmpStep
<1>7. CASE RenameTmp
  BY <1>7, RenameTmpStep
<1>8. CASE SaveAgain
  BY <1>8 DEF SaveAgain
<1>9. CASE Crash
  BY <1>9 DEF Crash
<1>10. CASE Edit
  BY <1>10 DEF Edit
<1>11. CASE UNCHANGED vars
  BY <1>11 DEF vars
<1> QED
  BY <1>1, <1>2, <1>3, <1>4, <1>5, <1>6, <1>7, <1>8, <1>9, <1>10, <1>11 DEF Next

(***************************************************************************)
(* How conf, the identity in memory and the files agree at every step,     *)
(* whatever reads, writes and renames fail.                                *)
(***************************************************************************)
THEOREM Invariance == Spec => []IInv
BY InvInit, InvStep, PTL DEF Spec

(***************************************************************************)
(* A bot in its loop has a configuration, whatever was wrong with the      *)
(* command line and the files; and a saved identity, unless its last write *)
(* or rename failed.                                                       *)
(***************************************************************************)
THEOREM Configured == Spec => []ServesConfigured
<1>1. IInv => ServesConfigured
  BY DEF IInv
<1> QED
  BY <1>1, Invariance, PTL

(***************************************************************************)
(* A whole profile is overwritten only in the temporary file in use, or in *)
(* the save file in use after it could not be read, or was written short.  *)
(***************************************************************************)
THEOREM IdentitiesStay == Spec => IdentityStays
<1>1. IInv /\ [Next]_vars =>
        [\A p \in Paths : Holds(p) /\ disk'[p] # disk[p] =>
           \/ p = Tmp[conf]
           \/ p = Save[conf] /\ failed \cap {"read", "write"} # {}]_vars
  <2> SUFFICES ASSUME IInv, [Next]_vars,
                      NEW p \in Paths, Holds(p), disk'[p] # disk[p]
               PROVE  \/ p = Tmp[conf]
                      \/ p = Save[conf] /\ failed \cap {"read", "write"} # {}
    OBVIOUS
  <2>1. CASE WriteTmp
    <3>1. conf # Unset /\ tox # 0 /\ \E whole \in BOOLEAN : Written(whole)
      BY <2>1 DEF WriteTmp, IInv, TypeOK
    <3> QED
      BY <3>1, DiskFacts DEF IInv
  <2>2. CASE RenameTmp
    <3>1. /\ conf # Unset
          /\ disk' = Renamed(Tmp[conf], Save[conf])
          /\ disk[Tmp[conf]] = [id |-> tox, whole |-> "write" \notin failed]
      BY <2>2 DEF RenameTmp, IInv
    <3>2. p \in {Tmp[conf], Save[conf]} /\ disk'[Save[conf]] = disk[Tmp[conf]]
      BY <3>1, DiskFacts DEF IInv
    <3>3. ASSUME p = Save[conf], failed \cap {"read", "write"} = {}
          PROVE  FALSE
      <4>1. disk[p].id = tox /\ disk[p].whole = TRUE /\ disk[p] \in Profile
        BY <2>2, <3>1, <3>3 DEF IInv, TypeOK, RenameTmp, Holds
      <4>2. disk[p] = [id |-> tox, whole |-> TRUE]
        BY <4>1 DEF Profile
      <4> QED
        BY <3>1, <3>2, <3>3, <4>2
    <3> QED
      BY <3>2, <3>3
  <2>3. CASE disk' = disk
    BY <2>3
  <2> QED
    BY <2>1, <2>2, <2>3 DEF Next, Start, ParseOption, ParseConf, CreateTox,
       Bootstrap, SaveAgain, Crash, Edit, vars
<1> QED
  BY <1>1, Invariance, PTL DEF Spec, IdentityStays
=============================================================================
