-------------------------- MODULE FriendStoreProofs --------------------------
(***************************************************************************)
(* Theorems about FriendStore: one inductive invariant, IInv, and what     *)
(* follows from it under the file faults that each promise bears.          *)
(***************************************************************************)
EXTENDS FriendStore, TLAPS

\* The types hold before the first start.
LEMMA TypeInit == Init => TypeOK
BY StoreAssumption, FileAssumption DEF Init, TypeOK, File, Profile

\* Every step keeps the types.
LEMMA TypeStep == TypeOK /\ [Next]_vars => TypeOK'
<1> SUFFICES ASSUME TypeOK, [Next]_vars PROVE TypeOK'
  OBVIOUS
<1> USE DEF TypeOK, File
<1>1. CASE Start
  BY <1>1 DEF Start, NewIdentity, PartOf, Profile
<1>2. ASSUME NEW k \in Keys, FriendRequest(k) PROVE TypeOK'
  BY <1>2 DEF FriendRequest, Profile
<1>3. CASE FriendChanges
  BY <1>3 DEF FriendChanges
<1>4. ASSUME NEW k \in Keys, QueryFriend(k) PROVE TypeOK'
  BY <1>4 DEF QueryFriend
<1>5. CASE OpenTmp
  BY <1>5 DEF OpenTmp
<1>6. CASE WriteTmp
  BY <1>6 DEF WriteTmp
<1>7. CASE CloseTmp
  BY <1>7 DEF CloseTmp
<1>8. CASE RenameTmp
  BY <1>8 DEF RenameTmp
<1>9. CASE Crash
  BY <1>9 DEF Crash
<1>10. CASE UNCHANGED vars
  BY <1>10 DEF vars
<1> QED
  BY <1>1, <1>2, <1>3, <1>4, <1>5, <1>6, <1>7, <1>8, <1>9, <1>10 DEF Next

(***************************************************************************)
(* The profile, the two files and the state of a save always have their    *)
(* types, whatever fails.                                                  *)
(***************************************************************************)
THEOREM TypeCorrect == Spec => []TypeOK
BY TypeInit, TypeStep, PTL DEF Spec

\* The invariant holds before the first start.
LEMMA InvInit == Init => IInv
<1> SUFFICES ASSUME Init PROVE IInv
  OBVIOUS
<1>1. TypeOK
  BY TypeInit
<1> QED
  BY <1>1, StoreAssumption, FileAssumption
  DEF Init, IInv, TmpOK, SaveIsLoadable, Ahead, RunOK,
      AnsweredIsDurable

\* Every step keeps the invariant.
LEMMA InvStep == IInv /\ [Next]_vars => IInv'
<1> SUFFICES ASSUME IInv, [Next]_vars PROVE IInv'
  OBVIOUS
<1>t. TypeOK /\ TypeOK'
  BY TypeStep DEF IInv
<1> USE <1>t, StoreAssumption, FileAssumption
    DEF IInv, TmpOK, SaveIsLoadable, Ahead, RunOK, AnsweredIsDurable
<1>1. CASE Start
  <2>1. CASE file \in Profile /\ tox' = file /\ made' = made /\ failed' = failed
    BY <1>1, <2>1 DEF Start, TypeOK
  <2>2. CASE file = Missing /\ NewIdentity /\ failed' = failed
    BY <1>1, <2>2 DEF Start, TypeOK, NewIdentity
  <2>3. CASE file = Torn
    BY <1>1, <2>3 DEF Start, TypeOK
  <2>4. CASE "read" \in Faults /\ failed' = failed \cup {"read"}
    BY <1>1, <2>4 DEF Start, TypeOK
  <2> QED
    BY <1>1, <2>1, <2>2, <2>3, <2>4 DEF Start
<1>2. ASSUME NEW k \in Keys, FriendRequest(k) PROVE IInv'
  <2>1. /\ tox'.id = tox.id
        /\ tox.friends \subseteq tox'.friends
    BY <1>2 DEF FriendRequest, TypeOK, Profile
  <2> QED
    BY <1>2, <2>1 DEF FriendRequest, TypeOK
<1>3. CASE FriendChanges
  BY <1>3 DEF FriendChanges
<1>4. ASSUME NEW k \in Keys, QueryFriend(k) PROVE IInv'
  BY <1>4 DEF QueryFriend, TypeOK
<1>5. CASE OpenTmp
  BY <1>5 DEF OpenTmp
<1>6. CASE WriteTmp
  BY <1>6 DEF WriteTmp
<1>7. CASE CloseTmp
  BY <1>7 DEF CloseTmp
<1>8. CASE RenameTmp
  BY <1>8 DEF RenameTmp, TypeOK
<1>9. CASE Crash
  BY <1>9 DEF Crash
<1>10. CASE UNCHANGED vars
  BY <1>10 DEF vars
<1> QED
  BY <1>1, <1>2, <1>3, <1>4, <1>5, <1>6, <1>7, <1>8, <1>9, <1>10 DEF Next

(***************************************************************************)
(* Memory, save file and temporary file agree as IInv says, for any number *)
(* of keys, starts and interrupted saves.                                  *)
(***************************************************************************)
THEOREM Invariance == Spec => []IInv
BY InvInit, InvStep, PTL DEF Spec

(***************************************************************************)
(* While no write is cut short, the save file can always be loaded, also   *)
(* when fopen or rename has failed.                                        *)
(***************************************************************************)
THEOREM Loadable == Spec => []SaveIsLoadable
<1>1. IInv => SaveIsLoadable
  BY DEF IInv
<1> QED
  BY <1>1, Invariance, PTL

(***************************************************************************)
(* A friend that query_friend has told someone of survives every crash.    *)
(***************************************************************************)
THEOREM Durable == Spec => []AnsweredIsDurable
<1>1. IInv => AnsweredIsDurable
  BY DEF IInv
<1> QED
  BY <1>1, Invariance, PTL

(***************************************************************************)
(* A bot that has friends keeps its identity over every restart, also      *)
(* after the process has ended in an fwrite to NULL.                       *)
(***************************************************************************)
THEOREM SameIdentity == Spec => IdentityKept
<1>1. IInv /\ [Next]_vars
        => [failed' \subseteq {"open"} /\ tox.friends # {} => tox'.id = tox.id]_vars
  <2> SUFFICES ASSUME IInv, [Next]_vars, failed' \subseteq {"open"},
                      tox.friends # {}
               PROVE  tox'.id = tox.id
    OBVIOUS
  <2>1. CASE Start
    <3>1. failed \subseteq {"open"} /\ failed' = failed
      BY <2>1 DEF Start
    <3>2. file # Missing /\ file # Torn
      BY <3>1 DEF IInv, RunOK, SaveIsLoadable
    <3>3. file \in Profile /\ tox' = file
      BY <2>1, <3>1, <3>2 DEF Start
    <3> QED
      BY <3>1, <3>3 DEF IInv, Ahead
  <2>2. ASSUME NEW k \in Keys, FriendRequest(k) PROVE tox'.id = tox.id
    BY <2>2 DEF FriendRequest, IInv, TypeOK, Profile
  <2>3. ASSUME tox' = tox PROVE tox'.id = tox.id
    BY <2>3
  <2> QED
    BY <2>1, <2>2, <2>3 DEF Next, FriendChanges, QueryFriend, OpenTmp,
       WriteTmp, CloseTmp, RenameTmp, Crash, vars
<1> QED
  BY <1>1, Invariance, PTL DEF Spec, IdentityKept

\* What has failed once stays failed.
LEMMA FailuresStay == [Next]_vars => failed \subseteq failed'
BY DEF Next, Start, FriendRequest, FriendChanges, QueryFriend, OpenTmp,
   WriteTmp, CloseTmp, RenameTmp, Crash, vars

(***************************************************************************)
(* The save file implements the register: created once, then only growing. *)
(***************************************************************************)
THEOREM Implementation == Spec => ImplementsRegister
<1> DEFINE Fine(f) == f \subseteq {"open", "rename"}
           saved == IF Fine(failed) THEN file ELSE Torn
<1>1. Init => Register!Init
  BY DEF Init, Register!Init
<1>2. IInv /\ [Next]_vars
        => [Register!Create \/ Register!Grow \/ Register!Lose]_saved
  <2> SUFFICES ASSUME IInv, [Next]_vars, saved' # saved
               PROVE  Register!Create \/ Register!Grow \/ Register!Lose
    OBVIOUS
  <2>1. CASE ~Fine(failed')
    BY <2>1 DEF Register!Lose
  <2>2. CASE Fine(failed')
    <3>1. Fine(failed) /\ file' # file
      BY <2>2, FailuresStay
    <3>2. step = "rename" /\ file' = tmp
      BY <3>1 DEF Next, Start, FriendRequest, FriendChanges, QueryFriend,
         OpenTmp, WriteTmp, CloseTmp, RenameTmp, Crash, vars
    <3>3. file' = tox /\ tox \in Profile
      BY <3>1, <3>2 DEF IInv, TmpOK, TypeOK
    <3>4. CASE file = Missing
      BY <2>2, <3>1, <3>3, <3>4 DEF Register!Create
    <3>5. CASE file \in Profile
      BY <2>2, <3>1, <3>3, <3>5 DEF Register!Grow, IInv, Ahead
    <3> QED
      BY <3>1, <3>4, <3>5 DEF IInv, SaveIsLoadable, TypeOK, File
  <2> QED
    BY <2>1, <2>2
<1> QED
  BY <1>1, <1>2, Invariance, PTL DEF Spec, ImplementsRegister, Register!Spec
=============================================================================
