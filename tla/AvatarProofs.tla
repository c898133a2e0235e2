----------------------------- MODULE AvatarProofs -----------------------------
(***************************************************************************)
(* Theorems about Avatar, for any friends, images and number of transfers. *)
(***************************************************************************)
EXTENDS Avatar, TLAPS

\* Every step keeps the buffer and the transfers as IInv says.
LEMMA InvStep == IInv /\ [Next]_vars => IInv'
<1> SUFFICES ASSUME IInv, [Next]_vars PROVE IInv'
  OBVIOUS
<1> USE AvatarAssumption, AbsentAssumption DEF IInv, TypeOK, Transfer
<1>1. ASSUME NEW c \in Friends, ConnectionUp(c) PROVE IInv'
  <2>1. /\ avatar_data' \in Buffer \cup {Absent}
        /\ avatar_data # Absent /\ Size[avatar_data.image] # 0
             => avatar_data' = avatar_data
    BY <1>1 DEF ConnectionUp, GetData, avatar_data_size, Buffer
  <2>2. CASE transfer' = transfer
    BY <1>1, <2>1, <2>2 DEF ConnectionUp, Buffer
  <2>3. ASSUME NEW f \in Files, avatar_data' # Absent,
               transfer' = [transfer EXCEPT ![<<c, f>>] =
                 [offered |-> avatar_data', next |-> 0, sent |-> {}]]
        PROVE  IInv'
    BY <1>1, <2>1, <2>3 DEF ConnectionUp, Buffer
  <2> QED
    BY <1>1, <2>2, <2>3 DEF ConnectionUp
<1>2. ASSUME NEW s \in Friends \X Files, ChunkRequest(s) PROVE IInv'
  <2>1. avatar_data = transfer[s].offered /\ avatar_data \in Buffer
    <3>1. transfer[s] \in Transfer
      BY <1>2 DEF ChunkRequest
    <3>2. /\ transfer[s].offered \in Buffer
          /\ transfer[s].next \in Nat
      BY <3>1
    <3>3. Size[transfer[s].offered.image] \in Nat \ {0}
      BY <1>2, <3>2 DEF ChunkRequest, Buffer
    <3> QED
      BY <1>2, <3>2, <3>3 DEF ChunkRequest
  <2>2. avatar_data' = avatar_data
    <3>1. /\ transfer[s].next \in Nat
          /\ Size[avatar_data.image] \in Nat
      BY <1>2, <2>1 DEF ChunkRequest, Buffer
    <3>2. avatar_data_size(avatar_data) # 0
      BY <1>2, <2>1, <3>1 DEF ChunkRequest, avatar_data_size
    <3> QED
      BY <1>2, <3>2 DEF ChunkRequest, GetData
  <2>3. CASE transfer' = transfer
    BY <1>2, <2>2, <2>3 DEF ChunkRequest
  <2>4. CASE transfer' = [transfer EXCEPT ![s] =
               [offered |-> @.offered, next |-> @.next + 1,
                sent |-> @.sent \cup {avatar_data'}]]
    <3>1. transfer[s] \in Transfer
      BY <1>2 DEF ChunkRequest
    <3> DEFINE q == [offered |-> transfer[s].offered,
                     next |-> transfer[s].next + 1,
                     sent |-> transfer[s].sent \cup {avatar_data}]
    <3>2. /\ q \in Transfer
          /\ q.offered = transfer[s].offered
          /\ q.sent = transfer[s].sent \cup {avatar_data}
      BY <2>1, <3>1
    <3>3. transfer' = [transfer EXCEPT ![s] = q]
      BY <2>2, <2>4
    <3> HIDE DEF q
    <3>4. TypeOK'
      BY <1>2, <2>1, <2>2, <3>2, <3>3 DEF ChunkRequest
    <3>5. ASSUME NEW r \in Friends \X Files, transfer'[r] # Absent
          PROVE  /\ Size[transfer'[r].offered.image] # 0
                       => avatar_data' = transfer'[r].offered
                 /\ transfer'[r].sent \subseteq {transfer'[r].offered}
      <4>1. CASE r = s
        BY <1>2, <2>1, <2>2, <3>2, <3>3, <4>1 DEF ChunkRequest
      <4>2. CASE r # s
        BY <2>2, <3>3, <3>5, <4>2
      <4> QED
        BY <4>1, <4>2
    <3> QED
      BY <3>4, <3>5
  <2> QED
    BY <1>2, <2>3, <2>4 DEF ChunkRequest
<1>3. ASSUME NEW s \in Friends \X Files, LastChunkRequest(s) PROVE IInv'
  BY <1>3 DEF LastChunkRequest
<1>4. ASSUME NEW c \in Friends, Disconnect(c) PROVE IInv'
  BY <1>4 DEF Disconnect
<1>5. CASE Replace
  BY <1>5 DEF Replace
<1>6. CASE Crash
  BY <1>6 DEF Crash, Nothing
<1>7. CASE UNCHANGED vars
  BY <1>7 DEF vars
<1> QED
  BY <1>1, <1>2, <1>3, <1>4, <1>5, <1>6, <1>7 DEF Next

(***************************************************************************)
(* The buffer stays what was offered as long as there is something of it   *)
(* to send.                                                                *)
(***************************************************************************)
THEOREM Invariance == Spec => []IInv
<1>1. Init => IInv
  BY AvatarAssumption, AbsentAssumption DEF Init, Nothing, IInv, TypeOK
<1> QED
  BY <1>1, InvStep, PTL DEF Spec

(***************************************************************************)
(* No friend is sent anything but the image it was offered.                *)
(***************************************************************************)
THEOREM NoMixture == Spec => []SentIsOffered
<1>1. IInv => SentIsOffered
  BY DEF IInv, SentIsOffered
<1> QED
  BY <1>1, Invariance, PTL

(***************************************************************************)
(* The size test of file_chunk_request_cb never refuses a chunk.           *)
(***************************************************************************)
THEOREM NoneRefused == Spec => []ChunksInRange
<1>1. IInv => ChunksInRange
  <2> SUFFICES ASSUME IInv, NEW s \in Friends \X Files, transfer[s] # Absent
               PROVE  Size[transfer[s].offered.image]
                        <= avatar_data_size(avatar_data)
    BY DEF ChunksInRange
  <2>1. transfer[s].offered \in Buffer
    BY DEF IInv, TypeOK, Transfer
  <2>2. /\ Size[transfer[s].offered.image] \in Nat
        /\ avatar_data_size(avatar_data) \in Nat
    BY <2>1, AvatarAssumption DEF IInv, TypeOK, Buffer, avatar_data_size
  <2>3. CASE Size[transfer[s].offered.image] = 0
    BY <2>2, <2>3
  <2>4. CASE avatar_data = transfer[s].offered
    BY <2>1, <2>2, <2>4, AbsentAssumption DEF avatar_data_size
  <2> QED
    BY <2>3, <2>4 DEF IInv
<1> QED
  BY <1>1, Invariance, PTL

(***************************************************************************)
(* The buffer holds what was read from the file, or nothing, and what a    *)
(* friend is offered is something that was read.                           *)
(***************************************************************************)
THEOREM TypeCorrect == Spec => []TypeOK
<1>1. IInv => TypeOK
  BY DEF IInv
<1> QED
  BY <1>1, Invariance, PTL
=============================================================================
