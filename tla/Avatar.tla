-------------------------------- MODULE Avatar --------------------------------
(***************************************************************************)
(* The bot's avatar: get_data reads the file into the static buffer        *)
(* avatar_data, tox_friend_connection_status_callback offers it, with its  *)
(* size and hash, to a friend that comes online, and file_chunk_request_cb *)
(* sends the chunks that toxcore asks for.  The offer and each chunk are   *)
(* events of their own: the file may be replaced between them, and other   *)
(* friends come and go.                                                    *)
(*                                                                         *)
(* A chunk is the unit of size and position.                               *)
(***************************************************************************)
EXTENDS Integers

CONSTANTS
  Friends,
  Images,  \* what the avatar file may hold
  Size,    \* Size[i]: its size in chunks
  Absent,  \* no file, nullptr, or no transfer
  Files    \* file numbers: the transfers to one friend at a time

ASSUME AvatarAssumption ==
  /\ Size \in [Images -> Nat]
  /\ Absent \notin Images

VARIABLES
  disk,         \* the file
  avatar_data,  \* the buffer, which avatar_data_size goes with
  transfer      \* transfer[c, f]: what was offered to c as f, and sent of it

vars == <<disk, avatar_data, transfer>>

\* A buffer that fread did not fill (whole = FALSE) is used all the same.
Buffer == [image : Images, whole : BOOLEAN]

Transfer == [offered : Buffer, next : Nat, sent : SUBSET Buffer]

ASSUME AbsentAssumption == Absent \notin Buffer /\ Absent \notin Transfer

\* The types: what is offered is a buffer that was read.
TypeOK ==
  /\ disk \in Images \cup {Absent}
  /\ avatar_data \in Buffer \cup {Absent}
  /\ transfer \in [Friends \X Files -> Transfer \cup {Absent}]

Nothing == [s \in Friends \X Files |-> Absent]

Init ==
  /\ disk \in Images \cup {Absent}
  /\ avatar_data = Absent
  /\ transfer = Nothing

-----------------------------------------------------------------------------
avatar_data_size(buffer) == IF buffer = Absent THEN 0 ELSE Size[buffer.image]

\* Mutant of GetData: the file is read anew for every event.
GetDataAgain ==
  avatar_data' \in
    {Absent} \cup {b \in Buffer : disk # Absent /\ b.image = disk}

(***************************************************************************)
(* Both callbacks read the file unless there is a buffer with something in *)
(* it; get_data answers nullptr when it cannot open the file.              *)
(***************************************************************************)
GetData ==
  avatar_data' \in
    IF avatar_data_size(avatar_data) # 0 THEN {avatar_data}
    ELSE {Absent} \cup {b \in Buffer : disk # Absent /\ b.image = disk}

\* Mutant of ConnectionUp: avatar_data is not tested before the offer.
ConnectionUpUnchecked(c) ==
  /\ GetData
  /\ \/ transfer' = transfer
     \/ \E f \in Files :
           /\ transfer[<<c, f>>] = Absent
           /\ transfer' = [transfer EXCEPT ![<<c, f>>] =
                [offered |-> avatar_data', next |-> 0, sent |-> {}]]
  /\ disk' = disk

\* A friend comes online; tox_file_send may fail, which is only logged.
ConnectionUp(c) ==
  /\ GetData
  /\ \/ transfer' = transfer
     \/ /\ avatar_data' # Absent
        /\ \E f \in Files :
              /\ transfer[<<c, f>>] = Absent
              /\ transfer' = [transfer EXCEPT ![<<c, f>>] =
                   [offered |-> avatar_data', next |-> 0, sent |-> {}]]
  /\ disk' = disk

(***************************************************************************)
(* file_chunk_request_cb for the next chunk of the offered size: nothing   *)
(* is sent beyond avatar_data_size, and nothing comes of a chunk that      *)
(* toxcore does not take.                                                  *)
(***************************************************************************)
ChunkRequest(s) ==
  /\ transfer[s] # Absent
  /\ transfer[s].next < Size[transfer[s].offered.image]
  /\ GetData
  /\ \/ transfer' = transfer
     \/ /\ transfer[s].next + 1 <= avatar_data_size(avatar_data')
        /\ transfer' = [transfer EXCEPT ![s] =
             [offered |-> @.offered, next |-> @.next + 1,
              sent |-> @.sent \cup {avatar_data'}]]
  /\ disk' = disk

\* file_chunk_request_cb with length 0: the transfer is over.
LastChunkRequest(s) ==
  /\ transfer[s] # Absent
  /\ transfer[s].next = Size[transfer[s].offered.image]
  /\ transfer' = [transfer EXCEPT ![s] = Absent]
  /\ UNCHANGED <<disk, avatar_data>>

\* The friend goes offline, and its transfers with it.
Disconnect(c) ==
  /\ transfer' = [s \in Friends \X Files |->
                    IF s[1] = c THEN Absent ELSE transfer[s]]
  /\ UNCHANGED <<disk, avatar_data>>

\* Somebody replaces the file, or takes it away.
Replace ==
  /\ disk' \in Images \cup {Absent}
  /\ UNCHANGED <<avatar_data, transfer>>

\* The process ends and is started again.
Crash ==
  /\ avatar_data' = Absent
  /\ transfer' = Nothing
  /\ disk' = disk

Next ==
  \/ \E c \in Friends : ConnectionUp(c) \/ Disconnect(c)
  \/ \E s \in Friends \X Files : ChunkRequest(s) \/ LastChunkRequest(s)
  \/ Replace
  \/ Crash

Spec == Init /\ [][Next]_vars

-----------------------------------------------------------------------------
(***************************************************************************)
(* What a friend is sent in a transfer is the image whose hash it was      *)
(* offered, and no mixture with another, though the file is not locked and *)
(* the buffer belongs to all transfers (file_chunk_request_cb).            *)
(***************************************************************************)
SentIsOffered ==
  \A s \in Friends \X Files :
    transfer[s] # Absent => transfer[s].sent \subseteq {transfer[s].offered}

(***************************************************************************)
(* The buffer has every chunk that may still be asked for: the test        *)
(* "position + length is more than avatar_data_size" never refuses one,    *)
(* which would leave the transfer where it is.                             *)
(***************************************************************************)
ChunksInRange ==
  \A s \in Friends \X Files :
    transfer[s] # Absent =>
      Size[transfer[s].offered.image] <= avatar_data_size(avatar_data)

-----------------------------------------------------------------------------
(***************************************************************************)
(* While there is something to send, the buffer is what was offered.       *)
(***************************************************************************)
IInv ==
  /\ TypeOK
  /\ \A s \in Friends \X Files :
       transfer[s] # Absent =>
         /\ Size[transfer[s].offered.image] # 0 =>
              avatar_data = transfer[s].offered
         /\ transfer[s].sent \subseteq {transfer[s].offered}
=============================================================================
