# OfflineMessageBot in TLA+

The program (`src/src`) is a Tox bot that keeps messages for clients that are
offline: a sender leaves a message with the bot, the bot stores it in MySQL,
tells the receiver of it when the receiver's connection comes up, hands the
messages out page by page and deletes what the receiver has confirmed.  This
directory holds TLA+ modules of the parts of the program that have state, TLC
runs that check them on small instances, and proofs that TLAPS checks for every
value of the constants.

## 1. The system

One thread runs everything.  `main` (`main.cc`) reads the configuration, creates
the Tox profile, saves it, registers the callbacks (`Bot::register_function`)
and then calls `tox_iterate` for ever.  Each callback of class `Assisant`
(`assisant.cc`) runs to its end before the next event is dispatched, so what
interleaves is not code with code but handlers with the packets that are under
way, with the database server, with crashes, with the other clients' requests
and with the files on disk.

| component | state | operations | talks to | hard about it |
|---|---|---|---|---|
| offline-message service: `friend_message_offline_cb`, `message_offline_recv`, `_read_notice`, `_pull`, `_del` | none of its own; the locals of a pull | SEND, PULL and DEL requests, connection status | table, Tox connections, clients | a deletion by "id <= last" of what was paged, lost and repeated packets, repeated notices, failing queries, crash in a handler |
| message table: `OfflineMessageModel`, `doc/db_tok.sql` | `t_offline_message`, its AUTO_INCREMENT counter | `add`, `del`, `get_latest_id`, `get_count`, `get_list` | connection pool | every exception is caught and looks like an empty answer; a UNIQUE KEY over all senders |
| friends and save file: `friend_request_cb`, `friend_name_cb`, `friend_status_message_cb`, `query_friend`, `update_savedata_file`, `Bot::create_tox` | Tox profile in memory, save file, temporary file | add a friend, answer about one, save, start | file system | crash between the calls of a save, unchecked `fopen`, `fwrite`, `fclose`, `rename` |
| connection pool: `DBConn` | `free_list_` | `allocate`, `release` | MySQL server | one release on every path, connections that die, a size read outside the lock |
| avatar: `get_data`, `tox_friend_connection_status_callback`, `file_chunk_request_cb` | the static `avatar_data`, `avatar_data_size` | offer, chunk | file system, toxcore's transfers | offer and chunks are separate events that share a buffer; the file may change |
| start and main loop: `main`, `Conf`, `Bot` | command line, `conf`, the step of the start | `parse_option`, `parse_conf`, `create_tox`, `bootstrap`, first save | operator's files, toxcore | `main` looks at no result; files that change between two starts; reads, writes and renames that fail unnoticed |
| packets: `friend_message_offline_cb`, the classes generated from `message.proto`, `Util` | the message under construction, the unknown fields | `ParseFromArray`, `MergePartialFromCodedStream`, `SerializeToArray`, `ByteSizeLong`, `get_id_by_pk` | the service, toxcore | fields that are missing, repeated, of another type or cut off; signed and unsigned numbers; sizes at their limits |
| `lock.h`, `locked_queue.h`: `_Refcount_Base`, `lock_queue` | count, mutex, free list | `incr`, `decr`; `allocate`, `deallcate`, `clear` | `DBConn` uses `mutex_lock`; nothing uses `lock_queue` and `_Refcount_Base` | tests outside the lock; locks that do nothing unless `__LINUX` or `__MACX` is defined, which the build does not do |
| `Logger` | none that matters | - | all | - |

What makes the components correct:

- service: nothing is deleted that its receiver has not received; a message that
  was acknowledged is kept until it is received (not promised when its INSERT
  fails or is refused, which nobody looks at); a page that says that nothing is
  left tells the truth; what was announced arrives.
- save file: it can be loaded whenever the process ends; an answer of
  `query_friend` survives a crash; identity and friends are not lost (each as
  long as no read, write or rename fails: none is checked).
- pool: a connection is in one place; none that works is forgotten.
- avatar: what is sent is what was offered, and no chunk is refused.
- packets: what is acted on is what the packet means; half a request does
  nothing; an answer names the request it answers, fits in a packet, and holds
  what the table holds.
- counted objects: a count is the number of references; an object is in the pool
  or in use, not both, and never lost.
- start: a bot that serves has a configuration, and its identity in its save file
  unless its last write or rename failed; a start overwrites no whole profile but
  that in its temporary file, and in its save file when it failed to read that or
  wrote part of a profile.

PROJECT.json lists the hazards one by one, each at its line.

## 2. Modules

| module | models | EXTENDS / INSTANCE |
|---|---|---|
| `OfflineMessageModel` | the table and its five statements, as operators | - |
| `OfflineMessageBot` | the service, the connections and the clients | EXTENDS `OfflineMessageModel`, INSTANCE `Mailbox` |
| `Mailbox` | abstract: what the service promises | - |
| `OfflineMessageBotProofs` | proofs | EXTENDS `OfflineMessageBot`, `TLAPS` |
| `MCOfflineMessageBot` | instances for TLC | EXTENDS `OfflineMessageBot` |
| `FriendStore` | friends, save file, start | INSTANCE `FriendRegister` |
| `FriendRegister` | abstract: a register that only grows | - |
| `FriendStoreProofs`, `MCFriendStore` | proofs, instance | EXTENDS `FriendStore` |
| `DBConn`, `DBConnProofs`, `MCDBConn` | the pool, proofs, instance | - |
| `Avatar`, `AvatarProofs`, `MCAvatar` | the avatar, proofs, instance | - |
| `Startup`, `StartupProofs`, `MCStartup` | the start, proofs, instance | - |
| `Codec`, `CodecProofs` | the generated classes, as operators; lemmas and theorems about them | - |
| `Exchange` | the callbacks from the bytes of a request to those of the answer | EXTENDS `Codec`, INSTANCE `OfflineMessageModel` |
| `ExchangeProofs`, `MCExchange` | proofs, instance | EXTENDS `Exchange`; the proofs also `CodecProofs` |
| `LockedQueue`, `LockedQueueProofs`, `MCLockedQueue` | the queue with counted objects, proofs, instance | - |

They were written in this order, the service first: it is what the bot is for,
and where the code relies on an argument that is written nowhere.

### OfflineMessageModel

A row is `[id, msg]`: the primary key and the message.  Sender, receiver and
`local_msg_id` are functions of the message (`From`, `To`, `LocalId`).  An
operator returns the *set of outcomes* of a method, since with `DbFaults` every
statement may throw and every method then returns what it had: no change, an
empty or shortened list, a count or an id of 0.  `Add` refuses a row whose
`local_msg_id` is in use (`index_local_msg_id` in `db_tok.sql`) and uses up an
id all the same, as InnoDB does.  It also refuses a message of `Unstorable`, which
some column cannot hold: a negative number at least (`MessageAssumption`), a key
of more than 64 or a content of more than 2048 bytes.  That it is refused and not
cut to size is MySQL's strict mode, the default, and external.  `GetCount` is cut to 32 bits (`CountMod`).

### OfflineMessageBot

| action | code |
|---|---|
| `ConnectionUp` | `tox_friend_connection_status_callback` for a status other than NONE, with `message_offline_read_notice`; also for a change from UDP to TCP of a friend that is online |
| `HandleSend` | `message_offline_recv`: INSERT, then the acknowledgement whatever became of it |
| `HandlePull`, `PullRow`, `PullReply` | `message_offline_pull`: the two queries, one iteration of the loop, the reply |
| `HandleDel`, `HandleInvalid` | `message_offline_del`; a packet that names no command or does not parse |
| `Crash` | the process ends and is started again |
| `Disconnect`, `ClientSends`, `ClientAsks`, `Receive...` | external: toxcore and the clients |

The loop of a pull is split into one action per row so that its invariant can be
stated; no other handler runs while `job` is not idle, as in the code, but a
connection may break, a client may send, and the process may end.
`Sent` drops a response when the friend is not connected or its queue is full
(`friend_send_message_offline` only logs that).  `asof` in a PULL_RESPONSE is not
in the packet; it dates the page for `FinalPageIsComplete`.

The clients are not in the repository.  They are modelled from `message.proto`
and from what the bot does with their requests: a client pulls when it is told
of messages, keeps the messages of a page, asks for the deletion up to the
page's last row, and pulls again while `left_count` is not 0.  It may repeat a
message until it is acknowledged, and `ClientAsks` lets it pull or delete out of
turn, but never delete beyond the last row it has read.

### FriendStore

`Start` is the part of `main` up to the first save; `FriendRequest`,
`FriendChanges` and `QueryFriend` are the callbacks; `OpenTmp`, `WriteTmp`,
`CloseTmp` and `RenameTmp` are the calls of `update_savedata_file`, between any
two of which the process may end.  `Faults` names the operations that may fail:
a failed `open` ends the process (`fwrite` to NULL), a short `write` and a failed
`rename` go unnoticed, after a failed or short `read` toxcore takes what it can:
a new identity, or part of the friends.  `failed` remembers which operations have
failed, so that one run allows them all and each property says which failures it
survives.  The model deadlocks where the bot really stays down: with the bound
on identities reached, or when `Tox` cannot be made of the file.  The run says
`CHECK_DEADLOCK FALSE` for that reason.

### DBConn

A method of `OfflineMessageModel` is `allocate`, `Use`, `release`: two actions
for `release`, whose size test is outside the lock.  The number of callers is a
parameter.  The program has one; the class has a lock, and its properties are
those of a build in which the lock is real.

### Avatar

Images, their sizes in chunks and the number of transfers are parameters.
A buffer that `fread` did not fill is a buffer of its own (`whole = FALSE`).

### Startup

One action per call of `main` that can change the course of the start
(`ParseOption`, `ParseConf`, `CreateTox`, `Bootstrap`, and `WriteTmp` and `RenameTmp`,
the two halves of `update_savedata_file`), `SaveAgain`, by which a callback saves
once more, `Crash`, and `Edit`, in which the operator changes the command line or a
file at any time.  A configuration is whole or not there, since `notify` throws for
a missing option: `conf` is `Unset` or a member of `Configs`, of which
`save_data_file` (`Save`) and `save_data_tmp_file` (`Tmp`) matter.  The temporary file
of one configuration may be that of another, or another's save file, or its own.

A file holds a profile, whole or not, or is `Missing`; a profile is its identity.
`CreateTox` makes a new identity when there is no file, but also when `fopen` or
`fread` fails on a file that is there, which the code does not tell apart; of part
of a profile toxcore makes its identity or a new one.  A short `fwrite`, a failing
`fclose` and a failing `rename` let the start go on, as in the code; the NULL of a
failed `fopen` ends it.  `failed` remembers the failure of the read in this start and
of the write or the rename of the last save, so that the properties can say which
of them they survive.  `FriendStore` has the friends, and the calls of a save one by
one.

### Codec and Exchange

`message.pb.h` and `message.pb.cc` are class after class generated by the same
rules.  `Codec` therefore states the fields, numbers and types of each class, and
its methods (`Cleared`, the switch of `MergePartialFromCodedStream`, the unknown
fields, `SerializeWithCachedSizes`, `ByteSizeLong`) once for all classes.  A
packet is a sequence of fields, a field a tag with its payload; a byte string is
only told apart and measured.  `Serialized` and `ByteSizeLong` are the ifs of the
generated methods one after the other (`Written`, `WrittenSize`), by the number of
the field; no class has a number above 6.  `PullResParsed` takes the messages of a
page by their positions and `StreamSize` is a sum along the packet (`Total`), since
a fold or `SelectSeq` is recursive behind an operator and could not be proved
about.

`Exchange` has one action for each thing the bot does with a packet: `Dispatch`
picks the class, `ParseField`, `ParseUnknown` and `ParseFails` are the turns of
the parser's loop, and `QueryFriend`, `MessageRecv`, `MessageDel`, `ReadNotice`,
`PullStart`, `PullRow`, `PullReply` are the handlers with the answer they
serialize.  The conversions between `int64`, `uint64` and `uint32` are made where
the code makes them (`Signed`, `Storable`); `Half` stands for 2^63 and `Word32`
for 2^32, of which only `Half > 0` and `Word32 > 1` are assumed.  A string that is not hex reads as no key, or as any (`MayExist`), since
`get_id_by_pk` ignores what `sodium_hex2bin` returns.

`OfflineMessageBot` takes requests as they are meant and follows them through
clients, connections and failures; `Exchange` takes one packet at a time and
looks at its bytes.  Both use the same `OfflineMessageModel`.

### LockedQueue

`lock_queue` with objects derived from `_Refcount_Base`, the use that the two
templates are made for; the clients, who copy references and give them up, are
external.  What `lock_` covers is one action; the tests of `empty()` and `size()`
are not covered and are actions of their own (`AllocateTests`, `DeallcateTests`).
A count is read in `Load` and written in `Incr` or `Decr`.  `Pthread` says whether
`lock.h` was compiled with a mutex behind its macros.  The back of an empty list,
which one of two threads may take since `empty()` is asked outside the lock, is
undefined: `AllocateDamages` sets `damaged`, after which no step is modelled but
`Restart`, another process, and no property promises anything (each begins with
`~damaged`).  So that race is recorded, not excluded.  The program has one thread and
uses neither template: these are properties of the classes, not of the bot.

## 3. Runs

| run | cfg | asks | states |
|---|---|---|---|
| `faults` | `MCFaults` | with statements that fail, lost packets and crashes: is anything deleted unseen? is the service a mailbox? | 242 800 |
| `repeats` | `MCRepeats` | with a working database, requests out of turn and three connection events: is an acknowledged message kept, if the table can hold it, a last page complete, the invariant inductive? do two pulls and two deletions of the same messages harm each other? | 1 429 672 |
| `delivery` | `MCDelivery` | does what was announced arrive, and is what was sent acknowledged (liveness)? | 32 741 |
| `same_number` | `MCSameNumber` | two clients use the same number: violation | - |
| `oversize` | `MCOversize` | a message that fits on no page: violation | - |
| `friends` | `MCFriends` | saves interrupted by crashes, and failing opens, writes, renames and reads: loadable, a register, answers durable, identity kept | 643 821 |
| `pool` | `MCPool` | three callers, `max_conn` 1 | 730 (with symmetry) |
| `avatar` | `MCAvatar` | two friends, two transfers each, three images | 16 340 |
| `wire` | `MCExchange` | packets with foreign, repeated, mistyped and cut off fields: parsed as meant, answered as asked? | 91 795 |
| `locked_queue` | `MCLockedQueue` | three threads, limit 1, five objects, with a mutex: counts right, nothing shared or lost, the pool bounded, until an empty list is popped? | 85 993 (with symmetry) |
| `refcount` | `MCRefcount` | the same without a mutex: violation | - |
| `start` | `MCStartup` | any command line and files, changed at any time; reads, writes and renames that fail: who serves, and which profiles are overwritten? | 1 297 440 |

Bounds, and why they are enough:

- Two clients, four messages: three go one way, one the other, so that there are
  rows of another client between those of a client.  Three sends make a list
  longer than a page; their sizes (4, 6, 3 of 8) are such that the second does
  not fit behind the first and the third would, the case in which a page could
  get a gap: `faults`, where `Limit` is 3.  In `repeats` it is 1 and in `delivery` 2,
  so that it binds and a client needs several pages.  `CountMod` 4 lets counts wrap.
- In `repeats` and `delivery` there is a message that the table refuses (`m5`, with a
  negative number); in `repeats` it takes the place of the large one.
- `MaxQueue` 2 makes packets queue and be dropped.  `delivery` and `oversize`
  take 4: with a full queue the bot drops a page, and the client hears nothing
  until its status changes, so that the property is about queues that do not fill.
- `MaxConnects` 2 is a connection and a change of transport, or a connection for
  each client; 3 in `repeats` allows a connection, a loss and another.
- Three configurations: two with a save file each that share a temporary file, and
  one that saves where the first does by way of the save file of the second.  So
  the operator changes the save file, the temporary file, or neither; three
  identities are one for each save file and one more.
- Three identities and three keys: the original, its replacement, and one more;
  three callers make every pair of pool operations overlap and the free list
  grow beyond `max_conn`; an image of 0, 1 and 2 chunks covers the empty buffer,
  the last chunk and one before it.
- Packets: each request is serialized from a sample and stands between fields
  that are unknown, mistyped or repeated, and others that repeat or are cut off.
  Strings of 0, 30, 64 and 700 bytes make a key, a short text, and two messages
  that do not fit on one page.  `Half` and `Word32` are small powers of two above
  everything else that occurs, so that numbers turn negative and wrap where the
  code's do.  Two rows are the least with an order.
- Three threads are the pair that races and one that drops the last reference;
  a limit of one object with five in all lets every thread pass the size test
  and push; three references let two threads copy while a third drops.

Fairness (`LiveSpec`).  `main` calls `tox_iterate` for ever and a handler that
has started ends: weak fairness of `PullRow` and `PullReply`.  Each call of
`tox_iterate` dispatches what has arrived from every friend; a request can be
held up by another client's pull again and again, which disables it each time,
so this is strong fairness of `Handle(c)`.  A connected client reads what has
arrived: weak fairness of `ClientReceives(c)`.  Nothing is assumed of sends,
connections, crashes or losses.  `SentIsAcked` says that a request to keep a message that
reaches the bot's queue leads to an acknowledgement or to the loss of the
connection, also when the message is a repetition of one the table refuses.

### Findings

- `same_number`: `message_offline_recv` acknowledges a message whatever `add`
  returns (assisant.cc:294), `db_tok.sql:10` refuses a `local_msg_id` that any
  other sender has used, and `db_tok.sql:4` says that each client makes the
  number up.  A message of the second client is acknowledged and is nowhere.  The
  same lines lose a message that a column cannot hold.
- `oversize`: a row of `max_size` 1024 bytes or more (assisant.cc:331, 339) is on
  no page, and neither is any row behind it, while `db_tok.sql:7` allows contents
  of 2048 bytes: the client pulls empty pages for ever.

- `refcount`: lock.h:52 calls `_Refcount_Base` "reference count, thread safe", but
  CMakeLists.txt defines neither `__LINUX` nor `__MACX` for the compiler, so that
  lock.h:90-92 is compiled: two threads that copy a reference load the same
  count, and one of them is not counted.

Not findings, but limits of what can be stated: with `DbFaults` an acknowledged
message may be nowhere, and an empty page after failed queries may say that
nothing is left.  `FinalPageIsComplete` excepts the latter, `AckedIsKept` is
checked without faults, and excepts the messages of `Unstorable`, which are
acknowledged and lost.  A start that fails to read its save file makes a new
identity and saves it over the old one: `IdentityStays` excepts that, and
`ServesConfigured` excepts a bot whose last write or rename failed.

## 4. Proofs

All are for arbitrary constants under the named assumptions of the modules
(`MessageAssumption`, `NumberAssumption`, `SizeAssumption`, `StoreAssumption`,
`FileAssumption`, `PoolAssumption`, `AvatarAssumption`, `AbsentAssumption`,
`StartAssumption`, `CodecAssumption`, `ExchangeAssumption`, `PacketAssumption`,
`QueueAssumption`), which TLC evaluates in every run.

**OfflineMessageBotProofs.**  `TypeCorrect`, `Invariance` (`IInv`),
`ReadIsDeletable` (`DeletableIsReceived`), `NothingLostUnseen`
(`NoUnseenDeletion`), `Implementation` (`ImplementsMailbox`), all with faults.
`DeletableIsReceived` is not inductive: a page under way carries the last id that
its client will read, and a pull in the making carries the page.  `IInv` follows
the data back: `JobOK` says that the page in the making has no gaps, and, as long
as `total_size` is below the limit, that the page with the rows to come has none
(which is why the running sum must count rows that were left out); `PagesOK` says
of every page under way that each row of the client up to one on it is on it or
was received; `DelsOK` and `LastReadOK` say it of the ids under way to the bot
and at the client.  `TableOK` makes later rows have greater ids, so that what is
stored in the meantime is out of reach of what is under way.

In the same module, `AcknowledgedIsKept` assumes `NumbersDiffer` and no
`DbFaults`, exactly what the `same_number` run and a failed INSERT break, and
speaks of the messages that are not `Unstorable`.
`FinalPages` assumes that the table can be counted in 32 bits (`[]Countable`); it
needs `CountOK`, that the count taken with the list is the count of the list's
table, which holds since no handler runs between the two queries.

**FriendStoreProofs.**  `TypeCorrect`, `Invariance`, `Loadable`, `Durable`,
`SameIdentity`, `Implementation`, all for any `Faults`: the properties themselves say
after which failures they promise nothing.  The invariant relates memory, save
file and temporary file at each step of a save, each part under the faults it
bears.

**DBConnProofs.**  `TypeCorrect`, `Invariance`, `NeverShared`, `NeverForgotten`, `Bounded`,
for any number of callers and any limit.

**AvatarProofs.**  `TypeCorrect`, `Invariance`, `NoMixture`, `NoneRefused`: while a transfer of
something is open, the buffer is what was offered.

**StartupProofs.**  `Invariance`, `Configured`, `IdentitiesStay`, for any paths, shared
or not, and any failures.  The invariant: from `create_tox` on, if the save file was
read and holds a whole profile, it is that of the identity in memory, so that
renaming over it takes nothing away; and what is renamed is what was written, whole
unless the write failed.  `Configured` promises the saved identity only if the last
write and rename did not fail, `IdentitiesStay` excepts the temporary file in use,
and the save file in use after a failed read or a short write.

**CodecProofs.**  What the generated methods compute, for any byte strings, any
numbers and any fields that a message keeps as unknown: `Roundtrip` (what is
serialized and parsed has its values again), `SizeIsExact` (`ByteSizeLong` is the
number of bytes written), and the same for a page, `PageRoundtrip` and
`PageSizeIsExact`.  A field of a parsed packet is the last of its number and type;
the written fields have different numbers and the unknown ones match none, so the
only hit is the one written.  The sums are defined by recursive functions; facts
about them are proved by the least element at which they would fail (`AllNumbers`),
which needs no induction rule.

**ExchangeProofs.**  For any packets and any number of rows:

- `Meaning` (`ParsedIsMeant`), `NothingByHalves` (`NoHalfRequest`),
  `StorageIsFaithful` (`StoredIsSent`), `DeletionIsNamed` (`OnlyNamedIsDeleted`), from
  the invariant of the parser (`ParseInv`): one turn of its loop keeps "each field
  has the last value of its number and type that was read", and the actions that
  answer need it at the end of the packet.
- `AcksAreNumbered` (`AckNamesRequest`), `FriendsAreTold` (`QueryAnswersForKey`),
  `PagesAreFaithful` (`PageIsFaithful`), `AnswersFitPackets` (`AnswersFit`), from
  `Invariance` (`IInv`), and the theorems of `CodecProofs`.  None of the four is
  inductive: they speak of the bytes of an answer that was made from a page in
  the making or from a message under construction, and of rows that are looked
  at after the answer.  `AnswerOK` says what the answer was made of, `PageOK`
  follows `message_offline_pull` row by row: the rows looked at come before the
  rows to come, message `i` is the row of rank `i` (`OldestFirst`), none is left out
  while the size compared is below the limit, so that there is no gap, and the
  page's own tags and lengths take at most `Overhead` bytes per message on top of
  that size.  `IdsOK`, that ids are unique and below the counter, makes the rank
  of a row the number of messages before it.

`AnswersFit` needs `PacketAssumption`, that toxcore's limit leaves room for a tag
and a length per message and for `left_count`: 1024 + 11 * 11 <= 1372 in the code.
`PageIsFaithful` states `left_count` in 32 bits, as the code computes it; that it
is the count itself needs a table of less than 2^32 rows.

**LockedQueueProofs.**  `Invariance`, `CountsRight`, `NeverShared`, `NeverForgotten`,
`PoolBounded`, for any number of threads and objects and any limit, as long as no
empty list was popped (`~damaged`), in builds with the mutex (`ASSUME Pthread`; `refcount` shows that the first is false without
it).  `Exclusive` is not inductive: `CountOK` says that a count is right at every
step, with the references that are in the hands of a counting thread; `LockOK`,
that what a thread has loaded is still the count when it stores; `PlaceOK`, that
who has just taken an object, or got 0 from `decr`, has it alone.

Only model-checked: `AnnouncedIsReceived` and `SentIsAcked`, since liveness under
fairness is out of the proof system's reach.  Every other property of a passing
run is stated by a theorem.  What is not proved of the codec is the order of the
unknown fields (`Unknown` is `SelectSeq`, a recursive operator of the library): no
property reads them.

## 5. Not modelled

- Power failure: `update_savedata_file` does not call fsync; the model has the
  process end, not the machine.
- Statement and result objects of `OfflineMessageModel`, which are deleted unset
  when `prepareStatement` throws: the process ends (`Crash`) or goes on as after a
  failed statement (`DbFaults`); damage to the heap is not representable.
- `Logger`, name and status message of the bot: set once, or output only.
- `lock_container` (`locked_queue.h`) and `auto_lock`, `_Atomic_swap`, `spin_lock`,
  `rw_lock` (`lock.h`): nothing uses them.  Each method is one critical section or
  one call of pthread, and what could go wrong is up to clients that do not exist.
- A `std::list` that several threads damage in a build without a mutex: the
  program has one thread, and the outcome is not representable.
- Of the generated code what nothing calls: reflection, arenas, descriptors,
  `MergeFrom`, `Swap`.  The protobuf library and UTF-8 checks are external.
- What toxcore does with a Tox profile that is not whole, beyond the choice of a
  new identity or a part of the friends.

## 6. Plan

Done: the service, the table, the mailbox, the save file, the pool, the avatar,
the start, the packets, the counted queue, with their proofs.  Next, in this
order:

1. Notices: a receiver that is online when its message arrives is told nothing
   until its status changes; a property of when the table and the notices agree.
2. Duplicates: a message whose acknowledgement was lost is stored again after it
   was deleted; an abstract specification that tells first deliveries from later
   ones.
3. Composition: `FriendStore` with the service (only friends have connections, a
   receiver that is not in the profile after a crash), and the pool under the
   service (an `allocate` that returns nullptr ends the process in a handler).
4. Proofs: that `Exchange` implements the handlers of `OfflineMessageBot` (what
   `PageOK` and `AnswerOK` say is the refinement mapping of a page and an answer);
   that `FinalPageIsComplete` holds under faults of `get_list` alone.
