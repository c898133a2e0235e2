----------------------------- MODULE LockedQueue -----------------------------
(***************************************************************************)
(* lock_queue (locked_queue.h), a pool of objects that several threads     *)
(* share, with objects that are counted by _Refcount_Base (lock.h): the    *)
(* use the two templates are made for, of which the program makes none.    *)
(* The client code is therefore external.  Any thread may allocate an      *)
(* object, copy a reference to it or give one up; the reference that goes  *)
(* last takes the object back to the pool.                                 *)
(*                                                                         *)
(* What lock_ covers is one action: allocate's back and pop_back,          *)
(* deallcate's push_back, the whole of clear.  The tests before them, of   *)
(* empty() and of size(), are outside it, and so is the creation of an     *)
(* object.  A count is loaded and stored in two actions, which             *)
(* ref_count_lock_ keeps together if the build has it.                     *)
(***************************************************************************)
EXTENDS Integers, SequencesExt

CONSTANTS
  Threads,
  Objects,        \* bound: objects at one time
  Nobody,         \* no thread and no object
  MAX_POOL_SIZE,
  MaxRefs,        \* bound: references to one object
  Pthread         \* whether lock.h is compiled with __LINUX or __MACX

ASSUME QueueAssumption ==
  /\ IsFiniteSet(Threads)
  /\ IsFiniteSet(Objects)
  /\ Nobody \notin Threads \cup Objects
  /\ MAX_POOL_SIZE \in Nat
  /\ MaxRefs \in Nat
  /\ Pthread \in BOOLEAN

VARIABLES
  free_list_,       \* objects that wait for a client
  live,             \* objects made and not deleted
  ref_count_,       \* ref_count_[o]: the count in object o
  ref_count_lock_,  \* ref_count_lock_[o]: the thread that has o's mutex
  refs,             \* refs[o]: references to o that clients have at hand
  op,               \* op[t]: the call that thread t is in
  damaged           \* whether the process did what C++ leaves undefined

vars == <<free_list_, live, ref_count_, ref_count_lock_, refs, op, damaged>>

(***************************************************************************)
(* allocate goes on to pop.  A count is loaded and stored for the first    *)
(* reference to an object, for a copy of one, or to drop one; the one that *)
(* is copied or dropped is then not at hand, and tmp is what was loaded.   *)
(* deallcate goes from test to delete or push.                             *)
(***************************************************************************)
Calls ==
  [step : {"idle", "pop", "load", "store", "test", "delete", "push"},
   for : {"none", "first", "copy", "drop"}, obj : Objects \cup {Nobody},
   tmp : Nat]

Call(step, for, o, n) == [step |-> step, for |-> for, obj |-> o, tmp |-> n]

Idle == Call("idle", "none", Nobody, 0)

\* The steps of a thread that is busy with one object.
Busy == {"load", "store", "test", "delete", "push"}

\* The types; a busy thread has an object, and a reason to count.
TypeOK ==
  /\ free_list_ \in Seq(Objects)
  /\ live \in SUBSET Objects
  /\ ref_count_ \in [Objects -> Nat]
  /\ ref_count_lock_ \in [Objects -> Threads \cup {Nobody}]
  /\ refs \in [Objects -> Nat]
  /\ op \in [Threads -> Calls]
  /\ \A t \in Threads :
       /\ op[t].step \in Busy => op[t].obj \in Objects
       /\ op[t].step \in {"load", "store"} => op[t].for # "none"

Init ==
  /\ free_list_ = <<>>
  /\ live = {}
  /\ ref_count_ = [o \in Objects |-> 0]
  /\ ref_count_lock_ = [o \in Objects |-> Nobody]
  /\ refs = [o \in Objects |-> 0]
  /\ op = [t \in Threads |-> Idle]
  /\ damaged = FALSE

Goes(t, from, to) == op[t].step = from /\ op' = [op EXCEPT ![t] = to]

-----------------------------------------------------------------------------
(* lock_queue *)

\* allocate finds an empty list and makes an object, whose count is 0.
AllocateNew(t) ==
  \E o \in Objects \ live :
    /\ Goes(t, "idle", Call("load", "first", o, 0))
    /\ free_list_ = <<>>
    /\ live' = live \cup {o}
    /\ ref_count_' = [ref_count_ EXCEPT ![o] = 0]
    /\ UNCHANGED <<free_list_, ref_count_lock_, refs>>

\* allocate finds objects in the list, and goes for the lock.
AllocateTests(t) ==
  /\ Goes(t, "idle", Call("pop", "none", Nobody, 0))
  /\ free_list_ # <<>>
  /\ UNCHANGED <<free_list_, live, ref_count_, ref_count_lock_, refs>>

\* Mutant of AllocatePops: back() without pop_back().
AllocateUnpopped(t) ==
  /\ free_list_ # <<>>
  /\ Goes(t, "pop", Call("load", "first", Last(free_list_), 0))
  /\ UNCHANGED <<free_list_, live, ref_count_, ref_count_lock_, refs>>

AllocatePops(t) ==
  /\ free_list_ # <<>>
  /\ Goes(t, "pop", Call("load", "first", Last(free_list_), 0))
  /\ free_list_' = Front(free_list_)
  /\ UNCHANGED <<live, ref_count_, ref_count_lock_, refs>>

(***************************************************************************)
(* The list that was not empty before the lock is empty under it: back and *)
(* pop_back are then undefined.  What the process does from here on cannot *)
(* be said; the other variables keep the last values that had a meaning.   *)
(***************************************************************************)
AllocateDamages(t) ==
  /\ ~damaged
  /\ op[t].step = "pop"
  /\ free_list_ = <<>>
  /\ damaged' = TRUE
  /\ UNCHANGED <<free_list_, live, ref_count_, ref_count_lock_, refs, op>>

\* Another process takes the place of one that is damaged (external).
Restart ==
  /\ damaged
  /\ damaged' = FALSE
  /\ free_list_' = <<>>
  /\ live' = {}
  /\ ref_count_' = [o \in Objects |-> 0]
  /\ ref_count_lock_' = [o \in Objects |-> Nobody]
  /\ refs' = [o \in Objects |-> 0]
  /\ op' = [t \in Threads |-> Idle]

\* Mutant of DeallcateTests: one object more.
DeallcateTestsLate(t) ==
  /\ op[t].step = "test"
  /\ op' = [op EXCEPT ![t] =
       Call(IF MAX_POOL_SIZE + 1 < Len(free_list_) THEN "delete" ELSE "push",
            "none", op[t].obj, 0)]
  /\ UNCHANGED <<free_list_, live, ref_count_, ref_count_lock_, refs>>

\* deallcate: the comparison, outside the lock
DeallcateTests(t) ==
  /\ op[t].step = "test"
  /\ op' = [op EXCEPT ![t] =
       Call(IF MAX_POOL_SIZE < Len(free_list_) THEN "delete" ELSE "push",
            "none", op[t].obj, 0)]
  /\ UNCHANGED <<free_list_, live, ref_count_, ref_count_lock_, refs>>

DeallcateDeletes(t) ==
  /\ Goes(t, "delete", Idle)
  /\ live' = live \ {op[t].obj}
  /\ UNCHANGED <<free_list_, ref_count_, ref_count_lock_, refs>>

DeallcatePushes(t) ==
  /\ Goes(t, "push", Idle)
  /\ free_list_' = Append(free_list_, op[t].obj)
  /\ UNCHANGED <<live, ref_count_, ref_count_lock_, refs>>

\* Mutant of Clear: the list is emptied, the objects in it are not deleted.
ClearUndeleted(t) ==
  /\ op[t].step = "idle"
  /\ free_list_' = <<>>
  /\ UNCHANGED <<live, ref_count_, ref_count_lock_, refs, op>>

\* clear, by itself or from the destructor
Clear(t) ==
  /\ op[t].step = "idle"
  /\ live' = live \ ToSet(free_list_)
  /\ free_list_' = <<>>
  /\ UNCHANGED <<ref_count_, ref_count_lock_, refs, op>>

-----------------------------------------------------------------------------
(* The clients (external). *)

\* A client that has a reference starts to copy it.
Copy(t) ==
  \E o \in Objects :
    /\ refs[o] > 0
    /\ ref_count_[o] < MaxRefs
    /\ Goes(t, "idle", Call("load", "copy", o, 0))
    /\ refs' = [refs EXCEPT ![o] = @ - 1]
    /\ UNCHANGED <<free_list_, live, ref_count_, ref_count_lock_>>

\* A client starts to give up a reference.
Drop(t) ==
  \E o \in Objects :
    /\ refs[o] > 0
    /\ Goes(t, "idle", Call("load", "drop", o, 0))
    /\ refs' = [refs EXCEPT ![o] = @ - 1]
    /\ UNCHANGED <<free_list_, live, ref_count_, ref_count_lock_>>

-----------------------------------------------------------------------------
(* _Refcount_Base *)

\* pthread_mutex_lock, or nothing
Acquire(o, t) ==
  IF Pthread
    THEN /\ ref_count_lock_[o] = Nobody
         /\ ref_count_lock_' = [ref_count_lock_ EXCEPT ![o] = t]
    ELSE UNCHANGED ref_count_lock_

\* Mutant of Load: without the lock.
LoadUnlocked(t) ==
  /\ op[t].step = "load"
  /\ op' = [op EXCEPT ![t] =
       Call("store", op[t].for, op[t].obj, ref_count_[op[t].obj])]
  /\ UNCHANGED <<free_list_, live, ref_count_, ref_count_lock_, refs>>

\* incr or decr, up to the value that it reads
Load(t) ==
  /\ op[t].step = "load"
  /\ Acquire(op[t].obj, t)
  /\ op' = [op EXCEPT ![t] =
       Call("store", op[t].for, op[t].obj, ref_count_[op[t].obj])]
  /\ UNCHANGED <<free_list_, live, ref_count_, refs>>

(***************************************************************************)
(* incr from the value that it writes on: the client has its reference,    *)
(* and the one that it copied.                                             *)
(***************************************************************************)
Incr(t) ==
  LET o == op[t].obj IN
  /\ op[t].step = "store"
  /\ op[t].for # "drop"
  /\ ref_count_' = [ref_count_ EXCEPT ![o] = op[t].tmp + 1]
  /\ ref_count_lock_' = [ref_count_lock_ EXCEPT ![o] = Nobody]
  /\ refs' = [refs EXCEPT ![o] = @ + IF op[t].for = "copy" THEN 2 ELSE 1]
  /\ op' = [op EXCEPT ![t] = Idle]
  /\ UNCHANGED <<free_list_, live>>

(***************************************************************************)
(* decr from the value that it writes on.  __tmp is its result, whatever   *)
(* others do to the count meanwhile; after 0 the client calls deallcate.   *)
(***************************************************************************)
Decr(t) ==
  LET o == op[t].obj
      tmp == op[t].tmp - 1
  IN
  /\ op[t].step = "store"
  /\ op[t].for = "drop"
  /\ ref_count_' = [ref_count_ EXCEPT ![o] = tmp]
  /\ ref_count_lock_' = [ref_count_lock_ EXCEPT ![o] = Nobody]
  /\ op' = [op EXCEPT ![t] = IF tmp = 0 THEN Call("test", "none", o, 0) ELSE Idle]
  /\ UNCHANGED <<free_list_, live, refs>>

-----------------------------------------------------------------------------
\* A step of thread t that is defined.
Step(t) ==
  \/ AllocateNew(t) \/ AllocateTests(t) \/ AllocatePops(t)
  \/ DeallcateTests(t) \/ DeallcateDeletes(t) \/ DeallcatePushes(t)
  \/ Clear(t)
  \/ Copy(t) \/ Drop(t) \/ Load(t) \/ Incr(t) \/ Decr(t)

Next ==
  \/ /\ ~damaged
     /\ UNCHANGED damaged
     /\ \E t \in Threads : Step(t)
  \/ \E t \in Threads : AllocateDamages(t)
  \/ Restart

Spec == Init /\ [][Next]_vars

-----------------------------------------------------------------------------
(* The properties.  All of them say ~damaged: of a process that has popped *)
(* an empty list nothing is promised, and two threads suffice for that.    *)

Pooled == ToSet(free_list_)

\* Thread t is busy with object o, in one of steps.
At(t, o, steps) == op[t].step \in steps /\ op[t].obj = o

\* The threads that copy or drop a reference to o.
Counting(o) ==
  {t \in Threads : At(t, o, {"load", "store"}) /\ op[t].for # "first"}

\* The references to o: those at hand, and those being copied or dropped.
References(o) == refs[o] + Cardinality(Counting(o))

(***************************************************************************)
(* "reference count, thread safe": once no incr and no decr of an object   *)
(* is under way, its count is the number of references there are to it.    *)
(***************************************************************************)
CountIsReferences ==
  ~damaged =>
    \A o \in live :
      (\A t \in Threads : ~At(t, o, {"load", "store"})) =>
        ref_count_[o] = refs[o]

(***************************************************************************)
(* Nothing in the pool is referred to or deleted, no object is in it       *)
(* twice, and one thread at a time takes an object from the pool or back   *)
(* there: no decr but the last answers 0, and allocate takes what it reads.*)
(***************************************************************************)
Exclusive ==
  ~damaged =>
    /\ IsInjective(free_list_)
    /\ Pooled \subseteq live
    /\ \A o \in Objects : References(o) > 0 => o \in live \ Pooled
    /\ \A t \in Threads : \A o \in Objects :
          At(t, o, {"test", "delete", "push"}) =>
            /\ o \in live \ Pooled
            /\ References(o) = 0
            /\ \A u \in Threads \ {t} : ~At(u, o, Busy)

\* Where an object may be: pooled, referred to, or on its way.
NoneLost ==
  \A o \in live :
    \/ o \in Pooled
    \/ refs[o] > 0
    \/ \E t \in Threads : At(t, o, Busy)

(***************************************************************************)
(* Every object is in the pool, referred to, or on its way from one to the *)
(* other: one decr answers 0 when the last reference goes, and clear       *)
(* deletes what it takes out.                                              *)
(***************************************************************************)
NoneForgotten == ~damaged => NoneLost

\* The threads that have found room in the pool.
Pushing == {t \in Threads : op[t].step = "push"}

Bounded ==
  Len(free_list_) + Cardinality(Pushing) <= MAX_POOL_SIZE + Cardinality(Threads)

(***************************************************************************)
(* The size is compared outside the lock, before the push: every thread    *)
(* may add one object to a pool that is at its limit, and no more.         *)
(***************************************************************************)
PoolBound == ~damaged => Bounded

-----------------------------------------------------------------------------
(* The inductive invariant behind them, for builds that have the mutex. *)

\* Thread t has object o for itself: it just took it, or is to give it back.
Owns(t, o) ==
  \/ At(t, o, {"load", "store"}) /\ op[t].for = "first"
  \/ At(t, o, {"test", "delete", "push"})

(***************************************************************************)
(* What is referred to or being worked on is out of the pool, and what a   *)
(* thread has for itself nobody refers to or works on.                     *)
(***************************************************************************)
PlaceOK ==
  /\ IsInjective(free_list_)
  /\ Pooled \subseteq live
  /\ \A o \in Objects : refs[o] > 0 => o \in live \ Pooled
  /\ \A t \in Threads : \A o \in Objects :
       /\ At(t, o, Busy) => o \in live \ Pooled
       /\ Owns(t, o) =>
            /\ refs[o] = 0
            /\ \A u \in Threads \ {t} : ~At(u, o, Busy)

\* The mutex belongs to the thread that has loaded the count, and no other.
LockOK ==
  \A t \in Threads : op[t].step = "store" =>
    /\ ref_count_lock_[op[t].obj] = t
    /\ ref_count_[op[t].obj] = op[t].tmp

\* The count is right at every step, not only between two calls.
CountOK == \A o \in live : ref_count_[o] = References(o)

(***************************************************************************)
(* Every object has one place, and its count is the number of references   *)
(* there are, those in the hands of a thread that counts included.         *)
(***************************************************************************)
Sound ==
  /\ TypeOK
  /\ PlaceOK
  /\ LockOK
  /\ CountOK
  /\ NoneLost
  /\ Bounded

\* As long as nothing undefined was done.
IInv == damaged \in BOOLEAN /\ (~damaged => Sound)
=============================================================================
