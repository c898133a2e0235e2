-------------------------- MODULE LockedQueueProofs --------------------------
(***************************************************************************)
(* Theorems about LockedQueue in builds with the mutex, for any number of  *)
(* threads and objects and any limit: the count of an object is right, and *)
(* so nobody uses what is pooled or deleted, and nothing is forgotten.     *)
(***************************************************************************)
EXTENDS LockedQueue, FiniteSetTheorems, SequenceTheorems, TLAPS

\* What back and pop_back make of a list without repetitions.
LEMMA Pop ==
  ASSUME NEW s \in Seq(Objects), s # <<>>, IsInjective(s)
  PROVE  /\ Front(s) \in Seq(Objects)
         /\ Len(Front(s)) = Len(s) - 1
         /\ IsInjective(Front(s))
         /\ Last(s) \in ToSet(s)
         /\ Last(s) \in Objects
         /\ ToSet(Front(s)) = ToSet(s) \ {Last(s)}
<1>1. /\ Len(s) \in Nat \ {0}
      /\ DOMAIN s = 1 .. Len(s)
      /\ Front(s) \in Seq(Objects)
      /\ DOMAIN Front(s) = 1 .. Len(s) - 1
      /\ \A i \in 1 .. Len(s) - 1 : Front(s)[i] = s[i]
  BY DEF Front
<1>2. Last(s) = s[Len(s)] /\ Len(s) \in DOMAIN s
  BY <1>1 DEF Last
<1>3. \A i \in 1 .. Len(s) - 1 : s[i] # Last(s)
  BY <1>1, <1>2 DEF IsInjective
<1>4. IsInjective(Front(s))
  BY <1>1 DEF IsInjective
<1>5. ToSet(Front(s)) = ToSet(s) \ {Last(s)}
  BY <1>1, <1>2, <1>3 DEF ToSet
<1>6. Last(s) \in ToSet(s) /\ Last(s) \in Objects
  BY <1>1, <1>2 DEF ToSet
<1>7. Len(Front(s)) = Len(s) - 1
  <2>1. \A i \in 1 .. Len(s) - 1 : s[i] \in Objects
    BY <1>1
  <2>2. Len(SubSeq(s, 1, Len(s) - 1)) =
          IF 1 <= Len(s) - 1 THEN Len(s) - 1 - 1 + 1 ELSE 0
    BY <1>1, <2>1, SubSeqProperties
  <2> QED
    BY <1>1, <2>2 DEF Front
<1> QED
  BY <1>1, <1>4, <1>5, <1>6, <1>7

\* What push_back makes of a list and an object that is not in it.
LEMMA Push ==
  ASSUME NEW s \in Seq(Objects), IsInjective(s), NEW o \in Objects \ ToSet(s)
  PROVE  /\ Append(s, o) \in Seq(Objects)
         /\ Len(Append(s, o)) = Len(s) + 1
         /\ IsInjective(Append(s, o))
         /\ ToSet(Append(s, o)) = ToSet(s) \cup {o}
<1>1. /\ Len(s) \in Nat
      /\ DOMAIN s = 1 .. Len(s)
      /\ Append(s, o) \in Seq(Objects)
      /\ Len(Append(s, o)) = Len(s) + 1
      /\ DOMAIN Append(s, o) = 1 .. Len(s) + 1
      /\ \A i \in 1 .. Len(s) : Append(s, o)[i] = s[i]
      /\ Append(s, o)[Len(s) + 1] = o
  OBVIOUS
<1>2. \A i \in 1 .. Len(s) : s[i] # o
  BY <1>1 DEF ToSet
<1>3. IsInjective(Append(s, o))
  BY <1>1, <1>2 DEF IsInjective
<1>4. ToSet(Append(s, o)) = ToSet(s) \cup {o}
  BY <1>1 DEF ToSet
<1> QED
  BY <1>1, <1>3, <1>4

\* An empty list.
LEMMA EmptyList ==
  /\ <<>> \in Seq(Objects)
  /\ Len(<<>>) = 0
  /\ IsInjective(<<>>)
  /\ ToSet(<<>>) = {}
BY DEF IsInjective, ToSet

-----------------------------------------------------------------------------
(* Types. *)

\* The call of a busy thread is one of Calls.
LEMMA CallType ==
  ASSUME NEW step \in {"idle", "pop", "load", "store", "test", "delete", "push"},
         NEW for \in {"none", "first", "copy", "drop"},
         NEW o \in Objects \cup {Nobody}, NEW n \in Nat
  PROVE  /\ Call(step, for, o, n) \in Calls
         /\ Call(step, for, o, n).step = step
         /\ Call(step, for, o, n).for = for
         /\ Call(step, for, o, n).obj = o
         /\ Call(step, for, o, n).tmp = n
BY DEF Call, Calls

\* A thread between two calls.
LEMMA IdleType ==
  /\ Idle \in Calls
  /\ Idle.step = "idle"
BY CallType DEF Idle

\* One thread goes on, the others stay where they are.
LEMMA Moves ==
  ASSUME TypeOK, NEW t \in Threads, NEW r \in Calls,
         op' = [op EXCEPT ![t] = r],
         r.step \in Busy => r.obj \in Objects,
         r.step \in {"load", "store"} => r.for # "none"
  PROVE  /\ op' \in [Threads -> Calls]
         /\ \A u \in Threads :
              /\ op'[u].step \in Busy => op'[u].obj \in Objects
              /\ op'[u].step \in {"load", "store"} => op'[u].for # "none"
         /\ op'[t] = r
         /\ \A u \in Threads \ {t} : op'[u] = op[u]
BY DEF TypeOK

\* The types hold at the start, and when the process is started again.
LEMMA TypeInit == Init => TypeOK
<1> SUFFICES ASSUME Init PROVE TypeOK
  OBVIOUS
<1>1. op \in [Threads -> Calls] /\ \A t \in Threads : op[t].step = "idle"
  BY IdleType DEF Init
<1> QED
  BY <1>1, EmptyList, QueueAssumption DEF Init, TypeOK, Busy

-----------------------------------------------------------------------------
(* Counting and pushing threads. *)

\* Who counts and who pushes is a finite set.
LEMMA SetsFinite ==
  /\ \A o : /\ IsFiniteSet(Counting(o))
            /\ Cardinality(Counting(o)) \in Nat
            /\ Cardinality(Counting(o)) = 0 <=> Counting(o) = {}
  /\ IsFiniteSet(Pushing)
  /\ Cardinality(Pushing) \in Nat
  /\ Cardinality(Pushing) <= Cardinality(Threads)
  /\ Cardinality(Threads) \in Nat
<1>1. \A o : Counting(o) \subseteq Threads
  BY DEF Counting
<1>2. Pushing \subseteq Threads
  BY DEF Pushing
<1> QED
  BY <1>1, <1>2, QueueAssumption, FS_Subset, FS_CardinalityType, FS_EmptySet

\* A thread more in a finite set.
LEMMA OneMore ==
  ASSUME NEW S, IsFiniteSet(S), NEW t, t \notin S
  PROVE  Cardinality(S \cup {t}) = Cardinality(S) + 1
BY FS_AddElement

\* A thread less in a finite set.
LEMMA OneLess ==
  ASSUME NEW S, IsFiniteSet(S), NEW t \in S
  PROVE  Cardinality(S \ {t}) = Cardinality(S) - 1
BY FS_RemoveElement

\* How the step of one thread changes them.
LEMMA MoveSets ==
  ASSUME TypeOK, NEW t \in Threads, NEW r \in Calls,
         op' = [op EXCEPT ![t] = r],
         r.step \in Busy => r.obj \in Objects,
         r.step \in {"load", "store"} => r.for # "none"
  PROVE  /\ \A o : Counting(o)' =
              IF r.step \in {"load", "store"} /\ r.obj = o /\ r.for # "first"
                THEN Counting(o) \cup {t} ELSE Counting(o) \ {t}
         /\ Pushing' = IF r.step = "push" THEN Pushing \cup {t}
                       ELSE Pushing \ {t}
<1>1. op'[t] = r /\ \A u \in Threads \ {t} : op'[u] = op[u]
  BY Moves
<1> QED
  BY <1>1 DEF Counting, Pushing, At

\* A thread that begins or goes on with something else than a push.
LEMMA BoundKept ==
  ASSUME TypeOK, Bounded, TypeOK', Pushing' \subseteq Pushing,
         Len(free_list_') <= Len(free_list_)
  PROVE  Bounded'
<1>1. Cardinality(Pushing') <= Cardinality(Pushing) /\ Cardinality(Pushing') \in Nat
  BY SetsFinite, FS_Subset, FS_CardinalityType
<1>2. Len(free_list_) \in Nat /\ Len(free_list_') \in Nat
  BY DEF TypeOK
<1> QED
  BY <1>1, <1>2, SetsFinite, QueueAssumption DEF Bounded

\* An object's count as long as the references to it are what they were.
LEMMA CountKept ==
  ASSUME CountOK, NEW o \in live, Counting(o)' = Counting(o),
         refs'[o] = refs[o], ref_count_'[o] = ref_count_[o]
  PROVE  ref_count_'[o] = References(o)'
BY DEF CountOK, References

-----------------------------------------------------------------------------
(* Every action keeps the invariant. *)

\* allocate makes an object.
LEMMA AllocateNewStep ==
  ASSUME Sound, NEW t \in Threads, AllocateNew(t)
  PROVE  Sound'
<1> USE QueueAssumption DEF Sound, Goes
<1>1. PICK o \in Objects \ live :
        /\ op[t].step = "idle"
        /\ op' = [op EXCEPT ![t] = Call("load", "first", o, 0)]
        /\ live' = live \cup {o}
        /\ ref_count_' = [ref_count_ EXCEPT ![o] = 0]
        /\ UNCHANGED <<free_list_, ref_count_lock_, refs>>
  BY DEF AllocateNew
<1>2. /\ op' \in [Threads -> Calls]
      /\ \A u \in Threads :
           /\ op'[u].step \in Busy => op'[u].obj \in Objects
           /\ op'[u].step \in {"load", "store"} => op'[u].for # "none"
      /\ op'[t].step = "load" /\ op'[t].for = "first" /\ op'[t].obj = o
      /\ \A u \in Threads \ {t} : op'[u] = op[u]
      /\ \A x : Counting(x)' = Counting(x) \ {t}
      /\ Pushing' \subseteq Pushing
  <2> DEFINE r == Call("load", "first", o, 0)
  <2>1. /\ r \in Calls /\ o \in Objects
        /\ r.step = "load" /\ r.for = "first" /\ r.obj = o
    BY CallType
  <2>2. op' = [op EXCEPT ![t] = r]
    BY <1>1
  <2> HIDE DEF r
  <2>3. /\ r.step \in Busy => r.obj \in Objects
        /\ r.step \in {"load", "store"} => r.for # "none"
    BY <2>1
  <2> QED
    BY <2>1, <2>2, <2>3, Moves, MoveSets
<1>3. TypeOK'
  BY <1>1, <1>2 DEF TypeOK
<1>4. \A x : Counting(x)' = Counting(x)
  BY <1>1, <1>2 DEF Counting, At
<1>5. /\ refs[o] = 0
      /\ Counting(o) = {}
      /\ \A u \in Threads : ~At(u, o, Busy)
  BY <1>1, <1>2 DEF PlaceOK, TypeOK, Counting, At, Busy
<1>6. PlaceOK'
  BY <1>1, <1>2, <1>5 DEF PlaceOK, Owns, At, Busy, Pooled
<1>7. LockOK'
  BY <1>1, <1>2, <1>5 DEF LockOK, TypeOK, At, Busy
<1>8. CountOK'
  <2>1. ref_count_'[o] = References(o)'
    BY <1>1, <1>4, <1>5, SetsFinite DEF References, TypeOK
  <2>2. ASSUME NEW x \in live PROVE ref_count_'[x] = References(x)'
    BY <1>1, <1>4, CountKept DEF TypeOK
  <2> QED
    BY <1>1, <2>1, <2>2 DEF CountOK
<1>9. NoneLost'
  BY <1>1, <1>2, <1>5 DEF NoneLost, Pooled, At, Busy
<1>10. Bounded'
  BY <1>1, <1>2, <1>3, BoundKept DEF TypeOK
<1> QED
  BY <1>3, <1>6, <1>7, <1>8, <1>9, <1>10

\* allocate finds something.
LEMMA AllocateTestsStep ==
  ASSUME Sound, NEW t \in Threads, AllocateTests(t)
  PROVE  Sound'
<1> USE QueueAssumption DEF Sound, Goes
<1>1. /\ op[t].step = "idle"
      /\ op' = [op EXCEPT ![t] = Call("pop", "none", Nobody, 0)]
      /\ UNCHANGED <<free_list_, live, ref_count_, ref_count_lock_, refs>>
  BY DEF AllocateTests
<1>2. /\ op' \in [Threads -> Calls]
      /\ \A u \in Threads :
           /\ op'[u].step \in Busy => op'[u].obj \in Objects
           /\ op'[u].step \in {"load", "store"} => op'[u].for # "none"
      /\ \A u \in Threads \ {t} : op'[u] = op[u]
      /\ op'[t].step = "pop"
      /\ \A x : Counting(x)' = Counting(x) \ {t}
      /\ Pushing' \subseteq Pushing
  <2> DEFINE r == Call("pop", "none", Nobody, 0)
  <2>1. /\ r \in Calls
        /\ r.step \in Busy => r.obj \in Objects
        /\ r.step \in {"load", "store"} => r.for # "none"
        /\ r.step = "pop"
    BY <1>1, CallType, IdleType DEF Busy
  <2>2. op' = [op EXCEPT ![t] = r]
    BY <1>1
  <2> HIDE DEF r
  <2> QED
    BY <2>1, <2>2, Moves, MoveSets
<1>3. TypeOK'
  BY <1>1, <1>2 DEF TypeOK
<1>4. \A x : Counting(x)' = Counting(x)
  BY <1>1, <1>2 DEF Counting, At
<1>5. PlaceOK'
  BY <1>1, <1>2 DEF PlaceOK, Owns, At, Busy, Pooled
<1>6. LockOK'
  BY <1>1, <1>2 DEF LockOK
<1>7. CountOK'
  BY <1>1, <1>4 DEF CountOK, References
<1>8. NoneLost'
  BY <1>1, <1>2 DEF NoneLost, Pooled, At, Busy
<1>9. Bounded'
  BY <1>1, <1>2, <1>3, BoundKept DEF TypeOK
<1> QED
  BY <1>3, <1>5, <1>6, <1>7, <1>8, <1>9

\* allocate takes the back of the list.
LEMMA AllocatePopsStep ==
  ASSUME Sound, NEW t \in Threads, AllocatePops(t)
  PROVE  Sound'
<1> USE QueueAssumption DEF Sound, Goes
<1> DEFINE o == Last(free_list_)
<1>1. /\ op[t].step = "pop"
      /\ op' = [op EXCEPT ![t] = Call("load", "first", o, 0)]
      /\ free_list_ # <<>>
      /\ free_list_' = Front(free_list_)
      /\ UNCHANGED <<live, ref_count_, ref_count_lock_, refs>>
  BY DEF AllocatePops
<1>a. /\ free_list_' \in Seq(Objects)
      /\ Len(free_list_') = Len(free_list_) - 1
      /\ IsInjective(free_list_)'
      /\ o \in Pooled
      /\ o \in Objects
      /\ Pooled' = Pooled \ {o}
  BY <1>1, Pop DEF TypeOK, PlaceOK, Pooled
<1> HIDE DEF o
<1>2. /\ op' \in [Threads -> Calls]
      /\ \A u \in Threads :
           /\ op'[u].step \in Busy => op'[u].obj \in Objects
           /\ op'[u].step \in {"load", "store"} => op'[u].for # "none"
      /\ \A u \in Threads \ {t} : op'[u] = op[u]
      /\ op'[t].step = "load" /\ op'[t].for = "first" /\ op'[t].obj = o
      /\ \A x : Counting(x)' = Counting(x) \ {t}
      /\ Pushing' \subseteq Pushing
  <2> DEFINE r == Call("load", "first", o, 0)
  <2>1. /\ r \in Calls
        /\ r.step \in Busy => r.obj \in Objects
        /\ r.step \in {"load", "store"} => r.for # "none"
        /\ r.step = "load" /\ r.for = "first" /\ r.obj = o
    BY <1>1, <1>a, CallType, IdleType DEF Busy
  <2>2. op' = [op EXCEPT ![t] = r]
    BY <1>1, <1>a
  <2> HIDE DEF r
  <2> QED
    BY <2>1, <2>2, Moves, MoveSets
<1>3. TypeOK'
  BY <1>1, <1>a, <1>2 DEF TypeOK
<1>4. \A x : Counting(x)' = Counting(x)
  BY <1>1, <1>2 DEF Counting, At
<1>5. /\ o \in live
      /\ refs[o] = 0
      /\ \A u \in Threads : ~At(u, o, Busy)
  BY <1>a DEF PlaceOK, TypeOK
<1>6. PlaceOK'
  BY <1>1, <1>a, <1>2, <1>5 DEF PlaceOK, Owns, At, Busy
<1>7. LockOK'
  BY <1>1, <1>2 DEF LockOK
<1>8. CountOK'
  BY <1>1, <1>4 DEF CountOK, References
<1>9. NoneLost'
  BY <1>1, <1>a, <1>2 DEF NoneLost, At, Busy
<1>10. Bounded'
  BY <1>1, <1>a, <1>2, <1>3, BoundKept DEF TypeOK
<1> QED
  BY <1>3, <1>6, <1>7, <1>8, <1>9, <1>10

\* What a process starts with.
LEMMA StartInv == Init => Sound
<1> SUFFICES ASSUME Init PROVE Sound
  OBVIOUS
<1>1. TypeOK
  BY TypeInit
<1>2. /\ \A t \in Threads : op[t].step = "idle"
      /\ free_list_ = <<>> /\ live = {}
      /\ \A o \in Objects : refs[o] = 0
  BY IdleType DEF Init
<1>3. Pooled = {} /\ Len(free_list_) = 0 /\ IsInjective(free_list_)
  BY <1>2, EmptyList DEF Pooled
<1>4. PlaceOK
  BY <1>2, <1>3 DEF PlaceOK, Owns, At, Busy
<1>5. LockOK /\ CountOK /\ NoneLost
  BY <1>2 DEF LockOK, CountOK, NoneLost
<1>6. Bounded
  <2>1. Pushing = {}
    BY <1>2 DEF Pushing
  <2> QED
    BY <1>3, <2>1, SetsFinite, FS_EmptySet, QueueAssumption DEF Bounded
<1> QED
  BY <1>1, <1>4, <1>5, <1>6 DEF Sound

\* deallcate compares.
LEMMA DeallcateTestsStep ==
  ASSUME Sound, NEW t \in Threads, DeallcateTests(t)
  PROVE  Sound'
<1> USE QueueAssumption DEF Sound
<1> DEFINE o == op[t].obj
           full == MAX_POOL_SIZE < Len(free_list_)
<1>1. /\ op[t].step = "test"
      /\ op' = [op EXCEPT ![t] =
                  Call(IF full THEN "delete" ELSE "push", "none", o, 0)]
      /\ UNCHANGED <<free_list_, live, ref_count_, ref_count_lock_, refs>>
      /\ o \in Objects
  BY DEF DeallcateTests, TypeOK, Busy
<1> HIDE DEF o
<1>2. /\ op' \in [Threads -> Calls]
      /\ \A u \in Threads :
           /\ op'[u].step \in Busy => op'[u].obj \in Objects
           /\ op'[u].step \in {"load", "store"} => op'[u].for # "none"
      /\ \A u \in Threads \ {t} : op'[u] = op[u]
      /\ op'[t].step \in {"delete", "push"} /\ op'[t].obj = o
      /\ \A x : Counting(x)' = Counting(x) \ {t}
      /\ Pushing' \subseteq Pushing \/ ~full
  <2> DEFINE r == Call(IF full THEN "delete" ELSE "push", "none", o, 0)
  <2>1. /\ r \in Calls
        /\ r.step \in Busy => r.obj \in Objects
        /\ r.step \in {"load", "store"} => r.for # "none"
        /\ r.step \in {"delete", "push"}
        /\ r.step = "push" => ~full
        /\ r.obj = o
    BY <1>1, CallType, IdleType DEF Busy
  <2>2. op' = [op EXCEPT ![t] = r]
    BY <1>1
  <2> HIDE DEF r
  <2> QED
    BY <2>1, <2>2, Moves, MoveSets
<1>3. TypeOK'
  BY <1>1, <1>2 DEF TypeOK
<1>4. \A x : Counting(x)' = Counting(x)
  BY <1>1, <1>2 DEF Counting, At
<1>5. PlaceOK'
  BY <1>1, <1>2 DEF PlaceOK, Owns, At, Busy, Pooled, o
<1>6. LockOK'
  BY <1>1, <1>2 DEF LockOK
<1>7. CountOK'
  BY <1>1, <1>4 DEF CountOK, References
<1>8. NoneLost'
  BY <1>1, <1>2 DEF NoneLost, Pooled, At, Busy, o
<1>9. Bounded'
  <2>1. CASE Pushing' \subseteq Pushing
    BY <1>1, <1>3, <2>1, BoundKept DEF TypeOK
  <2>2. CASE ~full
    <3>1. Cardinality(Pushing') <= Cardinality(Threads)
      <4>1. Pushing' \subseteq Threads
        BY DEF Pushing
      <4> QED
        BY <4>1, FS_Subset
    <3>2. Cardinality(Pushing') \in Nat /\ Cardinality(Threads) \in Nat
      <4>1. Pushing' \subseteq Threads
        BY DEF Pushing
      <4> QED
        BY <4>1, FS_Subset, FS_CardinalityType
    <3> QED
      BY <1>1, <2>2, <3>1, <3>2 DEF Bounded, TypeOK
  <2> QED
    BY <1>2, <2>1, <2>2
<1> QED
  BY <1>3, <1>5, <1>6, <1>7, <1>8, <1>9

\* deallcate deletes.
LEMMA DeallcateDeletesStep ==
  ASSUME Sound, NEW t \in Threads, DeallcateDeletes(t)
  PROVE  Sound'
<1> USE QueueAssumption DEF Sound, Goes
<1> DEFINE o == op[t].obj
<1>1. /\ op[t].step = "delete"
      /\ op' = [op EXCEPT ![t] = Idle]
      /\ live' = live \ {o}
      /\ UNCHANGED <<free_list_, ref_count_, ref_count_lock_, refs>>
      /\ o \in Objects
  BY DEF DeallcateDeletes, TypeOK, Busy
<1>a. At(t, o, Busy) /\ Owns(t, o)
  BY <1>1 DEF At, Owns, Busy
<1> HIDE DEF o
<1>2. /\ op' \in [Threads -> Calls]
      /\ \A u \in Threads :
           /\ op'[u].step \in Busy => op'[u].obj \in Objects
           /\ op'[u].step \in {"load", "store"} => op'[u].for # "none"
      /\ \A u \in Threads \ {t} : op'[u] = op[u]
      /\ op'[t].step = "idle"
      /\ \A x : Counting(x)' = Counting(x) \ {t}
      /\ Pushing' = Pushing \ {t}
  <2> DEFINE r == Idle
  <2>1. /\ r \in Calls
        /\ r.step \in Busy => r.obj \in Objects
        /\ r.step \in {"load", "store"} => r.for # "none"
        /\ r.step = "idle"
    BY <1>1, CallType, IdleType DEF Busy
  <2>2. op' = [op EXCEPT ![t] = r]
    BY <1>1
  <2> HIDE DEF r
  <2> QED
    BY <2>1, <2>2, Moves, MoveSets
<1>3. TypeOK'
  BY <1>1, <1>2 DEF TypeOK
<1>4. \A x : Counting(x)' = Counting(x)
  BY <1>1, <1>2 DEF Counting, At
<1>5. /\ o \in live \ Pooled
      /\ refs[o] = 0
      /\ \A u \in Threads \ {t} : ~At(u, o, Busy)
  BY <1>1, <1>a DEF PlaceOK
<1>6. PlaceOK'
  BY <1>1, <1>2, <1>5 DEF PlaceOK, TypeOK, Owns, At, Busy, Pooled
<1>7. LockOK'
  BY <1>1, <1>2 DEF LockOK
<1>8. CountOK'
  BY <1>1, <1>4 DEF CountOK, References
<1>9. NoneLost'
  BY <1>1, <1>2 DEF NoneLost, Pooled, At, Busy, o
<1>10. Bounded'
  BY <1>1, <1>2, <1>3, BoundKept DEF TypeOK
<1> QED
  BY <1>3, <1>6, <1>7, <1>8, <1>9, <1>10

\* deallcate pushes.
LEMMA DeallcatePushesStep ==
  ASSUME Sound, NEW t \in Threads, DeallcatePushes(t)
  PROVE  Sound'
<1> USE QueueAssumption DEF Sound, Goes
<1> DEFINE o == op[t].obj
<1>1. /\ op[t].step = "push"
      /\ op' = [op EXCEPT ![t] = Idle]
      /\ free_list_' = Append(free_list_, o)
      /\ UNCHANGED <<live, ref_count_, ref_count_lock_, refs>>
      /\ o \in Objects
  BY DEF DeallcatePushes, TypeOK, Busy
<1>a. At(t, o, Busy) /\ Owns(t, o)
  BY <1>1 DEF At, Owns, Busy
<1> HIDE DEF o
<1>2. /\ op' \in [Threads -> Calls]
      /\ \A u \in Threads :
           /\ op'[u].step \in Busy => op'[u].obj \in Objects
           /\ op'[u].step \in {"load", "store"} => op'[u].for # "none"
      /\ \A u \in Threads \ {t} : op'[u] = op[u]
      /\ op'[t].step = "idle"
      /\ \A x : Counting(x)' = Counting(x) \ {t}
      /\ Pushing' = Pushing \ {t}
  <2> DEFINE r == Idle
  <2>1. /\ r \in Calls
        /\ r.step \in Busy => r.obj \in Objects
        /\ r.step \in {"load", "store"} => r.for # "none"
        /\ r.step = "idle"
    BY <1>1, CallType, IdleType DEF Busy
  <2>2. op' = [op EXCEPT ![t] = r]
    BY <1>1
  <2> HIDE DEF r
  <2> QED
    BY <2>1, <2>2, Moves, MoveSets
<1>3. /\ o \in live \ Pooled
      /\ refs[o] = 0
      /\ \A u \in Threads \ {t} : ~At(u, o, Busy)
  BY <1>1, <1>a DEF PlaceOK
<1>4. /\ free_list_' \in Seq(Objects)
      /\ Len(free_list_') = Len(free_list_) + 1
      /\ IsInjective(free_list_)'
      /\ Pooled' = Pooled \cup {o}
  BY <1>1, <1>3, Push DEF TypeOK, PlaceOK, Pooled
<1>5. TypeOK'
  BY <1>1, <1>2, <1>4 DEF TypeOK
<1>6. \A x : Counting(x)' = Counting(x)
  BY <1>1, <1>2 DEF Counting, At
<1>7. PlaceOK'
  BY <1>1, <1>2, <1>3, <1>4 DEF PlaceOK, TypeOK, Owns, At, Busy
<1>8. LockOK'
  BY <1>1, <1>2 DEF LockOK
<1>9. CountOK'
  BY <1>1, <1>6 DEF CountOK, References
<1>10. NoneLost'
  BY <1>1, <1>2, <1>4 DEF NoneLost, At, Busy, o
<1>11. Bounded'
  <2>1. t \in Pushing
    BY <1>1 DEF Pushing
  <2>2. Cardinality(Pushing') = Cardinality(Pushing) - 1
    BY <1>2, <2>1, SetsFinite, OneLess
  <2> QED
    BY <1>4, <2>2, SetsFinite DEF Bounded, TypeOK
<1> QED
  BY <1>5, <1>7, <1>8, <1>9, <1>10, <1>11

\* clear deletes what is in the pool.
LEMMA ClearStep ==
  ASSUME Sound, NEW t \in Threads, Clear(t)
  PROVE  Sound'
<1> USE QueueAssumption DEF Sound
<1>1. /\ live' = live \ Pooled
      /\ free_list_' = <<>>
      /\ UNCHANGED <<ref_count_, ref_count_lock_, refs, op>>
  BY DEF Clear, Pooled
<1>2. Pooled' = {} /\ IsInjective(free_list_)' /\ Len(free_list_') = 0
  BY <1>1, EmptyList DEF Pooled
<1>3. TypeOK'
  BY <1>1, EmptyList DEF TypeOK
<1>4. PlaceOK'
  BY <1>1, <1>2 DEF PlaceOK, Owns, At
<1>5. LockOK'
  BY <1>1 DEF LockOK
<1>6. CountOK'
  BY <1>1 DEF CountOK, References, Counting, At
<1>7. NoneLost'
  BY <1>1 DEF NoneLost, At
<1>8. Bounded'
  <2>1. Pushing' \subseteq Pushing
    BY <1>1 DEF Pushing
  <2>2. Len(free_list_') <= Len(free_list_)
    BY <1>2 DEF TypeOK
  <2> QED
    BY <1>3, <2>1, <2>2, BoundKept
<1> QED
  BY <1>3, <1>4, <1>5, <1>6, <1>7, <1>8

\* A client takes up a reference that it has, to copy it or to give it up.
LEMMA TakeStep ==
  ASSUME Sound, NEW t \in Threads, NEW o \in Objects, NEW for \in {"copy", "drop"},
         refs[o] > 0,
         op[t].step = "idle",
         op' = [op EXCEPT ![t] = Call("load", for, o, 0)],
         refs' = [refs EXCEPT ![o] = @ - 1],
         UNCHANGED <<free_list_, live, ref_count_, ref_count_lock_>>
  PROVE  Sound'
<1> USE QueueAssumption DEF Sound
<1>1. /\ refs[o] > 0
      /\ op[t].step = "idle"
      /\ op' = [op EXCEPT ![t] = Call("load", for, o, 0)]
      /\ refs' = [refs EXCEPT ![o] = @ - 1]
      /\ UNCHANGED <<free_list_, live, ref_count_, ref_count_lock_>>
  OBVIOUS
<1>2. /\ op' \in [Threads -> Calls]
      /\ \A u \in Threads :
           /\ op'[u].step \in Busy => op'[u].obj \in Objects
           /\ op'[u].step \in {"load", "store"} => op'[u].for # "none"
      /\ \A u \in Threads \ {t} : op'[u] = op[u]
      /\ op'[t].step = "load" /\ op'[t].for = for /\ op'[t].obj = o
      /\ \A x : Counting(x)' = IF x = o THEN Counting(x) \cup {t}
                               ELSE Counting(x) \ {t}
      /\ Pushing' \subseteq Pushing
  <2> DEFINE r == Call("load", for, o, 0)
  <2>1. /\ r \in Calls
        /\ r.step \in Busy => r.obj \in Objects
        /\ r.step \in {"load", "store"} => r.for # "none"
        /\ r.step = "load" /\ r.for = for /\ r.obj = o
    BY <1>1, CallType, IdleType DEF Busy
  <2>2. op' = [op EXCEPT ![t] = r]
    BY <1>1
  <2> HIDE DEF r
  <2>3. /\ op' \in [Threads -> Calls]
        /\ \A u \in Threads :
             /\ op'[u].step \in Busy => op'[u].obj \in Objects
             /\ op'[u].step \in {"load", "store"} => op'[u].for # "none"
        /\ op'[t] = r
        /\ \A u \in Threads \ {t} : op'[u] = op[u]
    BY <2>1, <2>2, Moves
  <2>4. /\ \A x : Counting(x)' =
             IF r.step \in {"load", "store"} /\ r.obj = x /\ r.for # "first"
               THEN Counting(x) \cup {t} ELSE Counting(x) \ {t}
        /\ Pushing' = IF r.step = "push" THEN Pushing \cup {t}
                      ELSE Pushing \ {t}
    BY <2>1, <2>2, MoveSets
  <2> QED
    BY <2>1, <2>3, <2>4
<1>3. TypeOK'
  BY <1>1, <1>2 DEF TypeOK
<1>4. \A x : t \notin Counting(x)
  BY <1>1 DEF Counting, At
<1>5. PlaceOK'
  BY <1>1, <1>2 DEF PlaceOK, TypeOK, Owns, At, Busy, Pooled
<1>6. LockOK'
  BY <1>1, <1>2 DEF LockOK
<1>7. CountOK'
  <2>1. References(o)' = References(o)
    <3>1. Cardinality(Counting(o)') = Cardinality(Counting(o)) + 1
      BY <1>2, <1>4, SetsFinite, OneMore
    <3> QED
      BY <1>1, <3>1, SetsFinite DEF References, TypeOK
  <2>2. ASSUME NEW x \in live, x # o PROVE References(x)' = References(x)
    <3>1. Counting(x)' = Counting(x)
      <4>1. Counting(x)' = Counting(x) \ {t}
        BY <1>2, <2>2
      <4>2. t \notin Counting(x)
        BY <1>4
      <4> QED
        BY <4>1, <4>2
    <3> QED
      BY <1>1, <2>2, <3>1 DEF References, TypeOK
  <2> QED
    BY <1>1, <2>1, <2>2 DEF CountOK
<1>8. NoneLost'
  <2>1. \A u \in Threads, x \in live \ {o} : At(u, x, Busy) => At(u, x, Busy)'
    BY <1>1, <1>2 DEF At, Busy
  <2>2. At(t, o, Busy)'
    BY <1>2 DEF At, Busy
  <2>3. \A x \in live \ {o} : refs'[x] = refs[x]
    BY <1>1 DEF TypeOK
  <2> QED
    BY <1>1, <2>1, <2>2, <2>3 DEF NoneLost, Pooled
<1>9. Bounded'
  BY <1>1, <1>2, <1>3, BoundKept DEF TypeOK
<1> QED
  BY <1>3, <1>5, <1>6, <1>7, <1>8, <1>9

\* A client starts to copy a reference.
LEMMA CopyStep ==
  ASSUME Sound, NEW t \in Threads, Copy(t)
  PROVE  Sound'
<1>1. PICK o \in Objects :
        /\ refs[o] > 0
        /\ op[t].step = "idle"
        /\ op' = [op EXCEPT ![t] = Call("load", "copy", o, 0)]
        /\ refs' = [refs EXCEPT ![o] = @ - 1]
        /\ UNCHANGED <<free_list_, live, ref_count_, ref_count_lock_>>
  BY DEF Copy, Goes
<1> QED
  BY <1>1, TakeStep

\* A client starts to give up a reference.
LEMMA DropStep ==
  ASSUME Sound, NEW t \in Threads, Drop(t)
  PROVE  Sound'
<1>1. PICK o \in Objects :
        /\ refs[o] > 0
        /\ op[t].step = "idle"
        /\ op' = [op EXCEPT ![t] = Call("load", "drop", o, 0)]
        /\ refs' = [refs EXCEPT ![o] = @ - 1]
        /\ UNCHANGED <<free_list_, live, ref_count_, ref_count_lock_>>
  BY DEF Drop, Goes
<1> QED
  BY <1>1, TakeStep

\* incr or decr gets the mutex and loads the count.
LEMMA LoadStep ==
  ASSUME Sound, NEW t \in Threads, Load(t), Pthread
  PROVE  Sound'
<1> USE QueueAssumption DEF Sound
<1> DEFINE o == op[t].obj
           for == op[t].for
<1>1. /\ op[t].step = "load"
      /\ op' = [op EXCEPT ![t] = Call("store", for, o, ref_count_[o])]
      /\ ref_count_lock_[o] = Nobody
      /\ ref_count_lock_' = [ref_count_lock_ EXCEPT ![o] = t]
      /\ UNCHANGED <<free_list_, live, ref_count_, refs>>
      /\ o \in Objects
      /\ for \in {"first", "copy", "drop"}
      /\ ref_count_[o] \in Nat
  BY DEF Load, Acquire, TypeOK, Busy, Calls
<1>a. \A x : t \in Counting(x) <=> x = o /\ for # "first"
  BY <1>1 DEF Counting, At
<1>b. o = op[t].obj /\ for = op[t].for
  OBVIOUS
<1> HIDE DEF o, for
<1>2. /\ op' \in [Threads -> Calls]
      /\ \A u \in Threads :
           /\ op'[u].step \in Busy => op'[u].obj \in Objects
           /\ op'[u].step \in {"load", "store"} => op'[u].for # "none"
      /\ \A u \in Threads \ {t} : op'[u] = op[u]
      /\ op'[t].step = "store" /\ op'[t].for = for
      /\ op'[t].obj = o /\ op'[t].tmp = ref_count_[o]
      /\ \A x : Counting(x)' = IF x = o /\ for # "first"
                               THEN Counting(x) \cup {t}
                               ELSE Counting(x) \ {t}
      /\ Pushing' \subseteq Pushing
  <2> DEFINE r == Call("store", for, o, ref_count_[o])
  <2>1. /\ r \in Calls
        /\ r.step \in Busy => r.obj \in Objects
        /\ r.step \in {"load", "store"} => r.for # "none"
        /\ r.step = "store" /\ r.for = for /\ r.obj = o /\ r.tmp = ref_count_[o]
    BY <1>1, CallType, IdleType DEF Busy
  <2>2. op' = [op EXCEPT ![t] = r]
    BY <1>1
  <2> HIDE DEF r
  <2>3. /\ op' \in [Threads -> Calls]
        /\ \A u \in Threads :
             /\ op'[u].step \in Busy => op'[u].obj \in Objects
             /\ op'[u].step \in {"load", "store"} => op'[u].for # "none"
        /\ op'[t] = r
        /\ \A u \in Threads \ {t} : op'[u] = op[u]
    BY <2>1, <2>2, Moves
  <2>4. /\ \A x : Counting(x)' =
             IF r.step \in {"load", "store"} /\ r.obj = x /\ r.for # "first"
               THEN Counting(x) \cup {t} ELSE Counting(x) \ {t}
        /\ Pushing' = IF r.step = "push" THEN Pushing \cup {t}
                      ELSE Pushing \ {t}
    BY <2>1, <2>2, MoveSets
  <2> QED
    BY <2>1, <2>3, <2>4
<1>3. TypeOK'
  BY <1>1, <1>2 DEF TypeOK
<1>4. \A x : Counting(x)' = Counting(x)
  BY <1>a, <1>2
<1>5. PlaceOK'
  BY <1>1, <1>b, <1>2 DEF PlaceOK, TypeOK, Owns, At, Busy, Pooled
<1>6. LockOK'
  BY <1>1, <1>2 DEF LockOK, TypeOK, Busy
<1>7. CountOK'
  BY <1>1, <1>4 DEF CountOK, References
<1>8. NoneLost'
  <2>1. \A u \in Threads, x \in live : At(u, x, Busy) => At(u, x, Busy)'
    BY <1>1, <1>b, <1>2 DEF At, Busy
  <2> QED
    BY <1>1, <2>1 DEF NoneLost, Pooled
<1>9. Bounded'
  BY <1>1, <1>2, <1>3, BoundKept DEF TypeOK
<1> QED
  BY <1>3, <1>5, <1>6, <1>7, <1>8, <1>9

\* incr stores the count and lets go of the mutex.
LEMMA IncrStep ==
  ASSUME Sound, NEW t \in Threads, Incr(t)
  PROVE  Sound'
<1> USE QueueAssumption DEF Sound
<1>0. PICK o \in Objects, for \in {"first", "copy"} :
        o = op[t].obj /\ for = op[t].for
  BY DEF Incr, TypeOK, Busy, Calls
<1> DEFINE n == IF for = "copy" THEN 2 ELSE 1
<1>1. /\ op[t].step = "store"
      /\ op' = [op EXCEPT ![t] = Idle]
      /\ ref_count_[o] = op[t].tmp /\ ref_count_[o] \in Nat
      /\ ref_count_' = [ref_count_ EXCEPT ![o] = ref_count_[o] + 1]
      /\ ref_count_lock_[o] = t
      /\ ref_count_lock_' = [ref_count_lock_ EXCEPT ![o] = Nobody]
      /\ refs' = [refs EXCEPT ![o] = refs[o] + n]
      /\ UNCHANGED <<free_list_, live>>
  BY <1>0 DEF Incr, LockOK, TypeOK, Busy, Calls
<1>a. /\ \A x : t \in Counting(x) <=> x = o /\ for = "copy"
      /\ At(t, o, Busy)
  BY <1>0, <1>1 DEF Counting, At, Busy
<1>b. o \in live \ Pooled
  BY <1>1, <1>a DEF PlaceOK
<1>c. o = op[t].obj /\ n \in 1 .. 2 /\ n = IF for = "copy" THEN 2 ELSE 1
  BY <1>0
<1> HIDE DEF n
<1>2. /\ op' \in [Threads -> Calls]
      /\ \A u \in Threads :
           /\ op'[u].step \in Busy => op'[u].obj \in Objects
           /\ op'[u].step \in {"load", "store"} => op'[u].for # "none"
      /\ \A u \in Threads \ {t} : op'[u] = op[u]
      /\ op'[t].step = "idle"
      /\ \A x : Counting(x)' = Counting(x) \ {t}
      /\ Pushing' = Pushing \ {t}
  <2> DEFINE r == Idle
  <2>1. /\ r \in Calls
        /\ r.step \in Busy => r.obj \in Objects
        /\ r.step \in {"load", "store"} => r.for # "none"
        /\ r.step = "idle"
    BY <1>1, CallType, IdleType DEF Busy
  <2>2. op' = [op EXCEPT ![t] = r]
    BY <1>1
  <2> HIDE DEF r
  <2> QED
    BY <2>1, <2>2, Moves, MoveSets
<1>3. TypeOK'
  BY <1>1, <1>c, <1>2 DEF TypeOK
<1>4. PlaceOK'
  BY <1>1, <1>a, <1>b, <1>c, <1>2 DEF PlaceOK, TypeOK, Owns, At, Busy, Pooled
<1>5. LockOK'
  BY <1>1, <1>2 DEF LockOK, TypeOK, Busy
<1>6. CountOK'
  <2>1. ref_count_'[o] = References(o)'
    <3>1. ref_count_[o] = refs[o] + Cardinality(Counting(o))
      BY <1>b DEF CountOK, References
    <3>2. Cardinality(Counting(o)') =
            IF for = "copy" THEN Cardinality(Counting(o)) - 1
            ELSE Cardinality(Counting(o))
      <4>1. CASE for = "copy"
        BY <1>a, <1>2, <4>1, SetsFinite, OneLess
      <4>2. CASE for # "copy"
        <5>1. Counting(o)' = Counting(o)
          BY <1>a, <1>2, <4>2
        <5> QED
          BY <5>1, <4>2
      <4> QED
        BY <4>1, <4>2
    <3>3. refs'[o] = refs[o] + n /\ ref_count_'[o] = ref_count_[o] + 1
      BY <1>1 DEF TypeOK
    <3> QED
      BY <1>1, <1>c, <3>1, <3>2, <3>3, SetsFinite DEF References, TypeOK
  <2>2. ASSUME NEW x \in live, x # o PROVE ref_count_'[x] = References(x)'
    <3>1. Counting(x)' = Counting(x)
      BY <1>a, <1>2, <2>2
    <3> QED
      BY <1>1, <2>2, <3>1, CountKept DEF TypeOK
  <2> QED
    BY <1>1, <2>1, <2>2 DEF CountOK
<1>7. NoneLost'
  BY <1>1, <1>c, <1>2 DEF NoneLost, TypeOK, Pooled, At, Busy
<1>8. Bounded'
  BY <1>1, <1>2, <1>3, BoundKept DEF TypeOK
<1> QED
  BY <1>3, <1>4, <1>5, <1>6, <1>7, <1>8

\* decr stores the count; whoever stores 0 has the object for itself.
LEMMA DecrStep ==
  ASSUME Sound, NEW t \in Threads, Decr(t)
  PROVE  Sound'
<1> USE QueueAssumption DEF Sound
<1>0. PICK o \in Objects, m \in Nat :
        o = op[t].obj /\ m = op[t].tmp
  BY DEF Decr, TypeOK, Busy, Calls
<1> DEFINE last == m = 1
           call == IF last THEN Call("test", "none", o, 0) ELSE Idle
<1>1. /\ op[t].step = "store"
      /\ op[t].for = "drop"
      /\ op' = [op EXCEPT ![t] = call]
      /\ ref_count_[o] = m
      /\ ref_count_' = [ref_count_ EXCEPT ![o] = m - 1]
      /\ ref_count_lock_[o] = t
      /\ ref_count_lock_' = [ref_count_lock_ EXCEPT ![o] = Nobody]
      /\ UNCHANGED <<free_list_, live, refs>>
  BY <1>0 DEF Decr, LockOK, TypeOK, Busy, Calls
<1>a. /\ \A x : t \in Counting(x) <=> x = o
      /\ At(t, o, Busy)
  BY <1>0, <1>1 DEF Counting, At, Busy
<1>b. o \in live \ Pooled
  BY <1>a DEF PlaceOK
<1>c. /\ m = refs[o] + Cardinality(Counting(o))
      /\ Cardinality(Counting(o) \ {t}) = Cardinality(Counting(o)) - 1
      /\ Cardinality(Counting(o) \ {t}) \in Nat
      /\ Cardinality(Counting(o) \ {t}) = 0 <=> Counting(o) \ {t} = {}
      /\ refs[o] \in Nat
      /\ m \in Nat \ {0}
  <2>1. m = refs[o] + Cardinality(Counting(o))
    BY <1>1, <1>b DEF CountOK, References
  <2>2. IsFiniteSet(Counting(o) \ {t})
    BY SetsFinite, FS_Subset
  <2>3. /\ Cardinality(Counting(o) \ {t}) \in Nat
        /\ Cardinality(Counting(o) \ {t}) = 0 <=> Counting(o) \ {t} = {}
    BY <2>2, FS_CardinalityType, FS_EmptySet
  <2>4. t \in Counting(o)
    BY <1>a
  <2>5. Cardinality(Counting(o) \ {t}) = Cardinality(Counting(o)) - 1
    BY <2>4, SetsFinite, OneLess
  <2>6. refs[o] \in Nat
    BY DEF TypeOK
  <2> QED
    BY <2>1, <2>3, <2>5, <2>6, SetsFinite
<1>2. /\ op' \in [Threads -> Calls]
      /\ \A u \in Threads :
           /\ op'[u].step \in Busy => op'[u].obj \in Objects
           /\ op'[u].step \in {"load", "store"} => op'[u].for # "none"
      /\ op'[t].step = IF last THEN "test" ELSE "idle"
      /\ last => op'[t].obj = o
      /\ \A u \in Threads \ {t} : op'[u] = op[u]
      /\ \A x : Counting(x)' = Counting(x) \ {t}
      /\ Pushing' \subseteq Pushing
  <2>1. /\ call \in Calls
        /\ call.step = IF last THEN "test" ELSE "idle"
        /\ last => call.obj = o
    BY CallType, IdleType
  <2> HIDE DEF call
  <2>2. /\ call.step \in Busy => call.obj \in Objects
        /\ call.step \in {"load", "store"} => call.for # "none"
    BY <2>1 DEF Busy
  <2>3. /\ op' \in [Threads -> Calls]
        /\ \A u \in Threads :
             /\ op'[u].step \in Busy => op'[u].obj \in Objects
             /\ op'[u].step \in {"load", "store"} => op'[u].for # "none"
        /\ op'[t] = call
        /\ \A u \in Threads \ {t} : op'[u] = op[u]
    BY <1>1, <2>1, <2>2, Moves
  <2>4. /\ \A x : Counting(x)' =
             IF call.step \in {"load", "store"} /\ call.obj = x /\ call.for # "first"
               THEN Counting(x) \cup {t} ELSE Counting(x) \ {t}
        /\ Pushing' = IF call.step = "push" THEN Pushing \cup {t}
                      ELSE Pushing \ {t}
    BY <1>1, <2>1, <2>2, MoveSets
  <2> QED
    BY <2>1, <2>3, <2>4
<1>3. TypeOK'
  <2>1. m - 1 \in Nat
    BY <1>c
  <2>2. ref_count_' \in [Objects -> Nat]
    BY <1>1, <2>1 DEF TypeOK
  <2>3. ref_count_lock_' \in [Objects -> Threads \cup {Nobody}]
    BY <1>1 DEF TypeOK
  <2> QED
    BY <1>1, <1>2, <2>2, <2>3 DEF TypeOK
<1>4. PlaceOK'
  <2>1. CASE last
    <3>1. refs[o] = 0 /\ Counting(o) \ {t} = {}
      <4> DEFINE c == Cardinality(Counting(o))
      <4>1. c \in Nat /\ c - 1 \in Nat /\ 1 = refs[o] + c
        BY <1>c, <2>1, SetsFinite
      <4> HIDE DEF c
      <4>2. refs[o] = 0 /\ c - 1 = 0
        BY <1>c, <4>1
      <4> QED
        BY <1>c, <4>2 DEF c
    <3>2. \A u \in Threads \ {t} : ~At(u, o, Busy)
      <4> SUFFICES ASSUME NEW u \in Threads \ {t}, At(u, o, Busy) PROVE FALSE
        OBVIOUS
      <4>1. ~Owns(u, o)
        BY <1>a DEF PlaceOK
      <4>2. u \in Counting(o)
        BY <4>1 DEF Counting, At, Owns, Busy
      <4> QED
        BY <3>1, <4>2
    <3> QED
      BY <1>1, <1>b, <1>2, <2>1, <3>1, <3>2
         DEF PlaceOK, Owns, At, Busy, Pooled
  <2>2. CASE ~last
    BY <1>1, <1>2, <2>2 DEF PlaceOK, Owns, At, Busy, Pooled
  <2> QED
    BY <2>1, <2>2
<1>5. LockOK'
  BY <1>1, <1>2 DEF LockOK, TypeOK, Busy
<1>6. CountOK'
  <2>1. ref_count_'[o] = References(o)'
    <3>1. /\ Counting(o)' = Counting(o) \ {t}
          /\ ref_count_'[o] = m - 1
      BY <1>1, <1>2 DEF TypeOK
    <3> QED
      BY <1>1, <1>c, <3>1, SetsFinite DEF References
  <2>2. ASSUME NEW x \in live, x # o PROVE ref_count_'[x] = References(x)'
    <3>1. Counting(x)' = Counting(x) \ {t} /\ t \notin Counting(x)
      BY <1>a, <1>2, <2>2
    <3>2. Counting(x)' = Counting(x)
      BY <3>1
    <3> QED
      BY <1>1, <2>2, <3>2, CountKept DEF TypeOK
  <2> QED
    BY <1>1, <2>1, <2>2 DEF CountOK
<1>7. NoneLost'
  <2>1. refs[o] > 0 \/ \E u \in Threads : At(u, o, Busy)'
    <3>1. CASE last
      BY <1>2, <3>1 DEF At, Busy
    <3>2. CASE ~last /\ refs[o] = 0
      <4>1. PICK u \in Counting(o) : u # t
        BY <1>c, <3>2
      <4> QED
        BY <1>2, <4>1 DEF Counting, At, Busy
    <3> QED
      BY <1>c, <3>1, <3>2
  <2>2. \A u \in Threads, x \in live \ {o} : At(u, x, Busy) => At(u, x, Busy)'
    BY <1>0, <1>2 DEF At, Busy
  <2> QED
    BY <1>1, <2>1, <2>2 DEF NoneLost, Pooled
<1>8. Bounded'
  BY <1>1, <1>2, <1>3, BoundKept DEF TypeOK
<1> QED
  BY <1>3, <1>4, <1>5, <1>6, <1>7, <1>8

-----------------------------------------------------------------------------
\* A defined step leaves things sound.
LEMMA SoundStep ==
  ASSUME Pthread, Sound, NEW t \in Threads, Step(t)
  PROVE  Sound'
<1>1. CASE AllocateNew(t)
  BY <1>1, AllocateNewStep
<1>2. CASE AllocateTests(t)
  BY <1>2, AllocateTestsStep
<1>3. CASE AllocatePops(t)
  BY <1>3, AllocatePopsStep
<1>4. CASE DeallcateTests(t)
  BY <1>4, DeallcateTestsStep
<1>5. CASE DeallcateDeletes(t)
  BY <1>5, DeallcateDeletesStep
<1>6. CASE DeallcatePushes(t)
  BY <1>6, DeallcatePushesStep
<1>7. CASE Clear(t)
  BY <1>7, ClearStep
<1>8. CASE Copy(t)
  BY <1>8, CopyStep
<1>9. CASE Drop(t)
  BY <1>9, DropStep
<1>10. CASE Load(t)
  BY <1>10, LoadStep
<1>11. CASE Incr(t)
  BY <1>11, IncrStep
<1>12. CASE Decr(t)
  BY <1>12, DecrStep
<1> QED
  BY <1>1, <1>2, <1>3, <1>4, <1>5, <1>6,
     <1>7, <1>8, <1>9, <1>10, <1>11, <1>12 DEF Step

(***************************************************************************)
(* In a build with the mutex every object has one place and the right      *)
(* count at every step, until a thread pops an empty list.                 *)
(***************************************************************************)
THEOREM Invariance == ASSUME Pthread PROVE Spec => []IInv
<1>1. Init => IInv
  BY StartInv DEF Init, IInv
<1>2. IInv /\ [Next]_vars => IInv'
  <2> SUFFICES ASSUME IInv, [Next]_vars PROVE IInv'
    OBVIOUS
  <2>1. CASE ~damaged /\ damaged' = damaged /\ \E t \in Threads : Step(t)
    BY <2>1, SoundStep DEF IInv
  <2>2. CASE \E t \in Threads : AllocateDamages(t)
    BY <2>2 DEF AllocateDamages, IInv
  <2>3. CASE Restart
    <3>1. Init'
      BY <2>3 DEF Restart, Init
    <3> QED
      BY <1>1, <3>1, PTL
  <2>4. CASE UNCHANGED vars
    <3>1. Sound => Sound'
      BY <2>4 DEF vars, Sound, TypeOK, PlaceOK, LockOK, CountOK, NoneLost,
         Bounded, Pooled, Owns, At, References, Counting, Pushing
    <3> QED
      BY <2>4, <3>1 DEF vars, IInv
  <2> QED
    BY <2>1, <2>2, <2>3, <2>4 DEF Next
<1> QED
  BY <1>1, <1>2, PTL DEF Spec

\* "reference count, thread safe" (lock.h:52), when the mutex is there.
THEOREM CountsRight == ASSUME Pthread PROVE Spec => []CountIsReferences
<1>1. IInv => CountIsReferences
  <2> SUFFICES ASSUME Sound, NEW o \in live,
                      \A t \in Threads : ~At(t, o, {"load", "store"})
               PROVE  ref_count_[o] = refs[o]
    BY DEF CountIsReferences, IInv
  <2>1. Counting(o) = {}
    BY DEF Counting
  <2>2. ref_count_[o] = refs[o] + 0
    BY <2>1, FS_EmptySet DEF Sound, CountOK, References
  <2>3. refs[o] \in Nat
    BY DEF Sound, TypeOK
  <2> QED
    BY <2>2, <2>3
<1> QED
  BY <1>1, Invariance, PTL

\* Nobody uses what is pooled or deleted, and one thread at a time pools it.
THEOREM NeverShared == ASSUME Pthread PROVE Spec => []Exclusive
<1>1. IInv => Exclusive
  <2> SUFFICES ASSUME Sound PROVE Exclusive
    BY DEF Exclusive, IInv
  <2>1. ASSUME NEW o \in Objects, References(o) > 0 PROVE o \in live \ Pooled
    <3>1. refs[o] > 0 \/ Counting(o) # {}
      <4>1. CASE Counting(o) = {}
        <5>1. References(o) = refs[o] + 0
          BY <4>1, FS_EmptySet DEF References
        <5>2. refs[o] \in Nat
          BY DEF Sound, TypeOK
        <5> QED
          BY <2>1, <5>1, <5>2
      <4> QED
        BY <4>1
    <3>2. CASE Counting(o) # {}
      BY <3>2 DEF Counting, At, Busy, Sound, PlaceOK
    <3> QED
      BY <3>1, <3>2 DEF Sound, PlaceOK
  <2>2. ASSUME NEW t \in Threads, NEW o \in Objects,
               At(t, o, {"test", "delete", "push"})
        PROVE  /\ o \in live \ Pooled
               /\ References(o) = 0
               /\ \A u \in Threads \ {t} : ~At(u, o, Busy)
    <3>1. At(t, o, Busy) /\ Owns(t, o)
      BY <2>2 DEF At, Owns, Busy
    <3>2. /\ o \in live \ Pooled
          /\ refs[o] = 0
          /\ \A u \in Threads \ {t} : ~At(u, o, Busy)
      BY <3>1 DEF Sound, PlaceOK
    <3>3. Counting(o) = {}
      BY <2>2, <3>2 DEF Counting, At, Busy
    <3> QED
      BY <3>2, <3>3, FS_EmptySet DEF References
  <2> QED
    BY <2>1, <2>2 DEF Exclusive, Sound, PlaceOK
<1> QED
  BY <1>1, Invariance, PTL

\* No object is lost: it is pooled, referred to, or on its way.
THEOREM NeverForgotten == ASSUME Pthread PROVE Spec => []NoneForgotten
<1>1. IInv => NoneForgotten
  BY DEF IInv, Sound, NoneForgotten
<1> QED
  BY <1>1, Invariance, PTL

\* The pool exceeds its limit by no more than one object for each thread.
THEOREM PoolBounded == ASSUME Pthread PROVE Spec => []PoolBound
<1>1. IInv => PoolBound
  BY DEF IInv, Sound, PoolBound
<1> QED
  BY <1>1, Invariance, PTL
=============================================================================
