---------------------------- MODULE DBConnProofs -----------------------------
(***************************************************************************)
(* Theorems about DBConn, for any number of callers and any max_conn.      *)
(***************************************************************************)
EXTENDS DBConn, FiniteSetTheorems, TLAPS

\* What pop_back leaves of a list without repetitions.
LEMMA Pop ==
  ASSUME NEW s \in Seq(Connections), s # <<>>, IsInjective(s)
  PROVE  /\ Front(s) \in Seq(Connections)
         /\ IsInjective(Front(s))
         /\ Last(s) \in ToSet(s)
         /\ ToSet(Front(s)) = ToSet(s) \ {Last(s)}
<1>1. /\ Len(s) \in Nat \ {0}
      /\ DOMAIN s = 1 .. Len(s)
      /\ Front(s) \in Seq(Connections)
      /\ DOMAIN Front(s) = 1 .. Len(s) - 1
      /\ \A i \in 1 .. Len(s) - 1 : Front(s)[i] = s[i]
  BY DEF Front
<1>2. IsInjective(Front(s))
  BY <1>1 DEF IsInjective
<1>3. Last(s) = s[Len(s)] /\ Len(s) \in DOMAIN s
  BY <1>1 DEF Last
<1>4. \A i \in 1 .. Len(s) - 1 : s[i] # Last(s)
  BY <1>1, <1>3 DEF IsInjective
<1>5. ToSet(Front(s)) = ToSet(s) \ {Last(s)}
  BY <1>1, <1>3, <1>4 DEF ToSet
<1> QED
  BY <1>1, <1>2, <1>3, <1>5 DEF ToSet

\* What push_back makes of a list and a connection that is not in it.
LEMMA Push ==
  ASSUME NEW s \in Seq(Connections), IsInjective(s),
         NEW c \in Connections \ ToSet(s)
  PROVE  /\ Append(s, c) \in Seq(Connections)
         /\ IsInjective(Append(s, c))
         /\ ToSet(Append(s, c)) = ToSet(s) \cup {c}
<1>1. /\ Len(s) \in Nat
      /\ DOMAIN s = 1 .. Len(s)
      /\ Append(s, c) \in Seq(Connections)
      /\ DOMAIN Append(s, c) = 1 .. Len(s) + 1
      /\ \A i \in 1 .. Len(s) : Append(s, c)[i] = s[i]
      /\ Append(s, c)[Len(s) + 1] = c
  OBVIOUS
<1>2. \A i \in 1 .. Len(s) : s[i] # c
  BY <1>1 DEF ToSet
<1>3. IsInjective(Append(s, c))
  BY <1>1, <1>2 DEF IsInjective
<1>4. ToSet(Append(s, c)) = ToSet(s) \cup {c}
  BY <1>1 DEF ToSet
<1> QED
  BY <1>1, <1>3, <1>4

\* The types hold at the start.
LEMMA TypeInit == Init => TypeOK
BY PoolAssumption DEF Init, TypeOK

\* Every step keeps the types.
LEMMA TypeStep == TypeOK /\ HoldsOK /\ Exclusive /\ [Next]_vars => TypeOK'
<1> SUFFICES ASSUME TypeOK, HoldsOK, Exclusive, [Next]_vars PROVE TypeOK'
  OBVIOUS
<1> USE PoolAssumption DEF TypeOK, Goes
<1>1. ASSUME NEW t \in Callers, AllocateNew(t) PROVE TypeOK'
  BY <1>1 DEF AllocateNew, CreateConnection
<1>2. ASSUME NEW t \in Callers, AllocateFree(t) PROVE TypeOK'
  <2> DEFINE c == Last(free_list_)
  <2>1. free_list_' \in Seq(Connections) /\ c \in Connections
    BY <1>2, Pop DEF AllocateFree, Exclusive, Pooled
  <2>2. CASE conn' = [conn EXCEPT ![t] = c] /\ gone' = gone \ {c} /\ live' = live
    BY <1>2, <2>1, <2>2 DEF AllocateFree
  <2>3. CASE CreateConnection(t, live \ {c}, gone \ {c})
    BY <1>2, <2>1, <2>3 DEF AllocateFree, CreateConnection
  <2> QED
    BY <1>2, <2>2, <2>3 DEF AllocateFree
<1>3. ASSUME NEW t \in Callers, Use(t) PROVE TypeOK'
  BY <1>3 DEF Use
<1>4. ASSUME NEW t \in Callers, ReleaseTests(t) PROVE TypeOK'
  BY <1>4 DEF ReleaseTests
<1>5. ASSUME NEW t \in Callers, Destroy(t) PROVE TypeOK'
  BY <1>5 DEF Destroy
<1>6. ASSUME NEW t \in Callers, ReleasePushes(t) PROVE TypeOK'
  BY <1>6 DEF ReleasePushes, HoldsOK
<1>7. CASE Lose
  BY <1>7 DEF Lose
<1>8. CASE Crash
  BY <1>8 DEF Crash
<1>9. CASE UNCHANGED vars
  BY <1>9 DEF vars
<1> QED
  BY <1>1, <1>2, <1>3, <1>4, <1>5, <1>6, <1>7, <1>8, <1>9 DEF Next

\* A caller without a connection gets x.
LEMMA Takes ==
  ASSUME TypeOK, NEW t \in Callers, conn[t] = Null, NEW x,
         conn' = [conn EXCEPT ![t] = x]
  PROVE  Held' = Held \cup ({x} \ {Null})
BY DEF TypeOK, Held

\* A caller gives up the connection that nobody else has.
LEMMA Gives ==
  ASSUME TypeOK, Exclusive, NEW t \in Callers, conn[t] # Null,
         conn' = [conn EXCEPT ![t] = Null]
  PROVE  Held' = Held \ {conn[t]}
BY DEF TypeOK, Exclusive, Held

\* The invariant but for the count.
Placed == TypeOK /\ HoldsOK /\ Exclusive /\ NoneForgotten

\* Every step keeps each connection at one place.
LEMMA PlacedStep == Placed /\ [Next]_vars => Placed'
<1> SUFFICES ASSUME Placed, [Next]_vars PROVE Placed'
  OBVIOUS
<1>t. TypeOK /\ TypeOK' /\ HoldsOK /\ Exclusive /\ NoneForgotten
  BY TypeStep DEF Placed
<1> USE <1>t, PoolAssumption DEF Placed, Goes, TypeOK
<1>1. ASSUME NEW t \in Callers, AllocateNew(t) PROVE Placed'
  <2>1. /\ conn[t] = Null
        /\ conn' = [conn EXCEPT ![t] = conn'[t]]
        /\ free_list_' = free_list_
    BY <1>1 DEF AllocateNew, CreateConnection, HoldsOK
  <2>2. Held' = Held \cup ({conn'[t]} \ {Null}) /\ Pooled' = Pooled
    BY <2>1, Takes DEF Pooled
  <2>3. HoldsOK'
    BY <1>1, <2>1 DEF AllocateNew, HoldsOK
  <2>4. CASE conn'[t] = Null /\ live' = live /\ gone' = gone
    BY <2>1, <2>2, <2>3, <2>4 DEF Exclusive, NoneForgotten
  <2>5. CASE /\ conn'[t] \in Connections \ live
             /\ live' = live \cup {conn'[t]}
             /\ gone \subseteq gone'
    <3>1. \A u \in Callers : conn[u] # conn'[t]
      BY <2>5 DEF Exclusive, Held
    <3> QED
      BY <2>1, <2>2, <2>3, <2>5, <3>1 DEF Exclusive, NoneForgotten
  <2> QED
    BY <1>1, <2>4, <2>5 DEF AllocateNew, CreateConnection
<1>2. ASSUME NEW t \in Callers, AllocateFree(t) PROVE Placed'
  <2> DEFINE c == Last(free_list_)
  <2>1. /\ IsInjective(free_list_')
        /\ c \in Pooled
        /\ Pooled' = Pooled \ {c}
    BY <1>2, Pop DEF AllocateFree, Exclusive, Pooled
  <2> HIDE DEF c
  <2>2. /\ conn[t] = Null
        /\ conn' = [conn EXCEPT ![t] = conn'[t]]
    BY <1>2 DEF AllocateFree, CreateConnection, HoldsOK
  <2>3. Held' = Held \cup ({conn'[t]} \ {Null})
    BY <2>2, Takes
  <2>4. HoldsOK'
    BY <1>2, <2>2 DEF AllocateFree, HoldsOK
  <2>5. \A u \in Callers : conn[u] # c
    BY <2>1 DEF Exclusive, Held
  <2>6. CASE conn'[t] = c /\ gone' = gone \ {c} /\ live' = live
    BY <2>1, <2>2, <2>3, <2>4, <2>5, <2>6 DEF Exclusive, NoneForgotten
  <2>7. CASE conn'[t] = Null /\ live' = live \ {c} /\ gone' = gone \ {c}
    BY <2>1, <2>2, <2>3, <2>4, <2>5, <2>7 DEF Exclusive, NoneForgotten
  <2>8. CASE /\ conn'[t] \in Connections \ (live \ {c})
             /\ live' = (live \ {c}) \cup {conn'[t]}
             /\ gone \ {c} \subseteq gone'
    <3>1. \A u \in Callers : conn[u] # conn'[t]
      BY <2>5, <2>8 DEF Exclusive, Held
    <3> QED
      BY <2>1, <2>2, <2>3, <2>4, <2>5, <2>8, <3>1 DEF Exclusive, NoneForgotten
  <2> QED
    BY <1>2, <2>6, <2>7, <2>8 DEF AllocateFree, CreateConnection, c
<1>3. ASSUME NEW t \in Callers, Use(t) PROVE Placed'
  BY <1>3 DEF Use, HoldsOK, Exclusive, NoneForgotten, Held, Pooled
<1>4. ASSUME NEW t \in Callers, ReleaseTests(t) PROVE Placed'
  BY <1>4 DEF ReleaseTests, HoldsOK, Exclusive, NoneForgotten, Held, Pooled
<1>5. ASSUME NEW t \in Callers, Destroy(t) PROVE Placed'
  <2>1. conn[t] # Null /\ conn[t] \in Held
    BY <1>5 DEF Destroy, HoldsOK, Held
  <2>2. Held' = Held \ {conn[t]} /\ Pooled' = Pooled
    BY <1>5, <2>1, Gives DEF Destroy, Pooled
  <2>3. HoldsOK'
    BY <1>5 DEF Destroy, HoldsOK
  <2> QED
    BY <1>5, <2>1, <2>2, <2>3 DEF Destroy, Exclusive, NoneForgotten
<1>6. ASSUME NEW t \in Callers, ReleasePushes(t) PROVE Placed'
  <2>1. conn[t] \in Connections \ Pooled /\ conn[t] \in Held /\ conn[t] # Null
    BY <1>6 DEF ReleasePushes, HoldsOK, Held, Exclusive
  <2>2. IsInjective(free_list_') /\ Pooled' = Pooled \cup {conn[t]}
    BY <1>6, <2>1, Push DEF ReleasePushes, Pooled, Exclusive
  <2>3. Held' = Held \ {conn[t]}
    BY <1>6, <2>1, Gives DEF ReleasePushes
  <2>4. HoldsOK'
    BY <1>6 DEF ReleasePushes, HoldsOK
  <2> QED
    BY <1>6, <2>1, <2>2, <2>3, <2>4 DEF ReleasePushes, Exclusive, NoneForgotten
<1>7. CASE Lose
  BY <1>7 DEF Lose, HoldsOK, Exclusive, NoneForgotten, Held, Pooled
<1>8. CASE Crash
  <2>1. Held' = {} /\ Pooled' = {} /\ IsInjective(free_list_')
    BY <1>8 DEF Crash, Held, Pooled, ToSet, IsInjective
  <2> QED
    BY <1>8, <2>1 DEF Crash, HoldsOK, Exclusive, NoneForgotten
<1>9. CASE UNCHANGED vars
  BY <1>9 DEF vars, HoldsOK, Exclusive, NoneForgotten, Held, Pooled
<1> QED
  BY <1>1, <1>2, <1>3, <1>4, <1>5, <1>6, <1>7, <1>8, <1>9 DEF Next

\* Each connection is at one place at the start.
LEMMA PlacedInit == Init => Placed
<1> SUFFICES ASSUME Init PROVE Placed
  OBVIOUS
<1>1. Held = {} /\ Pooled = {} /\ IsInjective(free_list_)
  BY DEF Init, Held, Pooled, ToSet, IsInjective
<1> QED
  BY <1>1, TypeInit DEF Init, Placed, HoldsOK, Exclusive, NoneForgotten

\* In hand there are at most as many connections as callers.
LEMMA HeldCount ==
  ASSUME NEW f \in [Callers -> Connections \cup {Null}]
  PROVE  Cardinality({f[t] : t \in Callers} \ {Null}) <= Cardinality(Callers)
<1> DEFINE T == {f[t] : t \in Callers}
<1>1. f \in Surjection(Callers, T)
  BY DEF Surjection
<1>2. /\ IsFiniteSet(T) /\ Cardinality(T) \in Nat
      /\ Cardinality(T) <= Cardinality(Callers)
      /\ Cardinality(Callers) \in Nat
  BY <1>1, PoolAssumption, FS_Surjection, FS_CardinalityType
<1>3. /\ IsFiniteSet(T \ {Null})
      /\ Cardinality(T \ {Null}) <= Cardinality(T)
  BY <1>2, FS_Subset
<1> QED
  BY <1>2, <1>3, FS_CardinalityType

\* A step that needs no new connection does not add to their number.
LEMMA Fewer ==
  ASSUME Placed, OnePerCaller,
         (Held \cup Pooled)' \subseteq Held \cup Pooled
  PROVE  OnePerCaller'
<1>1. IsFiniteSet(Held \cup Pooled)
  BY PoolAssumption, FS_Subset DEF Placed, TypeOK, Exclusive
<1>2. Cardinality((Held \cup Pooled)') <= Cardinality(Held \cup Pooled)
  BY <1>1, FS_Subset
<1> QED
  BY <1>1, <1>2, FS_Subset, FS_CardinalityType, PoolAssumption DEF OnePerCaller

\* A connection in the place of another does not add to their number.
LEMMA Exchange ==
  ASSUME NEW S, IsFiniteSet(S), NEW c \in S, NEW x,
         NEW T \in SUBSET ((S \ {c}) \cup {x})
  PROVE  Cardinality(T) <= Cardinality(S)
<1>1. IsFiniteSet(S \ {c}) /\ Cardinality(S \ {c}) = Cardinality(S) - 1
  BY FS_RemoveElement
<1>2. /\ IsFiniteSet((S \ {c}) \cup {x})
      /\ Cardinality((S \ {c}) \cup {x}) <= Cardinality(S)
  <2>1. Cardinality(S) \in Nat
    BY FS_CardinalityType
  <2> DEFINE R == S \ {c}
  <2>2. IsFiniteSet(R) /\ Cardinality(R) = Cardinality(S) - 1
    BY <1>1
  <2> HIDE DEF R
  <2>3. /\ IsFiniteSet(R \cup {x})
        /\ Cardinality(R \cup {x}) =
             IF x \in R THEN Cardinality(R) ELSE Cardinality(R) + 1
    BY <2>2, FS_AddElement
  <2> QED
    BY <2>1, <2>2, <2>3 DEF R
<1>3. IsFiniteSet(T) /\ Cardinality(T) <= Cardinality((S \ {c}) \cup {x})
  BY <1>2, FS_Subset
<1>4. /\ Cardinality(S) \in Nat
      /\ Cardinality(T) \in Nat
      /\ Cardinality((S \ {c}) \cup {x}) \in Nat
  BY <1>2, <1>3, FS_CardinalityType
<1> QED
  BY <1>2, <1>3, <1>4

\* Every step keeps the count.
LEMMA CountStep == Placed /\ OnePerCaller /\ [Next]_vars => OnePerCaller'
<1> SUFFICES ASSUME Placed, OnePerCaller, [Next]_vars PROVE OnePerCaller'
  OBVIOUS
<1>t. Placed' /\ TypeOK /\ TypeOK' /\ HoldsOK /\ Exclusive
  BY PlacedStep DEF Placed
<1> USE <1>t
<1>1. ASSUME NEW t \in Callers, AllocateNew(t) PROVE OnePerCaller'
  <2>1. Pooled' = {}
    BY <1>1 DEF AllocateNew, Pooled, ToSet
  <2>2. (conn \in [Callers -> Connections \cup {Null}])'
    BY DEF TypeOK
  <2>3. Cardinality(Held') <= Cardinality(Callers)
    BY <2>2, HeldCount DEF Held
  <2>4. (Held \cup Pooled)' = Held'
    BY <2>1
  <2> QED
    BY <2>3, <2>4 DEF OnePerCaller
<1>2. ASSUME NEW t \in Callers, AllocateFree(t) PROVE OnePerCaller'
  <2> DEFINE c == Last(free_list_)
  <2>1. /\ c \in Pooled
        /\ Pooled' = Pooled \ {c}
    BY <1>2, Pop DEF AllocateFree, Exclusive, Pooled, TypeOK
  <2>2. /\ conn[t] = Null
        /\ conn' = [conn EXCEPT ![t] = conn'[t]]
    BY <1>2 DEF AllocateFree, CreateConnection, HoldsOK, Goes, TypeOK
  <2> HIDE DEF c
  <2>3. Held' = Held \cup ({conn'[t]} \ {Null})
    BY <2>2, Takes
  <2>4. c \notin Held
    BY <2>1 DEF Exclusive
  <2>5. (Held \cup Pooled)' \in SUBSET (((Held \cup Pooled) \ {c}) \cup {conn'[t]})
    BY <2>1, <2>3, <2>4
  <2>6. IsFiniteSet(Held \cup Pooled) /\ IsFiniteSet((Held \cup Pooled)')
    BY PoolAssumption, FS_Subset DEF Placed, TypeOK, Exclusive
  <2>7. Cardinality((Held \cup Pooled)') <= Cardinality(Held \cup Pooled)
    BY <2>1, <2>5, <2>6, Exchange
  <2> QED
    BY <2>6, <2>7, FS_CardinalityType, PoolAssumption DEF OnePerCaller
<1>3. ASSUME NEW t \in Callers, Use(t) \/ ReleaseTests(t) PROVE OnePerCaller'
  BY <1>3 DEF Use, ReleaseTests, OnePerCaller, Held, Pooled
<1>5. ASSUME NEW t \in Callers, Destroy(t) PROVE OnePerCaller'
  <2>1. Held' = Held \ {conn[t]} /\ Pooled' = Pooled
    BY <1>5, Gives DEF Destroy, Pooled, HoldsOK, Goes, TypeOK
  <2> QED
    BY <2>1, Fewer
<1>6. ASSUME NEW t \in Callers, ReleasePushes(t) PROVE OnePerCaller'
  <2>1. conn[t] \in Connections \ Pooled /\ conn[t] \in Held /\ conn[t] # Null
    BY <1>6 DEF ReleasePushes, HoldsOK, Held, Exclusive, Goes, TypeOK
  <2>2. Pooled' = Pooled \cup {conn[t]}
    BY <1>6, <2>1, Push DEF ReleasePushes, Pooled, Exclusive, TypeOK
  <2>3. Held' = Held \ {conn[t]}
    BY <1>6, <2>1, Gives DEF ReleasePushes
  <2> QED
    BY <2>1, <2>2, <2>3, Fewer
<1>7. CASE Lose
  BY <1>7 DEF Lose, OnePerCaller, Held, Pooled
<1>8. CASE Crash
  <2>1. Held' = {} /\ Pooled' = {}
    BY <1>8 DEF Crash, Held, Pooled, ToSet
  <2> QED
    BY <2>1, Fewer
<1>9. CASE UNCHANGED vars
  BY <1>9 DEF vars, OnePerCaller, Held, Pooled
<1> QED
  BY <1>1, <1>2, <1>3, <1>5, <1>6, <1>7, <1>8, <1>9 DEF Next

(***************************************************************************)
(* Every connection has its one place, and their number is bounded: the    *)
(* inductive invariant.                                                    *)
(***************************************************************************)
THEOREM Invariance == Spec => []IInv
<1>1. Init => Placed /\ OnePerCaller
  <2> SUFFICES ASSUME Init PROVE Placed /\ OnePerCaller
    OBVIOUS
  <2>1. Held \cup Pooled = {}
    BY DEF Init, Held, Pooled, ToSet
  <2> QED
    BY <2>1, PlacedInit, FS_EmptySet, FS_CardinalityType, PoolAssumption
    DEF OnePerCaller
<1>2. Placed /\ OnePerCaller <=> IInv
  BY DEF Placed, IInv
<1> QED
  BY <1>1, <1>2, PlacedStep, CountStep, PTL DEF Spec

(***************************************************************************)
(* No connection is ever shared, pooled twice or used after it was deleted.*)
(***************************************************************************)
THEOREM NeverShared == Spec => []Exclusive
<1>1. IInv => Exclusive
  BY DEF IInv
<1> QED
  BY <1>1, Invariance, PTL

(***************************************************************************)
(* No path through allocate and release loses a connection that works.     *)
(***************************************************************************)
THEOREM NeverForgotten == Spec => []NoneForgotten
<1>1. IInv => NoneForgotten
  BY DEF IInv
<1> QED
  BY <1>1, Invariance, PTL

(***************************************************************************)
(* However small or large max_conn is, the callers bound the pool.         *)
(***************************************************************************)
THEOREM Bounded == Spec => []OnePerCaller
<1>1. IInv => OnePerCaller
  BY DEF IInv
<1> QED
  BY <1>1, Invariance, PTL

(***************************************************************************)
(* The list holds connections, a caller a connection or nullptr, and only  *)
(* an object that is still there can be closed.                            *)
(***************************************************************************)
THEOREM TypeCorrect == Spec => []TypeOK
<1>1. IInv => TypeOK
  BY DEF IInv
<1> QED
  BY <1>1, Invariance, PTL
=============================================================================
