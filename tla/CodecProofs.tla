----------------------------- MODULE CodecProofs -----------------------------
(***************************************************************************)
(* Theorems about Codec: a message that is serialized and parsed is the    *)
(* message, and ByteSizeLong says how many bytes it takes, for any byte    *)
(* strings and any numbers.                                                *)
(***************************************************************************)
EXTENDS Codec, FiniteSetTheorems, SequenceTheorems, WellFoundedInduction,
        TLAPS

-----------------------------------------------------------------------------
(* Sums. *)

\* Induction, over a set of numbers.
LEMMA AllNumbers ==
  ASSUME NEW S \in SUBSET Nat, 0 \in S, \A n \in S : n + 1 \in S
  PROVE  S = Nat
<1> DEFINE D == Nat \ S
<1>1. SUFFICES ASSUME D # {} PROVE FALSE
  OBVIOUS
<1>2. PICK d \in D : \A e \in D : ~(<<e, d>> \in OpToRel(<, Nat))
  <2>1. D \subseteq Nat
    OBVIOUS
  <2> HIDE DEF D
  <2> QED
    BY <1>1, <2>1, NatLessThanWellFounded, WFMin
<1>3. d \in Nat /\ d # 0
  OBVIOUS
<1>4. d - 1 \in S
  <2>1. d - 1 \in Nat /\ d - 1 < d
    BY <1>3
  <2>2. ~(d - 1 \in D)
    <3> HIDE DEF D
    <3> QED
      BY <1>2, <1>3, <2>1 DEF OpToRel
  <2> QED
    BY <2>1, <2>2
<1>5. (d - 1) + 1 \in S
  BY <1>4
<1> QED
  BY <1>3, <1>5

\* The partial sums that Total chooses.
Sums(s) ==
  CHOOSE g : g = [n \in 0 .. Len(s) |-> IF n = 0 THEN 0 ELSE g[n - 1] + s[n]]

LEMMA TotalSums == \A s : Total(s) = Sums(s)[Len(s)]
BY DEF Total, Sums

\* There are partial sums.
LEMMA SumsExist ==
  ASSUME NEW s, Len(s) \in Nat
  PROVE  Sums(s) = [n \in 0 .. Len(s) |->
                      IF n = 0 THEN 0 ELSE Sums(s)[n - 1] + s[n]]
<1> DEFINE IsSums(g, k) ==
             g = [n \in 0 .. k |-> IF n = 0 THEN 0 ELSE g[n - 1] + s[n]]
           S == {k \in Nat : \E g : IsSums(g, k)}
<1>1. 0 \in S
  <2>1. IsSums([n \in 0 .. 0 |-> 0], 0)
    OBVIOUS
  <2> QED
    BY <2>1
<1>2. ASSUME NEW k \in S PROVE k + 1 \in S
  <2>1. PICK g : IsSums(g, k)
    BY <1>2
  <2> DEFINE h == [n \in 0 .. k + 1 |->
                     IF n = k + 1 THEN g[k] + s[k + 1] ELSE g[n]]
  <2>2. k \in Nat
    BY <1>2
  <2>3. \A n \in 0 .. k + 1 :
          h[n] = IF n = 0 THEN 0 ELSE h[n - 1] + s[n]
    <3> SUFFICES ASSUME NEW n \in 0 .. k + 1
                 PROVE  h[n] = IF n = 0 THEN 0 ELSE h[n - 1] + s[n]
      OBVIOUS
    <3>1. CASE n = k + 1
      <4>1. h[n] = g[k] + s[k + 1] /\ h[n - 1] = g[k]
        BY <2>2, <3>1
      <4> HIDE DEF h
      <4> QED
        BY <2>2, <3>1, <4>1
    <3>2. CASE n # k + 1
      <4>1. h[n] = g[n] /\ (n # 0 => h[n - 1] = g[n - 1])
        BY <2>2, <3>2
      <4>2. g[n] = IF n = 0 THEN 0 ELSE g[n - 1] + s[n]
        BY <2>1, <2>2, <3>2
      <4> HIDE DEF h
      <4> QED
        BY <4>1, <4>2
    <3> QED
      BY <3>1, <3>2
  <2>4. IsSums(h, k + 1)
    <3>1. h = [n \in 0 .. k + 1 |-> h[n]]
      OBVIOUS
    <3> HIDE DEF h
    <3> QED
      BY <2>3, <3>1
  <2> HIDE DEF h, IsSums
  <2> QED
    BY <2>2, <2>4
<1>3. S = Nat
  <2>1. S \in SUBSET Nat
    OBVIOUS
  <2> HIDE DEF S
  <2> QED
    BY <1>1, <1>2, <2>1, AllNumbers
<1>4. \E g : IsSums(g, Len(s))
  <2>1. Len(s) \in S
    <3> HIDE DEF S
    <3> QED
      BY <1>3
  <2> QED
    BY <2>1
<1> QED
  BY <1>4 DEF Sums

\* The partial sums, one by one.
LEMMA SumsStep ==
  ASSUME NEW s \in Seq(Nat)
  PROVE  /\ Sums(s)[0] = 0
         /\ \A n \in 1 .. Len(s) : Sums(s)[n] = Sums(s)[n - 1] + s[n]
<1>1. Len(s) \in Nat
  OBVIOUS
<1>2. \A n \in 0 .. Len(s) :
        Sums(s)[n] = IF n = 0 THEN 0 ELSE Sums(s)[n - 1] + s[n]
  BY <1>1, SumsExist
<1> QED
  BY <1>1, <1>2

\* Sums of naturals are naturals.
LEMMA SumsType ==
  ASSUME NEW s \in Seq(Nat)
  PROVE  \A n \in 0 .. Len(s) : Sums(s)[n] \in Nat
<1> DEFINE S == {n \in Nat : n <= Len(s) => Sums(s)[n] \in Nat}
<1>1. 0 \in S
  BY SumsStep
<1>2. ASSUME NEW n \in S PROVE n + 1 \in S
  <2> SUFFICES ASSUME n + 1 <= Len(s) PROVE Sums(s)[n + 1] \in Nat
    BY <1>2
  <2>1. n \in Nat /\ Sums(s)[n] \in Nat /\ n + 1 \in 1 .. Len(s)
    BY <1>2
  <2>2. Sums(s)[n + 1] = Sums(s)[(n + 1) - 1] + s[n + 1]
    BY <2>1, SumsStep
  <2>3. (n + 1) - 1 = n /\ s[n + 1] \in Nat
    BY <2>1
  <2> QED
    BY <2>1, <2>2, <2>3
<1>3. S = Nat
  <2>1. S \in SUBSET Nat
    OBVIOUS
  <2> HIDE DEF S
  <2> QED
    BY <1>1, <1>2, <2>1, AllNumbers
<1> QED
  BY <1>3

\* The sum of naturals is one.
LEMMA TotalType ==
  ASSUME NEW s \in Seq(Nat)
  PROVE  Total(s) \in Nat
<1>1. Len(s) \in 0 .. Len(s)
  OBVIOUS
<1> QED
  BY <1>1, SumsType, TotalSums

\* The sum of nothing, and of one number.
LEMMA TotalShort == Total(<<>>) = 0 /\ \A x \in Nat : Total(<<x>>) = x
<1>1. Total(<<>>) = 0
  <2>1. <<>> \in Seq(Nat) /\ Len(<<>>) = 0
    OBVIOUS
  <2> QED
    BY <2>1, SumsStep, TotalSums
<1>2. ASSUME NEW x \in Nat PROVE Total(<<x>>) = x
  <2>1. <<x>> \in Seq(Nat) /\ Len(<<x>>) = 1 /\ <<x>>[1] = x
    OBVIOUS
  <2>2. Sums(<<x>>)[0] = 0
    BY <2>1, SumsStep
  <2>3. Sums(<<x>>)[1] = Sums(<<x>>)[1 - 1] + <<x>>[1]
    <3>1. 1 \in 1 .. Len(<<x>>)
      BY <2>1
    <3> QED
      BY <2>1, <3>1, SumsStep
  <2>4. Total(<<x>>) = Sums(<<x>>)[1]
    BY <2>1, TotalSums
  <2> QED
    BY <2>1, <2>2, <2>3, <2>4
<1> QED
  BY <1>1, <1>2

\* The sum of a concatenation.
LEMMA TotalConcat ==
  ASSUME NEW s \in Seq(Nat), NEW t \in Seq(Nat)
  PROVE  Total(s \o t) = Total(s) + Total(t)
<1> DEFINE u == s \o t
<1>1. /\ u \in Seq(Nat) /\ Len(u) = Len(s) + Len(t)
      /\ \A i \in 1 .. Len(s) : u[i] = s[i]
      /\ \A i \in 1 .. Len(t) : u[Len(s) + i] = t[i]
      /\ Len(s) \in Nat /\ Len(t) \in Nat
  OBVIOUS
<1> HIDE DEF u
<1>2. Sums(u)[Len(s)] = Total(s)
  <2> DEFINE S == {n \in Nat : n <= Len(s) => Sums(u)[n] = Sums(s)[n]}
  <2>1. 0 \in S
    BY <1>1, SumsStep
  <2>2. ASSUME NEW n \in S PROVE n + 1 \in S
    <3> SUFFICES ASSUME n + 1 <= Len(s) PROVE Sums(u)[n + 1] = Sums(s)[n + 1]
      BY <2>2
    <3>1. /\ n \in Nat /\ Sums(u)[n] = Sums(s)[n] /\ n + 1 \in 1 .. Len(s)
          /\ n + 1 \in 1 .. Len(u) /\ (n + 1) - 1 = n
      BY <1>1, <2>2
    <3>2. Sums(u)[n + 1] = Sums(u)[n] + u[n + 1]
      BY <1>1, <3>1, SumsStep
    <3>3. Sums(s)[n + 1] = Sums(s)[n] + s[n + 1]
      BY <3>1, SumsStep
    <3> QED
      BY <1>1, <3>1, <3>2, <3>3
  <2>3. S = Nat
    <3>1. S \in SUBSET Nat
      OBVIOUS
    <3> HIDE DEF S
    <3> QED
      BY <2>1, <2>2, <3>1, AllNumbers
  <2>4. Len(s) \in S
    <3> HIDE DEF S
    <3> QED
      BY <1>1, <2>3
  <2>5. Len(s) \in Nat /\ Len(s) <= Len(s)
    BY <1>1
  <2>6. Sums(u)[Len(s)] = Sums(s)[Len(s)]
    BY <2>4, <2>5
  <2>7. Total(s) = Sums(s)[Len(s)]
    BY TotalSums
  <2> QED
    BY <2>6, <2>7
<1>3. Sums(u)[Len(s) + Len(t)] = Total(s) + Total(t)
  <2> DEFINE S == {n \in Nat : n <= Len(t) =>
                     Sums(u)[Len(s) + n] = Total(s) + Sums(t)[n]}
  <2>0. Total(s) \in Nat
    BY TotalType
  <2>1. 0 \in S
    <3>1. Sums(t)[0] = 0 /\ Len(s) + 0 = Len(s)
      BY <1>1, SumsStep
    <3> QED
      BY <1>2, <2>0, <3>1
  <2>2. ASSUME NEW n \in S PROVE n + 1 \in S
    <3> SUFFICES ASSUME n + 1 <= Len(t)
                 PROVE  Sums(u)[Len(s) + (n + 1)] = Total(s) + Sums(t)[n + 1]
      BY <2>2
    <3>1. /\ n \in Nat /\ Sums(u)[Len(s) + n] = Total(s) + Sums(t)[n]
          /\ n + 1 \in 1 .. Len(t) /\ Len(s) + (n + 1) \in 1 .. Len(u)
          /\ (n + 1) - 1 = n /\ (Len(s) + (n + 1)) - 1 = Len(s) + n
      BY <1>1, <2>2
    <3>2. Sums(u)[Len(s) + (n + 1)] = Sums(u)[Len(s) + n] + u[Len(s) + (n + 1)]
      BY <1>1, <3>1, SumsStep
    <3>3. Sums(t)[n + 1] = Sums(t)[n] + t[n + 1]
      BY <3>1, SumsStep
    <3>4. t[n + 1] \in Nat /\ Sums(t)[n] \in Nat
      <4>1. n \in 0 .. Len(t)
        BY <1>1, <3>1
      <4> QED
        BY <3>1, <4>1, SumsType
    <3>5. u[Len(s) + (n + 1)] = t[n + 1]
      BY <1>1, <3>1
    <3> QED
      BY <2>0, <3>1, <3>2, <3>3, <3>4, <3>5
  <2>3. S = Nat
    <3>1. S \in SUBSET Nat
      OBVIOUS
    <3> HIDE DEF S
    <3> QED
      BY <2>1, <2>2, <3>1, AllNumbers
  <2>4. Len(t) \in S
    <3> HIDE DEF S
    <3> QED
      BY <1>1, <2>3
  <2>5. Total(t) = Sums(t)[Len(t)]
    BY TotalSums
  <2> QED
    BY <1>1, <2>4, <2>5
<1>4. Total(u) = Sums(u)[Len(u)]
  BY TotalSums
<1> QED
  BY <1>1, <1>3, <1>4 DEF u

\* A varint has one byte to ten; one seven bits long has one.
LEMMA VarintSizeRange ==
  ASSUME NEW n \in Int
  PROVE  /\ VarintSize(n) \in 1 .. 10
         /\ n < 128 => VarintSize(n) = 1
<1> DEFINE B(k) == n < 128 ^ k
           C == CHOOSE k \in 2 .. 10 : (k = 2 \/ ~B(k - 1)) /\ (k = 10 \/ B(k))
<1>1. CASE n < 128
  BY <1>1 DEF VarintSize
<1>2. CASE ~(n < 128)
  <2>1. \E k \in 2 .. 10 : (k = 2 \/ ~B(k - 1)) /\ (k = 10 \/ B(k))
    <3> HIDE DEF B
    <3> QED
      OBVIOUS
  <2>2. C \in 2 .. 10
    <3> HIDE DEF B
    <3> QED
      BY <2>1
  <2>3. VarintSize(n) = C
    BY <1>2, Zenon DEF VarintSize
  <2> HIDE DEF C
  <2> QED
    BY <1>2, <2>2, <2>3
<1> QED
  BY <1>1, <1>2

-----------------------------------------------------------------------------
(* Values and messages. *)

Types == {"int64", "uint64", "uint32", "bytes"}

\* The fields of every class have one of the four types.
LEMMA FieldTypes ==
  ASSUME NEW T \in Classes, NEW f \in Fields(T)
  PROVE  Class[T][f] \in Types
BY DEF Classes, Class, Fields, Types, QueryFriendReq, QueryFriendRes,
   OfflineMessageReq, OfflineMessageRes, OfflineMessageReadNotice,
   OfflineMessage, OfflineMessageDelReq

\* The default of a type is one of its values.
LEMMA DefaultType ==
  ASSUME NEW type \in Types
  PROVE  Default(type) \in ValuesOf[type]
BY CodecAssumption DEF Types, Default, ValuesOf

\* What is read from a field of the right wire type is a value of the type.
LEMMA ReadType ==
  ASSUME NEW type \in Types, NEW field \in WireField,
         field.wire = WireType(type)
  PROVE  ReadValue(type, field.val) \in ValuesOf[type]
<1>1. CASE type = "bytes"
  BY <1>1, CodecAssumption DEF WireField, WireType, ReadValue, ValuesOf
<1>2. CASE type # "bytes"
  <2>1. field.val \in 0 .. 2 * Half - 1
    BY <1>2 DEF WireField, WireType
  <2>2. CASE type = "uint32"
    BY <2>1, <2>2, CodecAssumption DEF ReadValue, ValuesOf
  <2> QED
    BY <1>2, <2>1, <2>2, CodecAssumption DEF ReadValue, ValuesOf, Types
<1> QED
  BY <1>1, <1>2

\* A cleared message is a message.
LEMMA ClearedIsMessage ==
  ASSUME NEW T \in Classes
  PROVE  IsMessage(T, Cleared(T))
<1>1. \A f \in Fields(T) : Default(Class[T][f]) \in ValuesOf[Class[T][f]]
  BY FieldTypes, DefaultType
<1> QED
  BY <1>1 DEF IsMessage, Cleared

\* Setting a field to a value of its type makes a message of a message.
LEMMA WithIsMessage ==
  ASSUME NEW T, NEW m, IsMessage(T, m), NEW f \in Fields(T),
         NEW v \in ValuesOf[Class[T][f]]
  PROVE  /\ IsMessage(T, With(m, f, v))
         /\ With(m, f, v).val = [m.val EXCEPT ![f] = v]
<1>1. m = [val |-> m.val, unknown |-> m.unknown]
  BY DEF IsMessage
<1>2. With(m, f, v) = [val |-> [m.val EXCEPT ![f] = v], unknown |-> m.unknown]
  BY <1>1 DEF With
<1>3. m.val = [g \in Fields(T) |-> m.val[g]]
  BY DEF IsMessage
<1>4. [m.val EXCEPT ![f] = v]
        = [g \in Fields(T) |-> IF g = f THEN v ELSE m.val[g]]
  BY <1>3
<1> QED
  BY <1>2, <1>4 DEF IsMessage

\* Keeping an unknown field makes a message of a message.
LEMMA SkipIsMessage ==
  ASSUME NEW T, NEW m, IsMessage(T, m), NEW field \in WireField
  PROVE  IsMessage(T, SkipField(m, field)) /\ SkipField(m, field).val = m.val
<1>1. m = [val |-> m.val, unknown |-> m.unknown]
  BY DEF IsMessage
<1>2. SkipField(m, field) = [val |-> m.val, unknown |-> Append(m.unknown, field)]
  <2>1. \A val, unknown, longer :
          [[val |-> val, unknown |-> unknown] EXCEPT !.unknown = longer]
            = [val |-> val, unknown |-> longer]
    OBVIOUS
  <2>2. SkipField(m, field) = [[val |-> m.val, unknown |-> m.unknown]
                                 EXCEPT !.unknown = Append(m.unknown, field)]
    BY <1>1, Zenon DEF SkipField
  <2> QED
    BY <2>1, <2>2
<1>3. Append(m.unknown, field) \in Seq(WireField)
  <2>1. m.unknown \in Seq(WireField)
    BY DEF IsMessage
  <2> QED
    BY <2>1
<1>4. /\ SkipField(m, field).val = m.val
      /\ SkipField(m, field).unknown = Append(m.unknown, field)
  BY <1>2
<1>5. SkipField(m, field) = [val |-> SkipField(m, field).val,
                             unknown |-> SkipField(m, field).unknown]
  BY <1>2, <1>4
<1> QED
  BY <1>3, <1>4, <1>5 DEF IsMessage

-----------------------------------------------------------------------------
(* What one more field does to the meaning. *)

\* A field that matches is the last of its number so far.
LEMMA HitMeaning ==
  ASSUME NEW T, NEW f, NEW stream, NEW n \in Nat,
         Matches(T, f, stream[n + 1])
  PROVE  ValueIn(T, f, stream, n + 1)
           = ReadValue(Class[T][f], stream[n + 1].val)
<1> DEFINE hits == Hits(T, f, stream, n + 1)
<1>1. n + 1 \in hits /\ hits \subseteq 1 .. n + 1
  BY DEF Hits
<1>2. \A x \in hits : (\A y \in hits : x >= y) => x = n + 1
  BY <1>1
<1>3. \A y \in hits : n + 1 >= y
  BY <1>1
<1>4. Max(hits) = n + 1
  <2> HIDE DEF hits
  <2> QED
    BY <1>1, <1>2, <1>3 DEF Max
<1> QED
  BY <1>1, <1>4 DEF ValueIn

\* A field that does not match leaves the meaning as it was.
LEMMA MissMeaning ==
  ASSUME NEW T, NEW f, NEW stream, NEW n \in Nat,
         ~Matches(T, f, stream[n + 1])
  PROVE  ValueIn(T, f, stream, n + 1) = ValueIn(T, f, stream, n)
<1>1. Hits(T, f, stream, n + 1) = Hits(T, f, stream, n)
  <2>1. 1 .. n + 1 = (1 .. n) \cup {n + 1}
    OBVIOUS
  <2> QED
    BY <2>1 DEF Hits
<1> QED
  BY <1>1 DEF ValueIn

\* A nonempty set of positions has a last one.
LEMMA LastPosition ==
  ASSUME NEW n \in Nat, NEW S \in SUBSET (1 .. n), S # {}
  PROVE  Max(S) \in S
<1> DEFINE D == {n - x : x \in S}
<1>1. D \subseteq Nat /\ D # {}
  <2>1. \A x \in S : x \in Nat /\ x <= n
    OBVIOUS
  <2>2. \A x \in S : n - x \in Nat
    BY <2>1
  <2> QED
    BY <2>2
<1>2. PICK d \in D : \A e \in D : ~(<<e, d>> \in OpToRel(<, Nat))
  <2> HIDE DEF D
  <2> QED
    BY <1>1, NatLessThanWellFounded, WFMin
<1>3. \A e \in D : d <= e
  <2>1. \A e \in D : ~(e < d)
    <3> HIDE DEF D
    <3> QED
      BY <1>1, <1>2 DEF OpToRel
  <2> HIDE DEF D
  <2> QED
    BY <1>1, <2>1
<1>4. \E x \in S : \A y \in S : x >= y
  <2>1. PICK x \in S : d = n - x
    OBVIOUS
  <2>2. \A y \in S : d <= n - y
    BY <1>3
  <2> QED
    BY <2>1, <2>2
<1> QED
  BY <1>4 DEF Max

\* A field without a value of its own in the packet has the default; any other
\* value stands in the packet.
LEMMA ValueStands ==
  ASSUME NEW T, NEW f, NEW stream, NEW n \in Nat
  PROVE  \/ ValueIn(T, f, stream, n) = Default(Class[T][f])
         \/ \E i \in 1 .. n :
              /\ Matches(T, f, stream[i])
              /\ ValueIn(T, f, stream, n) = ReadValue(Class[T][f], stream[i].val)
<1>1. CASE Hits(T, f, stream, n) = {}
  BY <1>1 DEF ValueIn
<1>2. CASE Hits(T, f, stream, n) # {}
  <2>1. Hits(T, f, stream, n) \in SUBSET (1 .. n)
    BY DEF Hits
  <2>2. Max(Hits(T, f, stream, n)) \in Hits(T, f, stream, n)
    BY <1>2, <2>1, LastPosition
  <2> QED
    BY <1>2, <2>2 DEF ValueIn, Hits
<1> QED
  BY <1>1, <1>2

\* What a packet means for a field is a value of the field's type.
LEMMA MeaningType ==
  ASSUME NEW T \in Classes, NEW f \in Fields(T), NEW stream \in Seq(WireField)
  PROVE  ValueIn(T, f, stream, Len(stream)) \in ValuesOf[Class[T][f]]
<1>1. Len(stream) \in Nat /\ Class[T][f] \in Types
  BY FieldTypes
<1>2. ASSUME NEW i \in 1 .. Len(stream), Matches(T, f, stream[i])
      PROVE  ReadValue(Class[T][f], stream[i].val) \in ValuesOf[Class[T][f]]
  <2>1. stream[i] \in WireField
    OBVIOUS
  <2> QED
    BY <1>1, <1>2, <2>1, ReadType DEF Matches
<1> QED
  BY <1>1, <1>2, DefaultType, ValueStands

-----------------------------------------------------------------------------
(* What is written of a message. *)

\* The fields of a class have the numbers 1 to 6, no two of them the same one.
LEMMA FieldNumbers ==
  ASSUME NEW T \in Classes, NEW f \in Fields(T)
  PROVE  /\ Numbers[T][f] \in 1 .. 6
         /\ \A g \in Fields(T) : Numbers[T][g] = Numbers[T][f] => g = f
BY DEF Classes, Class, Fields, Numbers, QueryFriendReq, QueryFriendRes,
   OfflineMessageReq, OfflineMessageRes, OfflineMessageReadNotice,
   OfflineMessage, OfflineMessageDelReq, QueryFriendReqNumbers,
   QueryFriendResNumbers, OfflineMessageReqNumbers, OfflineMessageResNumbers,
   OfflineMessageReadNoticeNumbers, OfflineMessageNumbers,
   OfflineMessageDelReqNumbers

\* A value that is written as its type is and read again is the value.
LEMMA ReadWritten ==
  ASSUME NEW type \in Types, NEW x \in ValuesOf[type]
  PROVE  ReadValue(type, WriteValue(type, x)) = x
<1>1. CASE type = "int64"
  BY <1>1, CodecAssumption DEF ReadValue, WriteValue, ValuesOf
<1>2. CASE type = "uint32"
  BY <1>2, CodecAssumption DEF ReadValue, WriteValue, ValuesOf
<1>3. CASE type # "int64" /\ type # "uint32"
  BY <1>3 DEF ReadValue, WriteValue
<1> QED
  BY <1>1, <1>2, <1>3

\* The field that stands for a value in a packet.
LEMMA FieldOfFacts ==
  ASSUME NEW T \in Classes, NEW m, IsMessage(T, m), NEW f \in Fields(T)
  PROVE  /\ FieldOf(T, m, f).number = Numbers[T][f]
         /\ FieldOf(T, m, f).wire = WireType(Class[T][f])
         /\ FieldOf(T, m, f).val = WriteValue(Class[T][f], m.val[f])
         /\ FieldOf(T, m, f).size \in Nat
         /\ FieldOf(T, m, f).whole
<1>1. Class[T][f] \in Types /\ m.val[f] \in ValuesOf[Class[T][f]]
  BY FieldTypes DEF IsMessage
<1>2. CASE Class[T][f] = "bytes"
  <2>1. LengthOf[m.val[f]] \in Nat
    BY <1>1, <1>2, CodecAssumption DEF ValuesOf
  <2>2. VarintSize(LengthOf[m.val[f]]) \in Nat
    BY <2>1, VarintSizeRange
  <2>3. FieldOf(T, m, f)
          = [number |-> Numbers[T][f], wire |-> "length_delimited",
             val |-> m.val[f],
             size |-> VarintSize(LengthOf[m.val[f]]) + LengthOf[m.val[f]],
             whole |-> TRUE]
    BY <1>2 DEF FieldOf, BytesField
  <2> QED
    BY <1>2, <2>1, <2>2, <2>3 DEF WireType, WriteValue
<1>3. CASE Class[T][f] # "bytes"
  <2> DEFINE v == WriteValue(Class[T][f], m.val[f])
  <2>1. v \in Int
    BY <1>1, <1>3, CodecAssumption DEF WriteValue, ValuesOf, Types
  <2>2. VarintSize(v) \in Nat
    BY <2>1, VarintSizeRange
  <2>3. FieldOf(T, m, f)
          = [number |-> Numbers[T][f], wire |-> "varint", val |-> v,
             size |-> VarintSize(v), whole |-> TRUE]
    BY <1>3 DEF FieldOf, VarintField
  <2> QED
    BY <1>3, <2>2, <2>3 DEF WireType
<1> QED
  BY <1>2, <1>3

\* One of the ifs: nothing, or the field of its number.
LEMMA WrittenCases ==
  ASSUME NEW T, NEW m, NEW n
  PROVE  \/ /\ Numbered(T, m, n) = {}
            /\ Written(T, m, n) = <<>> /\ WrittenSize(T, m, n) = 0
         \/ \E f \in Numbered(T, m, n) :
              /\ Written(T, m, n) = <<FieldOf(T, m, f)>>
              /\ WrittenSize(T, m, n) = 1 + FieldOf(T, m, f).size
BY DEF Written, WrittenSize

\* The fields that may stand in a packet made of a message.
Written1To6(T, m) == {FieldOf(T, m, f) : f \in Fields(T)} \cup WireField

\* One of the ifs writes fields of the message.
LEMMA WrittenSeq ==
  ASSUME NEW T, NEW m, NEW n
  PROVE  Written(T, m, n) \in Seq(Written1To6(T, m))
<1>1. CASE Written(T, m, n) = <<>>
  BY <1>1
<1>2. ASSUME NEW f \in Numbered(T, m, n), Written(T, m, n) = <<FieldOf(T, m, f)>>
      PROVE  Written(T, m, n) \in Seq(Written1To6(T, m))
  <2>1. FieldOf(T, m, f) \in Written1To6(T, m)
    BY DEF Numbered, Present, Written1To6
  <2> QED
    BY <1>2, <2>1
<1> QED
  BY <1>1, <1>2, WrittenCases

-----------------------------------------------------------------------------
(* What is read of a concatenation. *)

\* What a whole packet says of a field.
ReadFrom(T, f, stream) == ValueIn(T, f, stream, Len(stream))

\* The fields that follow do not change what the ones before them say.
LEMMA PrefixMeaning ==
  ASSUME NEW T, NEW f, NEW S, NEW s \in Seq(S), NEW t \in Seq(S)
  PROVE  ValueIn(T, f, s \o t, Len(s)) = ReadFrom(T, f, s)
<1>1. \A i \in 1 .. Len(s) : (s \o t)[i] = s[i]
  OBVIOUS
<1>2. Hits(T, f, s \o t, Len(s)) = Hits(T, f, s, Len(s))
  BY <1>1 DEF Hits
<1>3. CASE Hits(T, f, s, Len(s)) = {}
  BY <1>2, <1>3 DEF ReadFrom, ValueIn
<1>4. CASE Hits(T, f, s, Len(s)) # {}
  <2>1. Hits(T, f, s, Len(s)) \in SUBSET (1 .. Len(s)) /\ Len(s) \in Nat
    BY DEF Hits
  <2>2. Max(Hits(T, f, s, Len(s))) \in 1 .. Len(s)
    BY <1>4, <2>1, LastPosition
  <2> QED
    BY <1>1, <1>2, <2>2 DEF ReadFrom, ValueIn
<1> QED
  BY <1>3, <1>4

\* One more field in a packet.
LEMMA OneMore ==
  ASSUME NEW T, NEW f, NEW S, NEW s \in Seq(S), NEW x \in S
  PROVE  ReadFrom(T, f, s \o <<x>>)
           = IF Matches(T, f, x) THEN ReadValue(Class[T][f], x.val)
             ELSE ReadFrom(T, f, s)
<1> DEFINE u == s \o <<x>>
<1>1. /\ Len(s) \in Nat /\ Len(u) = Len(s) + 1 /\ u[Len(s) + 1] = x
      /\ <<x>> \in Seq(S)
  OBVIOUS
<1>2. ValueIn(T, f, u, Len(s)) = ReadFrom(T, f, s)
  BY <1>1, PrefixMeaning
<1> SUFFICES ReadFrom(T, f, u) = IF Matches(T, f, x)
               THEN ReadValue(Class[T][f], x.val) ELSE ReadFrom(T, f, s)
  OBVIOUS
<1> HIDE DEF u
<1>3. CASE Matches(T, f, x)
  <2>1. ValueIn(T, f, u, Len(s) + 1) = ReadValue(Class[T][f], u[Len(s) + 1].val)
    BY <1>1, <1>3, HitMeaning
  <2> QED
    BY <1>1, <1>3, <2>1 DEF ReadFrom
<1>4. CASE ~Matches(T, f, x)
  <2>1. ValueIn(T, f, u, Len(s) + 1) = ValueIn(T, f, u, Len(s))
    BY <1>1, <1>4, MissMeaning
  <2> QED
    BY <1>1, <1>2, <1>4, <2>1 DEF ReadFrom
<1> QED
  BY <1>3, <1>4

\* A packet followed by fields that are not the field.
LEMMA OthersFollow ==
  ASSUME NEW T, NEW f, NEW S, NEW s \in Seq(S), NEW t \in Seq(S),
         \A i \in 1 .. Len(t) : ~Matches(T, f, t[i])
  PROVE  ReadFrom(T, f, s \o t) = ReadFrom(T, f, s)
<1> DEFINE u == s \o t
<1>1. /\ Len(s) \in Nat /\ Len(u) = Len(s) + Len(t) /\ Len(t) \in Nat
      /\ \A i \in 1 .. Len(s) : u[i] = s[i]
      /\ \A i \in Len(s) + 1 .. Len(u) :
           i - Len(s) \in 1 .. Len(t) /\ u[i] = t[i - Len(s)]
  OBVIOUS
<1>2. ValueIn(T, f, u, Len(s)) = ReadFrom(T, f, s)
  BY PrefixMeaning
<1> HIDE DEF u
<1>3. Hits(T, f, u, Len(u)) = Hits(T, f, u, Len(s))
  <2>1. 1 .. Len(u) = (1 .. Len(s)) \cup (Len(s) + 1 .. Len(u))
    BY <1>1
  <2>2. \A i \in Len(s) + 1 .. Len(u) : ~Matches(T, f, u[i])
    BY <1>1
  <2> QED
    BY <2>1, <2>2 DEF Hits
<1>4. ValueIn(T, f, u, Len(u)) = ValueIn(T, f, u, Len(s))
  BY <1>3 DEF ValueIn
<1> QED
  BY <1>2, <1>4 DEF ReadFrom, u

\* One of the ifs writes a field for reader R's field g: the one that holds the
\* writer's field f, if it is not the default.
LEMMA ReadOn ==
  ASSUME NEW T \in Classes, NEW m, IsMessage(T, m), NEW f \in Fields(T),
         NEW R, NEW g,
         Numbers[R][g] = Numbers[T][f], Class[R][g] = Class[T][f],
         NEW n \in 1 .. 6, NEW s \in Seq(Written1To6(T, m)),
         ReadFrom(R, g, s) = IF Numbers[T][f] < n THEN m.val[f]
                            ELSE Default(Class[T][f])
  PROVE  ReadFrom(R, g, s \o Written(T, m, n))
           = IF Numbers[T][f] < n + 1 THEN m.val[f] ELSE Default(Class[T][f])
<1>0. Numbers[T][f] \in Nat /\ n \in Nat
  BY FieldNumbers
<1>1. CASE Numbered(T, m, n) = {} /\ Written(T, m, n) = <<>>
  <2>1. s \o Written(T, m, n) = s
    BY <1>1
  <2>2. n = Numbers[T][f] => m.val[f] = Default(Class[T][f])
    BY <1>1 DEF Numbered, Present
  <2> QED
    BY <1>0, <2>1, <2>2
<1>2. ASSUME NEW h \in Numbered(T, m, n), Written(T, m, n) = <<FieldOf(T, m, h)>>
      PROVE  ReadFrom(R, g, s \o Written(T, m, n))
               = IF Numbers[T][f] < n + 1 THEN m.val[f]
                 ELSE Default(Class[T][f])
  <2> DEFINE x == FieldOf(T, m, h)
  <2>1. h \in Fields(T) /\ Numbers[T][h] = n
    BY DEF Numbered, Present
  <2>2. x \in Written1To6(T, m)
    BY <2>1 DEF Written1To6
  <2>3. ReadFrom(R, g, s \o <<x>>)
          = IF Matches(R, g, x) THEN ReadValue(Class[R][g], x.val)
            ELSE ReadFrom(R, g, s)
    BY <2>2, OneMore
  <2>4. /\ x.number = n /\ x.wire = WireType(Class[T][h])
        /\ x.val = WriteValue(Class[T][h], m.val[h])
    BY <2>1, FieldOfFacts
  <2>5. CASE n = Numbers[T][f]
    <3>1. h = f
      BY <2>1, <2>5, FieldNumbers
    <3>2. Class[T][f] \in Types /\ m.val[f] \in ValuesOf[Class[T][f]]
      BY FieldTypes DEF IsMessage
    <3>3. Matches(R, g, x) /\ ReadValue(Class[R][g], x.val) = m.val[f]
      BY <2>4, <2>5, <3>1, <3>2, ReadWritten DEF Matches
    <3> HIDE DEF x
    <3> QED
      BY <1>0, <1>2, <2>3, <2>5, <3>3 DEF x
  <2>6. CASE n # Numbers[T][f]
    <3>1. ~Matches(R, g, x)
      BY <2>4, <2>6 DEF Matches
    <3> HIDE DEF x
    <3> QED
      BY <1>0, <1>2, <2>3, <2>6, <3>1 DEF x
  <2> QED
    BY <2>5, <2>6
<1> QED
  BY <1>1, <1>2, WrittenCases

\* What is read where a field of the message was written is its value, whatever
\* the fields are called and wherever the default was left out.
LEMMA ReadBack ==
  ASSUME NEW T \in Classes, NEW m, IsMessage(T, m), NEW f \in Fields(T),
         NEW R, NEW g,
         Numbers[R][g] = Numbers[T][f], Class[R][g] = Class[T][f],
         \A i \in 1 .. Len(m.unknown) : ~Matches(R, g, m.unknown[i])
  PROVE  ReadFrom(R, g, Serialized(T, m)) = m.val[f]
<1> DEFINE S == Written1To6(T, m)
           W(n) == Written(T, m, n)
           s1 == W(1)
           s2 == s1 \o W(2)
           s3 == s2 \o W(3)
           s4 == s3 \o W(4)
           s5 == s4 \o W(5)
           s6 == s5 \o W(6)
           Read(s, n) ==
             ReadFrom(R, g, s) = IF Numbers[T][f] < n THEN m.val[f]
                                ELSE Default(Class[T][f])
<1>1. \A n : W(n) \in Seq(S)
  BY WrittenSeq
<1>2. /\ <<>> \in Seq(S) /\ s1 \in Seq(S) /\ s2 \in Seq(S) /\ s3 \in Seq(S)
      /\ s4 \in Seq(S) /\ s5 \in Seq(S) /\ s6 \in Seq(S)
  <2> HIDE DEF S, W
  <2> QED
    BY <1>1
<1>3. Read(<<>>, 1)
  <2>1. Hits(R, g, <<>>, Len(<<>>)) = {}
    BY DEF Hits
  <2>2. ReadFrom(R, g, <<>>) = Default(Class[T][f])
    BY <2>1 DEF ReadFrom, ValueIn
  <2>3. ~(Numbers[T][f] < 1)
    BY FieldNumbers
  <2> QED
    BY <2>2, <2>3
<1>4. \A n \in 1 .. 6 : \A s \in Seq(S) : Read(s, n) => Read(s \o W(n), n + 1)
  BY ReadOn
<1>5. s1 = <<>> \o W(1)
  <2> HIDE DEF S, W
  <2> QED
    BY <1>1
<1>6. Read(s6, 7)
  <2> HIDE DEF S, W, Read, s1
  <2>1. Read(s1, 2)
    <3> DEFINE s0 == <<>>
    <3>1. s0 \in Seq(S) /\ Read(s0, 1) /\ s1 = s0 \o W(1)
      BY <1>2, <1>3, <1>5
    <3> HIDE DEF s0
    <3> QED
      BY <1>4, <3>1
  <2>2. Read(s2, 3)
    BY <1>2, <1>4, <2>1
  <2> HIDE DEF s2
  <2>3. Read(s3, 4)
    BY <1>2, <1>4, <2>2
  <2> HIDE DEF s3
  <2>4. Read(s4, 5)
    BY <1>2, <1>4, <2>3
  <2> HIDE DEF s4
  <2>5. Read(s5, 6)
    BY <1>2, <1>4, <2>4
  <2> HIDE DEF s5
  <2> QED
    BY <1>2, <1>4, <2>5
<1>7. ReadFrom(R, g, s6) = m.val[f]
  <2>1. Numbers[T][f] < 7
    BY FieldNumbers
  <2> HIDE DEF s6
  <2> QED
    BY <1>6, <2>1
<1>8. Serialized(T, m) = s6 \o m.unknown
  BY DEF Serialized
<1>9. m.unknown \in Seq(S)
  <2>1. m.unknown \in Seq(WireField) /\ WireField \subseteq S
    BY DEF IsMessage, Written1To6
  <2> HIDE DEF S
  <2> QED
    BY <2>1
<1> HIDE DEF s6, S
<1>10. ReadFrom(R, g, s6 \o m.unknown) = ReadFrom(R, g, s6)
  BY <1>2, <1>9, OthersFollow
<1> QED
  BY <1>7, <1>8, <1>10

\* The class that reads is the one that writes: every field comes back, if the
\* bytes kept as unknown are unknown to the class.
THEOREM Roundtrip ==
  ASSUME NEW T \in Classes, NEW m, IsMessage(T, m),
         \A i \in 1 .. Len(m.unknown) : ~Known(T, m.unknown[i])
  PROVE  Parsed(T, Serialized(T, m)).val = m.val
<1>1. \A f \in Fields(T) : ReadFrom(T, f, Serialized(T, m)) = m.val[f]
  BY ReadBack DEF Known
<1>2. m.val = [f \in Fields(T) |-> m.val[f]]
  BY DEF IsMessage
<1> QED
  BY <1>1, <1>2 DEF Parsed, ReadFrom

-----------------------------------------------------------------------------
(* How long a packet is. *)

\* Fields whose sizes are known.
Measured(S) == \A x \in S : x.number \in Nat /\ x.size \in Nat

\* The bytes of one field, with its tag.
Bytes(x) == VarintSize(8 * x.number) + x.size

LEMMA BytesType ==
  ASSUME NEW S, Measured(S), NEW x \in S
  PROVE  Bytes(x) \in Nat
<1>1. x.number \in Nat /\ x.size \in Nat
  BY DEF Measured
<1>2. VarintSize(8 * x.number) \in Nat
  BY <1>1, VarintSizeRange
<1> QED
  BY <1>1, <1>2 DEF Bytes

\* A stream is as long as its fields together.
LEMMA StreamBytes ==
  \A stream : StreamSize(stream)
                = Total([i \in 1 .. Len(stream) |-> Bytes(stream[i])])
BY DEF StreamSize, Bytes

\* A sequence of the elements of two others in turn is their concatenation.
LEMMA IsConcat ==
  ASSUME NEW S, NEW x \in Seq(S), NEW y \in Seq(S), NEW z \in Seq(S),
         Len(z) = Len(x) + Len(y),
         \A i \in 1 .. Len(x) : z[i] = x[i],
         \A i \in 1 .. Len(y) : z[Len(x) + i] = y[i]
  PROVE  z = x \o y
<1>1. /\ x \o y \in Seq(S) /\ Len(x \o y) = Len(x) + Len(y)
      /\ \A i \in 1 .. Len(x) + Len(y) :
           (x \o y)[i] = IF i <= Len(x) THEN x[i] ELSE y[i - Len(x)]
  BY ConcatProperties
<1>2. Len(x) \in Nat /\ Len(y) \in Nat
  OBVIOUS
<1>3. \A i \in 1 .. Len(z) : z[i] = (x \o y)[i]
  <2> SUFFICES ASSUME NEW i \in 1 .. Len(z) PROVE z[i] = (x \o y)[i]
    OBVIOUS
  <2>1. CASE i <= Len(x)
    BY <1>1, <1>2, <2>1
  <2>2. CASE ~(i <= Len(x))
    <3>1. i - Len(x) \in 1 .. Len(y) /\ Len(x) + (i - Len(x)) = i
      BY <1>2, <2>2
    <3>2. z[Len(x) + (i - Len(x))] = y[i - Len(x)]
      BY <3>1
    <3> QED
      BY <1>1, <1>2, <2>2, <3>1, <3>2
  <2> QED
    BY <2>1, <2>2
<1> QED
  BY <1>1, <1>3, SeqEqual

\* The bytes of a stream, and of two streams one after the other.
LEMMA StreamConcat ==
  ASSUME NEW S, Measured(S), NEW s \in Seq(S), NEW t \in Seq(S)
  PROVE  /\ StreamSize(s) \in Nat
         /\ StreamSize(s \o t) = StreamSize(s) + StreamSize(t)
<1> DEFINE B(u) == [i \in 1 .. Len(u) |-> Bytes(u[i])]
<1>1. ASSUME NEW u \in Seq(S) PROVE B(u) \in Seq(Nat)
  <2>1. \A i \in 1 .. Len(u) : Bytes(u[i]) \in Nat
    BY BytesType
  <2> QED
    BY <2>1
<1>2. B(s \o t) = B(s) \o B(t)
  <2>1. /\ Len(s) \in Nat /\ Len(t) \in Nat /\ s \o t \in Seq(S)
        /\ Len(s \o t) = Len(s) + Len(t)
        /\ \A i \in 1 .. Len(s) : (s \o t)[i] = s[i]
        /\ \A i \in 1 .. Len(t) : (s \o t)[Len(s) + i] = t[i]
    OBVIOUS
  <2>2. PICK u : u = s \o t
    OBVIOUS
  <2>3. PICK x, y, z : x = B(s) /\ y = B(t) /\ z = B(u)
    OBVIOUS
  <2>4. x \in Seq(Nat) /\ y \in Seq(Nat) /\ z \in Seq(Nat)
    BY <1>1, <2>1, <2>2, <2>3
  <2>5. Len(x) = Len(s) /\ Len(y) = Len(t) /\ Len(z) = Len(s) + Len(t)
    BY <2>1, <2>2, <2>3
  <2>6. \A i \in 1 .. Len(s) : z[i] = x[i]
    BY <2>1, <2>2, <2>3
  <2>7. \A i \in 1 .. Len(t) : z[Len(s) + i] = y[i]
    <3>1. \A i \in 1 .. Len(t) : Len(s) + i \in 1 .. Len(s) + Len(t)
      BY <2>1
    <3>2. \A i \in 1 .. Len(s) + Len(t) : z[i] = Bytes(u[i])
      BY <2>1, <2>2, <2>3
    <3>3. \A i \in 1 .. Len(t) : y[i] = Bytes(t[i])
      BY <2>3
    <3> QED
      BY <2>1, <2>2, <3>1, <3>2, <3>3
  <2>8. z = x \o y
    <3>1. /\ Len(z) = Len(x) + Len(y)
          /\ \A i \in 1 .. Len(x) : z[i] = x[i]
          /\ \A i \in 1 .. Len(y) : z[Len(x) + i] = y[i]
      BY <2>5, <2>6, <2>7
    <3> QED
      BY <2>4, <3>1, IsConcat
  <2> QED
    BY <2>2, <2>3, <2>8
<1>3. Total(B(s)) \in Nat
  BY <1>1, TotalType
<1>4. Total(B(s) \o B(t)) = Total(B(s)) + Total(B(t))
  BY <1>1, TotalConcat
<1>5. \A u : StreamSize(u) = Total(B(u))
  BY StreamBytes
<1> HIDE DEF B
<1> QED
  BY <1>2, <1>3, <1>4, <1>5

\* The bytes of nothing, and of one field.
LEMMA StreamShort ==
  ASSUME NEW S, Measured(S), NEW x \in S
  PROVE  StreamSize(<<>>) = 0 /\ StreamSize(<<x>>) = Bytes(x)
<1>1. StreamSize(<<>>) = Total(<<>>)
  <2>1. [i \in 1 .. Len(<<>>) |-> Bytes(<<>>[i])] = <<>>
    OBVIOUS
  <2> QED
    BY <2>1, StreamBytes
<1>2. StreamSize(<<x>>) = Total(<<Bytes(x)>>)
  <2>1. [i \in 1 .. Len(<<x>>) |-> Bytes(<<x>>[i])] = <<Bytes(x)>>
    OBVIOUS
  <2> QED
    BY <2>1, StreamBytes
<1> QED
  BY <1>1, <1>2, TotalShort, BytesType

\* The fields made of a message have sizes.
LEMMA WrittenMeasured ==
  ASSUME NEW T \in Classes, NEW m, IsMessage(T, m)
  PROVE  Measured(Written1To6(T, m))
<1>1. \A f \in Fields(T) : /\ FieldOf(T, m, f).number \in Nat
                           /\ FieldOf(T, m, f).size \in Nat
  BY FieldOfFacts, FieldNumbers
<1>2. \A x \in WireField : x.number \in Nat /\ x.size \in Nat
  BY DEF WireField
<1> QED
  BY <1>1, <1>2 DEF Measured, Written1To6

\* One of the ifs writes as much as it was counted for: a tag of one byte and
\* the field.
LEMMA WrittenIsCounted ==
  ASSUME NEW T \in Classes, NEW m, IsMessage(T, m), NEW n \in 1 .. 6
  PROVE  /\ StreamSize(Written(T, m, n)) = WrittenSize(T, m, n)
         /\ WrittenSize(T, m, n) \in Nat
<1> DEFINE S == Written1To6(T, m)
<1>0. Measured(S)
  BY WrittenMeasured
<1>1. CASE Written(T, m, n) = <<>> /\ WrittenSize(T, m, n) = 0
  <2>1. StreamSize(<<>>) = Total(<<>>)
    <3>1. [i \in 1 .. Len(<<>>) |-> Bytes(<<>>[i])] = <<>>
      OBVIOUS
    <3> QED
      BY <3>1, StreamBytes
  <2> QED
    BY <1>1, <2>1, TotalShort
<1>2. ASSUME NEW f \in Numbered(T, m, n),
             Written(T, m, n) = <<FieldOf(T, m, f)>>,
             WrittenSize(T, m, n) = 1 + FieldOf(T, m, f).size
      PROVE  /\ StreamSize(Written(T, m, n)) = WrittenSize(T, m, n)
             /\ WrittenSize(T, m, n) \in Nat
  <2> DEFINE x == FieldOf(T, m, f)
  <2>1. f \in Fields(T) /\ Numbers[T][f] = n
    BY DEF Numbered, Present
  <2>2. x \in S
    BY <2>1 DEF Written1To6
  <2>3. x.number = n /\ x.size \in Nat
    BY <2>1, FieldOfFacts
  <2>4. VarintSize(8 * n) = 1
    BY VarintSizeRange
  <2>5. StreamSize(<<x>>) = Bytes(x)
    BY <1>0, <2>2, StreamShort
  <2>6. Bytes(x) = 1 + x.size
    BY <2>3, <2>4 DEF Bytes
  <2> HIDE DEF x
  <2> QED
    BY <1>2, <2>3, <2>5, <2>6 DEF x
<1> QED
  BY <1>1, <1>2, WrittenCases

\* ByteSizeLong says how many bytes SerializeWithCachedSizes writes.
THEOREM SizeIsExact ==
  ASSUME NEW T \in Classes, NEW m, IsMessage(T, m)
  PROVE  /\ StreamSize(Serialized(T, m)) = ByteSizeLong(T, m)
         /\ ByteSizeLong(T, m) \in Nat
<1> DEFINE S == Written1To6(T, m)
           W(n) == Written(T, m, n)
           Z(n) == WrittenSize(T, m, n)
<1>1. Measured(S)
  BY WrittenMeasured
<1>2. \A n \in 1 .. 6 :
        W(n) \in Seq(S) /\ StreamSize(W(n)) = Z(n) /\ Z(n) \in Nat
  BY WrittenSeq, WrittenIsCounted
<1>3. m.unknown \in Seq(S)
  <2>1. m.unknown \in Seq(WireField) /\ WireField \subseteq S
    BY DEF IsMessage, Written1To6
  <2> HIDE DEF S
  <2> QED
    BY <2>1
<1>4. ASSUME NEW s \in Seq(S), NEW t \in Seq(S)
      PROVE  /\ StreamSize(s) \in Nat
             /\ StreamSize(s \o t) = StreamSize(s) + StreamSize(t)
             /\ s \o t \in Seq(S)
  <2>1. s \o t \in Seq(S)
    <3> HIDE DEF S
    <3> QED
      OBVIOUS
  <2> QED
    BY <1>1, <2>1, StreamConcat
<1> HIDE DEF S, W
<1> DEFINE s2 == W(1) \o W(2)
           s3 == s2 \o W(3)
           s4 == s3 \o W(4)
           s5 == s4 \o W(5)
           s6 == s5 \o W(6)
           s7 == s6 \o m.unknown
<1>5. s2 \in Seq(S) /\ StreamSize(s2) = StreamSize(W(1)) + StreamSize(W(2))
  BY <1>2, <1>4
<1> HIDE DEF s2
<1>6. s3 \in Seq(S) /\ StreamSize(s3) = StreamSize(s2) + StreamSize(W(3))
  BY <1>2, <1>4, <1>5
<1> HIDE DEF s3
<1>7. s4 \in Seq(S) /\ StreamSize(s4) = StreamSize(s3) + StreamSize(W(4))
  BY <1>2, <1>4, <1>6
<1> HIDE DEF s4
<1>8. s5 \in Seq(S) /\ StreamSize(s5) = StreamSize(s4) + StreamSize(W(5))
  BY <1>2, <1>4, <1>7
<1> HIDE DEF s5
<1>9. s6 \in Seq(S) /\ StreamSize(s6) = StreamSize(s5) + StreamSize(W(6))
  BY <1>2, <1>4, <1>8
<1> HIDE DEF s6
<1>10. /\ StreamSize(m.unknown) \in Nat
       /\ StreamSize(s7) = StreamSize(s6) + StreamSize(m.unknown)
  BY <1>3, <1>4, <1>9
<1>11. Serialized(T, m) = s7
  BY DEF Serialized, s2, s3, s4, s5, s6, W
<1> HIDE DEF s7
<1>12. ByteSizeLong(T, m)
         = Z(1) + Z(2) + Z(3) + Z(4) + Z(5) + Z(6) + StreamSize(m.unknown)
  BY DEF ByteSizeLong
<1>13. /\ Z(1) \in Nat /\ Z(2) \in Nat /\ Z(3) \in Nat /\ Z(4) \in Nat
       /\ Z(5) \in Nat /\ Z(6) \in Nat
       /\ StreamSize(W(1)) = Z(1) /\ StreamSize(W(2)) = Z(2)
       /\ StreamSize(W(3)) = Z(3) /\ StreamSize(W(4)) = Z(4)
       /\ StreamSize(W(5)) = Z(5) /\ StreamSize(W(6)) = Z(6)
  BY <1>2
<1> HIDE DEF Z
<1>14. StreamSize(s7)
         = Z(1) + Z(2) + Z(3) + Z(4) + Z(5) + Z(6) + StreamSize(m.unknown)
  BY <1>5, <1>6, <1>7, <1>8, <1>9, <1>10, <1>13
<1> QED
  BY <1>10, <1>11, <1>12, <1>13, <1>14

-----------------------------------------------------------------------------
(* Pages. *)

\* A page of messages, and a left_count of 32 bits.
IsPage(res) ==
  /\ Len(res.msg) \in Nat
  /\ \A i \in 1 .. Len(res.msg) : IsMessage("OfflineMessage", res.msg[i])
  /\ res.left_count \in 0 .. Word32 - 1

\* The fields of a page are its messages, and the count if it is not 0.
LEMMA PageFields ==
  ASSUME NEW res, IsPage(res)
  PROVE  LET N == Len(res.msg)
             ser == PullResSerialized(res)
         IN /\ N \in Nat
            /\ \A i \in 1 .. N : ser[i] = MsgField(res.msg[i])
            /\ res.left_count = 0 => Len(ser) = N
            /\ res.left_count # 0 =>
                 /\ Len(ser) = N + 1
                 /\ ser[N + 1] = VarintField(2, res.left_count)
<1> DEFINE N == Len(res.msg)
           ser == PullResSerialized(res)
           F == [i \in 1 .. N |-> MsgField(res.msg[i])]
           S == {MsgField(res.msg[i]) : i \in 1 .. N}
                  \cup {VarintField(2, res.left_count)}
           L == IF res.left_count = 0 THEN <<>>
                ELSE <<VarintField(2, res.left_count)>>
<1>1. N \in Nat
  BY DEF IsPage
<1>2. F \in Seq(S) /\ Len(F) = N
  <2>1. \A i \in 1 .. N : MsgField(res.msg[i]) \in S
    OBVIOUS
  <2> HIDE DEF S, N
  <2> QED
    BY <1>1, <2>1
<1>3. ser = F \o L
  BY DEF PullResSerialized, PullResNumbers
<1>4. \A i \in 1 .. N : F[i] = MsgField(res.msg[i])
  OBVIOUS
<1> SUFFICES /\ \A i \in 1 .. N : ser[i] = MsgField(res.msg[i])
             /\ res.left_count = 0 => Len(ser) = N
             /\ res.left_count # 0 =>
                  /\ Len(ser) = N + 1
                  /\ ser[N + 1] = VarintField(2, res.left_count)
  BY <1>1
<1>5. CASE res.left_count = 0
  <2>1. L = <<>>
    BY <1>5
  <2>2. F \o <<>> = F
    <3> HIDE DEF F, S
    <3> QED
      BY <1>2
  <2>3. ser = F
    BY <1>3, <2>1, <2>2
  <2> HIDE DEF F, ser, N
  <2> QED
    BY <1>2, <1>4, <1>5, <2>3
<1>6. CASE res.left_count # 0
  <2>1. PICK x : x = VarintField(2, res.left_count)
    OBVIOUS
  <2>2. L = <<x>> /\ x \in S
    BY <1>6, <2>1
  <2>3. /\ Len(F \o <<x>>) = N + 1 /\ (F \o <<x>>)[N + 1] = x
        /\ \A i \in 1 .. N : (F \o <<x>>)[i] = F[i]
    <3> HIDE DEF F, S, N
    <3> QED
      BY <1>1, <1>2, <2>2
  <2>4. ser = F \o <<x>>
    BY <1>3, <2>2
  <2> HIDE DEF F, ser, N
  <2> QED
    BY <1>4, <1>6, <2>1, <2>3, <2>4
<1> QED
  BY <1>5, <1>6

\* A page comes back as it was sent: its messages in their order, field by
\* field, and the count.
THEOREM PageRoundtrip ==
  ASSUME NEW res, IsPage(res),
         \A i \in 1 .. Len(res.msg) : res.msg[i].unknown = <<>>
  PROVE  LET got == PullResParsed(PullResSerialized(res))
         IN /\ Len(got.msg) = Len(res.msg)
            /\ \A i \in 1 .. Len(res.msg) : got.msg[i].val = res.msg[i].val
            /\ got.left_count = res.left_count
<1> DEFINE N == Len(res.msg)
           ser == PullResSerialized(res)
           msgs == {i \in 1 .. Len(ser) : IsMsg(ser[i])}
           lefts == {i \in 1 .. Len(ser) : IsLeftCount(ser[i])}
           nth(n) == CHOOSE i \in msgs : Cardinality({j \in msgs : j <= i}) = n
           got == PullResParsed(ser)
<1>1. /\ N \in Nat
      /\ \A i \in 1 .. N : ser[i] = MsgField(res.msg[i])
      /\ res.left_count = 0 => Len(ser) = N
      /\ res.left_count # 0 =>
           Len(ser) = N + 1 /\ ser[N + 1] = VarintField(2, res.left_count)
  BY PageFields
<1>2. \A m : /\ IsMsg(MsgField(m)) /\ ~IsLeftCount(MsgField(m))
             /\ MsgField(m).val = Serialized("OfflineMessage", m)
  BY DEF IsMsg, IsLeftCount, MsgField, BytesField, PullResNumbers
<1>3. \A v : /\ ~IsMsg(VarintField(2, v)) /\ IsLeftCount(VarintField(2, v))
             /\ VarintField(2, v).val = v
  BY DEF IsMsg, IsLeftCount, VarintField, PullResNumbers
<1>4. got = [msg |-> [n \in 1 .. Cardinality(msgs) |->
                        Parsed("OfflineMessage", ser[nth(n)].val)],
             left_count |-> IF lefts = {} THEN 0
                            ELSE ReadValue("uint32", ser[Max(lefts)].val)]
  BY DEF PullResParsed
<1>5. msgs = 1 .. N /\ lefts = IF res.left_count = 0 THEN {} ELSE {N + 1}
  <2> HIDE DEF N, ser
  <2>1. CASE res.left_count = 0
    BY <1>1, <1>2, <2>1
  <2>2. CASE res.left_count # 0
    <3>1. 1 .. N + 1 = (1 .. N) \cup {N + 1}
      BY <1>1
    <3> QED
      BY <1>1, <1>2, <1>3, <2>2, <3>1
  <2> QED
    BY <2>1, <2>2
<1>6. Cardinality(msgs) = N
  <2>1. Cardinality(1 .. N) = N
    <3> HIDE DEF N
    <3> QED
      BY <1>1, FS_Interval
  <2> QED
    BY <1>5, <2>1
<1>7. \A n \in 1 .. N : nth(n) = n
  <2>1. \A i \in 1 .. N : {j \in 1 .. N : j <= i} = 1 .. i
    BY <1>1
  <2>2. \A i \in 1 .. N : Cardinality(1 .. i) = i
    BY <1>1, FS_Interval
  <2>3. \A i \in msgs : Cardinality({j \in msgs : j <= i}) = i
    BY <1>5, <2>1, <2>2
  <2> HIDE DEF msgs
  <2> QED
    BY <1>5, <2>3
<1>8. got.left_count = res.left_count
  <2>1. CASE res.left_count = 0
    BY <1>4, <1>5, <2>1
  <2>2. CASE res.left_count # 0
    <3>1. Max(lefts) = N + 1
      <4>1. lefts = {N + 1} /\ N + 1 \in Nat
        BY <1>1, <1>5, <2>2
      <4> HIDE DEF lefts, N
      <4> QED
        BY <4>1 DEF Max
    <3>2. ReadValue("uint32", res.left_count) = res.left_count
      <4>1. "uint32" \in Types /\ res.left_count \in ValuesOf["uint32"]
        BY DEF IsPage, Types, ValuesOf
      <4>2. WriteValue("uint32", res.left_count) = res.left_count
        BY DEF WriteValue
      <4> QED
        BY <4>1, <4>2, ReadWritten
    <3> HIDE DEF got, lefts, nth, ser, N
    <3> QED
      BY <1>1, <1>3, <1>4, <1>5, <2>2, <3>1, <3>2
  <2> QED
    BY <2>1, <2>2
<1>9. Len(got.msg) = N
  <2> HIDE DEF N, msgs, lefts, nth, ser
  <2>1. got.msg = [n \in 1 .. N |-> Parsed("OfflineMessage", ser[nth(n)].val)]
    BY <1>4, <1>6
  <2> QED
    BY <1>1, <2>1
<1>10. \A i \in 1 .. N : got.msg[i].val = res.msg[i].val
  <2> SUFFICES ASSUME NEW i \in 1 .. N PROVE got.msg[i].val = res.msg[i].val
    OBVIOUS
  <2>1. got.msg[i] = Parsed("OfflineMessage", ser[nth(i)].val)
    <3> HIDE DEF N, msgs, lefts, nth, ser
    <3> QED
      BY <1>4, <1>6
  <2>2. ser[nth(i)].val = Serialized("OfflineMessage", res.msg[i])
    <3> HIDE DEF N, nth, ser
    <3> QED
      BY <1>1, <1>2, <1>7
  <2>3. IsMessage("OfflineMessage", res.msg[i])
    BY DEF IsPage
  <2>4. \A j \in 1 .. Len(res.msg[i].unknown) :
          ~Known("OfflineMessage", res.msg[i].unknown[j])
    BY <1>1
  <2>5. "OfflineMessage" \in Classes
    BY DEF Classes, Class
  <2> QED
    BY <2>1, <2>2, <2>3, <2>4, <2>5, Roundtrip
<1> HIDE DEF got, N
<1> QED
  BY <1>8, <1>9, <1>10 DEF got, N

\* OfflineMessagePullRes::ByteSizeLong says how many bytes a page takes.
THEOREM PageSizeIsExact ==
  ASSUME NEW res, IsPage(res)
  PROVE  StreamSize(PullResSerialized(res)) = PullResByteSizeLong(res)
<1> DEFINE N == Len(res.msg)
           ser == PullResSerialized(res)
           S == {MsgField(res.msg[i]) : i \in 1 .. N}
                  \cup {VarintField(2, res.left_count)}
           F == [i \in 1 .. N |-> MsgField(res.msg[i])]
           L == IF res.left_count = 0 THEN <<>>
                ELSE <<VarintField(2, res.left_count)>>
<1>1. N \in Nat /\ ser = F \o L
  BY DEF IsPage, PullResSerialized, PullResNumbers
<1>2. \A i \in 1 .. N :
        /\ MsgField(res.msg[i]).number = 1
        /\ MsgField(res.msg[i]).size \in Nat
        /\ Bytes(MsgField(res.msg[i])) = MsgSize(res.msg[i])
  <2> SUFFICES ASSUME NEW i \in 1 .. N
               PROVE  /\ MsgField(res.msg[i]).number = 1
                      /\ MsgField(res.msg[i]).size \in Nat
                      /\ Bytes(MsgField(res.msg[i])) = MsgSize(res.msg[i])
    OBVIOUS
  <2>1. PICK m : m = res.msg[i]
    OBVIOUS
  <2>2. IsMessage("OfflineMessage", m) /\ "OfflineMessage" \in Classes
    BY <2>1 DEF IsPage, Classes, Class
  <2>3. PICK n \in Nat : /\ n = ByteSizeLong("OfflineMessage", m)
                         /\ n = StreamSize(Serialized("OfflineMessage", m))
    BY <2>2, SizeIsExact
  <2>4. VarintSize(n) \in Nat /\ VarintSize(8 * 1) = 1
    BY VarintSizeRange
  <2>5. MsgField(m).number = 1 /\ MsgField(m).size = VarintSize(n) + n
    BY <2>3 DEF MsgField, BytesField, PullResNumbers
  <2>6. MsgSize(m) = 1 + VarintSize(n) + n
    BY <2>3 DEF MsgSize
  <2> QED
    BY <2>1, <2>4, <2>5, <2>6 DEF Bytes
<1>3. /\ VarintField(2, res.left_count).number = 2
      /\ VarintField(2, res.left_count).size = VarintSize(res.left_count)
      /\ VarintSize(res.left_count) \in Nat
  <2>1. res.left_count \in Int
    BY CodecAssumption DEF IsPage
  <2> QED
    BY <2>1, VarintSizeRange DEF VarintField
<1>4. Measured(S)
  BY <1>2, <1>3 DEF Measured
<1>5. F \in Seq(S) /\ L \in Seq(S)
  <2>1. /\ \A i \in 1 .. N : MsgField(res.msg[i]) \in S
        /\ VarintField(2, res.left_count) \in S
    OBVIOUS
  <2> HIDE DEF S, N
  <2> QED
    BY <1>1, <2>1
<1>6. StreamSize(ser) = StreamSize(F) + StreamSize(L)
  BY <1>1, <1>4, <1>5, StreamConcat
<1>7. StreamSize(F) = Total([i \in 1 .. N |-> MsgSize(res.msg[i])])
  <2>1. Len(F) = N /\ \A i \in 1 .. N : F[i] = MsgField(res.msg[i])
    BY <1>1
  <2>2. StreamSize(F) = Total([i \in 1 .. Len(F) |-> Bytes(F[i])])
    BY StreamBytes
  <2>3. [i \in 1 .. Len(F) |-> Bytes(F[i])]
          = [i \in 1 .. N |-> MsgSize(res.msg[i])]
    <3> HIDE DEF F, N
    <3> QED
      BY <1>2, <2>1
  <2> QED
    BY <2>2, <2>3
<1>8. StreamSize(L) = IF res.left_count = 0 THEN 0
                      ELSE 1 + VarintSize(res.left_count)
  <2>1. PICK x : x = VarintField(2, res.left_count)
    OBVIOUS
  <2>2. StreamSize(<<>>) = 0 /\ StreamSize(<<x>>) = Bytes(x)
    BY <1>4, <2>1, StreamShort
  <2>3. VarintSize(8 * 2) = 1
    BY VarintSizeRange
  <2>4. Bytes(x) = 1 + VarintSize(res.left_count)
    BY <1>3, <2>1, <2>3 DEF Bytes
  <2> QED
    BY <2>1, <2>2, <2>4
<1> HIDE DEF F, L, N, ser
<1> QED
  BY <1>6, <1>7, <1>8 DEF PullResByteSizeLong, N, ser
=============================================================================
