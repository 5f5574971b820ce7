-------------------------- MODULE Algorithms_proofs --------------------------
(***************************************************************************)
(* Theorems about what the components of a request compute: how an object  *)
(* is put together, for any size and parts, which values a range counts    *)
(* whose bounds are longs or left out, in which order rankings are fused,  *)
(* for any number of them and any rounding that keeps the order of sums,   *)
(* and whose embedding a text gets, for any fibers and any hash of texts.  *)
(***************************************************************************)
EXTENDS Embedding, Retrieval, ObjectRead, FiniteSetTheorems,
        SequenceTheorems, WellFoundedInduction, TLAPS

-----------------------------------------------------------------------------
(* The parts of an object *)

\* The parts cover the object: as many as it takes, the last one cut.
LEMMA PartsCover ==
  ASSUME NEW s \in Nat \ {0}, NEW c \in Nat \ {0}
  PROVE  /\ (s + c - 1) \div c \in Nat
         /\ ((s + c - 1) \div c) * c >= s
  OBVIOUS

\* A part begins where the one before it ends.
LEMMA EndsAreInOrder ==
  ASSUME NEW s \in Nat \ {0}, NEW c \in Nat \ {0}, NEW i \in Nat
  PROVE  /\ Smaller(i * c, s) \in Nat /\ Smaller((i + 1) * c, s) \in Nat
         /\ Smaller(i * c, s) <= Smaller((i + 1) * c, s)
         /\ Smaller((i + 1) * c, s) <= s
<1>1. i * c \in Nat /\ (i + 1) * c = i * c + c
  OBVIOUS
<1>2. ASSUME NEW a \in Nat, NEW b \in Nat, b = a + c
      PROVE  /\ Smaller(a, s) \in Nat /\ Smaller(b, s) \in Nat
             /\ Smaller(a, s) <= Smaller(b, s) /\ Smaller(b, s) <= s
  BY <1>2 DEF Smaller
<1>3. (i + 1) * c \in Nat
  BY <1>1
<1> QED BY <1>1, <1>2, <1>3

\* The first n bytes of an object.
Beginning(n) == [i \in 1..n |-> i - 1]

LEMMA BeginningGrows ==
  ASSUME NEW m \in Nat, NEW n \in Nat, m <= n
  PROVE  Beginning(m) \o [i \in 1..(n - m) |-> m + i - 1] = Beginning(n)
<1> DEFINE a == Beginning(m)
           b == [i \in 1..(n - m) |-> m + i - 1]
<1>1. /\ a \in Seq(Int) /\ Len(a) = m /\ b \in Seq(Int) /\ Len(b) = n - m
      /\ Beginning(n) \in Seq(Int) /\ Len(Beginning(n)) = n
  BY DEF Beginning
<1>2. /\ \A i \in 1..m : a[i] = i - 1
      /\ \A i \in 1..(n - m) : b[i] = m + i - 1
      /\ \A i \in 1..n : Beginning(n)[i] = i - 1
  BY DEF Beginning
<1> HIDE DEF a, b
<1>3. /\ a \o b \in Seq(Int) /\ Len(a \o b) = Len(a) + Len(b)
      /\ \A i \in 1..(Len(a) + Len(b)) :
           (a \o b)[i] = IF i <= Len(a) THEN a[i] ELSE b[i - Len(a)]
  BY <1>1, ConcatProperties
<1>4. Len(a \o b) = n /\ Len(a) + Len(b) = n
  BY <1>1, <1>3
<1>5. ASSUME NEW i \in 1..n PROVE (a \o b)[i] = Beginning(n)[i]
  <2>1. CASE i <= m
    <3>1. i \in 1..m /\ i \in 1..(Len(a) + Len(b)) /\ i <= Len(a)
      BY <1>1, <1>4, <2>1
    <3> QED BY <1>2, <1>3, <3>1
  <2>2. CASE ~(i <= m)
    <3>1. i - m \in 1..(n - m) /\ m + (i - m) - 1 = i - 1
      BY <2>2
    <3>2. i \in 1..(Len(a) + Len(b)) /\ ~(i <= Len(a)) /\ i - Len(a) = i - m
      BY <1>1, <1>4, <2>2
    <3>3. (a \o b)[i] = b[i - m]
      BY <1>3, <3>2
    <3> QED BY <1>2, <3>1, <3>3
  <2> QED BY <2>1, <2>2
<1>6. /\ a \o b = [i \in 1..n |-> (a \o b)[i]]
      /\ Beginning(n) = [i \in 1..n |-> Beginning(n)[i]]
  BY <1>1, <1>3, <1>4, LenProperties
<1>7. [i \in 1..n |-> (a \o b)[i]] = [i \in 1..n |-> Beginning(n)[i]]
  BY <1>5
<1> QED BY <1>6, <1>7 DEF a, b

\* The stream is what the emitted parts cover.
ObjectInv ==
  /\ size \in Nat \ {0} /\ chunk \in Nat \ {0}
  /\ emitted \in Nat /\ fetched \subseteq Parts
  /\ bytes = Beginning(EndOf(emitted))
  /\ ended = "done" => emitted = Ends - 1

LEMMA ObjectFirst == ObjectInit => ObjectInv
<1> SUFFICES ASSUME ObjectInit PROVE ObjectInv
  OBVIOUS
<1>1. size \in Nat \ {0} /\ chunk \in Nat \ {0}
  BY ObjectReadAssumption DEF ObjectInit
<1>2. EndOf(0) = 0
  BY <1>1 DEF EndOf, Smaller
<1> QED BY <1>1, <1>2 DEF ObjectInit, ObjectInv, Beginning

LEMMA ObjectStep == ObjectInv /\ [ObjectNext]_objectVars => ObjectInv'
<1> SUFFICES ASSUME ObjectInv, [ObjectNext]_objectVars PROVE ObjectInv'
  OBVIOUS
<1>1. CASE FetchPart
  BY <1>1 DEF FetchPart, ObjectInv, EndOf, Ends, Parts
<1>2. CASE EmitPart
  <2>1. /\ emitted' = emitted + 1 /\ ended = "no"
        /\ bytes' = bytes \o BytesOf(emitted + 1)
        /\ UNCHANGED <<size, chunk, fetched, ended>>
    BY <1>2 DEF EmitPart
  <2>2. /\ EndOf(emitted) \in Nat /\ EndOf(emitted + 1) \in Nat
        /\ EndOf(emitted) <= EndOf(emitted + 1)
    BY EndsAreInOrder DEF ObjectInv, EndOf
  <2>3. (emitted + 1) - 1 = emitted
    BY DEF ObjectInv
  <2>4. BytesOf(emitted + 1)
          = [n \in 1..(EndOf(emitted + 1) - EndOf(emitted)) |-> EndOf(emitted) + n - 1]
    BY <2>3 DEF BytesOf
  <2>5. bytes' = Beginning(EndOf(emitted + 1))
    <3>1. ASSUME NEW m \in Nat, NEW n \in Nat, m <= n, bytes = Beginning(m),
                 bytes' = bytes \o [k \in 1..(n - m) |-> m + k - 1]
          PROVE  bytes' = Beginning(n)
      BY <3>1, BeginningGrows, Zenon
    <3>2. bytes = Beginning(EndOf(emitted))
      BY DEF ObjectInv
    <3> QED BY <2>1, <2>2, <2>4, <3>1, <3>2, Zenon
  <2>6. bytes' = Beginning(EndOf(emitted))'
    BY <2>1, <2>5 DEF Beginning, EndOf
  <2>7. Parts' = Parts
    BY <2>1 DEF Parts, Ends
  <2> QED BY <2>1, <2>6, <2>7 DEF ObjectInv
<1>3. CASE ReadFails \/ ReadEnds
  BY <1>3 DEF ReadFails, ReadEnds, ObjectInv, Beginning, EndOf, Ends, Parts
<1>4. CASE UNCHANGED objectVars
  BY <1>4 DEF objectVars, ObjectInv, Beginning, EndOf, Ends, Parts
<1> QED BY <1>1, <1>2, <1>3, <1>4 DEF ObjectNext

LEMMA StreamOfObject == ObjectInv => ReadsTheObject
<1> SUFFICES ASSUME ObjectInv PROVE ReadsTheObject
  OBVIOUS
<1>1. EndOf(emitted) \in Nat /\ EndOf(emitted) <= size
  <2>1. emitted * chunk \in Nat /\ size \in Nat
    BY DEF ObjectInv
  <2> QED BY <2>1 DEF EndOf, Smaller
<1>2. Len(bytes) = EndOf(emitted)
  BY <1>1 DEF ObjectInv, Beginning
<1>3. ended = "done" => EndOf(emitted) = size
  <2> SUFFICES ASSUME emitted = Ends - 1 PROVE EndOf(emitted) = size
    BY DEF ObjectInv
  <2>1. emitted = (size + chunk - 1) \div chunk
    BY PartsCover DEF Ends, ObjectInv
  <2>2. emitted * chunk >= size /\ emitted * chunk \in Nat /\ size \in Nat
    BY <2>1, PartsCover DEF ObjectInv
  <2> QED BY <2>2 DEF EndOf, Smaller
<1>4. bytes = [n \in 1..Len(bytes) |-> n - 1]
  BY <1>2 DEF ObjectInv, Beginning
<1> QED BY <1>1, <1>2, <1>3, <1>4 DEF ReadsTheObject

\* The stream of a large object is a beginning of it, and all of it if it does not
\* fail: for any size of the object and of its parts, any number of parts
\* fetched at once, in any order.
THEOREM ObjectsAreReadWhole == ObjectSpec => []ReadsTheObject
  BY ObjectFirst, ObjectStep, StreamOfObject, PTL DEF ObjectSpec

-----------------------------------------------------------------------------
(* What a range counts *)

\* Of a bound that is a long, ToLong makes that long.
LEMMA LongToLong ==
  ASSUME NEW b \in 2 * MinLong..2 * MaxLong, b % 2 = 0
  PROVE  ToLong(b) \in Int /\ 2 * ToLong(b) = b
<1>1. MinLong \in Int /\ MaxLong \in Int /\ b \in Int
  BY RetrievalAssumption
<1>2. PICK n : n = IF b >= 0 THEN b \div 2 ELSE -((-b) \div 2)
  OBVIOUS
<1>3. n \in Int /\ 2 * n = b
  BY <1>1, <1>2
<1>4. n \in MinLong..MaxLong
  BY <1>1, <1>3
<1>5. ToLong(b) = n
  BY <1>2, <1>4 DEF ToLong
<1> QED BY <1>3, <1>5

\* The range in progress, and its count.
RangeInv ==
  /\ range.from \in RangeBounds /\ range.to \in RangeBounds
  /\ range.values \subseteq MinLong..MaxLong
  /\ count # NoCount =>
       count = IF RangeFails(range) THEN Failed
               ELSE Cardinality({v \in range.values : v \in Least(range)..Greatest(range)})
  /\ range = NoRange => count = NoCount

LEMMA RangeFirst == RetrievalInit => RangeInv
  BY DEF RetrievalInit, RangeInv, NoRange, RangeBounds

LEMMA RangeStep == RangeInv /\ [RetrievalNext]_retrievalVars => RangeInv'
<1> SUFFICES ASSUME RangeInv, [RetrievalNext]_retrievalVars PROVE RangeInv'
  OBVIOUS
<1>1. CASE AskRrf \/ SubQuery \/ Fuse \/ FuseNothing \/ UNCHANGED retrievalVars
  <2>1. UNCHANGED <<range, count>>
    BY <1>1 DEF AskRrf, SubQuery, Fuse, FuseNothing, retrievalVars
  <2> QED BY <2>1 DEF RangeInv, RangeFails, Least, Greatest
<1>2. CASE Respond
  BY <1>2 DEF Respond, RangeInv, NoRange, RangeBounds
<1>3. CASE AskRange
  <2>1. PICK from \in RangeBounds, to \in RangeBounds, value \in MinLong..MaxLong :
          range' = [from |-> from, to |-> to, values |-> {value}]
    BY <1>3 DEF AskRange
  <2>2. count' = NoCount
    BY <1>3 DEF AskRange, RangeInv
  <2> QED BY <2>1, <2>2 DEF RangeInv
<1>4. CASE Aggregate
  BY <1>4 DEF Aggregate, RangeInv, RangeFails, Least, Greatest
<1> QED BY <1>1, <1>2, <1>3, <1>4 DEF RetrievalNext

\* A long is between the ends of the range that is made of such bounds if it is
\* in the range that was asked for, and is not the greatest one of all.
LEMMA EndsOfRange ==
  ASSUME NEW r, r.from \in RangeBounds, r.to \in RangeBounds,
         LongBound(r.from), LongBound(r.to), NEW v \in MinLong..MaxLong
  PROVE  /\ Least(r) \in Int /\ Greatest(r) \in Int
         /\ v \in Least(r)..Greatest(r) <=> InRange(r, v) /\ (r.to = <<>> => v # MaxLong)
<1>1. /\ MinLong \in Int /\ MaxLong \in Int /\ v \in Int /\ MinLong <= v /\ v <= MaxLong
      /\ \A b \in Bounds : b \in Int
  BY RetrievalAssumption
<1>2. /\ Least(r) \in Int
      /\ Least(r) <= v <=>
           (r.from # <<>> => IF r.from[1].inclusive THEN 2 * v >= r.from[1].at
                             ELSE 2 * v > r.from[1].at)
  <2>1. CASE r.from = <<>>
    BY <1>1, <2>1 DEF Least
  <2>2. CASE r.from # <<>>
    <3>1. PICK b \in Bounds, i \in BOOLEAN : r.from = <<[at |-> b, inclusive |-> i]>>
      BY <2>2 DEF RangeBounds
    <3>2. r.from[1].at = b /\ r.from[1].inclusive = i /\ b \in Int
          /\ b \in 2 * MinLong..2 * MaxLong /\ b % 2 = 0
      BY <1>1, <2>2, <3>1 DEF LongBound
    <3>3. ToLong(b) \in Int /\ 2 * ToLong(b) = b
      BY <3>2, LongToLong
    <3>4. Least(r) = ToLong(b) + (IF i THEN 0 ELSE 1)
      BY <2>2, <3>2 DEF Least
    <3>5. CASE i
      BY <1>1, <2>2, <3>2, <3>3, <3>4, <3>5
    <3>6. CASE ~i
      BY <1>1, <2>2, <3>2, <3>3, <3>4, <3>6
    <3> QED BY <3>5, <3>6
  <2> QED BY <2>1, <2>2
<1>3. /\ Greatest(r) \in Int
      /\ v <= Greatest(r) <=>
           /\ r.to # <<>> => IF r.to[1].inclusive THEN 2 * v <= r.to[1].at
                             ELSE 2 * v < r.to[1].at
           /\ r.to = <<>> => v # MaxLong
  <2>1. CASE r.to = <<>>
    BY <1>1, <2>1 DEF Greatest
  <2>2. CASE r.to # <<>>
    <3>1. PICK b \in Bounds, i \in BOOLEAN : r.to = <<[at |-> b, inclusive |-> i]>>
      BY <2>2 DEF RangeBounds
    <3>2. r.to[1].at = b /\ r.to[1].inclusive = i /\ b \in Int
          /\ b \in 2 * MinLong..2 * MaxLong /\ b % 2 = 0
      BY <1>1, <2>2, <3>1 DEF LongBound
    <3>3. ToLong(b) \in Int /\ 2 * ToLong(b) = b
      BY <3>2, LongToLong
    <3>4. Greatest(r) = ToLong(b) - (IF i THEN 0 ELSE 1)
      BY <2>2, <3>2 DEF Greatest
    <3>5. CASE i
      BY <1>1, <2>2, <3>2, <3>3, <3>4, <3>5
    <3>6. CASE ~i
      BY <1>1, <2>2, <3>2, <3>3, <3>4, <3>6
    <3> QED BY <3>5, <3>6
  <2> QED BY <2>1, <2>2
<1>4. v \in Least(r)..Greatest(r) <=> Least(r) <= v /\ v <= Greatest(r)
  BY <1>1, <1>2, <1>3
<1> QED BY <1>2, <1>3, <1>4 DEF InRange

LEMMA RangeIsExact == RangeInv => LongRangesAreExact
<1> SUFFICES ASSUME RangeInv, count # NoCount, LongBound(range.from), LongBound(range.to)
             PROVE  IF count = Failed THEN \A v \in MinLong..MaxLong - 1 : ~InRange(range, v)
                    ELSE count = Cardinality({v \in range.values : InRange(range, v)}
                                                \ (IF range.to = <<>> THEN {MaxLong} ELSE {}))
  BY DEF LongRangesAreExact
<1> DEFINE between == {v \in range.values : v \in Least(range)..Greatest(range)}
           asked == {v \in range.values : InRange(range, v)}
                      \ (IF range.to = <<>> THEN {MaxLong} ELSE {})
<1>1. \A v \in MinLong..MaxLong :
        /\ Least(range) \in Int /\ Greatest(range) \in Int
        /\ v \in Least(range)..Greatest(range) <=>
             InRange(range, v) /\ (range.to = <<>> => v # MaxLong)
  BY EndsOfRange DEF RangeInv
<1>2. CASE RangeFails(range)
  <2>1. ASSUME NEW v \in MinLong..MaxLong - 1, InRange(range, v) PROVE FALSE
    <3>1. v \in MinLong..MaxLong /\ v # MaxLong /\ v \in Int
      BY RetrievalAssumption
    <3>2. v \in Least(range)..Greatest(range) /\ Least(range) \in Int /\ Greatest(range) \in Int
      BY <1>1, <2>1, <3>1
    <3> QED BY <1>2, <3>1, <3>2 DEF RangeFails
  <2>2. count = Failed
    BY <1>2 DEF RangeInv
  <2> QED BY <2>1, <2>2
<1>3. CASE ~RangeFails(range)
  <2>1. between = asked
    BY <1>1 DEF RangeInv
  <2>2. count = Cardinality(between)
    BY <1>3 DEF RangeInv
  <2>3. IsFiniteSet(between)
    <3>1. IsFiniteSet(MinLong..MaxLong) /\ between \subseteq MinLong..MaxLong
      BY RetrievalAssumption, FS_Interval DEF RangeInv
    <3> QED BY <3>1, FS_Subset
  <2>4. count # Failed
    <3>1. Cardinality(between) \in Nat
      BY <2>3, FS_CardinalityType
    <3> QED BY <2>2, <3>1 DEF Failed
  <2> QED BY <2>1, <2>2, <2>4
<1> QED BY <1>2, <1>3

\* A range whose bounds are longs, or left out, counts the longs that are in it,
\* but for the greatest one where there is no upper bound: for any such bounds and
\* any values, whichever other bounds are asked for before.
THEOREM RangesAreExact == RetrievalSpec => []LongRangesAreExact
  BY RangeFirst, RangeStep, RangeIsExact, PTL DEF RetrievalSpec

-----------------------------------------------------------------------------
(* The scores of fused rankings.  What holds of every beginning of a sequence *)
(* is shown of the shortest one for which it would not. *)

\* A nonempty set of numbers has a least one.
LEMMA LeastNatural ==
  ASSUME NEW T, T \subseteq Nat, T # {}
  PROVE  \E x \in T : \A y \in T : x <= y
<1> DEFINE R == OpToRel(<, Nat)
<1>1. IsWellFoundedOn(R, Nat)
  BY NatLessThanWellFounded
<1>2. R = {ss \in Nat \X Nat : ss[1] < ss[2]}
  BY DEF OpToRel
<1> HIDE DEF R
<1>3. PICK x \in T : \A y \in T : ~(<<y, x>> \in R)
  BY <1>1, WFMin
<1>4. \A y \in T : x <= y
  <2> SUFFICES ASSUME NEW y \in T, y < x PROVE FALSE
    OBVIOUS
  <2>1. <<y, x>> \in Nat \X Nat /\ <<y, x>>[1] < <<y, x>>[2]
    OBVIOUS
  <2>2. <<y, x>> \in R
    BY <1>2, <2>1
  <2> QED BY <1>3, <2>2
<1> QED BY <1>4

\* What one step after the other makes of a float.
Steps(N, base, step, s) ==
  /\ s \in [0..N -> Floats] /\ s[0] = base
  /\ \A n \in 1..N : s[n] = step[n][s[n - 1]]

\* Steps can be taken: if they could not, the first that could not would come
\* after one that can.
LEMMA StepsExist ==
  ASSUME NEW N \in Nat, NEW base \in Floats, NEW step \in [1..N -> [Floats -> Floats]]
  PROVE  \E s : Steps(N, base, step, s)
<1> DEFINE T == {m \in 0..N : ~\E s : Steps(m, base, step, s)}
<1>1. SUFFICES ASSUME T # {} PROVE FALSE
  <2>1. N \in 0..N
    OBVIOUS
  <2>2. N \notin T => \E s : Steps(N, base, step, s)
    BY <2>1
  <2> QED BY <1>1, <2>2
<1>2. PICK m \in T : \A k \in T : m <= k
  <2>1. T \subseteq Nat
    OBVIOUS
  <2> HIDE DEF T
  <2> QED BY <1>1, <2>1, LeastNatural
<1>3. Steps(0, base, step, [n \in 0..0 |-> base])
  BY DEF Steps
<1>4. m # 0
  BY <1>2, <1>3
<1>5. m \in 1..N /\ m - 1 \in 0..N
  BY <1>2, <1>4
<1>6. ~(m - 1 \in T)
  <2>1. T \subseteq Nat
    OBVIOUS
  <2> HIDE DEF T
  <2> QED BY <1>2, <2>1
<1>7. PICK s : Steps(m - 1, base, step, s)
  BY <1>5, <1>6
<1> DEFINE t == [n \in 0..m |-> IF n = m THEN step[m][s[m - 1]] ELSE s[n]]
<1>8. Steps(m, base, step, t)
  <2>1. t \in [0..m -> Floats]
    <3> SUFFICES ASSUME NEW n \in 0..m
                 PROVE  (IF n = m THEN step[m][s[m - 1]] ELSE s[n]) \in Floats
      OBVIOUS
    <3>1. n # m => s[n] \in Floats
      BY <1>5, <1>7 DEF Steps
    <3>2. step[m][s[m - 1]] \in Floats
      BY <1>5, <1>7 DEF Steps
    <3> QED BY <3>1, <3>2
  <2>2. t[0] = base
    BY <1>5, <1>7 DEF Steps
  <2>3. ASSUME NEW n \in 1..m PROVE t[n] = step[n][t[n - 1]]
    <3>1. CASE n = m
      BY <1>5, <1>7, <3>1
    <3>2. CASE n # m
      <4>1. n \in 1..m - 1 /\ n - 1 \in 0..m /\ n - 1 # m /\ n \in 0..m
        BY <1>5, <3>2
      <4>2. t[n] = s[n] /\ t[n - 1] = s[n - 1]
        BY <3>2, <4>1
      <4> QED BY <1>7, <4>1, <4>2 DEF Steps
    <3> QED BY <3>1, <3>2
  <2> QED BY <2>1, <2>2, <2>3 DEF Steps
<1> HIDE DEF t
<1> QED BY <1>2, <1>8

\* And they are the only solution of their recurrence.
Solves(N, base, step, r) ==
  r[0] = base /\ \A n \in 1..N : r[n - 1] \in Floats => r[n] = step[n][r[n - 1]]

LEMMA StepsAreUnique ==
  ASSUME NEW N \in Nat, NEW base, NEW step, NEW s, NEW r,
         Steps(N, base, step, s), Solves(N, base, step, r)
  PROVE  \A n \in 0..N : r[n] = s[n]
<1> DEFINE T == {n \in 0..N : r[n] # s[n]}
<1>1. T = {}
  <2> SUFFICES ASSUME T # {} PROVE FALSE
    OBVIOUS
  <2>1. T \subseteq Nat
    OBVIOUS
  <2>2. PICK m \in T : \A k \in T : m <= k
    <3> HIDE DEF T
    <3> QED BY <2>1, LeastNatural
  <2>3. m # 0
    BY <2>2 DEF Steps, Solves
  <2>4. m \in 1..N /\ m - 1 \in 0..N /\ ~(m - 1 \in T)
    <3>1. m \in 1..N /\ m - 1 \in 0..N
      BY <2>2, <2>3
    <3> HIDE DEF T
    <3> QED BY <2>1, <2>2, <3>1
  <2>5. r[m - 1] = s[m - 1] /\ s[m - 1] \in Floats
    BY <2>4 DEF Steps, Solves
  <2> QED BY <2>2, <2>4, <2>5 DEF Steps, Solves
<1> QED BY <1>1

\* A ranking of at most so many documents, none of them twice.
IsRanking(list, n) == list \in Seq(Docs) /\ IsInjective(list) /\ Len(list) <= n

\* Where a ranking has a document.
LEMMA PlaceOf ==
  ASSUME NEW n \in Nat, NEW list, IsRanking(list, n), NEW doc \in ToSet(list)
  PROVE  /\ RankIn(list, doc) \in 1..Len(list) /\ list[RankIn(list, doc)] = doc
         /\ IndexIn(list, doc) = RankIn(list, doc) - 1
         /\ IndexIn(list, doc) \in 0..n - 1
<1>1. /\ Len(list) \in Nat /\ DOMAIN list = 1..Len(list) /\ Len(list) <= n
  BY DEF IsRanking
<1>2. \E i \in DOMAIN list : list[i] = doc
  BY DEF ToSet
<1>3. PICK p : p = CHOOSE i \in DOMAIN list : list[i] = doc
  OBVIOUS
<1>4. p \in DOMAIN list /\ list[p] = doc
  BY <1>2, <1>3
<1>5. RankIn(list, doc) = p /\ IndexIn(list, doc) = p - 1
  BY <1>3 DEF RankIn, IndexIn
<1> QED BY <1>1, <1>4, <1>5

LEMMA PlaceIs ==
  ASSUME NEW n \in Nat, NEW list, IsRanking(list, n), NEW i \in DOMAIN list
  PROVE  list[i] \in ToSet(list) /\ RankIn(list, list[i]) = i
<1>1. list[i] \in ToSet(list)
  BY DEF ToSet
<1>2. PICK p : p = RankIn(list, list[i])
  OBVIOUS
<1>3. p \in 1..Len(list) /\ list[p] = list[i]
  BY <1>1, <1>2, PlaceOf
<1>4. p \in DOMAIN list
  BY <1>3 DEF IsRanking
<1> QED BY <1>1, <1>2, <1>3, <1>4 DEF IsRanking, IsInjective

\* What a score is once n rankings are summed up.
Adds(q, list, doc, x) ==
  IF doc \in ToSet(list) THEN Plus(x, ScoreOfPlace(q, IndexIn(list, doc))) ELSE x

LEMMA AddsFloats ==
  ASSUME NEW q \in Requests, NEW list, IsRanking(list, q.window), NEW doc, NEW x \in Floats
  PROVE  Adds(q, list, doc, x) \in Floats
<1>1. q.window \in Nat
  BY RetrievalAssumption
<1>2. CASE doc \in ToSet(list)
  <2>1. PICK i : i = IndexIn(list, doc)
    OBVIOUS
  <2>2. i \in 0..q.window
    BY <1>1, <1>2, <2>1, PlaceOf
  <2>3. Reciprocal(q.k, i) \in Floats
    BY <2>2, FloatAssumption
  <2>4. Plus(x, Reciprocal(q.k, i)) \in Floats
    BY <2>3, FloatAssumption
  <2> QED BY <1>2, <2>1, <2>4 DEF Adds, ScoreOfPlace
<1>3. CASE doc \notin ToSet(list)
  BY <1>3 DEF Adds
<1> QED BY <1>2, <1>3

LEMMA ScoreIs ==
  ASSUME NEW q \in Requests, NEW lists \in Seq(Seq(Docs)),
         \A n \in DOMAIN lists : IsRanking(lists[n], q.window), NEW doc
  PROVE  \E s \in [0..Len(lists) -> Floats] :
           /\ s[0] = 0 /\ \A n \in 1..Len(lists) : s[n] = Adds(q, lists[n], doc, s[n - 1])
           /\ Score(q, lists, doc) = s[Len(lists)]
<1> DEFINE N == Len(lists)
           step == [n \in 1..N |-> [x \in Floats |-> Adds(q, lists[n], doc, x)]]
           R(s) == s = [n \in 0..N |-> IF n = 0 THEN 0 ELSE
                          IF doc \in ToSet(lists[n])
                          THEN Plus(s[n - 1], ScoreOfPlace(q, IndexIn(lists[n], doc)))
                          ELSE s[n - 1]]
           sum == CHOOSE s : R(s)
<1>1. N \in Nat /\ DOMAIN lists = 1..N /\ 0 \in Floats
  BY FloatAssumption
<1>2. step \in [1..N -> [Floats -> Floats]]
  BY <1>1, AddsFloats
<1>3. PICK s : Steps(N, 0, step, s)
  <2> HIDE DEF step, N
  <2> QED BY <1>1, <1>2, StepsExist
<1>4. /\ s \in [0..N -> Floats] /\ s[0] = 0
      /\ \A n \in 1..N : s[n] = Adds(q, lists[n], doc, s[n - 1])
  <2>1. s \in [0..N -> Floats] /\ s[0] = 0
    BY <1>3 DEF Steps
  <2>2. ASSUME NEW n \in 1..N PROVE s[n] = Adds(q, lists[n], doc, s[n - 1])
    <3>1. s[n] = step[n][s[n - 1]]
      BY <1>3 DEF Steps
    <3>2. n - 1 \in 0..N
      <4> HIDE DEF N
      <4> QED BY <1>1
    <3>3. s[n - 1] \in Floats
      <4> HIDE DEF N
      <4> QED BY <2>1, <3>2
    <3> QED BY <3>1, <3>3
  <2> QED BY <2>1, <2>2
<1>5. R(s)
  <2>1. \A n \in 0..N : s[n] = IF n = 0 THEN 0 ELSE
                          IF doc \in ToSet(lists[n])
                          THEN Plus(s[n - 1], ScoreOfPlace(q, IndexIn(lists[n], doc)))
                          ELSE s[n - 1]
    BY <1>1, <1>4 DEF Adds
  <2>2. s = [n \in 0..N |-> s[n]]
    BY <1>4
  <2> QED BY <2>1, <2>2
<1>6. R(sum)
  <2> HIDE DEF R
  <2> QED BY <1>5
<1>7. Score(q, lists, doc) = sum[N]
  BY DEF Score
<1>8. sum[N] = s[N]
  <2>1. \A n \in 0..N : sum[n] = IF n = 0 THEN 0 ELSE Adds(q, lists[n], doc, sum[n - 1])
    BY <1>6 DEF Adds
  <2>2. sum[0] = 0
    <3> HIDE DEF sum, N
    <3>1. 0 \in 0..N
      BY <1>1
    <3> QED BY <2>1, <3>1
  <2> HIDE DEF sum
  <2>3. ASSUME NEW n \in 1..N, sum[n - 1] \in Floats
        PROVE  sum[n] = step[n][sum[n - 1]]
    <3>1. n \in 0..N /\ n # 0
      BY <1>1
    <3>2. sum[n] = Adds(q, lists[n], doc, sum[n - 1])
      BY <2>1, <3>1
    <3> QED BY <2>3, <3>2
  <2> HIDE DEF step, R, N
  <2>4. Solves(N, 0, step, sum)
    BY <2>2, <2>3 DEF Solves
  <2>5. N \in 0..N
    BY <1>1
  <2>6. \A n \in 0..N : sum[n] = s[n]
    BY <1>1, <1>3, <2>4, StepsAreUnique
  <2> QED BY <2>5, <2>6
<1> QED BY <1>1, <1>4, <1>7, <1>8

\* Of two documents, the one that a ranking does not put after the other stays at
\* least as far ahead of it.
LEMMA AddsInOrder ==
  ASSUME NEW q \in Requests, q.k >= 0, NEW list, IsRanking(list, q.window), NEW c, NEW d,
         RankIn(list, c) <= RankIn(list, d),
         NEW x \in Floats, NEW y \in Floats, x <= y
  PROVE  Adds(q, list, d, x) <= Adds(q, list, c, y)
<1>1. q.k \in Floats /\ q.window \in Nat /\ Len(list) \in Nat
  BY RetrievalAssumption DEF IsRanking
<1>2. ASSUME NEW e, e \in ToSet(list)
      PROVE  /\ RankIn(list, e) \in 1..Len(list) /\ IndexIn(list, e) = RankIn(list, e) - 1
             /\ IndexIn(list, e) \in 0..q.window
             /\ Reciprocal(q.k, IndexIn(list, e)) \in Floats
             /\ Reciprocal(q.k, IndexIn(list, e)) >= 0
  <2>1. PICK i : i = IndexIn(list, e)
    OBVIOUS
  <2>2. i \in 0..q.window - 1 /\ i = RankIn(list, e) - 1 /\ RankIn(list, e) \in 1..Len(list)
    BY <1>1, <1>2, <2>1, PlaceOf
  <2>3. i \in 0..q.window
    BY <1>1, <2>2
  <2> QED BY <2>1, <2>2, <2>3, FloatAssumption
<1>3. ASSUME NEW e, e \notin ToSet(list)
      PROVE  RankIn(list, e) = Len(list) + 1
  BY <1>3 DEF RankIn
<1>4. CASE d \notin ToSet(list)
  <2>1. Adds(q, list, d, x) = x
    BY <1>4 DEF Adds
  <2>2. CASE c \notin ToSet(list)
    BY <2>1, <2>2 DEF Adds
  <2>3. CASE c \in ToSet(list)
    <3>1. PICK r \in Floats : r = Reciprocal(q.k, IndexIn(list, c)) /\ r >= 0
      BY <1>2, <2>3
    <3>2. Plus(y, r) >= y /\ Plus(y, r) \in Floats
      BY <3>1, FloatAssumption
    <3>3. \A f \in Floats : f \in Int
      BY FloatAssumption
    <3>4. Adds(q, list, c, y) = Plus(y, r)
      BY <2>3, <3>1 DEF Adds, ScoreOfPlace
    <3> QED BY <2>1, <3>2, <3>3, <3>4
  <2> QED BY <2>2, <2>3
<1>5. CASE d \in ToSet(list)
  <2>1. c \in ToSet(list)
    <3> SUFFICES ASSUME c \notin ToSet(list) PROVE FALSE
      OBVIOUS
    <3>1. RankIn(list, c) = Len(list) + 1 /\ RankIn(list, d) \in 1..Len(list)
      BY <1>2, <1>3, <1>5
    <3> QED BY <1>1, <3>1
  <2>2. PICK i \in 0..q.window, j \in 0..q.window :
          i = IndexIn(list, c) /\ j = IndexIn(list, d) /\ i <= j
    <3>1. IndexIn(list, c) <= IndexIn(list, d)
      BY <1>1, <1>2, <1>5, <2>1
    <3> QED BY <1>2, <1>5, <2>1, <3>1
  <2>3. j \in i..q.window
    BY <1>1, <2>2
  <2>4. PICK r \in Floats, t \in Floats :
          r = Reciprocal(q.k, i) /\ t = Reciprocal(q.k, j) /\ t <= r
    <3>1. Reciprocal(q.k, i) \in Floats /\ Reciprocal(q.k, j) \in Floats
      BY <2>2, FloatAssumption
    <3>2. Reciprocal(q.k, j) <= Reciprocal(q.k, i)
      BY <2>2, <2>3, FloatAssumption
    <3> QED BY <3>1, <3>2
  <2>5. /\ Plus(x, t) \in Floats /\ Plus(y, t) \in Floats /\ Plus(y, r) \in Floats
        /\ Plus(x, t) <= Plus(y, t) /\ Plus(y, t) <= Plus(y, r)
    BY <2>4, FloatAssumption
  <2>6. \A f \in Floats : f \in Int
    BY FloatAssumption
  <2>7. Adds(q, list, d, x) = Plus(x, t) /\ Adds(q, list, c, y) = Plus(y, r)
    BY <1>5, <2>1, <2>2, <2>4 DEF Adds, ScoreOfPlace
  <2> QED BY <2>5, <2>6, <2>7
<1> QED BY <1>4, <1>5

\* And so its score is no less in the end.
LEMMA ScoresInOrder ==
  ASSUME NEW q \in Requests, q.k >= 0, NEW lists \in Seq(Seq(Docs)),
         \A n \in DOMAIN lists : IsRanking(lists[n], q.window), NEW c, NEW d,
         \A n \in DOMAIN lists : RankIn(lists[n], c) <= RankIn(lists[n], d)
  PROVE  /\ Score(q, lists, c) \in Int /\ Score(q, lists, d) \in Int
         /\ Score(q, lists, d) <= Score(q, lists, c)
<1>1. PICK s \in [0..Len(lists) -> Floats] :
        /\ s[0] = 0 /\ \A n \in 1..Len(lists) : s[n] = Adds(q, lists[n], d, s[n - 1])
        /\ Score(q, lists, d) = s[Len(lists)]
  BY ScoreIs
<1>2. PICK t \in [0..Len(lists) -> Floats] :
        /\ t[0] = 0 /\ \A n \in 1..Len(lists) : t[n] = Adds(q, lists[n], c, t[n - 1])
        /\ Score(q, lists, c) = t[Len(lists)]
  BY ScoreIs
<1> DEFINE N == Len(lists)
           T == {n \in 0..N : ~(s[n] <= t[n])}
<1>3. N \in Nat /\ DOMAIN lists = 1..N /\ N \in 0..N
  OBVIOUS
<1>4. T = {}
  <2> SUFFICES ASSUME T # {} PROVE FALSE
    OBVIOUS
  <2>1. T \subseteq Nat
    OBVIOUS
  <2>2. PICK m \in T : \A i \in T : m <= i
    <3> HIDE DEF T
    <3> QED BY <2>1, LeastNatural
  <2>3. m # 0
    BY <1>1, <1>2, <2>2
  <2>4. m \in 1..N /\ m - 1 \in 0..N
    BY <1>3, <2>2, <2>3
  <2>5. ~(m - 1 \in T)
    <3> HIDE DEF T
    <3> QED BY <2>1, <2>2, <2>4
  <2>6. s[m - 1] <= t[m - 1] /\ s[m - 1] \in Floats /\ t[m - 1] \in Floats
    BY <2>4, <2>5
  <2>7. IsRanking(lists[m], q.window) /\ RankIn(lists[m], c) <= RankIn(lists[m], d)
    BY <1>3, <2>4
  <2>8. Adds(q, lists[m], d, s[m - 1]) <= Adds(q, lists[m], c, t[m - 1])
    BY <2>6, <2>7, AddsInOrder
  <2>9. s[m] <= t[m]
    BY <1>1, <1>2, <2>4, <2>8
  <2> QED BY <2>2, <2>9
<1>5. s[N] <= t[N] /\ s[N] \in Int /\ t[N] \in Int
  BY <1>3, <1>4, FloatAssumption
<1> QED BY <1>1, <1>2, <1>5

LEMMA LeastOfTwo ==
  ASSUME NEW m \in Nat, NEW n \in Nat
  PROVE  /\ Min({m, n}) \in Nat /\ Min({m, n}) <= m /\ Min({m, n}) <= n
         /\ Min({m, n}) = IF m <= n THEN m ELSE n
<1>1. \E x \in {m, n} : \A y \in {m, n} : x <= y
  OBVIOUS
<1>2. Min({m, n}) \in {m, n} /\ \A y \in {m, n} : Min({m, n}) <= y
  BY <1>1 DEF Min
<1> QED BY <1>2

\* The first n elements of a sequence.
LEMMA FirstOnes ==
  ASSUME NEW S, NEW s \in Seq(S), NEW n \in 0..Len(s)
  PROVE  /\ SubSeq(s, 1, n) \in Seq(S) /\ Len(SubSeq(s, 1, n)) = n
         /\ DOMAIN SubSeq(s, 1, n) = 1..n
         /\ \A i \in 1..n : SubSeq(s, 1, n)[i] = s[i]
         /\ ToSet(SubSeq(s, 1, n)) = {s[i] : i \in 1..n}
<1>1. \A i \in 1..n : s[i] \in S
  OBVIOUS
<1>2. /\ SubSeq(s, 1, n) \in Seq(S) /\ Len(SubSeq(s, 1, n)) = n
      /\ \A i \in 1..n : SubSeq(s, 1, n)[i] = s[i]
  BY <1>1, SubSeqProperties
<1>3. DOMAIN SubSeq(s, 1, n) = 1..n
  BY <1>2
<1> QED BY <1>2, <1>3 DEF ToSet

\* An order of a finite set has each of its elements, once.
LEMMA OrdersOfSet ==
  ASSUME NEW S, IsFiniteSet(S), NEW s \in SetToSeqs(S)
  PROVE  /\ s \in Seq(S) /\ Len(s) = Cardinality(S) /\ IsInjective(s)
         /\ \A x \in S : \E i \in 1..Len(s) : s[i] = x
<1>1. Cardinality(S) \in Nat
  BY FS_CardinalityType
<1>2. /\ s \in [1..Cardinality(S) -> S]
      /\ \A i, j \in 1..Cardinality(S) : i # j => s[i] # s[j]
  BY DEF SetToSeqs
<1>3. s \in Seq(S) /\ Len(s) = Cardinality(S)
  BY <1>1, <1>2
<1>4. IsInjective(s)
  BY <1>2 DEF IsInjective
<1>5. s \in Injection(1..Cardinality(S), S)
  BY <1>2, <1>4 DEF Injection
<1>6. Cardinality(1..Cardinality(S)) = Cardinality(S)
  <2>1. PICK n \in Nat : n = Cardinality(S)
    BY <1>1
  <2>2. Cardinality(1..n) = n
    <3>1. 1 \in Int /\ n \in Int
      OBVIOUS
    <3>2. Cardinality(1..n) = IF 1 > n THEN 0 ELSE n - 1 + 1
      BY <3>1, FS_Interval
    <3> QED BY <3>2
  <2> QED BY <2>1, <2>2
<1>7. s \in Surjection(1..Cardinality(S), S)
  BY <1>5, <1>6, FS_Injection
<1>8. \A x \in S : \E i \in 1..Cardinality(S) : s[i] = x
  BY <1>7 DEF Surjection
<1> QED BY <1>3, <1>4, <1>8

-----------------------------------------------------------------------------
(* Reciprocal rank fusion respects its rankings *)

\* The rankings so far are of a request; the answer is a fusion of all of them.
FusionInv ==
  /\ request = NoRequest => rankings = <<>> /\ answer = <<>>
  /\ request # NoRequest => request \in Requests
  /\ rankings \in Seq(Seq(Docs))
  /\ \A n \in DOMAIN rankings : IsRanking(rankings[n], request.window)
  /\ Len(rankings) <= request.queries
  /\ answer # <<>> =>
       /\ Len(rankings) = request.queries /\ rankings # <<>>
       /\ \E docs \in Combine(request, rankings) : answer = <<docs>>

LEMMA FusionFirst == RetrievalInit => FusionInv
  BY DEF RetrievalInit, FusionInv, NoRequest

LEMMA FusionStep == FusionInv /\ [RetrievalNext]_retrievalVars => FusionInv'
<1> SUFFICES ASSUME FusionInv, [RetrievalNext]_retrievalVars PROVE FusionInv'
  OBVIOUS
<1>1. CASE AskRrf
  <2>1. /\ request = NoRequest /\ request' \in Requests
        /\ UNCHANGED <<rankings, answer>>
    BY <1>1 DEF AskRrf
  <2>2. rankings = <<>> /\ answer = <<>>
    BY <2>1 DEF FusionInv
  <2>3. NoRequest \notin Requests
    BY RetrievalAssumption DEF NoRequest
  <2>4. request'.queries \in Nat
    BY <2>1, RetrievalAssumption
  <2> QED BY <2>1, <2>2, <2>3, <2>4 DEF FusionInv
<1>2. CASE SubQuery
  <2>1. /\ request # NoRequest /\ Len(rankings) < request.queries
        /\ UNCHANGED <<request, answer>>
    BY <1>2 DEF SubQuery
  <2>2. PICK n \in 0..request.window : \E docs \in kSubset(n, Docs) :
          \E list \in SetToSeqs(docs) : rankings' = Append(rankings, list)
    BY <1>2 DEF SubQuery
  <2>3. PICK docs \in kSubset(n, Docs) :
          \E list \in SetToSeqs(docs) : rankings' = Append(rankings, list)
    BY <2>2
  <2>4. PICK list \in SetToSeqs(docs) : rankings' = Append(rankings, list)
    BY <2>3
  <2>5. request.window \in Nat /\ n <= request.window
    BY <2>1, RetrievalAssumption DEF FusionInv
  <2>6. docs \subseteq Docs /\ Cardinality(docs) = n /\ IsFiniteSet(docs)
    BY RetrievalAssumption, FS_Subset DEF kSubset
  <2>7. list \in Seq(docs) /\ Len(list) = n /\ IsInjective(list)
    BY <2>6, OrdersOfSet
  <2>8. IsRanking(list, request.window) /\ list \in Seq(Docs)
    BY <2>5, <2>6, <2>7 DEF IsRanking
  <2>9. answer = <<>>
    <3> SUFFICES ASSUME answer # <<>> PROVE FALSE
      OBVIOUS
    <3>1. Len(rankings) = request.queries /\ Len(rankings) \in Nat
      BY DEF FusionInv
    <3> QED BY <2>1, <3>1
  <2>10. rankings' \in Seq(Seq(Docs))
    BY <2>4, <2>8 DEF FusionInv
  <2>11. ASSUME NEW i \in DOMAIN rankings' PROVE IsRanking(rankings'[i], request.window)
    <3>1. rankings \in Seq(Seq(Docs))
      BY DEF FusionInv
    <3>2. CASE i \in DOMAIN rankings
      BY <2>4, <2>8, <3>1, <3>2 DEF FusionInv
    <3>3. CASE i \notin DOMAIN rankings
      BY <2>4, <2>8, <3>1, <3>3
    <3> QED BY <3>2, <3>3
  <2>12. Len(rankings') <= request.queries
    <3>1. Len(rankings') = Len(rankings) + 1 /\ Len(rankings) \in Nat
      BY <2>4 DEF FusionInv
    <3>2. request.queries \in Nat
      BY <2>1, RetrievalAssumption DEF FusionInv
    <3> QED BY <2>1, <3>1, <3>2
  <2> QED BY <2>1, <2>9, <2>10, <2>11, <2>12 DEF FusionInv
<1>3. CASE Fuse
  BY <1>3 DEF Fuse, FusionInv
<1>4. CASE Respond
  BY <1>4 DEF Respond, FusionInv, NoRequest
<1>6. CASE FuseNothing
  <2>1. Len(rankings) = 0 /\ rankings \in Seq(Seq(Docs))
    BY <1>6 DEF FuseNothing, FusionInv
  <2>2. rankings = <<>> /\ answer = <<>>
    BY <2>1 DEF FusionInv
  <2> QED BY <1>6, <2>2 DEF FuseNothing, FusionInv, NoRequest
<1>5. CASE AskRange \/ Aggregate \/ UNCHANGED retrievalVars
  BY <1>5 DEF AskRange, Aggregate, retrievalVars, FusionInv
<1> QED BY <1>1, <1>2, <1>3, <1>4, <1>5, <1>6 DEF RetrievalNext

\* A document that dominates one which has no lesser score has the same score.
LEMMA DominatingScores ==
  ASSUME FusionInv, request \in Requests, request.k >= 0, NEW c, NEW d, Dominates(d, c),
         Score(request, rankings, c) >= Score(request, rankings, d)
  PROVE  Score(request, rankings, d) = Score(request, rankings, c)
<1>1. /\ rankings \in Seq(Seq(Docs))
      /\ \A n \in DOMAIN rankings : IsRanking(rankings[n], request.window)
  BY DEF FusionInv
<1>2. /\ Score(request, rankings, c) \in Int /\ Score(request, rankings, d) \in Int
      /\ Score(request, rankings, c) <= Score(request, rankings, d)
  BY <1>1, ScoresInOrder DEF Dominates
<1> QED BY <1>2

LEMMA FusionIsFair == FusionInv => FusionRespectsRankings
<1> SUFFICES ASSUME FusionInv, answer # <<>> PROVE FusionRespectsRankings
  BY DEF FusionRespectsRankings
<1>1. request \in Requests /\ Len(rankings) = request.queries
  BY DEF FusionInv
<1>2. PICK docs \in Combine(request, rankings) : answer = <<docs>>
  BY DEF FusionInv
<1>3. /\ rankings \in Seq(Seq(Docs)) /\ request.window \in Nat
      /\ request.size \in Nat \ {0} /\ request.queries \in Nat /\ request.k \in Int
      /\ \A n \in DOMAIN rankings : IsRanking(rankings[n], request.window)
  BY <1>1, RetrievalAssumption, FloatAssumption DEF FusionInv
<1> DEFINE Fair ==
      /\ IsInjective(docs)
      /\ request.k >= 0 =>
           \A i \in DOMAIN docs : \A d \in Found(rankings) \ ToSet(SubSeq(docs, 1, i)) :
             Dominates(d, docs[i]) =>
               /\ request.queries > 1
               /\ Score(request, rankings, d) = Score(request, rankings, docs[i])
      /\ request.queries > 1 =>
           Len(docs) = Min({request.size, Cardinality(Found(rankings))})
<1>4. SUFFICES Fair
  BY <1>2 DEF FusionRespectsRankings
<1>5. CASE Len(rankings) = 1
  <2>1. docs = rankings[1] /\ 1 \in DOMAIN rankings /\ DOMAIN rankings = {1}
    BY <1>2, <1>3, <1>5 DEF Combine
  <2>2. IsRanking(docs, request.window) /\ docs \in Seq(Docs) /\ Len(docs) \in Nat
    BY <1>3, <2>1 DEF IsRanking
  <2>3. Found(rankings) = ToSet(docs)
    BY <2>1 DEF Found
  <2>4. ASSUME NEW i \in DOMAIN docs,
               NEW d \in Found(rankings) \ ToSet(SubSeq(docs, 1, i)), Dominates(d, docs[i])
        PROVE  FALSE
    <3>1. i \in 1..Len(docs) /\ i \in 0..Len(docs)
      BY <2>2
    <3>2. ToSet(SubSeq(docs, 1, i)) = {docs[n] : n \in 1..i}
      BY <2>2, <3>1, FirstOnes
    <3>3. d \in ToSet(docs)
      BY <2>3
    <3>4. RankIn(docs, d) \in 1..Len(docs) /\ docs[RankIn(docs, d)] = d
      BY <1>3, <2>2, <3>3, PlaceOf
    <3>5. RankIn(docs, docs[i]) = i
      BY <1>3, <2>2, PlaceIs
    <3>6. RankIn(docs, d) < RankIn(docs, docs[i])
      BY <2>1, <2>4 DEF Dominates
    <3>7. RankIn(docs, d) \in 1..i
      BY <3>1, <3>4, <3>5, <3>6
    <3> QED BY <3>2, <3>4, <3>7
  <2> QED BY <1>1, <1>5, <2>2, <2>4 DEF IsRanking
<1>6. CASE Len(rankings) # 1
  <2>1. PICK s \in ByScore(request, rankings) : docs = FirstN(s, request.size)
    BY <1>2, <1>6 DEF Combine
  <2>2. Found(rankings) \subseteq Docs
    <3>1. ASSUME NEW n \in DOMAIN rankings PROVE ToSet(rankings[n]) \subseteq Docs
      <4>1. rankings[n] \in Seq(Docs)
        BY <1>3 DEF IsRanking
      <4> QED BY <4>1 DEF ToSet
    <3> QED BY <3>1 DEF Found
  <2>3. IsFiniteSet(Found(rankings))
    BY <2>2, RetrievalAssumption, FS_Subset
  <2>4. /\ s \in Seq(Found(rankings)) /\ Len(s) = Cardinality(Found(rankings))
        /\ IsInjective(s)
        /\ \A x \in Found(rankings) : \E i \in 1..Len(s) : s[i] = x
    <3>1. s \in SetToSeqs(Found(rankings))
      BY <2>1 DEF ByScore
    <3> QED BY <2>3, <3>1, OrdersOfSet
  <2>5. DOMAIN s = 1..Len(s) /\ Len(s) \in Nat
    BY <2>4
  <2>6. \A i, j \in 1..Len(s) :
          i < j => Score(request, rankings, s[i]) >= Score(request, rankings, s[j])
    BY <2>1, <2>5 DEF ByScore
  <2>7. PICK n : n = Min({request.size, Len(s)})
    OBVIOUS
  <2>8. n \in 0..Len(s)
    <3>1. n \in Nat /\ n <= Len(s)
      BY <1>3, <2>5, <2>7, LeastOfTwo
    <3> QED BY <2>5, <3>1
  <2>9. docs = SubSeq(s, 1, n)
    BY <2>1, <2>7 DEF FirstN
  <2>10. /\ docs \in Seq(Found(rankings)) /\ Len(docs) = n /\ DOMAIN docs = 1..n
         /\ \A i \in 1..n : docs[i] = s[i]
    BY <2>4, <2>8, <2>9, FirstOnes
  <2>11. IsInjective(docs)
    BY <2>4, <2>5, <2>8, <2>10 DEF IsInjective
  <2>12. Len(docs) = Min({request.size, Cardinality(Found(rankings))})
    BY <2>4, <2>7, <2>10
  <2>13. ASSUME NEW i \in DOMAIN docs,
                NEW d \in Found(rankings) \ ToSet(SubSeq(docs, 1, i)), Dominates(d, docs[i]),
                request.k >= 0
         PROVE  Score(request, rankings, d) = Score(request, rankings, docs[i])
    <3>1. i \in 1..n /\ i \in 0..Len(docs) /\ i \in 1..Len(s)
      BY <2>5, <2>8, <2>10
    <3>2. ToSet(SubSeq(docs, 1, i)) = {docs[k] : k \in 1..i}
      BY <2>10, <3>1, FirstOnes
    <3>3. PICK j \in 1..Len(s) : s[j] = d
      BY <2>4
    <3>4. i < j
      <4> SUFFICES ASSUME ~(i < j) PROVE FALSE
        OBVIOUS
      <4>1. j \in 1..i /\ j \in 1..n
        BY <2>5, <2>8, <3>1
      <4>2. docs[j] = d
        BY <2>10, <3>3, <4>1
      <4> QED BY <3>2, <4>1, <4>2
    <3>5. Score(request, rankings, s[i]) >= Score(request, rankings, s[j])
      BY <2>6, <3>1, <3>4
    <3>6. Score(request, rankings, docs[i]) >= Score(request, rankings, d)
      BY <2>10, <3>1, <3>3, <3>5
    <3> QED BY <1>1, <2>13, <3>6, DominatingScores
  <2>14. request.queries > 1
    <3>1. Len(rankings) # 0
      BY <1>1, <1>3 DEF FusionInv
    <3> QED BY <1>1, <1>3, <1>6, <3>1
  <2> QED BY <2>11, <2>12, <2>13, <2>14
<1> QED BY <1>5, <1>6

\* An rrf query answers with a document after one that some ranking puts before it
\* and none after it only if their scores were rounded to the same float: for any
\* rankings, any k that is not negative, and any floats whose sums and quotients
\* are rounded in order (FloatAssumption).
THEOREM FusionsRespectRankings == RetrievalSpec => []FusionRespectsRankings
<1>1. FusionInv /\ [RetrievalNext]_retrievalVars => FusionInv'
  BY FusionStep
<1> QED BY <1>1, FusionFirst, FusionIsFair, PTL DEF RetrievalSpec

-----------------------------------------------------------------------------
(* The embeddings of texts *)

Places == {"idle", "select", "mark", "get", "encode", "put", "join", "done"}
AnyField == Fields \cup {NoJob.field}
Answers == [task : Tasks \cup {"none"}, text : Texts \cup {"none"}]

\* The types of what the fibers keep.  The cache is not among them: what it holds
\* is said below.
EmbedTypes ==
  /\ fields \in SUBSET AnyField
  /\ seen \in [Embedders -> SUBSET AnyField]
  /\ job \in [Embedders -> [task : Tasks, field : AnyField, texts : Seq(Texts)]]
  /\ place \in [Embedders -> Places]
  /\ found \in [Embedders -> Seq(Answers)]
  /\ made \in [Embedders -> Seq(Answers)]
  /\ vectors \in [Embedders -> Seq(Answers)]
  /\ short \in SUBSET Embedders
  /\ clashed \in SUBSET Embedders
  /\ jobs \in Nat

\* What the cache may answer for text i of a batch, and what its caller may get.
Right(e, i) == Embeddings(e, job[e].texts[i]) \cup {Missing}
Final(e, i) ==
  Embeddings(e, job[e].texts[i])
    \cup (IF e \in short /\ job[e].field \notin Uncached THEN {Missing} ELSE {})

MemoIsRight ==
  \A k \in DOMAIN memo : \E v \in DOMAIN KeyOf : KeyOf[v] = k /\ memo[k] = Vector(v[1], v[2])

\* What the cache answered is about the texts of the batch, each at its place.
FoundIsRight(e) ==
  place[e] \in {"encode", "put"} =>
    /\ Len(found[e]) = Len(job[e].texts)
    /\ \A i \in 1..Len(found[e]) :
         /\ found[e][i] \in Right(e, i)
         /\ job[e].field \in Uncached => found[e][i] = Missing

\* What the model answered is about the texts the cache did not have, in order.
MadeIsRight(e) ==
  place[e] = "put" =>
    /\ Len(made[e]) <= Missed(e, Len(found[e]))
    /\ e \notin short => Len(made[e]) = Missed(e, Len(found[e]))
    /\ \A n \in 1..Len(made[e]) :
         made[e][n] = Vector(job[e].task, job[e].texts[NonCached(e)[n]])

VectorsAreRight(e) ==
  /\ Len(vectors[e]) <= Len(job[e].texts)
  /\ \A i \in 1..Len(vectors[e]) : vectors[e][i] \in Final(e, i)
  /\ place[e] \notin {"join", "done"} => vectors[e] = <<>>

\* A batch that is worked on has texts; and only those of a document meet the map.
BatchIsGiven(e) ==
  /\ place[e] # "idle" => job[e].texts # <<>>
  /\ place[e] \in {"select", "mark", "join"} => job[e].task = "doc"

Fiber(e) == FoundIsRight(e) /\ MadeIsRight(e) /\ VectorsAreRight(e) /\ BatchIsGiven(e)

EmbedInv == EmbedTypes /\ MemoIsRight /\ \A e \in Embedders : Fiber(e)

\* A text's own embedding is one of those that may stand for it.
LEMMA OwnEmbedding ==
  ASSUME NEW e, NEW text \in Texts, job[e].task \in Tasks
  PROVE  /\ Vector(job[e].task, text) \in Embeddings(e, text)
         /\ Embeddings(e, text) \subseteq Answers
<1>1. /\ <<job[e].task, text>> \in DOMAIN KeyOf
      /\ \A v \in DOMAIN KeyOf : Vector(v[1], v[2]) \in Answers
  BY EmbeddingAssumption DEF Vector, Answers
<1>2. <<job[e].task, text>> \in {w \in DOMAIN KeyOf : KeyOf[w] = KeyOf[<<job[e].task, text>>]}
  BY <1>1
<1>3. Vector(job[e].task, text) \in Answers
  BY DEF Vector, Answers
<1>4. CASE job[e].field \in Uncached
  BY <1>3, <1>4 DEF Embeddings
<1>5. CASE job[e].field \notin Uncached
  <2>1. /\ <<job[e].task, text>>[1] = job[e].task
        /\ <<job[e].task, text>>[2] = text
    OBVIOUS
  <2>2. Embeddings(e, text) =
          {Vector(v[1], v[2]) :
             v \in {w \in DOMAIN KeyOf : KeyOf[w] = KeyOf[<<job[e].task, text>>]}}
    BY <1>5 DEF Embeddings
  <2> QED BY <1>1, <1>2, <2>1, <2>2
<1> QED BY <1>4, <1>5

\* A text that the cache does not have is counted once.
LEMMA MissedGrows ==
  ASSUME NEW e, NEW i \in Nat
  PROVE  /\ Missed(e, i) \in Nat /\ Missed(e, 0) = 0
         /\ found[e][i + 1] = Missing => Missed(e, i + 1) = Missed(e, i) + 1
         /\ found[e][i + 1] # Missing => Missed(e, i + 1) = Missed(e, i)
<1> DEFINE M(n) == {j \in 1..n : found[e][j] = Missing}
<1>1. ASSUME NEW n \in Nat PROVE IsFiniteSet(M(n)) /\ Cardinality(M(n)) \in Nat
  BY FS_Interval, FS_Subset, FS_CardinalityType, 0 \in Int, 1 \in Int, n \in Int
<1>2. M(0) = {}
  OBVIOUS
<1>3. CASE found[e][i + 1] = Missing
  <2>1. M(i + 1) = M(i) \cup {i + 1} /\ i + 1 \notin M(i)
    BY <1>3
  <2>2. Cardinality(M(i + 1)) = Cardinality(M(i)) + 1
    BY <1>1, <2>1, FS_AddElement
  <2> QED BY <1>1, <1>2, <1>3, <2>2, FS_EmptySet DEF Missed
<1>4. CASE found[e][i + 1] # Missing
  <2>1. M(i + 1) = M(i)
    BY <1>4
  <2> QED BY <1>1, <1>2, <1>4, <2>1, FS_EmptySet DEF Missed
<1> QED BY <1>3, <1>4

LEMMA MissedIsMonotone ==
  ASSUME NEW e, NEW i \in Nat, NEW j \in Nat, i <= j
  PROVE  Missed(e, i) <= Missed(e, j)
<1> DEFINE M(n) == {k \in 1..n : found[e][k] = Missing}
<1>1. M(i) \subseteq M(j)
  OBVIOUS
<1>2. IsFiniteSet(M(j))
  BY FS_Interval, FS_Subset, 1 \in Int, j \in Int
<1> QED BY <1>1, <1>2, FS_Subset DEF Missed

\* So two of these texts have different numbers.
LEMMA MissedIsUnique ==
  ASSUME NEW e, NEW i \in Nat \ {0}, NEW j \in Nat \ {0}, i < j,
         found[e][j] = Missing
  PROVE  Missed(e, i) < Missed(e, j)
<1>1. PICK k \in Nat : k = j - 1
  OBVIOUS
<1>2. k + 1 = j /\ i <= k
  BY <1>1
<1>3. Missed(e, j) = Missed(e, k) + 1 /\ Missed(e, k) \in Nat /\ Missed(e, i) \in Nat
  BY <1>2, MissedGrows
<1>4. Missed(e, i) <= Missed(e, k)
  BY <1>2, MissedIsMonotone
<1> QED BY <1>3, <1>4

\* A nonempty bounded set of numbers has a greatest one.
LEMMA GreatestNatural ==
  ASSUME NEW n \in Nat, NEW T, T \subseteq 1..n, T # {}
  PROVE  \E x \in T : \A y \in T : y <= x
<1> DEFINE U == {n - x : x \in T}
<1>1. U \subseteq Nat /\ U # {}
  <2>1. \A x \in T : x \in Nat /\ n - x \in Nat
    OBVIOUS
  <2>2. PICK x \in T : TRUE
    OBVIOUS
  <2>3. n - x \in U
    OBVIOUS
  <2> QED BY <2>1, <2>3
<1>2. PICK u \in U : \A y \in U : u <= y
  BY <1>1, LeastNatural
<1>3. PICK x \in T : u = n - x
  OBVIOUS
<1>4. ASSUME NEW y \in T PROVE y <= x
  <2>1. u <= n - y
    BY <1>2
  <2> QED BY <1>3, <2>1
<1> QED BY <1>4

\* Each number up to their count is that of one of these texts: it is the first
\* text up to which so many are missing.
LEMMA NonCachedIs ==
  ASSUME EmbedTypes, NEW e \in Embedders, NEW n \in 1..Missed(e, Len(found[e]))
  PROVE  /\ NonCached(e)[n] \in 1..Len(found[e])
         /\ found[e][NonCached(e)[n]] = Missing
         /\ Missed(e, NonCached(e)[n]) = n
<1>1. found[e] \in Seq(Answers) /\ Len(found[e]) \in Nat
      /\ DOMAIN found[e] = 1..Len(found[e])
  BY DEF EmbedTypes
<1> DEFINE T == {i \in 1..Len(found[e]) : n <= Missed(e, i)}
<1>2. Missed(e, Len(found[e])) \in Nat /\ Missed(e, 0) = 0 /\ n \in Nat \ {0}
  BY <1>1, MissedGrows, 0 \in Nat
<1>3. Len(found[e]) # 0 /\ Len(found[e]) \in T
  BY <1>1, <1>2
<1>4. T \subseteq Nat /\ T # {}
  BY <1>1, <1>3
<1> HIDE DEF T
<1>5. PICK i \in T : \A y \in T : i <= y
  BY <1>4, LeastNatural
<1>6. i \in 1..Len(found[e]) /\ n <= Missed(e, i)
  BY <1>5 DEF T
<1>7. PICK k \in Nat : k + 1 = i
  <2>1. i - 1 \in Nat /\ (i - 1) + 1 = i
    BY <1>1, <1>6
  <2> QED BY <2>1
<1>8. Missed(e, k) < n
  <2>1. k \notin T
    BY <1>1, <1>5, <1>6, <1>7
  <2>2. CASE k = 0
    BY <1>2, <2>2
  <2>3. CASE k # 0
    <3>1. k \in 1..Len(found[e]) /\ Missed(e, k) \in Nat
      BY <1>1, <1>6, <1>7, <2>3, MissedGrows
    <3> QED BY <1>2, <2>1, <3>1 DEF T
  <2> QED BY <2>2, <2>3
<1>9. Missed(e, k) \in Nat
      /\ (found[e][i] = Missing => Missed(e, i) = Missed(e, k) + 1)
      /\ (found[e][i] # Missing => Missed(e, i) = Missed(e, k))
  BY <1>7, MissedGrows
<1>10. found[e][i] = Missing /\ Missed(e, i) = n
  BY <1>2, <1>6, <1>8, <1>9
<1>11. NonCached(e)[n] = CHOOSE x \in DOMAIN found[e] : found[e][x] = Missing /\ Missed(e, x) = n
  BY DEF NonCached
<1> QED BY <1>1, <1>6, <1>10, <1>11

\* And a missing text is found again under its number.
LEMMA NonCachedAgain ==
  ASSUME EmbedTypes, NEW e \in Embedders, NEW i \in 1..Len(found[e]), found[e][i] = Missing
  PROVE  /\ Missed(e, i) \in 1..Missed(e, Len(found[e]))
         /\ NonCached(e)[Missed(e, i)] = i
<1>1. found[e] \in Seq(Answers) /\ Len(found[e]) \in Nat
  BY DEF EmbedTypes
<1>2. PICK k \in Nat : k + 1 = i
  <2>1. i - 1 \in Nat /\ (i - 1) + 1 = i
    BY <1>1
  <2> QED BY <2>1
<1>3. Missed(e, k) \in Nat /\ Missed(e, i) = Missed(e, k) + 1
  BY <1>2, MissedGrows
<1>4. Missed(e, i) <= Missed(e, Len(found[e])) /\ Missed(e, Len(found[e])) \in Nat
  BY <1>1, MissedIsMonotone, MissedGrows
<1>5. Missed(e, i) \in 1..Missed(e, Len(found[e]))
  BY <1>3, <1>4
<1>6. PICK j \in 1..Len(found[e]) : /\ j = NonCached(e)[Missed(e, i)]
                                    /\ found[e][j] = Missing /\ Missed(e, j) = Missed(e, i)
  BY <1>5, NonCachedIs
<1>7. i \in Nat \ {0} /\ j \in Nat \ {0} /\ Missed(e, i) \in Nat
  BY <1>1, <1>3
<1>8. ~(i < j) /\ ~(j < i)
  BY <1>6, <1>7, MissedIsUnique
<1> QED BY <1>5, <1>6, <1>7, <1>8

\* What a fiber does changes nothing of another.
LEMMA OtherFibers ==
  ASSUME NEW d, Fiber(d), job'[d] = job[d], place'[d] = place[d], found'[d] = found[d],
         made'[d] = made[d], vectors'[d] = vectors[d], d \in short' <=> d \in short
  PROVE  Fiber(d)'
<1>1. \A n : Missed(d, n)' = Missed(d, n)
  BY DEF Missed
<1>2. NonCached(d)' = NonCached(d)
  BY <1>1 DEF NonCached
<1>3. \A n : Right(d, n)' = Right(d, n) /\ Final(d, n)' = Final(d, n)
  BY DEF Right, Final, Embeddings
<1>4. FoundIsRight(d)'
  BY <1>3 DEF Fiber, FoundIsRight
<1>5. MadeIsRight(d)'
  BY <1>1, <1>2 DEF Fiber, MadeIsRight
<1>6. VectorsAreRight(d)'
  BY <1>3 DEF Fiber, VectorsAreRight
<1>7. BatchIsGiven(d)'
  BY DEF Fiber, BatchIsGiven
<1> QED BY <1>4, <1>5, <1>6, <1>7 DEF Fiber

LEMMA EmbedKeeps ==
  ASSUME EmbeddingAssumption, EmbedInv, NEW e \in Embedders, Embed(e)
  PROVE  EmbedInv'
<1>1. PICK task \in Tasks, f \in Fields, texts \in Batches :
        /\ job' = [job EXCEPT ![e] = [task |-> task, field |-> f, texts |-> texts]]
        /\ Goes(e, IF task = "doc" THEN "select" ELSE "get")
  BY DEF Embed
<1>2. texts \in Seq(Texts) /\ texts # <<>>
  BY DEF EmbeddingAssumption
<1>3. EmbedTypes'
  BY <1>1, <1>2 DEF EmbedInv, EmbedTypes, Embed, Goes, AnyField, Places
<1>4. MemoIsRight'
  BY DEF EmbedInv, MemoIsRight, Embed
<1>5. ASSUME NEW d \in Embedders PROVE Fiber(d)'
  <2>1. CASE d # e
    BY <1>1, <2>1, OtherFibers DEF EmbedInv, EmbedTypes, Embed, Goes
  <2>2. CASE d = e
    <3>1. place'[e] \in {"select", "get"} /\ (place'[e] = "select" => task = "doc")
          /\ job'[e] = [task |-> task, field |-> f, texts |-> texts] /\ vectors'[e] = <<>>
      BY <1>1 DEF EmbedInv, EmbedTypes, Embed, Goes
    <3> QED BY <1>2, <2>2, <3>1
            DEF Fiber, FoundIsRight, MadeIsRight, VectorsAreRight, BatchIsGiven
  <2> QED BY <2>1, <2>2
<1> QED BY <1>3, <1>4, <1>5 DEF EmbedInv

LEMMA SelectKeeps ==
  ASSUME EmbedInv, NEW e \in Embedders, SelectField(e)
  PROVE  EmbedInv'
<1>1. EmbedTypes'
  BY DEF EmbedInv, EmbedTypes, SelectField, Goes, Places, Meets, Putting
<1>2. MemoIsRight'
  BY DEF EmbedInv, MemoIsRight, SelectField
<1>3. ASSUME NEW d \in Embedders PROVE Fiber(d)'
  <2>1. CASE d # e
    BY <2>1, OtherFibers DEF EmbedInv, EmbedTypes, SelectField, Goes
  <2>2. CASE d = e
    <3>1. /\ place[e] = "select" /\ place'[e] \in {"get", "mark"}
          /\ job'[e] = job[e] /\ vectors'[e] = vectors[e]
      BY DEF EmbedInv, EmbedTypes, SelectField, Goes
    <3> QED BY <2>2, <3>1
            DEF EmbedInv, Fiber, FoundIsRight, MadeIsRight, VectorsAreRight, BatchIsGiven
  <2> QED BY <2>1, <2>2
<1> QED BY <1>1, <1>2, <1>3 DEF EmbedInv

LEMMA MarkKeeps ==
  ASSUME EmbedInv, NEW e \in Embedders, MarkField(e)
  PROVE  EmbedInv'
<1>1. EmbedTypes'
  BY DEF EmbedInv, EmbedTypes, MarkField, Goes, Places
<1>2. MemoIsRight'
  BY DEF EmbedInv, MemoIsRight, MarkField
<1>3. ASSUME NEW d \in Embedders PROVE Fiber(d)'
  <2>1. CASE d # e
    BY <2>1, OtherFibers DEF EmbedInv, EmbedTypes, MarkField, Goes
  <2>2. CASE d = e
    <3>1. /\ place[e] = "mark" /\ place'[e] = "get"
          /\ job'[e] = job[e] /\ vectors'[e] = vectors[e]
      BY DEF EmbedInv, EmbedTypes, MarkField, Goes
    <3> QED BY <2>2, <3>1
            DEF EmbedInv, Fiber, FoundIsRight, MadeIsRight, VectorsAreRight, BatchIsGiven
  <2> QED BY <2>1, <2>2
<1> QED BY <1>1, <1>2, <1>3 DEF EmbedInv

LEMMA GetKeeps ==
  ASSUME EmbedInv, NEW e \in Embedders, GetMemo(e)
  PROVE  EmbedInv'
<1> DEFINE texts == job[e].texts
           reply == [i \in DOMAIN texts |-> InMemo(e, texts[i])]
<1>1. /\ texts \in Seq(Texts) /\ Len(texts) \in Nat /\ DOMAIN texts = 1..Len(texts)
      /\ job[e].task \in Tasks
  BY DEF EmbedInv, EmbedTypes
<1>2. ASSUME NEW i \in 1..Len(texts)
      PROVE  /\ reply[i] \in Right(e, i) /\ reply[i] \in Answers
             /\ job[e].field \in Uncached => reply[i] = Missing
  <2>1. texts[i] \in Texts /\ reply[i] = InMemo(e, texts[i])
    BY <1>1
  <2>2. Embeddings(e, texts[i]) \subseteq Answers /\ Missing \in Answers
    BY <1>1, <2>1, OwnEmbedding DEF Answers, Missing
  <2>3. PICK k : k = KeyOf[<<job[e].task, texts[i]>>]
    OBVIOUS
  <2>4. CASE job[e].field \notin Uncached /\ k \in DOMAIN memo
    <3>1. PICK v \in DOMAIN KeyOf : KeyOf[v] = k /\ memo[k] = Vector(v[1], v[2])
      BY <2>4 DEF EmbedInv, MemoIsRight
    <3>2. InMemo(e, texts[i]) = memo[k]
      BY <2>3, <2>4 DEF InMemo, Key
    <3>3. memo[k] \in Embeddings(e, texts[i])
      BY <2>3, <2>4, <3>1 DEF Embeddings
    <3> QED BY <2>1, <2>2, <2>4, <3>2, <3>3 DEF Right
  <2>5. CASE ~(job[e].field \notin Uncached /\ k \in DOMAIN memo)
    <3>1. InMemo(e, texts[i]) = Missing
      BY <2>3, <2>5 DEF InMemo, Key
    <3> QED BY <2>1, <2>2, <3>1 DEF Right
  <2> QED BY <2>4, <2>5
<1>3. reply \in Seq(Answers) /\ Len(reply) = Len(texts)
  <2>1. reply \in [1..Len(texts) -> Answers]
    BY <1>1, <1>2
  <2> QED BY <1>1, <2>1, SeqDef
<1>4. found' = [found EXCEPT ![e] = reply]
  BY DEF GetMemo
<1> HIDE DEF reply
<1>5. EmbedTypes'
  BY <1>3, <1>4 DEF EmbedInv, EmbedTypes, GetMemo, Goes, Places
<1>6. MemoIsRight'
  BY DEF EmbedInv, MemoIsRight, GetMemo
<1>7. ASSUME NEW d \in Embedders PROVE Fiber(d)'
  <2>1. CASE d # e
    BY <1>4, <2>1, OtherFibers DEF EmbedInv, EmbedTypes, GetMemo, Goes
  <2>2. CASE d = e
    <3>1. /\ place[e] = "get" /\ place'[e] = "encode" /\ found'[e] = reply
          /\ job'[e] = job[e] /\ vectors'[e] = vectors[e]
      BY <1>4 DEF EmbedInv, EmbedTypes, GetMemo, Goes
    <3>2. \A i : Right(e, i)' = Right(e, i)
      BY <3>1 DEF Right, Embeddings
    <3>3. FoundIsRight(e)'
      BY <1>2, <1>3, <3>1, <3>2 DEF FoundIsRight
    <3> QED BY <2>2, <3>1, <3>3 DEF EmbedInv, Fiber, MadeIsRight, VectorsAreRight, BatchIsGiven
  <2> QED BY <2>1, <2>2
<1> QED BY <1>5, <1>6, <1>7 DEF EmbedInv

LEMMA CallKeeps ==
  ASSUME EmbedInv, NEW e \in Embedders, CallModel(e)
  PROVE  EmbedInv'
<1> DEFINE m == Missed(e, Len(found[e]))
           texts == [i \in DOMAIN NonCached(e) |-> job[e].texts[NonCached(e)[i]]]
           reply(n) == [i \in 1..n |-> Vector(job[e].task, texts[i])]
<1>1. /\ place[e] = "encode" /\ Len(found[e]) \in Nat /\ job[e].task \in Tasks
      /\ job[e].texts \in Seq(Texts) /\ Len(found[e]) = Len(job[e].texts)
  BY DEF EmbedInv, EmbedTypes, CallModel, Fiber, FoundIsRight
<1>2. m \in Nat
  BY <1>1, MissedGrows
<1>3. DOMAIN NonCached(e) = 1..m
  BY DEF NonCached
<1>4. ASSUME NEW i \in 1..m
      PROVE  texts[i] \in Texts /\ texts[i] = job[e].texts[NonCached(e)[i]]
  <2>1. NonCached(e)[i] \in 1..Len(found[e])
    BY NonCachedIs DEF EmbedInv
  <2> QED BY <1>1, <1>3, <2>1
<1>5. texts \in Seq(Texts) /\ Len(texts) = m
  <2>1. texts \in [1..m -> Texts]
    BY <1>3, <1>4
  <2> QED BY <1>2, <2>1, SeqDef
<1>6. PICK n \in {Len(texts), IF texts = <<>> THEN 0 ELSE Len(texts) - 1} :
        /\ made' = [made EXCEPT ![e] = reply(n)]
        /\ short' = IF n < Len(texts) THEN short \cup {e} ELSE short
  BY DEF CallModel
<1>7. n \in Nat /\ n <= m /\ (e \notin short' => n = m)
  <2>1. texts # <<>> => Len(texts) # 0
    BY <1>5
  <2>2. n < m => e \in short'
    BY <1>5, <1>6
  <2> QED BY <1>2, <1>5, <2>1, <2>2
<1>8. reply(n) \in Seq(Answers) /\ Len(reply(n)) = n
  <2>1. ASSUME NEW i \in 1..n PROVE Vector(job[e].task, texts[i]) \in Answers
    <3>1. i \in 1..m
      BY <1>2, <1>7
    <3> QED BY <1>1, <1>4, <3>1 DEF Vector, Answers
  <2>2. PICK f : f = reply(n)
    OBVIOUS
  <2>3. f \in [1..n -> Answers]
    BY <2>1, <2>2
  <2>4. f \in Seq(Answers) /\ Len(f) = n
    BY <1>7, <2>3, SeqDef
  <2> QED BY <2>2, <2>4
<1>9. ASSUME NEW i \in 1..n
      PROVE  reply(n)[i] = Vector(job[e].task, job[e].texts[NonCached(e)[i]])
  <2>1. i \in 1..m
    BY <1>2, <1>7
  <2> QED BY <1>4, <2>1
<1>13. short' \in SUBSET Embedders /\ \A d \in Embedders \ {e} : d \in short' <=> d \in short
  BY <1>6 DEF EmbedInv, EmbedTypes
<1> HIDE DEF m, texts, reply
<1>10. EmbedTypes'
  BY <1>6, <1>13, <1>8 DEF EmbedInv, EmbedTypes, CallModel, Goes, Places
<1>11. MemoIsRight'
  BY DEF EmbedInv, MemoIsRight, CallModel
<1>12. ASSUME NEW d \in Embedders PROVE Fiber(d)'
  <2>1. CASE d # e
    BY <1>6, <1>13, <2>1, OtherFibers DEF EmbedInv, EmbedTypes, CallModel, Goes
  <2>2. CASE d = e
    <3>1. /\ place'[e] = "put" /\ made'[e] = reply(n) /\ found' = found
          /\ job' = job /\ vectors' = vectors
      BY <1>6 DEF EmbedInv, EmbedTypes, CallModel, Goes
    <3>2. \A i : Right(e, i)' = Right(e, i) /\ Missed(e, i)' = Missed(e, i)
      BY <3>1 DEF Right, Embeddings, Missed
    <3>3. NonCached(e)' = NonCached(e)
      BY <3>1, <3>2 DEF NonCached
    <3>4. FoundIsRight(e)'
      BY <1>1, <3>1, <3>2 DEF EmbedInv, Fiber, FoundIsRight
    <3>5. Missed(e, Len(found[e]))' = m
      BY <3>1, <3>2 DEF m
    <3>6. MadeIsRight(e)'
      BY <1>7, <1>8, <1>9, <3>1, <3>3, <3>5 DEF MadeIsRight
    <3>7. VectorsAreRight(e)'
      BY <1>1, <3>1 DEF EmbedInv, Fiber, VectorsAreRight
    <3> QED BY <1>1, <2>2, <3>1, <3>2, <3>4, <3>6, <3>7
            DEF EmbedInv, Fiber, BatchIsGiven
  <2> QED BY <2>1, <2>2
<1> QED BY <1>10, <1>11, <1>12 DEF EmbedInv

\* mergeEmbeds puts each embedding at the place of its text.
LEMMA MergedIsRight ==
  ASSUME EmbedInv, NEW e \in Embedders, place[e] = "put"
  PROVE  /\ Merged(e) \in Seq(Answers) /\ Len(Merged(e)) = Len(job[e].texts)
         /\ job[e].field \notin Uncached =>
              \A i \in 1..Len(Merged(e)) : Merged(e)[i] \in Final(e, i)
<1>1. /\ found[e] \in Seq(Answers) /\ Len(found[e]) \in Nat
      /\ DOMAIN found[e] = 1..Len(found[e])
      /\ job[e].task \in Tasks /\ job[e].texts \in Seq(Texts)
      /\ Len(found[e]) = Len(job[e].texts) /\ Len(made[e]) \in Nat
  BY DEF EmbedInv, EmbedTypes, Fiber, FoundIsRight
<1>2. ASSUME NEW i \in 1..Len(found[e])
      PROVE  /\ Merged(e)[i] \in Answers
             /\ job[e].field \notin Uncached => Merged(e)[i] \in Final(e, i)
  <2>1. /\ Right(e, i) \subseteq Answers /\ Right(e, i) \ {Missing} \subseteq Final(e, i)
        /\ Vector(job[e].task, job[e].texts[i]) \in Right(e, i) \cap Final(e, i)
    <3>1. job[e].texts[i] \in Texts
      BY <1>1
    <3>2. Missing \in Answers
      BY DEF Missing, Answers
    <3> QED BY <1>1, <3>1, <3>2, OwnEmbedding DEF Right, Final
  <2>2. CASE found[e][i] # Missing
    <3>1. Merged(e)[i] = found[e][i]
      BY <1>1, <2>2 DEF Merged
    <3>2. found[e][i] \in Right(e, i)
      BY DEF EmbedInv, Fiber, FoundIsRight
    <3> QED BY <2>1, <2>2, <3>1, <3>2
  <2>3. CASE found[e][i] = Missing /\ Missed(e, i) <= Len(made[e])
    <3>1. Missed(e, i) \in 1..Missed(e, Len(found[e])) /\ NonCached(e)[Missed(e, i)] = i
      BY <2>3, NonCachedAgain DEF EmbedInv
    <3>2. Missed(e, Len(found[e])) \in Nat
      BY <1>1, MissedGrows
    <3>3. Missed(e, i) \in 1..Len(made[e])
      BY <1>1, <2>3, <3>1, <3>2
    <3>4. made[e][Missed(e, i)] = Vector(job[e].task, job[e].texts[i])
      BY <3>1, <3>3 DEF EmbedInv, Fiber, MadeIsRight
    <3>5. Merged(e)[i] = made[e][Missed(e, i)]
      BY <1>1, <2>3 DEF Merged
    <3> QED BY <2>1, <3>4, <3>5
  <2>4. CASE found[e][i] = Missing /\ ~(Missed(e, i) <= Len(made[e]))
    <3>1. Merged(e)[i] = Missing
      BY <1>1, <2>4 DEF Merged
    <3>2. e \in short
      <4> SUFFICES ASSUME e \notin short PROVE FALSE
        OBVIOUS
      <4>1. Len(made[e]) = Missed(e, Len(found[e]))
        BY DEF EmbedInv, Fiber, MadeIsRight
      <4>2. Missed(e, i) \in 1..Missed(e, Len(found[e]))
        BY <2>4, NonCachedAgain DEF EmbedInv
      <4> QED BY <1>1, <2>4, <4>1, <4>2
    <3>3. Missing \in Answers
      BY DEF Missing, Answers
    <3> QED BY <3>1, <3>2, <3>3 DEF Final
  <2> QED BY <2>2, <2>3, <2>4
<1>3. DOMAIN Merged(e) = 1..Len(found[e])
  BY <1>1 DEF Merged
<1>4. Merged(e) \in [1..Len(found[e]) -> Answers]
  <2>1. Merged(e) = [i \in 1..Len(found[e]) |-> Merged(e)[i]]
    BY <1>1 DEF Merged
  <2> QED BY <1>2, <2>1
<1>5. Merged(e) \in Seq(Answers) /\ Len(Merged(e)) = Len(found[e])
  BY <1>1, <1>4, SeqDef
<1> QED BY <1>1, <1>2, <1>5

\* The cache gets the last of the embeddings of a key, which is one of its texts'.
LEMMA MemoWithIsRight ==
  ASSUME EmbedInv, NEW e \in Embedders, place[e] = "put", NEW k \in DOMAIN MemoWith(e)
  PROVE  \E v \in DOMAIN KeyOf : KeyOf[v] = k /\ MemoWith(e)[k] = Vector(v[1], v[2])
<1> DEFINE n == Len(made[e])
           key(i) == Key(job[e].task, job[e].texts[NonCached(e)[i]])
           keys == {key(i) : i \in 1..n}
           T == {i \in 1..n : key(i) = k}
           last == CHOOSE i \in 1..n : key(i) = k /\ \A j \in i+1..n : key(j) # k
<1>1. n \in Nat
  BY DEF EmbedInv, EmbedTypes
<1>2. k \in keys \cup DOMAIN memo
      /\ MemoWith(e)[k] = IF k \in keys THEN made[e][last] ELSE memo[k]
  BY DEF MemoWith
<1>3. CASE k \in keys
  <2>1. T \subseteq 1..n /\ T # {}
    BY <1>3
  <2>2. PICK x \in T : \A y \in T : y <= x
    BY <1>1, <2>1, GreatestNatural
  <2>3. x \in 1..n /\ key(x) = k /\ \A j \in x+1..n : key(j) # k
    <3>1. ASSUME NEW j \in x+1..n, key(j) = k PROVE FALSE
      <4>1. x \in 1..n /\ j \in Int /\ x + 1 <= j /\ j <= n
        BY <1>1, <2>2
      <4>2. j \in T
        BY <1>1, <3>1, <4>1
      <4> QED BY <1>1, <2>2, <4>1, <4>2
    <3> QED BY <2>2, <3>1
  <2>4. last \in 1..n /\ key(last) = k
    BY <2>3
  <2>5. PICK y : y = last
    OBVIOUS
  <2>6. y \in 1..n /\ key(y) = k
    BY <2>4, <2>5
  <2>7. made[e][y] = Vector(job[e].task, job[e].texts[NonCached(e)[y]])
    BY <2>6 DEF EmbedInv, Fiber, MadeIsRight
  <2>8. PICK x0 : x0 = job[e].texts[NonCached(e)[y]]
    OBVIOUS
  <2>9. x0 \in Texts /\ job[e].task \in Tasks
    <3>1. Len(made[e]) <= Missed(e, Len(found[e])) /\ Missed(e, Len(found[e])) \in Nat
      <4>1. Len(found[e]) \in Nat
        BY DEF EmbedInv, EmbedTypes
      <4> QED BY <4>1, MissedGrows DEF EmbedInv, Fiber, MadeIsRight
    <3>2. y \in 1..Missed(e, Len(found[e]))
      BY <1>1, <2>6, <3>1
    <3>3. NonCached(e)[y] \in 1..Len(found[e])
      BY <3>2, NonCachedIs DEF EmbedInv
    <3> QED BY <2>8, <3>3 DEF EmbedInv, EmbedTypes, Fiber, FoundIsRight
  <2>10. <<job[e].task, x0>> \in DOMAIN KeyOf /\ KeyOf[<<job[e].task, x0>>] = k
    BY <2>6, <2>8, <2>9, EmbeddingAssumption DEF Key
  <2>11. MemoWith(e)[k] = Vector(job[e].task, x0)
    BY <1>2, <1>3, <2>5, <2>7, <2>8
  <2>12. /\ <<job[e].task, x0>>[1] = job[e].task /\ <<job[e].task, x0>>[2] = x0
    OBVIOUS
  <2> QED BY <2>10, <2>11, <2>12
<1>4. CASE k \notin keys
  BY <1>2, <1>4 DEF EmbedInv, MemoIsRight
<1> QED BY <1>3, <1>4

\* Without a cache every text is sent to the model.
LEMMA MadeWithoutCache ==
  ASSUME EmbedInv, NEW e \in Embedders, place[e] = "put", job[e].field \in Uncached
  PROVE  /\ made[e] \in Seq(Answers) /\ Len(made[e]) <= Len(job[e].texts)
         /\ \A i \in 1..Len(made[e]) : made[e][i] \in Final(e, i)
<1> DEFINE N == Len(found[e])
<1>1. /\ N \in Nat /\ N = Len(job[e].texts) /\ made[e] \in Seq(Answers) /\ Len(made[e]) \in Nat
      /\ job[e].task \in Tasks /\ job[e].texts \in Seq(Texts)
      /\ \A i \in 1..N : found[e][i] = Missing
  BY DEF EmbedInv, EmbedTypes, Fiber, FoundIsRight
<1>2. ASSUME NEW i \in 0..N PROVE Missed(e, i) = i
  <2>1. {j \in 1..i : found[e][j] = Missing} = 1..i
    BY <1>1
  <2>2. i \in Int /\ i >= 0 /\ 1 \in Int
    BY <1>1
  <2>3. Cardinality(1..i) = IF 1 > i THEN 0 ELSE i - 1 + 1
    BY <2>2, FS_Interval
  <2>4. Cardinality(1..i) = i
    BY <2>2, <2>3
  <2> QED BY <2>1, <2>4 DEF Missed
<1>3. Missed(e, N) = N /\ Len(made[e]) <= N
  BY <1>1, <1>2 DEF EmbedInv, Fiber, MadeIsRight
<1>4. ASSUME NEW i \in 1..Len(made[e]) PROVE made[e][i] \in Final(e, i)
  <2>1. i \in 1..N
    BY <1>1, <1>3
  <2>2. NonCached(e)[i] \in 1..N /\ Missed(e, NonCached(e)[i]) = i
    BY <1>3, <2>1, NonCachedIs DEF EmbedInv
  <2>3. NonCached(e)[i] = i
    BY <1>1, <1>2, <2>2
  <2>4. made[e][i] = Vector(job[e].task, job[e].texts[i])
    BY <2>3 DEF EmbedInv, Fiber, MadeIsRight
  <2>5. job[e].texts[i] \in Texts
    BY <1>1, <2>1
  <2> QED BY <1>1, <2>4, <2>5, OwnEmbedding DEF Final
<1> QED BY <1>1, <1>3, <1>4

LEMMA AnsweredIsRight ==
  ASSUME EmbedInv, NEW e \in Embedders, place[e] = "put"
  PROVE  /\ Answered(e) \in Seq(Answers) /\ Len(Answered(e)) <= Len(job[e].texts)
         /\ \A i \in 1..Len(Answered(e)) : Answered(e)[i] \in Final(e, i)
<1>1. Len(job[e].texts) \in Nat
  BY DEF EmbedInv, EmbedTypes
<1>2. CASE job[e].field \in Uncached
  BY <1>2, MadeWithoutCache DEF Answered
<1>3. CASE job[e].field \notin Uncached
  BY <1>1, <1>3, MergedIsRight DEF Answered
<1> QED BY <1>2, <1>3

LEMMA PutKeeps ==
  ASSUME EmbedInv, NEW e \in Embedders, PutMemo(e)
  PROVE  EmbedInv'
<1>1. place[e] = "put"
  BY DEF PutMemo
<1>2. Answered(e) \in Seq(Answers) /\ Len(Answered(e)) <= Len(job[e].texts)
      /\ \A i \in 1..Len(Answered(e)) : Answered(e)[i] \in Final(e, i)
  BY <1>1, AnsweredIsRight
<1>3. EmbedTypes'
  <2>1. <<>> \in Seq(Answers)
    OBVIOUS
  <2> QED BY <1>2, <2>1 DEF EmbedInv, EmbedTypes, PutMemo, Goes, Places
<1>4. MemoIsRight'
  <2>1. PICK all : /\ all = IF job[e].field \in Uncached THEN memo ELSE MemoWith(e)
                   /\ \/ memo' = all
                      \/ \E kept \in kSubset(CacheSize, DOMAIN all) : memo' = Restrict(all, kept)
    BY DEF PutMemo
  <2>2. ASSUME NEW kept \in kSubset(CacheSize, DOMAIN all)
        PROVE  \A k \in kept : k \in DOMAIN all
    BY DEF kSubset
  <2>3. ASSUME NEW k \in DOMAIN memo'
        PROVE  k \in DOMAIN all /\ memo'[k] = all[k]
    BY <2>1, <2>2 DEF Restrict
  <2>4. \A k \in DOMAIN all : \E v \in DOMAIN KeyOf : KeyOf[v] = k /\ all[k] = Vector(v[1], v[2])
    <3>1. CASE job[e].field \in Uncached
      BY <2>1, <3>1 DEF EmbedInv, MemoIsRight
    <3>2. CASE job[e].field \notin Uncached
      BY <1>1, <2>1, <3>2, MemoWithIsRight
    <3> QED BY <3>1, <3>2
  <2> QED BY <2>3, <2>4 DEF MemoIsRight
<1>5. ASSUME NEW d \in Embedders PROVE Fiber(d)'
  <2>1. CASE d # e
    BY <2>1, OtherFibers DEF EmbedInv, EmbedTypes, PutMemo, Goes
  <2>2. CASE d = e
    <3>1. /\ place'[e] = IF job[e].task = "doc" THEN "join" ELSE "done"
          /\ job' = job /\ vectors'[e] = Answered(e) /\ short' = short
      BY DEF EmbedInv, EmbedTypes, PutMemo, Goes
    <3>2. \A i : Final(e, i)' = Final(e, i)
      BY <3>1 DEF Final, Embeddings
    <3>3. VectorsAreRight(e)'
      BY <1>2, <3>1, <3>2 DEF VectorsAreRight
    <3>4. job[e].texts # <<>>
      BY <1>1 DEF EmbedInv, Fiber, BatchIsGiven
    <3>5. BatchIsGiven(e)'
      BY <3>1, <3>4 DEF BatchIsGiven
    <3> QED BY <2>2, <3>1, <3>3, <3>5 DEF Fiber, FoundIsRight, MadeIsRight
  <2> QED BY <2>1, <2>2
<1> QED BY <1>3, <1>4, <1>5 DEF EmbedInv

\* A document's texts get the last answers to them.
LEMMA ByTextIsRight ==
  ASSUME EmbedInv, NEW e \in Embedders, EveryTextAnswered(e)
  PROVE  /\ ByText(e) \in Seq(Answers) /\ Len(ByText(e)) = Len(job[e].texts)
         /\ \A i \in 1..Len(ByText(e)) : ByText(e)[i] \in Final(e, i)
<1> DEFINE texts == job[e].texts
           places(i) == {j \in DOMAIN vectors[e] : job[e].texts[j] = texts[i]}
<1>1. /\ vectors[e] \in Seq(Answers) /\ DOMAIN vectors[e] = 1..Len(vectors[e])
      /\ Len(vectors[e]) \in Nat
      /\ texts \in Seq(Texts) /\ DOMAIN texts = 1..Len(texts) /\ Len(texts) \in Nat
  BY DEF EmbedInv, EmbedTypes
<1>2. ASSUME NEW i \in 1..Len(texts)
      PROVE  vectors[e][Max(places(i))] \in Answers /\ vectors[e][Max(places(i))] \in Final(e, i)
  <2>1. places(i) # {} /\ places(i) \subseteq 1..Len(vectors[e])
    BY <1>1 DEF EveryTextAnswered
  <2>2. PICK P : P = places(i)
    OBVIOUS
  <2>3. PICK x \in P : \A y \in P : y <= x
    BY <1>1, <2>1, <2>2, GreatestNatural
  <2>4. P \subseteq Int
    BY <2>1, <2>2
  <2>5. Max(P) \in P
    BY <2>3, <2>4 DEF Max
  <2>6. PICK j : j = Max(P)
    OBVIOUS
  <2>7. j \in 1..Len(vectors[e]) /\ job[e].texts[j] = texts[i]
    BY <2>1, <2>2, <2>5, <2>6
  <2>8. vectors[e][j] \in Final(e, j) /\ Final(e, j) = Final(e, i)
    BY <2>7 DEF EmbedInv, Fiber, VectorsAreRight, Final
  <2>9. vectors[e][j] \in Answers
    BY <1>1, <2>7
  <2> QED BY <2>2, <2>6, <2>8, <2>9
<1>3. ByText(e) = [i \in 1..Len(texts) |-> vectors[e][Max(places(i))]]
  BY <1>1 DEF ByText
<1> HIDE DEF texts, places
<1>4. ByText(e) \in [1..Len(texts) -> Answers]
  BY <1>2, <1>3
<1>5. ByText(e) \in Seq(Answers) /\ Len(ByText(e)) = Len(texts)
  BY <1>1, <1>4, SeqDef
<1>6. \A i \in 1..Len(ByText(e)) : ByText(e)[i] \in Final(e, i)
  BY <1>2, <1>3, <1>5
<1> QED BY <1>5, <1>6 DEF texts

LEMMA JoinKeeps ==
  ASSUME EmbedInv, NEW e \in Embedders, Join(e)
  PROVE  EmbedInv'
<1>1. PICK answer0 : /\ vectors' = [vectors EXCEPT ![e] = answer0]
                     /\ (answer0 = <<>> \/ (EveryTextAnswered(e) /\ answer0 = ByText(e)))
  <2>1. CASE EveryTextAnswered(e) /\ vectors' = [vectors EXCEPT ![e] = ByText(e)]
    BY <2>1
  <2>2. CASE vectors' = [vectors EXCEPT ![e] = <<>>]
    BY <2>2
  <2> QED BY <2>1, <2>2 DEF Join
<1>2. /\ answer0 \in Seq(Answers) /\ Len(answer0) <= Len(job[e].texts)
      /\ \A i \in 1..Len(answer0) : answer0[i] \in Final(e, i)
  <2>1. Len(job[e].texts) \in Nat
    BY DEF EmbedInv, EmbedTypes
  <2>2. CASE answer0 = <<>>
    BY <2>1, <2>2
  <2>3. CASE EveryTextAnswered(e) /\ answer0 = ByText(e)
    BY <2>1, <2>3, ByTextIsRight
  <2> QED BY <1>1, <2>2, <2>3
<1>3. EmbedTypes'
  BY <1>1, <1>2 DEF EmbedInv, EmbedTypes, Join, Goes, Places, Meets, Putting
<1>4. MemoIsRight'
  BY DEF EmbedInv, MemoIsRight, Join
<1>5. ASSUME NEW d \in Embedders PROVE Fiber(d)'
  <2>1. CASE d # e
    BY <1>1, <2>1, OtherFibers DEF EmbedInv, EmbedTypes, Join, Goes
  <2>2. CASE d = e
    <3>1. /\ place[e] = "join" /\ place'[e] = "done" /\ job' = job
          /\ vectors'[e] = answer0 /\ short' = short
      BY <1>1 DEF EmbedInv, EmbedTypes, Join, Goes
    <3>2. \A i : Final(e, i)' = Final(e, i)
      BY <3>1 DEF Final, Embeddings
    <3>3. VectorsAreRight(e)'
      BY <1>2, <3>1, <3>2 DEF VectorsAreRight
    <3> QED BY <2>2, <3>1, <3>3
            DEF EmbedInv, Fiber, FoundIsRight, MadeIsRight, BatchIsGiven
  <2> QED BY <2>1, <2>2
<1> QED BY <1>3, <1>4, <1>5 DEF EmbedInv

LEMMA FailKeeps ==
  ASSUME EmbedInv, NEW e \in Embedders, JoinFails(e)
  PROVE  EmbedInv'
<1>1. NoJob \in [task : Tasks, field : AnyField, texts : Seq(Texts)] /\ NoJob.texts = <<>>
  BY DEF NoJob, Tasks, AnyField
<1>2. clashed' \in SUBSET Embedders
  BY DEF JoinFails, Meets, Putting, EmbedInv, EmbedTypes
<1>3. EmbedTypes'
  <2>1. <<>> \in Seq(Answers)
    OBVIOUS
  <2> QED BY <1>1, <1>2, <2>1 DEF EmbedInv, EmbedTypes, JoinFails, Goes, Places
<1>4. MemoIsRight'
  BY DEF EmbedInv, MemoIsRight, JoinFails
<1>5. ASSUME NEW d \in Embedders PROVE Fiber(d)'
  <2>1. CASE d # e
    BY <2>1, OtherFibers DEF EmbedInv, EmbedTypes, JoinFails, Goes
  <2>2. CASE d = e
    <3>1. place'[e] = "idle" /\ vectors'[e] = <<>> /\ job'[e] = NoJob
      BY DEF EmbedInv, EmbedTypes, JoinFails, Goes
    <3> QED BY <1>1, <2>2, <3>1
            DEF Fiber, FoundIsRight, MadeIsRight, VectorsAreRight, BatchIsGiven
  <2> QED BY <2>1, <2>2
<1> QED BY <1>3, <1>4, <1>5 DEF EmbedInv

LEMMA DeliverKeeps ==
  ASSUME EmbedInv, NEW e \in Embedders, Deliver(e)
  PROVE  EmbedInv'
<1>1. NoJob \in [task : Tasks, field : AnyField, texts : Seq(Texts)] /\ NoJob.texts = <<>>
  BY DEF NoJob, Tasks, AnyField
<1>2. EmbedTypes'
  <2>1. <<>> \in Seq(Answers)
    OBVIOUS
  <2> QED BY <1>1, <2>1 DEF EmbedInv, EmbedTypes, Deliver, Goes, Places
<1>3. MemoIsRight'
  BY DEF EmbedInv, MemoIsRight, Deliver
<1>4. ASSUME NEW d \in Embedders PROVE Fiber(d)'
  <2>1. CASE d # e
    BY <2>1, OtherFibers DEF EmbedInv, EmbedTypes, Deliver, Goes
  <2>2. CASE d = e
    <3>1. place'[e] = "idle" /\ vectors'[e] = <<>> /\ job'[e] = NoJob
      BY DEF EmbedInv, EmbedTypes, Deliver, Goes
    <3> QED BY <1>1, <2>2, <3>1 DEF Fiber, FoundIsRight, MadeIsRight, VectorsAreRight, BatchIsGiven
  <2> QED BY <2>1, <2>2
<1> QED BY <1>2, <1>3, <1>4 DEF EmbedInv

LEMMA EmbedInvInit ==
  EmbeddingInit => EmbedInv
<1> SUFFICES ASSUME EmbeddingInit PROVE EmbedInv
  OBVIOUS
<1>1. NoJob \in [task : Tasks, field : AnyField, texts : Seq(Texts)] /\ <<>> \in Seq(Answers)
  BY DEF NoJob, Tasks, AnyField
<1>2. EmbedTypes
  BY <1>1 DEF EmbeddingInit, EmbedTypes, Places
<1>3. NoJob.texts = <<>>
  BY DEF NoJob
<1> QED BY <1>2, <1>3 DEF EmbeddingInit, EmbedInv, MemoIsRight, Fiber, FoundIsRight, MadeIsRight,
                    VectorsAreRight, BatchIsGiven

LEMMA EmbedInvNext ==
  EmbeddingAssumption /\ EmbedInv /\ [EmbeddingNext]_embedVars => EmbedInv'
<1> SUFFICES ASSUME EmbeddingAssumption, EmbedInv, [EmbeddingNext]_embedVars PROVE EmbedInv'
  OBVIOUS
<1>1. CASE UNCHANGED embedVars
  <2>1. /\ fields' = fields /\ seen' = seen /\ memo' = memo /\ job' = job /\ place' = place
        /\ found' = found /\ made' = made /\ vectors' = vectors /\ clashed' = clashed
        /\ short' = short /\ jobs' = jobs
    BY <1>1 DEF embedVars
  <2>2. EmbedTypes' /\ MemoIsRight'
    BY <2>1 DEF EmbedInv, EmbedTypes, MemoIsRight
  <2>3. \A d \in Embedders : Fiber(d)'
    BY <2>1, OtherFibers DEF EmbedInv
  <2> QED BY <2>2, <2>3 DEF EmbedInv
<1>2. CASE EmbeddingNext
  <2> PICK e \in Embedders :
        \/ Embed(e) \/ SelectField(e) \/ MarkField(e) \/ GetMemo(e) \/ CallModel(e)
        \/ PutMemo(e) \/ Join(e) \/ JoinFails(e) \/ Deliver(e)
    BY <1>2 DEF EmbeddingNext
  <2> QED BY EmbedKeeps, SelectKeeps, MarkKeeps, GetKeeps, CallKeeps, PutKeeps, JoinKeeps,
             FailKeeps, DeliverKeeps
<1> QED BY <1>1, <1>2

\* What the cache holds under a key and what a caller gets for a text is the
\* embedding of a text with that key, and none only if the model answered too few,
\* for any hash, any fibers, batches and size of the cache: however their lookups,
\* calls of the model and evictions interleave (CachedEmbedModel.encode,
\* MemoryCachedEmbedModel).
THEOREM EmbeddingsShareTheirKeys ==
  EmbeddingSpec => []EmbeddingSharesItsKey
<1>1. ASSUME EmbedInv PROVE EmbeddingSharesItsKey
  <2>1. ASSUME NEW e \in Embedders, NEW i \in DOMAIN vectors[e]
        PROVE  vectors[e][i] \in Final(e, i)
    <3>1. vectors[e] \in Seq(Answers)
      BY <1>1 DEF EmbedInv, EmbedTypes
    <3>2. i \in 1..Len(vectors[e])
      BY <3>1
    <3> QED BY <1>1, <3>2 DEF EmbedInv, Fiber, VectorsAreRight
  <2>2. ASSUME NEW e \in Embedders, NEW i \in DOMAIN vectors[e]
        PROVE  \/ vectors[e][i] \in Embeddings(e, job[e].texts[i])
               \/ vectors[e][i] = Missing /\ e \in short /\ job[e].field \notin Uncached
    BY <2>1 DEF Final
  <2> QED BY <1>1, <2>2 DEF EmbedInv, MemoIsRight, EmbeddingSharesItsKey
<1> QED BY EmbedInvInit, EmbedInvNext, EmbeddingAssumption, <1>1, PTL DEF EmbeddingSpec

\* Two puts at once meet at the map.
PutsClash ==
  \A d, e \in Embedders :
    d # e /\ place[d] = "mark" /\ place[e] = "mark" => d \in clashed

\* A document is past its first look at the map, and its field is not in a set
\* of fields.
Lost(d, known) ==
  /\ job[d].task = "doc" /\ place[d] \in {"get", "encode", "put", "join"}
  /\ job[d].field \notin known

\* A field is lost from the map only in a clash; and so will be those that a put
\* has not seen.
LossNeedsAClash ==
  \A d \in Embedders :
    /\ Lost(d, fields) => d \in clashed
    /\ \A e \in Embedders : place[e] = "mark" /\ d # e /\ Lost(d, seen[e]) => d \in clashed

ClashInv == EmbedInv /\ PutsClash /\ LossNeedsAClash /\ VectorlessNeedsAClash

\* A step that leaves the map and the places alone, but for one fiber's, keeps
\* the invariant if that fiber's new place does.
LEMMA FiberMoves ==
  ASSUME EmbedInv', ClashInv, NEW e \in Embedders,
         fields' = fields, seen' = seen,
         \A d \in Embedders \ {e} : /\ place'[d] = place[d] /\ job'[d] = job[d]
                                    /\ vectors'[d] = vectors[d]
                                    /\ d \in clashed => d \in clashed',
         place'[e] # "mark",
         Lost(e, fields)' => e \in clashed',
         \A d \in Embedders \ {e} : place[d] = "mark" /\ Lost(e, seen[d])' => e \in clashed',
         place'[e] = "done" /\ job'[e].task = "doc" /\ vectors'[e] = <<>> => e \in clashed'
  PROVE  ClashInv'
<1>1. ASSUME NEW d \in Embedders \ {e}, NEW known
      PROVE  Lost(d, known)' => Lost(d, known)
  BY DEF Lost
<1>2. PutsClash'
  BY DEF ClashInv, PutsClash
<1>3. LossNeedsAClash'
  <2>1. ASSUME NEW d \in Embedders, Lost(d, fields)' PROVE d \in clashed'
    BY <1>1, <2>1 DEF ClashInv, LossNeedsAClash, Lost
  <2>2. ASSUME NEW d \in Embedders, NEW f \in Embedders, place'[f] = "mark", d # f,
               Lost(d, seen[f])'
        PROVE  d \in clashed'
    <3>1. f # e /\ place[f] = "mark"
      BY <2>2
    <3> QED BY <1>1, <2>2, <3>1 DEF ClashInv, LossNeedsAClash, Lost
  <2> QED BY <2>1, <2>2 DEF LossNeedsAClash
<1>4. VectorlessNeedsAClash'
  BY DEF ClashInv, VectorlessNeedsAClash
<1> QED BY <1>2, <1>3, <1>4 DEF ClashInv

LEMMA EmbedClash ==
  ASSUME EmbeddingAssumption, ClashInv, NEW e \in Embedders, Embed(e)
  PROVE  ClashInv'
<1>1. EmbedInv'
  BY EmbedKeeps DEF ClashInv
<1>2. PICK task \in Tasks, f \in Fields, texts \in Batches :
        /\ job' = [job EXCEPT ![e] = [task |-> task, field |-> f, texts |-> texts]]
        /\ Goes(e, IF task = "doc" THEN "select" ELSE "get")
  BY DEF Embed
<1>3. /\ place'[e] \in {"select", "get"}
      /\ place'[e] = "get" => job'[e].task # "doc"
  BY <1>2 DEF ClashInv, EmbedInv, EmbedTypes, Goes
<1>4. \A known : ~Lost(e, known)'
  BY <1>3 DEF Lost
<1>5. /\ fields' = fields /\ seen' = seen /\ clashed' = clashed \ {e}
      /\ \A d \in Embedders \ {e} : /\ place'[d] = place[d] /\ job'[d] = job[d]
                                    /\ vectors'[d] = vectors[d]
  BY <1>2 DEF ClashInv, EmbedInv, EmbedTypes, Embed, Goes
<1> QED BY <1>1, <1>3, <1>4, <1>5, FiberMoves

\* The first look: who comes to a put that is under way, clashes with it.
LEMMA SelectClash ==
  ASSUME ClashInv, NEW e \in Embedders, SelectField(e)
  PROVE  ClashInv'
<1>1. EmbedInv'
  BY SelectKeeps DEF ClashInv
<1>2. /\ place[e] = "select" /\ fields' = fields /\ job' = job /\ vectors' = vectors
      /\ \A d \in Embedders \ {e} : place'[d] = place[d]
      /\ place'[e] \in {"get", "mark"}
  BY DEF ClashInv, EmbedInv, EmbedTypes, SelectField, Goes
<1>3. /\ clashed \subseteq clashed'
      /\ \A d \in Embedders \ {e} : place[d] = "mark" => d \in clashed' /\ e \in clashed'
  BY DEF SelectField, Meets, Putting
<1>4. CASE place'[e] = "get"
  <2>1. seen' = seen /\ job[e].field \in fields
    BY <1>4 DEF ClashInv, EmbedInv, EmbedTypes, SelectField, Goes, MayFind
  <2>2. ~Lost(e, fields)'
    BY <1>2, <2>1 DEF Lost
  <2> QED BY <1>1, <1>2, <1>3, <1>4, <2>1, <2>2, FiberMoves
<1>5. CASE place'[e] = "mark"
  <2>1. seen' = [seen EXCEPT ![e] = fields]
    BY <1>5 DEF ClashInv, EmbedInv, EmbedTypes, SelectField, Goes
  <2>2. seen'[e] = fields /\ \A d \in Embedders \ {e} : seen'[d] = seen[d]
    BY <2>1 DEF ClashInv, EmbedInv, EmbedTypes
  <2>3. \A d \in Embedders : \A known : Lost(d, known)' => d # e /\ Lost(d, known)
    BY <1>2, <1>5 DEF Lost
  <2>4. PutsClash'
    BY <1>2, <1>3 DEF ClashInv, PutsClash
  <2>5. LossNeedsAClash'
    <3>1. ASSUME NEW d \in Embedders, Lost(d, fields)' PROVE d \in clashed'
      <4>1. Lost(d, fields)
        BY <1>2, <3>1 , <1>5 DEF Lost
      <4> QED BY <1>3, <4>1 DEF ClashInv, LossNeedsAClash
    <3>2. ASSUME NEW d \in Embedders, NEW f \in Embedders, place'[f] = "mark", d # f,
                 Lost(d, seen[f])'
          PROVE  d \in clashed'
      <4>1. d # e /\ Lost(d, seen'[f])
        BY <1>2, <1>5, <3>2 DEF Lost
      <4>2. CASE f = e
        BY <1>3, <2>2, <4>1, <4>2 DEF ClashInv, LossNeedsAClash
      <4>3. CASE f # e
        BY <1>2, <1>3, <2>2, <3>2, <4>1, <4>3 DEF ClashInv, LossNeedsAClash
      <4> QED BY <4>2, <4>3
    <3> QED BY <3>1, <3>2 DEF LossNeedsAClash
  <2>6. VectorlessNeedsAClash'
    BY <1>2, <1>3, <1>5 DEF ClashInv, VectorlessNeedsAClash
  <2> QED BY <1>1, <2>4, <2>5, <2>6 DEF ClashInv
<1> QED BY <1>2, <1>4, <1>5

\* The put: the fields it has not seen are lost, and theirs have clashed.
LEMMA MarkClash ==
  ASSUME ClashInv, NEW e \in Embedders, MarkField(e)
  PROVE  ClashInv'
<1>1. EmbedInv'
  BY MarkKeeps DEF ClashInv
<1>2. /\ place[e] = "mark" /\ fields' = seen[e] \cup {job[e].field}
      /\ job' = job /\ vectors' = vectors /\ clashed' = clashed /\ place'[e] = "get"
      /\ \A d \in Embedders \ {e} : place'[d] = place[d] /\ seen'[d] = seen[d]
  BY DEF ClashInv, EmbedInv, EmbedTypes, MarkField, Goes
<1>3. PutsClash'
  BY <1>2 DEF ClashInv, PutsClash
<1>4. ASSUME NEW d \in Embedders, Lost(d, fields)' PROVE d \in clashed'
  <2>1. CASE d = e
    BY <1>2, <1>4, <2>1 DEF Lost
  <2>2. CASE d # e
    <3>1. Lost(d, seen[e])
      BY <1>2, <1>4, <2>2 DEF Lost
    <3> QED BY <1>2, <2>2, <3>1 DEF ClashInv, LossNeedsAClash
  <2> QED BY <2>1, <2>2
<1>5. ASSUME NEW d \in Embedders, NEW f \in Embedders, place'[f] = "mark", d # f,
             Lost(d, seen[f])'
      PROVE  d \in clashed'
  <2>1. f # e /\ place[f] = "mark"
    BY <1>2, <1>5
  <2>2. CASE d = e
    BY <1>2, <2>1, <2>2 DEF ClashInv, PutsClash
  <2>3. CASE d # e
    <3>1. Lost(d, seen[f])
      BY <1>2, <1>5, <2>1, <2>3 DEF Lost
    <3> QED BY <1>2, <1>5, <2>1, <3>1 DEF ClashInv, LossNeedsAClash
  <2> QED BY <2>2, <2>3
<1>6. LossNeedsAClash'
  BY <1>4, <1>5 DEF LossNeedsAClash
<1>7. VectorlessNeedsAClash'
  BY <1>2 DEF ClashInv, VectorlessNeedsAClash
<1> QED BY <1>1, <1>3, <1>6, <1>7 DEF ClashInv

\* From the first look to the last, a document's field stays lost or known.
LEMMA WorkClash ==
  ASSUME ClashInv, EmbedInv', NEW e \in Embedders, fields' = fields, seen' = seen, job' = job,
         clashed' = clashed, place[e] \in {"get", "encode", "put"},
         place'[e] \in {"encode", "put", "join", "done"},
         \A d \in Embedders \ {e} : place'[d] = place[d] /\ vectors'[d] = vectors[d],
         place'[e] = "done" => job[e].task # "doc"
  PROVE  ClashInv'
<1>1. \A known : Lost(e, known)' => Lost(e, known)
  BY DEF Lost
<1>2. Lost(e, fields)' => e \in clashed'
  BY <1>1 DEF ClashInv, LossNeedsAClash, Lost
<1>3. ASSUME NEW d \in Embedders \ {e}, place[d] = "mark", Lost(e, seen[d])'
      PROVE  e \in clashed'
  <2>1. Lost(e, seen[d])
    BY <1>3 DEF Lost
  <2> QED BY <1>3, <2>1 DEF ClashInv, LossNeedsAClash
<1> QED BY <1>2, <1>3, FiberMoves

\* The last look misses the field only if it is lost, or in a clash.
LEMMA JoinClash ==
  ASSUME ClashInv, NEW e \in Embedders, Join(e)
  PROVE  ClashInv'
<1>1. EmbedInv'
  BY JoinKeeps DEF ClashInv
<1>2. /\ place[e] = "join" /\ fields' = fields /\ seen' = seen /\ job' = job
      /\ \A d \in Embedders \ {e} : place'[d] = place[d] /\ vectors'[d] = vectors[d]
      /\ place'[e] = "done"
  BY DEF ClashInv, EmbedInv, EmbedTypes, Join, Goes
<1>3. clashed \subseteq clashed' /\ (Putting(e) # {} => e \in clashed')
  BY DEF Join, Meets
<1>4. ASSUME vectors'[e] = <<>> PROVE e \in clashed'
  <2>1. job[e].task = "doc" /\ job[e].texts # <<>> /\ job[e].texts \in Seq(Texts)
    BY <1>2 DEF ClashInv, EmbedInv, EmbedTypes, Fiber, BatchIsGiven
  <2>2. MayMiss(e)
    <3> SUFFICES ASSUME ~MayMiss(e) PROVE FALSE
      OBVIOUS
    <3>1. EveryTextAnswered(e) /\ vectors'[e] = ByText(e)
      BY DEF Join, ClashInv, EmbedInv, EmbedTypes
    <3>2. Len(ByText(e)) = Len(job[e].texts)
      BY <3>1, ByTextIsRight DEF ClashInv
    <3> QED BY <1>4, <2>1, <3>1, <3>2
  <2>3. CASE job[e].field \notin fields
    BY <1>2, <1>3, <2>1, <2>3 DEF ClashInv, LossNeedsAClash, Lost
  <2>4. CASE Putting(e) # {}
    BY <1>3, <2>4
  <2> QED BY <2>2, <2>3, <2>4 DEF MayMiss
<1>5. \A known : ~Lost(e, known)'
  BY <1>2 DEF Lost
<1> QED BY <1>1, <1>2, <1>3, <1>4, <1>5, FiberMoves

LEMMA FailClash ==
  ASSUME ClashInv, NEW e \in Embedders, JoinFails(e)
  PROVE  ClashInv'
<1>1. EmbedInv'
  BY FailKeeps DEF ClashInv
<1>2. /\ fields' = fields /\ seen' = seen /\ place'[e] = "idle"
      /\ \A d \in Embedders \ {e} : /\ place'[d] = place[d] /\ job'[d] = job[d]
                                    /\ vectors'[d] = vectors[d]
  BY DEF ClashInv, EmbedInv, EmbedTypes, JoinFails, Goes
<1>3. clashed \subseteq clashed'
  BY DEF JoinFails, Meets
<1>4. \A known : ~Lost(e, known)'
  BY <1>2 DEF Lost
<1> QED BY <1>1, <1>2, <1>3, <1>4, FiberMoves

LEMMA DeliverClash ==
  ASSUME ClashInv, NEW e \in Embedders, Deliver(e)
  PROVE  ClashInv'
<1>1. EmbedInv'
  BY DeliverKeeps DEF ClashInv
<1>2. /\ fields' = fields /\ seen' = seen /\ clashed' = clashed /\ place'[e] = "idle"
      /\ \A d \in Embedders \ {e} : /\ place'[d] = place[d] /\ job'[d] = job[d]
                                    /\ vectors'[d] = vectors[d]
  BY DEF ClashInv, EmbedInv, EmbedTypes, Deliver, Goes
<1>3. \A known : ~Lost(e, known)'
  BY <1>2 DEF Lost
<1> QED BY <1>1, <1>2, <1>3, FiberMoves

LEMMA ClashInvNext ==
  EmbeddingAssumption /\ ClashInv /\ [EmbeddingNext]_embedVars => ClashInv'
<1> SUFFICES ASSUME EmbeddingAssumption, ClashInv, [EmbeddingNext]_embedVars PROVE ClashInv'
  OBVIOUS
<1>1. EmbedInv'
  BY EmbedInvNext DEF ClashInv
<1>2. CASE UNCHANGED embedVars
  <2>1. /\ fields' = fields /\ seen' = seen /\ job' = job /\ place' = place
        /\ vectors' = vectors /\ clashed' = clashed
    BY <1>2 DEF embedVars
  <2>2. PutsClash' /\ VectorlessNeedsAClash'
    BY <2>1 DEF ClashInv, PutsClash, VectorlessNeedsAClash
  <2>3. LossNeedsAClash'
    BY <2>1 DEF ClashInv, LossNeedsAClash, Lost
  <2> QED BY <1>1, <2>2, <2>3 DEF ClashInv
<1>3. ASSUME NEW e \in Embedders, GetMemo(e) \/ CallModel(e) PROVE ClashInv'
  BY <1>1, <1>3, WorkClash DEF ClashInv, EmbedInv, EmbedTypes, GetMemo, CallModel, Goes
<1>4. ASSUME NEW e \in Embedders, PutMemo(e) PROVE ClashInv'
  BY <1>1, <1>4, WorkClash DEF ClashInv, EmbedInv, EmbedTypes, PutMemo, Goes
<1>5. CASE EmbeddingNext
  <2> PICK e \in Embedders :
        \/ Embed(e) \/ SelectField(e) \/ MarkField(e) \/ GetMemo(e) \/ CallModel(e)
        \/ PutMemo(e) \/ Join(e) \/ JoinFails(e) \/ Deliver(e)
    BY <1>5 DEF EmbeddingNext
  <2> QED BY <1>3, <1>4, EmbedClash, SelectClash, MarkClash, JoinClash, FailClash,
             DeliverClash
<1> QED BY <1>2, <1>5

\* A document is indexed without the vectors of a field only if its request was at
\* DocumentEmbedder's map while another put a field into it, for any fibers and
\* fields: a field is not lost otherwise (DocumentEmbedder.scala:25).
THEOREM VectorsAreLostByClashes ==
  EmbeddingSpec => []VectorlessNeedsAClash
<1>1. ASSUME EmbeddingInit PROVE ClashInv
  <2>1. \A e \in Embedders : place[e] = "idle"
    BY <1>1 DEF EmbeddingInit
  <2> QED BY <1>1, <2>1, EmbedInvInit
          DEF ClashInv, PutsClash, LossNeedsAClash, Lost, VectorlessNeedsAClash
<1>2. ClashInv => VectorlessNeedsAClash
  BY DEF ClashInv
<1> QED BY <1>1, <1>2, ClashInvNext, EmbeddingAssumption, PTL DEF EmbeddingSpec
=============================================================================
