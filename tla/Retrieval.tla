----------------------------- MODULE Retrieval ------------------------------
(***************************************************************************)
(* How the answer to a search request is computed: every sub-query of an   *)
(* rrf query ranks the documents it finds, and the rankings are fused      *)
(* (RRFQuery.scala); a range aggregation counts values (RangeAggregator).  *)
(*                                                                         *)
(* Floats are integers here, in the order of the floats they stand for, 0  *)
(* for 0.0: their sums and quotients round, so that scores may tie.        *)
(***************************************************************************)
EXTENDS Integers, Sequences, FiniteSets, FiniteSetsExt, SequencesExt

CONSTANTS
  Docs,       \* documents of the index
  Requests,   \* [k, size, window, queries]: rrf queries, with so many sub-queries
  Floats,     \* the floats, infinity among them
  Reciprocal(_, _),  \* of k and a place in a ranking, counted from 0: 1.0f / (k + place)
  Plus(_, _),        \* the sum of two scores, as a float
  MinLong, MaxLong,  \* the range of a field of type long
  Bounds      \* of ranges, in halves, so that 3 is 1.5; the bound may be left out

ASSUME RetrievalAssumption ==
  /\ IsFiniteSet(Docs)
  /\ Requests \subseteq [k : Floats, size : Nat \ {0}, window : Nat \ {0}, queries : Nat]
  /\ MinLong \in Int /\ MaxLong \in Int /\ MinLong < MaxLong
  /\ Bounds \subseteq Int

\* What IEEE 754 promises of rounded results: they are floats, and in order.
ASSUME FloatAssumption ==
  /\ Floats \subseteq Int /\ 0 \in Floats
  /\ \A x, y \in Floats :
       /\ Plus(x, y) \in Floats
       /\ y >= 0 => Plus(x, y) >= x
       /\ \A z \in Floats : x <= y => Plus(x, z) <= Plus(y, z) /\ Plus(z, x) <= Plus(z, y)
  /\ \A q \in Requests : \A i \in 0..q.window :
       /\ Reciprocal(q.k, i) \in Floats
       /\ q.k >= 0 =>
            /\ Reciprocal(q.k, i) >= 0
            /\ \A j \in i..q.window : Reciprocal(q.k, j) <= Reciprocal(q.k, i)

VARIABLES
  request,    \* the request in progress, or NoRequest
  rankings,   \* the rankings of its sub-queries so far, best first
  answer,     \* <<>>, or <<the documents of the answer>>
  range,      \* the aggregation in progress, or NoRange
  count       \* of documents in the range, NoCount or Failed

retrievalVars == <<request, rankings, answer, range, count>>

NoRequest == [k |-> 0, size |-> 0, window |-> 0, queries |-> 0]
NoRange == [from |-> <<>>, to |-> <<>>, values |-> {}]
NoCount == -1
Failed == -2

RetrievalInit ==
  /\ request = NoRequest /\ rankings = <<>> /\ answer = <<>>
  /\ range = NoRange /\ count = NoCount

-----------------------------------------------------------------------------
(* Reciprocal rank fusion *)

Found(lists) == UNION {ToSet(lists[n]) : n \in DOMAIN lists}

\* Mutant: later documents score higher.
ScoreOfLast(q, index) == Reciprocal(q.k, q.window - index)

\* 1.0f / (k + index)
ScoreOfPlace(q, index) == Reciprocal(q.k, index)

\* zipWithIndex counts from 0.
IndexIn(list, doc) == (CHOOSE i \in DOMAIN list : list[i] = doc) - 1

\* The score of a document: summed up, ranking by ranking, where it is found.
Score(q, lists, doc) ==
  LET sum[n \in 0..Len(lists)] ==
        IF n = 0 THEN 0
        ELSE IF doc \in ToSet(lists[n])
             THEN Plus(sum[n - 1], ScoreOfPlace(q, IndexIn(lists[n], doc)))
             ELSE sum[n - 1]
  IN  sum[Len(lists)]

\* The documents in the order of their scores; equal ones come in the order of
\* a hash map.
ByScore(q, lists) ==
  {s \in SetToSeqs(Found(lists)) :
     \A i, j \in DOMAIN s : i < j => Score(q, lists, s[i]) >= Score(q, lists, s[j])}

FirstN(s, n) == SubSeq(s, 1, Min({n, Len(s)}))

\* What combine may answer.  A single ranking is answered as it is.
Combine(q, lists) ==
  IF Len(lists) = 1 THEN {lists[1]} ELSE {FirstN(s, q.size) : s \in ByScore(q, lists)}

AskRrf ==
  /\ request = NoRequest /\ range = NoRange
  /\ request' \in Requests
  /\ UNCHANGED <<rankings, answer, range, count>>

\* A sub-query answers with its best documents, as many as the window.
SubQuery ==
  /\ request # NoRequest /\ Len(rankings) < request.queries
  /\ \E n \in 0..request.window : \E found \in kSubset(n, Docs) :
       \E list \in SetToSeqs(found) : rankings' = Append(rankings, list)
  /\ UNCHANGED <<request, answer, range, count>>

Fuse ==
  /\ request # NoRequest /\ Len(rankings) = request.queries /\ answer = <<>>
  /\ rankings # <<>>
  /\ \E docs \in Combine(request, rankings) : answer' = <<docs>>
  /\ UNCHANGED <<request, rankings, range, count>>

\* A query without sub-queries fails.
FuseNothing ==
  /\ request # NoRequest /\ request.queries = 0
  /\ request' = NoRequest
  /\ UNCHANGED <<rankings, answer, range, count>>

Respond ==
  /\ answer # <<>> \/ count # NoCount
  /\ request' = NoRequest /\ rankings' = <<>> /\ answer' = <<>>
  /\ range' = NoRange /\ count' = NoCount

-----------------------------------------------------------------------------
(* Range aggregation of a field of integers *)

\* A bound is <<>> when it is left out, or [at (in halves), inclusive].
RangeBounds == {<<>>} \cup {<<[at |-> b, inclusive |-> i]>> : b \in Bounds, i \in BOOLEAN}

\* BigDecimal.toLong: the fraction is cut off, and of what is left the low bits are
\* kept, so that a number beyond the longs comes out as another one.
ToLong(b) ==
  LET whole == IF b >= 0 THEN b \div 2 ELSE -((-b) \div 2)
  IN  IF whole \in MinLong..MaxLong THEN whole
      ELSE MinLong + ((whole - MinLong) % (MaxLong - MinLong + 1))

\* The least and the greatest long of the LongRange that is made of a range.
Least(r) ==
  IF r.from = <<>> THEN MinLong
  ELSE ToLong(r.from[1].at) + (IF r.from[1].inclusive THEN 0 ELSE 1)

\* Mutant: the upper bound is always in the range.
GreatestInclusive(r) == IF r.to = <<>> THEN MaxLong - 1 ELSE ToLong(r.to[1].at)

Greatest(r) ==
  IF r.to = <<>> THEN MaxLong - 1
  ELSE ToLong(r.to[1].at) - (IF r.to[1].inclusive THEN 0 ELSE 1)

\* A LongRange that nothing can match is not made: the request fails.
RangeFails(r) == Least(r) > Greatest(r)

AskRange ==
  /\ request = NoRequest /\ range = NoRange
  /\ \E from, to \in RangeBounds, value \in MinLong..MaxLong :
       /\ <<from, to>> # <<<<>>, <<>>>>
       /\ range' = [from |-> from, to |-> to, values |-> {value}]
  /\ UNCHANGED <<request, rankings, answer, count>>

Aggregate ==
  /\ range # NoRange /\ count = NoCount
  /\ count' = IF RangeFails(range) THEN Failed
              ELSE Cardinality({v \in range.values : v \in Least(range)..Greatest(range)})
  /\ UNCHANGED <<request, rankings, answer, range>>

RetrievalNext ==
  AskRrf \/ SubQuery \/ Fuse \/ FuseNothing \/ Respond \/ AskRange \/ Aggregate

RetrievalSpec == RetrievalInit /\ [][RetrievalNext]_retrievalVars

-----------------------------------------------------------------------------
\* Where a ranking has a document, after the last one when it has not.
RankIn(list, doc) ==
  IF doc \in ToSet(list) THEN CHOOSE i \in DOMAIN list : list[i] = doc ELSE Len(list) + 1

\* No ranking has d before c, and one has c before d.
Dominates(c, d) ==
  /\ \A n \in DOMAIN rankings : RankIn(rankings[n], c) <= RankIn(rankings[n], d)
  /\ \E n \in DOMAIN rankings : RankIn(rankings[n], c) < RankIn(rankings[n], d)

\* If k is not negative, the answer of an rrf query has a document after, or
\* leaves it out for, one that some ranking puts after it and none before it only
\* if their scores were rounded to the same float.  It has no document twice and,
\* of several rankings, as many as it may have.
FusionRespectsRankings ==
  answer # <<>> =>
    LET docs == answer[1]
    IN  /\ IsInjective(docs)
        /\ request.k >= 0 =>
             \A i \in DOMAIN docs : \A d \in Found(rankings) \ ToSet(SubSeq(docs, 1, i)) :
               Dominates(d, docs[i]) =>
                 /\ request.queries > 1
                 /\ Score(request, rankings, d) = Score(request, rankings, docs[i])
        /\ request.queries > 1 =>
             Len(docs) = Min({request.size, Cardinality(Found(rankings))})

\* A bound that is left out, or is a long.
LongBound(bound) ==
  \/ bound = <<>>
  \/ bound[1].at % 2 = 0 /\ bound[1].at \in 2 * MinLong..2 * MaxLong

\* What the range asks for.
InRange(r, v) ==
  /\ r.from # <<>> => IF r.from[1].inclusive THEN 2 * v >= r.from[1].at ELSE 2 * v > r.from[1].at
  /\ r.to # <<>> => IF r.to[1].inclusive THEN 2 * v <= r.to[1].at ELSE 2 * v < r.to[1].at

\* A range whose bounds are longs is counted as it is asked for, but for the
\* greatest long, which a range without an upper bound leaves out; and it fails
\* only if no value can be in it.
LongRangesAreExact ==
  count # NoCount /\ LongBound(range.from) /\ LongBound(range.to) =>
    IF count = Failed THEN \A v \in MinLong..MaxLong - 1 : ~InRange(range, v)
    ELSE count = Cardinality({v \in range.values : InRange(range, v)}
                                \ (IF range.to = <<>> THEN {MaxLong} ELSE {}))
=============================================================================
