--------------------------- MODULE Delivery_proofs ---------------------------
(***************************************************************************)
(* Theorems about what an indexer does with the documents of its sources,  *)
(* for any documents, requests, topics, chunk sizes, offsets and faults:   *)
(* which of them an index holds, and in which order they replace another.  *)
(***************************************************************************)
EXTENDS Ingestion_proofs, SequenceTheorems

-----------------------------------------------------------------------------
(* Batches and sequences *)

\* A full chunk or the rest is part of what there is.
LEMMA ChunkFits ==
  ASSUME IngestionTypeOK, NEW c \in Callers
  PROVE  /\ NextChunk(c) \in 0..Len(pending[c])
         /\ Len(pending[c]) \in Nat
  BY IngestionAssumption, LenProperties DEF IngestionTypeOK, NextChunk

\* What chunkN takes from the front of s, and what it leaves.
LEMMA Split ==
  ASSUME NEW S, NEW s \in Seq(S), NEW n \in 0..Len(s)
  PROVE  /\ SubSeq(s, 1, n) \in Seq(S) /\ SubSeq(s, n + 1, Len(s)) \in Seq(S)
         /\ DOMAIN s = 1..Len(s) /\ Len(s) \in Nat
         /\ DOMAIN SubSeq(s, 1, n) = 1..n
         /\ DOMAIN SubSeq(s, n + 1, Len(s)) = 1..(Len(s) - n)
         /\ \A i \in 1..n : SubSeq(s, 1, n)[i] = s[i]
         /\ \A i \in 1..(Len(s) - n) : SubSeq(s, n + 1, Len(s))[i] = s[n + i]
<1>1. Len(s) \in Nat /\ DOMAIN s = 1..Len(s) /\ \A i \in 1..Len(s) : s[i] \in S
  BY LenProperties, ElementOfSeq
<1>2. /\ SubSeq(s, 1, n) \in Seq(S) /\ Len(SubSeq(s, 1, n)) = n
      /\ \A i \in 1..n : SubSeq(s, 1, n)[i] = s[i]
  BY <1>1, SubSeqProperties
<1>3. /\ SubSeq(s, n + 1, Len(s)) \in Seq(S)
      /\ Len(SubSeq(s, n + 1, Len(s))) = Len(s) - n
      /\ \A i \in 1..(Len(s) - n) : SubSeq(s, n + 1, Len(s))[i] = s[n + i]
  <2>1. ASSUME NEW l \in Nat, NEW a \in Int, a = n + 1, l = Len(s)
        PROVE  /\ SubSeq(s, a, l) \in Seq(S)
               /\ Len(SubSeq(s, a, l)) = l - n
               /\ \A i \in 1..(l - n) : SubSeq(s, a, l)[i] = s[n + i]
    <3>1. n \in 0..l /\ n \in Int
      BY <2>1
    <3>2. \A i \in a..l : s[i] \in S
      BY <1>1, <2>1, <3>1
    <3>3. /\ SubSeq(s, a, l) \in Seq(S)
          /\ Len(SubSeq(s, a, l)) = IF a <= l THEN l - a + 1 ELSE 0
          /\ \A i \in 1..(l - a + 1) : SubSeq(s, a, l)[i] = s[a + i - 1]
      BY <3>2, SubSeqProperties
    <3>4. (IF a <= l THEN l - a + 1 ELSE 0) = l - n /\ l - a + 1 = l - n
      BY <2>1, <3>1
    <3>5. \A i \in Int : a + i - 1 = n + i
      BY <2>1, <3>1
    <3> QED BY <3>3, <3>4, <3>5
  <2>2. n + 1 \in Int /\ Len(s) \in Nat
    BY <1>1
  <2> QED BY <2>1, <2>2, Zenon
<1> QED BY <1>1, <1>2, <1>3, LenProperties

\* A document has a copy for each place it has in the batch.
LEMMA CopiesAreCounted ==
  ASSUME NEW docs \in Seq(Version), NEW v \in Version
  PROVE  Copies(v, docs) \in Nat /\ (Copies(v, docs) > 0 <=> v \in InSeq(docs))
<1> DEFINE places == {i \in DOMAIN docs : docs[i] = v}
<1>1. IsFiniteSet(DOMAIN docs)
  BY LenProperties, FS_Interval
<1>2. IsFiniteSet(places)
  BY <1>1, FS_Subset
<1>3. Cardinality(places) \in Nat /\ (Cardinality(places) = 0 <=> places = {})
  BY <1>2, FS_CardinalityType, FS_EmptySet
<1> QED BY <1>3 DEF Copies, InSeq

LEMMA ElementsOf ==
  ASSUME NEW S, NEW s \in Seq(S)
  PROVE  InSeq(s) \subseteq S
  BY LenProperties DEF InSeq

LEMMA BatchIsOfIds ==
  ASSUME IngestionTypeOK, NEW c \in Callers
  PROVE  /\ InBatch(c) = InSeq(batch[c]) /\ InBatch(c) \subseteq Version
         /\ BatchIds(c) \subseteq Ids /\ Deleted(c) \subseteq Ids
         /\ Pipeline(c) \subseteq Version
<1>1. batch[c] \in Seq(Version) /\ pending[c] \in Seq(Version)
  BY DEF IngestionTypeOK, DocumentsTypeOK
<1>2. InBatch(c) = InSeq(batch[c]) /\ InBatch(c) \subseteq Version
  BY <1>1, ElementsOf DEF InBatch, InSeq
<1>3. BatchIds(c) \subseteq Ids /\ Deleted(c) \subseteq Ids
  BY <1>2 DEF BatchIds, Ids, Deleted
<1>4. Pipeline(c) \subseteq Version
  BY <1>1, <1>2, ElementsOf DEF Pipeline
<1> QED BY <1>2, <1>3, <1>4

\* The versions m to n, in their order.
LEMMA VersionsInOrder ==
  ASSUME NEW m \in Nat, NEW n \in Nat, m + n <= LastVersion
  PROVE  /\ [i \in 1..n |-> m + i] \in Seq(Version)
         /\ Len([i \in 1..n |-> m + i]) = n
<1>1. [i \in 1..n |-> m + i] \in [1..n -> Version]
  BY VersionsAssumption DEF Version
<1> QED BY <1>1, LenProperties

-----------------------------------------------------------------------------
(* Types *)

LEMMA TypeFirst == IngestionInit => IngestionTypeOK
<1> SUFFICES ASSUME IngestionInit PROVE IngestionTypeOK
  OBVIOUS
<1>1. WholeFile \in Seq(Version)
  BY VersionsAssumption DEF WholeFile, Version
<1>2. DocumentsTypeOK
  BY DEF IngestionInit, DocumentsInit, DocumentsTypeOK, Steps
<1>3. KafkaTypeOK
  BY VersionsAssumption DEF IngestionInit, KafkaInit, KafkaTypeOK, EndOffset, None
<1> QED BY <1>1, <1>2, <1>3, IngestionAssumption DEF IngestionInit, IngestionTypeOK

\* Steps of the API that leave the documents alone.
LEMMA TypeRequest ==
  ASSUME IngestionTypeOK, NEW c \in Callers, Request(c) \/ Answer(c)
  PROVE  IngestionTypeOK'
<1>1. CASE Request(c)
  <2>1. PICK n \in 1..2 : /\ produced + n <= LastVersion
                          /\ produced' = produced + n
                          /\ asked' = [asked EXCEPT ![c] = [i \in 1..n |-> produced + i]]
                          /\ pending' = [pending EXCEPT ![c] = asked'[c]]
    BY <1>1 DEF Request
  <2>2. [i \in 1..n |-> produced + i] \in Seq(Version) /\ produced' \in 0..LastVersion
    BY <2>1, VersionsAssumption, VersionsInOrder DEF IngestionTypeOK, KafkaTypeOK
  <2>3. asked' \in [Callers -> Seq(Version)] /\ pending' \in [Callers -> Seq(Version)]
    BY <2>1, <2>2 DEF IngestionTypeOK
  <2> QED
    BY <1>1, <2>2, <2>3
    DEF Request, IngestionTypeOK, DocumentsTypeOK, KafkaTypeOK, docVars, ghostVars, EndOffset
<1>2. CASE Answer(c)
  <2>1. InSeq(asked[c]) \subseteq Version
    BY ElementsOf DEF IngestionTypeOK
  <2> QED
    BY <1>2, <2>1
    DEF Answer, IngestionTypeOK, DocumentsTypeOK, KafkaTypeOK, docVars, kafkaVars, EndOffset
<1> QED BY <1>1, <1>2

LEMMA TypeTake ==
  ASSUME IngestionTypeOK, NEW c \in Callers, Take(c)
  PROVE  IngestionTypeOK'
<1>1. /\ SubSeq(pending[c], 1, NextChunk(c)) \in Seq(Version)
      /\ SubSeq(pending[c], NextChunk(c) + 1, Len(pending[c])) \in Seq(Version)
  BY ChunkFits, Split DEF IngestionTypeOK
<1>2. DocumentsTypeOK' /\ pending' \in [Callers -> Seq(Version)]
  BY <1>1 DEF Take, AddDocuments, IngestionTypeOK, DocumentsTypeOK, Steps
<1> QED BY <1>2 DEF Take, IngestionTypeOK, KafkaTypeOK, kafkaVars, ghostVars, EndOffset

LEMMA TypeWrite ==
  ASSUME IngestionTypeOK, NEW c \in Callers, Replace(c) \/ Add(c)
  PROVE  IngestionTypeOK'
<1>1. CASE Replace(c)
  <2>1. DocumentsTypeOK'
    BY <1>1 DEF Replace, DeleteOld, Without, IngestionTypeOK, DocumentsTypeOK, Steps
  <2> QED
    BY <1>1, <2>1 DEF Replace, IngestionTypeOK, KafkaTypeOK, kafkaVars, procVars, ghostVars,
       EndOffset
<1>2. CASE Add(c)
  <2>1. \A v \in Version : live[v] + Copies(v, batch[c]) \in Nat
    BY CopiesAreCounted DEF IngestionTypeOK, DocumentsTypeOK
  <2>2. DocumentsTypeOK'
    BY <1>2, <2>1, EmptySeq
    DEF Add, AddNew, Return, IngestionTypeOK, DocumentsTypeOK, Steps
  <2>3. raced' \subseteq Ids /\ gone' \subseteq Ids
    BY <1>2, BatchIsOfIds DEF Add, IngestionTypeOK
  <2> QED
    BY <1>2, <2>2, <2>3 DEF Add, IngestionTypeOK, KafkaTypeOK, kafkaVars, procVars, EndOffset
<1> QED BY <1>1, <1>2

\* The steps of the consumer and of its topic.
LEMMA TypeTopic ==
  ASSUME IngestionTypeOK, ProduceMessage
  PROVE  IngestionTypeOK'
<1> DEFINE p == PartOf[IdOf[produced']]
<1>1. produced' \in Version /\ produced' \in 0..LastVersion /\ p \in Partitions
  BY KafkaAssumption, VersionsAssumption
  DEF ProduceMessage, Produce, IngestionTypeOK, KafkaTypeOK, Version, Ids
<1>2. /\ log[p] \in Seq(Version) /\ Append(log[p], produced') \in Seq(Version)
      /\ Len(Append(log[p], produced')) = Len(log[p]) + 1
  BY <1>1, AppendProperties DEF IngestionTypeOK, KafkaTypeOK
<1>3. /\ log' = [log EXCEPT ![p] = Append(log[p], produced')]
      /\ UNCHANGED <<offset, position, committed>>
  BY DEF ProduceMessage, Produce
<1>4. log' \in [Partitions -> Seq(Version)]
  BY <1>2, <1>3 DEF IngestionTypeOK, KafkaTypeOK
<1>5. \A q \in Partitions : /\ EndOffset(q) \in Nat /\ EndOffset(q)' \in Nat
                            /\ EndOffset(q)' >= EndOffset(q)
  BY <1>2, <1>3, LenProperties DEF IngestionTypeOK, KafkaTypeOK, EndOffset
<1>6. ASSUME NEW at \in {position', committed'}
      PROVE  /\ at \in [Partitions -> Nat \cup {None}]
             /\ \A q \in Partitions : at[q] <= EndOffset(q)'
  <2>1. at \in [Partitions -> Nat \cup {None}] /\ \A q \in Partitions : at[q] <= EndOffset(q)
    BY <1>3, <1>6 DEF IngestionTypeOK, KafkaTypeOK
  <2> QED BY <1>5, <2>1 DEF None
<1>7. KafkaTypeOK'
  BY <1>1, <1>3, <1>4, <1>6 DEF IngestionTypeOK, KafkaTypeOK
<1> QED BY <1>7 DEF ProduceMessage, IngestionTypeOK, DocumentsTypeOK, docVars, procVars, ghostVars

LEMMA LogTyped ==
  ASSUME KafkaTypeOK, NEW p \in Partitions
  PROVE  /\ Len(log[p]) \in Nat /\ DOMAIN log[p] = 1..Len(log[p])
         /\ \A i \in DOMAIN log[p] : log[p][i] \in Version /\ log[p][i] \in Int
<1>1. log[p] \in Seq(Version)
  BY DEF KafkaTypeOK
<1>2. Len(log[p]) \in Nat /\ DOMAIN log[p] = 1..Len(log[p])
  BY <1>1, LenProperties
<1>3. \A i \in DOMAIN log[p] : log[p][i] \in Version
  BY <1>1, <1>2, ElementOfSeq
<1> QED BY <1>2, <1>3 DEF Version

\* Where an assignment may leave the consumer.
LEMMA SeekInLog ==
  ASSUME KafkaTypeOK, NEW p \in Partitions, NEW o \in Nat \cup {None}, o <= EndOffset(p)
  PROVE  SeekTo(p, o) \in Nat /\ SeekTo(p, o) <= EndOffset(p) /\ EndOffset(p) \in Nat
<1> DEFINE early == {i \in DOMAIN log[p] : log[p][i] < Since}
<1>1. DOMAIN log[p] = 1..Len(log[p]) /\ Len(log[p]) \in Nat
  BY LenProperties DEF KafkaTypeOK
<1>2. IsFiniteSet(1..Len(log[p])) /\ Cardinality(1..Len(log[p])) = Len(log[p])
  BY <1>1, FS_Interval
<1>3. Cardinality(early) \in Nat /\ Cardinality(early) <= Len(log[p])
  BY <1>1, <1>2, FS_Subset, FS_CardinalityType
<1> QED BY <1>1, <1>3 DEF SeekTo, EndOffset, None

LEMMA AutoCommittedType ==
  ASSUME KafkaTypeOK
  PROVE  /\ AutoCommitted \in [Partitions -> Nat \cup {None}]
         /\ \A p \in Partitions : AutoCommitted[p] <= EndOffset(p)
<1>1. /\ position \in [Partitions -> Nat \cup {None}]
      /\ committed \in [Partitions -> Nat \cup {None}]
      /\ \A p \in Partitions : position[p] <= EndOffset(p) /\ committed[p] <= EndOffset(p)
  BY DEF KafkaTypeOK
<1> QED BY <1>1 DEF AutoCommitted

\* What the consumer keeps has its type if its offsets do.
LEMMA OffsetsTyped ==
  ASSUME KafkaTypeOK, UNCHANGED <<offset, produced, log>>,
         position' \in [Partitions -> Nat \cup {None}],
         committed' \in [Partitions -> Nat \cup {None}],
         \A p \in Partitions : position'[p] <= EndOffset(p) /\ committed'[p] <= EndOffset(p)
  PROVE  KafkaTypeOK'
<1>1. \A p \in Partitions : EndOffset(p)' = EndOffset(p)
  BY DEF EndOffset
<1>2. ASSUME NEW at \in {position', committed'}
      PROVE  /\ at \in [Partitions -> Nat \cup {None}]
             /\ \A q \in Partitions : at[q] <= EndOffset(q)'
  BY <1>1, <1>2
<1> QED BY <1>2 DEF KafkaTypeOK

LEMMA AssignTyped ==
  ASSUME KafkaTypeOK, NEW kicked \in BOOLEAN, Assign(kicked)
  PROVE  /\ KafkaTypeOK'
         /\ \A p \in Partitions : position'[p] \in 0..Len(log[p])
<1>1. /\ committed' \in [Partitions -> Nat \cup {None}]
      /\ \A p \in Partitions : committed'[p] <= EndOffset(p)
  BY AutoCommittedType DEF Assign, KafkaTypeOK
<1>2. \A p \in Partitions : /\ SeekTo(p, committed'[p]) \in Nat
                            /\ SeekTo(p, committed'[p]) <= EndOffset(p)
                            /\ EndOffset(p) \in Nat
  BY <1>1, SeekInLog
<1>3. /\ position' = [p \in Partitions |-> SeekTo(p, committed'[p])]
      /\ UNCHANGED <<offset, produced, log>>
  BY DEF Assign
<1>4. /\ position' \in [Partitions -> Nat \cup {None}]
      /\ \A p \in Partitions : position'[p] <= EndOffset(p) /\ position'[p] \in 0..Len(log[p])
  BY <1>2, <1>3 DEF EndOffset
<1> QED BY <1>1, <1>3, <1>4, OffsetsTyped

LEMMA PollTyped ==
  ASSUME KafkaTypeOK, NEW p \in Partitions, NEW n \in Nat, NEW auto \in BOOLEAN,
         NEW arrives \in BOOLEAN, Poll(p, n, auto, arrives)
  PROVE  /\ KafkaTypeOK'
         /\ position[p] \in Nat /\ position[p] + n <= Len(log[p])
         /\ Polled(p, n) \in Seq(Version) /\ DOMAIN Polled(p, n) = 1..n
         /\ \A i \in 1..n : Polled(p, n)[i] = log[p][position[p] + i]
<1>1. /\ position[p] \in Nat /\ position[p] + n <= Len(log[p]) /\ Len(log[p]) \in Nat
      /\ \A i \in 1..Len(log[p]) : log[p][i] \in Version
  BY LenProperties, ElementOfSeq DEF KafkaTypeOK, Poll, EndOffset, None
<1>2. /\ Polled(p, n) \in Seq(Version) /\ DOMAIN Polled(p, n) = 1..n
      /\ \A i \in 1..n : Polled(p, n)[i] = log[p][position[p] + i]
  <2>1. ASSUME NEW a \in Int, NEW b \in Int, a = position[p] + 1, b = position[p] + n
        PROVE  /\ SubSeq(log[p], a, b) \in Seq(Version) /\ Len(SubSeq(log[p], a, b)) = n
               /\ \A i \in 1..n : SubSeq(log[p], a, b)[i] = log[p][position[p] + i]
    <3>1. \A i \in a..b : log[p][i] \in Version
      BY <1>1, <2>1
    <3>2. /\ SubSeq(log[p], a, b) \in Seq(Version)
          /\ Len(SubSeq(log[p], a, b)) = IF a <= b THEN b - a + 1 ELSE 0
          /\ \A i \in 1..(b - a + 1) : SubSeq(log[p], a, b)[i] = log[p][a + i - 1]
      BY <3>1, SubSeqProperties
    <3>3. (IF a <= b THEN b - a + 1 ELSE 0) = n /\ b - a + 1 = n
      BY <1>1, <2>1
    <3>4. ASSUME NEW i \in 1..n PROVE SubSeq(log[p], a, b)[i] = log[p][position[p] + i]
      <4>1. a + i - 1 = position[p] + i /\ i \in 1..(b - a + 1)
        <5>1. position[p] \in Nat /\ i \in 1..n /\ a = position[p] + 1
          BY <1>1, <2>1
        <5>2. i \in 1..(b - a + 1)
          BY <3>3
        <5> QED BY <5>1, <5>2
      <4> QED BY <3>2, <4>1
    <3> QED BY <3>2, <3>3, <3>4
  <2>2. position[p] + 1 \in Int /\ position[p] + n \in Int
    BY <1>1
  <2>3. /\ Polled(p, n) \in Seq(Version) /\ Len(Polled(p, n)) = n
        /\ \A i \in 1..n : Polled(p, n)[i] = log[p][position[p] + i]
    BY <2>1, <2>2, Zenon DEF Polled
  <2> QED BY <2>3, LenProperties
<1>3. /\ position' \in [Partitions -> Nat \cup {None}]
      /\ \A q \in Partitions : position'[q] <= EndOffset(q)
  BY <1>1 DEF Poll, KafkaTypeOK, EndOffset
<1>4. /\ committed' \in [Partitions -> Nat \cup {None}]
      /\ \A q \in Partitions : committed'[q] <= EndOffset(q)
  <2> DEFINE before == IF auto THEN AutoCommitted ELSE committed
  <2>1. /\ before \in [Partitions -> Nat \cup {None}]
        /\ \A q \in Partitions : before[q] <= EndOffset(q)
    BY AutoCommittedType DEF KafkaTypeOK
  <2>2. committed' = IF n > 0 /\ arrives THEN [before EXCEPT ![p] = position[p] + n - 1]
                     ELSE before
    BY DEF Poll
  <2>3. n > 0 => position[p] + n - 1 \in Nat /\ position[p] + n - 1 <= EndOffset(p)
    BY <1>1 DEF EndOffset
  <2> HIDE DEF before
  <2> QED BY <2>1, <2>2, <2>3
<1> QED BY <1>1, <1>2, <1>3, <1>4, OffsetsTyped DEF Poll

LEMMA TypeConsume ==
  ASSUME IngestionTypeOK, AssignFirst \/ Rebalance \/ PollMessages
  PROVE  IngestionTypeOK'
<1>0. KafkaTypeOK
  BY DEF IngestionTypeOK
<1>1. CASE AssignFirst \/ Rebalance
  <2>1. PICK kicked \in BOOLEAN : Assign(kicked)
    BY <1>1 DEF AssignFirst, Rebalance
  <2>2. KafkaTypeOK' /\ \A p \in Partitions : position'[p] \in 0..Len(log[p])
    BY <1>0, <2>1, AssignTyped
  <2>3. \A p \in Partitions : Skipped(p) \subseteq Version
    BY <1>0, <2>2, LenProperties, ElementOfSeq DEF Skipped, KafkaTypeOK
  <2>4. faults' \in 0..MaxFaults
    <3>1. faults' = faults \/ Fault
      BY <1>1, Zenon DEF AssignFirst, Rebalance
    <3> QED BY <3>1, IngestionAssumption DEF Fault, IngestionTypeOK
  <2>5. lost' \subseteq Version
    <3>1. lost' = lost \cup UNION {Skipped(p) : p \in Partitions}
      BY <1>1, Zenon DEF AssignFirst, Rebalance
    <3> QED BY <2>3, <3>1 DEF IngestionTypeOK
  <2> QED
    BY <1>1, <2>2, <2>4, <2>5
    DEF AssignFirst, Rebalance, IngestionTypeOK, DocumentsTypeOK, docVars, procVars
<1>2. CASE PollMessages
  <2>1. PICK p \in Partitions, n \in 0..2, auto \in BOOLEAN, arrives \in BOOLEAN :
          /\ Poll(p, n, auto, arrives)
          /\ pending' = [pending EXCEPT ![Reader] = @ \o Polled(p, n)]
          /\ again' = again \cup (InSeq(Polled(p, n)) \cap polled)
          /\ polled' = polled \cup InSeq(Polled(p, n))
          /\ lost' = lost \ InSeq(Polled(p, n))
    BY <1>2 DEF PollMessages
  <2>2. KafkaTypeOK' /\ Polled(p, n) \in Seq(Version)
    BY <1>0, <2>1, PollTyped
  <2>3. pending' \in [Callers -> Seq(Version)] /\ InSeq(Polled(p, n)) \subseteq Version
    BY <2>1, <2>2, ConcatProperties, ElementsOf, IngestionAssumption DEF IngestionTypeOK
  <2> QED
    BY <1>2, <2>1, <2>2, <2>3 DEF PollMessages, IngestionTypeOK, DocumentsTypeOK, docVars
<1> QED BY <1>1, <1>2

\* Whatever ends, drops what is in the pipelines and forgets the consumer.
LEMMA DropTyped ==
  ASSUME Drop
  PROVE  /\ pending' \in [Callers -> Seq(Version)] /\ asked' \in [Callers -> Seq(Version)]
         /\ batch' \in [Callers -> Seq(Version)] /\ step' \in [Callers -> Steps]
  BY EmptySeq DEF Drop, Steps

LEMMA ConsumerLeaves ==
  ASSUME KafkaTypeOK,
         \/ CloseConsumer \/ LoseConsumer \/ UNCHANGED kafkaVars
         \/ \E kicked \in BOOLEAN : AssignmentFails(kicked)
  PROVE  KafkaTypeOK'
<1>1. /\ position' \in [Partitions -> Nat \cup {None}]
      /\ committed' \in [Partitions -> Nat \cup {None}]
      /\ UNCHANGED <<offset, produced, log>>
  BY AutoCommittedType
  DEF CloseConsumer, LoseConsumer, AssignmentFails, kafkaVars, KafkaTypeOK
<1>2. \A p \in Partitions : /\ EndOffset(p) \in Nat
                            /\ position'[p] \in {position[p], None}
                            /\ committed'[p] \in {committed[p], AutoCommitted[p]}
  BY LenProperties
  DEF CloseConsumer, LoseConsumer, AssignmentFails, kafkaVars, KafkaTypeOK, EndOffset
<1>3. \A p \in Partitions : position'[p] <= EndOffset(p) /\ committed'[p] <= EndOffset(p)
  <2> TAKE p \in Partitions
  <2>1. /\ position[p] \in Int /\ position[p] <= EndOffset(p)
        /\ committed[p] <= EndOffset(p) /\ AutoCommitted[p] <= EndOffset(p)
    BY AutoCommittedType DEF KafkaTypeOK, None
  <2> QED BY <1>2, <2>1 DEF None
<1> QED BY <1>1, <1>3, OffsetsTyped

LEMMA TypeEnd ==
  ASSUME IngestionTypeOK, Stop \/ Kill \/ AssignFails \/ \E c \in Callers : Fail(c)
  PROVE  IngestionTypeOK'
<1>0. KafkaTypeOK /\ DocumentsTypeOK
  BY DEF IngestionTypeOK
<1>1. faults' \in 0..MaxFaults /\ source' = source
  BY IngestionAssumption DEF Stop, Kill, AssignFails, Fail, Fault, IngestionTypeOK
<1>2. CASE Stop
  <2>1. KafkaTypeOK'
    BY <1>0, <1>2, ConsumerLeaves DEF Stop, Shut
  <2>2. lost' \subseteq Version
    BY <1>2, BatchIsOfIds, IngestionAssumption DEF Stop, IngestionTypeOK
  <2> QED
    BY <1>0, <1>1, <1>2, <2>1, <2>2, DropTyped DEF Stop, Shut, IngestionTypeOK, DocumentsTypeOK
<1>3. CASE Kill
  <2>1. KafkaTypeOK'
    BY <1>0, <1>3, ConsumerLeaves DEF Kill
  <2>2. lost' \subseteq Version
    BY <1>3 DEF Kill, IngestionTypeOK
  <2> QED
    BY <1>0, <1>1, <1>3, <2>1, <2>2, DropTyped DEF Kill, IngestionTypeOK, DocumentsTypeOK
<1>4. CASE AssignFails
  <2>1. KafkaTypeOK'
    BY <1>0, <1>4, ConsumerLeaves DEF AssignFails
  <2>2. lost' \subseteq Version
    BY <1>4, BatchIsOfIds, IngestionAssumption DEF AssignFails, IngestionTypeOK
  <2> QED
    BY <1>0, <1>1, <1>4, <2>1, <2>2, DropTyped DEF AssignFails, IngestionTypeOK, DocumentsTypeOK
<1>5. ASSUME NEW c \in Callers, Fail(c) PROVE IngestionTypeOK'
  <2>1. lost' \subseteq Version /\ gone' \subseteq Ids
    BY <1>5, BatchIsOfIds DEF Fail, IngestionTypeOK
  <2>2. CASE source = "api"
    <3>0. <<>> \in Seq(Version)
      BY EmptySeq
    <3>1. DocumentsTypeOK'
      <4>1. UNCHANGED docVars \/ AddFails(c)
        BY <1>5, <2>2 DEF Fail
      <4> QED BY <1>0, <3>0, <4>1 DEF AddFails, Return, DocumentsTypeOK, docVars, Steps
    <3>2. pending' \in [Callers -> Seq(Version)] /\ asked' \in [Callers -> Seq(Version)]
      <4>1. /\ pending' = [pending EXCEPT ![c] = <<>>]
            /\ asked' = [asked EXCEPT ![c] = <<>>]
        BY <1>5, <2>2 DEF Fail
      <4> QED BY <3>0, <4>1 DEF IngestionTypeOK
    <3>3. KafkaTypeOK'
      BY <1>0, <1>5, <2>2, ConsumerLeaves DEF Fail
    <3> QED BY <1>1, <1>5, <2>1, <2>2, <3>1, <3>2, <3>3 DEF Fail, IngestionTypeOK
  <2>3. CASE source # "api"
    <3>1. Shut /\ UNCHANGED <<live, disk>>
      BY <1>5, <2>3 DEF Fail
    <3>2. KafkaTypeOK'
      BY <1>0, <3>1, ConsumerLeaves DEF Shut
    <3> QED
      BY <1>0, <1>1, <1>5, <2>1, <3>1, <3>2, DropTyped
      DEF Fail, Shut, IngestionTypeOK, DocumentsTypeOK
  <2> QED BY <2>2, <2>3
<1> QED BY <1>2, <1>3, <1>4, <1>5

LEMMA TypeRest ==
  ASSUME IngestionTypeOK,
         \/ Delete \/ Flush \/ FlushRequest \/ FlushFails \/ Finish \/ Close \/ Start
         \/ UNCHANGED ingestionVars
  PROVE  IngestionTypeOK'
<1>0. /\ KafkaTypeOK /\ DocumentsTypeOK
      /\ live \in [Version -> Nat] /\ disk \in [Version -> Nat]
      /\ batch \in [Callers -> Seq(Version)] /\ step \in [Callers -> Steps]
  BY DEF IngestionTypeOK, DocumentsTypeOK
<1>1. KafkaTypeOK'
  BY <1>0, ConsumerLeaves
  DEF Delete, Flush, FlushRequest, FlushFails, Finish, Close, CommitAll, Start, ingestionVars
<1>2. CASE Delete
  <2>1. PICK ids \in {Ids} \cup {{id} : id \in Ids} :
          DeleteDocuments(ids) /\ gone' = gone \cup ids
    BY <1>2 DEF Delete
  <2>2. DocumentsTypeOK' /\ gone' \subseteq Ids
    BY <1>0, <2>1 DEF DeleteDocuments, Without, DocumentsTypeOK, IngestionTypeOK
  <2>3. faults' \in 0..MaxFaults
    BY <1>2, IngestionAssumption DEF Delete, Fault, IngestionTypeOK
  <2> QED BY <1>1, <1>2, <2>2, <2>3 DEF Delete, IngestionTypeOK, procVars
<1>3. CASE Flush \/ FlushRequest \/ Finish \/ Close
  <2>1. DocumentsTypeOK'
    BY <1>0, <1>3 DEF Flush, FlushRequest, Finish, Close, CommitAll, Commit, DocumentsTypeOK
  <2>2. goneDisk' \subseteq Ids
    BY <1>3, BatchIsOfIds DEF Flush, FlushRequest, Finish, Close, CommitAll, IngestionTypeOK
  <2> QED
    BY <1>1, <1>3, <2>1, <2>2 DEF Flush, FlushRequest, Finish, Close, CommitAll, IngestionTypeOK, procVars
<1>4. CASE Start
  <2>1. pending' \in [Callers -> Seq(Version)]
    <3>1. WholeFile \in Seq(Version) /\ <<>> \in Seq(Version)
      BY EmptySeq, VersionsAssumption DEF WholeFile, Version
    <3> QED BY <1>4, <3>1 DEF Start
  <2>2. DocumentsTypeOK'
    BY <1>0, <1>4 DEF Start, docVars, DocumentsTypeOK
  <2> QED BY <1>1, <1>4, <2>1, <2>2 DEF Start, IngestionTypeOK
<1>5. CASE UNCHANGED ingestionVars
  BY <1>0, <1>1, <1>5
  DEF IngestionTypeOK, DocumentsTypeOK, ingestionVars, docVars, procVars, ghostVars
<1>6. CASE FlushFails
  <2>1. faults' \in 0..MaxFaults
    BY <1>6, IngestionAssumption DEF FlushFails, Fault, IngestionTypeOK
  <2>2. DocumentsTypeOK'
    BY <1>0, <1>6 DEF FlushFails, docVars, DocumentsTypeOK
  <2> QED BY <1>1, <1>6, <2>1, <2>2 DEF FlushFails, IngestionTypeOK
<1> QED BY <1>2, <1>3, <1>4, <1>5, <1>6

LEMMA TypeStep == IngestionTypeOK /\ [IngestionNext]_ingestionVars => IngestionTypeOK'
  BY TypeRequest, TypeTake, TypeWrite, TypeTopic, TypeConsume, TypeEnd, TypeRest
  DEF IngestionNext

\* Documents, batches, offsets and what happened to them have their types, and
\* no offset is beyond the end of its partition.
THEOREM IngestionTypeCorrect == IngestionSpec => []IngestionTypeOK
  BY TypeFirst, TypeStep, PTL DEF IngestionSpec

-----------------------------------------------------------------------------
(* Calls and requests *)

\* A call that is not in progress has no batch, and none is once the process stops.
QuietInv ==
  /\ \A c \in Callers : step[c] = "idle" => batch[c] = <<>>
  /\ phase \in {"closing", "down"} =>
       \A c \in Callers : pending[c] = <<>> /\ asked[c] = <<>> /\ step[c] = "idle"

\* Only the REST API has requests, and a stream has one caller.
StreamInv ==
  source # "api" =>
    /\ acked = {} /\ \A c \in Callers : asked[c] = <<>>
    /\ \A c \in Callers \ {Reader} : pending[c] = <<>> /\ step[c] = "idle"

CallsAndStreams == QuietInv /\ StreamInv

LEMMA NothingAsked == IngestionInit => CallsAndStreams
  BY DEF IngestionInit, DocumentsInit, CallsAndStreams, QuietInv, StreamInv

LEMMA CallsStep ==
  ASSUME IngestionTypeOK, CallsAndStreams, NEW c \in Callers,
         Request(c) \/ Take(c) \/ Replace(c) \/ Add(c) \/ Answer(c)
  PROVE  CallsAndStreams'
<1> USE DEF CallsAndStreams, QuietInv, StreamInv, IngestionTypeOK, DocumentsTypeOK
<1>1. CASE Request(c)
  BY <1>1 DEF Request, docVars, ghostVars
<1>2. CASE Take(c)
  <2>1. source # "api" => c = Reader
    <3> SUFFICES ASSUME source # "api", c # Reader PROVE FALSE
      OBVIOUS
    <3>1. Len(pending[c]) = 0
      BY EmptySeq
    <3> QED BY <1>2, <3>1, IngestionAssumption DEF Take, NextChunk
  <2>2. CASE source = "api"
    BY <1>2, <2>2 DEF Take, AddDocuments, ghostVars, kafkaVars
  <2>3. CASE source # "api"
    BY <1>2, <2>1, <2>3 DEF Take, AddDocuments, ghostVars, kafkaVars
  <2> QED BY <2>2, <2>3
<1>3. CASE Replace(c)
  BY <1>3 DEF Replace, DeleteOld, ghostVars, procVars
<1>4. CASE Add(c)
  BY <1>4 DEF Add, AddNew, Return, procVars
<1>5. CASE Answer(c)
  BY <1>5 DEF Answer, docVars
<1> QED BY <1>1, <1>2, <1>3, <1>4, <1>5

LEMMA CallsEnd ==
  ASSUME IngestionTypeOK, CallsAndStreams,
         Stop \/ Kill \/ AssignFails \/ \E c \in Callers : Fail(c)
  PROVE  CallsAndStreams'
<1> USE DEF CallsAndStreams, QuietInv, StreamInv, IngestionTypeOK, DocumentsTypeOK
<1>1. CASE Drop /\ source' = source /\ (acked' = acked \/ acked' = durable)
  BY <1>1, IngestionAssumption DEF Drop
<1>2. ASSUME NEW c \in Callers, Fail(c), source = "api" PROVE CallsAndStreams'
  <2>1. UNCHANGED docVars \/ AddFails(c)
    BY <1>2 DEF Fail
  <2>2. \A d \in Callers : step'[d] = "idle" => batch'[d] = <<>>
    BY <2>1 DEF AddFails, Return, docVars
  <2> QED BY <1>2, <2>2 DEF Fail
<1>3. ASSUME NEW c \in Callers, Fail(c), source # "api" PROVE CallsAndStreams'
  BY <1>1, <1>3 DEF Fail, Shut
<1> QED BY <1>1, <1>2, <1>3 DEF Stop, Kill, AssignFails, Shut

LEMMA CallsElsewhere ==
  ASSUME IngestionTypeOK, CallsAndStreams,
         \/ ProduceMessage \/ AssignFirst \/ Rebalance \/ PollMessages \/ FlushFails
         \/ Delete \/ Flush \/ FlushRequest \/ Finish \/ Close \/ Start \/ UNCHANGED ingestionVars
  PROVE  CallsAndStreams'
<1> USE DEF CallsAndStreams, QuietInv, StreamInv, IngestionTypeOK, DocumentsTypeOK
<1>1. CASE ProduceMessage \/ AssignFirst \/ Rebalance \/ FlushFails \/ UNCHANGED ingestionVars
  BY <1>1
  DEF ProduceMessage, AssignFirst, Rebalance, FlushFails, ingestionVars, docVars, procVars,
      ghostVars
<1>2. CASE PollMessages
  BY <1>2, IngestionAssumption DEF PollMessages, Polling, docVars
<1>3. CASE Delete
  BY <1>3 DEF Delete, DeleteDocuments, procVars
<1>4. CASE Flush \/ FlushRequest \/ Finish \/ Close
  BY <1>4 DEF Flush, FlushRequest, Finish, Close, CommitAll, Commit, procVars
<1>5. CASE Start
  BY <1>5, IngestionAssumption DEF Start, docVars
<1> QED BY <1>1, <1>2, <1>3, <1>4, <1>5

LEMMA CallsAndStreamsStep ==
  IngestionTypeOK /\ CallsAndStreams /\ [IngestionNext]_ingestionVars => CallsAndStreams'
  BY CallsStep, CallsEnd, CallsElsewhere DEF IngestionNext

-----------------------------------------------------------------------------
(* Requests that were answered *)

HeldOrGone(v) ==
  \/ Held(live, IdOf[v]) # {} \/ IdOf[v] \in gone
  \/ \E c \in Callers : IdOf[v] \in Deleted(c)

\* What a request asked for is held already, or on its way.
AskedInv == \A c \in Callers : \A v \in InSeq(asked[c]) : v \in Pipeline(c) \/ HeldOrGone(v)

AnswersInv == AckedIsHeld /\ AskedInv

\* A stream answers no requests.
LEMMA NoAnswers ==
  ASSUME IngestionTypeOK', StreamInv', source' # "api"
  PROVE  AnswersInv'
  BY DEF IngestionTypeOK, StreamInv, AnswersInv, AckedIsHeld, AskedInv, InSeq

\* A call that goes on as before.
LEMMA SameCall ==
  ASSUME NEW c \in Callers, step'[c] = step[c], batch'[c] = batch[c]
  PROVE  /\ InBatch(c)' = InBatch(c) /\ BatchIds(c)' = BatchIds(c)
         /\ Deleted(c)' = Deleted(c) /\ InGap(c)' = InGap(c)
<1>1. InBatch(c)' = InBatch(c) /\ InGap(c)' = InGap(c)
  BY DEF InBatch, InGap
<1>2. BatchIds(c)' = BatchIds(c)
  BY <1>1 DEF BatchIds
<1> QED BY <1>1, <1>2 DEF Deleted

\* A step that answers nothing, commits nothing and loses no document.
LEMMA AnswersKept ==
  ASSUME AnswersInv, IngestionTypeOK,
         UNCHANGED <<acked, durable, disk, goneDisk>>,
         \A v \in Version : HeldOrGone(v) => HeldOrGone(v)',
         \A c \in Callers : \A v \in Version :
           (v \in InSeq(asked[c]))' =>
             \/ v \in InSeq(asked[c]) /\ (v \in Pipeline(c) => (v \in Pipeline(c))' \/ HeldOrGone(v)')
             \/ (v \in Pipeline(c))',
         IngestionTypeOK'
  PROVE  AnswersInv'
<1>1. acked \subseteq Version /\ durable \subseteq Version
  BY DEF IngestionTypeOK
<1>2. AckedIsHeld'
  BY <1>1 DEF AnswersInv, AckedIsHeld, HeldOrGone, Held
<1>3. \A c \in Callers : (InSeq(asked[c]))' \subseteq Version
  BY ElementsOf DEF IngestionTypeOK
<1>4. AskedInv'
  BY <1>3 DEF AnswersInv, AskedInv
<1> QED BY <1>2, <1>4 DEF AnswersInv

LEMMA AnswersRequest ==
  ASSUME IngestionTypeOK, IngestionTypeOK', AnswersInv, NEW c \in Callers, Request(c)
  PROVE  AnswersInv'
<1>1. \A v \in Version : HeldOrGone(v) => HeldOrGone(v)'
  <2>1. live' = live /\ gone' = gone /\ batch' = batch /\ step' = step
    BY DEF Request, docVars, ghostVars
  <2>2. \A d \in Callers : Deleted(d)' = Deleted(d)
    BY <2>1 DEF Deleted, InGap, BatchIds, InBatch
  <2> QED BY <2>1, <2>2 DEF HeldOrGone, Held
<1>2. /\ asked'[c] = pending'[c]
      /\ \A d \in Callers \ {c} : asked'[d] = asked[d] /\ pending'[d] = pending[d]
      /\ batch' = batch
  BY DEF Request, docVars, IngestionTypeOK
<1>3. \A d \in Callers : \A v \in Version :
        (v \in InSeq(asked[d]))' =>
          \/ v \in InSeq(asked[d]) /\ (v \in Pipeline(d) => (v \in Pipeline(d))')
          \/ (v \in Pipeline(d))'
  BY <1>2 DEF Pipeline, InSeq, InBatch
<1>4. UNCHANGED <<acked, durable, disk, goneDisk>>
  BY DEF Request, docVars, ghostVars
<1> QED BY <1>1, <1>3, <1>4, AnswersKept

\* A batch is taken from the front of what the caller has.
LEMMA TakeMoves ==
  ASSUME IngestionTypeOK, QuietInv, NEW c \in Callers, Take(c)
  PROVE  /\ NextChunk(c) \in 0..Len(pending[c])
         /\ batch[c] = <<>> /\ batch'[c] = SubSeq(pending[c], 1, NextChunk(c))
         /\ pending'[c] = SubSeq(pending[c], NextChunk(c) + 1, Len(pending[c]))
         /\ \A d \in Callers \ {c} : batch'[d] = batch[d] /\ pending'[d] = pending[d]
         /\ Pipeline(c)' = Pipeline(c)
<1>1. /\ batch[c] = <<>> /\ batch'[c] = SubSeq(pending[c], 1, NextChunk(c))
      /\ pending'[c] = SubSeq(pending[c], NextChunk(c) + 1, Len(pending[c]))
      /\ \A d \in Callers \ {c} : batch'[d] = batch[d] /\ pending'[d] = pending[d]
  BY DEF Take, AddDocuments, QuietInv, IngestionTypeOK, DocumentsTypeOK
<1>2. NextChunk(c) \in 0..Len(pending[c]) /\ pending[c] \in Seq(Version)
  BY ChunkFits DEF IngestionTypeOK
<1>3. InSeq(pending[c]) = InSeq(batch'[c]) \cup InSeq(pending'[c])
  <2> DEFINE n == NextChunk(c)
             s == pending[c]
  <2>0. /\ s \in Seq(Version) /\ n \in 0..Len(s)
        /\ batch'[c] = SubSeq(s, 1, n) /\ pending'[c] = SubSeq(s, n + 1, Len(s))
    BY <1>1, <1>2
  <2> HIDE DEF n, s
  <2>1. /\ DOMAIN s = 1..Len(s) /\ Len(s) \in Nat
        /\ DOMAIN batch'[c] = 1..n /\ DOMAIN pending'[c] = 1..(Len(s) - n)
        /\ \A i \in 1..n : batch'[c][i] = s[i]
        /\ \A i \in 1..(Len(s) - n) : pending'[c][i] = s[n + i]
    BY <2>0, Split
  <2>2. ASSUME NEW i \in DOMAIN s PROVE s[i] \in InSeq(batch'[c]) \cup InSeq(pending'[c])
    <3>1. CASE i <= n
      BY <2>0, <2>1, <3>1 DEF InSeq
    <3>2. CASE ~(i <= n)
      <4>1. i - n \in 1..(Len(s) - n) /\ n + (i - n) = i
        <5>1. n \in Nat /\ Len(s) \in Nat /\ i \in 1..Len(s)
          BY <2>0, <2>1, <2>2
        <5> DEFINE l == Len(s)
        <5> HIDE DEF l
        <5>2. n \in Nat /\ l \in Nat /\ i \in 1..l
          BY <5>1 DEF l
        <5>3. i - n \in 1..(l - n) /\ n + (i - n) = i
          BY <3>2, <5>2
        <5> QED BY <5>3 DEF l
      <4> QED BY <2>1, <4>1 DEF InSeq
    <3> QED BY <3>1, <3>2
  <2>3. ASSUME NEW i \in DOMAIN batch'[c] PROVE batch'[c][i] \in InSeq(s)
    BY <2>0, <2>1 DEF InSeq
  <2>4. ASSUME NEW i \in DOMAIN pending'[c] PROVE pending'[c][i] \in InSeq(s)
    <3>1. n + i \in DOMAIN s
      BY <2>0, <2>1
    <3> QED BY <2>1, <3>1 DEF InSeq
  <2>5. InSeq(s) = InSeq(batch'[c]) \cup InSeq(pending'[c])
    BY <2>2, <2>3, <2>4 DEF InSeq
  <2> QED BY <2>5 DEF s
<1>4. InBatch(c) = {} /\ InBatch(c)' = InSeq(batch'[c])
  BY <1>1 DEF InBatch, InSeq
<1>5. InSeq(pending[c])' = InSeq(pending'[c])
  BY DEF InSeq
<1> QED BY <1>1, <1>2, <1>3, <1>4, <1>5 DEF Pipeline

LEMMA AnswersTake ==
  ASSUME IngestionTypeOK, IngestionTypeOK', QuietInv, AnswersInv, NEW c \in Callers, Take(c)
  PROVE  AnswersInv'
<1>1. /\ UNCHANGED <<acked, durable, disk, goneDisk, asked, live, gone>>
      /\ step[c] = "idle" /\ step' = [step EXCEPT ![c] = "embed"]
  BY DEF Take, AddDocuments, ghostVars
<1>2. \A d \in Callers : InGap(d) => InGap(d)' /\ d # c
  BY <1>1 DEF InGap, IngestionTypeOK, DocumentsTypeOK
<1>3. \A d \in Callers : Deleted(d) \subseteq Deleted(d)'
  BY <1>2, TakeMoves DEF Deleted, BatchIds, InBatch
<1>4. \A v \in Version : HeldOrGone(v) => HeldOrGone(v)'
  BY <1>1, <1>3 DEF HeldOrGone, Held
<1>5. \A d \in Callers : Pipeline(d)' = Pipeline(d)
  <2>1. \A d \in Callers \ {c} : Pipeline(d)' = Pipeline(d)
    BY TakeMoves DEF Pipeline, InBatch, InSeq
  <2> QED BY <2>1, TakeMoves
<1> QED BY <1>1, <1>4, <1>5, AnswersKept

\* What the delete takes from the writer is between its delete and its add.
LEMMA AnswersReplace ==
  ASSUME IngestionTypeOK, IngestionTypeOK', AnswersInv, NEW c \in Callers, Replace(c)
  PROVE  AnswersInv'
<1>1. /\ UNCHANGED <<acked, durable, disk, goneDisk, asked, gone, batch, pending>>
      /\ live' = Without(live, BatchIds(c)) /\ step[c] = "embed"
      /\ step' = [step EXCEPT ![c] = "add"]
  BY DEF Replace, DeleteOld, ghostVars, procVars
<1>2. \A d \in Callers : Deleted(d) \subseteq Deleted(d)' /\ Deleted(c)' = BatchIds(c)
  BY <1>1 DEF Deleted, InGap, BatchIds, InBatch, IngestionTypeOK, DocumentsTypeOK
<1>3. \A v \in Version : IdOf[v] \notin BatchIds(c) => live'[v] = live[v]
  BY <1>1 DEF Without
<1>4. \A v \in Version : HeldOrGone(v) => HeldOrGone(v)'
  BY <1>1, <1>2, <1>3 DEF HeldOrGone, Held
<1>5. \A d \in Callers : Pipeline(d)' = Pipeline(d)
  BY <1>1 DEF Pipeline, InBatch, InSeq
<1> QED BY <1>1, <1>4, <1>5, AnswersKept

\* What an add does to the writer.
LEMMA AddCounts ==
  ASSUME IngestionTypeOK, NEW c \in Callers, Add(c)
  PROVE  /\ \A v \in Version : live'[v] \in Nat
         /\ \A v \in Version : live'[v] > 0 <=> live[v] > 0 \/ v \in InBatch(c)
         /\ step[c] = "add" /\ step'[c] = "idle" /\ batch'[c] = <<>>
         /\ \A d \in Callers \ {c} : step'[d] = step[d] /\ batch'[d] = batch[d]
<1>1. /\ live' = [v \in Version |-> live[v] + Copies(v, batch[c])]
      /\ step[c] = "add" /\ step'[c] = "idle" /\ batch'[c] = <<>>
      /\ \A d \in Callers \ {c} : step'[d] = step[d] /\ batch'[d] = batch[d]
  BY DEF Add, AddNew, Return, IngestionTypeOK, DocumentsTypeOK
<1>2. \A v \in Version :
        /\ live[v] \in Nat /\ Copies(v, batch[c]) \in Nat
        /\ Copies(v, batch[c]) > 0 <=> v \in InBatch(c)
  <2>1. live \in [Version -> Nat] /\ batch \in [Callers -> Seq(Version)]
    BY DEF IngestionTypeOK, DocumentsTypeOK
  <2>2. batch[c] \in Seq(Version) /\ InBatch(c) = InSeq(batch[c])
    BY <2>1, BatchIsOfIds
  <2> QED BY <2>1, <2>2, CopiesAreCounted
<1>3. \A v \in Version : live'[v] = live[v] + Copies(v, batch[c])
  BY <1>1
<1>4. ASSUME NEW v \in Version
      PROVE  live'[v] \in Nat /\ (live'[v] > 0 <=> live[v] > 0 \/ v \in InBatch(c))
  BY <1>2, <1>3
<1> QED BY <1>1, <1>4

LEMMA AnswersAdd ==
  ASSUME IngestionTypeOK, IngestionTypeOK', AnswersInv, NEW c \in Callers, Add(c)
  PROVE  AnswersInv'
<1>1. /\ UNCHANGED <<acked, durable, disk, goneDisk, asked, pending>>
      /\ gone' = gone \ BatchIds(c)
  BY DEF Add, AddNew, procVars
<1>2. \A id \in Ids : Held(live, id) \subseteq Held(live', id)
  BY AddCounts DEF Held
<1>3. \A id \in BatchIds(c) : Held(live', id) # {}
  BY AddCounts, BatchIsOfIds DEF Held, BatchIds
<1>4. \A d \in Callers \ {c} : Deleted(d)' = Deleted(d)
  BY AddCounts, SameCall
<1>5. Deleted(c) \subseteq BatchIds(c)
  BY DEF Deleted
<1>6. \A v \in Version : HeldOrGone(v) => HeldOrGone(v)'
  <2> TAKE v \in Version
  <2>1. IdOf[v] \in Ids
    BY DEF Ids
  <2> QED BY <1>1, <1>2, <1>3, <1>4, <1>5, <2>1 DEF HeldOrGone, Held
<1>7. \A d \in Callers : \A v \in Version :
        v \in Pipeline(d) => (v \in Pipeline(d))' \/ HeldOrGone(v)'
  <2> TAKE d \in Callers
  <2> TAKE v \in Version
  <2>1. CASE d = c
    <3>1. v \in InBatch(c) => HeldOrGone(v)'
      BY <1>3 DEF HeldOrGone, Held, BatchIds
    <3>2. v \in InSeq(pending[c]) => (v \in Pipeline(c))'
      BY <1>1 DEF Pipeline, InSeq
    <3> QED BY <2>1, <3>1, <3>2 DEF Pipeline
  <2>2. CASE d # c
    BY <1>1, <2>2, AddCounts DEF Pipeline, InSeq, InBatch
  <2> QED BY <2>1, <2>2
<1> QED BY <1>1, <1>6, <1>7, AnswersKept

LEMMA AnswersAnswer ==
  ASSUME IngestionTypeOK, IngestionTypeOK', QuietInv, AnswersInv, NEW c \in Callers, Answer(c)
  PROVE  AnswersInv'
<1>1. /\ UNCHANGED <<docVars, pending, durable, gone, goneDisk>>
      /\ acked' = acked \cup InSeq(asked[c])
      /\ asked' = [asked EXCEPT ![c] = <<>>]
      /\ pending[c] = <<>> /\ step[c] = "idle"
  BY DEF Answer
<1>2. Pipeline(c) = {}
  BY <1>1 DEF QuietInv, Pipeline, InSeq, InBatch
<1>3. \A v \in InSeq(asked[c]) : HeldOrGone(v)
  BY <1>2 DEF AnswersInv, AskedInv
<1>4. AckedIsHeld'
  <2>1. \A d \in Callers : Deleted(d)' = Deleted(d)
    BY <1>1 DEF docVars, Deleted, InGap, BatchIds, InBatch
  <2>2. \A v \in acked' : HeldOrGone(v)
    BY <1>1, <1>3 DEF AnswersInv, AckedIsHeld, HeldOrGone
  <2> QED BY <1>1, <2>1, <2>2 DEF AnswersInv, AckedIsHeld, HeldOrGone, Held, docVars
<1>5. \A d \in Callers : /\ Pipeline(d)' = Pipeline(d)
                         /\ (InSeq(asked[d]))' \subseteq InSeq(asked[d])
  BY <1>1 DEF docVars, Pipeline, InSeq, InBatch, IngestionTypeOK
<1>6. \A v \in Version : HeldOrGone(v)' = HeldOrGone(v)
  BY <1>1 DEF docVars, HeldOrGone, Held, Deleted, InGap, BatchIds, InBatch
<1>7. AskedInv'
  BY <1>5, <1>6, ElementsOf DEF AnswersInv, AskedInv, IngestionTypeOK
<1> QED BY <1>4, <1>7 DEF AnswersInv

LEMMA AnswersFail ==
  ASSUME IngestionTypeOK, IngestionTypeOK', AnswersInv, NEW c \in Callers, Fail(c),
         source = "api"
  PROVE  AnswersInv'
<1>1. /\ UNCHANGED <<acked, durable, disk, live, goneDisk>>
      /\ gone' = gone \cup Deleted(c)
      /\ asked' = [asked EXCEPT ![c] = <<>>] /\ pending' = [pending EXCEPT ![c] = <<>>]
      /\ \A d \in Callers \ {c} : step'[d] = step[d] /\ batch'[d] = batch[d]
  BY DEF Fail, AddFails, Return, docVars, IngestionTypeOK, DocumentsTypeOK
<1>2. \A d \in Callers \ {c} : Deleted(d)' = Deleted(d) /\ Pipeline(d)' = Pipeline(d)
  <2> TAKE d \in Callers \ {c}
  <2>1. InBatch(d)' = InBatch(d) /\ Deleted(d)' = Deleted(d)
    BY <1>1, SameCall
  <2>2. pending'[d] = pending[d]
    BY <1>1 DEF IngestionTypeOK
  <2> QED BY <2>1, <2>2 DEF Pipeline, InSeq
<1>3. \A v \in Version : HeldOrGone(v) => HeldOrGone(v)'
  BY <1>1, <1>2 DEF HeldOrGone, Held
<1>4. (InSeq(asked[c]))' = {}
  BY <1>1 DEF InSeq, IngestionTypeOK
<1>5. \A d \in Callers \ {c} : (InSeq(asked[d]))' = InSeq(asked[d])
  BY <1>1 DEF InSeq, IngestionTypeOK
<1> QED BY <1>1, <1>2, <1>3, <1>4, <1>5, AnswersKept

LEMMA AnswersStop ==
  ASSUME IngestionTypeOK, IngestionTypeOK', AnswersInv, Stop
  PROVE  AnswersInv'
<1>1. /\ UNCHANGED <<acked, durable, disk, live, gone, goneDisk>>
      /\ asked' = [c \in Callers |-> <<>>] /\ \A c \in Callers : Deleted(c) = {}
  BY DEF Stop, Shut, Drop, Deleted
<1>2. \A v \in Version : HeldOrGone(v) => HeldOrGone(v)'
  BY <1>1 DEF HeldOrGone, Held
<1>3. \A d \in Callers : (InSeq(asked[d]))' = {}
  BY <1>1 DEF InSeq
<1> QED BY <1>1, <1>2, <1>3, AnswersKept

LEMMA AnswersDelete ==
  ASSUME IngestionTypeOK, IngestionTypeOK', AnswersInv, Delete
  PROVE  AnswersInv'
<1>1. PICK ids : live' = Without(live, ids) /\ gone' = gone \cup ids
  BY DEF Delete, DeleteDocuments
<1>2. UNCHANGED <<acked, durable, disk, goneDisk, asked, pending, batch, step>>
  BY DEF Delete, DeleteDocuments, procVars
<1>3. \A d \in Callers : Deleted(d)' = Deleted(d) /\ Pipeline(d)' = Pipeline(d)
  BY <1>2 DEF Deleted, InGap, BatchIds, InBatch, Pipeline, InSeq
<1>4. \A v \in Version : IdOf[v] \notin ids => live'[v] = live[v]
  BY <1>1 DEF Without
<1>5. \A v \in Version : HeldOrGone(v) => HeldOrGone(v)'
  BY <1>1, <1>3, <1>4 DEF HeldOrGone, Held
<1> QED BY <1>2, <1>3, <1>5, AnswersKept

\* A commit has what the writer has, and owes what is between a delete and its add.
LEMMA AnswersCommit ==
  ASSUME IngestionTypeOK, AnswersInv, Flush \/ FlushRequest \/ Finish \/ Close
  PROVE  AnswersInv'
<1>1. /\ disk' = live /\ durable' = acked
      /\ goneDisk' = gone \cup UNION {Deleted(c) : c \in Callers}
      /\ UNCHANGED <<acked, gone, asked, pending, live, batch, step>>
  BY DEF Flush, FlushRequest, Finish, Close, CommitAll, Commit, procVars
<1>2. \A c \in Callers : Deleted(c)' = Deleted(c) /\ Pipeline(c)' = Pipeline(c)
  BY <1>1 DEF Deleted, InGap, BatchIds, InBatch, Pipeline, InSeq
<1>3. \A v \in Version : HeldOrGone(v)' = HeldOrGone(v)
  BY <1>1, <1>2 DEF HeldOrGone, Held
<1>4. \A v \in acked : HeldOrGone(v)
  BY DEF AnswersInv, AckedIsHeld, HeldOrGone
<1>5. \A v \in durable' : Held(disk, IdOf[v])' # {} \/ IdOf[v] \in goneDisk'
  BY <1>1, <1>4 DEF HeldOrGone, Held
<1>6. AckedIsHeld'
  BY <1>1, <1>3, <1>4, <1>5 DEF AckedIsHeld, HeldOrGone, IngestionTypeOK
<1>7. AskedInv'
  BY <1>1, <1>2, <1>3, ElementsOf DEF AnswersInv, AskedInv, IngestionTypeOK
<1> QED BY <1>6, <1>7 DEF AnswersInv

LEMMA AnswersKill ==
  ASSUME IngestionTypeOK, AnswersInv, Kill
  PROVE  AnswersInv'
<1>1. /\ live' = disk /\ disk' = disk /\ acked' = durable /\ durable' = durable
      /\ gone' = goneDisk /\ goneDisk' = goneDisk /\ asked' = [c \in Callers |-> <<>>]
  BY DEF Kill, Drop
<1>2. AskedInv'
  BY <1>1 DEF AskedInv, InSeq
<1>3. AckedIsHeld'
  BY <1>1 DEF AnswersInv, AckedIsHeld, Held
<1> QED BY <1>2, <1>3 DEF AnswersInv

LEMMA AnswersElsewhere ==
  ASSUME IngestionTypeOK, IngestionTypeOK', QuietInv, AnswersInv,
         FlushFails \/ Start \/ UNCHANGED ingestionVars
  PROVE  AnswersInv'
<1>1. /\ UNCHANGED <<acked, durable, gone, goneDisk, docVars, asked>>
      /\ UNCHANGED pending \/ \A c \in Callers : asked[c] = <<>>
  BY DEF FlushFails, Start, ingestionVars, procVars, ghostVars, QuietInv
<1>2. \A v \in Version : HeldOrGone(v)' = HeldOrGone(v)
  BY <1>1 DEF docVars, HeldOrGone, Held, Deleted, InGap, BatchIds, InBatch
<1>3. \A d \in Callers : /\ (InSeq(asked[d]))' = InSeq(asked[d])
                         /\ InSeq(asked[d]) = {} \/ Pipeline(d)' = Pipeline(d)
  BY <1>1 DEF docVars, Pipeline, InBatch, InSeq
<1> QED BY <1>1, <1>2, <1>3, AnswersKept DEF docVars

LEMMA AnswersStep ==
  /\ IngestionTypeOK /\ CallsAndStreams /\ AnswersInv /\ [IngestionNext]_ingestionVars
  /\ IngestionTypeOK' /\ CallsAndStreams'
  => AnswersInv'
<1> SUFFICES ASSUME IngestionTypeOK, CallsAndStreams, AnswersInv,
                    [IngestionNext]_ingestionVars, IngestionTypeOK', CallsAndStreams'
             PROVE  AnswersInv'
  OBVIOUS
<1>1. QuietInv /\ StreamInv'
  BY DEF CallsAndStreams
<1>2. CASE source' # "api"
  BY <1>1, <1>2, NoAnswers
<1>3. CASE source' = "api" /\ \E c \in Callers : Request(c) \/ Take(c) \/ Replace(c) \/ Add(c)
                                                 \/ Answer(c)
  BY <1>1, <1>3, AnswersRequest, AnswersTake, AnswersReplace, AnswersAdd, AnswersAnswer
<1>4. ASSUME source' = "api", NEW c \in Callers, Fail(c) PROVE AnswersInv'
  <2>1. source = "api"
    BY <1>4 DEF Fail
  <2> QED BY <1>4, <2>1, AnswersFail
<1>5. CASE \/ Stop \/ Kill \/ Delete \/ Flush \/ FlushRequest \/ FlushFails \/ Finish
           \/ Close \/ Start \/ UNCHANGED ingestionVars
  BY <1>1, <1>5, AnswersStop, AnswersKill, AnswersDelete, AnswersCommit, AnswersElsewhere
<1>6. CASE ProduceMessage \/ AssignFirst \/ Rebalance \/ PollMessages \/ AssignFails
  <2>1. source' # "api"
    BY <1>6 DEF ProduceMessage, AssignFirst, Rebalance, PollMessages, Polling, AssignFails, procVars
  <2> QED BY <2>1, <1>2
<1> QED BY <1>2, <1>3, <1>4, <1>5, <1>6 DEF IngestionNext

LEMMA AnswersFirst == IngestionInit => AnswersInv
  BY DEF IngestionInit, AnswersInv, AckedIsHeld, AskedInv, InSeq

\* A call has a batch only while it is in progress, nothing is in progress in a
\* process that stopped, and a stream is the only caller of its process
\* (IndexModifyRoute.index, IndexMode).
THEOREM CallsInvariant == IngestionSpec => []CallsAndStreams
<1>1. IngestionTypeOK /\ CallsAndStreams /\ [IngestionNext]_ingestionVars => CallsAndStreams'
  BY CallsAndStreamsStep
<1> QED BY <1>1, NothingAsked, IngestionTypeCorrect, PTL DEF IngestionSpec

\* What a request was answered for is in the writer, and in the last commit if
\* it was answered before it, unless its document was deleted or a call is
\* between its delete and its add: through any interleaving of requests, flushes,
\* deletes, failures, kills and restarts.
THEOREM AnsweredIsHeld == IngestionSpec => []AckedIsHeld
<1>1. AnswersInv => AckedIsHeld
  BY DEF AnswersInv
<1> QED
  BY <1>1, AnswersFirst, AnswersStep, CallsInvariant, IngestionTypeCorrect, PTL
  DEF IngestionSpec

-----------------------------------------------------------------------------
(* What a stream delivers *)

\* v is in s, and nothing older of its document comes after it.
Comes(s, v) ==
  \E i \in DOMAIN s :
    s[i] = v /\ \A j \in DOMAIN s : j > i /\ IdOf[s[j]] = IdOf[v] => s[j] >= v

\* Nothing in s is an older version of the document.
NoOlder(s, v) == \A i \in DOMAIN s : IdOf[s[i]] = IdOf[v] => s[i] >= v

\* What the stream does next leaves the index with this version or a later one.
Secure(v) ==
  \/ Comes(pending[Reader], v)
  \/ /\ NoOlder(pending[Reader], v)
     /\ \/ Comes(batch[Reader], v)
        \/ /\ NoOlder(batch[Reader], v)
           /\ HoldsFrom(live, v) \/ IdOf[v] \in Deleted(Reader)

\* A stream has one caller.
LEMMA OneCaller ==
  ASSUME IngestionTypeOK, StreamInv, source # "api", NEW c \in Callers,
         Take(c) \/ Replace(c) \/ Add(c)
  PROVE  c = Reader
<1> SUFFICES ASSUME c # Reader PROVE FALSE
  OBVIOUS
<1>1. pending[c] = <<>> /\ step[c] = "idle" /\ Len(pending[c]) = 0
  BY EmptySeq DEF StreamInv
<1>2. CASE Take(c)
  BY <1>1, <1>2, IngestionAssumption DEF Take, NextChunk
<1>3. CASE Replace(c) \/ Add(c)
  BY <1>1, <1>3 DEF Replace, DeleteOld, Add, AddNew
<1> QED BY <1>2, <1>3

LEMMA SecureSame ==
  ASSUME live' = live, pending'[Reader] = pending[Reader], batch'[Reader] = batch[Reader],
         step'[Reader] = step[Reader], NEW v \in Version
  PROVE  Secure(v)' <=> Secure(v)
<1>1. Deleted(Reader)' = Deleted(Reader)
  BY IngestionAssumption, SameCall
<1>2. HoldsFrom(live', v) <=> HoldsFrom(live, v)
  OBVIOUS
<1>3. (NoOlder(pending[Reader], v))' <=> NoOlder(pending[Reader], v)
  BY DEF NoOlder
<1>4. (NoOlder(batch[Reader], v))' <=> NoOlder(batch[Reader], v)
  BY DEF NoOlder
<1>5. (Comes(pending[Reader], v))' <=> Comes(pending[Reader], v)
  BY DEF Comes
<1>6. (Comes(batch[Reader], v))' <=> Comes(batch[Reader], v)
  BY DEF Comes
<1>7. (HoldsFrom(live, v))' <=> HoldsFrom(live', v)
  BY DEF HoldsFrom, Held
<1> QED BY <1>1, <1>2, <1>3, <1>4, <1>5, <1>6, <1>7 DEF Secure

LEMMA SecureTake ==
  ASSUME IngestionTypeOK, QuietInv, Take(Reader), NEW v \in Version, Secure(v)
  PROVE  Secure(v)'
<1> DEFINE s == pending[Reader]
           b == batch'[Reader]
           q == pending'[Reader]
           n == NextChunk(Reader)
<1>1. /\ n \in 0..Len(s) /\ batch[Reader] = <<>>
      /\ b = SubSeq(s, 1, n) /\ q = SubSeq(s, n + 1, Len(s)) /\ s \in Seq(Version)
      /\ live' = live /\ step[Reader] = "idle"
  BY TakeMoves, IngestionAssumption DEF Take, AddDocuments, IngestionTypeOK
<1>2. Comes(s, v) \/ (NoOlder(s, v) /\ HoldsFrom(live, v))
  BY <1>1 DEF Secure, Comes, Deleted, InGap
<1> HIDE DEF s, b, q, n
<1>3. /\ DOMAIN s = 1..Len(s) /\ Len(s) \in Nat /\ n \in Nat /\ n <= Len(s)
      /\ DOMAIN b = 1..n /\ DOMAIN q = 1..(Len(s) - n)
      /\ \A i \in 1..n : b[i] = s[i] /\ i \in DOMAIN s
      /\ \A i \in 1..(Len(s) - n) : q[i] = s[n + i] /\ n + i \in DOMAIN s
  <2>1. /\ DOMAIN s = 1..Len(s) /\ Len(s) \in Nat
        /\ DOMAIN b = 1..n /\ DOMAIN q = 1..(Len(s) - n)
        /\ \A i \in 1..n : b[i] = s[i]
        /\ \A i \in 1..(Len(s) - n) : q[i] = s[n + i]
    BY <1>1, Split
  <2> QED BY <1>1, <2>1
<1>4. CASE Comes(s, v)
  <2>1. PICK k \in DOMAIN s :
          s[k] = v /\ \A j \in DOMAIN s : j > k /\ IdOf[s[j]] = IdOf[v] => s[j] >= v
    BY <1>4 DEF Comes
  <2>2. CASE k <= n
    <3>1. \A i \in DOMAIN q : n + i > k
      BY <1>3, <2>1, <2>2
    <3>2. NoOlder(q, v)
      BY <1>3, <2>1, <3>1 DEF NoOlder
    <3>3. k \in DOMAIN b
      BY <1>3, <2>1, <2>2
    <3>4. Comes(b, v)
      BY <1>3, <2>1, <3>3 DEF Comes
    <3> QED BY <3>2, <3>4 DEF Secure, b, q, Comes, NoOlder
  <2>3. CASE ~(k <= n)
    <3>1. k - n \in DOMAIN q /\ n + (k - n) = k
      BY <1>3, <2>1, <2>3
    <3>2. \A i \in DOMAIN q : i > k - n => n + i > k
      BY <1>3, <2>1
    <3>3. q[k - n] = v
      BY <1>3, <2>1, <3>1
    <3>4. \A i \in DOMAIN q : i > k - n /\ IdOf[q[i]] = IdOf[v] => q[i] >= v
      BY <1>3, <2>1, <3>2
    <3>5. Comes(q, v)
      BY <3>1, <3>3, <3>4 DEF Comes
    <3> QED BY <3>5 DEF Secure, q, Comes
  <2> QED BY <2>2, <2>3
<1>5. CASE NoOlder(s, v) /\ HoldsFrom(live, v)
  <2>1. NoOlder(b, v) /\ NoOlder(q, v)
    BY <1>3, <1>5 DEF NoOlder
  <2>2. (HoldsFrom(live, v))'
    BY <1>1, <1>5 DEF HoldsFrom, Held
  <2> QED BY <2>1, <2>2 DEF Secure, b, q, NoOlder
<1> QED BY <1>2, <1>4, <1>5

LEMMA SecureReplace ==
  ASSUME IngestionTypeOK, Replace(Reader), NEW v \in Version, Secure(v)
  PROVE  Secure(v)'
<1>1. /\ batch' = batch /\ pending' = pending /\ step'[Reader] = "add"
      /\ step[Reader] = "embed" /\ live' = Without(live, BatchIds(Reader))
  BY IngestionAssumption
  DEF Replace, DeleteOld, procVars, IngestionTypeOK, DocumentsTypeOK
<1>2. Deleted(Reader)' = BatchIds(Reader) /\ Deleted(Reader) = {}
  BY <1>1 DEF Deleted, InGap, BatchIds, InBatch
<1>3. HoldsFrom(live, v) /\ IdOf[v] \notin BatchIds(Reader) => (HoldsFrom(live, v))'
  BY <1>1 DEF HoldsFrom, Held, Without
<1> QED BY <1>1, <1>2, <1>3 DEF Secure, Comes, NoOlder

LEMMA SecureAdd ==
  ASSUME IngestionTypeOK, Add(Reader), NEW v \in Version, Secure(v)
  PROVE  Secure(v)'
<1>1. /\ pending' = pending /\ batch'[Reader] = <<>>
      /\ \A w \in Version : live'[w] > 0 <=> live[w] > 0 \/ w \in InBatch(Reader)
  BY AddCounts, IngestionAssumption DEF Add, procVars
<1>2. HoldsFrom(live, v) \/ v \in InBatch(Reader) => (HoldsFrom(live, v))'
  <2>1. v >= v
    BY DEF Version
  <2> QED BY <1>1, <2>1 DEF HoldsFrom, Held
<1>3. Comes(batch[Reader], v) => v \in InBatch(Reader)
  BY DEF Comes, InBatch
<1>4. NoOlder(batch[Reader], v) /\ IdOf[v] \in Deleted(Reader) => (HoldsFrom(live, v))'
  <2> SUFFICES ASSUME NoOlder(batch[Reader], v), IdOf[v] \in BatchIds(Reader)
               PROVE  (HoldsFrom(live, v))'
    BY DEF Deleted
  <2>1. PICK i \in DOMAIN batch[Reader] : IdOf[batch[Reader][i]] = IdOf[v]
    BY DEF BatchIds, InBatch
  <2>2. /\ batch[Reader][i] >= v /\ batch[Reader][i] \in InBatch(Reader)
        /\ batch[Reader][i] \in Version
    BY <2>1, BatchIsOfIds, IngestionAssumption DEF NoOlder, InBatch
  <2>3. live'[batch[Reader][i]] > 0
    BY <1>1, <2>2
  <2> QED BY <2>1, <2>2, <2>3 DEF HoldsFrom, Held
<1>5. (NoOlder(batch[Reader], v))'
  BY <1>1 DEF NoOlder
<1>6. (Comes(pending[Reader], v))' = Comes(pending[Reader], v)
  BY <1>1 DEF Comes
<1>7. (NoOlder(pending[Reader], v))' = NoOlder(pending[Reader], v)
  BY <1>1 DEF NoOlder
<1> QED BY <1>2, <1>3, <1>4, <1>5, <1>6, <1>7 DEF Secure

-----------------------------------------------------------------------------
(* The documents of a file *)

FileInv ==
  source = "file" =>
    /\ phase = "up" => \A v \in Version : Secure(v)
    /\ DoneHoldsFile

LEMMA WholeFileIsSecure ==
  ASSUME pending[Reader] = WholeFile, NEW v \in Version
  PROVE  Secure(v)
  BY VersionsAssumption DEF Secure, Comes, WholeFile, Version

LEMMA FileFirst == IngestionInit => FileInv
  BY WholeFileIsSecure, IngestionAssumption DEF IngestionInit, FileInv, DoneHoldsFile

LEMMA FileStep ==
  /\ IngestionTypeOK /\ CallsAndStreams /\ FileInv /\ [IngestionNext]_ingestionVars
  => FileInv'
<1> SUFFICES ASSUME IngestionTypeOK, CallsAndStreams, FileInv,
                    [IngestionNext]_ingestionVars, source' = "file"
             PROVE  FileInv'
  BY DEF FileInv, DoneHoldsFile
<1>1. source = "file" /\ source # "api" /\ QuietInv /\ StreamInv
  BY DEF IngestionNext, Request, Take, Replace, Add, Answer, Fail, ProduceMessage, AssignFirst,
     Rebalance, PollMessages, AssignFails, Delete, Flush, FlushRequest, FlushFails, Finish, Stop, Close, Kill, Start, Shut,
     procVars, ingestionVars, CallsAndStreams
<1>2. ASSUME phase = "up", phase' = "up", \A v \in Version : Secure(v) => Secure(v)'
      PROVE  FileInv'
  BY <1>1, <1>2 DEF FileInv, DoneHoldsFile
<1>3. ASSUME NEW c \in Callers, Take(c) \/ Replace(c) \/ Add(c) PROVE FileInv'
  <2>1. c = Reader
    BY <1>1, <1>3, OneCaller
  <2>2. phase = "up" /\ phase' = "up"
    BY <1>3 DEF Take, Replace, Add, procVars
  <2>3. \A v \in Version : Secure(v) => Secure(v)'
    BY <1>1, <1>3, <2>1, SecureTake, SecureReplace, SecureAdd
  <2> QED BY <1>2, <2>2, <2>3
<1>4. CASE Finish
  <2>1. disk' = live /\ Pipeline(Reader) = {} /\ phase = "up" /\ phase' = "done"
    BY <1>4 DEF Finish, CommitAll, Commit
  <2>2. pending[Reader] \in Seq(Version) /\ batch[Reader] \in Seq(Version)
    BY IngestionAssumption DEF IngestionTypeOK, DocumentsTypeOK
  <2>3. \A v \in Version : HoldsFrom(live, v)
    <3> TAKE v \in Version
    <3>1. Secure(v)
      BY <1>1, <2>1 DEF FileInv
    <3>2. ~Comes(pending[Reader], v) /\ ~Comes(batch[Reader], v) /\ Deleted(Reader) = {}
      BY <2>1 DEF Pipeline, Comes, InSeq, InBatch, Deleted, BatchIds
    <3> QED BY <3>1, <3>2 DEF Secure
  <2> QED BY <2>1, <2>3 DEF FileInv, DoneHoldsFile, HoldsFrom, Held
<1>5. CASE Flush \/ FlushRequest
  <2>1. phase = "up" /\ UNCHANGED <<live, pending, batch, step, phase>>
    BY <1>5 DEF Flush, FlushRequest, CommitAll, Commit, procVars
  <2> QED BY <1>2, <2>1, SecureSame
<1>6. CASE Start
  <2>1. pending'[Reader] = WholeFile /\ phase' = "up"
    BY <1>1, <1>6, IngestionAssumption DEF Start
  <2>2. \A v \in Version : Secure(v)'
    BY <2>1, VersionsAssumption DEF Secure, Comes, WholeFile, Version
  <2> QED BY <2>1, <2>2 DEF FileInv, DoneHoldsFile
<1>7. CASE Stop \/ Kill \/ Close \/ \E c \in Callers : Fail(c)
  <2>1. phase' \in {"closing", "down"}
    BY <1>1, <1>7 DEF Stop, Kill, Close, Fail, Shut
  <2> QED BY <2>1 DEF FileInv, DoneHoldsFile
<1>8. ASSUME NEW c \in Callers, Answer(c) PROVE FileInv'
  BY <1>1, <1>8 DEF Answer, StreamInv
<1>9. CASE FlushFails \/ UNCHANGED ingestionVars
  <2>1. UNCHANGED <<live, disk, pending, batch, step, phase>>
    BY <1>9 DEF FlushFails, ingestionVars, docVars, procVars
  <2> QED BY <1>1, <2>1, SecureSame DEF FileInv, DoneHoldsFile, HoldsFrom, Held
<1>10. \A c \in Callers : ~Request(c)
  BY <1>1 DEF Request
<1>11. ~(ProduceMessage \/ AssignFirst \/ Rebalance \/ PollMessages \/ AssignFails \/ Delete)
  BY <1>1 DEF ProduceMessage, AssignFirst, Rebalance, PollMessages, Polling, AssignFails, Delete
<1> QED
  BY <1>3, <1>4, <1>5, <1>6, <1>7, <1>8, <1>9, <1>10, <1>11 DEF IngestionNext

\* An indexer that has finished a file has the last version of every document of
\* it in its commit, however often it was killed and started before.
THEOREM FinishedFileIsHeld == IngestionSpec => []DoneHoldsFile
<1>1. FileInv => DoneHoldsFile
  BY DEF FileInv, DoneHoldsFile
<1> QED
  BY <1>1, FileFirst, FileStep, CallsInvariant, IngestionTypeCorrect, PTL DEF IngestionSpec

-----------------------------------------------------------------------------
(* The topic and the consumer *)

\* A partition's messages are in the order of their versions, and what was polled exists.
TopicInv ==
  /\ \A p \in Partitions : \A i \in DOMAIN log[p] :
       /\ log[p][i] <= produced /\ PartOf[IdOf[log[p][i]]] = p
       /\ \A j \in DOMAIN log[p] : i < j => log[p][i] < log[p][j]
  /\ polled \subseteq 1..produced

\* The consumer has all partitions, or none and then nothing to add.
AssignedInv ==
  /\ (\E p \in Partitions : position[p] = None) => \A p \in Partitions : position[p] = None
  /\ source = "kafka" /\ phase # "up" => \A p \in Partitions : position[p] = None
  /\ source = "kafka" /\ (\A p \in Partitions : position[p] = None) =>
       pending[Reader] = <<>> /\ step[Reader] = "idle"

KafkaBasics == TopicInv /\ AssignedInv

LEMMA KafkaFirst == IngestionInit => KafkaBasics
  BY EmptySeq, IngestionAssumption
  DEF IngestionInit, DocumentsInit, KafkaInit, KafkaBasics, TopicInv, AssignedInv

LEMMA TopicSame ==
  ASSUME TopicInv, log' = log, polled' = polled, produced' \in Nat, produced \in Nat,
         produced' >= produced, KafkaTypeOK
  PROVE  TopicInv'
<1>1. ASSUME NEW p \in Partitions, NEW i \in DOMAIN log[p] PROVE log[p][i] <= produced'
  <2>1. log[p][i] \in Version /\ log[p][i] <= produced
    BY LenProperties, ElementOfSeq DEF TopicInv, KafkaTypeOK
  <2> QED BY <2>1 DEF Version
<1> QED BY <1>1 DEF TopicInv

LEMMA TopicGrows ==
  ASSUME IngestionTypeOK, TopicInv, ProduceMessage
  PROVE  /\ TopicInv' /\ polled' = polled
         /\ \A p \in Partitions :
              /\ Len(log[p]) \in Nat /\ DOMAIN log[p] = 1..Len(log[p])
              /\ Len(log'[p]) \in Nat /\ DOMAIN log'[p] = 1..Len(log'[p])
              /\ Len(log'[p]) >= Len(log[p])
              /\ \A i \in DOMAIN log[p] : i \in DOMAIN log'[p] /\ log'[p][i] = log[p][i]
              /\ \A i \in DOMAIN log'[p] :
                   i \notin DOMAIN log[p] => i = Len(log'[p]) /\ log'[p][i] \notin polled
<1> DEFINE v == produced'
           q == PartOf[IdOf[v]]
<1>1. /\ log' = [log EXCEPT ![q] = Append(log[q], v)] /\ produced' = produced + 1
      /\ produced < LastVersion /\ polled' = polled
  BY DEF ProduceMessage, Produce, ghostVars
<1>2. v \in Version /\ q \in Partitions /\ produced \in Nat
  BY <1>1, KafkaAssumption, VersionsAssumption DEF IngestionTypeOK, KafkaTypeOK, Version, Ids
<1>3. /\ Len(log[q]) \in Nat /\ DOMAIN log[q] = 1..Len(log[q])
      /\ Len(Append(log[q], v)) = Len(log[q]) + 1
      /\ DOMAIN Append(log[q], v) = 1..(Len(log[q]) + 1)
      /\ \A i \in 1..Len(log[q]) : Append(log[q], v)[i] = log[q][i]
      /\ Append(log[q], v)[Len(log[q]) + 1] = v
  <2>1. log[q] \in Seq(Version)
    BY <1>2 DEF IngestionTypeOK, KafkaTypeOK
  <2>2. /\ Append(log[q], v) \in Seq(Version) /\ Len(Append(log[q], v)) = Len(log[q]) + 1
        /\ \A i \in 1..Len(log[q]) : Append(log[q], v)[i] = log[q][i]
        /\ Append(log[q], v)[Len(log[q]) + 1] = v
    BY <1>2, <2>1, AppendProperties
  <2> QED BY <2>1, <2>2, LenProperties
<1>4. log'[q] = Append(log[q], v) /\ \A p \in Partitions \ {q} : log'[p] = log[p]
  BY <1>1, <1>2 DEF IngestionTypeOK, KafkaTypeOK
<1>5. \A p \in Partitions : /\ Len(log[p]) \in Nat /\ DOMAIN log[p] = 1..Len(log[p])
                            /\ \A i \in DOMAIN log[p] : log[p][i] \in Int /\ log[p][i] <= produced
  BY LogTyped DEF IngestionTypeOK, TopicInv
<1>6. v \notin polled /\ PartOf[IdOf[v]] = q
  BY <1>1, <1>2 DEF TopicInv
<1> HIDE DEF v, q
<1>7. ASSUME NEW p \in Partitions
      PROVE  /\ Len(log'[p]) \in Nat /\ DOMAIN log'[p] = 1..Len(log'[p])
             /\ Len(log'[p]) >= Len(log[p])
             /\ \A i \in DOMAIN log[p] : i \in DOMAIN log'[p] /\ log'[p][i] = log[p][i]
             /\ \A i \in DOMAIN log'[p] :
                  i \notin DOMAIN log[p] =>
                    i = Len(log'[p]) /\ log'[p][i] = v /\ p = q
  <2>1. CASE p = q
    <3>1. log'[p] = Append(log[q], v) /\ log[p] = log[q]
      BY <1>4, <2>1
    <3>2. Len(log'[p]) = Len(log[q]) + 1 /\ DOMAIN log'[p] = 1..(Len(log[q]) + 1)
      BY <1>3, <3>1
    <3>3. \A i \in 1..Len(log[q]) : log'[p][i] = log[q][i]
      BY <1>3, <3>1
    <3>4. log'[p][Len(log[q]) + 1] = v
      BY <1>3, <3>1
    <3>5. \A i \in 1..(Len(log[q]) + 1) : i \notin 1..Len(log[q]) => i = Len(log[q]) + 1
      BY <1>3
    <3> QED BY <1>3, <2>1, <3>1, <3>2, <3>3, <3>4, <3>5
  <2>2. CASE p # q
    BY <1>4, <1>5, <2>2
  <2> QED BY <2>1, <2>2
<1>8. polled \subseteq 1..produced'
  BY <1>1, <1>2 DEF TopicInv
<1>9. ASSUME NEW p \in Partitions, NEW i \in DOMAIN log'[p]
      PROVE  /\ log'[p][i] <= produced' /\ PartOf[IdOf[log'[p][i]]] = p
             /\ \A j \in DOMAIN log'[p] : i < j => log'[p][i] < log'[p][j]
  <2>1. CASE i \in DOMAIN log[p]
    <3>1. log'[p][i] = log[p][i] /\ log[p][i] \in Int /\ log[p][i] <= produced
      BY <1>5, <1>7, <2>1
    <3>2. \A j \in DOMAIN log'[p] : i < j => log'[p][i] < log'[p][j]
      <4> TAKE j \in DOMAIN log'[p]
      <4>1. CASE j \in DOMAIN log[p]
        BY <1>7, <2>1, <4>1 DEF TopicInv
      <4>2. CASE j \notin DOMAIN log[p]
        BY <1>1, <1>2, <1>7, <3>1, <4>2 DEF v
      <4> QED BY <4>1, <4>2
    <3> QED BY <1>1, <1>2, <2>1, <3>1, <3>2 DEF TopicInv
  <2>2. CASE i \notin DOMAIN log[p]
    <3>1. log'[p][i] = v /\ p = q /\ i = Len(log'[p])
      BY <1>7, <2>2
    <3>2. \A j \in DOMAIN log'[p] : ~(i < j)
      BY <1>7, <3>1
    <3>3. v <= produced'
      BY <1>2 DEF v, Version
    <3> QED BY <1>6, <3>1, <3>2, <3>3
  <2> QED BY <2>1, <2>2
<1>10. TopicInv'
  BY <1>1, <1>8, <1>9 DEF TopicInv
<1> QED BY <1>1, <1>5, <1>6, <1>7, <1>10

\* What a poll returns comes next in its partition, in its order.
LEMMA PollReturns ==
  ASSUME IngestionTypeOK, TopicInv, NEW p \in Partitions, NEW n \in Nat,
         NEW auto \in BOOLEAN, NEW arrives \in BOOLEAN, Poll(p, n, auto, arrives)
  PROVE  /\ KafkaTypeOK'
         /\ position[p] \in Nat /\ position[p] + n <= Len(log[p])
         /\ Len(log[p]) \in Nat /\ DOMAIN log[p] = 1..Len(log[p])
         /\ position' = [position EXCEPT ![p] = position[p] + n]
         /\ Polled(p, n) \in Seq(Version) /\ DOMAIN Polled(p, n) = 1..n
         /\ \A i \in 1..n : /\ Polled(p, n)[i] = log[p][position[p] + i]
                            /\ position[p] + i \in DOMAIN log[p]
         /\ InSeq(Polled(p, n)) \subseteq 1..produced
<1>1. /\ KafkaTypeOK'
      /\ position[p] \in Nat /\ position[p] + n <= Len(log[p])
      /\ Polled(p, n) \in Seq(Version) /\ DOMAIN Polled(p, n) = 1..n
      /\ \A i \in 1..n : Polled(p, n)[i] = log[p][position[p] + i]
  BY PollTyped DEF IngestionTypeOK
<1>2. Len(log[p]) \in Nat /\ DOMAIN log[p] = 1..Len(log[p])
  BY LenProperties DEF IngestionTypeOK, KafkaTypeOK
<1>3. \A i \in 1..n : position[p] + i \in DOMAIN log[p]
  BY <1>1, <1>2
<1>4. \A i \in 1..n : Polled(p, n)[i] <= produced /\ Polled(p, n)[i] \in Version
  BY <1>1, <1>3, LenProperties, ElementOfSeq DEF TopicInv
<1>5. InSeq(Polled(p, n)) \subseteq 1..produced
  BY <1>1, <1>4 DEF InSeq, Version
<1> QED BY <1>1, <1>2, <1>3, <1>5 DEF Poll

LEMMA TopicStep ==
  IngestionTypeOK /\ TopicInv /\ [IngestionNext]_ingestionVars => TopicInv'
<1> SUFFICES ASSUME IngestionTypeOK, TopicInv, [IngestionNext]_ingestionVars PROVE TopicInv'
  OBVIOUS
<1>0. KafkaTypeOK /\ produced \in Nat
  BY DEF IngestionTypeOK, KafkaTypeOK
<1>1. ASSUME NEW c \in Callers, Request(c) PROVE TopicInv'
  <2>1. log' = log /\ polled' = polled /\ produced' \in Nat /\ produced' >= produced
    BY <1>0, <1>1 DEF Request, ghostVars
  <2> QED BY <1>0, <2>1, TopicSame
<1>2. CASE ProduceMessage
  BY <1>2, TopicGrows
<1>3. CASE PollMessages
  <2>1. PICK p \in Partitions, n \in 0..2, auto \in BOOLEAN, arrives \in BOOLEAN :
          Poll(p, n, auto, arrives) /\ polled' = polled \cup InSeq(Polled(p, n))
    BY <1>3 DEF PollMessages
  <2>2. n \in Nat
    OBVIOUS
  <2>3. InSeq(Polled(p, n)) \subseteq 1..produced
    BY <2>1, <2>2, PollReturns
  <2>4. log' = log /\ produced' = produced
    BY <2>1 DEF Poll
  <2> QED BY <2>1, <2>3, <2>4 DEF TopicInv
<1>4. ASSUME UNCHANGED <<log, produced, polled>> PROVE TopicInv'
  BY <1>0, <1>4, TopicSame
<1>5. CASE \/ AssignFirst \/ Rebalance \/ AssignFails \/ FlushFails \/ Kill \/ Stop \/ Start
           \/ UNCHANGED ingestionVars
  BY <1>4, <1>5
  DEF FlushFails, AssignFirst, Rebalance, Assign, AssignFails, AssignmentFails, Kill, LoseConsumer, Stop, Shut,
      CloseConsumer, Start, kafkaVars, ingestionVars, ghostVars
<1>6. CASE Delete \/ Flush \/ FlushRequest \/ Finish \/ Close
  BY <1>4, <1>6 DEF Delete, Flush, FlushRequest, Finish, Close, CommitAll, kafkaVars
<1>7. ASSUME NEW c \in Callers, Take(c) \/ Replace(c) \/ Add(c) \/ Answer(c) \/ Fail(c)
      PROVE  TopicInv'
  BY <1>4, <1>7
  DEF Take, Replace, Add, Answer, Fail, Shut, CloseConsumer, kafkaVars, ghostVars
<1> QED BY <1>1, <1>2, <1>3, <1>5, <1>6, <1>7 DEF IngestionNext

\* The steps that take the partitions from the consumer.
LEMMA ConsumerGone ==
  ASSUME CloseConsumer \/ LoseConsumer \/ \E kicked \in BOOLEAN : AssignmentFails(kicked)
  PROVE  \A p \in Partitions : position'[p] = None
  BY DEF CloseConsumer, LoseConsumer, AssignmentFails

LEMMA AssignedStep ==
  IngestionTypeOK /\ CallsAndStreams /\ TopicInv /\ AssignedInv /\ [IngestionNext]_ingestionVars
  => AssignedInv'
<1> SUFFICES ASSUME IngestionTypeOK, CallsAndStreams, TopicInv, AssignedInv,
                    [IngestionNext]_ingestionVars
             PROVE  AssignedInv'
  OBVIOUS
<1>0. /\ KafkaTypeOK /\ StreamInv /\ Reader \in Callers
      /\ position \in [Partitions -> Nat \cup {None}]
      /\ pending \in [Callers -> Seq(Version)] /\ step \in [Callers -> Steps]
  BY IngestionAssumption DEF CallsAndStreams, IngestionTypeOK, KafkaTypeOK, DocumentsTypeOK
<1>1. ASSUME UNCHANGED <<position, source, phase>>,
             source = "kafka" /\ (\A p \in Partitions : position[p] = None) =>
               pending'[Reader] = <<>> /\ step'[Reader] = "idle"
      PROVE  AssignedInv'
  BY <1>1 DEF AssignedInv
<1>2. ASSUME NEW c \in Callers, Request(c) \/ Answer(c) PROVE AssignedInv'
  <2>1. UNCHANGED <<position, source, phase, step>>
    BY <1>2 DEF Request, Answer, docVars, kafkaVars
  <2>2. source = "kafka" => pending' = pending
    BY <1>2 DEF Request, Answer
  <2> QED BY <1>1, <2>1, <2>2 DEF AssignedInv
<1>3. ASSUME NEW c \in Callers, Take(c) \/ Replace(c) \/ Add(c) PROVE AssignedInv'
  <2>1. UNCHANGED <<position, source, phase>>
    BY <1>3 DEF Take, Replace, Add, kafkaVars, procVars
  <2>2. ASSUME source = "kafka", \A p \in Partitions : position[p] = None PROVE FALSE
    <3>1. c = Reader
      BY <1>0, <1>3, <2>2, OneCaller
    <3>2. pending[Reader] = <<>> /\ step[Reader] = "idle" /\ Len(pending[Reader]) = 0
      BY <2>2, EmptySeq DEF AssignedInv
    <3> QED
      BY <1>3, <2>2, <3>1, <3>2, IngestionAssumption
      DEF Take, NextChunk, Replace, DeleteOld, Add, AddNew
  <2> QED BY <1>1, <2>1, <2>2
<1>4. CASE ProduceMessage \/ Delete \/ Flush \/ FlushRequest \/ FlushFails \/ UNCHANGED ingestionVars
  <2>1. UNCHANGED <<position, source, phase, step, pending>>
    BY <1>4
    DEF FlushFails, ProduceMessage, Produce, Delete, DeleteDocuments, Flush, FlushRequest, CommitAll, Commit, docVars,
        kafkaVars, procVars, ingestionVars
  <2> QED BY <1>1, <2>1 DEF AssignedInv
<1>5. CASE AssignFirst \/ Rebalance
  <2>1. PICK kicked \in BOOLEAN : Assign(kicked)
    BY <1>5 DEF AssignFirst, Rebalance
  <2>2. \A p \in Partitions : position'[p] # None
    BY <1>0, <2>1, AssignTyped, LogTyped DEF None
  <2>3. phase = "up" /\ UNCHANGED <<source, phase, step, pending>>
    BY <1>5 DEF AssignFirst, Rebalance, Polling, docVars, procVars
  <2> QED BY <2>2, <2>3 DEF AssignedInv
<1>6. CASE PollMessages
  <2>1. PICK p \in Partitions, n \in 0..2, auto \in BOOLEAN, arrives \in BOOLEAN :
          Poll(p, n, auto, arrives)
    BY <1>6 DEF PollMessages
  <2>2. n \in Nat
    OBVIOUS
  <2>3. position[p] \in Nat /\ position' = [position EXCEPT ![p] = position[p] + n]
    BY <2>1, <2>2, PollReturns
  <2>4. \A q \in Partitions : position'[q] # None
    BY <1>0, <1>6, <2>2, <2>3 DEF PollMessages, Polling, None
  <2>5. phase = "up" /\ UNCHANGED <<source, phase>>
    BY <1>6 DEF PollMessages, Polling
  <2> QED BY <2>1, <2>4, <2>5 DEF AssignedInv
<1>7. ASSUME Drop, source' = source,
             source = "kafka" => \A p \in Partitions : position'[p] = None,
             \A p \in Partitions : position'[p] \in {position[p], None},
             source # "kafka" => UNCHANGED position \/ \A p \in Partitions : position'[p] = None
      PROVE  AssignedInv'
  BY <1>0, <1>7 DEF Drop, AssignedInv
<1>8. CASE Stop \/ Kill \/ AssignFails
  <2>1. Drop /\ source' = source
    BY <1>8 DEF Stop, Kill, AssignFails, Shut
  <2>2. \/ source # "kafka" /\ UNCHANGED position
        \/ \A p \in Partitions : position'[p] = None
    BY <1>8, ConsumerGone DEF Stop, Kill, AssignFails, Shut, kafkaVars
  <2> QED BY <1>0, <1>7, <2>1, <2>2
<1>9. ASSUME NEW c \in Callers, Fail(c) PROVE AssignedInv'
  <2>1. CASE source = "api"
    <3>1. source' = source /\ UNCHANGED position
      BY <1>9, <2>1 DEF Fail, kafkaVars
    <3> QED BY <2>1, <3>1 DEF AssignedInv
  <2>2. CASE source # "api"
    <3>1. Shut /\ source' = source
      BY <1>9, <2>2 DEF Fail
    <3>2. \/ source # "kafka" /\ UNCHANGED position
          \/ \A p \in Partitions : position'[p] = None
      BY <3>1, ConsumerGone DEF Shut, kafkaVars
    <3> QED BY <1>0, <1>7, <3>1, <3>2 DEF Shut
  <2> QED BY <2>1, <2>2
<1>10. CASE Close \/ Finish
  <2>1. UNCHANGED <<position, source, step, pending>> /\ (source = "kafka" => phase = "closing")
    BY <1>10 DEF Close, Finish, CommitAll, Commit, kafkaVars
  <2> QED BY <2>1 DEF AssignedInv
<1>11. CASE Start
  <2>1. /\ UNCHANGED <<position, source, step>> /\ phase = "down"
        /\ source = "kafka" => pending'[Reader] = <<>>
    BY <1>0, <1>11 DEF Start, docVars, kafkaVars
  <2> QED BY <1>0, <2>1 DEF AssignedInv
<1> QED
  BY <1>2, <1>3, <1>4, <1>5, <1>6, <1>8, <1>9, <1>10, <1>11 DEF IngestionNext

LEMMA KafkaBasicsStep ==
  /\ IngestionTypeOK /\ CallsAndStreams /\ KafkaBasics /\ [IngestionNext]_ingestionVars
  => KafkaBasics'
  BY TopicStep, AssignedStep DEF KafkaBasics

-----------------------------------------------------------------------------
(* What was not polled *)

\* Which messages before one that was polled have not been: those the consumer
\* does not return to.
GapsOf(p) ==
  /\ \A i, j \in DOMAIN log[p] :
       i < j /\ log[p][i] \notin polled /\ log[p][j] \in polled =>
         /\ position[p] # None => i <= position[p]
         /\ offset = "none" /\ committed[p] # None => i <= committed[p]
         /\ offset # "earliest"
         /\ offset = "since" => log[p][i] < Since
  /\ offset = "none" /\ committed[p] # None =>
       \A i \in DOMAIN log[p] : committed[p] < i /\ i <= position[p] => log[p][i] \in polled
  /\ offset \in {"earliest", "since"} =>
       \A i \in DOMAIN log[p] :
         i <= position[p] => log[p][i] \in polled \/ (offset = "since" /\ log[p][i] < Since)
  /\ offset = "since" => \A v \in polled : v >= Since
  /\ offset = "since" /\ position[p] # None =>
       /\ \E i \in DOMAIN log[p] : log[p][i] >= Since
       /\ \A i \in DOMAIN log[p] : log[p][i] < Since => i <= position[p]

GapInv == \A p \in Partitions : GapsOf(p)

LEMMA GapsFirst == IngestionInit => GapInv
  BY EmptySeq DEF IngestionInit, KafkaInit, GapInv, GapsOf

LEMMA LeastNatural ==
  ASSUME NEW T, T \subseteq Nat, T # {}
  PROVE  \E x \in T : \A y \in T : x <= y
<1> DEFINE R == OpToRel(<, Nat)
<1>1. IsWellFoundedOn(R, Nat)
  BY NatLessThanWellFounded
<1>2. R = {ss \in Nat \X Nat : ss[1] < ss[2]}
  BY DEF OpToRel
<1> HIDE DEF R
<1>3. PICK x \in T : \A y \in T : ~(<<y, x>> \in R)
  BY <1>1, WFMin
<1>4. \A y \in T : x <= y
  <2> SUFFICES ASSUME NEW y \in T, y < x PROVE FALSE
    OBVIOUS
  <2>1. <<y, x>> \in Nat \X Nat /\ <<y, x>>[1] < <<y, x>>[2]
    OBVIOUS
  <2>2. <<y, x>> \in R
    BY <1>2, <2>1
  <2> QED BY <1>3, <2>2
<1> QED BY <1>4

\* Where ts= and last= start: after the messages that are too old.
LEMMA SinceStart ==
  ASSUME KafkaTypeOK, TopicInv, offset = "since", NEW p \in Partitions, NEW o
  PROVE  /\ SeekTo(p, o) \in Nat
         /\ \A i \in DOMAIN log[p] : i <= SeekTo(p, o) <=> log[p][i] < Since
<1> DEFINE l == Len(log[p])
           early == {i \in DOMAIN log[p] : log[p][i] < Since}
           rest == (1..(l + 1)) \ early
<1>1. /\ l \in Nat /\ DOMAIN log[p] = 1..l /\ \A i \in 1..l : log[p][i] \in Int
      /\ Since \in Int
  BY LogTyped, KafkaAssumption
<1>2. rest \subseteq Nat /\ l + 1 \in rest
  BY <1>1
<1>3. PICK k \in rest : \A y \in rest : k <= y
  BY <1>2, LeastNatural
<1>4. early = 1..(k - 1)
  <2>1. \A i \in 1..(k - 1) : i \in early
    BY <1>1, <1>3
  <2>2. ASSUME NEW i \in early, ~(i <= k - 1) PROVE FALSE
    <3>1. i \in 1..l /\ log[p][i] < Since /\ k \in 1..l /\ k <= i
      BY <1>1, <1>3, <2>2
    <3>2. k \notin early /\ log[p][k] \in Int /\ log[p][i] \in Int /\ ~(log[p][k] < Since)
      BY <1>1, <1>3, <3>1
    <3>3. k = i \/ log[p][k] < log[p][i]
      BY <1>1, <3>1 DEF TopicInv
    <3> QED BY <1>1, <3>1, <3>2, <3>3
  <2> QED BY <1>1, <1>2, <2>1, <2>2
<1>5. SeekTo(p, o) = k - 1
  <2>1. k - 1 \in Int /\ k >= 1
    BY <1>2
  <2>2. Cardinality(1..(k - 1)) = k - 1
    BY <2>1, FS_Interval
  <2> QED BY <1>4, <2>2 DEF SeekTo
<1>6. \A i \in DOMAIN log[p] : i \in early <=> log[p][i] < Since
  OBVIOUS
<1>7. k \in 1..(l + 1)
  BY <1>3
<1> QED BY <1>1, <1>4, <1>5, <1>6, <1>7

\* The group's offset may become the consumer's position, when it has one.
LEMMA AutoCommittedAt ==
  ASSUME NEW p \in Partitions
  PROVE  AutoCommitted[p] = IF position[p] = None THEN committed[p] ELSE position[p]
  BY DEF AutoCommitted

LEMMA OffsetTypes ==
  ASSUME KafkaTypeOK, NEW p \in Partitions
  PROVE  /\ position[p] \in Int /\ position[p] >= -1 /\ position[p] <= Len(log[p])
         /\ committed[p] \in Int /\ committed[p] >= -1 /\ committed[p] <= Len(log[p])
         /\ position[p] # None => position[p] \in Nat
         /\ committed[p] # None => committed[p] \in Nat
  BY DEF KafkaTypeOK, EndOffset, None

LEMMA GapsAssign ==
  ASSUME KafkaTypeOK, TopicInv, NEW p \in Partitions, GapsOf(p),
         NEW kicked \in BOOLEAN, Assign(kicked), polled' = polled
  PROVE  GapsOf(p)'
<1> DEFINE c == committed'[p]
           x == position'[p]
<1>1. /\ x = SeekTo(p, c) /\ UNCHANGED <<offset, log, polled>>
      /\ c = committed[p] \/ (position[p] # None /\ c = position[p])
  BY AutoCommittedAt DEF Assign
<1>2. /\ Len(log[p]) \in Nat /\ DOMAIN log[p] = 1..Len(log[p])
      /\ \A i \in DOMAIN log[p] : log[p][i] \in Int
  BY LogTyped
<1>3. c \in Int /\ x \in Int
  BY <1>1, OffsetTypes, AssignTyped
<1> HIDE DEF c, x
<1>4. CASE offset = "since"
  <2>1. x \in Nat /\ \A i \in DOMAIN log[p] : i <= x <=> log[p][i] < Since
    BY <1>1, <1>4, SinceStart
  <2>2. \E i \in DOMAIN log[p] : log[p][i] >= Since
    <3>1. x = SeekTo(p, None) /\ x # Len(log[p])
      BY <1>1, <1>4 DEF Assign, SeekFails, SeekTo, EndOffset
    <3>2. x <= Len(log[p])
      BY AssignTyped, <1>2, <1>3, <2>1 DEF x
    <3>3. x + 1 \in DOMAIN log[p] /\ ~(x + 1 <= x)
      BY <1>2, <2>1, <3>1, <3>2
    <3>4. ~(log[p][x + 1] < Since) /\ log[p][x + 1] \in Int
      BY <1>2, <2>1, <3>3
    <3> QED BY <3>3, <3>4, KafkaAssumption
  <2> QED BY <1>1, <1>4, <2>1, <2>2 DEF GapsOf, c, x
<1>5. CASE offset = "earliest"
  <2>1. x = 0
    BY <1>1, <1>5 DEF SeekTo
  <2> QED BY <1>1, <1>2, <1>5, <2>1 DEF GapsOf, c, x
<1>6. CASE offset = "latest"
  <2>1. x = Len(log[p])
    BY <1>1, <1>6 DEF SeekTo, EndOffset
  <2> QED BY <1>1, <1>2, <1>6, <2>1 DEF GapsOf, c, x
<1>7. CASE offset = "none"
  <2>1. x = IF c = None THEN Len(log[p]) ELSE c
    BY <1>1, <1>7 DEF SeekTo, EndOffset
  <2>2. \A i, j \in DOMAIN log[p] :
          i < j /\ log[p][i] \notin polled /\ log[p][j] \in polled =>
            /\ i <= x /\ (c # None => i <= c)
    BY <1>1, <1>2, <1>7, <2>1 DEF GapsOf
  <2>3. c # None => \A i \in DOMAIN log[p] : ~(c < i /\ i <= x)
    BY <1>2, <1>3, <2>1
  <2> QED BY <1>1, <1>7, <2>2, <2>3 DEF GapsOf, c, x
<1>8. offset \in SourceOffset
  BY DEF KafkaTypeOK
<1> QED BY <1>4, <1>5, <1>6, <1>7, <1>8 DEF SourceOffset

LEMMA GapsPoll ==
  ASSUME IngestionTypeOK, TopicInv, GapInv, NEW p \in Partitions, NEW n \in Nat,
         NEW auto \in BOOLEAN, NEW arrives \in BOOLEAN, Poll(p, n, auto, arrives),
         polled' = polled \cup InSeq(Polled(p, n)),
         \A q \in Partitions : position[q] # None,
         NEW q \in Partitions
  PROVE  GapsOf(q)'
<1> DEFINE x == position[q]
           c == committed'[q]
           M == InSeq(Polled(p, n))
<1>1. /\ KafkaTypeOK /\ UNCHANGED <<offset, log>>
      /\ GapsOf(q) /\ x \in Nat /\ x # None
  BY OffsetTypes DEF Poll, GapInv, IngestionTypeOK
<1>2. /\ Len(log[q]) \in Nat /\ DOMAIN log[q] = 1..Len(log[q])
      /\ \A i \in DOMAIN log[q] : log[q][i] \in Int
      /\ committed[q] \in Int /\ committed[q] >= -1 /\ Since \in Int
  BY <1>1, LogTyped, OffsetTypes, KafkaAssumption
<1>3. /\ position' = [position EXCEPT ![p] = position[p] + n]
      /\ DOMAIN Polled(p, n) = 1..n
      /\ \A i \in 1..n : Polled(p, n)[i] = log[p][position[p] + i] /\ position[p] + i \in DOMAIN log[p]
  BY PollReturns
<1>4. AutoCommitted[q] = x
  BY <1>1, AutoCommittedAt
<1> HIDE DEF x, c, M
<1>5. CASE q # p
  <2>1. position'[q] = x
    BY <1>1, <1>3, <1>5 DEF x, KafkaTypeOK
  <2>2. c = committed[q] \/ c = x
    BY <1>4, <1>5 DEF Poll, c
  <2>3. \A i \in DOMAIN log[q] : log[q][i] \notin M
    <3> SUFFICES ASSUME NEW i \in DOMAIN log[q], log[q][i] \in M PROVE FALSE
      OBVIOUS
    <3>1. PICK k \in 1..n : Polled(p, n)[k] = log[q][i]
      BY <1>3 DEF M, InSeq
    <3>2. position[p] + k \in DOMAIN log[p] /\ log[q][i] = log[p][position[p] + k]
      BY <1>3, <3>1
    <3>3. PartOf[IdOf[log[q][i]]] = q /\ PartOf[IdOf[log[p][position[p] + k]]] = p
      BY <3>2 DEF TopicInv
    <3> QED BY <1>5, <3>2, <3>3
  <2>4. \A i \in DOMAIN log[q] : log[q][i] \in polled' <=> log[q][i] \in polled
    BY <2>3 DEF M
  <2>5. c \in Int
    BY <1>1, <1>2, <2>2
  <2>6. offset = "since" => \A v \in polled' : v >= Since
    <3> SUFFICES ASSUME offset = "since", NEW v \in M PROVE v >= Since
      BY <1>1 DEF GapsOf, M
    <3>1. PICK k \in 1..n : Polled(p, n)[k] = v
      BY <1>3 DEF M, InSeq
    <3>2. position[p] + k \in DOMAIN log[p] /\ v = log[p][position[p] + k] /\ position[p] \in Nat
      BY <1>3, <3>1, OffsetTypes, <1>1
    <3>3. ~(position[p] + k <= position[p])
      BY <3>2
    <3>4. ~(v < Since) /\ v \in Int
      BY <1>1, <3>2, <3>3, LogTyped DEF GapInv, GapsOf
    <3> QED BY <1>2, <3>4
  <2>7. \A i, j \in DOMAIN log[q] :
          i < j /\ log[q][i] \notin polled' /\ log[q][j] \in polled' =>
            /\ i <= x
            /\ offset = "none" /\ c # None => i <= c
            /\ offset # "earliest"
            /\ offset = "since" => log[q][i] < Since
    BY <1>1, <2>2, <2>4 DEF GapsOf, x
  <2>8. offset = "none" /\ c # None =>
          \A i \in DOMAIN log[q] : c < i /\ i <= x => log[q][i] \in polled'
    BY <1>1, <1>2, <2>2, <2>4 DEF GapsOf, x
  <2> QED BY <1>1, <2>1, <2>4, <2>6, <2>7, <2>8 DEF GapsOf, c, x
<1>6. CASE q = p
  <2>1. position'[q] = x + n
    BY <1>1, <1>3, <1>6 DEF x, KafkaTypeOK
  <2>2. c = committed[q] \/ c = x \/ (n > 0 /\ c = x + n - 1)
    <3> DEFINE before == IF auto THEN AutoCommitted ELSE committed
    <3>1. before[q] = committed[q] \/ before[q] = x
      BY <1>4
    <3>2. committed' = IF n > 0 /\ arrives THEN [before EXCEPT ![p] = position[p] + n - 1]
                       ELSE before
      BY DEF Poll
    <3>3. DOMAIN before = Partitions
      BY <1>1 DEF AutoCommitted, KafkaTypeOK
    <3> HIDE DEF before
    <3> QED BY <1>6, <3>1, <3>2, <3>3 DEF c, x
  <2>3. c \in Int /\ (c = committed[q] \/ c >= x)
    BY <1>1, <1>2, <2>2
  <2>4. \A i \in DOMAIN log[q] : log[q][i] \in polled' <=> log[q][i] \in polled \/ (x < i /\ i <= x + n)
    <3> TAKE i \in DOMAIN log[q]
    <3>1. log[q][i] \in M => x < i /\ i <= x + n
      <4> SUFFICES ASSUME log[q][i] \in M PROVE x < i /\ i <= x + n
        OBVIOUS
      <4>1. PICK k \in 1..n : Polled(p, n)[k] = log[q][i]
        BY <1>3 DEF M, InSeq
      <4>2. x + k \in DOMAIN log[q] /\ log[q][x + k] = log[q][i]
        BY <1>3, <1>6, <4>1 DEF x
      <4>3. i = x + k
        BY <1>2, <4>2 DEF TopicInv
      <4> QED BY <1>1, <4>3
    <3>2. x < i /\ i <= x + n => log[q][i] \in M
      <4> SUFFICES ASSUME x < i, i <= x + n PROVE log[q][i] \in M
        OBVIOUS
      <4>1. i - x \in 1..n /\ x + (i - x) = i
        BY <1>1, <1>2
      <4>2. Polled(p, n)[i - x] = log[q][i]
        BY <1>3, <1>6, <4>1 DEF x
      <4> QED BY <1>3, <4>1, <4>2 DEF M, InSeq
    <3> QED BY <3>1, <3>2 DEF M
  <2>5. offset = "since" => \A v \in polled' : v >= Since
    <3> SUFFICES ASSUME offset = "since", NEW v \in M PROVE v >= Since
      BY <1>1 DEF GapsOf, M
    <3>1. PICK k \in 1..n : Polled(p, n)[k] = v
      BY <1>3 DEF M, InSeq
    <3>2. x + k \in DOMAIN log[q] /\ v = log[q][x + k] /\ ~(x + k <= x)
      BY <1>1, <1>3, <1>6, <3>1 DEF x
    <3>3. ~(v < Since) /\ v \in Int
      BY <1>1, <1>2, <3>2 DEF GapsOf, x
    <3> QED BY <1>2, <3>3
  <2>6. \A i, j \in DOMAIN log[q] :
          i < j /\ log[q][i] \notin polled' /\ log[q][j] \in polled' =>
            /\ i <= x
            /\ offset = "none" /\ c # None => i <= c
            /\ offset # "earliest"
            /\ offset = "since" => log[q][i] < Since
    <3> SUFFICES ASSUME NEW i \in DOMAIN log[q], NEW j \in DOMAIN log[q], i < j,
                        log[q][i] \notin polled', log[q][j] \in polled'
                 PROVE  /\ i <= x
                        /\ offset = "none" /\ c # None => i <= c
                        /\ offset # "earliest"
                        /\ offset = "since" => log[q][i] < Since
      OBVIOUS
    <3>1. log[q][i] \notin polled /\ ~(x < i /\ i <= x + n)
      BY <2>4
    <3>2. CASE log[q][j] \in polled
      <4>1. /\ i <= x
            /\ offset = "none" /\ committed[q] # None => i <= committed[q]
            /\ offset # "earliest"
            /\ offset = "since" => log[q][i] < Since
        BY <1>1, <3>1, <3>2 DEF GapsOf, x
      <4> QED BY <1>1, <1>2, <2>3, <4>1
    <3>3. CASE log[q][j] \notin polled
      <4>1. x < j /\ j <= x + n
        BY <2>4, <3>3
      <4>2. i <= x
        BY <1>1, <1>2, <3>1, <4>1
      <4>3. offset = "none" /\ committed[q] # None => i <= committed[q]
        BY <1>1, <1>2, <3>1, <4>2 DEF GapsOf, x
      <4>4. offset # "earliest" /\ (offset = "since" => log[q][i] < Since)
        BY <1>1, <3>1, <4>2 DEF GapsOf, x
      <4> QED BY <1>1, <1>2, <2>3, <4>2, <4>3, <4>4
    <3> QED BY <3>2, <3>3
  <2>7. offset = "none" /\ c # None =>
          \A i \in DOMAIN log[q] : c < i /\ i <= x + n => log[q][i] \in polled'
    <3> SUFFICES ASSUME offset = "none", c # None, NEW i \in DOMAIN log[q], c < i, i <= x + n
                 PROVE  log[q][i] \in polled'
      OBVIOUS
    <3>1. CASE x < i
      BY <2>4, <3>1
    <3>2. CASE ~(x < i)
      <4>1. c = committed[q] /\ i <= x
        BY <1>1, <1>2, <2>3, <3>2
      <4> QED BY <1>1, <2>4, <4>1 DEF GapsOf, x
    <3> QED BY <3>1, <3>2
  <2>8. offset \in {"earliest", "since"} =>
          \A i \in DOMAIN log[q] :
            i <= x + n => log[q][i] \in polled' \/ (offset = "since" /\ log[q][i] < Since)
    <3> SUFFICES ASSUME offset \in {"earliest", "since"}, NEW i \in DOMAIN log[q], i <= x + n,
                        log[q][i] \notin polled'
                 PROVE  offset = "since" /\ log[q][i] < Since
      OBVIOUS
    <3>1. i <= x /\ log[q][i] \notin polled
      BY <1>1, <1>2, <2>4
    <3> QED BY <1>1, <3>1 DEF GapsOf, x
  <2>9. offset = "since" =>
          /\ \E i \in DOMAIN log[q] : log[q][i] >= Since
          /\ \A i \in DOMAIN log[q] : log[q][i] < Since => i <= x + n
    BY <1>1, <1>2 DEF GapsOf, x
  <2>10. \A i \in DOMAIN log[q] : i <= x => i <= x + n
    BY <1>1, <1>2
  <2> QED BY <1>1, <2>1, <2>5, <2>6, <2>7, <2>8, <2>9, <2>10 DEF GapsOf, c
<1> QED BY <1>5, <1>6

LEMMA GapsTopic ==
  ASSUME IngestionTypeOK, TopicInv, ProduceMessage, NEW p \in Partitions, GapsOf(p)
  PROVE  GapsOf(p)'
<1>1. /\ UNCHANGED <<offset, position, committed>> /\ polled' = polled /\ KafkaTypeOK
      /\ position[p] <= Len(log[p]) /\ position[p] \in Int
  BY OffsetTypes DEF ProduceMessage, Produce, ghostVars, IngestionTypeOK
<1>2. /\ Len(log[p]) \in Nat /\ DOMAIN log[p] = 1..Len(log[p])
      /\ Len(log'[p]) \in Nat /\ DOMAIN log'[p] = 1..Len(log'[p])
      /\ Len(log'[p]) >= Len(log[p])
      /\ \A i \in DOMAIN log[p] : i \in DOMAIN log'[p] /\ log'[p][i] = log[p][i]
      /\ \A i \in DOMAIN log'[p] :
           i \notin DOMAIN log[p] => i = Len(log'[p]) /\ log'[p][i] \notin polled
      /\ TopicInv'
  BY TopicGrows
<1>3. \A i, j \in DOMAIN log'[p] :
        i < j /\ log'[p][j] \in polled => i \in DOMAIN log[p] /\ j \in DOMAIN log[p]
  BY <1>2
<1>4. \A i \in DOMAIN log'[p] : i <= position[p] => i \in DOMAIN log[p]
  BY <1>1, <1>2
<1>5. offset = "since" /\ position[p] # None =>
        /\ \E i \in DOMAIN log'[p] : log'[p][i] >= Since
        /\ \A i \in DOMAIN log'[p] : log'[p][i] < Since => i <= position[p]
  <2> SUFFICES ASSUME offset = "since", position[p] # None
               PROVE  /\ \E i \in DOMAIN log'[p] : log'[p][i] >= Since
                      /\ \A i \in DOMAIN log'[p] : log'[p][i] < Since => i <= position[p]
    OBVIOUS
  <2>1. PICK k \in DOMAIN log[p] : log[p][k] >= Since
    BY DEF GapsOf
  <2>2. k \in DOMAIN log'[p] /\ log'[p][k] >= Since
    BY <1>2, <2>1
  <2>3. ASSUME NEW i \in DOMAIN log'[p], log'[p][i] < Since PROVE i <= position[p]
    <3>1. CASE i \in DOMAIN log[p]
      BY <1>2, <2>3, <3>1 DEF GapsOf
    <3>2. CASE i \notin DOMAIN log[p]
      <4>1. k < i
        BY <1>2, <2>1, <3>2
      <4>2. log'[p][k] < log'[p][i]
        BY <1>2, <2>2, <4>1 DEF TopicInv
      <4>3. KafkaTypeOK'
        BY <1>1, TypeTopic DEF IngestionTypeOK
      <4>4. log'[p][k] \in Int /\ log'[p][i] \in Int
        <5>1. log'[p] \in Seq(Version)
          BY <4>3 DEF KafkaTypeOK
        <5>2. log'[p][k] \in Version /\ log'[p][i] \in Version
          BY <1>2, <2>2, <5>1, ElementOfSeq
        <5> QED BY <5>2 DEF Version
      <4> QED BY <2>2, <2>3, <4>2, <4>4, KafkaAssumption
    <3> QED BY <3>1, <3>2
  <2> QED BY <2>2, <2>3
<1> QED BY <1>1, <1>2, <1>3, <1>4, <1>5 DEF GapsOf

LEMMA GapsLeave ==
  ASSUME KafkaTypeOK, TopicInv, NEW p \in Partitions, GapsOf(p),
         CloseConsumer \/ LoseConsumer \/ \E kicked \in BOOLEAN : AssignmentFails(kicked),
         polled' = polled
  PROVE  GapsOf(p)'
<1>1. /\ UNCHANGED <<offset, log>> /\ position'[p] = None
      /\ committed'[p] = committed[p] \/ (position[p] # None /\ committed'[p] = position[p])
  BY ConsumerGone, AutoCommittedAt DEF CloseConsumer, LoseConsumer, AssignmentFails
<1>2. DOMAIN log[p] = 1..Len(log[p]) /\ Len(log[p]) \in Nat
  BY LogTyped
<1>3. \A i \in DOMAIN log[p] : ~(i <= None)
  BY <1>2 DEF None
<1> QED BY <1>1, <1>3 DEF GapsOf

LEMMA GapStep ==
  IngestionTypeOK /\ KafkaBasics /\ GapInv /\ [IngestionNext]_ingestionVars => GapInv'
<1> SUFFICES ASSUME IngestionTypeOK, TopicInv, GapInv, [IngestionNext]_ingestionVars
             PROVE  GapInv'
  BY DEF KafkaBasics
<1>0. KafkaTypeOK
  BY DEF IngestionTypeOK
<1>1. ASSUME UNCHANGED <<offset, log, position, committed, polled>> PROVE GapInv'
  BY <1>1 DEF GapInv, GapsOf
<1>2. CASE ProduceMessage
  BY <1>2, GapsTopic DEF GapInv
<1>3. CASE AssignFirst \/ Rebalance
  <2>1. polled' = polled /\ \E kicked \in BOOLEAN : Assign(kicked)
    BY <1>3 DEF AssignFirst, Rebalance
  <2> QED BY <1>0, <2>1, GapsAssign DEF GapInv
<1>4. CASE PollMessages
  <2>1. PICK p \in Partitions, n \in 0..2, auto \in BOOLEAN, arrives \in BOOLEAN :
          Poll(p, n, auto, arrives) /\ polled' = polled \cup InSeq(Polled(p, n))
    BY <1>4 DEF PollMessages
  <2>2. n \in Nat /\ \A q \in Partitions : position[q] # None
    BY <1>4 DEF PollMessages, Polling
  <2> QED BY <2>1, <2>2, GapsPoll DEF GapInv
<1>5. CASE Stop \/ Kill \/ AssignFails
  <2>1. /\ polled' = polled
        /\ \/ CloseConsumer \/ LoseConsumer \/ UNCHANGED kafkaVars
           \/ \E kicked \in BOOLEAN : AssignmentFails(kicked)
    BY <1>5 DEF Stop, Kill, AssignFails, Shut
  <2> QED BY <1>0, <1>1, <2>1, GapsLeave DEF GapInv, kafkaVars
<1>6. ASSUME NEW c \in Callers, Fail(c) PROVE GapInv'
  <2>1. polled' = polled /\ (CloseConsumer \/ UNCHANGED kafkaVars)
    BY <1>6 DEF Fail, Shut
  <2> QED BY <1>0, <1>1, <2>1, GapsLeave DEF GapInv, kafkaVars
<1>7. ASSUME NEW c \in Callers, Request(c) \/ Take(c) \/ Replace(c) \/ Add(c) \/ Answer(c)
      PROVE  GapInv'
  BY <1>1, <1>7 DEF Request, Take, Replace, Add, Answer, kafkaVars, ghostVars
<1>8. CASE \/ Delete \/ Flush \/ FlushRequest \/ FlushFails \/ Finish \/ Close \/ Start
           \/ UNCHANGED ingestionVars
  BY <1>1, <1>8
  DEF FlushFails, Delete, Flush, FlushRequest, Finish, Close, CommitAll, Start, kafkaVars, ingestionVars, ghostVars
<1> QED BY <1>2, <1>3, <1>4, <1>5, <1>6, <1>7, <1>8 DEF IngestionNext

-----------------------------------------------------------------------------
(* What the consumer is past *)

Settled(v) == HoldsFrom(live, v) \/ v \in lost

\* An assignment goes to the end of the partition, whatever was polled.
Jumps(p) == offset = "latest" \/ (offset = "none" /\ committed[p] = None)

\* Where an assignment may go without having been there.
Reach(p) ==
  IF Jumps(p) THEN Len(log[p]) ELSE IF offset = "none" THEN committed[p] ELSE 0

\* What the consumer is past was lost, or is polled and secure.
PassedOf(p) ==
  \A i \in DOMAIN log[p] :
    i <= position[p] => log[p][i] \in lost \/ (log[p][i] \in polled /\ Secure(log[p][i]))

\* What an assignment may go past was lost, or was polled and the consumer is
\* past it; if there is no consumer, the index holds it.
ReachOf(p) ==
  \A i \in DOMAIN log[p] :
    i <= Reach(p) =>
      /\ ~Jumps(p) => log[p][i] \in polled \cup lost
      /\ log[p][i] \in polled =>
           IF position[p] = None THEN Settled(log[p][i]) ELSE i <= position[p]

PassageInv == source = "kafka" => \A p \in Partitions : PassedOf(p) /\ ReachOf(p)

LEMMA PassageFirst == IngestionInit => PassageInv
  BY EmptySeq DEF IngestionInit, KafkaInit, PassageInv, PassedOf, ReachOf

\* An empty pipeline and an index that holds the version.
LEMMA HeldIsSecure ==
  ASSUME QuietInv, pending[Reader] = <<>>, step[Reader] = "idle", NEW v \in Version,
         HoldsFrom(live, v)
  PROVE  Secure(v)
  BY IngestionAssumption DEF QuietInv, Secure, NoOlder

\* What is not on its way any more, is held.
LEMMA SecureIsHeld ==
  ASSUME NEW v, Secure(v), v \notin Pipeline(Reader), IdOf[v] \notin Deleted(Reader)
  PROVE  HoldsFrom(live, v)
  BY DEF Secure, Comes, Pipeline, InSeq, InBatch

\* A stream's batch goes on its way, while the consumer stays where it is.
LEMMA PassageBatch ==
  ASSUME IngestionTypeOK, CallsAndStreams, AssignedInv, PassageInv, source = "kafka",
         NEW c \in Callers, Take(c) \/ Replace(c) \/ Add(c)
  PROVE  PassageInv'
<1>1. c = Reader /\ QuietInv
  BY OneCaller DEF CallsAndStreams
<1>2. UNCHANGED <<kafkaVars, source, polled, lost>>
  BY DEF Take, Replace, Add, procVars, ghostVars
<1>3. \A v \in Version : Secure(v) => Secure(v)'
  BY <1>1, SecureTake, SecureReplace, SecureAdd
<1>4. \A p \in Partitions : position[p] # None
  <2> SUFFICES ASSUME \E p \in Partitions : position[p] = None PROVE FALSE
    OBVIOUS
  <2>1. pending[Reader] = <<>> /\ step[Reader] = "idle" /\ Len(pending[Reader]) = 0
    BY EmptySeq DEF AssignedInv
  <2> QED
    BY <1>1, <2>1, IngestionAssumption DEF Take, NextChunk, Replace, DeleteOld, Add, AddNew
<1>5. ASSUME NEW p \in Partitions PROVE PassedOf(p)' /\ ReachOf(p)'
  <2>1. PassedOf(p) /\ ReachOf(p) /\ \A i \in DOMAIN log[p] : log[p][i] \in Version
    BY LogTyped DEF PassageInv, IngestionTypeOK
  <2>2. UNCHANGED <<offset, log, position, committed, polled, lost>>
    BY <1>2 DEF kafkaVars
  <2>3. PassedOf(p)'
    BY <1>3, <2>1, <2>2 DEF PassedOf
  <2>4. ReachOf(p)'
    BY <1>4, <2>1, <2>2 DEF ReachOf, Reach, Jumps
  <2> QED BY <2>3, <2>4
<1> QED BY <1>2, <1>5 DEF PassageInv

\* Nothing changes for the consumer, nor for what is on its way.
LEMMA PassageSame ==
  ASSUME IngestionTypeOK, PassageInv, source = "kafka",
         UNCHANGED <<kafkaVars, polled, lost, live>>, pending'[Reader] = pending[Reader],
         batch'[Reader] = batch[Reader], step'[Reader] = step[Reader]
  PROVE  PassageInv'
<1>1. ASSUME NEW p \in Partitions PROVE PassedOf(p)' /\ ReachOf(p)'
  <2>1. PassedOf(p) /\ ReachOf(p) /\ \A i \in DOMAIN log[p] : log[p][i] \in Version
    BY LogTyped DEF PassageInv, IngestionTypeOK
  <2>2. UNCHANGED <<offset, log, position, committed, polled, lost>>
    BY DEF kafkaVars
  <2>3. \A v \in Version : Secure(v) => Secure(v)'
    BY SecureSame
  <2>4. \A v \in Version : Settled(v) => Settled(v)'
    BY DEF Settled, HoldsFrom, Held
  <2>5. PassedOf(p)'
    BY <2>1, <2>2, <2>3 DEF PassedOf
  <2>6. ReachOf(p)'
    BY <2>1, <2>2, <2>4 DEF ReachOf, Reach, Jumps
  <2> QED BY <2>5, <2>6
<1> QED BY <1>1 DEF PassageInv

LEMMA PassageTopic ==
  ASSUME IngestionTypeOK, TopicInv, PassageInv, ProduceMessage
  PROVE  PassageInv'
<1>1. /\ UNCHANGED <<offset, position, committed, lost, live, pending, batch, step>>
      /\ polled' = polled /\ source = "kafka"
  BY DEF ProduceMessage, Produce, ghostVars, docVars, procVars
<1>2. ASSUME NEW p \in Partitions PROVE PassedOf(p)' /\ ReachOf(p)'
  <2>1. PassedOf(p) /\ ReachOf(p) /\ \A i \in DOMAIN log[p] : log[p][i] \in Version
    BY <1>1, LogTyped DEF PassageInv, IngestionTypeOK
  <2>2. /\ Len(log[p]) \in Nat /\ DOMAIN log[p] = 1..Len(log[p])
        /\ Len(log'[p]) \in Nat /\ DOMAIN log'[p] = 1..Len(log'[p])
        /\ \A i \in DOMAIN log[p] : i \in DOMAIN log'[p] /\ log'[p][i] = log[p][i]
        /\ \A i \in DOMAIN log'[p] :
             i \notin DOMAIN log[p] => i = Len(log'[p]) /\ log'[p][i] \notin polled
    BY TopicGrows
  <2>3. /\ position[p] <= Len(log[p]) /\ position[p] \in Int
        /\ committed[p] <= Len(log[p]) /\ committed[p] \in Int
    BY OffsetTypes DEF IngestionTypeOK
  <2>4. \A i \in DOMAIN log'[p] : i <= position[p] \/ i <= committed[p] => i \in DOMAIN log[p]
    BY <2>2, <2>3
  <2>5. \A v \in Version : Secure(v) => Secure(v)'
    BY <1>1, SecureSame
  <2>6. \A v \in Version : Settled(v) => Settled(v)'
    BY <1>1 DEF Settled, HoldsFrom, Held
  <2>7. PassedOf(p)'
    BY <1>1, <2>1, <2>2, <2>4, <2>5 DEF PassedOf
  <2>8. ReachOf(p)'
    <3>1. CASE Jumps(p)
      <4>1. Jumps(p)' /\ Reach(p) = Len(log[p])
        BY <1>1, <3>1 DEF Jumps, Reach
      <4>2. \A i \in DOMAIN log[p] : i <= Reach(p)
        BY <2>2, <4>1
      <4> QED BY <1>1, <2>1, <2>2, <2>6, <4>1, <4>2 DEF ReachOf
    <3>2. CASE ~Jumps(p)
      <4>1. ~Jumps(p)' /\ Reach(p)' = Reach(p) /\ (Reach(p) = committed[p] \/ Reach(p) = 0)
        BY <1>1, <3>2 DEF Jumps, Reach
      <4>2. \A i \in DOMAIN log'[p] : i <= Reach(p) => i \in DOMAIN log[p]
        BY <2>2, <2>4, <4>1
      <4> QED BY <1>1, <2>1, <2>2, <2>6, <3>2, <4>1, <4>2 DEF ReachOf
    <3> QED BY <3>1, <3>2
  <2> QED BY <2>7, <2>8
<1> QED BY <1>1, <1>2 DEF PassageInv
\* What the consumer may be sent back to, or is past, is lost or secure.
LEMMA ReachedIsSecure ==
  ASSUME IngestionTypeOK, CallsAndStreams, AssignedInv, PassageInv, source = "kafka",
         NEW p \in Partitions, NEW i \in DOMAIN log[p],
         i <= position[p] \/ (i <= Reach(p) /\ log[p][i] \in polled)
  PROVE  log[p][i] \in lost \/ (log[p][i] \in polled /\ Secure(log[p][i]))
<1>1. PassedOf(p) /\ ReachOf(p) /\ log[p][i] \in Version
  BY LogTyped DEF PassageInv, IngestionTypeOK
<1>2. CASE i <= position[p]
  BY <1>1, <1>2 DEF PassedOf
<1>3. CASE i <= Reach(p) /\ log[p][i] \in polled
  <2>1. CASE position[p] # None
    BY <1>1, <1>2, <1>3, <2>1 DEF ReachOf
  <2>2. CASE position[p] = None
    <3>1. pending[Reader] = <<>> /\ step[Reader] = "idle"
      BY <2>2 DEF AssignedInv
    <3>2. Settled(log[p][i])
      BY <1>1, <1>3, <2>2 DEF ReachOf
    <3> QED BY <1>1, <1>3, <3>1, <3>2, HeldIsSecure DEF Settled, CallsAndStreams
  <2> QED BY <2>1, <2>2
<1> QED BY <1>2, <1>3

LEMMA PassageAssign ==
  ASSUME IngestionTypeOK, CallsAndStreams, KafkaBasics, GapInv, PassageInv,
         AssignFirst \/ Rebalance
  PROVE  PassageInv'
<1>1. PICK kicked \in BOOLEAN : Assign(kicked)
  BY DEF AssignFirst, Rebalance
<1>2. /\ source = "kafka" /\ source' = source /\ polled' = polled
      /\ lost' = lost \cup UNION {Skipped(p) : p \in Partitions}
      /\ UNCHANGED <<live, pending, batch, step, offset, log>>
  BY <1>1 DEF AssignFirst, Rebalance, Polling, Assign, docVars, procVars
<1>3. \A v \in Version : Secure(v) => Secure(v)'
  BY <1>2, SecureSame
<1>4. ASSUME NEW p \in Partitions PROVE PassedOf(p)' /\ ReachOf(p)'
  <2> DEFINE c == committed'[p]
             x == position'[p]
  <2>1. /\ x = SeekTo(p, c) /\ x \in 0..Len(log[p]) /\ x # None
        /\ c = committed[p] \/ (position[p] # None /\ c = position[p])
    BY <1>1, AutoCommittedAt, AssignTyped DEF Assign, IngestionTypeOK, None
  <2>2. /\ Len(log[p]) \in Nat /\ DOMAIN log[p] = 1..Len(log[p])
        /\ \A i \in DOMAIN log[p] : log[p][i] \in Version /\ log[p][i] \in Int
        /\ c \in Int /\ committed[p] \in Int /\ position[p] \in Int
    BY <2>1, LogTyped, OffsetTypes DEF IngestionTypeOK
  <2>3. /\ PassedOf(p) /\ ReachOf(p) /\ GapsOf(p) /\ AssignedInv /\ TopicInv
        /\ offset \in SourceOffset
    BY <1>2 DEF PassageInv, GapInv, KafkaBasics, IngestionTypeOK, KafkaTypeOK
  <2>4. ~(offset = "none" /\ c # None) =>
          \A i \in DOMAIN log[p] : i <= x /\ log[p][i] \notin polled => log[p][i] \in lost'
    <3> SUFFICES ASSUME ~(offset = "none" /\ c # None), NEW i \in DOMAIN log[p], i <= x,
                        log[p][i] \notin polled
                 PROVE  log[p][i] \in lost'
      OBVIOUS
    <3>1. i \in 1..position'[p]
      BY <2>1, <2>2
    <3>2. log[p][i] \in Skipped(p)
      BY <1>2, <3>1 DEF Skipped
    <3> QED BY <1>2, <3>2
  <2> HIDE DEF c, x
  <2>5. ASSUME NEW i \in DOMAIN log[p], i <= x, log[p][i] \in polled
        PROVE  i <= position[p] \/ i <= Reach(p)
    <3>1. CASE offset = "earliest"
      BY <2>1, <2>2, <2>5, <3>1 DEF SeekTo
    <3>2. CASE offset = "since"
      <4>1. log[p][i] < Since
        BY <2>1, <2>3, <2>5, <3>2, SinceStart DEF IngestionTypeOK
      <4>2. log[p][i] >= Since
        BY <2>3, <2>5, <3>2 DEF GapsOf
      <4> QED BY <2>2, <4>1, <4>2, KafkaAssumption
    <3>3. CASE offset = "latest"
      <4>1. Reach(p) = Len(log[p])
        BY <3>3 DEF Reach, Jumps
      <4> QED BY <2>2, <4>1
    <3>4. CASE offset = "none" /\ c = None
      <4>1. committed[p] = None
        BY <2>1, <3>4
      <4>2. Reach(p) = Len(log[p])
        BY <3>4, <4>1 DEF Reach, Jumps
      <4> QED BY <2>2, <4>2
    <3>5. CASE offset = "none" /\ c # None
      <4>1. x = c
        BY <2>1, <3>5 DEF SeekTo
      <4>2. CASE c = position[p]
        BY <2>5, <4>1, <4>2
      <4>3. CASE c = committed[p]
        <5>1. Reach(p) = c
          BY <3>5, <4>3 DEF Reach, Jumps
        <5> QED BY <2>5, <4>1, <5>1
      <4> QED BY <2>1, <4>2, <4>3
    <3> QED BY <2>3, <3>1, <3>2, <3>3, <3>4, <3>5 DEF SourceOffset
  <2>6. ASSUME NEW i \in DOMAIN log[p], i <= x, log[p][i] \notin polled
        PROVE  log[p][i] \in lost'
    <3>1. CASE ~(offset = "none" /\ c # None)
      BY <2>4, <2>6, <3>1
    <3>2. CASE offset = "none" /\ c # None
      <4>1. x = c
        BY <2>1, <3>2 DEF SeekTo
      <4>2. CASE c = position[p]
        BY <1>2, <2>3, <2>6, <4>1, <4>2 DEF PassedOf
      <4>3. CASE c = committed[p]
        <5>1. Reach(p) = c /\ ~Jumps(p)
          BY <3>2, <4>3 DEF Reach, Jumps
        <5> QED BY <1>2, <2>3, <2>6, <4>1, <5>1 DEF ReachOf
      <4> QED BY <2>1, <4>2, <4>3
    <3> QED BY <3>1, <3>2
  <2>7. ASSUME NEW i \in DOMAIN log[p], i <= x
        PROVE  log[p][i] \in lost' \/ (log[p][i] \in polled /\ Secure(log[p][i]))
    BY <1>2, <2>3, <2>5, <2>6, <2>7, ReachedIsSecure
  <2>8. PassedOf(p)'
    BY <1>2, <1>3, <2>2, <2>7 DEF PassedOf, x
  <2>9. ReachOf(p)'
    <3>1. CASE Jumps(p)'
      <4>1. x = Len(log[p])
        BY <1>2, <2>1, <3>1 DEF Jumps, SeekTo, EndOffset, c
      <4>2. \A i \in DOMAIN log[p] : i <= x
        BY <2>2, <4>1
      <4> QED BY <1>2, <2>1, <3>1, <4>2 DEF ReachOf, x
    <3>2. CASE ~Jumps(p)' /\ offset = "none"
      <4>1. Reach(p)' = x
        BY <1>2, <2>1, <3>2 DEF Jumps, Reach, SeekTo, c
      <4> QED BY <1>2, <2>1, <2>7, <3>2, <4>1 DEF ReachOf, x
    <3>3. CASE ~Jumps(p)' /\ offset # "none"
      <4>1. Reach(p)' = 0
        BY <1>2, <3>3 DEF Reach
      <4> QED BY <1>2, <2>2, <4>1 DEF ReachOf
    <3> QED BY <3>1, <3>2, <3>3
  <2> QED BY <2>8, <2>9
<1> QED BY <1>2, <1>4 DEF PassageInv

\* A poll's messages are the next ones of one partition.
LEMMA PollIsOfOnePartition ==
  ASSUME IngestionTypeOK, TopicInv, NEW p \in Partitions, NEW n \in Nat,
         NEW auto \in BOOLEAN, NEW arrives \in BOOLEAN, Poll(p, n, auto, arrives),
         NEW q \in Partitions, NEW i \in DOMAIN log[q]
  PROVE  log[q][i] \in InSeq(Polled(p, n)) <=>
           q = p /\ position[p] < i /\ i <= position[p] + n
<1>1. /\ DOMAIN Polled(p, n) = 1..n /\ position[p] \in Nat
      /\ \A k \in 1..n : Polled(p, n)[k] = log[p][position[p] + k] /\ position[p] + k \in DOMAIN log[p]
      /\ \A a \in Partitions : DOMAIN log[a] = 1..Len(log[a]) /\ Len(log[a]) \in Nat
      /\ \A a \in Partitions : \A k \in DOMAIN log[a] : log[a][k] \in Int
  BY PollReturns, LogTyped DEF IngestionTypeOK
<1>2. ASSUME log[q][i] \in InSeq(Polled(p, n))
      PROVE  q = p /\ position[p] < i /\ i <= position[p] + n
  <2>1. PICK k \in 1..n : Polled(p, n)[k] = log[q][i]
    BY <1>1, <1>2 DEF InSeq
  <2>2. position[p] + k \in DOMAIN log[p] /\ log[q][i] = log[p][position[p] + k]
    BY <1>1, <2>1
  <2>3. PartOf[IdOf[log[q][i]]] = q /\ PartOf[IdOf[log[p][position[p] + k]]] = p
    BY <2>2 DEF TopicInv
  <2>4. q = p
    BY <2>2, <2>3
  <2>5. \A j \in DOMAIN log[p] : j # i => log[p][j] # log[p][i]
    <3> SUFFICES ASSUME NEW j \in DOMAIN log[p], j # i, log[p][j] = log[p][i] PROVE FALSE
      OBVIOUS
    <3>1. i \in DOMAIN log[p] /\ i \in Int /\ j \in Int /\ log[p][i] \in Int
      BY <1>1, <2>4
    <3>2. i < j \/ j < i
      BY <3>1
    <3>3. log[p][i] < log[p][j] \/ log[p][j] < log[p][i]
      BY <3>1, <3>2 DEF TopicInv
    <3> QED BY <3>1, <3>3
  <2>6. i = position[p] + k
    BY <2>2, <2>4, <2>5
  <2>7. k \in 1..n /\ position[p] \in Nat
    BY <1>1
  <2> QED BY <2>4, <2>6, <2>7
<1>3. ASSUME q = p, position[p] < i, i <= position[p] + n
      PROVE  log[q][i] \in InSeq(Polled(p, n))
  <2>1. i \in Int
    BY <1>1
  <2>2. i - position[p] \in 1..n /\ position[p] + (i - position[p]) = i
    BY <1>1, <1>3, <2>1
  <2>3. Polled(p, n)[i - position[p]] = log[q][i]
    BY <1>1, <1>3, <2>2
  <2> QED BY <1>1, <2>2, <2>3 DEF InSeq
<1> QED BY <1>2, <1>3

\* What a sequence is after others were appended.
LEMMA Joined ==
  ASSUME NEW S, NEW s \in Seq(S), NEW m \in Seq(S)
  PROVE  /\ DOMAIN s = 1..Len(s) /\ Len(s) \in Nat
         /\ DOMAIN m = 1..Len(m) /\ Len(m) \in Nat
         /\ DOMAIN (s \o m) = 1..(Len(s) + Len(m))
         /\ \A i \in DOMAIN s : i \in DOMAIN (s \o m) /\ (s \o m)[i] = s[i]
         /\ \A i \in DOMAIN m : Len(s) + i \in DOMAIN (s \o m) /\ (s \o m)[Len(s) + i] = m[i]
         /\ \A i \in DOMAIN (s \o m) :
              \/ i \in DOMAIN s /\ (s \o m)[i] = s[i]
              \/ i > Len(s) /\ i - Len(s) \in DOMAIN m /\ (s \o m)[i] = m[i - Len(s)]
<1>1. /\ DOMAIN s = 1..Len(s) /\ Len(s) \in Nat
      /\ DOMAIN m = 1..Len(m) /\ Len(m) \in Nat
  BY LenProperties
<1>2. /\ s \o m \in Seq(S) /\ Len(s \o m) = Len(s) + Len(m)
      /\ \A i \in 1..(Len(s) + Len(m)) :
           (s \o m)[i] = IF i <= Len(s) THEN s[i] ELSE m[i - Len(s)]
  BY ConcatProperties
<1>3. DOMAIN (s \o m) = 1..(Len(s) + Len(m))
  BY <1>2, LenProperties
<1>4. ASSUME NEW t, NEW l \in Nat, NEW k \in Nat,
             \A i \in 1..(l + k) : t[i] = IF i <= l THEN s[i] ELSE m[i - l]
      PROVE  /\ \A i \in 1..l : i \in 1..(l + k) /\ t[i] = s[i]
             /\ \A i \in 1..k : l + i \in 1..(l + k) /\ t[l + i] = m[i]
             /\ \A i \in 1..(l + k) : \/ i \in 1..l /\ t[i] = s[i]
                                      \/ i > l /\ i - l \in 1..k /\ t[i] = m[i - l]
  <2>1. ASSUME NEW i \in 1..k PROVE l + i \in 1..(l + k) /\ t[l + i] = m[i]
    <3>1. l + i \in 1..(l + k) /\ ~(l + i <= l) /\ (l + i) - l = i
      OBVIOUS
    <3> QED BY <1>4, <3>1
  <2>2. ASSUME NEW i \in 1..(l + k)
        PROVE  \/ i \in 1..l /\ t[i] = s[i]
               \/ i > l /\ i - l \in 1..k /\ t[i] = m[i - l]
    BY <1>4
  <2>3. ASSUME NEW i \in 1..l PROVE i \in 1..(l + k) /\ t[i] = s[i]
    <3>1. i \in 1..(l + k) /\ i <= l
      OBVIOUS
    <3> QED BY <1>4, <3>1
  <2> QED BY <2>1, <2>2, <2>3
<1>5. /\ \A i \in 1..Len(s) : i \in 1..(Len(s) + Len(m)) /\ (s \o m)[i] = s[i]
      /\ \A i \in 1..Len(m) :
           Len(s) + i \in 1..(Len(s) + Len(m)) /\ (s \o m)[Len(s) + i] = m[i]
      /\ \A i \in 1..(Len(s) + Len(m)) :
           \/ i \in 1..Len(s) /\ (s \o m)[i] = s[i]
           \/ i > Len(s) /\ i - Len(s) \in 1..Len(m) /\ (s \o m)[i] = m[i - Len(s)]
  BY <1>1, <1>2, <1>4, Zenon
<1> QED BY <1>1, <1>3, <1>5

\* What was secure stays secure if what is appended is not older.
LEMMA SecureAppend ==
  ASSUME IngestionTypeOK, QuietInv, step[Reader] = "idle",
         UNCHANGED <<live, batch, step>>, NEW m \in Seq(Version),
         pending' = [pending EXCEPT ![Reader] = @ \o m], NEW v \in Version,
         \/ Secure(v) /\ \A i \in DOMAIN m : IdOf[m[i]] = IdOf[v] => m[i] >= v
         \/ Comes(m, v)
  PROVE  Secure(v)'
<1> DEFINE s == pending[Reader]
           t == s \o m
<1>1. s \in Seq(Version) /\ pending'[Reader] = t /\ batch[Reader] = <<>>
  BY IngestionAssumption DEF IngestionTypeOK, QuietInv
<1>2. Comes(t, v) => Secure(v)'
  <2> HIDE DEF s, t
  <2>1. (Comes(pending[Reader], v))' <=> Comes(t, v)
    BY <1>1 DEF Comes
  <2> QED BY <2>1 DEF Secure
<1>3. /\ DOMAIN s = 1..Len(s) /\ Len(s) \in Nat
      /\ DOMAIN m = 1..Len(m) /\ Len(m) \in Nat
      /\ DOMAIN t = 1..(Len(s) + Len(m))
      /\ \A i \in DOMAIN s : i \in DOMAIN t /\ t[i] = s[i]
      /\ \A i \in DOMAIN m : Len(s) + i \in DOMAIN t /\ t[Len(s) + i] = m[i]
      /\ \A i \in DOMAIN t : \/ i \in DOMAIN s /\ t[i] = s[i]
                             \/ i > Len(s) /\ i - Len(s) \in DOMAIN m /\ t[i] = m[i - Len(s)]
  BY <1>1, Joined
<1>4. Secure(v) => Comes(s, v) \/ (NoOlder(s, v) /\ HoldsFrom(live, v))
  BY <1>1 DEF Secure, Comes, Deleted, InGap
<1>5. NoOlder(t, v) /\ HoldsFrom(live, v) => Secure(v)'
  BY <1>1 DEF Secure, NoOlder, HoldsFrom, Held
<1> HIDE DEF s, t
<1>6. CASE Comes(m, v)
  <2>1. PICK k \in DOMAIN m :
          m[k] = v /\ \A j \in DOMAIN m : j > k /\ IdOf[m[j]] = IdOf[v] => m[j] >= v
    BY <1>6 DEF Comes
  <2>2. ASSUME NEW j \in DOMAIN t, j > Len(s) + k, IdOf[t[j]] = IdOf[v] PROVE t[j] >= v
    <3>1. j \in Int /\ j > Len(s) /\ k \in Nat /\ ~(j \in DOMAIN s)
      BY <1>3, <2>2
    <3>2. j - Len(s) \in DOMAIN m /\ t[j] = m[j - Len(s)] /\ j - Len(s) > k
      BY <1>3, <2>2, <3>1
    <3> QED BY <2>1, <2>2, <3>2
  <2>3. Comes(t, v)
    BY <1>3, <2>1, <2>2 DEF Comes
  <2> QED BY <1>2, <2>3
<1>7. CASE \A i \in DOMAIN m : IdOf[m[i]] = IdOf[v] => m[i] >= v
  <2>1. CASE Comes(s, v)
    <3>1. PICK k \in DOMAIN s :
            s[k] = v /\ \A j \in DOMAIN s : j > k /\ IdOf[s[j]] = IdOf[v] => s[j] >= v
      BY <2>1 DEF Comes
    <3>2. ASSUME NEW j \in DOMAIN t, j > k, IdOf[t[j]] = IdOf[v] PROVE t[j] >= v
      BY <1>3, <1>7, <3>1, <3>2
    <3>3. Comes(t, v)
      BY <1>3, <3>1, <3>2 DEF Comes
    <3> QED BY <1>2, <3>3
  <2>2. CASE NoOlder(s, v) /\ HoldsFrom(live, v)
    <3>1. NoOlder(t, v)
      BY <1>3, <1>7, <2>2 DEF NoOlder
    <3> QED BY <1>5, <2>2, <3>1
  <2>3. CASE ~Secure(v)
    BY <1>6, <2>3
  <2> QED BY <1>4, <2>1, <2>2, <2>3
<1> QED BY <1>6, <1>7

LEMMA PassagePoll ==
  ASSUME IngestionTypeOK, CallsAndStreams, TopicInv, PassageInv, PollMessages
  PROVE  PassageInv'
<1>1. PICK p \in Partitions, n \in 0..2, auto \in BOOLEAN, arrives \in BOOLEAN :
        /\ Poll(p, n, auto, arrives)
        /\ pending' = [pending EXCEPT ![Reader] = @ \o Polled(p, n)]
        /\ polled' = polled \cup InSeq(Polled(p, n))
        /\ lost' = lost \ InSeq(Polled(p, n))
  BY DEF PollMessages
<1> DEFINE m == Polled(p, n)
           M == InSeq(m)
<1>2. /\ UNCHANGED <<live, batch, step, offset, log>> /\ n \in Nat /\ QuietInv
      /\ source = "kafka" /\ source' = source /\ step[Reader] = "idle"
      /\ \A q \in Partitions : position[q] # None
  BY <1>1 DEF PollMessages, Polling, Poll, docVars, CallsAndStreams
<1>3. /\ m \in Seq(Version) /\ DOMAIN m = 1..n
      /\ \A k \in 1..n : m[k] = log[p][position[p] + k] /\ position[p] + k \in DOMAIN log[p]
      /\ position[p] \in Nat /\ position' = [position EXCEPT ![p] = position[p] + n]
  BY <1>1, <1>2, PollReturns
<1>4. \A q \in Partitions : \A i \in DOMAIN log[q] :
        log[q][i] \in M <=> q = p /\ position[p] < i /\ i <= position[p] + n
  BY <1>1, <1>2, PollIsOfOnePartition
<1>5. ASSUME NEW v \in Version,
             \/ Secure(v) /\ \A i \in DOMAIN m : IdOf[m[i]] = IdOf[v] => m[i] >= v
             \/ Comes(m, v)
      PROVE  Secure(v)'
  BY <1>1, <1>2, <1>3, <1>5, SecureAppend
<1> HIDE DEF m, M
<1>6. ASSUME NEW q \in Partitions PROVE PassedOf(q)' /\ ReachOf(q)'
  <2> DEFINE x == position[q]
             y == position'[q]
             c == committed'[q]
  <2>1. /\ PassedOf(q) /\ ReachOf(q) /\ x \in Nat /\ committed[q] \in Int
        /\ Len(log[q]) \in Nat /\ DOMAIN log[q] = 1..Len(log[q])
        /\ \A i \in DOMAIN log[q] : log[q][i] \in Version /\ log[q][i] \in Int
    BY <1>2, LogTyped, OffsetTypes DEF PassageInv, IngestionTypeOK
  <2>2. y = (IF q = p THEN x + n ELSE x) /\ y \in Nat /\ y >= x /\ y # None
    BY <1>2, <1>3, <2>1 DEF IngestionTypeOK, KafkaTypeOK, None
  <2>3. c = committed[q] \/ (c \in Nat /\ c <= y)
    <3> DEFINE before == IF auto THEN AutoCommitted ELSE committed
    <3>1. before[q] = committed[q] \/ before[q] = x
      BY <1>2, AutoCommittedAt
    <3>2. committed' = IF n > 0 /\ arrives THEN [before EXCEPT ![p] = position[p] + n - 1]
                       ELSE before
      BY <1>1 DEF Poll
    <3>3. DOMAIN before = Partitions
      BY DEF AutoCommitted, IngestionTypeOK, KafkaTypeOK
    <3> HIDE DEF before
    <3>4. c = before[q] \/ (q = p /\ n > 0 /\ c = x + n - 1)
      BY <3>2, <3>3
    <3> QED BY <1>2, <2>1, <2>2, <3>1, <3>4
  <2> HIDE DEF x, y, c
  <2>4. ASSUME NEW i \in DOMAIN log[q], i <= x, log[q][i] \in polled, Secure(log[q][i])
        PROVE  Secure(log[q][i])'
    <3>1. \A k \in DOMAIN m : IdOf[m[k]] = IdOf[log[q][i]] => m[k] >= log[q][i]
      <4> SUFFICES ASSUME NEW k \in 1..n, IdOf[m[k]] = IdOf[log[q][i]]
                   PROVE  m[k] >= log[q][i]
        BY <1>3
      <4>1. m[k] = log[p][position[p] + k] /\ position[p] + k \in DOMAIN log[p]
        BY <1>3
      <4>2. PartOf[IdOf[log[q][i]]] = q /\ PartOf[IdOf[m[k]]] = p
        BY <4>1 DEF TopicInv
      <4>3. q = p
        BY <4>2
      <4>4. i < position[p] + k
        BY <1>3, <2>1, <2>4, <4>3 DEF x
      <4>5. log[q][i] < m[k] /\ m[k] \in Int
        BY <2>1, <4>1, <4>3, <4>4 DEF TopicInv
      <4> QED BY <2>1, <4>5
    <3> QED BY <1>2, <1>5, <2>1, <2>4, <3>1
  <2>5. ASSUME NEW i \in DOMAIN log[q], log[q][i] \in M
        PROVE  log[q][i] \in polled' /\ Secure(log[q][i])'
    <3>1. q = p /\ x < i /\ i <= x + n
      BY <1>4, <2>5 DEF x
    <3>2. i - x \in 1..n /\ x + (i - x) = i
      BY <2>1, <3>1
    <3>3. m[i - x] = log[q][i]
      BY <1>3, <3>1, <3>2 DEF x
    <3>4. \A j \in 1..n : j > i - x => m[j] >= log[q][i]
      <4> SUFFICES ASSUME NEW j \in 1..n, j > i - x PROVE m[j] >= log[q][i]
        OBVIOUS
      <4>1. i < x + j
        BY <2>1, <3>2
      <4>2. x + j \in DOMAIN log[q] /\ m[j] = log[q][x + j]
        BY <1>3, <3>1 DEF x
      <4>3. log[q][i] < m[j] /\ m[j] \in Int
        BY <2>1, <4>1, <4>2 DEF TopicInv
      <4> QED BY <2>1, <4>3
    <3>5. Comes(m, log[q][i])
      BY <1>3, <3>2, <3>3, <3>4 DEF Comes
    <3> QED BY <1>1, <1>2, <1>5, <2>1, <2>5, <3>5 DEF M, m
  <2>6. ASSUME NEW i \in DOMAIN log[q], i <= y
        PROVE  log[q][i] \in lost' \/ (log[q][i] \in polled' /\ Secure(log[q][i])')
    <3>1. CASE i <= x
      <4>1. log[q][i] \notin M
        BY <1>4, <2>1, <3>1 DEF x
      <4>2. log[q][i] \in lost \/ (log[q][i] \in polled /\ Secure(log[q][i]))
        BY <2>1, <3>1 DEF PassedOf, x
      <4>3. lost' = lost \ M /\ polled' = polled \cup M
        BY <1>1 DEF M, m
      <4> QED BY <2>4, <3>1, <4>1, <4>2, <4>3
    <3>2. CASE ~(i <= x)
      <4>1. q = p /\ x < i /\ i <= x + n
        BY <2>1, <2>2, <2>6, <3>2
      <4> QED BY <1>4, <2>5, <4>1 DEF x
    <3> QED BY <3>1, <3>2
  <2>7. PassedOf(q)'
    BY <1>2, <2>6 DEF PassedOf, y
  <2>8. ASSUME NEW i \in DOMAIN log[q], i <= Reach(q), log[q][i] \in polled' PROVE i <= y
    <3>1. CASE log[q][i] \in polled
      <4>1. i <= x
        BY <1>2, <2>1, <2>8, <3>1 DEF ReachOf, x
      <4> QED BY <2>1, <2>2, <4>1
    <3>2. CASE log[q][i] \in M
      BY <1>4, <2>2, <3>2 DEF x
    <3> QED BY <1>1, <2>8, <3>1, <3>2 DEF M, m
  <2>9. ReachOf(q)'
    <3>1. CASE Jumps(q)'
      <4>1. Jumps(q)
        BY <1>2, <2>3, <3>1 DEF Jumps, c, None
      <4>2. Reach(q)' = Reach(q)
        BY <1>2, <3>1, <4>1 DEF Reach
      <4> QED BY <1>2, <2>2, <2>8, <3>1, <4>2 DEF ReachOf, y
    <3>2. CASE ~Jumps(q)' /\ offset = "none" /\ c = committed[q]
      <4>1. ~Jumps(q) /\ Reach(q)' = Reach(q)
        BY <1>2, <3>2 DEF Jumps, Reach, c
      <4>2. \A i \in DOMAIN log[q] : i <= Reach(q) => log[q][i] \in polled' \cup lost'
        BY <1>1, <2>1, <4>1 DEF ReachOf
      <4> QED BY <1>2, <2>2, <2>8, <3>2, <4>1, <4>2 DEF ReachOf, y
    <3>3. CASE ~Jumps(q)' /\ offset = "none" /\ c \in Nat /\ c <= y
      <4>1. Reach(q)' = c
        BY <1>2, <3>3 DEF Jumps, Reach, c
      <4>2. \A i \in DOMAIN log[q] : i <= c => i <= y
        BY <2>1, <2>2, <3>3
      <4> QED BY <1>2, <2>2, <2>6, <3>3, <4>1, <4>2 DEF ReachOf, y
    <3>4. CASE ~Jumps(q)' /\ offset # "none"
      <4>1. Reach(q)' = 0
        BY <1>2, <3>4 DEF Reach
      <4> QED BY <1>2, <2>1, <4>1 DEF ReachOf
    <3> QED BY <2>3, <3>1, <3>2, <3>3, <3>4
  <2> QED BY <2>7, <2>9
<1> QED BY <1>2, <1>6 DEF PassageInv

\* When the consumer is gone, what it was past is in the index or was lost.
LEMMA PassageLeave ==
  ASSUME IngestionTypeOK, PassageInv, source = "kafka", UNCHANGED <<source, polled>>,
         CloseConsumer \/ LoseConsumer \/ \E kicked \in BOOLEAN : AssignmentFails(kicked),
         lost \subseteq lost',
         \A v \in polled : Settled(v) \/ Secure(v) => Settled(v)'
  PROVE  PassageInv'
<1>1. ASSUME NEW p \in Partitions PROVE PassedOf(p)' /\ ReachOf(p)'
  <2> DEFINE c == committed'[p]
  <2>1. /\ UNCHANGED <<offset, log>> /\ position'[p] = None
        /\ c = committed[p] \/ (position[p] # None /\ c = position[p])
    BY ConsumerGone, AutoCommittedAt DEF CloseConsumer, LoseConsumer, AssignmentFails
  <2>2. /\ PassedOf(p) /\ ReachOf(p)
        /\ Len(log[p]) \in Nat /\ DOMAIN log[p] = 1..Len(log[p])
    BY LogTyped DEF PassageInv, IngestionTypeOK
  <2> HIDE DEF c
  <2>3. PassedOf(p)'
    <3>1. \A i \in DOMAIN log[p] : ~(i <= None)
      BY <2>2 DEF None
    <3> QED BY <2>1, <3>1 DEF PassedOf
  <2>4. ASSUME NEW i \in DOMAIN log[p], i <= position[p]
        PROVE  log[p][i] \in polled \cup lost' /\ (log[p][i] \in polled => Settled(log[p][i])')
    BY <2>1, <2>2, <2>4 DEF PassedOf, Settled
  <2>5. ASSUME NEW i \in DOMAIN log[p], i <= Reach(p), log[p][i] \in polled
        PROVE  Settled(log[p][i])'
    <3>1. CASE position[p] = None
      BY <2>1, <2>2, <2>5, <3>1 DEF ReachOf
    <3>2. CASE position[p] # None
      BY <2>2, <2>4, <2>5, <3>2 DEF ReachOf
    <3> QED BY <3>1, <3>2
  <2>6. ReachOf(p)'
    <3>1. CASE Jumps(p)'
      <4>1. Jumps(p)
        BY <2>1, <3>1 DEF Jumps, c
      <4>2. Reach(p)' = Reach(p)
        BY <2>1, <3>1, <4>1 DEF Reach
      <4> QED BY <2>1, <2>5, <3>1, <4>2 DEF ReachOf
    <3>2. CASE ~Jumps(p)' /\ offset = "none" /\ c = committed[p]
      <4>1. ~Jumps(p) /\ Reach(p)' = Reach(p)
        BY <2>1, <3>2 DEF Jumps, Reach, c
      <4>2. \A i \in DOMAIN log[p] : i <= Reach(p) => log[p][i] \in polled' \cup lost'
        BY <2>2, <4>1 DEF ReachOf
      <4> QED BY <2>1, <2>5, <3>2, <4>1, <4>2 DEF ReachOf
    <3>3. CASE ~Jumps(p)' /\ offset = "none" /\ c = position[p]
      <4>1. Reach(p)' = position[p]
        BY <2>1, <3>3 DEF Jumps, Reach, c
      <4> QED BY <2>1, <2>4, <3>3, <4>1 DEF ReachOf
    <3>4. CASE ~Jumps(p)' /\ offset # "none"
      <4>1. Reach(p)' = 0
        BY <2>1, <3>4 DEF Reach
      <4> QED BY <2>1, <2>2, <4>1 DEF ReachOf
    <3> QED BY <2>1, <3>1, <3>2, <3>3, <3>4
  <2> QED BY <2>3, <2>6
<1> QED BY <1>1 DEF PassageInv

\* The end of the process, or of its stream: what it drops is lost.
LEMMA PassageEnd ==
  ASSUME IngestionTypeOK, CallsAndStreams, AssignedInv, PassageInv, source = "kafka",
         Stop \/ Kill \/ AssignFails \/ \E c \in Callers : Fail(c)
  PROVE  PassageInv'
<1>0. \A v \in Version : Settled(v) <=> HoldsFrom(live, v) \/ v \in lost
  BY DEF Settled
<1>1. CASE Kill
  <2>1. LoseConsumer /\ live' = disk /\ UNCHANGED <<source, polled>>
    BY <1>1 DEF Kill
  <2>2. lost' = lost \cup {v \in polled : ~HoldsFrom(disk, v)}
    BY <1>1 DEF Kill
  <2>3. \A v \in polled : HoldsFrom(disk, v) => (HoldsFrom(live, v))'
    BY <2>1 DEF HoldsFrom, Held
  <2>4. \A v \in polled : Settled(v)'
    BY <2>2, <2>3 DEF Settled
  <2> QED BY <2>1, <2>2, <2>4, PassageLeave
<1>2. ASSUME live' = live, UNCHANGED <<source, polled>>,
             CloseConsumer \/ \E kicked \in BOOLEAN : AssignmentFails(kicked),
             lost \cup Pipeline(Reader) \subseteq lost',
             \A v \in polled : IdOf[v] \in Deleted(Reader) => v \in lost'
      PROVE  PassageInv'
  <2>1. ASSUME NEW v \in polled, Settled(v) \/ Secure(v) PROVE Settled(v)'
    <3>1. HoldsFrom(live, v) \/ v \in lost \/ v \in Pipeline(Reader) \/ IdOf[v] \in Deleted(Reader)
      BY <2>1, SecureIsHeld DEF Settled
    <3>2. HoldsFrom(live, v) => (HoldsFrom(live, v))'
      BY <1>2 DEF HoldsFrom, Held
    <3> QED BY <1>2, <3>1, <3>2 DEF Settled
  <2> QED BY <1>2, <2>1, PassageLeave
<1>3. CASE Stop
  <2>1. CloseConsumer /\ live' = live /\ UNCHANGED <<source, polled>>
    BY <1>3 DEF Stop, Shut
  <2>2. lost' = lost \cup Pipeline(Reader) /\ Deleted(Reader) = {}
    BY <1>3, IngestionAssumption DEF Stop, Deleted
  <2> QED BY <1>2, <2>1, <2>2
<1>4. CASE AssignFails
  <2>1. /\ \E kicked \in BOOLEAN : AssignmentFails(kicked)
        /\ live' = live /\ UNCHANGED <<source, polled>>
    BY <1>4 DEF AssignFails
  <2>2. step[Reader] = "idle" /\ lost' = lost \cup Pipeline(Reader)
    BY <1>4 DEF AssignFails, Polling, AssignedInv
  <2>3. Deleted(Reader) = {}
    BY <2>2 DEF Deleted, InGap
  <2> QED BY <1>2, <2>1, <2>2, <2>3
<1>5. ASSUME NEW c \in Callers, Fail(c) PROVE PassageInv'
  <2>1. c = Reader
    <3> SUFFICES ASSUME c # Reader PROVE FALSE
      OBVIOUS
    <3>1. pending[c] = <<>> /\ batch[c] = <<>>
      BY DEF CallsAndStreams, StreamInv, QuietInv
    <3>2. Pipeline(c) = {}
      BY <3>1 DEF Pipeline, InSeq, InBatch
    <3> QED BY <1>5, <3>2 DEF Fail
  <2>2. CloseConsumer /\ live' = live /\ UNCHANGED <<source, polled>>
    BY <1>5 DEF Fail, Shut
  <2>3. lost' = lost \cup Pipeline(c) \cup {v \in polled : IdOf[v] \in Deleted(c)}
    BY <1>5 DEF Fail
  <2> QED BY <1>2, <2>1, <2>2, <2>3
<1> QED BY <1>1, <1>3, <1>4, <1>5

LEMMA PassageStep ==
  /\ IngestionTypeOK /\ CallsAndStreams /\ KafkaBasics /\ GapInv /\ PassageInv
  /\ [IngestionNext]_ingestionVars
  => PassageInv'
<1> SUFFICES ASSUME IngestionTypeOK, CallsAndStreams, KafkaBasics, GapInv, PassageInv,
                    [IngestionNext]_ingestionVars
             PROVE  PassageInv'
  OBVIOUS
<1>0. TopicInv /\ AssignedInv
  BY DEF KafkaBasics
<1>1. source' = source
  BY DEF IngestionNext, Request, Take, Replace, Add, Answer, Fail, ProduceMessage, AssignFirst,
         Rebalance, PollMessages, AssignFails, Delete, Flush, FlushRequest, FlushFails, Finish, Stop, Close, Kill, Start,
         procVars, ingestionVars
<1> SUFFICES ASSUME source = "kafka" PROVE PassageInv'
  BY <1>1 DEF PassageInv
<1>2. CASE ProduceMessage \/ AssignFirst \/ Rebalance \/ PollMessages
  BY <1>0, <1>2, PassageTopic, PassageAssign, PassagePoll
<1>3. ASSUME NEW c \in Callers, Take(c) \/ Replace(c) \/ Add(c) PROVE PassageInv'
  BY <1>0, <1>3, PassageBatch
<1>4. CASE Stop \/ Kill \/ AssignFails \/ \E c \in Callers : Fail(c)
  BY <1>0, <1>4, PassageEnd
<1>5. ASSUME NEW c \in Callers, Answer(c) PROVE FALSE
  BY <1>5 DEF Answer, CallsAndStreams, StreamInv
<1>6. CASE Flush \/ FlushRequest \/ FlushFails \/ Close \/ UNCHANGED ingestionVars
  <2>1. UNCHANGED <<kafkaVars, polled, lost, live, pending, batch, step>>
    BY <1>6 DEF FlushFails, Flush, FlushRequest, Close, CommitAll, Commit, procVars, ingestionVars, docVars, ghostVars
  <2> QED BY <2>1, PassageSame
<1>7. CASE Start
  <2>1. UNCHANGED <<kafkaVars, polled, lost, live, batch, step>> /\ phase = "down"
    BY <1>7 DEF Start, docVars
  <2>2. pending'[Reader] = <<>> /\ pending[Reader] = <<>>
    BY <1>0, <1>7, <2>1, IngestionAssumption DEF Start, AssignedInv
  <2> QED BY <2>1, <2>2, PassageSame
<1> QED
  BY <1>2, <1>3, <1>4, <1>5, <1>6, <1>7 DEF IngestionNext, Request, Delete, Finish

\* What the consumer is past is there, on its way or lost.
LEMMA PassedIsHeldBy == IngestionTypeOK /\ PassageInv => PassedIsHeld
<1> SUFFICES ASSUME IngestionTypeOK, PassageInv, source = "kafka", NEW p \in Partitions,
                    NEW v \in Passed(p)
             PROVE  \/ HoldsFrom(live, v)
                    \/ \E w \in Pipeline(Reader) : IdOf[w] = IdOf[v] /\ w >= v
                    \/ v \in lost
  BY DEF PassedIsHeld
<1>1. PICK i \in 1..position[p] : v = log[p][i]
  BY DEF Passed
<1>2. i \in DOMAIN log[p] /\ v \in Version /\ i <= position[p]
  BY <1>1, LogTyped, OffsetTypes DEF IngestionTypeOK
<1>3. v \in lost \/ Secure(v)
  BY <1>1, <1>2 DEF PassageInv, PassedOf
<1>4. ASSUME IdOf[v] \in Deleted(Reader), NoOlder(batch[Reader], v)
      PROVE  \E w \in Pipeline(Reader) : IdOf[w] = IdOf[v] /\ w >= v
  BY <1>4 DEF Deleted, BatchIds, InBatch, NoOlder, Pipeline
<1>5. Comes(pending[Reader], v) \/ Comes(batch[Reader], v) => v \in Pipeline(Reader)
  BY DEF Comes, Pipeline, InSeq, InBatch
<1>6. v >= v
  BY <1>2 DEF Version
<1> QED BY <1>3, <1>4, <1>5, <1>6 DEF Secure

\* What the consumer is past was lost, or the index has it or a later version,
\* or that is on its way: for any topic, offset, polls, commits that do not
\* arrive, rebalances, failures, stops and kills.
THEOREM PassedMessagesAreHeld == IngestionSpec => []PassedIsHeld
<1> DEFINE Inv == KafkaBasics /\ GapInv /\ PassageInv
<1>1. IngestionInit => Inv
  BY KafkaFirst, GapsFirst, PassageFirst
<1>2. IngestionTypeOK /\ CallsAndStreams /\ Inv /\ [IngestionNext]_ingestionVars => Inv'
  BY KafkaBasicsStep, GapStep, PassageStep
<1>3. IngestionTypeOK /\ Inv => PassedIsHeld
  BY PassedIsHeldBy
<1> QED
  BY <1>1, <1>2, <1>3, CallsInvariant, IngestionTypeCorrect, PTL DEF IngestionSpec

-----------------------------------------------------------------------------
(* The order in which a stream replaces documents *)

\* What was polled is a message of its partition.
PolledInv ==
  \A v \in polled : \E i \in DOMAIN log[PartOf[IdOf[v]]] : log[PartOf[IdOf[v]]][i] = v

\* The writer or the commit has this version.
There(v) == live[v] > 0 \/ disk[v] > 0

\* What Kafka's stream has and adds, it polled.
OnlyPolled == \A v \in Version : There(v) \/ v \in Pipeline(Reader) => v \in polled

\* What the stream has for the first time is later than what is there.
LaterThanThere ==
  \A v \in Pipeline(Reader), u \in Version :
    v \notin again /\ There(u) /\ IdOf[u] = IdOf[v] => u <= v

\* ... and than the batch before it.
LaterThanBatch ==
  \A v \in InSeq(pending[Reader]), u \in InBatch(Reader) :
    v \notin again /\ IdOf[u] = IdOf[v] => u <= v

\* ... and than what is to be added before it.
LaterThanNext(s) ==
  \A i, j \in DOMAIN s : i < j /\ s[j] \notin again /\ IdOf[s[i]] = IdOf[s[j]] => s[i] <= s[j]

OrderInv ==
  source # "api" =>
    /\ source = "kafka" => OnlyPolled
    /\ LaterThanThere /\ LaterThanBatch /\ LaterThanNext(pending[Reader])

LEMMA OrderFirst == IngestionInit => PolledInv /\ OrderInv
<1> SUFFICES ASSUME IngestionInit PROVE PolledInv /\ OrderInv
  OBVIOUS
<1>1. /\ batch[Reader] = <<>> /\ \A v \in Version : live[v] = 0 /\ disk[v] = 0
      /\ polled = {} /\ pending[Reader] = IF source = "file" THEN WholeFile ELSE <<>>
  BY IngestionAssumption DEF IngestionInit, DocumentsInit
<1>2. \A v \in Version : ~There(v)
  BY <1>1 DEF There
<1>3. LaterThanNext(WholeFile) /\ LaterThanNext(<<>>)
  BY DEF LaterThanNext, WholeFile, Version
<1>4. InBatch(Reader) = {} /\ (source = "kafka" => Pipeline(Reader) = {})
  BY <1>1 DEF InBatch, Pipeline, InSeq
<1>5. Pipeline(Reader) \subseteq Version
  <2>1. InSeq(pending[Reader]) \subseteq Version
    BY <1>1 DEF InSeq, WholeFile
  <2> QED BY <1>4, <2>1 DEF Pipeline
<1> QED
  BY <1>1, <1>2, <1>3, <1>4, <1>5
  DEF PolledInv, OrderInv, OnlyPolled, LaterThanThere, LaterThanBatch

LEMMA PolledStep ==
  IngestionTypeOK /\ TopicInv /\ PolledInv /\ [IngestionNext]_ingestionVars => PolledInv'
<1> SUFFICES ASSUME IngestionTypeOK, TopicInv, PolledInv, [IngestionNext]_ingestionVars
             PROVE  PolledInv'
  OBVIOUS
<1>1. CASE UNCHANGED <<log, polled>>
  BY <1>1 DEF PolledInv
<1>2. CASE ProduceMessage
  <2>1. \A v \in polled : PartOf[IdOf[v]] \in Partitions
    BY KafkaAssumption DEF IngestionTypeOK, Ids
  <2>2. polled' = polled
    BY <1>2, TopicGrows
  <2>3. \A p \in Partitions : \A i \in DOMAIN log[p] : i \in DOMAIN log'[p] /\ log'[p][i] = log[p][i]
    BY <1>2, TopicGrows
  <2> QED BY <2>1, <2>2, <2>3 DEF PolledInv
<1>3. CASE PollMessages
  <2>1. PICK p \in Partitions, n \in 0..2, auto \in BOOLEAN, arrives \in BOOLEAN :
          Poll(p, n, auto, arrives) /\ polled' = polled \cup InSeq(Polled(p, n))
    BY <1>3 DEF PollMessages
  <2>2. log' = log /\ n \in Nat
    BY <2>1 DEF Poll
  <2>3. /\ DOMAIN Polled(p, n) = 1..n
        /\ \A i \in 1..n : /\ Polled(p, n)[i] = log[p][position[p] + i]
                           /\ position[p] + i \in DOMAIN log[p]
    BY <2>1, <2>2, PollReturns
  <2>4. ASSUME NEW v \in InSeq(Polled(p, n))
        PROVE  \E i \in DOMAIN log[PartOf[IdOf[v]]] : log[PartOf[IdOf[v]]][i] = v
    <3>1. PICK k \in 1..n : v = Polled(p, n)[k]
      BY <2>3, <2>4 DEF InSeq
    <3>2. position[p] + k \in DOMAIN log[p] /\ v = log[p][position[p] + k]
      BY <2>3, <3>1
    <3>3. PartOf[IdOf[v]] = p
      BY <3>2 DEF TopicInv
    <3> QED BY <3>2, <3>3
  <2> QED BY <2>1, <2>2, <2>4 DEF PolledInv
<1>4. CASE \/ AssignFirst \/ Rebalance \/ AssignFails \/ FlushFails \/ Kill \/ Stop \/ Start
           \/ UNCHANGED ingestionVars
  BY <1>1, <1>4
  DEF FlushFails, AssignFirst, Rebalance, Assign, AssignFails, AssignmentFails, Kill, LoseConsumer, Stop, Shut,
      CloseConsumer, Start, kafkaVars, ingestionVars, ghostVars
<1>5. CASE Delete \/ Flush \/ FlushRequest \/ Finish \/ Close
  BY <1>1, <1>5 DEF Delete, Flush, FlushRequest, Finish, Close, CommitAll, kafkaVars
<1>6. ASSUME NEW c \in Callers,
             Request(c) \/ Take(c) \/ Replace(c) \/ Add(c) \/ Answer(c) \/ Fail(c)
      PROVE  PolledInv'
  BY <1>1, <1>6
  DEF Request, Take, Replace, Add, Answer, Fail, Shut, CloseConsumer, kafkaVars, ghostVars
<1> QED BY <1>2, <1>3, <1>4, <1>5, <1>6 DEF IngestionNext

\* Nothing is added: what was to be added is kept, or dropped.
LEMMA OrderKept ==
  ASSUME OrderInv, source # "api", source' = source, polled \subseteq polled',
         again \subseteq again', \A v \in Version : There(v)' => There(v),
         \/ UNCHANGED <<pending[Reader], batch[Reader]>>
         \/ pending'[Reader] = <<>> /\ batch'[Reader] = <<>>
  PROVE  OrderInv'
<1>1. CASE UNCHANGED <<pending[Reader], batch[Reader]>>
  <2>1. Pipeline(Reader)' = Pipeline(Reader) /\ InBatch(Reader)' = InBatch(Reader)
    BY <1>1 DEF Pipeline, InSeq, InBatch
  <2>2. InSeq(pending[Reader])' = InSeq(pending[Reader])
    BY <1>1 DEF InSeq
  <2>3. (LaterThanNext(pending[Reader]))'
    BY <1>1 DEF OrderInv, LaterThanNext
  <2>4. LaterThanThere' /\ LaterThanBatch'
    BY <2>1, <2>2 DEF OrderInv, LaterThanThere, LaterThanBatch
  <2>5. source = "kafka" => OnlyPolled'
    BY <2>1 DEF OrderInv, OnlyPolled
  <2> QED BY <2>3, <2>4, <2>5 DEF OrderInv
<1>2. CASE pending'[Reader] = <<>> /\ batch'[Reader] = <<>>
  <2>1. /\ Pipeline(Reader)' = {} /\ InBatch(Reader)' = {} /\ InSeq(pending[Reader])' = {}
        /\ DOMAIN pending'[Reader] = {}
    BY <1>2 DEF Pipeline, InSeq, InBatch
  <2>2. (LaterThanNext(pending[Reader]))'
    BY <2>1 DEF LaterThanNext
  <2>3. LaterThanThere' /\ LaterThanBatch'
    BY <2>1 DEF LaterThanThere, LaterThanBatch
  <2>4. source = "kafka" => OnlyPolled'
    BY <2>1 DEF OrderInv, OnlyPolled
  <2> QED BY <2>2, <2>3, <2>4 DEF OrderInv
<1> QED BY <1>1, <1>2

LEMMA OrderTake ==
  ASSUME IngestionTypeOK, QuietInv, OrderInv, source # "api", Take(Reader)
  PROVE  OrderInv'
<1> DEFINE s == pending[Reader]
           b == batch'[Reader]
           q == pending'[Reader]
           n == NextChunk(Reader)
<1>1. /\ n \in 0..Len(s) /\ b = SubSeq(s, 1, n) /\ q = SubSeq(s, n + 1, Len(s))
      /\ s \in Seq(Version) /\ Pipeline(Reader)' = Pipeline(Reader)
  BY TakeMoves, IngestionAssumption DEF IngestionTypeOK
<1>2. UNCHANGED <<source, polled, again, live, disk>>
  BY DEF Take, AddDocuments, ghostVars
<1>3. LaterThanNext(s)
  BY DEF OrderInv
<1> HIDE DEF s, b, q, n
<1>4. /\ DOMAIN s = 1..Len(s) /\ Len(s) \in Nat /\ n \in Nat /\ n <= Len(s)
      /\ DOMAIN b = 1..n /\ DOMAIN q = 1..(Len(s) - n)
      /\ \A i \in 1..n : b[i] = s[i] /\ i \in DOMAIN s
      /\ \A i \in 1..(Len(s) - n) : q[i] = s[n + i] /\ n + i \in DOMAIN s
  <2>1. /\ DOMAIN s = 1..Len(s) /\ Len(s) \in Nat
        /\ DOMAIN b = 1..n /\ DOMAIN q = 1..(Len(s) - n)
        /\ \A i \in 1..n : b[i] = s[i]
        /\ \A i \in 1..(Len(s) - n) : q[i] = s[n + i]
    BY <1>1, Split
  <2> QED BY <1>1, <2>1
<1>5. ASSUME NEW i \in DOMAIN q, NEW j \in DOMAIN b, q[i] \notin again, IdOf[b[j]] = IdOf[q[i]]
      PROVE  b[j] <= q[i]
  <2>1. j < n + i
    BY <1>4
  <2> QED BY <1>3, <1>4, <1>5, <2>1 DEF LaterThanNext
<1>6. ASSUME NEW i \in DOMAIN q, NEW j \in DOMAIN q, i < j, q[j] \notin again,
             IdOf[q[i]] = IdOf[q[j]]
      PROVE  q[i] <= q[j]
  <2>1. n + i < n + j
    BY <1>4, <1>6
  <2> QED BY <1>3, <1>4, <1>6, <2>1 DEF LaterThanNext
<1>7. LaterThanBatch'
  BY <1>2, <1>5 DEF LaterThanBatch, InSeq, InBatch, q, b
<1>8. (LaterThanNext(pending[Reader]))'
  BY <1>2, <1>6 DEF LaterThanNext, q
<1>9. LaterThanThere' /\ (source = "kafka" => OnlyPolled')
  BY <1>1, <1>2 DEF OrderInv, LaterThanThere, OnlyPolled, There
<1> QED BY <1>2, <1>7, <1>8, <1>9 DEF OrderInv

LEMMA OrderAdd ==
  ASSUME IngestionTypeOK, OrderInv, source # "api", Add(Reader)
  PROVE  OrderInv'
<1>1. /\ pending' = pending /\ batch'[Reader] = <<>> /\ disk' = disk
      /\ UNCHANGED <<source, polled, again>>
      /\ \A w \in Version : live'[w] > 0 <=> live[w] > 0 \/ w \in InBatch(Reader)
  BY AddCounts, IngestionAssumption DEF Add, AddNew, procVars
<1>2. \A w \in Version : There(w)' <=> There(w) \/ w \in InBatch(Reader)
  BY <1>1 DEF There
<1>3. /\ Pipeline(Reader)' = InSeq(pending[Reader]) /\ InBatch(Reader)' = {}
      /\ InSeq(pending[Reader])' = InSeq(pending[Reader])
  BY <1>1 DEF Pipeline, InBatch, InSeq
<1>4. LaterThanThere'
  BY <1>1, <1>2, <1>3 DEF OrderInv, LaterThanThere, LaterThanBatch, Pipeline
<1>5. LaterThanBatch' /\ (LaterThanNext(pending[Reader]))'
  BY <1>1, <1>3 DEF OrderInv, LaterThanBatch, LaterThanNext
<1>6. source = "kafka" => OnlyPolled'
  BY <1>1, <1>2, <1>3 DEF OrderInv, OnlyPolled, Pipeline
<1> QED BY <1>1, <1>4, <1>5, <1>6 DEF OrderInv

\* A message that is polled for the first time is later than what was polled.
LEMMA PollIsLater ==
  ASSUME IngestionTypeOK, TopicInv, PolledInv, GapInv,
         NEW p \in Partitions, NEW n \in Nat, NEW auto \in BOOLEAN, NEW arrives \in BOOLEAN,
         Poll(p, n, auto, arrives), NEW k \in 1..n, Polled(p, n)[k] \notin polled,
         NEW u \in polled, IdOf[u] = IdOf[Polled(p, n)[k]]
  PROVE  u <= Polled(p, n)[k]
<1> DEFINE v == Polled(p, n)[k]
           i == position[p] + k
<1>1. /\ position[p] \in Nat /\ i \in DOMAIN log[p] /\ v = log[p][i] /\ position[p] # None
      /\ DOMAIN log[p] = 1..Len(log[p]) /\ Len(log[p]) \in Nat
  BY PollReturns DEF Poll
<1>2. /\ PartOf[IdOf[v]] = p
      /\ \A j \in DOMAIN log[p] : log[p][j] \in Int
  BY <1>1, LogTyped DEF TopicInv, IngestionTypeOK
<1> HIDE DEF v, i
<1>3. PICK j \in DOMAIN log[p] : log[p][j] = u
  BY <1>2 DEF PolledInv, v
<1>4. ~(i < j)
  <2> SUFFICES ASSUME i < j PROVE FALSE
    OBVIOUS
  <2>1. i <= position[p]
    BY <1>1, <1>3 DEF GapInv, GapsOf, v
  <2> QED BY <1>1, <2>1 DEF i
<1>5. j < i \/ j = i
  BY <1>1, <1>4
<1>6. u \in Int /\ v \in Int /\ (u < v \/ u = v)
  BY <1>1, <1>2, <1>3, <1>5 DEF TopicInv
<1> QED BY <1>6 DEF v

LEMMA OrderPoll ==
  ASSUME IngestionTypeOK, CallsAndStreams, TopicInv, PolledInv, GapInv, OrderInv, PollMessages
  PROVE  OrderInv'
<1>1. PICK p \in Partitions, n \in 0..2, auto \in BOOLEAN, arrives \in BOOLEAN :
        /\ Poll(p, n, auto, arrives)
        /\ pending' = [pending EXCEPT ![Reader] = @ \o Polled(p, n)]
        /\ again' = again \cup (InSeq(Polled(p, n)) \cap polled)
        /\ polled' = polled \cup InSeq(Polled(p, n))
  BY DEF PollMessages
<1> DEFINE s == pending[Reader]
           m == Polled(p, n)
           t == s \o m
<1>2. /\ UNCHANGED <<live, disk, batch, source>> /\ n \in Nat /\ source = "kafka"
      /\ batch[Reader] = <<>> /\ s \in Seq(Version) /\ t = pending'[Reader]
  <2>1. /\ pending \in [Callers -> Seq(Version)] /\ Reader \in Callers
        /\ \A c \in Callers : step[c] = "idle" => batch[c] = <<>>
    BY IngestionAssumption DEF IngestionTypeOK, CallsAndStreams, QuietInv
  <2>2. UNCHANGED <<live, disk, batch, source>> /\ source = "kafka" /\ step[Reader] = "idle"
    BY DEF PollMessages, Polling, docVars
  <2> QED BY <1>1, <2>1, <2>2
<1>3. /\ m \in Seq(Version) /\ DOMAIN m = 1..n
      /\ \A k \in 1..n : m[k] = log[p][position[p] + k] /\ position[p] + k \in DOMAIN log[p]
      /\ position[p] \in Nat
  BY <1>1, <1>2, PollReturns
<1>4. /\ DOMAIN s = 1..Len(s) /\ Len(s) \in Nat
      /\ DOMAIN t = 1..(Len(s) + n)
      /\ \A i \in DOMAIN s : i \in DOMAIN t /\ t[i] = s[i]
      /\ \A i \in DOMAIN m : Len(s) + i \in DOMAIN t /\ t[Len(s) + i] = m[i]
      /\ \A i \in DOMAIN t : \/ i \in DOMAIN s /\ t[i] = s[i]
                             \/ i > Len(s) /\ i - Len(s) \in DOMAIN m /\ t[i] = m[i - Len(s)]
  <2> HIDE DEF s, m
  <2>0. s \in Seq(Version) /\ m \in Seq(Version)
    BY <1>2, <1>3
  <2>1. Len(m) = n
    BY <1>3, <1>2, LenProperties
  <2>2. /\ DOMAIN s = 1..Len(s) /\ Len(s) \in Nat
        /\ DOMAIN m = 1..Len(m) /\ Len(m) \in Nat
        /\ DOMAIN t = 1..(Len(s) + Len(m))
        /\ \A i \in DOMAIN s : i \in DOMAIN t /\ t[i] = s[i]
        /\ \A i \in DOMAIN m : Len(s) + i \in DOMAIN t /\ t[Len(s) + i] = m[i]
        /\ \A i \in DOMAIN t :
             \/ i \in DOMAIN s /\ t[i] = s[i]
             \/ i > Len(s) /\ i - Len(s) \in DOMAIN m /\ t[i] = m[i - Len(s)]
    BY <2>0, Joined
  <2> QED BY <2>1, <2>2
<1>5. ASSUME NEW k \in 1..n, m[k] \notin again', NEW u \in polled, IdOf[u] = IdOf[m[k]]
      PROVE  u <= m[k]
  <2>1. m[k] \notin polled
    BY <1>1, <1>3, <1>5 DEF InSeq
  <2> QED BY <1>1, <1>2, <1>5, <2>1, PollIsLater
<1>6. again \subseteq again' /\ polled' = polled \cup InSeq(m)
  BY <1>1
<1> HIDE DEF s, m, t
<1>7. InSeq(t) = InSeq(s) \cup InSeq(m)
  <2>1. \A i \in DOMAIN t : t[i] \in InSeq(s) \cup InSeq(m)
    BY <1>4 DEF InSeq
  <2>2. \A i \in DOMAIN s : s[i] \in InSeq(t)
    BY <1>4 DEF InSeq
  <2>3. \A i \in DOMAIN m : m[i] \in InSeq(t)
    <3> TAKE k \in DOMAIN m
    <3>1. Len(s) + k \in DOMAIN t /\ t[Len(s) + k] = m[k]
      BY <1>4
    <3> QED BY <3>1 DEF InSeq
  <2> QED BY <2>1, <2>2, <2>3 DEF InSeq
<1>8. /\ InBatch(Reader) = {} /\ InBatch(Reader)' = {}
      /\ Pipeline(Reader) = InSeq(s) /\ Pipeline(Reader)' = InSeq(t)
      /\ \A v \in Version : There(v)' <=> There(v)
  BY <1>2 DEF InBatch, Pipeline, InSeq, There, s, t
<1>9. OnlyPolled
  BY <1>2 DEF OrderInv
<1>10. InSeq(s) \subseteq Version /\ InSeq(m) \subseteq Version
  BY <1>2, <1>3, ElementsOf
<1>11. OnlyPolled'
  BY <1>6, <1>7, <1>8, <1>9 DEF OnlyPolled
<1>12. LaterThanThere'
  <2> SUFFICES ASSUME NEW v \in InSeq(t), NEW u \in Version, v \notin again', There(u),
                      IdOf[u] = IdOf[v]
               PROVE  u <= v
    BY <1>8 DEF LaterThanThere
  <2>1. CASE v \in InSeq(s)
    BY <1>2, <1>6, <1>8, <2>1 DEF OrderInv, LaterThanThere
  <2>2. CASE v \in InSeq(m)
    <3>1. PICK k \in 1..n : v = m[k]
      BY <1>3, <2>2 DEF InSeq
    <3> QED BY <1>5, <1>9, <3>1 DEF OnlyPolled
  <2> QED BY <1>7, <2>1, <2>2
<1>13. LaterThanBatch'
  BY <1>8 DEF LaterThanBatch
<1>14. ASSUME NEW i \in DOMAIN t, NEW j \in DOMAIN t, i < j, t[j] \notin again',
              IdOf[t[i]] = IdOf[t[j]]
       PROVE  t[i] <= t[j]
  <2>0. i \in Int /\ j \in Int
    BY <1>2, <1>4
  <2>1. CASE j \in DOMAIN s /\ t[j] = s[j]
    <3>1. i \in DOMAIN s /\ t[i] = s[i]
      BY <1>4, <1>14, <2>1
    <3>2. LaterThanNext(s)
      BY <1>2 DEF OrderInv, s
    <3> QED BY <1>6, <1>14, <2>1, <3>1, <3>2 DEF LaterThanNext
  <2>2. CASE j - Len(s) \in DOMAIN m /\ t[j] = m[j - Len(s)]
    <3>1. CASE i \in DOMAIN s /\ t[i] = s[i]
      <4>1. t[i] \in polled
        BY <1>8, <1>9, <1>10, <3>1 DEF OnlyPolled, InSeq
      <4> QED BY <1>3, <1>5, <1>14, <2>2, <4>1
    <3>2. CASE i - Len(s) \in DOMAIN m /\ t[i] = m[i - Len(s)]
      <4> DEFINE a == i - Len(s)
                 b == j - Len(s)
      <4>1. a \in 1..n /\ b \in 1..n /\ a < b
        BY <1>3, <1>4, <1>14, <2>0, <2>2, <3>2
      <4>2. m[a] = log[p][position[p] + a] /\ m[b] = log[p][position[p] + b]
            /\ position[p] + a \in DOMAIN log[p] /\ position[p] + b \in DOMAIN log[p]
        BY <1>3, <4>1
      <4>3. position[p] + a < position[p] + b
        BY <1>3, <4>1
      <4>4. m[a] < m[b]
        BY <4>2, <4>3 DEF TopicInv
      <4>5. m[a] \in Int /\ m[b] \in Int
        BY <1>3, <1>10, <4>1 DEF InSeq, Version
      <4> QED BY <2>2, <3>2, <4>4, <4>5
    <3> QED BY <1>4, <3>1, <3>2
  <2> QED BY <1>4, <2>1, <2>2
<1>15. (LaterThanNext(pending[Reader]))'
  BY <1>14, <1>2 DEF LaterThanNext
<1> QED BY <1>11, <1>12, <1>13, <1>15 DEF OrderInv

LEMMA OrderStep ==
  /\ IngestionTypeOK /\ CallsAndStreams /\ KafkaBasics /\ GapInv /\ PolledInv /\ OrderInv
  /\ [IngestionNext]_ingestionVars
  => OrderInv'
<1> SUFFICES ASSUME IngestionTypeOK, CallsAndStreams, TopicInv, AssignedInv, GapInv, PolledInv,
                    OrderInv, [IngestionNext]_ingestionVars
             PROVE  OrderInv'
  BY DEF KafkaBasics
<1>1. source' = source
  BY DEF IngestionNext, Request, Take, Replace, Add, Answer, Fail, ProduceMessage, AssignFirst,
         Rebalance, PollMessages, AssignFails, Delete, Flush, FlushRequest, FlushFails, Finish, Stop, Close, Kill, Start,
         procVars, ingestionVars
<1> SUFFICES ASSUME source # "api" PROVE OrderInv'
  BY <1>1 DEF OrderInv
<1>2. QuietInv /\ StreamInv /\ Reader \in Callers
  BY IngestionAssumption DEF CallsAndStreams
<1>3. ASSUME NEW c \in Callers, Take(c) \/ Replace(c) \/ Add(c) PROVE OrderInv'
  <2>1. c = Reader
    BY <1>2, <1>3, OneCaller
  <2>2. CASE Replace(Reader)
    <3>1. /\ UNCHANGED <<source, polled, again, pending, batch, disk>>
          /\ live' = Without(live, BatchIds(Reader))
      BY <2>2 DEF Replace, DeleteOld, ghostVars, procVars
    <3>2. \A v \in Version : There(v)' => There(v)
      BY <3>1 DEF There, Without
    <3> QED BY <3>1, <3>2, OrderKept
  <2> QED BY <1>2, <1>3, <2>1, <2>2, OrderTake, OrderAdd
<1>4. CASE PollMessages
  BY <1>4, OrderPoll
<1>5. CASE ProduceMessage \/ AssignFirst \/ Rebalance \/ FlushFails \/ UNCHANGED ingestionVars
  <2>1. UNCHANGED <<source, polled, again, pending, batch, live, disk>>
    BY <1>5
    DEF ProduceMessage, Produce, AssignFirst, Rebalance, FlushFails, docVars, procVars, ghostVars,
        ingestionVars
  <2> QED BY <2>1, OrderKept DEF There
<1>6. CASE Flush \/ FlushRequest \/ Finish \/ Close
  <2>1. UNCHANGED <<source, polled, again, pending, batch, live>> /\ disk' = live
    BY <1>6 DEF Flush, FlushRequest, Finish, Close, CommitAll, Commit, procVars
  <2> QED BY <2>1, OrderKept DEF There
<1>7. CASE Stop \/ Kill \/ AssignFails \/ \E c \in Callers : Fail(c)
  <2>1. Drop /\ UNCHANGED <<source, polled, again, disk>> /\ (live' = live \/ live' = disk)
    BY <1>7 DEF Stop, Kill, AssignFails, Fail, Shut
  <2>2. pending'[Reader] = <<>> /\ batch'[Reader] = <<>>
    BY <1>2, <2>1 DEF Drop
  <2> QED BY <2>1, <2>2, OrderKept DEF There
<1>8. CASE Start
  <2>1. /\ UNCHANGED <<source, polled, live, disk, batch>> /\ phase = "down"
        /\ pending'[Reader] = IF source = "file" THEN WholeFile ELSE <<>>
        /\ again' = IF source = "file" THEN Version ELSE again
    BY <1>2, <1>8 DEF Start, docVars
  <2>2. batch[Reader] = <<>>
    BY <1>2, <2>1 DEF QuietInv
  <2>3. CASE source # "file"
    BY <2>1, <2>2, <2>3, OrderKept DEF There, IngestionTypeOK
  <2>4. CASE source = "file"
    <3>1. /\ InBatch(Reader)' = {} /\ InSeq(pending'[Reader]) \subseteq Version
      BY <2>1, <2>2, <2>4 DEF InBatch, InSeq, WholeFile
    <3>2. Pipeline(Reader)' \subseteq Version
      BY <3>1 DEF Pipeline, InSeq
    <3>3. (LaterThanNext(pending[Reader]))'
      BY <2>1, <2>4 DEF LaterThanNext, WholeFile
    <3> QED BY <1>1, <2>1, <2>4, <3>1, <3>2, <3>3 DEF OrderInv, LaterThanThere, LaterThanBatch
  <2> QED BY <2>3, <2>4
<1>9. ASSUME NEW c \in Callers, Request(c) \/ Answer(c) PROVE FALSE
  BY <1>2, <1>9 DEF Request, Answer, StreamInv
<1>10. ~Delete
  BY DEF Delete
<1> QED
  BY <1>3, <1>4, <1>5, <1>6, <1>7, <1>8, <1>9, <1>10 DEF IngestionNext

\* A stream replaces a document by an older version only if it had that one
\* before: in an earlier poll, or, of a file, in an earlier run.
THEOREM OlderIsRedelivered == IngestionSpec => []OlderNeedsRedelivery
<1> DEFINE Inv == KafkaBasics /\ GapInv /\ PolledInv /\ OrderInv
<1>1. IngestionInit => Inv
  BY KafkaFirst, GapsFirst, OrderFirst
<1>2. IngestionTypeOK /\ CallsAndStreams /\ Inv /\ [IngestionNext]_ingestionVars => Inv'
  BY KafkaBasicsStep, GapStep, PolledStep, OrderStep DEF KafkaBasics
<1>3. IngestionTypeOK /\ Inv => OlderNeedsRedelivery
  <2> SUFFICES ASSUME IngestionTypeOK, OrderInv, source # "api", NEW v \in InBatch(Reader),
                      NEW index \in {live, disk}, NEW u \in Held(index, IdOf[v]), u > v
               PROVE  v \in again
    BY DEF OlderNeedsRedelivery
  <2>1. v \in Version /\ v \in Pipeline(Reader) /\ u \in Version /\ IdOf[u] = IdOf[v]
    BY BatchIsOfIds, IngestionAssumption DEF Pipeline, Held
  <2>2. There(u)
    BY DEF Held, There
  <2>3. v \notin again => u <= v
    BY <2>1, <2>2 DEF OrderInv, LaterThanThere
  <2> QED BY <2>1, <2>3 DEF Version
<1> QED
  BY <1>1, <1>2, <1>3, CallsInvariant, IngestionTypeCorrect, PTL DEF IngestionSpec
=============================================================================
