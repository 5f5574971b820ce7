---------------------------- MODULE KafkaSource -----------------------------
(***************************************************************************)
(* The consumer of KafkaSource.scala and the group coordinator it commits  *)
(* to.  The topic is a log that only grows; a message is the version of a  *)
(* document, and all versions of an id are in one partition.               *)
(*                                                                         *)
(* Offsets count messages: an offset is the number of messages before it.  *)
(***************************************************************************)
EXTENDS Versions, Integers, Sequences, FiniteSets

CONSTANTS
  Partitions,   \* of the topic
  PartOf,       \* the partition of an id
  Since         \* the first version that is not older than the time of the
                \* ts= and last= options

ASSUME KafkaAssumption ==
  /\ PartOf \in [Ids -> Partitions]
  /\ Since \in Nat

\* CliConfig's source offset: none, latest, earliest, ts= and last=.
SourceOffset == {"none", "latest", "earliest", "since"}

None == -1

VARIABLES
  offset,     \* the option the indexer was started with
  produced,   \* versions 1..produced exist
  log,        \* [Partitions -> Seq(Version)], the topic
  position,   \* [Partitions -> offset, or None], the consumer's, None when the
              \* partition is not assigned to it
  committed   \* [Partitions -> offset, or None], the group's

kafkaVars == <<offset, produced, log, position, committed>>

EndOffset(p) == Len(log[p])

\* The messages of a partition the consumer is past.
Passed(p) == {log[p][i] : i \in 1..position[p]}

KafkaTypeOK ==
  /\ offset \in SourceOffset
  /\ produced \in 0..LastVersion
  /\ log \in [Partitions -> Seq(Version)]
  /\ \A at \in {position, committed} :
       /\ at \in [Partitions -> Nat \cup {None}]
       /\ \A p \in Partitions : at[p] <= EndOffset(p)

KafkaInit ==
  /\ offset \in SourceOffset
  /\ produced \in 0..LastVersion
  /\ log = [p \in Partitions |-> <<>>]
  /\ position = [p \in Partitions |-> None]
  /\ committed = position

-----------------------------------------------------------------------------
Produce ==
  /\ produced < LastVersion
  /\ produced' = produced + 1
  /\ log' = [log EXCEPT ![PartOf[IdOf[produced']]] = Append(@, produced')]
  /\ UNCHANGED <<offset, position, committed>>

\* Mutant: a group that has an offset starts at the end, too.
SeekToEnd(p, groupOffset) ==
  CASE offset = "earliest" -> 0
    [] offset = "since"    ->
         Cardinality({i \in DOMAIN log[p] : log[p][i] < Since})
    [] OTHER -> EndOffset(p)

\* Where onPartitionsAssigned leaves the consumer.  A group without an offset
\* starts at the end, which is the client's default.
SeekTo(p, groupOffset) ==
  CASE offset = "earliest" -> 0
    [] offset = "latest"   -> EndOffset(p)
    [] offset = "since"    ->
         Cardinality({i \in DOMAIN log[p] : log[p][i] < Since})
    [] OTHER -> IF groupOffset = None THEN EndOffset(p) ELSE groupOffset

\* offsetsForTimes has no entry for a partition without a later message: the
\* listener fails with a NullPointerException.
SeekFails == offset = "since" /\ \E p \in Partitions : SeekTo(p, None) = EndOffset(p)

\* The position, where there is one, is what an automatic commit sends.
AutoCommitted ==
  [p \in Partitions |-> IF position[p] = None THEN committed[p] ELSE position[p]]

\* A poll in which the group assigns all partitions to the consumer: the first
\* one, or after a rebalance, which commits the positions before it unless the
\* consumer was lost to the group ("kicked").
Assign(kicked) ==
  /\ ~SeekFails
  /\ committed' = IF kicked THEN committed ELSE AutoCommitted
  /\ position' = [p \in Partitions |-> SeekTo(p, committed'[p])]
  /\ UNCHANGED <<offset, produced, log>>

\* The listener's exception ends the poll after the positions are gone.
AssignmentFails(kicked) ==
  /\ SeekFails
  /\ committed' = IF kicked THEN committed ELSE AutoCommitted
  /\ position' = [p \in Partitions |-> None]
  /\ UNCHANGED <<offset, produced, log>>

\* Messages a poll may return: some of one partition.
Polled(p, n) == SubSeq(log[p], position[p] + 1, position[p] + n)

\* Mutant: the offset that is committed is two too high.
PollCommitsBeyond(p, n, auto, arrives) ==
  /\ position[p] # None
  /\ position[p] + n <= EndOffset(p)
  /\ position' = [position EXCEPT ![p] = @ + n]
  /\ LET before == IF auto THEN AutoCommitted ELSE committed
     IN  committed' = IF n > 0 /\ arrives
                      THEN [before EXCEPT ![p] = position[p] + n + 1]
                      ELSE before
  /\ UNCHANGED <<offset, produced, log>>

\* poll2 and then commit: of the last message, not of the one after it.  The
\* client may commit the positions first, when its interval has passed ("auto"),
\* and the commit sent without waiting may not arrive.
Poll(p, n, auto, arrives) ==
  /\ position[p] # None
  /\ position[p] + n <= EndOffset(p)
  /\ position' = [position EXCEPT ![p] = @ + n]
  /\ LET before == IF auto THEN AutoCommitted ELSE committed
     IN  committed' = IF n > 0 /\ arrives
                      THEN [before EXCEPT ![p] = position[p] + n - 1]
                      ELSE before
  /\ UNCHANGED <<offset, produced, log>>

\* Consumer.close() commits the positions a last time.
CloseConsumer ==
  /\ committed' = AutoCommitted
  /\ position' = [p \in Partitions |-> None]
  /\ UNCHANGED <<offset, produced, log>>

\* The process is killed.
LoseConsumer ==
  /\ position' = [p \in Partitions |-> None]
  /\ UNCHANGED <<offset, produced, log, committed>>
=============================================================================
