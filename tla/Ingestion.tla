----------------------------- MODULE Ingestion ------------------------------
(***************************************************************************)
(* The indexer process (IndexMode.scala): documents arrive in requests of  *)
(* the REST API, from a file or from Kafka, are cut into batches and added *)
(* to the writer, while a periodic stream flushes it.  The process may be  *)
(* stopped or killed and started again.                                    *)
(***************************************************************************)
EXTENDS Documents, KafkaSource

CONSTANTS
  Reader,        \* the caller that runs the stream of a file or of Kafka
  RequestChunk,  \* chunkN of IndexModifyRoute (64 in the code)
  StreamChunk,   \* chunkN of runOffline (1024 in the code)
  MaxFaults      \* bound: stops, kills, failures, rebalances, deletes

ASSUME IngestionAssumption ==
  /\ Reader \in Callers
  /\ RequestChunk \in Nat \ {0} /\ StreamChunk \in Nat \ {0}
  /\ MaxFaults \in Nat

VARIABLES
  source,     \* where documents come from: "api", "file" or "kafka"
  phase,      \* of the process
  flushing,   \* the stream that flushes it periodically has not ended
  pending,    \* [Callers -> Seq(Version)], decoded and not in a batch yet
  asked       \* [Callers -> Seq(Version)], the request in progress

\* What happened so far, which the program does not keep.
VARIABLES
  acked,      \* versions in requests that were answered
  durable,    \* those that were when the last commit was made
  gone,       \* ids whose documents were deleted and not added again
  goneDisk,   \* those that were, or were about to be added, at the last commit
  raced,      \* ids that were twice in a batch, or in two overlapping calls
  polled,     \* versions a poll returned
  again,      \* versions the stream had before, in an earlier poll or run
  lost,       \* those that were dropped, and those the group skipped
  faults      \* how many stops, kills, failures, rebalances and deletes

procVars == <<source, phase, flushing, pending, asked>>
ghostVars == <<acked, durable, gone, goneDisk, raced, polled, again, lost, faults>>
ingestionVars == <<docVars, kafkaVars, procVars, ghostVars>>

InSeq(s) == {s[i] : i \in DOMAIN s}

\* What a caller still has to add.
Pipeline(c) == InSeq(pending[c]) \cup InBatch(c)

\* The index holds this version of the document or one that replaces it.
HoldsFrom(index, v) == \E w \in Held(index, IdOf[v]) : w >= v

IngestionTypeOK ==
  /\ DocumentsTypeOK /\ KafkaTypeOK
  /\ source \in {"api", "file", "kafka"}
  /\ phase \in {"up", "closing", "down", "done"} /\ flushing \in BOOLEAN
  /\ pending \in [Callers -> Seq(Version)] /\ asked \in [Callers -> Seq(Version)]
  /\ acked \subseteq Version /\ durable \subseteq acked
  /\ gone \subseteq Ids /\ goneDisk \subseteq Ids /\ raced \subseteq Ids
  /\ polled \subseteq Version /\ again \subseteq Version /\ lost \subseteq Version
  /\ faults \in 0..MaxFaults

WholeFile == [v \in Version |-> v]

IngestionInit ==
  /\ DocumentsInit /\ KafkaInit
  /\ source \in {"api", "file", "kafka"}
  /\ source # "kafka" => offset = "none"
  /\ produced = IF source = "file" THEN LastVersion ELSE 0
  /\ phase = "up" /\ flushing = TRUE
  /\ pending = [c \in Callers |->
                  IF source = "file" /\ c = Reader THEN WholeFile ELSE <<>>]
  /\ asked = [c \in Callers |-> <<>>]
  /\ acked = {} /\ durable = {} /\ gone = {} /\ goneDisk = {} /\ raced = {}
  /\ polled = {} /\ again = {} /\ lost = {} /\ faults = 0

Fault == faults < MaxFaults /\ faults' = faults + 1

-----------------------------------------------------------------------------
(* Documents arrive *)

\* PUT /_index with one or two documents.
Request(c) ==
  /\ source = "api" /\ phase = "up" /\ asked[c] = <<>>
  /\ \E n \in 1..2 :
       /\ produced + n <= LastVersion
       /\ produced' = produced + n
       /\ asked' = [asked EXCEPT ![c] = [i \in 1..n |-> produced + i]]
       /\ pending' = [pending EXCEPT ![c] = asked'[c]]
  /\ UNCHANGED <<docVars, offset, log, position, committed, source, phase, flushing,
                 ghostVars>>

\* The topic grows, whoever runs.
ProduceMessage ==
  /\ source = "kafka"
  /\ Produce
  /\ UNCHANGED <<docVars, procVars, ghostVars>>

\* The messages an assignment leaves behind the consumer that were never
\* polled: none, if it goes on where the group's own offset says.
Skipped(p) ==
  IF offset = "none" /\ committed'[p] # None THEN {}
  ELSE {log[p][i] : i \in 1..position'[p]} \ polled

AssignFirst ==
  /\ source = "kafka" /\ phase = "up"
  /\ \A p \in Partitions : position[p] = None
  /\ Assign(FALSE)
  /\ lost' = lost \cup UNION {Skipped(p) : p \in Partitions}
  /\ UNCHANGED <<docVars, procVars, acked, durable, gone, goneDisk, raced,
                 polled, again, faults>>

\* The stream polls when it needs more documents for a batch.
Polling ==
  /\ source = "kafka" /\ phase = "up"
  /\ \A p \in Partitions : position[p] # None
  /\ step[Reader] = "idle" /\ Len(pending[Reader]) < StreamChunk

Rebalance ==
  /\ Polling /\ Fault
  /\ \E kicked \in BOOLEAN : Assign(kicked)
  /\ lost' = lost \cup UNION {Skipped(p) : p \in Partitions}
  /\ UNCHANGED <<docVars, procVars, acked, durable, gone, goneDisk, raced,
                 polled, again>>

PollMessages ==
  /\ Polling
  /\ \E p \in Partitions, n \in 0..2, auto, arrives \in BOOLEAN :
       /\ n = 0 => auto /\ arrives
       /\ Poll(p, n, auto, arrives)
       /\ LET messages == Polled(p, n)
          IN  /\ pending' = [pending EXCEPT ![Reader] = @ \o messages]
              /\ again' = again \cup (InSeq(messages) \cap polled)
              /\ polled' = polled \cup InSeq(messages)
              /\ lost' = lost \ InSeq(messages)
  /\ UNCHANGED <<docVars, source, phase, flushing, asked, acked, durable, gone,
                 goneDisk, raced, faults>>

-----------------------------------------------------------------------------
(* Documents are added *)

\* How many documents chunkN emits next: a full chunk, or what is left at the
\* end of a stream.  The stream of Kafka does not end.
NextChunk(c) ==
  LET size == IF source = "api" THEN RequestChunk ELSE StreamChunk
      left == Len(pending[c])
  IN  IF left >= size THEN size ELSE IF source = "kafka" THEN 0 ELSE left

\* Mutant: a batch is what was decoded last.
TakeLast(c) ==
  /\ phase = "up" /\ NextChunk(c) > 0
  /\ AddDocuments(c, SubSeq(pending[c], Len(pending[c]) - NextChunk(c) + 1, Len(pending[c])))
  /\ pending' = [pending EXCEPT ![c] = SubSeq(@, 1, Len(@) - NextChunk(c))]
  /\ UNCHANGED <<kafkaVars, source, phase, flushing, asked, ghostVars>>

Take(c) ==
  /\ phase = "up" /\ NextChunk(c) > 0
  /\ AddDocuments(c, SubSeq(pending[c], 1, NextChunk(c)))
  /\ pending' = [pending EXCEPT ![c] = SubSeq(@, NextChunk(c) + 1, Len(@))]
  /\ UNCHANGED <<kafkaVars, source, phase, flushing, asked, ghostVars>>

Replace(c) ==
  /\ phase = "up" /\ DeleteOld(c)
  /\ UNCHANGED <<kafkaVars, procVars, ghostVars>>

\* An id of the batch is in it twice, or another call is about to add it too.
Races(c, id) ==
  \/ \E i, j \in DOMAIN batch[c] : i # j /\ IdOf[batch[c][i]] = id /\ IdOf[batch[c][j]] = id
  \/ \E d \in Callers \ {c} : InGap(d) /\ id \in BatchIds(d)

Add(c) ==
  /\ phase = "up" /\ AddNew(c)
  /\ raced' = raced \cup {id \in BatchIds(c) : Races(c, id)}
  /\ gone' = gone \ BatchIds(c)
  /\ UNCHANGED <<kafkaVars, procVars, acked, durable, goneDisk, polled, again,
                 lost, faults>>

\* Mutant: a request is answered when its last batch is made.
AnswerEarly(c) ==
  /\ phase = "up" /\ asked[c] # <<>>
  /\ pending[c] = <<>>
  /\ acked' = acked \cup InSeq(asked[c])
  /\ asked' = [asked EXCEPT ![c] = <<>>]
  /\ UNCHANGED <<docVars, kafkaVars, source, phase, flushing, pending, durable, gone,
                 goneDisk, raced, polled, again, lost, faults>>

Answer(c) ==
  /\ phase = "up" /\ asked[c] # <<>>
  /\ pending[c] = <<>> /\ step[c] = "idle"
  /\ acked' = acked \cup InSeq(asked[c])
  /\ asked' = [asked EXCEPT ![c] = <<>>]
  /\ UNCHANGED <<docVars, kafkaVars, source, phase, flushing, pending, durable, gone,
                 goneDisk, raced, polled, again, lost, faults>>

\* What is in the pipelines is dropped.
Drop ==
  /\ pending' = [c \in Callers |-> <<>>] /\ asked' = pending'
  /\ batch' = pending' /\ step' = [c \in Callers |-> "idle"]

\* The finalizers of a stream that has failed or is interrupted, of which
\* Kafka's closes the consumer; the periodic stream is cancelled.
Shut ==
  /\ phase' = "closing" /\ flushing' = FALSE
  /\ Drop
  /\ IF source = "kafka" THEN CloseConsumer ELSE UNCHANGED kafkaVars

\* What a failed call deleted without adding anything.
Deleted(c) == IF InGap(c) THEN BatchIds(c) ELSE {}

\* A document cannot be decoded, embedded or added.  A request is answered with
\* 500, and the batches before stay; a stream ends with the process.
Fail(c) ==
  /\ phase = "up" /\ Pipeline(c) # {} /\ Fault
  /\ IF source = "api"
     THEN /\ IF step[c] = "idle" THEN UNCHANGED docVars ELSE AddFails(c)
          /\ pending' = [pending EXCEPT ![c] = <<>>]
          /\ asked' = [asked EXCEPT ![c] = <<>>]
          /\ UNCHANGED <<phase, flushing, kafkaVars>>
     ELSE Shut /\ UNCHANGED <<live, disk>>
  /\ gone' = gone \cup Deleted(c)
  /\ lost' = IF source # "kafka" THEN lost
             ELSE lost \cup Pipeline(c) \cup {v \in polled : IdOf[v] \in Deleted(c)}
  /\ UNCHANGED <<source, acked, durable, goneDisk, raced, polled, again>>

\* The listener's exception ends the stream, at the first assignment or after a
\* rebalance.
AssignFails ==
  /\ source = "kafka" /\ phase = "up" /\ Fault
  /\ Polling \/ \A p \in Partitions : position[p] = None
  /\ \E kicked \in BOOLEAN : AssignmentFails(kicked)
  /\ phase' = "closing" /\ flushing' = FALSE
  /\ Drop
  /\ lost' = lost \cup Pipeline(Reader)
  /\ UNCHANGED <<live, disk, source, acked, durable, gone, goneDisk, raced, polled,
                 again>>

\* DELETE /_delete/docid, or POST /_delete.
Delete ==
  /\ source = "api" /\ phase = "up" /\ Fault
  /\ \E ids \in {Ids} \cup {{id} : id \in Ids} :
       /\ DeleteDocuments(ids)
       /\ gone' = gone \cup ids
  /\ UNCHANGED <<kafkaVars, procVars, acked, durable, goneDisk, raced, polled,
                 again, lost>>

-----------------------------------------------------------------------------
(* The index is committed *)

CommitAll ==
  /\ Commit
  /\ durable' = acked
  /\ goneDisk' = gone \cup UNION {Deleted(c) : c \in Callers}
  /\ UNCHANGED <<kafkaVars, acked, gone, raced, polled, again, lost>>

\* Mutant: what is committed once is not committed again.
FlushOnce ==
  /\ flushing /\ phase = "up" /\ \A v \in Version : disk[v] = 0
  /\ disk # live
  /\ CommitAll
  /\ UNCHANGED <<procVars, faults>>

\* The periodic flush.
Flush ==
  /\ flushing /\ phase = "up" /\ disk # live
  /\ CommitAll
  /\ UNCHANGED <<procVars, faults>>

\* POST /_flush, of an indexer with the REST API.
FlushRequest ==
  /\ source = "api" /\ phase = "up" /\ disk # live
  /\ CommitAll
  /\ UNCHANGED <<procVars, faults>>

\* A periodic flush, or the sync after it, fails: the stream ends, nobody looks
\* at its fiber, and the process goes on without it.
FlushFails ==
  /\ flushing /\ phase = "up" /\ Fault
  /\ flushing' = FALSE
  /\ UNCHANGED <<docVars, kafkaVars, source, phase, pending, asked, acked, durable,
                 gone, goneDisk, raced, polled, again, lost>>

\* Mutant: the last documents are left to the periodic flush.
FinishUncommitted ==
  /\ source = "file" /\ phase = "up" /\ Pipeline(Reader) = {}
  /\ phase' = "done" /\ flushing' = FALSE
  /\ UNCHANGED <<docVars, kafkaVars, source, pending, asked, ghostVars>>

\* The end of runOffline, after the last document of a file: the merge and the
\* sync that follow leave the documents as they are.
Finish ==
  /\ source = "file" /\ phase = "up" /\ Pipeline(Reader) = {}
  /\ CommitAll
  /\ phase' = "done" /\ flushing' = FALSE
  /\ UNCHANGED <<source, pending, asked, faults>>

-----------------------------------------------------------------------------
(* The process stops and starts *)

\* A signal cancels the fibers, none of them between the two calls of a writer.
Stop ==
  /\ phase = "up" /\ Fault
  /\ \A c \in Callers : ~InGap(c)
  /\ Shut
  /\ lost' = IF source = "kafka" THEN lost \cup Pipeline(Reader) ELSE lost
  /\ UNCHANGED <<live, disk, source, acked, durable, gone, goneDisk, raced, polled, again>>

\* Indexer.open's release, before the writer is closed.
Close ==
  /\ phase = "closing"
  /\ CommitAll
  /\ phase' = "down"
  /\ UNCHANGED <<source, flushing, pending, asked, faults>>

Kill ==
  /\ phase \in {"up", "closing"} /\ Fault
  /\ phase' = "down" /\ flushing' = FALSE
  /\ live' = disk
  /\ Drop
  /\ LoseConsumer
  /\ acked' = durable /\ gone' = goneDisk
  /\ lost' = IF source = "kafka" THEN lost \cup {v \in polled : ~HoldsFrom(disk, v)}
             ELSE lost
  /\ UNCHANGED <<disk, source, durable, goneDisk, raced, polled, again>>

\* A file is read from its beginning.
Start ==
  /\ phase = "down"
  /\ phase' = "up" /\ flushing' = TRUE
  /\ pending' = [c \in Callers |->
                   IF source = "file" /\ c = Reader THEN WholeFile ELSE <<>>]
  /\ again' = IF source = "file" THEN Version ELSE again
  /\ UNCHANGED <<docVars, kafkaVars, source, asked, acked, durable, gone, goneDisk,
                 raced, polled, lost, faults>>

IngestionNext ==
  \/ \E c \in Callers : Request(c) \/ Take(c) \/ Replace(c) \/ Add(c) \/ Answer(c)
                        \/ Fail(c)
  \/ ProduceMessage \/ AssignFirst \/ Rebalance \/ PollMessages \/ AssignFails
  \/ Delete \/ Flush \/ FlushRequest \/ FlushFails \/ Finish \/ Stop \/ Close \/ Kill \/ Start

\* The stream adds what it has decoded and polls what there is, and the periodic
\* flush comes again until one fails.  Nothing is assumed of requests or of how a process ends.
IngestionFairness ==
  /\ WF_ingestionVars(Take(Reader) \/ Replace(Reader) \/ Add(Reader))
  /\ WF_ingestionVars(PollMessages)
  /\ WF_ingestionVars(Flush)

IngestionSpec == IngestionInit /\ [][IngestionNext]_ingestionVars /\ IngestionFairness

-----------------------------------------------------------------------------
\* An id is in the index twice only if a batch had it twice, or two calls that
\* had it were between their deletes and their adds at once: addDocuments
\* deletes what was there before (Indexer.scala:97-99).
TwoVersionsNeedARace ==
  \A id \in Ids : Doubled(live, id) \/ Doubled(disk, id) => id \in raced

\* A document whose request was answered is in the index, and in the commit
\* if one was made since then.  The exceptions: a delete, a later batch that
\* failed after its delete, and one that is between its delete and its add, in
\* the writer now or in the commit when it was made.
AckedIsHeld ==
  /\ \A v \in acked :
       \/ Held(live, IdOf[v]) # {} \/ IdOf[v] \in gone
       \/ \E c \in Callers : IdOf[v] \in Deleted(c)
  /\ \A v \in durable : Held(disk, IdOf[v]) # {} \/ IdOf[v] \in goneDisk

\* The consumer is past a message only if the index has it or a later version,
\* or it is on its way; unless it was dropped by a failure, a stop or a kill,
\* or skipped by an assignment that does not go on from the group's offset:
\* that of a group without one, and every one with offset=latest, ts= or last=.
\* Whatever is polled twice, rebalanced or restarted skips nothing else.
PassedIsHeld ==
  source = "kafka" =>
    \A p \in Partitions : \A v \in Passed(p) :
      \/ HoldsFrom(live, v)
      \/ \E w \in Pipeline(Reader) : IdOf[w] = IdOf[v] /\ w >= v
      \/ v \in lost

\* A batch of a stream replaces a document by an older version only if the
\* stream had that version before: batches keep the order of the source.
OlderNeedsRedelivery ==
  source # "api" =>
    \A v \in InBatch(Reader), index \in {live, disk} :
      \A u \in Held(index, IdOf[v]) : u > v => v \in again

\* An indexer of a file that has finished has the last version of every
\* document in its commit, even if it was killed and started again before.
DoneHoldsFile ==
  source = "file" /\ phase = "done" =>
    \A v \in Version : HoldsFrom(disk, v)

\* What is in a full batch of a stream reaches a commit, itself or replaced by
\* a later version, unless the process stops or a periodic flush has failed,
\* after which none comes until the end of the process.  An incomplete batch of Kafka's
\* waits for more messages, however long that takes (IndexMode.scala:81): a
\* version that was replaced by an older one, delivered again, may wait there.
BatchIsCommitted ==
  \A v \in Version :
    (/\ source # "api"
     /\ \/ v \in InBatch(Reader)
        \/ v \in InSeq(SubSeq(pending[Reader], 1, NextChunk(Reader))))
    ~> \/ HoldsFrom(disk, v)
       \/ phase # "up" \/ ~flushing
       \/ v \in InSeq(pending[Reader]) /\ NextChunk(Reader) = 0
=============================================================================
