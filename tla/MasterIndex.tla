---------------------------- MODULE MasterIndex ----------------------------
(***************************************************************************)
(* The indexer process of a distributed index: an IndexWriter over the     *)
(* local directory, the fibers that flush it and publish its commits to    *)
(* the object store, and the process's own starts, stops and failures      *)
(* (MasterIndex.scala, Indexer.scala, ReplicatedIndex.scala, IndexMode,    *)
(* IndexModifyRoute).                                                      *)
(*                                                                         *)
(* A periodic fiber repeats flush() and, when that committed something,    *)
(* sync(); its first failure ends it for good.  Any other fiber serves one *)
(* request at a time, POST _flush or POST _merge, or is the body of an     *)
(* offline run: flush(), for a merge also merge(), then sync() whatever    *)
(* flush() answered.                                                       *)
(***************************************************************************)
EXTENDS FileSync

CONSTANTS
  Periodic,     \* the threads that are periodic fibers, the others serve requests
  MaxStarts,    \* bound: starts of the indexer process
  Faults        \* how the process may stop, out of "shutdown", "kill", "lose"

ASSUME MasterAssumption ==
  /\ Periodic \subseteq Threads
  /\ MaxStarts \in Nat
  /\ Faults \subseteq {"shutdown", "kill", "lose"}

VARIABLES
  writer,     \* the Lucene IndexWriter (external)
  docs,       \* documents 1..docs were accepted by addDocuments
  merging,    \* [Threads -> BOOLEAN], the request still has to merge
  covers,     \* [Threads -> SUBSET Nat], documents held when the request came in
  acked,      \* documents that were held before a flush that answered 200 OK
  starts

masterVars == <<writer, docs, merging, covers, acked, starts>>
vars == <<syncVars, masterVars>>

Flusher == Threads \cup {Indexer}

-----------------------------------------------------------------------------
(* The writer: seq is Lucene's operation counter, which starts again with   *)
(* every IndexWriter and gives each commit its sequence number; gen and     *)
(* segs are the last commit; merged says that the segments of segs were     *)
(* merged and the next commit holds one segment in their place.             *)

Closed == [open |-> FALSE, seq |-> 0, gen |-> 0, segs |-> {}, buffer |-> {}, merged |-> FALSE]

\* Mutant: documents in the buffer are not a reason to flush.
DirtyIgnoresBuffer == writer.merged \/ writer.gen = 0

\* hasUncommittedChanges: a writer on an empty directory has its first,
\* empty commit pending.
Dirty == writer.buffer # {} \/ writer.merged \/ writer.gen = 0

\* The files of the last commit of the local directory.
CommitFiles == {Segments(g) : g \in {writer.gen} \ {0}} \cup {Seg(g) : g \in writer.segs}

\* Documents reach the RAM buffer (Indexer.addDocuments).
AddDocument ==
  /\ pc[Indexer] = "up"
  /\ docs < MaxDocs /\ writer.gen < MaxGen
  /\ docs' = docs + 1
  /\ writer' = [writer EXCEPT !.buffer = @ \cup {docs + 1}, !.seq = @ + 1]
  /\ UNCHANGED <<syncVars, merging, covers, acked, starts>>

\* Lucene's merge scheduler, and forceMerge.
MergeSegments == writer' = [writer EXCEPT !.merged = TRUE]
CanMerge == Cardinality(writer.segs) > 1 /\ writer.gen < MaxGen /\ ~writer.merged

BackgroundMerge ==
  /\ pc[Indexer] = "up" /\ CanMerge
  /\ MergeSegments
  /\ UNCHANGED <<syncVars, docs, merging, covers, acked, starts>>

-----------------------------------------------------------------------------
(* flush() and merge() *)

\* A request ends with 200 OK, the periodic fiber waits for its next tick.
Succeed(a) ==
  /\ Leave(a, "idle")
  /\ acked' = acked \cup covers[a]
  /\ UNCHANGED <<merging, covers>>

\* An error: the periodic stream is dead, a request is answered with 500, a
\* shutdown goes on to close the writer.
Fail(a) ==
  /\ Leave(a, CASE a \in Periodic -> "dead" [] a = Indexer -> "close" [] OTHER -> "idle")
  /\ UNCHANGED <<merging, covers, acked>>

\* What follows a flush() or merge() that answered `committed`.
AfterFlush(a, committed) ==
  /\ Leave(a, CASE a = Indexer -> "close"
                [] a \in Periodic -> IF committed THEN "master" ELSE "idle"
                [] OTHER -> IF merging[a] THEN "merge" ELSE "master")
  /\ UNCHANGED <<merging, covers, acked>>

\* The documents the indexer holds, in its buffer or in its last commit.
OnDisk == UNION {data[Local][Seg(g)].body : g \in writer.segs}
Held == {d \in 1..MaxDocs : d \in writer.buffer \cup OnDisk}

\* The periodic fiber finds something to flush.
Tick(a) ==
  /\ a \in Periodic /\ pc[a] = "idle" /\ Dirty
  /\ Leave(a, "commit")
  /\ UNCHANGED <<data, manifest, masterVars>>

\* POST _flush, or POST _merge.
Request(a) ==
  /\ a \in Threads \ Periodic /\ pc[a] = "idle"
  /\ covers' = [covers EXCEPT ![a] = Held]
  /\ \E m \in BOOLEAN :
       /\ merging' = [merging EXCEPT ![a] = m]
       /\ Leave(a, IF Dirty THEN "commit" ELSE IF m THEN "merge" ELSE "master")
  /\ UNCHANGED <<data, manifest, writer, docs, acked, starts>>

\* writer.forceMerge, as far as it changes what the next commit holds.
ForceMerge(a) ==
  /\ pc[a] = "merge"
  /\ merging' = [merging EXCEPT ![a] = FALSE]
  /\ IF CanMerge THEN MergeSegments ELSE UNCHANGED writer
  /\ Leave(a, "commit")
  /\ UNCHANGED <<data, manifest, docs, covers, acked, starts>>

\* The directory after commit g: one new segment, if there is anything to
\* put in it, a new segments_g, and the files the commit no longer needs
\* deleted at once (KeepOnlyLastCommitDeletionPolicy).
NewBody == writer.buffer \cup
  (IF writer.merged THEN OnDisk ELSE {})
Kept == IF writer.merged THEN {} ELSE writer.segs

NewSegs(g) == Kept \cup (IF NewBody = {} THEN {} ELSE {g})

Committed(g) == [f \in FileName |->
  CASE f = Seg(g) /\ NewBody # {} -> Whole(NewBody)
    [] f = Segments(g) -> Whole(NewSegs(g))
    [] f \in CommitFiles /\ f \notin {Seg(h) : h \in Kept} -> NoBlob
    [] OTHER -> data[Local][f]]

\* writer.commit(): -1 when another fiber has committed meanwhile.
Commit(a) ==
  /\ pc[a] = "commit"
  /\ \/ /\ Dirty
        /\ LET g == writer.gen + 1
           IN /\ data' = [data EXCEPT ![Local] = Committed(g)]
              /\ writer' = [writer EXCEPT !.seq = @ + 1, !.gen = g, !.segs = NewSegs(g),
                                          !.buffer = {}, !.merged = FALSE]
        /\ hand' = [hand EXCEPT ![a] = MakeManifest(NoFiles, writer.seq + 1)]
        /\ pc' = [pc EXCEPT ![a] = "list"]
        /\ UNCHANGED <<ops, outs, merging, covers, acked>>
     \/ /\ ~Dirty
        /\ AfterFlush(a, FALSE)
        /\ UNCHANGED <<data, writer>>
  /\ UNCHANGED <<manifest, docs, starts>>

\* createManifest: the files of the directory's latest commit ...
ListFiles(a) ==
  /\ pc[a] = "list"
  /\ hand' = [hand EXCEPT ![a].files = [f \in FileName |-> IF f \in CommitFiles THEN 1 ELSE 0]]
  /\ pc' = [pc EXCEPT ![a] = "sizes"]
  /\ UNCHANGED <<data, manifest, ops, outs, masterVars>>

\* ... and then the size of each, unless it was deleted by then.
ReadSizes(a) ==
  /\ pc[a] = "sizes"
  /\ \/ /\ \A f \in Listed(hand[a]) : Present(Local, f)
        /\ hand' = [hand EXCEPT ![a].files = [f \in FileName |->
             IF f \in Listed(hand[a]) THEN SizeOf[data[Local][f].body] ELSE 0]]
        /\ pc' = [pc EXCEPT ![a] = "write"]
        /\ UNCHANGED <<ops, outs, merging, covers, acked>>
     \/ /\ \E f \in Listed(hand[a]) : ~Present(Local, f)
        /\ Fail(a)
  /\ UNCHANGED <<data, manifest, writer, docs, starts>>

\* writeManifest: whether index.json is there ...
FindManifest(a) ==
  /\ pc[a] = "write"
  /\ pc' = [pc EXCEPT ![a] = IF manifest[Local].st = "absent" THEN "create" ELSE "replace"]
  /\ UNCHANGED <<data, manifest, hand, ops, outs, masterVars>>

\* ... it is deleted, unless another fiber has deleted it by then; one that
\* has it open goes on writing to the deleted file ...
DeleteManifest(a) ==
  /\ pc[a] = "replace"
  /\ \/ /\ manifest[Local].st # "absent"
        /\ manifest' = [manifest EXCEPT ![Local] = NoManifest]
        /\ outs' = [b \in Actor |-> IF b \in Flusher THEN {} ELSE outs[b]]
        /\ pc' = [pc EXCEPT ![a] = "create"]
        /\ UNCHANGED <<hand, ops, merging, covers, acked>>
     \/ /\ manifest[Local].st = "absent"
        /\ Fail(a)
        /\ UNCHANGED manifest
  /\ UNCHANGED <<data, writer, docs, starts>>

\* ... and created, unless another fiber has created it by then.
CreateManifest(a) ==
  /\ pc[a] = "create"
  /\ \/ /\ manifest[Local].st = "absent"
        /\ manifest' = [manifest EXCEPT ![Local] = TornManifest]
        /\ ops' = [ops EXCEPT ![a] = {Add(MANIFEST_FILE_NAME)}]
        /\ outs' = [outs EXCEPT ![a] = {Add(MANIFEST_FILE_NAME)}]
        /\ pc' = [pc EXCEPT ![a] = "writing"]
        /\ UNCHANGED <<hand, merging, covers, acked>>
     \/ /\ manifest[Local].st # "absent"
        /\ Fail(a)
        /\ UNCHANGED manifest
  /\ UNCHANGED <<data, writer, docs, starts>>

CloseManifest(a) ==
  /\ pc[a] = "writing"
  /\ manifest' = IF outs[a] = {} THEN manifest ELSE [manifest EXCEPT ![Local] = hand[a]]
  /\ AfterFlush(a, TRUE)
  /\ UNCHANGED <<data, writer, docs, starts>>

-----------------------------------------------------------------------------
(* sync(), ReplicatedIndex: local directory to object store *)

ReadMaster(a) ==
  /\ pc[a] = "master"
  /\ \/ /\ manifest[Local].st = "whole"
        /\ hand' = [hand EXCEPT ![a] = manifest[Local]]
        /\ pc' = [pc EXCEPT ![a] = "replica"]
        /\ UNCHANGED <<ops, outs, merging, covers, acked>>
     \/ /\ manifest[Local].st # "whole"
        /\ Fail(a)
  /\ UNCHANGED <<data, manifest, writer, docs, starts>>

\* Mutant: the sequence numbers are not compared.
NewerAlways(source, target) == TRUE

\* Mutant: the comparison is the wrong way round.
NewerReversed(source, target) == target.st = "absent" \/ source.seqnum < target.seqnum

Newer(source, target) == target.st = "absent" \/ source.seqnum > target.seqnum

ReadReplica(a) ==
  /\ pc[a] = "replica"
  /\ LET replica == manifest[Remote]
     IN \/ /\ replica.st # "torn" /\ Newer(hand[a], replica)
           /\ Start(a, "push", hand[a], replica)
           /\ UNCHANGED <<merging, covers, acked>>
        \/ /\ replica.st # "torn" /\ ~Newer(hand[a], replica)
           /\ Succeed(a)
        \/ /\ replica.st = "torn"
           /\ Fail(a)
  /\ UNCHANGED <<data, manifest, writer, docs, starts>>

PushFile(a) == a \in Threads /\ FileStep(a) /\ UNCHANGED masterVars

PushDone(a) ==
  /\ pc[a] = "push" /\ ops[a] = {}
  /\ Succeed(a)
  /\ UNCHANGED <<data, manifest, writer, docs, starts>>

PushFails(a) ==
  /\ pc[a] = "push" /\ FileMissing(a)
  /\ Fail(a)
  /\ UNCHANGED <<data, manifest, writer, docs, starts>>

FlushStep(a) ==
  \/ Commit(a) \/ ListFiles(a) \/ ReadSizes(a)
  \/ FindManifest(a) \/ DeleteManifest(a) \/ CreateManifest(a) \/ CloseManifest(a)

ThreadStep(a) ==
  \/ Tick(a) \/ ForceMerge(a)
  \/ FlushStep(a)
  \/ ReadMaster(a) \/ ReadReplica(a) \/ PushFile(a) \/ PushDone(a) \/ PushFails(a)

-----------------------------------------------------------------------------
(* The process *)

\* Index.forIndexing: the local directory and the object store are brought
\* together before the writer opens.
Boot ==
  /\ pc[Indexer] = "down" /\ starts < MaxStarts
  /\ starts' = starts + 1
  /\ FromRemote(Indexer, "down", "open")
  /\ UNCHANGED <<writer, docs, merging, covers, acked>>

BootStep == pc[Indexer] # "push" /\ FileStep(Indexer) /\ UNCHANGED masterVars

BootDone ==
  /\ pc[Indexer] \in {"bootpull", "bootpush"} /\ ops[Indexer] = {}
  /\ Leave(Indexer, "open")
  /\ UNCHANGED <<data, manifest, masterVars>>

BootFails ==
  /\ FileMissing(Indexer)
  /\ Leave(Indexer, "down")
  /\ UNCHANGED <<data, manifest, masterVars>>

\* new IndexWriter: the segments_N with the highest N is the index, its
\* segments must be there, and every other index file is deleted.
Generations == {g \in Gen : Present(Local, Segments(g))}
LastGen == CHOOSE g \in Generations : \A h \in Generations : h <= g
LastSegs == data[Local][Segments(LastGen)].body
Readable == /\ data[Local][Segments(LastGen)].st = "whole"
            /\ \A g \in LastSegs : data[Local][Seg(g)].st = "whole"

OpenWriter ==
  /\ pc[Indexer] = "open"
  /\ \/ /\ Generations = {}
        /\ writer' = [Closed EXCEPT !.open = TRUE]
        /\ pc' = [a \in Actor |-> CASE a = Indexer -> "up" [] a \in Threads -> "idle" [] OTHER -> pc[a]]
        /\ UNCHANGED <<data, hand, ops, outs>>
     \/ /\ Generations # {} /\ Readable
        /\ writer' = [Closed EXCEPT !.open = TRUE, !.gen = LastGen, !.segs = LastSegs]
        /\ data' = [data EXCEPT ![Local] = [f \in FileName |->
             IF f = Segments(LastGen) \/ f \in {Seg(g) : g \in LastSegs} THEN @[f] ELSE NoBlob]]
        /\ pc' = [a \in Actor |-> CASE a = Indexer -> "up" [] a \in Threads -> "idle" [] OTHER -> pc[a]]
        /\ UNCHANGED <<hand, ops, outs>>
     \/ /\ Generations # {} /\ ~Readable
        /\ Leave(Indexer, "down")
        /\ UNCHANGED <<data, writer>>
  /\ UNCHANGED <<manifest, docs, merging, covers, acked, starts>>

\* The fibers of the process end where they are.
Interrupt(next) ==
  /\ pc' = [a \in Actor |-> CASE a = Indexer -> next [] a \in Threads -> "off" [] OTHER -> pc[a]]
  /\ hand' = [a \in Actor |-> IF a \in Flusher THEN NoManifest ELSE hand[a]]
  /\ ops' = [a \in Actor |-> IF a \in Flusher THEN {} ELSE ops[a]]
  /\ outs' = [a \in Actor |-> IF a \in Flusher THEN {} ELSE outs[a]]
  /\ merging' = [a \in Threads |-> FALSE]
  /\ covers' = [a \in Threads |-> {}]

\* SIGTERM: the fibers are cancelled, then Indexer's resource flushes, and
\* does not synchronize.
Shutdown ==
  /\ "shutdown" \in Faults /\ pc[Indexer] = "up"
  /\ Interrupt(IF Dirty THEN "commit" ELSE "close")
  /\ UNCHANGED <<data, manifest, writer, docs, acked, starts>>

CloseWriter ==
  /\ pc[Indexer] = "close"
  /\ Leave(Indexer, "down")
  /\ writer' = Closed
  /\ UNCHANGED <<data, manifest, docs, merging, covers, acked, starts>>

\* The process dies: what was buffered is lost, the directory stays.
Kill ==
  /\ "kill" \in Faults /\ pc[Indexer] # "down"
  /\ Interrupt("down")
  /\ writer' = Closed
  /\ UNCHANGED <<data, manifest, docs, acked, starts>>

\* The pod is lost with its disk.
LosePod ==
  /\ "lose" \in Faults /\ pc[Indexer] # "down"
  /\ Interrupt("down")
  /\ writer' = Closed
  /\ data' = [data EXCEPT ![Local] = [f \in FileName |-> NoBlob]]
  /\ manifest' = [manifest EXCEPT ![Local] = NoManifest]
  /\ UNCHANGED <<docs, acked, starts>>

ProcessStep == Boot \/ BootStep \/ BootDone \/ BootFails \/ OpenWriter \/ FlushStep(Indexer) \/ CloseWriter
Fault == Shutdown \/ Kill \/ LosePod

-----------------------------------------------------------------------------
MasterInit ==
  /\ writer = Closed
  /\ docs = 0
  /\ merging = [a \in Threads |-> FALSE]
  /\ covers = [a \in Threads |-> {}]
  /\ acked = {}
  /\ starts = 0

Init ==
  /\ SyncInit /\ MasterInit
  /\ pc = [a \in Actor |-> IF a \in Threads THEN "off" ELSE "down"]

Next ==
  \/ AddDocument \/ BackgroundMerge
  \/ \E a \in Threads : ThreadStep(a) \/ Request(a)
  \/ ProcessStep
  \/ Fault

Spec == Init /\ [][Next]_vars

\* Fibers and the process's own start make progress; documents, requests and
\* failures may or may not come.
Fairness == WF_vars(ProcessStep) /\ \A a \in Threads : WF_vars(ThreadStep(a))
FairSpec == Spec /\ Fairness
-----------------------------------------------------------------------------
(* Properties *)

\* Every variable of the indexer has the shape the code gives it.
TypeOK ==
  /\ SyncTypeOK
  /\ writer \in [open : BOOLEAN, seq : Nat, gen : 0..MaxGen, segs : SUBSET Gen,
                 buffer : SUBSET (1..MaxDocs), merged : BOOLEAN]
  /\ docs \in 0..MaxDocs /\ acked \subseteq 1..MaxDocs /\ starts \in 0..MaxStarts
  /\ merging \in [Threads -> BOOLEAN] /\ covers \in [Threads -> SUBSET (1..MaxDocs)]

\* No synchronization is writing to the object store.
RemoteAtRest == \A a \in Actor : pc[a] \notin Pushing

\* Between synchronizations the object store holds exactly the files its
\* index.json lists, each whole and of the listed size: nothing of an older
\* commit is left and nothing is missing (ReplicatedIndex.sync).
RemoteIsSnapshot ==
  RemoteAtRest =>
    /\ IsSnapshot(Remote)
    /\ \A f \in FileName : Present(Remote, f) => f \in Listed(manifest[Remote])

\* index.json in the object store is replaced only by one of a later commit,
\* through every restart of the indexer (sync and fromRemote).
RemoteSeqnumGrows == [][manifest'[Remote].seqnum >= manifest[Remote].seqnum]_vars

\* When POST _flush has answered 200 OK, the documents the indexer held when
\* it came in are in the last commit on its disk, whichever fiber made it.
FlushedIsCommitted == pc[Indexer] = "up" => acked \subseteq OnDisk

\* A document once acknowledged is kept: as long as the indexer runs, it is
\* in the object store or in the last commit on the indexer's disk, through
\* every orderly restart (fromRemote, sync).
FlushedIsKept ==
  pc[Indexer] = "up" /\ RemoteAtRest => acked \subseteq Published(Remote) \cup OnDisk

\* Every accepted document can at some time be read from the object store:
\* the periodic fiber commits and publishes it.
AcceptedIsPublished == \A d \in 1..MaxDocs : docs >= d ~> d \in Published(Remote)

\* The generation of the commit that the object store's index.json describes.
PublishedGen == LET gens == {g \in Gen : manifest[Remote].files[Segments(g)] # 0}
                IN IF gens = {} THEN 0 ELSE CHOOSE g \in gens : \A h \in gens : h <= g

\* The indexer is a feed of snapshots: the object store moves to the newest
\* commit and to no other.
Feed == INSTANCE SnapshotFeed WITH committed <- writer.gen, published <- PublishedGen
FeedSpec == Feed!Spec
=============================================================================
