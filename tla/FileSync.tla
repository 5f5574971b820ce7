------------------------------ MODULE FileSync ------------------------------
(***************************************************************************)
(* Directories, and the copying of one onto another file by file: what     *)
(* StateClient, LocalDirectory.fromRemote, ReplicatedIndex.sync and        *)
(* SlaveIndex.sync have in common.                                         *)
(*                                                                         *)
(* Local is the indexer's Lucene directory, Remote the object store (S3),  *)
(* and every searcher has a directory of its own.  A store holds segment   *)
(* files (data) and index.json (manifest).  An actor is a fiber that runs  *)
(* at most one synchronization at a time: pc[a] says which one,            *)
(* ops[a] are the operations of the manifest diff still to be done,        *)
(* outs[a] those whose output file is being replaced: it is absent as long *)
(* as it was deleted and not created, and torn as long as it is open.      *)
(***************************************************************************)
EXTENDS IndexManifest

CONSTANTS
  Threads,      \* fibers of the indexer process that flush and synchronize
  Slaves,       \* searcher processes, each with its directory
  MaxParallel   \* the operations a searcher's synchronization runs at a time

Local == "local"
Remote == "remote"
Indexer == "indexer"      \* the indexer process itself: its start and its stop

ASSUME ActorsAssumption ==
  /\ Threads \cap Slaves = {}
  /\ {Local, Remote, Indexer} \cap (Threads \cup Slaves) = {}

ASSUME ParallelAssumption == MaxParallel \in Nat \ {0}

Store == {Local, Remote} \cup Slaves
Actor == Threads \cup {Indexer} \cup Slaves
Home(a) == IF a \in Slaves THEN a ELSE Local

VARIABLES
  data,       \* [Store -> [FileName -> Blob]]
  manifest,   \* [Store -> Manifest], index.json of each store
  pc,         \* [Actor -> STRING]
  hand,       \* [Actor -> Manifest], the manifest an actor last built or read
  ops,        \* [Actor -> SUBSET ChangedFileOp]
  outs        \* [Actor -> SUBSET ops], those that are writing to a directory

syncVars == <<data, manifest, pc, hand, ops, outs>>

-----------------------------------------------------------------------------
(* The content of a segment is the set of documents in it; the content of   *)
(* segments_g is the set of segments of commit g.                           *)

Blob == [st : {"absent", "torn", "whole"}, body : Body]
NoBlob == [st |-> "absent", body |-> {}]
TornBlob == [st |-> "torn", body |-> {}]
Whole(b) == [st |-> "whole", body |-> b]
Present(s, f) == data[s][f].st # "absent"

\* What a store's index.json lists, as far as it is readable there.
Published(s) ==
  UNION {data[s][Seg(g)].body : g \in {h \in Gen : manifest[s].files[Seg(h)] # 0}}

\* A store is a whole copy of the commit its index.json describes.
IsSnapshot(s) ==
  \A f \in Listed(manifest[s]) :
    data[s][f].st = "whole" /\ SizeOf[data[s][f].body] = manifest[s].files[f]

-----------------------------------------------------------------------------
(* Where a synchronization reads and where it writes.  SlaveIndex.sync runs *)
(* MaxParallel operations at a time, every other one is sequential.         *)

Pulling == {"pull", "firstpull", "bootpull"}
Pushing == {"push", "bootpush"}
Src(a) == IF pc[a] \in Pushing THEN Home(a) ELSE Remote
Dst(a) == IF pc[a] \in Pushing THEN Remote ELSE Home(a)
Parallel(a) == pc[a] \in {"pull", "firstpull"}
Syncing(a) == pc[a] \in Pulling \cup Pushing

MayRun(a, op) ==
  op \in ops[a] /\ Cardinality(outs[a] \cup {op}) <= IF Parallel(a) THEN MaxParallel ELSE 1
HasSource(a, op) ==
  IF op.file = MANIFEST_FILE_NAME
  THEN manifest[Src(a)].st # "absent"
  ELSE Present(Src(a), op.file)
HasTarget(a, op) ==
  IF op.file = MANIFEST_FILE_NAME
  THEN manifest[Dst(a)].st # "absent"
  ELSE Present(Dst(a), op.file)

\* Mutant: the output of a finished copy is not closed.
FinishedKeepsOutput(a, op) == ops' = [ops EXCEPT ![a] = @ \ {op}] /\ UNCHANGED outs

Finished(a, op) == /\ ops' = [ops EXCEPT ![a] = @ \ {op}]
                   /\ outs' = [outs EXCEPT ![a] = @ \ {op}]

\* The target of an operation is left without its content.
Emptied(a, op, noManifest, noBlob) ==
  IF op.file = MANIFEST_FILE_NAME
  THEN /\ manifest' = [manifest EXCEPT ![Dst(a)] = noManifest]
       /\ UNCHANGED data
  ELSE /\ data' = [data EXCEPT ![Dst(a)][op.file] = noBlob]
       /\ UNCHANGED manifest

\* DirectoryStateClient.write deletes what is there ...
DeleteOutput(a) ==
  \E op \in ops[a] \ outs[a] :
    /\ Syncing(a) /\ op.op = "Add" /\ Dst(a) # Remote /\ MayRun(a, op)
    /\ HasTarget(a, op)
    /\ Emptied(a, op, NoManifest, NoBlob)
    /\ outs' = [outs EXCEPT ![a] = @ \cup {op}]
    /\ UNCHANGED <<pc, hand, ops>>

\* Mutant: an upload, too, replaces the object before the source is read.
CreateOutputAnywhere(a) ==
  \E op \in ops[a] :
    /\ Syncing(a) /\ op.op = "Add" /\ MayRun(a, op)
    /\ Dst(a) # Remote => ~HasTarget(a, op)
    /\ Emptied(a, op, TornManifest, TornBlob)
    /\ outs' = [outs EXCEPT ![a] = @ \cup {op}]
    /\ UNCHANGED <<pc, hand, ops>>

\* ... and creates the output, before the source is read.
CreateOutput(a) ==
  \E op \in ops[a] :
    /\ Syncing(a) /\ op.op = "Add" /\ Dst(a) # Remote /\ MayRun(a, op)
    /\ ~HasTarget(a, op)
    /\ Emptied(a, op, TornManifest, TornBlob)
    /\ outs' = [outs EXCEPT ![a] = @ \cup {op}]
    /\ UNCHANGED <<pc, hand, ops>>

\* The output of a copy is open: an object of the store needs none.
HasOutput(a, op) == Dst(a) # Remote => op \in outs[a] /\ HasTarget(a, op)

\* What is read of a file: all of its chunks.
Read(s, f) == data[s][f]

\* The source is read now, whatever it is now, and the copy is complete: at
\* once for an S3 upload, after CreateOutput for a directory.
CopyFile(a) ==
  \E op \in ops[a] :
    /\ Syncing(a) /\ op.op = "Add" /\ MayRun(a, op)
    /\ HasSource(a, op) /\ HasOutput(a, op)
    /\ IF op.file = MANIFEST_FILE_NAME
       THEN /\ manifest' = [manifest EXCEPT ![Dst(a)] = manifest[Src(a)]]
            /\ UNCHANGED data
       ELSE /\ data' = [data EXCEPT ![Dst(a)][op.file] = Read(Src(a), op.file)]
            /\ UNCHANGED manifest
    /\ Finished(a, op)
    /\ UNCHANGED <<pc, hand>>

DeleteFile(a) ==
  \E op \in ops[a] :
    /\ Syncing(a) /\ op.op = "Del" /\ MayRun(a, op) /\ HasTarget(a, op)
    /\ data' = [data EXCEPT ![Dst(a)][op.file] = NoBlob]
    /\ Finished(a, op)
    /\ UNCHANGED <<manifest, pc, hand>>

FileStep(a) == DeleteOutput(a) \/ CreateOutput(a) \/ CopyFile(a) \/ DeleteFile(a)

\* FileMissingError: a source that is gone, or a second delete.
FileMissing(a) ==
  /\ Syncing(a)
  /\ \E op \in ops[a] :
       /\ MayRun(a, op)
       /\ \/ op.op = "Add" /\ ~HasSource(a, op) /\ HasOutput(a, op)
          \/ op.op = "Del" /\ ~HasTarget(a, op)

-----------------------------------------------------------------------------
\* An actor leaves whatever it was doing: its open outputs stay as they are.
Leave(a, next) ==
  /\ pc' = [pc EXCEPT ![a] = next]
  /\ ops' = [ops EXCEPT ![a] = {}]
  /\ outs' = [outs EXCEPT ![a] = {}]
  /\ hand' = [hand EXCEPT ![a] = NoManifest]

\* A synchronization that brings Dst to the files of `source` begins.
Start(a, next, source, target) ==
  /\ pc' = [pc EXCEPT ![a] = next]
  /\ ops' = [ops EXCEPT ![a] = Diff(source, target)]
  /\ outs' = [outs EXCEPT ![a] = {}]
  /\ hand' = [hand EXCEPT ![a] = NoManifest]

\* Mutant: the older copy wins.
FromRemoteSwapped(a, failed, next) ==
  LET local == manifest[Home(a)]
      remote == manifest[Remote]
  IN /\ UNCHANGED <<data, manifest>>
     /\ \/ /\ local.st = remote.st /\ local.seqnum = remote.seqnum
           /\ Leave(a, next)
        \/ /\ remote.st = "whole"
           /\ local.st = "absent" \/ local.seqnum > remote.seqnum
           /\ Start(a, "bootpull", remote, local)
        \/ /\ local.st = "whole"
           /\ remote.st = "absent" \/ local.seqnum < remote.seqnum
           /\ Start(a, "bootpush", local, remote)

\* LocalDirectory.fromRemote, run when a process opens its index: the newer
\* of the two copies overwrites the older.  An index.json that does not
\* decode fails the start.
FromRemote(a, failed, next) ==
  LET local == manifest[Home(a)]
      remote == manifest[Remote]
  IN /\ UNCHANGED <<data, manifest>>
     /\ \/ /\ "torn" \in {local.st, remote.st}
           /\ Leave(a, failed)
        \/ /\ "torn" \notin {local.st, remote.st}
           /\ \/ /\ local.st = remote.st /\ local.seqnum = remote.seqnum
                 /\ Leave(a, next)
              \/ /\ remote.st = "whole"
                 /\ local.st = "absent" \/ local.seqnum < remote.seqnum
                 /\ Start(a, "bootpull", remote, local)
              \/ /\ local.st = "whole"
                 /\ remote.st = "absent" \/ local.seqnum > remote.seqnum
                 /\ Start(a, "bootpush", local, remote)

-----------------------------------------------------------------------------
(* Where an actor may be. *)

FlushPhases == {"commit", "list", "sizes", "write", "replace", "create", "writing"}
ThreadPhase == FlushPhases \cup {"idle", "merge", "master", "replica", "push", "dead", "off"}
ProcessPhase == FlushPhases \cup {"down", "bootpull", "bootpush", "open", "up", "close"}
SlavePhase == {"down", "bootpull", "bootpush", "create", "firstpull", "idle", "pull", "dead"}
AnyPhase == ThreadPhase \cup ProcessPhase \cup SlavePhase
Phases(a) == IF a \in Threads THEN ThreadPhase
             ELSE IF a = Indexer THEN ProcessPhase ELSE SlavePhase

SyncTypeOK ==
  /\ data \in [Store -> [FileName -> Blob]]
  /\ manifest \in [Store -> Manifest]
  /\ pc \in [Actor -> AnyPhase] /\ \A a \in Actor : pc[a] \in Phases(a)
  /\ hand \in [Actor -> Manifest]
  /\ ops \in [Actor -> SUBSET ChangedFileOp]
  /\ outs \in [Actor -> SUBSET ChangedFileOp]
  /\ \A a \in Actor : outs[a] \subseteq ops[a]

SyncInit ==
  /\ data = [s \in Store |-> [f \in FileName |-> NoBlob]]
  /\ manifest = [s \in Store |-> NoManifest]
  /\ hand = [a \in Actor |-> NoManifest]
  /\ ops = [a \in Actor |-> {}]
  /\ outs = [a \in Actor |-> {}]
=============================================================================
