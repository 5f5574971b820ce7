----------------------------- MODULE SlaveIndex -----------------------------
(***************************************************************************)
(* A searcher process of a distributed index: a directory that follows the *)
(* object store (SlaveIndex.scala, LocalDirectory.fromRemote, SearchMode). *)
(*                                                                         *)
(* The process copies the object store when it starts, synchronizes once   *)
(* as part of opening the index, and then periodically.  The first failure *)
(* of a periodic synchronization ends the periodic stream, and the process *)
(* goes on serving the directory as it is ("dead").                        *)
(***************************************************************************)
EXTENDS FileSync

CONSTANTS
  SlaveFaults,    \* how a searcher may stop, out of "kill"
  MaxBoots        \* bound: starts of a searcher that find an index to copy

ASSUME SlaveAssumption == SlaveFaults \subseteq {"kill"} /\ MaxBoots \in Nat

VARIABLE boots    \* [Slaves -> Nat], those starts

SlaveBoot(s) ==
  /\ pc[s] = "down" /\ boots[s] < MaxBoots
  /\ boots' = [boots EXCEPT ![s] = IF manifest[Remote].st = "absent" THEN @ ELSE @ + 1]
  /\ FromRemote(s, "down", "create")

SlaveBootDone(s) ==
  /\ pc[s] \in {"bootpull", "bootpush"} /\ ops[s] = {}
  /\ Leave(s, "create")
  /\ UNCHANGED <<data, manifest>>

\* SlaveIndex.sync up to its list of operations: the object store is the
\* master, the directory the replica.  Its manifest may have changed since
\* the process read it, the directory's has not.
SlaveSync(s, next, failed) ==
  LET master == manifest[Remote]
      replica == manifest[s]
      newer == replica.st = "absent" \/ master.seqnum > replica.seqnum
  IN /\ UNCHANGED <<data, manifest>>
     /\ \/ /\ master.st = "whole" /\ replica.st # "torn" /\ newer
           /\ Start(s, next, master, replica)
        \/ /\ ~(master.st = "whole" /\ replica.st # "torn" /\ newer)
           /\ Leave(s, IF master.st = "whole" /\ replica.st # "torn" THEN "idle" ELSE failed)

\* SlaveIndex.create: index.json must be there, then the first sync().
SlaveCreate(s) ==
  /\ pc[s] = "create"
  /\ \/ /\ manifest[s].st = "whole"
        /\ SlaveSync(s, "firstpull", "down")
     \/ /\ manifest[s].st # "whole"
        /\ Leave(s, "down")
        /\ UNCHANGED <<data, manifest>>

SlaveTick(s) ==
  /\ pc[s] = "idle"
  /\ SlaveSync(s, "pull", "dead")

\* Mutant: the stream ends with the first synchronization that copies.
SlavePullDoneOnce(s) ==
  /\ Parallel(s) /\ ops[s] = {}
  /\ Leave(s, "dead")
  /\ UNCHANGED <<data, manifest>>

SlavePullDone(s) ==
  /\ Parallel(s) /\ ops[s] = {}
  /\ Leave(s, "idle")
  /\ UNCHANGED <<data, manifest>>

\* A failure: the start of the process fails, or the periodic stream ends.
SlaveFails(s) ==
  /\ FileMissing(s)
  /\ Leave(s, IF pc[s] = "pull" THEN "dead" ELSE "down")
  /\ UNCHANGED <<data, manifest>>

SlaveStep(s) ==
  \/ SlaveBoot(s)
  \/ /\ \/ SlaveBootDone(s) \/ SlaveCreate(s) \/ SlaveTick(s)
        \/ FileStep(s) \/ SlavePullDone(s) \/ SlaveFails(s)
     /\ UNCHANGED boots

\* The process is killed: its directory stays as it is.  One that loses its
\* disk, too, is a searcher that starts for the first time.
SlaveKill(s) ==
  /\ "kill" \in SlaveFaults /\ pc[s] # "down"
  /\ Leave(s, "down")
  /\ UNCHANGED <<data, manifest, boots>>
=============================================================================
