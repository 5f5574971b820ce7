-------------------------- MODULE DistributedIndex --------------------------
(***************************************************************************)
(* A distributed index: one indexer, the object store, and the searchers   *)
(* that follow it.  They share nothing but the object store, and nothing   *)
(* orders a searcher's reading of it and the indexer's writing.            *)
(***************************************************************************)
EXTENDS MasterIndex, SlaveIndex

VARIABLE
  disturbed   \* history: searchers that read the object store while it was
              \* being written, or were stopped while copying it

distVars == <<vars, boots, disturbed>>

Writing == \E a \in Actor : pc[a] \in Pushing

\* The history: what a step adds to `disturbed`.
Overlapping == {s \in Slaves : pc[s] \in Pulling /\ Writing}
Stopped == {s \in Slaves : pc[s] \in Pulling /\ pc'[s] = "down"}
Observe == disturbed' = disturbed \cup Overlapping' \cup Stopped

DistInit ==
  /\ Init
  /\ boots = [s \in Slaves |-> 0]
  /\ disturbed = {}

DistNext ==
  /\ \/ Next /\ UNCHANGED boots
     \/ \E s \in Slaves : (SlaveStep(s) \/ SlaveKill(s)) /\ UNCHANGED masterVars
  /\ Observe

DistSpec == DistInit /\ [][DistNext]_distVars

DistFairness ==
  /\ WF_distVars(ProcessStep /\ UNCHANGED boots /\ Observe)
  /\ \A a \in Threads : WF_distVars(ThreadStep(a) /\ UNCHANGED boots /\ Observe)
  /\ \A s \in Slaves : WF_distVars(SlaveStep(s) /\ UNCHANGED masterVars /\ Observe)

DistFairSpec == DistSpec /\ DistFairness

-----------------------------------------------------------------------------
DistTypeOK ==
  /\ TypeOK
  /\ boots \in [Slaves -> 0..MaxBoots]
  /\ disturbed \subseteq Slaves

\* No searcher is ahead of the object store, whatever races it ran into.
SlaveIsBehind ==
  \A s \in Slaves : manifest[s].st = "whole" =>
    /\ manifest[Remote].st = "whole"
    /\ manifest[s].seqnum <= manifest[Remote].seqnum

\* A searcher reads the object store and never writes to it, though
\* fromRemote would let it push a directory it finds to be newer.
SlaveNeverPushes == \A s \in Slaves : pc[s] # "bootpush"

\* A searcher whose synchronizations met no writing and no stop has a whole
\* copy of the commit its index.json describes, and no file besides.
UndisturbedIsSnapshot ==
  \A s \in Slaves \ disturbed : pc[s] \in {"idle", "dead"} =>
    /\ IsSnapshot(s)
    /\ \A f \in FileName : Present(s, f) => f \in Listed(manifest[s])

\* A searcher that is not disturbed comes to serve every published commit.
SlaveCatchesUp ==
  \A s \in Slaves, n \in 1..(MaxDocs + MaxGen) :
    manifest[Remote].seqnum = n ~>
      s \in disturbed \/ (pc[s] = "idle" /\ manifest[s].seqnum >= n)

\* A searcher whose last synchronization succeeded has a whole commit: what
\* its index.json lists is there.
SlaveIsSnapshot == \A s \in Slaves : pc[s] = "idle" => IsSnapshot(s)
=============================================================================
