--------------------------- MODULE MasterHistory ---------------------------
(***************************************************************************)
(* The indexer with a history: whether its fibers came in each other's way *)
(* and whether a copy between its directory and the object store was left  *)
(* unfinished.  Nothing in the code orders the fibers of an indexer, the   *)
(* periodic one and those of requests (IndexMode.runApi, runOffline), so   *)
(* what they may rely on is stated up to the first such crossing.          *)
(***************************************************************************)
EXTENDS MasterIndex

VARIABLES
  crossed,   \* a flush met another flush or a push, or two pushes met
  cut        \* the indexer stopped or failed before the last file of a copy

histVars == <<vars, crossed, cut>>

\* A fiber that has committed and not yet written index.json.
Describing == {"list", "sizes", "write", "replace", "create", "writing"}

\* One fiber is describing its commit while another does so too, has read the
\* index.json to push, or pushes it; or both push.
Crossing ==
  \E a, b \in Threads :
    /\ a # b
    /\ \/ pc[a] \in Describing /\ pc[b] \in Describing \cup {"replica", "push"}
       \/ pc[a] = "push" /\ pc[b] = "push"

\* A copy ends before all of its operations are done.
CutsCopy == \E a \in Flusher : Syncing(a) /\ ops[a] # {} /\ pc'[a] # pc[a]

HistInit == Init /\ crossed = FALSE /\ cut = FALSE

HistNext ==
  /\ Next
  /\ crossed' = (crossed \/ Crossing')
  /\ cut' = (cut \/ CutsCopy)

HistSpec == HistInit /\ [][HistNext]_histVars

\* Whole files of one name are the same in every directory and in the store.
NamesMeanOneContent ==
  \A s, t \in Store, f \in FileName :
    data[s][f].st = "whole" /\ data[t][f].st = "whole" => data[s][f] = data[t][f]

-----------------------------------------------------------------------------
(* Properties *)

\* When POST _flush has answered 200 OK in the first life of the indexer, the
\* documents the indexer held when it came in can be read from the object
\* store as soon as nothing is being pushed: also when the periodic fiber
\* committed them, or pushes them while the request is answered
\* (IndexModifyRoute.flush, PeriodicEvalStream).
FlushedIsPublished ==
  ~crossed /\ pc[Indexer] = "up" /\ starts = 1 /\ RemoteAtRest =>
    acked \subseteq Published(Remote)

\* A file name means one content in the indexer's directory and in the object
\* store, through kills, lost disks and restarts, which is what comparing
\* names and sizes rests on (IndexManifest.diff): no writer ever gives out
\* again a name that has been published.
SameNameSameContent == ~cut => NamesMeanOneContent

\* The object store is exactly one commit between pushes in every life of the
\* indexer, whatever the start before brought together (fromRemote).
UncutIsSnapshot == ~cut /\ ~crossed => RemoteIsSnapshot
=============================================================================
