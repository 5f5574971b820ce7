------------------------------ MODULE Searcher ------------------------------
(***************************************************************************)
(* The Lucene readers of a searcher: opened by the first request that      *)
(* needs them, replaced when the index has a newer commit, and fetched     *)
(* anew at every stage of a search (Searcher.scala).  The fibers that sync *)
(* the searcher first flush the index in the same process (standalone      *)
(* mode: LocalIndex) or pull it from the object store (SlaveIndex).        *)
(*                                                                         *)
(* The searcher tells commits apart by their sequence numbers.  Those of a *)
(* local index are the IndexWriter's, which start again with the process;  *)
(* those of a slave grow, as SlaveIndex pulls nothing older.               *)
(***************************************************************************)
EXTENDS Naturals, FiniteSets

CONSTANTS
  Syncers,      \* fibers that flush or pull, and then sync the searcher
  Queries,      \* search requests in flight
  Periodic,     \* the syncers that are periodic streams, others are POST _flush
  Requests,     \* the requests that come in, out of "flush" and "merge"
  Starts,       \* the indexes the process may open: "local" or "slave", with
                \* the commit it finds there, 0 if none, and its seqnum
  MaxCommits    \* bound: commits that reach the directory

ASSUME SearcherAssumption ==
  /\ Syncers \cap Queries = {}
  /\ Periodic \subseteq Syncers
  /\ Requests \subseteq {"flush", "merge"}
  /\ MaxCommits \in Nat
  /\ Starts \subseteq [kind : {"local", "slave"}, commit : 0..MaxCommits, seqnum : Nat]
  /\ \A s \in Starts : s.kind = "slave" => s.commit # 0

Fiber == Syncers \cup Queries

VARIABLES
  start,      \* the index that is opened, constant from then on
  commit,     \* the last commit in the directory, 0 when there is none
  manifest,   \* the seqnum in the directory's index.json, 0 when there is none
  seqnum,     \* Index.seqnum, the Ref the searcher looks at
  opened,     \* number of readers opened so far, their identities
  closed,     \* identities of the readers closed
  ref,        \* Searcher.readersRef
  late,       \* history: the directory had a newer commit than those readers
              \* when they were put there
  pc, stage,  \* where a fiber is, and what it needs the readers for
  mine,       \* [Fiber -> Readers], the readers a fiber holds
  fresh,      \* [Fiber -> Readers], those that are to replace them
  target,     \* [Fiber -> Nat], a seqnum a fiber has read or committed
  seen        \* [Queries -> the stages at which a search has looked at which commit]

indexVars == <<start, commit, manifest, seqnum>>
readerVars == <<opened, closed, ref, late>>
vars == <<indexVars, readerVars, pc, stage, mine, fresh, target, seen>>

\* A DirectoryReader is a snapshot of one commit; Readers adds the seqnum
\* the searcher believes it has.
Readers == [id : Nat, gen : Nat, seq : Nat]
NoReaders == [id |-> 0, gen |-> 0, seq |-> 0]

\* Readers are put into the Ref, for all requests from now on.
Serve(readers) ==
  /\ ref' = readers
  /\ late' = (readers.gen < commit)

\* The sequence number of commit n.
SeqOf(n) ==
  IF n = start.commit THEN start.seqnum
  ELSE n - start.commit + (IF start.kind = "slave" THEN start.seqnum ELSE 0)

Goto(a, next) == pc' = [pc EXCEPT ![a] = next]

\* The first failure ends a periodic stream, a request is answered with 500.
Fail(a) == /\ Goto(a, IF a \in Periodic THEN "dead" ELSE "idle")
           /\ mine' = [mine EXCEPT ![a] = NoReaders]

-----------------------------------------------------------------------------
(* The index: flush() and Index.sync() *)

\* Indexer.flush, periodic or as the first step of POST _flush or _merge.
FlushBegins(f) ==
  /\ pc[f] = "idle" /\ start.kind = "local"
  /\ \E why \in IF f \in Periodic THEN {"flush"} ELSE Requests :
       /\ stage' = [stage EXCEPT ![f] = why]
       /\ \/ /\ commit < MaxCommits
             /\ commit' = commit + 1
             /\ target' = [target EXCEPT ![f] = SeqOf(commit + 1)]
             /\ Goto(f, "manifest")
          \/ /\ f \notin Periodic
             /\ Goto(f, IF why = "merge" THEN "merge" ELSE "index")
             /\ UNCHANGED <<commit, target>>
  /\ UNCHANGED <<start, manifest, seqnum, readerVars, mine, seen, fresh>>

WriteManifest(f) ==
  /\ pc[f] = "manifest"
  /\ manifest' = target[f]
  /\ Goto(f, IF stage[f] = "merge" THEN "merge" ELSE "index")
  /\ UNCHANGED <<start, commit, seqnum, readerVars, stage, mine, target, seen, fresh>>

\* Indexer.merge commits again, if there was something to merge.
Merge(f) ==
  /\ pc[f] = "merge"
  /\ stage' = [stage EXCEPT ![f] = "merged"]
  /\ \/ /\ commit < MaxCommits
        /\ commit' = commit + 1
        /\ target' = [target EXCEPT ![f] = SeqOf(commit + 1)]
        /\ Goto(f, "manifest")
     \/ /\ Goto(f, "index")
        /\ UNCHANGED <<commit, target>>
  /\ UNCHANGED <<start, manifest, seqnum, readerVars, mine, seen, fresh>>

\* LocalIndex.sync reads index.json ...
ReadManifest(f) ==
  /\ pc[f] = "index"
  /\ \/ /\ manifest # 0
        /\ target' = [target EXCEPT ![f] = manifest]
        /\ Goto(f, "seqnum")
        /\ UNCHANGED mine
     \/ /\ manifest = 0
        /\ Fail(f)
        /\ UNCHANGED target
  /\ UNCHANGED <<indexVars, readerVars, stage, seen, fresh>>

\* ... and then sets the Ref.  POST _merge does not sync the searcher.
SetSeqnum(f) ==
  /\ pc[f] = "seqnum"
  /\ seqnum' = target[f]
  /\ Goto(f, IF stage[f] = "merged" THEN "idle" ELSE "get")
  /\ UNCHANGED <<start, commit, manifest, readerVars, stage, mine, target, seen, fresh>>

\* SlaveIndex.sync finds a newer commit in the object store and copies its files,
\* several at a time: the directory is between two commits ...
Pull(f) ==
  /\ pc[f] = "idle" /\ start.kind = "slave" /\ f \in Periodic
  /\ commit < MaxCommits
  /\ stage' = [stage EXCEPT ![f] = "flush"]
  /\ Goto(f, "pull")
  /\ UNCHANGED <<indexVars, readerVars, mine, target, seen, fresh>>

\* ... until all are there, and stays so if the copying fails, which ends the
\* periodic stream.  The Ref is left at what it was when the index was created.
PullDone(f) ==
  /\ pc[f] = "pull" /\ commit < MaxCommits
  /\ commit' = commit + 1
  /\ manifest' = SeqOf(commit + 1)
  /\ Goto(f, "get")
  /\ UNCHANGED <<start, seqnum, readerVars, stage, mine, target, seen, fresh>>

PullFails(f) ==
  /\ pc[f] = "pull"
  /\ Goto(f, "torn")
  /\ UNCHANGED <<indexVars, readerVars, stage, mine, target, seen, fresh>>

\* Opening the directory then fails if it meets a file that is missing.
BetweenCommits == \E f \in Syncers : pc[f] \in {"pull", "torn"}

-----------------------------------------------------------------------------
(* getReadersOrFail() *)

\* Mutant: readers are used without a look at whether there are any.
GetReadersUnchecked(a) ==
  /\ pc[a] = "get"
  /\ mine' = [mine EXCEPT ![a] = ref]
  /\ Goto(a, "use")
  /\ UNCHANGED <<indexVars, readerVars, stage, target, seen, fresh>>

GetReaders(a) ==
  /\ pc[a] = "get"
  /\ \/ /\ ref # NoReaders
        /\ mine' = [mine EXCEPT ![a] = ref]
        /\ Goto(a, "use")
     \/ /\ ref = NoReaders /\ commit # 0
        /\ Goto(a, "open")
        /\ UNCHANGED mine
     \/ /\ ref = NoReaders /\ commit = 0
        /\ Fail(a)
  /\ UNCHANGED <<indexVars, readerVars, stage, target, seen, fresh>>

\* attemptOpenIfExists opens the reader before it reads the seqnum.
OpenReader(a) ==
  /\ pc[a] = "open"
  /\ \/ /\ opened' = opened + 1
        /\ mine' = [mine EXCEPT ![a] = [id |-> opened + 1, gen |-> commit, seq |-> 0]]
        /\ Goto(a, "stamp")
     \/ /\ BetweenCommits
        /\ Fail(a)
        /\ UNCHANGED opened
  /\ UNCHANGED <<indexVars, closed, ref, late, stage, target, seen, fresh>>

\* Mutant: the number is that of the commit, not the one the index reports.
StampFromDisk(a) ==
  /\ pc[a] = "stamp"
  /\ mine' = [mine EXCEPT ![a].seq = SeqOf(commit)]
  /\ Goto(a, "install")
  /\ UNCHANGED <<indexVars, readerVars, stage, target, seen, fresh>>

StampReader(a) ==
  /\ pc[a] = "stamp"
  /\ mine' = [mine EXCEPT ![a].seq = seqnum]
  /\ Goto(a, "install")
  /\ UNCHANGED <<indexVars, readerVars, stage, target, seen, fresh>>

InstallReader(a) ==
  /\ pc[a] = "install"
  /\ Serve(mine[a])
  /\ Goto(a, "use")
  /\ UNCHANGED <<indexVars, opened, closed, stage, mine, target, seen, fresh>>

-----------------------------------------------------------------------------
(* Searcher.sync() *)

\* Mutant: the reader is reopened only for a gap of more than one commit.
StaleByTwo(known, onDisk) == onDisk > known + 1

Stale(known, onDisk) == onDisk > known

CompareSeqnum(f) ==
  /\ f \in Syncers /\ pc[f] = "use"
  /\ target' = [target EXCEPT ![f] = seqnum]
  /\ Goto(f, IF Stale(mine[f].seq, seqnum) THEN "reopen" ELSE "idle")
  /\ UNCHANGED <<indexVars, readerVars, stage, mine, seen, fresh>>

\* Mutant: the old reader is replaced whether or not there is a newer commit.
ReopenAlways(f) ==
  /\ pc[f] = "reopen"
  /\ \/ /\ mine[f].id \in closed
        /\ Fail(f)
        /\ UNCHANGED <<opened, fresh>>
     \/ /\ mine[f].id \notin closed
        /\ opened' = opened + 1
        /\ fresh' = [fresh EXCEPT ![f] = [id |-> opened + 1, gen |-> commit, seq |-> target[f]]]
        /\ Goto(f, "close")
        /\ UNCHANGED mine
  /\ UNCHANGED <<indexVars, closed, ref, late, stage, target, seen>>

\* DirectoryReader.openIfChanged: a new reader if there is a newer commit,
\* and an exception if the old one is closed, or a file of the newer one missing.
Reopen(f) ==
  /\ pc[f] = "reopen"
  /\ \/ /\ mine[f].id \in closed \/ BetweenCommits
        /\ Fail(f)
        /\ UNCHANGED <<opened, fresh>>
     \/ /\ mine[f].id \notin closed /\ mine[f].gen = commit
        /\ fresh' = [fresh EXCEPT ![f] = [mine[f] EXCEPT !.seq = target[f]]]
        /\ Goto(f, "swap")
        /\ UNCHANGED <<opened, mine>>
     \/ /\ mine[f].id \notin closed /\ mine[f].gen # commit
        /\ opened' = opened + 1
        /\ fresh' = [fresh EXCEPT ![f] = [id |-> opened + 1, gen |-> commit, seq |-> target[f]]]
        /\ Goto(f, "close")
        /\ UNCHANGED mine
  /\ UNCHANGED <<indexVars, closed, ref, late, stage, target, seen>>

\* Mutant: the old reader is left open.
CloseNothing(f) ==
  /\ pc[f] = "close"
  /\ Goto(f, "swap")
  /\ UNCHANGED <<indexVars, readerVars, stage, mine, fresh, target, seen>>

\* Mutant: the Ref is cleared until the new readers are in.
CloseClears(f) ==
  /\ pc[f] = "close"
  /\ closed' = closed \cup {mine[f].id}
  /\ ref' = NoReaders
  /\ Goto(f, "swap")
  /\ UNCHANGED <<indexVars, opened, late, stage, mine, fresh, target, seen>>

\* The old reader is closed at once, whoever uses it.
CloseOld(f) ==
  /\ pc[f] = "close"
  /\ closed' = closed \cup {mine[f].id}
  /\ Goto(f, "swap")
  /\ UNCHANGED <<indexVars, opened, ref, late, stage, mine, fresh, target, seen>>

\* Mutant: the Ref keeps the reader that was just closed.
SwapForgotten(f) ==
  /\ pc[f] = "swap"
  /\ Goto(f, "idle")
  /\ UNCHANGED <<indexVars, readerVars, stage, mine, fresh, target, seen>>

SwapReaders(f) ==
  /\ pc[f] = "swap"
  /\ Serve(fresh[f])
  /\ Goto(f, "idle")
  /\ UNCHANGED <<indexVars, opened, closed, stage, mine, fresh, target, seen>>

-----------------------------------------------------------------------------
(* search() and suggest() *)

\* suggest() needs the readers once, search() for the top documents, the
\* aggregations and the stored fields.
Request(q) ==
  /\ q \in Queries /\ pc[q] = "idle"
  /\ \E first \in {"top", "suggest"} : stage' = [stage EXCEPT ![q] = first]
  /\ Goto(q, "get")
  /\ seen' = [seen EXCEPT ![q] = {}]
  /\ UNCHANGED <<indexVars, readerVars, mine, fresh, target>>

NextStage == [top |-> "agg", agg |-> "fetch", fetch |-> "done", suggest |-> "done"]

\* Using a closed reader fails, unless all it touches are segments that the
\* newer reader shares and keeps open.  Aggregations look at the reader only if
\* there are some of terms.
UseReaders(q) ==
  /\ q \in Queries /\ pc[q] = "use"
  /\ \/ /\ mine[q].id \in closed
        /\ Fail(q)
        /\ UNCHANGED <<stage, seen>>
     \/ /\ \/ seen' = [seen EXCEPT ![q] = @ \cup {<<stage[q], mine[q].gen>>}]
           \/ stage[q] = "agg" /\ UNCHANGED seen
        /\ stage' = [stage EXCEPT ![q] = NextStage[@]]
        /\ Goto(q, IF stage[q] \in {"fetch", "suggest"} THEN "idle" ELSE "get")
        /\ UNCHANGED mine
  /\ UNCHANGED <<indexVars, readerVars, fresh, target>>

-----------------------------------------------------------------------------
Init ==
  /\ start \in Starts
  /\ commit = start.commit /\ manifest = start.seqnum /\ seqnum = start.seqnum
  /\ opened = 0 /\ closed = {} /\ ref = NoReaders /\ late = FALSE
  /\ pc = [a \in Fiber |-> "idle"]
  /\ stage = [a \in Fiber |-> "done"]
  /\ mine = [a \in Fiber |-> NoReaders]
  /\ fresh = [a \in Fiber |-> NoReaders]
  /\ target = [a \in Fiber |-> 0]
  /\ seen = [q \in Queries |-> {}]

ReadersStep(a) == GetReaders(a) \/ OpenReader(a) \/ StampReader(a) \/ InstallReader(a)

SyncerStep(f) ==
  \/ WriteManifest(f) \/ Merge(f) \/ ReadManifest(f) \/ SetSeqnum(f)
  \/ PullDone(f) \/ PullFails(f)
  \/ ReadersStep(f) \/ CompareSeqnum(f) \/ Reopen(f) \/ CloseOld(f) \/ SwapReaders(f)

QueryStep(q) == ReadersStep(q) \/ UseReaders(q)

Next ==
  \/ \E f \in Syncers : FlushBegins(f) \/ Pull(f) \/ SyncerStep(f)
  \/ \E q \in Queries : Request(q) \/ QueryStep(q)

Spec == Init /\ [][Next]_vars

\* Every fiber goes on with what it began; commits and requests may not come.
FairSpec ==
  /\ Spec
  /\ \A f \in Syncers : WF_vars(SyncerStep(f))
  /\ \A q \in Queries : WF_vars(QueryStep(q))

-----------------------------------------------------------------------------
(* Properties *)

SyncStage == {"flush", "merge", "merged"}
SearchStage == {"top", "agg", "fetch", "suggest"}
Phase == {"idle", "manifest", "merge", "index", "seqnum", "get", "open", "stamp", "install",
          "use", "reopen", "close", "swap", "pull", "dead", "torn"}

\* Every variable of the searcher has the shape the code gives it, and a
\* search has looked at commits only.
TypeOK ==
  /\ start \in Starts
  /\ commit \in start.commit..MaxCommits /\ manifest \in Nat /\ seqnum \in Nat
  /\ opened \in Nat /\ closed \subseteq 1..opened /\ late \in BOOLEAN
  /\ ref \in Readers
  /\ pc \in [Fiber -> Phase]
  /\ stage \in [Fiber -> SyncStage \cup SearchStage \cup {"done"}]
  /\ mine \in [Fiber -> Readers] /\ fresh \in [Fiber -> Readers]
  /\ target \in [Fiber -> Nat]
  /\ seen \in [Queries -> SUBSET (SearchStage \X (1..MaxCommits))]

\* Except between closing a reader and replacing it, new requests are given
\* a reader that is open (Readers.reopen, getReadersOrFail).
ServedReaderIsOpen ==
  (\A f \in Syncers : pc[f] # "swap") => ref.id \notin closed

\* A reader of the last commit is never closed, whichever fibers reload the
\* searcher: a request fails on a closed reader only if a commit came in
\* after it was given that reader (Readers.reopen).
CurrentReaderIsOpen ==
  /\ ref.id \in closed => ref.gen < commit
  /\ \A a \in Fiber : mine[a].id \in closed => mine[a].gen < commit

\* Readers do not pile up: besides the one that is served and the one that
\* is to replace it, only first requests that raced each other leave any open.
ReadersAreClosed == opened - Cardinality(closed) <= 2 + Cardinality(Queries)

\* Readers claim no commit that the index has not reported.
ClaimIsReported == ref.seq <= seqnum

\* Once a reader is served, a sync only moves on to later commits: the one
\* that goes back is a first request installing the reader it opened late.
SyncMovesForward ==
  [][ref # NoReaders /\ ref' # ref /\ (\A q \in Queries : pc[q] # "install")
       => ref'.gen >= ref.gen]_vars

\* When the fibers that synchronized the index and the searcher are done,
\* requests are given a reader of the last commit (IndexModifyRoute.flush),
\* unless it was put into the Ref late: by a first request that opened it
\* before the commit, or by the slower one of two synchronizations.
SyncedIsServed ==
  /\ \A f \in Syncers : pc[f] = "idle" /\ stage[f] = "flush"
  /\ seqnum = SeqOf(commit)
  => ref.gen = commit \/ late

Quiet(f) == pc[f] \in {"idle", "dead", "torn"}

\* Every commit that reaches the directory comes to be searched, unless
\* POST _merge, which leaves the searcher alone, was the one to make it, or all
\* synchronizations are done and left readers that were put into the Ref late.
CommitIsServed ==
  \A n \in 1..MaxCommits :
    commit >= n ~>
      \/ ref.gen >= n
      \/ \E f \in Syncers : pc[f] = "idle" /\ stage[f] = "merged"
      \/ (\A f \in Syncers : Quiet(f)) /\ late

\* A searcher that has pulled a commit and synchronized serves it (SearchMode.init:
\* searcher.sync after an index.sync that changed something).
PulledIsServed ==
  start.kind = "slave" /\ (\A f \in Syncers : pc[f] = "idle" /\ stage[f] = "flush")
    => ref.gen = commit \/ late

\* The stored fields a search returns are read from the commit its hits were found
\* in: a hit is a document number, and means another document in another commit.
HitsAreOfOneCommit ==
  \A q \in Queries : \A hits, fields \in seen[q] :
    hits[1] = "top" /\ fields[1] = "fetch" => hits[2] = fields[2]
=============================================================================
