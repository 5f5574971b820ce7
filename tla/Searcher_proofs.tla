-------------------------- MODULE Searcher_proofs --------------------------
(***************************************************************************)
(* Theorems about the readers of a searcher, for any number of fibers that *)
(* synchronize it, any number of requests and any number of commits.       *)
(***************************************************************************)
EXTENDS Searcher, FiniteSetTheorems, TLAPS

-----------------------------------------------------------------------------
(* The type invariant.  It is not inductive by itself: that a search looks  *)
(* at commits only, and that a closed reader was once opened, rests on what *)
(* a fiber holds at each of its phases.                                     *)

\* Readers that were opened on a commit.
Opened(r) == r.id \in 1..opened /\ r.gen \in 1..commit

Holding == {"stamp", "install", "use", "reopen", "close"}

ReadersInv ==
  /\ TypeOK
  /\ ref = NoReaders \/ Opened(ref)
  /\ \A a \in Fiber : pc[a] \in Holding => Opened(mine[a])
  /\ \A a \in Fiber : pc[a] = "swap" => Opened(fresh[a])
  /\ \A a \in Fiber : pc[a] = "close" => Opened(fresh[a])
  /\ \A a \in Fiber : pc[a] = "open" => commit # 0
  /\ \A q \in Queries : pc[q] # "idle" => stage[q] \in SearchStage
  /\ \A a \in Fiber : pc[a] \in {"pull", "torn"} => start.kind = "slave"

\* The initial state has no readers and no fiber that holds any.
LEMMA ReadersInit == Init => ReadersInv
<1> SUFFICES ASSUME Init PROVE ReadersInv
  OBVIOUS
<1>1. seen \in [Queries -> SUBSET (SearchStage \X (1..MaxCommits))] /\ late \in BOOLEAN
  BY DEF Init
<1>2. /\ start \in Starts /\ commit \in start.commit..MaxCommits /\ manifest \in Nat /\ seqnum \in Nat
      /\ opened \in Nat /\ closed \subseteq 1..opened /\ ref \in Readers /\ target \in [Fiber -> Nat]
  BY SearcherAssumption DEF Init, Readers, NoReaders
<1>3. /\ pc \in [Fiber -> Phase] /\ stage \in [Fiber -> SyncStage \cup SearchStage \cup {"done"}]
      /\ mine \in [Fiber -> Readers] /\ fresh \in [Fiber -> Readers]
  BY DEF Init, Readers, NoReaders, Phase
<1>4. \A a \in Fiber : pc[a] = "idle"
  BY DEF Init
<1>5. Queries \subseteq Fiber
  BY DEF Fiber
<1> QED BY <1>1, <1>2, <1>3, <1>4, <1>5 DEF Init, ReadersInv, TypeOK, Holding

\* The number of a commit to come is a number.
LEMMA SeqOfType ==
  ASSUME ReadersInv, commit < MaxCommits
  PROVE  SeqOf(commit + 1) \in Nat
  BY SearcherAssumption DEF ReadersInv, TypeOK, SeqOf

\* A step of fiber a leaves the other fibers alone.
Alone(a) ==
  \A b \in Fiber \ {a} :
    pc'[b] = pc[b] /\ stage'[b] = stage[b] /\ mine'[b] = mine[b] /\ fresh'[b] = fresh[b]

\* What is left to show of a step of fiber a once it is known to preserve the
\* types: what the fiber itself holds then, and what it puts into the Ref.
LEMMA FiberKeepsReaders ==
  ASSUME ReadersInv, TypeOK', NEW a \in Fiber, Alone(a),
         commit <= commit', opened <= opened',
         ref' = ref \/ Opened(ref)',
         pc'[a] \in Holding => Opened(mine[a])',
         pc'[a] \in {"close", "swap"} => Opened(fresh[a])',
         pc'[a] = "open" => commit' # 0,
         a \in Queries /\ pc'[a] # "idle" => stage'[a] \in SearchStage,
         start' = start, pc'[a] \in {"pull", "torn"} => start.kind = "slave"
  PROVE  ReadersInv'
<1>1. commit \in Nat /\ commit' \in Nat /\ opened \in Nat /\ opened' \in Nat
  BY SearcherAssumption DEF ReadersInv, TypeOK
<1>2. \A r : Opened(r) => r.id \in 1..opened' /\ r.gen \in 1..commit'
  BY <1>1 DEF Opened
<1>3. ref' = NoReaders \/ Opened(ref)'
  BY <1>2 DEF ReadersInv, Opened
<1>4. \A b \in Fiber :
        /\ pc'[b] \in Holding => Opened(mine[b])'
        /\ pc'[b] \in {"close", "swap"} => Opened(fresh[b])'
        /\ pc'[b] = "open" => commit' # 0
  BY <1>1, <1>2 DEF ReadersInv, Alone, Opened
<1>5. \A q \in Queries : pc'[q] # "idle" => stage'[q] \in SearchStage
  BY DEF ReadersInv, Alone, Fiber
<1>6. \A b \in Fiber : pc'[b] \in {"pull", "torn"} => start'.kind = "slave"
  BY DEF ReadersInv, Alone
<1> QED BY <1>3, <1>4, <1>5, <1>6 DEF ReadersInv

\* The steps that bring a commit to the directory and report it.
LEMMA IndexStep ==
  ASSUME ReadersInv, NEW f \in Syncers,
         FlushBegins(f) \/ Pull(f) \/ PullDone(f) \/ PullFails(f) \/ WriteManifest(f) \/ Merge(f) \/ ReadManifest(f) \/ SetSeqnum(f)
  PROVE  ReadersInv'
<1> USE DEF Goto, Serve, indexVars, readerVars
<1>1. f \in Fiber /\ f \notin Queries /\ Alone(f)
  BY SearcherAssumption DEF ReadersInv, TypeOK, Fiber, Alone, FlushBegins, Pull, PullDone, PullFails, WriteManifest, Merge,
     ReadManifest, SetSeqnum, Fail
<1>2. commit < MaxCommits => SeqOf(commit + 1) \in Nat
  BY SeqOfType
<1>3. /\ commit \in Nat /\ commit' \in {commit, commit + 1}
      /\ commit' \in start.commit..MaxCommits
  <2>1. commit' = commit \/ (commit' = commit + 1 /\ commit < MaxCommits)
    BY DEF FlushBegins, Pull, PullDone, PullFails, WriteManifest, Merge, ReadManifest, SetSeqnum
  <2>2. commit \in start.commit..MaxCommits /\ start.commit \in Nat /\ MaxCommits \in Nat
    BY SearcherAssumption DEF ReadersInv, TypeOK
  <2> QED BY <2>1, <2>2
<1>4. TypeOK'
  <2> USE SearcherAssumption, <1>2, <1>3 DEF ReadersInv, TypeOK, Fiber, Phase, SyncStage
  <2>1. CASE FlushBegins(f)
    <3>1. stage' \in [Fiber -> SyncStage \cup SearchStage \cup {"done"}] /\ pc' \in [Fiber -> Phase]
      BY <2>1 DEF FlushBegins
    <3>2. target' \in [Fiber -> Nat]
      BY <2>1 DEF FlushBegins
    <3> QED BY <2>1, <3>1, <3>2 DEF FlushBegins
  <2>2. CASE Pull(f) \/ PullDone(f) \/ PullFails(f)
    <3>1. /\ pc' \in [Fiber -> Phase] /\ stage' \in [Fiber -> SyncStage \cup SearchStage \cup {"done"}]
          /\ manifest' \in Nat
      BY <2>2 DEF Pull, PullDone, PullFails
    <3> QED BY <2>2, <3>1 DEF Pull, PullDone, PullFails
  <2>3. CASE WriteManifest(f)
    BY <2>3 DEF WriteManifest
  <2>4. CASE Merge(f)
    <3>1. stage' \in [Fiber -> SyncStage \cup SearchStage \cup {"done"}] /\ pc' \in [Fiber -> Phase]
      BY <2>4 DEF Merge
    <3>2. target' \in [Fiber -> Nat]
      BY <2>4 DEF Merge
    <3> QED BY <2>4, <3>1, <3>2 DEF Merge
  <2>5. CASE ReadManifest(f)
    <3>1. pc' \in [Fiber -> Phase]
      BY <2>5 DEF ReadManifest, Fail
    <3>3. mine' \in [Fiber -> Readers]
      <4>1. NoReaders \in Readers
        BY DEF NoReaders, Readers
      <4> QED BY <2>5, <4>1 DEF ReadManifest, Fail
    <3>2. target' \in [Fiber -> Nat]
      BY <2>5 DEF ReadManifest
    <3> QED BY <2>5, <3>1, <3>2, <3>3 DEF ReadManifest
  <2>6. CASE SetSeqnum(f)
    BY <2>6 DEF SetSeqnum
  <2> QED BY <2>1, <2>2, <2>3, <2>4, <2>5, <2>6
<1>5. pc'[f] \notin Holding \cup {"close", "swap", "open"}
  BY <1>1 DEF ReadersInv, TypeOK, Holding, FlushBegins, Pull, PullDone, PullFails, WriteManifest, Merge, ReadManifest,
     SetSeqnum, Fail
<1>6. opened' = opened /\ opened \in Nat /\ ref' = ref
  BY DEF ReadersInv, TypeOK, FlushBegins, Pull, PullDone, PullFails, WriteManifest, Merge, ReadManifest, SetSeqnum
<1>7. commit <= commit' /\ opened <= opened'
  BY <1>3, <1>6
<1>8. start' = start /\ (pc'[f] \in {"pull", "torn"} => start.kind = "slave")
  BY <1>1 DEF ReadersInv, TypeOK, FlushBegins, Pull, PullDone, PullFails, WriteManifest, Merge,
     ReadManifest, SetSeqnum, Fail
<1> QED BY <1>1, <1>4, <1>5, <1>6, <1>7, <1>8, FiberKeepsReaders

\* The steps of getReadersOrFail.
LEMMA GettingStep ==
  ASSUME ReadersInv, NEW a \in Fiber,
         GetReaders(a) \/ OpenReader(a) \/ StampReader(a) \/ InstallReader(a)
  PROVE  ReadersInv'
<1> USE DEF Goto, Serve, indexVars, readerVars
<1>1. /\ commit \in Nat /\ opened \in Nat /\ seqnum \in Nat /\ pc[a] \in Phase
      /\ ref \in Readers /\ mine[a] \in Readers /\ NoReaders \in Readers
  BY SearcherAssumption DEF ReadersInv, TypeOK, NoReaders, Readers
<1>2. commit' = commit /\ opened' \in {opened, opened + 1} /\ Alone(a)
  BY DEF ReadersInv, TypeOK, Alone, GetReaders, OpenReader, StampReader, InstallReader, Fail
<1>3. a \in Queries => stage'[a] \in SearchStage
  BY DEF ReadersInv, GetReaders, OpenReader, StampReader, InstallReader
<1>4. /\ TypeOK'
      /\ ref' = ref \/ Opened(ref)'
      /\ pc'[a] \in Holding => Opened(mine[a])'
      /\ pc'[a] \in {"close", "swap"} => Opened(fresh[a])'
      /\ pc'[a] = "open" => commit' # 0
  <2> USE <1>1 DEF ReadersInv, TypeOK, Phase
  <2>1. CASE GetReaders(a)
    <3>1. pc' \in [Fiber -> Phase] /\ mine' \in [Fiber -> Readers]
      BY <2>1 DEF GetReaders, Fail
    <3> QED BY <2>1, <3>1 DEF GetReaders, Fail, Opened, Holding
  <2>2. CASE OpenReader(a)
    <3>1. CASE /\ opened' = opened + 1
               /\ mine' = [mine EXCEPT ![a] = [id |-> opened + 1, gen |-> commit, seq |-> 0]]
               /\ Goto(a, "stamp")
      <4>1. mine' \in [Fiber -> Readers]
        BY <3>1 DEF Readers
      <4>2. mine'[a].id = opened' /\ mine'[a].gen = commit /\ commit # 0
        BY <2>2, <3>1 DEF OpenReader
      <4> QED BY <2>2, <3>1, <4>1, <4>2 DEF OpenReader, Opened, Holding
    <3>2. CASE Fail(a) /\ UNCHANGED opened
      <4>1. /\ pc' \in [Fiber -> Phase] /\ mine' \in [Fiber -> Readers]
            /\ pc'[a] \in {"idle", "dead"}
        BY <3>2 DEF Fail
      <4> QED BY <2>2, <3>2, <4>1 DEF OpenReader, Holding
    <3> QED BY <2>2, <3>1, <3>2 DEF OpenReader
  <2>3. CASE StampReader(a)
    <3>1. mine' \in [Fiber -> Readers]
      BY <2>3 DEF StampReader, Readers
    <3>2. mine'[a].id = mine[a].id /\ mine'[a].gen = mine[a].gen
      BY <2>3 DEF StampReader, Readers
    <3> QED BY <2>3, <3>1, <3>2 DEF StampReader, Opened, Holding
  <2>4. CASE InstallReader(a)
    BY <2>4 DEF InstallReader, Opened, Holding
  <2> QED BY <2>1, <2>2, <2>3, <2>4
<1>5. commit <= commit' /\ opened <= opened'
  BY <1>1, <1>2
<1>6. start' = start /\ pc'[a] \notin {"pull", "torn"}
  BY DEF ReadersInv, TypeOK, GetReaders, OpenReader, StampReader, InstallReader, Fail
<1> QED BY <1>2, <1>3, <1>4, <1>5, <1>6, FiberKeepsReaders

\* The steps of Searcher.sync.
LEMMA SyncStep ==
  ASSUME ReadersInv, NEW f \in Syncers,
         CompareSeqnum(f) \/ Reopen(f) \/ CloseOld(f) \/ SwapReaders(f)
  PROVE  ReadersInv'
<1> USE DEF Goto, Serve, indexVars, readerVars
<1>1. /\ f \in Fiber /\ f \notin Queries
      /\ commit \in Nat /\ opened \in Nat /\ seqnum \in Nat /\ pc[f] \in Phase
      /\ mine[f] \in Readers /\ fresh[f] \in Readers /\ target[f] \in Nat /\ NoReaders \in Readers
  BY SearcherAssumption DEF ReadersInv, TypeOK, NoReaders, Readers, Fiber
<1>2. commit' = commit /\ opened' \in {opened, opened + 1} /\ Alone(f)
  BY <1>1 DEF ReadersInv, TypeOK, Alone, CompareSeqnum, Reopen, CloseOld, SwapReaders, Fail
<1>3. /\ TypeOK'
      /\ ref' = ref \/ Opened(ref)'
      /\ pc'[f] \in Holding => Opened(mine[f])'
      /\ pc'[f] \in {"close", "swap"} => Opened(fresh[f])'
      /\ pc'[f] = "open" => commit' # 0
  <2> USE <1>1 DEF ReadersInv, TypeOK, Phase
  <2>1. CASE CompareSeqnum(f)
    BY <2>1 DEF CompareSeqnum, Opened, Holding
  <2>2. CASE Reopen(f)
    <3>1. Opened(mine[f]) /\ mine[f].gen # 0 /\ commit # 0
      BY <2>2 DEF Reopen, Holding, Opened
    <3>2. CASE Fail(f) /\ UNCHANGED <<opened, fresh>>
      <4>1. pc' \in [Fiber -> Phase] /\ mine' \in [Fiber -> Readers] /\ pc'[f] \in {"idle", "dead"}
        BY <3>2 DEF Fail
      <4> QED BY <2>2, <3>2, <4>1 DEF Reopen, Holding
    <3>3. CASE /\ fresh' = [fresh EXCEPT ![f] = [mine[f] EXCEPT !.seq = target[f]]]
               /\ Goto(f, "swap") /\ UNCHANGED <<opened, mine>>
      <4>1. fresh' \in [Fiber -> Readers] /\ fresh'[f].id = mine[f].id /\ fresh'[f].gen = mine[f].gen
        BY <3>3 DEF Readers
      <4> QED BY <2>2, <3>1, <3>3, <4>1 DEF Reopen, Opened, Holding
    <3>4. CASE /\ opened' = opened + 1
               /\ fresh' = [fresh EXCEPT ![f] = [id |-> opened + 1, gen |-> commit, seq |-> target[f]]]
               /\ Goto(f, "close") /\ UNCHANGED mine
      <4>1. fresh' \in [Fiber -> Readers] /\ fresh'[f].id = opened' /\ fresh'[f].gen = commit
        BY <3>4 DEF Readers
      <4> QED BY <2>2, <3>1, <3>4, <4>1 DEF Reopen, Opened, Holding
    <3> QED BY <2>2, <3>2, <3>3, <3>4 DEF Reopen
  <2>3. CASE CloseOld(f)
    BY <2>3 DEF CloseOld, Opened, Holding
  <2>4. CASE SwapReaders(f)
    BY <2>4 DEF SwapReaders, Opened, Holding
  <2> QED BY <2>1, <2>2, <2>3, <2>4
<1>5. commit <= commit' /\ opened <= opened'
  BY <1>1, <1>2
<1>6. start' = start /\ pc'[f] \notin {"pull", "torn"}
  BY <1>1 DEF ReadersInv, TypeOK, CompareSeqnum, Reopen, CloseOld, SwapReaders, Fail
<1> QED BY <1>1, <1>2, <1>3, <1>5, <1>6, FiberKeepsReaders

\* The steps of search and suggest.
LEMMA SearchStep ==
  ASSUME ReadersInv, NEW q \in Queries, Request(q) \/ UseReaders(q)
  PROVE  ReadersInv'
<1> USE DEF Goto, Serve, indexVars, readerVars
<1>1. /\ q \in Fiber /\ commit \in Nat /\ opened \in Nat
      /\ commit \in start.commit..MaxCommits /\ start.commit \in Nat /\ MaxCommits \in Nat
      /\ mine[q] \in Readers /\ NoReaders \in Readers
  BY SearcherAssumption DEF ReadersInv, TypeOK, NoReaders, Readers, Fiber
<1>2. commit' = commit /\ opened' = opened /\ Alone(q) /\ ref' = ref
  BY <1>1 DEF ReadersInv, TypeOK, Alone, Request, UseReaders, Fail
<1>3. /\ pc'[q] \notin Holding \cup {"close", "swap", "open"}
      /\ pc'[q] # "idle" => stage'[q] \in SearchStage
      /\ TypeOK'
  <2> USE <1>1 DEF ReadersInv, TypeOK, Phase
  <2>1. CASE Request(q)
    <3>1. stage'[q] \in {"top", "suggest"} /\ stage' = [stage EXCEPT ![q] = stage'[q]]
      BY <2>1 DEF Request
    <3> QED BY <2>1, <3>1 DEF Request, Holding, SearchStage
  <2>2. CASE UseReaders(q)
    <3>1. Opened(mine[q]) /\ stage[q] \in SearchStage
      BY <2>2 DEF UseReaders, Holding
    <3>2. CASE Fail(q) /\ UNCHANGED <<stage, seen>>
      <4>1. /\ pc' \in [Fiber -> Phase] /\ mine' \in [Fiber -> Readers]
            /\ pc'[q] \in {"idle", "dead"}
        BY <3>2 DEF Fail
      <4> QED BY <2>2, <3>1, <3>2, <4>1 DEF UseReaders, Holding
    <3>3. CASE /\ \/ seen' = [seen EXCEPT ![q] = @ \cup {<<stage[q], mine[q].gen>>}]
                  \/ stage[q] = "agg" /\ UNCHANGED seen
               /\ stage' = [stage EXCEPT ![q] = NextStage[@]]
               /\ Goto(q, IF stage[q] \in {"fetch", "suggest"} THEN "idle" ELSE "get")
               /\ UNCHANGED mine
      <4>1. seen' \in [Queries -> SUBSET (SearchStage \X (1..MaxCommits))]
        BY <3>1, <3>3 DEF Opened
      <4>2. /\ NextStage[stage[q]] \in {"agg", "fetch", "done"}
            /\ stage[q] \notin {"fetch", "suggest"} => NextStage[stage[q]] \in {"agg", "fetch"}
        BY <3>1 DEF SearchStage, NextStage
      <4> QED BY <2>2, <3>3, <4>1, <4>2 DEF UseReaders, Holding, SearchStage
    <3> QED BY <2>2, <3>2, <3>3 DEF UseReaders
  <2> QED BY <2>1, <2>2
<1>5. commit <= commit' /\ opened <= opened'
  BY <1>1, <1>2
<1>6. start' = start /\ pc'[q] \notin {"pull", "torn"}
  BY <1>1 DEF ReadersInv, TypeOK, Request, UseReaders, Fail
<1> QED BY <1>1, <1>2, <1>3, <1>5, <1>6, FiberKeepsReaders

\* Every step keeps the invariant.
LEMMA ReadersNext == ReadersInv /\ [Next]_vars => ReadersInv'
<1> SUFFICES ASSUME ReadersInv, [Next]_vars PROVE ReadersInv'
  OBVIOUS
<1>1. CASE UNCHANGED vars
  BY <1>1 DEF ReadersInv, TypeOK, Opened, vars, indexVars, readerVars
<1>2. ASSUME NEW f \in Syncers, FlushBegins(f) \/ Pull(f) \/ SyncerStep(f) PROVE ReadersInv'
  <2>1. f \in Fiber
    BY DEF Fiber
  <2> QED BY <1>2, <2>1, IndexStep, GettingStep, SyncStep DEF SyncerStep, ReadersStep
<1>3. ASSUME NEW q \in Queries, Request(q) \/ QueryStep(q) PROVE ReadersInv'
  <2>1. q \in Fiber
    BY DEF Fiber
  <2> QED BY <1>3, <2>1, GettingStep, SearchStep DEF QueryStep, ReadersStep
<1> QED BY <1>1, <1>2, <1>3 DEF Next

\* The readers invariant holds in every state of the searcher.
THEOREM ReadersInvariant == Spec => []ReadersInv
  BY ReadersInit, ReadersNext, PTL DEF Spec

\* Every variable of the searcher keeps its shape: a search only ever looks at
\* commits, and only readers that were opened are closed (Searcher.scala).
THEOREM TypeCorrect == Spec => []TypeOK
<1>1. ReadersInv => TypeOK
  BY DEF ReadersInv
<1> QED BY <1>1, ReadersInvariant, PTL

-----------------------------------------------------------------------------
(* That a reader of the last commit is never closed.  A fiber closes the    *)
(* readers it looked at some time ago, so what has to be known is about all *)
(* readers any fiber holds: equal identity means equal commit, and those    *)
(* about to be closed are of a commit that was not the last.                *)

Held == {NoReaders, ref} \cup {mine[a] : a \in Fiber} \cup {fresh[a] : a \in Fiber}

CloseInv ==
  /\ \A r \in Held : r.id \in 0..opened /\ r.gen \in 0..commit
  /\ \A r, t \in Held : r.id = t.id => r.gen = t.gen
  /\ \A r \in Held : r.id \in closed => r.gen < commit
  /\ \A a \in Fiber : pc[a] = "close" => mine[a].gen < commit

\* Some fiber, or the Ref, has the reader r already.
Known(r) == \E t \in Held : r.id = t.id /\ r.gen = t.gen

\* Readers are opened on the last commit, as a new identity, and closed only
\* when they are of an older one.
Reloading ==
  /\ commit' \in Nat /\ commit <= commit'
  /\ \/ opened' = opened /\ \A r \in Held' : Known(r)
     \/ /\ opened' = opened + 1 /\ commit' = commit
        /\ \A r \in Held' : Known(r) \/ (r.id = opened + 1 /\ r.gen = commit)
  /\ \/ closed' = closed
     \/ \E t \in Held : t.gen < commit /\ closed' = closed \cup {t.id}
  /\ \A a \in Fiber : pc'[a] = "close" => mine'[a].gen < commit'

LEMMA ReloadingKeeps ==
  ASSUME ReadersInv, CloseInv, Reloading
  PROVE  CloseInv'
<1>1. commit \in Nat /\ opened \in Nat /\ closed \subseteq 1..opened
  BY SearcherAssumption DEF ReadersInv, TypeOK
<1> USE DEF Known
<1>2. CASE opened' = opened /\ \A r \in Held' : Known(r)
  <2>1. \A r \in Held' : r.id \in 0..opened' /\ r.gen \in 0..commit'
    BY <1>1, <1>2 DEF CloseInv, Reloading
  <2>2. \A r, t \in Held' : r.id = t.id => r.gen = t.gen
    BY <1>2 DEF CloseInv
  <2>3. \A r \in Held' : r.id \in closed' => r.gen < commit'
    <3> SUFFICES ASSUME NEW r \in Held', r.id \in closed' PROVE r.gen < commit'
      OBVIOUS
    <3>1. PICK t \in Held : r.id = t.id /\ r.gen = t.gen
      BY <1>2
    <3>2. t.gen < commit
      BY <3>1 DEF CloseInv, Reloading
    <3> QED BY <1>1, <3>1, <3>2 DEF CloseInv, Reloading
  <2> QED BY <2>1, <2>2, <2>3 DEF CloseInv, Reloading
<1>3. CASE /\ opened' = opened + 1 /\ commit' = commit
           /\ \A r \in Held' : Known(r) \/ (r.id = opened + 1 /\ r.gen = commit)
  <2>1. \A r \in Held' : r.id \in 0..opened' /\ r.gen \in 0..commit'
    BY <1>1, <1>3 DEF CloseInv
  <2>2. \A r \in Held' : r.id = opened + 1 => r.gen = commit
    BY <1>1, <1>3 DEF CloseInv
  <2>3. \A r, t \in Held' : r.id = t.id => r.gen = t.gen
    <3> SUFFICES ASSUME NEW r \in Held', NEW t \in Held', r.id = t.id PROVE r.gen = t.gen
      OBVIOUS
    <3>1. CASE r.id = opened + 1
      BY <2>2, <3>1
    <3>2. CASE r.id # opened + 1
      BY <1>3, <3>2 DEF CloseInv
    <3> QED BY <3>1, <3>2
  <2>4. \A r \in Held' : r.id \in closed' => r.gen < commit'
    <3> SUFFICES ASSUME NEW r \in Held', r.id \in closed' PROVE r.gen < commit'
      OBVIOUS
    <3>1. CASE r.id = opened + 1
      <4>1. r.id \notin closed
        BY <1>1, <3>1
      <4>2. \A t \in Held : r.id # t.id
        BY <1>1, <3>1 DEF CloseInv
      <4> QED BY <4>1, <4>2 DEF Reloading
    <3>2. CASE r.id # opened + 1
      <4>1. PICK t \in Held : r.id = t.id /\ r.gen = t.gen
        BY <1>3, <3>2
      <4>2. t.gen < commit
        BY <4>1 DEF CloseInv, Reloading
      <4> QED BY <1>3, <4>1, <4>2
    <3> QED BY <3>1, <3>2
  <2> QED BY <2>1, <2>3, <2>4 DEF CloseInv, Reloading
<1> QED BY <1>2, <1>3 DEF Reloading

\* Steps that open no reader: it is enough to look at what the fiber holds.
LEMMA NothingOpened ==
  ASSUME ReadersInv, CloseInv, NEW a \in Fiber, Alone(a),
         commit' \in Nat, commit <= commit', opened' = opened,
         closed' = closed \/ \E t \in Held : t.gen < commit /\ closed' = closed \cup {t.id},
         Known(ref'), Known(mine'[a]), Known(fresh'[a]), pc'[a] # "close"
  PROVE  Reloading
<1>1. Known(NoReaders) /\ \A b \in Fiber : Known(mine[b]) /\ Known(fresh[b])
  BY DEF Known, Held
<1>2. \A b \in Fiber : Known(mine'[b]) /\ Known(fresh'[b])
  BY <1>1 DEF Alone
<1>3. \A r \in Held' : Known(r)
  BY <1>1, <1>2 DEF Held
<1>4. \A b \in Fiber : pc'[b] = "close" => mine'[b].gen < commit'
  <2> SUFFICES ASSUME NEW b \in Fiber, pc'[b] = "close" PROVE mine'[b].gen < commit'
    OBVIOUS
  <2>1. pc[b] = "close" /\ mine'[b] = mine[b]
    BY DEF Alone
  <2>2. mine[b].gen < commit /\ mine[b].gen \in Nat /\ commit \in Nat
    BY <2>1, SearcherAssumption DEF CloseInv, ReadersInv, TypeOK, Readers
  <2> QED BY <2>1, <2>2
<1> QED BY <1>3, <1>4 DEF Reloading

\* The steps that open a reader.
LEMMA OneOpened ==
  ASSUME ReadersInv, CloseInv, NEW a \in Fiber, Alone(a),
         commit' = commit, opened' = opened + 1, closed' = closed, ref' = ref,
         Known(mine'[a]) \/ (mine'[a].id = opened + 1 /\ mine'[a].gen = commit),
         Known(fresh'[a]) \/ (fresh'[a].id = opened + 1 /\ fresh'[a].gen = commit),
         pc'[a] = "close" => mine'[a].gen < commit
  PROVE  Reloading
<1>1. Known(NoReaders) /\ Known(ref) /\ \A b \in Fiber : Known(mine[b]) /\ Known(fresh[b])
  BY DEF Known, Held
<1>2. \A r \in Held' : Known(r) \/ (r.id = opened + 1 /\ r.gen = commit)
  BY <1>1 DEF Held, Alone
<1>3. \A b \in Fiber : pc'[b] = "close" => mine'[b].gen < commit'
  BY DEF Alone, CloseInv
<1>4. commit \in Nat
  BY SearcherAssumption DEF ReadersInv, TypeOK
<1> QED BY <1>2, <1>3, <1>4 DEF Reloading

\* Every step opens and closes readers that way.
LEMMA NextReloads ==
  ASSUME ReadersInv, CloseInv, Next
  PROVE  Reloading
<1> USE DEF Goto, Serve, indexVars, readerVars
<1>1. /\ commit \in Nat /\ opened \in Nat /\ NoReaders \in Readers
      /\ pc \in [Fiber -> Phase] /\ mine \in [Fiber -> Readers] /\ fresh \in [Fiber -> Readers]
      /\ stage \in [Fiber -> SyncStage \cup SearchStage \cup {"done"}]
  BY SearcherAssumption DEF ReadersInv, TypeOK, NoReaders, Readers
<1>2. Known(NoReaders) /\ Known(ref) /\ \A b \in Fiber : Known(mine[b]) /\ Known(fresh[b])
  BY DEF Known, Held
<1>3. ASSUME NEW f \in Syncers,
             \/ FlushBegins(f) \/ Pull(f) \/ PullDone(f) \/ PullFails(f) \/ WriteManifest(f) \/ Merge(f)
             \/ ReadManifest(f) \/ SetSeqnum(f)
      PROVE  Reloading
  <2> USE <1>3 DEF FlushBegins, Pull, PullDone, PullFails, WriteManifest, Merge, ReadManifest, SetSeqnum, Fail
  <2>1. f \in Fiber /\ Alone(f) /\ pc'[f] # "close"
    BY <1>1 DEF Fiber, Alone
  <2>2. commit' \in Nat /\ commit <= commit'
    BY <1>1
  <2>3. opened' = opened /\ closed' = closed /\ ref' = ref /\ fresh' = fresh
    OBVIOUS
  <2>4. mine'[f] \in {mine[f], NoReaders}
    BY <1>1, <2>1
  <2> QED BY <1>2, <2>1, <2>2, <2>3, <2>4, NothingOpened
<1>4. ASSUME NEW a \in Fiber, ReadersStep(a) PROVE Reloading
  <2>1. Alone(a) /\ pc'[a] # "close" /\ commit' = commit /\ fresh' = fresh /\ closed' = closed
    BY <1>1, <1>4 DEF ReadersStep, Alone, GetReaders, OpenReader, StampReader, InstallReader, Fail
  <2>2. CASE OpenReader(a)
    <3>1. ref' = ref
      BY <2>2 DEF OpenReader
    <3>2. CASE /\ opened' = opened + 1
               /\ mine' = [mine EXCEPT ![a] = [id |-> opened + 1, gen |-> commit, seq |-> 0]]
      <4>1. mine'[a].id = opened + 1 /\ mine'[a].gen = commit
        BY <1>1, <3>2
      <4> QED BY <1>2, <2>1, <3>1, <3>2, <4>1, OneOpened
    <3>3. CASE Fail(a) /\ UNCHANGED opened
      <4>1. mine'[a] = NoReaders
        BY <1>1, <3>3 DEF Fail
      <4> QED BY <1>1, <1>2, <2>1, <3>1, <3>3, <4>1, NothingOpened
    <3> QED BY <2>2, <3>2, <3>3 DEF OpenReader
  <2>3. CASE GetReaders(a)
    <3>1. opened' = opened /\ ref' = ref /\ mine'[a] \in {ref, mine[a], NoReaders}
      BY <1>1, <2>3 DEF GetReaders, Fail
    <3> QED BY <1>1, <1>2, <2>1, <3>1, NothingOpened
  <2>4. CASE StampReader(a)
    <3>1. /\ opened' = opened /\ ref' = ref
          /\ mine'[a].id = mine[a].id /\ mine'[a].gen = mine[a].gen
      BY <1>1, <2>4 DEF StampReader, Readers
    <3>2. Known(mine'[a])
      BY <1>2, <3>1 DEF Known
    <3> QED BY <1>1, <1>2, <2>1, <3>1, <3>2, NothingOpened
  <2>5. CASE InstallReader(a)
    <3>1. opened' = opened /\ ref' = mine[a] /\ mine' = mine
      BY <2>5 DEF InstallReader
    <3> QED BY <1>1, <1>2, <2>1, <3>1, NothingOpened
  <2> QED BY <1>4, <2>2, <2>3, <2>4, <2>5 DEF ReadersStep
<1>5. ASSUME NEW f \in Syncers, CompareSeqnum(f) \/ Reopen(f) \/ CloseOld(f) \/ SwapReaders(f)
      PROVE  Reloading
  <2>1. f \in Fiber /\ Alone(f) /\ commit' = commit
    BY <1>1, <1>5 DEF Fiber, Alone, CompareSeqnum, Reopen, CloseOld, SwapReaders, Fail
  <2>2. CASE CompareSeqnum(f)
    <3>1. /\ opened' = opened /\ ref' = ref /\ closed' = closed /\ mine' = mine /\ fresh' = fresh
          /\ pc'[f] # "close"
      BY <1>1, <2>1, <2>2 DEF CompareSeqnum
    <3> QED BY <1>1, <1>2, <2>1, <3>1, NothingOpened
  <2>3. CASE Reopen(f)
    <3>1. ref' = ref /\ closed' = closed
      BY <2>3 DEF Reopen
    <3>2. CASE Fail(f) /\ UNCHANGED <<opened, fresh>>
      <4>1. /\ opened' = opened /\ fresh' = fresh /\ mine'[f] = NoReaders
            /\ pc'[f] # "close"
        BY <1>1, <2>1, <3>2 DEF Fail
      <4> QED BY <1>1, <1>2, <2>1, <3>1, <4>1, NothingOpened
    <3>3. CASE /\ fresh' = [fresh EXCEPT ![f] = [mine[f] EXCEPT !.seq = target[f]]]
               /\ Goto(f, "swap") /\ UNCHANGED <<opened, mine>>
      <4>1. /\ opened' = opened /\ mine' = mine /\ pc'[f] # "close"
            /\ fresh'[f].id = mine[f].id /\ fresh'[f].gen = mine[f].gen
        BY <1>1, <2>1, <3>3 DEF Readers
      <4>2. Known(fresh'[f])
        BY <1>2, <2>1, <4>1 DEF Known
      <4> QED BY <1>1, <1>2, <2>1, <3>1, <4>1, <4>2, NothingOpened
    <3>4. CASE /\ mine[f].id \notin closed /\ mine[f].gen # commit
               /\ opened' = opened + 1
               /\ fresh' = [fresh EXCEPT ![f] = [id |-> opened + 1, gen |-> commit, seq |-> target[f]]]
               /\ Goto(f, "close") /\ UNCHANGED mine
      <4>1. /\ opened' = opened + 1 /\ mine' = mine
            /\ fresh'[f].id = opened + 1 /\ fresh'[f].gen = commit
        BY <1>1, <2>1, <3>4
      <4>2. mine[f].gen < commit
        BY <1>1, <2>1, <3>4 DEF CloseInv, Held
      <4> QED BY <1>2, <2>1, <3>1, <4>1, <4>2, OneOpened
    <3> QED BY <2>3, <3>2, <3>3, <3>4 DEF Reopen
  <2>4. CASE CloseOld(f)
    <3>1. /\ opened' = opened /\ ref' = ref /\ mine' = mine /\ fresh' = fresh
          /\ pc'[f] # "close" /\ closed' = closed \cup {mine[f].id}
      BY <1>1, <2>1, <2>4 DEF CloseOld
    <3>2. mine[f] \in Held /\ mine[f].gen < commit
      BY <2>1, <2>4 DEF CloseOld, CloseInv, Held
    <3> QED BY <1>1, <1>2, <2>1, <3>1, <3>2, NothingOpened
  <2>5. CASE SwapReaders(f)
    <3>1. /\ opened' = opened /\ ref' = fresh[f] /\ mine' = mine /\ fresh' = fresh
          /\ pc'[f] # "close" /\ closed' = closed
      BY <1>1, <2>1, <2>5 DEF SwapReaders
    <3> QED BY <1>1, <1>2, <2>1, <3>1, NothingOpened
  <2> QED BY <1>5, <2>2, <2>3, <2>4, <2>5
<1>6. ASSUME NEW q \in Queries, Request(q) \/ UseReaders(q) PROVE Reloading
  <2>1. /\ q \in Fiber /\ Alone(q) /\ commit' = commit /\ pc'[q] # "close"
        /\ opened' = opened /\ ref' = ref /\ closed' = closed /\ fresh' = fresh
        /\ mine'[q] \in {mine[q], NoReaders}
    BY <1>1, <1>6 DEF Fiber, Alone, Request, UseReaders, Fail
  <2> QED BY <1>1, <1>2, <2>1, NothingOpened
<1>7. Syncers \subseteq Fiber /\ Queries \subseteq Fiber
  BY DEF Fiber
<1> QED BY <1>3, <1>4, <1>5, <1>6, <1>7 DEF Next, SyncerStep, QueryStep

LEMMA CloseInit == Init => CloseInv
<1> SUFFICES ASSUME Init PROVE CloseInv
  OBVIOUS
<1>1. \A r \in Held : r = NoReaders
  BY DEF Held, Init
<1>2. commit \in Nat /\ opened = 0 /\ closed = {}
  BY SearcherAssumption DEF Init
<1>3. \A a \in Fiber : pc[a] = "idle"
  BY DEF Init
<1> QED BY <1>1, <1>2, <1>3 DEF CloseInv, NoReaders

\* However many fibers reload the searcher, and however they overlap with each
\* other and with the first requests, a reader of the last commit is never
\* closed (Readers.reopen).
THEOREM CurrentReaderStaysOpen == Spec => []CurrentReaderIsOpen
<1>1. ReadersInv /\ CloseInv /\ [Next]_vars => CloseInv'
  <2> SUFFICES ASSUME ReadersInv, CloseInv, [Next]_vars PROVE CloseInv'
    OBVIOUS
  <2>1. CASE Next
    BY <2>1, NextReloads, ReloadingKeeps
  <2>2. CASE UNCHANGED vars
    BY <2>2 DEF CloseInv, Held, vars, indexVars, readerVars
  <2> QED BY <2>1, <2>2
<1>2. CloseInv => CurrentReaderIsOpen
  BY DEF CloseInv, Held, CurrentReaderIsOpen
<1> QED BY <1>1, <1>2, CloseInit, ReadersInvariant, PTL DEF Spec

-----------------------------------------------------------------------------
(* Fibers that synchronize the searcher one at a time.  So does the only    *)
(* one of search mode, and of an index without POST _flush; requests do     *)
(* when each is sent after the last was answered and between two ticks of   *)
(* the periodic flush.                                                      *)

\* What the syncers do does not overlap.
OneAtATime == \A f, g \in Syncers : f # g => Quiet(f) \/ Quiet(g)

\* Nobody synchronizes but f, if anybody does.
Only(f) == \A g \in Syncers \ {f} : Quiet(g)

\* The steps that a syncer may take, and those of the requests.
Works(f) == FlushBegins(f) \/ Pull(f) \/ SyncerStep(f)
Searches == \E q \in Queries : Request(q) \/ QueryStep(q)

\* With a single syncer they never overlap.
LEMMA OneSyncer ==
  ASSUME NEW f, Syncers = {f}
  PROVE  OneAtATime
  BY DEF OneAtATime

LEMMA OneIsOnly ==
  ASSUME OneAtATime, Syncers # {}
  PROVE  \E f \in Syncers : Only(f)
  BY DEF OneAtATime, Only

\* A syncer that takes a step is at work before it, or begins its work with it,
\* and leaves the other syncers where they are.
LEMMA SyncerWorks ==
  ASSUME TypeOK, NEW f \in Syncers, Works(f)
  PROVE  /\ ~Quiet(f) \/ ~Quiet(f)'
         /\ \A g \in Fiber \ {f} : pc'[g] = pc[g]
<1>1. f \in Fiber /\ pc \in [Fiber -> Phase]
  BY DEF Fiber, TypeOK
<1> QED
  BY <1>1 DEF Works, FlushBegins, Pull, SyncerStep, PullDone, PullFails, WriteManifest, Merge, ReadManifest, SetSeqnum,
              ReadersStep, GetReaders, OpenReader, StampReader, InstallReader, CompareSeqnum,
              Reopen, CloseOld, SwapReaders, Goto, Fail, Quiet

LEMMA SearchesLeaveSyncers ==
  ASSUME TypeOK, Searches
  PROVE  \A f \in Syncers : pc'[f] = pc[f]
<1>1. PICK q \in Queries : Request(q) \/ QueryStep(q)
  BY DEF Searches
<1>2. q \in Fiber /\ pc \in [Fiber -> Phase] /\ \A f \in Syncers : f \in Fiber /\ f # q
  BY SearcherAssumption DEF Fiber, TypeOK
<1> QED
  BY <1>1, <1>2 DEF Request, QueryStep, UseReaders, ReadersStep, GetReaders, OpenReader,
                    StampReader, InstallReader, Goto, Fail

\* Who steps, when f alone is at work afterwards, or nobody: f or a request, and
\* f was alone before; or another syncer, which ends its work with the step.
LEMMA SyncersTakeTurns ==
  ASSUME TypeOK, OneAtATime, Next, NEW f \in Syncers, Only(f)'
  PROVE  \/ Only(f) /\ (Works(f) \/ Searches)
         \/ \E g \in Syncers : Only(g) /\ Works(g) /\ Quiet(f)' /\ Quiet(g)'
<1>1. \A h \in Syncers : h \in Fiber
  BY DEF Fiber
<1>2. CASE Searches
  <2>1. Only(f)
    BY <1>2, SearchesLeaveSyncers DEF Only, Quiet
  <2> QED BY <1>2, <2>1
<1>3. CASE Works(f)
  <2>1. Only(f)
    BY <1>1, <1>3, SyncerWorks DEF Only, Quiet
  <2> QED BY <1>3, <2>1
<1>4. ASSUME NEW g \in Syncers \ {f}, Works(g)
      PROVE  Only(g) /\ Works(g) /\ Quiet(f)' /\ Quiet(g)'
  <2>1. Quiet(g)' /\ ~Quiet(g)
    BY <1>4, SyncerWorks DEF Only
  <2>2. Only(g)
    BY <2>1 DEF Only, OneAtATime
  <2>3. Quiet(f)'
    BY <1>1, <1>4, <2>2, SyncerWorks DEF Only, Quiet
  <2> QED BY <1>4, <2>1, <2>2, <2>3
<1> QED BY <1>2, <1>3, <1>4 DEF Next, Works, Searches

-----------------------------------------------------------------------------
(* What holds of the fiber that synchronizes, while no other does: it alone *)
(* closes readers, so what it holds is open, and what it is about to serve  *)
(* stays open.  A first request that lost the race has a reader that nobody *)
(* else has.                                                                *)

First == {"stamp", "install"}

OpenInv(f) ==
  /\ pc[f] # "swap" => ref.id \notin closed
  /\ pc[f] \in Holding => mine[f].id \notin closed
  /\ pc[f] \in {"close", "swap"} => fresh[f].id \notin closed
  /\ pc[f] = "close" => fresh[f].id # mine[f].id

\* A reader that is opened first is its opener's until it is installed.
FirstInv(f) ==
  \A a \in Fiber : pc[a] \in First =>
    /\ mine[a].id \notin closed /\ mine[a].id # ref.id
    /\ \A b \in Fiber \ {a} : pc[b] \in Holding => mine[b].id # mine[a].id
    /\ pc[f] \in {"close", "swap"} => fresh[f].id # mine[a].id

OneInv(f) == ReadersInv /\ OpenInv(f) /\ FirstInv(f)

\* The steps of the index and of a search leave the readers alone, and a fiber
\* that lets its readers go breaks nothing.
LEMMA ReadersStay ==
  ASSUME NEW f \in Fiber, ReadersInv', OneInv(f), NEW a \in Fiber, Alone(a),
         opened' = opened, closed' = closed, ref' = ref,
         pc[f] = "swap" => pc'[f] = "swap",
         pc'[a] \notin {"close", "swap"},
         pc'[a] \in Holding => pc[a] \in Holding /\ pc'[a] \notin First /\ mine'[a] = mine[a]
  PROVE  OneInv(f)'
<1>1. OpenInv(f)'
  BY DEF OneInv, OpenInv, Alone, Holding
<1>2. FirstInv(f)'
  BY DEF OneInv, FirstInv, Alone, Holding, First
<1> QED BY <1>1, <1>2 DEF OneInv

LEMMA IndexLeavesReaders ==
  ASSUME NEW f \in Syncers, OneInv(f), ReadersInv',
         \/ FlushBegins(f) \/ Pull(f) \/ PullDone(f) \/ PullFails(f) \/ WriteManifest(f) \/ Merge(f)
         \/ ReadManifest(f) \/ SetSeqnum(f)
  PROVE  OneInv(f)'
<1> USE DEF Goto, Serve, indexVars, readerVars
<1>1. f \in Fiber
  BY DEF Fiber
<1>2. Alone(f) /\ pc'[f] \notin Holding \cup {"close", "swap"} /\ pc[f] # "swap"
      /\ opened' = opened /\ closed' = closed /\ ref' = ref
  BY <1>1 DEF OneInv, ReadersInv, TypeOK, Alone, Holding, FlushBegins, Pull, PullDone, PullFails, WriteManifest, Merge,
              ReadManifest, SetSeqnum, Fail
<1> QED BY <1>1, <1>2, ReadersStay

LEMMA SearchLeavesReaders ==
  ASSUME NEW f \in Syncers, OneInv(f), ReadersInv', NEW q \in Queries,
         Request(q) \/ UseReaders(q)
  PROVE  OneInv(f)'
<1> USE DEF Goto, Serve, indexVars, readerVars
<1>1. f \in Fiber /\ q \in Fiber /\ q # f
  BY SearcherAssumption DEF Fiber
<1>2. Alone(q) /\ pc'[q] \notin Holding \cup {"close", "swap"} /\ pc'[f] = pc[f]
      /\ opened' = opened /\ closed' = closed /\ ref' = ref
  BY <1>1 DEF OneInv, ReadersInv, TypeOK, Alone, Holding, Request, UseReaders, Fail
<1> QED BY <1>1, <1>2, ReadersStay

\* A reader that is opened has an identity that nobody has.
LEMMA OpeningKeepsOpen ==
  ASSUME NEW f \in Syncers, OneInv(f), ReadersInv', NEW a \in Fiber, OpenReader(a)
  PROVE  OneInv(f)'
<1> USE DEF Goto, Serve, indexVars, readerVars
<1>1. /\ f \in Fiber /\ opened \in Nat /\ closed \subseteq 1..opened
      /\ pc \in [Fiber -> Phase] /\ mine \in [Fiber -> Readers]
  BY DEF Fiber, OneInv, ReadersInv, TypeOK
<1>0. /\ pc[a] = "open" /\ Alone(a) /\ ref' = ref /\ closed' = closed /\ fresh' = fresh
  BY <1>1 DEF OpenReader, Alone, OneInv, ReadersInv, TypeOK, Fail
<1> SUFFICES ASSUME /\ opened' = opened + 1
                    /\ mine' = [mine EXCEPT ![a] = [id |-> opened + 1, gen |-> commit, seq |-> 0]]
                    /\ Goto(a, "stamp")
             PROVE  OneInv(f)'
  <2>1. CASE Fail(a) /\ UNCHANGED opened
    <3>1. pc'[a] \in {"idle", "dead"}
      BY <1>1, <2>1 DEF Fail
    <3> QED BY <1>0, <1>1, <2>1, <3>1, ReadersStay DEF Holding, Alone
  <2> QED BY <2>1 DEF OpenReader
<1>2. /\ mine'[a].id = opened + 1 /\ pc[a] = "open" /\ pc'[a] = "stamp" /\ Alone(a)
      /\ ref' = ref /\ closed' = closed /\ fresh' = fresh
  BY <1>0, <1>1
<1>3. opened + 1 \notin closed /\ opened + 1 # ref.id
  BY <1>1 DEF OneInv, ReadersInv, Opened, NoReaders
<1>4. /\ \A b \in Fiber : pc[b] \in Holding => mine[b].id # opened + 1
      /\ pc[f] \in {"close", "swap"} => fresh[f].id # opened + 1
  BY <1>1 DEF OneInv, ReadersInv, Opened
<1>5. OpenInv(f)'
  <2>1. CASE a = f
    BY <1>2, <1>3, <2>1 DEF OneInv, OpenInv, Holding
  <2>2. CASE a # f
    BY <1>1, <1>2, <2>2 DEF OneInv, OpenInv, Alone, Holding
  <2> QED BY <2>1, <2>2
<1>6. FirstInv(f)'
  BY <1>1, <1>2, <1>3, <1>4 DEF OneInv, FirstInv, Alone, Holding, First
<1> QED BY <1>5, <1>6 DEF OneInv

LEMMA GettingKeepsOpen ==
  ASSUME NEW f \in Syncers, OneInv(f), ReadersInv', NEW a \in Fiber,
         GetReaders(a) \/ StampReader(a) \/ InstallReader(a)
  PROVE  OneInv(f)'
<1> USE DEF Goto, Serve, indexVars, readerVars
<1>1. /\ f \in Fiber /\ pc \in [Fiber -> Phase] /\ mine \in [Fiber -> Readers]
  BY DEF Fiber, OneInv, ReadersInv, TypeOK
<1>2. Alone(a) /\ opened' = opened /\ closed' = closed /\ fresh' = fresh
  BY DEF OneInv, ReadersInv, TypeOK, Alone, GetReaders, StampReader, InstallReader, Fail
<1>3. CASE GetReaders(a)
  <2>1. /\ ref' = ref /\ pc[a] = "get"
        /\ \/ pc'[a] = "use" /\ mine'[a] = ref
           \/ pc'[a] \in {"open", "idle", "dead"}
    BY <1>1, <1>3 DEF GetReaders, Fail
  <2>2. OpenInv(f)'
    BY <1>1, <1>2, <2>1 DEF OneInv, OpenInv, Alone, Holding
  <2>3. FirstInv(f)'
    BY <1>1, <1>2, <2>1 DEF OneInv, FirstInv, Alone, Holding, First
  <2> QED BY <2>2, <2>3 DEF OneInv
<1>4. CASE StampReader(a)
  <2>1. /\ ref' = ref /\ pc[a] = "stamp" /\ pc'[a] = "install" /\ mine'[a].id = mine[a].id
    BY <1>1, <1>4 DEF StampReader, Readers
  <2>2. OpenInv(f)'
    BY <1>1, <1>2, <2>1 DEF OneInv, OpenInv, Alone, Holding
  <2>3. FirstInv(f)'
    <3> SUFFICES ASSUME NEW b \in Fiber, pc'[b] \in First
                 PROVE  /\ mine'[b].id \notin closed /\ mine'[b].id # ref.id
                        /\ \A c \in Fiber \ {b} : pc'[c] \in Holding => mine'[c].id # mine'[b].id
                        /\ pc'[f] \in {"close", "swap"} => fresh[f].id # mine'[b].id
      BY <1>2, <2>1 DEF FirstInv
    <3>1. \A c \in Fiber : /\ mine'[c].id = mine[c].id
                           /\ pc'[c] \in Holding <=> pc[c] \in Holding
                           /\ pc'[c] \in First <=> pc[c] \in First
                           /\ pc'[c] \in {"close", "swap"} <=> pc[c] \in {"close", "swap"}
      BY <1>1, <1>2, <2>1 DEF Alone, Holding, First
    <3> QED BY <1>1, <3>1 DEF OneInv, FirstInv
  <2> QED BY <2>2, <2>3 DEF OneInv
<1>5. CASE InstallReader(a)
  <2>1. /\ ref' = mine[a] /\ pc[a] = "install" /\ pc'[a] = "use" /\ mine' = mine
    BY <1>1, <1>5 DEF InstallReader
  <2>2. mine[a].id \notin closed
    BY <2>1 DEF OneInv, FirstInv, First
  <2>3. OpenInv(f)'
    BY <1>1, <1>2, <2>1, <2>2 DEF OneInv, OpenInv, Alone, Holding
  <2>4. FirstInv(f)'
    BY <1>1, <1>2, <2>1 DEF OneInv, FirstInv, Alone, Holding, First
  <2> QED BY <2>3, <2>4 DEF OneInv
<1> QED BY <1>3, <1>4, <1>5

\* The fiber reopens a reader that is open, closes the one it holds, and serves
\* the new one.
LEMMA SyncKeepsOpen ==
  ASSUME NEW f \in Syncers, OneInv(f), ReadersInv',
         CompareSeqnum(f) \/ Reopen(f) \/ CloseOld(f) \/ SwapReaders(f)
  PROVE  OneInv(f)'
<1> USE DEF Goto, Serve, indexVars, readerVars
<1>1. /\ f \in Fiber /\ pc \in [Fiber -> Phase] /\ mine \in [Fiber -> Readers]
      /\ fresh \in [Fiber -> Readers] /\ opened \in Nat /\ closed \subseteq 1..opened
  BY DEF Fiber, OneInv, ReadersInv, TypeOK
<1>2. Alone(f)
  BY DEF OneInv, ReadersInv, TypeOK, Alone, CompareSeqnum, Reopen, CloseOld, SwapReaders, Fail
<1>3. CASE CompareSeqnum(f)
  <2>1. /\ opened' = opened /\ closed' = closed /\ ref' = ref /\ mine' = mine
        /\ pc[f] = "use" /\ pc'[f] \in {"reopen", "idle"}
    BY <1>1, <1>3 DEF CompareSeqnum
  <2> QED BY <1>1, <1>2, <2>1, ReadersStay DEF Holding, First
<1>4. CASE Reopen(f)
  <2>1. pc[f] = "reopen" /\ mine[f].id \notin closed /\ closed' = closed /\ ref' = ref
        /\ Opened(mine[f])
    BY <1>1, <1>4 DEF Reopen, OneInv, ReadersInv, OpenInv, Holding
  <2>4. CASE Fail(f) /\ UNCHANGED <<opened, fresh>>
    <3>1. pc'[f] \in {"idle", "dead"}
      BY <1>1, <2>4 DEF Fail
    <3> QED BY <1>1, <1>2, <2>1, <2>4, <3>1, ReadersStay DEF Holding
  <2>2. CASE /\ fresh' = [fresh EXCEPT ![f] = [mine[f] EXCEPT !.seq = target[f]]]
             /\ Goto(f, "swap") /\ UNCHANGED <<opened, mine>>
    <3>1. /\ pc'[f] = "swap" /\ fresh'[f].id = mine[f].id /\ mine' = mine
      BY <1>1, <2>1, <2>2 DEF Readers
    <3>2. OpenInv(f)'
      BY <1>2, <2>1, <3>1 DEF OneInv, OpenInv, Holding
    <3>3. FirstInv(f)'
      BY <1>1, <1>2, <2>1, <3>1 DEF OneInv, FirstInv, Alone, Holding, First
    <3> QED BY <3>2, <3>3 DEF OneInv
  <2>3. CASE /\ opened' = opened + 1
             /\ fresh' = [fresh EXCEPT ![f] = [id |-> opened + 1, gen |-> commit, seq |-> target[f]]]
             /\ Goto(f, "close") /\ UNCHANGED mine
    <3>1. /\ pc'[f] = "close" /\ fresh'[f].id = opened + 1 /\ mine' = mine
      BY <1>1, <2>1, <2>3
    <3>2. opened + 1 \notin closed /\ mine[f].id # opened + 1
          /\ \A a \in Fiber : pc[a] \in First => mine[a].id # opened + 1
      BY <1>1, <2>1 DEF Opened, OneInv, ReadersInv, Holding, First
    <3>3. OpenInv(f)'
      BY <1>2, <2>1, <3>1, <3>2 DEF OneInv, OpenInv, Holding
    <3>4. FirstInv(f)'
      BY <1>1, <1>2, <2>1, <3>1, <3>2 DEF OneInv, FirstInv, Alone, Holding, First
    <3> QED BY <3>3, <3>4 DEF OneInv
  <2> QED BY <1>4, <2>2, <2>3, <2>4 DEF Reopen
<1>5. CASE CloseOld(f)
  <2>1. /\ pc[f] = "close" /\ pc'[f] = "swap" /\ closed' = closed \cup {mine[f].id}
        /\ ref' = ref /\ mine' = mine /\ fresh' = fresh
    BY <1>1, <1>5 DEF CloseOld
  <2>2. OpenInv(f)'
    BY <2>1 DEF OneInv, OpenInv, Holding
  <2>3. FirstInv(f)'
    BY <1>1, <1>2, <2>1 DEF OneInv, FirstInv, Alone, Holding, First
  <2> QED BY <2>2, <2>3 DEF OneInv
<1>6. CASE SwapReaders(f)
  <2>1. /\ pc[f] = "swap" /\ pc'[f] = "idle" /\ closed' = closed
        /\ ref' = fresh[f] /\ mine' = mine /\ fresh' = fresh
    BY <1>1, <1>6 DEF SwapReaders
  <2>2. OpenInv(f)'
    BY <2>1 DEF OneInv, OpenInv, Holding
  <2>3. FirstInv(f)'
    BY <1>1, <1>2, <2>1 DEF OneInv, FirstInv, Alone, Holding, First
  <2> QED BY <2>2, <2>3 DEF OneInv
<1> QED BY <1>3, <1>4, <1>5, <1>6

LEMMA OneStep ==
  ASSUME NEW f \in Syncers, OneInv(f), ReadersInv', Works(f) \/ Searches
  PROVE  OneInv(f)'
<1>1. CASE Works(f)
  <2>1. f \in Fiber
    BY DEF Fiber
  <2> QED BY <1>1, <2>1, IndexLeavesReaders, OpeningKeepsOpen, GettingKeepsOpen, SyncKeepsOpen
          DEF Works, SyncerStep, ReadersStep
<1>2. ASSUME NEW q \in Queries, Request(q) \/ QueryStep(q) PROVE OneInv(f)'
  <2>1. q \in Fiber
    BY DEF Fiber
  <2> QED BY <1>2, <2>1, SearchLeavesReaders, OpeningKeepsOpen, GettingKeepsOpen
          DEF QueryStep, ReadersStep
<1> QED BY <1>1, <1>2 DEF Searches

LEMMA OneHandsOver ==
  ASSUME NEW f \in Syncers, NEW g \in Syncers, Quiet(f)', Quiet(g)', OneInv(g)'
  PROVE  OneInv(f)'
<1>1. OpenInv(f)'
  BY DEF OneInv, OpenInv, Quiet, Holding
<1>2. FirstInv(f)'
  BY DEF OneInv, FirstInv, Quiet
<1> QED BY <1>1, <1>2 DEF OneInv

AloneInv == ReadersInv /\ \A f \in Syncers : Only(f) => OneInv(f)

LEMMA AloneNext == AloneInv /\ OneAtATime /\ [Next]_vars => AloneInv'
<1> SUFFICES ASSUME AloneInv, OneAtATime, [Next]_vars PROVE AloneInv'
  OBVIOUS
<1>1. ReadersInv'
  BY ReadersNext DEF AloneInv
<1> SUFFICES ASSUME NEW f \in Syncers, Only(f)' PROVE OneInv(f)'
  BY <1>1 DEF AloneInv
<1>2. CASE UNCHANGED vars
  BY <1>1, <1>2 DEF AloneInv, Only, Quiet, OneInv, OpenInv, FirstInv, vars, readerVars
<1>3. CASE Next
  <2>1. CASE Only(f) /\ (Works(f) \/ Searches)
    BY <1>1, <2>1, OneStep DEF AloneInv
  <2>2. ASSUME NEW g \in Syncers, Only(g), Works(g), Quiet(f)', Quiet(g)'
        PROVE  OneInv(f)'
    <3>1. OneInv(g)'
      BY <1>1, <2>2, OneStep DEF AloneInv
    <3> QED BY <2>2, <3>1, OneHandsOver
  <2>3. TypeOK
    BY DEF AloneInv, ReadersInv
  <2> QED BY <1>3, <2>1, <2>2, <2>3, SyncersTakeTurns
<1> QED BY <1>2, <1>3

LEMMA OneInit ==
  ASSUME NEW f \in Syncers
  PROVE  Init => OneInv(f)
<1> SUFFICES ASSUME Init PROVE OneInv(f)
  OBVIOUS
<1>1. closed = {} /\ \A a \in Fiber : pc[a] = "idle"
  BY DEF Init
<1>2. pc[f] = "idle"
  BY <1>1 DEF Fiber
<1> QED BY <1>1, <1>2, ReadersInit DEF OneInv, OpenInv, FirstInv, First, Holding

LEMMA AloneInvariant == Spec /\ []OneAtATime => []AloneInv
<1>1. Init => AloneInv
  BY ReadersInit, OneInit DEF AloneInv
<1> QED BY <1>1, AloneNext, PTL DEF Spec

\* When the fibers that reload the searcher do so one at a time, every request but
\* those between the close and the swap is given an open reader, however many
\* first requests race each other and it (Readers.reopen, getReadersOrFail).
THEOREM ServedReaderStaysOpen ==
  ASSUME Syncers # {}
  PROVE  Spec /\ []OneAtATime => []ServedReaderIsOpen
<1>1. AloneInv /\ OneAtATime => ServedReaderIsOpen
  <2> SUFFICES ASSUME AloneInv, OneAtATime PROVE ServedReaderIsOpen
    OBVIOUS
  <2>1. PICK f \in Syncers : Only(f)
    BY OneIsOnly
  <2> QED BY <2>1 DEF AloneInv, OneInv, OpenInv, ServedReaderIsOpen
<1> QED BY <1>1, AloneInvariant, PTL

-----------------------------------------------------------------------------
(* How many readers are open.  A first request may open one as long as the  *)
(* Ref has none, and no fiber does it twice: those that still may are fewer *)
(* by one for every reader that is opened so.  The fiber that reloads opens *)
(* one for every one that it closes.  Of the syncers only the one at work   *)
(* counts: when it is done and has opened no reader, the next takes its     *)
(* place.                                                                   *)

MayOpenFirst(a) == pc[a] = "open" \/ (ref = NoReaders /\ pc[a] \notin First)

MayOpen(f) == {a \in Queries \cup {f} : MayOpenFirst(a)}

CountInv(f) ==
  opened + Cardinality(MayOpen(f))
    <= Cardinality(closed) + Cardinality(Queries) + (IF pc[f] = "close" THEN 2 ELSE 1)

\* What a step does to the numbers of readers opened and closed.
LEMMA CountKeeps ==
  ASSUME NEW f, IsFiniteSet(Queries), TypeOK, CountInv(f), MayOpen(f)' \subseteq MayOpen(f),
         \/ opened' = opened /\ closed' = closed /\ (pc[f] = "close" => pc'[f] = "close")
         \/ /\ opened' = opened + 1 /\ closed' = closed /\ MayOpen(f)' # MayOpen(f)
            /\ pc[f] = "close" => pc'[f] = "close"
         \/ opened' = opened + 1 /\ closed' = closed /\ pc[f] # "close" /\ pc'[f] = "close"
         \/ /\ opened' = opened /\ \E x \in 1..opened : x \notin closed /\ closed' = closed \cup {x}
  PROVE  CountInv(f)'
<1>1. opened \in Nat /\ closed \subseteq 1..opened
  BY DEF TypeOK
<1>2. IsFiniteSet(1..opened)
  BY <1>1, FS_Interval, 1 \in Int, opened \in Int
<1>3. IsFiniteSet(closed) /\ Cardinality(closed) \in Nat
  BY <1>1, <1>2, FS_Subset, FS_CardinalityType
<1>4. /\ IsFiniteSet(MayOpen(f)) /\ Cardinality(MayOpen(f)) \in Nat
      /\ Cardinality(Queries) \in Nat
  BY FS_AddElement, FS_Subset, FS_CardinalityType DEF MayOpen
<1>5. /\ Cardinality(MayOpen(f)') \in Nat /\ Cardinality(MayOpen(f)') <= Cardinality(MayOpen(f))
      /\ MayOpen(f)' # MayOpen(f) => Cardinality(MayOpen(f)') < Cardinality(MayOpen(f))
  <2> HIDE DEF MayOpen
  <2>1. IsFiniteSet(MayOpen(f)')
    BY <1>4, FS_Subset
  <2> QED BY <1>4, <2>1, FS_Subset, FS_CardinalityType
<1> HIDE DEF MayOpen
<1>6. CASE opened' = opened /\ closed' = closed /\ (pc[f] = "close" => pc'[f] = "close")
  BY <1>1, <1>3, <1>4, <1>5, <1>6 DEF CountInv
<1>7. CASE /\ opened' = opened + 1 /\ closed' = closed /\ MayOpen(f)' # MayOpen(f)
           /\ pc[f] = "close" => pc'[f] = "close"
  BY <1>1, <1>3, <1>4, <1>5, <1>7 DEF CountInv
<1>8. CASE opened' = opened + 1 /\ closed' = closed /\ pc[f] # "close" /\ pc'[f] = "close"
  BY <1>1, <1>3, <1>4, <1>5, <1>8 DEF CountInv
<1>9. CASE opened' = opened /\ \E x \in 1..opened : x \notin closed /\ closed' = closed \cup {x}
  <2>1. Cardinality(closed') = Cardinality(closed) + 1
    BY <1>3, <1>9, FS_AddElement
  <2> QED BY <1>1, <1>3, <1>4, <1>5, <1>9, <2>1 DEF CountInv
<1> QED BY <1>6, <1>7, <1>8, <1>9

\* Nobody becomes one who may open a reader.
LEMMA MayOpenShrinks ==
  ASSUME NEW f \in Syncers, NEW a \in Queries \cup {f}, Alone(a), ref' = NoReaders => ref = NoReaders,
         pc'[a] = "open" => pc[a] = "open" \/ (ref = NoReaders /\ pc[a] \notin First),
         pc[a] \in First => pc'[a] \in First \/ ref' # NoReaders
  PROVE  MayOpen(f)' \subseteq MayOpen(f)
  BY DEF MayOpen, MayOpenFirst, Alone, Fiber

LEMMA CountStep ==
  ASSUME NEW f \in Syncers, IsFiniteSet(Queries), OneInv(f), CountInv(f), Works(f) \/ Searches
  PROVE  CountInv(f)'
<1> USE DEF Goto, Serve, indexVars, readerVars
<1>1. /\ f \in Fiber /\ pc \in [Fiber -> Phase] /\ mine \in [Fiber -> Readers]
      /\ fresh \in [Fiber -> Readers] /\ opened \in Nat /\ TypeOK
  BY DEF Fiber, OneInv, ReadersInv, TypeOK
<1>2. ASSUME NEW r, Opened(r) PROVE r # NoReaders
  BY <1>1, <1>2 DEF Opened, NoReaders
<1>3. CASE \/ FlushBegins(f) \/ Pull(f) \/ PullDone(f) \/ PullFails(f) \/ WriteManifest(f) \/ Merge(f)
           \/ ReadManifest(f) \/ SetSeqnum(f)
  <2>1. Alone(f) /\ pc[f] \notin First \cup {"close"} /\ pc'[f] # "open"
        /\ opened' = opened /\ closed' = closed /\ ref' = ref
    BY <1>1, <1>3 DEF OneInv, ReadersInv, TypeOK, Alone, First, FlushBegins, Pull, PullDone, PullFails, WriteManifest,
                      Merge, ReadManifest, SetSeqnum, Fail
  <2>2. MayOpen(f)' \subseteq MayOpen(f)
    BY <1>1, <2>1, MayOpenShrinks
  <2> QED BY <1>1, <2>1, <2>2, CountKeeps
<1>4. ASSUME NEW q \in Queries, Request(q) \/ UseReaders(q) PROVE CountInv(f)'
  <2>1. q \in Fiber /\ q # f
    BY <1>4, SearcherAssumption DEF Fiber
  <2>2. Alone(q) /\ pc[q] \notin First /\ pc'[q] # "open" /\ pc'[f] = pc[f]
        /\ opened' = opened /\ closed' = closed /\ ref' = ref
    BY <1>1, <1>4, <2>1 DEF OneInv, ReadersInv, TypeOK, Alone, First, Request, UseReaders, Fail
  <2>3. MayOpen(f)' \subseteq MayOpen(f)
    BY <2>1, <2>2, MayOpenShrinks
  <2> QED BY <1>1, <2>2, <2>3, CountKeeps
<1>5. ASSUME NEW a \in Queries \cup {f}, ReadersStep(a) PROVE CountInv(f)'
  <2>1. a \in Fiber /\ Alone(a) /\ closed' = closed
    BY <1>1, <1>5 DEF ReadersStep, GetReaders, OpenReader, StampReader, InstallReader, Fail, Alone,
                      OneInv, ReadersInv, TypeOK, Fiber
  <2>2. CASE GetReaders(a)
    <3>1. /\ opened' = opened /\ ref' = ref /\ pc[a] = "get"
          /\ pc'[a] = "open" => ref = NoReaders
      BY <1>1, <2>2 DEF GetReaders, Fail
    <3>2. MayOpen(f)' \subseteq MayOpen(f) /\ (pc[f] = "close" => pc'[f] = "close")
      BY <1>1, <1>5, <2>1, <3>1, MayOpenShrinks DEF First, Alone
    <3> QED BY <1>1, <2>1, <3>1, <3>2, CountKeeps
  <2>3. CASE OpenReader(a)
    <3>1. ref' = ref /\ pc[a] = "open" /\ pc'[a] \in {"stamp", "idle", "dead"}
      BY <1>1, <2>1, <2>3 DEF OpenReader, Fail
    <3>2. MayOpen(f)' \subseteq MayOpen(f) /\ (pc[f] = "close" => pc'[f] = "close")
      BY <1>1, <1>5, <2>1, <3>1, MayOpenShrinks DEF First, Alone
    <3>3. CASE opened' = opened + 1 /\ pc'[a] = "stamp"
      <4>1. a \in MayOpen(f) /\ a \notin MayOpen(f)'
        BY <3>1, <3>3 DEF MayOpen, MayOpenFirst, First
      <4> QED BY <1>1, <2>1, <3>1, <3>2, <3>3, <4>1, CountKeeps
    <3>4. CASE opened' = opened
      BY <1>1, <2>1, <3>1, <3>2, <3>4, CountKeeps
    <3> QED BY <1>1, <2>1, <2>3, <3>3, <3>4 DEF OpenReader
  <2>4. CASE StampReader(a)
    <3>1. /\ opened' = opened /\ ref' = ref /\ pc[a] = "stamp" /\ pc'[a] = "install"
      BY <1>1, <2>1, <2>4 DEF StampReader
    <3>2. MayOpen(f)' \subseteq MayOpen(f) /\ (pc[f] = "close" => pc'[f] = "close")
      BY <1>1, <1>5, <2>1, <3>1, MayOpenShrinks DEF First, Alone
    <3> QED BY <1>1, <2>1, <3>1, <3>2, CountKeeps
  <2>5. CASE InstallReader(a)
    <3>1. /\ opened' = opened /\ ref' = mine[a] /\ pc[a] = "install" /\ pc'[a] = "use"
      BY <1>1, <2>1, <2>5 DEF InstallReader
    <3>2. ref' # NoReaders
      BY <1>2, <2>1, <3>1 DEF OneInv, ReadersInv, Holding
    <3>3. MayOpen(f)' \subseteq MayOpen(f) /\ (pc[f] = "close" => pc'[f] = "close")
      BY <1>1, <1>5, <2>1, <3>1, <3>2, MayOpenShrinks DEF First, Alone
    <3> QED BY <1>1, <2>1, <3>1, <3>3, CountKeeps
  <2> QED BY <1>5, <2>2, <2>3, <2>4, <2>5 DEF ReadersStep
<1>6. CASE CompareSeqnum(f) \/ Reopen(f) \/ CloseOld(f) \/ SwapReaders(f)
  <2>1. Alone(f) /\ pc[f] \notin First /\ pc'[f] # "open" /\ (ref' = ref \/ ref' = fresh[f])
    BY <1>1, <1>6 DEF CompareSeqnum, Reopen, CloseOld, SwapReaders, Fail, Alone, First,
                      OneInv, ReadersInv, TypeOK
  <2>2. ref' = fresh[f] => ref' # NoReaders \/ ref' = ref
    BY <1>1, <1>2, <1>6 DEF CompareSeqnum, Reopen, CloseOld, SwapReaders, OneInv, ReadersInv
  <2>3. MayOpen(f)' \subseteq MayOpen(f)
    BY <1>1, <2>1, <2>2, MayOpenShrinks
  <2>4. CASE CompareSeqnum(f) \/ SwapReaders(f)
    <3>1. opened' = opened /\ closed' = closed /\ pc[f] # "close"
      BY <2>4 DEF CompareSeqnum, SwapReaders
    <3> QED BY <1>1, <2>3, <3>1, CountKeeps
  <2>5. CASE Reopen(f)
    <3>1. /\ closed' = closed /\ pc[f] # "close"
          /\ \/ opened' = opened
             \/ opened' = opened + 1 /\ pc'[f] = "close"
      BY <1>1, <2>5 DEF Reopen
    <3> QED BY <1>1, <2>3, <3>1, CountKeeps
  <2>6. CASE CloseOld(f)
    <3>1. /\ opened' = opened /\ closed' = closed \cup {mine[f].id}
          /\ mine[f].id \in 1..opened /\ mine[f].id \notin closed
      BY <1>1, <2>6 DEF CloseOld, OneInv, OpenInv, ReadersInv, Opened, Holding
    <3> QED BY <1>1, <2>3, <3>1, CountKeeps
  <2> QED BY <1>6, <2>4, <2>5, <2>6
<1> QED BY <1>3, <1>4, <1>5, <1>6 DEF Works, Searches, SyncerStep, QueryStep

\* Of two syncers that are quiet, either both may open a first reader or none.
LEMMA CountHandsOver ==
  ASSUME NEW f \in Syncers, NEW g \in Syncers, IsFiniteSet(Queries),
         Quiet(f)', Quiet(g)', CountInv(g)'
  PROVE  CountInv(f)'
<1> DEFINE Asking == {q \in Queries : MayOpenFirst(q)'}
<1>1. IsFiniteSet(Asking) /\ f \notin Asking /\ g \notin Asking
  BY SearcherAssumption, FS_Subset
<1>2. MayOpenFirst(f)' <=> MayOpenFirst(g)'
  BY DEF MayOpenFirst, Quiet, First
<1>3. CASE MayOpenFirst(f)'
  <2>1. MayOpen(f)' = Asking \cup {f} /\ MayOpen(g)' = Asking \cup {g}
    BY <1>2, <1>3 DEF MayOpen
  <2>2. Cardinality(MayOpen(f)') = Cardinality(MayOpen(g)')
    <3> HIDE DEF Asking
    <3>1. Cardinality(Asking \cup {f}) = Cardinality(Asking) + 1
      BY <1>1, FS_AddElement
    <3>2. Cardinality(Asking \cup {g}) = Cardinality(Asking) + 1
      BY <1>1, FS_AddElement
    <3> QED BY <2>1, <3>1, <3>2
  <2> QED BY <2>2 DEF CountInv, Quiet
<1>4. CASE ~MayOpenFirst(f)'
  <2>1. MayOpen(f)' = MayOpen(g)'
    BY <1>2, <1>4 DEF MayOpen
  <2> QED BY <2>1 DEF CountInv, Quiet
<1> QED BY <1>3, <1>4

CountingInv == \A f \in Syncers : Only(f) => CountInv(f)

LEMMA CountNext ==
  ASSUME IsFiniteSet(Queries), AloneInv, CountingInv, OneAtATime, [Next]_vars
  PROVE  CountingInv'
<1> SUFFICES ASSUME NEW f \in Syncers, Only(f)' PROVE CountInv(f)'
  BY DEF CountingInv
<1>1. CASE UNCHANGED vars
  BY <1>1 DEF CountingInv, CountInv, MayOpen, MayOpenFirst, Only, Quiet, vars, readerVars
<1>2. CASE Next
  <2>1. CASE Only(f) /\ (Works(f) \/ Searches)
    BY <2>1, CountStep DEF AloneInv, CountingInv
  <2>2. ASSUME NEW g \in Syncers, Only(g), Works(g), Quiet(f)', Quiet(g)'
        PROVE  CountInv(f)'
    <3>1. CountInv(g)'
      BY <2>2, CountStep DEF AloneInv, CountingInv
    <3> QED BY <2>2, <3>1, CountHandsOver
  <2>3. TypeOK
    BY DEF AloneInv, ReadersInv
  <2> QED BY <1>2, <2>1, <2>2, <2>3, SyncersTakeTurns
<1> QED BY <1>1, <1>2

\* When the fibers that reload the searcher do so one at a time, the readers that
\* are open are as many as there can be first requests at once, and two, however
\* long the searcher runs and however many fibers reload it (Readers.reopen closes
\* the one it replaces).
THEOREM ReadersDoNotPileUp ==
  ASSUME Syncers # {}, IsFiniteSet(Queries)
  PROVE  Spec /\ []OneAtATime => []ReadersAreClosed
<1>1. ASSUME NEW f \in Syncers
      PROVE  /\ IsFiniteSet(Queries \cup {f}) /\ f \in Fiber
             /\ Cardinality(Queries \cup {f}) = 1 + Cardinality(Queries)
             /\ Cardinality(Queries) \in Nat
  <2>1. f \notin Queries /\ f \in Fiber
    BY SearcherAssumption DEF Fiber
  <2>2. Cardinality(Queries) \in Nat
    BY FS_CardinalityType
  <2>3. /\ IsFiniteSet(Queries \cup {f})
        /\ Cardinality(Queries \cup {f}) = Cardinality(Queries) + 1
    BY <2>1, FS_AddElement
  <2> QED BY <2>1, <2>2, <2>3
<1>2. ASSUME NEW f \in Syncers
      PROVE  Cardinality(MayOpen(f)) \in Nat /\ Cardinality(MayOpen(f)) <= 1 + Cardinality(Queries)
  <2>1. MayOpen(f) \subseteq Queries \cup {f}
    BY DEF MayOpen
  <2> HIDE DEF MayOpen
  <2>2. /\ IsFiniteSet(MayOpen(f))
        /\ Cardinality(MayOpen(f)) <= Cardinality(Queries \cup {f})
    BY <1>1, <2>1, FS_Subset
  <2> QED BY <1>1, <2>2, FS_CardinalityType
<1>3. ASSUME Init PROVE CountingInv
  <2> SUFFICES ASSUME NEW f \in Syncers PROVE CountInv(f)
    BY DEF CountingInv
  <2>1. opened = 0 /\ closed = {} /\ pc[f] # "close"
    BY <1>1, <1>3 DEF Init
  <2> HIDE DEF MayOpen
  <2>2. Cardinality(closed) = 0
    BY <2>1, FS_EmptySet
  <2>3. /\ Cardinality(Queries) \in Nat /\ Cardinality(MayOpen(f)) \in Nat
        /\ Cardinality(MayOpen(f)) <= 1 + Cardinality(Queries)
    BY <1>1, <1>2
  <2> QED BY <2>1, <2>2, <2>3 DEF CountInv
<1>4. AloneInv /\ CountingInv /\ OneAtATime /\ [Next]_vars => CountingInv'
  BY CountNext
<1>5. AloneInv /\ CountingInv /\ OneAtATime => ReadersAreClosed
  <2> SUFFICES ASSUME AloneInv, CountingInv, OneAtATime PROVE ReadersAreClosed
    OBVIOUS
  <2>1. PICK f \in Syncers : Only(f)
    BY OneIsOnly
  <2>2. opened \in Nat /\ closed \subseteq 1..opened
    BY DEF AloneInv, ReadersInv, TypeOK
  <2>3. Cardinality(closed) \in Nat
    BY <2>2, FS_Interval, FS_Subset, FS_CardinalityType, 1 \in Int, opened \in Int
  <2>4. CountInv(f)
    BY <2>1 DEF CountingInv
  <2>5. /\ Cardinality(Queries) \in Nat /\ Cardinality(MayOpen(f)) \in Nat
        /\ Cardinality(MayOpen(f)) <= 1 + Cardinality(Queries)
    BY <1>1, <1>2
  <2> QED BY <2>2, <2>3, <2>4, <2>5 DEF CountInv, ReadersAreClosed
<1> QED BY <1>3, <1>4, <1>5, AloneInvariant, PTL DEF Spec

-----------------------------------------------------------------------------
(* What the sequence numbers are worth.  Those of a local index start again *)
(* with the process, so what follows is said of an index that was empty     *)
(* when the process opened it, or of a searcher that follows another.       *)

FreshStarts == \A s \in Starts : s.kind = "local" => s.commit = 0 /\ s.seqnum = 0

Flushing == {"manifest", "merge", "index", "seqnum"}

\* The Ref is behind index.json, which is behind the directory.
SeqnumInv(f) ==
  /\ start.kind = "local" => start.commit = 0 /\ start.seqnum = 0
  /\ start.kind # "local" => pc[f] \notin Flushing /\ seqnum = start.seqnum
  /\ start.kind = "local" =>
       /\ seqnum <= manifest /\ manifest <= commit
       /\ pc[f] = "manifest" => target[f] = commit
       /\ pc[f] = "seqnum" => target[f] = manifest

\* No readers claim more than the Ref.
ClaimsInv(f) ==
  /\ ref.seq <= seqnum
  /\ \A a \in Fiber : mine[a].seq <= seqnum /\ fresh[a].seq <= seqnum
  /\ pc[f] = "reopen" => target[f] <= seqnum

ClaimInv(f) == ReadersInv /\ SeqnumInv(f) /\ ClaimsInv(f)

LEMMA ClaimInit ==
  ASSUME NEW f \in Syncers, FreshStarts
  PROVE  Init => ClaimInv(f)
<1> SUFFICES ASSUME Init PROVE ClaimInv(f)
  OBVIOUS
<1>1. f \in Fiber /\ start \in Starts /\ start.seqnum \in Nat /\ start.commit \in Nat
      /\ seqnum = start.seqnum /\ manifest = start.seqnum /\ commit = start.commit
      /\ \A a \in Fiber : pc[a] = "idle" /\ mine[a] = NoReaders /\ fresh[a] = NoReaders
      /\ ref = NoReaders
  BY SearcherAssumption DEF Init, Fiber
<1>2. SeqnumInv(f)
  BY <1>1 DEF FreshStarts, SeqnumInv, Flushing
<1>3. ClaimsInv(f)
  BY <1>1 DEF ClaimsInv, NoReaders
<1> QED BY <1>2, <1>3, ReadersInit DEF ClaimInv

\* The steps that read and write the sequence numbers.
LEMMA IndexClaims ==
  ASSUME NEW f \in Syncers, ClaimInv(f), ReadersInv',
         \/ FlushBegins(f) \/ Pull(f) \/ PullDone(f) \/ PullFails(f) \/ WriteManifest(f) \/ Merge(f)
         \/ ReadManifest(f) \/ SetSeqnum(f)
  PROVE  ClaimInv(f)'
<1> USE DEF Goto, Serve, indexVars, readerVars
<1>1. /\ f \in Fiber /\ pc \in [Fiber -> Phase] /\ mine \in [Fiber -> Readers]
      /\ target \in [Fiber -> Nat] /\ fresh \in [Fiber -> Readers]
      /\ commit \in Nat /\ manifest \in Nat /\ seqnum \in Nat /\ ref \in Readers
      /\ start.kind \in {"local", "slave"} /\ start.commit \in Nat /\ start.seqnum \in Nat
  BY SearcherAssumption DEF Fiber, ClaimInv, ReadersInv, TypeOK
<1>2. start' = start /\ start.kind = "local" => SeqOf(commit + 1) = commit + 1
  BY <1>1 DEF ClaimInv, SeqnumInv, SeqOf
<1>3. /\ start' = start /\ ref' = ref /\ fresh' = fresh /\ pc'[f] # "reopen"
      /\ \A a \in Fiber : mine'[a] = mine[a] \/ mine'[a] = NoReaders
  BY <1>1 DEF FlushBegins, Pull, PullDone, PullFails, WriteManifest, Merge, ReadManifest, SetSeqnum, Fail
<1>4. CASE FlushBegins(f) \/ Merge(f)
  <2>1. /\ manifest' = manifest /\ seqnum' = seqnum /\ start.kind = "local"
        /\ \/ commit' = commit + 1 /\ target'[f] = commit + 1 /\ pc'[f] = "manifest"
           \/ commit' = commit /\ pc'[f] \in {"merge", "index"}
    BY <1>1, <1>2, <1>4 DEF FlushBegins, Merge, ClaimInv, SeqnumInv, Flushing
  <2>2. SeqnumInv(f)'
    BY <1>1, <1>3, <2>1 DEF ClaimInv, SeqnumInv
  <2>3. ClaimsInv(f)'
    BY <1>1, <1>3, <2>1 DEF ClaimInv, ClaimsInv, NoReaders
  <2> QED BY <2>2, <2>3 DEF ClaimInv
<1>5. CASE WriteManifest(f)
  <2>1. /\ manifest' = target[f] /\ seqnum' = seqnum /\ commit' = commit
        /\ start.kind = "local" /\ target[f] = commit /\ pc'[f] \in {"merge", "index"}
    BY <1>1, <1>5 DEF WriteManifest, ClaimInv, SeqnumInv, Flushing
  <2>2. SeqnumInv(f)'
    BY <1>1, <1>3, <2>1 DEF ClaimInv, SeqnumInv
  <2>3. ClaimsInv(f)'
    BY <1>1, <1>3, <2>1 DEF ClaimInv, ClaimsInv, NoReaders
  <2> QED BY <2>2, <2>3 DEF ClaimInv
<1>6. CASE ReadManifest(f)
  <2>1. /\ manifest' = manifest /\ seqnum' = seqnum /\ commit' = commit /\ start.kind = "local"
        /\ \/ pc'[f] = "seqnum" /\ target'[f] = manifest
           \/ pc'[f] \in {"dead", "idle"}
    BY <1>1, <1>6 DEF ReadManifest, Fail, ClaimInv, SeqnumInv, Flushing
  <2>2. SeqnumInv(f)'
    BY <1>1, <1>3, <2>1 DEF ClaimInv, SeqnumInv
  <2>3. ClaimsInv(f)'
    BY <1>1, <1>3, <2>1 DEF ClaimInv, ClaimsInv, NoReaders
  <2> QED BY <2>2, <2>3 DEF ClaimInv
<1>7. CASE SetSeqnum(f)
  <2>1. /\ manifest' = manifest /\ seqnum' = manifest /\ commit' = commit /\ start.kind = "local"
        /\ seqnum <= manifest /\ pc'[f] \in {"get", "idle"}
    BY <1>1, <1>7 DEF SetSeqnum, ClaimInv, SeqnumInv, Flushing
  <2>2. SeqnumInv(f)'
    BY <1>1, <1>3, <2>1 DEF ClaimInv, SeqnumInv
  <2>3. ClaimsInv(f)'
    <3>1. \A a \in Fiber : mine[a].seq \in Nat /\ fresh[a].seq \in Nat
      BY <1>1 DEF Readers
    <3> QED BY <1>1, <1>3, <2>1, <3>1 DEF ClaimInv, ClaimsInv, NoReaders, Readers
  <2> QED BY <2>2, <2>3 DEF ClaimInv
<1>8. CASE Pull(f) \/ PullDone(f) \/ PullFails(f)
  <2>1. seqnum' = seqnum /\ start.kind = "slave" /\ pc'[f] \in {"pull", "get", "torn"}
    BY <1>1, <1>8 DEF Pull, PullDone, PullFails, ClaimInv, ReadersInv
  <2>2. SeqnumInv(f)'
    BY <1>1, <1>3, <2>1 DEF ClaimInv, SeqnumInv, Flushing
  <2>3. ClaimsInv(f)'
    BY <1>1, <1>3, <2>1 DEF ClaimInv, ClaimsInv, NoReaders
  <2> QED BY <2>2, <2>3 DEF ClaimInv
<1> QED BY <1>4, <1>5, <1>6, <1>7, <1>8

\* The other steps leave them alone, and stamp readers with the Ref at most.
LEMMA ReadersClaim ==
  ASSUME NEW f \in Syncers, ClaimInv(f), ReadersInv', NEW a \in Fiber, Alone(a),
         UNCHANGED indexVars, pc'[a] \notin Flushing,
         \A b \in Fiber \ {a} : target'[b] = target[b],
         ref'.seq <= seqnum, mine'[a].seq <= seqnum, fresh'[a].seq <= seqnum,
         pc'[a] = "reopen" /\ a = f => target'[f] <= seqnum
  PROVE  ClaimInv(f)'
<1>1. f \in Fiber
  BY DEF Fiber
<1>2. SeqnumInv(f)'
  BY <1>1 DEF ClaimInv, SeqnumInv, Alone, Flushing, indexVars
<1>3. ClaimsInv(f)'
  BY <1>1 DEF ClaimInv, ClaimsInv, Alone, indexVars
<1> QED BY <1>2, <1>3 DEF ClaimInv

LEMMA ClaimStep ==
  ASSUME NEW f \in Syncers, ClaimInv(f), ReadersInv', Works(f) \/ Searches
  PROVE  ClaimInv(f)'
<1> USE DEF Goto, Serve, readerVars
<1>1. /\ f \in Fiber /\ pc \in [Fiber -> Phase] /\ mine \in [Fiber -> Readers]
      /\ target \in [Fiber -> Nat] /\ fresh \in [Fiber -> Readers]
      /\ seqnum \in Nat /\ ref \in Readers /\ NoReaders.seq = 0
      /\ stage \in [Fiber -> SyncStage \cup SearchStage \cup {"done"}]
  BY DEF Fiber, ClaimInv, ReadersInv, TypeOK, NoReaders
<1>2. ASSUME NEW a \in Fiber, ReadersStep(a) PROVE ClaimInv(f)'
  <2>1. /\ Alone(a) /\ UNCHANGED indexVars /\ target' = target /\ fresh' = fresh
        /\ pc'[a] \notin Flushing \cup {"reopen"} /\ ref' \in {ref, mine[a]}
    BY <1>1, <1>2 DEF ReadersStep, GetReaders, OpenReader, StampReader, InstallReader, Fail, Alone,
                      Flushing
  <2>2. mine'[a] \in {mine[a], ref, NoReaders} \/ mine'[a].seq \in {0, seqnum}
    BY <1>1, <1>2 DEF ReadersStep, GetReaders, OpenReader, StampReader, InstallReader, Fail, Readers
  <2>3. mine'[a].seq <= seqnum
    BY <1>1, <2>2 DEF ClaimInv, ClaimsInv
  <2>4. ref'.seq <= seqnum /\ fresh'[a].seq <= seqnum
    BY <2>1 DEF ClaimInv, ClaimsInv
  <2> QED BY <2>1, <2>3, <2>4, ReadersClaim
<1>3. CASE CompareSeqnum(f) \/ Reopen(f) \/ CloseOld(f) \/ SwapReaders(f)
  <2>1. /\ Alone(f) /\ UNCHANGED indexVars /\ pc'[f] \notin Flushing
        /\ \A b \in Fiber \ {f} : target'[b] = target[b]
        /\ ref' \in {ref, fresh[f]} /\ mine'[f] \in {mine[f], NoReaders}
    BY <1>1, <1>3 DEF CompareSeqnum, Reopen, CloseOld, SwapReaders, Fail, Alone, Flushing
  <2>2. pc'[f] = "reopen" => target'[f] = seqnum
    BY <1>1, <1>3 DEF CompareSeqnum, Reopen, CloseOld, SwapReaders, Fail
  <2>3. fresh'[f] = fresh[f] \/ (pc[f] = "reopen" /\ fresh'[f].seq = target[f])
    BY <1>1, <1>3 DEF CompareSeqnum, Reopen, CloseOld, SwapReaders, Fail, Readers
  <2>4. ref'.seq <= seqnum /\ mine'[f].seq <= seqnum /\ fresh'[f].seq <= seqnum
    BY <1>1, <2>1, <2>3 DEF ClaimInv, ClaimsInv
  <2> QED BY <1>1, <2>1, <2>2, <2>4, ReadersClaim
<1>4. ASSUME NEW q \in Queries, Request(q) \/ UseReaders(q) PROVE ClaimInv(f)'
  <2>1. q \in Fiber /\ q # f
    BY SearcherAssumption DEF Fiber
  <2>2. /\ Alone(q) /\ UNCHANGED indexVars /\ target' = target /\ fresh' = fresh /\ ref' = ref
        /\ pc'[q] \notin Flushing /\ mine'[q] \in {mine[q], NoReaders}
    BY <1>1, <1>4, <2>1 DEF Request, UseReaders, Fail, Alone, Flushing
  <2>3. ref'.seq <= seqnum /\ mine'[q].seq <= seqnum /\ fresh'[q].seq <= seqnum
    BY <1>1, <2>1, <2>2 DEF ClaimInv, ClaimsInv
  <2> QED BY <1>1, <2>1, <2>2, <2>3, ReadersClaim
<1>5. f \in Fiber /\ Queries \subseteq Fiber
  BY DEF Fiber
<1> QED BY <1>2, <1>3, <1>4, <1>5, IndexClaims DEF Works, Searches, SyncerStep, QueryStep

LEMMA ClaimHandsOver ==
  ASSUME NEW f \in Syncers, NEW g \in Syncers, Quiet(f)', Quiet(g)', ClaimInv(g)'
  PROVE  ClaimInv(f)'
<1>1. SeqnumInv(f)'
  BY DEF ClaimInv, SeqnumInv, Quiet, Flushing
<1>2. ClaimsInv(f)'
  BY DEF ClaimInv, ClaimsInv, Quiet
<1> QED BY <1>1, <1>2 DEF ClaimInv

ReportInv == ReadersInv /\ \A f \in Syncers : Only(f) => ClaimInv(f)

LEMMA ReportNext == ReportInv /\ OneAtATime /\ [Next]_vars => ReportInv'
<1> SUFFICES ASSUME ReportInv, OneAtATime, [Next]_vars PROVE ReportInv'
  OBVIOUS
<1>1. ReadersInv'
  BY ReadersNext DEF ReportInv
<1> SUFFICES ASSUME NEW f \in Syncers, Only(f)' PROVE ClaimInv(f)'
  BY <1>1 DEF ReportInv
<1>2. CASE UNCHANGED vars
  <2>1. ClaimInv(f)
    BY <1>2 DEF ReportInv, Only, Quiet, vars
  <2> QED BY <1>1, <1>2, <2>1 DEF ClaimInv, SeqnumInv, ClaimsInv, vars, indexVars, readerVars
<1>3. CASE Next
  <2>1. CASE Only(f) /\ (Works(f) \/ Searches)
    BY <1>1, <2>1, ClaimStep DEF ReportInv
  <2>2. ASSUME NEW g \in Syncers, Only(g), Works(g), Quiet(f)', Quiet(g)'
        PROVE  ClaimInv(f)'
    <3>1. ClaimInv(g)'
      BY <1>1, <2>2, ClaimStep DEF ReportInv
    <3> QED BY <2>2, <3>1, ClaimHandsOver
  <2>3. TypeOK
    BY DEF ReportInv, ReadersInv
  <2> QED BY <1>3, <2>1, <2>2, <2>3, SyncersTakeTurns
<1> QED BY <1>2, <1>3

LEMMA ReportInvariant == FreshStarts => (Spec /\ []OneAtATime => []ReportInv)
<1> SUFFICES ASSUME FreshStarts PROVE Spec /\ []OneAtATime => []ReportInv
  OBVIOUS
<1>1. Init => ReportInv
  BY ReadersInit, ClaimInit DEF ReportInv
<1> QED BY <1>1, ReportNext, PTL DEF Spec

\* The readers that are served never claim a commit that the index did not report,
\* for any requests: when the fibers that synchronize them do so one at a time, of
\* an index that was empty at the start or of one that follows the object store.
THEOREM ClaimsAreReported ==
  ASSUME Syncers # {}, FreshStarts
  PROVE  Spec /\ []OneAtATime => []ClaimIsReported
<1>1. ReportInv /\ OneAtATime => ClaimIsReported
  <2> SUFFICES ASSUME ReportInv, OneAtATime PROVE ClaimIsReported
    OBVIOUS
  <2>1. PICK f \in Syncers : Only(f)
    BY OneIsOnly
  <2> QED BY <2>1 DEF ReportInv, ClaimInv, ClaimsInv, ClaimIsReported
<1> QED BY <1>1, ReportInvariant, PTL

-----------------------------------------------------------------------------
(* That a synchronization ends with the last commit served.  It does unless *)
(* a first request installed its readers late: then they may have the       *)
(* number of a newer commit, and hide it.                                   *)

\* The condition of SyncedIsServed on the fibers.
AllFlushed == \A h \in Syncers : pc[h] = "idle" /\ stage[h] = "flush"

Reading == {"get", "open", "stamp", "install", "use", "reopen", "close", "swap"}

\* index.json and the Ref keep up with the directory, and readers that were not
\* late are of a commit at least as new as they claim.  Those the fiber is to look
\* at are the ones in the Ref, if nobody has installed others since.
LocalServed(f) ==
  /\ pc[f] # "manifest" => manifest = commit
  /\ pc[f] \in Reading => seqnum = commit
  /\ late \/ ref.seq <= ref.gen
  /\ pc[f] \in First => mine[f].gen = commit
  /\ pc[f] = "use" => late \/ ref.gen = commit \/ mine[f] = ref
  /\ pc[f] = "reopen" => target[f] = commit
  /\ pc[f] \in {"close", "swap"} => fresh[f].gen = commit /\ fresh[f].seq = commit
  /\ AllFlushed /\ seqnum = commit => late \/ ref.gen = commit

\* A fiber that has pulled brought a commit.
PullsBring ==
  start.kind # "local" =>
    \A h \in Syncers :
      stage[h] = "flush" /\ pc[h] \notin {"pull", "torn"} => start.commit < commit

ServedInv(f) ==
  /\ OneInv(f) /\ ClaimInv(f) /\ PullsBring
  /\ start.kind = "local" => LocalServed(f)

LEMMA ServedStep ==
  ASSUME NEW f \in Syncers, ServedInv(f), Works(f), OneInv(f)', ClaimInv(f)'
  PROVE  ServedInv(f)'
<1> USE DEF Goto, Serve, indexVars, readerVars
<1>1. AllFlushed' => pc'[f] = "idle" /\ stage'[f] = "flush"
  BY DEF AllFlushed
<1>2. /\ f \in Fiber /\ pc \in [Fiber -> Phase] /\ mine \in [Fiber -> Readers]
      /\ target \in [Fiber -> Nat] /\ fresh \in [Fiber -> Readers]
      /\ stage \in [Fiber -> SyncStage \cup SearchStage \cup {"done"}]
      /\ commit \in Nat /\ manifest \in Nat /\ seqnum \in Nat /\ ref \in Readers
      /\ start.kind \in {"local", "slave"} /\ start.commit \in Nat /\ start.seqnum \in Nat
      /\ start.commit <= commit
  BY SearcherAssumption DEF Fiber, ServedInv, ClaimInv, ReadersInv, TypeOK
<1>3. FlushBegins(f) \/ Pull(f) \/ SyncerStep(f)
  BY DEF Works
<1>4. start' = start
  BY <1>3 DEF FlushBegins, Pull, SyncerStep, PullDone, PullFails, WriteManifest, Merge, ReadManifest, SetSeqnum,
              ReadersStep, GetReaders, OpenReader, StampReader, InstallReader, CompareSeqnum,
              Reopen, CloseOld, SwapReaders
<1>5. ASSUME start.kind = "local" PROVE LocalServed(f)'
  <2> USE <1>1, <1>2, <1>5 DEF ServedInv, LocalServed
  <2>1. SeqnumInv(f) /\ OpenInv(f) /\ (ref = NoReaders \/ Opened(ref))
    BY DEF OneInv, ClaimInv, ReadersInv
  <2>2. NoReaders \in Readers /\ NoReaders.gen = 0 /\ NoReaders.seq = 0
    BY DEF NoReaders, Readers
  <2>16. ~Pull(f) /\ ~PullDone(f) /\ ~PullFails(f) /\ ~BetweenCommits
    <3>1. \A g \in Syncers : g \in Fiber
      BY DEF Fiber
    <3> QED BY <3>1 DEF Pull, PullDone, PullFails, BetweenCommits, ClaimInv, ReadersInv
  <2>3. CASE FlushBegins(f)
    <3>1. /\ pc'[f] \in {"manifest", "merge", "index"} /\ (pc'[f] # "manifest" => commit' = commit)
          /\ pc[f] # "manifest" /\ manifest' = manifest
          /\ seqnum' = seqnum /\ ref' = ref /\ late' = late /\ mine' = mine /\ fresh' = fresh
      BY <2>3 DEF FlushBegins
    <3> QED BY <1>4, <3>1 DEF Reading, First
  <2>4. CASE Merge(f)
    <3>1. /\ pc'[f] \in {"manifest", "index"} /\ (pc'[f] # "manifest" => commit' = commit)
          /\ pc[f] # "manifest" /\ manifest' = manifest
          /\ seqnum' = seqnum /\ ref' = ref /\ late' = late /\ mine' = mine /\ fresh' = fresh
      BY <2>4 DEF Merge
    <3> QED BY <1>4, <3>1 DEF Reading, First
  <2>5. CASE WriteManifest(f)
    <3>1. /\ pc'[f] \in {"merge", "index"} /\ manifest' = commit /\ commit' = commit
          /\ seqnum' = seqnum /\ ref' = ref /\ late' = late /\ mine' = mine /\ fresh' = fresh
      BY <2>1, <2>5 DEF WriteManifest, SeqnumInv
    <3> QED BY <1>4, <3>1 DEF Reading, First
  <2>6. CASE ReadManifest(f)
    <3>1. /\ commit' = commit /\ manifest' = manifest /\ manifest = commit
          /\ seqnum' = seqnum /\ ref' = ref /\ late' = late /\ fresh' = fresh /\ stage' = stage
          /\ mine'[f] \in {mine[f], NoReaders}
          /\ pc'[f] = "seqnum" \/ (pc'[f] \in {"idle", "dead"} /\ manifest = 0)
      BY <2>6 DEF ReadManifest, Fail
    <3>2. manifest = 0 => ref.gen = commit
      BY <2>1, <2>2, <3>1 DEF Opened
    <3> QED BY <1>4, <2>2, <3>1, <3>2 DEF Reading, First
  <2>7. CASE SetSeqnum(f)
    <3>1. /\ commit' = commit /\ manifest' = manifest /\ manifest = commit /\ seqnum' = commit
          /\ ref' = ref /\ late' = late /\ fresh' = fresh /\ stage' = stage /\ mine' = mine
          /\ pc'[f] = "get" \/ (pc'[f] = "idle" /\ stage[f] # "flush")
      BY <2>1, <2>7 DEF SetSeqnum, SeqnumInv
    <3> QED BY <1>4, <3>1 DEF Reading, First
  <2>8. CASE GetReaders(f)
    <3>1. /\ commit' = commit /\ manifest' = manifest /\ seqnum' = seqnum /\ seqnum = commit
          /\ ref' = ref /\ late' = late /\ fresh' = fresh /\ stage' = stage /\ manifest = commit
          /\ \/ pc'[f] = "use" /\ mine'[f] = ref
             \/ pc'[f] = "open" /\ mine'[f] = mine[f]
             \/ pc'[f] \in {"idle", "dead"} /\ mine'[f] = NoReaders /\ ref.gen = 0 /\ commit = 0
      BY <2>2, <2>8 DEF GetReaders, Fail, Reading
    <3> QED BY <1>4, <2>2, <3>1 DEF Reading, First
  <2>9. CASE OpenReader(f)
    <3>1. /\ commit' = commit /\ manifest' = manifest /\ seqnum' = seqnum /\ seqnum = commit
          /\ ref' = ref /\ late' = late /\ fresh' = fresh /\ stage' = stage /\ manifest = commit
          /\ pc'[f] = "stamp" /\ mine'[f].gen = commit /\ mine'[f].seq = 0
      BY <2>9, <2>16 DEF OpenReader, Reading
    <3> QED BY <1>4, <3>1 DEF Reading, First
  <2>10. CASE StampReader(f)
    <3>1. /\ commit' = commit /\ manifest' = manifest /\ seqnum' = seqnum /\ seqnum = commit
          /\ ref' = ref /\ late' = late /\ fresh' = fresh /\ stage' = stage /\ manifest = commit
          /\ pc'[f] = "install" /\ mine'[f].gen = commit /\ mine'[f].seq = commit
      BY <2>10 DEF StampReader, Reading, First, Readers
    <3> QED BY <1>4, <3>1 DEF Reading, First
  <2>11. CASE InstallReader(f)
    <3>1. /\ commit' = commit /\ manifest' = manifest /\ seqnum' = seqnum /\ seqnum = commit
          /\ ref' = mine[f] /\ mine' = mine /\ fresh' = fresh /\ stage' = stage
          /\ pc'[f] = "use" /\ manifest = commit /\ mine[f].gen = commit
      BY <2>11 DEF InstallReader, Reading, First
    <3>2. mine[f].seq <= mine[f].gen
      BY <3>1 DEF ClaimInv, ClaimsInv
    <3> QED BY <1>4, <3>1, <3>2 DEF Reading, First
  <2>12. CASE CompareSeqnum(f)
    <3>1. /\ commit' = commit /\ manifest' = manifest /\ seqnum' = seqnum /\ seqnum = commit
          /\ ref' = ref /\ late' = late /\ mine' = mine /\ fresh' = fresh /\ manifest = commit
          /\ target'[f] = commit
          /\ pc'[f] = "reopen" \/ (pc'[f] = "idle" /\ ~Stale(mine[f].seq, commit))
      BY <2>12 DEF CompareSeqnum, Reading
    <3>2. pc[f] = "use" /\ (late \/ ref.gen = commit \/ mine[f] = ref)
      BY <2>12 DEF CompareSeqnum
    <3>3. mine[f] = ref /\ ~Stale(mine[f].seq, commit) => late \/ ref.gen = commit
      <4>1. ref.gen <= commit /\ (late \/ ref.seq <= ref.gen) /\ ref.seq \in Nat /\ ref.gen \in Nat
        BY <2>1, <2>2 DEF Opened, Readers
      <4> QED BY <4>1 DEF Stale
    <3> QED BY <1>4, <3>1, <3>2, <3>3 DEF Reading, First
  <2>13. CASE Reopen(f)
    <3>1. /\ commit' = commit /\ manifest' = manifest /\ seqnum' = seqnum /\ seqnum = commit
          /\ ref' = ref /\ late' = late /\ mine' = mine /\ manifest = commit /\ target[f] = commit
          /\ pc'[f] \in {"swap", "close"}
          /\ fresh'[f].gen = commit /\ fresh'[f].seq = commit
      BY <2>1, <2>13, <2>16 DEF Reopen, Reading, OpenInv, Holding, Readers
    <3> QED BY <1>4, <3>1 DEF Reading, First
  <2>14. CASE CloseOld(f)
    <3>1. /\ commit' = commit /\ manifest' = manifest /\ seqnum' = seqnum /\ seqnum = commit
          /\ ref' = ref /\ late' = late /\ mine' = mine /\ fresh' = fresh /\ manifest = commit
          /\ pc'[f] = "swap" /\ fresh[f].gen = commit /\ fresh[f].seq = commit
      BY <2>14 DEF CloseOld, Reading
    <3> QED BY <1>4, <3>1 DEF Reading, First
  <2>15. CASE SwapReaders(f)
    <3>1. /\ commit' = commit /\ manifest' = manifest /\ seqnum' = seqnum
          /\ ref' = fresh[f] /\ mine' = mine /\ fresh' = fresh /\ manifest = commit
          /\ pc'[f] = "idle" /\ fresh[f].gen = commit /\ fresh[f].seq = commit
      BY <2>15 DEF SwapReaders, Reading
    <3> QED BY <1>4, <3>1 DEF Reading, First
  <2> QED BY <1>3, <2>3, <2>4, <2>5, <2>6, <2>7, <2>8, <2>9, <2>10, <2>11, <2>12, <2>13, <2>14, <2>15,
             <2>16 DEF SyncerStep, ReadersStep
<1>6. \A h \in Syncers \ {f} : stage'[h] = stage[h] /\ pc'[h] = pc[h]
  <2>1. \A h \in Syncers : h \in Fiber
    BY DEF Fiber
  <2> QED
    BY <1>2, <1>3, <2>1
       DEF FlushBegins, Pull, SyncerStep, PullDone, PullFails, WriteManifest, Merge, ReadManifest,
           SetSeqnum, ReadersStep, GetReaders, OpenReader, StampReader, InstallReader,
           CompareSeqnum, Reopen, CloseOld, SwapReaders, Fail
<1>7. PullsBring'
  <2> SUFFICES ASSUME start.kind # "local" PROVE PullsBring'
    BY <1>4 DEF PullsBring
  <2>1. pc[f] \notin Flushing /\ PullsBring
    BY DEF ServedInv, ClaimInv, SeqnumInv
  <2>2. CASE PullDone(f)
    <3>1. commit' = commit + 1
      BY <2>2 DEF PullDone
    <3> QED BY <1>2, <1>4, <3>1 DEF PullsBring
  <2>3. CASE Pull(f) \/ PullFails(f)
    <3>1. commit' = commit /\ pc'[f] \in {"pull", "torn"}
      BY <1>2, <2>3 DEF Pull, PullFails
    <3> QED BY <1>4, <1>6, <2>1, <3>1 DEF PullsBring
  <2>4. CASE ReadersStep(f) \/ CompareSeqnum(f) \/ Reopen(f) \/ CloseOld(f) \/ SwapReaders(f)
    <3>1. commit' = commit /\ stage' = stage /\ pc[f] \notin {"pull", "torn"}
      BY <2>4 DEF ReadersStep, GetReaders, OpenReader, StampReader, InstallReader, CompareSeqnum,
                  Reopen, CloseOld, SwapReaders
    <3> QED BY <1>4, <1>6, <2>1, <3>1 DEF PullsBring
  <2> QED BY <1>3, <2>1, <2>2, <2>3, <2>4
          DEF SyncerStep, Flushing, FlushBegins, WriteManifest, Merge, ReadManifest, SetSeqnum
<1> QED BY <1>4, <1>5, <1>7 DEF ServedInv

\* A request may install readers, late or of the last commit.
LEMMA ServedBySearch ==
  ASSUME NEW f \in Syncers, ServedInv(f), NEW q \in Queries, Request(q) \/ QueryStep(q),
         OneInv(f)', ClaimInv(f)'
  PROVE  ServedInv(f)'
<1> USE DEF Goto, Serve, indexVars, readerVars
<1>1. /\ pc \in [Fiber -> Phase] /\ mine \in [Fiber -> Readers]
      /\ stage \in [Fiber -> SyncStage \cup SearchStage \cup {"done"}]
      /\ commit \in Nat /\ start.kind \in {"local", "slave"}
      /\ q \in Fiber /\ \A h \in Syncers : h \in Fiber /\ h # q
  BY SearcherAssumption DEF Fiber, ServedInv, ClaimInv, ReadersInv, TypeOK
<1>2. /\ UNCHANGED indexVars /\ target' = target /\ fresh' = fresh
      /\ \A h \in Syncers : pc'[h] = pc[h] /\ stage'[h] = stage[h] /\ mine'[h] = mine[h]
  BY <1>1 DEF Request, QueryStep, UseReaders, ReadersStep, GetReaders, OpenReader, StampReader,
              InstallReader, Fail
<1>3. (AllFlushed <=> AllFlushed') /\ PullsBring'
  BY <1>2 DEF AllFlushed, ServedInv, PullsBring
<1>4. ASSUME start.kind = "local" PROVE LocalServed(f)'
  <2>1. CASE InstallReader(q)
    <3>1. ref' = mine[q] /\ late' = (mine[q].gen < commit) /\ Opened(mine[q])
      BY <1>1, <2>1 DEF InstallReader, ServedInv, ClaimInv, ReadersInv, Holding
    <3>2. mine[q].seq <= seqnum /\ seqnum <= manifest /\ manifest <= commit
      BY <1>1, <1>4 DEF ServedInv, ClaimInv, ClaimsInv, SeqnumInv
    <3>3. late' \/ mine[q].gen = commit
      <4>1. mine[q].gen < commit \/ mine[q].gen = commit
        BY <1>1, <3>1 DEF Opened
      <4>2. CASE mine[q].gen < commit
        BY <3>1, <4>2, Zenon
      <4> QED BY <4>1, <4>2
    <3>4. mine[q].seq \in Nat /\ seqnum \in Nat /\ manifest \in Nat
      BY <1>1 DEF Readers, ServedInv, ClaimInv, ReadersInv, TypeOK
    <3>5. late' \/ (ref'.gen = commit /\ ref'.seq <= ref'.gen)
      BY <1>1, <3>1, <3>2, <3>3, <3>4
    <3> QED BY <1>2, <1>3, <1>4, <3>5 DEF ServedInv, LocalServed
  <2>2. CASE ~InstallReader(q)
    <3>1. ref' = ref /\ late' = late
      BY <2>2 DEF Request, QueryStep, UseReaders, ReadersStep, GetReaders, OpenReader, StampReader
    <3> QED BY <1>2, <1>3, <1>4, <3>1 DEF ServedInv, LocalServed
  <2> QED BY <2>1, <2>2
<1> QED BY <1>2, <1>3, <1>4 DEF ServedInv

LEMMA ServedHandsOver ==
  ASSUME NEW f \in Syncers, NEW g \in Syncers, Quiet(f)', Quiet(g)', ServedInv(g)'
  PROVE  ServedInv(f)'
<1>1. OneInv(f)' /\ ClaimInv(f)'
  BY OneHandsOver, ClaimHandsOver DEF ServedInv
<1>2. start'.kind = "local" => LocalServed(f)'
  BY DEF ServedInv, PullsBring, LocalServed, Quiet, Reading, First
<1> QED BY <1>1, <1>2 DEF ServedInv

TurnsServed == \A f \in Syncers : Only(f) => ServedInv(f)

LEMMA ServedNext ==
  ASSUME AloneInv, AloneInv', ReportInv, ReportInv', TurnsServed, OneAtATime, [Next]_vars
  PROVE  TurnsServed'
<1> SUFFICES ASSUME NEW f \in Syncers, Only(f)' PROVE ServedInv(f)'
  BY DEF TurnsServed
<1>1. ASSUME NEW g \in Syncers, Only(g)' PROVE OneInv(g)' /\ ClaimInv(g)'
  BY <1>1 DEF AloneInv, ReportInv
<1>2. CASE UNCHANGED vars
  <2>1. ServedInv(f)
    BY <1>2 DEF TurnsServed, Only, Quiet, vars
  <2> QED
    BY <1>1, <1>2, <2>1 DEF ServedInv, PullsBring, LocalServed, AllFlushed, vars, indexVars, readerVars
<1>3. CASE Next
  <2>1. CASE Only(f) /\ Searches
    <3>1. PICK q \in Queries : Request(q) \/ QueryStep(q)
      BY <2>1 DEF Searches
    <3> QED BY <1>1, <2>1, <3>1, ServedBySearch DEF TurnsServed
  <2>2. CASE Only(f) /\ Works(f)
    BY <1>1, <2>2, ServedStep DEF TurnsServed
  <2>3. ASSUME NEW g \in Syncers, Only(g), Works(g), Quiet(f)', Quiet(g)'
        PROVE  ServedInv(f)'
    <3>1. Only(g)'
      BY <2>3 DEF Only
    <3>2. ServedInv(g)'
      BY <1>1, <2>3, <3>1, ServedStep DEF TurnsServed
    <3> QED BY <2>3, <3>2, ServedHandsOver
  <2>4. TypeOK
    BY DEF AloneInv, ReadersInv
  <2> QED BY <1>3, <2>1, <2>2, <2>3, <2>4, SyncersTakeTurns
<1> QED BY <1>2, <1>3

\* When the fibers that flush the index and synchronize the searcher do so one at
\* a time, and all are done, requests are given a reader of the last commit, unless
\* a first request installed the readers it had opened before that commit: for any
\* number of flushes, merges and requests (IndexModifyRoute.flush, Searcher.sync).
THEOREM SyncedCommitsAreServed ==
  ASSUME Syncers # {}, FreshStarts
  PROVE  Spec /\ []OneAtATime => []SyncedIsServed
<1>1. ASSUME Init PROVE TurnsServed
  <2> SUFFICES ASSUME NEW f \in Syncers PROVE ServedInv(f)
    BY DEF TurnsServed
  <2>1. /\ start \in Starts /\ ref = NoReaders /\ commit = start.commit /\ manifest = start.seqnum
        /\ \A h \in Syncers : /\ pc[h] = "idle" /\ stage[h] = "done"
                             /\ mine[h] = NoReaders /\ fresh[h] = NoReaders
    BY <1>1 DEF Init, Fiber
  <2>2. start.kind = "local" => LocalServed(f)
    BY <2>1 DEF LocalServed, AllFlushed, Reading, First, NoReaders, FreshStarts
  <2>3. PullsBring
    BY <2>1 DEF PullsBring
  <2> QED BY <1>1, <2>2, <2>3, OneInit, ClaimInit DEF ServedInv
<1>2. AloneInv /\ AloneInv' /\ ReportInv /\ ReportInv' /\ TurnsServed /\ OneAtATime /\ [Next]_vars
        => TurnsServed'
  BY ServedNext
<1>3. TurnsServed /\ OneAtATime => SyncedIsServed
  <2> SUFFICES ASSUME TurnsServed, OneAtATime, SyncedIsServed = FALSE PROVE FALSE
    BY DEF SyncedIsServed
  <2>1. PICK f \in Syncers : Only(f)
    BY OneIsOnly
  <2>2. ServedInv(f)
    BY <2>1 DEF TurnsServed
  <2>3. AllFlushed /\ seqnum = SeqOf(commit) /\ ref.gen # commit /\ ~late
    BY DEF SyncedIsServed, AllFlushed
  <2>4. /\ commit \in Nat /\ start.commit \in Nat /\ start.seqnum \in Nat
        /\ start.kind \in {"local", "slave"}
    BY <2>2, SearcherAssumption DEF ServedInv, ClaimInv, ReadersInv, TypeOK
  <2>5. CASE start.kind = "local"
    <3>1. start.commit = 0 /\ start.seqnum = 0
      BY <2>2, <2>5 DEF ServedInv, ClaimInv, SeqnumInv
    <3>2. SeqOf(commit) = commit
      BY <2>4, <2>5, <3>1 DEF SeqOf
    <3> QED BY <2>2, <2>3, <2>5, <3>2 DEF ServedInv, LocalServed
  <2>6. CASE start.kind # "local"
    <3>1. start.commit < commit /\ seqnum = start.seqnum
      BY <2>2, <2>3, <2>6 DEF ServedInv, PullsBring, AllFlushed, ClaimInv, SeqnumInv
    <3> QED BY <2>3, <2>4, <2>6, <3>1 DEF SeqOf
  <2> QED BY <2>5, <2>6
<1> QED BY <1>1, <1>2, <1>3, AloneInvariant, ReportInvariant, PTL DEF Spec

-----------------------------------------------------------------------------
(* The order in which commits are served.  The fiber that reloads is the    *)
(* one that commits, or pulls, as no other is at work: from opening a       *)
(* reader to serving it, there is no newer commit.                          *)

LastInv(f) ==
  /\ pc[f] \in First => mine[f].gen = commit
  /\ pc[f] \in {"close", "swap"} => fresh[f].gen = commit

LEMMA LastStep ==
  ASSUME NEW f \in Syncers, ReadersInv, LastInv(f), Works(f) \/ Searches
  PROVE  LastInv(f)'
<1> USE DEF Goto, Serve, indexVars, readerVars
<1>1. /\ f \in Fiber /\ pc \in [Fiber -> Phase] /\ mine \in [Fiber -> Readers]
      /\ fresh \in [Fiber -> Readers]
  BY DEF Fiber, ReadersInv, TypeOK
<1>3. CASE FlushBegins(f) \/ Pull(f) \/ PullDone(f) \/ PullFails(f) \/ WriteManifest(f) \/ Merge(f) \/ ReadManifest(f) \/ SetSeqnum(f)
  <2>1. pc'[f] \notin First \cup {"close", "swap"}
    BY <1>1, <1>3 DEF FlushBegins, Pull, PullDone, PullFails, WriteManifest, Merge, ReadManifest, SetSeqnum, Fail, First
  <2> QED BY <2>1 DEF LastInv
<1>4. CASE ReadersStep(f)
  <2>1. /\ pc'[f] \in First => mine'[f].gen = commit
        /\ commit' = commit /\ pc'[f] \notin {"close", "swap"}
    BY <1>1, <1>4 DEF ReadersStep, GetReaders, OpenReader, StampReader, InstallReader, Fail, First,
                      LastInv, Readers
  <2> QED BY <2>1 DEF LastInv
<1>5. CASE CompareSeqnum(f) \/ Reopen(f) \/ CloseOld(f) \/ SwapReaders(f)
  <2>1. /\ pc'[f] \in {"close", "swap"} => fresh'[f].gen = commit
        /\ commit' = commit /\ pc'[f] \notin First
    BY <1>1, <1>5 DEF CompareSeqnum, Reopen, CloseOld, SwapReaders, Fail, First, LastInv, Readers
  <2> QED BY <2>1 DEF LastInv
<1>6. ASSUME NEW q \in Queries, Request(q) \/ QueryStep(q) PROVE LastInv(f)'
  <2>1. q \in Fiber /\ q # f
    BY SearcherAssumption DEF Fiber
  <2>2. /\ pc'[f] = pc[f] /\ mine'[f] = mine[f] /\ fresh'[f] = fresh[f] /\ commit' = commit
    BY <1>1, <1>6, <2>1 DEF Request, QueryStep, UseReaders, ReadersStep, GetReaders, OpenReader,
                            StampReader, InstallReader, Fail
  <2> QED BY <2>2 DEF LastInv
<1> QED BY <1>3, <1>4, <1>5, <1>6 DEF Works, Searches, SyncerStep

TurnsLast == \A f \in Syncers : Only(f) => LastInv(f)

LEMMA LastNext ==
  ASSUME ReadersInv, TurnsLast, OneAtATime, [Next]_vars
  PROVE  TurnsLast'
<1> SUFFICES ASSUME NEW f \in Syncers, Only(f)' PROVE LastInv(f)'
  BY DEF TurnsLast
<1>1. CASE UNCHANGED vars
  BY <1>1 DEF TurnsLast, LastInv, Only, Quiet, vars, indexVars
<1>2. CASE Next
  <2>1. CASE Only(f) /\ (Works(f) \/ Searches)
    BY <2>1, LastStep DEF TurnsLast
  <2>2. CASE Quiet(f)'
    BY <2>2 DEF LastInv, Quiet, First
  <2> QED BY <1>2, <2>1, <2>2, SyncersTakeTurns DEF ReadersInv
<1> QED BY <1>1, <1>2

\* When the fibers that reload the searcher do so one at a time, requests are given
\* later and later commits: only a first request that comes late with the readers
\* it opened can take the searcher back (Searcher.sync, getReadersOrFail).
THEOREM SyncOnlyMovesForward == Spec /\ []OneAtATime => SyncMovesForward
<1>1. Init => TurnsLast
  BY DEF Init, TurnsLast, LastInv, First, Fiber
<1>2. ReadersInv /\ TurnsLast /\ OneAtATime /\ [Next]_vars => TurnsLast'
  BY LastNext
<1>3. ASSUME ReadersInv, TurnsLast, OneAtATime, [Next]_vars
      PROVE  [ref # NoReaders /\ ref' # ref /\ (\A q \in Queries : pc[q] # "install")
                => ref'.gen >= ref.gen]_vars
  <2> SUFFICES ASSUME Next, ref # NoReaders, ref' # ref, \A q \in Queries : pc[q] # "install"
               PROVE  ref'.gen >= ref.gen
    BY <1>3
  <2> USE DEF Serve, indexVars, readerVars
  <2>1. commit \in Nat /\ ref.gen \in 1..commit
    BY <1>3, SearcherAssumption DEF ReadersInv, TypeOK, Opened
  <2>2. PICK f \in Syncers : InstallReader(f) \/ SwapReaders(f)
    BY DEF Next, FlushBegins, Pull, SyncerStep, PullDone, PullFails, WriteManifest, Merge, ReadManifest, SetSeqnum,
           ReadersStep, GetReaders, OpenReader, StampReader, InstallReader, CompareSeqnum, Reopen,
           CloseOld, SwapReaders, Request, QueryStep, UseReaders
  <2>3. Only(f)
    BY <1>3, <2>2 DEF OneAtATime, Only, Quiet, InstallReader, SwapReaders
  <2>4. ref'.gen = commit
    BY <1>3, <2>2, <2>3 DEF InstallReader, SwapReaders, TurnsLast, LastInv, First
  <2> QED BY <2>1, <2>4
<1> QED BY <1>1, <1>2, <1>3, ReadersInvariant, PTL DEF Spec, SyncMovesForward
=============================================================================
