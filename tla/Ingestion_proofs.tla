-------------------------- MODULE Ingestion_proofs --------------------------
(***************************************************************************)
(* Theorems about the documents of an indexer, for any documents, any      *)
(* number of callers and any batches, whatever fails, stops or is killed.  *)
(***************************************************************************)
EXTENDS Ingestion, FiniteSetTheorems, TLAPS

-----------------------------------------------------------------------------
(* The invariant.  TwoVersionsNeedARace is not inductive: an add keeps to   *)
(* one document per id only because its call has deleted what there was,    *)
(* and nobody has added since.                                              *)

\* The index has at most one document of each id that was not raced for.
Single(index) ==
  /\ \A v \in Version : IdOf[v] \notin raced => index[v] \in {0, 1}
  /\ \A v, w \in Version :
       /\ IdOf[v] = IdOf[w] /\ IdOf[v] \notin raced
       /\ index[v] = 1 /\ index[w] = 1
       => v = w

\* A call between its delete and its add has left nothing of its ids.
Cleared ==
  \A c \in Callers : \A v \in Version :
    InGap(c) /\ IdOf[v] \in BatchIds(c) /\ IdOf[v] \notin raced => live[v] = 0

CallsInv == step \in [Callers -> Steps] /\ DOMAIN batch = Callers

SingleInv == CallsInv /\ Single(live) /\ Single(disk) /\ Cleared

-----------------------------------------------------------------------------
\* There are no documents and no calls.
LEMMA SingleFirst == IngestionInit => SingleInv
  BY DEF IngestionInit, DocumentsInit, SingleInv, CallsInv, Single, Cleared, InGap, Steps

\* A step that adds nothing to the writer and begins no gap.
LEMMA NothingAdded ==
  ASSUME SingleInv, CallsInv', Single(disk)', raced' = raced,
         \A v \in Version : live'[v] \in {0, live[v]},
         \A c \in Callers : InGap(c)' => InGap(c) /\ batch'[c] = batch[c]
  PROVE  SingleInv'
<1>1. Single(live)'
  BY DEF SingleInv, Single
<1>2. Cleared'
  BY DEF SingleInv, Cleared, BatchIds, InBatch
<1> QED BY <1>1, <1>2 DEF SingleInv

\* The steps that leave the writer, its calls and its commit alone.
LEMMA ElsewhereStep ==
  ASSUME SingleInv,
         \/ ProduceMessage \/ AssignFirst \/ Rebalance \/ PollMessages \/ FlushFails \/ Start
         \/ \E c \in Callers : Request(c) \/ Answer(c)
         \/ UNCHANGED ingestionVars
  PROVE  SingleInv'
<1>1. UNCHANGED docVars /\ raced' = raced
  BY DEF ProduceMessage, AssignFirst, Rebalance, PollMessages, FlushFails, Start, Request, Answer,
     ingestionVars, ghostVars
<1> QED BY <1>1, NothingAdded DEF docVars, SingleInv, CallsInv, Single, InGap

LEMMA TakeStep ==
  ASSUME SingleInv, NEW c \in Callers, Take(c)
  PROVE  SingleInv'
<1>1. /\ step' = [step EXCEPT ![c] = "embed"]
      /\ \E docs : batch' = [batch EXCEPT ![c] = docs]
      /\ UNCHANGED <<live, disk, raced>>
  BY DEF Take, AddDocuments, ghostVars
<1>2. CallsInv' /\ Single(disk)'
  BY <1>1 DEF SingleInv, CallsInv, Single, Steps
<1>3. \A d \in Callers : InGap(d)' => InGap(d) /\ batch'[d] = batch[d]
  BY <1>1 DEF SingleInv, CallsInv, InGap
<1> QED BY <1>1, <1>2, <1>3, NothingAdded

\* The delete clears the ids of its own batch, and no others.
LEMMA ReplaceStep ==
  ASSUME SingleInv, NEW c \in Callers, Replace(c)
  PROVE  SingleInv'
<1>1. /\ live' = Without(live, BatchIds(c)) /\ step' = [step EXCEPT ![c] = "add"]
      /\ UNCHANGED <<disk, batch, raced>>
  BY DEF Replace, DeleteOld, ghostVars
<1>2. \A v \in Version : live'[v] = IF IdOf[v] \in BatchIds(c) THEN 0 ELSE live[v]
  BY <1>1 DEF Without
<1>3. CallsInv'
  BY <1>1 DEF SingleInv, CallsInv, Steps
<1>4. Single(live)' /\ Single(disk)'
  BY <1>1, <1>2 DEF SingleInv, Single
<1>5. Cleared'
  BY <1>1, <1>2 DEF SingleInv, CallsInv, Cleared, InGap, BatchIds, InBatch
<1> QED BY <1>3, <1>4, <1>5 DEF SingleInv

\* A batch that has an id once adds one document of it.
LEMMA CopiesOfOne ==
  ASSUME NEW c \in Callers, NEW v \in Version,
         \A i, j \in DOMAIN batch[c] :
           IdOf[batch[c][i]] = IdOf[v] /\ IdOf[batch[c][j]] = IdOf[v] => i = j
  PROVE  /\ Copies(v, batch[c]) \in {0, 1}
         /\ Copies(v, batch[c]) = 1 => \E i \in DOMAIN batch[c] : batch[c][i] = v
         /\ IdOf[v] \notin BatchIds(c) => Copies(v, batch[c]) = 0
<1> DEFINE places == {i \in DOMAIN batch[c] : batch[c][i] = v}
<1>1. CASE places = {}
  BY <1>1, FS_EmptySet DEF Copies
<1>2. CASE places # {}
  <2>1. PICK i \in DOMAIN batch[c] : batch[c][i] = v
    BY <1>2
  <2>2. places = {i}
    BY <2>1
  <2>3. Copies(v, batch[c]) = 1
    BY <2>2, FS_Singleton DEF Copies
  <2> QED BY <2>1, <2>3 DEF BatchIds, InBatch
<1> QED BY <1>1, <1>2

LEMMA AddStep ==
  ASSUME SingleInv, NEW c \in Callers, Add(c)
  PROVE  SingleInv'
<1>1. /\ step[c] = "add"
      /\ live' = [v \in Version |-> live[v] + Copies(v, batch[c])]
      /\ step' = [step EXCEPT ![c] = "idle"] /\ batch' = [batch EXCEPT ![c] = <<>>]
      /\ disk' = disk
      /\ raced' = raced \cup {id \in BatchIds(c) : Races(c, id)}
  BY DEF Add, AddNew, Return
<1>2. \A v \in Version : live'[v] = live[v] + Copies(v, batch[c])
  BY <1>1
<1>3. CallsInv'
  BY <1>1 DEF SingleInv, CallsInv, Steps
<1>4. Single(disk)'
  BY <1>1 DEF SingleInv, Single
<1>5. ASSUME NEW v \in Version, IdOf[v] \notin raced', IdOf[v] \notin BatchIds(c)
      PROVE  live'[v] = live[v]
  <2>1. Copies(v, batch[c]) = 0
    BY <1>5, CopiesOfOne DEF BatchIds, InBatch
  <2>2. live[v] \in {0, 1}
    BY <1>1, <1>5 DEF SingleInv, Single
  <2> QED BY <1>2, <2>1, <2>2
<1>6. ASSUME NEW v \in Version, IdOf[v] \notin raced', IdOf[v] \in BatchIds(c)
      PROVE  /\ live'[v] = Copies(v, batch[c]) /\ live'[v] \in {0, 1}
             /\ live'[v] = 1 => \E i \in DOMAIN batch[c] : batch[c][i] = v
             /\ \A i, j \in DOMAIN batch[c] :
                  IdOf[batch[c][i]] = IdOf[v] /\ IdOf[batch[c][j]] = IdOf[v] => i = j
             /\ \A d \in Callers \ {c} : InGap(d) => IdOf[v] \notin BatchIds(d)
  <2>1. ~Races(c, IdOf[v]) /\ IdOf[v] \notin raced
    BY <1>1, <1>6
  <2>2. live[v] = 0
    BY <1>1, <1>6, <2>1 DEF SingleInv, Cleared, InGap
  <2>3. \A i, j \in DOMAIN batch[c] :
          IdOf[batch[c][i]] = IdOf[v] /\ IdOf[batch[c][j]] = IdOf[v] => i = j
    BY <2>1 DEF Races
  <2>4. \A d \in Callers \ {c} : InGap(d) => IdOf[v] \notin BatchIds(d)
    BY <2>1 DEF Races
  <2>5. /\ Copies(v, batch[c]) \in {0, 1}
        /\ Copies(v, batch[c]) = 1 => \E i \in DOMAIN batch[c] : batch[c][i] = v
    BY <2>3, CopiesOfOne
  <2>6. live'[v] = Copies(v, batch[c])
    BY <1>2, <2>2, <2>5
  <2> QED BY <2>3, <2>4, <2>5, <2>6
<1>7. Single(live)'
  <2>1. \A v \in Version : IdOf[v] \notin raced' => live'[v] \in {0, 1}
    BY <1>1, <1>5, <1>6 DEF SingleInv, Single
  <2>2. ASSUME NEW v \in Version, NEW w \in Version,
               IdOf[v] = IdOf[w], IdOf[v] \notin raced', live'[v] = 1, live'[w] = 1
        PROVE  v = w
    <3>1. CASE IdOf[v] \in BatchIds(c)
      <4>1. PICK i \in DOMAIN batch[c] : batch[c][i] = v
        BY <1>6, <2>2, <3>1
      <4>2. PICK j \in DOMAIN batch[c] : batch[c][j] = w
        BY <1>6, <2>2, <3>1
      <4>3. i = j
        BY <1>6, <2>2, <3>1, <4>1, <4>2
      <4> QED BY <4>1, <4>2, <4>3
    <3>2. CASE IdOf[v] \notin BatchIds(c)
      BY <1>1, <1>5, <2>2, <3>2 DEF SingleInv, Single
    <3> QED BY <3>1, <3>2
  <2> QED BY <2>1, <2>2 DEF Single
<1>8. Cleared'
  <2> SUFFICES ASSUME NEW d \in Callers, NEW v \in Version,
                      InGap(d)', (IdOf[v] \in BatchIds(d))', IdOf[v] \notin raced'
               PROVE  live'[v] = 0
    BY DEF Cleared
  <2>1. d # c /\ InGap(d) /\ IdOf[v] \in BatchIds(d) /\ IdOf[v] \notin raced
    BY <1>1 DEF SingleInv, CallsInv, InGap, BatchIds, InBatch
  <2>2. IdOf[v] \notin BatchIds(c)
    BY <1>6, <2>1
  <2> QED BY <1>5, <2>1, <2>2 DEF SingleInv, Cleared
<1> QED BY <1>3, <1>4, <1>7, <1>8 DEF SingleInv

\* Whatever ends calls: none is in the gap afterwards that was not before.
LEMMA EndStep ==
  ASSUME SingleInv, Stop \/ AssignFails \/ \E c \in Callers : Fail(c)
  PROVE  SingleInv'
<1>1. UNCHANGED <<live, disk, raced>>
  BY DEF Stop, AssignFails, Fail, AddFails, docVars
<1>2. \/ step' = [c \in Callers |-> "idle"] /\ batch' = [c \in Callers |-> <<>>]
      \/ \E c \in Callers :
           step' = [step EXCEPT ![c] = "idle"] /\ batch' = [batch EXCEPT ![c] = <<>>]
      \/ UNCHANGED <<step, batch>>
  BY DEF Stop, AssignFails, Fail, AddFails, Return, docVars, Shut, Drop
<1>3. CallsInv' /\ Single(disk)'
  BY <1>1, <1>2 DEF SingleInv, CallsInv, Single, Steps
<1>4. \A d \in Callers : InGap(d)' => InGap(d) /\ batch'[d] = batch[d]
  BY <1>2 DEF SingleInv, CallsInv, InGap
<1> QED BY <1>1, <1>3, <1>4, NothingAdded

LEMMA DeleteStep ==
  ASSUME SingleInv, Delete
  PROVE  SingleInv'
<1>1. /\ \E ids : live' = Without(live, ids)
      /\ UNCHANGED <<disk, batch, step, raced>>
  BY DEF Delete, DeleteDocuments
<1>2. \A v \in Version : live'[v] \in {0, live[v]}
  BY <1>1 DEF Without
<1> QED BY <1>1, <1>2, NothingAdded DEF SingleInv, CallsInv, Single, InGap

\* A commit makes the disk what the writer has.
LEMMA CommitStep ==
  ASSUME SingleInv, Flush \/ FlushRequest \/ Finish \/ Close
  PROVE  SingleInv'
<1>1. disk' = live /\ UNCHANGED <<live, batch, step, raced>>
  BY DEF Flush, FlushRequest, Finish, Close, CommitAll, Commit
<1> QED BY <1>1 DEF SingleInv, CallsInv, Single, Cleared, InGap, BatchIds, InBatch

\* A kill leaves what is on disk.
LEMMA KillStep ==
  ASSUME SingleInv, Kill
  PROVE  SingleInv'
<1>1. /\ live' = disk /\ UNCHANGED <<disk, raced>>
      /\ step' = [c \in Callers |-> "idle"] /\ batch' = [c \in Callers |-> <<>>]
  BY DEF Kill, Drop
<1> QED BY <1>1 DEF SingleInv, CallsInv, Single, Cleared, InGap, Steps

LEMMA SingleStep == SingleInv /\ [IngestionNext]_ingestionVars => SingleInv'
  BY ElsewhereStep, TakeStep, ReplaceStep, AddStep, EndStep, DeleteStep, CommitStep, KillStep
  DEF IngestionNext

\* The invariant holds in every state.
THEOREM SingleInvariant == IngestionSpec => []SingleInv
  BY SingleFirst, SingleStep, PTL DEF IngestionSpec

\* An id is in the writer or in a commit twice only if one batch had it twice or
\* two calls were between their deletes and their adds of it at once: whatever
\* the source, the batches and the failures, and though flushes, deletes and
\* other calls run in between.
THEOREM TwoVersionsOnlyByRaces == IngestionSpec => []TwoVersionsNeedARace
<1>1. ASSUME NEW id \in Ids \ raced, NEW index, Single(index)
      PROVE  ~Doubled(index, id)
  BY <1>1 DEF Single, Doubled, Held
<1>2. SingleInv => TwoVersionsNeedARace
  BY <1>1 DEF SingleInv, TwoVersionsNeedARace
<1> QED BY <1>2, SingleInvariant, PTL
=============================================================================
