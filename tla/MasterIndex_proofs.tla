------------------------- MODULE MasterIndex_proofs -------------------------
(***************************************************************************)
(* Theorems about the indexer of a distributed index, for any number of    *)
(* fibers and documents, any sizes of files, and any bound on the number   *)
(* of commits and starts.                                                  *)
(***************************************************************************)
EXTENDS MasterHistory, TLAPS, WellFoundedInduction

-----------------------------------------------------------------------------
(* The type invariant.  That the writer's segments and generation stay in   *)
(* their range rests on two more facts: there is something to commit only   *)
(* as long as there is a generation left for it, and a segments_g names     *)
(* segments, so the writer that is opened on one has segments.              *)

Room == writer.buffer # {} \/ writer.merged => writer.gen < MaxGen

SegmentsInv == \A s \in Store, g \in Gen : data[s][Segments(g)].body \subseteq Gen

MasterInv == TypeOK /\ Room /\ SegmentsInv

\* The operations of a difference are operations on index files.
LEMMA DiffType ==
  ASSUME NEW source, NEW target
  PROVE  Diff(source, target) \subseteq ChangedFileOp
  BY DEF Diff, ChangedFileOp, Add, Del, Listed

\* Manifests and blobs that the code builds are manifests and blobs.
LEMMA ValueTypes ==
  /\ NoFiles \in [FileName -> Nat]
  /\ NoManifest \in Manifest /\ TornManifest \in Manifest
  /\ NoBlob \in Blob /\ TornBlob \in Blob
  /\ \A b \in Body : Whole(b) \in Blob
<1>1. NoFiles \in [FileName -> Nat]
  BY DEF NoFiles
<1>2. NoManifest \in Manifest /\ TornManifest \in Manifest
  BY <1>1 DEF NoManifest, TornManifest, Manifest
<1>3. {} \in Body
  BY DEF Body
<1>4. NoBlob \in Blob /\ TornBlob \in Blob /\ \A b \in Body : Whole(b) \in Blob
  BY <1>3 DEF NoBlob, TornBlob, Blob, Whole
<1> QED BY <1>1, <1>2, <1>4

LEMMA MasterInitial == Init => MasterInv
<1> SUFFICES ASSUME Init PROVE MasterInv
  OBVIOUS
<1> USE BoundsAssumption, MasterAssumption, ActorsAssumption, ValueTypes DEF Init, SyncInit, MasterInit
<1>1. SyncTypeOK
  <2>1. data \in [Store -> [FileName -> Blob]]
    OBVIOUS
  <2>2. manifest \in [Store -> Manifest] /\ hand \in [Actor -> Manifest]
    OBVIOUS
  <2>3. pc \in [Actor -> AnyPhase] /\ \A a \in Actor : pc[a] \in Phases(a)
    BY DEF AnyPhase, Phases, ThreadPhase, ProcessPhase, FlushPhases, SlavePhase, Indexer, Actor
  <2>4. /\ ops \in [Actor -> SUBSET ChangedFileOp] /\ outs \in [Actor -> SUBSET ChangedFileOp]
        /\ \A a \in Actor : outs[a] \subseteq ops[a]
    OBVIOUS
  <2> QED BY <2>1, <2>2, <2>3, <2>4 DEF SyncTypeOK
<1>4. TypeOK
  BY <1>1 DEF TypeOK, Closed
<1>5. Room
  BY DEF Room, Closed
<1>6. SegmentsInv
  BY DEF SegmentsInv, NoBlob, Segments, FileName
<1> QED BY <1>4, <1>5, <1>6 DEF MasterInv

\* Leaving a synchronization, or starting one, keeps an actor's variables in
\* their range.
ActorsType ==
  /\ pc' \in [Actor -> AnyPhase] /\ \A a \in Actor : pc'[a] \in Phases(a)
  /\ hand' \in [Actor -> Manifest]
  /\ ops' \in [Actor -> SUBSET ChangedFileOp] /\ outs' \in [Actor -> SUBSET ChangedFileOp]
  /\ \A a \in Actor : outs'[a] \subseteq ops'[a]

LEMMA PhaseType == \A a : Phases(a) \subseteq AnyPhase
  BY DEF AnyPhase, Phases

LEMMA LeaveType ==
  ASSUME SyncTypeOK, NEW a \in Actor, NEW next \in Phases(a), Leave(a, next)
  PROVE  ActorsType
  BY ValueTypes, PhaseType DEF SyncTypeOK, Leave, ActorsType

LEMMA StartType ==
  ASSUME SyncTypeOK, NEW a \in Actor, NEW next \in Phases(a), NEW source, NEW target,
         Start(a, next, source, target)
  PROVE  ActorsType
  BY ValueTypes, DiffType, PhaseType DEF SyncTypeOK, Start, ActorsType

\* The steps that move a fiber and leave files and writer alone.
RequestsType ==
  /\ merging' \in [Threads -> BOOLEAN] /\ covers' \in [Threads -> SUBSET (1..MaxDocs)]
  /\ acked' \in SUBSET (1..MaxDocs)

LEMMA FiberMoves ==
  ASSUME MasterInv, ActorsType, RequestsType, UNCHANGED <<data, manifest, writer, docs, starts>>
  PROVE  MasterInv'
<1>1. SyncTypeOK'
  BY DEF MasterInv, TypeOK, SyncTypeOK, ActorsType
<1>2. TypeOK'
  BY <1>1 DEF MasterInv, TypeOK, RequestsType
<1>3. Room' /\ SegmentsInv'
  BY DEF MasterInv, Room, SegmentsInv
<1> QED BY <1>2, <1>3 DEF MasterInv

\* How a flush, a merge or a synchronization of a fiber or of the process ends.
LEMMA SucceedType ==
  ASSUME TypeOK, NEW a \in Threads, Succeed(a)
  PROVE  ActorsType /\ RequestsType
<1>1. "idle" \in Phases(a) /\ a \in Actor
  BY DEF Phases, ThreadPhase, FlushPhases, Actor
<1>2. ActorsType
  BY <1>1, LeaveType DEF TypeOK, Succeed
<1>3. RequestsType
  BY DEF TypeOK, Succeed, RequestsType
<1> QED BY <1>2, <1>3

LEMMA FailType ==
  ASSUME TypeOK, NEW a \in Flusher, Fail(a)
  PROVE  ActorsType /\ RequestsType
<1> DEFINE next == CASE a \in Periodic -> "dead" [] a = Indexer -> "close" [] OTHER -> "idle"
<1>1. next \in Phases(a) /\ a \in Actor
  BY ActorsAssumption, MasterAssumption
  DEF Phases, ThreadPhase, ProcessPhase, FlushPhases, Actor, Flusher, Indexer
<1>2. ActorsType
  <2> HIDE DEF next
  <2> QED BY <1>1, LeaveType DEF TypeOK, Fail, next
<1>3. RequestsType
  BY DEF TypeOK, Fail, RequestsType
<1> QED BY <1>2, <1>3

LEMMA AfterFlushType ==
  ASSUME TypeOK, NEW a \in Flusher, NEW c \in BOOLEAN, AfterFlush(a, c)
  PROVE  ActorsType /\ RequestsType
<1> DEFINE next == CASE a = Indexer -> "close"
                     [] a \in Periodic -> IF c THEN "master" ELSE "idle"
                     [] OTHER -> IF merging[a] THEN "merge" ELSE "master"
<1>1. next \in Phases(a) /\ a \in Actor
  BY ActorsAssumption, MasterAssumption
  DEF Phases, ThreadPhase, ProcessPhase, FlushPhases, Actor, Flusher, Indexer
<1>2. ActorsType
  <2> HIDE DEF next
  <2> QED BY <1>1, LeaveType DEF TypeOK, AfterFlush, next
<1>3. RequestsType
  BY DEF TypeOK, AfterFlush, RequestsType
<1> QED BY <1>2, <1>3

-----------------------------------------------------------------------------
(* The writer. *)

WriterType == [open : BOOLEAN, seq : Nat, gen : 0..MaxGen, segs : SUBSET Gen,
               buffer : SUBSET (1..MaxDocs), merged : BOOLEAN]

LEMMA AddDocumentStep == MasterInv /\ AddDocument => MasterInv'
<1> SUFFICES ASSUME MasterInv, AddDocument PROVE MasterInv'
  OBVIOUS
<1> USE BoundsAssumption DEF MasterInv, AddDocument, syncVars
<1>1. SyncTypeOK'
  BY DEF TypeOK, SyncTypeOK
<1>2. docs + 1 \in 1..MaxDocs /\ writer \in WriterType
  BY DEF TypeOK, WriterType
<1>3. writer' \in WriterType
  <2>1. writer.buffer \cup {docs + 1} \in SUBSET (1..MaxDocs) /\ writer.seq + 1 \in Nat
    BY <1>2 DEF WriterType
  <2> QED BY <1>2, <2>1 DEF WriterType
<1>4. docs' \in 0..MaxDocs
  BY <1>2
<1>5. TypeOK'
  BY <1>1, <1>3, <1>4 DEF TypeOK, WriterType
<1>6. Room'
  BY <1>2 DEF Room, WriterType
<1>7. SegmentsInv'
  BY DEF SegmentsInv
<1> QED BY <1>5, <1>6, <1>7

LEMMA MergeStep ==
  ASSUME MasterInv, CanMerge, MergeSegments
  PROVE  writer' \in WriterType /\ Room'
<1>1. writer \in WriterType
  BY DEF MasterInv, TypeOK, WriterType
<1>2. writer' \in WriterType
  BY <1>1 DEF MergeSegments, WriterType
<1>3. Room'
  BY <1>1 DEF CanMerge, MergeSegments, Room, WriterType
<1> QED BY <1>2, <1>3

LEMMA BackgroundMergeStep == MasterInv /\ BackgroundMerge => MasterInv'
<1> SUFFICES ASSUME MasterInv, BackgroundMerge PROVE MasterInv'
  OBVIOUS
<1>1. SyncTypeOK' /\ SegmentsInv'
  BY DEF MasterInv, TypeOK, BackgroundMerge, syncVars, SyncTypeOK, SegmentsInv
<1>2. writer' \in WriterType /\ Room'
  BY MergeStep DEF BackgroundMerge
<1>3. TypeOK'
  BY <1>1, <1>2 DEF MasterInv, TypeOK, BackgroundMerge, WriterType
<1> QED BY <1>1, <1>2, <1>3 DEF MasterInv

LEMMA ForceMergeStep ==
  ASSUME MasterInv, NEW a \in Threads, ForceMerge(a)
  PROVE  MasterInv'
<1>1. "commit" \in Phases(a) /\ a \in Actor
  BY DEF Phases, ThreadPhase, FlushPhases, Actor
<1>2. ActorsType
  BY <1>1, LeaveType DEF MasterInv, TypeOK, ForceMerge
<1>3. SyncTypeOK' /\ SegmentsInv'
  BY <1>2 DEF MasterInv, TypeOK, ForceMerge, SyncTypeOK, ActorsType, SegmentsInv
<1>4. writer' \in WriterType /\ Room'
  <2>1. CASE CanMerge
    BY <2>1, MergeStep DEF ForceMerge
  <2>2. CASE ~CanMerge
    BY <2>2 DEF MasterInv, TypeOK, ForceMerge, Room, WriterType
  <2> QED BY <2>1, <2>2
<1>5. merging' \in [Threads -> BOOLEAN]
  BY DEF MasterInv, TypeOK, ForceMerge
<1>6. TypeOK'
  BY <1>3, <1>4, <1>5 DEF MasterInv, TypeOK, ForceMerge, WriterType
<1> QED BY <1>3, <1>4, <1>6 DEF MasterInv

\* What a commit writes: blobs under the names of index files, and a
\* segments_g that names segments.
LEMMA CommittedType ==
  ASSUME MasterInv, NEW g \in Gen
  PROVE  /\ NewSegs(g) \in SUBSET Gen
         /\ Committed(g) \in [FileName -> Blob]
         /\ \A h \in Gen : Committed(g)[Segments(h)].body \subseteq Gen
<1>1. writer \in WriterType /\ data \in [Store -> [FileName -> Blob]]
  BY DEF MasterInv, TypeOK, SyncTypeOK, WriterType
<1>2. \A f \in FileName : data[Local][f] \in Blob
  BY <1>1 DEF Store
<1>3. Kept \subseteq Gen
  BY <1>1 DEF Kept, WriterType
<1>4. NewSegs(g) \in SUBSET Gen
  BY <1>3 DEF NewSegs
<1>5. NewBody \in Body
  <2>1. \A h \in writer.segs : data[Local][Seg(h)].body \in Body
    BY <1>1, <1>2 DEF WriterType, Seg, FileName, Blob
  <2> QED BY <1>1, <2>1 DEF NewBody, OnDisk, Body, WriterType
<1>6. Whole(NewBody) \in Blob /\ Whole(NewSegs(g)) \in Blob
  BY <1>4, <1>5, ValueTypes DEF Body, Gen
<1>7. Committed(g) \in [FileName -> Blob]
  <2>1. ASSUME NEW f \in FileName PROVE Committed(g)[f] \in Blob
    BY <1>2, <1>6, ValueTypes, Zenon DEF Committed
  <2> QED BY <2>1 DEF Committed
<1>8. ASSUME NEW h \in Gen PROVE Committed(g)[Segments(h)].body \subseteq Gen
  <2>1. Segments(h) \in FileName /\ \A i : Segments(h) # Seg(i)
    BY DEF Segments, Seg, FileName
  <2>2. \/ Committed(g)[Segments(h)] = Whole(NewSegs(g))
        \/ Committed(g)[Segments(h)] = NoBlob
        \/ Committed(g)[Segments(h)] = data[Local][Segments(h)]
    <3> DEFINE F == Segments(h)
               Old == F \in CommitFiles /\ F \notin {Seg(i) : i \in Kept}
    <3>1. Committed(g)[F] = CASE F = Segments(g) -> Whole(NewSegs(g))
                              [] Old -> NoBlob
                              [] OTHER -> data[Local][F]
      BY <2>1 DEF Committed
    <3> HIDE DEF F, Old
    <3>2. \/ Committed(g)[F] = Whole(NewSegs(g)) \/ Committed(g)[F] = NoBlob
          \/ Committed(g)[F] = data[Local][F]
      BY <3>1
    <3> QED BY <3>2 DEF F
  <2>3. data[Local][Segments(h)].body \subseteq Gen
    BY DEF MasterInv, SegmentsInv, Store
  <2> QED BY <1>4, <2>2, <2>3 DEF Whole, NoBlob
<1> QED BY <1>4, <1>7, <1>8

-----------------------------------------------------------------------------
(* flush() *)

LEMMA TickStep ==
  ASSUME MasterInv, NEW a \in Threads, Tick(a)
  PROVE  MasterInv'
<1>1. "commit" \in Phases(a) /\ a \in Actor
  BY DEF Phases, ThreadPhase, FlushPhases, Actor
<1>2. ActorsType
  BY <1>1, LeaveType DEF MasterInv, TypeOK, Tick
<1>3. RequestsType
  BY DEF MasterInv, TypeOK, Tick, masterVars, RequestsType
<1> QED BY <1>2, <1>3, FiberMoves DEF Tick, masterVars

LEMMA RequestStep ==
  ASSUME MasterInv, NEW a \in Threads, Request(a)
  PROVE  MasterInv'
<1>1. PICK m \in BOOLEAN :
        /\ merging' = [merging EXCEPT ![a] = m]
        /\ Leave(a, IF Dirty THEN "commit" ELSE IF m THEN "merge" ELSE "master")
  BY DEF Request
<1>2. /\ (IF Dirty THEN "commit" ELSE IF m THEN "merge" ELSE "master") \in Phases(a)
      /\ a \in Actor
  BY DEF Phases, ThreadPhase, FlushPhases, Actor
<1>3. ActorsType
  BY <1>1, <1>2, LeaveType DEF MasterInv, TypeOK
<1>4. RequestsType
  BY <1>1 DEF MasterInv, TypeOK, Request, RequestsType, Held
<1> QED BY <1>3, <1>4, FiberMoves DEF Request

LEMMA CommitStep ==
  ASSUME MasterInv, NEW a \in Flusher, Commit(a)
  PROVE  MasterInv'
<1>1. CASE ~Dirty
  <2>1. AfterFlush(a, FALSE) /\ UNCHANGED <<data, manifest, writer, docs, starts>>
    BY <1>1 DEF Commit
  <2> QED BY <2>1, AfterFlushType, FiberMoves DEF MasterInv
<1>2. CASE Dirty
  <2> DEFINE g == writer.gen + 1
  <2>1. writer \in WriterType /\ data \in [Store -> [FileName -> Blob]]
    BY DEF MasterInv, TypeOK, SyncTypeOK, WriterType
  <2>2. g \in Gen
    BY <1>2, <2>1, BoundsAssumption DEF MasterInv, Room, Dirty, WriterType, Gen
  <2>3. /\ data' = [data EXCEPT ![Local] = Committed(g)]
        /\ writer' = [writer EXCEPT !.seq = @ + 1, !.gen = g, !.segs = NewSegs(g),
                                    !.buffer = {}, !.merged = FALSE]
        /\ hand' = [hand EXCEPT ![a] = MakeManifest(NoFiles, writer.seq + 1)]
        /\ pc' = [pc EXCEPT ![a] = "list"]
        /\ UNCHANGED <<manifest, ops, outs, docs, merging, covers, acked, starts>>
    BY <1>2 DEF Commit
  <2> HIDE DEF g
  <2>4. /\ NewSegs(g) \in SUBSET Gen
        /\ Committed(g) \in [FileName -> Blob]
        /\ \A h \in Gen : Committed(g)[Segments(h)].body \subseteq Gen
    BY <2>2, CommittedType
  <2>5. data' \in [Store -> [FileName -> Blob]]
    BY <2>1, <2>3, <2>4
  <2>6. writer.seq + 1 \in Nat /\ g \in 0..MaxGen
    BY <2>1, <2>2 DEF WriterType, Gen
  <2>7. writer' \in WriterType /\ writer'.buffer = {} /\ writer'.merged = FALSE
    BY <2>1, <2>3, <2>4, <2>6 DEF WriterType
  <2>8. MakeManifest(NoFiles, writer.seq + 1) \in Manifest
    BY <2>6, ValueTypes DEF MakeManifest, Manifest
  <2>9. hand' \in [Actor -> Manifest]
    BY <2>3, <2>8 DEF MasterInv, TypeOK, SyncTypeOK
  <2>10. "list" \in Phases(a)
    BY ActorsAssumption DEF Phases, ThreadPhase, ProcessPhase, FlushPhases, Flusher
  <2>11. pc' \in [Actor -> AnyPhase] /\ \A b \in Actor : pc'[b] \in Phases(b)
    BY <2>3, <2>10, PhaseType DEF MasterInv, TypeOK, SyncTypeOK
  <2>12. SyncTypeOK'
    BY <2>3, <2>5, <2>9, <2>11 DEF MasterInv, TypeOK, SyncTypeOK
  <2>13. TypeOK'
    BY <2>3, <2>7, <2>12 DEF MasterInv, TypeOK, WriterType
  <2>14. Room'
    BY <2>7 DEF Room
  <2>15. SegmentsInv'
    BY <2>1, <2>3, <2>4 DEF MasterInv, SegmentsInv, Store
  <2> QED BY <2>13, <2>14, <2>15 DEF MasterInv
<1> QED BY <1>1, <1>2

\* A manifest in hand that is replaced by another, as its actor moves on.
LEMMA HandStep ==
  ASSUME MasterInv, NEW a \in Actor, NEW m \in Manifest, NEW next \in Phases(a),
         hand' = [hand EXCEPT ![a] = m], pc' = [pc EXCEPT ![a] = next],
         UNCHANGED <<data, manifest, ops, outs, masterVars>>
  PROVE  MasterInv'
<1>1. ActorsType
  BY PhaseType DEF MasterInv, TypeOK, SyncTypeOK, ActorsType
<1>2. RequestsType
  BY DEF MasterInv, TypeOK, masterVars, RequestsType
<1> QED BY <1>1, <1>2, FiberMoves DEF masterVars

LEMMA ListFilesStep ==
  ASSUME MasterInv, NEW a \in Flusher, ListFiles(a)
  PROVE  MasterInv'
<1> DEFINE m == [hand[a] EXCEPT !.files = [f \in FileName |-> IF f \in CommitFiles THEN 1 ELSE 0]]
<1>1. a \in Actor /\ "sizes" \in Phases(a)
  BY ActorsAssumption DEF Phases, ThreadPhase, ProcessPhase, FlushPhases, Flusher, Actor
<1>2. m \in Manifest
  BY <1>1 DEF MasterInv, TypeOK, SyncTypeOK, Manifest
<1>3. hand' = [hand EXCEPT ![a] = m]
  BY DEF ListFiles
<1> HIDE DEF m
<1> QED BY <1>1, <1>2, <1>3, HandStep DEF ListFiles

LEMMA ReadSizesStep ==
  ASSUME MasterInv, NEW a \in Flusher, ReadSizes(a)
  PROVE  MasterInv'
<1>1. CASE Fail(a)
  BY <1>1, FailType, FiberMoves DEF MasterInv, ReadSizes
<1>2. CASE ~Fail(a)
  <2> DEFINE sizes == [f \in FileName |->
               IF f \in Listed(hand[a]) THEN SizeOf[data[Local][f].body] ELSE 0]
             m == [hand[a] EXCEPT !.files = sizes]
  <2>1. a \in Actor /\ "write" \in Phases(a)
    BY ActorsAssumption DEF Phases, ThreadPhase, ProcessPhase, FlushPhases, Flusher, Actor
  <2>2. \A f \in FileName : data[Local][f].body \in Body
    BY DEF MasterInv, TypeOK, SyncTypeOK, Store, Blob
  <2>3. sizes \in [FileName -> Nat]
    BY <2>2, SizeAssumption
  <2>4. hand' = [hand EXCEPT ![a] = m] /\ pc' = [pc EXCEPT ![a] = "write"]
        /\ UNCHANGED <<data, manifest, ops, outs, masterVars>>
    BY <1>2 DEF ReadSizes, masterVars
  <2> HIDE DEF sizes
  <2>5. m \in Manifest
    BY <2>1, <2>3 DEF MasterInv, TypeOK, SyncTypeOK, Manifest
  <2> HIDE DEF m
  <2> QED BY <2>1, <2>4, <2>5, HandStep
<1> QED BY <1>1, <1>2

\* Files change, and with them what the actors still have to do.
LEMMA FilesMove ==
  ASSUME MasterInv, ActorsType, UNCHANGED masterVars,
         data' \in [Store -> [FileName -> Blob]], manifest' \in [Store -> Manifest],
         SegmentsInv'
  PROVE  MasterInv'
<1>1. SyncTypeOK'
  BY DEF SyncTypeOK, ActorsType
<1>2. TypeOK' /\ Room'
  BY <1>1 DEF MasterInv, TypeOK, Room, masterVars
<1> QED BY <1>2 DEF MasterInv

LEMMA FindManifestStep ==
  ASSUME MasterInv, NEW a \in Flusher, FindManifest(a)
  PROVE  MasterInv'
<1>1. a \in Actor /\ {"replace", "create"} \subseteq Phases(a)
  BY ActorsAssumption DEF Phases, ThreadPhase, ProcessPhase, FlushPhases, Flusher, Actor
<1>2. ActorsType /\ RequestsType
  BY <1>1, PhaseType
  DEF FindManifest, MasterInv, TypeOK, SyncTypeOK, ActorsType, RequestsType, masterVars
<1> QED BY <1>2, FiberMoves DEF FindManifest, masterVars

LEMMA DeleteManifestStep ==
  ASSUME MasterInv, NEW a \in Flusher, DeleteManifest(a)
  PROVE  MasterInv'
<1>1. a \in Actor /\ "create" \in Phases(a)
  BY ActorsAssumption DEF Phases, ThreadPhase, ProcessPhase, FlushPhases, Flusher, Actor
<1>2. CASE Fail(a) /\ UNCHANGED manifest
  BY <1>2, FailType, FiberMoves DEF MasterInv, DeleteManifest
<1>3. CASE ~(Fail(a) /\ UNCHANGED manifest)
  <2>1. /\ manifest' = [manifest EXCEPT ![Local] = NoManifest]
        /\ outs' = [b \in Actor |-> IF b \in Flusher THEN {} ELSE outs[b]]
        /\ pc' = [pc EXCEPT ![a] = "create"]
        /\ UNCHANGED <<data, hand, ops, masterVars>>
    BY <1>3 DEF DeleteManifest, masterVars
  <2>2. ActorsType
    BY <1>1, <2>1, PhaseType DEF MasterInv, TypeOK, SyncTypeOK, ActorsType
  <2>3. data' \in [Store -> [FileName -> Blob]] /\ manifest' \in [Store -> Manifest]
        /\ SegmentsInv'
    BY <2>1, ValueTypes DEF MasterInv, TypeOK, SyncTypeOK, SegmentsInv
  <2> QED BY <2>1, <2>2, <2>3, FilesMove
<1> QED BY <1>2, <1>3

LEMMA CreateManifestStep ==
  ASSUME MasterInv, NEW a \in Flusher, CreateManifest(a)
  PROVE  MasterInv'
<1> DEFINE add == Add(MANIFEST_FILE_NAME)
<1>1. a \in Actor /\ "writing" \in Phases(a)
  BY ActorsAssumption DEF Phases, ThreadPhase, ProcessPhase, FlushPhases, Flusher, Actor
<1>2. add \in ChangedFileOp
  BY DEF Add, ChangedFileOp
<1> HIDE DEF add
<1>3. CASE Fail(a) /\ UNCHANGED manifest
  BY <1>3, FailType, FiberMoves DEF MasterInv, CreateManifest
<1>4. CASE ~(Fail(a) /\ UNCHANGED manifest)
  <2>1. /\ manifest' = [manifest EXCEPT ![Local] = TornManifest]
        /\ ops' = [ops EXCEPT ![a] = {add}]
        /\ outs' = [outs EXCEPT ![a] = {add}]
        /\ pc' = [pc EXCEPT ![a] = "writing"]
        /\ UNCHANGED <<data, hand, masterVars>>
    BY <1>4 DEF CreateManifest, masterVars, add
  <2>2. /\ ops' \in [Actor -> SUBSET ChangedFileOp] /\ outs' \in [Actor -> SUBSET ChangedFileOp]
        /\ \A b \in Actor : outs'[b] \subseteq ops'[b]
    BY <1>1, <1>2, <2>1 DEF MasterInv, TypeOK, SyncTypeOK
  <2>3. ActorsType
    BY <1>1, <2>1, <2>2, PhaseType DEF MasterInv, TypeOK, SyncTypeOK, ActorsType
  <2>4. data' \in [Store -> [FileName -> Blob]] /\ manifest' \in [Store -> Manifest]
        /\ SegmentsInv'
    BY <2>1, ValueTypes DEF MasterInv, TypeOK, SyncTypeOK, SegmentsInv
  <2> QED BY <2>1, <2>3, <2>4, FilesMove
<1> QED BY <1>3, <1>4

LEMMA CloseManifestStep ==
  ASSUME MasterInv, NEW a \in Flusher, CloseManifest(a)
  PROVE  MasterInv'
<1>1. ActorsType /\ RequestsType
  BY AfterFlushType DEF CloseManifest, MasterInv
<1>2. manifest' \in [Store -> Manifest]
  BY DEF CloseManifest, MasterInv, TypeOK, SyncTypeOK, Flusher, Actor
<1>3. SyncTypeOK' /\ SegmentsInv'
  BY <1>1, <1>2 DEF CloseManifest, MasterInv, TypeOK, SyncTypeOK, ActorsType, SegmentsInv
<1>4. TypeOK' /\ Room'
  BY <1>1, <1>3 DEF CloseManifest, MasterInv, TypeOK, Room, RequestsType
<1> QED BY <1>3, <1>4 DEF MasterInv

LEMMA FlushStepKeeps ==
  ASSUME MasterInv, NEW a \in Flusher, FlushStep(a)
  PROVE  MasterInv'
  BY CommitStep, ListFilesStep, ReadSizesStep, FindManifestStep, DeleteManifestStep,
     CreateManifestStep, CloseManifestStep DEF FlushStep

-----------------------------------------------------------------------------
(* Synchronizations *)

LEMMA PutBlob ==
  ASSUME MasterInv, NEW s \in Store, NEW f \in FileName, NEW b \in Blob,
         \A g \in Gen : f = Segments(g) => b.body \subseteq Gen,
         data' = [data EXCEPT ![s][f] = b]
  PROVE  data' \in [Store -> [FileName -> Blob]] /\ SegmentsInv'
<1>1. data \in [Store -> [FileName -> Blob]]
  BY DEF MasterInv, TypeOK, SyncTypeOK
<1>2. data' \in [Store -> [FileName -> Blob]]
  BY <1>1
<1>3. ASSUME NEW t \in Store, NEW g \in Gen PROVE data'[t][Segments(g)].body \subseteq Gen
  <2>1. Segments(g) \in FileName
    BY DEF Segments, FileName
  <2>2. data[t][Segments(g)].body \subseteq Gen
    BY DEF MasterInv, SegmentsInv
  <2>3. data'[t][Segments(g)] = IF t = s /\ f = Segments(g) THEN b ELSE data[t][Segments(g)]
    BY <1>1, <2>1
  <2> QED BY <2>2, <2>3
<1> QED BY <1>2, <1>3 DEF SegmentsInv

LEMMA Places == \A a \in Actor : Home(a) \in Store /\ Src(a) \in Store /\ Dst(a) \in Store
  BY DEF Actor, Home, Store, Src, Dst

LEMMA OutputStep ==
  ASSUME MasterInv, NEW a \in Actor, DeleteOutput(a) \/ CreateOutput(a), UNCHANGED masterVars
  PROVE  MasterInv'
<1>1. PICK op \in ops[a], noManifest \in {NoManifest, TornManifest}, noBlob \in {NoBlob, TornBlob} :
        /\ Emptied(a, op, noManifest, noBlob)
        /\ outs' = [outs EXCEPT ![a] = @ \cup {op}]
        /\ UNCHANGED <<pc, hand, ops>>
  BY DEF DeleteOutput, CreateOutput
<1>2. ActorsType
  BY <1>1 DEF MasterInv, TypeOK, SyncTypeOK, ActorsType
<1>3. op \in ChangedFileOp
  BY DEF MasterInv, TypeOK, SyncTypeOK
<1>4. CASE op.file = MANIFEST_FILE_NAME
  <2>1. manifest' \in [Store -> Manifest] /\ UNCHANGED data
    BY <1>1, <1>4, ValueTypes DEF Emptied, MasterInv, TypeOK, SyncTypeOK
  <2>2. data' \in [Store -> [FileName -> Blob]] /\ SegmentsInv'
    BY <2>1 DEF MasterInv, TypeOK, SyncTypeOK, SegmentsInv
  <2> QED BY <1>2, <2>1, <2>2, FilesMove
<1>5. CASE op.file # MANIFEST_FILE_NAME
  <2>1. data' = [data EXCEPT ![Dst(a)][op.file] = noBlob] /\ UNCHANGED manifest
    BY <1>1, <1>5 DEF Emptied
  <2>2. op.file \in FileName
    BY <1>3, <1>5 DEF ChangedFileOp
  <2>3. noBlob \in Blob /\ noBlob.body = {}
    BY ValueTypes DEF NoBlob, TornBlob
  <2>4. data' \in [Store -> [FileName -> Blob]] /\ SegmentsInv'
    BY <2>1, <2>2, <2>3, Places, PutBlob
  <2>5. manifest' \in [Store -> Manifest]
    BY <2>1 DEF MasterInv, TypeOK, SyncTypeOK
  <2> QED BY <1>2, <2>4, <2>5, FilesMove
<1> QED BY <1>4, <1>5

LEMMA CopyFileStep ==
  ASSUME MasterInv, NEW a \in Actor, CopyFile(a), UNCHANGED masterVars
  PROVE  MasterInv'
<1>1. PICK op \in ops[a] :
        /\ IF op.file = MANIFEST_FILE_NAME
           THEN /\ manifest' = [manifest EXCEPT ![Dst(a)] = manifest[Src(a)]]
                /\ UNCHANGED data
           ELSE /\ data' = [data EXCEPT ![Dst(a)][op.file] = Read(Src(a), op.file)]
                /\ UNCHANGED manifest
        /\ Finished(a, op)
        /\ UNCHANGED <<pc, hand>>
  BY DEF CopyFile
<1>2. ActorsType
  BY <1>1 DEF Finished, MasterInv, TypeOK, SyncTypeOK, ActorsType
<1>3. op \in ChangedFileOp
  BY DEF MasterInv, TypeOK, SyncTypeOK
<1>4. CASE op.file = MANIFEST_FILE_NAME
  <2>1. manifest' \in [Store -> Manifest] /\ UNCHANGED data
    BY <1>1, <1>4, Places DEF MasterInv, TypeOK, SyncTypeOK
  <2>2. data' \in [Store -> [FileName -> Blob]] /\ SegmentsInv'
    BY <2>1 DEF MasterInv, TypeOK, SyncTypeOK, SegmentsInv
  <2> QED BY <1>2, <2>1, <2>2, FilesMove
<1>5. CASE op.file # MANIFEST_FILE_NAME
  <2> DEFINE b == Read(Src(a), op.file)
  <2>1. data' = [data EXCEPT ![Dst(a)][op.file] = b] /\ UNCHANGED manifest
    BY <1>1, <1>5
  <2>2. op.file \in FileName
    BY <1>3, <1>5 DEF ChangedFileOp
  <2>3. b \in Blob
    BY <2>2, Places DEF Read, MasterInv, TypeOK, SyncTypeOK
  <2>4. \A g \in Gen : op.file = Segments(g) => b.body \subseteq Gen
    BY Places DEF Read, MasterInv, SegmentsInv
  <2> HIDE DEF b
  <2>5. data' \in [Store -> [FileName -> Blob]] /\ SegmentsInv'
    BY <2>1, <2>2, <2>3, <2>4, Places, PutBlob
  <2>6. manifest' \in [Store -> Manifest]
    BY <2>1 DEF MasterInv, TypeOK, SyncTypeOK
  <2> QED BY <1>2, <2>5, <2>6, FilesMove
<1> QED BY <1>4, <1>5

LEMMA DeleteFileStep ==
  ASSUME MasterInv, NEW a \in Actor, DeleteFile(a), UNCHANGED masterVars
  PROVE  MasterInv'
<1>1. PICK op \in ops[a] :
        /\ op.op = "Del" /\ HasTarget(a, op)
        /\ data' = [data EXCEPT ![Dst(a)][op.file] = NoBlob]
        /\ Finished(a, op)
        /\ UNCHANGED <<manifest, pc, hand>>
  BY DEF DeleteFile
<1>2. ActorsType
  BY <1>1 DEF Finished, MasterInv, TypeOK, SyncTypeOK, ActorsType
<1>3. op.file \in FileName \/ UNCHANGED data
  <2>1. op \in ChangedFileOp
    BY DEF MasterInv, TypeOK, SyncTypeOK
  <2>2. CASE op.file \notin FileName
    BY <1>1, <2>2, Places DEF MasterInv, TypeOK, SyncTypeOK
  <2> QED BY <2>2
<1>4. data' \in [Store -> [FileName -> Blob]] /\ SegmentsInv'
  <2>1. CASE op.file \in FileName
    BY <1>1, <2>1, ValueTypes, Places, PutBlob DEF NoBlob
  <2>2. CASE UNCHANGED data
    BY <2>2 DEF MasterInv, TypeOK, SyncTypeOK, SegmentsInv
  <2> QED BY <1>3, <2>1, <2>2
<1>5. manifest' \in [Store -> Manifest]
  BY <1>1 DEF MasterInv, TypeOK, SyncTypeOK
<1> QED BY <1>2, <1>4, <1>5, FilesMove

LEMMA FileStepKeeps ==
  ASSUME MasterInv, NEW a \in Actor, FileStep(a), UNCHANGED masterVars
  PROVE  MasterInv'
  BY OutputStep, CopyFileStep, DeleteFileStep DEF FileStep

LEMMA ReadMasterStep ==
  ASSUME MasterInv, NEW a \in Threads, ReadMaster(a)
  PROVE  MasterInv'
<1>1. a \in Flusher /\ a \in Actor /\ "replica" \in Phases(a)
  BY DEF Flusher, Actor, Phases, ThreadPhase, FlushPhases
<1>2. CASE Fail(a)
  BY <1>1, <1>2, FailType, FiberMoves DEF MasterInv, ReadMaster
<1>3. CASE ~Fail(a)
  <2>1. hand' = [hand EXCEPT ![a] = manifest[Local]] /\ pc' = [pc EXCEPT ![a] = "replica"]
        /\ UNCHANGED <<data, manifest, ops, outs, masterVars>>
    BY <1>3 DEF ReadMaster, masterVars
  <2>2. manifest[Local] \in Manifest
    BY DEF MasterInv, TypeOK, SyncTypeOK, Store
  <2> QED BY <1>1, <2>1, <2>2, HandStep
<1> QED BY <1>2, <1>3

LEMMA ReadReplicaStep ==
  ASSUME MasterInv, NEW a \in Threads, ReadReplica(a)
  PROVE  MasterInv'
<1>1. a \in Flusher /\ a \in Actor /\ "push" \in Phases(a)
  BY DEF Flusher, Actor, Phases, ThreadPhase, FlushPhases
<1>2. UNCHANGED <<data, manifest, writer, docs, starts>>
  BY DEF ReadReplica
<1>3. CASE Fail(a)
  BY <1>1, <1>2, <1>3, FailType, FiberMoves DEF MasterInv
<1>4. CASE Succeed(a)
  BY <1>2, <1>4, SucceedType, FiberMoves DEF MasterInv
<1>5. CASE Start(a, "push", hand[a], manifest[Remote]) /\ UNCHANGED <<merging, covers, acked>>
  <2>1. ActorsType
    BY <1>1, <1>5, StartType DEF MasterInv, TypeOK
  <2>2. RequestsType
    BY <1>5 DEF MasterInv, TypeOK, RequestsType
  <2> QED BY <1>2, <2>1, <2>2, FiberMoves
<1> QED BY <1>3, <1>4, <1>5 DEF ReadReplica

LEMMA ThreadStepKeeps ==
  ASSUME MasterInv, NEW a \in Threads, ThreadStep(a)
  PROVE  MasterInv'
<1>1. a \in Flusher /\ a \in Actor
  BY DEF Flusher, Actor
<1>2. CASE PushFile(a)
  BY <1>1, <1>2, FileStepKeeps DEF PushFile
<1>3. CASE PushDone(a)
  BY <1>3, SucceedType, FiberMoves DEF PushDone, MasterInv
<1>4. CASE PushFails(a)
  BY <1>1, <1>4, FailType, FiberMoves DEF PushFails, MasterInv
<1> QED BY <1>1, <1>2, <1>3, <1>4, TickStep, ForceMergeStep, FlushStepKeeps, ReadMasterStep,
           ReadReplicaStep DEF ThreadStep

-----------------------------------------------------------------------------
(* The process *)

\* A start, a stop or a fault that only moves the process itself.
LEMMA ProcessMoves ==
  ASSUME MasterInv, ActorsType,
         starts' \in 0..MaxStarts, UNCHANGED <<data, manifest, writer, docs, merging, covers, acked>>
  PROVE  MasterInv'
<1>1. SyncTypeOK' /\ SegmentsInv'
  BY DEF MasterInv, TypeOK, SyncTypeOK, ActorsType, SegmentsInv
<1>2. TypeOK' /\ Room'
  BY <1>1 DEF MasterInv, TypeOK, Room
<1> QED BY <1>1, <1>2 DEF MasterInv

LEMMA ProcessPhases ==
  /\ Indexer \in Actor /\ Indexer \in Flusher
  /\ Phases(Indexer) = ProcessPhase
  BY ActorsAssumption DEF Actor, Flusher, Phases

LEMMA BootStarts == MasterInv /\ Boot => MasterInv'
<1> SUFFICES ASSUME MasterInv, Boot PROVE MasterInv'
  OBVIOUS
<1>1. /\ "down" \in Phases(Indexer) /\ "open" \in Phases(Indexer)
      /\ "bootpull" \in Phases(Indexer) /\ "bootpush" \in Phases(Indexer)
  BY ProcessPhases DEF ProcessPhase, FlushPhases
<1>2. \/ \E next \in {"down", "open"} : Leave(Indexer, next)
      \/ \E next \in {"bootpull", "bootpush"} : \E source, target : Start(Indexer, next, source, target)
  BY DEF Boot, FromRemote
<1>3. ActorsType
  <2>1. CASE \E next \in {"down", "open"} : Leave(Indexer, next)
    BY <1>1, <2>1, ProcessPhases, LeaveType DEF MasterInv, TypeOK
  <2>2. CASE \E next \in {"bootpull", "bootpush"} : \E source, target : Start(Indexer, next, source, target)
    BY <1>1, <2>2, ProcessPhases, StartType DEF MasterInv, TypeOK
  <2> QED BY <1>2, <2>1, <2>2
<1>4. starts' \in 0..MaxStarts
  BY MasterAssumption DEF Boot, MasterInv, TypeOK
<1> QED BY <1>3, <1>4, ProcessMoves DEF Boot, FromRemote

LEMMA BootEnds == MasterInv /\ (BootDone \/ BootFails) => MasterInv'
<1> SUFFICES ASSUME MasterInv, BootDone \/ BootFails PROVE MasterInv'
  OBVIOUS
<1>1. "down" \in Phases(Indexer) /\ "open" \in Phases(Indexer)
  BY ProcessPhases DEF ProcessPhase, FlushPhases
<1>2. ActorsType
  BY <1>1, ProcessPhases, LeaveType DEF BootDone, BootFails, MasterInv, TypeOK
<1>3. starts' \in 0..MaxStarts
  BY DEF BootDone, BootFails, masterVars, MasterInv, TypeOK
<1> QED BY <1>2, <1>3, ProcessMoves DEF BootDone, BootFails, masterVars

\* The directory has a segments_N of the highest N.
LEMMA LargestGen ==
  ASSUME NEW G \in SUBSET Gen, G # {}
  PROVE  \E g \in G : \A h \in G : h <= g
<1> DEFINE less == OpToRel(<, Nat)
           T == {MaxGen - g : g \in G}
<1>1. T \subseteq Nat /\ T # {}
  <2>1. ASSUME NEW g \in G PROVE MaxGen - g \in Nat
    <3>1. g \in Nat /\ MaxGen \in Nat /\ g <= MaxGen
      BY BoundsAssumption DEF Gen
    <3> QED BY <3>1
  <2> QED BY <2>1
<1>2. \E x \in T : \A y \in T : <<y, x>> \notin less
  <2> HIDE DEF T, less
  <2>1. IsWellFoundedOn(less, Nat)
    BY NatLessThanWellFounded DEF less
  <2> QED BY <1>1, <2>1, WFMin
<1>3. PICK x \in T : \A y \in T : ~(y < x)
  BY <1>1, <1>2 DEF OpToRel
<1>4. PICK g \in G : x = MaxGen - g
  OBVIOUS
<1>5. ASSUME NEW h \in G PROVE h <= g
  <2>1. MaxGen - h \in T /\ ~(MaxGen - h < MaxGen - g)
    BY <1>3, <1>4
  <2> QED BY <1>4, <2>1, BoundsAssumption DEF Gen
<1> QED BY <1>5

LEMMA OpenWriterStep == MasterInv /\ OpenWriter => MasterInv'
<1> SUFFICES ASSUME MasterInv, OpenWriter PROVE MasterInv'
  OBVIOUS
<1> DEFINE up == [a \in Actor |->
             CASE a = Indexer -> "up" [] a \in Threads -> "idle" [] OTHER -> pc[a]]
           kept == [f \in FileName |->
             IF f = Segments(LastGen) \/ f \in {Seg(g) : g \in LastSegs}
             THEN data[Local][f] ELSE NoBlob]
<1>1. Closed \in WriterType /\ Closed.buffer = {} /\ Closed.merged = FALSE
  BY BoundsAssumption DEF Closed, WriterType
<1>2. \A a \in Actor : up[a] \in Phases(a)
  BY ActorsAssumption, ProcessPhases
  DEF MasterInv, TypeOK, SyncTypeOK, Phases, ProcessPhase, ThreadPhase, FlushPhases
<1>3. kept \in [FileName -> Blob] /\ \A g \in Gen : kept[Segments(g)].body \subseteq Gen
  <2>1. kept \in [FileName -> Blob]
    BY ValueTypes DEF MasterInv, TypeOK, SyncTypeOK, Store
  <2>2. \A g \in Gen : Segments(g) \in FileName /\ data[Local][Segments(g)].body \subseteq Gen
    BY DEF MasterInv, SegmentsInv, Store, Segments, FileName
  <2> QED BY <2>1, <2>2 DEF NoBlob
<1> HIDE DEF up, kept
<1>4. CASE Leave(Indexer, "down") /\ UNCHANGED <<data, writer>>
  <2>1. "down" \in Phases(Indexer)
    BY ProcessPhases DEF ProcessPhase, FlushPhases
  <2>2. ActorsType
    BY <1>4, <2>1, ProcessPhases, LeaveType DEF MasterInv, TypeOK
  <2> QED BY <1>4, <2>2, ProcessMoves DEF OpenWriter, MasterInv, TypeOK
<1>5. CASE /\ pc' = up /\ UNCHANGED <<hand, ops, outs>>
           /\ writer' \in WriterType /\ writer'.buffer = {} /\ writer'.merged = FALSE
           /\ data' \in [Store -> [FileName -> Blob]] /\ SegmentsInv'
  <2>1. pc' \in [Actor -> AnyPhase]
    BY <1>2, <1>5, PhaseType DEF up
  <2>2. SyncTypeOK'
    BY <1>2, <1>5, <2>1 DEF OpenWriter, MasterInv, TypeOK, SyncTypeOK
  <2>3. TypeOK' /\ Room'
    BY <1>5, <2>2 DEF OpenWriter, MasterInv, TypeOK, Room, WriterType
  <2> QED BY <1>5, <2>3 DEF MasterInv
<1>6. CASE Generations = {} /\ writer' = [Closed EXCEPT !.open = TRUE] /\ pc' = up
           /\ UNCHANGED <<data, hand, ops, outs>>
  <2>1. writer' \in WriterType /\ writer'.buffer = {} /\ writer'.merged = FALSE
    BY <1>1, <1>6 DEF WriterType
  <2>2. data' \in [Store -> [FileName -> Blob]] /\ SegmentsInv'
    BY <1>6 DEF MasterInv, TypeOK, SyncTypeOK, SegmentsInv
  <2> QED BY <1>5, <1>6, <2>1, <2>2
<1>7. CASE /\ Generations # {} /\ pc' = up /\ UNCHANGED <<hand, ops, outs>>
           /\ writer' = [Closed EXCEPT !.open = TRUE, !.gen = LastGen, !.segs = LastSegs]
           /\ data' = [data EXCEPT ![Local] = kept]
  <2>1. LastGen \in Gen
    <3>1. \E g \in Generations : \A h \in Generations : h <= g
      BY <1>7, LargestGen DEF Generations
    <3>2. LastGen \in Generations
      BY <3>1 DEF LastGen
    <3> QED BY <3>2 DEF Generations
  <2>2. LastSegs \subseteq Gen
    BY <2>1 DEF LastSegs, MasterInv, SegmentsInv, Store
  <2>3. writer' \in WriterType /\ writer'.buffer = {} /\ writer'.merged = FALSE
    <3>1. LastSegs \in SUBSET Gen /\ LastGen \in 0..MaxGen
      BY <2>1, <2>2 DEF Gen
    <3> QED BY <1>1, <1>7, <3>1 DEF WriterType
  <2>4. data' \in [Store -> [FileName -> Blob]]
    BY <1>3, <1>7 DEF MasterInv, TypeOK, SyncTypeOK
  <2>5. SegmentsInv'
    BY <1>3, <1>7 DEF MasterInv, TypeOK, SyncTypeOK, SegmentsInv
  <2> QED BY <1>5, <1>7, <2>3, <2>4, <2>5
<1>8. \/ Generations = {} /\ writer' = [Closed EXCEPT !.open = TRUE] /\ pc' = up
         /\ UNCHANGED <<data, hand, ops, outs>>
      \/ /\ Generations # {} /\ pc' = up /\ UNCHANGED <<hand, ops, outs>>
         /\ writer' = [Closed EXCEPT !.open = TRUE, !.gen = LastGen, !.segs = LastSegs]
         /\ data' = [data EXCEPT ![Local] = kept]
      \/ Leave(Indexer, "down") /\ UNCHANGED <<data, writer>>
  BY DEF OpenWriter, up, kept
<1> QED BY <1>4, <1>6, <1>7, <1>8

LEMMA InterruptType ==
  ASSUME MasterInv, NEW next \in {"commit", "close", "down"}, Interrupt(next)
  PROVE  /\ ActorsType
         /\ merging' \in [Threads -> BOOLEAN] /\ covers' \in [Threads -> SUBSET (1..MaxDocs)]
<1>1. \A a \in Actor : pc'[a] \in Phases(a)
  BY ActorsAssumption, ProcessPhases
  DEF Interrupt, MasterInv, TypeOK, SyncTypeOK, Phases, ProcessPhase, ThreadPhase, FlushPhases
<1>2. pc' \in [Actor -> AnyPhase]
  BY <1>1, PhaseType DEF Interrupt
<1>3. hand' \in [Actor -> Manifest]
  BY ValueTypes DEF Interrupt, MasterInv, TypeOK, SyncTypeOK
<1>4. /\ ops' \in [Actor -> SUBSET ChangedFileOp] /\ outs' \in [Actor -> SUBSET ChangedFileOp]
      /\ \A a \in Actor : outs'[a] \subseteq ops'[a]
  BY DEF Interrupt, MasterInv, TypeOK, SyncTypeOK
<1>5. merging' \in [Threads -> BOOLEAN] /\ covers' \in [Threads -> SUBSET (1..MaxDocs)]
  BY BoundsAssumption DEF Interrupt
<1> QED BY <1>1, <1>2, <1>3, <1>4, <1>5 DEF ActorsType

LEMMA ShutdownStep == MasterInv /\ Shutdown => MasterInv'
<1> SUFFICES ASSUME MasterInv, Shutdown PROVE MasterInv'
  OBVIOUS
<1>1. ActorsType /\ RequestsType
  BY InterruptType DEF Shutdown, MasterInv, TypeOK, RequestsType
<1> QED BY <1>1, FiberMoves DEF Shutdown

LEMMA ClosedType == Closed \in WriterType /\ Closed.buffer = {} /\ Closed.merged = FALSE
  BY BoundsAssumption DEF Closed, WriterType

LEMMA CloseWriterStep == MasterInv /\ CloseWriter => MasterInv'
<1> SUFFICES ASSUME MasterInv, CloseWriter PROVE MasterInv'
  OBVIOUS
<1>1. "down" \in Phases(Indexer)
  BY ProcessPhases DEF ProcessPhase, FlushPhases
<1>2. ActorsType
  BY <1>1, ProcessPhases, LeaveType DEF CloseWriter, MasterInv, TypeOK
<1>3. SyncTypeOK' /\ SegmentsInv'
  BY <1>2 DEF CloseWriter, MasterInv, TypeOK, SyncTypeOK, ActorsType, SegmentsInv
<1>4. TypeOK' /\ Room'
  BY <1>3, ClosedType DEF CloseWriter, MasterInv, TypeOK, Room, WriterType
<1> QED BY <1>3, <1>4 DEF MasterInv

LEMMA DeathStep == MasterInv /\ (Kill \/ LosePod) => MasterInv'
<1> SUFFICES ASSUME MasterInv, Kill \/ LosePod PROVE MasterInv'
  OBVIOUS
<1>1. /\ ActorsType
      /\ merging' \in [Threads -> BOOLEAN] /\ covers' \in [Threads -> SUBSET (1..MaxDocs)]
  BY InterruptType DEF Kill, LosePod
<1>2. /\ data' \in [Store -> [FileName -> Blob]] /\ manifest' \in [Store -> Manifest]
      /\ SegmentsInv'
  <2>1. CASE Kill
    BY <2>1 DEF Kill, MasterInv, TypeOK, SyncTypeOK, SegmentsInv
  <2>2. CASE LosePod
    <3>1. data' \in [Store -> [FileName -> Blob]] /\ manifest' \in [Store -> Manifest]
      BY <2>2, ValueTypes DEF LosePod, MasterInv, TypeOK, SyncTypeOK
    <3>2. SegmentsInv'
      BY <2>2 DEF LosePod, MasterInv, TypeOK, SyncTypeOK, SegmentsInv, NoBlob, Segments, FileName
    <3> QED BY <3>1, <3>2
  <2> QED BY <2>1, <2>2
<1>3. SyncTypeOK'
  BY <1>1, <1>2 DEF SyncTypeOK, ActorsType
<1>4. TypeOK' /\ Room'
  BY <1>1, <1>3, ClosedType DEF Kill, LosePod, MasterInv, TypeOK, Room, WriterType
<1> QED BY <1>2, <1>4 DEF MasterInv

LEMMA ProcessStepKeeps == MasterInv /\ ProcessStep => MasterInv'
<1>1. MasterInv /\ BootStep => MasterInv'
  BY ProcessPhases, FileStepKeeps DEF BootStep
<1>2. MasterInv /\ FlushStep(Indexer) => MasterInv'
  BY ProcessPhases, FlushStepKeeps
<1> QED BY <1>1, <1>2, BootStarts, BootEnds, OpenWriterStep, CloseWriterStep DEF ProcessStep

-----------------------------------------------------------------------------
LEMMA MasterStep == MasterInv /\ [Next]_vars => MasterInv'
<1> SUFFICES ASSUME MasterInv, [Next]_vars PROVE MasterInv'
  OBVIOUS
<1>1. CASE AddDocument
  BY <1>1, AddDocumentStep
<1>2. CASE BackgroundMerge
  BY <1>2, BackgroundMergeStep
<1>3. CASE \E a \in Threads : ThreadStep(a) \/ Request(a)
  BY <1>3, ThreadStepKeeps, RequestStep
<1>4. CASE ProcessStep
  BY <1>4, ProcessStepKeeps
<1>5. CASE Fault
  BY <1>5, ShutdownStep, DeathStep DEF Fault
<1>6. CASE UNCHANGED vars
  BY <1>6 DEF vars, syncVars, masterVars, MasterInv, TypeOK, SyncTypeOK, Room, SegmentsInv
<1> QED BY <1>1, <1>2, <1>3, <1>4, <1>5, <1>6 DEF Next

\* The inductive invariant, over every step of the indexer.
THEOREM MasterInvariant == Spec => []MasterInv
  BY MasterInitial, MasterStep, PTL DEF Spec

\* Every variable of the indexer keeps its shape: commits stay within the
\* directory's generations, a commit writes index files only, and what an
\* actor has open is part of what it still has to copy.
THEOREM MasterTypeCorrect == Spec => []TypeOK
<1>1. MasterInv => TypeOK
  BY DEF MasterInv
<1> QED BY <1>1, MasterInvariant, PTL

-----------------------------------------------------------------------------
(* The fibers of the process run only while the process is up.              *)

ThreadsOff == \A a \in Threads : pc[Indexer] # "up" => pc[a] = "off"

\* How a step moves the fibers and the process.
PhasesMove ==
  \/ pc' = pc
  \/ \E a \in Threads : pc[a] # "off" /\ \E x \in ThreadPhase : pc' = [pc EXCEPT ![a] = x]
  \/ pc[Indexer] # "up" /\ \E x \in ProcessPhase \ {"up"} : pc' = [pc EXCEPT ![Indexer] = x]
  \/ pc'[Indexer] = "up"
  \/ \A a \in Threads : pc'[a] = "off"

LEMMA PhasesMoveOff == ThreadsOff /\ TypeOK /\ PhasesMove => ThreadsOff'
<1> SUFFICES ASSUME ThreadsOff, TypeOK, PhasesMove PROVE ThreadsOff'
  OBVIOUS
<1>1. pc \in [Actor -> AnyPhase] /\ Threads \subseteq Actor /\ Indexer \in Actor
      /\ Indexer \notin Threads
  BY ActorsAssumption, ProcessPhases DEF TypeOK, SyncTypeOK, Actor
<1>2. CASE \E a \in Threads : pc[a] # "off" /\ \E x \in ThreadPhase : pc' = [pc EXCEPT ![a] = x]
  <2>1. PICK a \in Threads : pc[a] # "off" /\ \E x \in ThreadPhase : pc' = [pc EXCEPT ![a] = x]
    BY <1>2
  <2>2. pc'[Indexer] = pc[Indexer] /\ pc[Indexer] = "up"
    BY <1>1, <2>1 DEF ThreadsOff
  <2> QED BY <2>2 DEF ThreadsOff
<1>3. CASE pc[Indexer] # "up" /\ \E x \in ProcessPhase \ {"up"} : pc' = [pc EXCEPT ![Indexer] = x]
  BY <1>1, <1>3 DEF ThreadsOff
<1> QED BY <1>2, <1>3 DEF PhasesMove, ThreadsOff

\* No flush or merge ends in one of these.
Elsewhere == {"up", "down", "open", "off", "replica", "push", "bootpull", "bootpush"}

\* The steps of writeManifest before index.json is written.
WritesManifest(a) == FindManifest(a) \/ DeleteManifest(a) \/ CreateManifest(a)

LEMMA ManifestWrites ==
  ASSUME NEW a \in Flusher, WritesManifest(a)
  PROVE  /\ UNCHANGED <<data, writer, docs, starts, merging, covers, acked>>
         /\ pc[a] \in {"write", "replace", "create"}
         /\ \/ Fail(a) /\ UNCHANGED manifest
            \/ /\ UNCHANGED hand
               /\ \E x \in {"replace", "create", "writing"} : pc' = [pc EXCEPT ![a] = x]
               /\ \/ UNCHANGED manifest
                  \/ \E m \in {NoManifest, TornManifest} : manifest' = [manifest EXCEPT ![Local] = m]
  BY DEF WritesManifest, FindManifest, DeleteManifest, CreateManifest, Fail, masterVars

LEMMA FlushPhase ==
  ASSUME NEW a \in Flusher, FlushStep(a)
  PROVE  /\ pc[a] \in {"commit", "list", "sizes", "write", "replace", "create", "writing"}
         /\ \E x \in Phases(a) \ Elsewhere : pc' = [pc EXCEPT ![a] = x]
<1>1. {"list", "sizes", "write", "replace", "create", "writing"} \subseteq Phases(a) \ Elsewhere
  BY ActorsAssumption DEF Phases, ThreadPhase, ProcessPhase, FlushPhases, Flusher, Elsewhere
<1>2. ASSUME NEW c \in BOOLEAN, AfterFlush(a, c)
      PROVE  \E x \in Phases(a) \ Elsewhere : pc' = [pc EXCEPT ![a] = x]
  <2> DEFINE next == CASE a = Indexer -> "close"
                       [] a \in Periodic -> IF c THEN "master" ELSE "idle"
                       [] OTHER -> IF merging[a] THEN "merge" ELSE "master"
  <2>1. next \in Phases(a) \ Elsewhere
    BY ActorsAssumption, MasterAssumption DEF Phases, ThreadPhase, ProcessPhase, FlushPhases, Flusher, Elsewhere
  <2>2. pc' = [pc EXCEPT ![a] = next]
    BY <1>2 DEF AfterFlush, Leave
  <2> HIDE DEF next
  <2> QED BY <2>1, <2>2
<1>3. ASSUME Fail(a) PROVE \E x \in Phases(a) \ Elsewhere : pc' = [pc EXCEPT ![a] = x]
  <2> DEFINE next == CASE a \in Periodic -> "dead" [] a = Indexer -> "close" [] OTHER -> "idle"
  <2>1. next \in Phases(a) \ Elsewhere
    BY ActorsAssumption, MasterAssumption DEF Phases, ThreadPhase, ProcessPhase, FlushPhases, Flusher, Elsewhere
  <2>2. pc' = [pc EXCEPT ![a] = next]
    BY <1>3 DEF Fail, Leave
  <2> HIDE DEF next
  <2> QED BY <2>1, <2>2
<1>4. CASE Commit(a)
  BY <1>1, <1>2, <1>4 DEF Commit
<1>5. CASE ListFiles(a)
  BY <1>1, <1>5 DEF ListFiles
<1>6. CASE ReadSizes(a)
  BY <1>1, <1>3, <1>6 DEF ReadSizes
<1>7. CASE WritesManifest(a)
  BY <1>1, <1>3, <1>7, ManifestWrites
<1>8. CASE CloseManifest(a)
  BY <1>2, <1>8 DEF CloseManifest
<1> QED BY <1>4, <1>5, <1>6, <1>7, <1>8 DEF FlushStep, WritesManifest

LEMMA ThreadMoves ==
  ASSUME TypeOK, NEW a \in Threads, ThreadStep(a) \/ Request(a)
  PROVE  PhasesMove
<1>1. a \in Flusher /\ Phases(a) = ThreadPhase /\ a # Indexer
  BY ActorsAssumption DEF Flusher, Phases
<1>2. CASE Tick(a)
  BY <1>2 DEF Tick, Leave, ThreadPhase, FlushPhases, PhasesMove
<1>3. CASE ForceMerge(a)
  BY <1>3 DEF ForceMerge, Leave, ThreadPhase, FlushPhases, PhasesMove
<1>4. CASE FlushStep(a)
  BY <1>1, <1>4, FlushPhase DEF PhasesMove, Elsewhere
<1>5. CASE ReadMaster(a)
  BY <1>1, <1>5 DEF ReadMaster, Fail, Leave, ThreadPhase, FlushPhases, PhasesMove
<1>6. CASE ReadReplica(a)
  BY <1>1, <1>6 DEF ReadReplica, Start, Succeed, Fail, Leave, ThreadPhase, FlushPhases, PhasesMove
<1>7. CASE PushFile(a)
  BY <1>7 DEF PushFile, FileStep, DeleteOutput, CreateOutput, Emptied, CopyFile, DeleteFile, PhasesMove
<1>8. CASE PushDone(a)
  BY <1>8 DEF PushDone, Succeed, Leave, ThreadPhase, FlushPhases, PhasesMove
<1>9. CASE PushFails(a)
  BY <1>1, <1>9 DEF PushFails, Fail, Leave, ThreadPhase, FlushPhases, PhasesMove
<1>10. CASE Request(a)
  BY <1>10 DEF Request, Leave, ThreadPhase, FlushPhases, PhasesMove
<1> QED BY <1>2, <1>3, <1>4, <1>5, <1>6, <1>7, <1>8, <1>9, <1>10 DEF ThreadStep

LEMMA ProcessMovesPhase == ProcessStep => PhasesMove
<1> SUFFICES ASSUME ProcessStep PROVE PhasesMove
  OBVIOUS
<1>1. CASE Boot
  BY <1>1 DEF Boot, FromRemote, Leave, Start, ProcessPhase, FlushPhases, PhasesMove
<1>2. CASE BootStep
  BY <1>2 DEF BootStep, FileStep, DeleteOutput, CreateOutput, Emptied, CopyFile, DeleteFile, PhasesMove
<1>3. CASE BootDone
  BY <1>3 DEF BootDone, Leave, ProcessPhase, FlushPhases, PhasesMove
<1>4. CASE BootFails
  <2>1. pc[Indexer] # "up"
    BY <1>4 DEF BootFails, FileMissing, Syncing, Pulling, Pushing
  <2> QED BY <1>4, <2>1 DEF BootFails, Leave, ProcessPhase, FlushPhases, PhasesMove
<1>5. CASE OpenWriter
  <2> DEFINE up == [a \in Actor |->
               CASE a = Indexer -> "up" [] a \in Threads -> "idle" [] OTHER -> pc[a]]
  <2>1. up[Indexer] = "up"
    BY ProcessPhases, ActorsAssumption
  <2>2. pc[Indexer] = "open" /\ (pc' = up \/ Leave(Indexer, "down"))
    BY <1>5 DEF OpenWriter
  <2> HIDE DEF up
  <2> QED BY <2>1, <2>2 DEF Leave, ProcessPhase, FlushPhases, PhasesMove
<1>6. CASE FlushStep(Indexer)
  BY <1>6, FlushPhase, ProcessPhases DEF PhasesMove, Elsewhere
<1>7. CASE CloseWriter
  BY <1>7 DEF CloseWriter, Leave, ProcessPhase, FlushPhases, PhasesMove
<1> QED BY <1>1, <1>2, <1>3, <1>4, <1>5, <1>6, <1>7 DEF ProcessStep

LEMMA FaultPhases == Fault => PhasesMove
<1>1. ASSUME NEW next, Interrupt(next) PROVE \A a \in Threads : pc'[a] = "off"
  BY <1>1, ActorsAssumption DEF Interrupt, Actor
<1> QED BY <1>1 DEF Fault, Shutdown, Kill, LosePod, PhasesMove

LEMMA ThreadsOffStep == MasterInv /\ ThreadsOff /\ [Next]_vars => ThreadsOff'
<1> SUFFICES ASSUME MasterInv, [Next]_vars PROVE PhasesMove
  BY PhasesMoveOff DEF MasterInv
<1>1. CASE AddDocument \/ BackgroundMerge \/ UNCHANGED vars
  BY <1>1 DEF AddDocument, BackgroundMerge, vars, syncVars, PhasesMove
<1>2. CASE \E a \in Threads : ThreadStep(a) \/ Request(a)
  BY <1>2, ThreadMoves DEF MasterInv
<1> QED BY <1>1, <1>2, ProcessMovesPhase, FaultPhases DEF Next

LEMMA ThreadsOffInitially == Init => ThreadsOff
  BY DEF Init, ThreadsOff, Actor

-----------------------------------------------------------------------------
(* The object store's index.json, when fibers do not cross.  What a fiber    *)
(* has in hand when it compares, and what it copies when it pushes, is the   *)
(* directory's index.json: nobody else writes that file meanwhile, and the   *)
(* process itself only while the fibers are off.                             *)

\* A fiber that has nothing to do.
Quiet(a) == pc[a] \in {"off", "idle", "dead"}

\* What the fibers flush and synchronize overlaps only where neither sees what
\* the other is writing.
Uncrossed == ~Crossing

\* So it always is with a single fiber.
LEMMA OneFiber ==
  ASSUME NEW t, Threads = {t}
  PROVE  Uncrossed
  BY DEF Uncrossed, Crossing

\* How copying one file changes the index.json of the target.
LEMMA FileStepMoves ==
  ASSUME NEW a \in Actor, FileStep(a)
  PROVE  /\ Syncing(a) /\ UNCHANGED <<pc, hand>>
         /\ \/ UNCHANGED manifest
            \/ /\ Dst(a) # Remote
               /\ \E m \in {NoManifest, TornManifest} : manifest' = [manifest EXCEPT ![Dst(a)] = m]
            \/ manifest' = [manifest EXCEPT ![Dst(a)] = manifest[Src(a)]]
  BY DEF FileStep, DeleteOutput, CreateOutput, Emptied, CopyFile, DeleteFile

\* A fiber that takes a step is at work before it, or begins its work with it;
\* the others stay where they are.
LEMMA ThreadWorks ==
  ASSUME TypeOK, NEW a \in Threads, ThreadStep(a) \/ Request(a)
  PROVE  /\ \/ ~Quiet(a)
            \/ ~Quiet(a)' /\ UNCHANGED <<data, manifest>> /\ (Tick(a) \/ Request(a))
         /\ \A b \in Flusher \ {a} : pc'[b] = pc[b] /\ hand'[b] = hand[b] /\ ops'[b] = ops[b]
<1>1. /\ a \in Flusher /\ a # Indexer /\ a \in Actor /\ Flusher \subseteq Actor
      /\ pc \in [Actor -> AnyPhase] /\ hand \in [Actor -> Manifest]
      /\ ops \in [Actor -> SUBSET ChangedFileOp]
  BY ActorsAssumption DEF Flusher, Actor, TypeOK, SyncTypeOK
<1>2. ASSUME NEW x, Leave(a, x)
      PROVE  \A b \in Flusher \ {a} : pc'[b] = pc[b] /\ hand'[b] = hand[b] /\ ops'[b] = ops[b]
  BY <1>1, <1>2 DEF Leave
<1>3. CASE Tick(a) \/ Request(a)
  <2>1. PICK x \in {"commit", "merge", "master"} : Leave(a, x)
    BY <1>3 DEF Tick, Request
  <2>2. pc'[a] = x /\ UNCHANGED <<data, manifest>>
    BY <1>1, <1>3, <2>1 DEF Leave, Tick, Request
  <2> QED BY <1>2, <1>3, <2>1, <2>2 DEF Quiet
<1>4. ASSUME Succeed(a) \/ Fail(a) \/ (\E c \in BOOLEAN : AfterFlush(a, c))
      PROVE  \A b \in Flusher \ {a} : pc'[b] = pc[b] /\ hand'[b] = hand[b] /\ ops'[b] = ops[b]
  BY <1>2, <1>4 DEF Succeed, Fail, AfterFlush
<1>5. CASE FlushStep(a)
  <2>1. ~Quiet(a)
    BY <1>1, <1>5, FlushPhase DEF Quiet
  <2>2. CASE Commit(a)
    BY <1>1, <1>4, <2>1, <2>2 DEF Commit
  <2>3. CASE ListFiles(a)
    BY <1>1, <2>1, <2>3 DEF ListFiles
  <2>4. CASE ReadSizes(a)
    BY <1>1, <1>4, <2>1, <2>4 DEF ReadSizes
  <2>5. CASE WritesManifest(a)
    <3>1. CASE Fail(a)
      BY <1>4, <2>1, <3>1
    <3>2. CASE ~Fail(a)
      BY <1>1, <2>1, <2>5, <3>2 DEF WritesManifest, FindManifest, DeleteManifest, CreateManifest
    <3> QED BY <3>1, <3>2
  <2>6. CASE CloseManifest(a)
    BY <1>1, <1>4, <2>1, <2>6 DEF CloseManifest
  <2> QED BY <1>5, <2>2, <2>3, <2>4, <2>5, <2>6 DEF FlushStep, WritesManifest
<1>6. CASE ForceMerge(a)
  BY <1>2, <1>6 DEF ForceMerge, Quiet
<1>7. CASE ReadMaster(a)
  BY <1>1, <1>4, <1>7 DEF ReadMaster, Quiet
<1>8. CASE ReadReplica(a)
  BY <1>1, <1>4, <1>8 DEF ReadReplica, Start, Quiet
<1>9. CASE PushFile(a)
  <2>1. Syncing(a) /\ UNCHANGED <<pc, hand>>
    BY <1>1, <1>9, FileStepMoves DEF PushFile
  <2>2. \A b \in Flusher \ {a} : ops'[b] = ops[b]
    BY <1>1, <1>9 DEF PushFile, FileStep, DeleteOutput, CreateOutput, Emptied, CopyFile, DeleteFile, Finished
  <2> QED BY <2>1, <2>2 DEF Syncing, Pulling, Pushing, Quiet
<1>10. CASE PushDone(a) \/ PushFails(a)
  BY <1>4, <1>10 DEF PushDone, PushFails, Quiet
<1> QED BY <1>3, <1>5, <1>6, <1>7, <1>8, <1>9, <1>10 DEF ThreadStep

\* What is pushed is whole and not older than what it replaces.
Ahead == manifest[Local].st = "whole" /\ manifest[Local].seqnum >= manifest[Remote].seqnum

SeqnumInv(t) ==
  /\ manifest[Remote].st # "torn"
  /\ manifest[Remote].st = "absent" => manifest[Remote].seqnum = 0
  /\ pc[t] = "replica" => hand[t] = manifest[Local] /\ manifest[Local].st = "whole"
  /\ pc[t] = "push" \/ pc[Indexer] = "bootpush" => Ahead

\* What a step does to the object store's index.json.
RemoteMovesOn ==
  /\ manifest'[Remote].seqnum >= manifest[Remote].seqnum
  /\ manifest[Remote].st = "whole" => manifest'[Remote].st = "whole"

LEMMA SeqnumStays ==
  ASSUME TypeOK, NEW t \in Threads, SeqnumInv(t), UNCHANGED manifest,
         pc'[t] = "replica" => pc[t] = "replica" /\ hand'[t] = hand[t],
         pc'[t] = "push" => pc[t] = "push",
         pc'[Indexer] = "bootpush" => pc[Indexer] = "bootpush"
  PROVE  SeqnumInv(t)' /\ RemoteMovesOn
<1>1. manifest[Remote].seqnum \in Nat
  BY DEF TypeOK, SyncTypeOK, Store, Manifest
<1> QED BY <1>1 DEF SeqnumInv, Ahead, RemoteMovesOn

LEMMA LocalMoves ==
  ASSUME TypeOK, NEW t \in Threads, SeqnumInv(t), manifest'[Remote] = manifest[Remote],
         pc'[t] \notin {"replica", "push"}, pc'[Indexer] # "bootpush"
  PROVE  SeqnumInv(t)' /\ RemoteMovesOn
<1>1. manifest[Remote].seqnum \in Nat
  BY DEF TypeOK, SyncTypeOK, Store, Manifest
<1> QED BY <1>1 DEF SeqnumInv, RemoteMovesOn

LEMMA RemoteMoves ==
  ASSUME TypeOK, NEW t \in Threads, SeqnumInv(t), pc[t] = "push" \/ pc[Indexer] = "bootpush",
         UNCHANGED <<pc, hand>>, pc[t] # "replica",
         UNCHANGED manifest \/ manifest' = [manifest EXCEPT ![Remote] = manifest[Local]]
  PROVE  SeqnumInv(t)' /\ RemoteMovesOn
<1>1. /\ manifest[Remote].seqnum \in Nat /\ manifest[Local].seqnum \in Nat
      /\ Remote \in Store /\ manifest \in [Store -> Manifest] /\ Local # Remote
  BY DEF TypeOK, SyncTypeOK, Store, Manifest, Local, Remote
<1>2. manifest'[Local] = manifest[Local]
      /\ (manifest'[Remote] = manifest[Local] \/ manifest'[Remote] = manifest[Remote])
  <2>1. CASE UNCHANGED manifest
    BY <2>1
  <2>2. CASE manifest' = [manifest EXCEPT ![Remote] = manifest[Local]]
    BY <1>1, <2>2
  <2> QED BY <2>1, <2>2
<1>3. Ahead
  BY DEF SeqnumInv
<1> QED BY <1>1, <1>2, <1>3 DEF SeqnumInv, Ahead, RemoteMovesOn

\* A fiber or the process copies from the directory to the object store when it
\* pushes, and the other way round when it pulls.
LEMMA FlusherPlaces ==
  ASSUME TypeOK, NEW a \in Flusher, Syncing(a)
  PROVE  \/ /\ pc[a] = (IF a = Indexer THEN "bootpush" ELSE "push")
            /\ Src(a) = Local /\ Dst(a) = Remote
         \/ a = Indexer /\ pc[a] = "bootpull" /\ Src(a) = Remote /\ Dst(a) = Local
<1>1. Home(a) = Local /\ pc[a] \in Phases(a)
  BY ActorsAssumption DEF Flusher, Home, TypeOK, SyncTypeOK, Actor
<1>2. CASE a = Indexer
  BY <1>1, <1>2, ProcessPhases DEF Syncing, Src, Dst, Pulling, Pushing, ProcessPhase, FlushPhases
<1>3. CASE a # Indexer
  <2>1. Phases(a) = ThreadPhase
    BY <1>3 DEF Flusher, Phases
  <2> QED BY <1>1, <1>3, <2>1 DEF Syncing, Src, Dst, Pulling, Pushing, ThreadPhase, FlushPhases
<1> QED BY <1>2, <1>3

LEMMA SeqnumFlushStep ==
  ASSUME MasterInv, ThreadsOff, NEW t \in Threads, SeqnumInv(t),
         NEW a \in {t, Indexer}, FlushStep(a)
  PROVE  SeqnumInv(t)' /\ RemoteMovesOn
<1> a \in Flusher
  BY DEF Flusher
<1>1. PICK x \in Phases(a) \ Elsewhere : pc' = [pc EXCEPT ![a] = x]
  BY FlushPhase
<1>2. pc[a] \in {"commit", "list", "sizes", "write", "replace", "create", "writing"}
  BY FlushPhase
<1>3. manifest'[Remote] = manifest[Remote]
  BY DEF FlushStep, Commit, ListFiles, ReadSizes, FindManifest, DeleteManifest, CreateManifest, CloseManifest, Local, Remote, Store,
         MasterInv, TypeOK, SyncTypeOK
<1>4. a \in {t, Indexer} /\ t # Indexer /\ t \in DOMAIN pc /\ Indexer \in DOMAIN pc
  BY ActorsAssumption DEF Flusher, Actor, MasterInv, TypeOK, SyncTypeOK
<1>5. pc'[t] \notin {"replica", "push"} /\ pc'[Indexer] # "bootpush"
  <2>1. CASE a = t
    BY <1>1, <1>2, <1>4, <2>1 DEF ThreadsOff, Elsewhere
  <2>2. CASE a = Indexer
    BY <1>1, <1>2, <1>4, <2>2 DEF ThreadsOff, Elsewhere
  <2> QED BY <1>4, <2>1, <2>2
<1> QED BY <1>3, <1>5, LocalMoves DEF MasterInv

LEMMA SeqnumFileStep ==
  ASSUME MasterInv, ThreadsOff, NEW t \in Threads, SeqnumInv(t),
         NEW a \in {t, Indexer}, FileStep(a)
  PROVE  SeqnumInv(t)' /\ RemoteMovesOn
<1>1. a \in Flusher /\ a \in Actor /\ t # Indexer
  BY ActorsAssumption DEF Flusher, Actor
<1>2. /\ Syncing(a) /\ UNCHANGED <<pc, hand>>
      /\ \/ UNCHANGED manifest
         \/ /\ Dst(a) # Remote
            /\ \E m \in {NoManifest, TornManifest} : manifest' = [manifest EXCEPT ![Dst(a)] = m]
         \/ manifest' = [manifest EXCEPT ![Dst(a)] = manifest[Src(a)]]
  BY <1>1, FileStepMoves
<1>3. CASE /\ pc[a] = (IF a = Indexer THEN "bootpush" ELSE "push")
           /\ Src(a) = Local /\ Dst(a) = Remote
  <2>1. pc[t] # "replica" /\ (pc[t] = "push" \/ pc[Indexer] = "bootpush")
    BY <1>1, <1>3 DEF ThreadsOff
  <2> QED BY <1>2, <1>3, <2>1, RemoteMoves DEF MasterInv
<1>4. CASE a = Indexer /\ pc[a] = "bootpull" /\ Src(a) = Remote /\ Dst(a) = Local
  <2>1. pc'[t] = "off" /\ pc'[Indexer] = "bootpull"
    BY <1>2, <1>4 DEF ThreadsOff
  <2>2. manifest'[Remote] = manifest[Remote]
    BY <1>2, <1>4 DEF Local, Remote, Store, MasterInv, TypeOK, SyncTypeOK
  <2> QED BY <2>1, <2>2, LocalMoves DEF MasterInv
<1> QED BY <1>1, <1>2, <1>3, <1>4, FlusherPlaces DEF MasterInv

LEMMA SeqnumThreadStep ==
  ASSUME MasterInv, ThreadsOff, NEW t \in Threads, SeqnumInv(t),
         ThreadStep(t) \/ Request(t)
  PROVE  SeqnumInv(t)' /\ RemoteMovesOn
<1>1. t \in Flusher /\ t # Indexer /\ t \in DOMAIN pc /\ t \in DOMAIN hand /\ Indexer \in DOMAIN pc
  BY ActorsAssumption DEF Flusher, Actor, MasterInv, TypeOK, SyncTypeOK
<1>2. CASE Tick(t) \/ ForceMerge(t) \/ Request(t)
  <2>1. UNCHANGED manifest /\ \E x \in {"commit", "merge", "master"} : Leave(t, x)
    BY <1>2 DEF Tick, ForceMerge, Request
  <2> QED BY <1>1, <2>1, SeqnumStays DEF Leave, MasterInv
<1>3. CASE FlushStep(t)
  BY <1>1, <1>3, SeqnumFlushStep
<1>4. ASSUME UNCHANGED manifest, Fail(t) \/ Succeed(t)
      PROVE  SeqnumInv(t)' /\ RemoteMovesOn
  <2>1. \E x \in {"dead", "idle"} : Leave(t, x)
    BY <1>1, <1>4 DEF Fail, Succeed
  <2> QED BY <1>1, <1>4, <2>1, SeqnumStays DEF Leave, MasterInv
<1>5. CASE ReadMaster(t)
  <2>1. CASE Fail(t)
    BY <1>4, <1>5, <2>1 DEF ReadMaster
  <2>2. CASE ~Fail(t)
    <3>1. /\ manifest[Local].st = "whole" /\ UNCHANGED manifest
          /\ hand'[t] = manifest[Local] /\ pc'[t] = "replica" /\ pc'[Indexer] = pc[Indexer]
      BY <1>1, <1>5, <2>2 DEF ReadMaster
    <3>2. pc[Indexer] = "up" /\ manifest[Remote].seqnum \in Nat
      BY <1>5 DEF ReadMaster, ThreadsOff, MasterInv, TypeOK, SyncTypeOK, Manifest, Store
    <3> QED BY <3>1, <3>2 DEF SeqnumInv, Ahead, RemoteMovesOn
  <2> QED BY <2>1, <2>2
<1>6. CASE ReadReplica(t)
  <2>1. CASE Fail(t) \/ Succeed(t)
    BY <1>4, <1>6, <2>1 DEF ReadReplica
  <2>2. CASE ~Fail(t) /\ ~Succeed(t)
    <3>1. /\ pc[t] = "replica" /\ Newer(hand[t], manifest[Remote]) /\ UNCHANGED manifest
          /\ pc'[t] = "push" /\ pc'[Indexer] = pc[Indexer]
      BY <1>1, <1>6, <2>2 DEF ReadReplica, Start
    <3>2. /\ pc[Indexer] = "up" /\ manifest[Remote].seqnum \in Nat
          /\ manifest[Local].seqnum \in Nat
      BY <3>1 DEF ThreadsOff, MasterInv, TypeOK, SyncTypeOK, Manifest, Store
    <3>3. Ahead
      BY <3>1, <3>2 DEF SeqnumInv, Newer, Ahead
    <3> QED BY <3>1, <3>2, <3>3 DEF SeqnumInv, Ahead, RemoteMovesOn
  <2> QED BY <2>1, <2>2
<1>7. CASE PushFile(t)
  BY <1>1, <1>7, SeqnumFileStep DEF PushFile
<1>8. CASE PushDone(t) \/ PushFails(t)
  BY <1>4, <1>8 DEF PushDone, PushFails
<1> QED BY <1>2, <1>3, <1>5, <1>6, <1>7, <1>8 DEF ThreadStep

LEMMA SeqnumProcessStep ==
  ASSUME MasterInv, ThreadsOff, NEW t \in Threads, SeqnumInv(t),
         ProcessStep \/ Fault
  PROVE  SeqnumInv(t)' /\ RemoteMovesOn
<1>1. Indexer \in Flusher /\ t # Indexer /\ t \in DOMAIN pc /\ Indexer \in DOMAIN pc
      /\ t \in DOMAIN hand
  BY ActorsAssumption DEF Flusher, Actor, MasterInv, TypeOK, SyncTypeOK
<1>2. ASSUME NEW x, x \in {"down", "open", "bootpull"}, pc' = [pc EXCEPT ![Indexer] = x],
             UNCHANGED manifest, hand'[t] = hand[t]
      PROVE  SeqnumInv(t)' /\ RemoteMovesOn
  BY <1>1, <1>2, SeqnumStays DEF MasterInv
<1>3. CASE Boot
  <2>1. CASE \E x \in {"down", "open"} : Leave(Indexer, x)
    BY <1>1, <1>2, <1>3, <2>1 DEF Boot, FromRemote, Leave
  <2>2. CASE \E source, target : Start(Indexer, "bootpull", source, target)
    BY <1>1, <1>2, <1>3, <2>2 DEF Boot, FromRemote, Start
  <2>3. CASE /\ manifest[Local].st = "whole"
             /\ manifest[Remote].st = "absent" \/ manifest[Local].seqnum > manifest[Remote].seqnum
             /\ Start(Indexer, "bootpush", manifest[Local], manifest[Remote])
    <3>1. /\ manifest[Remote].seqnum \in Nat /\ manifest[Local].seqnum \in Nat
          /\ UNCHANGED manifest
      BY <1>3 DEF Boot, FromRemote, MasterInv, TypeOK, SyncTypeOK, Manifest, Store
    <3>2. Ahead
      BY <2>3, <3>1 DEF SeqnumInv, Ahead
    <3>3. pc'[t] = "off"
      BY <1>1, <1>3, <2>3 DEF Boot, Start, ThreadsOff
    <3> QED BY <3>1, <3>2, <3>3 DEF SeqnumInv, Ahead, RemoteMovesOn
  <2>4. Home(Indexer) = Local
    BY ActorsAssumption DEF Home
  <2> QED BY <1>3, <2>1, <2>2, <2>3, <2>4 DEF Boot, FromRemote
<1>4. CASE BootStep
  BY <1>1, <1>4, SeqnumFileStep DEF BootStep
<1>5. CASE BootDone \/ BootFails \/ CloseWriter
  BY <1>1, <1>2, <1>5 DEF BootDone, BootFails, CloseWriter, Leave
<1>6. CASE OpenWriter
  <2>1. CASE Leave(Indexer, "down")
    BY <1>1, <1>2, <1>6, <2>1 DEF OpenWriter, Leave
  <2>2. CASE ~Leave(Indexer, "down")
    <3>1. /\ UNCHANGED manifest
          /\ pc' = [a \in Actor |-> CASE a = Indexer -> "up" [] a \in Threads -> "idle" [] OTHER -> pc[a]]
      BY <1>6, <2>2 DEF OpenWriter
    <3>2. pc'[t] = "idle" /\ pc'[Indexer] = "up"
      BY <3>1, ActorsAssumption DEF Actor
    <3> QED BY <3>1, <3>2, SeqnumStays DEF MasterInv
  <2> QED BY <2>1, <2>2
<1>7. CASE FlushStep(Indexer)
  BY <1>1, <1>7, SeqnumFlushStep
<1>8. CASE Fault
  <2>1. \E next \in {"commit", "close", "down"} : Interrupt(next)
    BY <1>8 DEF Fault, Shutdown, Kill, LosePod
  <2>2. pc'[t] = "off" /\ pc'[Indexer] \in {"commit", "close", "down"}
    BY <2>1, ActorsAssumption DEF Interrupt, Actor
  <2>3. manifest'[Remote] = manifest[Remote]
    BY <1>8 DEF Fault, Shutdown, Kill, LosePod, Local, Remote, Store, MasterInv, TypeOK, SyncTypeOK
  <2> QED BY <2>2, <2>3, LocalMoves DEF MasterInv
<1> QED BY <1>3, <1>4, <1>5, <1>6, <1>7, <1>8 DEF ProcessStep

\* A fiber that neither writes index.json nor pushes leaves every index.json
\* alone, and one that pushes leaves the directory's.
LEMMA FiberManifests ==
  ASSUME TypeOK, NEW a \in Threads, ThreadStep(a) \/ Request(a), pc[a] \notin Describing
  PROVE  \/ UNCHANGED manifest
         \/ pc[a] = "push" /\ manifest'[Local] = manifest[Local]
<1>1. a \in Flusher /\ a # Indexer /\ a \in Actor
  BY ActorsAssumption DEF Flusher, Actor
<1>2. CASE PushFile(a)
  <2>1. FileStep(a) /\ Syncing(a)
    BY <1>1, <1>2, FileStepMoves DEF PushFile
  <2>2. pc[a] = "push" /\ Src(a) = Local /\ Dst(a) = Remote
    BY <1>1, <2>1, FlusherPlaces
  <2>3. manifest' = manifest \/ manifest' = [manifest EXCEPT ![Remote] = manifest[Local]]
    BY <1>1, <2>1, <2>2, FileStepMoves
  <2>4. Local # Remote /\ manifest \in [Store -> Manifest] /\ {Local, Remote} \subseteq Store
    BY DEF TypeOK, SyncTypeOK, Store, Local, Remote
  <2> QED BY <2>2, <2>3, <2>4
<1>3. CASE ~PushFile(a)
  <2>1. ~WritesManifest(a) /\ ~CloseManifest(a)
    BY <1>1, ManifestWrites DEF CloseManifest, Describing
  <2> QED BY <1>3, <2>1
          DEF ThreadStep, Tick, Request, ForceMerge, FlushStep, WritesManifest, Commit, ListFiles,
              ReadSizes, ReadMaster, ReadReplica, PushDone, PushFails
<1> QED BY <1>2, <1>3

\* A fiber leaves the process where it is.
LEMMA ThreadLeavesProcess ==
  ASSUME MasterInv, ThreadsOff, NEW a \in Threads, ThreadStep(a) \/ Request(a)
  PROVE  pc[Indexer] = "up" /\ pc'[Indexer] = "up" /\ UNCHANGED starts
<1>1. a # Indexer /\ a \in Flusher /\ Indexer \in Actor /\ pc \in [Actor -> AnyPhase]
  BY ActorsAssumption, ProcessPhases DEF Flusher, MasterInv, TypeOK, SyncTypeOK
<1>2. pc[a] # "off"
  <2>1. CASE FlushStep(a)
    BY <1>1, <2>1, FlushPhase
  <2>2. CASE PushFile(a)
    BY <1>1, <2>2, FlusherPlaces, FileStepMoves, ProcessPhases DEF PushFile, Flusher, Actor, MasterInv
  <2> QED BY <2>1, <2>2
          DEF ThreadStep, Tick, ForceMerge, Request, ReadMaster, ReadReplica, PushDone, PushFails
<1>3. pc'[Indexer] = pc[Indexer]
  <2>1. CASE FlushStep(a)
    BY <1>1, <2>1, FlushPhase
  <2>2. CASE PushFile(a)
    BY <1>1, <2>2, FileStepMoves DEF PushFile, Flusher, Actor
  <2> QED BY <1>1, <2>1, <2>2
          DEF ThreadStep, Tick, ForceMerge, Request, ReadMaster, ReadReplica, PushDone, PushFails,
              Fail, Succeed, Leave, Start
<1>4. UNCHANGED starts
  BY DEF ThreadStep, Tick, ForceMerge, Request, ReadMaster, ReadReplica, PushDone, PushFails,
         FlushStep, Commit, ListFiles, ReadSizes, FindManifest, DeleteManifest, CreateManifest, CloseManifest, PushFile, masterVars
<1> QED BY <1>2, <1>3, <1>4 DEF ThreadsOff

\* What is said of a fiber stays true while another one takes a step.
LEMMA SeqnumBeside ==
  ASSUME MasterInv, ThreadsOff, Uncrossed, NEW t \in Threads, SeqnumInv(t),
         NEW a \in Threads \ {t}, ThreadStep(a) \/ Request(a), SeqnumInv(a)'
  PROVE  SeqnumInv(t)'
<1>1. /\ pc'[t] = pc[t] /\ hand'[t] = hand[t]
      /\ pc[a] \in {"replica", "push"} \/ pc[a] \in Describing \/ pc[a] \notin Describing \cup {"push"}
  BY ThreadWorks DEF MasterInv, Flusher
<1>2. pc[Indexer] = "up" /\ pc'[Indexer] = "up"
  BY ThreadLeavesProcess
<1>3. ASSUME pc[t] = "replica" PROVE manifest'[Local] = manifest[Local]
  <2>1. pc[a] \notin Describing
    BY <1>3 DEF Uncrossed, Crossing
  <2> QED BY <2>1, FiberManifests DEF MasterInv
<1>4. ASSUME pc[t] = "push" PROVE UNCHANGED manifest
  <2>1. pc[a] \notin Describing /\ pc[a] # "push"
    BY <1>4 DEF Uncrossed, Crossing
  <2> QED BY <2>1, FiberManifests DEF MasterInv
<1> QED BY <1>1, <1>2, <1>3, <1>4 DEF SeqnumInv, Ahead

LEMMA SeqnumStep ==
  ASSUME MasterInv, ThreadsOff, Uncrossed, [Next]_vars,
         NEW t \in Threads, \A a \in Threads : SeqnumInv(a)
  PROVE  SeqnumInv(t)' /\ RemoteMovesOn
<1>1. CASE AddDocument \/ BackgroundMerge \/ UNCHANGED vars
  BY <1>1, SeqnumStays DEF AddDocument, BackgroundMerge, vars, syncVars, MasterInv
<1>2. ASSUME NEW a \in Threads, ThreadStep(a) \/ Request(a)
      PROVE  SeqnumInv(t)' /\ RemoteMovesOn
  <2>1. SeqnumInv(a)' /\ RemoteMovesOn
    BY <1>2, SeqnumThreadStep
  <2> QED BY <1>2, <2>1, SeqnumBeside
<1> QED BY <1>1, <1>2, SeqnumProcessStep DEF Next

LEMMA SeqnumInitially ==
  ASSUME NEW t \in Threads, Init
  PROVE  SeqnumInv(t)
<1>1. pc[t] = "off" /\ pc[Indexer] = "down"
  BY ActorsAssumption DEF Init, Actor
<1> QED BY <1>1 DEF Init, SyncInit, SeqnumInv, NoManifest, Store

\* As long as no two fibers cross, the object store's index.json only moves to
\* later commits, through every stop, fault and restart (ReplicatedIndex.sync,
\* LocalDirectory.fromRemote).
THEOREM RemoteSeqnumOnlyGrows ==
  ASSUME Threads # {}
  PROVE  Spec /\ []Uncrossed => RemoteSeqnumGrows
<1> DEFINE Inv == MasterInv /\ ThreadsOff /\ \A t \in Threads : SeqnumInv(t)
<1>1. Init => Inv
  BY MasterInitial, ThreadsOffInitially, SeqnumInitially
<1>2. Inv /\ Uncrossed /\ [Next]_vars => Inv'
  BY MasterStep, ThreadsOffStep, SeqnumStep
<1>3. Inv /\ Uncrossed /\ [Next]_vars
        => [manifest'[Remote].seqnum >= manifest[Remote].seqnum]_vars
  BY SeqnumStep DEF RemoteMovesOn
<1> HIDE DEF Inv
<1> QED BY <1>1, <1>2, <1>3, PTL DEF Spec, RemoteSeqnumGrows

-----------------------------------------------------------------------------
(* The first life of the indexer: from its first start to its first stop.   *)
(* It begins with nothing in the directory and in the object store, so no   *)
(* copying precedes the writer.                                             *)

Blank(s) == manifest[s] = NoManifest /\ \A f \in FileName : data[s][f] = NoBlob

Unborn ==
  /\ Blank(Local) /\ Blank(Remote)
  /\ acked = {} /\ \A a \in Threads : covers[a] = {}
  /\ writer = Closed

BirthInv ==
  /\ starts = 0 => pc[Indexer] = "down"
  /\ starts <= 1 => pc[Indexer] \notin {"bootpull", "bootpush"}
  /\ starts = 0 \/ (starts = 1 /\ pc[Indexer] = "open") => Unborn

LEMMA BirthStays ==
  ASSUME BirthInv, UNCHANGED starts, starts # 0,
         pc'[Indexer] \notin {"open", "bootpull", "bootpush"}
  PROVE  BirthInv'
  BY DEF BirthInv

LEMMA BirthStep ==
  ASSUME MasterInv, ThreadsOff, BirthInv, [Next]_vars
  PROVE  BirthInv'
<1> USE ProcessPhases
<1>1. pc \in [Actor -> AnyPhase] /\ Indexer \in Actor /\ starts \in Nat
  BY MasterAssumption DEF MasterInv, TypeOK, SyncTypeOK
<1>2. CASE AddDocument \/ BackgroundMerge
  BY <1>2, BirthStays DEF AddDocument, BackgroundMerge, syncVars, BirthInv
<1>3. CASE \E a \in Threads : ThreadStep(a) \/ Request(a)
  BY <1>3, ThreadLeavesProcess, BirthStays DEF BirthInv
<1>4. CASE Boot
  <2>1. CASE starts = 0
    <3>1. Unborn /\ pc[Indexer] = "down" /\ starts' = 1
      BY <1>4, <2>1 DEF BirthInv, Boot
    <3>2. Home(Indexer) = Local
      BY ActorsAssumption DEF Home
    <3>3. Leave(Indexer, "open") /\ UNCHANGED <<data, manifest>>
      BY <1>4, <3>1, <3>2 DEF Boot, FromRemote, Unborn, Blank, NoManifest
    <3>4. pc'[Indexer] = "open"
      BY <1>1, <3>3 DEF Leave
    <3>5. Unborn'
      BY <1>4, <3>1, <3>3 DEF Boot, Unborn, Blank
    <3> QED BY <3>1, <3>4, <3>5 DEF BirthInv
  <2>2. CASE starts # 0
    <3>1. starts' = starts + 1
      BY <1>4 DEF Boot
    <3> QED BY <1>1, <2>2, <3>1 DEF BirthInv
  <2> QED BY <2>1, <2>2
<1>5. CASE BootStep
  <2>1. Syncing(Indexer) /\ UNCHANGED <<pc, starts>>
    BY <1>5, FileStepMoves DEF BootStep, masterVars
  <2>2. pc[Indexer] \in {"bootpull", "bootpush"}
    BY <2>1, FlusherPlaces DEF MasterInv
  <2> QED BY <1>1, <2>1, <2>2 DEF BirthInv
<1>6. CASE BootDone \/ BootFails
  <2>1. UNCHANGED starts
    BY <1>6 DEF BootDone, BootFails, masterVars
  <2>2. pc[Indexer] \in {"bootpull", "bootpush"}
    BY <1>6, FlusherPlaces DEF BootDone, BootFails, FileMissing, MasterInv
  <2>3. ~(starts <= 1)
    BY <2>2 DEF BirthInv
  <2> QED BY <1>1, <2>1, <2>3 DEF BirthInv
<1>7. CASE OpenWriter
  <2>1. UNCHANGED starts /\ pc[Indexer] = "open"
    BY <1>7 DEF OpenWriter
  <2>2. pc'[Indexer] \in {"up", "down"}
    <3> DEFINE up == [a \in Actor |->
                 CASE a = Indexer -> "up" [] a \in Threads -> "idle" [] OTHER -> pc[a]]
    <3>1. up[Indexer] = "up"
      BY ActorsAssumption
    <3>2. pc' = up \/ Leave(Indexer, "down")
      BY <1>7 DEF OpenWriter
    <3> HIDE DEF up
    <3> QED BY <1>1, <3>1, <3>2 DEF Leave
  <2> QED BY <1>1, <2>1, <2>2, BirthStays DEF BirthInv
<1>8. CASE FlushStep(Indexer)
  <2>1. UNCHANGED starts
    BY <1>8 DEF FlushStep, Commit, ListFiles, ReadSizes, FindManifest, DeleteManifest, CreateManifest, CloseManifest, masterVars
  <2>2. PICK x \in Phases(Indexer) \ Elsewhere : pc' = [pc EXCEPT ![Indexer] = x]
    BY <1>8, FlushPhase
  <2>3. pc[Indexer] \in {"commit", "list", "sizes", "write", "replace", "create", "writing"}
    BY <1>8, FlushPhase
  <2>4. pc'[Indexer] \notin {"open", "bootpull", "bootpush"}
    BY <1>1, <2>2 DEF Elsewhere
  <2> QED BY <2>1, <2>3, <2>4, BirthStays DEF BirthInv
<1>9. CASE CloseWriter
  BY <1>1, <1>9, BirthStays DEF CloseWriter, Leave, BirthInv
<1>10. CASE Fault
  <2>1. PICK next \in {"commit", "close", "down"} : Interrupt(next)
    BY <1>10 DEF Fault, Shutdown, Kill, LosePod
  <2>2. pc'[Indexer] \in {"commit", "close", "down"}
    BY <1>1, <2>1, ActorsAssumption DEF Interrupt
  <2>3. UNCHANGED starts /\ pc[Indexer] # "down"
    BY <1>10 DEF Fault, Shutdown, Kill, LosePod
  <2> QED BY <2>2, <2>3, BirthStays DEF BirthInv
<1>11. CASE UNCHANGED vars
  BY <1>11 DEF vars, syncVars, masterVars, BirthInv, Unborn, Blank
<1> QED BY <1>2, <1>3, <1>4, <1>5, <1>6, <1>7, <1>8, <1>9, <1>10, <1>11 DEF Next, ProcessStep

LEMMA BirthInitially == Init => BirthInv
  BY ProcessPhases, ActorsAssumption
  DEF Init, SyncInit, MasterInit, BirthInv, Unborn, Blank, Store

-----------------------------------------------------------------------------
(* What a flush that answers 200 OK has committed.                          *)

\* Segments are older than the next commit, so it takes none of their names.
SegmentsAreOld == \A g \in writer.segs : g <= writer.gen

\* What a commit leaves in the directory's segments.
LEMMA CommitWrites ==
  ASSUME MasterInv, SegmentsAreOld, NEW g, g = writer.gen + 1, g \in Gen
  PROVE  /\ Committed(g)[Segments(g)] = Whole(NewSegs(g))
         /\ NewBody # {} => Committed(g)[Seg(g)] = Whole(NewBody)
         /\ \A h \in Kept : /\ h \in writer.segs /\ h # g
                            /\ Committed(g)[Seg(h)] = data[Local][Seg(h)]
         /\ \A f \in FileName : \/ f = Segments(g) \/ (f = Seg(g) /\ NewBody # {})
                                \/ Committed(g)[f] = NoBlob \/ Committed(g)[f] = data[Local][f]
<1> DEFINE new(f) == f = Seg(g) /\ NewBody # {}
           gone(f) == f \in CommitFiles /\ f \notin {Seg(h) : h \in Kept}
<1>1. writer \in WriterType
  BY DEF MasterInv, TypeOK, WriterType
<1>2. Kept \subseteq writer.segs /\ writer.segs \subseteq Gen
  BY <1>1 DEF Kept, WriterType
<1>3. \A f \in FileName : Committed(g)[f] =
        CASE new(f) -> Whole(NewBody) [] f = Segments(g) -> Whole(NewSegs(g))
          [] gone(f) -> NoBlob [] OTHER -> data[Local][f]
  BY DEF Committed
<1>4. /\ \A h : Seg(h) # Segments(g) /\ (Seg(h) = Seg(g) => h = g)
      /\ Segments(g) \in FileName /\ \A h \in Gen : Seg(h) \in FileName
  BY DEF Seg, Segments, FileName
<1>5. ~gone(Segments(g)) /\ ~new(Segments(g))
  <2>1. writer.gen \in Nat /\ writer.gen # g
    BY <1>1 DEF WriterType, Gen
  <2>2. \A h \in {writer.gen} \ {0} : Segments(h) # Segments(g)
    BY <2>1 DEF Segments
  <2> QED BY <1>4, <2>2 DEF CommitFiles
<1>6. ASSUME NEW h \in Kept PROVE h # g /\ ~gone(Seg(h)) /\ ~new(Seg(h))
  <2>1. h <= writer.gen /\ h \in Gen /\ writer.gen \in Nat
    BY <1>1, <1>2 DEF SegmentsAreOld, WriterType
  <2>2. h # g
    BY <2>1 DEF Gen
  <2> QED BY <1>4, <2>2
<1>7. new(Seg(g)) <=> NewBody # {}
  OBVIOUS
<1> HIDE DEF new, gone
<1>8. Committed(g)[Segments(g)] = Whole(NewSegs(g))
  BY <1>3, <1>4, <1>5
<1>9. NewBody # {} => Committed(g)[Seg(g)] = Whole(NewBody)
  <2>1. Seg(g) \in FileName /\ Seg(g) # Segments(g)
    BY <1>4
  <2>2. ~gone(Seg(g))
    <3>1. writer.gen \in Nat /\ g \in Nat /\ \A h \in writer.segs : h <= writer.gen /\ h \in Nat
      BY <1>1 DEF SegmentsAreOld, WriterType, Gen
    <3>2. g \notin writer.segs
      BY <3>1
    <3> QED BY <1>4, <3>2 DEF gone, CommitFiles, Seg, Segments
  <2> QED BY <1>3, <1>7, <2>1, <2>2
<1>10. ASSUME NEW h \in Kept PROVE h \in writer.segs /\ h # g /\ Committed(g)[Seg(h)] = data[Local][Seg(h)]
  <2>1. Seg(h) \in FileName /\ Seg(h) # Segments(g)
    BY <1>2, <1>4
  <2> QED BY <1>2, <1>3, <1>6, <2>1
<1>11. ASSUME NEW f \in FileName, f # Segments(g), ~new(f)
       PROVE  Committed(g)[f] = NoBlob \/ Committed(g)[f] = data[Local][f]
  BY <1>3, <1>11
<1> QED BY <1>8, <1>9, <1>10, <1>11 DEF new

\* No document is lost by a commit: what was buffered and what was committed
\* before is in the segments.
LEMMA CommitKeepsDocuments ==
  ASSUME MasterInv, SegmentsAreOld, NEW g, g = writer.gen + 1, g \in Gen,
         data' = [data EXCEPT ![Local] = Committed(g)],
         writer' = [writer EXCEPT !.seq = @ + 1, !.gen = g, !.segs = NewSegs(g),
                                  !.buffer = {}, !.merged = FALSE]
  PROVE  /\ writer.buffer \cup OnDisk \subseteq OnDisk'
         /\ SegmentsAreOld'
<1>0. /\ NewBody # {} => Committed(g)[Seg(g)] = Whole(NewBody)
      /\ \A h \in Kept : h \in writer.segs /\ Committed(g)[Seg(h)] = data[Local][Seg(h)]
  BY CommitWrites
<1>1. /\ writer \in WriterType /\ data \in [Store -> [FileName -> Blob]] /\ Local \in Store
  BY DEF MasterInv, TypeOK, SyncTypeOK, WriterType, Store
<1>2. writer'.segs = NewSegs(g) /\ writer'.gen = g /\ data'[Local] = Committed(g)
  BY <1>1 DEF WriterType
<1>3. NewBody # {} => g \in writer'.segs /\ data'[Local][Seg(g)].body = NewBody
  BY <1>0, <1>2 DEF NewSegs, Whole
<1>4. NewBody \subseteq OnDisk'
  BY <1>3 DEF OnDisk
<1>5. \A h \in Kept : h \in writer'.segs /\ data'[Local][Seg(h)] = data[Local][Seg(h)]
  BY <1>0, <1>2 DEF NewSegs
<1>6. OnDisk \subseteq OnDisk'
  <2>1. CASE writer.merged
    BY <1>4, <2>1 DEF NewBody
  <2>2. CASE ~writer.merged
    <3>1. Kept = writer.segs
      BY <2>2 DEF Kept
    <3> QED BY <1>5, <3>1 DEF OnDisk
  <2> QED BY <2>1, <2>2
<1>7. ASSUME NEW h \in NewSegs(g) PROVE h <= g
  <2>1. h \in Kept \/ h = g
    BY DEF NewSegs
  <2>2. CASE h \in Kept
    <3>1. h \in writer.segs
      BY <1>0, <2>2
    <3> QED BY <1>1, <3>1 DEF SegmentsAreOld, WriterType, Gen
  <2>3. CASE h = g
    BY <2>3 DEF Gen
  <2> QED BY <2>1, <2>2, <2>3
<1> QED BY <1>2, <1>4, <1>6, <1>7 DEF NewBody, SegmentsAreOld

InLife == starts = 1 /\ pc[Indexer] = "up"

\* From here on a fiber's flush has nothing left in the buffer.
Flushed == {"list", "sizes", "write", "replace", "create", "writing", "master", "replica", "push"}

HeldInv ==
  InLife =>
    /\ SegmentsAreOld
    /\ acked \subseteq OnDisk
    /\ \A a \in Threads : /\ covers[a] \subseteq writer.buffer \cup OnDisk
                          /\ pc[a] \in Flushed => covers[a] \subseteq OnDisk

\* What is held stays held, and only what is on disk is acknowledged.
LEMMA HeldStays ==
  ASSUME HeldInv, InLife' => InLife,
         SegmentsAreOld => SegmentsAreOld',
         OnDisk \subseteq OnDisk',
         writer.buffer \cup OnDisk \subseteq writer'.buffer \cup OnDisk',
         acked' \subseteq OnDisk',
         \A a \in Threads : /\ covers'[a] \subseteq writer'.buffer \cup OnDisk'
                            /\ pc'[a] \in Flushed => covers'[a] \subseteq OnDisk'
  PROVE  HeldInv'
  BY DEF HeldInv

LEMMA HeldFiles ==
  ASSUME HeldInv, InLife' => InLife, UNCHANGED <<data, acked>>,
         writer'.segs = writer.segs, writer'.gen = writer.gen,
         writer.buffer \subseteq writer'.buffer,
         \A a \in Threads :
           \/ covers'[a] = covers[a] /\ (pc'[a] \in Flushed => pc[a] \in Flushed)
           \/ /\ covers'[a] \subseteq writer.buffer \cup OnDisk
              /\ pc'[a] \in Flushed => covers'[a] \subseteq OnDisk
  PROVE  HeldInv'
<1>1. OnDisk' = OnDisk /\ (SegmentsAreOld => SegmentsAreOld')
  BY DEF OnDisk, SegmentsAreOld
<1> QED BY <1>1 DEF HeldInv

LEMMA HeldThreadStep ==
  ASSUME MasterInv, ThreadsOff, HeldInv, NEW a \in Threads, ThreadStep(a) \/ Request(a)
  PROVE  HeldInv'
<1> DEFINE Moves(x) == pc' = [pc EXCEPT ![a] = x]
<1>1. /\ a # Indexer /\ a \in Flusher /\ a \in Actor /\ pc \in [Actor -> AnyPhase]
      /\ Threads \subseteq Actor /\ writer \in WriterType
      /\ covers \in [Threads -> SUBSET (1..MaxDocs)]
  BY ActorsAssumption DEF Flusher, Actor, MasterInv, TypeOK, SyncTypeOK, WriterType
<1>2. InLife' => InLife
  BY ThreadLeavesProcess DEF InLife
<1>3. SUFFICES ASSUME InLife PROVE HeldInv'
  BY <1>2 DEF HeldInv
<1>4. /\ SegmentsAreOld /\ acked \subseteq OnDisk
      /\ \A b \in Threads : /\ covers[b] \subseteq writer.buffer \cup OnDisk
                            /\ pc[b] \in Flushed => covers[b] \subseteq OnDisk
  BY <1>3 DEF HeldInv
<1>5. ASSUME UNCHANGED <<data, writer, acked, covers>>, NEW x, Moves(x),
             x \in Flushed => pc[a] \in Flushed \/ writer.buffer = {}
      PROVE  HeldInv'
  <2>1. \A b \in Threads :
           \/ covers'[b] = covers[b] /\ (pc'[b] \in Flushed => pc[b] \in Flushed)
           \/ /\ covers'[b] \subseteq writer.buffer \cup OnDisk
              /\ pc'[b] \in Flushed => covers'[b] \subseteq OnDisk
    BY <1>1, <1>4, <1>5
  <2> QED BY <1>2, <1>5, <2>1, HeldFiles
<1>6. ASSUME UNCHANGED <<data, writer, covers>>, Succeed(a), pc[a] \in Flushed PROVE HeldInv'
  <2>1. covers[a] \subseteq OnDisk /\ OnDisk' = OnDisk /\ SegmentsAreOld'
    BY <1>4, <1>6 DEF OnDisk, SegmentsAreOld
  <2>2. acked' \subseteq OnDisk'
    BY <1>4, <1>6, <2>1 DEF Succeed
  <2>3. pc' = [pc EXCEPT ![a] = "idle"]
    BY <1>6 DEF Succeed, Leave
  <2>4. \A b \in Threads : pc'[b] \in Flushed => pc[b] \in Flushed
    BY <1>1, <2>3 DEF Flushed
  <2> QED BY <1>4, <1>6, <2>1, <2>2, <2>4 DEF HeldInv
<1>7. ASSUME UNCHANGED <<data, writer, acked, covers>>, Fail(a) PROVE HeldInv'
  <2>1. \E x \in {"dead", "idle"} : Moves(x)
    BY <1>1, <1>7 DEF Fail, Leave
  <2> QED BY <1>5, <1>7, <2>1 DEF Flushed
<1>8. CASE Tick(a)
  BY <1>5, <1>8 DEF Tick, Leave, masterVars, Flushed
<1>9. CASE ForceMerge(a)
  <2>1. /\ UNCHANGED <<data, acked, covers>> /\ Moves("commit")
        /\ writer'.segs = writer.segs /\ writer'.gen = writer.gen /\ writer'.buffer = writer.buffer
    BY <1>1, <1>9 DEF ForceMerge, MergeSegments, Leave, WriterType
  <2>2. \A b \in Threads : pc'[b] \in Flushed => pc[b] \in Flushed
    BY <1>1, <2>1 DEF Flushed
  <2> QED BY <1>2, <2>1, <2>2, HeldFiles
<1>10. CASE Request(a)
  <2>1. PICK m \in BOOLEAN :
          Moves(IF Dirty THEN "commit" ELSE IF m THEN "merge" ELSE "master")
    BY <1>10 DEF Request, Leave
  <2>2. /\ covers' = [covers EXCEPT ![a] = Held] /\ UNCHANGED <<data, writer, acked>>
        /\ Held \subseteq writer.buffer \cup OnDisk
    BY <1>10 DEF Request, Held
  <2>3. pc'[a] \in Flushed => writer.buffer = {}
    BY <1>1, <2>1 DEF Flushed, Dirty
  <2>4. ASSUME NEW b \in Threads
        PROVE  \/ covers'[b] = covers[b] /\ (pc'[b] \in Flushed => pc[b] \in Flushed)
               \/ /\ covers'[b] \subseteq writer.buffer \cup OnDisk
                  /\ pc'[b] \in Flushed => covers'[b] \subseteq OnDisk
    <3>1. CASE b = a
      BY <1>1, <2>2, <2>3, <3>1
    <3>2. CASE b # a
      BY <1>1, <2>1, <2>2, <3>2
    <3> QED BY <3>1, <3>2
  <2> QED BY <1>2, <2>2, <2>4, HeldFiles
<1>11. CASE Commit(a)
  <2>1. CASE ~Dirty
    <3>1. \E x : Moves(x)
      BY <1>11, <2>1 DEF Commit, AfterFlush, Leave
    <3>2. writer.buffer = {}
      BY <2>1 DEF Dirty
    <3>3. UNCHANGED <<data, writer, acked, covers>>
      BY <1>11, <2>1 DEF Commit, AfterFlush
    <3> QED BY <1>5, <3>1, <3>2, <3>3
  <2>2. CASE Dirty
    <3> DEFINE g == writer.gen + 1
    <3>1. /\ data' = [data EXCEPT ![Local] = Committed(g)]
          /\ writer' = [writer EXCEPT !.seq = @ + 1, !.gen = g, !.segs = NewSegs(g),
                                      !.buffer = {}, !.merged = FALSE]
          /\ UNCHANGED <<covers, acked>>
      BY <1>11, <2>2 DEF Commit
    <3>2. g \in Gen
      BY <1>1, <2>2, BoundsAssumption DEF MasterInv, Room, Dirty, WriterType, Gen
    <3> HIDE DEF g
    <3>3. writer.buffer \cup OnDisk \subseteq OnDisk' /\ SegmentsAreOld'
      BY <1>4, <3>1, <3>2, CommitKeepsDocuments DEF g
    <3>4. \A b \in Threads : covers'[b] \subseteq OnDisk'
      BY <1>4, <3>1, <3>3
    <3> QED BY <1>4, <3>1, <3>3, <3>4 DEF HeldInv
  <2> QED BY <2>1, <2>2
<1>12. CASE ListFiles(a)
  BY <1>5, <1>12 DEF ListFiles, masterVars, Flushed
<1>13. CASE ReadSizes(a)
  <2>1. CASE Fail(a)
    BY <1>7, <1>13, <2>1 DEF ReadSizes, Fail
  <2>2. CASE ~Fail(a)
    BY <1>5, <1>13, <2>2 DEF ReadSizes, Flushed
  <2> QED BY <2>1, <2>2
<1>14. CASE WritesManifest(a)
  <2>1. UNCHANGED <<data, writer, acked, covers>> /\ pc[a] \in Flushed
    BY <1>1, <1>14, ManifestWrites DEF Flushed
  <2>2. CASE Fail(a)
    BY <1>7, <2>1, <2>2
  <2>3. CASE ~Fail(a)
    <3>1. PICK x \in {"replace", "create", "writing"} : Moves(x)
      BY <1>1, <1>14, <2>3, ManifestWrites
    <3> QED BY <1>5, <2>1, <3>1
  <2> QED BY <2>2, <2>3
<1>15. CASE CloseManifest(a)
  <2>1. \E x : Moves(x)
    BY <1>15 DEF CloseManifest, AfterFlush, Leave
  <2>2. pc[a] \in Flushed /\ UNCHANGED <<data, writer, acked, covers>>
    BY <1>15 DEF CloseManifest, AfterFlush, Flushed
  <2> QED BY <1>5, <2>1, <2>2
<1>16. CASE ReadMaster(a)
  <2>1. CASE Fail(a)
    BY <1>7, <1>16, <2>1 DEF ReadMaster, Fail
  <2>2. CASE ~Fail(a)
    BY <1>5, <1>16, <2>2 DEF ReadMaster, Flushed
  <2> QED BY <2>1, <2>2
<1>17. CASE ReadReplica(a)
  <2>1. pc[a] \in Flushed /\ UNCHANGED <<data, writer>>
    BY <1>17 DEF ReadReplica, Flushed
  <2>2. CASE Fail(a)
    BY <1>7, <2>1, <2>2 DEF Fail
  <2>3. CASE Succeed(a)
    BY <1>6, <2>1, <2>3 DEF Succeed
  <2>4. CASE ~Fail(a) /\ ~Succeed(a)
    BY <1>5, <1>17, <2>1, <2>4 DEF ReadReplica, Start
  <2> QED BY <2>2, <2>3, <2>4
<1>18. CASE PushFile(a)
  <2>1. FileStep(a) /\ UNCHANGED masterVars /\ Syncing(a) /\ UNCHANGED pc
    BY <1>1, <1>18, FileStepMoves DEF PushFile
  <2>2. Dst(a) = Remote
    BY <1>1, <2>1, FlusherPlaces DEF MasterInv
  <2>3. data'[Local] = data[Local]
    BY <2>1, <2>2 DEF FileStep, DeleteOutput, CreateOutput, Emptied, CopyFile, DeleteFile, Local, Remote, Store,
                      MasterInv, TypeOK, SyncTypeOK
  <2>4. OnDisk' = OnDisk /\ SegmentsAreOld'
    BY <1>4, <2>1, <2>3 DEF OnDisk, SegmentsAreOld, masterVars
  <2> QED BY <1>4, <2>1, <2>4 DEF HeldInv, masterVars
<1>19. CASE PushDone(a)
  BY <1>6, <1>19 DEF PushDone, Flushed, Succeed
<1>20. CASE PushFails(a)
  BY <1>7, <1>20 DEF PushFails, Fail
<1> QED BY <1>8, <1>9, <1>10, <1>11, <1>12, <1>13, <1>14, <1>15, <1>16, <1>17, <1>18, <1>19, <1>20
        DEF ThreadStep, FlushStep, WritesManifest

\* The process comes up once, with nothing to hold; every other step of it, and
\* every fault, is outside of the life or ends it.
LEMMA ProcessOutsideLife ==
  ASSUME MasterInv, ProcessStep \/ Fault
  PROVE  \/ ~InLife'
         \/ OpenWriter /\ starts = 1 /\ starts' = 1 /\ pc[Indexer] = "open" /\ pc'[Indexer] = "up"
<1> USE ProcessPhases
<1>1. pc \in [Actor -> AnyPhase] /\ Indexer \in Actor
  BY DEF MasterInv, TypeOK, SyncTypeOK
<1>2. CASE Boot \/ BootDone \/ CloseWriter \/ BootFails
  BY <1>1, <1>2 DEF Boot, FromRemote, BootDone, BootFails, CloseWriter, Leave, Start, InLife
<1>3. CASE BootStep
  BY <1>3, FileStepMoves, FlusherPlaces DEF BootStep, InLife, MasterInv
<1>4. CASE OpenWriter
  <2>1. pc[Indexer] = "open" /\ UNCHANGED starts
    BY <1>4 DEF OpenWriter
  <2> QED BY <1>4, <2>1 DEF InLife
<1>5. CASE FlushStep(Indexer)
  BY <1>1, <1>5, FlushPhase DEF InLife, Elsewhere
<1>6. CASE Fault
  <2>1. PICK next \in {"commit", "close", "down"} : Interrupt(next)
    BY <1>6 DEF Fault, Shutdown, Kill, LosePod
  <2>2. pc'[Indexer] \in {"commit", "close", "down"}
    BY <1>1, <2>1, ActorsAssumption DEF Interrupt
  <2> QED BY <2>2 DEF InLife
<1> QED BY <1>2, <1>3, <1>4, <1>5, <1>6 DEF ProcessStep

\* The first start opens an empty writer on an empty directory.
LEMMA FirstOpen ==
  ASSUME MasterInv, BirthInv, OpenWriter, starts = 1, pc[Indexer] = "open"
  PROVE  /\ Unborn /\ UNCHANGED <<data, manifest, hand, ops, outs, covers, acked>>
         /\ writer' = [Closed EXCEPT !.open = TRUE]
         /\ pc' = [a \in Actor |-> CASE a = Indexer -> "up" [] a \in Threads -> "idle" [] OTHER -> pc[a]]
<1>1. Unborn
  BY DEF BirthInv
<1>2. Generations = {}
  <2>1. \A g \in Gen : Segments(g) \in FileName
    BY DEF Segments, FileName
  <2> QED BY <1>1, <2>1 DEF Unborn, Blank, Generations, Present, NoBlob
<1> QED BY <1>1, <1>2 DEF OpenWriter

LEMMA HeldStep ==
  ASSUME MasterInv, ThreadsOff, BirthInv, HeldInv, [Next]_vars
  PROVE  HeldInv'
<1>1. CASE AddDocument \/ BackgroundMerge
  <2>1. UNCHANGED <<data, acked, covers, pc, starts>>
    BY <1>1 DEF AddDocument, BackgroundMerge, syncVars
  <2>2. /\ writer'.segs = writer.segs /\ writer'.gen = writer.gen
        /\ writer.buffer \subseteq writer'.buffer
    BY <1>1 DEF AddDocument, BackgroundMerge, MergeSegments, MasterInv, TypeOK
  <2> QED BY <2>1, <2>2, HeldFiles DEF InLife
<1>2. CASE \E a \in Threads : ThreadStep(a) \/ Request(a)
  BY <1>2, HeldThreadStep
<1>3. CASE ProcessStep \/ Fault
  <2>1. CASE ~InLife'
    BY <2>1 DEF HeldInv
  <2>2. CASE OpenWriter /\ starts = 1 /\ starts' = 1 /\ pc[Indexer] = "open" /\ pc'[Indexer] = "up"
    <3>1. Unborn /\ UNCHANGED <<covers, acked>> /\ writer' = [Closed EXCEPT !.open = TRUE]
      BY <2>2, FirstOpen
    <3> QED BY <3>1 DEF Unborn, Closed, HeldInv, SegmentsAreOld
  <2> QED BY <1>3, <2>1, <2>2, ProcessOutsideLife
<1>4. CASE UNCHANGED vars
  BY <1>4 DEF vars, syncVars, masterVars, HeldInv, InLife, SegmentsAreOld, OnDisk
<1> QED BY <1>1, <1>2, <1>3, <1>4 DEF Next

\* In the first life of an indexer, when a flush has been answered 200 OK the
\* documents held when it came in are in the last commit, whichever of any
\* number of fibers made that commit (Indexer.flush, IndexModifyRoute.flush).
THEOREM FlushedStaysCommitted == Spec => [](starts <= 1 => FlushedIsCommitted)
<1> DEFINE Inv == MasterInv /\ ThreadsOff /\ BirthInv /\ HeldInv
<1>1. Init => Inv
  <2>1. Init => HeldInv
    BY DEF Init, MasterInit, HeldInv, InLife
  <2> QED BY <2>1, MasterInitial, ThreadsOffInitially, BirthInitially
<1>2. Inv /\ [Next]_vars => Inv'
  BY MasterStep, ThreadsOffStep, BirthStep, HeldStep
<1>3. Inv => (starts <= 1 => FlushedIsCommitted)
  <2> SUFFICES ASSUME Inv, starts <= 1, pc[Indexer] = "up" PROVE acked \subseteq OnDisk
    BY DEF FlushedIsCommitted
  <2>1. starts = 1
    BY MasterAssumption DEF BirthInv, MasterInv, TypeOK
  <2> QED BY <2>1 DEF HeldInv, InLife
<1> HIDE DEF Inv
<1> QED BY <1>1, <1>2, <1>3, PTL DEF Spec

-----------------------------------------------------------------------------
(* Bringing a directory to the files of a manifest, one operation at a time *)
(* and in any order: the directory's files are `files`, its index.json `n`, *)
(* the manifest it is brought to `m`, and `todo` what is left to do.        *)

\* The files are those the manifest lists, whole, and no other.
Matches(files, n) ==
  /\ \A f \in Listed(n) : files[f].st = "whole" /\ SizeOf[files[f].body] = n.files[f]
  /\ \A f \in FileName : files[f].st # "absent" => f \in Listed(n)

\* Each listed file is there or still to be copied, each other one absent or
\* still to be deleted, and no operation is left that could fail.
Copying(m, todo, files, n) ==
  /\ \A f \in Listed(m) :
       Add(f) \in todo \/ (files[f].st = "whole" /\ SizeOf[files[f].body] = m.files[f])
  /\ \A f \in FileName \ Listed(m) : files[f].st # "absent" => Del(f) \in todo
  /\ Add(MANIFEST_FILE_NAME) \in todo \/ n = m
  /\ \A op \in todo :
       \/ op.op = "Add" /\ op.file \in Listed(m) \cup {MANIFEST_FILE_NAME}
       \/ op.op = "Del" /\ op.file \in FileName \ Listed(m) /\ files[op.file].st # "absent"

LEMMA OpForms ==
  ASSUME NEW op \in ChangedFileOp
  PROVE  /\ op.op = "Add" => op = Add(op.file)
         /\ op.op = "Del" => op = Del(op.file)
         /\ MANIFEST_FILE_NAME \notin FileName
  BY DEF ChangedFileOp, Add, Del, MANIFEST_FILE_NAME, FileName, Gen

LEMMA OpsDiffer ==
  /\ \A f, g : Add(f) # Del(g)
  /\ \A f, g : Add(f) = Add(g) => f = g
  /\ \A f, g : Del(f) = Del(g) => f = g
  /\ \A f : Add(f).file = f /\ Add(f).op = "Add" /\ Del(f).file = f /\ Del(f).op = "Del"
  /\ MANIFEST_FILE_NAME \notin FileName
  BY DEF Add, Del, MANIFEST_FILE_NAME, FileName, Gen

\* The difference of two manifests is enough to do, and no more.
LEMMA CopyStarts ==
  ASSUME NEW m, NEW n, NEW files, Matches(files, n)
  PROVE  Copying(m, Diff(m, n), files, n)
<1>1. ASSUME NEW f \in Listed(m), m.files[f] = n.files[f]
      PROVE  files[f].st = "whole" /\ SizeOf[files[f].body] = m.files[f]
  <2>1. f \in Listed(n)
    BY <1>1 DEF Listed
  <2> QED BY <1>1, <2>1 DEF Matches
<1>2. ASSUME NEW op \in Diff(m, n)
      PROVE  \/ op.op = "Add" /\ op.file \in Listed(m) \cup {MANIFEST_FILE_NAME}
             \/ op.op = "Del" /\ op.file \in FileName \ Listed(m) /\ files[op.file].st # "absent"
  <2>1. \/ \E f \in Listed(m) \cup {MANIFEST_FILE_NAME} : op = Add(f)
        \/ \E f \in Listed(n) \ Listed(m) : op = Del(f)
    BY DEF Diff
  <2>2. \A f \in Listed(n) : f \in FileName /\ files[f].st # "absent"
    BY DEF Matches, Listed
  <2> QED BY <2>1, <2>2, OpsDiffer
<1>3. \A f \in Listed(m) : m.files[f] # n.files[f] => Add(f) \in Diff(m, n)
  BY DEF Diff
<1>4. \A f \in FileName \ Listed(m) : files[f].st # "absent" => Del(f) \in Diff(m, n)
  BY DEF Diff, Matches
<1>5. Add(MANIFEST_FILE_NAME) \in Diff(m, n)
  BY DEF Diff
<1> QED BY <1>1, <1>2, <1>3, <1>4, <1>5 DEF Copying

\* One operation is done: a file is copied, or deleted.
LEMMA CopyPutsFile ==
  ASSUME NEW m, NEW n, NEW files, NEW files2, NEW todo \in SUBSET ChangedFileOp,
         NEW op \in todo, op.file \in FileName,
         Copying(m, todo, files, n),
         \A e \in FileName : e # op.file => files2[e] = files[e],
         op.op = "Add" => /\ files2[op.file].st = "whole"
                          /\ SizeOf[files2[op.file].body] = m.files[op.file],
         op.op = "Del" => files2[op.file].st = "absent"
  PROVE  Copying(m, todo \ {op}, files2, n)
<1> DEFINE f == op.file
<1>1. \/ op = Add(f) /\ f \in Listed(m)
      \/ op = Del(f) /\ f \notin Listed(m)
  <2>1. op \in ChangedFileOp
    OBVIOUS
  <2>2. op.op = "Add" => f \in Listed(m)
    BY OpsDiffer DEF Copying
  <2>3. op.op = "Del" => f \notin Listed(m)
    BY DEF Copying
  <2>4. op.op = "Add" \/ op.op = "Del"
    BY DEF Copying
  <2> QED BY <2>1, <2>2, <2>3, <2>4, OpForms
<1>2. \/ /\ op = Add(f) /\ f \in Listed(m)
         /\ files2[f].st = "whole" /\ SizeOf[files2[f].body] = m.files[f]
      \/ op = Del(f) /\ f \notin Listed(m) /\ files2[f].st = "absent"
  BY <1>1, OpsDiffer
<1>3. f \in FileName /\ op \in todo /\ \A e \in FileName : e # f => files2[e] = files[e]
  OBVIOUS
<1> HIDE DEF f
<1>4. ASSUME NEW e \in Listed(m)
      PROVE  \/ Add(e) \in todo \ {op}
             \/ files2[e].st = "whole" /\ SizeOf[files2[e].body] = m.files[e]
  <2>1. CASE e = f
    BY <1>2, <2>1
  <2>2. CASE e # f
    <3>1. Add(e) # op /\ e \in FileName
      BY <1>2, <2>2, OpsDiffer DEF Listed
    <3> QED BY <1>3, <2>2, <3>1 DEF Copying
  <2> QED BY <2>1, <2>2
<1>5. ASSUME NEW e \in FileName \ Listed(m), files2[e].st # "absent"
      PROVE  Del(e) \in todo \ {op}
  <2>1. e # f
    BY <1>2, <1>5
  <2>2. Del(e) # op
    BY <1>2, <2>1, OpsDiffer
  <2> QED BY <1>3, <1>5, <2>1, <2>2 DEF Copying
<1>6. Add(MANIFEST_FILE_NAME) \in todo \ {op} \/ n = m
  <2>1. Add(MANIFEST_FILE_NAME) # op
    BY <1>2, <1>3, OpsDiffer
  <2> QED BY <2>1 DEF Copying
<1>7. ASSUME NEW o \in todo \ {op}
      PROVE  \/ o.op = "Add" /\ o.file \in Listed(m) \cup {MANIFEST_FILE_NAME}
             \/ o.op = "Del" /\ o.file \in FileName \ Listed(m) /\ files2[o.file].st # "absent"
  <2>1. CASE o.op = "Add"
    BY <2>1 DEF Copying
  <2>2. CASE o.op # "Add"
    <3>1. o.op = "Del" /\ o.file \in FileName \ Listed(m) /\ files[o.file].st # "absent"
      BY <2>2 DEF Copying
    <3>2. o.file # f
      <4>1. o \in ChangedFileOp
        OBVIOUS
      <4>2. o = Del(o.file)
        BY <3>1, <4>1, OpForms
      <4> QED BY <1>2, <3>1, <4>2
    <3> QED BY <1>3, <3>1, <3>2
  <2> QED BY <2>1, <2>2
<1> QED BY <1>4, <1>5, <1>6, <1>7 DEF Copying

\* index.json is one of the files to copy, in no order with the others.
LEMMA CopyPutsManifest ==
  ASSUME NEW m, NEW n, NEW files, NEW todo, Copying(m, todo, files, n)
  PROVE  Copying(m, todo \ {Add(MANIFEST_FILE_NAME)}, files, m)
<1>1. \A f \in FileName : Add(f) # Add(MANIFEST_FILE_NAME) /\ Del(f) # Add(MANIFEST_FILE_NAME)
  BY OpsDiffer
<1>2. Listed(m) \subseteq FileName
  BY DEF Listed
<1> QED BY <1>1, <1>2 DEF Copying

\* A file that is still to be copied may be torn meanwhile, and index.json too.
LEMMA CopyOpensFile ==
  ASSUME NEW m, NEW n, NEW files, NEW files2, NEW todo, NEW f \in FileName, Add(f) \in todo,
         Copying(m, todo, files, n),
         \A e \in FileName : e # f => files2[e] = files[e]
  PROVE  Copying(m, todo, files2, n)
<1>1. f \in Listed(m)
  BY OpsDiffer DEF Copying
<1>2. Listed(m) \subseteq FileName
  BY DEF Listed
<1> QED BY <1>1, <1>2 DEF Copying

LEMMA CopyOpensManifest ==
  ASSUME NEW m, NEW n, NEW n2, NEW files, NEW todo, Add(MANIFEST_FILE_NAME) \in todo,
         Copying(m, todo, files, n)
  PROVE  Copying(m, todo, files, n2)
  BY DEF Copying

\* When nothing is left to do, the directory is what the manifest says.
LEMMA CopyEnds ==
  ASSUME NEW m, NEW n, NEW files, Copying(m, {}, files, n)
  PROVE  n = m /\ Matches(files, n)
  BY DEF Copying, Matches

-----------------------------------------------------------------------------
(* Fibers one at a time and the first life of the indexer: the directory,    *)
(* index.json and the object store, step by step.  LifeInv(t) is true of the *)
(* fiber that is at work, and of every fiber while none is.                  *)

\* The files of the last commit and their sizes: what index.json should say.
LocalFiles == [f \in FileName |-> IF f \in CommitFiles THEN SizeOf[data[Local][f].body] ELSE 0]

\* A store holds the files of its index.json, whole, and no other.
Exact(s) == Matches(data[s], manifest[s])

\* The last commit is on disk; a name means one content in the directory and in
\* the object store, as the next commit's names are new in both.
CommitInv ==
  /\ \A f \in CommitFiles : data[Local][f].st = "whole"
  /\ \A f \in FileName : data[Local][f].st = "whole" /\ data[Remote][f].st = "whole"
                           => data[Local][f] = data[Remote][f]
  /\ \A s \in {Local, Remote}, f \in FileName : Present(s, f) => f[2] <= writer.gen
  /\ manifest[Remote].seqnum <= writer.seq

\* The manifest the fiber is making is of the last commit, and of a later one
\* than the object store's.
HandInv(t) ==
  /\ pc[t] \in Describing => /\ hand[t].st = "whole"
                             /\ manifest[Remote].seqnum < hand[t].seqnum
                             /\ hand[t].seqnum <= writer.seq
  /\ pc[t] = "sizes" => Listed(hand[t]) = CommitFiles
  /\ pc[t] \in {"write", "replace", "create", "writing"} => hand[t].files = LocalFiles
  /\ pc[t] = "replace" => manifest[Local].st # "absent"
  /\ pc[t] = "create" => manifest[Local].st = "absent"
  /\ pc[t] = "writing" => outs[t] # {}

\* Otherwise index.json describes the last commit, once there was a flush, and
\* has the object store's number only if that has the same commit.
DirectoryInv(t) ==
  pc[t] \notin Describing =>
    \/ manifest[Local] = NoManifest
    \/ /\ manifest[Local].st = "whole" /\ manifest[Local].files = LocalFiles
       /\ manifest[Local].seqnum <= writer.seq
       /\ manifest[Remote].seqnum <= manifest[Local].seqnum
       /\ manifest[Remote].seqnum = manifest[Local].seqnum => manifest[Remote] = manifest[Local]

\* While nothing is pushed, the object store is an exact copy of its commit.
RestInv(t) ==
  /\ manifest[Remote].st = "absent" => manifest[Remote] = NoManifest
  /\ pc[t] # "push" => Exact(Remote) /\ acked \subseteq Published(Remote)

\* While the fiber pushes, the object store is being brought to the directory's
\* index.json.
PushInv(t) ==
  pc[t] = "push" => Copying(manifest[Local], ops[t], data[Remote], manifest[Remote])

LifeInv(t) ==
  InLife => CommitInv /\ HandInv(t) /\ DirectoryInv(t) /\ RestInv(t) /\ PushInv(t)

LEMMA CommitFilesAreFiles ==
  ASSUME TypeOK
  PROVE  /\ CommitFiles \subseteq FileName
         /\ LocalFiles \in [FileName -> Nat]
         /\ \A f \in FileName : LocalFiles[f] # 0 <=> f \in CommitFiles
         /\ \A f \in CommitFiles : LocalFiles[f] = SizeOf[data[Local][f].body]
<1>1. writer \in WriterType
  BY DEF TypeOK, WriterType
<1>2. CommitFiles \subseteq FileName
  BY <1>1 DEF CommitFiles, Seg, Segments, FileName, WriterType, Gen
<1>3. \A f \in FileName : SizeOf[data[Local][f].body] \in Nat \ {0}
  <2>1. \A f \in FileName : data[Local][f].body \in Body
    BY DEF TypeOK, SyncTypeOK, Store, Blob
  <2> QED BY <2>1, SizeAssumption
<1> QED BY <1>2, <1>3 DEF LocalFiles

\* What is said of the directory depends on its files and the last commit, what
\* is said of the object store on its files and its index.json.
LEMMA SameDirectory ==
  ASSUME data'[Local] = data[Local], writer'.segs = writer.segs, writer'.gen = writer.gen
  PROVE  CommitFiles' = CommitFiles /\ LocalFiles' = LocalFiles /\ OnDisk' = OnDisk
<1>1. CommitFiles' = CommitFiles
  BY DEF CommitFiles
<1> QED BY <1>1 DEF LocalFiles, OnDisk

LEMMA SameRemote ==
  ASSUME data'[Remote] = data[Remote], manifest'[Remote] = manifest[Remote]
  PROVE  /\ Exact(Remote)' <=> Exact(Remote)
         /\ Published(Remote)' = Published(Remote)
         /\ \A f : Present(Remote, f)' <=> Present(Remote, f)
  BY DEF Present, Published, Exact

LEMMA CommitInvStays ==
  ASSUME TypeOK, CommitInv, data'[Local] = data[Local], data'[Remote] = data[Remote],
         manifest'[Remote] = manifest[Remote], writer'.segs = writer.segs,
         writer'.gen = writer.gen, writer'.seq \in Nat, writer'.seq >= writer.seq
  PROVE  CommitInv'
<1>1. CommitFiles' = CommitFiles
  BY SameDirectory
<1>2. manifest[Remote].seqnum \in Nat /\ writer.seq \in Nat
  BY DEF TypeOK, SyncTypeOK, Store, Manifest
<1>3. manifest'[Remote].seqnum <= writer'.seq
  BY <1>2 DEF CommitInv
<1>4. \A s \in {Local, Remote} : \A f \in FileName : Present(s, f)' <=> Present(s, f)
  BY DEF Present
<1> QED BY <1>1, <1>3, <1>4 DEF CommitInv

\* Documents are added and merges scheduled, and the fiber stays where it is.
LEMMA LifeQuiet ==
  ASSUME TypeOK, NEW t \in Threads, LifeInv(t), InLife' => InLife,
         UNCHANGED acked \/ pc[t] = "push",
         data'[Local] = data[Local], data'[Remote] = data[Remote],
         manifest'[Local] = manifest[Local], manifest'[Remote] = manifest[Remote],
         pc'[t] = pc[t], hand'[t] = hand[t], ops'[t] = ops[t], outs'[t] = outs[t],
         writer'.segs = writer.segs, writer'.gen = writer.gen,
         writer'.seq \in Nat, writer'.seq >= writer.seq
  PROVE  LifeInv(t)'
<1> SUFFICES ASSUME InLife, InLife' PROVE LifeInv(t)'
  BY DEF LifeInv
<1>1. CommitInv /\ HandInv(t) /\ DirectoryInv(t) /\ RestInv(t) /\ PushInv(t)
  BY DEF LifeInv
<1>2. CommitInv'
  BY <1>1, CommitInvStays
<1>3. LocalFiles' = LocalFiles /\ CommitFiles' = CommitFiles
  BY SameDirectory
<1>4. /\ Exact(Remote)' <=> Exact(Remote)
      /\ Published(Remote)' = Published(Remote)
      /\ \A f : Present(Remote, f)' <=> Present(Remote, f)
  BY SameRemote
<1>5. /\ writer.seq \in Nat /\ hand[t].seqnum \in Nat /\ manifest[Local].seqnum \in Nat
      /\ \A n \in Nat : n <= writer.seq => n <= writer'.seq
  <2>1. writer.seq \in Nat /\ hand[t].seqnum \in Nat /\ manifest[Local].seqnum \in Nat
    BY DEF TypeOK, SyncTypeOK, Store, Manifest, Actor
  <2> QED BY <2>1
<1>6. HandInv(t)'
  BY <1>1, <1>3, <1>5 DEF HandInv, Listed
<1>7. DirectoryInv(t)'
  BY <1>1, <1>3, <1>5 DEF DirectoryInv, NoManifest
<1>8. RestInv(t)'
  BY <1>1, <1>4 DEF RestInv, NoManifest
<1>9. PushInv(t)'
  BY <1>1 DEF PushInv
<1> QED BY <1>2, <1>6, <1>7, <1>8, <1>9 DEF LifeInv

\* The fiber moves on, neither describing a commit nor pushing.
LEMMA LifeMoves ==
  ASSUME TypeOK, NEW t \in Threads, LifeInv(t), InLife' => InLife,
         UNCHANGED <<data, manifest, acked>>,
         pc[t] \notin Describing \cup {"push"}, pc'[t] \notin Describing \cup {"push"},
         writer'.segs = writer.segs, writer'.gen = writer.gen, writer'.seq = writer.seq
  PROVE  LifeInv(t)'
<1> SUFFICES ASSUME InLife, InLife' PROVE LifeInv(t)'
  BY DEF LifeInv
<1>1. CommitInv /\ HandInv(t) /\ DirectoryInv(t) /\ RestInv(t) /\ PushInv(t)
  BY DEF LifeInv
<1>2. CommitInv'
  <2>1. writer'.seq \in Nat /\ writer'.seq >= writer.seq
    BY DEF TypeOK
  <2> QED BY <1>1, <2>1, CommitInvStays
<1>3. LocalFiles' = LocalFiles
  BY SameDirectory
<1>4. Exact(Remote)' <=> Exact(Remote)
  BY SameRemote
<1>5. Published(Remote)' = Published(Remote)
  BY SameRemote
<1>6. HandInv(t)' /\ PushInv(t)'
  BY DEF HandInv, PushInv, Describing
<1>7. DirectoryInv(t)'
  BY <1>1, <1>3 DEF DirectoryInv, NoManifest
<1>8. RestInv(t)'
  BY <1>1, <1>4, <1>5 DEF RestInv, NoManifest
<1> QED BY <1>2, <1>6, <1>7, <1>8 DEF LifeInv

\* The first writer opens on nothing.
LEMMA LifeBegins ==
  ASSUME MasterInv, BirthInv, NEW t \in Threads, OpenWriter, starts = 1, pc[Indexer] = "open"
  PROVE  LifeInv(t)'
<1>1. /\ Unborn /\ UNCHANGED <<data, manifest, acked>>
      /\ writer' = [Closed EXCEPT !.open = TRUE]
      /\ pc' = [a \in Actor |-> CASE a = Indexer -> "up" [] a \in Threads -> "idle" [] OTHER -> pc[a]]
  BY FirstOpen
<1>2. pc'[t] = "idle"
  BY <1>1, ActorsAssumption DEF Actor
<1>3. /\ manifest'[Local] = NoManifest /\ manifest'[Remote] = NoManifest /\ acked' = {}
      /\ \A s \in {Local, Remote} : \A f \in FileName : data'[s][f] = NoBlob
  BY <1>1 DEF Unborn, Blank
<1>4. writer'.segs = {} /\ writer'.gen = 0 /\ writer'.seq = 0
  BY <1>1 DEF Closed
<1>5. CommitFiles' = {}
  BY <1>4 DEF CommitFiles
<1>6. CommitInv'
  BY <1>3, <1>4, <1>5 DEF CommitInv, Present, NoBlob, NoManifest
<1>7. Exact(Remote)'
  BY <1>3 DEF Exact, Matches, Listed, NoBlob, NoManifest, NoFiles
<1>8. HandInv(t)' /\ PushInv(t)' /\ DirectoryInv(t)' /\ RestInv(t)'
  BY <1>2, <1>3, <1>7 DEF HandInv, PushInv, DirectoryInv, RestInv, Describing
<1> QED BY <1>6, <1>8 DEF LifeInv

LEMMA LifeCommit ==
  ASSUME MasterInv, ThreadsOff, HeldInv, NEW t \in Threads, LifeInv(t), InLife, Commit(t), Dirty
  PROVE  LifeInv(t)'
<1> DEFINE g == writer.gen + 1
<1>1. /\ writer \in WriterType /\ data \in [Store -> [FileName -> Blob]]
      /\ {Local, Remote} \subseteq Store /\ Local # Remote /\ t \in Actor
      /\ hand \in [Actor -> Manifest] /\ pc \in [Actor -> AnyPhase]
      /\ manifest[Remote].seqnum \in Nat
  BY DEF MasterInv, TypeOK, SyncTypeOK, WriterType, Store, Local, Remote, Actor, Manifest
<1>2. /\ CommitInv /\ RestInv(t) /\ pc[t] = "commit" /\ SegmentsAreOld
  BY DEF LifeInv, Commit, HeldInv
<1>3. g \in Gen /\ g \in Nat /\ writer.gen \in Nat
  BY <1>1, BoundsAssumption DEF MasterInv, Room, Dirty, WriterType, Gen
<1>4. /\ data' = [data EXCEPT ![Local] = Committed(g)]
      /\ writer' = [writer EXCEPT !.seq = @ + 1, !.gen = g, !.segs = NewSegs(g),
                                  !.buffer = {}, !.merged = FALSE]
      /\ hand' = [hand EXCEPT ![t] = MakeManifest(NoFiles, writer.seq + 1)]
      /\ pc' = [pc EXCEPT ![t] = "list"]
      /\ UNCHANGED <<manifest, acked>>
  BY DEF Commit
<1>5. /\ Committed(g)[Segments(g)] = Whole(NewSegs(g))
      /\ NewBody # {} => Committed(g)[Seg(g)] = Whole(NewBody)
      /\ \A h \in Kept : h \in writer.segs /\ Committed(g)[Seg(h)] = data[Local][Seg(h)]
      /\ \A f \in FileName : \/ f = Segments(g) \/ (f = Seg(g) /\ NewBody # {})
                             \/ Committed(g)[f] = NoBlob \/ Committed(g)[f] = data[Local][f]
  <2> HIDE DEF g
  <2> QED BY <1>2, <1>3, CommitWrites DEF g
<1> HIDE DEF g
<1>6. /\ writer'.segs = NewSegs(g) /\ writer'.gen = g /\ writer'.seq = writer.seq + 1
      /\ data'[Local] = Committed(g) /\ data'[Remote] = data[Remote]
      /\ hand'[t] = MakeManifest(NoFiles, writer.seq + 1) /\ pc'[t] = "list"
  BY <1>1, <1>4 DEF WriterType
<1>7. \A f \in CommitFiles' : data'[Local][f].st = "whole"
  <2>1. \A h \in Kept : data[Local][Seg(h)].st = "whole"
    BY <1>2, <1>5 DEF CommitInv, CommitFiles
  <2>2. ASSUME NEW f \in CommitFiles' PROVE f = Segments(g) \/ \E h \in NewSegs(g) : f = Seg(h)
    BY <1>6 DEF CommitFiles
  <2> QED BY <1>5, <1>6, <2>1, <2>2 DEF NewSegs, Whole
<1>8. \A f \in FileName : /\ Present(Local, f)' => f[2] = g \/ data'[Local][f] = data[Local][f]
                          /\ (f = Segments(g) \/ f = Seg(g)) => f[2] = g
  BY <1>5, <1>6 DEF Present, NoBlob, Seg, Segments
<1>9. ASSUME NEW f \in FileName PROVE f[2] \in Nat
  BY DEF FileName, Gen
<1>10. g = writer.gen + 1
  BY DEF g
<1>11. \A s \in {Local, Remote} : \A f \in FileName : Present(s, f)' => f[2] <= g
  <2>1. \A f \in FileName : Present(Remote, f)' => Present(Remote, f)
    BY <1>6 DEF Present
  <2>2. \A f \in FileName : Present(Local, f)' => f[2] = g \/ Present(Local, f)
    BY <1>8 DEF Present
  <2>3. \A s \in {Local, Remote} : \A f \in FileName : Present(s, f) => f[2] <= writer.gen
    BY <1>2 DEF CommitInv
  <2>4. \A n \in Nat : (n <= writer.gen \/ n = g) => n <= g
    BY <1>3, <1>10
  <2> QED BY <1>9, <2>1, <2>2, <2>3, <2>4
<1>12. ASSUME NEW f \in FileName, data'[Local][f].st = "whole", data'[Remote][f].st = "whole"
       PROVE  data'[Local][f] = data'[Remote][f]
  <2>1. f[2] <= writer.gen
    BY <1>2, <1>6, <1>12 DEF CommitInv, Present
  <2>2. f[2] # g
    BY <1>3, <1>10, <2>1
  <2>3. data'[Local][f] = data[Local][f]
    BY <1>8, <1>12, <2>2 DEF Present
  <2> QED BY <1>2, <1>6, <1>12, <2>3 DEF CommitInv
<1>13. manifest'[Remote].seqnum < writer'.seq
  BY <1>1, <1>2, <1>4, <1>6 DEF CommitInv, WriterType
<1>14. CommitInv'
  <2>1. writer'.seq \in Nat
    BY <1>1, <1>6 DEF WriterType
  <2>2. manifest'[Remote].seqnum <= writer'.seq
    BY <1>1, <1>4, <1>13, <2>1
  <2> QED BY <1>6, <1>7, <1>11, <1>12, <2>2 DEF CommitInv
<1>15. HandInv(t)'
  BY <1>1, <1>6, <1>13 DEF HandInv, MakeManifest, WriterType
<1>16. Exact(Remote)' /\ acked' \subseteq Published(Remote)'
  <2>1. manifest'[Remote] = manifest[Remote]
    BY <1>4
  <2> QED BY <1>2, <1>4, <1>6, <2>1, SameRemote DEF RestInv
<1>17. RestInv(t)'
  BY <1>2, <1>4, <1>16 DEF RestInv, NoManifest
<1>18. DirectoryInv(t)' /\ PushInv(t)'
  BY <1>6 DEF DirectoryInv, PushInv, Describing
<1> QED BY <1>14, <1>15, <1>17, <1>18 DEF LifeInv

\* createManifest: the files, their sizes, and index.json.
LEMMA LifeDescribe ==
  ASSUME MasterInv, ThreadsOff, NEW t \in Threads, LifeInv(t), InLife,
         ListFiles(t) \/ ReadSizes(t) \/ WritesManifest(t) \/ CloseManifest(t)
  PROVE  LifeInv(t)'
<1>1. /\ t \in Actor /\ t \in Flusher /\ {Local, Remote} \subseteq Store /\ Local # Remote
      /\ hand \in [Actor -> Manifest] /\ pc \in [Actor -> AnyPhase]
      /\ manifest \in [Store -> Manifest] /\ writer.seq \in Nat /\ t # Indexer
  BY ActorsAssumption DEF MasterInv, TypeOK, SyncTypeOK, Store, Local, Remote, Actor, Flusher
<1>2. CommitInv /\ HandInv(t) /\ RestInv(t) /\ pc[t] \in Describing
  BY <1>1, ManifestWrites DEF LifeInv, ListFiles, ReadSizes, CloseManifest, Describing
<1>3. CommitFiles \subseteq FileName
  BY CommitFilesAreFiles DEF MasterInv
<1>4. hand[t].st = "whole" /\ manifest[Remote].seqnum < hand[t].seqnum /\ hand[t].seqnum <= writer.seq
  BY <1>2 DEF HandInv
<1>5. UNCHANGED <<data, writer, acked>> /\ manifest'[Remote] = manifest[Remote]
  <2>1. CASE CloseManifest(t)
    BY <1>1, <2>1 DEF CloseManifest, AfterFlush
  <2>2. CASE ~CloseManifest(t)
    BY <1>1, <2>2, ManifestWrites DEF ListFiles, ReadSizes, Fail, masterVars
  <2> QED BY <2>1, <2>2
<1>6. CommitInv'
  <2>1. writer'.seq >= writer.seq /\ writer'.seq \in Nat
    BY <1>1, <1>5
  <2> QED BY <1>2, <1>5, <2>1, CommitInvStays DEF MasterInv
<1>7. CommitFiles' = CommitFiles /\ LocalFiles' = LocalFiles
  BY <1>5, SameDirectory
<1>8. Exact(Remote)' /\ acked' \subseteq Published(Remote)'
  BY <1>2, <1>5, SameRemote DEF RestInv, Describing
<1>9. RestInv(t)'
  BY <1>2, <1>5, <1>8 DEF RestInv, NoManifest
<1>10. ASSUME HandInv(t)', pc'[t] \in Describing PROVE LifeInv(t)'
  BY <1>6, <1>9, <1>10 DEF LifeInv, DirectoryInv, PushInv, Describing
<1>11. CASE ListFiles(t)
  <2>1. /\ pc'[t] = "sizes" /\ hand'[t].st = hand[t].st /\ hand'[t].seqnum = hand[t].seqnum
        /\ hand'[t].files = [f \in FileName |-> IF f \in CommitFiles THEN 1 ELSE 0]
    BY <1>1, <1>11 DEF ListFiles, Manifest
  <2>2. Listed(hand'[t]) = CommitFiles
    BY <1>3, <2>1 DEF Listed
  <2>3. Listed(hand[t])' = CommitFiles'
    BY <1>7, <2>2 DEF Listed
  <2>4. HandInv(t)'
    BY <1>4, <1>5, <2>1, <2>3 DEF HandInv
  <2> QED BY <1>10, <2>1, <2>4 DEF Describing
<1>12. CASE ReadSizes(t)
  <2>1. pc[t] = "sizes" /\ Listed(hand[t]) = CommitFiles
    BY <1>2, <1>12 DEF ReadSizes, HandInv
  <2>2. \A f \in Listed(hand[t]) : Present(Local, f)
    BY <1>2, <2>1 DEF CommitInv, Present
  <2>3. /\ hand' = [hand EXCEPT ![t].files = [f \in FileName |->
             IF f \in Listed(hand[t]) THEN SizeOf[data[Local][f].body] ELSE 0]]
        /\ pc' = [pc EXCEPT ![t] = "write"]
    BY <1>12, <2>2 DEF ReadSizes
  <2>4. /\ pc'[t] = "write" /\ hand'[t].st = hand[t].st /\ hand'[t].seqnum = hand[t].seqnum
        /\ hand'[t].files = LocalFiles
    BY <1>1, <2>1, <2>3 DEF Manifest, LocalFiles
  <2>5. HandInv(t)'
    BY <1>4, <1>5, <1>7, <2>4 DEF HandInv
  <2> QED BY <1>10, <2>4, <2>5 DEF Describing
<1>13. CASE WritesManifest(t)
  <2>1. hand[t].files = LocalFiles
    BY <1>1, <1>2, <1>13, ManifestWrites DEF HandInv
  <2>2. hand'[t] = hand[t] /\ pc'[t] \in {"replace", "create", "writing"}
    BY <1>1, <1>2, <1>13
    DEF WritesManifest, FindManifest, DeleteManifest, CreateManifest, HandInv
  <2>3. /\ pc'[t] = "replace" => manifest'[Local].st # "absent"
        /\ pc'[t] = "create" => manifest'[Local].st = "absent"
        /\ pc'[t] = "writing" => outs'[t] # {}
    <3>1. outs \in [Actor -> SUBSET ChangedFileOp] /\ NoManifest.st = "absent"
      BY DEF MasterInv, TypeOK, SyncTypeOK, NoManifest
    <3> QED BY <1>1, <1>2, <1>13, <3>1
        DEF WritesManifest, FindManifest, DeleteManifest, CreateManifest, HandInv
  <2>4. HandInv(t)'
    BY <1>4, <1>5, <1>7, <2>1, <2>2, <2>3 DEF HandInv
  <2> QED BY <1>10, <2>2, <2>4 DEF Describing
<1>14. CASE CloseManifest(t)
  <2>1. manifest'[Local] = hand[t] /\ hand[t].files = LocalFiles
    BY <1>1, <1>2, <1>14 DEF CloseManifest, HandInv
  <2>2. pc'[t] \notin Describing \cup {"push"}
    <3> DEFINE next == CASE t = Indexer -> "close"
                         [] t \in Periodic -> IF TRUE THEN "master" ELSE "idle"
                         [] OTHER -> IF merging[t] THEN "merge" ELSE "master"
    <3>1. next \in {"merge", "master"}
      BY <1>1
    <3>2. pc' = [pc EXCEPT ![t] = next]
      BY <1>14 DEF CloseManifest, AfterFlush, Leave
    <3> HIDE DEF next
    <3> QED BY <1>1, <3>1, <3>2 DEF Describing
  <2>3. HandInv(t)' /\ PushInv(t)'
    BY <2>2 DEF HandInv, PushInv, Describing
  <2>4. DirectoryInv(t)'
    <3>1. hand[t].seqnum \in Nat /\ manifest[Remote].seqnum \in Nat
      BY <1>1 DEF Manifest
    <3>2. manifest[Remote].seqnum <= hand[t].seqnum /\ manifest[Remote].seqnum # hand[t].seqnum
      BY <1>4, <3>1
    <3> QED BY <1>4, <1>5, <1>7, <2>1, <3>2 DEF DirectoryInv
  <2> QED BY <1>6, <1>9, <2>3, <2>4 DEF LifeInv
<1> QED BY <1>11, <1>12, <1>13, <1>14

\* What is on disk can be read from the object store once that is an exact copy
\* of the last commit.
LEMMA ExactIsPublished ==
  ASSUME TypeOK, CommitInv, Exact(Remote), manifest[Remote].files = LocalFiles
  PROVE  OnDisk \subseteq Published(Remote)
<1> SUFFICES ASSUME NEW h \in writer.segs
             PROVE  data[Local][Seg(h)].body \subseteq Published(Remote)
  BY DEF OnDisk
<1>1. h \in Gen /\ Seg(h) \in CommitFiles /\ Seg(h) \in FileName
  BY DEF TypeOK, CommitFiles, Seg, FileName
<1>2. manifest[Remote].files[Seg(h)] # 0
  BY <1>1, CommitFilesAreFiles
<1>3. data[Remote][Seg(h)].st = "whole"
  BY <1>1, <1>2 DEF Exact, Matches, Listed
<1>4. data[Local][Seg(h)] = data[Remote][Seg(h)]
  BY <1>1, <1>3 DEF CommitInv
<1> QED BY <1>1, <1>2, <1>4 DEF Published

\* The comparison with the object store: a push begins with each file to be
\* changed in its list, and no push is needed only if there is nothing to do.
LEMMA LifeCompare ==
  ASSUME MasterInv, ThreadsOff, HeldInv, NEW t \in Threads, SeqnumInv(t), LifeInv(t), InLife,
         ReadReplica(t)
  PROVE  LifeInv(t)'
<1> DEFINE L == manifest[Local]
           R == manifest[Remote]
<1>1. /\ t \in Actor /\ t # Indexer /\ {Local, Remote} \subseteq Store
      /\ pc \in [Actor -> AnyPhase] /\ ops \in [Actor -> SUBSET ChangedFileOp]
      /\ R.seqnum \in Nat /\ L.seqnum \in Nat /\ writer.seq \in Nat
  BY ActorsAssumption DEF MasterInv, TypeOK, SyncTypeOK, Store, Actor, Manifest
<1>2. /\ CommitInv /\ DirectoryInv(t) /\ RestInv(t) /\ pc[t] = "replica"
      /\ hand[t] = L /\ L.st = "whole" /\ UNCHANGED <<data, manifest, writer>>
  BY DEF LifeInv, ReadReplica, SeqnumInv
<1>3. /\ L.files = LocalFiles /\ L.seqnum <= writer.seq /\ R.seqnum <= L.seqnum
      /\ R.seqnum = L.seqnum => R = L
  BY <1>2 DEF DirectoryInv, Describing, NoManifest
<1>4. Exact(Remote) /\ acked \subseteq Published(Remote) /\ (R.st = "absent" => R = NoManifest)
  BY <1>2 DEF RestInv
<1>5. covers[t] \subseteq OnDisk
  BY <1>2 DEF HeldInv, Flushed
<1>6. CommitInv'
  <2>1. writer'.seq \in Nat /\ writer'.seq >= writer.seq
    BY <1>1, <1>2
  <2> QED BY <1>2, <2>1, CommitInvStays DEF MasterInv
<1>7. CASE Fail(t)
  <2>1. \E x \in {"dead", "idle"} : pc' = [pc EXCEPT ![t] = x]
    BY <1>1, <1>7 DEF Fail, Leave
  <2>2. pc'[t] \notin Describing \cup {"push"}
    BY <1>1, <2>1 DEF Describing
  <2>3. InLife' => InLife
    OBVIOUS
  <2> QED BY <1>2, <1>7, <2>2, <2>3, LifeMoves DEF Fail, Describing, MasterInv
<1>8. CASE ~Newer(L, R) /\ Succeed(t)
  <2>1. R = L
    BY <1>1, <1>3, <1>8 DEF Newer
  <2>2. acked' \subseteq Published(Remote)
    <3>1. OnDisk \subseteq Published(Remote)
      BY <1>2, <1>3, <1>4, <2>1, ExactIsPublished DEF MasterInv
    <3> QED BY <1>4, <1>5, <1>8, <3>1 DEF Succeed
  <2>3. pc'[t] = "idle"
    BY <1>1, <1>8 DEF Succeed, Leave
  <2>4. LocalFiles' = LocalFiles /\ Exact(Remote)' /\ Published(Remote)' = Published(Remote)
    BY <1>2, <1>4, SameDirectory, SameRemote
  <2>5. HandInv(t)' /\ PushInv(t)'
    BY <2>3 DEF HandInv, PushInv, Describing
  <2>6. DirectoryInv(t)' /\ RestInv(t)'
    BY <1>2, <1>3, <1>4, <2>2, <2>4 DEF DirectoryInv, RestInv, NoManifest
  <2> QED BY <1>6, <2>5, <2>6 DEF LifeInv
<1>9. CASE Newer(L, R) /\ Start(t, "push", L, R) /\ UNCHANGED acked
  <2>1. pc'[t] = "push" /\ ops'[t] = Diff(L, R)
    BY <1>1, <1>9 DEF Start
  <2>2. LocalFiles' = LocalFiles
    BY <1>2, SameDirectory
  <2>3. HandInv(t)'
    BY <2>1 DEF HandInv, Describing
  <2>4. DirectoryInv(t)' /\ RestInv(t)'
    BY <1>2, <1>3, <1>4, <2>1, <2>2 DEF DirectoryInv, RestInv, NoManifest
  <2>5. PushInv(t)'
    <3>1. Copying(L, Diff(L, R), data[Remote], R)
      BY <1>4, CopyStarts DEF Exact
    <3> QED BY <1>2, <2>1, <3>1 DEF PushInv
  <2> QED BY <1>6, <2>3, <2>4, <2>5 DEF LifeInv
<1> QED BY <1>2, <1>7, <1>8, <1>9 DEF ReadReplica

\* What a pushing fiber knows.
Pushed(t) ==
  /\ manifest[Local].st = "whole" /\ manifest[Local].files = LocalFiles
  /\ manifest[Local].seqnum <= writer.seq
  /\ manifest[Remote].seqnum <= manifest[Local].seqnum
  /\ manifest[Remote].seqnum = manifest[Local].seqnum => manifest[Remote] = manifest[Local]
  /\ Listed(manifest[Local]) = CommitFiles
  /\ Src(t) = Local /\ Dst(t) = Remote

LEMMA PushedFacts ==
  ASSUME MasterInv, NEW t \in Threads, SeqnumInv(t), LifeInv(t), InLife, pc[t] = "push"
  PROVE  Pushed(t)
<1>1. manifest[Local].st = "whole"
  BY DEF SeqnumInv, Ahead
<1>2. /\ manifest[Local].files = LocalFiles /\ manifest[Local].seqnum <= writer.seq
      /\ manifest[Remote].seqnum <= manifest[Local].seqnum
      /\ manifest[Remote].seqnum = manifest[Local].seqnum => manifest[Remote] = manifest[Local]
  BY <1>1 DEF LifeInv, DirectoryInv, Describing, NoManifest
<1>3. Listed(manifest[Local]) = CommitFiles
  BY <1>2, CommitFilesAreFiles DEF Listed, MasterInv
<1>4. Src(t) = Local /\ Dst(t) = Remote
  BY ActorsAssumption DEF Src, Dst, Pushing, Home
<1> QED BY <1>1, <1>2, <1>3, <1>4 DEF Pushed

\* A file is copied to the object store, or deleted there.
LEMMA LifePutsFile ==
  ASSUME MasterInv, NEW t \in Threads, SeqnumInv(t), LifeInv(t), InLife, pc[t] = "push",
         NEW op \in ops[t], NEW b \in Blob, op.file \in FileName,
         \/ op.op = "Add" /\ b = data[Local][op.file]
         \/ op.op = "Del" /\ b = NoBlob,
         data' = [data EXCEPT ![Remote][op.file] = b],
         ops' = [ops EXCEPT ![t] = @ \ {op}],
         UNCHANGED <<manifest, pc, hand, masterVars>>
  PROVE  LifeInv(t)'
<1> DEFINE L == manifest[Local]
           f == op.file
<1>1. /\ t \in Actor /\ {Local, Remote} \subseteq Store /\ Local # Remote
      /\ data \in [Store -> [FileName -> Blob]] /\ ops \in [Actor -> SUBSET ChangedFileOp]
      /\ writer.seq \in Nat
  BY DEF MasterInv, TypeOK, SyncTypeOK, Store, Local, Remote, Actor
<1>2. CommitInv /\ PushInv(t) /\ Pushed(t) /\ DirectoryInv(t) /\ RestInv(t)
  BY PushedFacts DEF LifeInv
<1>3. /\ data'[Local] = data[Local] /\ data'[Remote][f] = b
      /\ \A e \in FileName : e # f => data'[Remote][e] = data[Remote][e]
      /\ ops'[t] = ops[t] \ {op}
  BY <1>1
<1>4. \/ op = Add(f) /\ f \in Listed(L) /\ b = data[Local][f]
      \/ op = Del(f) /\ f \notin Listed(L) /\ b = NoBlob
  <2>1. op \in ChangedFileOp
    BY <1>1
  <2>2. op.op = "Add" => f \in Listed(L)
    BY <1>2, OpsDiffer DEF PushInv, Copying
  <2>3. op.op = "Del" => f \notin Listed(L)
    BY <1>2 DEF PushInv, Copying
  <2> QED BY <2>1, <2>2, <2>3, OpForms
<1> HIDE DEF f
<1>5. CommitFiles' = CommitFiles /\ LocalFiles' = LocalFiles /\ CommitFiles \subseteq FileName
  BY <1>3, SameDirectory, CommitFilesAreFiles DEF masterVars, MasterInv
<1>6. f \in Listed(L) => b.st = "whole" /\ SizeOf[b.body] = L.files[f] /\ b = data[Local][f]
  BY <1>2, <1>4, CommitFilesAreFiles DEF Pushed, CommitInv, MasterInv
<1>7. CommitInv'
  <2>1. \A e \in FileName : data'[Local][e].st = "whole" /\ data'[Remote][e].st = "whole"
          => data'[Local][e] = data'[Remote][e]
    <3> SUFFICES ASSUME NEW e \in FileName, data'[Local][e].st = "whole", data'[Remote][e].st = "whole"
                 PROVE  data'[Local][e] = data'[Remote][e]
      OBVIOUS
    <3>1. CASE e # f
      BY <1>2, <1>3, <3>1 DEF CommitInv
    <3>2. CASE e = f
      BY <1>3, <1>4, <3>2 DEF NoBlob
    <3> QED BY <3>1, <3>2
  <2>2. \A s \in {Local, Remote} : \A e \in FileName : Present(s, e)' => e[2] <= writer.gen
    <3>1. \A e \in FileName : Present(Local, e)' => Present(Local, e)
      BY <1>3 DEF Present
    <3>2. \A e \in FileName : Present(Remote, e)' => Present(Remote, e) \/ Present(Local, e)
      <4> SUFFICES ASSUME NEW e \in FileName, Present(Remote, e)'
                   PROVE  Present(Remote, e) \/ Present(Local, e)
        OBVIOUS
      <4>1. CASE e # f
        BY <1>3, <4>1 DEF Present
      <4>2. CASE e = f
        BY <1>3, <1>4, <4>2 DEF Present, NoBlob
      <4> QED BY <4>1, <4>2
    <3> QED BY <1>2, <3>1, <3>2 DEF CommitInv
  <2>3. \A e \in CommitFiles' : data'[Local][e].st = "whole"
    BY <1>2, <1>3, <1>5 DEF CommitInv
  <2> QED BY <1>2, <2>1, <2>2, <2>3 DEF CommitInv, masterVars
<1>8. HandInv(t)' /\ DirectoryInv(t)' /\ RestInv(t)'
  BY <1>2, <1>5 DEF HandInv, DirectoryInv, RestInv, Describing, masterVars, NoManifest
<1>9. PushInv(t)'
  <2>1. /\ op.op = "Add" => b.st = "whole" /\ SizeOf[b.body] = L.files[f]
        /\ op.op = "Del" => b.st = "absent"
    BY <1>4, <1>6, OpsDiffer DEF NoBlob
  <2>2. Copying(L, ops[t] \ {op}, data'[Remote], manifest[Remote])
    BY <1>1, <1>2, <1>3, <2>1, CopyPutsFile DEF PushInv, f
  <2> QED BY <1>3, <2>2 DEF PushInv
<1> QED BY <1>7, <1>8, <1>9 DEF LifeInv

\* index.json is copied to the object store.
LEMMA LifePutsManifest ==
  ASSUME MasterInv, NEW t \in Threads, SeqnumInv(t), LifeInv(t), InLife, pc[t] = "push",
         manifest' = [manifest EXCEPT ![Remote] = manifest[Local]],
         ops' = [ops EXCEPT ![t] = @ \ {Add(MANIFEST_FILE_NAME)}],
         UNCHANGED <<data, pc, hand, masterVars>>
  PROVE  LifeInv(t)'
<1> DEFINE L == manifest[Local]
<1>1. /\ t \in Actor /\ {Local, Remote} \subseteq Store /\ Local # Remote
      /\ manifest \in [Store -> Manifest] /\ ops \in [Actor -> SUBSET ChangedFileOp]
      /\ L.seqnum \in Nat
  BY DEF MasterInv, TypeOK, SyncTypeOK, Store, Local, Remote, Actor, Manifest
<1>2. CommitInv /\ PushInv(t) /\ Pushed(t)
  BY PushedFacts DEF LifeInv
<1>3. /\ manifest'[Remote] = L /\ manifest'[Local] = L
      /\ ops'[t] = ops[t] \ {Add(MANIFEST_FILE_NAME)}
  BY <1>1
<1>4. CommitFiles' = CommitFiles /\ LocalFiles' = LocalFiles
  BY SameDirectory DEF masterVars
<1>5. CommitInv'
  BY <1>2, <1>3, <1>4 DEF CommitInv, Pushed, masterVars, Present
<1>6. HandInv(t)' /\ RestInv(t)'
  BY <1>2, <1>3 DEF HandInv, RestInv, Describing, Pushed
<1>7. DirectoryInv(t)'
  <2>1. manifest'[Remote].seqnum <= manifest'[Local].seqnum
    BY <1>1, <1>3
  <2> QED BY <1>2, <1>3, <1>4, <2>1 DEF DirectoryInv, Pushed, masterVars
<1>8. PushInv(t)'
  BY <1>2, <1>3, CopyPutsManifest DEF PushInv
<1> QED BY <1>5, <1>6, <1>7, <1>8 DEF LifeInv

LEMMA LifePushFile ==
  ASSUME MasterInv, NEW t \in Threads, SeqnumInv(t), LifeInv(t), InLife, PushFile(t)
  PROVE  LifeInv(t)'
<1>1. /\ t \in Actor /\ t \in Flusher /\ t # Indexer /\ {Local, Remote} \subseteq Store
      /\ data \in [Store -> [FileName -> Blob]] /\ ops \in [Actor -> SUBSET ChangedFileOp]
  BY ActorsAssumption DEF MasterInv, TypeOK, SyncTypeOK, Store, Actor, Flusher
<1>2. /\ FileStep(t) /\ UNCHANGED <<masterVars, pc, hand>> /\ Syncing(t)
  BY <1>1, FileStepMoves DEF PushFile
<1>3. pc[t] = "push" /\ Src(t) = Local /\ Dst(t) = Remote
  BY <1>1, <1>2, FlusherPlaces DEF MasterInv
<1>4. CASE CopyFile(t)
  <2>1. PICK op \in ops[t] :
          /\ op.op = "Add"
          /\ IF op.file = MANIFEST_FILE_NAME
             THEN /\ manifest' = [manifest EXCEPT ![Remote] = manifest[Local]]
                  /\ UNCHANGED data
             ELSE /\ data' = [data EXCEPT ![Remote][op.file] = data[Local][op.file]]
                  /\ UNCHANGED manifest
          /\ Finished(t, op)
    BY <1>3, <1>4 DEF CopyFile, Read
  <2>2. op \in ChangedFileOp /\ ops' = [ops EXCEPT ![t] = @ \ {op}]
    BY <1>1, <2>1 DEF Finished
  <2>3. CASE op.file = MANIFEST_FILE_NAME
    <3>1. op = Add(MANIFEST_FILE_NAME)
      BY <2>1, <2>2, <2>3, OpForms
    <3> QED BY <1>2, <1>3, <2>1, <2>2, <2>3, <3>1, LifePutsManifest
  <2>4. CASE op.file # MANIFEST_FILE_NAME
    <3>1. op.file \in FileName
      BY <2>2, <2>4 DEF ChangedFileOp
    <3>2. data[Local][op.file] \in Blob
      BY <1>1, <3>1
    <3> QED BY <1>2, <1>3, <2>1, <2>2, <2>4, <3>1, <3>2, LifePutsFile
  <2> QED BY <2>3, <2>4
<1>5. CASE DeleteFile(t)
  <2>1. PICK op \in ops[t] :
          /\ op.op = "Del" /\ data' = [data EXCEPT ![Remote][op.file] = NoBlob]
          /\ Finished(t, op) /\ UNCHANGED manifest
    BY <1>3, <1>5 DEF DeleteFile
  <2>2. op.file \in FileName
    BY <1>3, <2>1 DEF LifeInv, PushInv, Copying
  <2> QED BY <1>2, <1>3, <2>1, <2>2, ValueTypes, LifePutsFile DEF Finished
<1> QED BY <1>2, <1>3, <1>4, <1>5 DEF FileStep, DeleteOutput, CreateOutput, Emptied

\* No file is missing, so a push ends with everything copied.
LEMMA PushCannotFail ==
  ASSUME MasterInv, NEW t \in Threads, SeqnumInv(t), LifeInv(t), InLife, pc[t] = "push"
  PROVE  ~FileMissing(t)
<1>1. CommitInv /\ PushInv(t) /\ Pushed(t)
  BY PushedFacts DEF LifeInv
<1> SUFFICES ASSUME NEW op \in ops[t]
             PROVE  /\ op.op = "Add" => HasSource(t, op)
                    /\ op.op = "Del" => HasTarget(t, op)
  BY DEF FileMissing
<1>2. op.op = "Add" => HasSource(t, op)
  <2> SUFFICES ASSUME op.op = "Add" PROVE HasSource(t, op)
    OBVIOUS
  <2>1. op.file \in CommitFiles \cup {MANIFEST_FILE_NAME}
    BY <1>1, OpsDiffer DEF PushInv, Copying, Pushed
  <2> QED BY <1>1, <2>1 DEF HasSource, Pushed, CommitInv, Present
<1>3. op.op = "Del" => HasTarget(t, op)
  BY <1>1, OpsDiffer DEF PushInv, Copying, Pushed, HasTarget, Present
<1> QED BY <1>2, <1>3

LEMMA LifePushDone ==
  ASSUME MasterInv, HeldInv, NEW t \in Threads, SeqnumInv(t), LifeInv(t), InLife, PushDone(t)
  PROVE  LifeInv(t)'
<1>1. /\ pc[t] = "push" /\ ops[t] = {} /\ Succeed(t) /\ UNCHANGED <<data, manifest, writer>>
      /\ t \in Actor /\ pc \in [Actor -> AnyPhase] /\ writer.seq \in Nat
  BY DEF PushDone, MasterInv, TypeOK, SyncTypeOK, Actor
<1>2. CommitInv /\ PushInv(t) /\ Pushed(t) /\ RestInv(t)
  BY <1>1, PushedFacts DEF LifeInv
<1>3. manifest[Remote] = manifest[Local]
  BY <1>1, <1>2, CopyEnds DEF PushInv
<1>4. Exact(Remote)
  BY <1>1, <1>2, CopyEnds DEF PushInv, Exact
<1>5. acked' \subseteq Published(Remote)
  <2>1. acked \subseteq OnDisk /\ covers[t] \subseteq OnDisk
    BY <1>1 DEF HeldInv, Flushed
  <2>2. OnDisk \subseteq Published(Remote)
    BY <1>2, <1>3, <1>4, ExactIsPublished DEF Pushed, MasterInv
  <2> QED BY <1>1, <2>1, <2>2 DEF Succeed
<1>6. pc'[t] = "idle"
  BY <1>1 DEF Succeed, Leave
<1>7. CommitInv'
  <2>1. writer'.seq \in Nat /\ writer'.seq >= writer.seq
    BY <1>1
  <2> QED BY <1>1, <1>2, <2>1, CommitInvStays DEF MasterInv
<1>8. LocalFiles' = LocalFiles /\ Exact(Remote)' /\ Published(Remote)' = Published(Remote)
  BY <1>1, <1>4, SameDirectory, SameRemote
<1>9. HandInv(t)' /\ PushInv(t)'
  BY <1>6 DEF HandInv, PushInv, Describing
<1>10. DirectoryInv(t)' /\ RestInv(t)'
  BY <1>1, <1>2, <1>5, <1>8 DEF DirectoryInv, RestInv, NoManifest, Pushed
<1> QED BY <1>7, <1>9, <1>10 DEF LifeInv

LEMMA LifeThreadStep ==
  ASSUME MasterInv, ThreadsOff, HeldInv, NEW t \in Threads, SeqnumInv(t), LifeInv(t),
         ThreadStep(t) \/ Request(t)
  PROVE  LifeInv(t)'
<1>1. /\ t # Indexer /\ t \in Flusher /\ t \in Actor /\ pc \in [Actor -> AnyPhase]
      /\ writer \in WriterType
  BY ActorsAssumption DEF Flusher, Actor, MasterInv, TypeOK, SyncTypeOK, WriterType
<1>2. InLife' => InLife
  BY ThreadLeavesProcess DEF InLife
<1>3. SUFFICES ASSUME InLife PROVE LifeInv(t)'
  BY <1>2 DEF LifeInv
<1>4. ASSUME UNCHANGED <<data, manifest, acked>>, pc[t] \notin Describing \cup {"push"},
             NEW x, x \notin Describing \cup {"push"}, pc' = [pc EXCEPT ![t] = x],
             writer'.segs = writer.segs, writer'.gen = writer.gen, writer'.seq = writer.seq
      PROVE  LifeInv(t)'
  BY <1>1, <1>2, <1>4, LifeMoves DEF MasterInv
<1>5. CASE Tick(t) \/ ForceMerge(t) \/ Request(t)
  <2>1. UNCHANGED <<data, manifest, acked>>
    BY <1>5 DEF Tick, ForceMerge, Request, masterVars
  <2>2. pc[t] \notin Describing \cup {"push"}
    BY <1>5 DEF Tick, ForceMerge, Request, Describing
  <2>3. \E x \in {"commit", "merge", "master"} : pc' = [pc EXCEPT ![t] = x]
    BY <1>5 DEF Tick, ForceMerge, Request, Leave
  <2>4. writer'.segs = writer.segs /\ writer'.gen = writer.gen /\ writer'.seq = writer.seq
    BY <1>1, <1>5 DEF Tick, ForceMerge, Request, MergeSegments, masterVars, WriterType
  <2> QED BY <1>4, <2>1, <2>2, <2>3, <2>4 DEF Describing
<1>6. CASE Commit(t)
  <2>1. CASE Dirty
    BY <1>3, <1>6, <2>1, LifeCommit
  <2>2. CASE ~Dirty
    <3> DEFINE next == CASE t = Indexer -> "close"
                         [] t \in Periodic -> IF FALSE THEN "master" ELSE "idle"
                         [] OTHER -> IF merging[t] THEN "merge" ELSE "master"
    <3>1. next \in {"idle", "merge", "master"}
      BY <1>1
    <3>2. /\ pc' = [pc EXCEPT ![t] = next] /\ pc[t] = "commit"
          /\ UNCHANGED <<data, manifest, acked, writer>>
      BY <1>6, <2>2 DEF Commit, AfterFlush, Leave
    <3> HIDE DEF next
    <3> QED BY <1>4, <3>1, <3>2 DEF Describing
  <2> QED BY <2>1, <2>2
<1>7. CASE ListFiles(t) \/ ReadSizes(t) \/ WritesManifest(t) \/ CloseManifest(t)
  BY <1>3, <1>7, LifeDescribe
<1>8. CASE ReadMaster(t)
  <2>1. pc[t] = "master" /\ UNCHANGED <<data, manifest, acked, writer>>
    BY <1>8 DEF ReadMaster, Fail
  <2>2. \E x \in {"replica", "dead", "idle"} : pc' = [pc EXCEPT ![t] = x]
    BY <1>1, <1>8 DEF ReadMaster, Fail, Leave
  <2> QED BY <1>4, <2>1, <2>2 DEF Describing
<1>9. CASE ReadReplica(t)
  BY <1>3, <1>9, LifeCompare
<1>10. CASE PushFile(t)
  BY <1>3, <1>10, LifePushFile
<1>11. CASE PushDone(t)
  BY <1>3, <1>11, LifePushDone
<1>12. CASE PushFails(t)
  BY <1>3, <1>12, PushCannotFail DEF PushFails
<1> QED BY <1>5, <1>6, <1>7, <1>8, <1>9, <1>10, <1>11, <1>12
        DEF ThreadStep, FlushStep, WritesManifest

\* The phases in which a fiber writes what others read.
Hot == Describing \cup {"push"}

\* No other fiber is in one of them.
Leads(t) == \A a \in Threads \ {t} : pc[a] \notin Hot

LEMMA SomebodyLeads ==
  ASSUME Threads # {}, Uncrossed
  PROVE  \E t \in Threads : Leads(t)
<1>1. CASE \E t \in Threads : pc[t] \in Hot
  <2>1. PICK t \in Threads : pc[t] \in Hot
    BY <1>1
  <2>2. Leads(t)
    BY <2>1 DEF Uncrossed, Crossing, Leads, Hot
  <2> QED BY <2>2
<1>2. CASE \A t \in Threads : pc[t] \notin Hot
  BY <1>2 DEF Leads
<1> QED BY <1>1, <1>2

LEMMA HotLeads ==
  ASSUME Uncrossed, NEW a \in Threads, pc[a] \in Hot
  PROVE  Leads(a)
  BY DEF Uncrossed, Crossing, Leads, Hot

\* When a fiber has done its work, the same is true of every other one.
LEMMA LifeHandsOver ==
  ASSUME NEW t \in Threads, NEW a \in Threads, LifeInv(a)', pc'[a] \notin Hot, pc'[t] \notin Hot
  PROVE  LifeInv(t)'
  BY DEF LifeInv, HandInv, DirectoryInv, RestInv, PushInv, Describing, Hot

\* Fibers beside the one that is at work change nothing it reads.
LEMMA ColdStep ==
  ASSUME MasterInv, NEW a \in Threads, ThreadStep(a) \/ Request(a),
         pc[a] \notin Hot, pc'[a] \notin Hot
  PROVE  /\ UNCHANGED <<data, manifest>>
         /\ writer'.segs = writer.segs /\ writer'.gen = writer.gen /\ writer'.seq = writer.seq
         /\ UNCHANGED acked \/ pc[a] = "replica"
         /\ \A b \in Threads \ {a} : outs'[b] = outs[b]
<1>1. /\ a \in Flusher /\ a # Indexer /\ a \in Actor /\ Threads \subseteq Actor
      /\ pc \in [Actor -> AnyPhase] /\ outs \in [Actor -> SUBSET ChangedFileOp]
      /\ writer \in WriterType
  BY ActorsAssumption DEF Flusher, Actor, MasterInv, TypeOK, SyncTypeOK, WriterType
<1>2. ASSUME NEW x, Leave(a, x)
      PROVE  \A b \in Threads \ {a} : outs'[b] = outs[b]
  BY <1>1, <1>2 DEF Leave
<1>3. CASE Tick(a) \/ Request(a) \/ ForceMerge(a)
  <2>1. /\ UNCHANGED <<data, manifest, acked>> /\ \E x : Leave(a, x)
        /\ writer'.segs = writer.segs /\ writer'.gen = writer.gen /\ writer'.seq = writer.seq
    BY <1>1, <1>3 DEF Tick, Request, ForceMerge, MergeSegments, masterVars, WriterType
  <2> QED BY <1>2, <2>1
<1>4. CASE Commit(a)
  <2>1. ~(Dirty /\ pc' = [pc EXCEPT ![a] = "list"])
    BY <1>1 DEF Hot, Describing
  <2>2. AfterFlush(a, FALSE) /\ UNCHANGED <<data, writer, manifest>>
    BY <1>4, <2>1 DEF Commit
  <2> QED BY <1>2, <2>2 DEF AfterFlush
<1>5. CASE ReadMaster(a)
  <2>1. UNCHANGED <<data, manifest, writer, acked>>
    BY <1>5 DEF ReadMaster, Fail
  <2>2. CASE Fail(a)
    BY <1>2, <2>1, <2>2 DEF Fail
  <2>3. CASE ~Fail(a)
    BY <1>5, <2>1, <2>3 DEF ReadMaster
  <2> QED BY <2>2, <2>3
<1>6. CASE ReadReplica(a)
  <2>1. UNCHANGED <<data, manifest, writer>> /\ pc[a] = "replica"
    BY <1>6 DEF ReadReplica
  <2>2. Succeed(a) \/ Fail(a)
    BY <1>1, <1>6 DEF ReadReplica, Start, Hot
  <2> QED BY <1>2, <2>1, <2>2 DEF Succeed, Fail
<1>7. ListFiles(a) \/ ReadSizes(a) \/ WritesManifest(a) \/ CloseManifest(a) => FALSE
  BY <1>1, ManifestWrites DEF ListFiles, ReadSizes, CloseManifest, Hot, Describing
<1>8. PushFile(a) \/ PushDone(a) \/ PushFails(a) => FALSE
  <2>1. PushFile(a) => pc[a] = "push"
    BY <1>1, FileStepMoves, FlusherPlaces DEF PushFile, MasterInv
  <2> QED BY <2>1 DEF PushDone, PushFails, Hot
<1> QED BY <1>3, <1>4, <1>5, <1>6, <1>7, <1>8 DEF ThreadStep, FlushStep, WritesManifest

LEMMA LifeStep ==
  ASSUME MasterInv, ThreadsOff, BirthInv, HeldInv, Uncrossed, [Next]_vars,
         \A a \in Threads : SeqnumInv(a), \A a \in Threads : Leads(a) => LifeInv(a),
         NEW t \in Threads, Leads(t)'
  PROVE  LifeInv(t)'
<1>1. CASE AddDocument \/ BackgroundMerge \/ UNCHANGED vars
  <2>1. UNCHANGED <<data, manifest, acked, pc, hand, ops, outs, starts>>
    BY <1>1 DEF AddDocument, BackgroundMerge, vars, syncVars, masterVars
  <2>2. /\ writer'.segs = writer.segs /\ writer'.gen = writer.gen
        /\ writer'.seq \in Nat /\ writer'.seq >= writer.seq
    <3>1. writer \in WriterType /\ writer.seq \in Nat
      BY DEF MasterInv, TypeOK, WriterType
    <3>2. CASE AddDocument
      <4>1. /\ writer'.segs = writer.segs /\ writer'.gen = writer.gen
            /\ writer'.seq = writer.seq + 1
        BY <3>1, <3>2 DEF AddDocument, WriterType
      <4> QED BY <3>1, <4>1
    <3>3. CASE BackgroundMerge
      <4>1. /\ writer'.segs = writer.segs /\ writer'.gen = writer.gen
            /\ writer'.seq = writer.seq
        BY <3>1, <3>3 DEF BackgroundMerge, MergeSegments, WriterType
      <4> QED BY <3>1, <4>1
    <3>4. CASE UNCHANGED vars
      BY <3>1, <3>4 DEF vars, masterVars
    <3> QED BY <1>1, <3>2, <3>3, <3>4
  <2>3. LifeInv(t)
    BY <2>1 DEF Leads
  <2> QED BY <2>1, <2>2, <2>3, LifeQuiet DEF InLife, MasterInv
<1>2. ASSUME NEW a \in Threads, ThreadStep(a) \/ Request(a)
      PROVE  LifeInv(t)'
  <2>1. \A b \in Threads \ {a} : pc'[b] = pc[b] /\ hand'[b] = hand[b] /\ ops'[b] = ops[b]
    BY <1>2, ThreadWorks DEF MasterInv, Flusher
  <2>2. CASE a = t
    <3>1. Leads(t)
      BY <2>1, <2>2 DEF Leads
    <3> QED BY <1>2, <2>2, <3>1, LifeThreadStep
  <2>3. CASE a # t /\ pc[t] \notin Hot
    <3>1. Leads(a)
      BY <2>1, <2>3 DEF Leads
    <3>2. LifeInv(a)'
      BY <1>2, <3>1, LifeThreadStep
    <3>3. pc'[a] \notin Hot /\ pc'[t] \notin Hot
      BY <2>1, <2>3 DEF Leads
    <3> QED BY <3>2, <3>3, LifeHandsOver
  <2>4. CASE a # t /\ pc[t] \in Hot
    <3>1. LifeInv(t) /\ pc[a] \notin Hot /\ pc'[a] \notin Hot
      BY <2>4, HotLeads DEF Leads
    <3>2. /\ UNCHANGED <<data, manifest>>
          /\ writer'.segs = writer.segs /\ writer'.gen = writer.gen /\ writer'.seq = writer.seq
          /\ UNCHANGED acked \/ pc[a] = "replica"
          /\ outs'[t] = outs[t]
      BY <1>2, <2>4, <3>1, ColdStep
    <3>3. UNCHANGED acked \/ pc[t] = "push"
      BY <2>4, <3>2 DEF Uncrossed, Crossing, Hot
    <3>4. writer'.seq \in Nat /\ writer'.seq >= writer.seq
      BY <3>2 DEF MasterInv, TypeOK
    <3>5. InLife' => InLife
      BY <1>2, ThreadLeavesProcess DEF InLife
    <3> QED BY <2>1, <2>4, <3>1, <3>2, <3>3, <3>4, <3>5, LifeQuiet DEF MasterInv
  <2> QED BY <2>2, <2>3, <2>4
<1>3. CASE ProcessStep \/ Fault
  <2>1. CASE ~InLife'
    BY <2>1 DEF LifeInv
  <2>2. CASE OpenWriter /\ starts = 1 /\ pc[Indexer] = "open"
    BY <2>2, LifeBegins
  <2> QED BY <1>3, <2>1, <2>2, ProcessOutsideLife
<1> QED BY <1>1, <1>2, <1>3 DEF Next

\* The invariant of an indexer whose fibers have not crossed, in its first life.
UncrossedInv ==
  /\ MasterInv /\ ThreadsOff /\ BirthInv /\ HeldInv
  /\ \A t \in Threads : SeqnumInv(t)
  /\ \A t \in Threads : Leads(t) => LifeInv(t)

LEMMA UncrossedInitially == Init => UncrossedInv
<1>1. Init => HeldInv /\ \A t \in Threads : LifeInv(t)
  BY DEF Init, MasterInit, HeldInv, LifeInv, InLife
<1> QED BY <1>1, MasterInitial, ThreadsOffInitially, BirthInitially, SeqnumInitially DEF UncrossedInv

LEMMA UncrossedStep == UncrossedInv /\ Uncrossed /\ [Next]_vars => UncrossedInv'
  BY MasterStep, ThreadsOffStep, BirthStep, HeldStep, SeqnumStep, LifeStep DEF UncrossedInv

LEMMA UncrossedInvariant == Spec /\ []Uncrossed => []UncrossedInv
  BY UncrossedInitially, UncrossedStep, PTL DEF Spec

-----------------------------------------------------------------------------
(* With the history of the indexer there is nothing to assume of its fibers. *)

\* While nothing was crossed, nothing is.
LEMMA HistStep ==
  ASSUME [HistNext]_histVars
  PROVE  [Next]_vars /\ (~crossed' => ~crossed) /\ (~crossed' => ~Crossing' \/ UNCHANGED histVars)
<1>1. CASE UNCHANGED histVars
  BY <1>1, Zenon DEF histVars
<1>2. CASE HistNext
  <2>1. crossed' = (crossed \/ Crossing')
    BY <1>2 DEF HistNext
  <2>2. (~crossed' => ~crossed) /\ (~crossed' => ~Crossing')
    BY <2>1, Zenon
  <2> QED BY <1>2, <2>2 DEF HistNext
<1> QED BY <1>1, <1>2

HistInv == ~crossed => UncrossedInv /\ Uncrossed

LEMMA HistInvariant == HistSpec => []HistInv
<1>1. HistInit => HistInv
  <2>1. HistInit => Uncrossed
    BY DEF HistInit, Init, Uncrossed, Crossing, Describing, Actor
  <2> QED BY <2>1, UncrossedInitially DEF HistInit, HistInv
<1>2. ASSUME HistInv, [HistNext]_histVars, ~crossed'
      PROVE  (UncrossedInv /\ Uncrossed)'
  <2>1. UncrossedInv'
    BY <1>2, HistStep, UncrossedStep DEF HistInv
  <2>2. Uncrossed'
    <3>1. CASE UNCHANGED histVars
      BY <1>2, <3>1 DEF histVars, vars, syncVars, HistInv, Uncrossed, Crossing
    <3> QED BY <1>2, <3>1, HistStep DEF Uncrossed
  <2> QED BY <2>1, <2>2
<1>3. HistInv /\ [HistNext]_histVars => HistInv'
  BY <1>2 DEF HistInv
<1> QED BY <1>1, <1>3, PTL DEF HistSpec

\* When POST _flush has been answered 200 OK in the first life of the indexer,
\* the documents it held when the request came in can be read from the object
\* store whenever nothing is being pushed, unless two fibers crossed: whatever
\* was added, merged or requested meanwhile, for any number of fibers, whichever
\* of them committed and pushed (IndexModifyRoute.flush, ReplicatedIndex.sync).
THEOREM FlushedStaysPublished ==
  ASSUME Threads # {}
  PROVE  HistSpec => []FlushedIsPublished
<1>1. ASSUME HistInv PROVE FlushedIsPublished
  <2> SUFFICES ASSUME ~crossed, pc[Indexer] = "up", starts = 1, RemoteAtRest
               PROVE  acked \subseteq Published(Remote)
    BY DEF FlushedIsPublished
  <2>1. PICK t \in Threads : LifeInv(t)
    BY <1>1, SomebodyLeads DEF HistInv, UncrossedInv
  <2> QED BY <2>1 DEF LifeInv, InLife, RestInv, RemoteAtRest, Actor, Pushing
<1> QED BY <1>1, HistInvariant, PTL

\* Before the first start, and until the first stop or fault.
OneLife == starts = 0 \/ (starts = 1 /\ pc[Indexer] \in {"open", "up"})

LEMMA OneLifeLasts ==
  ASSUME Faults = {}, MasterInv, ThreadsOff, BirthInv, OneLife, [Next]_vars
  PROVE  OneLife'
<1> USE ProcessPhases
<1>1. pc \in [Actor -> AnyPhase] /\ Indexer \in Actor
  BY DEF MasterInv, TypeOK, SyncTypeOK
<1>2. starts = 0 => pc[Indexer] = "down" /\ Unborn
  BY DEF BirthInv
<1>3. CASE AddDocument \/ BackgroundMerge \/ UNCHANGED vars
  BY <1>3 DEF AddDocument, BackgroundMerge, vars, syncVars, masterVars, OneLife
<1>4. CASE \E a \in Threads : ThreadStep(a) \/ Request(a)
  BY <1>4, ThreadLeavesProcess DEF OneLife
<1>5. CASE Boot
  <2>1. starts = 0 /\ starts' = 1 /\ Unborn
    BY <1>2, <1>5 DEF Boot, OneLife
  <2>2. Home(Indexer) = Local
    BY ActorsAssumption DEF Home
  <2>3. Leave(Indexer, "open")
    BY <1>5, <2>1, <2>2 DEF Boot, FromRemote, Unborn, Blank, NoManifest
  <2> QED BY <1>1, <2>1, <2>3 DEF Leave, OneLife
<1>6. CASE OpenWriter
  <2>1. starts = 1 /\ starts' = 1 /\ pc[Indexer] = "open"
    BY <1>2, <1>6 DEF OpenWriter, OneLife
  <2>2. pc' = [a \in Actor |-> CASE a = Indexer -> "up" [] a \in Threads -> "idle" [] OTHER -> pc[a]]
    BY <1>6, <2>1, FirstOpen
  <2>3. pc'[Indexer] = "up"
    BY <2>2, ActorsAssumption
  <2> QED BY <2>1, <2>3 DEF OneLife
<1>7. ASSUME BootStep \/ BootDone \/ BootFails \/ FlushStep(Indexer) \/ CloseWriter PROVE FALSE
  <2>1. BootStep \/ BootFails => pc[Indexer] \in {"bootpull", "bootpush"}
    BY FileStepMoves, FlusherPlaces DEF BootStep, BootFails, FileMissing, MasterInv
  <2>2. FlushStep(Indexer) => pc[Indexer] \in {"commit", "list", "sizes", "write", "replace", "create", "writing"}
    BY FlushPhase
  <2>3. BootDone \/ CloseWriter => pc[Indexer] \in {"bootpull", "bootpush", "close"}
    BY DEF BootDone, CloseWriter
  <2> QED BY <1>2, <1>7, <2>1, <2>2, <2>3 DEF OneLife
<1> QED BY <1>3, <1>4, <1>5, <1>6, <1>7 DEF Next, ProcessStep, Fault, Shutdown, Kill, LosePod

\* The first life does not come back.
LEMMA OneLifeBefore ==
  ASSUME MasterInv, ThreadsOff, BirthInv, [Next]_vars, OneLife'
  PROVE  OneLife
<1> USE ProcessPhases
<1>1. /\ pc \in [Actor -> AnyPhase] /\ Indexer \in Actor /\ starts \in Nat
      /\ starts = 0 => pc[Indexer] = "down"
  BY MasterAssumption DEF MasterInv, TypeOK, SyncTypeOK, BirthInv
<1>2. CASE AddDocument \/ BackgroundMerge \/ UNCHANGED vars
  BY <1>2 DEF AddDocument, BackgroundMerge, vars, syncVars, masterVars, OneLife
<1>3. CASE \E a \in Threads : ThreadStep(a) \/ Request(a)
  BY <1>3, ThreadLeavesProcess DEF OneLife
<1>4. CASE Boot
  BY <1>1, <1>4 DEF Boot, OneLife
<1>5. CASE OpenWriter
  BY <1>5 DEF OpenWriter, OneLife
<1>6. CASE BootStep \/ FlushStep(Indexer) \/ CloseWriter
  <2>1. CASE BootStep
    BY <2>1, FileStepMoves DEF BootStep, masterVars, OneLife
  <2>2. CASE FlushStep(Indexer)
    <3>1. UNCHANGED starts /\ pc'[Indexer] \notin Elsewhere /\ pc[Indexer] # "down"
      BY <1>1, <2>2, FlushPhase
         DEF FlushStep, Commit, ListFiles, ReadSizes, FindManifest, DeleteManifest, CreateManifest, CloseManifest, masterVars
    <3> QED BY <1>1, <3>1 DEF OneLife, Elsewhere
  <2>3. CASE CloseWriter
    BY <1>1, <2>3 DEF CloseWriter, Leave, OneLife
  <2> QED BY <1>6, <2>1, <2>2, <2>3
<1>7. CASE BootDone \/ BootFails
  <2>1. starts > 1 /\ UNCHANGED starts
    BY <1>1, <1>7, FlusherPlaces DEF BootDone, BootFails, FileMissing, masterVars, BirthInv, MasterInv
  <2> QED BY <2>1 DEF OneLife
<1>8. CASE Fault
  <2>1. UNCHANGED starts /\ \E next \in {"commit", "close", "down"} : Interrupt(next)
    BY <1>8 DEF Fault, Shutdown, Kill, LosePod
  <2>2. pc'[Indexer] \in {"commit", "close", "down"}
    BY <2>1, ActorsAssumption DEF Interrupt
  <2> QED BY <2>1, <2>2 DEF OneLife
<1> QED BY <1>2, <1>3, <1>4, <1>5, <1>6, <1>7, <1>8 DEF Next, ProcessStep

\* From the invariant, in one life: an exact copy, but for a push under way.
LEMMA RemoteIsExact ==
  ASSUME Threads # {}, UncrossedInv, Uncrossed, OneLife, \A t \in Threads : pc[t] # "push"
  PROVE  Exact(Remote)
<1> USE DEF UncrossedInv
<1>1. CASE InLife
  <2>1. PICK t \in Threads : LifeInv(t)
    BY SomebodyLeads
  <2> QED BY <1>1, <2>1 DEF LifeInv, RestInv
<1>2. CASE ~InLife
  <2>1. Blank(Remote)
    BY <1>2 DEF OneLife, InLife, BirthInv, Unborn
  <2> QED BY <2>1 DEF Blank, Exact, Matches, Listed, NoBlob, NoManifest, NoFiles
<1> QED BY <1>1, <1>2

LEMMA ExactIsSnapshot ==
  ASSUME NEW s, Exact(s)
  PROVE  IsSnapshot(s) /\ \A f \in FileName : Present(s, f) => f \in Listed(manifest[s])
  BY DEF Exact, Matches, IsSnapshot, Present

\* As long as no two fibers cross, the object store holds exactly
\* the files of its index.json whenever nothing is being pushed, until the indexer
\* stops or fails (ReplicatedIndex.sync).
THEOREM RemoteStaysSnapshot ==
  ASSUME Threads # {}
  PROVE  Spec /\ []Uncrossed => [](OneLife => RemoteIsSnapshot)
<1>1. UncrossedInv /\ Uncrossed /\ OneLife => RemoteIsSnapshot
  BY RemoteIsExact, ExactIsSnapshot DEF RemoteIsSnapshot, RemoteAtRest, Pushing, Actor
<1> QED BY <1>1, UncrossedInvariant, PTL

\* And an indexer that cannot fail has one life.
COROLLARY RemoteStaysSnapshotForever ==
  ASSUME Threads # {}, Faults = {}
  PROVE  Spec /\ []Uncrossed => []RemoteIsSnapshot
<1>1. Init => OneLife
  BY DEF Init, MasterInit, OneLife
<1>2. UncrossedInv /\ OneLife /\ [Next]_vars => OneLife'
  BY OneLifeLasts DEF UncrossedInv
<1> QED BY <1>1, <1>2, UncrossedInvariant, RemoteStaysSnapshot, PTL DEF Spec

-----------------------------------------------------------------------------
(* The indexer as a feed of snapshots: its initial states are initial       *)
(* states of SnapshotFeed, and each of its steps commits, publishes the     *)
(* newest commit, or changes neither number.                                *)

FeedInv ==
  InLife => \A g \in Gen : manifest[Remote].files[Segments(g)] # 0 => g <= writer.gen

LEMMA PublishedGenBound ==
  ASSUME TypeOK, FeedInv, InLife
  PROVE  PublishedGen \in 0..writer.gen
<1> DEFINE gens == {g \in Gen : manifest[Remote].files[Segments(g)] # 0}
<1>1. writer.gen \in Nat
  BY DEF TypeOK
<1>2. \A g \in gens : g \in Nat /\ g <= writer.gen
  BY DEF FeedInv, Gen
<1>3. PublishedGen = IF gens = {} THEN 0 ELSE CHOOSE g \in gens : \A h \in gens : h <= g
  BY DEF PublishedGen
<1>4. CASE gens # {}
  <2>1. gens \in SUBSET Gen
    OBVIOUS
  <2> HIDE DEF gens
  <2>2. \E g \in gens : \A h \in gens : h <= g
    BY <1>4, <2>1, LargestGen
  <2>3. PublishedGen \in gens
    BY <1>3, <1>4, <2>2
  <2> QED BY <1>1, <1>2, <2>3
<1>5. CASE gens = {}
  <2> HIDE DEF gens
  <2>1. PublishedGen = 0
    BY <1>3, <1>5
  <2> QED BY <1>1, <2>1
<1> QED BY <1>4, <1>5

\* The directory's files are those of the last commit: it is the one published.
LEMMA NewestPublished ==
  ASSUME TypeOK, manifest'[Remote].files = LocalFiles
  PROVE  /\ PublishedGen' = writer.gen
         /\ \A g \in Gen : manifest'[Remote].files[Segments(g)] # 0 => g <= writer.gen
<1> DEFINE gens == {g \in Gen : LocalFiles[Segments(g)] # 0}
<1>1. writer.gen \in 0..MaxGen
  BY DEF TypeOK
<1>2. \A g \in Gen : LocalFiles[Segments(g)] # 0 <=> g = writer.gen
  <2> SUFFICES ASSUME NEW g \in Gen PROVE LocalFiles[Segments(g)] # 0 <=> g = writer.gen
    OBVIOUS
  <2>1. Segments(g) \in FileName
    BY DEF Segments, FileName
  <2>2. Segments(g) \in CommitFiles <=> g = writer.gen
    <3>1. \A h : Segments(g) # Seg(h) /\ (Segments(g) = Segments(h) => g = h)
      BY DEF Segments, Seg
    <3>2. g # 0
      BY DEF Gen
    <3> QED BY <3>1, <3>2 DEF CommitFiles
  <2> QED BY <2>1, <2>2, CommitFilesAreFiles
<1>3. PublishedGen' = IF gens = {} THEN 0 ELSE CHOOSE g \in gens : \A h \in gens : h <= g
  BY DEF PublishedGen
<1>4. CASE writer.gen = 0
  <2>1. gens = {}
    BY <1>2, <1>4 DEF Gen
  <2> HIDE DEF gens
  <2> QED BY <1>2, <1>3, <1>4, <2>1
<1>5. CASE writer.gen # 0
  <2>1. gens = {writer.gen} /\ writer.gen <= writer.gen
    BY <1>1, <1>2, <1>5, BoundsAssumption DEF Gen
  <2> HIDE DEF gens
  <2>2. PublishedGen' = CHOOSE g \in {writer.gen} : \A h \in {writer.gen} : h <= g
    BY <1>3, <2>1
  <2>3. PublishedGen' = writer.gen
    BY <2>1, <2>2
  <2> QED BY <1>1, <1>2, <2>3
<1> QED BY <1>4, <1>5

\* How a step of one life changes the commits made and published.
CommitsMove ==
  \/ writer'.gen = writer.gen /\ manifest'[Remote] = manifest[Remote]
  \/ writer'.gen = writer.gen + 1 /\ manifest'[Remote] = manifest[Remote]
  \/ /\ writer'.gen = writer.gen /\ manifest'[Remote] = manifest[Local]
     /\ manifest[Local].files = LocalFiles

LEMMA CommitsMoveInLife ==
  ASSUME NEW t \in Threads, UncrossedInv, Uncrossed, InLife, ThreadStep(t) \/ Request(t)
  PROVE  CommitsMove
<1> USE DEF UncrossedInv
<1>1. /\ t \in Actor /\ t # Indexer /\ t \in Flusher /\ {Local, Remote} \subseteq Store
      /\ Local # Remote /\ manifest \in [Store -> Manifest] /\ writer \in WriterType
  BY ActorsAssumption
  DEF MasterInv, TypeOK, SyncTypeOK, Store, Local, Remote, Actor, Flusher, WriterType
<1>2. CASE Commit(t)
  <2>1. CASE Dirty
    BY <1>1, <1>2, <2>1 DEF Commit, CommitsMove, WriterType
  <2>2. CASE ~Dirty
    BY <1>2, <2>2 DEF Commit, CommitsMove
  <2> QED BY <2>1, <2>2
<1>3. CASE PushFile(t)
  <2>1. FileStep(t) /\ UNCHANGED masterVars /\ Syncing(t)
    BY <1>1, <1>3, FileStepMoves DEF PushFile
  <2>2. pc[t] = "push" /\ Src(t) = Local /\ Dst(t) = Remote
    BY <1>1, <2>1, FlusherPlaces DEF MasterInv
  <2>3. manifest' = manifest \/ manifest' = [manifest EXCEPT ![Remote] = manifest[Local]]
    BY <1>1, <2>1, <2>2, FileStepMoves
  <2>4. LifeInv(t)
    BY <2>2, HotLeads DEF Hot
  <2>5. manifest[Local].files = LocalFiles
    BY <2>2, <2>4, PushedFacts DEF Pushed
  <2> QED BY <1>1, <2>1, <2>3, <2>5 DEF CommitsMove, masterVars
<1>4. CASE ForceMerge(t)
  BY <1>1, <1>4 DEF ForceMerge, MergeSegments, CommitsMove, WriterType
<1>5. CASE ~Commit(t) /\ ~PushFile(t) /\ ~ForceMerge(t)
  BY <1>1, <1>5 DEF ThreadStep, Tick, Request, FlushStep, ListFiles, ReadSizes, FindManifest, DeleteManifest, CreateManifest,
     CloseManifest, ReadMaster, ReadReplica, PushDone, PushFails, masterVars, CommitsMove
<1> QED BY <1>2, <1>3, <1>4, <1>5

LEMMA CommitsMoveAlways ==
  ASSUME UncrossedInv, Uncrossed, OneLife, OneLife', [Next]_vars
  PROVE  \/ InLife /\ CommitsMove
         \/ writer'.gen = writer.gen /\ manifest'[Remote] = manifest[Remote]
<1> USE DEF UncrossedInv
<1>1. CASE AddDocument \/ BackgroundMerge \/ UNCHANGED vars
  BY <1>1 DEF AddDocument, BackgroundMerge, MergeSegments, vars, syncVars, masterVars,
              MasterInv, TypeOK
<1>2. ASSUME NEW t \in Threads, ThreadStep(t) \/ Request(t)
      PROVE  CommitsMove /\ InLife
  <2>1. InLife
    <3>1. pc[Indexer] = "up"
      BY <1>2, ThreadLeavesProcess
    <3> QED BY <3>1 DEF OneLife, InLife, BirthInv
  <2> QED BY <1>2, <2>1, CommitsMoveInLife
<1>3. CASE ProcessStep
  <2>1. CASE OpenWriter
    <3>1. starts = 1 /\ pc[Indexer] = "open"
      BY <2>1 DEF OpenWriter, OneLife, BirthInv
    <3>2. Unborn /\ writer' = [Closed EXCEPT !.open = TRUE] /\ UNCHANGED manifest
      BY <2>1, <3>1, FirstOpen
    <3> QED BY <3>2 DEF Unborn, Closed
  <2>2. CASE Boot
    BY <2>2 DEF Boot, FromRemote
  <2>3. CASE BootStep \/ BootDone \/ BootFails \/ FlushStep(Indexer) \/ CloseWriter
    <3>1. BootStep \/ BootFails => pc[Indexer] \in {"bootpull", "bootpush"}
      BY ProcessPhases, FileStepMoves, FlusherPlaces DEF BootStep, BootFails, FileMissing, MasterInv
    <3>2. FlushStep(Indexer) => pc[Indexer] \in {"commit", "list", "sizes", "write", "replace", "create", "writing"}
      BY ProcessPhases, FlushPhase
    <3>3. BootDone \/ CloseWriter => pc[Indexer] \in {"bootpull", "bootpush", "close"}
      BY DEF BootDone, CloseWriter
    <3> QED BY <2>3, <3>1, <3>2, <3>3 DEF OneLife, BirthInv
  <2> QED BY <1>3, <2>1, <2>2, <2>3 DEF ProcessStep
<1>4. CASE Fault
  <2>1. UNCHANGED starts /\ \E next \in {"commit", "close", "down"} : Interrupt(next)
    BY <1>4 DEF Fault, Shutdown, Kill, LosePod
  <2>2. pc'[Indexer] \in {"commit", "close", "down"} /\ pc[Indexer] # "down"
    BY <1>4, <2>1, ActorsAssumption, ProcessPhases DEF Interrupt, Fault, Shutdown, Kill, LosePod
  <2> QED BY <2>1, <2>2 DEF OneLife, BirthInv
<1> QED BY <1>1, <1>2, <1>3, <1>4 DEF Next

LEMMA FeedStep ==
  ASSUME UncrossedInv, Uncrossed, OneLife, OneLife', FeedInv, [Next]_vars
  PROVE  FeedInv' /\ [Feed!Next]_(Feed!vars)
<1> USE DEF UncrossedInv
<1>1. writer.gen \in Nat /\ TypeOK
  BY DEF MasterInv, TypeOK
<1>2. ASSUME writer'.gen = writer.gen, manifest'[Remote] = manifest[Remote]
      PROVE  FeedInv' /\ [Feed!Next]_(Feed!vars)
  <2>1. PublishedGen' = PublishedGen
    BY <1>2 DEF PublishedGen
  <2>2. FeedInv'
    <3>1. CASE InLife
      BY <1>2, <3>1 DEF FeedInv
    <3>2. CASE ~InLife
      <4>1. manifest[Remote] = NoManifest
        BY <3>2 DEF OneLife, InLife, BirthInv, Unborn, Blank
      <4>2. \A g \in Gen : Segments(g) \in FileName
        BY DEF Segments, FileName
      <4> QED BY <1>2, <4>1, <4>2 DEF FeedInv, NoManifest, NoFiles
    <3> QED BY <3>1, <3>2
  <2> QED BY <1>2, <2>1, <2>2 DEF Feed!vars
<1>3. ASSUME InLife, writer'.gen = writer.gen + 1, manifest'[Remote] = manifest[Remote]
      PROVE  FeedInv' /\ [Feed!Next]_(Feed!vars)
  <2>1. PublishedGen' = PublishedGen
    BY <1>3 DEF PublishedGen
  <2>2. FeedInv'
    BY <1>1, <1>3 DEF FeedInv, Gen
  <2> QED BY <1>3, <2>1, <2>2 DEF Feed!Next, Feed!Commit
<1>4. ASSUME InLife, writer'.gen = writer.gen, manifest'[Remote].files = LocalFiles
      PROVE  FeedInv' /\ [Feed!Next]_(Feed!vars)
  <2>1. /\ PublishedGen' = writer.gen
        /\ \A g \in Gen : manifest'[Remote].files[Segments(g)] # 0 => g <= writer.gen
    BY <1>1, <1>4, NewestPublished
  <2>2. FeedInv'
    BY <1>4, <2>1 DEF FeedInv
  <2>3. PublishedGen \in 0..writer.gen
    BY <1>1, <1>4, PublishedGenBound
  <2>4. CASE PublishedGen = writer.gen
    BY <1>4, <2>1, <2>2, <2>4 DEF Feed!vars
  <2>5. CASE PublishedGen < writer.gen
    BY <1>4, <2>1, <2>2, <2>5 DEF Feed!Next, Feed!Publish
  <2> QED BY <1>1, <2>3, <2>4, <2>5
<1> QED BY <1>2, <1>3, <1>4, CommitsMoveAlways DEF CommitsMove

\* As long as no two fibers cross, the indexer implements the
\* steps of the feed of snapshots until it stops or fails: the object store's
\* index.json moves from commit to commit, never back, never to one that was not
\* made, and always to the newest.
THEOREM IndexerIsAFeed ==
  Spec /\ []Uncrossed => Feed!Init /\ [][OneLife' => [Feed!Next]_(Feed!vars)]_vars
<1> DEFINE Inv == UncrossedInv /\ (OneLife => FeedInv)
           Follows == OneLife' => [Feed!Next]_(Feed!vars)
<1>1. Init => OneLife /\ FeedInv /\ Feed!Init
  <2>1. \A g \in Gen : Segments(g) \in FileName
    BY DEF Segments, FileName
  <2> QED BY <2>1 DEF Init, SyncInit, MasterInit, OneLife, FeedInv, InLife, Feed!Init, PublishedGen,
                      Closed, NoManifest, NoFiles, Store
<1>2. UncrossedInv /\ Uncrossed /\ (OneLife => FeedInv) /\ [Next]_vars
        => (OneLife' => FeedInv') /\ Follows
  BY FeedStep, OneLifeBefore DEF UncrossedInv
<1> HIDE DEF Follows
<1>3. Spec /\ []Uncrossed => [][Follows]_vars
  BY <1>1, <1>2, UncrossedInvariant, PTL DEF Spec
<1> QED BY <1>1, <1>3, PTL DEF Spec, Follows

-----------------------------------------------------------------------------
(* All lives of the indexer, as long as no push is cut off.  The directory   *)
(* may be ahead of its index.json (a flush that was killed), be written by a *)
(* writer that counts anew, or have lost files; only what is about to be     *)
(* pushed has to be what index.json says.                                    *)

\* A push stops before all its operations are done.
CutsPush == \E a \in Flusher : pc[a] \in Pushing /\ ops[a] # {} /\ pc'[a] # pc[a]

WriterOff == {"down", "bootpull", "bootpush", "open"}
Making == {"sizes", "write", "replace", "create", "writing"}

\* The last commit is on disk, and lists no segment of a later one.
DiskInv ==
  /\ \A s \in {Local, Remote}, g \in Gen : data[s][Segments(g)].body \subseteq 1..g
  /\ SegmentsAreOld
  /\ \A f \in CommitFiles : data[Local][f].st = "whole"
  /\ pc[Indexer] \in WriterOff => writer = Closed

\* The manifest a fiber, or a shutdown, is making is of the last commit.
MakingInv(a) ==
  /\ pc[a] = "sizes" => Listed(hand[a]) = CommitFiles
  /\ pc[a] \in {"write", "replace", "create", "writing"} => hand[a].files = LocalFiles
  /\ pc[a] = "writing" => outs[a] # {}

\* The directory's index.json is to be pushed (ReplicatedIndex.sync, fromRemote).
Pending == manifest[Local].st = "whole" /\ Newer(manifest[Local], manifest[Remote])

\* What the directory has of the files it lists is as listed, and no commit of
\* this writer will change it.
Faithful ==
  \A f \in Listed(manifest[Local]) :
    /\ Present(Local, f) => /\ data[Local][f].st = "whole"
                            /\ SizeOf[data[Local][f].body] = manifest[Local].files[f]
    /\ pc[Indexer] \notin WriterOff => f[2] <= writer.gen

NoPush == \A a \in Flusher : pc[a] \notin Pushing

StoreInv ==
  /\ \A a \in Flusher : pc[a] \in Pushing
       => Copying(manifest[Local], ops[a], data[Remote], manifest[Remote])
  /\ NoPush => Exact(Remote)
  /\ Pending \/ ~NoPush => Faithful
  /\ pc[Indexer] \in {"bootpull", "open"} => ~Pending

UncutInv == DiskInv /\ (\A a \in Flusher : MakingInv(a)) /\ StoreInv

LEMMA UncutInitially == Init => UncutInv
<1> SUFFICES ASSUME Init PROVE UncutInv
  OBVIOUS
<1>1. /\ \A a \in Flusher : pc[a] \in {"off", "down"}
      /\ pc[Indexer] = "down" /\ writer = Closed
      /\ \A s \in {Local, Remote} : /\ manifest[s] = NoManifest
                                    /\ \A f \in FileName : data[s][f] = NoBlob
  BY ActorsAssumption DEF Init, SyncInit, MasterInit, Flusher, Actor, Store
<1>2. CommitFiles = {} /\ SegmentsAreOld
  BY <1>1 DEF CommitFiles, Closed, SegmentsAreOld
<1>3. \A g \in Gen : Segments(g) \in FileName
  BY DEF Segments, FileName
<1>4. DiskInv
  BY <1>1, <1>2, <1>3 DEF DiskInv, NoBlob
<1>5. \A a \in Flusher : MakingInv(a)
  BY <1>1 DEF MakingInv
<1>6. Exact(Remote)
  BY <1>1 DEF Exact, Matches, Listed, NoBlob, NoManifest, NoFiles
<1>7. StoreInv
  BY <1>1, <1>6 DEF StoreInv, Pushing, Pending, NoPush, NoManifest
<1> QED BY <1>4, <1>5, <1>7 DEF UncutInv

\* The disk is as it was, and the last commit too unless the writer is new.
LEMMA DiskStays ==
  ASSUME DiskInv, data'[Local] = data[Local], data'[Remote] = data[Remote],
         \/ writer'.gen = writer.gen /\ writer'.segs = writer.segs
         \/ writer'.gen = 0 /\ writer'.segs = {},
         pc'[Indexer] \in WriterOff => writer' = Closed
  PROVE  DiskInv'
<1>1. SegmentsAreOld' /\ CommitFiles' \subseteq CommitFiles
  BY DEF DiskInv, SegmentsAreOld, CommitFiles
<1> QED BY <1>1 DEF DiskInv

LEMMA MakingStays ==
  ASSUME NEW a \in Flusher, MakingInv(a),
         pc'[a] \in Making => /\ pc'[a] = pc[a] /\ hand'[a] = hand[a] /\ outs'[a] = outs[a]
                              /\ data'[Local] = data[Local]
                              /\ writer'.gen = writer.gen /\ writer'.segs = writer.segs
  PROVE  MakingInv(a)'
<1>1. CASE pc'[a] \in Making
  <2>1. CommitFiles' = CommitFiles /\ LocalFiles' = LocalFiles
    BY <1>1, SameDirectory
  <2> QED BY <1>1, <2>1 DEF MakingInv, Listed
<1>2. CASE pc'[a] \notin Making
  BY <1>2 DEF MakingInv, Making
<1> QED BY <1>1, <1>2

\* The stores are as they were.  A push that has ended has nothing left to do.
LEMMA StoreStays ==
  ASSUME StoreInv, data'[Local] = data[Local], data'[Remote] = data[Remote],
         manifest'[Local] = manifest[Local], manifest'[Remote] = manifest[Remote],
         \A a \in Flusher : pc'[a] \in Pushing => pc[a] \in Pushing /\ ops'[a] = ops[a],
         \A a \in Flusher : pc[a] \in Pushing /\ pc'[a] \notin Pushing => ops[a] = {},
         pc'[Indexer] \in {"bootpull", "open"} => ~Pending,
         pc'[Indexer] \notin WriterOff => pc[Indexer] \notin WriterOff /\ writer'.gen = writer.gen
  PROVE  StoreInv'
<1>1. Pending' <=> Pending
  BY DEF Pending, Newer
<1>2. Exact(Remote)' <=> Exact(Remote)
  BY SameRemote
<1>3. ~NoPush' => ~NoPush
  BY DEF NoPush
<1>4. NoPush' => Exact(Remote)
  <2>1. CASE NoPush
    BY <2>1 DEF StoreInv
  <2>2. ASSUME NoPush', NEW a \in Flusher, pc[a] \in Pushing PROVE Exact(Remote)
    <3>1. Copying(manifest[Local], {}, data[Remote], manifest[Remote])
      BY <2>2 DEF StoreInv, NoPush
    <3> QED BY <3>1, CopyEnds DEF Exact
  <2> QED BY <2>1, <2>2 DEF NoPush
<1>5. Faithful => Faithful'
  BY DEF Faithful, Present
<1>6. \A a \in Flusher : pc'[a] \in Pushing
        => Copying(manifest'[Local], ops'[a], data'[Remote], manifest'[Remote])
  BY DEF StoreInv
<1> QED BY <1>1, <1>2, <1>3, <1>4, <1>5, <1>6 DEF StoreInv

\* A fiber or the process moves on and touches nothing.
LEMMA UncutMoves ==
  ASSUME UncutInv, ~CutsPush, UNCHANGED <<data, manifest>>,
         writer'.gen = writer.gen /\ writer'.segs = writer.segs,
         pc'[Indexer] \in WriterOff => writer' = Closed,
         \A a \in Flusher : pc'[a] \in Making \cup Pushing
           => pc'[a] = pc[a] /\ hand'[a] = hand[a] /\ ops'[a] = ops[a] /\ outs'[a] = outs[a],
         pc'[Indexer] \in {"bootpull", "open"} => ~Pending,
         pc'[Indexer] \notin WriterOff => pc[Indexer] \notin WriterOff
  PROVE  UncutInv'
<1>1. DiskInv'
  BY DiskStays DEF UncutInv
<1>2. \A a \in Flusher : MakingInv(a)'
  BY MakingStays DEF UncutInv
<1>3. \A a \in Flusher : pc[a] \in Pushing /\ pc'[a] \notin Pushing => ops[a] = {}
  BY DEF CutsPush
<1>4. StoreInv'
  BY <1>3, StoreStays DEF UncutInv
<1> QED BY <1>1, <1>2, <1>4 DEF UncutInv

Idling == {"off", "idle", "dead", "up", "commit", "merge", "master", "replica"}

\* While one is at work the others write nothing.
LEMMA OthersRest ==
  ASSUME MasterInv, ThreadsOff, Uncrossed, NEW a \in Flusher,
         IF a = Indexer THEN pc[a] # "up" ELSE pc[a] \in Hot
  PROVE  \A b \in Flusher \ {a} : pc[b] \in Idling
<1>1. CASE a = Indexer
  BY <1>1 DEF ThreadsOff, Idling, Flusher
<1>2. CASE a # Indexer
  <2>1. a \in Threads /\ pc[Indexer] = "up"
    BY <1>2 DEF ThreadsOff, Hot, Describing, Flusher
  <2>2. \A b \in Threads \ {a} : pc[b] \notin Hot
    BY <1>2, <2>1, HotLeads DEF Leads
  <2>3. \A b \in Threads : pc[b] \in ThreadPhase
    BY ActorsAssumption DEF MasterInv, TypeOK, SyncTypeOK, Phases, Actor
  <2> QED BY <2>1, <2>2, <2>3 DEF Idling, Hot, Describing, ThreadPhase, FlushPhases, Flusher
<1> QED BY <1>1, <1>2

LEMMA OthersRestNext ==
  ASSUME MasterInv, Uncrossed', NEW a \in Threads, pc'[a] \in Hot, pc[Indexer] = "up",
         \A b \in Flusher \ {a} : pc'[b] = pc[b]
  PROVE  \A b \in Flusher \ {a} : pc[b] \in Idling
<1>1. \A b \in Threads \ {a} : pc[b] \notin Hot
  BY DEF Uncrossed, Crossing, Hot, Flusher
<1>2. \A b \in Threads : pc[b] \in ThreadPhase
  BY ActorsAssumption DEF MasterInv, TypeOK, SyncTypeOK, Phases, Actor
<1> QED BY <1>1, <1>2 DEF Idling, Hot, Describing, ThreadPhase, FlushPhases, Flusher

LEMMA UncutLeaves ==
  ASSUME MasterInv, UncutInv, ~CutsPush, UNCHANGED <<data, manifest>>,
         writer'.gen = writer.gen /\ writer'.segs = writer.segs,
         NEW a \in Threads, NEW x, x \notin Making \cup Pushing, Leave(a, x), pc[Indexer] = "up"
  PROVE  UncutInv'
<1>1. /\ a # Indexer /\ Flusher \subseteq Actor /\ pc \in [Actor -> AnyPhase]
      /\ hand \in [Actor -> Manifest] /\ ops \in [Actor -> SUBSET ChangedFileOp]
      /\ outs \in [Actor -> SUBSET ChangedFileOp] /\ a \in Flusher /\ Indexer \in Actor
  BY ActorsAssumption DEF Flusher, Actor, MasterInv, TypeOK, SyncTypeOK
<1>2. /\ pc'[a] = x /\ pc'[Indexer] = "up"
      /\ \A b \in Flusher \ {a} : pc'[b] = pc[b] /\ hand'[b] = hand[b] /\ ops'[b] = ops[b]
                                  /\ outs'[b] = outs[b]
  BY <1>1 DEF Leave
<1>3. \A b \in Flusher : pc'[b] \in Making \cup Pushing
        => pc'[b] = pc[b] /\ hand'[b] = hand[b] /\ ops'[b] = ops[b] /\ outs'[b] = outs[b]
  BY <1>2
<1> QED BY <1>2, <1>3, UncutMoves DEF WriterOff

\* What holds while a commit is made and described.
LEMMA FlushFacts ==
  ASSUME MasterInv, ThreadsOff, Uncrossed, Uncrossed', NEW a \in Flusher, FlushStep(a),
         a = Indexer \/ pc[a] \in Describing \/ pc'[a] \in Describing
  PROVE  /\ \A b \in Flusher \ {a} : pc[b] \in Idling /\ pc'[b] = pc[b]
         /\ NoPush /\ NoPush'
         /\ pc[Indexer] \notin WriterOff /\ pc'[Indexer] \notin WriterOff
         /\ data'[Remote] = data[Remote] /\ manifest'[Remote] = manifest[Remote]
<1>1. /\ pc[a] \in {"commit", "list", "sizes", "write", "replace", "create", "writing"}
      /\ \E x \in Phases(a) \ Elsewhere : pc' = [pc EXCEPT ![a] = x]
  BY FlushPhase
<1>2. /\ a \in Actor /\ Flusher \subseteq Actor /\ pc \in [Actor -> AnyPhase] /\ Indexer \in Flusher
      /\ \A b \in Flusher : b # Indexer => b \in Threads
  BY DEF Flusher, Actor, MasterInv, TypeOK, SyncTypeOK
<1>3. pc'[a] \notin Elsewhere /\ \A b \in Flusher \ {a} : pc'[b] = pc[b]
  BY <1>1, <1>2
<1>4. \A b \in Flusher \ {a} : pc[b] \in Idling
  <2>1. CASE a = Indexer \/ pc[a] \in Describing
    BY <1>1, <2>1, OthersRest DEF Hot
  <2>2. CASE a # Indexer /\ pc'[a] \in Describing
    <3>1. a \in Threads /\ pc[Indexer] = "up"
      BY <1>1, <1>2, <2>2 DEF ThreadsOff
    <3> QED BY <1>3, <2>2, <3>1, OthersRestNext DEF Hot
  <2> QED BY <2>1, <2>2
<1>5. NoPush /\ NoPush'
  BY <1>1, <1>4, <1>3 DEF NoPush, Pushing, Idling, Elsewhere
<1>6. pc[Indexer] \notin WriterOff /\ pc'[Indexer] \notin WriterOff
  <2>1. CASE a = Indexer
    <3>1. pc[a] \notin WriterOff
      BY <1>1 DEF WriterOff
    <3>2. pc'[a] # "close" => pc'[a] \notin WriterOff
      BY <1>3 DEF Elsewhere, WriterOff
    <3> QED BY <2>1, <3>1, <3>2 DEF WriterOff
  <2>2. CASE a # Indexer
    BY <1>2, <1>4, <1>3, <2>2 DEF Idling, WriterOff
  <2> QED BY <2>1, <2>2
<1>7. data'[Remote] = data[Remote] /\ manifest'[Remote] = manifest[Remote]
  <2>1. data \in [Store -> [FileName -> Blob]] /\ manifest \in [Store -> Manifest]
        /\ Local # Remote /\ Local \in Store /\ Remote \in Store
    BY DEF MasterInv, TypeOK, SyncTypeOK, Store, Local, Remote
  <2> QED BY <2>1 DEF FlushStep, Commit, ListFiles, ReadSizes, FindManifest, DeleteManifest, CreateManifest, CloseManifest
<1> QED BY <1>4, <1>3, <1>5, <1>6, <1>7

LEMMA StoreAfterFlush ==
  ASSUME StoreInv, NoPush, NoPush', pc'[Indexer] \notin WriterOff,
         data'[Remote] = data[Remote], manifest'[Remote] = manifest[Remote], Pending' => Faithful'
  PROVE  StoreInv'
<1>1. Exact(Remote)'
  BY SameRemote DEF StoreInv
<1> QED BY <1>1 DEF StoreInv, NoPush, WriterOff

LEMMA UncutCommit ==
  ASSUME MasterInv, ThreadsOff, Uncrossed, Uncrossed', UncutInv, NEW a \in Flusher, Commit(a), Dirty
  PROVE  UncutInv'
<1> DEFINE g == writer.gen + 1
<1>1. /\ writer \in WriterType /\ data \in [Store -> [FileName -> Blob]]
      /\ {Local, Remote} \subseteq Store /\ Local # Remote /\ a \in Actor
      /\ pc \in [Actor -> AnyPhase] /\ hand \in [Actor -> Manifest]
  BY DEF MasterInv, TypeOK, SyncTypeOK, WriterType, Store, Local, Remote, Actor, Flusher
<1>2. g \in Gen /\ g \in Nat /\ writer.gen \in Nat
  BY <1>1, BoundsAssumption DEF MasterInv, Room, Dirty, WriterType, Gen
<1>3. /\ data' = [data EXCEPT ![Local] = Committed(g)]
      /\ writer' = [writer EXCEPT !.seq = @ + 1, !.gen = g, !.segs = NewSegs(g),
                                  !.buffer = {}, !.merged = FALSE]
      /\ pc' = [pc EXCEPT ![a] = "list"]
      /\ UNCHANGED manifest
  BY DEF Commit
<1>4. DiskInv /\ StoreInv /\ SegmentsAreOld
  BY DEF UncutInv, DiskInv
<1>5. /\ \A b \in Flusher \ {a} : pc[b] \in Idling /\ pc'[b] = pc[b]
      /\ NoPush /\ NoPush'
      /\ pc[Indexer] \notin WriterOff /\ pc'[Indexer] \notin WriterOff
      /\ data'[Remote] = data[Remote] /\ manifest'[Remote] = manifest[Remote]
  <2>1. pc'[a] \in Describing
    BY <1>1, <1>3 DEF Describing
  <2> QED BY <2>1, FlushFacts DEF FlushStep
<1>6. /\ Committed(g)[Segments(g)] = Whole(NewSegs(g))
      /\ NewBody # {} => Committed(g)[Seg(g)] = Whole(NewBody)
      /\ \A h \in Kept : h \in writer.segs /\ Committed(g)[Seg(h)] = data[Local][Seg(h)]
      /\ \A f \in FileName : \/ f = Segments(g) \/ (f = Seg(g) /\ NewBody # {})
                             \/ Committed(g)[f] = NoBlob \/ Committed(g)[f] = data[Local][f]
  <2> HIDE DEF g
  <2> QED BY <1>2, <1>4, CommitWrites DEF g
<1>7. g = writer.gen + 1
  OBVIOUS
<1> HIDE DEF g
<1>8. /\ writer'.segs = NewSegs(g) /\ writer'.gen = g
      /\ data'[Local] = Committed(g) /\ pc'[a] = "list"
  BY <1>1, <1>3 DEF WriterType
<1>9. \A h \in NewSegs(g) : h \in Nat /\ 1 <= h /\ h <= g
  <2>1. \A h \in Kept : h \in Nat /\ 1 <= h /\ h <= writer.gen
    BY <1>1, <1>4, <1>6 DEF SegmentsAreOld, WriterType, Gen
  <2>2. 1 <= g /\ \A h \in Nat : h <= writer.gen => h <= g
    BY <1>2, <1>7
  <2>3. \A h \in NewSegs(g) : h \in Kept \/ h = g
    BY DEF NewSegs
  <2> QED BY <1>2, <2>1, <2>2, <2>3
<1>10. SegmentsAreOld'
  BY <1>8, <1>9 DEF SegmentsAreOld
<1>11. \A f \in CommitFiles' : data'[Local][f].st = "whole"
  <2>1. \A h \in Kept : data[Local][Seg(h)].st = "whole"
    BY <1>4, <1>6 DEF DiskInv, CommitFiles
  <2>2. ASSUME NEW f \in CommitFiles' PROVE f = Segments(g) \/ \E h \in NewSegs(g) : f = Seg(h)
    BY <1>8 DEF CommitFiles
  <2> QED BY <1>6, <1>8, <2>1, <2>2 DEF NewSegs, Whole
<1>12. \A h \in Gen : data'[Local][Segments(h)].body \subseteq 1..h
  <2> SUFFICES ASSUME NEW h \in Gen PROVE Committed(g)[Segments(h)].body \subseteq 1..h
    BY <1>8
  <2>1. Segments(h) \in FileName /\ Segments(h) # Seg(g) /\ (Segments(h) = Segments(g) => h = g)
    BY DEF Segments, Seg, FileName
  <2>2. CASE h = g
    BY <1>2, <1>6, <1>9, <2>2 DEF Whole
  <2>3. CASE h # g
    BY <1>4, <1>6, <2>1, <2>3 DEF DiskInv, NoBlob
  <2> QED BY <2>2, <2>3
<1>13. DiskInv'
  BY <1>4, <1>5, <1>8, <1>10, <1>11, <1>12 DEF DiskInv
<1>14. \A b \in Flusher : MakingInv(b)'
  BY <1>5, <1>8 DEF MakingInv, Idling
<1>15. Pending' => Faithful'
  <2> SUFFICES ASSUME Pending', NEW f \in Listed(manifest[Local])
               PROVE  /\ Present(Local, f)' => /\ data'[Local][f].st = "whole"
                                               /\ SizeOf[data'[Local][f].body] = manifest[Local].files[f]
                      /\ f[2] <= g
    BY <1>3, <1>8 DEF Faithful
  <2>1. Faithful /\ f \in FileName
    BY <1>3, <1>4 DEF StoreInv, Pending, Newer, Listed
  <2>2. f[2] \in Nat /\ f[2] <= writer.gen
    BY <1>5, <2>1 DEF Faithful, FileName, Gen
  <2>3. f[2] <= g /\ f[2] # g
    BY <1>2, <1>7, <2>2
  <2>4. f # Segments(g) /\ f # Seg(g)
    BY <2>3 DEF Segments, Seg
  <2>5. data'[Local][f] = NoBlob \/ data'[Local][f] = data[Local][f]
    BY <1>6, <1>8, <2>1, <2>4
  <2> QED BY <2>1, <2>3, <2>5 DEF Faithful, Present, NoBlob
<1>16. StoreInv'
  BY <1>4, <1>5, <1>15, StoreAfterFlush
<1> QED BY <1>13, <1>14, <1>16 DEF UncutInv

\* createManifest and writeManifest: the files, their sizes, and index.json.
LEMMA UncutDescribe ==
  ASSUME MasterInv, ThreadsOff, Uncrossed, Uncrossed', UncutInv, NEW a \in Flusher,
         ListFiles(a) \/ ReadSizes(a) \/ WritesManifest(a) \/ CloseManifest(a)
  PROVE  UncutInv'
<1>1. /\ a \in Actor /\ {Local, Remote} \subseteq Store /\ Local # Remote
      /\ hand \in [Actor -> Manifest] /\ pc \in [Actor -> AnyPhase]
      /\ manifest \in [Store -> Manifest] /\ writer \in WriterType
  BY DEF MasterInv, TypeOK, SyncTypeOK, WriterType, Store, Local, Remote, Actor, Flusher
<1>2. DiskInv /\ StoreInv /\ SegmentsAreOld /\ MakingInv(a)
  BY DEF UncutInv, DiskInv
<1>3. /\ \A b \in Flusher \ {a} : pc[b] \in Idling /\ pc'[b] = pc[b]
      /\ NoPush /\ NoPush'
      /\ pc[Indexer] \notin WriterOff /\ pc'[Indexer] \notin WriterOff
      /\ data'[Remote] = data[Remote] /\ manifest'[Remote] = manifest[Remote]
  <2>1. pc[a] \in Describing
    BY ManifestWrites DEF ListFiles, ReadSizes, CloseManifest, Describing
  <2> QED BY <2>1, FlushFacts DEF FlushStep, WritesManifest
<1>4. UNCHANGED <<data, writer>>
  BY ManifestWrites DEF ListFiles, ReadSizes, CloseManifest, masterVars
<1>5. CommitFiles' = CommitFiles /\ LocalFiles' = LocalFiles
  BY <1>4, SameDirectory
<1>6. DiskInv'
  BY <1>2, <1>3, <1>4, DiskStays
<1>7. CommitFiles \subseteq FileName
  BY CommitFilesAreFiles DEF MasterInv
<1>8. ASSUME MakingInv(a)', Pending' => Faithful' PROVE UncutInv'
  <2>1. \A b \in Flusher : MakingInv(b)'
    BY <1>3, <1>8 DEF MakingInv, Idling
  <2>2. StoreInv'
    BY <1>2, <1>3, <1>8, StoreAfterFlush
  <2> QED BY <1>6, <2>1, <2>2 DEF UncutInv
<1>9. ASSUME UNCHANGED manifest PROVE Pending' => Faithful'
  <2>1. Pending' => Faithful
    BY <1>2, <1>9 DEF Pending, Newer, StoreInv
  <2>2. Faithful => Faithful'
    BY <1>3, <1>4, <1>9 DEF Faithful, Present
  <2> QED BY <2>1, <2>2
<1>10. CASE ListFiles(a)
  <2>1. pc'[a] = "sizes" /\ hand'[a].files = [f \in FileName |-> IF f \in CommitFiles THEN 1 ELSE 0]
    BY <1>1, <1>10 DEF ListFiles, Manifest
  <2>2. Listed(hand'[a]) = CommitFiles
    BY <1>7, <2>1 DEF Listed
  <2>3. Listed(hand[a])' = CommitFiles'
    BY <1>5, <2>2 DEF Listed
  <2>4. MakingInv(a)'
    BY <2>1, <2>3 DEF MakingInv
  <2> QED BY <1>8, <1>9, <1>10, <2>4 DEF ListFiles
<1>11. CASE ReadSizes(a)
  <2>1. pc[a] = "sizes" /\ Listed(hand[a]) = CommitFiles
    BY <1>2, <1>11 DEF ReadSizes, MakingInv
  <2>2. \A f \in Listed(hand[a]) : Present(Local, f)
    BY <1>2, <2>1 DEF DiskInv, Present
  <2>3. /\ hand' = [hand EXCEPT ![a].files = [f \in FileName |->
             IF f \in Listed(hand[a]) THEN SizeOf[data[Local][f].body] ELSE 0]]
        /\ pc' = [pc EXCEPT ![a] = "write"]
    BY <1>11, <2>2 DEF ReadSizes
  <2>4. pc'[a] = "write" /\ hand'[a].files = LocalFiles
    BY <1>1, <2>1, <2>3 DEF Manifest, LocalFiles
  <2>5. MakingInv(a)'
    BY <1>5, <2>4 DEF MakingInv
  <2> QED BY <1>8, <1>9, <1>11, <2>5 DEF ReadSizes
<1>12. CASE WritesManifest(a)
  <2>1. ASSUME Fail(a) /\ UNCHANGED manifest PROVE UncutInv'
    <3>1. \E x \in {"dead", "close", "idle"} : pc' = [pc EXCEPT ![a] = x]
      <4> DEFINE next == CASE a \in Periodic -> "dead" [] a = Indexer -> "close" [] OTHER -> "idle"
      <4>1. next \in {"dead", "close", "idle"} /\ pc' = [pc EXCEPT ![a] = next]
        BY <2>1, ActorsAssumption, MasterAssumption DEF Fail, Leave
      <4> HIDE DEF next
      <4> QED BY <4>1
    <3>2. MakingInv(a)'
      BY <1>1, <3>1 DEF MakingInv
    <3> QED BY <1>8, <1>9, <2>1, <3>2
  <2>2. ASSUME ~(Fail(a) /\ UNCHANGED manifest) PROVE UncutInv'
    <3>1. hand[a].files = LocalFiles
      BY <1>2, <1>12, ManifestWrites DEF MakingInv
    <3>2. hand'[a] = hand[a] /\ pc'[a] \in {"replace", "create", "writing"}
      BY <1>1, <1>12, <2>2, ManifestWrites
    <3>3. pc'[a] = "writing" => outs'[a] # {}
      <4>1. outs \in [Actor -> SUBSET ChangedFileOp]
        BY DEF MasterInv, TypeOK, SyncTypeOK
      <4> QED BY <1>1, <1>12, <2>2, <4>1
          DEF WritesManifest, FindManifest, DeleteManifest, CreateManifest
    <3>4. MakingInv(a)'
      BY <1>5, <3>1, <3>2, <3>3 DEF MakingInv
    <3>5. UNCHANGED manifest \/ ~Pending'
      BY <1>1, <1>12, <2>2, ManifestWrites DEF Pending, TornManifest, NoManifest
    <3> QED BY <1>8, <1>9, <3>4, <3>5
  <2> QED BY <2>1, <2>2
<1>13. CASE CloseManifest(a)
  <2>1. manifest'[Local] = hand[a] /\ hand[a].files = LocalFiles /\ pc[a] = "writing"
    BY <1>1, <1>2, <1>13 DEF CloseManifest, MakingInv
  <2>2. pc'[a] \notin Making
    <3> DEFINE next == CASE a = Indexer -> "close"
                         [] a \in Periodic -> IF TRUE THEN "master" ELSE "idle"
                         [] OTHER -> IF merging[a] THEN "merge" ELSE "master"
    <3>1. next \in {"close", "merge", "master"}
      OBVIOUS
    <3>2. pc' = [pc EXCEPT ![a] = next]
      BY <1>13 DEF CloseManifest, AfterFlush, Leave
    <3> HIDE DEF next
    <3> QED BY <1>1, <3>1, <3>2 DEF Making
  <2>3. MakingInv(a)'
    BY <2>2 DEF MakingInv, Making
  <2>4. Faithful'
    <3> SUFFICES ASSUME NEW f \in FileName, LocalFiles[f] # 0
                 PROVE  /\ data'[Local][f].st = "whole"
                        /\ SizeOf[data'[Local][f].body] = LocalFiles[f]
                        /\ f[2] <= writer'.gen
      BY <2>1 DEF Faithful, Listed
    <3>1. f \in CommitFiles /\ LocalFiles[f] = SizeOf[data[Local][f].body]
      BY CommitFilesAreFiles DEF MasterInv
    <3>2. f[2] <= writer.gen
      <4>1. \A g \in writer.segs \cup {writer.gen} : g <= writer.gen
        BY <1>1, <1>2 DEF SegmentsAreOld, WriterType
      <4> QED BY <3>1, <4>1 DEF CommitFiles, Seg, Segments
    <3> QED BY <1>2, <1>4, <3>1, <3>2 DEF DiskInv
  <2> QED BY <1>8, <2>3, <2>4
<1> QED BY <1>10, <1>11, <1>12, <1>13

LEMMA UncutFlushStep ==
  ASSUME MasterInv, ThreadsOff, Uncrossed, Uncrossed', UncutInv, ~CutsPush, NEW a \in Flusher, FlushStep(a)
  PROVE  UncutInv'
<1>1. CASE Commit(a) /\ Dirty
  BY <1>1, UncutCommit
<1>2. CASE Commit(a) /\ ~Dirty
  <2>1. AfterFlush(a, FALSE) /\ UNCHANGED <<data, manifest, writer>>
    BY <1>2 DEF Commit
  <2> DEFINE next == CASE a = Indexer -> "close"
                       [] a \in Periodic -> IF FALSE THEN "master" ELSE "idle"
                       [] OTHER -> IF merging[a] THEN "merge" ELSE "master"
  <2>2. next \in {"close", "idle", "merge", "master"}
    OBVIOUS
  <2>3. Leave(a, next)
    BY <2>1 DEF AfterFlush
  <2> HIDE DEF next
  <2>4. CASE a = Indexer
    <3>1. pc'[a] = next
      BY <2>3 DEF Leave, Flusher, Actor, MasterInv, TypeOK, SyncTypeOK
    <3>2. /\ \A b \in Flusher \ {a} : pc[b] \in Idling /\ pc'[b] = pc[b]
          /\ pc[Indexer] \notin WriterOff /\ pc'[Indexer] \notin WriterOff
      BY <2>4, FlushFacts
    <3>3. \A b \in Flusher : pc'[b] \notin Making \cup Pushing
      BY <2>2, <3>1, <3>2 DEF Making, Pushing, Idling
    <3> QED BY <2>1, <3>2, <3>3, UncutMoves DEF WriterOff
  <2>5. CASE a # Indexer
    <3>1. a \in Threads /\ pc[Indexer] = "up"
      BY <1>2, <2>5, ThreadLeavesProcess DEF ThreadStep, Flusher
    <3> QED BY <2>1, <2>2, <2>3, <3>1, UncutLeaves DEF Making, Pushing
  <2> QED BY <2>4, <2>5
<1> QED BY <1>1, <1>2, UncutDescribe DEF FlushStep, WritesManifest

\* One operation of a push: what the directory has of a listed file is as listed.
LEMMA UncutPushStep ==
  ASSUME MasterInv, ThreadsOff, Uncrossed, Uncrossed', UncutInv, NEW a \in Flusher, FileStep(a),
         UNCHANGED masterVars, pc[a] \in Pushing, Src(a) = Local, Dst(a) = Remote
  PROVE  UncutInv'
<1> DEFINE L == manifest[Local]
<1>1. /\ a \in Actor /\ Flusher \subseteq Actor /\ {Local, Remote} \subseteq Store /\ Local # Remote
      /\ data \in [Store -> [FileName -> Blob]] /\ manifest \in [Store -> Manifest]
      /\ ops \in [Actor -> SUBSET ChangedFileOp] /\ outs \in [Actor -> SUBSET ChangedFileOp]
  BY DEF MasterInv, TypeOK, SyncTypeOK, Store, Local, Remote, Actor, Flusher
<1>2. UNCHANGED <<pc, hand, writer>>
  BY <1>1, FileStepMoves DEF masterVars
<1>3. /\ DiskInv /\ StoreInv /\ Faithful
      /\ Copying(L, ops[a], data[Remote], manifest[Remote])
  BY DEF UncutInv, StoreInv, NoPush
<1>4. \A b \in Flusher \ {a} : pc[b] \in Idling
  <2>1. IF a = Indexer THEN pc[a] # "up" ELSE pc[a] \in Hot
    <3>1. Syncing(a) /\ TypeOK
      BY DEF Syncing, MasterInv
    <3> QED BY <3>1, FlusherPlaces DEF Pushing, Hot
  <2> QED BY <2>1, OthersRest
<1>5. \E op \in ops[a] :
        /\ \/ /\ op = Add(MANIFEST_FILE_NAME) /\ UNCHANGED data
              /\ manifest' = [manifest EXCEPT ![Remote] = L]
           \/ /\ op.file \in FileName /\ UNCHANGED manifest
              /\ \E b \in Blob :
                   /\ data' = [data EXCEPT ![Remote][op.file] = b]
                   /\ \/ op.op = "Add" /\ b = data[Local][op.file] /\ Present(Local, op.file)
                      \/ op.op = "Del" /\ b = NoBlob
        /\ Finished(a, op)
  <2>1. CASE CopyFile(a)
    <3>1. PICK op \in ops[a] :
            /\ op.op = "Add" /\ HasSource(a, op)
            /\ IF op.file = MANIFEST_FILE_NAME
               THEN manifest' = [manifest EXCEPT ![Remote] = L] /\ UNCHANGED data
               ELSE /\ data' = [data EXCEPT ![Remote][op.file] = data[Local][op.file]]
                    /\ UNCHANGED manifest
            /\ Finished(a, op)
      BY <2>1 DEF CopyFile, Read
    <3>2. op \in ChangedFileOp
      BY <1>1
    <3>3. CASE op.file = MANIFEST_FILE_NAME
      BY <3>1, <3>2, <3>3, OpForms
    <3>4. CASE op.file # MANIFEST_FILE_NAME
      <4>1. op.file \in FileName /\ Present(Local, op.file)
        BY <3>1, <3>2, <3>4 DEF ChangedFileOp, HasSource
      <4>2. data[Local][op.file] \in Blob
        BY <1>1, <4>1
      <4> QED BY <3>1, <3>4, <4>1, <4>2
    <3> QED BY <3>3, <3>4
  <2>2. CASE DeleteFile(a)
    <3>1. PICK op \in ops[a] :
            /\ op.op = "Del" /\ data' = [data EXCEPT ![Remote][op.file] = NoBlob]
            /\ Finished(a, op) /\ UNCHANGED manifest
      BY <2>2 DEF DeleteFile
    <3>2. op.file \in FileName
      BY <1>3, <3>1 DEF Copying
    <3> QED BY <3>1, <3>2, ValueTypes
  <2> QED BY <2>1, <2>2 DEF FileStep, DeleteOutput, CreateOutput, Emptied
<1>6. PICK op \in ops[a] :
        /\ \/ /\ op = Add(MANIFEST_FILE_NAME) /\ UNCHANGED data
              /\ manifest' = [manifest EXCEPT ![Remote] = L]
           \/ /\ op.file \in FileName /\ UNCHANGED manifest
              /\ \E b \in Blob :
                   /\ data' = [data EXCEPT ![Remote][op.file] = b]
                   /\ \/ op.op = "Add" /\ b = data[Local][op.file] /\ Present(Local, op.file)
                      \/ op.op = "Del" /\ b = NoBlob
        /\ Finished(a, op)
  BY <1>5
<1>7. /\ ops'[a] = ops[a] \ {op}
      /\ \A c \in Flusher \ {a} : outs'[c] = outs[c]
  BY <1>1, <1>6 DEF Finished
<1>8. /\ data'[Local] = data[Local] /\ manifest'[Local] = L
      /\ \A g \in Gen : data'[Remote][Segments(g)].body \subseteq 1..g
      /\ Copying(L, ops[a] \ {op}, data'[Remote], manifest'[Remote])
  <2>1. CASE op = Add(MANIFEST_FILE_NAME) /\ UNCHANGED data
             /\ manifest' = [manifest EXCEPT ![Remote] = L]
    <3>1. manifest'[Remote] = L /\ manifest'[Local] = L
      BY <1>1, <2>1
    <3> QED BY <1>3, <2>1, <3>1, CopyPutsManifest DEF DiskInv
  <2>2. ASSUME op.file \in FileName, UNCHANGED manifest, NEW b \in Blob,
               data' = [data EXCEPT ![Remote][op.file] = b],
               \/ op.op = "Add" /\ b = data[Local][op.file] /\ Present(Local, op.file)
               \/ op.op = "Del" /\ b = NoBlob
        PROVE  /\ data'[Local] = data[Local] /\ manifest'[Local] = L
               /\ \A g \in Gen : data'[Remote][Segments(g)].body \subseteq 1..g
               /\ Copying(L, ops[a] \ {op}, data'[Remote], manifest'[Remote])
    <3>1. /\ data'[Local] = data[Local] /\ data'[Remote][op.file] = b
          /\ \A f \in FileName : f # op.file => data'[Remote][f] = data[Remote][f]
      BY <1>1, <2>2
    <3>2. \A g \in Gen : data'[Remote][Segments(g)].body \subseteq 1..g
      <4> SUFFICES ASSUME NEW g \in Gen PROVE data'[Remote][Segments(g)].body \subseteq 1..g
        OBVIOUS
      <4>1. Segments(g) \in FileName
        BY DEF Segments, FileName
      <4>2. CASE Segments(g) = op.file
        BY <1>3, <2>2, <3>1, <4>1, <4>2 DEF DiskInv, NoBlob
      <4>3. CASE Segments(g) # op.file
        BY <1>3, <3>1, <4>1, <4>3 DEF DiskInv
      <4> QED BY <4>2, <4>3
    <3>3. /\ op.op = "Add" => b.st = "whole" /\ SizeOf[b.body] = L.files[op.file]
          /\ op.op = "Del" => b.st = "absent"
      <4>1. op.op = "Add" => op.file \in Listed(L)
        BY <1>3, <2>2, OpsDiffer DEF Copying
      <4> QED BY <1>3, <2>2, <4>1 DEF Faithful, NoBlob
    <3>4. Copying(L, ops[a] \ {op}, data'[Remote], manifest[Remote])
      BY <1>1, <1>3, <2>2, <3>1, <3>3, CopyPutsFile
    <3> QED BY <2>2, <3>1, <3>2, <3>4
  <2> QED BY <1>6, <2>1, <2>2
<1>9. CommitFiles' = CommitFiles /\ LocalFiles' = LocalFiles
  BY <1>2, <1>8, SameDirectory
<1>10. DiskInv'
  BY <1>2, <1>3, <1>8, <1>9 DEF DiskInv, SegmentsAreOld
<1>11. \A b \in Flusher : MakingInv(b)'
  <2>1. pc[a] \notin Making
    BY DEF Pushing, Making
  <2> QED BY <1>2, <1>4, <2>1 DEF MakingInv, Making, Idling
<1>12. StoreInv'
  <2>1. Faithful'
    BY <1>2, <1>3, <1>8 DEF Faithful, Present
  <2>2. \A b \in Flusher : pc'[b] \in Pushing
          => Copying(manifest'[Local], ops'[b], data'[Remote], manifest'[Remote])
    <3>1. Copying(manifest'[Local], ops'[a], data'[Remote], manifest'[Remote])
      BY <1>7, <1>8
    <3>2. \A b \in Flusher \ {a} : pc'[b] \notin Pushing
      BY <1>2, <1>4 DEF Idling, Pushing
    <3> QED BY <3>1, <3>2
  <2>3. ~NoPush' /\ pc'[Indexer] \notin {"bootpull", "open"}
    <3>1. pc[Indexer] \notin {"bootpull", "open"}
      BY <1>4 DEF Idling, Pushing, Flusher
    <3> QED BY <1>2, <3>1 DEF NoPush
  <2> QED BY <2>1, <2>2, <2>3 DEF StoreInv
<1> QED BY <1>10, <1>11, <1>12 DEF UncutInv

\* A push begins: from an exact copy of an older commit.
LEMMA UncutPushStarts ==
  ASSUME MasterInv, UncutInv, NEW a \in Flusher, NEW x \in Pushing,
         Start(a, x, manifest[Local], manifest[Remote]), Pending,
         pc[a] \notin Pushing, \A b \in Flusher \ {a} : pc[b] \in Idling,
         UNCHANGED <<data, manifest, writer>>,
         pc[Indexer] \in WriterOff <=> pc'[Indexer] \in WriterOff
  PROVE  UncutInv'
<1>1. /\ a \in Actor /\ Flusher \subseteq Actor /\ pc \in [Actor -> AnyPhase]
      /\ ops \in [Actor -> SUBSET ChangedFileOp]
  BY DEF MasterInv, TypeOK, SyncTypeOK, Actor, Flusher
<1>2. /\ pc'[a] = x /\ ops'[a] = Diff(manifest[Local], manifest[Remote])
      /\ \A b \in Flusher \ {a} : pc'[b] = pc[b]
  BY <1>1 DEF Start
<1>3. NoPush /\ DiskInv /\ StoreInv
  BY DEF NoPush, UncutInv, Idling, Pushing
<1>4. Copying(manifest[Local], ops'[a], data[Remote], manifest[Remote])
  BY <1>2, <1>3, CopyStarts DEF StoreInv, Exact
<1>5. DiskInv'
  BY <1>3, DiskStays DEF DiskInv
<1>6. \A b \in Flusher : MakingInv(b)'
  BY <1>2 DEF MakingInv, Idling, Pushing
<1>7. Faithful'
  BY <1>3 DEF StoreInv, Faithful, Present
<1>8. \A b \in Flusher : pc'[b] \in Pushing
          => Copying(manifest'[Local], ops'[b], data'[Remote], manifest'[Remote])
  BY <1>2, <1>4 DEF Idling, Pushing
<1>9. ~NoPush' /\ pc'[Indexer] \notin {"bootpull", "open"}
  <2>1. CASE a = Indexer
    BY <1>2, <2>1 DEF NoPush, Pushing
  <2>2. CASE a # Indexer
    BY <1>2, <2>2 DEF NoPush, Idling, Flusher
  <2> QED BY <2>1, <2>2
<1>10. StoreInv'
  BY <1>7, <1>8, <1>9 DEF StoreInv
<1> QED BY <1>5, <1>6, <1>10 DEF UncutInv

LEMMA UncutThreadStep ==
  ASSUME MasterInv, ThreadsOff, Uncrossed, Uncrossed', UncutInv, ~CutsPush,
         NEW a \in Threads, SeqnumInv(a), ThreadStep(a) \/ Request(a)
  PROVE  UncutInv'
<1>1. /\ a \in Flusher /\ a # Indexer /\ a \in Actor /\ pc \in [Actor -> AnyPhase]
      /\ hand \in [Actor -> Manifest] /\ Indexer \in Actor
  BY ActorsAssumption, ProcessPhases DEF Flusher, Actor, MasterInv, TypeOK, SyncTypeOK
<1>2. pc[Indexer] = "up" /\ pc'[Indexer] = "up"
  BY ThreadLeavesProcess
<1>3. \A b \in Flusher \ {a} : pc'[b] = pc[b] /\ hand'[b] = hand[b] /\ ops'[b] = ops[b]
  BY ThreadWorks DEF MasterInv
<1>4. CASE Tick(a) \/ Request(a) \/ ForceMerge(a)
  <2>1. /\ UNCHANGED <<data, manifest>> /\ writer'.gen = writer.gen /\ writer'.segs = writer.segs
        /\ \E x \in {"commit", "merge", "master"} : Leave(a, x)
    BY <1>4 DEF Tick, Request, ForceMerge, MergeSegments, masterVars, MasterInv, TypeOK
  <2> QED BY <1>2, <2>1, UncutLeaves DEF Making, Pushing
<1>5. ASSUME UNCHANGED <<data, manifest, writer>>, Succeed(a) \/ Fail(a)
      PROVE  UncutInv'
  <2>1. \E x \in {"dead", "idle"} : Leave(a, x)
    BY <1>1, <1>5 DEF Fail, Succeed
  <2> QED BY <1>2, <1>5, <2>1, UncutLeaves DEF Making, Pushing
<1>6. CASE FlushStep(a)
  BY <1>1, <1>6, UncutFlushStep
<1>7. CASE ReadMaster(a)
  <2>1. CASE Fail(a)
    BY <1>5, <1>7, <2>1 DEF ReadMaster
  <2>2. CASE ~Fail(a)
    <3>1. pc'[a] = "replica" /\ UNCHANGED <<data, manifest, writer, outs>>
      BY <1>1, <1>7, <2>2 DEF ReadMaster
    <3>2. \A b \in Flusher : pc'[b] \in Making \cup Pushing
            => pc'[b] = pc[b] /\ hand'[b] = hand[b] /\ ops'[b] = ops[b] /\ outs'[b] = outs[b]
      BY <1>3, <3>1 DEF Making, Pushing
    <3> QED BY <1>2, <3>1, <3>2, UncutMoves DEF WriterOff
  <2> QED BY <2>1, <2>2
<1>8. CASE ReadReplica(a)
  <2>1. CASE Fail(a) \/ Succeed(a)
    BY <1>5, <1>8, <2>1 DEF ReadReplica
  <2>2. CASE ~Fail(a) /\ ~Succeed(a)
    <3>1. /\ pc[a] = "replica" /\ Newer(hand[a], manifest[Remote])
          /\ Start(a, "push", hand[a], manifest[Remote])
          /\ UNCHANGED <<data, manifest, writer>>
      BY <1>8, <2>2 DEF ReadReplica
    <3>2. hand[a] = manifest[Local] /\ manifest[Local].st = "whole"
      BY <3>1 DEF SeqnumInv
    <3>3. Pending /\ Start(a, "push", manifest[Local], manifest[Remote])
      BY <3>1, <3>2 DEF Pending
    <3>4. \A b \in Flusher \ {a} : pc[b] \in Idling
      <4>1. pc'[a] = "push"
        BY <1>1, <3>1 DEF Start
      <4> QED BY <1>1, <1>2, <1>3, <4>1, OthersRestNext DEF Hot
    <3>5. "push" \in Pushing /\ pc[a] \notin Pushing
      BY <3>1 DEF Pushing
    <3> QED BY <1>1, <1>2, <3>1, <3>3, <3>4, <3>5, UncutPushStarts
  <2> QED BY <2>1, <2>2
<1>9. CASE PushFile(a)
  <2>1. FileStep(a) /\ UNCHANGED masterVars /\ Syncing(a)
    BY <1>1, <1>9, FileStepMoves DEF PushFile
  <2>2. Src(a) = Local /\ Dst(a) = Remote /\ pc[a] = "push"
    BY <1>1, <2>1, FlusherPlaces DEF MasterInv
  <2> QED BY <1>1, <2>1, <2>2, UncutPushStep DEF Pushing
<1>10. CASE PushDone(a) \/ PushFails(a)
  BY <1>5, <1>10 DEF PushDone, PushFails
<1> QED BY <1>4, <1>6, <1>7, <1>8, <1>9, <1>10 DEF ThreadStep

\* What is left of a push that was not cut off is an exact copy.
LEMMA UncutLeavesExact ==
  ASSUME StoreInv, ~CutsPush, NoPush', data'[Remote] = data[Remote],
         manifest'[Remote] = manifest[Remote]
  PROVE  Exact(Remote)'
<1>1. Exact(Remote)' <=> Exact(Remote)
  BY SameRemote
<1>2. CASE NoPush
  BY <1>1, <1>2 DEF StoreInv
<1>3. ASSUME NEW a \in Flusher, pc[a] \in Pushing PROVE Exact(Remote)
  <2>1. ops[a] = {}
    BY <1>3 DEF CutsPush, NoPush
  <2>2. Copying(manifest[Local], {}, data[Remote], manifest[Remote])
    BY <1>3, <2>1 DEF StoreInv
  <2> QED BY <2>2, CopyEnds DEF Exact
<1> QED BY <1>1, <1>2, <1>3 DEF NoPush

\* The process ends.
LEMMA UncutStops ==
  ASSUME UncutInv, ~CutsPush, UNCHANGED <<data, manifest>>, writer' = Closed,
         pc'[Indexer] = "down", \A a \in Flusher : pc'[a] \notin Making \cup Pushing
  PROVE  UncutInv'
<1>1. DiskInv'
  BY DiskStays DEF UncutInv, Closed
<1>2. \A a \in Flusher : MakingInv(a)'
  BY DEF MakingInv, Making
<1>3. \A a \in Flusher : pc[a] \in Pushing /\ pc'[a] \notin Pushing => ops[a] = {}
  BY DEF CutsPush
<1>4. StoreInv'
  BY <1>3, StoreStays DEF UncutInv, WriterOff
<1> QED BY <1>1, <1>2, <1>4 DEF UncutInv

LEMMA UncutLosePod ==
  ASSUME MasterInv, UncutInv, ~CutsPush, LosePod
  PROVE  UncutInv'
<1>1. /\ {Local, Remote} \subseteq Store /\ Local # Remote
      /\ data \in [Store -> [FileName -> Blob]] /\ manifest \in [Store -> Manifest]
  BY DEF MasterInv, TypeOK, SyncTypeOK, Store, Local, Remote
<1>2. /\ \A f \in FileName : data'[Local][f] = NoBlob
      /\ data'[Remote] = data[Remote] /\ manifest'[Remote] = manifest[Remote]
      /\ manifest'[Local] = NoManifest /\ writer' = Closed
  BY <1>1 DEF LosePod
<1>3. \A a \in Flusher : pc'[a] \in {"down", "off"}
  BY ActorsAssumption DEF LosePod, Interrupt, Flusher, Actor
<1>4. DiskInv'
  <2>1. CommitFiles' = {} /\ SegmentsAreOld'
    BY <1>2 DEF CommitFiles, SegmentsAreOld, Closed
  <2>2. \A g \in Gen : Segments(g) \in FileName
    BY DEF Segments, FileName
  <2> QED BY <1>2, <2>1, <2>2 DEF UncutInv, DiskInv, NoBlob
<1>5. NoPush' /\ \A a \in Flusher : MakingInv(a)'
  BY <1>3 DEF NoPush, Pushing, MakingInv
<1>6. Exact(Remote)'
  BY <1>2, <1>5, UncutLeavesExact DEF UncutInv
<1>7. ~Pending'
  BY <1>2 DEF Pending, NoManifest
<1> QED BY <1>4, <1>5, <1>6, <1>7 DEF UncutInv, StoreInv, NoPush

LEMMA UncutFault ==
  ASSUME MasterInv, UncutInv, ~CutsPush, Fault
  PROVE  UncutInv'
<1>1. CASE Shutdown
  <2>1. PICK next \in {"commit", "close"} : Interrupt(next)
    BY <1>1 DEF Shutdown
  <2>2. pc'[Indexer] = next /\ \A a \in Flusher : pc'[a] \in {next, "off"}
    BY <2>1, ActorsAssumption DEF Interrupt, Flusher, Actor
  <2>3. \A a \in Flusher : pc'[a] \notin Making \cup Pushing
    BY <2>2 DEF Making, Pushing
  <2>4. /\ UNCHANGED <<data, manifest, writer>>
        /\ pc[Indexer] \notin WriterOff /\ pc'[Indexer] \notin WriterOff
    BY <1>1, <2>2 DEF Shutdown, WriterOff
  <2> QED BY <2>3, <2>4, UncutMoves DEF WriterOff
<1>2. CASE Kill
  <2>1. pc'[Indexer] = "down" /\ \A a \in Flusher : pc'[a] \in {"down", "off"}
    BY <1>2, ActorsAssumption DEF Kill, Interrupt, Flusher, Actor
  <2>2. \A a \in Flusher : pc'[a] \notin Making \cup Pushing
    BY <2>1 DEF Making, Pushing
  <2> QED BY <1>2, <2>1, <2>2, UncutStops DEF Kill
<1> QED BY <1>1, <1>2, UncutLosePod DEF Fault

\* The process comes to an end of its start or of its life, and touches nothing.
LEMMA UncutProcessLeaves ==
  ASSUME MasterInv, ThreadsOff, UncutInv, ~CutsPush, UNCHANGED <<data, manifest, writer>>,
         pc[Indexer] \in WriterOff, NEW x \in {"down", "open", "bootpull"},
         pc' = [pc EXCEPT ![Indexer] = x], x # "down" => ~Pending
  PROVE  UncutInv'
<1>1. /\ pc'[Indexer] = x /\ x \in WriterOff
      /\ \A b \in Flusher : b # Indexer => pc'[b] = "off"
  BY ProcessPhases DEF ThreadsOff, Flusher, Actor, WriterOff, MasterInv, TypeOK, SyncTypeOK
<1>2. \A b \in Flusher : pc'[b] \notin Making \cup Pushing
  BY <1>1 DEF Making, Pushing
<1>3. writer' = Closed
  BY DEF UncutInv, DiskInv
<1> QED BY <1>1, <1>2, <1>3, UncutMoves

LEMMA UncutBoot ==
  ASSUME MasterInv, ThreadsOff, UncutInv, ~CutsPush, Boot
  PROVE  UncutInv'
<1>1. /\ pc[Indexer] = "down" /\ UNCHANGED <<data, manifest, writer>>
      /\ Indexer \in Flusher /\ Home(Indexer) = Local /\ pc[Indexer] \in WriterOff
      /\ manifest[Local].seqnum \in Nat /\ manifest[Remote].seqnum \in Nat
      /\ pc \in [Actor -> AnyPhase] /\ Indexer \in Actor
  BY ActorsAssumption, ProcessPhases
     DEF Boot, FromRemote, Home, WriterOff, MasterInv, TypeOK, SyncTypeOK, Manifest, Store
<1>2. CASE Leave(Indexer, "down")
  BY <1>1, <1>2, UncutProcessLeaves DEF Leave
<1>3. CASE /\ manifest[Local].st = manifest[Remote].st
           /\ manifest[Local].seqnum = manifest[Remote].seqnum
           /\ Leave(Indexer, "open")
  <2>1. ~Pending
    BY <1>1, <1>3 DEF Pending, Newer
  <2> QED BY <1>1, <1>3, <2>1, UncutProcessLeaves DEF Leave
<1>4. CASE /\ manifest[Remote].st = "whole"
           /\ manifest[Local].st = "absent" \/ manifest[Local].seqnum < manifest[Remote].seqnum
           /\ Start(Indexer, "bootpull", manifest[Remote], manifest[Local])
  <2>1. ~Pending
    BY <1>1, <1>4 DEF Pending, Newer
  <2> QED BY <1>1, <1>4, <2>1, UncutProcessLeaves DEF Start
<1>5. CASE /\ manifest[Local].st = "whole"
           /\ manifest[Remote].st = "absent" \/ manifest[Local].seqnum > manifest[Remote].seqnum
           /\ Start(Indexer, "bootpush", manifest[Local], manifest[Remote])
  <2>1. Pending
    BY <1>5 DEF Pending, Newer
  <2>2. \A b \in Flusher \ {Indexer} : pc[b] \in Idling
    BY <1>1 DEF ThreadsOff, Flusher, Idling
  <2>3. pc'[Indexer] = "bootpush"
    BY <1>1, <1>5 DEF Start
  <2>4. "bootpush" \in Pushing /\ pc[Indexer] \notin Pushing /\ pc'[Indexer] \in WriterOff
    BY <1>1, <2>3 DEF Pushing, WriterOff
  <2> QED BY <1>1, <1>5, <2>1, <2>2, <2>4, UncutPushStarts
<1> QED BY <1>1, <1>2, <1>3, <1>4, <1>5 DEF Boot, FromRemote

LEMMA UncutBootEnds ==
  ASSUME MasterInv, ThreadsOff, UncutInv, ~CutsPush, NEW t \in Threads, SeqnumInv(t),
         BootDone \/ BootFails
  PROVE  UncutInv'
<1>1. /\ UNCHANGED <<data, manifest, writer>> /\ Indexer \in Flusher
      /\ pc \in [Actor -> AnyPhase] /\ Indexer \in Actor
      /\ manifest[Remote].seqnum \in Nat
  BY ProcessPhases DEF BootDone, BootFails, masterVars, MasterInv, TypeOK, SyncTypeOK, Manifest, Store
<1>2. CASE BootFails
  <2>1. pc[Indexer] \in {"bootpull", "bootpush"}
    BY <1>1, <1>2, FlusherPlaces DEF BootFails, FileMissing, MasterInv
  <2> QED BY <1>1, <1>2, <2>1, UncutProcessLeaves DEF BootFails, Leave, WriterOff
<1>3. CASE BootDone
  <2>1. pc[Indexer] \in {"bootpull", "bootpush"} /\ ops[Indexer] = {}
    BY <1>3 DEF BootDone
  <2>2. ~Pending
    <3>1. CASE pc[Indexer] = "bootpull"
      BY <3>1 DEF UncutInv, StoreInv
    <3>2. CASE pc[Indexer] = "bootpush"
      <4>1. Copying(manifest[Local], {}, data[Remote], manifest[Remote])
        BY <1>1, <2>1, <3>2 DEF UncutInv, StoreInv, Pushing
      <4>2. manifest[Remote] = manifest[Local] /\ manifest[Local].st = "whole"
        BY <3>2, <4>1, CopyEnds DEF SeqnumInv, Ahead
      <4> QED BY <1>1, <4>2 DEF Pending, Newer
    <3> QED BY <2>1, <3>1, <3>2
  <2> QED BY <1>1, <1>3, <2>1, <2>2, UncutProcessLeaves DEF BootDone, Leave, WriterOff
<1> QED BY <1>2, <1>3

\* One operation of the copy that a start makes of the object store.
LEMMA UncutPullStep ==
  ASSUME MasterInv, ThreadsOff, UncutInv, FileStep(Indexer), UNCHANGED masterVars,
         pc[Indexer] = "bootpull", Src(Indexer) = Remote, Dst(Indexer) = Local
  PROVE  UncutInv'
<1>1. /\ Indexer \in Actor /\ {Local, Remote} \subseteq Store /\ Local # Remote
      /\ data \in [Store -> [FileName -> Blob]] /\ manifest \in [Store -> Manifest]
  BY ProcessPhases DEF MasterInv, TypeOK, SyncTypeOK, Store, Local, Remote
<1>2. UNCHANGED <<pc, hand, writer>>
  BY <1>1, FileStepMoves DEF masterVars
<1>3. /\ DiskInv /\ StoreInv /\ ~Pending /\ writer = Closed
      /\ \A a \in Flusher : a # Indexer => pc[a] = "off"
  BY DEF UncutInv, StoreInv, DiskInv, WriterOff, ThreadsOff, Flusher
<1>4. \/ UNCHANGED data
      \/ \E f, b : /\ data' = [data EXCEPT ![Local][f] = b]
                   /\ b \in {TornBlob, NoBlob, data[Remote][f]}
  BY DEF FileStep, DeleteOutput, CreateOutput, Emptied, CopyFile, DeleteFile, Read
<1>5. /\ data'[Remote] = data[Remote]
      /\ \A f \in FileName : data'[Local][f] \in {data[Local][f], TornBlob, NoBlob, data[Remote][f]}
  BY <1>1, <1>4
<1>6. /\ manifest'[Remote] = manifest[Remote]
      /\ \/ manifest'[Local] \in {manifest[Local], NoManifest, TornManifest}
         \/ manifest'[Local] = manifest[Remote] /\ manifest[Remote].st # "absent"
  <2>1. CASE DeleteOutput(Indexer) \/ CreateOutput(Indexer)
    BY <1>1, <2>1 DEF DeleteOutput, CreateOutput, Emptied
  <2>2. CASE CopyFile(Indexer)
    BY <1>1, <2>2 DEF CopyFile, HasSource
  <2>3. CASE DeleteFile(Indexer)
    BY <2>3 DEF DeleteFile
  <2> QED BY <2>1, <2>2, <2>3 DEF FileStep
<1>7. DiskInv'
  <2>1. CommitFiles' = {} /\ SegmentsAreOld'
    BY <1>2, <1>3 DEF CommitFiles, SegmentsAreOld, Closed
  <2>2. \A s \in {Local, Remote}, g \in Gen : data'[s][Segments(g)].body \subseteq 1..g
    <3> SUFFICES ASSUME NEW g \in Gen PROVE data'[Local][Segments(g)].body \subseteq 1..g
      BY <1>3, <1>5 DEF DiskInv
    <3>1. Segments(g) \in FileName
      BY DEF Segments, FileName
    <3>2. data'[Local][Segments(g)] \in {data[Local][Segments(g)], TornBlob, NoBlob, data[Remote][Segments(g)]}
      BY <1>5, <3>1
    <3> QED BY <1>3, <3>2 DEF DiskInv, NoBlob, TornBlob
  <2> QED BY <1>2, <1>3, <2>1, <2>2 DEF DiskInv
<1>8. NoPush' /\ \A a \in Flusher : MakingInv(a)'
  BY <1>2, <1>3 DEF NoPush, Pushing, MakingInv
<1>9. Exact(Remote)'
  <2>1. NoPush
    BY <1>3 DEF NoPush, Pushing
  <2> QED BY <1>3, <1>5, <1>6, <2>1, SameRemote DEF StoreInv
<1>10. ~Pending'
  <2>1. CASE manifest'[Local] = manifest[Local]
    BY <1>3, <1>6, <2>1 DEF Pending, Newer
  <2>2. CASE manifest'[Local] \in {NoManifest, TornManifest}
    BY <2>2 DEF Pending, NoManifest, TornManifest
  <2>3. CASE manifest'[Local] = manifest[Remote] /\ manifest[Remote].st # "absent"
    <3>1. manifest[Remote].seqnum \in Nat
      BY <1>1 DEF Manifest
    <3> QED BY <1>6, <2>3, <3>1 DEF Pending, Newer
  <2> QED BY <1>6, <2>1, <2>2, <2>3
<1> QED BY <1>7, <1>8, <1>9, <1>10 DEF UncutInv, StoreInv, NoPush

\* A writer opens on what the last life, or the pull, has left in the directory.
LEMMA UncutOpenWriter ==
  ASSUME MasterInv, ThreadsOff, UncutInv, ~CutsPush, OpenWriter
  PROVE  UncutInv'
<1> DEFINE up == [a \in Actor |->
             CASE a = Indexer -> "up" [] a \in Threads -> "idle" [] OTHER -> pc[a]]
           kept == [f \in FileName |->
             IF f = Segments(LastGen) \/ f \in {Seg(g) : g \in LastSegs}
             THEN data[Local][f] ELSE NoBlob]
<1>1. /\ pc[Indexer] = "open" /\ UNCHANGED manifest
      /\ {Local, Remote} \subseteq Store /\ Local # Remote
      /\ data \in [Store -> [FileName -> Blob]]
  BY DEF OpenWriter, MasterInv, TypeOK, SyncTypeOK, Store, Local, Remote
<1>2. /\ DiskInv /\ StoreInv /\ ~Pending /\ writer = Closed
      /\ \A a \in Flusher : a # Indexer => pc[a] = "off"
  BY <1>1 DEF UncutInv, StoreInv, DiskInv, WriterOff, ThreadsOff, Flusher
<1>3. CASE Leave(Indexer, "down") /\ UNCHANGED <<data, writer>>
  BY <1>1, <1>3, UncutProcessLeaves DEF Leave, WriterOff
<1>4. pc' = up => \A a \in Flusher : pc'[a] \in {"up", "idle"}
  BY ActorsAssumption DEF Flusher, Actor
<1>5. pc' = up => pc'[Indexer] = "up"
  BY ActorsAssumption DEF Actor
<1>6. /\ \A f \in FileName : kept[f] \in {data[Local][f], NoBlob}
      /\ \A f \in FileName : f = Segments(LastGen) \/ f \in {Seg(g) : g \in LastSegs}
                               => kept[f] = data[Local][f]
  OBVIOUS
<1>7. \/ Leave(Indexer, "down") /\ UNCHANGED <<data, writer>>
      \/ /\ pc' = up /\ UNCHANGED data /\ writer' = [Closed EXCEPT !.open = TRUE]
      \/ /\ Generations # {} /\ Readable /\ pc' = up
         /\ writer' = [Closed EXCEPT !.open = TRUE, !.gen = LastGen, !.segs = LastSegs]
         /\ data' = [data EXCEPT ![Local] = kept]
  BY DEF OpenWriter
<1> HIDE DEF up, kept
<1>8. ASSUME pc' = up, data'[Remote] = data[Remote], DiskInv' PROVE UncutInv'
  <2>1. NoPush' /\ \A a \in Flusher : MakingInv(a)'
    BY <1>4, <1>8 DEF NoPush, Pushing, MakingInv
  <2>2. Exact(Remote)'
    BY <1>1, <1>2, <1>8, <2>1, UncutLeavesExact
  <2>3. ~Pending'
    BY <1>1, <1>2 DEF Pending, Newer
  <2> QED BY <1>8, <2>1, <2>2, <2>3 DEF UncutInv, StoreInv, NoPush
<1>9. CASE pc' = up /\ UNCHANGED data /\ writer' = [Closed EXCEPT !.open = TRUE]
  <2>1. writer'.gen = 0 /\ writer'.segs = {}
    BY <1>9 DEF Closed
  <2>2. DiskInv'
    BY <1>2, <1>5, <1>9, <2>1, DiskStays DEF WriterOff
  <2> QED BY <1>8, <1>9, <2>2
<1>10. CASE /\ Generations # {} /\ Readable /\ pc' = up
            /\ writer' = [Closed EXCEPT !.open = TRUE, !.gen = LastGen, !.segs = LastSegs]
            /\ data' = [data EXCEPT ![Local] = kept]
  <2>1. /\ data'[Remote] = data[Remote] /\ data'[Local] = kept
        /\ writer'.gen = LastGen /\ writer'.segs = LastSegs
    BY <1>1, <1>10 DEF Closed
  <2>2. LastGen \in Gen
    <3>1. \E g \in Generations : \A h \in Generations : h <= g
      BY <1>10, LargestGen DEF Generations
    <3> QED BY <3>1 DEF LastGen, Generations
  <2>3. LastSegs \subseteq 1..LastGen
    BY <1>2, <2>2 DEF DiskInv, LastSegs
  <2> LastGen \in Nat /\ MaxGen \in Nat /\ LastGen <= MaxGen
    BY <2>2, BoundsAssumption DEF Gen
  <2> \A g \in LastSegs : g \in Gen /\ g <= LastGen
    BY <2>3 DEF Gen
  <2>4. SegmentsAreOld'
    BY <2>1 DEF SegmentsAreOld
  <2>5. \A f \in CommitFiles' : data'[Local][f].st = "whole"
    <3> SUFFICES ASSUME NEW f \in CommitFiles' PROVE kept[f].st = "whole"
      BY <2>1
    <3>1. f = Segments(LastGen) \/ f \in {Seg(g) : g \in LastSegs}
      BY <2>1 DEF CommitFiles
    <3>2. f \in FileName
      BY <2>2, <3>1 DEF Seg, Segments, FileName
    <3>3. data[Local][f].st = "whole"
      BY <1>10, <3>1 DEF Readable
    <3> QED BY <1>6, <3>1, <3>2, <3>3
  <2>6. \A s \in {Local, Remote}, g \in Gen : data'[s][Segments(g)].body \subseteq 1..g
    <3> SUFFICES ASSUME NEW g \in Gen PROVE kept[Segments(g)].body \subseteq 1..g
      BY <1>2, <2>1 DEF DiskInv
    <3>1. Segments(g) \in FileName
      BY DEF Segments, FileName
    <3>2. kept[Segments(g)] \in {data[Local][Segments(g)], NoBlob}
      BY <1>6, <3>1
    <3> QED BY <1>2, <3>2 DEF DiskInv, NoBlob
  <2>7. DiskInv'
    BY <1>5, <1>10, <2>4, <2>5, <2>6 DEF DiskInv, WriterOff
  <2> QED BY <1>8, <1>10, <2>1, <2>7
<1> QED BY <1>3, <1>7, <1>9, <1>10

LEMMA UncutProcessStep ==
  ASSUME MasterInv, ThreadsOff, Uncrossed, Uncrossed', UncutInv, ~CutsPush,
         NEW t \in Threads, SeqnumInv(t), ProcessStep
  PROVE  UncutInv'
<1>1. Indexer \in Flusher /\ Indexer \in Actor /\ pc \in [Actor -> AnyPhase]
  BY ProcessPhases DEF MasterInv, TypeOK, SyncTypeOK
<1>2. CASE BootStep
  <2>1. FileStep(Indexer) /\ UNCHANGED masterVars /\ Syncing(Indexer)
    BY <1>1, <1>2, FileStepMoves DEF BootStep
  <2>2. CASE pc[Indexer] = "bootpush" /\ Src(Indexer) = Local /\ Dst(Indexer) = Remote
    BY <1>1, <2>1, <2>2, UncutPushStep DEF Pushing
  <2>3. CASE pc[Indexer] = "bootpull" /\ Src(Indexer) = Remote /\ Dst(Indexer) = Local
    BY <2>1, <2>3, UncutPullStep
  <2> QED BY <1>1, <2>1, <2>2, <2>3, FlusherPlaces DEF MasterInv
<1>3. CASE CloseWriter
  <2>1. pc[Indexer] = "close" /\ pc'[Indexer] = "down"
    BY <1>1, <1>3 DEF CloseWriter, Leave
  <2>2. \A b \in Flusher : b # Indexer => pc'[b] = "off"
    BY <1>1, <1>3, <2>1 DEF CloseWriter, Leave, ThreadsOff, Flusher, Actor
  <2>3. \A b \in Flusher : pc'[b] \notin Making \cup Pushing
    BY <2>1, <2>2 DEF Making, Pushing
  <2> QED BY <1>3, <2>1, <2>3, UncutStops DEF CloseWriter
<1> QED BY <1>1, <1>2, <1>3, UncutBoot, UncutBootEnds, UncutOpenWriter, UncutFlushStep DEF ProcessStep

LEMMA UncutStutters ==
  ASSUME UNCHANGED vars, UncutInv
  PROVE  UncutInv'
<1>1. UNCHANGED <<data, manifest, pc, hand, ops, outs, writer>>
  BY DEF vars, syncVars, masterVars
<1>2. ~CutsPush
  BY <1>1 DEF CutsPush
<1> QED BY <1>1, <1>2, UncutMoves DEF UncutInv, DiskInv, StoreInv

LEMMA UncutStep ==
  ASSUME Threads # {}, MasterInv, ThreadsOff, \A t \in Threads : SeqnumInv(t), Uncrossed, Uncrossed',
         UncutInv, ~CutsPush, [Next]_vars
  PROVE  UncutInv'
<1>1. CASE AddDocument \/ BackgroundMerge \/ UNCHANGED vars
  <2>1. /\ UNCHANGED <<data, manifest, pc, hand, ops, outs>>
        /\ writer'.gen = writer.gen /\ writer'.segs = writer.segs
    BY <1>1 DEF AddDocument, BackgroundMerge, MergeSegments, vars, syncVars, masterVars,
                MasterInv, TypeOK
  <2>2. pc'[Indexer] \in WriterOff => writer' = Closed
    <3>1. AddDocument \/ BackgroundMerge => pc[Indexer] = "up"
      BY DEF AddDocument, BackgroundMerge
    <3>2. UNCHANGED vars => writer' = writer
      BY DEF vars, masterVars
    <3> QED BY <1>1, <2>1, <3>1, <3>2 DEF WriterOff, UncutInv, DiskInv
  <2> QED BY <2>1, <2>2, UncutMoves DEF UncutInv, StoreInv
<1>2. CASE \E a \in Threads : ThreadStep(a) \/ Request(a)
  BY <1>2, UncutThreadStep
<1>3. CASE ProcessStep
  BY <1>3, UncutProcessStep
<1>4. CASE Fault
  BY <1>4, UncutFault
<1> QED BY <1>1, <1>2, <1>3, <1>4 DEF Next

\* As long as no two fibers cross and no push is cut off, the
\* object store holds exactly the files of its index.json whenever nothing is
\* being pushed, whatever was killed, lost or restarted between two pushes, while
\* a commit was made or described, or while a start copied the object store
\* (ReplicatedIndex.sync, LocalDirectory.fromRemote).
THEOREM RemoteSurvivesRestarts ==
  ASSUME Threads # {}
  PROVE  Spec /\ []Uncrossed /\ [][~CutsPush]_vars => []RemoteIsSnapshot
<1> DEFINE Inv == MasterInv /\ ThreadsOff /\ (\A t \in Threads : SeqnumInv(t)) /\ UncutInv
<1>1. Init => Inv
  BY MasterInitial, ThreadsOffInitially, SeqnumInitially, UncutInitially
<1>2. Inv /\ Uncrossed /\ Uncrossed' /\ [Next]_vars /\ [~CutsPush]_vars => Inv'
  BY UncutStutters, MasterStep, ThreadsOffStep, SeqnumStep, UncutStep
<1>3. Inv => RemoteIsSnapshot
  <2>1. ASSUME UncutInv, RemoteAtRest PROVE Exact(Remote)
    BY <2>1, ProcessPhases DEF UncutInv, StoreInv, NoPush, RemoteAtRest, Flusher, Actor
  <2> QED BY <2>1, ExactIsSnapshot DEF RemoteIsSnapshot
<1> HIDE DEF Inv
<1> QED BY <1>1, <1>2, <1>3, PTL DEF Spec

\* While no copy was cut off, none is.
LEMMA HistCut ==
  ASSUME [HistNext]_histVars
  PROVE  (~cut' => ~cut) /\ (~cut' => ~CutsCopy \/ UNCHANGED histVars)
<1>1. CASE UNCHANGED histVars
  BY <1>1, Zenon DEF histVars
<1>2. CASE HistNext
  <2>1. cut' = (cut \/ CutsCopy)
    BY <1>2 DEF HistNext
  <2> QED BY <2>1, Zenon
<1> QED BY <1>1, <1>2

\* The invariant of the indexer in all its lives, with its history.
UncutHistInv == HistInv /\ (~crossed /\ ~cut => UncutInv)

LEMMA UncutHistStep ==
  ASSUME Threads # {}, UncutHistInv, HistInv', [HistNext]_histVars, ~crossed', ~cut'
  PROVE  UncutInv'
<1>1. ~crossed /\ ~cut /\ [Next]_vars /\ UncutInv /\ UncrossedInv /\ Uncrossed /\ Uncrossed'
  BY HistStep, HistCut DEF UncutHistInv, HistInv
<1>2. CASE UNCHANGED vars
  BY <1>1, <1>2, UncutStutters
<1>3. CASE ~UNCHANGED vars
  <2>1. ~CutsCopy
    BY <1>3, HistCut DEF histVars
  <2>2. ~CutsPush
    BY <2>1 DEF CutsCopy, CutsPush, Syncing
  <2> QED BY <1>1, <2>2, UncutStep DEF UncrossedInv
<1> QED BY <1>2, <1>3

LEMMA UncutHistInvariant ==
  ASSUME Threads # {}
  PROVE  HistSpec => []UncutHistInv
<1>1. HistInit /\ HistInv => UncutHistInv
  BY UncutInitially DEF HistInit, UncutHistInv
<1>2. UncutHistInv /\ HistInv' /\ [HistNext]_histVars => UncutHistInv'
  BY UncutHistStep DEF UncutHistInv
<1> QED BY <1>1, <1>2, HistInvariant, PTL DEF HistSpec

\* So in every life of the indexer the object store is exactly one commit
\* between two pushes, unless two fibers crossed or a copy was left unfinished
\* (ReplicatedIndex.sync, LocalDirectory.fromRemote).
THEOREM UncutStaysSnapshot ==
  ASSUME Threads # {}
  PROVE  HistSpec => []UncutIsSnapshot
<1>1. UncutHistInv => UncutIsSnapshot
  <2> SUFFICES ASSUME UncutInv, RemoteAtRest PROVE IsSnapshot(Remote) /\ Exact(Remote)
    BY ExactIsSnapshot DEF UncutHistInv, UncutIsSnapshot, RemoteIsSnapshot
  <2>1. Exact(Remote)
    BY ProcessPhases DEF UncutInv, StoreInv, NoPush, RemoteAtRest, Flusher, Actor
  <2> QED BY <2>1, ExactIsSnapshot
<1> QED BY <1>1, UncutHistInvariant, PTL
=============================================================================
