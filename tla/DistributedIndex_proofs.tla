----------------------- MODULE DistributedIndex_proofs -----------------------
(***************************************************************************)
(* Theorems about a distributed index: what its searchers may rely on, and *)
(* that they do not get in the indexer's way.                              *)
(***************************************************************************)
EXTENDS DistributedIndex, MasterIndex_proofs

-----------------------------------------------------------------------------
(* The indexer and the searchers share nothing but the object store: what a *)
(* step of the one leaves alone.                                            *)

Untouched(a) == pc'[a] = pc[a] /\ hand'[a] = hand[a] /\ ops'[a] = ops[a] /\ outs'[a] = outs[a]
Intact(s) == data'[s] = data[s] /\ manifest'[s] = manifest[s]

LEMMA SlavesApart ==
  \A s \in Slaves : /\ s \in Actor /\ s \in Store /\ s \notin Flusher /\ s # Indexer
                    /\ s \notin {Local, Remote} /\ Home(s) = s /\ Phases(s) = SlavePhase
  BY ActorsAssumption DEF Actor, Store, Flusher, Home, Phases

\* A searcher pulls, or pushes a directory it found to be newer at its start.
LEMMA SlavePlaces ==
  ASSUME TypeOK, NEW s \in Slaves, Syncing(s), pc[s] # "bootpush"
  PROVE  pc[s] \in Pulling /\ Src(s) = Remote /\ Dst(s) = s
<1>1. pc[s] \in SlavePhase /\ Home(s) = s
  BY SlavesApart DEF TypeOK, SyncTypeOK
<1> QED BY <1>1 DEF Syncing, Pulling, Pushing, Src, Dst, SlavePhase

\* How copying one file changes the stores.
LEMMA FileStepStores ==
  ASSUME TypeOK, NEW a \in Actor, FileStep(a)
  PROVE  /\ \A s \in Store \ {Dst(a)} : Intact(s)
         /\ \A b \in Actor \ {a} : Untouched(b)
         /\ UNCHANGED <<pc, hand>>
<1>1. /\ data \in [Store -> [FileName -> Blob]] /\ manifest \in [Store -> Manifest]
      /\ ops \in [Actor -> SUBSET ChangedFileOp] /\ outs \in [Actor -> SUBSET ChangedFileOp]
  BY DEF TypeOK, SyncTypeOK
<1>2. CASE DeleteOutput(a) \/ CreateOutput(a)
  BY <1>1, <1>2 DEF DeleteOutput, CreateOutput, Emptied, Intact, Untouched
<1>3. CASE CopyFile(a)
  BY <1>1, <1>3 DEF CopyFile, Finished, Intact, Untouched
<1>4. CASE DeleteFile(a)
  BY <1>1, <1>4 DEF DeleteFile, Finished, Intact, Untouched
<1> QED BY <1>2, <1>3, <1>4 DEF FileStep

LEMMA LeaveOthers ==
  ASSUME TypeOK, NEW a \in Actor, NEW next,
         Leave(a, next) \/ \E source, target : Start(a, next, source, target)
  PROVE  \A b \in Actor \ {a} : Untouched(b)
  BY DEF TypeOK, SyncTypeOK, Leave, Start, Untouched

\* Every step of a searcher copies one file, or leaves the files alone.
LEMMA SlaveForms ==
  ASSUME NEW s \in Slaves, SlaveStep(s) \/ SlaveKill(s)
  PROVE  \/ FileStep(s) /\ UNCHANGED boots
         \/ /\ UNCHANGED <<data, manifest>>
            /\ \E next \in SlavePhase :
                 Leave(s, next) \/ \E source, target : Start(s, next, source, target)
<1>1. CASE SlaveBoot(s)
  BY <1>1 DEF SlaveBoot, FromRemote, SlavePhase
<1>2. CASE SlaveCreate(s)
  BY <1>2 DEF SlaveCreate, SlaveSync, SlavePhase
<1>3. CASE SlaveTick(s)
  BY <1>3 DEF SlaveTick, SlaveSync, SlavePhase
<1>4. CASE SlaveBootDone(s) \/ SlavePullDone(s) \/ SlaveFails(s) \/ SlaveKill(s)
  BY <1>4 DEF SlaveBootDone, SlavePullDone, SlaveFails, SlaveKill, SlavePhase
<1>5. CASE FileStep(s) /\ UNCHANGED boots
  BY <1>5
<1> QED BY <1>1, <1>2, <1>3, <1>4, <1>5 DEF SlaveStep

LEMMA SlaveTouches ==
  ASSUME TypeOK, NEW s \in Slaves, SlaveStep(s) \/ SlaveKill(s), pc[s] # "bootpush"
  PROVE  /\ \A a \in Actor \ {s} : Untouched(a)
         /\ \A x \in Store \ {s} : Intact(x)
<1>1. s \in Actor
  BY SlavesApart
<1>2. CASE FileStep(s)
  <2>1. Dst(s) = s
    BY <1>1, <1>2, FileStepMoves, SlavePlaces
  <2> QED BY <1>1, <1>2, <2>1, FileStepStores
<1>3. CASE ~FileStep(s)
  <2>1. /\ UNCHANGED <<data, manifest>>
        /\ \E next : Leave(s, next) \/ \E source, target : Start(s, next, source, target)
    BY <1>3, SlaveForms
  <2> QED BY <1>1, <2>1, LeaveOthers DEF Intact
<1> QED BY <1>2, <1>3

\* The indexer leaves each searcher alone, and changes the object store only
\* while it pushes.
MasterTouches ==
  /\ \A s \in Slaves : Untouched(s) /\ Intact(s)
  /\ Intact(Remote) \/ Writing

LEMMA QuietTouches ==
  ASSUME TypeOK, UNCHANGED <<data, manifest>>, NEW a \in Flusher, NEW next,
         Leave(a, next) \/ \E source, target : Start(a, next, source, target)
  PROVE  MasterTouches
<1>1. a \in Actor /\ \A s \in Slaves : s # a /\ s \in Actor
  BY SlavesApart DEF Flusher, Actor
<1> QED BY <1>1, LeaveOthers DEF MasterTouches, Intact

LEMMA CopyTouches ==
  ASSUME TypeOK, NEW a \in Flusher, FileStep(a)
  PROVE  MasterTouches
<1>1. a \in Actor /\ \A s \in Slaves : s # a /\ s \in Actor /\ s \in Store /\ s \notin {Local, Remote}
  BY SlavesApart DEF Flusher, Actor
<1>2. Syncing(a)
  BY <1>1, FileStepMoves
<1>3. /\ \A s \in Store \ {Dst(a)} : Intact(s)
      /\ \A b \in Actor \ {a} : Untouched(b)
  BY <1>1, FileStepStores
<1>4. Dst(a) \in {Local, Remote} /\ (Dst(a) = Remote => pc[a] \in Pushing)
  BY <1>2, FlusherPlaces DEF Pushing, Local, Remote
<1>5. Remote \in Store
  BY DEF Store
<1> QED BY <1>1, <1>3, <1>4, <1>5 DEF MasterTouches, Writing

LEMMA FlushTouches ==
  ASSUME TypeOK, NEW a \in Flusher, FlushStep(a)
  PROVE  MasterTouches
<1>1. a \in Actor /\ \A s \in Slaves : s # a /\ s \in Actor /\ s \in Store /\ s \notin {Local, Remote}
  BY SlavesApart DEF Flusher, Actor
<1>2. /\ data \in [Store -> [FileName -> Blob]] /\ manifest \in [Store -> Manifest]
      /\ hand \in [Actor -> Manifest] /\ pc \in [Actor -> AnyPhase]
      /\ ops \in [Actor -> SUBSET ChangedFileOp] /\ outs \in [Actor -> SUBSET ChangedFileOp]
      /\ Remote \in Store /\ Local # Remote
  BY DEF TypeOK, SyncTypeOK, Store, Local, Remote
<1>3. CASE Commit(a) /\ Dirty
  BY <1>1, <1>2, <1>3 DEF Commit, MasterTouches, Untouched, Intact
<1>4. CASE Commit(a) /\ ~Dirty
  <2>1. UNCHANGED <<data, manifest>> /\ \E next : Leave(a, next)
    BY <1>4 DEF Commit, AfterFlush
  <2> QED BY <2>1, QuietTouches
<1>5. CASE ListFiles(a)
  BY <1>1, <1>2, <1>5 DEF ListFiles, MasterTouches, Untouched, Intact
<1>6. CASE ReadSizes(a)
  <2>1. CASE Fail(a)
    <3>1. UNCHANGED <<data, manifest>> /\ \E next : Leave(a, next)
      BY <1>6, <2>1 DEF ReadSizes, Fail
    <3> QED BY <3>1, QuietTouches
  <2>2. CASE ~Fail(a)
    BY <1>1, <1>2, <1>6, <2>2 DEF ReadSizes, MasterTouches, Untouched, Intact
  <2> QED BY <2>1, <2>2
<1>7. CASE WritesManifest(a)
  <2>1. CASE Fail(a) /\ UNCHANGED manifest
    <3>1. UNCHANGED data /\ \E next : Leave(a, next)
      BY <1>7, <2>1, ManifestWrites DEF Fail
    <3> QED BY <2>1, <3>1, QuietTouches
  <2>2. CASE ~(Fail(a) /\ UNCHANGED manifest)
    <3>1. \A s \in Slaves : outs'[s] = outs[s] /\ ops'[s] = ops[s]
      BY <1>1, <1>2, <1>7, <2>2, SlavesApart
      DEF WritesManifest, FindManifest, DeleteManifest, CreateManifest
    <3>2. /\ UNCHANGED <<data, hand>> /\ \A s \in Slaves : pc'[s] = pc[s]
          /\ \A s \in Store \ {Local} : manifest'[s] = manifest[s]
      BY <1>1, <1>2, <1>7, <2>2, ManifestWrites
    <3> QED BY <1>1, <1>2, <3>1, <3>2 DEF MasterTouches, Untouched, Intact
  <2> QED BY <2>1, <2>2
<1>8. CASE CloseManifest(a)
  <2>1. \E next : Leave(a, next)
    BY <1>8 DEF CloseManifest, AfterFlush
  <2>2. \A s \in Slaves : Untouched(s)
    BY <1>1, <2>1, LeaveOthers
  <2>3. /\ data' = data /\ \A s \in Store \ {Local} : manifest'[s] = manifest[s]
    BY <1>2, <1>8 DEF CloseManifest
  <2> QED BY <1>1, <1>2, <2>2, <2>3 DEF MasterTouches, Intact
<1> QED BY <1>3, <1>4, <1>5, <1>6, <1>7, <1>8 DEF FlushStep, WritesManifest

LEMMA ThreadTouches ==
  ASSUME TypeOK, NEW a \in Threads, ThreadStep(a) \/ Request(a)
  PROVE  MasterTouches
<1>1. a \in Flusher /\ a \in Actor /\ \A s \in Slaves : s # a /\ s \in Actor
  BY SlavesApart DEF Flusher, Actor
<1>2. CASE FlushStep(a)
  BY <1>1, <1>2, FlushTouches
<1>3. CASE PushFile(a)
  BY <1>1, <1>3, CopyTouches DEF PushFile
<1>4. CASE ReadMaster(a) /\ ~Fail(a)
  BY <1>1, <1>4 DEF ReadMaster, MasterTouches, Untouched, Intact, TypeOK, SyncTypeOK
<1>5. CASE Tick(a) \/ ForceMerge(a) \/ Request(a) \/ (ReadMaster(a) /\ Fail(a)) \/ ReadReplica(a)
           \/ PushDone(a) \/ PushFails(a)
  <2>1. UNCHANGED <<data, manifest>>
    BY <1>5 DEF Tick, ForceMerge, Request, ReadMaster, ReadReplica, PushDone, PushFails
  <2>2. \/ \E next : Leave(a, next)
        \/ \E next, source, target : Start(a, next, source, target)
    BY <1>5 DEF Tick, ForceMerge, Request, ReadReplica, PushDone, PushFails, Fail, Succeed
  <2> QED BY <1>1, <2>1, <2>2, QuietTouches
<1> QED BY <1>2, <1>3, <1>4, <1>5 DEF ThreadStep

LEMMA ProcessTouches ==
  ASSUME TypeOK, ProcessStep \/ Fault
  PROVE  MasterTouches
<1> USE ProcessPhases
<1>1. /\ \A s \in Slaves : /\ s \in Actor /\ s # Indexer /\ s \notin Threads /\ s \notin Flusher
                           /\ s \in Store /\ s \notin {Local, Remote}
      /\ data \in [Store -> [FileName -> Blob]] /\ manifest \in [Store -> Manifest]
      /\ Remote \in Store /\ Local # Remote
  BY SlavesApart DEF TypeOK, SyncTypeOK, Store, Local, Remote, Flusher
<1>2. CASE Boot \/ BootDone \/ BootFails \/ CloseWriter
  <2>1. UNCHANGED <<data, manifest>>
    BY <1>2 DEF Boot, FromRemote, BootDone, BootFails, CloseWriter
  <2>2. \/ \E next : Leave(Indexer, next)
        \/ \E next, source, target : Start(Indexer, next, source, target)
    BY <1>2 DEF Boot, FromRemote, BootDone, BootFails, CloseWriter
  <2> QED BY <2>1, <2>2, QuietTouches
<1>3. CASE BootStep
  BY <1>3, CopyTouches DEF BootStep
<1>4. CASE FlushStep(Indexer)
  BY <1>4, FlushTouches
<1>5. CASE OpenWriter
  <2>1. UNCHANGED manifest /\ \A s \in Store \ {Local} : data'[s] = data[s]
    BY <1>1, <1>5 DEF OpenWriter
  <2>2. CASE Leave(Indexer, "down")
    <3>1. \A s \in Slaves : Untouched(s)
      BY <1>1, <2>2, LeaveOthers
    <3> QED BY <1>1, <2>1, <3>1 DEF MasterTouches, Intact
  <2>3. CASE ~Leave(Indexer, "down")
    <3> DEFINE up == [a \in Actor |-> CASE a = Indexer -> "up" [] a \in Threads -> "idle" [] OTHER -> pc[a]]
    <3>1. UNCHANGED <<hand, ops, outs>> /\ pc' = up
      BY <1>5, <2>3 DEF OpenWriter
    <3>2. \A s \in Slaves : up[s] = pc[s]
      BY <1>1
    <3> HIDE DEF up
    <3> QED BY <1>1, <2>1, <3>1, <3>2 DEF MasterTouches, Intact, Untouched
  <2> QED BY <2>2, <2>3
<1>6. CASE Fault
  <2>1. PICK next : Interrupt(next)
    BY <1>6 DEF Fault, Shutdown, Kill, LosePod
  <2>2. \A s \in Slaves : pc'[s] = pc[s]
    BY <1>1, <2>1 DEF Interrupt
  <2>3. \A s \in Slaves : hand'[s] = hand[s] /\ ops'[s] = ops[s] /\ outs'[s] = outs[s]
    BY <1>1, <2>1 DEF Interrupt
  <2>4. \A s \in Store \ {Local} : Intact(s)
    BY <1>1, <1>6 DEF Fault, Shutdown, Kill, LosePod, Intact
  <2> QED BY <1>1, <2>2, <2>3, <2>4 DEF MasterTouches, Untouched
<1> QED BY <1>2, <1>3, <1>4, <1>5, <1>6 DEF ProcessStep

LEMMA MasterApart ==
  ASSUME TypeOK, [Next]_vars
  PROVE  MasterTouches
<1>1. CASE AddDocument \/ BackgroundMerge \/ UNCHANGED vars
  BY <1>1 DEF AddDocument, BackgroundMerge, vars, syncVars, MasterTouches, Untouched, Intact
<1> QED BY <1>1, ThreadTouches, ProcessTouches DEF Next

-----------------------------------------------------------------------------
(* Types *)

DistInv == MasterInv /\ DistTypeOK

LEMMA DistSteps ==
  ASSUME [DistNext]_distVars
  PROVE  \/ [Next]_vars /\ UNCHANGED boots /\ (Observe \/ UNCHANGED disturbed)
         \/ \E s \in Slaves : (SlaveStep(s) \/ SlaveKill(s)) /\ UNCHANGED masterVars /\ Observe
  BY DEF DistNext, distVars

LEMMA SlaveKeepsTypes ==
  ASSUME MasterInv, NEW s \in Slaves, SlaveStep(s) \/ SlaveKill(s), UNCHANGED masterVars
  PROVE  MasterInv'
<1>1. s \in Actor /\ Phases(s) = SlavePhase
  BY SlavesApart
<1>2. CASE FileStep(s)
  BY <1>1, <1>2, FileStepKeeps
<1>3. CASE ~FileStep(s)
  <2>1. UNCHANGED <<data, manifest>>
    BY <1>3, SlaveForms
  <2>2. PICK next \in SlavePhase : Leave(s, next) \/ \E source, target : Start(s, next, source, target)
    BY <1>3, SlaveForms
  <2>3. ActorsType
    BY <1>1, <2>2, LeaveType, StartType DEF MasterInv, TypeOK
  <2>4. RequestsType
    BY DEF MasterInv, TypeOK, masterVars, RequestsType
  <2> QED BY <2>1, <2>3, <2>4, FiberMoves DEF masterVars
<1> QED BY <1>2, <1>3

LEMMA BootsType ==
  ASSUME boots \in [Slaves -> 0..MaxBoots], NEW s \in Slaves, SlaveStep(s) \/ SlaveKill(s)
  PROVE  boots' \in [Slaves -> 0..MaxBoots]
<1>1. CASE SlaveBoot(s)
  <2>1. boots[s] + 1 \in 0..MaxBoots
    BY <1>1, SlaveAssumption DEF SlaveBoot
  <2> QED BY <1>1, <2>1 DEF SlaveBoot
<1>2. CASE ~SlaveBoot(s)
  BY <1>2 DEF SlaveStep, SlaveKill
<1> QED BY <1>1, <1>2

LEMMA DistInitially == DistInit => DistInv
  BY MasterInitial, SlaveAssumption DEF DistInit, DistInv, DistTypeOK, MasterInv

LEMMA DistKeepsTypes ==
  ASSUME DistInv, [DistNext]_distVars
  PROVE  DistInv'
<1>1. Overlapping' \subseteq Slaves /\ Stopped \subseteq Slaves
  BY DEF Overlapping, Stopped
<1>2. disturbed' \subseteq Slaves
  BY <1>1 DEF DistInv, DistTypeOK, DistNext, distVars, Observe
<1>3. MasterInv'
  BY DistSteps, MasterStep, SlaveKeepsTypes DEF DistInv
<1>4. boots' \in [Slaves -> 0..MaxBoots]
  BY DistSteps, BootsType DEF DistInv, DistTypeOK
<1> QED BY <1>2, <1>3, <1>4 DEF DistInv, DistTypeOK, MasterInv

\* Every variable of a distributed index keeps the shape the code gives it, for
\* any number of fibers and searchers and any faults.
THEOREM DistTypesStay == DistSpec => []DistTypeOK
<1>1. DistInv => DistTypeOK
  BY DEF DistInv
<1> QED BY <1>1, DistInitially, DistKeepsTypes, PTL DEF DistSpec

-----------------------------------------------------------------------------
(* A searcher that only pulls disturbs nothing the indexer's invariants are  *)
(* about.                                                                    *)

\* What a searcher that pulls leaves alone.
Aside ==
  /\ UNCHANGED masterVars
  /\ Intact(Local) /\ Intact(Remote)
  /\ \A a \in Flusher : Untouched(a)

LEMMA PullerAside ==
  ASSUME TypeOK, NEW s \in Slaves, SlaveStep(s) \/ SlaveKill(s), pc[s] # "bootpush",
         UNCHANGED masterVars
  PROVE  /\ Aside
         /\ \A r \in Slaves \ {s} : Untouched(r) /\ Intact(r)
<1>1. /\ Local \in Store \ {s} /\ Remote \in Store \ {s}
      /\ \A a \in Flusher : a \in Actor \ {s}
      /\ \A r \in Slaves \ {s} : r \in Actor \ {s} /\ r \in Store \ {s}
  BY SlavesApart DEF Store, Flusher, Actor
<1> QED BY <1>1, SlaveTouches DEF Aside

LEMMA AsideFacts ==
  ASSUME Aside
  PROVE  /\ data'[Local] = data[Local] /\ manifest'[Local] = manifest[Local]
         /\ data'[Remote] = data[Remote] /\ manifest'[Remote] = manifest[Remote]
         /\ pc'[Indexer] = pc[Indexer]
         /\ \A a \in Threads : /\ pc'[a] = pc[a] /\ hand'[a] = hand[a]
                               /\ ops'[a] = ops[a] /\ outs'[a] = outs[a]
         /\ UNCHANGED <<writer, docs, merging, covers, acked, starts>>
  BY DEF Aside, Intact, Untouched, Flusher, masterVars

LEMMA AsideSeqnum ==
  ASSUME TypeOK, Aside, ThreadsOff, NEW t \in Threads, SeqnumInv(t)
  PROVE  ThreadsOff' /\ SeqnumInv(t)' /\ RemoteMovesOn
<1>1. manifest[Remote].seqnum \in Nat
  BY DEF TypeOK, SyncTypeOK, Store, Manifest
<1> QED BY <1>1, AsideFacts DEF ThreadsOff, SeqnumInv, Ahead, RemoteMovesOn

LEMMA AsideLife ==
  ASSUME TypeOK, Aside, BirthInv, HeldInv, NEW t \in Threads, LifeInv(t)
  PROVE  BirthInv' /\ HeldInv' /\ LifeInv(t)'
<1>1. BirthInv'
  BY AsideFacts DEF BirthInv, Unborn, Blank
<1>2. HeldInv'
  <2>1. OnDisk' = OnDisk /\ (SegmentsAreOld' <=> SegmentsAreOld)
    BY AsideFacts DEF OnDisk, SegmentsAreOld
  <2> QED BY <2>1, AsideFacts DEF HeldInv, InLife
<1>3. LifeInv(t)'
  <2>1. writer'.seq \in Nat /\ writer'.seq >= writer.seq
    BY AsideFacts DEF TypeOK
  <2> QED BY <2>1, AsideFacts, LifeQuiet DEF InLife
<1> QED BY <1>1, <1>2, <1>3

-----------------------------------------------------------------------------
(* No searcher is ahead of the object store, so none has a reason to push.  *)

LEMMA BehindWhenRemoteMoves ==
  ASSUME TypeOK, TypeOK', SlaveIsBehind, RemoteMovesOn,
         \A s \in Slaves : \/ manifest'[s] = manifest[s]
                           \/ manifest'[s] = manifest'[Remote]
                           \/ manifest'[s] \in {NoManifest, TornManifest}
  PROVE  SlaveIsBehind'
<1> SUFFICES ASSUME NEW s \in Slaves, manifest'[s].st = "whole"
             PROVE  /\ manifest'[Remote].st = "whole"
                    /\ manifest'[s].seqnum <= manifest'[Remote].seqnum
  BY DEF SlaveIsBehind
<1>1. /\ manifest[s].seqnum \in Nat /\ manifest[Remote].seqnum \in Nat
      /\ manifest'[Remote].seqnum \in Nat
  BY SlavesApart DEF TypeOK, SyncTypeOK, Store, Manifest
<1>2. CASE manifest'[s] = manifest[s]
  <2>1. manifest[Remote].st = "whole" /\ manifest[s].seqnum <= manifest[Remote].seqnum
    BY <1>2 DEF SlaveIsBehind
  <2> QED BY <1>1, <1>2, <2>1 DEF RemoteMovesOn
<1>3. CASE manifest'[s] = manifest'[Remote]
  BY <1>1, <1>3
<1>4. CASE manifest'[s] \in {NoManifest, TornManifest}
  BY <1>4 DEF NoManifest, TornManifest
<1> QED BY <1>2, <1>3, <1>4

\* A searcher's index.json is left alone, removed, torn, or a copy of the object store's.
LEMMA PulledManifest ==
  ASSUME TypeOK, NEW s \in Slaves, SlaveStep(s) \/ SlaveKill(s), pc[s] # "bootpush"
  PROVE  manifest'[s] \in {manifest[s], manifest[Remote], NoManifest, TornManifest}
<1>1. s \in Actor /\ s \in Store /\ manifest \in [Store -> Manifest]
  BY SlavesApart DEF TypeOK, SyncTypeOK
<1>2. CASE FileStep(s)
  <2>1. Src(s) = Remote /\ Dst(s) = s
    BY <1>1, <1>2, FileStepMoves, SlavePlaces
  <2> QED BY <1>1, <1>2, <2>1, FileStepMoves
<1>3. CASE ~FileStep(s)
  BY <1>3, SlaveForms
<1> QED BY <1>2, <1>3

LEMMA SlaveStaysBehind ==
  ASSUME MasterInv, NEW t \in Threads, ThreadsOff, SeqnumInv(t), SlaveIsBehind, SlaveNeverPushes,
         NEW s \in Slaves, SlaveStep(s) \/ SlaveKill(s), UNCHANGED masterVars
  PROVE  SlaveIsBehind' /\ SlaveNeverPushes'
<1>1. pc[s] # "bootpush" /\ TypeOK /\ TypeOK'
  BY SlaveKeepsTypes DEF SlaveNeverPushes, MasterInv
<1>2. Aside /\ \A r \in Slaves \ {s} : Untouched(r) /\ Intact(r)
  BY <1>1, PullerAside
<1>3. RemoteMovesOn
  BY <1>1, <1>2, AsideSeqnum
<1>4. SlaveIsBehind'
  <2>1. manifest'[Remote] = manifest[Remote]
    BY <1>2, AsideFacts
  <2>2. \A r \in Slaves : \/ manifest'[r] = manifest[r] \/ manifest'[r] = manifest'[Remote]
                          \/ manifest'[r] \in {NoManifest, TornManifest}
    BY <1>1, <1>2, <2>1, PulledManifest DEF Intact
  <2> QED BY <1>1, <1>3, <2>2, BehindWhenRemoteMoves
<1>5. pc'[s] # "bootpush"
  <2>1. /\ s \in Actor /\ s \in Store /\ Home(s) = s /\ pc \in [Actor -> AnyPhase]
        /\ manifest[s].seqnum \in Nat /\ manifest[Remote].seqnum \in Nat
    BY <1>1, SlavesApart DEF TypeOK, SyncTypeOK, Store, Manifest
  <2>2. CASE FileStep(s)
    BY <1>1, <2>1, <2>2, FileStepMoves
  <2>3. CASE SlaveBoot(s)
    <3>1. ~(/\ manifest[s].st = "whole"
            /\ manifest[Remote].st = "absent" \/ manifest[s].seqnum > manifest[Remote].seqnum)
      BY <2>1 DEF SlaveIsBehind
    <3> QED BY <2>1, <2>3, <3>1 DEF SlaveBoot, FromRemote, Leave, Start
  <2>4. CASE SlaveCreate(s)
    BY <2>1, <2>4 DEF SlaveCreate, SlaveSync, Leave, Start
  <2>5. CASE SlaveTick(s)
    BY <2>1, <2>5 DEF SlaveTick, SlaveSync, Leave, Start
  <2>6. CASE SlaveBootDone(s) \/ SlavePullDone(s) \/ SlaveFails(s) \/ SlaveKill(s)
    BY <2>1, <2>6 DEF SlaveBootDone, SlavePullDone, SlaveFails, SlaveKill, Leave
  <2> QED BY <2>2, <2>3, <2>4, <2>5, <2>6 DEF SlaveStep
<1>6. SlaveNeverPushes'
  BY <1>2, <1>5 DEF SlaveNeverPushes, Untouched
<1> QED BY <1>4, <1>6

BehindInv ==
  /\ DistInv /\ ThreadsOff
  /\ \A t \in Threads : SeqnumInv(t)
  /\ SlaveIsBehind /\ SlaveNeverPushes

LEMMA BehindStep ==
  ASSUME Threads # {}, BehindInv, Uncrossed, Uncrossed', [DistNext]_distVars
  PROVE  BehindInv' /\ RemoteMovesOn
<1>1. MasterInv /\ TypeOK /\ DistInv' /\ TypeOK'
  BY DistKeepsTypes DEF BehindInv, DistInv, MasterInv
<1>2. CASE [Next]_vars
  <2>1. ThreadsOff' /\ RemoteMovesOn /\ \A t \in Threads : SeqnumInv(t)'
    BY <1>1, <1>2, ThreadsOffStep, SeqnumStep DEF BehindInv
  <2>2. \A s \in Slaves : Untouched(s) /\ Intact(s)
    BY <1>1, <1>2, MasterApart DEF MasterTouches
  <2>3. SlaveIsBehind'
    BY <1>1, <2>1, <2>2, BehindWhenRemoteMoves DEF BehindInv, Intact
  <2>4. SlaveNeverPushes'
    BY <2>2 DEF BehindInv, SlaveNeverPushes, Untouched
  <2> QED BY <1>1, <2>1, <2>3, <2>4 DEF BehindInv
<1>3. ASSUME NEW s \in Slaves, SlaveStep(s) \/ SlaveKill(s), UNCHANGED masterVars
      PROVE  BehindInv' /\ RemoteMovesOn
  <2>1. SlaveIsBehind' /\ SlaveNeverPushes'
    BY <1>1, <1>3, SlaveStaysBehind DEF BehindInv
  <2>2. Aside
    BY <1>1, <1>3, PullerAside DEF BehindInv, SlaveNeverPushes
  <2>3. ThreadsOff' /\ RemoteMovesOn /\ \A t \in Threads : SeqnumInv(t)'
    BY <1>1, <2>2, AsideSeqnum DEF BehindInv
  <2> QED BY <1>1, <2>1, <2>3 DEF BehindInv
<1> QED BY <1>2, <1>3, DistSteps

LEMMA BehindInitially == DistInit => BehindInv
<1> SUFFICES ASSUME DistInit PROVE BehindInv
  OBVIOUS
<1>1. DistInv /\ ThreadsOff /\ \A t \in Threads : SeqnumInv(t)
  BY DistInitially, ThreadsOffInitially, SeqnumInitially DEF DistInit
<1>2. SlaveIsBehind /\ SlaveNeverPushes
  BY SlavesApart DEF DistInit, Init, SyncInit, SlaveIsBehind, SlaveNeverPushes, NoManifest
<1> QED BY <1>1, <1>2 DEF BehindInv

LEMMA BehindInvariant ==
  ASSUME Threads # {}
  PROVE  DistSpec /\ []Uncrossed => []BehindInv
<1>1. BehindInv /\ Uncrossed /\ Uncrossed' /\ [DistNext]_distVars => BehindInv'
  BY BehindStep
<1> QED BY <1>1, BehindInitially, PTL DEF DistSpec

\* As long as no two fibers cross, no searcher ever has a later
\* index.json than the object store's, through every race, fault and restart of
\* any of them (LocalDirectory.fromRemote, SlaveIndex.sync).
THEOREM SlavesStayBehind ==
  ASSUME Threads # {}
  PROVE  DistSpec /\ []Uncrossed => []SlaveIsBehind
<1>1. BehindInv => SlaveIsBehind
  BY DEF BehindInv
<1> QED BY <1>1, BehindInvariant, PTL

\* And so none ever writes to the object store, though fromRemote would let it
\* (LocalDirectory.fromRemote, the branch of a later local index).
THEOREM SlavesNeverPush ==
  ASSUME Threads # {}
  PROVE  DistSpec /\ []Uncrossed => []SlaveNeverPushes
<1>1. BehindInv => SlaveNeverPushes
  BY DEF BehindInv
<1> QED BY <1>1, BehindInvariant, PTL

\* The searchers do not move the object store's index.json back either
\* (SlaveIndex.sync only reads from there).
THEOREM DistRemoteSeqnumGrows ==
  ASSUME Threads # {}
  PROVE  DistSpec /\ []Uncrossed => RemoteSeqnumGrows
<1>1. BehindInv /\ Uncrossed /\ Uncrossed' /\ [DistNext]_distVars
        => [manifest'[Remote].seqnum >= manifest[Remote].seqnum]_vars
  BY BehindStep DEF RemoteMovesOn
<1> QED BY <1>1, BehindInvariant, PTL DEF DistSpec, RemoteSeqnumGrows

-----------------------------------------------------------------------------
(* File names.  The first writer gives every file a name no store has yet,  *)
(* and all that is whole anywhere is a copy of what it wrote.               *)

\* The process may still commit.
MayCommit == pc[Indexer] \in {"up", "commit", "list", "sizes", "write", "replace", "create", "writing"}

\* Before the first writer is open there is nothing anywhere.
Early == starts = 0 \/ (starts = 1 /\ pc[Indexer] = "open")

NamesAreOld ==
  \A s \in Store, f \in FileName : data[s][f].st = "whole" => f[2] <= writer.gen

NameInv ==
  /\ Early => \A s \in Slaves : Blank(s) /\ pc[s] \in {"down", "create"}
  /\ starts <= 1 => /\ NamesMeanOneContent
                    /\ MayCommit => SegmentsAreOld /\ NamesAreOld

\* A step writes nothing new: what is whole after it was so before it.
Spread ==
  \A s \in Store, f \in FileName : data'[s][f].st = "whole" =>
    \E r \in Store : data[r][f] = data'[s][f]

LEMMA FileStepSpreads ==
  ASSUME TypeOK, NEW a \in Actor, FileStep(a)
  PROVE  Spread
<1>1. data \in [Store -> [FileName -> Blob]] /\ Src(a) \in Store /\ Dst(a) \in Store
  BY Places DEF TypeOK, SyncTypeOK
<1>2. \/ UNCHANGED data
      \/ \E f, b : /\ data' = [data EXCEPT ![Dst(a)][f] = b]
                   /\ b \in {TornBlob, NoBlob, data[Src(a)][f]}
  BY DEF FileStep, DeleteOutput, CreateOutput, Emptied, CopyFile, DeleteFile, Read
<1>3. CASE UNCHANGED data
  BY <1>3 DEF Spread
<1>4. ASSUME NEW f, NEW b, data' = [data EXCEPT ![Dst(a)][f] = b],
             b \in {TornBlob, NoBlob, data[Src(a)][f]}
      PROVE  Spread
  <2> SUFFICES ASSUME NEW s \in Store, NEW e \in FileName, data'[s][e].st = "whole"
               PROVE  \E r \in Store : data[r][e] = data'[s][e]
    BY DEF Spread
  <2>1. CASE s = Dst(a) /\ e = f
    <3>1. data'[s][e] = b
      BY <1>1, <1>4, <2>1
    <3> QED BY <1>1, <1>4, <2>1, <3>1 DEF TornBlob, NoBlob
  <2>2. CASE ~(s = Dst(a) /\ e = f)
    BY <1>1, <1>4, <2>2
  <2> QED BY <2>1, <2>2
<1> QED BY <1>2, <1>3, <1>4

\* Nothing new is written, and the writer's commit is the same.
LEMMA NamesStay ==
  ASSUME NameInv, Spread,
         starts' <= 1 => starts <= 1,
         Early' => \A s \in Slaves : Blank(s)' /\ pc'[s] \in {"down", "create"},
         starts' <= 1 /\ MayCommit' =>
           MayCommit /\ writer'.segs = writer.segs /\ writer'.gen = writer.gen
  PROVE  NameInv'
<1> SUFFICES ASSUME starts' <= 1
             PROVE  NamesMeanOneContent' /\ (MayCommit' => SegmentsAreOld' /\ NamesAreOld')
  BY DEF NameInv
<1>1. NamesMeanOneContent'
  BY DEF NameInv, NamesMeanOneContent, Spread
<1>2. MayCommit' => SegmentsAreOld' /\ NamesAreOld'
  BY DEF NameInv, SegmentsAreOld, NamesAreOld, Spread
<1> QED BY <1>1, <1>2

LEMMA BlankNames ==
  ASSUME \A s \in Store : Blank(s)
  PROVE  NamesMeanOneContent /\ NamesAreOld
  BY DEF Blank, NamesMeanOneContent, NamesAreOld, NoBlob

\* A commit's files have names no store has.
LEMMA CommitNames ==
  ASSUME MasterInv, NameInv, starts <= 1, MayCommit, NEW a \in Flusher, Commit(a), Dirty
  PROVE  NamesMeanOneContent' /\ SegmentsAreOld' /\ NamesAreOld'
<1> DEFINE g == writer.gen + 1
<1>1. /\ writer \in WriterType /\ data \in [Store -> [FileName -> Blob]] /\ Local \in Store
      /\ SegmentsAreOld /\ NamesAreOld /\ NamesMeanOneContent
  BY DEF NameInv, MasterInv, TypeOK, SyncTypeOK, WriterType, Store
<1>2. g \in Gen /\ writer.gen \in Nat /\ g \in Nat
  BY <1>1, BoundsAssumption DEF MasterInv, Room, Dirty, WriterType, Gen
<1>3. /\ data' = [data EXCEPT ![Local] = Committed(g)]
      /\ writer' = [writer EXCEPT !.seq = @ + 1, !.gen = g, !.segs = NewSegs(g),
                                  !.buffer = {}, !.merged = FALSE]
  BY DEF Commit
<1>4. /\ \A h \in Kept : h \in writer.segs
      /\ \A f \in FileName : \/ f = Segments(g) \/ f = Seg(g)
                             \/ Committed(g)[f] = NoBlob \/ Committed(g)[f] = data[Local][f]
  <2> HIDE DEF g
  <2> QED BY <1>1, <1>2, CommitWrites DEF g
<1>5. g = writer.gen + 1
  OBVIOUS
<1> HIDE DEF g
<1>6. /\ writer'.segs = NewSegs(g) /\ writer'.gen = g /\ data'[Local] = Committed(g)
      /\ \A s \in Store \ {Local} : data'[s] = data[s]
  BY <1>1, <1>3 DEF WriterType
<1>7. SegmentsAreOld'
  <2>1. \A h \in NewSegs(g) : h = g \/ (h \in Gen /\ h <= writer.gen)
    BY <1>1, <1>4 DEF NewSegs, SegmentsAreOld, WriterType
  <2>2. \A h \in NewSegs(g) : h <= g
    BY <1>2, <1>5, <2>1 DEF Gen
  <2> QED BY <1>6, <2>2 DEF SegmentsAreOld
<1>8. ASSUME NEW s \in Store, NEW f \in FileName, data'[s][f].st = "whole"
      PROVE  (s = Local /\ f[2] = g) \/ data'[s][f] = data[s][f]
  <2>1. (f = Segments(g) \/ f = Seg(g)) => f[2] = g
    BY DEF Seg, Segments
  <2> QED BY <1>4, <1>6, <1>8, <2>1 DEF NoBlob
<1>9. ASSUME NEW s \in Store, NEW f \in FileName, data[s][f].st = "whole"
      PROVE  f[2] # g /\ f[2] <= g
  <2>1. f[2] <= writer.gen /\ f[2] \in Nat
    BY <1>1, <1>9 DEF NamesAreOld, FileName, Gen
  <2> QED BY <1>2, <1>5, <2>1
<1>10. NamesAreOld'
  <2> SUFFICES ASSUME NEW s \in Store, NEW f \in FileName, data'[s][f].st = "whole"
               PROVE  f[2] <= g
    BY <1>6 DEF NamesAreOld
  <2> QED BY <1>2, <1>8, <1>9
<1>11. NamesMeanOneContent'
  <2> SUFFICES ASSUME NEW s \in Store, NEW r \in Store, NEW f \in FileName,
                      data'[s][f].st = "whole", data'[r][f].st = "whole"
               PROVE  data'[s][f] = data'[r][f]
    BY DEF NamesMeanOneContent
  <2>1. CASE f[2] = g
    BY <1>8, <1>9, <2>1
  <2>2. CASE f[2] # g
    <3>1. data'[s][f] = data[s][f] /\ data'[r][f] = data[r][f]
      BY <1>8, <2>2
    <3> QED BY <1>1, <3>1 DEF NamesMeanOneContent
  <2> QED BY <2>1, <2>2
<1> QED BY <1>7, <1>10, <1>11

LEMMA SlaveMovesItself ==
  ASSUME TypeOK, NEW s \in Slaves, SlaveStep(s) \/ SlaveKill(s)
  PROVE  \A a \in Actor \ {s} : Untouched(a)
<1>1. s \in Actor
  BY SlavesApart
<1> QED BY <1>1, SlaveForms, FileStepStores, LeaveOthers

\* While there is nothing anywhere, a searcher starts and stops.
LEMMA EarlySlave ==
  ASSUME MasterInv, BirthInv, NameInv, Early, NEW s \in Slaves, SlaveStep(s) \/ SlaveKill(s)
  PROVE  UNCHANGED <<data, manifest>> /\ pc'[s] \in {"down", "create"}
<1>1. /\ s \in Actor /\ Home(s) = s /\ pc \in [Actor -> AnyPhase]
      /\ pc[s] \in {"down", "create"} /\ manifest[s] = NoManifest /\ manifest[Remote] = NoManifest
  BY SlavesApart DEF MasterInv, TypeOK, SyncTypeOK, NameInv, Early, BirthInv, Unborn, Blank
<1>2. ~Syncing(s) /\ ~FileStep(s)
  BY <1>1, FileStepMoves DEF Syncing, Pulling, Pushing
<1>3. CASE SlaveBoot(s)
  <2>1. Leave(s, "create") /\ UNCHANGED <<data, manifest>>
    BY <1>1, <1>3 DEF SlaveBoot, FromRemote, NoManifest
  <2> QED BY <1>1, <2>1 DEF Leave
<1>4. CASE SlaveCreate(s)
  <2>1. Leave(s, "down") /\ UNCHANGED <<data, manifest>>
    BY <1>1, <1>4 DEF SlaveCreate, NoManifest
  <2> QED BY <1>1, <2>1 DEF Leave
<1>5. CASE SlaveKill(s)
  BY <1>1, <1>5 DEF SlaveKill, Leave
<1>6. ~SlaveTick(s) /\ ~SlaveBootDone(s) /\ ~SlavePullDone(s) /\ ~SlaveFails(s)
  BY <1>1, <1>2 DEF SlaveTick, SlaveBootDone, SlavePullDone, SlaveFails, FileMissing, Parallel
<1> QED BY <1>2, <1>3, <1>4, <1>5, <1>6 DEF SlaveStep

LEMMA SlaveKeepsNames ==
  ASSUME MasterInv, ThreadsOff, BirthInv, NameInv,
         NEW s \in Slaves, SlaveStep(s) \/ SlaveKill(s), UNCHANGED masterVars
  PROVE  ThreadsOff' /\ BirthInv' /\ NameInv'
<1>1. /\ \A a \in Actor \ {s} : Untouched(a)
      /\ \A a \in Flusher : a \in Actor \ {s}
      /\ \A r \in Slaves : r \in Actor
  BY SlaveMovesItself, SlavesApart DEF MasterInv, Flusher, Actor
<1>2. pc'[Indexer] = pc[Indexer] /\ \A a \in Threads : pc'[a] = pc[a]
  BY <1>1 DEF Flusher, Untouched
<1>3. UNCHANGED <<writer, docs, merging, covers, acked, starts>>
  BY DEF masterVars
<1>4. (Early' <=> Early) /\ (MayCommit' <=> MayCommit)
  BY <1>2, <1>3 DEF Early, MayCommit
<1>5. Early => UNCHANGED <<data, manifest>> /\ pc'[s] \in {"down", "create"}
  BY EarlySlave
<1>6. ThreadsOff'
  BY <1>2 DEF ThreadsOff
<1>7. BirthInv'
  BY <1>2, <1>3, <1>5 DEF BirthInv, Unborn, Blank, Early
<1>8. Spread
  <2>1. CASE FileStep(s)
    BY <2>1, SlavesApart, FileStepSpreads DEF MasterInv
  <2>2. CASE ~FileStep(s)
    <3>1. UNCHANGED data
      BY <2>2, SlaveForms
    <3> QED BY <3>1 DEF Spread
  <2> QED BY <2>1, <2>2
<1>9. Early' => \A r \in Slaves : Blank(r)' /\ pc'[r] \in {"down", "create"}
  BY <1>1, <1>4, <1>5 DEF NameInv, Blank, Untouched
<1>10. NameInv'
  BY <1>3, <1>4, <1>8, <1>9, NamesStay
<1> QED BY <1>6, <1>7, <1>10

\* The steps of a flush that write no files.
LEMMA FlushWrites ==
  ASSUME NEW a \in Flusher, FlushStep(a), ~(Commit(a) /\ Dirty)
  PROVE  UNCHANGED <<data, writer, starts>>
  BY DEF FlushStep, Commit, ListFiles, ReadSizes, FindManifest, DeleteManifest, CreateManifest, CloseManifest, masterVars

LEMMA ThreadKeepsNames ==
  ASSUME MasterInv, ThreadsOff, BirthInv, NameInv, NEW a \in Threads, ThreadStep(a) \/ Request(a)
  PROVE  NameInv'
<1>1. /\ pc[Indexer] = "up" /\ pc'[Indexer] = "up" /\ UNCHANGED starts /\ starts # 0
      /\ a \in Flusher /\ a \in Actor /\ writer \in WriterType
  BY ThreadLeavesProcess DEF BirthInv, Flusher, Actor, MasterInv, TypeOK, WriterType
<1>2. MayCommit /\ MayCommit' /\ ~Early'
  BY <1>1 DEF MayCommit, Early
<1>3. CASE Commit(a) /\ Dirty
  BY <1>1, <1>2, <1>3, CommitNames DEF NameInv
<1>4. ASSUME Spread, writer'.segs = writer.segs, writer'.gen = writer.gen
      PROVE  NameInv'
  BY <1>1, <1>2, <1>4, NamesStay
<1>5. CASE FlushStep(a) /\ ~(Commit(a) /\ Dirty)
  BY <1>1, <1>4, <1>5, FlushWrites DEF Spread
<1>6. CASE PushFile(a)
  BY <1>1, <1>4, <1>6, FileStepSpreads DEF PushFile, masterVars, MasterInv
<1>7. CASE Tick(a) \/ ForceMerge(a) \/ Request(a) \/ ReadMaster(a) \/ ReadReplica(a)
           \/ PushDone(a) \/ PushFails(a)
  <2>1. UNCHANGED data
    BY <1>7 DEF Tick, ForceMerge, Request, ReadMaster, ReadReplica, PushDone, PushFails
  <2>2. writer'.segs = writer.segs /\ writer'.gen = writer.gen
    BY <1>1, <1>7 DEF Tick, ForceMerge, MergeSegments, Request, ReadMaster, ReadReplica, PushDone,
                      PushFails, masterVars, WriterType
  <2> QED BY <1>4, <2>1, <2>2 DEF Spread
<1> QED BY <1>3, <1>5, <1>6, <1>7 DEF ThreadStep, FlushStep

LEMMA ProcessKeepsNames ==
  ASSUME MasterInv, ThreadsOff, BirthInv, NameInv, ProcessStep \/ Fault
  PROVE  NameInv'
<1> USE ProcessPhases
<1>1. /\ pc \in [Actor -> AnyPhase] /\ starts \in Nat
      /\ \A s \in Slaves : pc'[s] = pc[s] /\ Intact(s)
  BY MasterAssumption, ProcessTouches DEF MasterInv, TypeOK, SyncTypeOK, MasterTouches, Untouched
<1>2. ASSUME ~(starts' <= 1) PROVE NameInv'
  <2>1. ~Early'
    BY <1>2 DEF Early
  <2> QED BY <1>2, <2>1 DEF NameInv
<1>3. CASE Boot
  <2>1. CASE starts # 0
    <3>1. starts' = starts + 1
      BY <1>3 DEF Boot
    <3> QED BY <1>1, <1>2, <2>1, <3>1
  <2>2. CASE starts = 0
    <3>1. Early /\ UNCHANGED data /\ starts <= 1
      BY <1>3, <2>2 DEF Early, Boot, FromRemote
    <3>2. \A s \in Slaves : Blank(s)' /\ pc'[s] \in {"down", "create"}
      BY <1>1, <3>1 DEF NameInv, Blank, Intact
    <3>3. ~MayCommit'
      BY <1>1, <1>3 DEF Boot, FromRemote, Leave, Start, MayCommit
    <3> QED BY <3>1, <3>2, <3>3, NamesStay DEF Spread
  <2> QED BY <2>1, <2>2
<1>4. CASE BootStep \/ BootDone \/ BootFails
  <2>1. pc[Indexer] \in {"bootpull", "bootpush"}
    BY <1>4, FileStepMoves, FlusherPlaces DEF BootStep, BootDone, BootFails, FileMissing, MasterInv
  <2>2. UNCHANGED starts
    BY <1>4 DEF BootStep, BootDone, BootFails, masterVars
  <2> QED BY <1>2, <2>1, <2>2 DEF BirthInv
<1>5. CASE OpenWriter
  <2>1. CASE starts # 1
    <3>1. UNCHANGED starts /\ starts # 0
      BY <1>5 DEF OpenWriter, BirthInv
    <3> QED BY <1>1, <1>2, <2>1, <3>1
  <2>2. CASE starts = 1
    <3>1. pc[Indexer] = "open" /\ starts' = 1
      BY <1>5, <2>2 DEF OpenWriter
    <3>2. /\ Unborn /\ UNCHANGED <<data, manifest>> /\ writer' = [Closed EXCEPT !.open = TRUE]
          /\ pc' = [a \in Actor |-> CASE a = Indexer -> "up" [] a \in Threads -> "idle" [] OTHER -> pc[a]]
      BY <1>5, <2>2, <3>1, FirstOpen
    <3>3. pc'[Indexer] = "up"
      BY <3>2, ActorsAssumption
    <3>4. \A s \in Store : Blank(s)
      BY <2>2, <3>1, <3>2 DEF Early, NameInv, Unborn, Store
    <3>5. \A s \in Store : Blank(s)'
      BY <3>2, <3>4 DEF Blank
    <3>6. NamesMeanOneContent' /\ NamesAreOld'
      BY <3>5 DEF Blank, NamesMeanOneContent, NamesAreOld, NoBlob
    <3>7. SegmentsAreOld'
      BY <3>2 DEF SegmentsAreOld, Closed
    <3> QED BY <3>1, <3>3, <3>6, <3>7 DEF NameInv, Early
  <2> QED BY <2>1, <2>2
<1>6. CASE FlushStep(Indexer)
  <2>1. pc[Indexer] \in {"commit", "list", "sizes", "write", "replace", "create", "writing"} /\ pc'[Indexer] # "open"
    BY <1>1, <1>6, FlushPhase DEF Elsewhere
  <2>2. MayCommit /\ UNCHANGED starts /\ starts # 0
    BY <1>6, <2>1
    DEF MayCommit, FlushStep, Commit, ListFiles, ReadSizes, FindManifest, DeleteManifest, CreateManifest, CloseManifest, masterVars,
        BirthInv
  <2>3. ~Early'
    BY <2>1, <2>2 DEF Early
  <2>4. CASE Commit(Indexer) /\ Dirty
    BY <2>2, <2>3, <2>4, CommitNames DEF NameInv
  <2>5. CASE ~(Commit(Indexer) /\ Dirty)
    BY <1>6, <2>2, <2>3, <2>5, FlushWrites, NamesStay DEF Spread
  <2> QED BY <2>4, <2>5
<1>7. CASE CloseWriter
  <2>1. UNCHANGED <<data, starts>> /\ starts # 0 /\ pc'[Indexer] = "down"
    BY <1>1, <1>7 DEF CloseWriter, Leave, BirthInv
  <2> QED BY <2>1, NamesStay DEF Spread, MayCommit, Early
<1>8. CASE Fault
  <2>1. PICK next \in {"commit", "close", "down"} : /\ Interrupt(next)
                                                    /\ next = "down" \/ (Shutdown /\ next # "down")
    BY <1>8 DEF Fault, Shutdown, Kill, LosePod
  <2>2. pc'[Indexer] = next
    BY <2>1, ActorsAssumption DEF Interrupt
  <2>3. UNCHANGED starts /\ starts # 0
    BY <1>8 DEF Fault, Shutdown, Kill, LosePod, BirthInv
  <2>4. ~Early'
    BY <2>1, <2>2, <2>3 DEF Early
  <2>5. Spread
    <3>1. data \in [Store -> [FileName -> Blob]] /\ Local \in Store
      BY DEF MasterInv, TypeOK, SyncTypeOK, Store
    <3>2. CASE UNCHANGED data
      BY <3>2 DEF Spread
    <3>3. CASE data' = [data EXCEPT ![Local] = [f \in FileName |-> NoBlob]]
      BY <3>1, <3>3 DEF Spread, NoBlob
    <3> QED BY <1>8, <3>2, <3>3 DEF Fault, Shutdown, Kill, LosePod
  <2>6. MayCommit' => MayCommit /\ writer' = writer
    <3>1. CASE next = "down"
      BY <2>2, <3>1 DEF MayCommit
    <3>2. CASE Shutdown
      BY <3>2 DEF Shutdown, MayCommit
    <3> QED BY <2>1, <3>1, <3>2
  <2> QED BY <2>3, <2>4, <2>5, <2>6, NamesStay
<1> QED BY <1>3, <1>4, <1>5, <1>6, <1>7, <1>8 DEF ProcessStep

LEMMA MasterKeepsNames ==
  ASSUME MasterInv, ThreadsOff, BirthInv, NameInv, [Next]_vars
  PROVE  NameInv'
<1>1. CASE AddDocument \/ BackgroundMerge \/ UNCHANGED vars
  <2>1. UNCHANGED <<data, manifest, pc, starts>>
    BY <1>1 DEF AddDocument, BackgroundMerge, vars, syncVars, masterVars
  <2>2. writer'.segs = writer.segs /\ writer'.gen = writer.gen
    BY <1>1 DEF AddDocument, BackgroundMerge, MergeSegments, vars, masterVars, MasterInv, TypeOK
  <2>3. Spread /\ (Early' <=> Early) /\ (MayCommit' <=> MayCommit)
    BY <2>1 DEF Spread, Early, MayCommit
  <2>4. Early' => \A s \in Slaves : Blank(s)' /\ pc'[s] \in {"down", "create"}
    BY <2>1, <2>3 DEF NameInv, Blank
  <2> QED BY <2>1, <2>2, <2>3, <2>4, NamesStay
<1> QED BY <1>1, ThreadKeepsNames, ProcessKeepsNames DEF Next

\* Until the indexer's second start, a file name means one content in the whole
\* system, for any number of fibers and searchers, whatever fails meanwhile: what
\* comparing names and sizes rests on (IndexManifest.diff).
THEOREM NamesStayUnique == DistSpec => [](starts <= 1 => NamesMeanOneContent)
<1> DEFINE Inv == DistInv /\ ThreadsOff /\ BirthInv /\ NameInv
<1>1. DistInit => Inv
  <2> SUFFICES ASSUME DistInit PROVE Inv
    OBVIOUS
  <2>1. DistInv /\ ThreadsOff /\ BirthInv
    BY DistInitially, ThreadsOffInitially, BirthInitially DEF DistInit
  <2>2. \A s \in Store : Blank(s)
    BY DEF DistInit, Init, SyncInit, Blank
  <2>3. \A s \in Slaves : Blank(s) /\ pc[s] \in {"down", "create"}
    BY <2>2, SlavesApart, ActorsAssumption DEF DistInit, Init
  <2>4. NamesMeanOneContent /\ ~MayCommit
    BY <2>2, BlankNames, ProcessPhases, ActorsAssumption DEF DistInit, Init, MayCommit
  <2> QED BY <2>1, <2>3, <2>4 DEF NameInv
<1>2. Inv /\ [DistNext]_distVars => Inv'
  <2> SUFFICES ASSUME Inv, [DistNext]_distVars PROVE Inv'
    OBVIOUS
  <2>1. MasterInv
    BY DEF DistInv
  <2>2. CASE [Next]_vars
    BY <2>1, <2>2, DistKeepsTypes, ThreadsOffStep, BirthStep, MasterKeepsNames
  <2>3. CASE \E s \in Slaves : (SlaveStep(s) \/ SlaveKill(s)) /\ UNCHANGED masterVars
    BY <2>1, <2>3, DistKeepsTypes, SlaveKeepsNames
  <2> QED BY <2>2, <2>3, DistSteps
<1>3. Inv => (starts <= 1 => NamesMeanOneContent)
  BY DEF NameInv
<1> HIDE DEF Inv
<1> QED BY <1>1, <1>2, <1>3, PTL DEF DistSpec

-----------------------------------------------------------------------------
(* File names in all lives of the indexer.  A writer that opens goes on from *)
(* the highest generation it finds in the directory, so that generation must *)
(* not be behind what the object store holds.                                *)

\* What is listed is one commit: one segments_g, and nothing later.
OneCommit(m) ==
  Listed(m) = {} \/ \E h \in Gen :
    /\ Segments(h) \in Listed(m)
    /\ \A f \in Listed(m) : f[2] <= h
    /\ \A g \in Gen : Segments(g) \in Listed(m) => g = h

\* The directory has a commit that is not older than what m lists.
Reaches(m) ==
  \A f \in Listed(m) : \E h \in Gen : f[2] <= h /\ data[Local][Segments(h)].st = "whole"

\* The disk was lost.
Lost == Listed(manifest[Local]) = {} /\ manifest[Local].st = "absent"

\* A start copies the object store: its commit is there, or will be.
Comes(h) ==
  \/ Add(Segments(h)) \in ops[Indexer]
  \/ data[Local][Segments(h)].st = "whole" /\ Del(Segments(h)) \notin ops[Indexer]

Fetching ==
  /\ \A f \in Listed(manifest[Remote]) : \E h \in Gen : f[2] <= h /\ Comes(h)
  /\ \A f \in FileName : Add(f) \in ops[Indexer] => Del(f) \notin ops[Indexer]
  /\ Add(MANIFEST_FILE_NAME) \in ops[Indexer] \/ manifest[Local] = manifest[Remote]

\* The writer is ahead of everything that is listed and of the object store.
WriterLeads ==
  /\ \A s \in {Local, Remote} : \A f \in Listed(manifest[s]) : f[2] <= writer.gen
  /\ \A f \in FileName : data[Remote][f].st = "whole" => f[2] <= writer.gen

GenerationsInv ==
  \/ pc[Indexer] \notin WriterOff /\ WriterLeads
  \/ pc[Indexer] = "bootpull" /\ Fetching
  \/ /\ pc[Indexer] \in WriterOff \ {"bootpull"}
     /\ Reaches(manifest[Local])
     /\ Reaches(manifest[Remote]) \/ (pc[Indexer] = "down" /\ Lost)

LastingInv ==
  /\ \A s \in Slaves, f \in FileName : data[s][f] = NoBlob
  /\ NamesMeanOneContent
  /\ OneCommit(manifest[Local]) /\ OneCommit(manifest[Remote])
  /\ manifest[Remote].st = "absent" => Listed(manifest[Remote]) = {}
  /\ GenerationsInv

LEMMA NothingListed == Listed(NoManifest) = {} /\ Listed(TornManifest) = {}
  BY DEF Listed, NoManifest, TornManifest, NoFiles

LEMMA ListedFiles ==
  /\ \A m : \A f \in Listed(m) : f \in FileName /\ f[2] \in Gen
  /\ \A g \in Gen : Segments(g) \in FileName /\ Seg(g) \in FileName /\ Segments(g)[2] = g /\ Seg(g)[2] = g
  /\ \A g, h \in Gen : Segments(g) = Segments(h) => g = h
  /\ Gen \subseteq Nat
  BY DEF Listed, FileName, Segments, Seg, Gen

LEMMA LastingInitially == Init => LastingInv
<1> SUFFICES ASSUME Init PROVE LastingInv
  OBVIOUS
<1>1. /\ \A s \in Store : manifest[s] = NoManifest /\ \A f \in FileName : data[s][f] = NoBlob
      /\ pc[Indexer] = "down"
  BY ActorsAssumption DEF Init, SyncInit, Actor
<1>2. Local \in Store /\ Remote \in Store /\ Slaves \subseteq Store
  BY DEF Store
<1>3. NamesMeanOneContent
  BY <1>1 DEF NamesMeanOneContent
<1> QED BY <1>1, <1>2, <1>3, NothingListed
        DEF LastingInv, GenerationsInv, OneCommit, Reaches, WriterOff, NoManifest

\* A step that writes nothing new, and does not touch the searchers.
LEMMA LastingStays ==
  ASSUME LastingInv, Spread, MasterTouches,
         OneCommit(manifest'[Local]), OneCommit(manifest'[Remote]),
         manifest'[Remote].st = "absent" => Listed(manifest'[Remote]) = {},
         GenerationsInv'
  PROVE  LastingInv'
<1>1. NamesMeanOneContent'
  BY DEF LastingInv, NamesMeanOneContent, Spread
<1>2. \A s \in Slaves, f \in FileName : data'[s][f] = NoBlob
  BY DEF LastingInv, MasterTouches, Intact
<1>3. OneCommit(manifest[Local])' /\ OneCommit(manifest[Remote])'
  BY DEF OneCommit
<1>4. (manifest[Remote].st = "absent" => Listed(manifest[Remote]) = {})'
  BY DEF Listed
<1> QED BY <1>1, <1>2, <1>3, <1>4 DEF LastingInv

LEMMA WriterIsLeading ==
  ASSUME LastingInv, pc[Indexer] \notin WriterOff
  PROVE  WriterLeads
  BY DEF LastingInv, GenerationsInv, WriterOff

\* The writer goes on and nothing is written.
LEMMA WriterLasts ==
  ASSUME LastingInv, MasterTouches, UNCHANGED <<data, manifest>>, writer'.gen = writer.gen,
         pc[Indexer] \notin WriterOff, pc'[Indexer] \notin WriterOff
  PROVE  LastingInv'
<1>1. WriterLeads'
  BY WriterIsLeading DEF WriterLeads, Listed
<1>2. GenerationsInv'
  BY <1>1 DEF GenerationsInv
<1> QED BY <1>2, LastingStays DEF LastingInv, Spread

\* A commit has a generation of its own, and it is the newest.
LEMMA CommitLasts ==
  ASSUME MasterInv, UncutInv, LastingInv, MasterTouches, NEW a \in Flusher, Commit(a), Dirty,
         pc[Indexer] \notin WriterOff, pc'[Indexer] \notin WriterOff
  PROVE  LastingInv'
<1> DEFINE g == writer.gen + 1
<1>1. /\ writer \in WriterType /\ data \in [Store -> [FileName -> Blob]]
      /\ {Local, Remote} \subseteq Store /\ Local # Remote
      /\ \A s \in Store : s = Local \/ s = Remote \/ s \in Slaves
      /\ SegmentsAreOld /\ WriterLeads
  BY WriterIsLeading DEF UncutInv, DiskInv, MasterInv, TypeOK, SyncTypeOK, WriterType, Store, Local, Remote
<1>2. g \in Gen /\ writer.gen \in Nat /\ g \in Nat
  BY <1>1, BoundsAssumption DEF MasterInv, Room, Dirty, WriterType, Gen
<1>3. /\ data' = [data EXCEPT ![Local] = Committed(g)] /\ UNCHANGED manifest
      /\ writer' = [writer EXCEPT !.seq = @ + 1, !.gen = g, !.segs = NewSegs(g),
                                  !.buffer = {}, !.merged = FALSE]
  BY DEF Commit
<1>4. \A f \in FileName : \/ f = Segments(g) \/ f = Seg(g)
                          \/ Committed(g)[f] = NoBlob \/ Committed(g)[f] = data[Local][f]
  <2> HIDE DEF g
  <2> QED BY <1>1, <1>2, CommitWrites DEF g
<1>5. g = writer.gen + 1
  OBVIOUS
<1> HIDE DEF g
<1>6. /\ writer'.gen = g /\ data'[Local] = Committed(g)
      /\ \A s \in Store \ {Local} : data'[s] = data[s]
  BY <1>1, <1>3 DEF WriterType
<1>7. ASSUME NEW f \in FileName, data[Remote][f].st = "whole"
      PROVE  f[2] # g /\ f[2] <= g
  <2>1. f[2] <= writer.gen /\ f[2] \in Nat
    BY <1>1, <1>7 DEF WriterLeads, FileName, Gen
  <2> QED BY <1>2, <1>5, <2>1
<1>8. ASSUME NEW f \in FileName, data'[Local][f].st = "whole", data[Remote][f].st = "whole"
      PROVE  data'[Local][f] = data[Remote][f]
  <2>1. f # Segments(g) /\ f # Seg(g)
    BY <1>7, <1>8 DEF Segments, Seg
  <2>2. data'[Local][f] = data[Local][f]
    BY <1>4, <1>6, <1>8, <2>1 DEF NoBlob
  <2> QED BY <1>1, <1>8, <2>2 DEF LastingInv, NamesMeanOneContent
<1>9. NamesMeanOneContent'
  <2> SUFFICES ASSUME NEW s \in Store, NEW r \in Store, NEW f \in FileName,
                      data'[s][f].st = "whole", data'[r][f].st = "whole"
               PROVE  data'[s][f] = data'[r][f]
    BY DEF NamesMeanOneContent
  <2>1. \A x \in {s, r} : x \in {Local, Remote}
    BY <1>1, <1>6 DEF LastingInv, NoBlob
  <2>2. data'[Remote] = data[Remote]
    BY <1>1, <1>6
  <2> QED BY <1>8, <2>1, <2>2
<1>10. WriterLeads'
  <2>1. ASSUME NEW s \in {Local, Remote}, NEW f \in Listed(manifest[s])
        PROVE  f[2] <= g
    <3>1. f[2] <= writer.gen /\ f[2] \in Nat
      BY <1>1, ListedFiles DEF WriterLeads
    <3> QED BY <1>2, <1>5, <3>1
  <2>2. \A f \in FileName : data'[Remote][f].st = "whole" => f[2] <= g
    BY <1>1, <1>6, <1>7
  <2>3. \A s \in {Local, Remote} : Listed(manifest[s])' = Listed(manifest[s])
    BY <1>3 DEF Listed
  <2> QED BY <1>6, <2>1, <2>2, <2>3 DEF WriterLeads
<1>11. \A s \in Slaves, f \in FileName : data'[s][f] = NoBlob
  BY DEF LastingInv, MasterTouches, Intact
<1> QED BY <1>3, <1>9, <1>10, <1>11 DEF LastingInv, GenerationsInv, OneCommit, Listed

\* What describes the last commit is one commit.
LEMMA LastCommitIsOne ==
  ASSUME TypeOK, SegmentsAreOld, NEW m, m.files = LocalFiles
  PROVE  OneCommit(m) /\ \A f \in Listed(m) : f[2] <= writer.gen
<1>1. writer \in WriterType /\ writer.segs \subseteq Gen /\ writer.gen \in 0..MaxGen
  BY DEF TypeOK, WriterType
<1>2. Listed(m) = CommitFiles
  BY CommitFilesAreFiles DEF Listed
<1>3. \A f \in CommitFiles : \/ f = Segments(writer.gen) /\ writer.gen # 0
                             \/ \E g \in writer.segs : f = Seg(g)
  BY DEF CommitFiles
<1>4. \A g, h : Seg(g) # Segments(h) /\ Seg(g)[2] = g /\ Segments(h)[2] = h
  BY DEF Seg, Segments
<1>5. writer.gen \in Nat /\ \A g \in Gen : g \in Nat /\ g # 0
  BY <1>1, BoundsAssumption DEF Gen
<1>6. \A f \in CommitFiles : f[2] <= writer.gen
  BY <1>3, <1>4, <1>5 DEF SegmentsAreOld
<1>7. CASE writer.gen = 0
  <2>1. writer.segs = {}
    BY <1>1, <1>5, <1>7 DEF SegmentsAreOld, Gen
  <2>2. CommitFiles = {}
    BY <1>3, <1>7, <2>1
  <2> QED BY <1>2, <2>2 DEF OneCommit
<1>8. CASE writer.gen # 0
  <2>1. writer.gen \in Gen /\ Segments(writer.gen) \in CommitFiles
    BY <1>1, <1>5, <1>8, BoundsAssumption DEF Gen, CommitFiles
  <2>2. \A g \in Gen : Segments(g) \in CommitFiles => g = writer.gen
    BY <1>3, <1>4
  <2> QED BY <1>2, <1>6, <2>1, <2>2 DEF OneCommit
<1> QED BY <1>7, <1>8

LEMMA FlushLasts ==
  ASSUME MasterInv, UncutInv, LastingInv, NEW a \in Flusher, FlushStep(a),
         pc[Indexer] \notin WriterOff, pc'[Indexer] \notin WriterOff
  PROVE  LastingInv'
<1>1. MasterTouches
  BY FlushTouches DEF MasterInv
<1>2. CASE Commit(a) /\ Dirty
  BY <1>1, <1>2, CommitLasts
<1>3. CASE ~(Commit(a) /\ Dirty)
  <2>1. UNCHANGED <<data, writer, starts>>
    BY <1>3, FlushWrites
  <2>2. /\ manifest \in [Store -> Manifest] /\ {Local, Remote} \subseteq Store /\ Local # Remote
        /\ WriterLeads /\ SegmentsAreOld /\ MakingInv(a) /\ TypeOK
    BY WriterIsLeading DEF MasterInv, TypeOK, SyncTypeOK, Store, Local, Remote, UncutInv, DiskInv
  <2>3. \/ UNCHANGED manifest
        \/ \E m \in {NoManifest, TornManifest} : manifest' = [manifest EXCEPT ![Local] = m]
        \/ pc[a] = "writing" /\ manifest' = [manifest EXCEPT ![Local] = hand[a]]
    <3>1. CASE WritesManifest(a)
      BY <3>1, ManifestWrites DEF Fail
    <3>2. CASE CloseManifest(a)
      BY <3>2 DEF CloseManifest
    <3>3. CASE Commit(a) \/ ListFiles(a) \/ ReadSizes(a)
      BY <3>3 DEF Commit, ListFiles, ReadSizes
    <3> QED BY <3>1, <3>2, <3>3 DEF FlushStep, WritesManifest
  <2>4. PICK m : /\ m = manifest[Local] \/ m \in {NoManifest, TornManifest}
                    \/ m.files = LocalFiles
                 /\ manifest'[Local] = m /\ manifest'[Remote] = manifest[Remote]
    BY <2>2, <2>3 DEF MakingInv
  <2>5. OneCommit(m) /\ \A f \in Listed(m) : f[2] <= writer.gen
    <3>1. CASE m = manifest[Local]
      BY <2>2, <3>1 DEF LastingInv, WriterLeads
    <3>2. CASE m \in {NoManifest, TornManifest}
      BY <3>2, NothingListed DEF OneCommit
    <3>3. CASE m.files = LocalFiles
      BY <2>2, <3>3, LastCommitIsOne
    <3> QED BY <2>4, <3>1, <3>2, <3>3
  <2>6. WriterLeads'
    BY <2>1, <2>2, <2>4, <2>5 DEF WriterLeads, Listed
  <2> QED BY <1>1, <2>1, <2>4, <2>5, <2>6, LastingStays DEF LastingInv, GenerationsInv, Spread
<1> QED BY <1>2, <1>3

\* A push takes to the object store what the directory's index.json lists.
LEMMA PushLasts ==
  ASSUME MasterInv, UncutInv, LastingInv, NEW a \in Flusher, FileStep(a), UNCHANGED masterVars,
         pc[a] \in Pushing, Src(a) = Local, Dst(a) = Remote,
         manifest[Local].st = "whole",
         pc[Indexer] \in {"bootpush", "up"}
  PROVE  LastingInv'
<1>1. /\ a \in Actor /\ {Local, Remote} \subseteq Store /\ Local # Remote
      /\ data \in [Store -> [FileName -> Blob]] /\ manifest \in [Store -> Manifest]
      /\ ops \in [Actor -> SUBSET ChangedFileOp] /\ TypeOK
  BY DEF MasterInv, TypeOK, SyncTypeOK, Store, Local, Remote, Actor, Flusher
<1>2. UNCHANGED <<pc, writer>> /\ Spread /\ MasterTouches
  BY <1>1, FileStepMoves, FileStepSpreads, CopyTouches DEF masterVars
<1>3. /\ manifest'[Local] = manifest[Local]
      /\ manifest'[Remote] = manifest[Remote] \/ manifest'[Remote] = manifest[Local]
  BY <1>1, FileStepMoves
<1>4. /\ data'[Local] = data[Local]
      /\ \A f \in FileName : data'[Remote][f].st = "whole" =>
           data'[Remote][f] = data[Remote][f] \/ f \in Listed(manifest[Local])
  <2>1. \A op \in ops[a] : op.op = "Add" => op.file \in Listed(manifest[Local]) \cup {MANIFEST_FILE_NAME}
    BY DEF UncutInv, StoreInv, Copying
  <2>2. CASE CopyFile(a)
    BY <1>1, <2>1, <2>2 DEF CopyFile
  <2>3. CASE DeleteFile(a)
    BY <1>1, <2>3 DEF DeleteFile, NoBlob
  <2> QED BY <2>2, <2>3 DEF FileStep, DeleteOutput, CreateOutput
<1>5. GenerationsInv'
  <2>1. CASE pc[Indexer] = "up"
    <3>1. WriterLeads
      BY <2>1, WriterIsLeading DEF WriterOff
    <3>2. WriterLeads'
      BY <1>2, <1>3, <1>4, <3>1 DEF WriterLeads, Listed
    <3> QED BY <1>2, <2>1, <3>2 DEF GenerationsInv, WriterOff
  <2>2. CASE pc[Indexer] = "bootpush"
    <3>1. Reaches(manifest[Local]) /\ Reaches(manifest[Remote])
      BY <2>2 DEF LastingInv, GenerationsInv, WriterOff
    <3>2. Reaches(manifest[Local])' /\ Reaches(manifest[Remote])'
      BY <1>3, <1>4, <3>1 DEF Reaches, Listed
    <3> QED BY <1>2, <2>2, <3>2 DEF GenerationsInv, WriterOff
  <2> QED BY <2>1, <2>2
<1>6. manifest'[Remote].st = "absent" => Listed(manifest'[Remote]) = {}
  BY <1>3 DEF LastingInv
<1> QED BY <1>2, <1>3, <1>5, <1>6, LastingStays DEF LastingInv

\* A start that copies the object store takes over its commit.
LEMMA FetchStarts ==
  ASSUME LastingInv, Reaches(manifest[Local]), NEW todo,
         todo = Diff(manifest[Remote], manifest[Local])
  PROVE  /\ \A f \in Listed(manifest[Remote]) : \E h \in Gen :
              /\ f[2] <= h
              /\ \/ Add(Segments(h)) \in todo
                 \/ data[Local][Segments(h)].st = "whole" /\ Del(Segments(h)) \notin todo
         /\ \A f \in FileName : Add(f) \in todo => Del(f) \notin todo
         /\ Add(MANIFEST_FILE_NAME) \in todo
<1> DEFINE L == manifest[Local]
           R == manifest[Remote]
           Got(h) == \/ Add(Segments(h)) \in todo
                     \/ data[Local][Segments(h)].st = "whole" /\ Del(Segments(h)) \notin todo
<1>1. /\ \A f : Del(f) \in todo => f \in Listed(L) \ Listed(R)
      /\ \A f \in FileName : Add(f) \in todo => f \in Listed(R)
      /\ \A f \in Listed(R) : Add(f) \in todo \/ f \in Listed(L)
      /\ Add(MANIFEST_FILE_NAME) \in todo
  <2>1. \A f \in Listed(R) : Add(f) \in todo \/ R.files[f] = L.files[f]
    BY DEF Diff
  <2>2. \A f \in Listed(R) : R.files[f] = L.files[f] => f \in Listed(L)
    BY DEF Listed
  <2> QED BY <2>1, <2>2, OpsDiffer DEF Diff
<1>2. ASSUME NEW f \in Listed(R) PROVE \E h \in Gen : f[2] <= h /\ Got(h)
  <2>1. PICK h \in Gen : Segments(h) \in Listed(R) /\ f[2] <= h
    BY DEF LastingInv, OneCommit
  <2>2. CASE Add(Segments(h)) \in todo
    BY <2>1, <2>2
  <2>3. CASE Add(Segments(h)) \notin todo
    <3>1. Segments(h) \in Listed(L)
      BY <1>1, <2>1, <2>3
    <3>2. PICK k \in Gen : h <= k /\ data[Local][Segments(k)].st = "whole"
      BY <3>1, ListedFiles DEF Reaches
    <3>3. Del(Segments(k)) \notin todo
      <4>1. Segments(k) \in Listed(L) => k = h
        BY <3>1, <3>2, ListedFiles DEF LastingInv, OneCommit
      <4> QED BY <1>1, <2>1, <4>1
    <3>4. f[2] <= k
      BY <2>1, <3>2, ListedFiles
    <3> QED BY <3>2, <3>3, <3>4
  <2> QED BY <2>2, <2>3
<1> QED BY <1>1, <1>2

LEMMA PullLasts ==
  ASSUME MasterInv, ThreadsOff, UncutInv, LastingInv, FileStep(Indexer), UNCHANGED masterVars,
         pc[Indexer] = "bootpull", Src(Indexer) = Remote, Dst(Indexer) = Local
  PROVE  LastingInv'
<1> DEFINE a == Indexer
<1>1. /\ a \in Actor /\ a \in Flusher /\ {Local, Remote} \subseteq Store /\ Local # Remote
      /\ data \in [Store -> [FileName -> Blob]] /\ manifest \in [Store -> Manifest]
      /\ ops \in [Actor -> SUBSET ChangedFileOp] /\ outs \in [Actor -> SUBSET ChangedFileOp]
      /\ TypeOK
  BY ProcessPhases DEF MasterInv, TypeOK, SyncTypeOK, Store, Local, Remote
<1>2. UNCHANGED <<pc, writer>> /\ Spread /\ MasterTouches
  BY <1>1, FileStepMoves, FileStepSpreads, CopyTouches DEF masterVars
<1>3. Fetching
  BY DEF LastingInv, GenerationsInv, WriterOff
<1>4. \A f \in FileName : data[Remote][f].st # "absent" => data[Remote][f].st = "whole"
  <2>1. NoPush
    BY DEF NoPush, Pushing, ThreadsOff, Flusher
  <2>2. Exact(Remote)
    BY <2>1 DEF UncutInv, StoreInv
  <2> QED BY <2>2 DEF Exact, Matches
<1>5. manifest'[Remote] = manifest[Remote] /\ data'[Remote] = data[Remote]
  <2>1. Remote \in Store \ {Dst(a)}
    BY <1>1
  <2> QED BY <1>1, <2>1, FileStepStores DEF Intact
<1>6. \/ manifest'[Local] = manifest[Local] \/ manifest'[Local] \in {NoManifest, TornManifest}
      \/ manifest'[Local] = manifest[Remote]
  BY <1>1, FileStepMoves
<1>7. ops'[a] \subseteq ops[a]
  BY <1>1 DEF FileStep, DeleteOutput, CreateOutput, CopyFile, DeleteFile, Finished
<1>8. Add(MANIFEST_FILE_NAME) \in ops'[a] \/ manifest'[Local] = manifest[Remote]
  <2>1. CASE DeleteOutput(a) \/ CreateOutput(a)
    <3>1. ops'[a] = ops[a]
      BY <2>1 DEF DeleteOutput, CreateOutput
    <3>2. \/ UNCHANGED manifest
          \/ Add(MANIFEST_FILE_NAME) \in ops[a]
      <4>1. PICK op \in ops[a] : op.op = "Add" /\ \E m, b : Emptied(a, op, m, b)
        BY <2>1 DEF DeleteOutput, CreateOutput
      <4>2. op \in ChangedFileOp
        BY <1>1
      <4> QED BY <4>1, <4>2, OpForms DEF Emptied
    <3> QED BY <1>3, <3>1, <3>2 DEF Fetching
  <2>2. CASE CopyFile(a)
    <3>1. PICK op \in ops[a] :
            /\ Finished(a, op)
            /\ IF op.file = MANIFEST_FILE_NAME
               THEN manifest' = [manifest EXCEPT ![Local] = manifest[Remote]]
               ELSE UNCHANGED manifest
      BY <2>2 DEF CopyFile
    <3>2. op # Add(MANIFEST_FILE_NAME) /\ Add(MANIFEST_FILE_NAME) \in ops[a] => Add(MANIFEST_FILE_NAME) \in ops'[a]
      BY <1>1, <3>1 DEF Finished
    <3>3. CASE op.file = MANIFEST_FILE_NAME
      BY <1>1, <3>1, <3>3
    <3>4. CASE op.file # MANIFEST_FILE_NAME
      <4>1. op # Add(MANIFEST_FILE_NAME)
        BY <3>4 DEF Add
      <4> QED BY <1>3, <3>1, <3>2, <3>4, <4>1 DEF Fetching
    <3> QED BY <3>3, <3>4
  <2>3. CASE DeleteFile(a)
    <3>1. PICK op \in ops[a] : op.op = "Del" /\ Finished(a, op) /\ UNCHANGED manifest
      BY <2>3 DEF DeleteFile
    <3>2. op # Add(MANIFEST_FILE_NAME)
      BY <3>1 DEF Add
    <3> QED BY <1>1, <1>3, <3>1, <3>2 DEF Finished, Fetching
  <2> QED BY <2>1, <2>2, <2>3 DEF FileStep
<1>9. ASSUME NEW h \in Gen, Comes(h) PROVE Comes(h)'
  <2> DEFINE f == Segments(h)
  <2>1. f \in FileName /\ f # MANIFEST_FILE_NAME
    BY ListedFiles, OpsDiffer
  <2>2. Add(f) \in ops[a] => Del(f) \notin ops'[a]
    BY <1>3, <1>7, <2>1 DEF Fetching
  <2>3. CASE Add(f) \in ops'[a]
    BY <2>3 DEF Comes
  <2>4. CASE Add(f) \in ops[a] /\ Add(f) \notin ops'[a]
    <3>1. CopyFile(a) /\ \E op \in ops[a] : op = Add(f) /\ Finished(a, op) /\ op.op = "Add"
      <4>1. PICK op \in ops[a] : Finished(a, op) /\ (op.op = "Del" \/ CopyFile(a))
        BY <2>4 DEF FileStep, DeleteOutput, CreateOutput, CopyFile, DeleteFile
      <4>2. op = Add(f)
        BY <1>1, <2>4, <4>1 DEF Finished
      <4> QED BY <4>1, <4>2, OpsDiffer
    <3>2. PICK op \in ops[a] :
            /\ op.op = "Add" /\ Finished(a, op) /\ HasSource(a, op)
            /\ IF op.file = MANIFEST_FILE_NAME
               THEN UNCHANGED data
               ELSE data' = [data EXCEPT ![Local][op.file] = data[Remote][op.file]]
      BY <3>1 DEF CopyFile, Read
    <3>3. op = Add(f)
      BY <1>1, <2>4, <3>2 DEF Finished
    <3>4. data'[Local][f] = data[Remote][f] /\ Present(Remote, f)
      BY <1>1, <2>1, <3>2, <3>3, OpsDiffer DEF HasSource
    <3>5. data'[Local][f].st = "whole"
      BY <1>4, <2>1, <3>4 DEF Present
    <3> QED BY <2>2, <2>4, <3>5 DEF Comes
  <2>5. CASE Add(f) \notin ops[a]
    <3>1. data[Local][f].st = "whole" /\ Del(f) \notin ops[a]
      BY <1>9, <2>5 DEF Comes
    <3>2. data'[Local][f] = data[Local][f]
      <4>1. CASE DeleteOutput(a) \/ CreateOutput(a)
        <5>1. PICK op \in ops[a] : op.op = "Add" /\ \E m, b : Emptied(a, op, m, b)
          BY <4>1 DEF DeleteOutput, CreateOutput
        <5>2. op.file # f
          BY <1>1, <2>5, <5>1, OpForms
        <5> QED BY <1>1, <2>1, <5>1, <5>2 DEF Emptied
      <4>2. CASE CopyFile(a)
        <5>1. PICK op \in ops[a] :
                /\ op.op = "Add"
                /\ IF op.file = MANIFEST_FILE_NAME
                   THEN UNCHANGED data
                   ELSE data' = [data EXCEPT ![Local][op.file] = data[Remote][op.file]]
          BY <4>2 DEF CopyFile, Read
        <5>2. op.file # f
          BY <1>1, <2>5, <5>1, OpForms
        <5> QED BY <1>1, <2>1, <5>1, <5>2
      <4>3. CASE DeleteFile(a)
        <5>1. PICK op \in ops[a] : op.op = "Del" /\ data' = [data EXCEPT ![Local][op.file] = NoBlob]
          BY <4>3 DEF DeleteFile
        <5>2. op.file # f
          BY <1>1, <3>1, <5>1, OpForms
        <5> QED BY <1>1, <2>1, <5>1, <5>2
      <4> QED BY <4>1, <4>2, <4>3 DEF FileStep
    <3> QED BY <1>7, <3>1, <3>2 DEF Comes
  <2> QED BY <2>3, <2>4, <2>5
<1>10. Fetching'
  <2>1. Listed(manifest[Remote])' = Listed(manifest[Remote])
    BY <1>5 DEF Listed
  <2>2. \A f \in Listed(manifest[Remote]) : \E h \in Gen : f[2] <= h /\ Comes(h)'
    BY <1>3, <1>9 DEF Fetching
  <2>3. \A f \in FileName : Add(f) \in ops'[a] => Del(f) \notin ops'[a]
    BY <1>3, <1>7 DEF Fetching
  <2> QED BY <1>5, <1>8, <2>1, <2>2, <2>3 DEF Fetching
<1>11. OneCommit(manifest'[Local])
  BY <1>6, NothingListed DEF LastingInv, OneCommit
<1> QED BY <1>2, <1>5, <1>10, <1>11, LastingStays DEF LastingInv, GenerationsInv

\* What is listed where a writer is at work is not ahead of its last commit.
LEMMA WriterReaches ==
  ASSUME MasterInv, UncutInv, LastingInv, pc[Indexer] \notin WriterOff
  PROVE  Reaches(manifest[Local]) /\ Reaches(manifest[Remote])
<1>1. writer.gen \in 0..MaxGen /\ WriterLeads
  BY WriterIsLeading DEF MasterInv, TypeOK
<1>2. ASSUME NEW s \in {Local, Remote}, NEW f \in Listed(manifest[s])
      PROVE  \E h \in Gen : f[2] <= h /\ data[Local][Segments(h)].st = "whole"
  <2>1. f[2] \in Gen /\ f[2] <= writer.gen
    BY <1>1, ListedFiles DEF WriterLeads
  <2>2. writer.gen \in Gen /\ writer.gen # 0
    BY <1>1, <2>1, BoundsAssumption DEF Gen
  <2>3. Segments(writer.gen) \in CommitFiles
    BY <2>2 DEF CommitFiles
  <2> QED BY <2>1, <2>2, <2>3 DEF UncutInv, DiskInv
<1> QED BY <1>2 DEF Reaches

\* A copy of the object store that is complete has its commit.
LEMMA FetchEnds ==
  ASSUME Fetching, ops[Indexer] = {}
  PROVE  Reaches(manifest[Local]) /\ Reaches(manifest[Remote])
  BY DEF Fetching, Comes, Reaches

\* The process goes on without a writer, and nothing is written.
LEMMA OffLasts ==
  ASSUME LastingInv, MasterTouches, UNCHANGED <<data, manifest>>,
         pc'[Indexer] \in WriterOff \ {"bootpull"}, Reaches(manifest[Local]),
         Reaches(manifest[Remote]) \/ (pc'[Indexer] = "down" /\ Lost)
  PROVE  LastingInv'
<1>1. GenerationsInv'
  BY DEF GenerationsInv, Reaches, Listed, Lost
<1> QED BY <1>1, LastingStays DEF LastingInv, Spread

LEMMA StopLasts ==
  ASSUME MasterInv, UncutInv, LastingInv, MasterTouches, UNCHANGED <<data, manifest>>,
         pc'[Indexer] = "down", pc[Indexer] = "bootpull" => ops[Indexer] = {}
  PROVE  LastingInv'
<1>1. pc'[Indexer] \in WriterOff \ {"bootpull"}
  BY DEF WriterOff
<1>2. CASE pc[Indexer] \notin WriterOff
  BY <1>1, <1>2, WriterReaches, OffLasts
<1>3. CASE pc[Indexer] = "bootpull"
  <2>1. Fetching
    BY <1>3 DEF LastingInv, GenerationsInv, WriterOff
  <2> QED BY <1>1, <1>3, <2>1, FetchEnds, OffLasts
<1>4. CASE pc[Indexer] \in WriterOff \ {"bootpull"}
  BY <1>1, <1>4, OffLasts DEF LastingInv, GenerationsInv
<1> QED BY <1>2, <1>3, <1>4

\* Without its disk the indexer takes the object store's commit.
LEMMA LosePodLasts ==
  ASSUME MasterInv, LastingInv, LosePod
  PROVE  LastingInv'
<1>1. /\ {Local, Remote} \subseteq Store /\ Local # Remote
      /\ data \in [Store -> [FileName -> Blob]] /\ manifest \in [Store -> Manifest]
      /\ MasterTouches
  BY ProcessTouches DEF Fault, MasterInv, TypeOK, SyncTypeOK, Store, Local, Remote
<1>2. /\ \A f \in FileName : data'[Local][f] = NoBlob
      /\ \A s \in Store \ {Local} : data'[s] = data[s]
      /\ manifest'[Local] = NoManifest /\ manifest'[Remote] = manifest[Remote]
  BY <1>1 DEF LosePod
<1>3. pc'[Indexer] = "down"
  BY ActorsAssumption DEF LosePod, Interrupt, Actor
<1>4. Spread
  BY <1>2 DEF Spread, NoBlob
<1>5. Lost' /\ Reaches(manifest[Local])'
  BY <1>2, NothingListed DEF Lost, Reaches, Listed, NoManifest
<1>6. GenerationsInv'
  BY <1>3, <1>5 DEF GenerationsInv, WriterOff
<1>7. OneCommit(manifest'[Local])
  BY <1>2, NothingListed DEF OneCommit
<1> QED BY <1>1, <1>2, <1>4, <1>6, <1>7, LastingStays DEF LastingInv

LEMMA FaultLasts ==
  ASSUME MasterInv, UncutInv, LastingInv, Fault, ~CutsCopy
  PROVE  LastingInv'
<1>1. MasterTouches /\ Indexer \in Flusher
  BY ProcessTouches, ProcessPhases DEF MasterInv
<1>2. CASE Shutdown
  <2>1. PICK next \in {"commit", "close"} : Interrupt(next)
    BY <1>2 DEF Shutdown
  <2>2. pc'[Indexer] = next
    BY <2>1, ActorsAssumption DEF Interrupt, Actor
  <2>3. pc[Indexer] \notin WriterOff /\ pc'[Indexer] \notin WriterOff
    BY <1>2, <2>2 DEF Shutdown, WriterOff
  <2> QED BY <1>1, <1>2, <2>3, WriterLasts DEF Shutdown
<1>3. CASE Kill
  <2>1. pc'[Indexer] = "down"
    BY <1>3, ActorsAssumption DEF Kill, Interrupt, Actor
  <2>2. pc[Indexer] = "bootpull" => ops[Indexer] = {}
    BY <1>1, <2>1 DEF CutsCopy, Syncing, Pulling
  <2> QED BY <1>1, <1>3, <2>1, <2>2, StopLasts DEF Kill
<1> QED BY <1>2, <1>3, LosePodLasts DEF Fault

LEMMA BootLasts ==
  ASSUME MasterInv, UncutInv, LastingInv, Boot
  PROVE  LastingInv'
<1>1. /\ pc[Indexer] = "down" /\ UNCHANGED <<data, manifest>> /\ MasterTouches
      /\ Home(Indexer) = Local /\ Indexer \in Actor /\ pc \in [Actor -> AnyPhase]
      /\ ops \in [Actor -> SUBSET ChangedFileOp]
  BY ActorsAssumption, ProcessPhases, ProcessTouches
     DEF Boot, FromRemote, ProcessStep, Home, MasterInv, TypeOK, SyncTypeOK
<1>2. Reaches(manifest[Local]) /\ (Reaches(manifest[Remote]) \/ Lost)
  BY <1>1 DEF LastingInv, GenerationsInv, WriterOff
<1>3. CASE Leave(Indexer, "down")
  <2>1. pc'[Indexer] = "down" /\ pc'[Indexer] \in WriterOff \ {"bootpull"}
    BY <1>1, <1>3 DEF Leave, WriterOff
  <2> QED BY <1>1, <1>2, <2>1, OffLasts
<1>4. CASE manifest[Local].st = manifest[Remote].st /\ Leave(Indexer, "open")
  <2>1. pc'[Indexer] \in WriterOff \ {"bootpull"}
    BY <1>1, <1>4 DEF Leave, WriterOff
  <2>2. Reaches(manifest[Remote])
    BY <1>2, <1>4 DEF Lost, LastingInv, Reaches
  <2> QED BY <1>1, <1>2, <2>1, <2>2, OffLasts
<1>5. CASE Start(Indexer, "bootpull", manifest[Remote], manifest[Local])
  <2> DEFINE todo == Diff(manifest[Remote], manifest[Local])
  <2>1. pc'[Indexer] = "bootpull" /\ ops'[Indexer] = todo
    BY <1>1, <1>5 DEF Start
  <2>2. /\ \A f \in Listed(manifest[Remote]) : \E h \in Gen :
              /\ f[2] <= h
              /\ \/ Add(Segments(h)) \in todo
                 \/ data[Local][Segments(h)].st = "whole" /\ Del(Segments(h)) \notin todo
        /\ \A f \in FileName : Add(f) \in todo => Del(f) \notin todo
        /\ Add(MANIFEST_FILE_NAME) \in todo
    BY <1>2, FetchStarts
  <2> HIDE DEF todo
  <2>3. Listed(manifest[Remote])' = Listed(manifest[Remote])
    BY <1>1 DEF Listed
  <2>4. Fetching'
    BY <1>1, <2>1, <2>2, <2>3 DEF Fetching, Comes
  <2>5. GenerationsInv'
    BY <2>1, <2>4 DEF GenerationsInv
  <2> QED BY <1>1, <2>5, LastingStays DEF LastingInv, Spread
<1>6. CASE manifest[Local].st = "whole" /\ Start(Indexer, "bootpush", manifest[Local], manifest[Remote])
  <2>1. pc'[Indexer] \in WriterOff \ {"bootpull"}
    BY <1>1, <1>6 DEF Start, WriterOff
  <2> QED BY <1>1, <1>2, <1>6, <2>1, OffLasts DEF Lost
<1> QED BY <1>1, <1>3, <1>4, <1>5, <1>6 DEF Boot, FromRemote

LEMMA BootEndsLasting ==
  ASSUME MasterInv, LastingInv, BootDone \/ BootFails, ~CutsCopy
  PROVE  LastingInv'
<1>1. /\ UNCHANGED <<data, manifest>> /\ MasterTouches
      /\ Indexer \in Actor /\ Indexer \in Flusher /\ pc \in [Actor -> AnyPhase]
  BY ProcessPhases, ProcessTouches DEF BootDone, BootFails, ProcessStep, MasterInv, TypeOK, SyncTypeOK
<1>2. BootDone
  <2>1. ASSUME BootFails PROVE FALSE
    <3>1. Syncing(Indexer) /\ ops[Indexer] # {} /\ pc'[Indexer] = "down"
      BY <1>1, <2>1 DEF BootFails, FileMissing, Leave
    <3> QED BY <1>1, <3>1 DEF CutsCopy, Syncing, Pulling, Pushing
  <2> QED BY <2>1
<1>3. pc'[Indexer] = "open" /\ pc'[Indexer] \in WriterOff \ {"bootpull"}
  BY <1>1, <1>2 DEF BootDone, Leave, WriterOff
<1>4. CASE pc[Indexer] = "bootpull"
  <2>1. Fetching
    BY <1>4 DEF LastingInv, GenerationsInv, WriterOff
  <2> QED BY <1>1, <1>2, <1>3, <2>1, FetchEnds, OffLasts DEF BootDone
<1>5. CASE pc[Indexer] = "bootpush"
  <2>1. Reaches(manifest[Local]) /\ Reaches(manifest[Remote])
    BY <1>5 DEF LastingInv, GenerationsInv, WriterOff
  <2> QED BY <1>1, <1>3, <2>1, OffLasts
<1> QED BY <1>2, <1>4, <1>5 DEF BootDone

\* A writer goes on from the highest generation in the directory.
LEMMA OpenLasts ==
  ASSUME MasterInv, ThreadsOff, UncutInv, LastingInv, OpenWriter
  PROVE  LastingInv'
<1> DEFINE up == [a \in Actor |->
             CASE a = Indexer -> "up" [] a \in Threads -> "idle" [] OTHER -> pc[a]]
           kept == [f \in FileName |->
             IF f = Segments(LastGen) \/ f \in {Seg(g) : g \in LastSegs}
             THEN data[Local][f] ELSE NoBlob]
<1>1. /\ pc[Indexer] = "open" /\ UNCHANGED manifest /\ MasterTouches
      /\ {Local, Remote} \subseteq Store /\ Local # Remote
      /\ data \in [Store -> [FileName -> Blob]]
      /\ Indexer \in Actor /\ pc \in [Actor -> AnyPhase]
  BY ProcessTouches, ProcessPhases
     DEF ProcessStep, OpenWriter, MasterInv, TypeOK, SyncTypeOK, Store, Local, Remote
<1>2. Reaches(manifest[Local]) /\ Reaches(manifest[Remote])
  BY <1>1 DEF LastingInv, GenerationsInv, WriterOff
<1>3. \A f \in FileName : data[Remote][f].st = "whole" => f \in Listed(manifest[Remote])
  <2>1. NoPush
    BY <1>1 DEF NoPush, Pushing, ThreadsOff, Flusher
  <2>2. Exact(Remote)
    BY <2>1 DEF UncutInv, StoreInv
  <2> QED BY <2>2 DEF Exact, Matches
<1>4. pc' = up => pc'[Indexer] \notin WriterOff
  BY ActorsAssumption DEF Actor, WriterOff
<1>5. \A f \in FileName : kept[f] \in {data[Local][f], NoBlob}
  OBVIOUS
<1>6. \/ Leave(Indexer, "down") /\ UNCHANGED <<data, writer>>
      \/ /\ Generations = {} /\ pc' = up /\ UNCHANGED data
         /\ writer' = [Closed EXCEPT !.open = TRUE]
      \/ /\ Generations # {} /\ pc' = up
         /\ writer' = [Closed EXCEPT !.open = TRUE, !.gen = LastGen, !.segs = LastSegs]
         /\ data' = [data EXCEPT ![Local] = kept]
  BY DEF OpenWriter
<1> HIDE DEF up, kept
<1>7. CASE Leave(Indexer, "down") /\ UNCHANGED <<data, writer>>
  <2>1. pc'[Indexer] \in WriterOff \ {"bootpull"}
    BY <1>1, <1>7 DEF Leave, WriterOff
  <2> QED BY <1>1, <1>2, <1>7, <2>1, OffLasts
<1>8. \A h \in Gen : data[Local][Segments(h)].st = "whole" => h \in Generations
  BY DEF Generations, Present
<1>9. ASSUME pc' = up, Spread, data'[Remote] = data[Remote],
             \A h \in Generations : h <= writer'.gen, writer'.gen \in Nat
      PROVE  LastingInv'
  <2>1. \A s \in {Local, Remote} : \A f \in Listed(manifest[s]) : f[2] <= writer'.gen
    <3> SUFFICES ASSUME NEW s \in {Local, Remote}, NEW f \in Listed(manifest[s])
                 PROVE  f[2] <= writer'.gen
      OBVIOUS
    <3>1. PICK h \in Gen : f[2] <= h /\ data[Local][Segments(h)].st = "whole"
      BY <1>2 DEF Reaches
    <3>2. h <= writer'.gen
      BY <1>8, <1>9, <3>1
    <3>3. f[2] \in Nat /\ h \in Nat
      BY ListedFiles
    <3> QED BY <1>9, <3>1, <3>2, <3>3
  <2>2. \A f \in FileName : data'[Remote][f].st = "whole" => f[2] <= writer'.gen
    BY <1>3, <1>9, <2>1
  <2>3. \A s \in {Local, Remote} : Listed(manifest[s])' = Listed(manifest[s])
    BY <1>1 DEF Listed
  <2>4. WriterLeads'
    BY <2>1, <2>2, <2>3 DEF WriterLeads
  <2>5. GenerationsInv'
    BY <1>4, <1>9, <2>4 DEF GenerationsInv
  <2> QED BY <1>1, <1>9, <2>5, LastingStays DEF LastingInv
<1>10. CASE /\ Generations = {} /\ pc' = up /\ UNCHANGED data
            /\ writer' = [Closed EXCEPT !.open = TRUE]
  <2>1. writer'.gen = 0 /\ Spread
    BY <1>10 DEF Closed, Spread
  <2> QED BY <1>9, <1>10, <2>1
<1>11. CASE /\ Generations # {} /\ pc' = up
            /\ writer' = [Closed EXCEPT !.open = TRUE, !.gen = LastGen, !.segs = LastSegs]
            /\ data' = [data EXCEPT ![Local] = kept]
  <2>1. /\ data'[Local] = kept /\ \A s \in Store \ {Local} : data'[s] = data[s]
        /\ writer'.gen = LastGen
    BY <1>1, <1>11 DEF Closed
  <2>2. LastGen \in Gen /\ \A h \in Generations : h <= LastGen
    <3>1. \E g \in Generations : \A h \in Generations : h <= g
      BY <1>11, LargestGen DEF Generations
    <3> QED BY <3>1 DEF LastGen, Generations
  <2>3. Spread
    BY <1>1, <1>5, <2>1 DEF Spread, NoBlob
  <2>4. LastGen \in Nat
    BY <2>2, ListedFiles
  <2> QED BY <1>1, <1>9, <1>11, <2>1, <2>2, <2>3, <2>4
<1> QED BY <1>6, <1>7, <1>10, <1>11

LEMMA ThreadLasts ==
  ASSUME MasterInv, ThreadsOff, UncutInv, LastingInv, NEW a \in Threads, SeqnumInv(a),
         ThreadStep(a) \/ Request(a)
  PROVE  LastingInv'
<1>1. /\ a \in Flusher /\ a # Indexer /\ writer \in WriterType /\ MasterTouches
      /\ pc[Indexer] = "up" /\ pc[Indexer] \notin WriterOff /\ pc'[Indexer] \notin WriterOff
  BY ActorsAssumption, ThreadLeavesProcess, ThreadTouches
     DEF Flusher, MasterInv, TypeOK, WriterType, WriterOff
<1>2. CASE FlushStep(a)
  BY <1>1, <1>2, FlushLasts
<1>3. CASE PushFile(a)
  <2>1. FileStep(a) /\ UNCHANGED masterVars /\ Syncing(a)
    BY <1>1, <1>3, FileStepMoves DEF PushFile, Flusher, Actor
  <2>2. Src(a) = Local /\ Dst(a) = Remote /\ pc[a] = "push"
    BY <1>1, <2>1, FlusherPlaces DEF MasterInv
  <2>3. pc[a] \in Pushing /\ manifest[Local].st = "whole"
    BY <2>2 DEF Pushing, SeqnumInv, Ahead
  <2> QED BY <1>1, <2>1, <2>2, <2>3, PushLasts
<1>4. CASE Tick(a) \/ ForceMerge(a) \/ Request(a) \/ ReadMaster(a) \/ ReadReplica(a)
           \/ PushDone(a) \/ PushFails(a)
  <2>1. UNCHANGED <<data, manifest>> /\ writer'.gen = writer.gen
    BY <1>1, <1>4 DEF Tick, ForceMerge, MergeSegments, Request, ReadMaster, ReadReplica, PushDone,
                      PushFails, masterVars, WriterType
  <2> QED BY <1>1, <2>1, WriterLasts
<1> QED BY <1>2, <1>3, <1>4 DEF ThreadStep

LEMMA ProcessLasts ==
  ASSUME MasterInv, ThreadsOff, UncutInv, LastingInv, NEW t \in Threads, SeqnumInv(t),
         ProcessStep, ~CutsCopy
  PROVE  LastingInv'
<1>1. Indexer \in Flusher /\ Indexer \in Actor /\ pc \in [Actor -> AnyPhase] /\ MasterTouches
  BY ProcessPhases, ProcessTouches DEF MasterInv, TypeOK, SyncTypeOK
<1>2. CASE BootStep
  <2>1. FileStep(Indexer) /\ UNCHANGED masterVars /\ Syncing(Indexer)
    BY <1>1, <1>2, FileStepMoves DEF BootStep
  <2>2. CASE pc[Indexer] = "bootpush" /\ Src(Indexer) = Local /\ Dst(Indexer) = Remote
    <3>1. pc[Indexer] \in Pushing /\ manifest[Local].st = "whole"
      BY <2>2 DEF Pushing, SeqnumInv, Ahead
    <3> QED BY <1>1, <2>1, <2>2, <3>1, PushLasts
  <2>3. CASE pc[Indexer] = "bootpull" /\ Src(Indexer) = Remote /\ Dst(Indexer) = Local
    BY <2>1, <2>3, PullLasts
  <2> QED BY <1>1, <2>1, <2>2, <2>3, FlusherPlaces DEF MasterInv
<1>3. CASE FlushStep(Indexer)
  <2>1. /\ pc[Indexer] \in {"commit", "list", "sizes", "write", "replace", "create", "writing"}
        /\ \E x \in Phases(Indexer) \ Elsewhere : pc' = [pc EXCEPT ![Indexer] = x]
    BY <1>1, <1>3, FlushPhase
  <2>2. pc[Indexer] \notin WriterOff /\ pc'[Indexer] \notin WriterOff
    BY <1>1, <2>1 DEF WriterOff, Elsewhere
  <2> QED BY <1>1, <1>3, <2>2, FlushLasts
<1>4. CASE CloseWriter
  <2>1. pc[Indexer] = "close" /\ pc'[Indexer] = "down" /\ UNCHANGED <<data, manifest>>
    BY <1>1, <1>4 DEF CloseWriter, Leave
  <2> QED BY <1>1, <2>1, StopLasts
<1> QED BY <1>2, <1>3, <1>4, BootLasts, BootEndsLasting, OpenLasts DEF ProcessStep, Boot

LEMMA LastingStep ==
  ASSUME Threads # {}, MasterInv, ThreadsOff, \A t \in Threads : SeqnumInv(t),
         UncutInv, LastingInv, ~CutsCopy, [Next]_vars
  PROVE  LastingInv'
<1>1. CASE AddDocument \/ BackgroundMerge
  <2>1. /\ UNCHANGED <<data, manifest, pc>> /\ writer'.gen = writer.gen /\ MasterTouches
        /\ pc[Indexer] \notin WriterOff
    BY <1>1, MasterApart DEF AddDocument, BackgroundMerge, MergeSegments, syncVars, MasterInv, TypeOK, WriterOff
  <2> QED BY <2>1, WriterLasts
<1>2. CASE UNCHANGED vars
  BY <1>2 DEF vars, syncVars, masterVars, LastingInv, NamesMeanOneContent, OneCommit, GenerationsInv,
              WriterLeads, Fetching, Comes, Reaches, Lost, Listed
<1>3. CASE \E a \in Threads : ThreadStep(a) \/ Request(a)
  BY <1>3, ThreadLasts
<1>4. CASE ProcessStep
  BY <1>4, ProcessLasts
<1>5. CASE Fault
  BY <1>5, FaultLasts
<1> QED BY <1>1, <1>2, <1>3, <1>4, <1>5 DEF Next

\* Through any number of kills, lost disks and restarts no writer gives out a
\* name again that has been published with another content, unless two fibers
\* crossed or a copy was left unfinished: the comparison of names and sizes finds
\* what differs in every life of the indexer (IndexManifest.diff).
THEOREM PublishedNamesLast ==
  ASSUME Threads # {}
  PROVE  HistSpec => [](~crossed => SameNameSameContent)
<1> DEFINE Inv == UncutHistInv /\ (~crossed /\ ~cut => LastingInv)
<1>1. HistInit /\ UncutHistInv => Inv
  BY LastingInitially DEF HistInit
<1>2. ASSUME Inv, UncutHistInv', [HistNext]_histVars, ~crossed', ~cut'
      PROVE  LastingInv'
  <2>1. ~crossed /\ ~cut /\ [Next]_vars /\ LastingInv /\ UncutInv /\ UncrossedInv
    BY <1>2, HistStep, HistCut DEF UncutHistInv, HistInv
  <2>2. ~CutsCopy
    <3>1. CASE UNCHANGED histVars
      BY <3>1 DEF histVars, vars, syncVars, CutsCopy
    <3> QED BY <1>2, <3>1, HistCut
  <2> QED BY <2>1, <2>2, LastingStep DEF UncrossedInv
<1>3. Inv => (~crossed => SameNameSameContent)
  BY DEF LastingInv, SameNameSameContent
<1>4. Inv /\ UncutHistInv' /\ [HistNext]_histVars => Inv'
  BY <1>2
<1> HIDE DEF Inv
<1> QED BY <1>1, <1>3, <1>4, UncutHistInvariant, PTL DEF HistSpec

-----------------------------------------------------------------------------
(* Searchers that meet no writing: what their directory holds is the commit  *)
(* of its index.json, or is being brought to the object store's.             *)

UndisturbedInv ==
  \A s \in Slaves \ disturbed :
    IF pc[s] \in Pulling
    THEN /\ ~Writing /\ manifest[Remote].st = "whole"
         /\ Copying(manifest[Remote], ops[s], data[s], manifest[s])
    ELSE Exact(s)

\* What the proof knows of one searcher.
Following(s) ==
  IF pc[s] \in Pulling
  THEN Copying(manifest[Remote], ops[s], data[s], manifest[s])
  ELSE Exact(s)

\* A pull begins, or the searcher goes elsewhere with its directory as it is.
LEMMA PullBegins ==
  ASSUME TypeOK, NEW s \in Slaves, Exact(s), Intact(s), Intact(Remote),
         \/ \E next : next \notin Pulling /\ Leave(s, next)
         \/ \E next \in Pulling : Start(s, next, manifest[Remote], manifest[s])
  PROVE  Following(s)'
<1>1. s \in Actor /\ pc \in [Actor -> AnyPhase] /\ ops \in [Actor -> SUBSET ChangedFileOp]
  BY SlavesApart DEF TypeOK, SyncTypeOK
<1>2. CASE \E next : next \notin Pulling /\ Leave(s, next)
  <2>1. pc'[s] \notin Pulling
    BY <1>1, <1>2 DEF Leave
  <2> QED BY <2>1 DEF Following, Exact, Intact
<1>3. ASSUME NEW next \in Pulling, Start(s, next, manifest[Remote], manifest[s])
      PROVE  Following(s)'
  <2>1. pc'[s] \in Pulling /\ ops'[s] = Diff(manifest[Remote], manifest[s])
    BY <1>1, <1>3 DEF Start
  <2>2. Copying(manifest[Remote], Diff(manifest[Remote], manifest[s]), data[s], manifest[s])
    BY CopyStarts DEF Exact
  <2> QED BY <2>1, <2>2 DEF Following, Intact
<1> QED BY <1>2, <1>3

\* With nothing left to copy the directory is the object store's commit.
LEMMA PullEnds ==
  ASSUME TypeOK, NEW s \in Slaves, Following(s), ops[s] = {},
         Intact(s), NEW next, next \notin Pulling, Leave(s, next)
  PROVE  Following(s)'
<1>1. s \in Actor /\ pc \in [Actor -> AnyPhase]
  BY SlavesApart DEF TypeOK, SyncTypeOK
<1>2. pc'[s] \notin Pulling
  BY <1>1 DEF Leave
<1>3. Exact(s)
  BY CopyEnds DEF Following, Exact
<1> QED BY <1>2, <1>3 DEF Following, Exact, Intact

\* One file is copied from an object store that nobody writes to.
LEMMA PullGoesOn ==
  ASSUME TypeOK, NEW s \in Slaves, pc[s] # "bootpush", Following(s), Exact(Remote),
         FileStep(s)
  PROVE  Following(s)'
<1> DEFINE R == manifest[Remote]
<1>1. /\ s \in Actor /\ s \in Store /\ Remote \in Store /\ s # Remote
      /\ data \in [Store -> [FileName -> Blob]] /\ manifest \in [Store -> Manifest]
      /\ ops \in [Actor -> SUBSET ChangedFileOp]
  BY SlavesApart DEF TypeOK, SyncTypeOK, Store
<1>2. /\ Syncing(s) /\ pc[s] \in Pulling /\ Src(s) = Remote /\ Dst(s) = s /\ UNCHANGED pc
      /\ Intact(Remote)
  BY <1>1, FileStepMoves, SlavePlaces, FileStepStores
<1>3. Copying(R, ops[s], data[s], manifest[s]) /\ R' = R
  BY <1>2 DEF Following, Intact
<1> HIDE DEF R
<1> SUFFICES Copying(R, ops'[s], data'[s], manifest'[s])
  BY <1>2, <1>3 DEF Following, R
<1>4. CASE DeleteOutput(s) \/ CreateOutput(s)
  <2>1. PICK op \in ops[s], noManifest \in {NoManifest, TornManifest}, noBlob \in {NoBlob, TornBlob} :
          /\ op.op = "Add"
          /\ IF op.file = MANIFEST_FILE_NAME
             THEN /\ manifest' = [manifest EXCEPT ![s] = noManifest]
                  /\ UNCHANGED data
             ELSE /\ data' = [data EXCEPT ![s][op.file] = noBlob]
                  /\ UNCHANGED manifest
          /\ UNCHANGED ops
    BY <1>2, <1>4 DEF DeleteOutput, CreateOutput, Emptied
  <2>2. op = Add(op.file) /\ op \in ChangedFileOp
    BY <1>1, <2>1, OpForms
  <2>3. CASE op.file = MANIFEST_FILE_NAME
    <3>1. data'[s] = data[s] /\ ops'[s] = ops[s] /\ Add(MANIFEST_FILE_NAME) \in ops[s]
      BY <2>1, <2>2, <2>3
    <3> QED BY <1>3, <3>1, CopyOpensManifest
  <2>4. CASE op.file # MANIFEST_FILE_NAME
    <3>1. /\ op.file \in FileName /\ Add(op.file) \in ops[s]
          /\ manifest'[s] = manifest[s] /\ ops'[s] = ops[s]
          /\ \A e \in FileName : e # op.file => data'[s][e] = data[s][e]
      BY <1>1, <2>1, <2>2, <2>4 DEF ChangedFileOp
    <3> QED BY <1>3, <3>1, CopyOpensFile
  <2> QED BY <2>3, <2>4
<1>5. CASE CopyFile(s)
  <2>1. PICK op \in ops[s] :
          /\ op.op = "Add"
          /\ IF op.file = MANIFEST_FILE_NAME
             THEN /\ manifest' = [manifest EXCEPT ![s] = manifest[Remote]]
                  /\ UNCHANGED data
             ELSE /\ data' = [data EXCEPT ![s][op.file] = data[Remote][op.file]]
                  /\ UNCHANGED manifest
          /\ Finished(s, op)
    BY <1>2, <1>5 DEF CopyFile, Read
  <2>2. op = Add(op.file) /\ op \in ChangedFileOp /\ ops'[s] = ops[s] \ {op}
    BY <1>1, <2>1, OpForms DEF Finished
  <2>3. CASE op.file = MANIFEST_FILE_NAME
    <3>1. /\ data'[s] = data[s] /\ manifest'[s] = R
          /\ ops'[s] = ops[s] \ {Add(MANIFEST_FILE_NAME)}
      BY <1>1, <2>1, <2>2, <2>3 DEF R
    <3> QED BY <1>3, <3>1, CopyPutsManifest
  <2>4. CASE op.file # MANIFEST_FILE_NAME
    <3>1. /\ op.file \in FileName /\ manifest'[s] = manifest[s]
          /\ \A e \in FileName : e # op.file => data'[s][e] = data[s][e]
          /\ data'[s][op.file] = data[Remote][op.file]
      BY <1>1, <2>1, <2>2, <2>4 DEF ChangedFileOp
    <3>2. op.file \in Listed(R)
      BY <1>3, <2>1, <2>4, OpsDiffer DEF Copying
    <3>3. data[Remote][op.file].st = "whole" /\ SizeOf[data[Remote][op.file].body] = R.files[op.file]
      BY <3>2 DEF Exact, Matches, R
    <3>4. op.op # "Del"
      BY <2>1
    <3> QED BY <1>1, <1>3, <2>2, <3>1, <3>3, <3>4, CopyPutsFile
  <2> QED BY <2>3, <2>4
<1>6. CASE DeleteFile(s)
  <2>1. PICK op \in ops[s] :
          /\ op.op = "Del" /\ data' = [data EXCEPT ![s][op.file] = NoBlob]
          /\ Finished(s, op) /\ UNCHANGED manifest
    BY <1>2, <1>6 DEF DeleteFile
  <2>2. op.file \in FileName
    BY <1>3, <2>1 DEF Copying
  <2>3. /\ ops'[s] = ops[s] \ {op} /\ manifest'[s] = manifest[s]
        /\ \A e \in FileName : e # op.file => data'[s][e] = data[s][e]
        /\ data'[s][op.file].st = "absent"
    BY <1>1, <2>1, <2>2 DEF Finished, NoBlob
  <2>4. op.op # "Add" /\ ops[s] \in SUBSET ChangedFileOp
    BY <1>1, <2>1
  <2>5. Copying(R, ops[s] \ {op}, data'[s], manifest[s])
    BY <1>3, <2>2, <2>3, <2>4, CopyPutsFile
  <2> QED BY <2>3, <2>5
<1> QED BY <1>4, <1>5, <1>6 DEF FileStep

\* Nor can it fail: what it copies is there, what it deletes is there.
LEMMA PullCannotFail ==
  ASSUME TypeOK, NEW s \in Slaves, pc[s] # "bootpush", Following(s), Exact(Remote),
         manifest[Remote].st = "whole"
  PROVE  ~FileMissing(s)
<1> SUFFICES ASSUME Syncing(s), NEW op \in ops[s]
             PROVE  /\ op.op = "Add" => HasSource(s, op)
                    /\ op.op = "Del" => HasTarget(s, op)
  BY DEF FileMissing
<1>1. pc[s] \in Pulling /\ Src(s) = Remote /\ Dst(s) = s
  BY SlavePlaces
<1>2. Copying(manifest[Remote], ops[s], data[s], manifest[s])
  BY <1>1 DEF Following
<1>3. op.op = "Add" => op.file \in Listed(manifest[Remote]) \cup {MANIFEST_FILE_NAME}
  BY <1>2, OpsDiffer DEF Copying
<1>4. op.op = "Add" => HasSource(s, op)
  BY <1>1, <1>3 DEF HasSource, Exact, Matches, Present
<1>5. op.op = "Del" => HasTarget(s, op)
  BY <1>1, <1>2, OpsDiffer DEF Copying, HasTarget, Present
<1> QED BY <1>4, <1>5

\* A searcher's own step.
LEMMA SlaveFollows ==
  ASSUME TypeOK, NEW s \in Slaves, SlaveStep(s) \/ SlaveKill(s),
         pc[s] # "bootpush", pc'[s] # "bootpush", Intact(Remote),
         Following(s), Exact(Remote) \/ pc[s] \notin Pulling,
         pc[s] \in Pulling => manifest[Remote].st = "whole",
         ~(pc[s] \in Pulling /\ pc'[s] = "down")
  PROVE  /\ Following(s)'
         /\ pc'[s] \in Pulling => manifest'[Remote].st = "whole"
<1>1. s \in Actor /\ pc \in [Actor -> AnyPhase] /\ Home(s) = s /\ manifest'[Remote] = manifest[Remote]
  BY SlavesApart DEF TypeOK, SyncTypeOK, Intact
<1>2. CASE FileStep(s)
  <2>1. Syncing(s) /\ UNCHANGED pc /\ pc[s] \in Pulling
    BY <1>1, <1>2, FileStepMoves, SlavePlaces
  <2> QED BY <1>1, <1>2, <2>1, PullGoesOn
<1>3. CASE SlaveBoot(s)
  <2>1. Exact(s) /\ Intact(s)
    BY <1>3 DEF SlaveBoot, FromRemote, Following, Pulling, Intact
  <2>2. CASE \E next \in {"down", "create"} : Leave(s, next)
    <3>1. pc'[s] \notin Pulling
      BY <1>1, <2>2 DEF Leave, Pulling
    <3> QED BY <2>1, <2>2, <3>1, PullBegins DEF Pulling
  <2>3. CASE manifest[Remote].st = "whole" /\ Start(s, "bootpull", manifest[Remote], manifest[s])
    BY <1>1, <2>1, <2>3, PullBegins DEF Pulling
  <2>4. CASE Start(s, "bootpush", manifest[s], manifest[Remote])
    BY <1>1, <2>4 DEF Start
  <2> QED BY <1>1, <1>3, <2>2, <2>3, <2>4 DEF SlaveBoot, FromRemote
<1>4. ASSUME NEW next \in Pulling, NEW failed \in {"down", "dead"}, SlaveSync(s, next, failed),
             pc[s] \notin Pulling
      PROVE  /\ Following(s)'
             /\ pc'[s] \in Pulling => manifest'[Remote].st = "whole"
  <2>1. Exact(s) /\ Intact(s)
    BY <1>4 DEF SlaveSync, Following, Intact
  <2>2. CASE \E x \in {"idle", "down", "dead"} : Leave(s, x)
    <3>1. pc'[s] \notin Pulling
      BY <1>1, <2>2 DEF Leave, Pulling
    <3> QED BY <2>1, <2>2, <3>1, PullBegins DEF Pulling
  <2>3. CASE manifest[Remote].st = "whole" /\ Start(s, next, manifest[Remote], manifest[s])
    BY <1>1, <1>4, <2>1, <2>3, PullBegins
  <2> QED BY <1>4, <2>2, <2>3 DEF SlaveSync
<1>5. CASE SlaveCreate(s)
  <2>1. CASE SlaveSync(s, "firstpull", "down")
    BY <1>4, <1>5, <2>1 DEF SlaveCreate, Pulling
  <2>2. CASE Leave(s, "down") /\ UNCHANGED <<data, manifest>>
    <3>1. Exact(s) /\ Intact(s) /\ pc'[s] \notin Pulling
      BY <1>1, <1>5, <2>2 DEF SlaveCreate, Following, Pulling, Intact, Leave
    <3> QED BY <2>2, <3>1, PullBegins DEF Pulling
  <2> QED BY <1>5, <2>1, <2>2 DEF SlaveCreate
<1>6. CASE SlaveTick(s)
  BY <1>4, <1>6 DEF SlaveTick, Pulling
<1>7. CASE SlaveBootDone(s) \/ SlavePullDone(s)
  <2>1. PICK next \in {"create", "idle"} : Leave(s, next)
    BY <1>7 DEF SlaveBootDone, SlavePullDone
  <2>2. /\ ops[s] = {} /\ Intact(s) /\ pc[s] \in Pulling
        /\ next \notin Pulling /\ pc'[s] \notin Pulling
    BY <1>1, <1>7, <2>1 DEF SlaveBootDone, SlavePullDone, Parallel, Pulling, Intact, Leave
  <2> QED BY <2>1, <2>2, PullEnds
<1>8. CASE SlaveFails(s)
  <2>1. FileMissing(s) /\ pc[s] \in Pulling
    BY <1>8, SlavePlaces DEF SlaveFails, FileMissing
  <2> QED BY <2>1, PullCannotFail
<1>9. CASE SlaveKill(s)
  <2>1. Leave(s, "down") /\ Intact(s) /\ pc'[s] = "down"
    BY <1>1, <1>9 DEF SlaveKill, Leave, Intact
  <2>2. pc[s] \notin Pulling /\ "down" \notin Pulling
    BY <2>1 DEF Pulling
  <2>3. Exact(s)
    BY <2>2 DEF Following
  <2> QED BY <2>1, <2>2, <2>3, PullBegins
<1> QED BY <1>2, <1>3, <1>5, <1>6, <1>7, <1>8, <1>9 DEF SlaveStep

\* The invariant of every life of the indexer, beside its searchers.
BesideInv == BehindInv /\ UncutInv

\* A searcher does not disturb it either.
LEMMA AsideUncut ==
  ASSUME TypeOK, Aside, UncutInv
  PROVE  UncutInv'
<1>1. /\ \A a \in Flusher : /\ pc'[a] = pc[a] /\ hand'[a] = hand[a]
                            /\ ops'[a] = ops[a] /\ outs'[a] = outs[a]
      /\ data'[Local] = data[Local] /\ manifest'[Local] = manifest[Local]
      /\ data'[Remote] = data[Remote] /\ manifest'[Remote] = manifest[Remote]
      /\ writer' = writer /\ pc'[Indexer] = pc[Indexer]
  BY AsideFacts DEF Aside, Untouched
<1>2. DiskInv'
  BY <1>1, DiskStays DEF UncutInv, DiskInv
<1>3. \A a \in Flusher : MakingInv(a)'
  BY <1>1, MakingStays DEF UncutInv
<1>4. StoreInv'
  BY <1>1, StoreStays DEF UncutInv, StoreInv
<1> QED BY <1>2, <1>3, <1>4 DEF UncutInv

LEMMA BesideStep ==
  ASSUME Threads # {}, BesideInv, Uncrossed, Uncrossed', ~CutsPush, [DistNext]_distVars
  PROVE  BesideInv'
<1>1. /\ BehindInv' /\ UncutInv /\ MasterInv /\ TypeOK /\ ThreadsOff
      /\ SlaveNeverPushes /\ \A t \in Threads : SeqnumInv(t)
  BY BehindStep DEF BesideInv, BehindInv, DistInv, MasterInv
<1>2. CASE [Next]_vars
  BY <1>1, <1>2, UncutStep DEF BesideInv
<1>3. ASSUME NEW s \in Slaves, SlaveStep(s) \/ SlaveKill(s), UNCHANGED masterVars
      PROVE  BesideInv'
  BY <1>1, <1>3, PullerAside, AsideUncut DEF SlaveNeverPushes, BesideInv
<1> QED BY <1>2, <1>3, DistSteps

LEMMA BesideInvariant ==
  ASSUME Threads # {}
  PROVE  DistSpec /\ []Uncrossed /\ [][~CutsPush]_distVars => []BesideInv
<1>1. DistInit => BesideInv
  BY BehindInitially, UncutInitially DEF DistInit, BesideInv
<1>2. UNCHANGED distVars => ~CutsPush
  BY DEF distVars, vars, syncVars, CutsPush
<1>3. BesideInv /\ Uncrossed /\ Uncrossed' /\ [~CutsPush]_distVars /\ [DistNext]_distVars
        => BesideInv'
  BY <1>2, BesideStep
<1> QED BY <1>1, <1>3, PTL DEF DistSpec

\* Without writing the object store is an exact copy of its commit.
LEMMA AtRestExact ==
  ASSUME BesideInv, ~Writing
  PROVE  Exact(Remote)
<1>1. NoPush
  BY ProcessPhases DEF Writing, NoPush, Flusher, Actor
<1> QED BY <1>1 DEF BesideInv, UncutInv, StoreInv

LEMMA UndisturbedStep ==
  ASSUME BesideInv, BesideInv', UndisturbedInv, [DistNext]_distVars
  PROVE  UndisturbedInv'
<1>1. TypeOK /\ SlaveNeverPushes /\ SlaveNeverPushes'
  BY DEF BesideInv, BehindInv, DistInv, DistTypeOK
<1>2. \A s \in Slaves \ disturbed :
        /\ Following(s)
        /\ pc[s] \in Pulling => ~Writing /\ manifest[Remote].st = "whole" /\ Exact(Remote)
  BY <1>1, AtRestExact DEF UndisturbedInv, Following
<1>3. ASSUME NEW s \in Slaves \ disturbed', Observe
      PROVE  /\ s \in Slaves \ disturbed
             /\ pc'[s] \in Pulling => ~Writing'
             /\ ~(pc[s] \in Pulling /\ pc'[s] = "down")
  BY <1>3 DEF Observe, Overlapping, Stopped
<1>4. SUFFICES ASSUME Observe, NEW s \in Slaves \ disturbed'
               PROVE  /\ Following(s)'
                      /\ pc'[s] \in Pulling => manifest'[Remote].st = "whole"
  <2>1. CASE Observe
    BY <1>3, <1>4, <2>1 DEF UndisturbedInv, Following
  <2>2. CASE ~Observe
    <3>1. UNCHANGED distVars
      BY <2>2 DEF DistNext
    <3>2. UNCHANGED <<data, manifest, pc, ops, disturbed>>
      BY <3>1 DEF distVars, vars, syncVars
    <3> QED BY <3>2 DEF UndisturbedInv, Writing, Exact
  <2> QED BY <2>1, <2>2
<1>5. /\ s \in Slaves \ disturbed /\ ~(pc[s] \in Pulling /\ pc'[s] = "down")
      /\ Following(s)
      /\ pc[s] \in Pulling => ~Writing /\ manifest[Remote].st = "whole" /\ Exact(Remote)
  BY <1>2, <1>3, <1>4
<1>6. ASSUME Untouched(s), Intact(s), pc[s] \in Pulling => Intact(Remote)
      PROVE  /\ Following(s)'
             /\ pc'[s] \in Pulling => manifest'[Remote].st = "whole"
  BY <1>5, <1>6 DEF Following, Untouched, Intact, Exact
<1>7. CASE [Next]_vars
  BY <1>1, <1>5, <1>6, <1>7, MasterApart DEF MasterTouches
<1>8. ASSUME NEW r \in Slaves, SlaveStep(r) \/ SlaveKill(r), UNCHANGED masterVars
      PROVE  /\ Following(s)'
             /\ pc'[s] \in Pulling => manifest'[Remote].st = "whole"
  <2>1. pc[r] # "bootpush" /\ pc'[r] # "bootpush"
    BY <1>1 DEF SlaveNeverPushes
  <2>2. /\ Intact(Remote)
        /\ s # r => Untouched(s) /\ Intact(s)
    BY <1>1, <1>5, <1>8, <2>1, PullerAside DEF Aside
  <2>3. CASE s # r
    BY <1>6, <2>2, <2>3
  <2>4. CASE s = r
    BY <1>1, <1>5, <1>8, <2>1, <2>2, <2>4, SlaveFollows
  <2> QED BY <2>3, <2>4
<1> QED BY <1>7, <1>8, DistSteps

LEMMA UndisturbedInitially ==
  ASSUME DistInit
  PROVE  UndisturbedInv
<1>1. \A s \in Slaves : pc[s] = "down" /\ s \in Store
  BY SlavesApart, ActorsAssumption DEF DistInit, Init
<1>2. \A s \in Slaves : Exact(s)
  BY <1>1 DEF DistInit, Init, SyncInit, Exact, Matches, Listed, NoBlob, NoManifest, NoFiles
<1> QED BY <1>1, <1>2 DEF UndisturbedInv, Pulling

\* As long as no two fibers cross and no push is cut off, a searcher whose
\* synchronizations met no writing and no stop has exactly the files of its
\* index.json, each whole, whatever the indexer went through otherwise
\* (SlaveIndex.sync): nothing but a concurrent writing can mix two commits in a
\* searcher's directory.
THEOREM UndisturbedStaysSnapshot ==
  ASSUME Threads # {}
  PROVE  DistSpec /\ []Uncrossed /\ [][~CutsPush]_distVars => []UndisturbedIsSnapshot
<1>1. DistInit => UndisturbedInv
  BY UndisturbedInitially
<1>2. BesideInv /\ BesideInv' /\ UndisturbedInv /\ [DistNext]_distVars => UndisturbedInv'
  BY UndisturbedStep
<1>3. UndisturbedInv => UndisturbedIsSnapshot
  BY ExactIsSnapshot DEF UndisturbedInv, UndisturbedIsSnapshot, Pulling
<1> QED BY <1>1, <1>2, <1>3, BesideInvariant, PTL DEF DistSpec

\* The searchers take nothing from what the indexer promises: between two
\* synchronizations the object store is an exact copy of its commit, in every
\* life of the indexer (ReplicatedIndex.sync).
THEOREM DistRemoteStaysSnapshot ==
  ASSUME Threads # {}
  PROVE  DistSpec /\ []Uncrossed /\ [][~CutsPush]_distVars => []RemoteIsSnapshot
<1>1. BesideInv => RemoteIsSnapshot
  BY AtRestExact, ExactIsSnapshot DEF RemoteIsSnapshot, RemoteAtRest, Writing
<1> QED BY <1>1, BesideInvariant, PTL

-----------------------------------------------------------------------------
(* The first life of the indexer, beside its searchers.                      *)

FirstLifeInv == BehindInv /\ UncrossedInv /\ (OneLife => FeedInv)

LEMMA FirstLifeStep ==
  ASSUME Threads # {}, FirstLifeInv, Uncrossed, Uncrossed', [DistNext]_distVars
  PROVE  FirstLifeInv' /\ (OneLife' => [Feed!Next]_(Feed!vars))
<1>1. /\ BehindInv' /\ UncrossedInv /\ MasterInv /\ MasterInv' /\ TypeOK /\ ThreadsOff
      /\ BirthInv /\ HeldInv /\ SlaveNeverPushes /\ BehindInv
      /\ \A t \in Threads : SeqnumInv(t)
      /\ \A t \in Threads : Leads(t) => LifeInv(t)
  BY BehindStep DEF FirstLifeInv, UncrossedInv, BehindInv, DistInv, MasterInv
<1>2. CASE [Next]_vars
  <2>1. UncrossedInv'
    BY <1>1, <1>2, UncrossedStep
  <2>2. OneLife' => FeedInv' /\ [Feed!Next]_(Feed!vars)
    BY <1>1, <1>2, FeedStep, OneLifeBefore DEF FirstLifeInv
  <2> QED BY <1>1, <2>1, <2>2 DEF FirstLifeInv
<1>3. ASSUME NEW s \in Slaves, SlaveStep(s) \/ SlaveKill(s), UNCHANGED masterVars
      PROVE  FirstLifeInv' /\ (OneLife' => [Feed!Next]_(Feed!vars))
  <2>1. Aside
    BY <1>1, <1>3, PullerAside DEF SlaveNeverPushes
  <2>2. ThreadsOff' /\ \A t \in Threads : SeqnumInv(t)'
    BY <1>1 DEF BehindInv
  <2>3. PICK t \in Threads : LifeInv(t)
    BY <1>1, SomebodyLeads
  <2>4. BirthInv' /\ HeldInv'
    BY <1>1, <2>1, <2>3, AsideLife
  <2>5. ASSUME NEW r \in Threads, Leads(r)' PROVE LifeInv(r)'
    <3>1. Leads(r)
      BY <2>1, <2>5, AsideFacts DEF Leads
    <3> QED BY <1>1, <2>1, <2>5, <3>1, AsideLife
  <2>6. UncrossedInv'
    BY <1>1, <2>2, <2>4, <2>5 DEF UncrossedInv
  <2>7. /\ manifest'[Remote] = manifest[Remote] /\ writer' = writer
        /\ (InLife' => InLife) /\ (OneLife' => OneLife)
    BY <2>1, AsideFacts DEF InLife, OneLife
  <2>8. OneLife' => FeedInv'
    BY <2>7 DEF FirstLifeInv, FeedInv
  <2>9. PublishedGen' = PublishedGen
    BY <2>7 DEF PublishedGen
  <2> QED BY <1>1, <2>6, <2>7, <2>8, <2>9 DEF FirstLifeInv, Feed!vars
<1> QED BY <1>2, <1>3, DistSteps

\* As long as no two fibers of the indexer cross, the index.json of the object
\* store moves from commit to commit, as a feed of snapshots, until the indexer
\* stops or fails, beside any number of searchers that pull from it and whatever
\* happens to them (ReplicatedIndex.sync, SlaveIndex.sync).
THEOREM DistributedIsAFeed ==
  ASSUME Threads # {}
  PROVE  DistSpec /\ []Uncrossed
           => Feed!Init /\ [][OneLife' => [Feed!Next]_(Feed!vars)]_distVars
<1> DEFINE Follows == OneLife' => [Feed!Next]_(Feed!vars)
<1>1. DistInit => Feed!Init /\ FirstLifeInv
  <2>1. DistInit => Feed!Init /\ FeedInv
    <3>1. \A g \in Gen : Segments(g) \in FileName
      BY DEF Segments, FileName
    <3> QED BY <3>1 DEF DistInit, Init, SyncInit, MasterInit, FeedInv, InLife, Feed!Init,
                        PublishedGen, Closed, NoManifest, NoFiles, Store
  <2> QED BY <2>1, BehindInitially, UncrossedInitially DEF DistInit, FirstLifeInv
<1>2. FirstLifeInv /\ Uncrossed /\ Uncrossed' /\ [DistNext]_distVars => FirstLifeInv' /\ Follows
  BY FirstLifeStep
<1> HIDE DEF Follows
<1>3. DistSpec /\ []Uncrossed => [][Follows]_distVars
  BY <1>1, <1>2, PTL DEF DistSpec
<1> QED BY <1>1, <1>3, PTL DEF DistSpec, Follows
=============================================================================
