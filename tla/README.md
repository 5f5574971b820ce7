# Nixiesearch in TLA+

Nixiesearch is a search engine whose indexes are plain Lucene directories that
live in an object store. An *indexer* writes documents with a Lucene
`IndexWriter`, commits, and copies the files of each commit to S3; *searchers*
copy them to directories of their own and serve requests from Lucene readers.
In *standalone* mode one process does both over one directory.

This directory holds a TLA+ model of that core: the files, the manifests, the
synchronizations that copy them and what stops them half way, the fibers that
flush, merge and serve requests, and the readers of a searcher; and of what feeds
it and stands beside it: the arrival of documents from requests, files and Kafka,
the download of models, the embedding of texts, rank fusion, ranges, the migration
of mappings. TLC checks it on small instances, TLAPS proves part of it for all. Paths below are relative to
`src/src/main/scala/ai/nixiesearch/` unless they start with `src/`.

Contents: [system](#1-the-system), [modules](#2-modules-and-the-code),
[runs](#3-runs), [bounds and fairness](#4-bounds-and-fairness),
[findings](#5-findings), [what does not hold](#6-what-does-not-hold-and-is-not-promised),
[proofs](#7-proofs), [limits](#8-what-is-not-modelled), [plan](#9-plan).

## 1. The system

### Index and its replication

| Component | State | Operations | Correct when |
|---|---|---|---|
| Manifest, `index/manifest/IndexManifest.scala` | names and sizes of the files of one commit, its sequence number, the mapping | `diff` of two manifests: which files to copy and to delete | after the operations, in any order, the target has the files of the source |
| State clients, `index/store/*`, `util/S3Client.scala` | files in a directory or in S3 | create, read and write a manifest; read, write, delete a file; read a large object in parts | a file that exists is whole; `index.json` describes files that exist; the parts make the object |
| Opening, `index/sync/LocalDirectory.scala` | a local and a remote copy | `fromRemote`: the copy with the higher number overwrites the other | nothing acknowledged is overwritten by something older |
| Indexer's index, `index/sync/MasterIndex.scala`, `ReplicatedIndex.scala` | a local directory and the store | `create`, `sync` | the store moves from commit to commit, and is one commit between synchronizations |
| Searcher's index, `index/sync/SlaveIndex.scala` | a copy of the store | `create`, `sync`, 16 files at a time | the copy is one commit, never ahead of the store, sooner or later up to date |
| Local index, `index/sync/LocalIndex.scala` | the `seqnum` Ref | `sync`, `readAndMigrateManifest` | the Ref is the number of a commit in the directory |
| Indexer, `index/Indexer.scala` | the `IndexWriter`: its RAM buffer, its sequence number, the segments | `addDocuments`, `delete`, `flush`, `merge`, flush on close | documents of an acknowledged flush are committed and published; an id has one document, its last version |

### Search

| Component | State | Operations | Correct when |
|---|---|---|---|
| Searcher, `index/Searcher.scala` | `readersRef`, open readers, the gauge of active queries | `sync`, `search`, `suggest`, `getReadersOrFail` | requests get open readers, readers are closed once, commits come to be served, one search sees one commit |
| Queries, filters, RRF, `api/query`, `api/filter` | none | translation to Lucene, fusion of rankings | no document lost or doubled by a fusion |
| Aggregations, `core/aggregate` | none | range and term buckets | every value in the bucket its bounds say |
| Suggestions, `core/suggest` | none | generation, deduplication, ranking | as for fusion |
| API, `api/*Route.scala`, `util/StreamMark.scala` | none | `_flush`, `_merge`, `_index`, `_delete`, `_search`, `_suggest` | an answer of 200 OK means what it says |

### Ingestion and models

| Component | State | Operations | Correct when |
|---|---|---|---|
| Sources, `source/*` | Kafka positions and offsets, position in a file | assignment, poll, commit of offsets | what the consumer is past is in the index or on its way; versions come in order |
| Decoding and embedding, `core/DocumentDecoder.scala`, `util/DocumentEmbedder.scala` | a map of the fields whose model is known | batching, joining embeddings with documents | each document gets its own embedding |
| Embedding models and cache, `core/nn/model/embedding/*` | a cache of embeddings by a hash of their text | `encode` | a batch comes back complete and in order |
| Model files, `core/nn/huggingface/*` | files in a cache directory | download, retry, rename | a file of the cache is whole |
| Mapping and configuration, `config/*` | the mapping in `index.json` | migration, wildcard fields | what the index holds matches the mapping in use |

### Processes

`main/subcommands/IndexMode.scala`, `SearchMode.scala`, `StandaloneMode.scala`
start these parts and run the periodic fibers
(`util/PeriodicEvalStream.scala`). Metrics, analytics and the Lambda runtime
(`main/subcommands/util/LambdaRuntimeClient.scala`) stand beside them.

### Interactions, and what makes them hard

* The indexer and a searcher share nothing but the object store. Nothing orders
  the indexer's uploads and deletions and the searcher's reading: both go file by
  file, in the order of a Scala `Set`.
* In the indexer the periodic fiber, requests to `_flush` and `_merge`, and the
  flush of the shutdown use one `IndexWriter`, one directory and one
  `index.json` without a lock around their steps.
* A manifest is read, compared, and acted upon later; by then the files may be
  those of another commit.
* Copies of an index are compared by sequence numbers. Those are
  `IndexWriter.commit()`'s, and a new `IndexWriter` starts again.
* Every step is a point where the process can be killed, or its disk lost.
  `index.json` is not the last file to be copied, and it is rewritten in place.
* A periodic fiber ends at its first failure, and nobody looks at its outcome.
* A document is replaced by two calls of the writer, and a batch is deleted before
  it is added: other batches, deletes and commits come in between.
* Kafka's offsets are committed when messages are polled, long before they are in
  the index, and one too low; a rebalance seeks again.
* Requests share a mutable map of fields, embedders a cache, processes a directory
  of models; none of them is locked.
* Readers are fetched anew at every stage of a search, opened by whoever comes
  first and closed under whoever uses them.

`PROJECT.json` lists each hazard at the line where it bites, with the properties
that are about it.

## 2. Modules and the code

```
IndexManifest        manifests and their diff
  FileSync           directories, copying one onto another; fromRemote
    MasterIndex      the indexer process         -- INSTANCE SnapshotFeed
      MasterHistory  the same, with what its fibers did to each other
    SlaveIndex       a searcher's copy of the index
      DistributedIndex   MasterIndex + SlaveIndex around one object store
SnapshotFeed         what the object store promises
Searcher             readers, and the fibers that reload and use them

Versions             documents and their versions
  Documents          the writer's documents: add, replace, delete, commit
  KafkaSource        a consumer, its positions, the group's offsets
    Ingestion        the indexer process between its sources and its commits
ModelFiles           a file in the model cache, downloaded by several processes
Embedding            the map of fields, the cache of embeddings, the model
Retrieval            rank fusion and range aggregation
Mapping              the mapping over the starts of an indexer
ObjectRead           an object of S3, read in parts
  Components         the last six side by side

MCMasterIndex, MCDistributedIndex, MCSearcher, MCIngestion, MCComponents   values for TLC
MasterIndex_proofs, DistributedIndex_proofs, Searcher_proofs, Ingestion_proofs,
  Delivery_proofs, ModelFiles_proofs, Mapping_proofs, Algorithms_proofs    theorems
```

**IndexManifest.** A commit `g` of the writer adds one segment `<<"seg", g>>`,
which stands for `_g.si`, `_g.cfs` and the rest of its files, and a
`<<"segments", g>>`, Lucene's `segments_g`. A manifest is a record of sizes (0: not
listed) with a sequence number, and may be absent or *torn*: it exists and does not
decode. `Diff` is `IndexManifest.diff`: add what is missing or of another size,
delete what only the target has, always add `index.json`. The result is a set
because the code's is.

**FileSync.** `data` and `manifest` are the files of every store: `"local"`, the
indexer's directory, `"remote"`, the object store, and one per searcher. A file is
absent, torn or whole; the body of a segment is its set of documents, that of
`segments_g` its set of segments. An actor is a fiber: `pc` is the line it is at,
`hand` the manifest it last read or built, `ops` the operations of its
synchronization that are left, `outs` those whose output is being replaced.
`DeleteOutput`, `CreateOutput` and `CopyFile` are the steps of copying to a directory
(`DirectoryStateClient.write` deletes what is there, creates the output, then pulls the
source), so that the target is absent, then torn, then whole; to S3 the copy becomes
visible when it completes. `FileMissing` is the
`FileMissingError` of a source that is gone or a second delete. `FromRemote` is
`LocalDirectory.fromRemote` with every branch.

**MasterIndex.** `writer` models Lucene's `IndexWriter`, external code, by what
the repository relies on: `hasUncommittedChanges` (`Dirty`; a new writer on an
empty directory has an empty commit pending), `commit()` returning a sequence
number that counts the operations of this writer, the deletion of the files the
new commit does not need. `flush()` is `Commit`, `ListFiles`, `ReadSizes`,
`FindManifest`, `DeleteManifest`, `CreateManifest`, `CloseManifest`: other fibers run
between any two of them, and one that finds `index.json` already deleted, or already
created, by another fails as `DirectoryStateClient.write` does.
`sync()` is `ReadMaster`, `ReadReplica`, `PushFile`, and `PushDone` or
`PushFails`. `Tick` is the periodic stream, `Request` `POST _flush` and `_merge`
(the end of an offline run is a request too: flush, merge, then sync whatever the
flush answered, beside the periodic fiber, `IndexMode.scala:78-103`).
`Boot` to `OpenWriter` is the start; `Shutdown` cancels the fibers and flushes as
`Indexer`'s resource does, without a sync; `Kill` and `LosePod` stop the process
at any step. `covers` and `acked` record what an answer of 200 OK stands for: the
documents held when the request came in.

**MasterHistory.** Two history variables on top of `MasterIndex`. `crossed`: a fiber
was describing its commit (from `commit()` to the end of `index.json`) while another
did so too or was comparing or pushing, or two were pushing. `cut`: a copy between
the directory and the store stopped before its last operation. The properties say
what holds until then; [section 6](#6-what-does-not-hold-and-is-not-promised) says
what happens after.

**SlaveIndex.** `SlaveBoot` is `fromRemote` again, `SlaveCreate` the check for
`index.json` and the first `sync`, `SlaveTick` the periodic one. A pull has up to
`MaxParallel` outputs open (16 in the code). A failure ends the periodic stream
(`"dead"`) or fails the start, and the process may start again. `boots` counts the
starts that find an index in the store, for a bound. A searcher that loses its
disk is not an action of its own: it is one that starts for the first time, which
in the model may happen at any time.

**DistributedIndex.** Both side by side, with one history variable, `disturbed`:
the searchers that copied while the store was being written or were stopped while
copying.

**Searcher.** `commit`, `manifest` and `seqnum` are the directory's last commit,
the number in its `index.json` and the `Ref` the searcher looks at. Readers have
an identity, the commit they show (`gen`) and the number the searcher takes them to
have (`seq`). `GetReaders`, `OpenReader`, `StampReader`, `InstallReader` are
`getReadersOrFail` and `attemptOpenIfExists`; `CompareSeqnum`, `Reopen`,
`CloseOld`, `SwapReaders` are `sync` and `Readers.reopen`; `Request` and
`UseReaders` are a search with its three stages, or a suggestion with one. The
syncers flush and sync a local index as `StandaloneMode` and `IndexModifyRoute`
do, or pull as `SearchMode` does: from `Pull` to `PullDone`, or for ever after
`PullFails`, the directory is between two commits, and opening or reopening a reader
may fail (`BetweenCommits`). `late` tells that the served reader was put into the Ref
when there was a newer commit already. `Starts` gives the indexes that may be found:
an empty local one, or one a slave has copied.

**SnapshotFeed.** The promise of the object store: commits are made one by one; a
publication moves to the newest and never back; the newest is published sooner or
later. `FeedSpec` in `MasterIndex` is the refinement, with `committed <-` the
writer's generation and `published <-` the generation in the store's `index.json`.

**Versions, Documents.** A document is a *version* with an `_id`; versions are
numbered as their authors made them. `live` is what a reader of the writer would
find, `disk` the last commit, each a number of copies per version. A call of
`addDocuments` goes from `"embed"` (`AddDocuments`) to `"add"` (`DeleteOld`:
`writer.deleteDocuments` of the ids of the batch) and returns (`AddNew`); every
caller is at its own place. This is the finer view of the writer that
`MasterIndex` has only as a set of documents; files and restarts of the index are
there, versions and ids here.

**KafkaSource.** A partition is a sequence of versions (`log`); `position` is the
consumer's, `committed` the group's. `Assign` is the listener with `SeekTo` for
each start offset: it runs at every assignment. `Poll` moves the position and
commits the offset of the last message, not the one after it
(`KafkaSource.scala:150`); the client may commit the positions first, on its own
interval, and the commit sent without waiting may be lost. `CloseConsumer` commits
positions, `LoseConsumer` (a kill) does not. What the client library does was
taken from the calls and the configuration in `KafkaSource.scala`; offsets count
messages.

**Ingestion.** One process: `source` is where documents come from, `pending` what a
stream or a request has decoded, `NextChunk` what `chunkN` would emit (64 for a
request, 1024 for a stream; at the end of a finite stream what is left). `Take`,
`Replace`, `Add` are a batch's way through `addDocuments`; `Answer` is `200 OK`;
`Fail` is any error in a pipeline: a request is answered with 500 and its earlier
batches stay, a stream ends with the process. `Flush` is the periodic one, until it
fails once (`FlushFails` clears `flushing`), `FlushRequest` `POST _flush`; `Finish` the commit after the last document of a file; `Stop`,
`Close`, `Kill`, `Start` the ends and starts of the process, with the flush that
`Indexer` makes when it is released. Documents are dropped at a stop as the streams
are: Kafka's consumer is closed, which commits the positions of messages that are
not indexed. The ghosts `acked`, `durable`, `gone`, `raced`, `polled`, `again` and
`lost` record what was answered, deleted, delivered and dropped: the properties
name their exceptions by them.

**ModelFiles.** `HuggingFaceClient.getCached` and `ModelFileCache.put` by several
processes over one directory. A file has an inode: `FileOutputStream` on the
temporary name truncates it and a rename keeps it, so a process may go on writing
to what another has moved and loaded. `Response` is the request with its answers
that are not the file, `Write` one block, `Move` the rename without replacement.

**Embedding.** `DocumentEmbedder.cache` is one `mutable.Map` for all requests: a
put is `SelectField` and `MarkField`, between which another put is overwritten,
and a read during a put may miss. `CachedEmbedModel.encode` is `GetMemo`,
`CallModel`, `PutMemo`: the texts the cache lacks (`NonCached`, in order) are sent,
and the answer is merged back by place, by counting the misses before it (`Missed`,
`Merged`). The cache may evict anything when it is
full. Its key is 64 bits of a hash of task and text (`MemoryCachedEmbedModel.scala:19`):
`KeyOf` is any function, so that two texts, or one text for two tasks, may share a
key. A model may answer one embedding too few; a query then fails (`FailsQuery`), a
document without a cache fails at its second look (`JoinFails`), one with a cache is left
with `null` (`Missing`).

**Retrieval.** `Combine` is `RRFQuery.combine`. Floats are integers in the order of
the floats they stand for; `Reciprocal` and `Plus` are any rounded quotient and sum
that keep the order (`FloatAssumption`), so that two scores may be rounded to one and
tie, and `k` may be negative. Equal scores come in any order; the rankings of the
sub-queries are any; a query with none fails (`FuseNothing`). `Least` and `Greatest`
are the bounds of the `LongRange` that `RangeAggregator` builds; `ToLong` is
`BigDecimal.toLong` (`FiniteRange.scala:18`), which cuts the fraction off and wraps
beyond the longs.

**Mapping.** `Migrates` is `IndexMapping.migrateField`; `OpenIndex` the start with
any configuration, `CommitFields` and `WriteMapping` the two halves of a flush
between which the indexer may be killed. `buffered` and `segments` are the types
with which documents were written.

**ObjectRead.** `S3Client.getObjectParallel`: `Ends` are the ends of the parts for
whatever part size the division in Float gives, `FetchPart` runs at most `Threads`
parts ahead (16 in the code), `EmitPart` keeps their order.

**Components.** These components share no state: a behaviour of `Components` is one
of one of them, while the others stay at their initial state, so that one run
checks them all without multiplying their states.

Abstractions. In `MasterIndex`, contents are sets of documents, so two documents that Lucene would
merge or delete differently are not told apart. One file stands for all files of a
segment; a torn copy of some of them is a torn copy of the one. Sizes are a
constant function of the content; TLC uses the number of elements, so that two
different contents may have one size. In `Searcher` the use of a closed reader may fail
or, as with Lucene's segments that a newer reader shares, go on; commits of a slave
have their place in the order of commits as their content.

## 3. Runs

| Run | Instance | Checks |
|---|---|---|
| `master_faults` | one requester; 2 documents, 4 commits, 3 starts; shutdown, kill and loss of the disk at any step | `TypeOK`, `SameNameSameContent`, `UncutIsSnapshot`, `RemoteSeqnumGrows` |
| `master_two` | the periodic fiber and a requester; 2 documents, 3 commits | `FlushedIsCommitted`, `FlushedIsPublished` |
| `dist_safety` | an indexer and a searcher that may fail or be killed and starts twice; 2 documents, 3 commits | `RemoteIsSnapshot`, `SlaveIsBehind`, `SlaveNeverPushes`, `UndisturbedIsSnapshot` |
| `dist_live` | the same without faults, fair; 2 commits | `AcceptedIsPublished`, `FeedSpec`, `SlaveCatchesUp`, `DistTypeOK` |
| `searcher_safety` | one periodic syncer, two requests, 3 commits; a new local index or a slave's | `ServedReaderIsOpen`, `CurrentReaderIsOpen`, `ReadersAreClosed`, `ClaimIsReported`, `SyncMovesForward`, `TypeOK` |
| `searcher_live` | flushes and merges by request, a search that races them, 3 commits, fair | `SyncedIsServed`, `CommitIsServed` |
| `components` | 3 versions of 2 documents in 2 partitions, 2 callers, 2 faults; 2 processes, a file of 2 blocks, 2 crashes; 2 embedders, 2 fields, 2 texts, a cache of 2; 3 documents in up to 3 rankings; ranges over -2..2; one field with 6 schemas; objects of up to 6 bytes | `TwoVersionsNeedARace`, `AckedIsHeld`, `PassedIsHeld`, `OlderNeedsRedelivery`, `DoneHoldsFile`, `BatchIsCommitted`, `UnsharedIsWhole`, `ModelIsLoaded`, `EmbeddingSharesItsKey`, `VectorlessNeedsAClash`, `FusionRespectsRankings`, `LongRangesAreExact`, `FieldsKeepTheirType`, `ReadsTheObject`, two type invariants |
| `restart_loss`, `slave_torn`, `searcher_slave`, `search_commits`, `kafka_versions` | see [findings](#5-findings) | one property each, violated |

What they show:

* *Publication.* With the periodic fiber beside requests, what a flush acknowledged
  is in the last commit on disk, whoever made that (`FlushedIsCommitted`). Up to the
  first restart it can be read from the object store whenever nothing is being pushed
  there, also when the other fiber committed or pushed it, as long as no two fibers
  described their commits or pushed at once (`FlushedIsPublished`). Through every
  restart `index.json` in the store never moves to a lower number
  (`RemoteSeqnumGrows`).
* *The store.* Between synchronizations the store is exactly one commit: what the
  manifest lists is there, whole and of that size, and nothing else is
  (`RemoteIsSnapshot`); through shutdowns, kills, lost disks and restarts too, until a
  copy between the directory and the store is cut off (`UncutIsSnapshot`). Until then
  a name stands for one content in both, though every start has a new writer with a
  numbering of its own (`SameNameSameContent`), which is what the comparison of names
  and sizes in `diff` relies on.
* *The feed.* Every commit with documents is published (`AcceptedIsPublished`),
  and the store is a feed of snapshots (`FeedSpec`).
* *Searchers.* A searcher is never ahead of the store and never writes there,
  though `fromRemote` has that branch (`SlaveIsBehind`, `SlaveNeverPushes`). One
  whose synchronizations met no writing and no stop has a whole commit and no file
  besides (`UndisturbedIsSnapshot`), and catches up (`SlaveCatchesUp`).
* *Readers.* When syncers do not overlap, a new request is given an open reader, except
  between the closing of the old and its replacement (`ServedReaderIsOpen`). The
  reader of the last commit is never closed (`CurrentReaderIsOpen`): a request
  fails on a closed reader only when a commit came in after it fetched it. Readers
  do not pile up (`ReadersAreClosed`), claim no number the index has not reported
  (`ClaimIsReported`), and a sync never goes back (`SyncMovesForward`). When
  fibers that flush are done, requests get the last commit, unless the reader they get
  was put into the Ref after that commit, by a first request that had opened it before
  (`SyncedIsServed`). Every commit is served sooner or later, with the same exception,
  and unless `_merge` made it (`CommitIsServed`).

* *Documents.* An id is in the index twice only if one batch had it twice or two
  calls were between delete and add at once (`TwoVersionsNeedARace`). What a
  request was told is indexed is, itself or replaced, and survives a commit; the
  exceptions are deletes and a batch that failed or is still to add after it
  deleted (`AckedIsHeld`).
* *Streams.* A Kafka consumer is past a message only if the index has it or it is
  on its way; or it was dropped by a stop, a kill or a failure, or skipped by an
  assignment that does not go on from the group's offset (`PassedIsHeld`):
  redelivery, lost commits and rebalances lose nothing by themselves. A stream
  puts an older version over a newer one only when the older one is delivered
  again (`OlderNeedsRedelivery`). An offline run that finished has the whole file in
  its commit, through kills and restarts (`DoneHoldsFile`), and a full batch reaches
  a commit (`BatchIsCommitted`).
* *Models.* A model file is whole under its name, and so is what was loaded, unless
  two downloads had it open at once (`UnsharedIsWhole`); every process that is
  started again after failures loads its model in the end (`ModelIsLoaded`).
* *Embedding.* Nobody gets the embedding of another text or task but by a collision of
  the 64 bits that are the key of the cache (`EmbeddingSharesItsKey`), and a document loses its vectors only if its request met
  another at the shared map (`VectorlessNeedsAClash`).
* *Answers.* If `k` is not negative, a fused ranking prefers a document that no
  ranking prefers and some ranking does not only when both scores were rounded to one
  float; it loses none and doubles none, whatever `k` (`FusionRespectsRankings`).
  Ranges whose bounds are longs count what they ask for, but for the greatest long
  (`LongRangesAreExact`). An object is read in order and entirely
  (`ReadsTheObject`).
* *Mappings.* However often the mapping changes and migrates, a field of the
  committed documents has the type of the mapping in use, but for fields that
  `index.json` was left without (`FieldsKeepTheirType`).

Every property is also run against a mutant of the model: the definitions that a
comment calls a mutant are plausible errors in the code (a comparison the wrong
way round, a delete left out, a swap forgotten), and each property is violated
when its mutant replaces the definition of the code.

## 4. Bounds and fairness

`MaxDocs`, `MaxGen`, `MaxCommits`, `MaxStarts` and `MaxBoots` bound what a real system leaves
open. Two documents and three commits give a manifest that is replaced while it is
being copied, a file that is deleted, one that stays and one that is added, and a
merge that replaces two segments by one. Three starts give an index that was
written, written again by a new writer, and opened once more: the shortest history
in which sequence numbers that start again matter. `searcher_live` has one syncer and
one search; two syncers and a search with two commits were tried once, 9 million
states, with the same outcome for both of its properties, as were two fibers with restarts for
`SameNameSameContent`, 3 million. Two requests are enough for a
race to open the first reader, with a third party, the syncer, replacing it. One
searcher is enough, as searchers do not see each other; it starts twice, so that
the second start finds what a failure or a kill left of the first, and copies two
files at a time, the fewest that overlap.

The bounds are guards of `AddDocument`, `CanMerge` and `FlushBegins`, `Merge`,
`Pull`, `Boot` and `SlaveBoot`; with them a document is accepted only if it can still be
committed, so that a bound never stops a flush half way (`Room` in the proofs).

In `components`, three versions give a document that is replaced and one beside it,
in partitions of their own, so that two assignments differ; with chunks of one (a
request of two makes two batches) and of two (a stream's batch has both versions
of one id, or is left incomplete). Two faults give a kill after a stop, a
rebalance and then a kill, a failure and a restart: what loses a message needs one,
what delivers it again another. Two processes are the fewest that share a
temporary file; one more, tried once, gave 1.6 million states and nothing new. `Ingestion` stops when all versions are
produced and all faults used; `MaxBusy` bounds answers of 429, `MaxCrashes` failed
downloads, `MaxJobs` batches to embed.

Deadlock is checked in `master_two` and `searcher_safety`, where
some fiber can always go on. The other runs stop when they reach a bound with
nothing left to do, or with the periodic fiber dead, and say
`CHECK_DEADLOCK FALSE`.

Fairness is weak and per fiber: each goes on with what it began
(`WF(ThreadStep)`, `WF(ProcessStep)`, `WF(SlaveStep)`, `WF(SyncerStep)`,
`WF(QueryStep)`). The cats-effect runtime schedules every runnable fiber, the
calls the fibers make return or fail, and a periodic stream comes back with every
interval until it fails. Nothing is assumed of documents, requests, merges and failures: they may
come or not. In `components` the stream's fiber goes on (`Take`, `Replace` or `Add`),
polls, and the periodic flush comes back as long as none has failed
(`IngestionFairness`; `BatchIsCommitted` exempts a process whose periodic fiber is
gone); polls are fair by
themselves because a stream that waits for more messages asks again. Processes that
download models run on and are started again (`ModelFilesFairness`), which is what
a supervisor does with an indexer that exited; the hub answers 429 a bounded number
of times, as nothing is promised otherwise. `dist_live` has no faults: after a first failure the periodic
fiber is gone (`PeriodicEvalStream.scala:9-14`), and nothing is promised.

## 5. Findings

Five statements of the documentation are not what the code does; each has a run in
which TLC finds the counterexample.

* **`restart_loss`**: an indexer is shut down in order and started again. Its new
  `IndexWriter` counts from the beginning, so the next flush commits with a number
  that is not above the store's; `sync()` takes the store to be up to date and
  answers 200 OK. At the start after that, `fromRemote` finds the store's number
  higher and overwrites the local commit. The document is in neither copy
  (`s3.md:9`: nodes "can be added or removed without data loss"). With a pod that
  loses its disk TLC finds a second way: a pull that stopped after `index.json`
  and before the other files leaves two equal numbers, the copy is skipped at the
  next start, and the writer opens on an empty directory.
* **`slave_torn`**: a searcher pulls while the indexer pushes; its synchronization
  succeeds and its `index.json` lists a file it does not have or has of another
  size (`key_features.md:23`: "Truly immutable index files"). The
  repository's `backup.md:40` warns of files that vanish while one copies a bucket
  by hand.
* **`searcher_slave`**: `SlaveIndex.sync` pulls a commit and leaves the `seqnum`
  Ref as it was at the start; the searcher compares it with its readers' number
  and does not reload (`lambda.md:57`: "searchers stay in sync automatically"). In the
  trace a reader of the first commit is open, the second is pulled entirely, the
  searcher synchronizes, everything comes to rest, and requests get the first
  (`PulledIsServed`).
* **`search_commits`**: the stages of one search fetch the readers anew. In the trace
  the hits are found in one commit, a sync of the searcher swaps the readers, and the
  stored fields of those document numbers are read from the next commit
  (`HitsAreOfOneCommit`; `overview.md:22`: "top-N matching documents"). The
  aggregations in between fetch the readers too, and those of terms use them.
* **`kafka_versions`**: an indexer consumes a topic without any failure. Two versions of
  one document are in one batch; `addDocuments` deletes their id once and adds
  both, and the flush commits both (`indexing/overview.md:95`: compacted topics "as
  a view over last versions of documents, with real-time updates"). Compaction
  leaves the recent part of a topic as it was produced, so even a consumer that
  starts at the beginning meets both versions close to each other; a document
  updated twice within 1024 messages is enough.

## 6. What does not hold and is not promised

Met while modelling; no line of the repository states the contrary, so no run
claims it.

* When two fibers of an indexer cross, `FlushedIsPublished` promises nothing any more
  (`crossed`), for two reasons. The fiber's commit leaves `_flush` nothing to do; while
  the fiber is still describing that commit, `_flush` reads the old `index.json` and
  answers 200 OK. That is made up for by the fiber's own push. But a fiber that is
  pushing one commit may as well copy the `index.json` that a request has written for
  the next one, without the files that this lists and its own diff does not: the
  request then finds two equal numbers, pushes nothing and answers 200 OK, and its
  documents are not in the store until there is another commit.
* With two fibers `RemoteSeqnumGrows` fails as well: one uploads the
  `index.json` the other is just rewriting. Two fibers that write `index.json` at once
  may also fail, as one deletes or creates it under the other (`DeleteManifest`,
  `CreateManifest`); for the periodic one that is the end.
* A start that is killed after it pulled `index.json` and before the segments it lists
  leaves two equal numbers. The next start skips the copy, its writer finds an empty
  directory and begins at the first generation, and publishes names that the store
  has given to other contents: `SameNameSameContent` and `UncutIsSnapshot` are about
  what comes before such a cut (`cut`).
* A synchronization of the indexer that is killed after a delete fails at the
  next start, where it deletes again; the same start fails on a torn `index.json`.
* Two syncers of one searcher violate `ServedReaderIsOpen` and `ClaimIsReported`.
* The first request may open a reader, a commit comes in, and the reader is stamped with
  the new number; or it is installed over the one a sync has just put there. The old
  commit is then served until there is another: what `late` stands for, and
  `SyncedIsServed` and `CommitIsServed` exempt.
* A slave that is copying a commit, or failed to, is between two commits: readers that
  are opened or reopened meanwhile may fail, and for the periodic fiber that is the end.
* A standalone process that is restarted on an existing index has commits with
  lower numbers than its readers, which are then not reloaded until the count
  catches up; `searcher_safety` and `searcher_live` start local indexes empty.
* From Kafka, up to 1023 documents wait for messages that may never come
  (`chunkN(1024)`, `IndexMode.scala:93`), though their offsets are committed; a stop
  drops them. `BatchIsCommitted` is about full batches, `PassedIsHeld` counts those
  that were stopped as `lost`.
* With `offset=latest` a rebalance skips what was not polled, with `earliest`, `ts=`
  and `last=` it goes back; with `ts=` or `last=` and a partition that has no later
  message, `offsetsForTimes` has no entry and the listener fails
  (`KafkaSource.scala:130`), which ends the indexer.
* A batch that fails after its delete leaves its ids without any document.
* Two downloads of one file may move and load what one of them still writes.
* With a negative `k` of an rrf query (`RRFQuery.scala:89`) the places before `-k` score
  less than none at all; `FusionRespectsRankings` is about the order only for other
  `k`. Two places far down a long ranking may be rounded to one score and come in any
  order, which the property allows.
* Two texts, or one text for two tasks, whose hashes agree in the 64 bits that are the
  key of the embedding cache (`MemoryCachedEmbedModel.scala:19-20`) get the embedding of
  whichever came first, as long as the cache keeps it.
* A model that answers too few embeddings leaves `null` in a batch that has a cache.
* A bound of a range beyond the longs comes out as another long
  (`FiniteRange.scala:18`), so `<= 2^63` counts what `<= -2^63` would;
  `LongRangesAreExact` is about bounds that are longs.
* Ranges of integers with fractional bounds are cut toward zero
  (`RangeAggregator.scala:51`), so `>= 1.5` counts 1 and `< 1.5` leaves it out.
* `delete()` answers a difference of `numDocs`, which does not count deletes that
  are buffered and does count what other fibers do; the gauge of active queries is
  not decremented by failed requests. Both are numbers nothing depends on.
* `POST _merge` does not sync the searcher; `CommitIsServed` makes an exception
  for it.

## 7. Proofs

TLAPS checks these for all values of the constants, from the assumptions the
modules name and TLC evaluates in the runs: `BoundsAssumption`, `SizeAssumption`,
`ActorsAssumption`, `ParallelAssumption`, `MasterAssumption`, `SlaveAssumption`,
`SearcherAssumption`, `VersionsAssumption`, `KafkaAssumption`,
`IngestionAssumption`, `ModelFilesAssumption`, `EmbeddingAssumption`,
`RetrievalAssumption`, `FloatAssumption`, `MappingAssumption`, `ObjectReadAssumption`. They say of what
kind the constants are, that actors have names of their own, that sizes are not 0
(a file of size 0 and one that is not listed are the same to a manifest here).

Every safety property that a passing run checks is a theorem. Some have a hypothesis
on the constants or the behaviours, which is part of the statement:

| Hypothesis | Theorems | What happens without it |
|---|---|---|
| `[]Uncrossed`: no two of the indexer's fibers describe their commits, compare or push at once as `Crossing` says (and there is a fiber, `Threads # {}`); it is in `FlushedIsPublished` and `UncutIsSnapshot` themselves, and as `crossed` in `PublishedNamesLast` | `RemoteSeqnumOnlyGrows`, `RemoteStaysSnapshot`, `RemoteSurvivesRestarts`, `IndexerIsAFeed`, and of `DistributedIndex` `SlavesStayBehind`, `SlavesNeverPush`, `DistRemoteSeqnumGrows`, `UndisturbedStaysSnapshot`, `DistRemoteStaysSnapshot`, `DistributedIsAFeed` | a fiber uploads the `index.json` that another is rewriting or has just written ([section 6](#6-what-does-not-hold-and-is-not-promised)) |
| `starts <= 1`: until the indexer starts again | `FlushedStaysCommitted`, `NamesStayUnique`; it is in `FlushedIsPublished` itself | sequence numbers and names start again (`restart_loss`) |
| `OneLife`: until the indexer stops or fails | `RemoteStaysSnapshot`, `IndexerIsAFeed`, `DistributedIsAFeed` | a push that is cut off leaves a mixture; a new writer counts generations anew |
| `[][~CutsPush]_vars`: no push stops before its last operation | `RemoteSurvivesRestarts`, `UndisturbedStaysSnapshot`, `DistRemoteStaysSnapshot`, instead of `OneLife`; as `cut` it is in `UncutIsSnapshot` and `SameNameSameContent` themselves | the same mixture; names given out again |
| `[]OneAtATime` of `Searcher_proofs`: what the fibers that synchronize the searcher do does not overlap (and there is one, `Syncers # {}`) | `ServedReaderStaysOpen`, `ReadersDoNotPileUp` (which also takes a finite number of requests, to count), `ClaimsAreReported`, `SyncedCommitsAreServed`, `SyncOnlyMovesForward` | two close each other's readers |
| `FreshStarts`: a local index starts empty | `ClaimsAreReported`, `SyncedCommitsAreServed` | the restart of a standalone process, section 6 |

These are the instances the runs check, without their bounds: where a run has one
requester and three starts, the theorem has any fibers and any number of starts.
`Uncrossed` and `OneAtATime` hold by themselves with one fiber (`OneFiber`,
`OneSyncer`): `Uncrossed` in an indexer whose `_flush` and `_merge` are not called,
`OneAtATime` in search mode. With more nothing in the code enforces them: an indexer
with the REST API has its periodic fiber beside requests, an offline one beside the
flush and sync at its end. Most overlaps are not crossings: a fiber may flush what
another does not see, wait, find nothing to push, or merge while another pushes.
Searchers may be killed and may fail in all of them.

**`MasterIndex_proofs`**, invariants on top of each other.

* `MasterInv`, for any fibers and faults: `TypeOK`; `Room`, there is something to
  commit only while a generation is left; `SegmentsInv`, what a `segments_g`
  contains anywhere are generations. `MasterTypeCorrect` is the first conjunct. The
  largest generation of a directory exists by well-founded induction on a set of
  naturals (`LargestGen`).
* `SeqnumInv(t)`, of every fiber: what it is about to upload is the directory's present
  `index.json` and `Ahead` of the store, from its comparison (`replica`) to the last
  operation of its push, though `index.json` may be copied anywhere between. What
  other fibers do beside it without crossing leaves that so (`SeqnumBeside`).
  `RemoteSeqnumOnlyGrows` follows step by step (`RemoteMovesOn`), through every
  restart.
* `HeldInv`, for the first life and any fibers: what a request `covers` is in the
  buffer or on disk, and on disk from the moment its flush returns, whoever
  committed it. It needs `SegmentsAreOld`, that the next generation is not in use,
  and that needs `BirthInv`, that nothing is anywhere before the first start.
  `FlushedStaysCommitted` is its part `acked \subseteq OnDisk`.
* `LifeInv(t)`, for the first life and a fiber that `Leads`: no other is describing its
  commit or pushing, and without crossings somebody always leads (`SomebodyLeads`).
  It says how far `index.json` is behind the directory (`DirectoryInv`), the fiber's
  manifest behind both (`HandInv`), that a file both stores have is the same
  (`CommitInv`), that the store is `Exact` and has what is acknowledged unless the
  leader is pushing (`RestInv`), and that then it is being copied (`PushInv`). The
  steps of the others keep it (`ColdStep`), and who begins to describe or push takes it
  over (`LifeHandsOver`).

  `Copying(m, todo, files, n)` is what makes a push work in any order: what the
  source's manifest lists is whole and of its size, or still to be added; what it
  does not list is absent or still to be deleted; `index.json` is copied or still to
  be. `CopyStarts` gives it for the `Diff` with a directory that `Matches` its
  manifest, `CopyPutsFile`, `CopyPutsManifest`, `CopyOpensFile` and
  `CopyOpensManifest` keep it for one operation, in a store that shows a copy whole
  and in one that shows its halves, and `CopyEnds` turns it into `Matches` when
  nothing is left. The searchers use the same lemmas.

  `FlushedStaysPublished` and `RemoteStaysSnapshot` are in `RestInv`; the first is of
  `MasterHistory`, whose `crossed` says up to when there were no crossings (`HistInv`).
  Without faults the first life is the only one (`RemoteStaysSnapshotForever`).
  `IndexerIsAFeed` adds
  `FeedInv`, that the store lists no generation the writer has not made, and goes
  through the steps that change either side of the refinement: a commit makes the next
  (`CommitsMove`), the copying of `index.json` publishes the newest, since none is made
  during a push; all else stutters.
* `UncutInv`, for every life and all faults, asks for much less than `LifeInv`, since
  after a restart names mean new contents, sequence numbers start again, and the
  directory may be ahead of its `index.json` or empty. The last commit is on disk and
  lists no segment of a later one (`DiskInv`: then a writer that opens finds its
  segments older than what it makes next); a manifest that is being made describes the
  last commit (`MakingInv`); the store is `Exact`, or a push or a start's push is
  `Copying` from the directory's `index.json` (`StoreInv`). What makes the copy right
  is `Faithful`: as long as `index.json` is still to be pushed (`Pending`), what the
  directory has of the files it lists is whole and of the listed size, and older than
  what the writer makes next; files that are gone make a push fail, which is cutting
  it off. A start that pulls, and a writer that opens, find nothing pending, because
  `fromRemote` has compared the two before. `RemoteSurvivesRestarts` follows: between
  two pushes the indexer may be killed, lose its disk and start again anywhere else,
  in a flush, in a pull, between a commit and its `index.json`. `UncutStaysSnapshot` is
  the same of the indexer with its history, which is what the run checks.

**`DistributedIndex_proofs`** builds on these invariants rather than proving them
again: `Aside` says that a searcher's step touches nothing they are about, and
`MasterTouches` what a step of the indexer leaves to the searchers.

* `DistTypesStay` has no hypothesis.
* `BehindInv`: `SlavesStayBehind` and `SlavesNeverPush` hold each other up, as a
  searcher that was ahead would push at its next start, and one that pushed could
  take the store back. A torn `index.json` of a searcher counts as none.
* `NameInv`: while the first writer is at work every whole file anywhere is of a
  generation it has reached (`NamesAreOld`), so that a commit's names are new; every
  other step only spreads contents that exist (`Spread`). Before that (`Early`)
  searchers have nothing. `NamesStayUnique` allows any fibers: they share one
  writer.
* `LastingInv`, on top of `UncutInv`, is about names in every life. A new writer goes
  on from the highest generation in its directory, so that must not be behind what any
  `index.json` lists: the directory has a `segments_g` that high (`Reaches`), or a
  start's copy will bring one and not delete it (`Fetching`), or the disk is lost and
  the next start copies the store (`Lost`). Every `index.json` lists one `segments_g`,
  which is its newest file (`OneCommit`). While a writer is at work nothing that is
  listed, and nothing whole in the store, is of a later generation than its own
  (`WriterLeads`), so a commit's names are new. `PublishedNamesLast` is
  `SameNameSameContent` through kills, lost disks and restarts.
* `UndisturbedInv`: a searcher that is not `disturbed` is `Copying` from the store's
  present manifest while it pulls (and nothing is being written there), and `Exact`
  otherwise. A push that begins meanwhile disturbs it; `Following` is what a step of
  the searcher keeps. That the store it reads is `Exact` is `UncutInv`, which
  `BesideInv` carries over, so this holds through the indexer's restarts;
  `DistRemoteStaysSnapshot` is the same of the store.
* `FirstLifeInv` carries `UncrossedInv` over: `DistributedIsAFeed`.

**`Searcher_proofs`.** `TypeCorrect`: `Spec => []TypeOK`.
`CurrentReaderStaysOpen`: `Spec => []CurrentReaderIsOpen`, for any number of
syncers and requests, so also where `ServedReaderIsOpen` fails. The property is
not inductive. The invariant says of all readers that anybody holds, in the Ref, in
`mine` or in `fresh`, that their identities were given out (`id <= opened`), that
one identity means one commit, and that none is of a later commit than the
directory's; and of a syncer about to close a reader, that the commit of that
reader is not the last. Opening a reader then gives an identity nobody holds, and
closing one closes no reader of the last commit. It is `ReadersInv /\ CloseInv`;
one lemma per action shows it preserved.

The others are about syncers that work one at a time. Each has an invariant of one
syncer, which holds while no other is at work (`Only`) and is handed over when the
next begins: all that it says of a syncer that is quiet, it says of every quiet one.
`SyncersTakeTurns` finds who steps, and a `...HandsOver` lemma per invariant does the
rest.

The syncer at work alone closes readers: what it holds is open, and what it is about
to serve is not what it closes (`OpenInv`); a first request that lost the race has a
reader nobody else has (`FirstInv`). Those are `OneInv`, from which
`ServedReaderStaysOpen`. `ReadersDoNotPileUp` counts: the readers opened, and the
requests and the syncer at work that may still open a first one (`MayOpen`), less the
readers closed, are never more than the requests and one, and one more while a reader
waits to be closed (`CountInv`), so the number of syncers does not matter.
`ClaimsAreReported` follows the number from the directory to `index.json`, to the
Ref, to the readers (`SeqnumInv`, `ClaimsInv`), and `SyncedCommitsAreServed` along
the same way in the other direction (`LocalServed`), unless a first request came late,
whose reader is then the one in the Ref; after a `_merge`, which leaves
the searcher behind, it is the next flush that serves the commit, whichever syncer
makes it. `SyncOnlyMovesForward` is an action property: from
opening a reader to serving it, there is no newer commit (`LastInv`).

**`Ingestion_proofs`.** `TwoVersionsOnlyByRaces`: `IngestionSpec =>
[]TwoVersionsNeedARace`, with no assumption on the constants beyond their kinds. Not
inductive: an add keeps ids single only because its own delete cleared them and
nobody has added since. `SingleInv` says so: an id that was not raced for has at
most one document in `live` and in `disk` (`Single`), and none while a call that has
it is between delete and add (`Cleared`). `CopiesOfOne` is the lemma on batches: an
id that is once in a batch gives one document. A commit copies `live` to `disk`,
a kill `disk` to `live`; both keep `Single`.

**`Delivery_proofs`**, the other properties of `Ingestion`, with no hypothesis.

* `AnsweredIsHeld`: what a request was asked to index is in its pipeline, or held,
  or deleted since, batch by batch (`AskedInv`), until the answer.
* `FinishedFileIsHeld`: every version of a file is `Secure`: what the stream does
  next leaves the index with it or a later one. Either the batch between delete and
  add has it, or what is pending, with nothing older after it (`Comes`), or the
  index has it and nothing older is to come (`NoOlder`).
* `PassedMessagesAreHeld`: the same of a partition, up to the consumer's position
  (`PassedOf`). A rebalance moves the position without a poll, so the invariant has
  to say as well where one may move it (`Reach`, `ReachOf`), and of the messages
  before a polled one, which can be without having been polled (`GapsOf`): one case
  for each start offset.
* `OlderIsRedelivered`: what comes for the first time is later than all of its
  document that the index has, that the batch has, and that is pending before it
  (`OrderInv`); a poll keeps that by `GapsOf`.

**`Algorithms_proofs`.**

* `ObjectsAreReadWhole`: the stream is the first bytes of the object, to the end of
  the last part emitted (`ObjectInv`), as the parts meet end to end (`BeginningGrows`).
* `RangesAreExact`: for bounds that are longs, or left out, those of the `LongRange` are
  the least and the greatest long that the request means, whatever the longs are
  (`MinLong..MaxLong`); what `ToLong` makes of other bounds is not claimed.
* `FusionsRespectRankings`: a document that dominates another comes before it or has an
  equal score. Of floats only `FloatAssumption` is used: rounded sums and quotients keep
  the order. A sum is a recursive function over the rankings; that its recurrence has
  one solution is shown by the least place where two would differ, and that sums of
  larger numbers are not smaller in the same way. `k` is any float in the part on lost
  and doubled documents, and not negative in the part on the order.
* `EmbeddingsShareTheirKeys`: what the cache has under a key, what a fiber found there,
  what it was answered and what it merged is each the embedding of a text with the key
  of the text at that place, or missing, for any `KeyOf`. The answer is merged by
  counting the misses before a place (`Missed`), so the lemmas are on cardinalities:
  the n-th missing text is the n-th that was sent.
* `VectorsAreLostByClashes`: a field that is not in the map, or that a put under way
  has not seen, is only of documents that met a put (`LossNeedsAClash`).

**`ModelFiles_proofs`.** `ModelFilesTypeCorrect`, and `UnsharedFilesAreWhole`:
`ModelFilesSpec => []UnsharedIsWhole`, for any number of processes, blocks, failures
and kills. The rename takes whatever has the temporary name, so the invariant has to
say that it is the mover's: until there is a file under the name, every open file
is the temporary one (`NamesInv`), two processes have one open only if it is
shared, and an unshared file is what its only writer has written (`ContentInv`).

**`Mapping_proofs`.** `FieldsAlwaysKeepTheirType`: `MappingSpec =>
[]FieldsKeepTheirType`, for any fields, schemas and starts. Between starts only
`index.json` knows the types (`KnownInv`); while an indexer runs, what is buffered
has the types of its mapping (`BufferInv`). `MigrationFits` is the lemma on
`migrateField`.

Only model-checked:

* Liveness: `AcceptedIsPublished`, `SlaveCatchesUp`, `CommitIsServed`,
  `BatchIsCommitted`, `ModelIsLoaded`, and of `FeedSpec` the fairness, that the newest
  commit is published sooner or later. Fairness needs `ENABLED`, which the prover does
  not have.

Where an induction over numbers was needed (a largest generation, the first message
not polled, the n-th missing text, a sum) it was stated of a set of naturals, which
has a least member.

## 8. What is not modelled

* Shared-disk replicas (`RemotePathStateClient`). An S3 object is written as one;
  in `FileSync` it is also read as one, its parts are in `ObjectRead`.
* Fields of documents, except as types in `Mapping` and vectors in `Embedding`;
  documents without an `_id`, which get a random one, and nested documents.
* Compaction and retention of a topic, several consumers in one group, and what a
  broker does beyond the group's offsets.
* The text of requests and answers, the counts of `_delete`, routing, JSON.
* `Searcher.close`, the gauge of active queries, `rag`, and what queries match.
* The dictionary of models, which files a model has, the time between retries.
* Wildcard fields of mappings, configuration, suggestions, term aggregations, ranges
  of floats and dates: conversions without state, or Lucene's.
* ONNX inference, calls to providers, metrics, analytics: I/O, numbers and formats,
  nothing a model checker reaches.
* The web UI, `src/src/main/resources/ui/assets/index.js`: the generated, minified
  bundle of third-party libraries (React, Mantine, Refine, react-query). The
  application's own part is fragments of three of its 290 lines: a list of
  resources and a form that sends one search request per submit and shows the hits.
  Its sources are not in the repository, and it keeps no state but the form's, so a
  model of it would be one of those libraries. It is the only JavaScript in the
  repository: the search engine is written in Scala, which is what the modules
  model.

## 9. Plan

Built first: the core, in the order manifest, copying, indexer, searcher's copy,
both together, readers; then ingestion, model files, embedding, retrieval, mapping,
objects. What is left:

1. *Searcher.* Its close, restart of a standalone process.
2. *FileSync.* The shared disk as a store; parts of an object that is overwritten
   while it is read.
3. *Mapping.* Wildcard fields, and the mapping that a searcher migrates.

Theorems worth proving next: what fibers of an indexer that crossed still guarantee
in its first life (`RemoteSeqnumGrows` fails, but not that the number in the store
stays at most the writer's); that a push after one that was cut off repairs the store
when the first had deleted nothing and the directory is the same.
