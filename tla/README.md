# Verification of embedding-processing-rs

TLA+ models of this repository: the storage core (the `embedding-store` crate: the append-only
record log of a workspace, the shard that keeps two vector indexes over it, the pool that opens,
shares and demotes shards), the server process that acknowledges writes, maintains the shards and
shuts down (`embedding-server`), the making of a document (`embedding-processing`) and the query
that reads documents while they change, the batching workers of the model services
(`embedding-model`, `reranking-model`), and the migration from the old storage. TLC checks them on
small instances; TLAPS proves the central safety properties for every instance.

    tlc -workers 2 -config StoreDocs.cfg MCStoreRefinement
    tlc -workers 2 -config ServerAcks.cfg MCServer
    tlapm StoreProofs.tla

## 1. Inventory of the system

| Component | State | Operations | Hard behaviour |
|---|---|---|---|
| Record log, replay (`record.rs`, `replay.rs`, `maps.rs`) | records in segments; maps of documents, splits, summaries to locations | encode/decode, `scan_segment`, `apply`, `commit_doc`, `remove_doc` | torn tails; records of an unfinished insert |
| Record store (`store.rs`, `segment.rs`, `manifest.rs`, `meta_snapshot.rs`, `compact.rs`) | segment files, manifest, `meta.snap`; active segment with its write buffer, maps, dead-byte counts | `insert` (with rewind), `delete`, `seal_active`, `fsync`, `snapshot_meta`, `compact_if_needed`, `open` | crash or power loss between any two disk effects; failing disk operations |
| Shard (`shard.rs`, `vector_index.rs`) | one store, two indexes (resident or mapped), index files, `indexes.state`; a read-write lock | `insert`, `delete`, `snapshot`, `promote`, `demote`, `compact_if_needed`, `fsync`, `open_with`, searches | two lock sections in one call; telling trustworthy index files from stale ones |
| Shard pool (`pool.rs`) | map of workspaces to shards, LRU clock, measured bytes, opening gates | `get`, `get_existing`, `peek`, `evict`, `close`, `enforce_budget`, `snapshot_all`, `fsync_all`, `compact_if_needed`, `stats` | opens and demotions without the pool lock; strong counts as a test for use; termination of the budget loop |
| Maintenance, shutdown (`embedding-server/src/maintenance.rs`, `main.rs`) | timer, shutdown flag | maintenance pass, signal handler, `await_shutdown` | final snapshot against requests in flight and against the main thread |
| Query, retrieval, rerank (`api/query.rs`, `api/retrieval.rs`, `api/rerank.rs`; the searches of `shard.rs`) | none between requests | search, cut, load, group, rerank, merge | documents that change between search and load; two distances for one split |
| Insertion, deletion (`api/insertion.rs`, `api/delete.rs`, `embedding-processing`) | none between requests | split, summarise, embed, store | partial failure of a document's splits; vectors paired with texts by position |
| Transport (`zmq/server_worker.rs`, `schema/`) | sockets | worker loop | error answers |
| Model services (`embedding-model`, `reranking-model`, `get_embeddings`, `get_rerankings`) | the batch of each worker, which outlives a request | batching worker, broker, client | pairing answers with requests; failed decodes; late answers |
| Migration (`migrate.rs`, `bin/migrate_rocksdb.rs`) | the old store; destination shards; a report | scan, read, insert, snapshot, report, exit | damaged sources; a run that is killed and repeated |
| CLI clients, benchmarks, shared types | none | | |

Interaction: a request handler takes an `Arc<Shard>` from the pool (`get` for inserts,
`get_existing` for deletes and reads), calls the shard under the shard's own lock, and drops
the `Arc`. The maintenance thread walks all loaded shards (`fsync_all`, `compact_if_needed`,
`snapshot_all`) and calls `enforce_budget`. The shard calls its store under its write lock, so
the store itself is sequential: what can interrupt it is a crash. An insertion first calls the
embedding service once per split, each call over a socket of its own; a signal is taken by a
handler thread that snapshots and exits, while the workers go on.

What makes each part correct:

* log and store: reading the log back gives the maps; recovery gives a state the callers were
  promised, so that the store is a durable set of documents; sealed segments are durable and immutable; sequence numbers are unique; the store
  always opens again; dead records are not counted twice;
* shard: searches see exactly the stored documents; index files that an open trusts describe
  this log;
* pool: one usable shard per workspace; a held shard is the map's; opens are served; calls
  return;
* server: an acknowledged write is durable when the policy says so, and becomes durable when it
  leaves that to the timer; a request has one outcome; a signal does not cut the final
  snapshots short;
* insertion: whatever the model leaves out, text and vector stay together;
* query: what is answered was there; nothing nearer is missing; the order is that of distance;
* migration: success means everything is there for good, and the report hides nothing;
* model services: an answer is computed from the texts of the call that gets it; ranks are
  ordered; no request takes a worker down or goes unanswered.

`PROJECT.json` lists the hazards behind these properties, each at its line.

## 2. Modules

| Module | Models | Runs / proofs |
|---|---|---|
| `RecordLog` | records, maps and replay, as operators | through `Store` |
| `Store` (extends `RecordLog`) | the record store, one action per disk effect | through `StoreRefinement` |
| `StoreFaults` (extends `Store`) | writes whose flush or rewind fails, failing seals and compactions | `MCStoreFaults` |
| `StoreProofs` (extends `Store`, `NatSets`) | theorems about `Store`: its segments, manifests, records, sequence numbers and locations | TLAPS |
| `StoreDocProofs` (extends `StoreProofs`, `StoreRefinement`, `StoreFaults`) | theorems about `Store`: its documents and their parts, what a replay gives, what an open recovers, and that `Store` implements `DocStore` | TLAPS |
| `DocStore` | what a store promises: an abstract specification | through `StoreRefinement` |
| `StoreRefinement` (extends `Store`) | that `Store` implements `DocStore` | `MCStoreRefinement` |
| `ShardPool` | the pool, one action per hold of the pool lock | `MCShardPool` |
| `ShardPoolProofs` | theorems about `ShardPool` | TLAPS |
| `Shard` | the shard over an abstract store | `MCShard` |
| `ShardProofs` | theorems about `Shard` | TLAPS |
| `Server` | request threads, maintenance, shutdown, over shards as logs | `MCServer` |
| `ServerProofs` | theorems about `Server` | TLAPS |
| `ModelWorker` | both model services: callers, broker, batching workers | `MCModelWorker` |
| `ModelWorkerProofs` (extends `ModelWorker`, `NatSets`) | theorems about `ModelWorker` | TLAPS |
| `Pipeline` | how a text becomes splits and summaries, as operators | through `Query` |
| `Query` (extends `Pipeline`) | a query against changing shards; searches of a shard | `MCQuery` |
| `Migration` | the migration and its runs | `MCMigration` |
| `MigrationProofs` (extends `Migration`, `NatSets`) | theorems about `Migration` | TLAPS |
| `NatSets` | lemmas on numbers, finite sets of them, and recursive functions; models no code | TLAPS |

### RecordLog and Store

`files` are the segment files with the length that has reached the device; `man` and `snap`
are the manifest and `meta.snap` on disk; `m`, `active`, `lastSeq`, `buf`, `maps`, `pend` are
the fields of `Store` (`buf` is the `BufWriter`); `op` is the operation in progress. An
operation is cut exactly where the disk changes, and `Crash` is enabled after every cut:

| Code | Actions |
|---|---|
| `Store::insert` | `AppendDocument`, then `InsertCommit` or `InsertRewind` |
| `Store::delete` | `AppendDelete`, `DeleteCommit` |
| `seal_if_needed`, `seal_active` | `SealActive`, `SealPublish` |
| `fsync` | `Fsync` |
| `snapshot_meta` | `SnapshotWrite`, `SnapshotPublish` |
| `compact` | `CompactFails`, or `CompactWrite`, `CompactUnsnap`, `CompactPublish`, `CompactRemove`, then the two snapshot actions |
| `Store::open` | `OpenBegin`, `OpenReject`, `OpenReplay` |
| the process dies | `Crash`: any prefix of the buffer has been written, perhaps with part of one more record |
| the machine dies | `PowerLoss`: also takes any unsynced suffix of the active segment |

`Store` is the store whose disk operations succeed, with two exceptions that leave nothing behind: an
append that fails and is rewound (`InsertRewind`), and a compaction that fails before it has changed
anything (`CompactFails`). What its properties and theorems say is said of this store. `StoreFaults`
adds the operations that fail half way while the process goes on, one failure in a behaviour:

| Code | Action | What stays behind |
|---|---|---|
| `insert`, `store.rs:285-290` | `RewindFails`: `truncate_to` flushes the `BufWriter` that has just failed, and fails too | the appended records, in the file and in the buffer; `next_seq` is not put back |
| `insert`, `delete`, `store.rs:337`, `467` | `FlushFails` | the maps have changed, the records are buffered, the caller is told of an error |
| `seal_active`, `store.rs:561-578` | `SealSyncFails`, `SealStoreFails` | a new active segment that no manifest names |
| `compact`, `compact.rs:29-40` | `CompactStoreFails`, `CompactSnapshotFails` | a manifest that names the removed segment |

What a failed write has left in the buffer (`Leftovers`) is written by the next flush that succeeds
(`LeftoversFlushed`, as a step of its own the rewind of an insert that fails at its first append), or
is lost with the process. The other operations wait for it in the model; in the code each begins or
ends with that flush, and until then the files are the same.

Data: a document is a number, split *i* of document *d* is the key `<<d, i>>` (ids are hashes
of the document id and the position), each split has one summary, a record occupies one unit,
and a record's sequence number stands for its contents. A record is decodable or torn.
`since` and `expect` are history variables: the document states a power loss, or the crash that
happened, may lawfully leave.

### DocStore and StoreRefinement

`DocStore` has three variables: the documents (`docs`), the states a power loss may fall back to
(`back`), and whether a process has the store open (`up`). A write happens in one step, or in the
step of the crash that stops it. It is the store that `Shard`, `Server` and `Migration` assume.
Two ways to lose more than a caller would expect are part of it, because the code has them: a
replacement stopped half way may leave its document gone (`Outcomes`), and an unsynced compaction
may take old versions out of a fall back (`Faded`).

The mapping: `up` is `Up`, `back` the document states of the history variable `since`, and `docs`
the documents of the maps while the store is open and those a replay of its files gives while it
is closed (`Stands`). As an expression that would be a replay in every state, so `StoreRefinement`
keeps it in an auxiliary variable that is set in each step and read by none. Every step of `Store`
then is a step of `DocStore` or leaves its variables alone; an open, in particular, leaves `docs`
alone, which says that recovery computes no more and no less than what was there. For TLC,
`MCStoreRefinement` writes the same specification (`RefinementRuns`) so that the replay of the next
state is one of files that are bound to a value: primed, each of its operators would read them anew.

### Shard

The store is taken as `DocStore` says: an operation is there or not after a crash, and
a power loss takes back operations since the last sync. A write uses one sequence number. An
index maps a document to the version of its vectors; `file` and `state` are the saved index
files and `indexes.state`. `hold` is the write lock; within a section under it, steps are the
ones that change a file. A document counts as one vector of each kind in the size comparison
that `open_with` makes. `Refusing` lets one index update fail after the store has accepted the
write; `failed` remembers it and whether a save began afterwards. The store-level findings (below) are not repeated here; a flush that
fails after the store's maps have changed (`FlushFails`) is to the shard an update its indexes do not get,
as with `Refusing`. Nor are the parts of a torn insert that a replay commits (section 3): the log of
`Shard` is one of whole documents, while the rebuild in `open_with` puts every entry of the maps
into the indexes, those that no document lists included.

### ShardPool

Everything under one hold of the pool lock is one action; opening, snapshotting and demoting a
shard are actions of their own. `arcs[t]` are the shards thread `t` has an `Arc` of, and strong
counts are computed from it, the map's reference included. Recency is an order (`lru`) instead
of a clock. A resident shard costs one unit of budget and a mapped one nothing; a busy shard may keep
its old figure, as `try_stats` allows.

### Server

A shard is the log of the writes it accepted and the length of the prefix on the device, as
`Store` and `Shard` show it; `made` and `loaded` are the workspaces with a directory and those
the pool has open (the server never unloads one: eviction demotes). `pc[t]` is the next call of
thread `t`'s handler, and every call of the pool or of a shard is an action:

| Code | Actions |
|---|---|
| `worker_routine` | `Receive`, `Refuse` |
| `process_document_insertion_request` | `EmbedFails`, `OpenShard`, `Write`, `WriteFails`, `Sync`, `SyncFails` |
| `process_document_deletion_request` | `FindShard`, `DeleteNothing`, `Write`, `WriteFails`, `Sync`, `SyncFails` |
| `process_document_retrieval_request` | `FindShard`, `Read` |
| `maintenance_pass` | `PassBegin`, then `PassShard` or `PassShardFails` for each loaded shard |
| `install_shutdown_handler` | `Signal`, `HandlerClaim`, `HandlerShard`, `HandlerExit` |
| `await_shutdown`, end of `main` | `MainClaimed`, `MainTimeout` |
| the process or the machine dies | `Kill`, `PowerLoss`, `Restart` |

`reply` keeps all responses to a request. `Failing` are the workspaces whose device may refuse
to sync. `late` and `claimed` say how the process ended. A write is accepted in one action,
because `Store` shows an insert to be there or not. That is the promise of the store without its
findings (section 3), which are not repeated here. Opening a shard syncs nothing, so a write
that survived a kill unsynced stays unsynced until its workspace is loaded and passed over
again; `AckedSynced` is about loaded shards.

### ModelWorker

`service` says which of the two programs runs; they differ in which texts become sequences
(`Refused`, `Fits`, `Length`) and in what is answered (`Finish`). A text is its number of tokens.
`batch`, `seqs`, `output`, `todo` are the worker's batch, `max_seq_id_batch`, `output` and the
rest of its list of token sequences; of these only `batch` outlives a request. What the model
computes for sequence `i` is the set of texts whose tokens carried that sequence id (`Pooled`),
so that tokens left over from another request would show in an answer.

Taken from libraries outside the repository, as the code uses them: `llama_decode` refuses an
empty batch, and any decode may fail; a routing identity set after `connect` is not the one the
peer knows a connection by, so that the broker's is fresh for every socket (`Identity`); an
answer to a socket that is closed is dropped; a send on a connected socket does not fail.

### Pipeline and Query

A text is a record of what the code asks of it: its tokens, whether the tokenizer takes it, whether
it is short enough to be ranked, and its distance from the query, which stands for its vector. The
embedding service returns the vectors of the texts it could read, in order (`GetEmbeddings`), and
everything after that goes by position. An operator that may go several ways is the set of its
results, and the empty set is an error: `LexRank` prefers any two sentences, a split in error is
left out by `ProcessDocument`, and so is any split whose call is lost.

In `Query`, every call of the pool or of a shard is one action, because each takes the shard's
read lock for itself:

| Code | Actions |
|---|---|
| insertion and deletion by other threads | `Insert`, `Delete` |
| `process_document_query_request` | `Receive`, `Fail` |
| `run_query`: `get_existing`, the two searches and `keep_nearest` | `OpenNext`, `SearchNext` |
| `run_query`: `load_summaries`, `rerank_summaries` | `LoadSummaries` |
| `run_query`: distances, `load_splits`, grouping | `LoadSplits` |
| `run_query`: `load_doc`, `rerank_summaries` | `LoadDoc` |
| the final sort and the response | `Respond` |

`Search` is the choice of `ShardInner::search` between the graph, the filtered graph and brute
force. `lived` and `quiet` are history: what each shard held during the query, and whether
anything was written. `QuietExact` compares the answer with a definition that knows neither shards'
lists nor orders of loading (`Nearest`, `Expected`).

Taken from outside the repository: LexRank refuses a number of vectors that is not that of the
sentences, and this alone keeps a shifted list of vectors from being stored (`PartsInPlace`); a
usearch search is exact, with ties in any order; the reranking service answers with an error when
no text can be ranked (as `ModelWorker` has it). Hashes are injective.

### Migration

The source is a record of the old column families; a destination shard is what `DocStore` says.
`Begin`, `NextSpace`, `Copy`, `CopyFails`, `SpaceDone`, `Snapshot`, `SnapshotFails` and `Exit` are
the steps of `migrate` and of the program around it, `Abort` its early returns. `Kill`,
`PowerLoss` and `Serve`, which is the server writing to the shards between two runs, happen to it.
`CopyFails` includes an insert that is refused after the store has taken it.

## 3. Runs

Passing runs (time with two workers):

| Run | Instance | Checks |
|---|---|---|
| `store_docs` (2 min) | two documents, shapes of 1 split with a document-level list and of 2 without, 7 sequence numbers, 3 segments, 2 crashes | `TypeOK`, `ReplayAgrees`, `OwnedResolve`, `SeqsUnique`, `TombstonesSound`, `SealedDurable`, `SegmentsSafe`, `AlwaysOpens`, `RecoveryKeepsPromise`, `SealedImmutable`, `ImplementsDocStore` |
| `pool_races` (15 s) | 2 threads, 2 workspaces, every call | `TypeOK`, `PoolSafe`, `OneUsableShard`, `HeldIsMapped` |
| `pool_returns` (40 s) | 2 threads, 2 workspaces, budget 0, fair | `OpensServed`, `CallsReturn` |
| `shard_indexes` (45 s) | 2 threads, 2 documents, 3 writes, 2 crashes, with compaction, demotion and one failing index update | `TypeOK`, `IndexesAgree`, `SavedSound`, `OpenRepairsUnsaved` |
| `server_acks` (80 s) | 2 threads, 2 workspaces of which one may refuse to sync, 2 requests, 1 restart, both policies, fair | `TypeOK`, `AckedDurable`, `OneOutcome`, `NoEarlyExit`, `AckedSynced`, `RequestsAnswered` |
| `model_serves` (75 s) | 2 workers, 2 calls, 5 and 6 kinds of request, context of 10 tokens, both services, fair | `TypeOK`, `BatchClean`, `SequencesFit`, `AnswersOwnTexts`, `RanksOrdered`, `RequestsAnswered` |
| `query_answers` (50 s) | 3 documents of 2 texts, 2 workspaces, 6 kinds of request, 2 writes | `PartsInPlace`, `AnswersWereLive`, `QuietExact` |
| `migration_runs` (10 s) | 7 sources of 2 documents in 2 workspaces, 2 runs, 1 write by the server | `SuccessMeansMigrated`, `ReportAccounts` |

Why the bounds are enough to be interesting. `SegmentMax` is such that a document and its
replacement can lie in one segment or in two. Seven sequence numbers are a document of one
split and its replacement, a torn insert of two splits and then one of one split under the same
ids, or a document of two splits, deleted, with its dead records compacted away. A replacement by a
document of another size would take nine, which for one document finds nothing more (414 431
states). Two crashes allow a crash during recovery from a crash, or a power loss after a
crash. `CompactPercent = 0` compacts as soon as anything is dead. Two threads are what a race
needs, and two workspaces what the budget needs to choose. Symmetry is used on interchangeable
model values, never with liveness. Two requests in `server_acks` are an insertion and a deletion,
or two insertions, in any interleaving with the pass and the shutdown. In `model_serves` the
requests hold texts that fill a batch to the token, exceed it by one, exceed the context, have no
tokens or cannot be tokenized, and two calls may be equal.

In `query_answers` two writes are what it takes to delete a document and put another version under
its ids within one query. The texts have a split whose whole text or short sentence cannot be read,
a sentence nearer than its split and one farther, and one that cannot be ranked; the requests name
one workspace twice, one that does not exist yet, documents with fewer and with more vectors than
`BruteForceMax`, and no hits at all. The sources of `migration_runs` are a whole one, with a
document shared by two workspaces, and one for each kind of damage: a document, a filter row, a
split, a summary or a vector missing, a vector of another model.

In `shard_indexes`, demotion and compaction can make the indexes differ from the log (`demote_race`
below, and the third statement of the list); that counts as a failed index update (`failed`), and
`OpenRepairsUnsaved` says when the next open repairs it. With 4 writes the run has 9.4 million
states, takes 4 minutes and finds nothing else.

Runs in which the code and what the repository says of it disagree:

| Run | The repository says | What TLC finds |
|---|---|---|
| `rewind_fails` | "a failure part way rewinds the segment, so the maps can never hold entities that a replay would not reproduce" (`store.rs:272-274`) | a replacement fails after its `DeleteDoc`, the rewind fails as well, and the next flush writes the `DeleteDoc`: the maps hold a document that a replay drops |
| `seal_fails` | the maps "can never hold entities that a replay would not reproduce" (`store.rs:272-274`) | after a failed seal, writes go to a segment no manifest names |
| `compaction_fails` | the partial segment "is removed here and would be removed at the next open anyway" (`compact.rs:29-31`) | the removed segment is the published one; the shard does not open |
| `demote_race` | the mapped file "has to describe this exact log" (`shard.rs:274-275`) | an insert between demote's two sections disappears from the index |

In `rewind_fails` both kinds of failing write may happen. With `Failing = {"flush"}` alone its property
holds (135 231 states at `SegmentMax = 3`): a flush that fails after the maps have changed puts off what
the maps hold beyond the log to the next flush, and only a process that dies before that loses it, of which
the caller was told an error. Before that flush `ReplayAgrees` is false, of course.

More statements of the repository are weaker in the code than they read. They have no run of
their own, because a property above already states, or refutes, what they say:

* whatever is buffered at the end of a replay "was a torn insert and is dropped"
  (`replay.rs:4-5`): not when the process goes on writing to that segment. The records stay in the
  log, and the next replay commits them with the `Doc` record of the document's next insert, as
  splits that document does not list. `OwnedResolve` and `ReplayAgrees` say that what the document
  lists stays whole.
* "a torn insert replays as if it never happened" (`lib.rs:9-10`): a replacement cut short after
  its `DeleteDoc` (`store.rs:350`) loses the old document. It is the first exception in
  `RecoveryKeepsPromise`, and `Outcomes` in `DocStore`.
* "the compacted segment replays exactly like the log it replaces" (`compact.rs:5-6`): the
  manifest naming the compacted segment is stored (`compact.rs:129`) before the active segment
  is synced (`compact.rs:161`), and a power loss in between may take a delete or a replacement
  whose old version was not copied. It is the second exception in `RecoveryKeepsPromise`,
  and `Faded` in `DocStore`.
* a vanished document "is dropped rather than failing a query the rest of which is good"
  (`query.rs:187-188`): a document none of whose summaries can be ranked does fail it
  (`query.rs:198`). In `Query` only `Fail` is then enabled.
* the mapped file "has to describe this exact log" (`shard.rs:274-275`), once more: a store
  compaction publishes a snapshot sequence without index files, `snapshot` then returns early
  (`shard.rs:549`), and `demote` maps older files. `MappedIsThisLog` fails with one thread when
  `Calls` has both "compact" and "demote".
* a failed worker costs the pool a worker "until the CLI restarts it"
  (`reranking_worker.rs:239-241`): the CLI only waits for its children (`reranking_cli.rs:86`).
  `ModelWorker` has no restart, and `RequestsAnswered` is stated up to a worker that stopped.
* "Skipping it keeps the loop from picking the same victim forever" (`pool.rs:249-250`): a shard
  that a writer promotes after every demotion is picked again. `CallsReturn` is stated up to
  shards becoming resident without end.
* "which the next `open` repairs by rebuilding" (`shard.rs:315-318`): not when a snapshot was
  taken after the failed index update; `OpenRepairsUnsaved` has the condition.
* "no `get` can open a second `Shard` on a directory whose first one is still alive"
  (`pool.rs:29-31`): `close` drops its own `Arc` after the lock (`pool.rs:222-240`), so for a
  moment there may be two, of which `OneUsableShard` says only one can be written to. Likewise
  a shard taken between claim and demotion is demoted while held (`pool.rs:21`, `441`), and the
  gate of an open stays registered until the next one (`pool.rs:53-54`, `153`).

Every property of a passing run has a mutant in `PROJECT.json`: a small change of a modelled
definition (a dropped guard, an off-by-one, a forgotten step) under which TLC finds the property
violated. The `Mut...` operators beside the definitions are these changes; no specification
uses them.

### Fairness

In the pool, `FairSpec` assumes weak fairness of a thread's next step
within a call (threads are scheduled and locks inside a shard are released) and strong fairness
of locking a gate: a gate keeps being released, and a parked waiter of `std::sync::Mutex` is
woken at each release. `std` promises no order among waiters, so this is the assumption that the
lock starves nobody. No call is assumed to arrive, and no held shard is assumed to be written.
`CallsReturn` is stated up to shards becoming resident infinitely often, since
a writer that keeps promoting what the loop demotes keeps it busy.

In `Server`, a thread with a request goes on with it, the maintenance thread goes on with its
pass and begins another (`spawn` loops for ever), and the handler goes on once woken: threads are
scheduled, and every call returns. In `ModelWorker`, a worker goes on with a request it was
given. No request, signal, timeout, failure, success of a sync or a decode, or restart is
assumed. Which workspace a pass syncs next is not assumed either; a pass ends because each shard
is taken once.

## 4. Proofs

Each theorem holds for every value of the constants that meets the assumption of its module:
`StoreAssumption`, `DocsAssumption`, `ContentsAssumption`, `PoolAssumption`, `ShardAssumption`,
`ServerAssumption`, `ModelAssumption`, `MigrationAssumption`. They say that ids are numbers, that
bounds are naturals, that sets of threads are finite where threads are counted, that a filter row
names a document and a workspace, that a shard has some document, and that `None`, `Nobody` and the
like are none of the values they stand beside. TLC evaluates each of them in a passing run. No bound is assumed to be large or
small, so the bounds of section 3 restrict nothing here.

Every proof has the same shape: an inductive invariant, `Init` gives it, one lemma per action (or
per kind of action) keeps it, and it implies the property.

**Store: segments** (`StoreProofs`). `SealedSegmentsDurable`: `Spec => []SealedDurable`;
`SealedSegmentsImmutable`: `Spec => SealedImmutable`; `SegmentsStaySafe`: `Spec => []SegmentsSafe`.
`SealedDurable` alone is not inductive: a publish copies the manifest in memory to disk, so that
one has to be durable too, and an append must not touch a segment of either. `SegmentsSafe` adds
exactly this: both manifests are well formed and durable (`WellFormed`, `Durable`), the active
segment is sealed in neither (`ActiveApart`), ids are not reused (`ManifestsAgree`), and a
compaction's output is complete before it is named (`OutputReady`).

**Store: records** (`StoreProofs`). `StoreAlwaysOpens`: `Spec => []AlwaysOpens`, and `StoreTypes`:
`Spec => []TypeOK`. An open refuses a bad record anywhere but at the end of the last segment, so the
invariant (`LogInv`, on top of `SegmentsSafe`) has to know where a cut record can be
(`TornAtTail`): only at the end of the segment that was active when the process died, and only
until the next open has cut it off. Sealed segments, what a compaction has written and the
buffer have none; a compaction copies only what decodes (`Decodes`). The types of the maps have to
be carried through replay (`MemoryTypes`): a replay of records gives maps of documents, splits and
summaries whose locations are locations, and a snapshot gives the same. `Scan`, `Replay` and
`CopyOrder` are recursive functions, and what the proofs need of them is shown by `NatSets`.

**Store: sequence numbers** (`StoreProofs`). `StoreSeqsUnique`: `Spec => []SeqsUnique`. The invariant
is `SeqInv`, on top of the other two. `Numbering` says what the numbers are like: the sealed segments
of either manifest use each number once, the active one uses rising numbers above all of theirs, and
the buffer goes on from `FirstFree`, which no record has reached. Appending, sealing, crashing and
cutting a tail keep this by themselves; compaction does not. It copies records with their numbers, so
what it copies must not name a record twice, nor one of the active segment, whose numbers have to
stay above. That is a fact about the maps (`References`): wherever they point into a segment that
exists, they point at a whole record of the kind, document and part meant, so that two entries never
share a location; and a document with a part in the active segment lies there itself. Keys left over
from a document that was replaced may point into a segment that is gone, which `Resolve` allows and
`Decodes` keeps a compaction from copying. The same has to be known of `meta.snap`, of which a power
loss takes nothing (`OnDevice`), and of the maps a replay builds (`ReplayKeeps`: by induction over the
records of a segment, then over the segments). `Copied` follows a compaction's output until the
manifest names it, `Placed` says which files there are, `Written` what an insert has buffered.

**Store: documents** (`StoreDocProofs`). `StoreOwnedResolve`: `Spec => []OwnedResolve`. `SeqInv` knows
that the maps point at records of the right kind, not that these are the parts of the insert that
wrote the document. The invariant (`OwnInv`, on top of `SeqInv`) says so of the maps and of the
snapshot (`Owns`): the parts lie in the segment of the `Doc` record, and their numbers are just below its
number. A replay has to find this again, so the log is a log of groups (`Groups`): before a `Doc`
record, in its segment, are the parts it names, each the last of its kind, with nothing but parts
behind it (`GroupAt`). Crashes and torn tails cut groups, but then the `Doc` record is gone, too. A snapshot
may not cut one, or a replay from it would see a `Doc` record without its parts (`Clear`). A
compaction drops dead records and copies the rest in a sorted order, so it has to keep the groups of
the documents that live (`CompactWriteOwn`), and between the publishing of its manifest and the
moving of the maps what is not in the active segment has been copied (`Living`). `Judged`: what a replay
starts from is a snapshot whose locations fit.

**Store: replay** (`StoreDocProofs`). `StoreReplayAgrees`: `FaultSpec => [](faults = 0 => ReplayAgrees)`: in
`StoreFaults`, until something fails. After that it need not hold, as `rewind_fails` and `seal_fails` show; before,
every step is one of `Store` (`NextAgreeing`), and the rest is about `Store`. Whether a document is
there is decided by its `Doc` and `DeleteDoc` records, and of these by the one with the largest number
(`LastOn`); if it is a `Doc` record, the document is there and lies at it (`Final`). The invariant
(`AgreeInv`, on top of the others) says that the maps are what the log of the manifest on disk decides
(`Agrees`), and that a snapshot is what the part of the log up to its number decides (`UpTo`), while the
store is open and while it is closed. This is about numbers, and a replay reads places, so the
records about a document must be in the order of their numbers within each segment (`InTurn`) and from each
sealed segment to the next (`Rising`), which is also what lets a replay skip a segment by its last
number. A compaction keeps this because what it copies is at most one deciding record per document. A
power loss takes nothing that a snapshot covers (`Covered`); a compaction removes the snapshot before its
manifest is published (`Apart`), because the log changes under it. That a replay gives maps that agree with
the log it read (`ReplayAgreeing`) is an induction over the records of a segment, where what is pending is
dropped with its segment, and then over the segments; `OneView` says that two maps which agree
with one log and own their parts give their readers the same.

**Store: recovery** (`StoreDocProofs`). `StoreRecoveryKeepsPromise`: `Spec => []RecoveryKeepsPromise`. By
the time of an open the history of what was promised (`since`, `expect`) and the log have been through the
same loss, so the invariant (`PromiseInv`, on top of the others) has to speak before the loss of every
log it may leave: cut the active segment anywhere behind its synced part (`CutsLate`, `CutAt`), and the
records that are left say (`Says`, the version of each document's final record) what one of the states in
`since` does (`Backed`). A crash writes any part of the buffer behind the log, of which at most the first
and the last record decide anything (`WriteDecides`): the log says what it said, or that the document
is gone, or that it has its new version, and these are the states of `InFlight` (`WriterSays`). A sync
leaves one log and one state (`SyncedBacked`). A seal, a snapshot and a compaction that renames nothing
cut the same logs. A compaction's manifest changes all of them at once: the sealed part of
the log becomes the records of the documents that live, so that a version whose record is in
neither part is gone, which is what `AfterDropping` does to each state (`PublishSays`). Once the
store is closed its log says what one of the states in `expect` does (`Expected`), through cut tails,
rejected opens and further crashes; the maps an open has read agree with that log, and two sets
of versions that one log says are equal (`SaysUnique`).

**Store: refinement** (`StoreDocProofs`). `StoreImplementsDocStore`: `RefinementSpec =>
ImplementsDocStore`. Two more invariants join those above: what the store stands for is what its
log says (`Standing`), whether it is open or closed, and an insert in progress has numbers within
the bound (`Budget`). A commit is `Write` (`FlushWrites`): its stamp is new because every document's
is a record's number and those are below the first buffered one's (`StampsBelow`), and what the
history gains are the outcomes that `DocStore` allows (`WriteInFlight`). Fsync, seal and
snapshot are `Sync`; a compaction's manifest is `Compact`, its `AfterDropping` a case of `Faded`. A
crash of an open store is `Crash` and a power loss `PowerLoss` because the next state keeps
`RecoveryKeepsPromise`. A crash during an open and an open's steps up to the replay leave the
named records as they are, so their logs say the same and the documents are the same
(`StaysClosed`); the replay is `Open`. `DocStore` has no fairness, so this is the whole of it.

**Pool** (`ShardPoolProofs`). `OneShardPerWorkspace`: `Spec => []OneUsableShard`;
`HeldShardIsTheMaps`: `Spec => []HeldIsMapped`; `PoolStaysSafe`: `Spec => []PoolSafe`; `PoolTypesHold`:
`Spec => []TypeOK`. The inductive invariant is `PoolTypes /\ PoolSafe`: the gate a thread has is
the one registered for its workspace and it is locked while the thread opens (`GateExclusive`), a
shard being opened is reached by nobody else (`OpeningApart`), a closed one only by its closer
(`ClosingApart`). Strong counts enter the proof only through two lemmas on cardinality: a count of
one means no holder, and two with one's own means no other. `TypeOK` adds that the recency order
lists the loaded workspaces once each, and that a shard being demoted is one the thread holds,
without which the budget loop could skip something that is no workspace.

**Shard** (`ShardProofs`). `TrustedFilesAreTheLogs`: `Spec => []SavedSound`; `SearchesSeeTheLog`:
`Spec => []IndexesAgree`; `OpensRepair`: `Spec => OpenRepairsUnsaved`; `ShardTypes`: `Spec => []TypeOK`.
Files are trusted by their sequence number, and a power loss may take the log back to an earlier
one, so the invariant (`IInv`) speaks of every log a power loss may leave: the current one is the
newest, each has a number above those that the state file and the manifest name (`NumbersBehind`),
and saved indexes are those of any such log with their number (`FilesSound`). The rest says how
far a save or an open has come (`SaveProgress`, `OpenReads`), that a mapped index is its file
(`MappedIsFile`), and that an index differs from the log only at the document being written
(`WriterAhead`).

**Server** (`ServerProofs`). `AcknowledgedIsDurable`: `Spec => []AckedDurable`;
`RequestsHaveOneOutcome`: `Spec => []OneOutcome`; `SignalWaitsForSnapshots`: `Spec => []NoEarlyExit`;
`ServerTypes`: `Spec => []TypeOK`. An acknowledgement is sent when the sync returns, so the
invariant has to know that a write that waits for the device is in its log by then (`StepsMatch`),
that two threads never work on one request (`JobsApart`), and that a request that has not arrived
has no response (`ClientTypes`). The steps fall into a few kinds, with a lemma each: the store
grows, a handler goes on, a handler answers, a request arrives, the process is gone, the power is
lost.

**Model services** (`ModelWorkerProofs`). `CallsGetTheirOwn`: `Spec => []AnswersOwnTexts`;
`RanksStayOrdered`: `Spec => []RanksOrdered`; `BatchNeverOverflows`: `Spec => []SequencesFit`;
`BatchStaysClean`: `Spec => []BatchClean`; `ModelTypes`: `Spec => []TypeOK`. The invariant
(`WorkerInv`) says of a worker in the middle of a request that its output, its batch and its list
of sequences, one after the other, are the texts of its call that became sequences, in order, and
that the sequence ids of the batch are its positions. A decode then moves the batch to the output.
That the sum of the tokens never passes the context, and that the sort gives a permutation in the
right order, are lemmas about recursive functions and about a strict total order on scores with
NaN last.

**Migration** (`MigrationProofs`). `SuccessIsMigration`: `Spec => []SuccessMeansMigrated`. The
invariant (`MigrationInv`): what the run has been through is copied or reported (`Copied`), a shard
it has been through is still to be snapshotted, or has nothing else to fall back to
(`Snapshotted`), and no state of a shard, current or earlier, has a document that no row puts there
(`Unnamed`).

The inductive invariants were first checked with TLC on the instances of section 3; `SegmentsSafe`
and `PoolSafe` are properties of `store_docs` and `pool_races`.

`NatSets` is how the proofs deal with recursion. The library's induction theorems take an operator
as a parameter, which the provers cannot instantiate; `SetInduction` takes the set of numbers with
the property instead, and follows from the library's theorems on finite sets. From it come
`SetRecursion` (a recursive function over an interval exists and meets its equations), the largest
number and the sorted listing of a finite set.

Only model-checked:

* liveness: `OpensServed`, `CallsReturn`, `AckedSynced`, both `RequestsAnswered`. Fairness is out of
  the prover's reach.
* `TombstonesSound`, which counts the records that replacements, deletions and compactions leave dead.
* `ReportAccounts`: what it says of the counts is true of sources in which a split belongs to one
  document, and it compares cardinalities under operators as parameters.
* `PartsInPlace`, `AnswersWereLive`, `QuietExact`: the query's sorts and folds are those of the
  community modules, which the provers do not see through.

## 5. What is not modelled

* Non-prefix loss of unsynced pages, loss of a directory entry, an unsynced truncation that
  comes back: power loss keeps a prefix of the active segment. Renames (`manifest`, `meta.snap`,
  index files) are atomic and durable.
* Checksums, byte framing, vector encoding, and unreadable but present manifests.
* `Store::validate` beyond its outcome: a rejected document changes nothing.
* Which records `pending_tombstone_bytes` forgets at an open (`store.rs:216`): the count may be
  low afterwards, and `TombstonesSound` bounds it from above only, by the records a rewrite would
  not copy. That is more than the records the maps no longer point at: the summaries of a torn
  insert that no document came to own may stay in the maps, where no compaction copies them.
* Failing disk operations, but for those in the table of section 2: a `set_len` or a `seek` that fails in
  a rewind whose flush succeeded (`segment.rs:111-112`; the first leaves what `RewindFails` leaves after the
  next flush), a new segment that cannot be opened (`store.rs:560`), two failures in one behaviour, and what
  a crash after a failed write leaves of the promise of `RecoveryKeepsPromise`.
* The parts of a torn insert that a replay commits and no document lists (section 3) beyond the store: they
  are in the maps, so that a rebuilt index has them and a filtered search in the graph
  (`shard.rs:681-690`) may return them, while brute force (`shard.rs:723-731`) takes its candidates from the
  documents' lists. `Query` has one set of candidates for both, so that `QuietExact` does not show the
  difference; and `OwnedResolve` and `ReplayAgrees` compare what documents list.
* A compaction after a failed one (`StoreFaults`): it reads through segments the process has
  open and the directory has lost.
* The contents of the usearch graphs, the quality of searches, and what usearch does when a
  rebuild adds a key it already loaded (`shard.rs:219-227`): `OpenRebuild` overwrites it,
  `OpenFails` is the refusal.
* `ShardPool::stats` waiting for a shard's lock under the pool lock.
* Where the splitter cuts a text, which sentences LexRank prefers, and the arithmetic of vectors
  and metrics: in `Pipeline` and `Query` these are given, or any. That the brute-force distance
  agrees with usearch's to the last bit (`vector_index.rs:306-308`) is assumed.
* Collisions of ids. A summary's id is the hash of numbers written one after the other without a
  separator (`summaries.rs:38`), so that position 1 with 15 tokens and position 11 with 5 have the
  same one; the store then keeps one of the two.
* That all splits of a document may fail (`documents.rs:28-31`) and an empty document then replaces
  the stored one and is acknowledged: `Query` has this behaviour, but no property speaks of it.
* Requests for reranking on a server configured without a reranking endpoint, which end the worker
  thread (`query.rs:253`, `rerank.rs:33`).
* Rerank and health-check requests to the server, which hand on a call or answer at once; a proxy
  that fails for a reason other than a signal; sends that fail (`zmq_utils.rs:33`, `68`), after
  which a request has no response.
* The reading of RocksDB below the level of "there or not", and what the migration prints.
* The command-line clients, the benchmark and the launchers (section 1): they drive the system and
  keep no state of it.

## 6. Plan

Done: all modules of section 2, the runs of section 3, the theorems of section 4. What is left is
proof, in this order:

1. `TombstonesSound`, which counts what replacements, deletions and compactions leave dead.
2. `AnswersWereLive` of `Query`: what was found was in some shard during the query.
