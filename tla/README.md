# A TLA+ verification of CCE

CCE indexes a source repository into immutable *snapshots* and answers searches
from the published one. This directory holds a model of the parts of CCE that
change shared state, the TLC runs that check it on small instances, and TLAPS
proofs of its main properties for every size. Everything is translated from the
Rust sources; file and line of every definition are in `PROJECT.json` (`map`).

Six subsystems are modelled: the life of snapshots in the index engine and its
stores, the watch loop that drives it, the build of one snapshot from the
worktree, the query path from a request to a packed context, the gateway's
request path, and the push path into the gateway. Run a check with
`tlc -workers 2 -config MCIndexEngine_sweep.cfg MCIndexEngine` (likewise
`MCWatchLoop`, `MCSnapshotBuild`, `MCContextPack`, `MCGatewayProxy` and `MCPushIngest`) and the
proofs of a part with `tlapm IndexEngineProofs.tla` (likewise the other modules
whose names end in `Proofs`).

## The system

| Part | State | Operations | Talks to |
|---|---|---|---|
| index engine (`cce-engine/src/engine.rs`) | per process: `repair_attempts`, the embedder cell; per call: scan, manifest, lease | `index`, `checkpoint`, `gc`, `status`, search and context entry points | scanner, stores, lease, zoekt, dense backend, providers |
| index lease (`lock.rs`) | an OS lock on `index.lock` | `acquire` (never waits), release on drop or death | every writer of the data directory |
| metadata store (`cce-store/src/metadata.rs`, migrations) | SQLite tables: snapshots, current_snapshots, view_status, artifacts, records, documents_fts | begin, commit, commit detached, activate, set_view_status, prune, gc_artifacts, queries | one transaction per call, several processes |
| artifact store (`artifact.rs`) | content-addressed object files | `put_bytes`, `read`, `retain` | metadata store's sweep |
| repository scanner (`repository.rs`, `ignore.rs`) | scan cache rows | `scan`, `identify`, re-read of a file | worktree |
| zoekt (`zoekt.rs`) | shard directory with a snapshot marker | `ensure_report`, `search`, `provision` | subprocesses |
| dense retrieval (`dense.rs`) | vectors, decoded-index cache | `build`, `search` | embedding backend |
| retrieval, context, planner (`retrieval.rs`, `context.rs`, `planner.rs`) | per request: plan, candidates, flow, hits, pack | search, context: routes, rank fusion, graph flow, selection, packing under a token budget | metadata store, read only, while retention runs |
| parser, relations, packages, history, providers, SCIP, ... | analyses in the artifact store, `index.scip` files | derive records from a scan | called by the engine; git, external indexers |
| daemon and watch loop (`apps/daemon`) | last snapshot its own call reported | HTTP handlers, `tick` | engine |
| gateway (`apps/gateway`) | registry, blob store, source trees, search cache, singleflight slots, semaphores, circuit breakers | proxy, fan-out, push, blob upload, MCP | daemons over HTTP |
| push client (`apps/push`) | scan cache file | scan, check, upload, push | gateway |
| CLI, MCP server, web UI, research scripts, benchmarks, deployment | - | wrappers, presentation, evaluation | - |

What is hard here: several processes (a CLI call, a daemon with `--watch`, an
MCP server) share one data directory without a server between them. A call
scans *before* it takes the lease and may find, afterwards, that the world has
moved. Every store call is a transaction of its own, so a crash or an error may
come between any two. Objects are written before anything references them, and
every index ends with a sweep that deletes what nothing references. What a
crash leaves behind has to be repaired by a later call that sees a complete
snapshot and would otherwise have nothing to do. In the gateway: retries,
timeouts, dropped clients and a cache whose invalidation races its own fills.
A build reads a tree that changes under it, through two caches and with external
indexers that fail or report on another tree. A search is a dozen passes over
one candidate list, each relying on what the one before left, over a snapshot
that retention may delete between any two.

Correctness of each part, in one line:

- engine and stores: one writer at a time; readers only ever see complete full
  snapshots; nothing referenced is collected; retention keeps its window;
  an activation never goes back in time; interrupted views are finished.
- watch loop: what is published follows the worktree, although the loop looks at
  its own record and never at what is published.
- lease: at most one holder, never leaked by an error or a death.
- gateway: bounded calls per worker, one flight per query, followers always
  wake, an open circuit closes again, no stale answer after a push.
- push ingest: a worker never indexes a torn tree; blobs are what their digest
  says; the registry on disk is the one in memory.
- build: a snapshot holds exactly the content its id names; reuse of earlier
  work changes nothing; records refer to records of the same snapshot.
- search and context: a name is reported absent or undefined only when it is; what is listed
  has evidence and a place of its own; a pack keeps its budget and accounts for
  every hit; every request ends.

## Modules

- `SnapshotRegistry` is what readers are promised: a set of committed snapshots
  and at most one published one, changed by Publish, Record (a checkpoint),
  Reactivate and Withdraw. A snapshot that is already committed is never
  committed over.
- `IndexEngine` is the detailed model of `index_inner`, `checkpoint` and `gc`.
  One task is one call in flight, in the process `EngineOf[t]`. `pc[t]` names
  the step the call is about to take; the steps follow the source from top to
  bottom, one per store call:
  - *gate*: `Call` (scan), `GateComplete`, `GateCurrent`, `GateLease`,
    `Rescan`, `Activate`;
  - *reuse and repair*: `ReuseCheck`, `ReadManifest`, `RepairDecide`,
    `RepairLease`, `RepairEarly`, `RepairSkipsDense` or the dense steps,
    `RepairLate`, `Remanifest`, and `ForeignKeyError` when the snapshot has
    been pruned meanwhile;
  - *zoekt*: `ZoektSkip`, `ZoektRebuild`, `EnsureReport`, `ZoektStatus`;
  - *dense* (`build_dense_view`): `DenseUnavailable`, `DenseInitFails`,
    `DenseBuilding`, `DensePut`, `DenseRegister`, `DenseBuildFails`, `DensePublish`;
  - *write path*: `WriteLease`, `BeginSnapshot`, `MarkBuilding`,
    `PutArtifacts`, `BytesChanged`, `Commit`, `PostEarly`,
    `PostDenseCheckpoint`, `PostLate`, `PostZoekt`;
  - *retention and sweep*: `GcCall`, `PruneSelect`, `PruneNoCurrent`,
    `PruneFts`, `PruneRow`, `PruneDone`, `GcRows`, `GcObjects`;
  - *report*: `FinalManifest`, `Return`;
  - around them `EditWorktree`, `Crash` of a process, `Error` (a storage error,
    or the request future dropped) and `IndexBusy`.
  The operators whose comment begins with "Seeded bug" are wrong versions of
  the definition that follows them; each shows that a property can fail.
- `WatchLoop` extends it with the poll loop of `cce-daemon --watch` (`watch.rs`).
  A tick scans; `Unchanged` when the scan is the snapshot the loop has recorded,
  else `Notice` and then `Reindex`, which is `Call` of `IndexEngine` with a scan of
  its own. `Report` records the snapshot of a successful report, `Fail` and
  `Restart` keep or forget the record. `OtherCall` is anybody else on the same
  data directory, who may call or never call.
- `GatewayProxy` is the path of a request through `apps/gateway`. A request is
  a handler future of one of four kinds (a cacheable `search` and any other
  call through `proxy`, one branch of the fan-out, an MCP call). Its steps are
  the stretches between awaits and critical sections: `lookup` in the cache,
  `flight` (lead, or `follow` a running fetch and `recheck`), the worker's
  `permit`, the `global` permit, `admit` by the circuit breaker, `sending`,
  `reading`, `report` to the breaker, `store` in the cache. `Leave` is the end
  of the future, with the drop of `FlightDone` and the permits in it; it is
  also what happens when a client goes away. Around them: pushes with their
  invalidation, the worker's index, the cooldown and the TTL.
- `PushIngest` is `apps/push` against the gateway's push handlers. A client
  registers, scans, checks, uploads, commits a manifest; the handler takes the
  push lock, starts `materialize` on a blocking thread (`at`, cut into steps
  file by file), records the push and writes `repos.json` through its
  temporary file; the worker is kicked, or polls with `--watch`. A handler may
  be dropped, its thread may not; `Crash` restarts the gateway from
  `repos.json` and the disk.
- `Lists` is the filter and the stable sort the next three are written with, by
  the positions of a list. The library's `SelectSeq` and `SortSeq` have no
  definition the prover can use; `MCSnapshotBuild` has TLC compare the two on
  all short lists.
- `FileAnalysis` is what one file yields: units, parents, callers and chunks
  (`parser.rs`) and the records of the per-file loop. `Derivation` is what all
  files yield together: imports, calls, types, tests, co-change, packages,
  routes, knowledge pages and commits. `ProviderIngest` is the detection and
  the run of the SCIP providers, `ingest` and `merge_relations`.
- `SnapshotBuild` composes them into one build, step by step: `ScanStat`,
  `ScanRead`, `FinishScan`, `Begin`, `LoadFile`, `Derive`, `HistoryStep`,
  `RunProvider`, `Ingest`, `commit_snapshot`, `SetStates`, `BuildDense`, with
  `Edit`, `GitCommit` and `Crash` between any two.
- `QueryPlan` is the planner and the claim frame, `SnapshotReader` the lookups
  of the metadata store, `GraphFlow` the two-hop flow pass. `Retrieval` is
  `CceEngine::search`, one action per stage, with `Prune` between any two;
  `ContextPack` is a whole request: a search, or a context call that also links
  the subjects its hits point at, source by source (`StartLinks`, `LinkSubject`),
  inserts each behind its source (`InsertSubject`), and packs the list
  (`StartPack`, `PackRole`, `PackFill`, `FinishPack`). The store is read until
  the last source is followed, so a prune may come between two sources too.
- `MCIndexEngine`, `MCWatchLoop`, `MCSnapshotBuild`, `MCContextPack`, `MCGatewayProxy` and
  `MCPushIngest` instantiate them: model values, small repositories, who pushes
  what, symmetry (used with safety properties only).
- `IndexEngineProofs`, `SnapshotBuildProofs`, `RecordsProofs`, `RetrievalProofs`,
  `GraphFlowProofs`, `ContextPackProofs`, `GatewayProxyProofs` and
  `PushIngestProofs` hold the theorems.

The pieces meet at four places: `Kicked`, `WatchTick` and `Indexed` of
`PushIngest` stand for an index call of the worker, of which `IndexEngine` is
the detail; the pushes of `GatewayProxy` are those of `PushIngest` reduced to
the versions they produce; the write path of `IndexEngine`, from `WriteLease` to
`Commit`, is `SnapshotBuild` with a tree for its content; and the snapshot a
`ContextPack` request reads is a committed one, which `PruneFts`, `PruneRow` and
`GcObjects` of `IndexEngine` take apart in the order of `Prune`.

### The index engine

State: `rows`, `docs`, `current`, `views` and `artifacts` are the tables,
`objects` the files of the artifact store, `marker` zoekt's `.cce-snapshot`,
`lease` the holder of `index.lock`, `attempts` and `embedder` the memory of an
engine, `scanned`, `held` and `doomed` a call's locals. `scannedAt` and
`publishedAt` are history: the number of edits at a scan, and at the scan the
current snapshot came from.

Abstractions, and why they lose nothing the properties tell apart:

- A snapshot is a tree and a profile (`full` or `checkpoint`); the id is a hash
  of both, so equal content has the equal id. A scan is atomic: an edit during
  a walk gives the id of a tree that is on disk neither before nor after, which
  is the case of two quick edits; an edit after the scan is seen by
  `BytesChanged`, unless the scan holds the bytes.
- The nine views are in four classes by the point at which they are written
  (early, dense, late, zoekt); a class is Building while one of its views is.
  Ready stands for Ready and Partial. A repository without `.git` (History
  Unavailable) is left out; `providers.enabled = false` looks like a zoekt
  build that failed to report.
- `Source(s)` stands for all artifacts of a tree's records (source, analyses,
  documents, patches), which are stored before the commit and registered in it.
- Retention keeps the *newest* by the wall clock of the scans. The clock orders
  the commits of several processes in no particular way, so the model retains
  any subset of the right size.
- `gc_artifacts` deletes rows one by one; an interruption leaves rows without
  references, which is a state the next sweep starts from anyway. The row
  deletes are one step, the object deletes another. The upsert of the
  repository row and the broadcast of snapshot events are left out.
- `MaxEdits` bounds worktree edits and `MaxFaults` crashes, errors and failed
  builds together.

### The watch loop

State: `committed` is `WatchState.committed_snapshot` of each loop, `due` the loops
between a tick's scan and its call, `publisher` a history variable: whose call
moved `current` last. The loop calls `index()` only when its scan differs from its
own record (`is_stale`, `watch.rs:28`), so it stops calling when it believes
itself up to date. `Overtaken` names the only two ways in which that belief can be
wrong: somebody else's call has moved `current` since, or a call failed after it
had moved `current` and its loop never saw the report.

### The build

State: the worktree with mtimes, `HEAD`, the two places an `index.scip` may lie
(`stray`, `work`), the scan cache, the rows, `current`, and one build's `job`.
What tree-sitter, SCIP and git report for a content is part of the content
(`Content[c]`), which is what makes them deterministic; which tree they report
on is not: providers and the commit walk read the live repository. A path is its
directories, the words of its stem and its extension, because import and test
resolution take them apart, and `RecordsAreClosed` is about what they resolve to; what a
spelling hides inside a word is given (`TestWords`, `AfterTest`, `ShortNames`); a
text is a sequence of bytes in which continuation
bytes and newlines can be told apart, because chunks must not split characters
(`ChunksTile`).
A hash is the identity of what is hashed.

Withheld files (built-in ignores, sensitive names), large and binary files are
left out by the scan. `quiet` marks an edit that kept the mtime. Left out: the
`index.scip` of a TypeScript project directory, the text and the size caps of
patches beyond `MaxPatched`, `lastTouched`, the text of the orientation page.
View repair after the commit is `IndexEngine`'s subject.

### The query path

A word has a class (what the code asks of its spelling) and a cue (the keyword
list that holds it), so the token filters are set operations. Scores are
integers in millionths, conductances in hundredths; ranks, fusion weights,
bonuses and comparisons are the code's. BM25 and the vector distance are
external: documents are ranked by the number of matching words, and by a given
order. The reranker may return any permutation it is allowed, or fail. `env`
says which backends work, whether a fresh index can be made, and whether the
snapshot may be pruned under the request. Limits such as `RERANK_POOL` or the
head window are CONSTANTS, set small so that each is reached.

How a name is looked up matters to the gates that refuse a question, so its
limits are modelled where the code applies them: the trigram index offers at most
`IndexLimit` (256) names (`Alike`, which holds the names that `Scattered` trigrams
match by accident), of these at most `NameLimit` (64) that contain the spelling
anywhere (`Holding`, `Inside` a longer word or as words of its own), and only then
come the exact parts (`name_witnesses`) and the report's `WitnessLimit` (8). A
qualified spelling is its scope and its member (`Segments`). The order within a
limit is that of the entity ids.

A hit has the byte range it shows (`span`), so two hits of one path that belong to
no region are one place only when their ranges are equal (`RegionKey`, `RangeOf`).
The text of a name and of a range is otherwise abstract.

### The gateway

A response is the version of the content it was computed from, which is all a
cache can get wrong. The breaker's deadline is `closed`, `cooling` or
`elapsed`; its count saturates at `Threshold`, beyond which the code never
tells counts apart. A worker's answer is one of eight outcomes, those that
`proxy`, `search_all` and `send_inner` treat differently. Which entries a full
cache drops is left open as far as the code leaves it to the clock. `MaxPushes`
bounds pushes, `MaxFaults` failures of workers and of registry writes,
`MaxCancels` clients that go away.

### The push path

A tree is the set of its blobs, each at a path of its own, so that "the same
path with other content" is another blob. `damaged` holds the objects that were
written again. `visible` is the tree the client's scan reports: it differs from the
worktree when the scan cache (`main.rs:321`) answers for a file that changed and
kept its mtime and size. `unrecorded` is history: the repositories that a push by
slug, a failed replacement or a crash left with another record than their
directory, until the next push by id. `Refused` is the commit of a manifest with a
blob that is missing. The upload of a blob is one step, and the shape of
`repos.json` and git refs are left out. Threads are a bound (`Threads`), as are `MaxEdits`,
`MaxCancels`, `MaxCrashes` and `MaxFaults` (disk errors). `NameOf`, `SlugOf` and
`BySlug` say who pushes which repository and how it is named in the request.

## Runs

Index engine: two tasks in two processes over two trees, unless stated. Two
trees make every "another snapshot" case; two processes make every pairwise
race; retention 1 and `gc --keep 0` make retention delete with so few
snapshots.

| Run | Shows | Bounds |
|---|---|---|
| `sweep` | `WritersHoldLease`, `CurrentIsServable`, `CommittedArtifactsExist`, `PendingArtifactsKept` | full and gc, dense, 1 edit, 1 fault |
| `registry` | `TypeOK`, `ActivationIsFresh`, `ImplementsRegistry`, `RetentionKeepsWindow` | full, checkpoint and gc, zoekt, no dense backend, 2 edits |

Watch loop: a daemon that watches `t1`, and a CLI `t2` that may index at any time,
on the same two trees. One edit with the other caller and one failure anywhere is
enough for every race of a call with the loop's; two edits let the tree leave the
loop's record and come back to it.

| Run | Shows | Bounds |
|---|---|---|
| `catch_up` | `CurrentCatchesUp` under `WatchSpec` | daemon and CLI, 1 edit, 1 crash, error or failed build |
| `repair` | `InterruptedViewsAreRepaired` under `WatchSpec` | daemon alone, dense and zoekt, 2 edits, 1 fault |
| `freshness` | `PollerKeepsFresh`, *violated* | daemon and CLI, 2 edits, no fault |

Build: two Cargo packages, a library with a module and a test, a TypeScript
project, a lock file and a sensitive file; two contents for three of them, one
that disappears; two commits and a third to come. Two upsets (`MaxUpsets`:
edits, commits, crashes, checkpoints, failures of providers or of the embedder)
are enough for a
change on each side of any step, or a failure and a change.

| Run | Shows | Bounds |
|---|---|---|
| `derive` | `SnapshotNamesItsContent`, `IncrementalEqualsFull`, `RecordsAreClosed`; under fairness `EditsAreIndexed` | 9 paths, 2 upsets, 2 SCIP tools, chunks of 3 bytes |

Query path: a repository of 5 paths, 22 entities, 11 documents and 13 relations;
30 requests that together take every intent, route, gate and filter; five
environments (all working, all broken, flaky, prunable, no snapshot) and two
manifests.

| Run | Shows | Bounds |
|---|---|---|
| `context` | `TypeOK`, `OnePlacePerHit`, `HeadIsDiverse`, `AbsenceIsTrue`, `PastIsNotRefuted`, `FlowIsGrounded`, `AnswersHaveEvidence`, `PackIsBounded`, `OmissionsAreTrue`, `SubjectsFollowTheirSource`, `RerankKeepsEvidence`; under fairness `EveryRequestEnds` | head of 2, pool of 3, budgets 5 to 40 tokens; 4 names from the trigram index, 3 from the lookup, 2 witnesses |

Eight of the entities are there for the name limits: `rate` is the last of
as many names as the index and the lookup return, `pin` the first that is cut off.

The query path is checked on these requests only; it is an algorithm over data,
and another corpus is another instance.

Gateway: two requests, of which one can lead and one follow, or one straggle
while the other fails, waits for the cooldown and probes (a request that has
left arrives again). Threshold 2 tells a first failure from the last; one cache
entry for two keys makes every put an eviction.

| Run | Shows | Bounds |
|---|---|---|
| `calls` | `TypeOK`, `FlightsHaveLeaders`, `BreakerConsistent`, `ProbeHasOwner` | all four kinds, 2 keys, 3 faults, 1 drop |
| `service` | `FailuresAreFaults`; under `FairSpec` `EveryRequestReturns`, `HealthyWorkerRecovers`, `StaleReplaysEnd` | search and fan-out, 1 push, 2 faults, 1 drop, one global permit |

Push path: one repository, two blobs, so three different trees to push.

| Run | Shows | Bounds |
|---|---|---|
| `serial` | `TypeOK`, `RecordMatchesSource`, `SwapsAreExclusive` | two clients, one by id and one by slug, two threads, 1 disk fault, 1 crash |
| `delivery` | `CasIsImmutable`, `CommittedTreesAreStored`; under `FairSpec` `EditsReachTheSource` | one client, `--watch`, one thread, 1 edit, 1 drop, 1 crash, 1 disk fault |
| `dropped_push` | `CasIsImmutable`, *violated* | one client, two threads, 1 drop |

`CHECK_DEADLOCK FALSE` on the push path: clients that have pushed and workers
that have indexed wait for an edit. Each property also fails on a seeded bug
(`mutants` in `PROJECT.json`).

In `delivery` a dropped handler's thread is the only one until it ends, so the
objects stay as they were; `dropped_push` has a second.

Two runs show the code doing something else than it says of itself (`findings`
quotes both):

- `freshness`: the loop has indexed a tree; somebody else's call, which scanned an
  edited tree, publishes that one after the tree is back. Every later tick finds
  the loop's own record, calls nobody, and `current` stays behind. "The poller owns
  freshness" is true only up to `Overtaken` (`CurrentCatchesUp`).
- `dropped_push`: the client of a push goes away during `materialize`. The push
  lock is released, the thread goes on; the next push fills the same staging
  directory, a hard link fails because the file is there already, and the copy
  that replaces it truncates a link to the stored object.

### Observed

What the model also shows, without a run of its own (TLC found each as a
violation of the opposite claim):

- engine: two indexers scan the same new tree; the second begins the snapshot
  again after the first has published it. `INSERT OR REPLACE` cascades into
  `current_snapshots` and the repository has no current snapshot until the
  second commits, or for good if it dies (`docs/operations.md:23` says an
  interrupted build does not advance the pointer; it may remove it). A crash
  between the deletes of a pruned snapshot's full-text rows and
  of its row, then a return to that tree, serves a complete snapshot without
  full-text rows. An interrupted checkpoint is
  complete, so its reuse reports views that stay Building. The decision to
  repair is made before the lease: the snapshot may be incomplete by the time
  it is repaired. With dense disabled, the default, a Building dense view is
  skipped by every repair. `IndexBusy` leaves the repair attempt recorded, so
  that with two processes a view may stay Building until a restart
  (`InterruptedViewsAreRepaired` is checked for one process).
  Stability, `<>[](current = <<worktree, "full">>)`, does not hold when two
  processes keep polling: they may scan the same stale state over and over and
  take turns beginning the same snapshot again.
- gateway: a search answered from the old index is put into the cache after the
  push invalidated it and is replayed until the TTL ends it
  (`StaleReplaysEnd` is what remains). A straggler's failure gives back another
  call's probe permit, so a second probe runs beside the first. An MCP call
  that a healthy worker rejects with an error body counts as a failure
  (`FailuresAreFaults` excludes MCP calls for that reason).
  The client of a fan-out, proxy or MCP call that goes away while its call is
  the half-open circuit's probe drops it without a report: the permit stays
  claimed and the worker is refused for good, although
  `breaker.rs:92` obliges every admitted call to report
  (`HealthyWorkerRecovers` and `ProbeHasOwner` exclude dropped clients).
- build: a workspace package listed under two dependency sections makes two
  `BuildDependsOn` relations with one primary key, and every commit of that
  tree fails (`packages.rs:53`; `EditsAreIndexed` excludes it). An edit that
  keeps mtime and size leaves a cached hash that the verified read refuses, so
  builds fail until the file is touched. The commit walk, co-change and patches
  read `HEAD` after the scan fixed `base_revision`. An index that a provider
  left in its work directory when it timed out is taken for its result by a
  later run; the rust-analyzer fallback moves an `index.scip` committed at the
  root away. `merge_relations` keeps only the last incoming evidence of a
  relation that exists already, where its comment says incoming rows are merged
  first. The `.test` and `.spec` stems of `relations.rs:645` never match. The
  repair of the History view calls a repository with only a root commit Failed,
  the build calls it Ready.
- query: `extend_evidence_path` keeps the *weakest* of several paths to a node
  (`retrieval.rs:2369` tests `is_lt` where the comment at 2366 says strongest).
  A subject that is defined may be refused as "never defined in this snapshot"
  (`retrieval.rs:386`): the lookup of a name is cut off at 256 trigram matches and
  at 64 names that contain the spelling, and filtered by whole parts only then, so
  64 names in which a short spelling is part of a longer word hide its definition.
  In the `context` corpus `pin` is such a subject (`AbsenceIsTrue` holds as long as
  no lookup of the name reached its limit, `NotCutOff`).
  A reranker may undo the diversity of the head. Hits of one file in the
  patches of two commits collapse into one. `lexical_search` may return almost
  twice its limit, a limit of 0 returns one hit. The third abstention tier is
  disabled (`if false`, `retrieval.rs:1322`). A role quota tries only the first
  hit of the role. With a `path:` filter a list may hold inferred hits only. A
  snapshot pruned under a search can make it report a name absent
  (`AbsenceIsTrue` excludes that).
- push: between the removal of the source directory and the rename a worker
  scans a partial or missing tree. Two names with one slug have two push locks
  and one staging directory. A kick answered with `IndexBusy` is lost; a worker's
  watch loop may not make up for it (`freshness`). A push that names the repository
  by its slug (`main.rs:830` takes "repo id or slug") replaces the directory, but
  `registry.get_mut(id)` (`main.rs:918`) finds no entry: `lastPush` stays as it was,
  although `deploy/README.md:54` lets it say which tree is served
  (`RecordMatchesSource` holds from the next push by id on). Two writers of `repos.json` may
  finish in the wrong order. A file edited between scan and upload ends a watching
  client. An edit that keeps mtime and size is pushed under the digest of the
  content before it; when the gateway never got that content, the upload re-reads
  the file, finds another digest and fails, and so does every sync of a restarted
  client until the file is touched (`EditsReachTheSource` excludes it).

### Fairness

`WatchLoop`: a call that was started runs on (`WF` of `Report`): a future that is
ready is polled, and blocking calls return (providers and zoekt have timeouts). A
loop wakes after its interval (`WF` of `Tick`), but a tick that finds the recorded
tree calls nobody. The CLI is never obliged to call, and nobody to edit, to crash
or to fail. `cce gc` and checkpoints are not in these runs: one at every tick
could hold the lease against the loop for ever, which the code does not rule out.
`IndexEngine` itself has safety properties only and no fairness.

`GatewayProxy`: the runtime polls every future that can go on (a worker call
ends by its timeout), the cooldown and the TTL run out, and requests keep
coming, without which a half-open circuit is never probed. Nothing is assumed
of pushes, the index, failures or clients that go away.

`SnapshotBuild`: a build is started as long as the served snapshot is not the tree
on disk (`WF` of `Start("full")` there), which is what an operator or a loop that is
not `Overtaken` does, and a build that runs goes on. `BuildGoesOn` is the weak fairness of `Step`
without ENABLED: a running build always has a step. `ContextPack`: the task of a
request is scheduled until it ends, in the same form. Edits, commits, crashes and
prunes are never forced.

`PushIngest`: clients poll on their interval and are started again after they
exit, blocking threads run, the worker answers. Edits, drops, crashes and disk
faults are never forced.

## Proofs

What is assumed of the constants is named where they are declared, and the runs
evaluate it; the theorems about `PushIngest` that need more say so. No theorem
assumes anything of a state.

`IndexEngineProofs` proves for any number of tasks, processes and trees, any
retention and any bounds, from the five named assumptions of `IndexEngine`
(`TreesAssumption`, that the trees are finitely many, serves the counting of
item 6 only):

1. `TypeCorrect`: `TypeOK` is inductive by itself.
2. `WritersExclude`: `WritersHoldLease`. The lemmas `Frame...` say what a step
   of `t` may do to others: it leaves their locals alone, passes the lease only
   through nobody, and does not write without it.
3. `IndexInvariant`: the inductive invariant `IndexInv`. The safety properties
   are not inductive: an object survives a sweep because its row does
   (`RowsBacked`), an unreferenced object because its writer holds the lease
   and a sweep needs the lease (`PendingArtifactsKept` with
   `WritersHoldLease`), a commit publishes a snapshot nobody has completed
   meanwhile (`BuildInFlight`), an activation publishes a scan made under the
   lease (`ActivationPending`). The lemmas `Effect...` establish the shared
   part and `t`'s own part per group of steps; `OthersUndisturbed` carries the
   other tasks' parts over.
4. From it `CurrentServable`, `ArtifactsExist`, `PendingArtifactsSafe` and the
   action property `ActivationsAreFresh`.
5. `PipelineImplementsRegistry`: `Spec => Registry!Spec`. `HiddenSteps` reduces
   it to the four actions that touch the complete flags or the pointer.
6. `RetentionIsSafe`: the action property `RetentionKeepsWindow`. A prune
   decides once and deletes step by step. `WindowInv` says of a prune that is
   under way: the current snapshot is not on its list (`Targeted`), and as long as
   a complete one is, those it spares (`Kept`) are as many as some configured
   `keep`. A deletion only shortens the list
   (`PruneKeepsWindow`); no other call completes, begins or publishes a snapshot
   meanwhile, because those steps need the lease (`WindowNext`).

`SnapshotBuildProofs` proves for every workspace, content, tool output and
interleaving of edits, commits, crashes and builds, from `BuildAssumption`.
Nothing is used of `parse`, of the derivation or of the providers:

1. `BuildInvariant`: the inductive invariant `BuildInv`. What a build has loaded
   is the scanned content and its own analysis, and after the loading every
   scanned file is there (`LoadIsOfScan`); a row is served only after its commit
   (`CommitIsLast`); a committed row holds the contents its id names and their
   analyses (`RowsAreOfTheirFiles`), a vector artifact the vectors of its own
   documents (`VectorsAreOfTheirDocs`). The last two are what makes reuse sound:
   `cached_analysis_digest` and `dense_reuse_map` copy from such rows only.
2. `SnapshotsNameTheirContent` and `IncrementalBuildsEqualFullOnes`.

`RecordsProofs` proves `ChunksTile` and `CommittedRecordsAreClosed`: no committed relation names an
entity, no document an entity or a region, and no region a parent that was not
committed with it. Here the functions matter. Assumed is only the shape of what
comes from outside: parsers, manifests and indexes report lists
(`ContentAssumption`, `ScipAssumption`), the commits of a revision are a list
(`HistoryAssumption`), every package name has a place in the order of names
(`NameAssumption`), and every content that can be met is one of `Content`, also in
an index committed at the root (`WorldAssumption`). Nodes may overlap or repeat,
names may clash, an index may describe any text.

1. *Lists.* A filter, a join and a sort hold just the entries they are made of
   (`ThoseEntries`, `FlattenEntries`, `InOrderEntries`). The functions behind them
   are recursive, and the prover only believes that such a function exists when it
   is shown: `UptoExists`, `FlatExists`, `OpenedExists` and `CutExists` build it
   step by step. Induction goes through the least number at which a fact would
   fail (`LeastNumber`, `Climb`), since the library's own induction theorems take
   an operator, which the provers cannot instantiate. A sort keeps every entry
   because places are distinct and as many as the entries (`PlacesAreTaken`).
2. *Files.* `ParseAnalyses`: a parent is a unit or none (`OpenedStacks`), and so
   is a caller. `UnitRecordsAreClosed`, `FileRecordsAreClosed`: the records of a file name
   its own units and regions; the one case split is `ChunkRegion`, where a chunk
   that is its whole unit has the unit's region.
   `ChunksTile`: the chunks of a range follow one another, so no byte of a unit is
   lost to the index or indexed twice. It needs `CharactersFit`, and the code needs
   it too: a character longer than `max_unit_bytes` makes `chunk_ranges` stop, and
   the rest of the range is in no chunk. UTF-8 has no such character once the
   setting is 0 or at least 4 (it is 65536). The run evaluates the statement for
   all short texts.
3. *The tree.* `Known(x)` are the entities of the files and units of a tree. Each
   resolver returns a candidate, a file or nothing, so imports, calls, references,
   tests, co-change, packages, routes and knowledge link entities of
   `TreeRecords` (`TreeRecordsAreSound`). `Sound` is `Closed` with the fact that
   each part is a list; appending keeps both.
4. *Indexes.* Whatever text an index was made for, a site is inside a file of the
   build and belongs to a known entity (`EnclosingIsKnown`, `SitesAreKnown`), so
   facts, references and the merge with parsed relations stay inside
   (`IngestLinked`, `MergeLinked`).
5. *The build.* `RecordsInv` holds next to `BuildInv`. `RecordsAreClosed` is not
   inductive: a late step may add a relation that names any file or unit. So
   `PendingIsSound` says that pending records hold an entity for *every* file and
   unit of the loaded tree, not only for those related so far, and
   `LoadIsOfScan` that the tree ingestion sees is the one derivation saw. An
   index may come from an earlier tree, another run or the repository itself
   (`IndexesAreKnown`, `ReportsAreKnown`).

`RetrievalProofs` proves about every search, whatever the corpus, the requests,
the environment and the limits are. The routes differ in what they add and agree
in what they leave alone: `Quiet` is that part, the lemmas `...IsQuiet` show it
of every route, and each invariant looks only at quiet steps and at the few
steps that decide something.

1. `ListInvariant`: `ListInv` relates a hit to its candidate and fixes which
   candidates are still in the queue.
2. `HitsShowDistinctPlaces` and `HeadsAreDiverse` from it; the reranker's order
   is any bijection of the topical slots (`RerankFetches`), which also gives
   the action property `RerankingKeepsEvidence`.
3. `AnswersRestOnEvidence`: `EvidenceInv` carries the strict gate's condition
   from the gate to the list.
4. `PastStandsUnrefuted`: which gate wrote a note, and for which plan.
5. `AbstentionsAreTrue`, from `CorpusAssumption` (finitely many documents,
   relations and entities). What is defined is said without the lookups
   (`Carriers`, `Defined`). `AbsentMeansAbsent` and its kin say that a lookup of
   words with a cap speaks for the whole corpus. A lookup of a name does not: its
   limits come before its filter. `CandidatesAreAll` shows that it returns every
   carrier of a name when neither limit is reached (`NotCutOff`), which is the
   condition of the theorem; from there `UndefinedMeansUndefined`, and
   `WitnessesAreDefinitions` that the witnesses a gate has followed are all
   definitions. Past the limits the claim is false: `pin` of the
   `context` corpus is the example.

`GraphFlowProofs` proves `FlowEvidenceIsGrounded`: after the first hop every path
is one recorded edge from a seed (`Relayed`), after the second one or two
(`Grounded`), and the seed of a path is among the origins of its end
(`Rooted`). `WalkSteps` and `StepsTo` say that a path brought to a node extends the
sender's by one edge, for which `Extensible` keeps the paths below `FlowHops`.

`ContextPackProofs` proves about every context call, from `PackAssumption` and
`LexiconAssumption` (finitely many words):

1. `ListingInvariant`: `LinkInv` orders the links by their sources, so that the
   list is as the search left it up to the next source; `ListingInv` says that
   an insertion keeps the hits in order, the keys apart and each subject right
   behind its source. `SubjectsStayWithTheirSource` follows.
2. `PackInvariant`: `PackInv` is the account (tokens spent are tokens shown, no
   range twice, the cap per file). `ReasonInv` says of each recorded rejection
   that it still holds, and of each entry the second pass has left behind that
   it is in the pack or rejected; a reason stays true because the pack only
   grows. `PackStaysInBounds` and `OmissionsHold` follow.
3. `CallsAreTyped`, from the invariants of the search and of the pack.

`GatewayProxyProofs` proves for any number of requests, repositories, keys and
limits:

1. `TypeCorrect`.
2. `FlightsAreLed`: `FlightsHaveLeaders` is inductive given the types; `Leave`
   removes leader and slot together, and only `BeginFlight` adds either.
3. `BreakersConsistent`: `CircuitSteps` reduces every step to one of four
   updates of one circuit, for which `CircuitConsistent` is arithmetic.
4. `ProbesAreOwned`: a permit is claimed together with a call and given back by
   the report that ends it; a straggler only ever gives it back early.
5. `CacheStaysBounded`: a put drops entries until there is room for one.
6. `FailuresHappened`: `FailuresAreFaults` is not inductive, because a failure
   that has happened is counted later. `FaultsAccounted` counts the calls that
   still owe a failure as well: failures + owing <= faults.

`PushIngestProofs` proves, for any number of clients, repositories, blobs and
threads:

1. `TypeCorrect`, with `Located`: who is past the scan has a manifest, and a
   working thread a directory.
2. `TreesAreStored`, from `Stored`: manifests past the check, images,
   temporary files and threads hold only trees whose blobs are stored.
3. `AttendedSwapsExclude`, assuming `OwnDirectories` (slugs are distinct): the
   inductive invariant `Locked` ties every busy thread that still has its
   handler to the holder of its repository's lock. It survives every dropped
   handler, crash and disk fault.
4. `SwapsExclude` and `ObjectsAreImmutable`, assuming the same, until a handler
   is dropped: `Attended` says that no thread has lost its handler yet, which
   with `Locked` makes the lock hold for all of them; `Fresh` says a staging
   directory holds only what its thread filled itself, whatever a crash left
   there before. `dropped_push` shows an object overwritten after a drop, which
   takes two swaps of one directory.
5. `RecordsMatch`, assuming the same, until a handler is dropped: `Matched`
   follows the directory through every stage of the swap, and `unrecorded` through
   the pushes by slug, the failures and the crashes that part the two.

Model-checked only:

- liveness (`CurrentCatchesUp`, `InterruptedViewsAreRepaired`, `EditsAreIndexed`,
  `EveryRequestEnds`, `EveryRequestReturns`, `HealthyWorkerRecovers`,
  `StaleReplaysEnd`, `EditsReachTheSource`): the prover has no fairness and no
  ENABLED;
- what the folds of the query path compute (scores, ranks, fused lists): the
  theorems above use of a fold only the keys of the map it fills. `RecordsProofs`
  shows of recursive functions which entries they keep, not in which order, nor
  that relations are merged without loss.

The swap and object theorems of `PushIngest` hold until the first dropped
handler only (`dropped_push`).

## Not modelled, and the plan

Next, in this order:

1. Proofs: the pushes of `GatewayProxy` as an abstraction of `PushIngest`.
2. The content of zoekt shards: the marker against the live worktree, and a
   blocking build that outlives its call.
3. The temporary files of blob uploads in `PushIngest`.
4. The round-robin merge of the fan-out, the snapshot diff and hunk numbering.

Left out for good: grammars, SCIP and git decoding, string processing,
formatting, snippets, BM25 and vector distances, grep, browse and
export, protocol translation (CLI, MCP, HTTP handlers),
the web UI, research scripts, benchmarks and deployment files.
