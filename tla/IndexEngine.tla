----------------------------- MODULE IndexEngine -----------------------------
(***************************************************************************)
(* The snapshot life cycle of one repository: `CceEngine::index_inner`,    *)
(* `checkpoint` and `gc` (crates/cce-engine/src/engine.rs) over the        *)
(* metadata store and the artifact store (crates/cce-store/src), with the  *)
(* cross-process index lease (crates/cce-engine/src/lock.rs).              *)
(*                                                                         *)
(* A task is one call in flight; several tasks may belong to one engine    *)
(* (one process), and several engines share one data directory.  Every     *)
(* store call is a step of its own, because each is its own SQLite         *)
(* transaction and another task, an edit of the worktree or a crash may    *)
(* come between two of them.                                               *)
(*                                                                         *)
(* Abstractions.  A tree is the scanned content of the worktree; a         *)
(* snapshot is a tree indexed under one of two profiles (the profile hash  *)
(* is part of the snapshot id).  The nine views fall into four classes     *)
(* written at the same point: "early" (Source, Lexical, Symbols, Graph),   *)
(* "dense", "late" (Knowledge, History, Dataflow) and "zoekt"; a class is  *)
(* Building while one of its views is.  "Ready" stands for Ready and       *)
(* Partial.                                                                *)
(***************************************************************************)
EXTENDS Naturals, FiniteSets

CONSTANTS
  Tasks,          \* calls that may be in flight at once
  Engines,        \* processes that opened the data directory
  EngineOf,       \* the process a task runs in
  Trees,          \* contents the worktree may have
  Kinds,          \* the calls made: "full", "checkpoint", "gc"
  Retention,      \* config.index.snapshot_retention
  GcKeeps,        \* the values `cce gc --keep` is called with
  DenseEnabled,   \* config.dense is not Disabled
  ZoektInstalled, \* zoekt::detect finds the toolchain
  MaxEdits,       \* bound on worktree edits
  MaxFaults,      \* bound on crashes, errors and failed builds
  NoSnap,         \* no snapshot
  NoTask          \* nobody holds the lease

Variants == {"full", "checkpoint"}
Snaps == Trees \X Variants

ASSUME TasksAssumption == EngineOf \in [Tasks -> Engines] /\ NoTask \notin Tasks
ASSUME SnapsAssumption == NoSnap \notin Snaps
ASSUME TreesAssumption == IsFiniteSet(Trees)
ASSUME KindsAssumption == Kinds \subseteq Variants \cup {"gc"}
ASSUME BoundsAssumption ==
  /\ Retention \in Nat
  /\ GcKeeps \subseteq Nat
  /\ MaxEdits \in Nat
  /\ MaxFaults \in Nat
  /\ DenseEnabled \in BOOLEAN
  /\ ZoektInstalled \in BOOLEAN

Tree(s) == s[1]
IsFull(s) == s[2] = "full"

\* The artifacts a snapshot references: its source bytes (shared by every
\* snapshot of the same tree, the store is content addressed) and its vectors.
Source(s) == <<"source", Tree(s)>>
Vectors(s) == <<"vectors", s>>
Artifacts == {Source(s) : s \in Snaps} \cup {Vectors(s) : s \in Snaps}

Views == {"early", "dense", "late", "zoekt"}
States == {"none", "Building", "Ready", "Failed", "Unavailable"}
NoViews == [v \in Views |-> "none"]

VARIABLES
  worktree,    \* the tree on disk
  edits,       \* edits made so far: the clock of the worktree
  faults,      \* faults used up
  rows,        \* snapshots table: "absent", "incomplete" or "complete"
  docs,        \* row groups of a snapshot: documents_fts rows, commit entities
  current,     \* current_snapshots row of the repository
  views,       \* view_status rows
  artifacts,   \* artifacts table
  objects,     \* object files under artifacts/blake3
  marker,      \* .cce-snapshot file of the zoekt shard directory
  lease,       \* holder of index.lock
  attempts,    \* repair_attempts of each engine
  embedder,    \* OnceCell of each engine's dense backend
  pc,          \* the step a task is about to take
  scanned,     \* snapshot a task's last scan identified
  scannedAt,   \* clock of that scan
  held,        \* view states a task holds in memory
  doomed,      \* DELETE statements a task's prune still has to run
  publishedAt  \* clock of the scan `current` was published from

tree == <<worktree, edits>>
store == <<rows, docs, current, views>>
files == <<artifacts, objects, marker>>
process == <<attempts, embedder>>
locals == <<scanned, scannedAt, held, doomed>>
vars == <<tree, faults, store, files, lease, process, pc, locals, publishedAt>>

Init ==
  /\ worktree \in Trees /\ edits = 0 /\ faults = 0
  /\ rows = [s \in Snaps |-> "absent"]
  /\ docs = [s \in Snaps |-> {}]
  /\ current = NoSnap /\ publishedAt = 0
  /\ views = [s \in Snaps |-> NoViews]
  /\ artifacts = {} /\ objects = {} /\ marker = NoSnap
  /\ lease = NoTask
  /\ attempts = [e \in Engines |-> {}]
  /\ embedder = [e \in Engines |-> "unset"]
  /\ pc = [t \in Tasks |-> "idle"]
  /\ scanned = [t \in Tasks |-> NoSnap]
  /\ scannedAt = [t \in Tasks |-> 0]
  /\ held = [t \in Tasks |-> NoViews]
  /\ doomed = [t \in Tasks |-> {}]

-----------------------------------------------------------------------------
(* Helpers shared by the steps below.                                      *)

\* Task t moves from step p to step q.
Goto(t, p, q) == pc[t] = p /\ pc' = [pc EXCEPT ![t] = q]

\* t's call returns, with a report or an error: its locals are gone and
\* dropping the lease releases it.
Finish(t) ==
  /\ pc' = [pc EXCEPT ![t] = "idle"]
  /\ lease' = IF lease = t THEN NoTask ELSE lease
  /\ scanned' = [scanned EXCEPT ![t] = NoSnap]
  /\ scannedAt' = [scannedAt EXCEPT ![t] = 0]
  /\ held' = [held EXCEPT ![t] = NoViews]
  /\ doomed' = [doomed EXCEPT ![t] = {}]

\* Seeded bug: the lock is opened but not tried.
AcquireUnchecked(t) == lease' = t

\* IndexLease::acquire when nobody holds the lock; it never waits.
Acquire(t) == lease = NoTask /\ lease' = t

\* The scan identifies the tree on disk under the profile of variant k.
Scan(t, k) ==
  /\ scanned' = [scanned EXCEPT ![t] = <<worktree, k>>]
  /\ scannedAt' = [scannedAt EXCEPT ![t] = edits]

\* MetadataStore::set_view_status; the row's foreign key needs the snapshot.
SetView(s, v, state) ==
  /\ rows[s] # "absent"
  /\ views' = [views EXCEPT ![s][v] = state]

UseFault == faults < MaxFaults /\ faults' = faults + 1

\* The manifest a task read says view v was left unfinished.
Stuck(t, v) == held[t][v] \in {"Building", "Failed"}

-----------------------------------------------------------------------------
(* The world outside.                                                      *)

EditWorktree ==
  /\ edits < MaxEdits
  /\ edits' = edits + 1
  /\ worktree' \in Trees \ {worktree}
  /\ UNCHANGED <<faults, store, files, lease, process, pc, locals, publishedAt>>

\* A process dies: its calls are gone, the kernel drops its lock, its
\* in-memory engine state is lost; the data directory stays as it is.
Crash(e) ==
  LET dead == {t \in Tasks : EngineOf[t] = e} IN
  /\ \E t \in dead : pc[t] # "idle"
  /\ UseFault
  /\ lease' = IF lease \in dead THEN NoTask ELSE lease
  /\ attempts' = [attempts EXCEPT ![e] = {}]
  /\ embedder' = [embedder EXCEPT ![e] = "unset"]
  /\ pc' = [t \in Tasks |-> IF t \in dead THEN "idle" ELSE pc[t]]
  /\ scanned' = [t \in Tasks |-> IF t \in dead THEN NoSnap ELSE scanned[t]]
  /\ scannedAt' = [t \in Tasks |-> IF t \in dead THEN 0 ELSE scannedAt[t]]
  /\ held' = [t \in Tasks |-> IF t \in dead THEN NoViews ELSE held[t]]
  /\ doomed' = [t \in Tasks |-> IF t \in dead THEN {} ELSE doomed[t]]
  /\ UNCHANGED <<tree, store, files, publishedAt>>

\* A storage or I/O error, or a dropped request, ends the call.  Pruning and
\* artifact collection at the end of an index only warn, and it goes on.
Error(t) ==
  /\ pc[t] # "idle"
  /\ UseFault
  /\ \/ /\ scanned[t] # NoSnap /\ pc[t] \in {"prune", "pruneRows"}
        /\ pc' = [pc EXCEPT ![t] = "gcRows"]
        /\ doomed' = [doomed EXCEPT ![t] = {}]
        /\ UNCHANGED <<lease, scanned, scannedAt, held>>
     \/ /\ scanned[t] # NoSnap /\ pc[t] \in {"gcRows", "gcObjects"}
        /\ pc' = [pc EXCEPT ![t] = "final"]
        /\ UNCHANGED <<lease, locals>>
     \/ /\ scanned[t] = NoSnap \/ pc[t] \notin {"prune", "pruneRows", "gcRows", "gcObjects"}
        /\ Finish(t)
  /\ UNCHANGED <<tree, store, files, process, publishedAt>>

-----------------------------------------------------------------------------
(* index_inner: scan and activation gate.                                  *)

\* index() and checkpoint() scan before they take the lease.
Call(t, k) ==
  /\ k \in Kinds
  /\ Goto(t, "idle", IF k = "full" THEN "gate" ELSE "reuse")
  /\ Scan(t, k)
  /\ UNCHANGED <<tree, faults, store, files, lease, process, held, doomed, publishedAt>>

GateComplete(t) ==
  /\ Goto(t, "gate", IF rows[scanned[t]] = "complete" THEN "gateCurrent" ELSE "reuse")
  /\ UNCHANGED <<tree, faults, store, files, lease, process, locals, publishedAt>>

GateCurrent(t) ==
  /\ Goto(t, "gateCurrent", IF current # scanned[t] THEN "gateLease" ELSE "reuse")
  /\ UNCHANGED <<tree, faults, store, files, lease, process, locals, publishedAt>>

GateLease(t) ==
  /\ Goto(t, "gateLease", "rescan")
  /\ Acquire(t)
  /\ UNCHANGED <<tree, faults, store, files, process, locals, publishedAt>>

\* Seeded bug: the scan made before the lease is trusted.
RescanSkipped(t) ==
  /\ Goto(t, "rescan", "activate")
  /\ UNCHANGED <<tree, faults, store, files, lease, process, locals, publishedAt>>

\* The first scan predates the lease: scan again under it.
Rescan(t) ==
  /\ Goto(t, "rescan", "activate")
  /\ Scan(t, "full")
  /\ UNCHANGED <<tree, faults, store, files, lease, process, held, doomed, publishedAt>>

\* Seeded bug: the transaction does not verify complete=1.
ActivateUnverified(t) ==
  /\ Goto(t, "activate", "reuse")
  /\ current' = scanned[t]
  /\ publishedAt' = scannedAt[t]
  /\ UNCHANGED <<tree, faults, rows, docs, views, files, lease, process, locals>>

\* activate_complete_snapshot, when the rescanned snapshot is complete and
\* not current; otherwise the call goes on with the lease it holds.
Activate(t) ==
  LET s == scanned[t] IN
  /\ Goto(t, "activate", "reuse")
  /\ \/ /\ rows[s] = "complete" /\ current # s
        /\ current' = s
        /\ publishedAt' = scannedAt[t]
     \/ /\ rows[s] # "complete" \/ current = s
        /\ UNCHANGED <<current, publishedAt>>
  /\ UNCHANGED <<tree, faults, rows, docs, views, files, lease, process, locals>>

\* IndexBusy: the lease is taken, and this acquisition may not be skipped.
IndexBusy(t) ==
  /\ pc[t] \in {"gateLease", "repairLease", "writeLease"}
  /\ lease # NoTask
  /\ Finish(t)
  /\ UNCHANGED <<tree, faults, store, files, process, publishedAt>>

-----------------------------------------------------------------------------
(* index_inner: reuse of a complete snapshot, and repair of its views.     *)

ReuseCheck(t) ==
  /\ Goto(t, "reuse", IF rows[scanned[t]] = "complete" THEN "manifest"
                      ELSE IF lease = t THEN "begin" ELSE "writeLease")
  /\ UNCHANGED <<tree, faults, store, files, lease, process, locals, publishedAt>>

\* Seeded bug: the early return skips the repair.
ReadManifestOnly(t) ==
  /\ Goto(t, "manifest", IF IsFull(scanned[t]) THEN "zoekt" ELSE "report")
  /\ held' = [held EXCEPT ![t] = views[scanned[t]]]
  /\ UNCHANGED <<tree, faults, store, files, lease, process, scanned, scannedAt, doomed,
                 publishedAt>>

\* view_manifest; a reused checkpoint's manifest is returned untouched.
ReadManifest(t) ==
  /\ Goto(t, "manifest", IF IsFull(scanned[t]) THEN "repairDecide" ELSE "report")
  /\ held' = [held EXCEPT ![t] = views[scanned[t]]]
  /\ UNCHANGED <<tree, faults, store, files, lease, process, scanned, scannedAt, doomed,
                 publishedAt>>

\* The attempt is recorded before the lease is asked for.
RepairDecide(t) ==
  LET s == scanned[t]
      e == EngineOf[t]
      first == (\E v \in Views : Stuck(t, v)) /\ s \notin attempts[e]
  IN
  /\ Goto(t, "repairDecide", IF ~first THEN "zoekt"
                             ELSE IF lease = t THEN "repairEarly" ELSE "repairLease")
  /\ attempts' = [attempts EXCEPT ![e] = IF first THEN @ \cup {s} ELSE @]
  /\ UNCHANGED <<tree, faults, store, files, lease, embedder, locals, publishedAt>>

RepairLease(t) ==
  /\ Goto(t, "repairLease", "repairEarly")
  /\ Acquire(t)
  /\ UNCHANGED <<tree, faults, store, files, process, locals, publishedAt>>

RepairEarly(t) ==
  /\ Goto(t, "repairEarly", "repairDense")
  /\ \/ Stuck(t, "early") /\ SetView(scanned[t], "early", "Ready")
     \/ ~Stuck(t, "early") /\ UNCHANGED views
  /\ UNCHANGED <<tree, faults, rows, docs, current, files, lease, process, locals, publishedAt>>

\* The dense view is rebuilt only when a backend is configured.
RepairSkipsDense(t) ==
  /\ Goto(t, "repairDense", "repairLate")
  /\ ~Stuck(t, "dense") \/ ~DenseEnabled
  /\ UNCHANGED <<tree, faults, store, files, lease, process, locals, publishedAt>>

\* History is recomputed from committed commit entities: none means Failed.
RepairLate(t) ==
  LET s == scanned[t] IN
  /\ Goto(t, "repairLate", "remanifest")
  /\ \/ /\ Stuck(t, "late")
        /\ SetView(s, "late", IF "commits" \in docs[s] THEN "Ready" ELSE "Failed")
     \/ ~Stuck(t, "late") /\ UNCHANGED views
  /\ UNCHANGED <<tree, faults, rows, docs, current, files, lease, process, locals, publishedAt>>

Remanifest(t) ==
  /\ Goto(t, "remanifest", "zoekt")
  /\ held' = [held EXCEPT ![t] = views[scanned[t]]]
  /\ UNCHANGED <<tree, faults, store, files, lease, process, scanned, scannedAt, doomed,
                 publishedAt>>

\* A view status written for a snapshot that is gone breaks its foreign key.
WritesStatus(t) ==
  \/ pc[t] = "repairEarly" /\ Stuck(t, "early")
  \/ pc[t] = "repairDense" /\ Stuck(t, "dense") /\ DenseEnabled
  \/ pc[t] = "repairLate" /\ Stuck(t, "late")
  \/ pc[t] = "zoektStatus"

ForeignKeyError(t) ==
  /\ WritesStatus(t)
  /\ rows[scanned[t]] = "absent"
  /\ Finish(t)
  /\ UNCHANGED <<tree, faults, store, files, process, publishedAt>>

-----------------------------------------------------------------------------
(* Zoekt shards: rebuilt on reuse when the marker names another snapshot.  *)

ZoektStale(t) == marker # scanned[t] \/ held[t]["zoekt"] = "none"

\* The shards are fresh, or a concurrent writer owns their freshness.
ZoektSkip(t) ==
  /\ Goto(t, "zoekt", "report")
  /\ ~ZoektStale(t) \/ lease \notin {t, NoTask}
  /\ UNCHANGED <<tree, faults, store, files, lease, process, locals, publishedAt>>

ZoektRebuild(t) ==
  /\ Goto(t, "zoekt", "zoektRun")
  /\ ZoektStale(t)
  /\ lease \in {t, NoTask}
  /\ lease' = t
  /\ UNCHANGED <<tree, faults, store, files, process, locals, publishedAt>>

\* zoekt::ensure_report: the marker is stamped after a successful build only.
EnsureReport(t) ==
  /\ \/ Goto(t, "zoektRun", "zoektStatus")
     \/ Goto(t, "providers", "commit")
  /\ \/ /\ ~ZoektInstalled
        /\ held' = [held EXCEPT ![t]["zoekt"] = "Unavailable"]
        /\ UNCHANGED <<marker, faults>>
     \/ /\ ZoektInstalled
        /\ held' = [held EXCEPT ![t]["zoekt"] = "Ready"]
        /\ marker' = scanned[t]
        /\ UNCHANGED faults
     \/ /\ ZoektInstalled
        /\ UseFault
        /\ held' = [held EXCEPT ![t]["zoekt"] = "Failed"]
        /\ UNCHANGED marker
  /\ UNCHANGED <<tree, store, artifacts, objects, lease, process, scanned, scannedAt, doomed,
                 publishedAt>>

ZoektStatus(t) ==
  /\ Goto(t, "zoektStatus", "final")
  /\ SetView(scanned[t], "zoekt", held[t]["zoekt"])
  /\ UNCHANGED <<tree, faults, rows, docs, current, files, lease, process, locals, publishedAt>>

-----------------------------------------------------------------------------
(* build_dense_view, on the write path ("post...") and in repair.          *)

BuildOf == [postDense |-> "postVectors", repairDense |-> "repairVectors"]
RegisterOf == [postVectors |-> "postRegister", repairVectors |-> "repairRegister"]
PublishOf == [postRegister |-> "postPublish", repairRegister |-> "repairPublish"]
LateOf == [postDense |-> "postLate", postVectors |-> "postLate", postRegister |-> "postLate",
           postPublish |-> "postLate", repairDense |-> "repairLate",
           repairVectors |-> "repairLate", repairRegister |-> "repairLate",
           repairPublish |-> "repairLate"]

\* The steps at which build_dense_view is called.
DenseCalled(t) ==
  \/ pc[t] = "postDense" /\ IsFull(scanned[t])
  \/ pc[t] = "repairDense" /\ Stuck(t, "dense") /\ DenseEnabled

\* No backend is configured.
DenseUnavailable(t) ==
  /\ DenseCalled(t)
  /\ ~DenseEnabled
  /\ SetView(scanned[t], "dense", "Unavailable")
  /\ pc' = [pc EXCEPT ![t] = LateOf[pc[t]]]
  /\ UNCHANGED <<tree, faults, rows, docs, current, files, lease, process, locals, publishedAt>>

\* The backend is initialised once per process and its failure is cached.
DenseInitFails(t) ==
  LET e == EngineOf[t] IN
  /\ DenseCalled(t)
  /\ DenseEnabled
  /\ \/ embedder[e] = "broken" /\ UNCHANGED <<faults, embedder>>
     \/ /\ embedder[e] = "unset"
        /\ UseFault
        /\ embedder' = [embedder EXCEPT ![e] = "broken"]
  /\ SetView(scanned[t], "dense", "Failed")
  /\ pc' = [pc EXCEPT ![t] = LateOf[pc[t]]]
  /\ UNCHANGED <<tree, rows, docs, current, files, lease, attempts, locals, publishedAt>>

DenseBuilding(t) ==
  LET e == EngineOf[t] IN
  /\ DenseCalled(t)
  /\ DenseEnabled
  /\ embedder[e] # "broken"
  /\ embedder' = [embedder EXCEPT ![e] = "ready"]
  /\ SetView(scanned[t], "dense", "Building")
  /\ pc' = [pc EXCEPT ![t] = BuildOf[pc[t]]]
  /\ UNCHANGED <<tree, faults, rows, docs, current, files, lease, attempts, locals, publishedAt>>

\* put_bytes writes the object; no row speaks for it yet.
DensePut(t) ==
  /\ pc[t] \in {"postVectors", "repairVectors"}
  /\ pc' = [pc EXCEPT ![t] = RegisterOf[pc[t]]]
  /\ objects' = objects \cup {Vectors(scanned[t])}
  /\ UNCHANGED <<tree, faults, store, artifacts, marker, lease, process, locals, publishedAt>>

\* register_artifact writes the row, a write of its own.
DenseRegister(t) ==
  /\ pc[t] \in {"postRegister", "repairRegister"}
  /\ pc' = [pc EXCEPT ![t] = PublishOf[pc[t]]]
  /\ artifacts' = artifacts \cup {Vectors(scanned[t])}
  /\ UNCHANGED <<tree, faults, store, objects, marker, lease, process, locals, publishedAt>>

\* The build, the object or its row failed: the view says so, the call goes on.
DenseBuildFails(t) ==
  /\ pc[t] \in {"postVectors", "repairVectors", "postRegister", "repairRegister"}
  /\ UseFault
  /\ SetView(scanned[t], "dense", "Failed")
  /\ pc' = [pc EXCEPT ![t] = LateOf[pc[t]]]
  /\ UNCHANGED <<tree, rows, docs, current, files, lease, process, locals, publishedAt>>

DensePublish(t) ==
  /\ pc[t] \in {"postPublish", "repairPublish"}
  /\ SetView(scanned[t], "dense", "Ready")
  /\ pc' = [pc EXCEPT ![t] = LateOf[pc[t]]]
  /\ UNCHANGED <<tree, faults, rows, docs, current, files, lease, process, locals, publishedAt>>

-----------------------------------------------------------------------------
(* index_inner: the write path, under the lease.                           *)

WriteLease(t) ==
  /\ Goto(t, "writeLease", "begin")
  /\ Acquire(t)
  /\ UNCHANGED <<tree, faults, store, files, process, locals, publishedAt>>

\* Seeded bug: foreign keys are off and nothing cascades.
BeginWithoutCascade(t) ==
  /\ Goto(t, "begin", "mark")
  /\ rows' = [rows EXCEPT ![scanned[t]] = "incomplete"]
  /\ UNCHANGED <<tree, faults, docs, views, current, publishedAt, files, lease, process, locals>>

\* INSERT OR REPLACE deletes an existing row first, and the delete cascades
\* to current_snapshots, view_status and the records; documents_fts is a
\* virtual table and keeps its rows.
BeginSnapshot(t) ==
  LET s == scanned[t] IN
  /\ Goto(t, "begin", "mark")
  /\ rows' = [rows EXCEPT ![s] = "incomplete"]
  /\ docs' = [docs EXCEPT ![s] = @ \ {"commits"}]
  /\ views' = [views EXCEPT ![s] = NoViews]
  /\ current' = IF current = s THEN NoSnap ELSE current
  /\ publishedAt' = IF current = s THEN 0 ELSE publishedAt
  /\ UNCHANGED <<tree, faults, files, lease, process, locals>>

MarkBuilding(t) ==
  /\ Goto(t, "mark", "put")
  /\ views' = [views EXCEPT ![scanned[t]] =
                 [v \in Views |-> IF v = "zoekt" THEN @[v] ELSE "Building"]]
  /\ UNCHANGED <<tree, faults, rows, docs, current, files, lease, process, locals, publishedAt>>

\* Every file is read, hash-checked and stored; history is summarised.  A
\* tree that moved since the scan may still pass: the scan holds the bytes of
\* the files it read, and a new file is not looked at.
PutArtifacts(t) ==
  /\ Goto(t, "put", IF IsFull(scanned[t]) THEN "providers" ELSE "commit")
  /\ objects' = objects \cup {Source(scanned[t])}
  /\ \/ held' = [held EXCEPT ![t]["late"] = "Ready"] /\ UNCHANGED faults
     \/ held' = [held EXCEPT ![t]["late"] = "Failed"] /\ UseFault
  /\ UNCHANGED <<tree, store, artifacts, marker, lease, process, scanned, scannedAt, doomed,
                 publishedAt>>

\* ScannedFile::bytes found content the scan did not hash.
BytesChanged(t) ==
  /\ pc[t] = "put"
  /\ worktree # Tree(scanned[t])
  /\ Finish(t)
  /\ UNCHANGED <<tree, faults, store, files, process, publishedAt>>

\* commit_snapshot and, for a checkpoint, commit_snapshot_detached: one
\* transaction for the records, the complete flag and the current pointer.
Commit(t) ==
  LET s == scanned[t] IN
  /\ Goto(t, "commit", "postEarly")
  /\ rows' = [rows EXCEPT ![s] = "complete"]
  /\ docs' = [docs EXCEPT ![s] =
                IF held[t]["late"] = "Ready" THEN {"fts", "commits"} ELSE {"fts"}]
  /\ artifacts' = artifacts \cup {Source(s)}
  /\ current' = IF IsFull(s) THEN s ELSE current
  /\ publishedAt' = IF IsFull(s) THEN scannedAt[t] ELSE publishedAt
  /\ UNCHANGED <<tree, faults, views, objects, marker, lease, process, locals>>

PostEarly(t) ==
  /\ Goto(t, "postEarly", "postDense")
  /\ SetView(scanned[t], "early", "Ready")
  /\ UNCHANGED <<tree, faults, rows, docs, current, files, lease, process, locals, publishedAt>>

PostDenseCheckpoint(t) ==
  /\ Goto(t, "postDense", "postLate")
  /\ ~IsFull(scanned[t])
  /\ SetView(scanned[t], "dense", "Unavailable")
  /\ UNCHANGED <<tree, faults, rows, docs, current, files, lease, process, locals, publishedAt>>

PostLate(t) ==
  /\ Goto(t, "postLate", "postZoekt")
  /\ SetView(scanned[t], "late", held[t]["late"])
  /\ UNCHANGED <<tree, faults, rows, docs, current, files, lease, process, locals, publishedAt>>

PostZoekt(t) ==
  LET s == scanned[t] IN
  /\ Goto(t, "postZoekt", "prune")
  /\ SetView(s, "zoekt", IF IsFull(s) THEN held[t]["zoekt"] ELSE "Unavailable")
  /\ UNCHANGED <<tree, faults, rows, docs, current, files, lease, process, locals, publishedAt>>

-----------------------------------------------------------------------------
(* Retention and artifact collection, at the end of a write and in gc.     *)

\* Seeded bug: gc prunes without the lease.
GcCallUnleased(t) ==
  /\ "gc" \in Kinds
  /\ Goto(t, "idle", "prune")
  /\ UNCHANGED <<tree, faults, store, files, lease, process, locals, publishedAt>>

\* `cce gc` holds the lease and starts with the prune.
GcCall(t) ==
  /\ "gc" \in Kinds
  /\ Goto(t, "idle", "prune")
  /\ Acquire(t)
  /\ UNCHANGED <<tree, faults, store, files, process, locals, publishedAt>>

Keeps(t) == IF scanned[t] = NoSnap THEN GcKeeps ELSE {Retention}

\* Seeded bug: the current snapshot takes one of the retained places.
RetainableWithCurrent(keep) ==
  LET done == {s \in Snaps : rows[s] = "complete"} IN
  {r \in SUBSET done : Cardinality(r) = keep \/ (r = done /\ Cardinality(done) < keep)}

\* The retained sets prune_snapshots may compute: the `keep` newest complete
\* snapshots besides current.  "Newest" is the wall clock of the scans, which
\* orders the commits in no particular way.
Retainable(keep) ==
  LET done == {s \in Snaps : rows[s] = "complete" /\ s # current} IN
  {r \in SUBSET done : Cardinality(r) = keep \/ (r = done /\ Cardinality(done) < keep)}

PruneSelect(t) ==
  /\ current # NoSnap
  /\ Goto(t, "prune", "pruneRows")
  /\ \E keep \in Keeps(t) : \E retained \in Retainable(keep) :
       doomed' = [doomed EXCEPT ![t] =
                    ({s \in Snaps : rows[s] # "absent"} \ (retained \cup {current}))
                      \X {"fts", "row"}]
  /\ UNCHANGED <<tree, faults, store, files, lease, process, scanned, scannedAt, held,
                 publishedAt>>

\* prune_snapshots is an error without a current snapshot: an index warns and
\* goes on, gc returns it.
PruneNoCurrent(t) ==
  /\ current = NoSnap
  /\ \/ /\ scanned[t] # NoSnap
        /\ Goto(t, "prune", "gcRows")
        /\ UNCHANGED <<lease, locals>>
     \/ /\ scanned[t] = NoSnap
        /\ pc[t] = "prune"
        /\ Finish(t)
  /\ UNCHANGED <<tree, faults, store, files, process, publishedAt>>

\* Two statements per doomed snapshot, each its own transaction; the loop
\* finishes one snapshot before it begins the next.
PruneFts(t) ==
  /\ pc[t] = "pruneRows"
  /\ \A d \in Snaps : <<d, "row">> \in doomed[t] => <<d, "fts">> \in doomed[t]
  /\ \E d \in Snaps :
       /\ <<d, "fts">> \in doomed[t]
       /\ doomed' = [doomed EXCEPT ![t] = @ \ {<<d, "fts">>}]
       /\ docs' = [docs EXCEPT ![d] = @ \ {"fts"}]
  /\ UNCHANGED <<tree, faults, rows, current, views, files, lease, process, pc, scanned,
                 scannedAt, held, publishedAt>>

PruneRow(t) ==
  /\ pc[t] = "pruneRows"
  /\ \E d \in Snaps :
       /\ <<d, "row">> \in doomed[t]
       /\ <<d, "fts">> \notin doomed[t]
       /\ doomed' = [doomed EXCEPT ![t] = @ \ {<<d, "row">>}]
       /\ rows' = [rows EXCEPT ![d] = "absent"]
       /\ docs' = [docs EXCEPT ![d] = {}]
       /\ views' = [views EXCEPT ![d] = NoViews]
       /\ current' = IF current = d THEN NoSnap ELSE current
  /\ UNCHANGED <<tree, faults, files, lease, process, pc, scanned, scannedAt, held, publishedAt>>

PruneDone(t) ==
  /\ Goto(t, "pruneRows", "gcRows")
  /\ doomed[t] = {}
  /\ UNCHANGED <<tree, faults, store, files, lease, process, locals, publishedAt>>

\* The artifacts some metadata row references: source_files and documents of
\* complete snapshots, and the dense view's status.
Referenced ==
  {Source(s) : s \in {x \in Snaps : rows[x] = "complete"}}
  \cup {Vectors(s) : s \in {x \in Snaps : views[x]["dense"] = "Ready"}}

\* Seeded bug: the sweep forgets the digests of view_status.
GcRowsForgetsViews(t) ==
  /\ Goto(t, "gcRows", "gcObjects")
  /\ artifacts' = artifacts \cap {Source(s) : s \in {x \in Snaps : rows[x] = "complete"}}
  /\ UNCHANGED <<tree, faults, store, objects, marker, lease, process, locals, publishedAt>>

GcRows(t) ==
  /\ Goto(t, "gcRows", "gcObjects")
  /\ artifacts' = artifacts \cap Referenced
  /\ UNCHANGED <<tree, faults, store, objects, marker, lease, process, locals, publishedAt>>

\* Seeded bug: gc runs on into the index's report.
GcObjectsNoReturn(t) ==
  /\ Goto(t, "gcObjects", "final")
  /\ objects' = objects \cap artifacts
  /\ UNCHANGED <<tree, faults, store, artifacts, marker, lease, process, locals, publishedAt>>

\* ArtifactStore::retain deletes every object without a row.
GcObjects(t) ==
  /\ pc[t] = "gcObjects"
  /\ objects' = objects \cap artifacts
  /\ \/ /\ scanned[t] # NoSnap
        /\ Goto(t, "gcObjects", "final")
        /\ UNCHANGED <<lease, locals>>
     \/ /\ scanned[t] = NoSnap
        /\ Finish(t)
  /\ UNCHANGED <<tree, faults, store, artifacts, marker, process, publishedAt>>

-----------------------------------------------------------------------------
(* The report.                                                             *)

FinalManifest(t) ==
  /\ Goto(t, "final", "report")
  /\ held' = [held EXCEPT ![t] = views[scanned[t]]]
  /\ UNCHANGED <<tree, faults, store, files, lease, process, scanned, scannedAt, doomed,
                 publishedAt>>

Return(t) ==
  /\ pc[t] = "report"
  /\ Finish(t)
  /\ UNCHANGED <<tree, faults, store, files, process, publishedAt>>

-----------------------------------------------------------------------------

GateStep(t) ==
  GateComplete(t) \/ GateCurrent(t) \/ GateLease(t) \/ Rescan(t) \/ Activate(t) \/ IndexBusy(t)

ReuseStep(t) ==
  \/ ReuseCheck(t) \/ ReadManifest(t) \/ RepairDecide(t) \/ RepairLease(t) \/ RepairEarly(t)
  \/ RepairSkipsDense(t) \/ RepairLate(t) \/ Remanifest(t) \/ ForeignKeyError(t)

ZoektStep(t) == ZoektSkip(t) \/ ZoektRebuild(t) \/ EnsureReport(t) \/ ZoektStatus(t)

DenseStep(t) ==
  \/ DenseUnavailable(t) \/ DenseInitFails(t) \/ DenseBuilding(t)
  \/ DensePut(t) \/ DenseRegister(t) \/ DenseBuildFails(t) \/ DensePublish(t)

WriteStep(t) ==
  \/ WriteLease(t) \/ BeginSnapshot(t) \/ MarkBuilding(t) \/ PutArtifacts(t) \/ BytesChanged(t)
  \/ Commit(t) \/ PostEarly(t) \/ PostDenseCheckpoint(t) \/ PostLate(t) \/ PostZoekt(t)

SweepStep(t) ==
  \/ PruneSelect(t) \/ PruneNoCurrent(t) \/ PruneFts(t) \/ PruneRow(t) \/ PruneDone(t)
  \/ GcRows(t) \/ GcObjects(t)

\* One step of a call in flight.
Step(t) ==
  \/ GateStep(t) \/ ReuseStep(t) \/ ZoektStep(t) \/ DenseStep(t) \/ WriteStep(t)
  \/ SweepStep(t) \/ FinalManifest(t) \/ Return(t)

Next ==
  \/ EditWorktree
  \/ \E e \in Engines : Crash(e)
  \/ \E t \in Tasks : Error(t) \/ GcCall(t) \/ Step(t) \/ \E k \in Variants : Call(t, k)

Spec == Init /\ [][Next]_vars

-----------------------------------------------------------------------------
(* Properties.                                                             *)

\* Steps taken only while holding the lease.
LeasedSteps ==
  {"rescan", "activate", "repairEarly", "repairDense", "repairVectors", "repairRegister",
   "repairPublish", "repairLate", "remanifest", "zoektRun", "zoektStatus", "begin", "mark",
   "put", "providers", "commit", "postEarly", "postDense", "postVectors", "postRegister",
   "postPublish", "postLate", "postZoekt", "prune", "pruneRows", "gcRows", "gcObjects",
   "final"}

\* Steps that may run without it.
UnleasedSteps ==
  {"idle", "gate", "gateCurrent", "gateLease", "reuse", "manifest", "repairDecide",
   "repairLease", "zoekt", "writeLease", "report"}

\* Every variable keeps its type, and a task works on a snapshot exactly when
\* it is inside index() or checkpoint().
TypeOK ==
  /\ worktree \in Trees /\ edits \in Nat /\ faults \in Nat
  /\ rows \in [Snaps -> {"absent", "incomplete", "complete"}]
  /\ docs \in [Snaps -> SUBSET {"fts", "commits"}]
  /\ current \in Snaps \cup {NoSnap} /\ publishedAt \in Nat
  /\ views \in [Snaps -> [Views -> States]]
  /\ artifacts \subseteq Artifacts /\ objects \subseteq Artifacts
  /\ marker \in Snaps \cup {NoSnap}
  /\ lease \in Tasks \cup {NoTask}
  /\ attempts \in [Engines -> SUBSET Snaps]
  /\ embedder \in [Engines -> {"unset", "ready", "broken"}]
  /\ pc \in [Tasks -> LeasedSteps \cup UnleasedSteps]
  /\ scanned \in [Tasks -> Snaps \cup {NoSnap}]
  /\ scannedAt \in [Tasks -> Nat]
  /\ held \in [Tasks -> [Views -> States]]
  /\ doomed \in [Tasks -> SUBSET (Snaps \X {"fts", "row"})]
  /\ \A t \in Tasks : pc[t] \notin {"idle", "prune", "pruneRows", "gcRows", "gcObjects"}
                        => scanned[t] \in Snaps

\* Only one call at a time writes: every step that writes the store, the
\* objects or the marker is taken by the holder of index.lock, although
\* lease is taken at five different places and handed down the call.
WritersHoldLease == \A t \in Tasks : pc[t] \in LeasedSteps => lease = t

\* The snapshot served to readers is a complete, full one: neither an
\* unfinished rebuild, nor a checkpoint, nor a pruned snapshot is ever current.
CurrentIsServable == current # NoSnap => rows[current] = "complete" /\ IsFull(current)

\* Whatever committed metadata points to can be read: garbage collection, by
\* any process and at any moment, leaves the source of every complete snapshot
\* and the vectors of every ready dense view on disk.
CommittedArtifactsExist ==
  \A s \in Snaps :
    /\ rows[s] = "complete" => Source(s) \in objects
    /\ views[s]["dense"] = "Ready" => Vectors(s) \in objects

\* Objects on their way into a commit are safe although no row references
\* them yet: nobody's sweep removes the source bytes stored before the records
\* commit, nor the vectors stored before they are registered, nor the row and
\* the vectors before the dense view points to them.
PendingArtifactsKept ==
  \A t \in Tasks :
    /\ pc[t] \in {"providers", "commit"} => Source(scanned[t]) \in objects
    /\ pc[t] \in {"postRegister", "repairRegister"} => Vectors(scanned[t]) \in objects
    /\ pc[t] \in {"postPublish", "repairPublish"} =>
         Vectors(scanned[t]) \in artifacts \cap objects

\* Activating a historical snapshot never replaces a newer state of the
\* worktree by an older one: `current` only moves to a scan at least as recent
\* as the one it was published from (that is what the rescan is for).
ActivationIsFresh ==
  [][current' # current /\ current' # NoSnap /\ rows' = rows => publishedAt' >= publishedAt]_vars

\* Retention deletes complete snapshots only beyond the window: after every
\* deletion at least the smallest configured `keep` remain besides current,
\* and the current one is never deleted.
RetentionKeepsWindow ==
  [][\A s \in Snaps : rows[s] = "complete" /\ rows'[s] = "absent" =>
       /\ s # current
       /\ \E keep \in GcKeeps \cup {Retention} :
            Cardinality({x \in Snaps : rows'[x] = "complete" /\ x # current}) >= keep]_vars

-----------------------------------------------------------------------------
(* What readers of the store are promised, see SnapshotRegistry.           *)

Registry == INSTANCE SnapshotRegistry WITH
  committed <- {s \in Snaps : rows[s] = "complete"},
  published <- current

\* The pipeline implements the registry: no interleaving, crash or sweep shows
\* readers anything but its atomic steps.
ImplementsRegistry == Registry!Spec

=============================================================================
