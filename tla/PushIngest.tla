----------------------------- MODULE PushIngest -----------------------------
(***************************************************************************)
(* Pushing a worktree to the gateway: the cce-push client scans, uploads   *)
(* the missing blobs and commits a manifest; the gateway records the push, *)
(* materializes the tree from its blob store and kicks the worker's index. *)
(*                                                                         *)
(* A tree is the set of its blobs, each at a path of its own.  A push      *)
(* handler is an async future that may be dropped; the materialization it  *)
(* started runs on a blocking thread that is not.  materialize is cut into *)
(* steps file by file; the upload of a blob is one step here.              *)
(***************************************************************************)
EXTENDS Integers, FiniteSets

CONSTANTS
  Pushers,      \* running cce-push clients
  Names,        \* repository names
  NameOf,       \* the repository each client pushes
  Slugs, SlugOf,  \* slugify: the directory name of each repository
  BySlug,       \* clients of the API that name the repository by its slug
  Threads,      \* bound: blocking threads
  Blobs,        \* contents of files
  WorkerWatches,  \* workers run with --watch
  MaxEdits, MaxCancels, MaxCrashes, MaxFaults,  \* bounds on what the environment does
  Absent, None

ASSUME NamesAssumption ==
  /\ NameOf \in [Pushers -> Names] /\ SlugOf \in [Names -> Slugs]
  /\ BySlug \subseteq Pushers /\ WorkerWatches \in BOOLEAN
ASSUME BoundsAssumption ==
  MaxEdits \in Nat /\ MaxCancels \in Nat /\ MaxCrashes \in Nat /\ MaxFaults \in Nat
ASSUME SentinelAssumption ==
  (\A w \in SUBSET Blobs : w # Absent) /\ None \notin Pushers /\ None \notin Slugs

Trees == SUBSET Blobs
MaybeTree == {Absent} \cup Trees
Slug(p) == SlugOf[NameOf[p]]

VARIABLES
  worktree,  \* tree of each client
  visible,   \* the tree each client's scan reports
  edits, cancels, crashes, faults,
  blobs,     \* objects of the blob store
  damaged,   \* objects that were overwritten in place
  registry,  \* in memory: last push of a registered repository
  saved,     \* repos.json
  tmp,       \* repos.json.tmp
  unrecorded,  \* history: repositories a push or a crash left with another record
  source,    \* sources/<slug>
  staging,   \* sources/.<slug>
  locks,     \* holder of each repository's push lock
  pc, manifest, missing, image,
  seen,      \* the last tree a client pushed
  at, tree, dir, filled, owner,  \* blocking threads
  kicks,     \* index requests on their way
  scan,      \* tree a worker is indexing
  polling,   \* workers whose watch loop is the caller
  committed, \* WatchState: the tree the watch loop indexed last
  indexed    \* tree a worker's current snapshot holds

files == <<worktree, visible>>
env == <<edits, cancels, crashes, faults>>
store == <<blobs, damaged>>
reg == <<registry, saved, tmp, unrecorded>>
dirs == <<source, staging>>
client == <<manifest, missing, image, seen>>
thread == <<at, tree, dir, filled, owner>>
worker == <<kicks, scan, polling, committed, indexed>>
vars == <<files, env, store, reg, dirs, locks, pc, client, thread, worker>>

Init ==
  /\ worktree \in [Pushers -> Trees \ {{}}] /\ visible = worktree
  /\ edits = 0 /\ cancels = 0 /\ crashes = 0 /\ faults = 0
  /\ blobs = {} /\ damaged = {}
  /\ registry = [n \in Names |-> Absent] /\ saved = [n \in Names |-> Absent] /\ tmp = None
  /\ unrecorded = {}
  /\ source = [s \in Slugs |-> Absent] /\ staging = [s \in Slugs |-> Absent]
  /\ locks = [n \in Names |-> None]
  /\ pc = [p \in Pushers |-> "start"]
  /\ manifest = [p \in Pushers |-> Absent] /\ missing = [p \in Pushers |-> {}]
  /\ image = [p \in Pushers |-> None] /\ seen = [p \in Pushers |-> Absent]
  /\ at = [t \in Threads |-> "free"] /\ tree = [t \in Threads |-> {}]
  /\ dir = [t \in Threads |-> None] /\ filled = [t \in Threads |-> {}]
  /\ owner = [t \in Threads |-> None]
  /\ kicks = {} /\ scan = [s \in Slugs |-> Absent] /\ polling = {}
  /\ committed = [s \in Slugs |-> Absent] /\ indexed = [s \in Slugs |-> Absent]

Goto(p, a, b) == pc[p] = a /\ pc' = [pc EXCEPT ![p] = b]

-----------------------------------------------------------------------------
(* The client, up to its push.                                             *)

\* The user changes files.  The scan cache answers for a file whose mtime and
\* size are the cached ones, so a scan may go on to report what it held before.
Edit(p) ==
  /\ edits < MaxEdits
  /\ edits' = edits + 1
  /\ \E w \in Trees \ {{}, worktree[p]}, v \in Trees :
       /\ w \cap visible[p] \subseteq v /\ v \subseteq w \cup visible[p]
       /\ Cardinality(v) = Cardinality(w)
       /\ worktree' = [worktree EXCEPT ![p] = w] /\ visible' = [visible EXCEPT ![p] = v]
  /\ UNCHANGED <<cancels, crashes, faults, store, reg, dirs, locks, pc, client, thread, worker>>

\* ensure_repo looks the name up.
Ensure(p) ==
  /\ Goto(p, "start", IF registry[NameOf[p]] = Absent THEN "register" ELSE "scan")
  /\ UNCHANGED <<files, env, store, reg, dirs, locks, client, thread, worker>>

\* register_repo enters the name with its source directory, unless another
\* call did, and persists the registry.
Register(p) ==
  LET n == NameOf[p] IN
  /\ Goto(p, "register", "image")
  /\ registry' = [registry EXCEPT ![n] = IF @ = Absent THEN {} ELSE @]
  /\ source' = [source EXCEPT ![Slug(p)] =
                  IF @ = Absent /\ registry[n] = Absent THEN {} ELSE @]
  /\ UNCHANGED <<files, env, store, saved, tmp, unrecorded, staging, locks, client, thread, worker>>

\* The first scan, or a poll of the watch loop that finds the tree moved.  A
\* moved git ref or mtime alone is not modelled: it pushes the same tree again.
Scan(p) ==
  /\ visible[p] # seen[p]
  /\ Goto(p, "scan", "check")
  /\ manifest' = [manifest EXCEPT ![p] = visible[p]]
  /\ UNCHANGED <<files, env, store, reg, dirs, locks, missing, image, seen, thread, worker>>

\* missing_blobs: what a manifest names and the blob store lacks.
MissingBlobs(w) == w \ blobs

\* require_repo.
Known(p) == registry[NameOf[p]] # Absent

Check(p) ==
  /\ Known(p)
  /\ Goto(p, "check", "upload")
  /\ missing' = [missing EXCEPT ![p] = MissingBlobs(manifest[p])]
  /\ UNCHANGED <<files, env, store, reg, dirs, locks, manifest, image, seen, thread, worker>>

\* upload_blob reads the file again; put_blob stores what hashes right.
Upload(p, b) ==
  /\ pc[p] = "upload" /\ Known(p)
  /\ b \in missing[p] /\ b \in worktree[p]
  /\ blobs' = blobs \cup {b}
  /\ missing' = [missing EXCEPT ![p] = @ \ {b}]
  /\ UNCHANGED <<files, env, damaged, reg, dirs, locks, pc, manifest, image, seen, thread,
                 worker>>

\* The file changed since the scan: the digest does not match, the client ends.
UploadFails(p) ==
  /\ missing[p] \ worktree[p] # {}
  /\ Goto(p, "upload", "exited")
  /\ UNCHANGED <<files, env, store, reg, dirs, locks, client, thread, worker>>

\* A restarted gateway does not know the repository.
Unknown(p) ==
  /\ ~Known(p)
  /\ pc[p] \in {"check", "upload"}
  /\ pc' = [pc EXCEPT ![p] = "exited"]
  /\ UNCHANGED <<files, env, store, reg, dirs, locks, client, thread, worker>>

\* Seeded bug: the manifest is committed while uploads are outstanding.
PlanUnchecked(p) ==
  /\ Goto(p, "upload", "lock")
  /\ UNCHANGED <<files, env, store, reg, dirs, locks, client, thread, worker>>

\* push_inner finds every blob present.
Plan(p) ==
  /\ Goto(p, "upload", "lock")
  /\ Known(p)
  /\ missing[p] = {} /\ MissingBlobs(manifest[p]) = {}
  /\ UNCHANGED <<files, env, store, reg, dirs, locks, client, thread, worker>>

\* A client of the API commits a manifest whose blobs it did not upload.
Refused(p) ==
  /\ p \in BySlug /\ Known(p)
  /\ Goto(p, "upload", "exited")
  /\ MissingBlobs(manifest[p]) # {}
  /\ UNCHANGED <<files, env, store, reg, dirs, locks, client, thread, worker>>

\* Seeded bug: the push lock is not waited for.
LockUnchecked(p) ==
  \E t \in Threads :
    /\ at[t] = "free"
    /\ Goto(p, "lock", "materialize")
    /\ locks' = [locks EXCEPT ![NameOf[p]] = p]
    /\ at' = [at EXCEPT ![t] = "clear"] /\ owner' = [owner EXCEPT ![t] = p]
    /\ tree' = [tree EXCEPT ![t] = manifest[p]] /\ dir' = [dir EXCEPT ![t] = Slug(p)]
    /\ UNCHANGED <<files, env, store, reg, dirs, client, filled, worker>>

\* Seeded bug: the guard is dropped as soon as it is taken.
LockNotHeld(p) ==
  \E t \in Threads :
    /\ locks[NameOf[p]] = None /\ at[t] = "free"
    /\ Goto(p, "lock", "materialize")
    /\ at' = [at EXCEPT ![t] = "clear"] /\ owner' = [owner EXCEPT ![t] = p]
    /\ tree' = [tree EXCEPT ![t] = manifest[p]] /\ dir' = [dir EXCEPT ![t] = Slug(p)]
    /\ UNCHANGED <<files, env, store, reg, dirs, locks, client, filled, worker>>

\* The push lock of the repository, then materialize on a blocking thread.
Lock(p) ==
  \E t \in Threads :
    /\ locks[NameOf[p]] = None /\ at[t] = "free"
    /\ Goto(p, "lock", "materialize")
    /\ locks' = [locks EXCEPT ![NameOf[p]] = p]
    /\ at' = [at EXCEPT ![t] = "clear"] /\ owner' = [owner EXCEPT ![t] = p]
    /\ tree' = [tree EXCEPT ![t] = manifest[p]] /\ dir' = [dir EXCEPT ![t] = Slug(p)]
    /\ UNCHANGED <<files, env, store, reg, dirs, client, filled, worker>>

-----------------------------------------------------------------------------
(* materialize, on a blocking thread.                                      *)

\* Seeded bug: a staging directory left behind is filled again.
FillClearKeeps(t) ==
  /\ at[t] = "clear"
  /\ at' = [at EXCEPT ![t] = "fill"]
  /\ filled' = [filled EXCEPT ![t] = {}]
  /\ staging' = [staging EXCEPT ![dir[t]] = IF @ = Absent THEN {} ELSE @]
  /\ UNCHANGED <<files, env, store, reg, source, locks, pc, client, tree, dir, owner, worker>>

\* The staging directory is cleared and created.
FillClear(t) ==
  /\ at[t] = "clear"
  /\ at' = [at EXCEPT ![t] = "fill"]
  /\ filled' = [filled EXCEPT ![t] = {}]
  /\ staging' = [staging EXCEPT ![dir[t]] = {}]
  /\ UNCHANGED <<files, env, store, reg, source, locks, pc, client, tree, dir, owner, worker>>

\* A file is linked, its directory created where needed.  Where it stands
\* already the link fails and the copy truncates the object it is a link to.
Fill(t, b) ==
  /\ at[t] = "fill"
  /\ b \in tree[t] \ filled[t]
  /\ filled' = [filled EXCEPT ![t] = @ \cup {b}]
  /\ staging' = [staging EXCEPT ![dir[t]] = IF @ = Absent THEN {b} ELSE @ \cup {b}]
  /\ damaged' = IF staging[dir[t]] # Absent /\ b \in staging[dir[t]] THEN damaged \cup {b}
                ELSE damaged
  /\ UNCHANGED <<files, env, blobs, reg, source, locks, pc, client, at, tree, dir, owner,
                 worker>>

Filled(t) ==
  /\ at[t] = "fill" /\ filled[t] = tree[t]
  /\ at' = [at EXCEPT ![t] = IF source[dir[t]] = Absent THEN "rename" ELSE "remove"]
  /\ UNCHANGED <<files, env, store, reg, dirs, locks, pc, client, tree, dir, filled, owner,
                 worker>>

\* remove_dir_all: the files one by one, then the directory.
Remove(t) ==
  /\ at[t] = "remove"
  /\ source[dir[t]] # Absent
  /\ \/ /\ \E b \in source[dir[t]] : source' = [source EXCEPT ![dir[t]] = @ \ {b}]
        /\ UNCHANGED at
     \/ /\ source[dir[t]] = {}
        /\ source' = [source EXCEPT ![dir[t]] = Absent]
        /\ at' = [at EXCEPT ![t] = "rename"]
  /\ UNCHANGED <<files, env, store, reg, staging, locks, pc, client, tree, dir, filled, owner,
                 worker>>

\* A thread ends: its handler takes the result, if it is still there.
End(t, result) ==
  at' = [at EXCEPT ![t] = IF owner[t] = None THEN "free" ELSE result]

Rename(t) ==
  /\ at[t] = "rename"
  /\ staging[dir[t]] # Absent /\ source[dir[t]] \in {Absent, {}}
  /\ source' = [source EXCEPT ![dir[t]] = staging[dir[t]]]
  /\ staging' = [staging EXCEPT ![dir[t]] = Absent]
  /\ End(t, "done")
  /\ UNCHANGED <<files, env, store, reg, locks, pc, client, tree, dir, filled, owner, worker>>

Working(t) == at[t] \in {"clear", "fill", "remove", "rename"}

\* A call fails: another thread works on the same directories, or the disk
\* is at fault.
ThreadFails(t) ==
  /\ Working(t)
  /\ \/ /\ \E u \in Threads \ {t} : Working(u) /\ dir[u] = dir[t]
        /\ UNCHANGED faults
     \/ /\ at[t] = "remove" /\ source[dir[t]] = Absent
        /\ UNCHANGED faults
     \/ /\ at[t] = "rename" /\ (staging[dir[t]] = Absent \/ source[dir[t]] \notin {Absent, {}})
        /\ UNCHANGED faults
     \/ faults < MaxFaults /\ faults' = faults + 1
  /\ End(t, "failed")
  /\ unrecorded' = IF at[t] \in {"remove", "rename"}
                   THEN unrecorded \cup {n \in Names : SlugOf[n] = dir[t]} ELSE unrecorded
  /\ UNCHANGED <<files, edits, cancels, crashes, store, registry, saved, tmp, dirs, locks, pc,
                 client, tree, dir, filled, owner, worker>>

Release(p) == locks' = [n \in Names |-> IF locks[n] = p THEN None ELSE locks[n]]

-----------------------------------------------------------------------------
(* The push handler after materialize.                                     *)

\* The record goes into the entry whose key is the name the client gave: a
\* slug finds the repository but not the entry.
Record(p) ==
  \E t \in Threads :
    /\ owner[t] = p /\ at[t] = "done"
    /\ Goto(p, "materialize", "image")
    /\ at' = [at EXCEPT ![t] = "free"] /\ owner' = [owner EXCEPT ![t] = None]
    /\ registry' = IF p \in BySlug \/ registry[NameOf[p]] = Absent THEN registry
                   ELSE [registry EXCEPT ![NameOf[p]] = manifest[p]]
    /\ unrecorded' = IF p \in BySlug THEN unrecorded \cup {NameOf[p]}
                     ELSE unrecorded \ {NameOf[p]}
    /\ UNCHANGED <<files, env, store, saved, tmp, dirs, locks, client, tree, dir, filled,
                   worker>>

PushFails(p) ==
  \E t \in Threads :
    /\ owner[t] = p /\ at[t] = "failed"
    /\ Goto(p, "materialize", "exited")
    /\ at' = [at EXCEPT ![t] = "free"] /\ owner' = [owner EXCEPT ![t] = None]
    /\ Release(p)
    /\ UNCHANGED <<files, env, store, reg, dirs, client, tree, dir, filled, worker>>

\* persist_registry: collect under the lock, write the temporary file, rename.
Image(p) ==
  /\ Goto(p, "image", "write")
  /\ image' = [image EXCEPT ![p] = registry]
  /\ UNCHANGED <<files, env, store, reg, dirs, locks, manifest, missing, seen, thread, worker>>

Write(p) ==
  /\ Goto(p, "write", "swap")
  /\ tmp' = image[p]
  /\ UNCHANGED <<files, env, store, registry, saved, unrecorded, dirs, locks, client, thread,
                 worker>>

\* Seeded bug: the rename is not checked.
SwapUnchecked(p) ==
  /\ Goto(p, "swap", IF manifest[p] = Absent THEN "scan" ELSE "finish")
  /\ saved' = tmp /\ tmp' = None
  /\ UNCHANGED <<files, env, store, registry, unrecorded, dirs, locks, client, thread, worker>>

\* A registration goes on to scan, a push to its end.
Swap(p) ==
  /\ tmp # None
  /\ Goto(p, "swap", IF manifest[p] = Absent THEN "scan" ELSE "finish")
  /\ saved' = tmp /\ tmp' = None
  /\ UNCHANGED <<files, env, store, registry, unrecorded, dirs, locks, client, thread, worker>>

\* Another call renamed the shared temporary file away.
SwapFails(p) ==
  /\ tmp = None
  /\ Goto(p, "swap", "exited")
  /\ Release(p)
  /\ UNCHANGED <<files, env, store, reg, dirs, client, thread, worker>>

\* Seeded bug: the client remembers what it would scan after the push.
FinishScansAgain(p) ==
  /\ Goto(p, "finish", "scan")
  /\ kicks' = kicks \cup {Slug(p)}
  /\ Release(p)
  /\ seen' = [seen EXCEPT ![p] = visible[p]]
  /\ UNCHANGED <<files, env, store, reg, dirs, manifest, missing, image, thread, scan, polling,
                 committed, indexed>>

\* The index kick is spawned and the push returns; the client remembers what
\* it pushed.
Finish(p) ==
  /\ Goto(p, "finish", "scan")
  /\ kicks' = kicks \cup {Slug(p)}
  /\ Release(p)
  /\ seen' = [seen EXCEPT ![p] = manifest[p]]
  /\ UNCHANGED <<files, env, store, reg, dirs, manifest, missing, image, thread, scan, polling,
                 committed, indexed>>

-----------------------------------------------------------------------------
(* Dropped requests, crashes and new clients.                              *)

\* The client is gone: its push handler is dropped at an await.  The thread
\* goes on, without an owner.
Cancel(p) ==
  /\ pc[p] \in {"lock", "materialize"}
  /\ cancels < MaxCancels
  /\ cancels' = cancels + 1
  /\ pc' = [pc EXCEPT ![p] = "exited"]
  /\ Release(p)
  /\ owner' = [t \in Threads |-> IF owner[t] = p THEN None ELSE owner[t]]
  /\ at' = [t \in Threads |-> IF owner[t] = p /\ at[t] \in {"done", "failed"} THEN "free"
                              ELSE at[t]]
  /\ UNCHANGED <<files, edits, crashes, faults, store, reg, dirs, client, tree, dir, filled,
                 worker>>

\* The gateway restarts: the registry comes from repos.json, every request
\* and thread is gone, the files stay.  A client waiting for an answer ends,
\* one between two requests may not notice.
Crash ==
  /\ crashes < MaxCrashes
  /\ crashes' = crashes + 1
  /\ registry' = saved
  /\ unrecorded' = unrecorded \cup {n \in Names : locks[n] # None \/ saved[n] # registry[n]}
  /\ locks' = [n \in Names |-> None]
  /\ \E spared \in SUBSET {p \in Pushers : pc[p] \in {"start", "check", "upload"}} :
       pc' = [p \in Pushers |-> IF pc[p] = "scan" \/ p \in spared THEN pc[p] ELSE "exited"]
  /\ at' = [t \in Threads |-> "free"] /\ owner' = [t \in Threads |-> None]
  /\ kicks' = {}
  /\ UNCHANGED <<files, edits, cancels, faults, store, saved, tmp, dirs, client, tree, dir,
                 filled, scan, polling, committed, indexed>>

\* The client is started again and reads its scan cache back, or goes without.
Rerun(p) ==
  /\ Goto(p, "exited", "start")
  /\ visible' \in {visible, [visible EXCEPT ![p] = worktree[p]]}
  /\ manifest' = [manifest EXCEPT ![p] = Absent]
  /\ missing' = [missing EXCEPT ![p] = {}]
  /\ image' = [image EXCEPT ![p] = None]
  /\ seen' = [seen EXCEPT ![p] = Absent]
  /\ UNCHANGED <<worktree, env, store, reg, dirs, locks, thread, worker>>

-----------------------------------------------------------------------------
(* The worker of a source directory.                                       *)

\* POST /v1/index scans the directory, or is turned away with IndexBusy.
Kicked(s) ==
  /\ s \in kicks
  /\ kicks' = kicks \ {s}
  /\ scan' = [scan EXCEPT ![s] = IF @ = Absent THEN source[s] ELSE @]
  /\ UNCHANGED <<files, env, store, reg, dirs, locks, pc, client, thread, polling, committed,
                 indexed>>

\* tick: the scan differs from what the loop itself indexed last.  A busy
\* lease leaves it to the next tick.
WatchTick(s) ==
  /\ WorkerWatches
  /\ scan[s] = Absent
  /\ source[s] \notin {Absent, committed[s]}
  /\ scan' = [scan EXCEPT ![s] = source[s]]
  /\ polling' = polling \cup {s}
  /\ UNCHANGED <<files, env, store, reg, dirs, locks, pc, client, thread, kicks, committed,
                 indexed>>

Indexed(s) ==
  /\ scan[s] # Absent
  /\ indexed' = [indexed EXCEPT ![s] = scan[s]]
  /\ committed' = IF s \in polling THEN [committed EXCEPT ![s] = scan[s]] ELSE committed
  /\ scan' = [scan EXCEPT ![s] = Absent]
  /\ polling' = polling \ {s}
  /\ UNCHANGED <<files, env, store, reg, dirs, locks, pc, client, thread, kicks>>

-----------------------------------------------------------------------------
ClientStep(p) ==
  \/ Ensure(p) \/ Register(p) \/ Scan(p) \/ Check(p) \/ (\E b \in Blobs : Upload(p, b))
  \/ UploadFails(p) \/ Unknown(p) \/ Plan(p) \/ Refused(p) \/ Lock(p) \/ Record(p) \/ PushFails(p)
  \/ Image(p) \/ Write(p) \/ Swap(p) \/ SwapFails(p) \/ Finish(p)

ThreadStep(t) ==
  \/ FillClear(t) \/ (\E b \in Blobs : Fill(t, b)) \/ Filled(t) \/ Remove(t) \/ Rename(t)
  \/ ThreadFails(t)

WorkerStep(s) == Kicked(s) \/ WatchTick(s) \/ Indexed(s)

Next ==
  \/ \E p \in Pushers : ClientStep(p) \/ Edit(p) \/ Cancel(p) \/ Rerun(p)
  \/ \E t \in Threads : ThreadStep(t)
  \/ \E s \in Slugs : WorkerStep(s)
  \/ Crash

Spec == Init /\ [][Next]_vars

\* Clients poll and are started again, threads run, the worker answers.
\* Edits, dropped requests and crashes are never forced.
Fairness ==
  /\ \A p \in Pushers : WF_vars(ClientStep(p)) /\ WF_vars(Rerun(p))
  /\ \A t \in Threads : WF_vars(ThreadStep(t))
  /\ \A s \in Slugs : WF_vars(WorkerStep(s))

FairSpec == Spec /\ Fairness

-----------------------------------------------------------------------------
(* Properties.                                                             *)

Locations == {"start", "register", "scan", "check", "upload", "lock", "materialize", "image",
              "write", "swap", "finish", "exited"}

\* Type correctness.
TypeOK ==
  /\ worktree \in [Pushers -> Trees] /\ visible \in [Pushers -> Trees]
  /\ edits \in 0..MaxEdits /\ cancels \in 0..MaxCancels /\ crashes \in 0..MaxCrashes
  /\ faults \in 0..MaxFaults
  /\ blobs \in Trees /\ damaged \in Trees
  /\ registry \in [Names -> MaybeTree] /\ saved \in [Names -> MaybeTree]
  /\ unrecorded \subseteq Names
  /\ tmp \in ({None} \cup [Names -> MaybeTree])
  /\ source \in [Slugs -> MaybeTree] /\ staging \in [Slugs -> MaybeTree]
  /\ locks \in [Names -> Pushers \cup {None}]
  /\ pc \in [Pushers -> Locations]
  /\ manifest \in [Pushers -> MaybeTree] /\ missing \in [Pushers -> Trees]
  /\ image \in [Pushers -> ({None} \cup [Names -> MaybeTree])]
  /\ seen \in [Pushers -> MaybeTree]
  /\ at \in [Threads -> {"free", "clear", "fill", "remove", "rename", "done", "failed"}]
  /\ tree \in [Threads -> Trees] /\ dir \in [Threads -> Slugs \cup {None}]
  /\ filled \in [Threads -> Trees] /\ owner \in [Threads -> Pushers \cup {None}]
  /\ kicks \in SUBSET Slugs /\ polling \in SUBSET Slugs
  /\ scan \in [Slugs -> MaybeTree] /\ committed \in [Slugs -> MaybeTree]
  /\ indexed \in [Slugs -> MaybeTree]

\* Between pushes the source directory of a repository holds exactly the tree
\* its registry entry records, whatever pushes by id ran side by side.  What
\* can part the two is a push by slug, a materialization that failed after it
\* began to replace the directory, or a crash that lost a push under way or its
\* record, and then only until the next push by id.  Handlers that are dropped
\* are left out: their threads fill a directory another push records.
RecordMatchesSource ==
  cancels = 0 => \A n \in Names \ unrecorded :
                   registry[n] # Absent /\ locks[n] = None => source[SlugOf[n]] = registry[n]

\* The push lock keeps two threads from working on one repository's
\* directories.
SwapsAreExclusive ==
  \A t, u \in Threads : Working(t) /\ Working(u) /\ dir[t] = dir[u] => t = u

\* An object of the blob store is never written to again.
CasIsImmutable == damaged = {}

\* Every blob of a tree that the gateway recorded, in memory or in repos.json,
\* or that reached a source directory or an index has an object in the blob
\* store, whatever was dropped, failed or crashed.
CommittedTreesAreStored ==
  /\ \A n \in Names : registry[n] # Absent => registry[n] \subseteq blobs
  /\ \A n \in Names : saved[n] # Absent => saved[n] \subseteq blobs
  /\ \A s \in Slugs : source[s] # Absent => source[s] \subseteq blobs
  /\ \A s \in Slugs : indexed[s] # Absent => indexed[s] \subseteq blobs

\* Whatever was edited, failed or crashed on the way: in the end the source
\* directory holds the tree the client's scan reports and the registry entry
\* says so, unless the scan cache answers with a content the gateway never got.
EditsReachTheSource ==
  \A p \in Pushers :
    <>[](visible[p] \subseteq worktree[p] \cup blobs =>
           source[Slug(p)] = visible[p] /\ registry[NameOf[p]] = visible[p])

=============================================================================
