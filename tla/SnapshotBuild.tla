--------------------------- MODULE SnapshotBuild ---------------------------
(***************************************************************************)
(* One index build from the live worktree to a committed snapshot: the     *)
(* scan and its stat cache, the loading and parsing of files, the derived  *)
(* records, history, the providers, the commit and the vectors.  The tree, *)
(* HEAD and the clock move under it.  The life of snapshots once they are  *)
(* committed, the lease and the processes are the subject of IndexEngine.  *)
(***************************************************************************)
EXTENDS ProviderIngest

CONSTANTS
    Versions,      \* path -> the contents it may have in the worktree
    FirstTree,     \* path -> its content at the start
    Absent,        \* the content of a path that does not exist
    MaxFileBytes,  \* max_file_bytes
    RootIndex,     \* the index.scip committed to the repository, or NoIndex
    MaxUpsets      \* bound on what happens to the build from outside

ASSUME BuildAssumption ==
    /\ PathOrder \in Seq(ToSet(PathOrder))
    /\ MaxFileBytes \in Nat /\ MaxUpsets \in Nat
    /\ \A p \in ToSet(PathOrder) : FirstTree[p] \in Versions[p]

\* Every content that can be met is known, also to whoever committed an index.
ASSUME WorldAssumption ==
    /\ 1 \in DOMAIN History
    /\ \A p \in ToSet(PathOrder) : Versions[p] \subseteq DOMAIN Content \cup {Absent}
    /\ RootIndex.ok => /\ IsList(RootIndex.docs)
                       /\ \A d \in ToSet(RootIndex.docs) : d.of \in DOMAIN Content

Paths == ToSet(PathOrder)
Withheld == BuiltIn \cup Sensitive

VARIABLES
    tree,      \* path -> content, mtime, and whether the last edit kept the mtime
    head,      \* the commit HEAD names
    stray,     \* index.scip at the repository root
    work,      \* provider -> index.scip in its work directory
    cache,     \* scan_cache: path -> size, mtime and content, a partial function
    rows,      \* snapshot id -> its committed records, a partial function
    order,     \* snapshot ids by created_at
    current,   \* current_snapshots, a set of at most one id
    pc,        \* the step the build is at
    job,       \* what the build holds in memory
    upsets     \* what has happened from outside

vars == <<tree, head, stray, work, cache, rows, order, current, pc, job, upsets>>
world == <<tree, head>>
indexes == <<stray, work>>
store == <<rows, order, current>>

\* The function f with the value v at k.
Put(f, k, v) == [x \in DOMAIN f \cup {k} |-> IF x = k THEN v ELSE f[x]]

Live == [p \in {q \in Paths : tree[q].c # Absent} |-> tree[p].c]
Size(c) == Len(Content[c].text)

\* A snapshot id is a hash of the base revision, of every path with the hash
\* of its content, and of the profile, of which only the variant changes.
snapshot_id(base, files, variant) == [base |-> base, files |-> files, variant |-> variant]

NoRecords == [regions |-> <<>>, entities |-> <<>>, relations |-> <<>>, docs |-> <<>>]
NoJob == [kind |-> "none", leased |-> FALSE, base |-> 0, listed |-> {}, at |-> 1, stat |-> <<0, 0>>,
          found |-> <<>>, kept |-> {}, body |-> <<>>, parsed |-> <<>>, walk |-> <<>>,
          records |-> NoRecords, reports |-> <<>>]

EmptyRow == [complete |-> FALSE, body |-> <<>>, parsed |-> <<>>, records |-> NoRecords,
             vectors |-> <<>>, dense |-> "Building", states |-> <<>>]

Init ==
    /\ tree = [p \in Paths |-> [c |-> FirstTree[p], m |-> 0, quiet |-> FALSE]]
    /\ head = 1
    /\ stray = RootIndex
    /\ work = [v \in ToSet(Registry) |-> NoIndex]
    /\ cache = <<>> /\ rows = <<>> /\ order = <<>> /\ current = {}
    /\ pc = "idle" /\ job = NoJob /\ upsets = 0

Upset(n) == upsets + n <= MaxUpsets /\ upsets' = upsets + n

-----------------------------------------------------------------------------
\* The world.

\* An edit moves the mtime, unless it falls in the same millisecond or a
\* tool restores it.
Edit(p, c, tick) ==
    /\ c \in Versions[p] \ {tree[p].c} /\ tick \in {0, 1}
    /\ Upset(1)
    /\ tree' = [tree EXCEPT ![p] = [c |-> c, m |-> @.m + tick, quiet |-> tick = 0]]
    /\ UNCHANGED <<head, indexes, cache, store, pc, job>>

GitCommit ==
    /\ head + 1 \in DOMAIN History
    /\ Upset(1)
    /\ head' = head + 1
    /\ UNCHANGED <<tree, indexes, cache, store, pc, job>>

-----------------------------------------------------------------------------
\* The scan.

ScanOf(kind, leased) ==
    [NoJob EXCEPT !.kind = kind, !.leased = leased, !.base = head, !.listed = DOMAIN Live]

Start(kind) ==
    /\ pc = "idle"
    /\ Upset(IF kind = "checkpoint" THEN 1 ELSE 0)
    /\ pc' = "stat" /\ job' = ScanOf(kind, FALSE)
    /\ UNCHANGED <<world, indexes, cache, store>>

\* The build is over, done or failed; what is stored stays.
Return == pc' = "idle" /\ job' = NoJob

\* Mutant: a file is known by its path.
ScanCacheByPath(p, size, mtime) == IF p \in DOMAIN cache THEN {cache[p].c} ELSE {}

scan_cache_lookup(p, size, mtime) ==
    IF p \in DOMAIN cache /\ cache[p].size = size /\ cache[p].m = mtime THEN {cache[p].c} ELSE {}

NextFile == [job EXCEPT !.at = @ + 1, !.stat = <<0, 0>>]
Walking == job.at <= Len(PathOrder)
Found(j, p, c, size, mtime) ==
    [j EXCEPT !.found = Put(@, p, [c |-> c, size |-> size, m |-> mtime])]

\* The walk meets a file: too large or withheld, known by its stat, or to
\* be read.  A file that goes away after it was listed fails the scan.
ScanStat ==
    /\ pc = "stat" /\ Walking
    /\ LET p == PathOrder[job.at]
           f == tree[p]
       IN  \/ f.c = Absent /\ job' = NextFile /\ pc' = pc
           \/ f.c = Absent /\ p \in job.listed /\ Return
           \/ /\ f.c # Absent /\ (Size(f.c) > MaxFileBytes \/ p \in Withheld)
              /\ job' = NextFile /\ pc' = pc
           \/ /\ f.c # Absent /\ Size(f.c) <= MaxFileBytes /\ p \notin Withheld
              /\ LET hit == scan_cache_lookup(p, Size(f.c), f.m) IN
                 IF hit = {}
                 THEN job' = [job EXCEPT !.stat = <<Size(f.c), f.m>>] /\ pc' = "read"
                 ELSE \E c \in hit : job' = Found(NextFile, p, c, Size(f.c), f.m) /\ pc' = pc
    /\ UNCHANGED <<world, indexes, cache, store, upsets>>

ScanRead ==
    /\ pc = "read"
    /\ LET p == PathOrder[job.at]
           c == tree[p].c
       IN  \/ c = Absent /\ Return
           \/ c # Absent /\ Content[c].binary /\ job' = NextFile /\ pc' = "stat"
           \/ /\ c # Absent /\ ~Content[c].binary
              /\ job' = [Found(NextFile, p, c, job.stat[1], job.stat[2]) EXCEPT !.kept = @ \cup {p}]
              /\ pc' = "stat"
    /\ UNCHANGED <<world, indexes, cache, store, upsets>>

Scanned == [p \in DOMAIN job.found |-> job.found[p].c]
JobId == snapshot_id(job.base, Scanned, job.kind)
Complete(id) == id \in DOMAIN rows /\ rows[id].complete

\* The cache is replaced by what this scan saw.
update_scan_cache == cache' = job.found

\* A complete snapshot is reused.  One that is not served yet is served
\* after a second scan, made under the lease; a checkpoint never is.
FinishScan ==
    /\ pc = "stat" /\ ~Walking
    /\ update_scan_cache
    /\ LET inactive == job.kind = "full" /\ current # {JobId} IN
       \/ ~Complete(JobId) /\ pc' = "begin" /\ job' = job /\ UNCHANGED current
       \/ /\ Complete(JobId) /\ inactive /\ ~job.leased
          /\ job' = ScanOf("full", TRUE) /\ pc' = pc /\ UNCHANGED current
       \/ Complete(JobId) /\ inactive /\ job.leased /\ current' = {JobId} /\ Return
       \/ Complete(JobId) /\ ~inactive /\ Return /\ UNCHANGED current
    /\ UNCHANGED <<world, indexes, rows, order, upsets>>

-----------------------------------------------------------------------------
\* Loading.

\* The row is replaced, and the commits the touched paths come from are
\* those of HEAD now.
Begin ==
    /\ pc = "begin"
    /\ rows' = Put(rows, JobId, EmptyRow)
    /\ order' = Append(Select(order, LAMBDA s : s # JobId), JobId)
    /\ current' = current \ {JobId}
    /\ job' = [job EXCEPT !.at = 1, !.walk = changed_paths_per_commit(head)]
    /\ pc' = "load"
    /\ UNCHANGED <<world, indexes, cache, upsets>>

\* Mutant: what is read now is taken for what was scanned.
BytesUnverified(p) ==
    IF p \in job.kept THEN {job.found[p].c} ELSE {tree[p].c} \ {Absent}

\* The content a file is indexed by: the bytes the scan read, or the file
\* again when its hash came from the cache, if they still match.
bytes(p) ==
    IF p \in job.kept THEN {job.found[p].c}
    ELSE {tree[p].c} \cap {job.found[p].c}

\* Mutant: an analysis is reused for any content of its path.
CachedAnalysisByPath(p, c) ==
    UNION {IF p \in DOMAIN s.files /\ p \in DOMAIN rows[s].parsed
           THEN {rows[s].parsed[p]} ELSE {} : s \in current}

\* Only the current snapshot's analyses are looked at.
cached_analysis_digest(p, c) ==
    UNION {IF p \in DOMAIN s.files /\ s.files[p] = c /\ p \in DOMAIN rows[s].parsed
           THEN {rows[s].parsed[p]} ELSE {} : s \in current}

\* An entry that cannot be read is parsed again.
parse_with_cache(p, c) == cached_analysis_digest(p, c) \cup {parse(p, c)}

\* The scanned files, in path order; job.at is how far the loading is.
Files == Select(PathOrder, LAMBDA p : p \in DOMAIN job.found)
Pending(from) == {n \in from..Len(PathOrder) : PathOrder[n] \in DOMAIN job.found}

LoadFile ==
    /\ pc = "load"
    /\ \E n \in Pending(job.at) : LET p == PathOrder[n] IN
       /\ \A m \in Pending(job.at) : n <= m
       /\ \/ bytes(p) = {} /\ Return
          \/ \E c \in bytes(p) : \E a \in parse_with_cache(p, c) :
                /\ job' = [job EXCEPT !.at = n + 1, !.body = Put(@, p, c),
                                      !.parsed = Put(@, p, a)]
                /\ pc' = pc
    /\ UNCHANGED <<world, indexes, cache, store, upsets>>

-----------------------------------------------------------------------------
\* Deriving.

JobView == View(Files, job.body, job.parsed)

Derive ==
    /\ pc = "load" /\ Pending(job.at) = {}
    /\ \E x \in {JobView} :
       \E units \in {AllUnitRecords(x)} :
       \E files \in {AllFileRecords(x, units)} :
       \E contains \in {FlattenSeq([i \in DOMAIN files |-> files[i].contains])} :
       \E pick \in BasenamePicks(x) :
       \E found \in {DerivedRelations(x, pick, job.walk, contains)} :
       \E derived \in {add_derived_relations(found)}, routes \in {axum_routes(x)},
          knowledge \in {add_hierarchical_knowledge(x)} :
          job' = [job EXCEPT !.records = TreeRecords(x, files, derived, routes, knowledge)]
    /\ pc' = "history"
    /\ UNCHANGED <<world, indexes, cache, store, upsets>>

\* A checkpoint runs no provider.
HistoryStep ==
    /\ pc = "history"
    /\ LET h == HistoryRecords(head) IN
       job' = [job EXCEPT !.at = 1, !.walk = <<>>,
                          !.records.entities = @ \o h.entities, !.records.docs = @ \o h.docs]
    /\ pc' = IF job.kind = "checkpoint" THEN "commit" ELSE "providers"
    /\ UNCHANGED <<world, indexes, cache, store, upsets>>

\* Everything but a run that writes its file is an upset.
Cost(end) == IF end = "wrote" THEN 0 ELSE 1

Reported(v, r) ==
    /\ job' = [job EXCEPT !.at = @ + 1,
                          !.reports = Append(@, [state |-> r.state, index |-> r.index])]
    /\ work' = [work EXCEPT ![v] = r.work] /\ stray' = r.stray

RunProvider ==
    /\ pc = "providers" /\ job.at <= Len(Registry)
    /\ \E live \in {Live}, v \in {Registry[job.at]} :
       \E found \in {detect(v, live, stray)} :
          \/ /\ found # "Ready"
             /\ Reported(v, Report(found, NoIndex, work[v], stray)) /\ UNCHANGED upsets
          \/ /\ found = "Ready" /\ v = "scip:file"
             /\ Reported(v, Report("Ready", stray, work[v], stray)) /\ UNCHANGED upsets
          \/ /\ found = "Ready" /\ v # "scip:file"
             /\ \E first, second \in run_command, full \in {IndexOf(v, live)} :
                   /\ ~Retries(v, work[v], first) => second = "wrote"
                   /\ Upset(Cost(first) + Cost(second))
                   /\ \E r \in {run(v, full, work[v], stray, first, second)} : Reported(v, r)
    /\ UNCHANGED <<world, cache, store, pc>>

\* One produced index is ingested after the other; the report keeps the
\* number of its edges.
Ingest ==
    /\ pc = "providers" /\ job.at \in (Len(Registry) + 1)..(2 * Len(Registry))
    /\ LET n == job.at - Len(Registry)
           r == job.reports[n]
       IN  IF IngestedState(r) # "Ready"
           THEN job' = [job EXCEPT !.at = @ + 1, !.reports[n] =
                           [state |-> IngestedState(r), edges |-> 0]]
           ELSE \E x \in {JobView} :
                \E sites \in {Sites(x, r.index)} :
                \E defs \in {Definitions(sites)} :
                \E uses \in {Uses(sites, defs)} :
                \E incoming \in {ingest(r.index, defs, uses)} :
                   job' = [job EXCEPT !.at = @ + 1,
                              !.reports[n] = [state |-> "Ready", edges |-> Len(incoming)],
                              !.records.relations = merge_relations(@, incoming)]
    /\ pc' = IF job.at = 2 * Len(Registry) THEN "commit" ELSE pc
    /\ UNCHANGED <<world, indexes, cache, store, upsets>>

-----------------------------------------------------------------------------
\* Committing.

\* The primary keys of the five tables.
UniqueKeys(r) ==
    /\ IsInjective([i \in DOMAIN r.regions |-> r.regions[i].id])
    /\ IsInjective(r.entities)
    /\ IsInjective([i \in DOMAIN r.relations |-> relation_id(r.relations[i])])
    /\ IsInjective([i \in DOMAIN r.docs |-> r.docs[i].id])

commit_snapshot ==
    /\ pc = "commit"
    /\ IF UniqueKeys(job.records)
       THEN /\ rows' = [rows EXCEPT ![JobId].complete = TRUE, ![JobId].body = job.body,
                                    ![JobId].parsed = job.parsed, ![JobId].records = job.records]
            /\ current' = IF job.kind = "full" THEN {JobId} ELSE current
            /\ job' = [job EXCEPT !.records = NoRecords] /\ pc' = "views"
       ELSE Return /\ UNCHANGED <<rows, current>>
    /\ UNCHANGED <<world, indexes, cache, order, upsets>>

SetStates ==
    /\ pc = "views"
    /\ \E x \in {JobView} :
          rows' = [rows EXCEPT ![JobId].states =
                      [Symbols |-> symbols_view_status(x),
                       Graph |-> graph_view_status(job.reports),
                       Dataflow |-> dataflow_view_status(job.reports)]]
    /\ pc' = "dense" /\ job' = [job EXCEPT !.reports = <<>>, !.body = <<>>, !.parsed = <<>>]
    /\ UNCHANGED <<world, indexes, cache, order, current, upsets>>

\* The embedding of a text.
Embed(text) == [of |-> text]

\* The newest other complete snapshot with a vector artifact.
prior_dense_artifact ==
    LET usable == {i \in DOMAIN order : /\ order[i] # JobId /\ Complete(order[i])
                                        /\ rows[order[i]].dense \in {"Ready", "Partial"}}
    IN  {order[i] : i \in {u \in usable : \A v \in usable : v <= u}}

\* Vectors by the text they were computed from: the vectors of the prior
\* artifact joined with the documents of its snapshot.
dense_reuse_map ==
    LET Of(s) == LET docs == rows[s].records.docs IN
                 [t \in {docs[i].text : i \in DOMAIN docs} |->
                    rows[s].vectors[docs[CHOOSE i \in DOMAIN docs : docs[i].text = t].id]]
    IN  IF prior_dense_artifact = {} THEN <<>> ELSE Of(CHOOSE s \in prior_dense_artifact : TRUE)

VectorOf(reusable, d) == IF d.text \in DOMAIN reusable THEN reusable[d.text] ELSE Embed(d.text)

DenseIndexOf(docs) ==
    LET reusable == dense_reuse_map
    IN  [id \in {docs[i].id : i \in DOMAIN docs} |->
            VectorOf(reusable, docs[CHOOSE i \in DOMAIN docs : docs[i].id = id])]

\* A model that fails leaves a failed view and a snapshot that stands.
BuildDense ==
    /\ pc = "dense"
    /\ \/ /\ job.kind = "full"
          /\ rows' = [rows EXCEPT ![JobId].dense = "Ready",
                                  ![JobId].vectors = DenseIndexOf(rows[JobId].records.docs)]
          /\ UNCHANGED upsets
       \/ /\ job.kind = "full" /\ Upset(1)
          /\ rows' = [rows EXCEPT ![JobId].dense = "Failed"]
       \/ /\ job.kind = "checkpoint"
          /\ rows' = [rows EXCEPT ![JobId].dense = "Unavailable"]
          /\ UNCHANGED upsets
    /\ Return
    /\ UNCHANGED <<world, indexes, cache, order, current>>

\* The process dies; files and committed rows survive.
Crash ==
    /\ pc # "idle" /\ Upset(1)
    /\ Return
    /\ UNCHANGED <<world, indexes, cache, store>>

-----------------------------------------------------------------------------

Step == \/ ScanStat \/ ScanRead \/ FinishScan \/ Begin \/ LoadFile \/ Derive \/ HistoryStep
        \/ RunProvider \/ Ingest \/ commit_snapshot \/ SetStates \/ BuildDense

Next == \/ \E p \in Paths, tick \in {0, 1} : \E c \in Versions[p] : Edit(p, c, tick)
        \/ GitCommit
        \/ \E kind \in {"full", "checkpoint"} : Start(kind)
        \/ Step \/ Crash

\* A build that runs always has a step to take, so this is the weak
\* fairness of Step, in a form that does not evaluate ENABLED.
BuildGoesOn == []<>(pc = "idle") \/ []<><<pc # "idle" /\ upsets' = upsets>>_vars

\* The snapshot of the tree on disk.
Indexable(p) == /\ p \notin Withheld /\ Size(tree[p].c) <= MaxFileBytes
                /\ ~Content[tree[p].c].binary
TreeId == snapshot_id(head, [p \in {q \in DOMAIN Live : Indexable(q)} |-> tree[p].c], "full")

\* The watch loop asks for a build as long as the tree is not the snapshot
\* that is served (what it does in the meantime is WatchLoop's subject), and
\* a build that runs goes on.
Spec ==
    Init /\ [][Next]_vars /\ WF_vars(Start("full") /\ current # {TreeId}) /\ BuildGoesOn

-----------------------------------------------------------------------------
\* Properties.

Committed == {s \in DOMAIN rows : rows[s].complete}

\* The texts a committed snapshot is made of are the contents its id names,
\* whatever the tree did between the scan and the loading of each file
\* (ScannedFile::bytes verifies what the scan took from the cache).
SnapshotNamesItsContent == \A s \in Committed : rows[s].body = s.files

\* A build that reuses analyses of the current snapshot and vectors of the
\* newest artifact leaves what a build from nothing would: every analysis
\* is the parse of its own content and every vector the embedding of its
\* own document's text (parse_with_cache, dense_reuse_map).
FromNothing(s) ==
    /\ \A p \in DOMAIN s.files : rows[s].parsed[p] = parse(p, s.files[p])
    /\ rows[s].dense = "Ready" =>
          \A d \in ToSet(rows[s].records.docs) : rows[s].vectors[d.id] = Embed(d.text)
IncrementalEqualsFull == pc = "idle" => \A s \in Committed : FromNothing(s)

\* Whatever is committed only refers to what is committed with it: the ends
\* of every relation, also of one a provider found in an index of another
\* tree, the entity and the region of every document, the parent of every
\* region.
Closed(r) ==
    LET entities == ToSet(r.entities)
        regions == {r.regions[i].id : i \in DOMAIN r.regions} \cup {NoRegion}
    IN  /\ \A e \in ToSet(r.relations) : e.src \in entities /\ e.dst \in entities
        /\ \A d \in ToSet(r.docs) : d.id.entity \in entities /\ d.region \in regions
        /\ \A g \in ToSet(r.regions) : g.parent \in regions
RecordsAreClosed == pc = "idle" => \A s \in Committed : Closed(rows[s].records)

\* The mtime of every file was moved by its last edit.
MtimesMoved == \A p \in Paths : ~tree[p].quiet

\* The manifests list no package of the workspace twice.
DependenciesAreListedOnce ==
    \A p \in {q \in DOMAIN Live : IsManifest(q)} :
        Cardinality(ToSet(Content[tree[p].c].manifest.deps)) = Len(Content[tree[p].c].manifest.deps)

\* Once the tree rests, the snapshot that is served is the snapshot of the
\* tree, after any crash, failed build or stopped indexer on the way, as
\* long as edits move mtimes and the records have distinct keys (the scan
\* cache, the rebuild of incomplete rows, the failed providers).
EditsAreIndexed ==
    <>[](MtimesMoved /\ DependenciesAreListedOnce => current = {TreeId})
=============================================================================
