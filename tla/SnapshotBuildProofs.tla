------------------------- MODULE SnapshotBuildProofs -------------------------
(***************************************************************************)
(* What a committed snapshot is made of, for every tree, every content and *)
(* every interleaving of edits, commits, crashes and builds: the contents  *)
(* its id names, and the analyses and vectors a build from nothing would   *)
(* have left.  The parser, the derivation and the providers are arbitrary  *)
(* operators here: nothing is used of them.                                *)
(***************************************************************************)
EXTENDS SnapshotBuild, TLAPS

(***************************************************************************)
(* The inductive invariant.                                                *)
(***************************************************************************)
\* The build has replaced the row of its snapshot and not returned yet.
RowIsOpen == pc \in {"load", "history", "providers", "commit", "views", "dense"}

\* The build holds records of known shape, and so does every row.
Shapes ==
    /\ pc \in {"idle", "stat", "read", "begin", "load", "history", "providers", "commit",
               "views", "dense"}
    /\ DOMAIN job = DOMAIN NoJob
    /\ \A s \in DOMAIN rows : DOMAIN rows[s] = DOMAIN EmptyRow
    /\ current \subseteq DOMAIN rows

\* The scan finds files of the repository and nothing is loaded before the
\* row is replaced.
ScanIsOfPaths ==
    /\ DOMAIN job.found \subseteq Paths
    /\ pc \in {"idle", "stat", "read", "begin"} => job.body = <<>> /\ job.parsed = <<>>
    /\ job.at \in Nat \ {0}
    /\ pc = "read" => Walking

\* What is loaded so far has the content the scan saw and its own analysis;
\* every file the loading has passed is loaded, and after it every file is.
LoadIsOfScan ==
    pc \in {"load", "history", "providers", "commit"} =>
        /\ job.body = [p \in DOMAIN job.body |-> job.found[p].c]
        /\ DOMAIN job.body \subseteq DOMAIN job.found
        /\ DOMAIN job.parsed = DOMAIN job.body
        /\ \A p \in DOMAIN job.body : job.parsed[p] = parse(p, job.found[p].c)
        /\ IF pc = "load"
           THEN \A n \in 1..Len(PathOrder) :
                   n < job.at /\ PathOrder[n] \in DOMAIN job.found
                      => PathOrder[n] \in DOMAIN job.body
           ELSE DOMAIN job.body = DOMAIN job.found

\* A row is incomplete until its build commits it, and never served before.
CommitIsLast ==
    /\ RowIsOpen => JobId \in DOMAIN rows
    /\ pc \in {"load", "history", "providers", "commit"} => ~rows[JobId].complete
    /\ pc \in {"views", "dense"} => rows[JobId].complete
    /\ \A s \in current : rows[s].complete

\* The rows of a committed snapshot.
RowsAreOfTheirFiles ==
    \A s \in Committed :
        /\ rows[s].body = s.files
        /\ \A p \in DOMAIN s.files : rows[s].parsed[p] = parse(p, s.files[p])
        /\ UniqueKeys(rows[s].records)

\* A vector artifact is of the documents of its own snapshot.
VectorsAreOfTheirDocs ==
    \A s \in DOMAIN rows :
        /\ rows[s].dense \in {"Building", "Ready", "Failed", "Unavailable"}
        /\ rows[s].dense # "Building" => rows[s].complete
        /\ rows[s].dense = "Ready" =>
              \A i \in DOMAIN rows[s].records.docs :
                 rows[s].vectors[rows[s].records.docs[i].id] = Embed(rows[s].records.docs[i].text)

BuildInv == /\ Shapes /\ ScanIsOfPaths /\ LoadIsOfScan /\ CommitIsLast
            /\ RowsAreOfTheirFiles /\ VectorsAreOfTheirDocs

(***************************************************************************)
(* Lemmas.                                                                 *)
(***************************************************************************)
\* The fields of the two records.
LEMMA Fields ==
  /\ DOMAIN NoJob = {"kind", "leased", "base", "listed", "at", "stat", "found", "kept", "body",
                     "parsed", "walk", "records", "reports"}
  /\ DOMAIN EmptyRow = {"complete", "body", "parsed", "records", "vectors", "dense", "states"}
BY DEF NoJob, EmptyRow

\* The initial state satisfies the invariant.
LEMMA InitBuildInv == Init => BuildInv
BY DEF Init, BuildInv, Shapes, ScanIsOfPaths, LoadIsOfScan, CommitIsLast, RowIsOpen,
       RowsAreOfTheirFiles, VectorsAreOfTheirDocs, Committed, NoJob

\* What the world does, and what a build does to anything but its job and
\* the rows, leaves the invariant alone.
LEMMA OutsideKeepsBuildInv ==
  ASSUME BuildInv, UNCHANGED <<rows, current, pc, job>>
  PROVE  BuildInv'
BY DEF BuildInv, Shapes, ScanIsOfPaths, LoadIsOfScan, CommitIsLast, RowIsOpen,
       RowsAreOfTheirFiles, VectorsAreOfTheirDocs, Committed, JobId, Scanned, snapshot_id,
       Walking

\* A build may return at any step.
LEMMA ReturnKeepsBuildInv ==
  ASSUME BuildInv, Return, UNCHANGED rows, current' \subseteq Committed
  PROVE  BuildInv'
<1>1. Shapes' /\ ScanIsOfPaths' /\ LoadIsOfScan' /\ CommitIsLast'
  BY DEF BuildInv, Shapes, ScanIsOfPaths, LoadIsOfScan, CommitIsLast, RowIsOpen, Return, NoJob,
         Committed, Walking
<1>2. RowsAreOfTheirFiles' /\ VectorsAreOfTheirDocs'
  BY DEF BuildInv, RowsAreOfTheirFiles, VectorsAreOfTheirDocs, Committed
<1> QED BY <1>1, <1>2 DEF BuildInv

\* Between the loading and the commit a build only adds records and reports.
LEMMA WorkKeepsBuildInv ==
  ASSUME BuildInv, UNCHANGED <<rows, current>>,
         pc \in {"history", "providers", "commit"}, pc' \in {"history", "providers", "commit"},
         DOMAIN job' = DOMAIN job,
         job'.kind = job.kind, job'.base = job.base, job'.found = job.found,
         job'.body = job.body, job'.parsed = job.parsed, job'.at \in Nat \ {0}
  PROVE  BuildInv'
<1>1. JobId' = JobId
  BY DEF JobId, Scanned, snapshot_id
<1>2. Shapes' /\ ScanIsOfPaths' /\ LoadIsOfScan' /\ CommitIsLast'
  BY <1>1 DEF BuildInv, Shapes, ScanIsOfPaths, LoadIsOfScan, CommitIsLast, RowIsOpen
<1>3. RowsAreOfTheirFiles' /\ VectorsAreOfTheirDocs'
  BY DEF BuildInv, RowsAreOfTheirFiles, VectorsAreOfTheirDocs, Committed
<1> QED BY <1>2, <1>3 DEF BuildInv

(***************************************************************************)
(* The steps of a build.                                                   *)
(***************************************************************************)
\* A build that has loaded nothing may find anything of the repository.
LEMMA ScanKeepsBuildInv ==
  ASSUME BuildInv, UNCHANGED <<rows, current>>, pc' \in {"stat", "read", "begin"},
         DOMAIN job' = DOMAIN NoJob, job'.body = <<>>, job'.parsed = <<>>,
         DOMAIN job'.found \subseteq Paths, job'.at \in Nat \ {0}, pc' = "read" => Walking'
  PROVE  BuildInv'
<1>1. Shapes' /\ ScanIsOfPaths' /\ LoadIsOfScan' /\ CommitIsLast'
  BY DEF BuildInv, Shapes, ScanIsOfPaths, LoadIsOfScan, CommitIsLast, RowIsOpen
<1>2. RowsAreOfTheirFiles' /\ VectorsAreOfTheirDocs'
  BY DEF BuildInv, RowsAreOfTheirFiles, VectorsAreOfTheirDocs, Committed
<1> QED BY <1>1, <1>2 DEF BuildInv

\* A build starts with nothing found or loaded.
LEMMA StartKeepsBuildInv ==
  ASSUME BuildInv, NEW kind, Start(kind)
  PROVE  BuildInv'
<1>1. pc' = "stat" /\ job' = ScanOf(kind, FALSE) /\ UNCHANGED <<rows, current>>
  BY DEF Start, store
<1>2. /\ DOMAIN job' = DOMAIN NoJob /\ job'.body = <<>> /\ job'.parsed = <<>>
      /\ DOMAIN job'.found \subseteq Paths /\ job'.at \in Nat \ {0}
  BY <1>1 DEF ScanOf, NoJob
<1> QED BY <1>1, <1>2, ScanKeepsBuildInv

\* What the scan adds for one file.
LEMMA FoundFacts ==
  ASSUME DOMAIN job = DOMAIN NoJob, NEW p, NEW c, NEW size, NEW mtime, job.at \in Nat \ {0}
  PROVE  /\ DOMAIN NextFile = DOMAIN NoJob
         /\ NextFile.body = job.body /\ NextFile.parsed = job.parsed
         /\ NextFile.found = job.found /\ NextFile.at \in Nat \ {0}
         /\ NextFile.kept = job.kept
         /\ DOMAIN Found(NextFile, p, c, size, mtime) = DOMAIN NoJob
         /\ Found(NextFile, p, c, size, mtime).body = job.body
         /\ Found(NextFile, p, c, size, mtime).parsed = job.parsed
         /\ DOMAIN Found(NextFile, p, c, size, mtime).found = DOMAIN job.found \cup {p}
         /\ Found(NextFile, p, c, size, mtime).at \in Nat \ {0}
<1>1. /\ DOMAIN NextFile = DOMAIN NoJob
      /\ NextFile.body = job.body /\ NextFile.parsed = job.parsed
      /\ NextFile.found = job.found /\ NextFile.at \in Nat \ {0}
      /\ NextFile.kept = job.kept
  BY Fields DEF NextFile
<1> HIDE DEF NextFile
<1>2. ASSUME NEW j, DOMAIN j = DOMAIN NoJob
      PROVE  /\ DOMAIN Found(j, p, c, size, mtime) = DOMAIN NoJob
             /\ Found(j, p, c, size, mtime).body = j.body
             /\ Found(j, p, c, size, mtime).parsed = j.parsed
             /\ Found(j, p, c, size, mtime).found
                  = Put(j.found, p, [c |-> c, size |-> size, m |-> mtime])
             /\ Found(j, p, c, size, mtime).at = j.at
  BY <1>2, Fields DEF Found
<1> DEFINE j == NextFile
           g == Found(j, p, c, size, mtime)
<1>3. /\ DOMAIN g = DOMAIN NoJob /\ g.body = j.body /\ g.parsed = j.parsed /\ g.at = j.at
      /\ g.found = Put(j.found, p, [c |-> c, size |-> size, m |-> mtime])
  BY <1>1, <1>2
<1>4. DOMAIN g.found = DOMAIN job.found \cup {p}
  <2>1. DOMAIN Put(job.found, p, [c |-> c, size |-> size, m |-> mtime]) = DOMAIN job.found \cup {p}
    BY DEF Put
  <2>2. g.found = Put(job.found, p, [c |-> c, size |-> size, m |-> mtime])
    BY <1>1, <1>3
  <2> HIDE DEF g
  <2> QED BY <2>1, <2>2
<1> QED BY <1>1, <1>3, <1>4

\* The path the walk is at is one of the repository.
LEMMA WalkIsOfPaths ==
  ASSUME job.at \in Nat \ {0}, Walking PROVE PathOrder[job.at] \in Paths
BY BuildAssumption DEF Walking, Paths, ToSet

\* Looking at a file's size and time keeps the invariant,
LEMMA ScanStatKeepsBuildInv == ASSUME BuildInv, ScanStat PROVE BuildInv'
<1> DEFINE p == PathOrder[job.at]
           f == tree[p]
<1>1. /\ pc = "stat" /\ DOMAIN job = DOMAIN NoJob /\ job.body = <<>> /\ job.parsed = <<>>
      /\ DOMAIN job.found \subseteq Paths /\ UNCHANGED <<rows, current>>
      /\ job.at \in Nat \ {0} /\ Walking
  BY DEF ScanStat, BuildInv, Shapes, ScanIsOfPaths, store
<1>2. current \subseteq Committed
  BY DEF BuildInv, Shapes, CommitIsLast, Committed
<1>3. p \in Paths
  BY <1>1, WalkIsOfPaths
<1>4. CASE Return
  BY <1>1, <1>2, <1>4, ReturnKeepsBuildInv
<1>5. CASE job' = NextFile /\ pc' = pc
  BY <1>1, <1>5, FoundFacts, ScanKeepsBuildInv
<1>6. CASE job' = [job EXCEPT !.stat = <<Size(f.c), f.m>>] /\ pc' = "read"
  <2>1. /\ DOMAIN job' = DOMAIN NoJob /\ job'.body = <<>> /\ job'.parsed = <<>>
        /\ job'.found = job.found /\ job'.at = job.at
    BY <1>1, <1>6, Fields
  <2> QED BY <1>1, <1>6, <2>1, ScanKeepsBuildInv DEF Walking
<1>7. ASSUME NEW c, job' = Found(NextFile, p, c, Size(f.c), f.m), pc' = pc PROVE BuildInv'
  <2>1. /\ DOMAIN job' = DOMAIN NoJob /\ job'.body = <<>> /\ job'.parsed = <<>>
        /\ DOMAIN job'.found = DOMAIN job.found \cup {p} /\ job'.at \in Nat \ {0}
    BY <1>1, <1>7, FoundFacts
  <2> QED BY <1>1, <1>3, <1>7, <2>1, ScanKeepsBuildInv
<1> QED BY <1>4, <1>5, <1>6, <1>7 DEF ScanStat

\* reading it too,
LEMMA ScanReadKeepsBuildInv == ASSUME BuildInv, ScanRead PROVE BuildInv'
<1> DEFINE p == PathOrder[job.at]
           c == tree[p].c
           j == Found(NextFile, p, c, job.stat[1], job.stat[2])
<1>1. /\ pc = "read" /\ DOMAIN job = DOMAIN NoJob /\ job.body = <<>> /\ job.parsed = <<>>
      /\ DOMAIN job.found \subseteq Paths /\ UNCHANGED <<rows, current>>
      /\ job.at \in Nat \ {0} /\ Walking
  BY DEF ScanRead, BuildInv, Shapes, ScanIsOfPaths, store
<1>2. current \subseteq Committed
  BY DEF BuildInv, Shapes, CommitIsLast, Committed
<1>3. p \in Paths
  BY <1>1, WalkIsOfPaths
<1>4. CASE Return
  BY <1>1, <1>2, <1>4, ReturnKeepsBuildInv
<1>5. CASE job' = NextFile /\ pc' = "stat"
  BY <1>1, <1>5, FoundFacts, ScanKeepsBuildInv
<1>6. CASE job' = [j EXCEPT !.kept = @ \cup {p}] /\ pc' = "stat"
  <2>1. /\ DOMAIN j = DOMAIN NoJob /\ j.body = <<>> /\ j.parsed = <<>>
        /\ DOMAIN j.found = DOMAIN job.found \cup {p} /\ j.at \in Nat \ {0}
    BY <1>1, FoundFacts
  <2> HIDE DEF j
  <2>2. /\ DOMAIN job' = DOMAIN NoJob /\ job'.body = <<>> /\ job'.parsed = <<>>
        /\ job'.found = j.found /\ job'.at \in Nat \ {0}
    BY <1>6, <2>1, Fields
  <2> QED BY <1>1, <1>3, <1>6, <2>1, <2>2, ScanKeepsBuildInv
<1> QED BY <1>4, <1>5, <1>6 DEF ScanRead

\* and so does the end of the scan.
LEMMA FinishScanKeepsBuildInv == ASSUME BuildInv, FinishScan PROVE BuildInv'
<1>1. /\ pc = "stat" /\ DOMAIN job = DOMAIN NoJob /\ job.body = <<>> /\ job.parsed = <<>>
      /\ DOMAIN job.found \subseteq Paths /\ UNCHANGED rows /\ job.at \in Nat \ {0}
  BY DEF FinishScan, BuildInv, Shapes, ScanIsOfPaths
<1>2. current \subseteq Committed
  BY DEF BuildInv, Shapes, CommitIsLast, Committed
<1>3. CASE pc' = "begin" /\ job' = job /\ UNCHANGED current
  BY <1>1, <1>3, ScanKeepsBuildInv
<1>4. CASE job' = ScanOf("full", TRUE) /\ pc' = pc /\ UNCHANGED current
  <2>1. /\ DOMAIN job' = DOMAIN NoJob /\ job'.body = <<>> /\ job'.parsed = <<>>
        /\ DOMAIN job'.found \subseteq Paths /\ job'.at \in Nat \ {0}
    BY <1>4 DEF ScanOf, NoJob
  <2> QED BY <1>1, <1>4, <2>1, ScanKeepsBuildInv
<1>5. CASE Complete(JobId) /\ current' = {JobId} /\ Return
  BY <1>1, <1>5, ReturnKeepsBuildInv DEF Complete, Committed
<1>6. CASE Return /\ UNCHANGED current
  BY <1>1, <1>2, <1>6, ReturnKeepsBuildInv
<1> QED BY <1>3, <1>4, <1>5, <1>6 DEF FinishScan

\* The replaced row is empty, and no longer served.
LEMMA BeginKeepsBuildInv == ASSUME BuildInv, Begin PROVE BuildInv'
<1>1. /\ pc = "begin" /\ DOMAIN job = DOMAIN NoJob /\ job.body = <<>> /\ job.parsed = <<>>
      /\ DOMAIN job.found \subseteq Paths /\ pc' = "load"
      /\ rows' = Put(rows, JobId, EmptyRow) /\ current' = current \ {JobId}
  BY DEF Begin, BuildInv, Shapes, ScanIsOfPaths
<1>2. /\ DOMAIN job' = DOMAIN NoJob /\ job'.body = <<>> /\ job'.parsed = <<>> /\ job'.at = 1
      /\ job'.found = job.found /\ job'.kind = job.kind /\ job'.base = job.base
  BY <1>1, Fields DEF Begin
<1>3. JobId' = JobId
  BY <1>2 DEF JobId, Scanned, snapshot_id
<1>4. /\ DOMAIN rows' = DOMAIN rows \cup {JobId} /\ rows'[JobId] = EmptyRow
      /\ \A s \in DOMAIN rows : s # JobId => rows'[s] = rows[s]
  BY <1>1 DEF Put
<1>5. ~EmptyRow.complete /\ EmptyRow.dense = "Building"
  BY DEF EmptyRow
<1>6. Shapes' /\ ScanIsOfPaths'
  BY <1>1, <1>2, <1>4 DEF BuildInv, Shapes, ScanIsOfPaths
<1>7. LoadIsOfScan'
  BY <1>1, <1>2 DEF LoadIsOfScan
<1>8. CommitIsLast'
  BY <1>1, <1>3, <1>4, <1>5 DEF BuildInv, Shapes, CommitIsLast, RowIsOpen
<1>9. RowsAreOfTheirFiles'
  BY <1>4, <1>5 DEF BuildInv, RowsAreOfTheirFiles, Committed
<1>10. VectorsAreOfTheirDocs'
  BY <1>4, <1>5 DEF BuildInv, VectorsAreOfTheirDocs
<1> QED BY <1>6, <1>7, <1>8, <1>9, <1>10 DEF BuildInv

\* What is loaded for a file is the content the scan saw, and its analysis
\* is the parse of that content, wherever both come from.
LEMMA LoadedFacts ==
  ASSUME BuildInv, NEW p, NEW c \in bytes(p), NEW a \in parse_with_cache(p, c)
  PROVE  c = job.found[p].c /\ a = parse(p, job.found[p].c)
<1>1. c = job.found[p].c
  BY DEF bytes
<1>2. ASSUME NEW s \in current, p \in DOMAIN s.files, s.files[p] = c
      PROVE  rows[s].parsed[p] = parse(p, c)
  BY <1>2 DEF BuildInv, Shapes, CommitIsLast, RowsAreOfTheirFiles, Committed
<1>3. ASSUME NEW b \in cached_analysis_digest(p, c) PROVE b = parse(p, c)
  <2>1. PICK s \in current : b \in IF p \in DOMAIN s.files /\ s.files[p] = c
                                      /\ p \in DOMAIN rows[s].parsed
                                   THEN {rows[s].parsed[p]} ELSE {}
    BY <1>3 DEF cached_analysis_digest
  <2> QED BY <1>2, <2>1
<1>4. a = parse(p, c)
  BY <1>3 DEF parse_with_cache
<1> QED BY <1>1, <1>4

\* A file that is loaded has the scanned content and the analysis of it,
\* whether it is parsed or copied from the base.
LEMMA LoadFileKeepsBuildInv == ASSUME BuildInv, LoadFile PROVE BuildInv'
<1>1. /\ pc = "load" /\ DOMAIN job = DOMAIN NoJob /\ UNCHANGED <<rows, current>>
      /\ job.at \in Nat \ {0} /\ DOMAIN job.found \subseteq Paths
  BY DEF LoadFile, BuildInv, Shapes, ScanIsOfPaths, store
<1>2. current \subseteq Committed
  BY DEF BuildInv, Shapes, CommitIsLast, Committed
<1>3. PICK n \in Pending(job.at) :
        /\ \A m \in Pending(job.at) : n <= m
        /\ \/ Return
           \/ \E c \in bytes(PathOrder[n]) : \E a \in parse_with_cache(PathOrder[n], c) :
                 /\ job' = [job EXCEPT !.at = n + 1, !.body = Put(@, PathOrder[n], c),
                                       !.parsed = Put(@, PathOrder[n], a)]
                 /\ pc' = pc
  BY DEF LoadFile
<1>4. CASE Return
  BY <1>1, <1>2, <1>4, ReturnKeepsBuildInv
<1> DEFINE p == PathOrder[n]
<1>5. ASSUME NEW c \in bytes(p), NEW a \in parse_with_cache(p, c), pc' = pc,
             job' = [job EXCEPT !.at = n + 1, !.body = Put(@, p, c), !.parsed = Put(@, p, a)]
      PROVE  BuildInv'
  <2>1. /\ DOMAIN job' = DOMAIN NoJob /\ job'.at = n + 1 /\ job'.found = job.found
        /\ job'.kind = job.kind /\ job'.base = job.base
        /\ job'.body = Put(job.body, p, c) /\ job'.parsed = Put(job.parsed, p, a)
    BY <1>1, <1>5, Fields
  <2>2. JobId' = JobId
    BY <2>1 DEF JobId, Scanned, snapshot_id
  <2>3. n \in Nat /\ n >= 1 /\ p \in DOMAIN job.found
        /\ \A m \in 1..Len(PathOrder) :
              job.at <= m /\ m < n => PathOrder[m] \notin DOMAIN job.found
    <3>1. Len(PathOrder) \in Nat
      BY BuildAssumption
    <3>2. n \in job.at..Len(PathOrder) /\ PathOrder[n] \in DOMAIN job.found
      BY DEF Pending
    <3>3. ASSUME NEW m \in 1..Len(PathOrder), job.at <= m, m < n, PathOrder[m] \in DOMAIN job.found
          PROVE  FALSE
      <4>1. m \in Pending(job.at)
        BY <1>1, <3>1, <3>3 DEF Pending
      <4>2. \A k \in Pending(job.at) : n <= k
        BY <1>3
      <4> QED BY <1>1, <3>1, <3>2, <3>3, <4>1, <4>2
    <3> QED BY <1>1, <3>1, <3>2, <3>3
  <2>4. c = job.found[p].c /\ a = parse(p, job.found[p].c)
    BY LoadedFacts
  <2>5. /\ job.body = [q \in DOMAIN job.body |-> job.found[q].c]
        /\ DOMAIN job.body \subseteq DOMAIN job.found
        /\ DOMAIN job.parsed = DOMAIN job.body
        /\ \A q \in DOMAIN job.body : job.parsed[q] = parse(q, job.found[q].c)
        /\ \A m \in 1..Len(PathOrder) : m < job.at /\ PathOrder[m] \in DOMAIN job.found
              => PathOrder[m] \in DOMAIN job.body
    BY <1>1 DEF BuildInv, LoadIsOfScan
  <2> HIDE DEF p
  <2>6. LoadIsOfScan'
    <3>1. /\ DOMAIN job'.body = DOMAIN job.body \cup {p} /\ job'.body[p] = c
          /\ \A q \in DOMAIN job.body : q # p => job'.body[q] = job.found[q].c
      BY <2>1, <2>5 DEF Put
    <3>2. /\ DOMAIN job'.parsed = DOMAIN job.body \cup {p}
          /\ \A q \in DOMAIN job.body \cup {p} : job'.parsed[q] = parse(q, job.found[q].c)
      BY <2>1, <2>4, <2>5 DEF Put
    <3>3. job'.body = [q \in DOMAIN job'.body |-> job'.found[q].c]
      BY <2>1, <2>4, <2>5 DEF Put
    <3>4. DOMAIN job'.body \subseteq DOMAIN job'.found
      BY <2>1, <2>3, <2>5, <3>1
    <3>5. ASSUME NEW m \in 1..Len(PathOrder), m < job'.at, PathOrder[m] \in DOMAIN job'.found
          PROVE  PathOrder[m] \in DOMAIN job'.body
      BY <1>1, <2>1, <2>3, <2>5, <3>1, <3>5 DEF p
    <3> QED BY <1>1, <1>5, <2>1, <3>1, <3>2, <3>3, <3>4, <3>5 DEF LoadIsOfScan
  <2>7. Shapes' /\ ScanIsOfPaths' /\ CommitIsLast'
    BY <1>1, <1>5, <2>1, <2>2, <2>3 DEF BuildInv, Shapes, ScanIsOfPaths, CommitIsLast, RowIsOpen
  <2>8. RowsAreOfTheirFiles' /\ VectorsAreOfTheirDocs'
    BY <1>1 DEF BuildInv, RowsAreOfTheirFiles, VectorsAreOfTheirDocs, Committed
  <2> QED BY <2>6, <2>7, <2>8 DEF BuildInv
<1> QED BY <1>3, <1>4, <1>5

\* Every scanned file is loaded when none is pending.
LEMMA DeriveKeepsBuildInv == ASSUME BuildInv, Derive PROVE BuildInv'
<1>1. /\ pc = "load" /\ pc' = "history" /\ Pending(job.at) = {} /\ DOMAIN job = DOMAIN NoJob
      /\ UNCHANGED <<rows, current>> /\ job.at \in Nat \ {0} /\ DOMAIN job.found \subseteq Paths
  BY DEF Derive, BuildInv, Shapes, ScanIsOfPaths, store
<1>2. PICK r : job' = [job EXCEPT !.records = r]
  BY Zenon DEF Derive
<1>3. /\ DOMAIN job' = DOMAIN NoJob /\ job'.at = job.at /\ job'.found = job.found
      /\ job'.kind = job.kind /\ job'.base = job.base
      /\ job'.body = job.body /\ job'.parsed = job.parsed
  BY <1>1, <1>2, Fields
<1>4. JobId' = JobId
  BY <1>3 DEF JobId, Scanned, snapshot_id
<1>5. DOMAIN job.body = DOMAIN job.found
  <2>1. /\ DOMAIN job.body \subseteq DOMAIN job.found
        /\ \A m \in 1..Len(PathOrder) : m < job.at /\ PathOrder[m] \in DOMAIN job.found
              => PathOrder[m] \in DOMAIN job.body
    BY <1>1 DEF BuildInv, LoadIsOfScan
  <2>2. ASSUME NEW p \in DOMAIN job.found PROVE p \in DOMAIN job.body
    <3>1. PICK n \in 1..Len(PathOrder) : p = PathOrder[n]
      BY <1>1, BuildAssumption DEF Paths, ToSet
    <3>2. Len(PathOrder) \in Nat
      BY BuildAssumption
    <3>3. n < job.at
      BY <1>1, <3>1, <3>2 DEF Pending
    <3> QED BY <2>1, <3>1, <3>3
  <2> QED BY <2>1, <2>2
<1>6. Shapes' /\ ScanIsOfPaths' /\ LoadIsOfScan' /\ CommitIsLast'
  BY <1>1, <1>3, <1>4, <1>5
     DEF BuildInv, Shapes, ScanIsOfPaths, LoadIsOfScan, CommitIsLast, RowIsOpen
<1>7. RowsAreOfTheirFiles' /\ VectorsAreOfTheirDocs'
  BY <1>1 DEF BuildInv, RowsAreOfTheirFiles, VectorsAreOfTheirDocs, Committed
<1> QED BY <1>6, <1>7 DEF BuildInv

\* Reading the history keeps the invariant,
LEMMA HistoryStepKeepsBuildInv == ASSUME BuildInv, HistoryStep PROVE BuildInv'
<1>1. /\ pc = "history" /\ pc' \in {"history", "providers", "commit"} /\ UNCHANGED <<rows, current>>
      /\ DOMAIN job = DOMAIN NoJob
  BY DEF HistoryStep, BuildInv, Shapes, store
<1>2. /\ DOMAIN job' = DOMAIN job /\ job'.at = 1 /\ job'.found = job.found
      /\ job'.kind = job.kind /\ job'.base = job.base
      /\ job'.body = job.body /\ job'.parsed = job.parsed
  BY <1>1, Fields DEF HistoryStep
<1>3. job'.at \in Nat \ {0}
  BY <1>2
<1> QED BY <1>1, <1>2, <1>3, WorkKeepsBuildInv

\* running a provider too,
LEMMA RunProviderKeepsBuildInv == ASSUME BuildInv, RunProvider PROVE BuildInv'
<1>1. /\ pc = "providers" /\ pc' = pc /\ UNCHANGED <<rows, current>>
      /\ DOMAIN job = DOMAIN NoJob /\ job.at \in Nat \ {0}
  BY DEF RunProvider, BuildInv, Shapes, ScanIsOfPaths, store
<1>2. \E v, r : Reported(v, r)
  BY Zenon DEF RunProvider
<1>3. /\ DOMAIN job' = DOMAIN job /\ job'.at = job.at + 1 /\ job'.found = job.found
      /\ job'.kind = job.kind /\ job'.base = job.base
      /\ job'.body = job.body /\ job'.parsed = job.parsed
  BY <1>1, <1>2, Fields DEF Reported
<1>4. job'.at \in Nat \ {0}
  BY <1>1, <1>3
<1> QED BY <1>1, <1>3, <1>4, WorkKeepsBuildInv

\* and ingesting what it wrote.
LEMMA IngestKeepsBuildInv == ASSUME BuildInv, Ingest PROVE BuildInv'
<1>1. /\ pc = "providers" /\ pc' \in {"history", "providers", "commit"} /\ UNCHANGED <<rows, current>>
      /\ DOMAIN job = DOMAIN NoJob /\ job.at \in Nat \ {0}
  BY DEF Ingest, BuildInv, Shapes, ScanIsOfPaths, store
<1>2. \/ \E n, v : job' = [job EXCEPT !.at = @ + 1, !.reports[n] = v]
      \/ \E n, v, incoming :
            job' = [job EXCEPT !.at = @ + 1, !.reports[n] = v,
                               !.records.relations = merge_relations(@, incoming)]
  BY Zenon DEF Ingest
<1>3. /\ DOMAIN job' = DOMAIN job /\ job'.at = job.at + 1 /\ job'.found = job.found
      /\ job'.kind = job.kind /\ job'.base = job.base
      /\ job'.body = job.body /\ job'.parsed = job.parsed
  <2>1. CASE \E n, v : job' = [job EXCEPT !.at = @ + 1, !.reports[n] = v]
    BY <1>1, <2>1, Fields
  <2>2. CASE \E n, v, incoming :
               job' = [job EXCEPT !.at = @ + 1, !.reports[n] = v,
                                  !.records.relations = merge_relations(@, incoming)]
    BY <1>1, <2>2, Fields
  <2> QED BY <1>2, <2>1, <2>2
<1>4. job'.at \in Nat \ {0}
  BY <1>1, <1>3
<1> QED BY <1>1, <1>3, <1>4, WorkKeepsBuildInv

\* The committed row is what was loaded, and its documents have unique ids.
LEMMA CommitKeepsBuildInv == ASSUME BuildInv, commit_snapshot PROVE BuildInv'
<1>1. /\ pc = "commit" /\ DOMAIN job = DOMAIN NoJob /\ job.at \in Nat \ {0}
      /\ DOMAIN job.found \subseteq Paths /\ JobId \in DOMAIN rows
      /\ DOMAIN rows[JobId] = DOMAIN EmptyRow
  BY DEF commit_snapshot, BuildInv, Shapes, ScanIsOfPaths, CommitIsLast, RowIsOpen
<1>2. current \subseteq Committed
  BY DEF BuildInv, Shapes, CommitIsLast, Committed
<1>3. CASE Return /\ UNCHANGED <<rows, current>>
  BY <1>2, <1>3, ReturnKeepsBuildInv
<1>4. CASE /\ UniqueKeys(job.records)
           /\ rows' = [rows EXCEPT ![JobId].complete = TRUE, ![JobId].body = job.body,
                                   ![JobId].parsed = job.parsed, ![JobId].records = job.records]
           /\ current' = IF job.kind = "full" THEN {JobId} ELSE current
           /\ job' = [job EXCEPT !.records = NoRecords] /\ pc' = "views"
  <2>1. /\ DOMAIN job' = DOMAIN NoJob /\ job'.at = job.at /\ job'.found = job.found
        /\ job'.kind = job.kind /\ job'.base = job.base
    BY <1>1, <1>4, Fields
  <2>2. JobId' = JobId
    BY <2>1 DEF JobId, Scanned, snapshot_id
  <2>3. /\ DOMAIN rows' = DOMAIN rows
        /\ \A s \in DOMAIN rows : s # JobId => rows'[s] = rows[s]
        /\ DOMAIN rows'[JobId] = DOMAIN EmptyRow
        /\ rows'[JobId].complete /\ rows'[JobId].body = job.body
        /\ rows'[JobId].parsed = job.parsed /\ rows'[JobId].records = job.records
        /\ rows'[JobId].dense = rows[JobId].dense
    BY <1>1, <1>4, Fields
  <2>4. rows[JobId].dense = "Building"
    BY <1>1 DEF BuildInv, CommitIsLast, VectorsAreOfTheirDocs
  <2>5. /\ job.body = Scanned
        /\ \A p \in DOMAIN Scanned : job.parsed[p] = parse(p, Scanned[p])
        /\ JobId.files = Scanned
    BY <1>1 DEF BuildInv, LoadIsOfScan, Scanned, JobId, snapshot_id
  <2>6. Shapes' /\ ScanIsOfPaths' /\ LoadIsOfScan' /\ CommitIsLast'
    BY <1>1, <1>4, <2>1, <2>2, <2>3
       DEF BuildInv, Shapes, ScanIsOfPaths, LoadIsOfScan, CommitIsLast, RowIsOpen
  <2>7. RowsAreOfTheirFiles'
    <3>1. ASSUME NEW s \in DOMAIN rows', rows'[s].complete
          PROVE  /\ rows'[s].body = s.files
                 /\ \A p \in DOMAIN s.files : rows'[s].parsed[p] = parse(p, s.files[p])
                 /\ UniqueKeys(rows'[s].records)
      <4>1. CASE s = JobId BY <1>4, <2>3, <2>5, <4>1
      <4>2. CASE s # JobId BY <2>3, <3>1, <4>2 DEF BuildInv, RowsAreOfTheirFiles, Committed
      <4> QED BY <4>1, <4>2
    <3> QED BY <3>1 DEF RowsAreOfTheirFiles, Committed
  <2>8. VectorsAreOfTheirDocs'
    BY <2>3, <2>4 DEF BuildInv, VectorsAreOfTheirDocs
  <2> QED BY <2>6, <2>7, <2>8 DEF BuildInv
<1> QED BY <1>3, <1>4 DEF commit_snapshot

\* The states of the views are no part of what a snapshot is made of.
LEMMA SetStatesKeepsBuildInv == ASSUME BuildInv, SetStates PROVE BuildInv'
<1>1. /\ pc = "views" /\ pc' = "dense" /\ DOMAIN job = DOMAIN NoJob /\ job.at \in Nat \ {0}
      /\ DOMAIN job.found \subseteq Paths /\ JobId \in DOMAIN rows /\ UNCHANGED current
      /\ DOMAIN rows[JobId] = DOMAIN EmptyRow
  BY DEF SetStates, BuildInv, Shapes, ScanIsOfPaths, CommitIsLast, RowIsOpen
<1>2. PICK states : rows' = [rows EXCEPT ![JobId].states = states]
  BY Zenon DEF SetStates
<1>3. /\ DOMAIN job' = DOMAIN NoJob /\ job'.at = job.at /\ job'.found = job.found
      /\ job'.kind = job.kind /\ job'.base = job.base
  BY <1>1, Fields DEF SetStates
<1>4. JobId' = JobId
  BY <1>3 DEF JobId, Scanned, snapshot_id
<1>5. /\ DOMAIN rows' = DOMAIN rows
      /\ \A s \in DOMAIN rows : s # JobId => rows'[s] = rows[s]
      /\ DOMAIN rows'[JobId] = DOMAIN EmptyRow
      /\ rows'[JobId].complete = rows[JobId].complete /\ rows'[JobId].body = rows[JobId].body
      /\ rows'[JobId].parsed = rows[JobId].parsed /\ rows'[JobId].records = rows[JobId].records
      /\ rows'[JobId].dense = rows[JobId].dense /\ rows'[JobId].vectors = rows[JobId].vectors
  BY <1>1, <1>2, Fields
<1>6. Shapes' /\ ScanIsOfPaths' /\ LoadIsOfScan' /\ CommitIsLast'
  BY <1>1, <1>3, <1>4, <1>5
     DEF BuildInv, Shapes, ScanIsOfPaths, LoadIsOfScan, CommitIsLast, RowIsOpen
<1>7. RowsAreOfTheirFiles'
  BY <1>5 DEF BuildInv, RowsAreOfTheirFiles, Committed
<1>8. VectorsAreOfTheirDocs'
  BY <1>5 DEF BuildInv, VectorsAreOfTheirDocs
<1> QED BY <1>6, <1>7, <1>8 DEF BuildInv

\* A reused vector is the embedding of the text it is reused for.
LEMMA ReuseIsByText ==
  ASSUME BuildInv, NEW t \in DOMAIN dense_reuse_map
  PROVE  dense_reuse_map[t] = Embed(t)
<1>1. prior_dense_artifact # {}
  BY DEF dense_reuse_map
<1> DEFINE s == CHOOSE x \in prior_dense_artifact : TRUE
           docs == rows[s].records.docs
           i == CHOOSE k \in DOMAIN docs : docs[k].text = t
<1>2. s \in prior_dense_artifact
  BY <1>1
<1>3. s \in DOMAIN rows /\ rows[s].dense \in {"Ready", "Partial"}
  BY <1>2 DEF prior_dense_artifact, Complete
<1>4. \A k \in DOMAIN docs : rows[s].vectors[docs[k].id] = Embed(docs[k].text)
  BY <1>3 DEF BuildInv, VectorsAreOfTheirDocs
<1>5. /\ t \in {docs[k].text : k \in DOMAIN docs}
      /\ dense_reuse_map[t] = rows[s].vectors[docs[i].id]
  BY <1>1 DEF dense_reuse_map
<1>6. i \in DOMAIN docs /\ docs[i].text = t
  BY <1>5
<1> QED BY <1>4, <1>5, <1>6

\* The vectors a build stores are those of its documents.
LEMMA DenseIndexIsOfDocs ==
  ASSUME BuildInv, NEW docs, IsInjective([i \in DOMAIN docs |-> docs[i].id]),
         NEW i \in DOMAIN docs
  PROVE  DenseIndexOf(docs)[docs[i].id] = Embed(docs[i].text)
<1> DEFINE j == CHOOSE k \in DOMAIN docs : docs[k].id = docs[i].id
<1>1. j \in DOMAIN docs /\ docs[j].id = docs[i].id
  OBVIOUS
<1>2. j = i
  BY <1>1 DEF IsInjective
<1>3. DenseIndexOf(docs)[docs[i].id] = VectorOf(dense_reuse_map, docs[j])
  BY DEF DenseIndexOf
<1>4. VectorOf(dense_reuse_map, docs[i]) = Embed(docs[i].text)
  BY ReuseIsByText DEF VectorOf
<1> QED BY <1>2, <1>3, <1>4

\* A vector artifact is built of the documents of its own snapshot.
LEMMA BuildDenseKeepsBuildInv == ASSUME BuildInv, BuildDense PROVE BuildInv'
<1>1. /\ pc = "dense" /\ Return /\ UNCHANGED current
      /\ JobId \in DOMAIN rows /\ rows[JobId].complete
      /\ DOMAIN rows[JobId] = DOMAIN EmptyRow
  BY DEF BuildDense, BuildInv, Shapes, CommitIsLast, RowIsOpen
<1> DEFINE docs == rows[JobId].records.docs
<1>2. IsInjective([i \in DOMAIN docs |-> docs[i].id])
  BY <1>1 DEF BuildInv, RowsAreOfTheirFiles, Committed, UniqueKeys
<1>3. /\ DOMAIN rows' = DOMAIN rows
      /\ \A s \in DOMAIN rows : s # JobId => rows'[s] = rows[s]
      /\ DOMAIN rows'[JobId] = DOMAIN EmptyRow
      /\ rows'[JobId].complete = rows[JobId].complete /\ rows'[JobId].body = rows[JobId].body
      /\ rows'[JobId].parsed = rows[JobId].parsed /\ rows'[JobId].records = rows[JobId].records
      /\ rows'[JobId].dense \in {"Ready", "Failed", "Unavailable"}
      /\ rows'[JobId].dense = "Ready" => rows'[JobId].vectors = DenseIndexOf(docs)
  <2> HIDE DEF docs
  <2>1. \/ rows' = [rows EXCEPT ![JobId].dense = "Ready", ![JobId].vectors = DenseIndexOf(docs)]
        \/ rows' = [rows EXCEPT ![JobId].dense = "Failed"]
        \/ rows' = [rows EXCEPT ![JobId].dense = "Unavailable"]
    BY Zenon DEF BuildDense, docs
  <2>2. CASE rows' = [rows EXCEPT ![JobId].dense = "Ready",
                                  ![JobId].vectors = DenseIndexOf(docs)]
    BY <1>1, <2>2, Fields
  <2>3. CASE rows' = [rows EXCEPT ![JobId].dense = "Failed"]
    BY <1>1, <2>3, Fields
  <2>4. CASE rows' = [rows EXCEPT ![JobId].dense = "Unavailable"]
    BY <1>1, <2>4, Fields
  <2> QED BY <2>1, <2>2, <2>3, <2>4
<1>4. ASSUME rows'[JobId].dense = "Ready", NEW i \in DOMAIN docs
      PROVE  rows'[JobId].vectors[docs[i].id] = Embed(docs[i].text)
  BY <1>2, <1>3, <1>4, DenseIndexIsOfDocs
<1>5. pc' = "idle" /\ job' = NoJob
  BY <1>1 DEF Return
<1>6. Shapes' /\ CommitIsLast'
  BY <1>1, <1>3, <1>5 DEF BuildInv, Shapes, CommitIsLast, RowIsOpen
<1>7. ScanIsOfPaths' /\ LoadIsOfScan'
  BY <1>5 DEF ScanIsOfPaths, LoadIsOfScan, NoJob
<1>8. RowsAreOfTheirFiles'
  BY <1>3 DEF BuildInv, RowsAreOfTheirFiles, Committed
<1>9. VectorsAreOfTheirDocs'
  <2>1. ASSUME NEW s \in DOMAIN rows, s # JobId
        PROVE  /\ rows'[s].dense \in {"Building", "Ready", "Failed", "Unavailable"}
               /\ rows'[s].dense # "Building" => rows'[s].complete
               /\ rows'[s].dense = "Ready" =>
                     \A i \in DOMAIN rows'[s].records.docs :
                        rows'[s].vectors[rows'[s].records.docs[i].id]
                          = Embed(rows'[s].records.docs[i].text)
    BY <1>3, <2>1 DEF BuildInv, VectorsAreOfTheirDocs
  <2>2. rows'[JobId].complete /\ rows'[JobId].records.docs = docs
    BY <1>1, <1>3
  <2>3. /\ rows'[JobId].dense \in {"Building", "Ready", "Failed", "Unavailable"}
        /\ rows'[JobId].dense = "Ready" =>
              \A i \in DOMAIN rows'[JobId].records.docs :
                 rows'[JobId].vectors[rows'[JobId].records.docs[i].id]
                   = Embed(rows'[JobId].records.docs[i].text)
    BY <1>3, <1>4, <2>2
  <2> QED BY <1>3, <2>1, <2>2, <2>3 DEF VectorsAreOfTheirDocs
<1> QED BY <1>6, <1>7, <1>8, <1>9 DEF BuildInv

(***************************************************************************)
(* The theorems.                                                           *)
(***************************************************************************)
\* The invariant is inductive.
LEMMA StepKeepsBuildInv == BuildInv /\ [Next]_vars => BuildInv'
<1> SUFFICES ASSUME BuildInv, [Next]_vars PROVE BuildInv'
  OBVIOUS
<1>1. ASSUME NEW p, NEW c, NEW tick, Edit(p, c, tick) PROVE BuildInv'
  BY <1>1, OutsideKeepsBuildInv DEF Edit, store
<1>2. CASE GitCommit
  BY <1>2, OutsideKeepsBuildInv DEF GitCommit, store
<1>3. ASSUME NEW kind, Start(kind) PROVE BuildInv'
  BY <1>3, StartKeepsBuildInv
<1>4. CASE Step
  BY <1>4, ScanStatKeepsBuildInv, ScanReadKeepsBuildInv, FinishScanKeepsBuildInv,
     BeginKeepsBuildInv, LoadFileKeepsBuildInv, DeriveKeepsBuildInv, HistoryStepKeepsBuildInv,
     RunProviderKeepsBuildInv, IngestKeepsBuildInv, CommitKeepsBuildInv, SetStatesKeepsBuildInv,
     BuildDenseKeepsBuildInv DEF Step
<1>5. CASE Crash
  <2>1. current \subseteq Committed
    BY DEF BuildInv, Shapes, CommitIsLast, Committed
  <2> QED BY <1>5, <2>1, ReturnKeepsBuildInv DEF Crash, store
<1>6. CASE UNCHANGED vars
  BY <1>6, OutsideKeepsBuildInv DEF vars
<1> QED BY <1>1, <1>2, <1>3, <1>4, <1>5, <1>6 DEF Next

\* The build invariant holds in every state: what engine.rs has scanned, loaded
\* and committed at each step of a build, full or incremental.
THEOREM BuildInvariant == Spec => []BuildInv
BY InitBuildInv, StepKeepsBuildInv, PTL DEF Spec

\* Whatever the tree, HEAD, the scan cache and the crashes did, every text
\* of a committed snapshot is the content its id names: the scan's bytes, or
\* a file read again whose hash still matched (ScannedFile::bytes).
THEOREM SnapshotsNameTheirContent == Spec => []SnapshotNamesItsContent
<1>1. BuildInv => SnapshotNamesItsContent
  BY DEF BuildInv, RowsAreOfTheirFiles, SnapshotNamesItsContent
<1> QED BY <1>1, BuildInvariant, PTL

\* An incremental build leaves what a build from nothing would: reuse of the
\* current snapshot's analyses and of the newest artifact's vectors never
\* changes an analysis or a vector (parse_with_cache, dense_reuse_map).
THEOREM IncrementalBuildsEqualFullOnes == Spec => []IncrementalEqualsFull
<1>1. BuildInv => IncrementalEqualsFull
  <2> SUFFICES ASSUME BuildInv, NEW s \in Committed PROVE FromNothing(s)
    BY DEF IncrementalEqualsFull
  <2>1. \A p \in DOMAIN s.files : rows[s].parsed[p] = parse(p, s.files[p])
    BY DEF BuildInv, RowsAreOfTheirFiles
  <2>2. ASSUME rows[s].dense = "Ready", NEW d \in ToSet(rows[s].records.docs)
        PROVE  rows[s].vectors[d.id] = Embed(d.text)
    BY <2>2 DEF BuildInv, VectorsAreOfTheirDocs, Committed, ToSet
  <2> QED BY <2>1, <2>2 DEF FromNothing
<1> QED BY <1>1, BuildInvariant, PTL
=============================================================================
