---------------------------- MODULE Derivation ----------------------------
(***************************************************************************)
(* What index_inner derives from all files of a scan together: imports,    *)
(* calls, type references, test links and co-change (relations.rs), the    *)
(* packages (packages.rs), the routes (landmarks.rs), the knowledge pages  *)
(* (engine.rs) and the commit records (history.rs).                        *)
(*                                                                         *)
(* The operators take the build's view of the tree:                        *)
(*   x.files   the scanned paths in path order                             *)
(*   x.body    path -> content                                             *)
(*   x.parsed  path -> the file's analysis                                 *)
(*   x.names   every unit as a resolution candidate, in file order         *)
(***************************************************************************)
EXTENDS FileAnalysis

CONSTANTS
    PathOrder,      \* all paths, in the order of their spelling
    NameOrder,      \* all package names, in the order of their spelling
    History,        \* revision -> its commits, newest first: [id, touched, root]
    Sensitive,      \* paths with a sensitive name
    BuiltIn,        \* paths of generated and lock files
    MaxPatched,     \* MAX_PATCHED_FILES_PER_COMMIT
    MaxCoCommits,   \* MAX_COMMITS of changed_with_relations
    MaxCoFiles,     \* MAX_FILES_PER_COMMIT
    MaxPartners,    \* MAX_PARTNERS
    AfterTest,      \* word that starts with "test" -> the rest of it
    ShortNames      \* names of less than three bytes

ASSUME CoChangeAssumption ==
    /\ MaxCoCommits \in Nat /\ MaxCoFiles \in Nat
    /\ MaxPartners \in Nat /\ MaxPatched \in Nat

ASSUME HistoryAssumption == \A r \in DOMAIN History : IsList(History[r])

\* The names of all packages are ordered.
ASSUME NameAssumption ==
    /\ IsList(NameOrder)
    /\ \A c \in DOMAIN Content : Content[c].manifest.name \in ToSet(NameOrder) \cup {<<>>}

Rank(p) == CHOOSE i \in DOMAIN PathOrder : PathOrder[i] = p
FilesOf(x) == ToSet(x.files)
FileId(x, p) == FileEntity(p, x.body[p])

Relation(src, dst, kind, origin, confidence, evidence) ==
    [src |-> src, dst |-> dst, kind |-> kind, origin |-> origin,
     confidence |-> confidence, evidence |-> evidence]
relation_id(r) == <<r.src, r.dst, r.kind>>

\* The candidate a resolver finds no definition for.
NoCandidate == [name |-> <<>>, id |-> Repository, path |-> NoPath, kind |-> "none"]

CandidatesOf(files, parsed) ==
    FlattenSeq([i \in DOMAIN files |->
        LET p == files[i] IN
        [k \in DOMAIN parsed[p].units |->
            LET u == parsed[p].units[k] IN
            [name |-> u.name, id |-> UnitEntity(p, u), path |-> p, kind |-> u.kind]]])

View(files, body, parsed) ==
    [files |-> files, body |-> body, parsed |-> parsed, names |-> CandidatesOf(files, parsed)]

\* The first element that satisfies the first condition any element does.
FirstThat(s, Tests) ==
    LET met == {k \in DOMAIN Tests : \E i \in DOMAIN s : Tests[k][i]}
    IN  IF met = {} THEN NoCandidate
        ELSE s[Min({i \in DOMAIN s : Tests[Min(met)][i]})]

\* The first relation with each id.
Distinct(rels) ==
    Those(rels, {i \in DOMAIN rels :
                   \A j \in 1..(i - 1) : relation_id(rels[j]) # relation_id(rels[i])})

\* The relations of every file, in file order.
PerFile(x, Of(_)) == FlattenSeq([i \in DOMAIN x.files |-> Of(x.files[i])])

-----------------------------------------------------------------------------
\* Imports.

rust_module_dir(p) ==
    IF p.ext = "rs" /\ p.dir # <<>> /\ p.stem \in {<<"mod">>, <<"lib">>, <<"main">>}
    THEN p.dir ELSE p.dir \o p.stem

parent_dir(dir) == IF dir = <<>> THEN <<>> ELSE Front(dir)

\* "/src/" is looked for before a leading "src/".
crate_source_root(p) ==
    LET inner == {i \in 2..Len(p.dir) : p.dir[i] = "src"}
    IN  IF inner # {} THEN SubSeq(p.dir, 1, Min(inner))
        ELSE IF p.dir # <<>> /\ p.dir[1] = "src" THEN <<"src">> ELSE p.dir

\* The module file a name may live in; an empty anchor spells "/name.rs".
ModuleFiles(anchor, segments) ==
    IF anchor = <<>> THEN <<>>
    ELSE <<Path(anchor \o Front(segments), <<Last(segments)>>, "rs"),
           Path(anchor \o segments, <<"mod">>, "rs")>>

FirstFile(x, candidates) ==
    LET there == Select(candidates, LAMBDA p : p \in FilesOf(x))
    IN  IF there = <<>> THEN NoPath ELSE there[1]

\* `mod name;' names a file; the longest prefix of a `use' path that is one.
resolve_rust_module(x, p, spec) ==
    LET anchor == CASE spec.form = "mod" -> rust_module_dir(p)
                    [] spec.form = "crate" -> crate_source_root(p)
                    [] spec.form = "self" -> rust_module_dir(p)
                    [] spec.form = "super" -> parent_dir(rust_module_dir(p))
        n == Len(spec.segs)
        shrunk == FlattenSeq([k \in 1..n |-> ModuleFiles(anchor, SubSeq(spec.segs, 1, n + 1 - k))])
    IN  FirstFile(x, shrunk)

\* A leading dot of a Python module counts as one directory up, and a
\* dotted tail never spells a path.
resolve_relative_import(x, p, spec) ==
    LET python == spec.form = "dots"
        up == spec.up
        base == SubSeq(p.dir, 1, Len(p.dir) - up)
        full == base \o spec.segs
        Bases(ext) == IF full = <<>> THEN <<>> ELSE <<Path(Front(full), <<Last(full)>>, ext)>>
        Index(ext) == <<Path(full, <<"index">>, ext)>>
    IN  IF up > Len(p.dir) \/ (python /\ Len(spec.segs) > 1) THEN NoPath
        ELSE FirstFile(x, (IF spec.ext = "" THEN <<>> ELSE Bases(spec.ext))
                          \o (IF spec.ext # "" THEN <<>>
                              ELSE Bases("ts") \o Bases("tsx") \o Bases("js") \o Bases("jsx")
                                   \o Bases("py") \o Index("ts") \o Index("tsx") \o Index("js")))

SpecifierConfidence(spec) ==
    CASE spec.form = "mod" -> 95
      [] spec.form \in {"crate", "self", "super"} -> 80
      [] spec.form \in {"relative", "dots"} -> 85

ImportTarget(x, p, spec) ==
    IF language_for_path(p) = "rust" THEN resolve_rust_module(x, p, spec)
    ELSE resolve_relative_import(x, p, spec)

FileImports(x, p) ==
    LET found == Select(Content[x.body[p]].specifiers,
                           LAMBDA s : ImportTarget(x, p, s) # NoPath)
    IN  [i \in DOMAIN found |->
            Relation(FileId(x, p), FileId(x, ImportTarget(x, p, found[i])), "imports",
                     "FrameworkRule", SpecifierConfidence(found[i]), <<>>)]

import_relations(x) == PerFile(x, LAMBDA p : FileImports(x, p))

-----------------------------------------------------------------------------
\* Calls and type references: spellings resolved through the name index.

TypeKinds == {"Struct", "Class", "Interface", "Trait", "Enum", "Schema"}
CallableKinds == {"Function", "Method"}

Named(x, name) == Select(x.names, LAMBDA k : k.name = name)

\* A guess among several candidates is worth half.
resolved_confidence(base, candidates) == IF candidates > 1 THEN base \div 2 ELSE base

resolve_callee(x, name, p) ==
    LET named == Named(x, name)
    IN  FirstThat(named, <<[i \in DOMAIN named |-> named[i].path = p],
                           [i \in DOMAIN named |-> named[i].kind \in CallableKinds],
                           [i \in DOMAIN named |-> TRUE]>>)

NamedTypes(x, name) == Select(Named(x, name), LAMBDA k : k.kind \in TypeKinds)

resolve_type_reference(x, name, p) ==
    LET types == NamedTypes(x, name)
    IN  FirstThat(types, <<[i \in DOMAIN types |-> types[i].path = p],
                           [i \in DOMAIN types |-> TRUE]>>)

CallerId(x, p, call) ==
    IF call.caller = 0 THEN FileId(x, p) ELSE UnitEntity(p, x.parsed[p].units[call.caller])

FileCalls(x, p) ==
    LET Callee(k) == resolve_callee(x, k.name, p)
        edges == Select(x.parsed[p].calls,
                           LAMBDA k : Callee(k) # NoCandidate /\ Callee(k).id # CallerId(x, p, k))
    IN  Distinct([i \in DOMAIN edges |->
            Relation(CallerId(x, p, edges[i]), Callee(edges[i]).id, "calls", "TreeSitter",
                     resolved_confidence(60, Len(Named(x, edges[i].name))),
                     <<<<p, edges[i].start, edges[i].end>>>>)])

call_relations(x) == PerFile(x, LAMBDA p : FileCalls(x, p))

UnitReferences(x, p, u) ==
    LET Target(n) == resolve_type_reference(x, n, p)
        used == Select(u.types, LAMBDA n : /\ Target(n) # NoCandidate
                                              /\ Target(n).id # UnitEntity(p, u))
    IN  [i \in DOMAIN used |->
            Relation(UnitEntity(p, u), Target(used[i]).id, "references", "TreeSitter",
                     resolved_confidence(55, Len(NamedTypes(x, used[i]))),
                     <<<<p, u.start, u.end>>>>)]

FileReferences(x, p) ==
    LET units == x.parsed[p].units
    IN  Distinct(FlattenSeq([i \in DOMAIN units |-> UnitReferences(x, p, units[i])]))

type_reference_relations(x) == PerFile(x, LAMBDA p : FileReferences(x, p))

-----------------------------------------------------------------------------
\* Tests.

is_test_path(p) == ToSet(p.dir) \cap {"tests", "test", "__tests__", "spec"} # {}
basename(p) == <<p.stem, p.ext>>

\* by_basename keeps one path of every file name, whichever the iteration
\* of a hash map leaves last.
BasenamePicks(x) ==
    LET names == {basename(p) : p \in FilesOf(x)}
        kept == {w \in SUBSET FilesOf(x) : /\ Cardinality(w) = Cardinality(names)
                                          /\ {basename(p) : p \in w} = names}
    IN  {[b \in names |-> CHOOSE p \in w : basename(p) = b] : w \in kept}

\* The stem ends at the first dot, so the `.test' and `.spec' suffixes the
\* code also looks for are never part of it.
test_target_paths(p) ==
    (IF Len(p.stem) > 1 /\ Head(p.stem) = "test"
     THEN <<Path(p.dir, Tail(p.stem), "py"), Path(p.dir, Tail(p.stem), "rs")>> ELSE <<>>)
    \o (IF Len(p.stem) > 1 /\ Last(p.stem) = "test"
        THEN <<Path(p.dir, Front(p.stem), "go"), Path(p.dir, Front(p.stem), "rs")>> ELSE <<>>)

strip_test_affix(name) ==
    IF Len(name) > 1 /\ Head(name) = "test" THEN Tail(name)
    ELSE IF Len(name) > 1 /\ Last(name) = "test" THEN Front(name)
    ELSE IF Head(name) \in DOMAIN AfterTest THEN <<AfterTest[Head(name)]>> \o Tail(name)
    ELSE <<>>

\* The symbol a test names: the longest name, the same file first.
TestedBy(x, name, p) ==
    LET bare == strip_test_affix(name)
        Fits(n) == n = bare \/ (IsPrefix(n, bare) /\ n \notin ShortNames)
        fits == Select(x.names, LAMBDA k : bare # <<>> /\ Fits(k.name))
        long == Max({0} \cup {Len(fits[i].name) : i \in DOMAIN fits})
    IN  FirstThat(fits, <<[i \in DOMAIN fits |-> Len(fits[i].name) = long /\ fits[i].path = p],
                          [i \in DOMAIN fits |-> Len(fits[i].name) = long]>>)

TestLink(src, dst, confidence) ==
    Relation(src, dst, "tests", "FrameworkRule", confidence, <<>>)

\* By the file's name, by its twin in a source directory, by its units.
PairLinks(x, p) ==
    LET pairs == Select(test_target_paths(p), LAMBDA t : t \in FilesOf(x))
    IN  [i \in DOMAIN pairs |-> TestLink(FileId(x, p), FileId(x, pairs[i]), 70)]
TwinLinks(x, p, twin) ==
    IF is_test_path(p) /\ twin # p
    THEN <<TestLink(FileId(x, p), FileId(x, twin), 60)>> ELSE <<>>
UnitLinks(x, p) ==
    LET Tested(u) == TestedBy(x, u.name, p)
        units == Select(x.parsed[p].units, LAMBDA u : Tested(u) # NoCandidate)
    IN  [i \in DOMAIN units |->
            TestLink(UnitEntity(p, units[i]), Tested(units[i]).id,
                     IF strip_test_affix(units[i].name) = Tested(units[i]).name THEN 65 ELSE 55)]

test_relations(x, pick) ==
    Distinct(PerFile(x, LAMBDA p :
        PairLinks(x, p) \o TwinLinks(x, p, pick[basename(p)]) \o UnitLinks(x, p)))

-----------------------------------------------------------------------------
\* Co-change, from the walk made when the build began.

\* Files of the scan that the recent commits touched together; mass
\* commits are left out.
CoWindow(x, walk) ==
    LET recent == SubSeq(walk, 1, IF Len(walk) < MaxCoCommits THEN Len(walk) ELSE MaxCoCommits)
        known == [i \in DOMAIN recent |-> recent[i].touched \cap FilesOf(x)]
    IN  Select(known, LAMBDA s : Cardinality(s) <= MaxCoFiles)

\* How many commits of the window touch all of ps.
CoCount(window, ps) == Cardinality({i \in DOMAIN window : ps \subseteq window[i]})

\* The pairs either file keeps among its closest partners.
CoPairs(x, window) ==
    LET Count(ps) == CoCount(window, ps)
        pairs == {pr \in FilesOf(x) \X FilesOf(x) :
                     Rank(pr[1]) < Rank(pr[2]) /\ Count({pr[1], pr[2]}) > 0}
        Partners(p) == {q \in FilesOf(x) : <<p, q>> \in pairs \/ <<q, p>> \in pairs}
        Closer(p, q, r) ==
            \/ Count({p, q}) > Count({p, r})
            \/ Count({p, q}) = Count({p, r}) /\ Rank(q) < Rank(r)
        Keeps(p, q) == Cardinality({r \in Partners(p) : Closer(p, r, q)}) < MaxPartners
    IN  {pr \in pairs : Keeps(pr[1], pr[2]) \/ Keeps(pr[2], pr[1])}

\* One relation per pair.  Its source is the file with the smaller id, a
\* hash, for which the smaller path stands.
CoChange(x, window, p, q) ==
    LET share == (100 * CoCount(window, {p, q}))
                 \div Max({CoCount(window, {p}), CoCount(window, {q})})
    IN  Relation(FileId(x, p), FileId(x, q), "changed_with", "FrameworkRule",
                 Min({70, share}), <<>>)

FileCoChanges(x, window, pairs, p) ==
    LET own == Select(x.files, LAMBDA q : <<p, q>> \in pairs)
    IN  [i \in DOMAIN own |-> CoChange(x, window, p, own[i])]

changed_with_relations(x, walk) ==
    LET window == CoWindow(x, walk)
        pairs == CoPairs(x, window)
    IN  PerFile(x, LAMBDA p : FileCoChanges(x, window, pairs, p))

\* The ids of one build are distinct: a second relation with an id that is
\* already there is dropped.
DerivedRelations(x, pick, walk, contains) ==
    contains \o import_relations(x) \o call_relations(x) \o type_reference_relations(x)
    \o test_relations(x, pick) \o changed_with_relations(x, walk)
add_derived_relations(found) == Distinct(found)

-----------------------------------------------------------------------------
\* Packages.

IsManifest(p) == \/ p.stem = <<"Cargo">> /\ p.ext = "toml"
                 \/ p.stem = <<"package">> /\ p.ext = "json" /\ "node_modules" \notin ToSet(p.dir)

PackageEntity(g) == entity_id(g.path, 0, 0, <<"package">> \o g.name)

\* Every manifest that names a package, by name; a dependency listed in two
\* sections is listed twice.
extract(x) ==
    LET paths == Select(x.files, LAMBDA p : IsManifest(p) /\ Content[x.body[p]].manifest.name # <<>>)
        found == [i \in DOMAIN paths |->
                    [name |-> Content[x.body[paths[i]]].manifest.name, path |-> paths[i],
                     deps |-> Content[x.body[paths[i]]].manifest.deps, place |-> i]]
        Spelling(g) == CHOOSE i \in DOMAIN NameOrder : NameOrder[i] = g.name
        NameBefore(g, h) == \/ Spelling(g) < Spelling(h)
                            \/ g.name = h.name /\ g.place <= h.place
    IN  Sorted(found, NameBefore)

\* The most specific root; of two manifests in one directory the last.
OwnerOf(packages, p) ==
    LET over == {i \in DOMAIN packages : IsPrefix(packages[i].path.dir, p.dir)}
        deep == Max({0} \cup {Len(packages[i].path.dir) : i \in over})
    IN  Max({0} \cup {i \in over : Len(packages[i].path.dir) = deep})

\* The packages with a name; the last one counts.
Bearers(packages, name) == {i \in DOMAIN packages : packages[i].name = name}

DependencyLinks(packages, i) ==
    LET deps == Select(packages[i].deps, LAMBDA n : Bearers(packages, n) # {})
    IN  [k \in DOMAIN deps |->
            Relation(PackageEntity(packages[i]),
                     PackageEntity(packages[Max(Bearers(packages, deps[k]))]),
                     "build_depends_on", "BuildSystem", 100, <<>>)]
OwnershipLinks(x, packages, i) ==
    LET owned == Select(x.files, LAMBDA p : OwnerOf(packages, p) = i)
    IN  [k \in DOMAIN owned |->
            Relation(PackageEntity(packages[i]), FileId(x, owned[k]), "contains",
                     "BuildSystem", 100, <<>>)]

PackageRelations(x) ==
    LET packages == extract(x)
    IN  FlattenSeq([i \in DOMAIN packages |->
            DependencyLinks(packages, i) \o OwnershipLinks(x, packages, i)])

PackageEntities(x) == [i \in DOMAIN extract(x) |-> PackageEntity(extract(x)[i])]

-----------------------------------------------------------------------------
\* Routes.

axum_routes(x) ==
    PerFile(x, LAMBDA p :
        IF language_for_path(p) # "rust" THEN <<>>
        ELSE LET found == Content[x.body[p]].routes
             IN  [i \in DOMAIN found |-> [path |-> p, route |-> found[i]]])

RouteEntity(b) == entity_id(b.path, b.route.start, b.route.end, <<"route">> \o b.route.name)

resolve_handler(x, name, p) ==
    LET named == Named(x, name)
    IN  FirstThat(named,
            <<[i \in DOMAIN named |-> named[i].path = p /\ named[i].kind \in CallableKinds],
              [i \in DOMAIN named |-> named[i].kind \in CallableKinds],
              [i \in DOMAIN named |-> named[i].path = p],
              [i \in DOMAIN named |-> TRUE]>>)

RouteRelations(x, routes) ==
    LET Handler(b) == resolve_handler(x, b.route.handler, b.path)
        bound == Select(routes, LAMBDA b : /\ b.route.handler # <<>>
                                                      /\ Handler(b) # NoCandidate)
    IN  [i \in DOMAIN bound |->
            Relation(RouteEntity(bound[i]), Handler(bound[i]).id, "route_handled_by",
                     "FrameworkRule", 85,
                     <<<<bound[i].path, bound[i].route.start, bound[i].route.end>>>>)]

-----------------------------------------------------------------------------
\* The knowledge hierarchy: repository, areas, files.

knowledge_group(p) ==
    LET parts == p.dir
    IN  IF parts = <<>> THEN <<"(root)">>
        ELSE IF parts[1] \in {"crates", "apps"}
             THEN IF Len(parts) > 1 THEN SubSeq(parts, 1, 2) ELSE parts \o p.stem
             ELSE <<parts[1]>>

DirectoryEntity(group) == entity_id(Path(group, <<>>, ""), 0, 0, <<"directory">>)

\* Areas in the order of their spelling: the root, then the directories.
Groups(x) ==
    LET first == Select(x.files, LAMBDA p : \A q \in FilesOf(x) :
                    knowledge_group(q) = knowledge_group(p) => Rank(p) <= Rank(q))
        root == Select(first, LAMBDA p : p.dir = <<>>)
        sorted == root \o Select(first, LAMBDA p : p.dir # <<>>)
    IN  [i \in DOMAIN sorted |-> knowledge_group(sorted[i])]

Members(x, group) == Select(x.files, LAMBDA p : knowledge_group(p) = group)

\* The orientation page also names the snapshot, which is left out.
add_hierarchical_knowledge(x) ==
    LET groups == Groups(x)
        Holds(src, dst) == Relation(src, dst, "contains", "FrameworkRule", 100, <<>>)
        OfGroup(g) == LET held == Members(x, g) IN
            <<Holds(Repository, DirectoryEntity(g))>>
            \o [i \in DOMAIN held |-> Holds(DirectoryEntity(g), FileId(x, held[i]))]
        Page(g) == <<"area">> \o g \o FlattenSeq([i \in DOMAIN Members(x, g) |->
                                                     Spelled(Members(x, g)[i])])
    IN  [entities |-> [i \in DOMAIN groups |-> DirectoryEntity(groups[i])],
         relations |-> FlattenSeq([i \in DOMAIN groups |-> OfGroup(groups[i])]),
         docs |-> [i \in DOMAIN groups |->
                     Generated(DirectoryEntity(groups[i]), "knowledge_page", "KnowledgePage",
                               NoRegion, Page(groups[i]))]
                  \o <<Generated(Repository, "knowledge_page", "KnowledgePage", NoRegion,
                                 <<"orientation">> \o FlattenSeq(groups))>>]

-----------------------------------------------------------------------------
\* History: commits are diffed against their first parent, so the root has
\* a line in the summary and neither touched paths nor a diff.

changed_paths_per_commit(revision) ==
    Select(History[revision], LAMBDA k : ~k.root)

commit_diffs(revision) ==
    Select(History[revision], LAMBDA k : ~k.root /\ k.touched # {})

\* The body of a commit: its paths, then the changed lines of the first
\* MaxPatched of them that may be shown.  A sensitive path is not named.
build_commit_diff(k) ==
    LET named == Select(PathOrder, LAMBDA p : p \in k.touched \ Sensitive)
        shown == Select(named, LAMBDA p : p \notin BuiltIn)
        patched == SubSeq(shown, 1, Min({MaxPatched, Len(shown)}))
    IN  <<"commit", k.id>> \o FlattenSeq([i \in DOMAIN named |-> Spelled(named[i])])
        \o FlattenSeq([i \in DOMAIN patched |-> <<"lines of">> \o Spelled(patched[i])])

summarize(revision) ==
    <<"history">> \o [i \in DOMAIN History[revision] |-> History[revision][i].id]

CommitEntity(k) == entity_id(NoPath, 0, 0, <<"commit", k.id>>)

index_commit_diffs(diffs) ==
    [entities |-> [i \in DOMAIN diffs |-> CommitEntity(diffs[i])],
     docs |-> [i \in DOMAIN diffs |->
                 Generated(CommitEntity(diffs[i]), "commit_diff", "CommitDiff", NoRegion,
                           build_commit_diff(diffs[i]))]]

HistoryRecords(revision) ==
    LET found == index_commit_diffs(commit_diffs(revision))
    IN  [found EXCEPT !.docs = Append(@,
            Generated(Repository, "commit_summary", "CommitSummary", NoRegion,
                      summarize(revision)))]

-----------------------------------------------------------------------------
\* The records of the worktree part of a build, in the order they are made.

AllUnitRecords(x) ==
    [p \in FilesOf(x) |-> [i \in DOMAIN x.parsed[p].units |->
                             UnitRecords(p, x.body[p], x.parsed[p], i)]]
AllFileRecords(x, units) ==
    [i \in DOMAIN x.files |->
        LET p == x.files[i] IN FileRecords(p, x.body[p], x.parsed[p], units[p])]

\* `files' are the records of the files, `derived' the derived relations.
TreeRecords(x, files, derived, routes, knowledge) ==
    [regions |-> FlattenSeq([i \in DOMAIN files |-> files[i].regions]),
     entities |-> <<Repository>> \o FlattenSeq([i \in DOMAIN files |-> files[i].entities])
                  \o PackageEntities(x) \o [i \in DOMAIN routes |-> RouteEntity(routes[i])]
                  \o knowledge.entities,
     relations |-> derived \o PackageRelations(x) \o RouteRelations(x, routes)
                   \o knowledge.relations,
     docs |-> FlattenSeq([i \in DOMAIN files |-> files[i].docs]) \o knowledge.docs]
=============================================================================
