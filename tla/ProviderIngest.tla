-------------------------- MODULE ProviderIngest --------------------------
(***************************************************************************)
(* The external code-intelligence providers (providers.rs), how a SCIP     *)
(* index is mapped onto the entities of a build (scip.rs), and how its     *)
(* relations are merged into the pending records (engine.rs).              *)
(*                                                                         *)
(* An indexer reads the live tree: its index lists, for every file it saw, *)
(* the content it saw, and Content[c].scip is what it reports for it.      *)
(* Line and column pairs are byte offsets here.  `live' maps the paths     *)
(* that exist to their contents.                                           *)
(***************************************************************************)
EXTENDS Derivation

CONSTANTS
    Tools,        \* the indexers found on PATH
    MaxEvidence   \* MAX_EVIDENCE_PER_EDGE

ASSUME EvidenceAssumption == MaxEvidence \in Nat

ASSUME ScipAssumption ==
    \A c \in DOMAIN Content :
        /\ IsList(Content[c].scip.occs) /\ IsList(Content[c].scip.infos)
        /\ \A s \in ToSet(Content[c].scip.infos) : IsList(s.rels)

ScipIndex(ok, docs) == [ok |-> ok, docs |-> docs]
NoIndex == ScipIndex(FALSE, <<[path |-> NoPath, of |-> "none"]>>)
Truncated == ScipIndex(FALSE, <<>>)

-----------------------------------------------------------------------------
\* Detection.

Registry == <<"scip:file", "scip:rust-analyzer", "scip:typescript">>

TsConfig(dir) == Path(dir, <<"tsconfig">>, "json")

\* `foo/*' and `foo/**' list the subdirectories of foo; a pattern without
\* a star is one directory.
Globs(live) ==
    UNION {Content[live[p]].globs :
             p \in {Path(<<>>, <<"package">>, "json"),
                    Path(<<>>, <<"pnpm", "workspace">>, "yaml")} \cap DOMAIN live}
    \cup {[dir |-> <<d>>, star |-> TRUE] : d \in {"apps", "packages", "plugins", "libs"}}

workspace_project_dirs(live) ==
    {p.dir : p \in {q \in DOMAIN live :
        /\ q = TsConfig(q.dir)
        /\ \E g \in Globs(live) :
              IF g.star THEN q.dir # <<>> /\ Front(q.dir) = g.dir ELSE q.dir = g.dir}}

count_ts_sources(live, dir) ==
    Cardinality({p \in DOMAIN live :
        /\ p.ext \in {"ts", "tsx", "mts", "cts"}
        /\ IsPrefix(dir, p.dir)
        /\ ToSet(SubSeq(p.dir, Len(dir) + 1, Len(p.dir)))
              \cap {"node_modules", "dist", "build", "out", "coverage", "target"} = {}})

\* The directories the indexer may be run on: the root unless its tsconfig
\* names no inputs, else the workspace project with most sources.
TsProjects(live) ==
    LET root == TsConfig(<<>>) \in DOMAIN live
        dirs == workspace_project_dirs(live)
        Ahead(d, e) == LET m == count_ts_sources(live, d)
                           n == count_ts_sources(live, e)
                       IN  m > n \/ (m = n /\ Rank(TsConfig(d)) <= Rank(TsConfig(e)))
    IN  IF root /\ ~Content[live[TsConfig(<<>>)]].hollow THEN {<<>>}
        ELSE IF dirs # {} THEN {CHOOSE d \in dirs : \A e \in dirs : Ahead(d, e)}
        ELSE IF root THEN {<<>>} ELSE {}

select_ts_project(live) == CHOOSE d \in TsProjects(live) : TRUE

\* When a provider has something to index.
ScipFileApplies(stray) == stray # NoIndex
RustAnalyzerApplies(live) == Path(<<>>, <<"Cargo">>, "toml") \in DOMAIN live
ScipTypeScriptApplies(live) == TsProjects(live) # {}

detect(provider, live, stray) ==
    LET applies == CASE provider = "scip:file" -> ScipFileApplies(stray)
                     [] provider = "scip:rust-analyzer" -> RustAnalyzerApplies(live)
                     [] provider = "scip:typescript" -> ScipTypeScriptApplies(live)
    IN  IF ~applies THEN "NotApplicable"
        ELSE IF provider = "scip:file" \/ provider \in Tools THEN "Ready" ELSE "Missing"

-----------------------------------------------------------------------------
\* Execution.

\* What the indexer writes for the tree it sees.
IndexOf(provider, live) ==
    LET mine == Select(PathOrder, LAMBDA p :
                    /\ p \in DOMAIN live
                    /\ IF provider = "scip:rust-analyzer" THEN p.ext = "rs"
                       ELSE /\ p.ext \in {"ts", "tsx"}
                            /\ IsPrefix(select_ts_project(live), p.dir))
    IN  ScipIndex(TRUE, [i \in DOMAIN mine |-> [path |-> mine[i], of |-> live[mine[i]]]])

\* A command cannot be spawned, ends, or is killed at its deadline, with or
\* without a file.
run_command == {"unspawned", "wrote", "silent", "killed", "killed writing"}
TimedOut(end) == end \in {"killed", "killed writing"}
Written(end, full, before) ==
    CASE end = "wrote" -> full [] end = "killed writing" -> Truncated [] OTHER -> before

Report(state, index, work, stray) ==
    [state |-> state, index |-> index, work |-> work, stray |-> stray]

Failed(work, stray) == Report("Failed", NoIndex, work, stray)

\* The file is read and removed.
Finish(index, stray) ==
    IF index = NoIndex THEN Failed(NoIndex, stray) ELSE Report("Ready", index, NoIndex, stray)

\* In the next operators `work' is the file in the work directory, `stray'
\* the index.scip of the repository root, `full' the index of the tree,
\* `first' and `second' the ends of the command and of its retry.

\* The retry without --output: whatever index.scip is then at the root is
\* moved to the work directory.
Fallback(full, stray, second, late) ==
    LET moved == Written(second, full, stray)
    IN  IF second = "unspawned" THEN Failed(NoIndex, stray)
        ELSE IF late \/ TimedOut(second) THEN Failed(moved, NoIndex)
        ELSE Finish(moved, NoIndex)

rust_analyzer_run(full, work, stray, first, second) ==
    LET made == Written(first, full, work)
    IN  IF first = "unspawned" \/ TimedOut(first) THEN Failed(made, stray)
        ELSE IF made = NoIndex THEN Fallback(full, stray, second, FALSE)
        ELSE Finish(made, stray)

\* A command that timed out is retried before it is given up.
scip_typescript_run(full, work, stray, first, second) ==
    LET made == Written(first, full, work)
    IN  IF first = "unspawned" THEN Failed(made, stray)
        ELSE IF made = NoIndex THEN Fallback(full, stray, second, TimedOut(first))
        ELSE IF TimedOut(first) THEN Failed(made, stray)
        ELSE Finish(made, stray)

run(provider, full, work, stray, first, second) ==
    IF provider = "scip:rust-analyzer" THEN rust_analyzer_run(full, work, stray, first, second)
    ELSE scip_typescript_run(full, work, stray, first, second)

\* Whether the retry is made at all.
Retries(provider, work, first) ==
    /\ Written(first, Truncated, work) = NoIndex
    /\ first # "unspawned" /\ (provider = "scip:rust-analyzer" => ~TimedOut(first))

-----------------------------------------------------------------------------
\* Ingestion.

\* A local symbol is known inside its document only.
SymbolKey(s, p) == <<s.sym, IF s.local THEN p ELSE NoPath>>

\* The narrowest range that holds the offset; the file's own range is last.
enclosing_entity(x, p, at) ==
    LET units == x.parsed[p].units
        over == {i \in DOMAIN units : units[i].start <= at /\ at < units[i].end}
        Span(i) == units[i].end - units[i].start
        narrow == {i \in over : \A j \in over : Span(i) <= Span(j)}
    IN  IF over = {} THEN FileId(x, p) ELSE UnitEntity(p, units[Min(narrow)])

\* Whether the place of an occurrence exists in the text of this build.
byte_range(x, p, o) ==
    LET n == Len(Content[x.body[p]].text)
    IN  o.start < Max({n, 1}) /\ o.start <= o.end /\ o.end <= n

\* The occurrences that fall inside the text of this build.
DocumentSites(x, d) ==
    LET seen == IF d.path \notin FilesOf(x) THEN <<>>
                ELSE Select(Content[d.of].scip.occs, LAMBDA o : byte_range(x, d.path, o))
    IN  [i \in DOMAIN seen |->
            [key |-> SymbolKey(seen[i], d.path), def |-> seen[i].def,
             entity |-> enclosing_entity(x, d.path, seen[i].start),
             at |-> <<d.path, seen[i].start, seen[i].end>>]]
Sites(x, index) ==
    FlattenSeq([i \in DOMAIN index.docs |-> DocumentSites(x, index.docs[i])])

\* The first definition of a symbol wins.
Definitions(sites) ==
    [key \in {sites[i].key : i \in {j \in DOMAIN sites : sites[j].def}} |->
        sites[Min({i \in DOMAIN sites : sites[i].def /\ sites[i].key = key})]]

ScipEdge(src, dst, kind, evidence) == Relation(src, dst, kind, "Scip", 100, evidence)

\* Facts about symbols whose two ends have definitions.
FactsOfSymbol(defs, p, s) ==
    LET known == Select(s.rels, LAMBDA r : SymbolKey(r, p) \in DOMAIN defs /\ r.kind # "other")
    IN  [k \in DOMAIN known |->
            ScipEdge(defs[SymbolKey(s, p)].entity, defs[SymbolKey(known[k], p)].entity,
                     known[k].kind, <<defs[SymbolKey(s, p)].at>>)]
FactsOfDocument(defs, d) ==
    LET infos == Select(Content[d.of].scip.infos,
                           LAMBDA s : SymbolKey(s, d.path) \in DOMAIN defs)
    IN  FlattenSeq([i \in DOMAIN infos |-> FactsOfSymbol(defs, d.path, infos[i])])
SymbolFacts(index, defs) ==
    FlattenSeq([i \in DOMAIN index.docs |-> FactsOfDocument(defs, index.docs[i])])

\* The sites that refer to another entity, each with the pair it links.
Uses(sites, defs) ==
    LET other == Select(sites, LAMBDA s : /\ ~s.def /\ s.key \in DOMAIN defs
                                             /\ defs[s.key].entity # s.entity)
    IN  [i \in DOMAIN other |-> [src |-> other[i].entity, dst |-> defs[other[i].key].entity,
                                 at |-> other[i].at]]

\* One edge per pair, in the order of first sites, which are its evidence.
ReferenceEdges(uses) ==
    LET Same(u, v) == u.src = v.src /\ u.dst = v.dst
        firsts == Those(uses, {i \in DOMAIN uses : \A j \in 1..(i - 1) : ~Same(uses[j], uses[i])})
        Places(u) == LET all == Select(uses, LAMBDA v : Same(u, v))
                     IN  [k \in 1..Min({MaxEvidence, Len(all)}) |-> all[k].at]
    IN  [k \in DOMAIN firsts |->
            ScipEdge(firsts[k].src, firsts[k].dst, "references", Places(firsts[k]))]

\* Facts come before references.
ingest(index, defs, uses) == SymbolFacts(index, defs) \o ReferenceEdges(uses)

\* An edge whose id is pending takes the row's place, the last one if there
\* are several; new edges with one id become one row with all evidence.
merge_relations(existing, incoming) ==
    LET Ids(rels) == {relation_id(rels[i]) : i \in DOMAIN rels}
        LastIn(rels, id) == Max({i \in DOMAIN rels : relation_id(rels[i]) = id})
        fresh == Select(incoming, LAMBDA r : relation_id(r) \notin Ids(existing))
        Evidence(id) == LET same == Select(fresh, LAMBDA r : relation_id(r) = id)
                        IN  FlattenSeq([k \in DOMAIN same |-> same[k].evidence])
        added == Distinct(fresh)
    IN  [i \in DOMAIN existing |->
            LET id == relation_id(existing[i]) IN
            IF id \in Ids(incoming) /\ i = LastIn(existing, id)
            THEN incoming[LastIn(incoming, id)] ELSE existing[i]]
        \o [k \in DOMAIN added |-> [added[k] EXCEPT !.evidence = Evidence(relation_id(added[k]))]]

-----------------------------------------------------------------------------
\* View states.

\* An index that does not parse is a failed provider.
IngestedState(r) == IF r.state = "Ready" /\ ~r.index.ok THEN "Failed" ELSE r.state

graph_state(states) ==
    IF states \subseteq {"NotApplicable"} THEN "Partial"
    ELSE IF states \cap {"Missing", "Failed"} = {} THEN "Ready" ELSE "Partial"

graph_view_status(reports) ==
    graph_state({reports[i].state : i \in DOMAIN reports})

dataflow_view_status(reports) ==
    IF \E i \in DOMAIN reports : reports[i].edges > 0 THEN "Partial" ELSE "Unavailable"

\* Coverage of the files a grammar exists for, in percent.
symbols_view_status(x) ==
    LET able == {p \in FilesOf(x) : supports(language_for_path(p))}
        done == {p \in able : x.parsed[p].parsed}
    IN  IF 100 * Cardinality(done) >= 99 * Cardinality(able) THEN "Ready" ELSE "Partial"
=============================================================================
