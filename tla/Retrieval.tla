----------------------------- MODULE Retrieval -----------------------------
(***************************************************************************)
(* One search (CceEngine::search): resolve the snapshot, plan, pass the    *)
(* evidence gates, run the planned routes into one candidate map, expand   *)
(* and propagate over the graph, select the hit list, rerank it, report.   *)
(* Each stage is an action, because the snapshot the search resolved may   *)
(* leave the retention window between any two of them.                     *)
(*                                                                         *)
(* Scores are integers in millionths: a route adds weight / (60 + rank).   *)
(* A candidate key stands for a document id and sorts like it: DocKey(d),  *)
(* DiffKey(d, p) for "diff:c:p", EntityKey(e) for "entity: e", EmittedKey  *)
(* for "entity:e" and SubjectKey for "subject:e".                          *)
(***************************************************************************)
EXTENDS GraphFlow

CONSTANTS
    Requests,         \* the requests a client may send
    Environments,     \* the configurations and faults a search may meet
    Manifests,        \* the view manifests a committed snapshot may have
    HeadSlots,        \* 5 in per_file_cap
    MidSlots,         \* 10 in per_file_cap
    RerankPool,       \* RERANK_POOL
    PrfFeedbackDocs,  \* PRF_FEEDBACK_DOCS
    PrfExpansionTerms,\* PRF_EXPANSION_TERMS
    Recency,          \* Recency[p]: the recency prior of a file, hundredths
    Source,           \* path -> [lang, matches]: the lines the template matches
    GrammarLangs,     \* languages with a tree-sitter grammar
    TemplateLangs,    \* those the pat: template parses in
    Patch,            \* Patch[d]: path -> words on the lines commit diff d changes
    Committed,        \* Committed[d]: the commit's time
    DenseOrder,       \* the documents of the vector index, nearest first
    Roots             \* Roots[e]: the directories under package e

VARIABLES
    request, env, manifest,
    live,         \* what is left of the resolved snapshot
    stage,        \* the next step of the search
    verified,     \* verified_fresh
    plan_,        \* the effective plan
    frame,        \* the claim and its distinguishing words
    notes,        \* missing_capabilities
    cands,        \* the candidate map
    expansion,    \* where graph expansion went
    flow,         \* the flow pass and the corroboration it established
    corroborated,
    queue,        \* files the pattern is not tried on, then candidates not judged
    hits,         \* the hit list
    verdict

searchVars == <<request, env, manifest, live, stage, verified, plan_, frame, notes,
                cands, expansion, flow, corroborated, queue, hits, verdict>>

DocKey(d) == <<0, d>>
DiffKey(d, p) == <<1, d, p>>
EntityKey(e) == <<2, e>>
EmittedKey(e) == <<3, e>>
SubjectKey(e) == <<4, e>>

Stages == {"resolve", "literal", "definition", "relation", "history", "exact",
           "lexical", "zoekt", "pattern", "scan", "knowledge", "recorded", "diff", "dense",
           "prf", "expand", "features", "flow", "hop1", "hop2", "readout", "emit", "strict", "rank", "select",
           "report", "done", "failed"}

TopicalRoutes == {"Lexical", "Zoekt", "Pattern", "DenseRaw", "DenseSummary",
                  "ExactSymbol", "Hybrid"}

NoExpansion == [entities |-> <<>>, regions |-> <<>>, paths |-> <<>>, max |-> 0]

(***************************************************************************)
(* Candidates.                                                             *)
(***************************************************************************)
\* weight in hundredths over 60 + rank, and a bonus in hundredths over 60.
Rrf(weight, rank) == (weight * 10000) \div (60 + rank)
Bonus(b) == (b * 10000) \div 60

FeedbackWords(words) == {w \in words : Class[w] \notin {"stop", "grammar", "cjk"}}

\* The hit of a document, and of an entity, as a route presents it.
DocHit(d, route) ==
    [entity |-> Doc[d].entity, region |-> Doc[d].region, path |-> Doc[d].path,
     span |-> Doc[d].span, rep |-> Doc[d].rep, evidence |-> Doc[d].evidence,
     route |-> route, routes |-> {route}, current |-> verified,
     terms |-> FeedbackWords(Doc[d].words \cup Ent[Doc[d].entity].parts)]

EntityHit(e, rep, route, evidence) ==
    [entity |-> e, region |-> Ent[e].region, path |-> Ent[e].path, span |-> Ent[e].span,
     rep |-> rep, evidence |-> evidence, route |-> route, routes |-> {route},
     current |-> verified, terms |-> FeedbackWords(Ent[e].parts)]

\* What a route has to say of a document or an entity.
Entry(key, hit, score, strict) ==
    [key |-> key, hit |-> hit, score |-> score, strict |-> strict]
Candidate(entry) == entry.hit @@ [score |-> entry.score, strict |-> entry.strict]

\* A candidate met again gains the score, the routes, the strict tier and
\* the longer snippet; everything else is the first route's.
add_candidate(cand, entry) ==
    [cand EXCEPT !.score = @ + entry.score, !.strict = @ \/ entry.strict,
                 !.routes = @ \cup entry.hit.routes,
                 !.terms = IF Cardinality(entry.hit.terms) > Cardinality(@)
                           THEN entry.hit.terms ELSE @]

\* The entries of a route join the map, those of one key in their order.
add_candidates(map, entries) ==
    LET own(k) == SelectSeq(entries, LAMBDA e : e.key = k)
    IN  [k \in DOMAIN map \cup {entries[i].key : i \in DOMAIN entries} |->
            IF k \in DOMAIN map THEN FoldLeft(add_candidate, map[k], own(k))
            ELSE FoldLeft(add_candidate, Candidate(own(k)[1]), Tail(own(k)))]

\* A ranked list of documents joins the map.
AddRanked(map, docs, route, weight, strict) ==
    add_candidates(map, [i \in DOMAIN docs |->
        Entry(DocKey(docs[i]), DocHit(docs[i], route), Rrf(weight, i), strict)])

\* Fused order: score, then corroboration strength, then seed origins, then
\* the document id.
NoRecord == [strength |-> 0, origins |-> 0, emitted |-> FALSE]
Standing(key, score, record) == <<score, record.strength, record.origins, key>>
Ahead(c, d) ==
    \/ \E i \in 1..3 : c[i] > d[i] /\ \A j \in 1..(i - 1) : c[j] = d[j]
    \/ SubSeq(c, 1, 3) = SubSeq(d, 1, 3) /\ LexBefore(c[4], d[4])
ranked_candidates(map) ==
    LET order == Ordered({Standing(k, map[k].score, NoRecord) : k \in DOMAIN map}, Ahead)
    IN  [i \in DOMAIN order |-> order[i][4]]

HeadOf(map, n) == Take(ranked_candidates(map), n)

\* Per-file cap by the number of hits already listed.
per_file_cap(filled) ==
    IF filled < HeadSlots THEN 1 ELSE IF filled < MidSlots THEN 2 ELSE 3

(***************************************************************************)
(* Resolution and gates.                                                   *)
(***************************************************************************)
Goto(next) == stage' = next
Fail == stage' = "failed"

SearchInit ==
    /\ request \in Requests /\ env \in Environments /\ manifest \in Manifests
    /\ live = {"fts", "rows", "objects"} /\ stage = "resolve" /\ verified = FALSE
    /\ plan_ = plan(<<>>, "none") /\ frame = claim_frame("Unknown", {})
    /\ notes = {} /\ cands = <<>> /\ expansion = NoExpansion /\ flow = NoFlow
    /\ corroborated = <<>> /\ queue = {} /\ hits = <<>>
    /\ verdict = [state |-> "None", reasons |-> {}, gaps |-> {}]

\* Without require_fresh the committed snapshot serves unverified; otherwise,
\* or when there is none, the call indexes and may fail.
ResolveIndex ==
    /\ stage = "resolve"
    /\ LET served == ~request.fresh /\ env.snapshot
           p == EffectivePlan(request)
       IN  \/ /\ served \/ env.index = "ok"
              /\ verified' = ~served
              /\ plan_' = p
              /\ frame' = claim_frame(p.intent, literal_anchors(request.query))
              /\ notes' = {<<"view", v>> : v \in missing_views(manifest, p)}
                          \cup (IF served THEN {<<"unverified", "">>} ELSE {})
              /\ Goto("literal")
           \/ /\ ~served /\ env.index = "fails"
              /\ Fail
              /\ UNCHANGED <<verified, plan_, frame, notes>>
    /\ UNCHANGED <<request, env, manifest, live, cands, expansion, flow, corroborated,
                   queue, hits, verdict>>

\* Early abstention: the reason, the witness report on no hits, no routes.
abstain_result(reason) ==
    \E rare \in {resolve_distinguishing(live, content_terms(request.query))} :
        /\ frame' = [frame EXCEPT !.rare = rare]
        /\ notes' = notes \cup {<<"abstained", reason>>}
        /\ verdict' = [state |-> "Abstained", reasons |-> {<<"abstained", reason>>},
                       gaps |-> {}]
        /\ Goto("done")

Gate(at, next, applies, refuted, reason) ==
    /\ stage = at
    /\ IF applies /\ refuted THEN abstain_result(reason)
       ELSE Goto(next) /\ UNCHANGED <<frame, notes, verdict>>
    /\ UNCHANGED <<request, env, manifest, live, verified, plan_, cands, expansion,
                   flow, corroborated, queue, hits>>

\* Every verbatim anchor is absent from the full-text index.
\* Seeded bug: one absent anchor is enough.
LiteralRefutedByOne ==
    \E w \in frame.subjects : term_document_frequency_capped(live, w, 1) = 0
LiteralRefuted ==
    \A w \in frame.subjects : term_document_frequency_capped(live, w, 1) = 0
\* Seeded bug: the veto preempts the scan of the patches.
LiteralGateAlways ==
    Gate("literal", "definition", frame.subjects # {}, LiteralRefuted, "absent")
LiteralGate ==
    Gate("literal", "definition", frame.subjects # {} /\ ~PatchGrepPlanned(plan_),
         LiteralRefuted, "absent")

\* No subject of an exact-entity claim is defined.
DefinitionRefuted == \A w \in frame.subjects : defined_witnesses(live, w) = {}
DefinitionGate ==
    Gate("definition", "relation",
         frame.witness = "Definition" /\ frame.subjects # {} /\ ~TemporalOnly(plan_),
         DefinitionRefuted, "undefined")

\* No subject of a relation claim has an edge.
RelationRefuted ==
    \A w \in frame.subjects : relation_witness(live, defined_witnesses(live, w)) = {}
RelationGate ==
    Gate("relation", "history",
         frame.witness = "Relation" /\ frame.subjects # {} /\ ~TemporalOnly(plan_),
         RelationRefuted, "unrelated")

\* No subject of a history claim is mentioned by a commit document.
HistoryRefuted ==
    \A w \in frame.subjects : history_documents_matching_term(live, w, 1) = {}
HistoryGate ==
    Gate("history", "exact",
         frame.witness = "History" /\ frame.subjects # {} /\ ~PatchGrepPlanned(plan_),
         HistoryRefuted, "unrecorded")

(***************************************************************************)
(* Routes.                                                                 *)
(***************************************************************************)
\* A route that runs replaces the map and may leave notes.
Route(at, next, map, extra) ==
    /\ stage = at
    /\ cands' = map
    /\ notes' = notes \cup extra
    /\ Goto(next)
    /\ UNCHANGED <<request, env, manifest, live, verified, plan_, frame, expansion,
                   flow, corroborated, queue, hits, verdict>>

Planned(route) == route \in plan_.routes

\* Exact names, longest spelling first (here: dictionary order), at weight 2.
ExactSymbols ==
    LET tokens == Take(Ordered(entity_tokens(request.query),
                               LAMBDA v, w : Before(v) < Before(w)), 8)
        Named(acc, w) ==
            acc \o Ordered(entity_by_name(live, w, request.limit), <)
    IN  FoldLeft(Named, <<>>, tokens)
ExactSymbolRoute ==
    Route("exact", "lexical",
          IF ~Planned("ExactSymbol") THEN cands
          ELSE add_candidates(cands, [i \in DOMAIN ExactSymbols |->
                   Entry(EntityKey(ExactSymbols[i]),
                         EntityHit(ExactSymbols[i], "Signature", "ExactSymbol", {}),
                         Rrf(200, i), TRUE)]),
          {})

\* The lexical query: the request and the glossary words.  Commit documents
\* belong to the history route.
LexicalWords == WordsOf(request.query) \cup cjk_glossary_terms(request.query)
SourceReps == {Doc[d].rep : d \in Docs} \ CommitReps

\* A full-text query joins the candidates with the documents of some
\* representations.
FusedLexical(at, next, words, route, reps, limit, weight, strict) ==
    \E terms \in {fts_terms(words)} :
    \E pairs \in {floor_evidence(live, terms)} :
    \E stages \in {fts_match_queries(live, terms, pairs)} :
    \E rows \in {SelectSeq(lexical_search(live, terms, stages, limit, request.filters),
                           LAMBDA p : Doc[p[2]].rep \in reps)} :
        Route(at, next, AddRanked(cands, [i \in DOMAIN rows |-> rows[i][2]],
                                  route, weight, strict), {})
SkipRoute(at, next) == Route(at, next, cands, {})

LexicalRoute ==
    IF Planned("Lexical")
    THEN FusedLexical("lexical", "zoekt", LexicalWords, "Lexical", SourceReps,
                      request.limit * 3, 100, TRUE)
    ELSE SkipRoute("lexical", "zoekt")

\* The smallest regions that hold the matched lines of a file.
smallest_regions_for_lines(regions, lines) ==
    LET holding(l) == {r \in regions : Reg[r].first <= l /\ l <= Reg[r].last}
        extent(r) == Reg[r].last - Reg[r].first
        smallest(l) == {r \in holding(l) :
                           \A s \in holding(l) : extent(r) < extent(s)
                              \/ (extent(r) = extent(s) /\ r <= s)}
    IN  FirstOf(UNION {smallest(l) : l \in lines}, 4)

\* External: the lines of a file a trigram query matches, and the files it
\* finds.
ZoektLines(words, p) ==
    {Reg[Doc[d].region].first : d \in {e \in Docs :
        /\ Doc[e].path = p /\ Doc[e].region # None
        /\ fts_terms(words) \cap Doc[e].words # {}}}
ZoektFiles(words) == {p \in DOMAIN Home : ZoektLines(words, p) # {}}

\* Only a usable view whose marker names this snapshot serves; a failing
\* query is logged and leaves the map alone.
zoekt_file_hits ==
    IF /\ Planned("Zoekt") /\ Usable(manifest, "Zoekt") /\ env.zoekt = "current"
    THEN FirstOf(ZoektFiles(WordsOf(request.query)),
                 LET n == request.limit * 2 IN IF n > 20 THEN n ELSE 20)
    ELSE {}

\* The documents of the smallest regions around the matched lines, then the
\* descriptors of the files, each at the rank of its file.
ZoektCandidates(map, files) ==
    LET matched == UNION {smallest_regions_for_lines(regions_for_path(live, p),
                             ZoektLines(WordsOf(request.query), p)) : p \in files}
        docs == Ordered(documents_for_regions(live, matched), <)
                \o Ordered(file_descriptors_for_paths(live, files), <)
        rank(d) == Cardinality({p \in files : p <= Reg[Doc[d].region].path})
    IN  add_candidates(map, [i \in DOMAIN docs |->
            Entry(DocKey(docs[i]), DocHit(docs[i], "Zoekt"), Rrf(100, rank(docs[i])), TRUE)])
ZoektRoute ==
    \E files \in {zoekt_file_hits} :
        Route("zoekt", "pattern", ZoektCandidates(cands, files), {})

\* The files a pattern is tried on: filtered, and narrowed to the files that
\* mention every remaining word.  queue holds what is left to scan.
PatternFiles ==
    IF "rows" \notin live THEN {}
    ELSE {p \in DOMAIN Source :
             /\ InFilters(request.filters, p, Source[p].lang)
             /\ \A w \in WordsOf(request.query) : p \in term_mention_paths(live, w, 10000)}
PatternRoute ==
    /\ stage = "pattern"
    /\ queue' = IF Planned("Pattern") /\ request.pattern
                THEN PatternFiles ELSE {}
    /\ Goto("scan")
    /\ UNCHANGED <<request, env, manifest, live, verified, plan_, frame, notes, cands,
                   expansion, flow, corroborated, hits, verdict>>

\* The documents of the smallest regions around the matches, or the file's
\* descriptors; a document without an address takes the match's.
PatternDocs(p) ==
    LET regions == smallest_regions_for_lines(regions_for_path(live, p), Source[p].matches)
    IN  Ordered(IF regions = {} THEN file_descriptors_for_paths(live, {p})
                ELSE documents_for_regions(live, regions), <)
PatternHits(map, p) ==
    LET docs == PatternDocs(p)
        base == Cardinality({k \in DOMAIN map : "Pattern" \in map[k].routes})
        first == Min(Source[p].matches)
        hit(d) == IF Doc[d].path # None THEN DocHit(d, "Pattern")
                  ELSE [DocHit(d, "Pattern") EXCEPT !.path = p, !.span = <<first, first>>]
    IN  add_candidates(map, [i \in DOMAIN docs |->
            Entry(DocKey(docs[i]), hit(docs[i]), Rrf(100, base + i), TRUE)])

\* The next file.  An unsupported language or a template that does not parse
\* in it is noted; source bytes that are gone fail the whole search.
PatternFile(p) ==
    \/ /\ Source[p].lang \notin TemplateLangs
       /\ notes' = notes \cup
             (CASE Source[p].lang = "none" -> {}
                [] Source[p].lang \in GrammarLangs -> {<<"template", Source[p].lang>>}
                [] OTHER -> {<<"unsupported", Source[p].lang>>})
       /\ UNCHANGED <<cands, stage>>
    \/ /\ Source[p].lang \in TemplateLangs
       /\ IF {"rows", "objects"} \subseteq live
          THEN /\ cands' = IF Source[p].matches = {} THEN cands ELSE PatternHits(cands, p)
               /\ UNCHANGED stage
          ELSE Fail /\ UNCHANGED cands
       /\ UNCHANGED notes
PatternScan ==
    /\ stage = "scan"
    /\ IF queue = {} THEN Goto("knowledge") /\ UNCHANGED <<queue, notes, cands>>
       ELSE \E p \in queue : /\ \A q \in queue : p <= q
                             /\ queue' = queue \ {p}
                             /\ PatternFile(p)
    /\ UNCHANGED <<request, env, manifest, live, verified, plan_, frame, expansion, flow,
                   corroborated, hits, verdict>>

\* Knowledge pages and commit documents found by the plain query.
KnowledgeReps == {"KnowledgePage", "ModuleSummary", "RoleSummary"}
ArtifactRoute(at, next, route, reps) ==
    IF Planned(route)
    THEN FusedLexical(at, next, WordsOf(request.query), route, reps, request.limit * 5, 125,
                      TRUE)
    ELSE SkipRoute(at, next)
KnowledgeRoute == ArtifactRoute("knowledge", "recorded", "Knowledge", KnowledgeReps)
HistoryRoute == ArtifactRoute("recorded", "diff", "History", CommitReps)

\* The matched sections of the stored patches, newest commit first.
diff_grep(words, limit) ==
    LET sections == {s \in {d \in RowDocs(live) : Doc[d].rep = "CommitDiff"} \X DOMAIN Home :
                        /\ s[2] \in DOMAIN Patch[s[1]]
                        /\ words \cap Patch[s[1]][s[2]] # {}}
        Newer(s, t) == \/ Committed[s[1]] > Committed[t[1]]
                       \/ Committed[s[1]] = Committed[t[1]] /\ LexBefore(s, t)
    IN  Take(Ordered(sections, Newer), IF limit > 1 THEN limit ELSE 1)

\* The byte range of a patch section is empty, whatever its lines.
NoBytes == <<0, 0>>

\* A section has no region and an empty byte range, and is never current.
render_hit(d, p) ==
    [DocHit(d, "Diff") EXCEPT !.region = None, !.path = p, !.span = NoBytes,
                              !.evidence = {p}, !.current = FALSE,
                              !.terms = FeedbackWords(Patch[d][p])]
DiffCandidates(map) ==
    LET found == diff_grep(WordsOf(request.query), request.limit * 2)
    IN  add_candidates(map, [i \in DOMAIN found |->
            Entry(DiffKey(found[i][1], found[i][2]), render_hit(found[i][1], found[i][2]),
                  Rrf(100, i), TRUE)])

\* Every body of the snapshot is read; a collection that overtakes the read
\* fails the search.
DiffRoute ==
    \/ Route("diff", "dense", IF Planned("Diff") THEN DiffCandidates(cands) ELSE cands,
             IF Planned("Diff") THEN {<<"diff_window", "">>} ELSE {})
    \/ Planned("Diff") /\ env.prunable /\ Route("diff", "failed", cands, {})

DenseCandidates(map) ==
    LET docs == Take(DenseOrder, request.limit * 3)
        route(d) == IF Doc[d].rep \in {"RawCode", "TestBehavior"} THEN "DenseRaw"
                    ELSE "DenseSummary"
        ranks == SelectSeq([i \in DOMAIN docs |-> i], LAMBDA i : docs[i] \in RowDocs(live))
        entry(i) == Entry(DocKey(docs[i]), DocHit(docs[i], route(docs[i])),
                          Rrf(representation_weight(Doc[docs[i]].rep), i), FALSE)
    IN  add_candidates(map, [n \in DOMAIN ranks |-> entry(ranks[n])])

\* A backend that cannot start is a note; one that fails on the query, or a
\* vector artifact that is gone and not cached, fails the search.
DenseRoute ==
    LET wanted == /\ plan_.routes \cap {"DenseRaw", "DenseSummary", "Hybrid"} # {}
                  /\ Usable(manifest, "Dense")
                  /\ env.embedder # "none"
    IN  \/ ~wanted /\ Route("dense", "prf", cands, {})
        \/ wanted /\ env.embedder = "broken"
           /\ Route("dense", "prf", cands, {<<"embedder", "">>})
        \/ wanted /\ env.embedder = "ready"
           /\ Route("dense", "prf", DenseCandidates(cands), {})
        \/ wanted /\ env.embedder # "broken" /\ (env.embedder = "flaky" \/ env.prunable)
           /\ Route("dense", "failed", cands, {})

(***************************************************************************)
(* Feedback, expansion, structural features and flow.                      *)
(***************************************************************************)
Topical(hit) == hit.routes \cap TopicalRoutes # {}

\* The words most of the topical head shares and the query does not say.
prf_expansion_terms ==
    LET seeds == Take(SelectSeq(ranked_candidates(cands),
                                LAMBDA k : Topical(cands[k])), PrfFeedbackDocs)
        df(w) == Cardinality({i \in DOMAIN seeds : w \in cands[seeds[i]].terms})
        fresh == UNION {cands[seeds[i]].terms : i \in DOMAIN seeds} \ LexicalWords
        Commoner(v, w) == df(v) > df(w) \/ (df(v) = df(w) /\ Before(v) < Before(w))
    IN  FirstBy(fresh, Commoner, PrfExpansionTerms)

\* One more lexical pass; what it finds is never strict evidence.
prf_expansion_pass ==
    \E terms \in {IF plan_.intent = "ExactEntity" \/ ~Planned("Lexical") THEN {}
                  ELSE prf_expansion_terms} :
        IF terms = {} THEN SkipRoute("prf", "expand")
        ELSE FusedLexical("prf", "expand", LexicalWords \cup terms, "Lexical", SourceReps,
                          request.limit * 2, 60, FALSE)

\* 1 + ln(degree) in hundredths.
Damping == <<100, 169, 210, 239, 261>>
DampingOf(degree) == Damping[IF degree > 5 THEN 5 ELSE IF degree < 1 THEN 1 ELSE degree]

\* Raise the entry of a key to a score.
Raise(f, key, score) ==
    IF key = None THEN f
    ELSE Overlay(f, [k \in {key} |-> Largest({At(f, key, 0), score})])

\* Expansion visited an entity: its entity, region and file gain evidence.
record(evidence, e, score) ==
    [entities |-> Raise(evidence.entities, e, score),
     regions |-> Raise(evidence.regions, Ent[e].region, score),
     paths |-> Raise(evidence.paths, Ent[e].path, score),
     max |-> Largest({evidence.max, score})]

\* One edge of a seed: the neighbour becomes a structural candidate whose
\* score decays with the hop and with its degree.
ExpandEdge(acc, edge, seed, hop) ==
    LET e == IF edge.src = seed.id THEN edge.dst ELSE edge.src
        score == (seed.score * edge.conf)
                 \div (DampingOf(entity_relation_degree(live, e)) * 2 ^ hop)
    IN  IF e \notin RowEntities(live) THEN acc
        ELSE [acc EXCEPT
                !.found = Append(@, [id |-> e, evidence |-> {Ent[edge.src].path},
                                     score |-> score \div (61 + Len(@))]),
                !.evidence = record(@, e, score),
                !.next = Append(@, [id |-> e, score |-> score])]

ExpandSeed(acc, seed, hop) ==
    LET rule == expansion_policy(plan_.policy)
        edges == SelectSeq(relations_for_entity(live, seed.id, rule.direction, 24),
                           LAMBDA r : r.kind \in rule.kinds)
    IN  IF seed.id \in acc.visited THEN acc
        ELSE FoldLeft(LAMBDA a, r : ExpandEdge(a, r, seed, hop),
                      [acc EXCEPT !.visited = @ \cup {seed.id}], edges)

\* The four best of a hop that still carry a meaningful score.
Frontier(next) ==
    LET order == Ordered(DOMAIN next, LAMBDA i, j :
                    next[i].score > next[j].score
                    \/ (next[i].score = next[j].score /\ i < j))
        best == Take(order, 4)
    IN  SelectSeq([i \in DOMAIN best |-> next[best[i]]], LAMBDA s : s.score > 1000)

ExpandHop(acc, hop) ==
    FoldLeft(LAMBDA a, s : ExpandSeed(a, s, hop), [acc EXCEPT !.next = <<>>], Frontier(acc.next))

\* Expansion starts at the five best candidates, whatever their score.
ExpansionOf ==
    LET head == HeadOf(cands, 5)
        start == [found |-> <<>>, evidence |-> NoExpansion, visited |-> {}, next |-> <<>>]
        first == FoldLeft(LAMBDA a, k : ExpandSeed(a, [id |-> cands[k].entity,
                                                       score |-> cands[k].score], 0),
                          start, head)
    IN  ExpandHop(first, 1)
Structural(found) ==
    [i \in DOMAIN found |->
        Entry(EntityKey(found[i].id),
              EntityHit(found[i].id, "Signature", "Structural", found[i].evidence),
              found[i].score, FALSE)]

\* An opportunistic plan does not require the graph view: its absence is
\* noted here, as is an absent dataflow view.
Expand ==
    LET blocked == plan_.policy = "Opportunistic" /\ ~Usable(manifest, "Graph")
        runs == /\ Planned("Structural")
                /\ plan_.policy \notin {"None", "ArchitectureBoundary"}
                /\ ~blocked
        grown == ExpansionOf
    IN  /\ stage = "expand"
        /\ cands' = IF runs THEN add_candidates(cands, Structural(grown.found)) ELSE cands
        /\ expansion' = IF runs THEN grown.evidence ELSE NoExpansion
        /\ notes' = notes \cup (IF blocked THEN {<<"no_graph", "">>} ELSE {})
                    \cup (IF plan_.policy = "DataflowRequired" /\ manifest["Dataflow"] # "Ready"
                          THEN {<<"no_dataflow", "">>} ELSE {})
        /\ Goto("features")
        /\ UNCHANGED <<request, env, manifest, live, verified, plan_, frame, flow,
                       corroborated, queue, hits, verdict>>

\* The package of a path: of the packages around it, the innermost.
package_of(path) ==
    LET around == {e \in entities_by_kind(live, "Package") :
                      path # None /\ Home[path] \in Roots[e]}
    IN  {e \in around : \A f \in around : Cardinality(Roots[e]) <= Cardinality(Roots[f])}

\* Priors on the fused score: a name the query says, a file or package of
\* the top three, a recent touch (fault and history claims), a definition.
FeatureBonus(cand, paths) ==
    LET packages == UNION {package_of(p) : p \in paths}
    IN  (IF Ent[cand.entity].parts \cap WordsOf(request.query) # {} THEN 50 ELSE 0)
        + (IF cand.path \in paths THEN 25 ELSE 0)
        + (IF package_of(cand.path) \cap packages # {} THEN 15 ELSE 0)
        + (IF /\ plan_.intent \in {"IssueLocalization", "History"}
              /\ cand.path # None /\ file_entity(live, cand.path) # {}
           THEN Recency[cand.path] ELSE 0)
        + (IF cand.rep \in {"Signature", "TestBehavior"} THEN 10 ELSE 0)
apply_structural_features ==
    Route("features", "flow",
          LET paths == {cands[k].path : k \in Range(HeadOf(cands, 3))} \ {None}
          IN  [k \in DOMAIN cands |->
                  [cands[k] EXCEPT !.score = @ + Bonus(FeatureBonus(cands[k], paths))]],
          {})

\* Readout 2 slots the emitted symbols at the boundary of the presented list.
EmissionBoundary(map, limit) ==
    LET scores == ranked_candidates(map)
        slot == (IF limit > FlowEmitMax THEN limit - FlowEmitMax ELSE 0) + 1
    IN  IF scores = <<>> THEN 0
        ELSE map[scores[IF slot > Len(scores) THEN Len(scores) ELSE slot]].score

OwnOrigins(f, e) == Cardinality(At(f.origins, e, {}) \ {e})

\* The flow pass starts when there are candidates and edges at their seeds.
FlowSeed ==
    /\ stage = "flow"
    /\ \E mass \in {FlowSeedMass(live, cands, expansion)} :
       \E edges \in {flow_collect_edges(live, DOMAIN mass)} :
          IF edges = {} THEN flow' = NoFlow /\ Goto("strict")
          ELSE flow' = FlowStart(live, mass, edges) /\ Goto("hop1")
    /\ UNCHANGED <<request, env, manifest, live, verified, plan_, frame, notes, cands,
                   expansion, corroborated, queue, hits, verdict>>

Propagate ==
    /\ \/ /\ stage = "hop1"
          /\ \E first \in {FlowHop(1, flow)} : flow' = WithFrontier(live, first)
          /\ Goto("hop2")
       \/ /\ stage = "hop2"
          /\ flow' = FlowHop(2, flow)
          /\ Goto("readout")
    /\ UNCHANGED <<request, env, manifest, live, verified, plan_, frame, notes, cands,
                   expansion, corroborated, queue, hits, verdict>>

\* Readout 1: the candidates no expansion produced are raised by their
\* bounded corroboration.
Corroborate ==
    LET open == {k \in DOMAIN cands : "Structural" \notin cands[k].routes}
    IN  /\ stage = "readout"
        /\ \E judged \in {{<<k, CorroborationOf(live, cands[k], flow, expansion)>> : k \in open}} :
           \E found \in {{j \in judged : j[2].strength > 0}} :
              /\ corroborated' = [k \in {j[1] : j \in found} |->
                                    (CHOOSE j \in found : j[1] = k)[2]]
              /\ cands' = [k \in DOMAIN cands |->
                             IF \E j \in found : j[1] = k
                             THEN [cands[k] EXCEPT
                                     !.score = @ + (250 * corroborated'[k].strength) \div 60]
                             ELSE cands[k]]
        /\ Goto("emit")
        /\ UNCHANGED <<request, env, manifest, live, verified, plan_, frame, notes,
                       expansion, flow, queue, hits, verdict>>

\* Readout 2: emitted symbols join the candidates at boundary mass with a
\* record of their own, and only then are the direct origins of structural
\* candidates recorded.
Emitted(map, block, boundary) ==
    add_candidates(map, [i \in DOMAIN block |->
        Entry(EmittedKey(block[i]), EntityHit(block[i], "Signature", "Structural", {}),
              (boundary * (1005 - 5 * i)) \div 1000, FALSE)])
EmissionRecord(f, e) ==
    [strength |-> IF MaxReceived(f) = 0 THEN 0 ELSE (f.received[e] * 1000) \div MaxReceived(f),
     origins |-> OwnOrigins(f, e), emitted |-> TRUE]
Emit ==
    /\ stage = "emit"
    /\ \E block \in {FlowEmissions(live, flow, FeedbackWords(WordsOf(request.query)), cands)} :
       \E records \in {[k \in {EmittedKey(block[i]) : i \in DOMAIN block} |->
                          EmissionRecord(flow, k[2])]} :
       \E boundary \in {EmissionBoundary(cands, request.limit)} :
          IF block = <<>> \/ boundary = 0 THEN UNCHANGED <<cands, corroborated>>
          ELSE /\ cands' = Emitted(cands, block, boundary)
               /\ corroborated' =
                     LET known == Overlay(corroborated, records)
                         direct == {k \in DOMAIN cands' \ DOMAIN known :
                                       /\ "Structural" \in cands'[k].routes
                                       /\ OwnOrigins(flow, cands'[k].entity) > 0}
                     IN  Overlay(known, [k \in direct |->
                            [strength |-> 0, origins |-> OwnOrigins(flow, cands'[k].entity),
                             emitted |-> FALSE]])
    /\ Goto("strict")
    /\ UNCHANGED <<request, env, manifest, live, verified, plan_, frame, notes, expansion,
                   flow, queue, hits, verdict>>

(***************************************************************************)
(* Selection.                                                              *)
(***************************************************************************)
\* Inferred vicinity alone is no answer.
\* Seeded bug: the gate only writes its note.
StrictGateNotesOnly ==
    Route("strict", "rank", cands,
          IF \A k \in DOMAIN cands : ~cands[k].strict
          THEN {<<"abstained", "inferred">>} ELSE {})
StrictGate ==
    LET inferred == cands # <<>> /\ \A k \in DOMAIN cands : ~cands[k].strict
    IN  Route("strict", "rank", IF inferred THEN <<>> ELSE cands,
              IF inferred THEN {<<"abstained", "inferred">>} ELSE {})

\* A candidate of code that carries distinguishing words ranks higher.
ClaimBonus(rare) ==
    LET docs == {k[2] : k \in {c \in DOMAIN cands :
                    c[1] = 0 /\ cands[c].path # None
                    /\ document_class(cands[c].path) = "Code"}}
        said(d) == Cardinality({w \in rare : documents_matching_term(live, w, {d}) # {}})
        counted(n) == IF n > 3 THEN 3 ELSE n
    IN  [k \in {DocKey(d) : d \in docs} |-> Bonus(20 * counted(said(k[2])))]

\* Every candidate with its final standing, ready to be judged.
HitOf(k, bonus) ==
    [key |-> k, entity |-> cands[k].entity, region |-> cands[k].region,
     path |-> cands[k].path, span |-> cands[k].span, rep |-> cands[k].rep,
     evidence |-> cands[k].evidence,
     route |-> cands[k].route, routes |-> cands[k].routes, current |-> cands[k].current,
     terms |-> cands[k].terms, strict |-> cands[k].strict,
     score |-> cands[k].score + At(bonus, k, 0)]
RankCandidates ==
    /\ stage = "rank"
    /\ \E rare \in {resolve_distinguishing(live, content_terms(request.query))} :
       \E bonus \in {ClaimBonus(rare)} :
          /\ frame' = [frame EXCEPT !.rare = rare]
          /\ queue' = {[hit |-> HitOf(k, bonus),
                        place |-> Standing(k, cands[k].score + At(bonus, k, 0),
                                           At(corroborated, k, NoRecord))] :
                          k \in DOMAIN cands}
    /\ Goto("select")
    /\ UNCHANGED <<request, env, manifest, live, verified, plan_, notes, cands, expansion,
                   flow, corroborated, hits, verdict>>

\* path: and lang: for the routes that cannot push them into SQL.
hit_matches_filters(hit) ==
    /\ request.filters.path # "any" =>
          \E p \in ({hit.path} \cup hit.evidence) \ {None} : Home[p] = request.filters.path
    /\ request.filters.lang # "any" =>
          hit.entity \in RowEntities(live) /\ Ent[hit.entity].lang = request.filters.lang

\* What makes two hits the same place: the region, else the path and byte
\* range, else the document.
RegionKey(hit) ==
    CASE hit.region # None -> <<"region", hit.region>>
      [] hit.region = None /\ hit.path # None -> <<"span", hit.path, hit.span>>
      [] OTHER -> <<"document", hit.key>>

\* The hit that already shows the place of a candidate.
\* Seeded bug: only the same document counts as the same place.
SamePlaceByDocument(hit) == {i \in DOMAIN hits : hits[i].key = hit.key}
SamePlace(hit) == {i \in DOMAIN hits : RegionKey(hits[i]) = RegionKey(hit)}

\* Seeded bug: hits without a region do not count against their file.
HitsWithRegionOf(path) == {i \in DOMAIN hits : hits[i].path = path /\ hits[i].region # None}
HitsOf(path) == {i \in DOMAIN hits : hits[i].path = path}

\* The list after a candidate was judged: filtered, merged into the hit that
\* already shows its place, capped by file, or listed.
Capped(hit) ==
    /\ hit.path # None /\ "ExactSymbol" \notin hit.routes
    /\ Cardinality(HitsOf(hit.path)) >= per_file_cap(Len(hits))
Judged(hit) ==
    CASE ~hit_matches_filters(hit) -> hits
      [] hit_matches_filters(hit) /\ SamePlace(hit) # {} ->
            [i \in DOMAIN hits |->
                IF i \in SamePlace(hit) THEN [hits[i] EXCEPT !.routes = @ \cup hit.routes]
                ELSE hits[i]]
      [] OTHER -> IF Capped(hit) THEN hits ELSE Append(hits, hit)

\* Judge the best remaining candidate; a full list ends the selection.
SelectHit ==
    /\ stage = "select"
    /\ \E c \in queue :
          /\ \A d \in queue \ {c} : Ahead(c.place, d.place)
          /\ hits' = Judged(c.hit)
          /\ queue' = IF Len(hits') > Len(hits) /\ Len(hits') >= request.limit
                      THEN {} ELSE queue \ {c}
    /\ UNCHANGED <<request, env, manifest, live, stage, verified, plan_, frame, notes, cands,
                   expansion, flow, corroborated, verdict>>

\* The slots of the topical hits the cross-encoder sees.
\* Seeded bug: the cross-encoder sees the whole head.
HeadSlotsOfList == FirstOf(DOMAIN hits, RerankPool)
TopicalSlots == FirstOf({i \in DOMAIN hits : Topical(hits[i])}, RerankPool)

\* A scoring order over the topical hits moves them among their own slots.
Permuted(order) ==
    [i \in DOMAIN hits |->
        IF i \in TopicalSlots
        THEN [hits[order[i]] EXCEPT !.routes = @ \cup {"Reranked"}]
        ELSE hits[i]]

\* Any order the model may return; a failure leaves the fused order and a note.
Rerank ==
    /\ stage = "select" /\ queue = {}
    /\ Goto("report")
    /\ LET asked == Cardinality(TopicalSlots) > 1 /\ env.reranker # "none"
       IN  \/ /\ ~asked
              /\ UNCHANGED <<hits, notes>>
           \/ /\ asked /\ env.reranker = "ready"
              /\ \E order \in Bijection(TopicalSlots, TopicalSlots) : hits' = Permuted(order)
              /\ UNCHANGED notes
           \/ /\ asked /\ env.reranker \in {"broken", "flaky"}
              /\ notes' = notes \cup {<<"reranker", env.reranker>>}
              /\ UNCHANGED hits
    /\ UNCHANGED <<request, env, manifest, live, verified, plan_, frame, cands, expansion,
                   flow, corroborated, queue, verdict>>

\* The verdict on the list.
Report ==
    /\ stage = "report"
    /\ \E docs \in {{hits[i].key[2] : i \in {j \in DOMAIN hits : hits[j].key[1] = 0}}} :
       \E report \in {build_witness_report(live, frame, frame.rare, docs)} :
       \E weak \in {weak_witness_reasons(frame, frame.rare, report)} :
          LET why == {n \in notes : n[1] = "abstained"}
          IN  verdict' =
                [gaps |-> report.gaps,
                 state |-> CASE hits = <<>> -> "Abstained"
                             [] hits # <<>> /\ weak = {} -> "Answered"
                             [] OTHER -> "WeakWitness",
                 reasons |-> CASE hits # <<>> -> weak
                               [] hits = <<>> /\ why # {} -> why
                               [] OTHER -> {<<"abstained", "nothing survived">>}]
    /\ Goto("done")
    /\ UNCHANGED <<request, env, manifest, live, verified, plan_, frame, notes, cands,
                   expansion, flow, corroborated, queue, hits>>

(***************************************************************************)
(* The environment: an index run on the same data directory prunes the     *)
(* resolved snapshot once it leaves the retention window.  The full-text   *)
(* rows go first, then every other row; a collection removes the files.    *)
(***************************************************************************)
Prune ==
    /\ env.prunable /\ live # {}
    /\ live' = CASE "fts" \in live -> live \ {"fts"}
                 [] "fts" \notin live /\ "rows" \in live -> live \ {"rows"}
                 [] OTHER -> {}
    /\ UNCHANGED <<request, env, manifest, stage, verified, plan_, frame, notes, cands,
                   expansion, flow, corroborated, queue, hits, verdict>>

SearchStep ==
    \/ ResolveIndex \/ LiteralGate \/ DefinitionGate \/ RelationGate \/ HistoryGate
    \/ ExactSymbolRoute \/ LexicalRoute \/ ZoektRoute \/ PatternRoute \/ PatternScan
    \/ KnowledgeRoute \/ HistoryRoute \/ DiffRoute \/ DenseRoute \/ prf_expansion_pass \/ Expand
    \/ apply_structural_features \/ FlowSeed \/ Propagate \/ Corroborate \/ Emit
    \/ StrictGate \/ RankCandidates \/ SelectHit \/ Rerank \/ Report
=============================================================================
