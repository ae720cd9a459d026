--------------------------- MODULE SnapshotReader ---------------------------
(***************************************************************************)
(* The read side of the metadata store: what a query sees of one committed *)
(* snapshot.  The corpus is a constant (a committed snapshot never         *)
(* changes); what may change under a reader is that a prune removes the    *)
(* full-text rows, then every other row, and a collection then removes the *)
(* artifact files.  Every reader takes the part that is still there:       *)
(* `live' is a subset of {"fts", "rows", "objects"}.                       *)
(*                                                                         *)
(* BM25 is SQLite's: documents are ranked by the number of query words     *)
(* they carry, then by id.                                                 *)
(***************************************************************************)
EXTENDS QueryPlan, Functions, FiniteSetsExt

CONSTANTS
    Alphabet,         \* the words in dictionary order
    Longer,           \* Longer[w]: words that have w as a prefix, w included
    Segments,         \* Segments[w]: [scope, member] of a ::-qualified spelling
    Indexed,          \* the spellings the trigram index serves: three letters or more
    Inside,           \* Inside[w]: entities with w in the middle of other parts
    Scattered,        \* Scattered[w]: entities with the trigrams of w and not w
    IndexLimit,       \* 256 entities of the trigram index, 4 * NameLimit
    NameLimit,        \* 64 names that hold a spelling
    WitnessLimit,     \* 8 in defined_witnesses
    Doc,              \* document id -> [entity, region, path, span, rep, words, evidence]
    Ent,              \* entity id -> [kind, name, parts, lang, region, path, span, test]
    Reg,              \* region id -> [path, first, last]: its lines
    Rels,             \* the relations: [id, src, dst, kind, conf, origin]
    Home,             \* Home[p]: the directory (and package) of path p
    PairTermsMax,     \* PAIR_TERMS_MAX: longest query whose pairs all count
    PairClausesMax,   \* PAIR_CLAUSES_MAX: pair clauses of a long query
    UbiquityFraction, \* UBIQUITY_DOC_FRACTION
    UbiquityMin,      \* UBIQUITY_DF_MIN
    RarityFraction,   \* 200 in resolve_distinguishing
    RarityFloor       \* 32 in resolve_distinguishing

None == 0             \* the absent region or path

Docs == DOMAIN Doc
Entities == DOMAIN Ent

\* A snapshot holds finitely many rows; document ids are ordered, and entity
\* ids count the entities in the order the store returns their rows.
ASSUME CorpusAssumption ==
    /\ Docs \in SUBSET Nat /\ IsFiniteSet(Docs)
    /\ Entities \in SUBSET Nat /\ IsFiniteSet(Entities)
    /\ IsFiniteSet(Rels)
    /\ {IndexLimit, NameLimit, WitnessLimit} \subseteq Nat \ {0}

CommitReps == {"CommitSummary", "CommitDiff"}

\* Position in the dictionary: the order of string comparison.
Before(w) == CHOOSE i \in DOMAIN Alphabet : Alphabet[i] = w

\* The elements of a finite set in the order of a strict total order (under
\* any other relation a place nobody has goes to some element).
Ordered(S, Less(_, _)) ==
    LET placed == {<<Cardinality({y \in S : Less(y, x)}), x>> : x \in S}
        at(n) == {p \in placed : p[1] = n}
    IN  [i \in 1..Cardinality(S) |->
            (CHOOSE p \in placed : at(i - 1) # {} => p \in at(i - 1))[2]]

\* The first n of a sequence, of an ordered set, and of a set of ids.
Take(seq, n) == [i \in (1..n) \cap DOMAIN seq |-> seq[i]]
FirstBy(S, Less(_, _), n) == {x \in S : Cardinality({y \in S : Less(y, x)}) < n}
FirstOf(S, n) == FirstBy(S, <, n)

\* The lexicographic order of number sequences.
LexBefore(s, t) ==
    \/ \E i \in DOMAIN s \cap DOMAIN t :
          s[i] < t[i] /\ \A j \in 1..(i - 1) : s[j] = t[j]
    \/ Len(s) < Len(t) /\ \A i \in DOMAIN s : s[i] = t[i]

FtsDocs(live) == IF "fts" \in live THEN Docs ELSE {}
RowDocs(live) == IF "rows" \in live THEN Docs ELSE {}
RowEntities(live) == IF "rows" \in live THEN Entities ELSE {}
RowRels(live) == IF "rows" \in live THEN Rels ELSE {}

(***************************************************************************)
(* Full-text search.                                                       *)
(***************************************************************************)
Carries(d, w) == w \in Doc[d].words
CarriesPrefix(d, w) == Longer[w] \cap Doc[d].words # {}

fts_terms(words) == {w \in words : Class[w] # "stop"}

term_document_frequency(live, w) == Cardinality({d \in FtsDocs(live) : Carries(d, w)})

\* min(df, cap): enough for the callers that compare with a threshold.
term_document_frequency_capped(live, w, cap) ==
    LET df == term_document_frequency(live, w) IN IF df < cap THEN df ELSE cap

document_count(live) == Cardinality(FtsDocs(live))

\* The paths of documents that carry a word, and of those that carry all
\* of several words together with the entity they belong to.
term_mention_paths(live, w, limit) ==
    {Doc[d].path : d \in FirstOf({e \in FtsDocs(live) : Carries(e, w)}, limit)}

terms_binding_scopes(live, words, limit) ==
    IF words = {} THEN {}
    ELSE FirstOf({d \in FtsDocs(live) : words \subseteq Doc[d].words}, limit)

documents_matching_term(live, w, ids) == {d \in ids \cap FtsDocs(live) : Carries(d, w)}

\* Commit documents that mention a word.  The join ignores the snapshot of
\* the document row, and needs both tables.
history_documents_matching_term(live, w, limit) ==
    FirstOf({d \in FtsDocs(live) \cap RowDocs(live) :
                Carries(d, w) /\ Doc[d].rep \in CommitReps}, limit)

\* Word pairs of the evidence floor.  A long query drops the ubiquitous and
\* the absent words first (all of them when fewer than two remain) and keeps
\* the cheapest pairs.
PairsOf(words) == {p \in SUBSET words : Cardinality(p) = 2}

UbiquityCutoff(live) ==
    LET share == Cardinality(FtsDocs(live)) \div UbiquityFraction
    IN  IF share > UbiquityMin THEN share ELSE UbiquityMin

\* <<capped frequency, dictionary position, word>> of each word.
WeighedTerms(live, words, cutoff) ==
    LET df(w) == Cardinality({d \in FtsDocs(live) : CarriesPrefix(d, w)})
    IN  {<<IF df(w) < cutoff + 1 THEN df(w) ELSE cutoff + 1, Before(w), w>> : w \in words}

RarerTerm(s, t) == s[1] < t[1] \/ (s[1] = t[1] /\ s[2] < t[2])

\* The terms a long query keeps, and the cheapest pairs of them.
KeptTerms(weighed, cutoff) ==
    LET present == {t \in weighed : t[1] >= 1}
        common == {t \in present : t[1] <= cutoff}
    IN  IF Cardinality(common) >= 2 THEN common
        ELSE FirstBy(present, RarerTerm, PairTermsMax)
CheapestPairs(kept) ==
    LET priced == {[pair |-> {st[1][3], st[2][3]},
                    key |-> <<st[1][1] + st[2][1], st[1][2], st[2][2]>>] :
                      st \in {ab \in kept \X kept : ab[1][2] < ab[2][2]}}
    IN  {r.pair : r \in FirstBy(priced, LAMBDA r, q : LexBefore(r.key, q.key),
                               PairClausesMax)}

floor_evidence(live, words) ==
    IF Cardinality(words) <= PairTermsMax THEN PairsOf(words)
    ELSE CheapestPairs(KeptTerms(WeighedTerms(live, words, UbiquityCutoff(live)),
                                 UbiquityCutoff(live)))

\* The strictness cascade: exact AND, prefix AND, the same over the Latin
\* words of a code-switched query, word pairs, single Latin words.  Each
\* stage is the set of documents it matches.
fts_match_queries(live, words, pairs) ==
    LET all == FtsDocs(live)
        latin == {w \in words : Class[w] # "cjk"}
        switched == latin # {} /\ latin # words
        exact(ws) == {d \in all : \A w \in ws : Carries(d, w)}
        prefix(ws) == {d \in all : \A w \in ws : CarriesPrefix(d, w)}
        paired == {d \in all : \E p \in pairs : \A w \in p : CarriesPrefix(d, w)}
        single == {d \in all : \E w \in latin : CarriesPrefix(d, w)}
    IN  <<exact(words), prefix(words)>>
        \o (IF switched THEN <<exact(latin), prefix(latin)>> ELSE <<>>)
        \o (IF \/ Cardinality(pairs) >= 3
               \/ pairs # {} /\ Cardinality(words) > PairTermsMax
            THEN <<paired>> ELSE <<>>)
        \o (IF switched THEN <<single>> ELSE <<>>)

\* path: and lang: as the SQL join applies them.
InFilters(filters, path, lang) ==
    /\ filters.path # "any" => path # None /\ Home[path] = filters.path
    /\ filters.lang # "any" => lang = filters.lang

\* One query: each stage contributes its `limit' best matches until at
\* least `limit' rows are gathered.  Joined with the document and entity
\* rows, so it is empty as soon as either is gone.  Rows are <<score, document>>.
lexical_search(live, terms, stages, limit, filters) ==
    LET joined == {<<Cardinality({w \in terms : CarriesPrefix(d, w)}), d>> :
                      d \in {e \in RowDocs(live) :
                                InFilters(filters, Doc[e].path, Ent[Doc[e].entity].lang)}}
        Better(p, q) == p[1] > q[1] \/ (p[1] = q[1] /\ p[2] < q[2])
        Best(matched) == Ordered(FirstBy({p \in joined : p[2] \in matched}, Better, limit),
                                 Better)
        Stage(found, matched) ==
            IF Len(found) >= limit THEN found
            ELSE found \o SelectSeq(Best(matched), LAMBDA p : p \notin Range(found))
    IN  IF terms = {} THEN <<>> ELSE FoldLeft(Stage, <<>>, stages)

(***************************************************************************)
(* Row lookups.                                                            *)
(***************************************************************************)
documents_for_regions(live, regions) == {d \in RowDocs(live) : Doc[d].region \in regions}

file_descriptors_for_paths(live, paths) ==
    {d \in RowDocs(live) : /\ Doc[d].rep = "FileDescriptor"
                           /\ Doc[d].region # None
                           /\ Reg[Doc[d].region].path \in paths}

regions_for_path(live, path) ==
    IF "rows" \in live THEN {r \in DOMAIN Reg : Reg[r].path = path} ELSE {}

\* Does the name, or the qualified name, carry the spelling as a run of whole
\* parts?  `log' names log_line, not catalog.
name_witnesses(w, e) == w \in Ent[e].parts

\* The names that hold a spelling, in whole parts or not, and those the
\* trigram index takes for them.
Holding(w) == {e \in Entities : name_witnesses(w, e)} \cup Inside[w]
Alike(w) == Holding(w) \cup Scattered[w]

\* The first names that hold the spelling, of the first ones the trigram
\* index offers.
entity_name_candidates(live, w, limit) ==
    LET offered == IF w \in Indexed
                   THEN FirstOf(RowEntities(live) \cap Alike(w), IndexLimit)
                   ELSE RowEntities(live)
    IN  FirstOf(offered \cap Holding(w), limit)

entity_by_name(live, w, limit) == FirstOf({e \in RowEntities(live) : Ent[e].name = w}, limit)

entities_by_kind(live, kind) == {e \in RowEntities(live) : Ent[e].kind = kind}

entities_by_ids(live, ids) == ids \cap RowEntities(live)

\* The file entity of a path: a symbol of the same spelling is not it.
file_entity(live, path) == {e \in entities_by_kind(live, "File") : Ent[e].path = path}

\* The strongest edges of an entity in one direction, or in both.
relations_for_entity(live, e, direction, limit) ==
    LET touching == {r \in RowRels(live) :
                        \/ direction \in {"out", "both"} /\ r.src = e
                        \/ direction \in {"in", "both"} /\ r.dst = e}
        Stronger(r, s) == r.conf > s.conf \/ (r.conf = s.conf /\ r.id < s.id)
    IN  Take(Ordered(touching, Stronger), limit)

\* A self-loop counts once.
entity_relation_degree(live, e) == Cardinality({r \in RowRels(live) : e \in {r.src, r.dst}})

(***************************************************************************)
(* Witnesses: is a spelling defined, related, recorded, or only mentioned? *)
(***************************************************************************)
\* The candidates the name filter leaves.  The store cut them off before.
NamedCandidates(live, w) ==
    {e \in entity_name_candidates(live, w, NameLimit) : name_witnesses(w, e)}

\* Seeded bug: the report is cut to size before the names are filtered.
CutBeforeFilter(live, w) ==
    LET tail == Segments[w].member
    IN  {e \in FirstOf(entity_name_candidates(live, tail, NameLimit), WitnessLimit) :
            name_witnesses(tail, e)}

\* Every segment of a qualified spelling must be defined; the last one's
\* definitions are the witnesses, those in a file of an earlier segment first.
defined_witnesses(live, w) ==
    LET tail == NamedCandidates(live, Segments[w].member)
        scope == {Ent[e].path : e \in UNION {NamedCandidates(live, s) : s \in Segments[w].scope}}
        Coherent(e) == Ent[e].path # None /\ Ent[e].path \in scope
        Sooner(e, f) == \/ Coherent(e) /\ ~Coherent(f)
                        \/ (Coherent(e) <=> Coherent(f)) /\ e < f
    IN  IF \E s \in Segments[w].scope : NamedCandidates(live, s) = {} THEN {}
        ELSE FirstBy(tail, Sooner, WitnessLimit)

\* The edges of the witnesses, 64 of each.
relation_witness(live, defined) ==
    UNION {Range(relations_for_entity(live, e, "both", 64)) : e \in defined}

\* The rare words of the claim, rarest first, at most four.
RarityCap(live) ==
    LET share == document_count(live) \div RarityFraction
    IN  IF share > RarityFloor THEN share ELSE RarityFloor
resolve_distinguishing(live, words) ==
    LET weighed == {<<term_document_frequency_capped(live, w, RarityCap(live) + 1),
                      Before(w), w>> : w \in words}
    IN  {t[3] : t \in FirstBy({u \in weighed : u[1] <= RarityCap(live)}, RarerTerm, 4)}

\* What the snapshot says about one claimed spelling.
build_term_witness(live, w, defined, required) ==
    [term |-> w,
     defined |-> defined,
     edges |-> IF required = "Relation" THEN relation_witness(live, defined) ELSE {},
     history |-> IF required = "History"
                 THEN history_documents_matching_term(live, w, 8) ELSE {},
     mentions |-> term_document_frequency(live, w)]

CodeScopeKinds == {"Module", "Class", "Trait", "Struct", "Enum", "Function",
                   "Method", "Constant", "Test"}
code_scope_entity(e) == Ent[e].kind \in CodeScopeKinds
is_test_entity(e) == Ent[e].test

\* Documents are code, or prose when the path says so.
document_class(path) == IF path # None /\ Home[path] = "docs" THEN "Prose" ELSE "Code"

\* The strongest binding of the claim's words at each path: one entity that
\* is not a test, then a test entity, then the file.
BindingOf(live, path, bound) ==
    LET scoped == {d \in bound : /\ Doc[d].path = path
                                 /\ Doc[d].entity \in RowEntities(live)
                                 /\ code_scope_entity(Doc[d].entity)}
    IN  [class |-> document_class(path),
         scope |-> IF scoped = {} THEN "File" ELSE "Entity",
         test |-> scoped # {} /\ \A d \in scoped : is_test_entity(Doc[d].entity)]

\* The report on a hit list: the first six claimed terms, the artifacts
\* that bind two or more distinguishing words, and the words no hit carries.
CheckedTerms(frame, distinguishing) ==
    LET placed == {<<IF w \in frame.subjects THEN 0 ELSE 1, Before(w), w>> :
                      w \in frame.subjects \cup distinguishing}
    IN  {t[3] : t \in FirstBy(placed, RarerTerm, 6)}
build_witness_report(live, frame, distinguishing, hitDocs) ==
    [terms |-> {build_term_witness(live, dw[1], dw[2], frame.witness) :
                   dw \in {<<w, defined_witnesses(live, w)>> :
                              w \in CheckedTerms(frame, distinguishing)}},
     bindings |-> IF Cardinality(distinguishing) < 2 THEN {}
                  ELSE UNION {{BindingOf(live, Doc[d].path, bound) : d \in bound} :
                          bound \in {terms_binding_scopes(live, distinguishing, 10)}},
     gaps |-> IF hitDocs = {} THEN {}
              ELSE {w \in distinguishing :
                       documents_matching_term(live, w, hitDocs) = {}}]

\* The reasons an answered verdict is only a weak witness.
weak_witness_reasons(frame, distinguishing, report) ==
    LET subjects == {t \in report.terms : t.term \in frame.subjects}
        implemented == \E b \in report.bindings :
                          b.class = "Code" /\ b.scope = "Entity" /\ ~b.test
    IN  {<<"mention_only", t.term>> : t \in {s \in subjects : s.defined = {}}}
        \cup (IF Cardinality(distinguishing) >= 2 /\ ~implemented
              THEN {<<CASE report.bindings = {} -> "unbound"
                        [] \E b \in report.bindings : b.class = "Code" /\ b.test
                             -> "test_bound"
                        [] OTHER -> IF \E b \in report.bindings : b.class = "Code"
                                    THEN "file_bound" ELSE "prose_bound", "">>}
              ELSE {})
        \cup (IF distinguishing # {} /\ report.gaps = distinguishing
              THEN {<<"gaps", "">>} ELSE {})
        \cup (IF frame.witness = "Relation"
              THEN {<<"no_edges", t.term>> : t \in {s \in subjects :
                        s.edges = {} /\ s.defined # {}}}
                   \cup {<<"inferred_edges", t.term>> : t \in {s \in subjects :
                        /\ s.edges # {}
                        /\ \A r \in s.edges : r.origin = "ModelInference"}}
              ELSE {})
        \cup (IF frame.witness = "History"
              THEN {<<"unrecorded", t.term>> : t \in {s \in subjects : s.history = {}}}
              ELSE {})
=============================================================================
