-------------------------- MODULE RetrievalProofs --------------------------
(***************************************************************************)
(* What every search keeps, whatever the corpus, the requests and the      *)
(* limits are.  The routes differ in what they add and agree in what they  *)
(* leave alone: Quiet is that common part, and each of the invariants only *)
(* has to look at Quiet steps and at the few steps that decide something.  *)
(***************************************************************************)
EXTENDS ContextPack, FiniteSetTheorems, WellFoundedInduction, NaturalsInduction, TLAPS

\* The stages of the routes, of expansion and of the flow pass.
RouteStages == {"exact", "lexical", "zoekt", "pattern", "scan", "knowledge", "recorded",
                "diff", "dense", "prf", "expand", "features", "flow", "hop1", "hop2",
                "readout", "emit"}

\* A key some route builds.
CandidateKey(k) == k[1] \in 0..3
\* A note no gate writes.
Remark(n) == n[1] # "abstained"

\* A map that has grown by candidate keys, and entries that make it so.
Grows(map) == \A k \in DOMAIN map : k \in DOMAIN cands \/ CandidateKey(k)
WithKeys(entries) == \A i \in DOMAIN entries : CandidateKey(entries[i].key)
Remarks(extra) == \A n \in extra : Remark(n)

\* A step that gathers evidence: it lists nothing, refutes nothing, and what
\* it adds to the map has a candidate's key.
Quiet ==
    /\ stage \in RouteStages /\ stage' \in RouteStages \cup {"strict", "failed"}
    /\ UNCHANGED <<request, env, manifest, live, verified, plan_, frame, hits, verdict>>
    /\ \A n \in notes' : n \in notes \/ Remark(n)
    /\ \A k \in DOMAIN cands' : k \in DOMAIN cands \/ CandidateKey(k)

-----------------------------------------------------------------------------
\* Joining entries adds their keys only.
LEMMA JoinGrows ==
    ASSUME NEW entries, WithKeys(entries)
    PROVE  Grows(add_candidates(cands, entries))
BY DEF add_candidates, Grows, WithKeys

\* A map that does not change has grown by nothing.
LEMMA SameGrows == Grows(cands)
BY DEF Grows

\* A route whose map has candidate keys and whose notes are remarks is quiet.
LEMMA RouteIsQuiet ==
    ASSUME NEW from \in RouteStages, NEW next \in RouteStages \cup {"strict", "failed"},
           NEW map, NEW extra, Route(from, next, map, extra), Remarks(extra), Grows(map)
    PROVE  Quiet
BY DEF Route, Goto, Quiet, Remarks, Grows

\* A route that writes no note and adds candidates by key is quiet.
LEMMA PlainRouteIsQuiet ==
    ASSUME NEW from \in RouteStages, NEW next \in RouteStages, NEW map,
           Route(from, next, map, {}), Grows(map)
    PROVE  Quiet
BY RouteIsQuiet DEF Remarks

\* The documents of a route have document keys.
LEMMA RankedGrows ==
    ASSUME NEW docs, NEW route, NEW weight, NEW strict
    PROVE  Grows(AddRanked(cands, docs, route, weight, strict))
BY DEF AddRanked, add_candidates, Entry, DocKey, CandidateKey, Grows

\* A route that is not planned.
LEMMA SkipIsQuiet ==
    ASSUME NEW from \in RouteStages, NEW next \in RouteStages, SkipRoute(from, next)
    PROVE  Quiet
BY PlainRouteIsQuiet, SameGrows, Zenon DEF SkipRoute

\* A full-text route.
LEMMA FusedIsQuiet ==
    ASSUME NEW from \in RouteStages, NEW next \in RouteStages, NEW words, NEW route,
           NEW reps, NEW limit, NEW weight, NEW strict,
           FusedLexical(from, next, words, route, reps, limit, weight, strict)
    PROVE  Quiet
<1>1. \E docs : Route(from, next, AddRanked(cands, docs, route, weight, strict), {})
  BY Zenon DEF FusedLexical
<1>2. PICK docs : Route(from, next, AddRanked(cands, docs, route, weight, strict), {})
  BY <1>1
<1> QED
  BY <1>2, RankedGrows, PlainRouteIsQuiet, Zenon

\* The full-text route of the plan is quiet.
LEMMA LexicalIsQuiet == LexicalRoute => Quiet
BY FusedIsQuiet, SkipIsQuiet, Zenon DEF LexicalRoute, RouteStages

\* The knowledge route is quiet.
LEMMA KnowledgeIsQuiet == KnowledgeRoute => Quiet
BY FusedIsQuiet, SkipIsQuiet, Zenon DEF KnowledgeRoute, ArtifactRoute, RouteStages

\* The history route is quiet.
LEMMA HistoryIsQuiet == HistoryRoute => Quiet
BY FusedIsQuiet, SkipIsQuiet, Zenon DEF HistoryRoute, ArtifactRoute, RouteStages

\* The expansion by feedback is quiet.
LEMMA FeedbackIsQuiet == prf_expansion_pass => Quiet
BY FusedIsQuiet, SkipIsQuiet, Zenon DEF prf_expansion_pass, RouteStages

\* The routes that build their entries themselves.
LEMMA ExactSymbolIsQuiet == ExactSymbolRoute => Quiet
<1> DEFINE new == [i \in DOMAIN ExactSymbols |->
                      Entry(EntityKey(ExactSymbols[i]),
                            EntityHit(ExactSymbols[i], "Signature", "ExactSymbol", {}),
                            Rrf(200, i), TRUE)]
<1>1. WithKeys(new)
  BY DEF Entry, EntityKey, CandidateKey, WithKeys
<1>2. Grows(add_candidates(cands, new))
  BY <1>1, JoinGrows
<1> DEFINE map == IF ~Planned("ExactSymbol") THEN cands ELSE add_candidates(cands, new)
<1>3. Grows(map)
  BY <1>2, SameGrows, Zenon
<1>4. ASSUME ExactSymbolRoute PROVE Route("exact", "lexical", map, {})
  BY <1>4, Zenon DEF ExactSymbolRoute
<1>5. "exact" \in RouteStages /\ "lexical" \in RouteStages
  BY DEF RouteStages
<1> HIDE DEF map
<1> QED
  BY <1>3, <1>4, <1>5, PlainRouteIsQuiet, Zenon

\* The zoekt route is quiet, when the process fails too.
LEMMA ZoektIsQuiet == ZoektRoute => Quiet
<1>1. ASSUME NEW files PROVE Grows(ZoektCandidates(cands, files))
  <2> DEFINE matched == UNION {smallest_regions_for_lines(regions_for_path(live, p),
                             ZoektLines(WordsOf(request.query), p)) : p \in files}
             docs == Ordered(documents_for_regions(live, matched), <)
                     \o Ordered(file_descriptors_for_paths(live, files), <)
             rank(d) == Cardinality({p \in files : p <= Reg[Doc[d].region].path})
             new == [i \in DOMAIN docs |->
                        Entry(DocKey(docs[i]), DocHit(docs[i], "Zoekt"),
                              Rrf(100, rank(docs[i])), TRUE)]
  <2>1. ZoektCandidates(cands, files) = add_candidates(cands, new)
    BY Zenon DEF ZoektCandidates
  <2> HIDE DEF docs, rank
  <2>2. WithKeys(new)
    BY DEF Entry, DocKey, CandidateKey, WithKeys
  <2> QED
    BY <2>1, <2>2, JoinGrows, Zenon
<1> QED
  BY <1>1, PlainRouteIsQuiet, Zenon DEF ZoektRoute, RouteStages

\* Deciding whether patterns run is quiet.
LEMMA PatternRouteIsQuiet == PatternRoute => Quiet
BY DEF PatternRoute, Goto, Quiet, RouteStages

\* Scanning one more file for the pattern is quiet.
LEMMA PatternScanIsQuiet == PatternScan => Quiet
<1>1. ASSUME NEW p PROVE Grows(PatternHits(cands, p))
  BY DEF PatternHits, add_candidates, Entry, DocKey, CandidateKey, Grows
<1>2. ASSUME NEW p, PatternFile(p)
      PROVE  /\ Remarks(notes' \ notes)
             /\ stage' \in {stage, "failed"}
             /\ cands' = cands \/ cands' = PatternHits(cands, p)
  <2>1. Remarks(notes' \ notes)
    BY <1>2 DEF PatternFile, Remarks, Remark
  <2> QED
    BY <1>2, <2>1 DEF PatternFile, Fail
<1>3. ASSUME NEW p, PatternFile(p) PROVE Grows(cands')
  BY <1>1, <1>2, <1>3, SameGrows DEF Grows
<1> SUFFICES ASSUME PatternScan PROVE Quiet
  OBVIOUS
<1>4. /\ stage = "scan" /\ Remarks(notes' \ notes) /\ Grows(cands')
      /\ stage' \in {"scan", "knowledge", "failed"}
  <2>1. CASE queue = {}
    BY <2>1, SameGrows DEF PatternScan, Goto, Remarks, Grows
  <2>2. CASE queue # {}
    BY <2>2, <1>2, <1>3 DEF PatternScan
  <2> QED
    BY <2>1, <2>2
<1>5. UNCHANGED <<request, env, manifest, live, verified, plan_, frame, hits, verdict>>
  BY DEF PatternScan
<1> QED
  BY <1>4, <1>5 DEF Quiet, Remarks, Grows, RouteStages

\* The route over the diff is quiet.
LEMMA DiffIsQuiet == DiffRoute => Quiet
<1>1. Grows(DiffCandidates(cands))
  BY DEF DiffCandidates, add_candidates, Entry, DiffKey, CandidateKey, Grows
<1>2. Grows(IF Planned("Diff") THEN DiffCandidates(cands) ELSE cands)
  BY <1>1, SameGrows, Zenon
<1>4. Remarks({}) /\ Remarks({<<"diff_window", "">>})
  BY DEF Remarks, Remark
<1>3. Remarks(IF Planned("Diff") THEN {<<"diff_window", "">>} ELSE {})
  BY <1>4, Zenon
<1> QED
  BY <1>2, <1>3, <1>4, SameGrows, RouteIsQuiet, Zenon DEF DiffRoute, RouteStages

\* The dense route is quiet.
LEMMA DenseIsQuiet == DenseRoute => Quiet
<1>1. Grows(DenseCandidates(cands))
  <2> DEFINE docs == Take(DenseOrder, request.limit * 3)
             route(d) == IF Doc[d].rep \in {"RawCode", "TestBehavior"} THEN "DenseRaw"
                         ELSE "DenseSummary"
             ranks == SelectSeq([i \in DOMAIN docs |-> i],
                                LAMBDA i : docs[i] \in RowDocs(live))
             entry(i) == Entry(DocKey(docs[i]), DocHit(docs[i], route(docs[i])),
                               Rrf(representation_weight(Doc[docs[i]].rep), i), FALSE)
             new == [n \in DOMAIN ranks |-> entry(ranks[n])]
  <2>1. DenseCandidates(cands) = add_candidates(cands, new)
    BY Zenon DEF DenseCandidates
  <2> HIDE DEF docs, ranks
  <2>2. WithKeys(new)
    BY DEF Entry, DocKey, CandidateKey, WithKeys
  <2> QED
    BY <2>1, <2>2, JoinGrows, Zenon
<1>2. Remarks({}) /\ Remarks({<<"embedder", "">>})
  BY DEF Remarks, Remark
<1> QED
  BY <1>1, <1>2, SameGrows, RouteIsQuiet, Zenon DEF DenseRoute, RouteStages

\* Expansion, structural features and the flow pass.
LEMMA ExpandIsQuiet == Expand => Quiet
<1>1. ASSUME NEW found PROVE Grows(add_candidates(cands, Structural(found)))
  BY DEF Structural, add_candidates, Entry, EntityKey, CandidateKey, Grows
<1>2. ASSUME Expand PROVE Grows(cands')
  <2>1. cands' = cands \/ \E found : cands' = add_candidates(cands, Structural(found))
    BY <1>2, Zenon DEF Expand
  <2> QED
    BY <2>1, <1>1, SameGrows DEF Grows
<1>3. ASSUME Expand PROVE Remarks(notes' \ notes)
  <2>1. notes' \subseteq notes \cup {<<"no_graph", "">>, <<"no_dataflow", "">>}
    BY <1>3, Zenon DEF Expand
  <2>2. Remark(<<"no_graph", "">>) /\ Remark(<<"no_dataflow", "">>)
    BY DEF Remark
  <2> QED
    BY <2>1, <2>2, Zenon DEF Remarks
<1> QED
  BY <1>2, <1>3 DEF Expand, Goto, Quiet, Remarks, Grows, RouteStages

\* The structural features change scores and add no candidate.
LEMMA FeaturesAreQuiet == apply_structural_features => Quiet
<1>1. ASSUME NEW f, DOMAIN f = DOMAIN cands PROVE Grows(f)
  BY <1>1 DEF Grows
<1>2. apply_structural_features =>
         \E f : DOMAIN f = DOMAIN cands /\ Route("features", "flow", f, {})
  BY Zenon DEF apply_structural_features
<1> QED
  BY <1>1, <1>2, PlainRouteIsQuiet, Zenon DEF RouteStages

\* Seeding the graph pass is quiet.
LEMMA FlowSeedIsQuiet == FlowSeed => Quiet
BY DEF FlowSeed, Goto, Quiet, RouteStages

\* So is propagating,
LEMMA PropagateIsQuiet == Propagate => Quiet
BY DEF Propagate, Goto, Quiet, RouteStages

\* marking the candidates that two routes agree on,
LEMMA CorroborateIsQuiet == Corroborate => Quiet
<1>1. Corroborate => DOMAIN cands' = DOMAIN cands
  BY Zenon DEF Corroborate
<1> QED
  BY <1>1 DEF Corroborate, Goto, Quiet, RouteStages

\* and emitting what the flow reached.
LEMMA EmitIsQuiet == Emit => Quiet
<1>1. ASSUME NEW block, NEW boundary PROVE Grows(Emitted(cands, block, boundary))
  BY DEF Emitted, add_candidates, Entry, EmittedKey, CandidateKey, Grows
<1>2. Emit => cands' = cands \/ \E block, boundary : cands' = Emitted(cands, block, boundary)
  BY Zenon DEF Emit
<1>3. Emit => Grows(cands')
  BY <1>1, <1>2, SameGrows DEF Grows
<1> QED
  BY <1>3 DEF Emit, Goto, Quiet, Grows, RouteStages

\* The steps of a search: quiet ones, and those that decide something.
LEMMA SearchSteps ==
    ASSUME SearchStep
    PROVE  \/ ResolveIndex \/ LiteralGate \/ DefinitionGate \/ RelationGate \/ HistoryGate
           \/ Quiet \/ StrictGate \/ RankCandidates \/ SelectHit \/ Rerank \/ Report
BY ExactSymbolIsQuiet, LexicalIsQuiet, ZoektIsQuiet, PatternRouteIsQuiet, PatternScanIsQuiet,
   KnowledgeIsQuiet, HistoryIsQuiet, DiffIsQuiet, DenseIsQuiet, FeedbackIsQuiet,
   ExpandIsQuiet, FeaturesAreQuiet, FlowSeedIsQuiet, PropagateIsQuiet, CorroborateIsQuiet,
   EmitIsQuiet, Zenon DEF SearchStep

(***************************************************************************)
(* Lists and least elements.                                               *)
(***************************************************************************)
IsList(s) == s \in Seq(Range(s))

\* The empty list is a list.
LEMMA EmptyList == IsList(<<>>)
BY DEF IsList

\* Appending an entry keeps the old ones at their places.
LEMMA ListAppend ==
    ASSUME NEW s, IsList(s), NEW e
    PROVE  /\ IsList(Append(s, e)) /\ Len(Append(s, e)) = Len(s) + 1
           /\ DOMAIN Append(s, e) = DOMAIN s \cup {Len(s) + 1} /\ Len(s) + 1 \notin DOMAIN s
           /\ \A i \in DOMAIN s : Append(s, e)[i] = s[i]
           /\ Append(s, e)[Len(s) + 1] = e
<1> DEFINE T == Range(s) \cup {e}
<1>1. s \in Seq(T) /\ e \in T
  BY DEF IsList
<1>2. /\ Append(s, e) \in Seq(T) /\ Len(Append(s, e)) = Len(s) + 1
      /\ \A i \in 1..Len(s) : Append(s, e)[i] = s[i]
      /\ Append(s, e)[Len(s) + 1] = e /\ Len(s) \in Nat /\ DOMAIN s = 1..Len(s)
  <2> HIDE DEF T
  <2> QED BY <1>1
<1>3. Append(s, e) \in Seq(Range(Append(s, e)))
  BY <1>2 DEF Range
<1> QED
  BY <1>2, <1>3 DEF IsList

\* Rewriting the entries of a list one by one keeps its length.
LEMMA ListMap ==
    ASSUME NEW s, IsList(s), NEW t, t = [i \in DOMAIN s |-> t[i]]
    PROVE  IsList(t) /\ Len(t) = Len(s) /\ DOMAIN t = DOMAIN s
<1>1. Len(s) \in Nat /\ DOMAIN s = 1..Len(s)
  BY DEF IsList
<1>2. t \in [1..Len(s) -> Range(t)]
  BY <1>1 DEF Range
<1>3. t \in Seq(Range(t)) /\ Len(t) = Len(s)
  BY <1>1, <1>2
<1> QED
  BY <1>1, <1>2, <1>3 DEF IsList

\* A list has the positions 1 to its length.
LEMMA ListShape ==
    ASSUME NEW s, IsList(s)
    PROVE  Len(s) \in Nat /\ DOMAIN s = 1..Len(s)
BY DEF IsList

\* A set of numbers that is not empty has a least element.
LEMMA Least ==
    ASSUME NEW T \in SUBSET Nat, T # {}
    PROVE  \E x \in T : \A y \in T : x <= y
<1> DEFINE R == OpToRel(<, Nat)
<1>1. IsWellFoundedOn(R, Nat)
  BY NatLessThanWellFounded
<1>2. \E x \in T : \A y \in T : ~(<<y, x>> \in R)
  BY <1>1, WFMin
<1>3. ASSUME NEW x \in T, NEW y \in T, x > y PROVE <<y, x>> \in R
  BY <1>3 DEF OpToRel
<1>4. \A x, y \in T : x <= y \/ x > y
  OBVIOUS
<1> HIDE DEF R
<1> QED
  BY <1>2, <1>3, <1>4

\* So the first n of a set of numbers are none only if the set is empty.
LEMMA FirstOfSome ==
    ASSUME NEW S \in SUBSET Nat, NEW n \in Nat \ {0}, FirstOf(S, n) = {}
    PROVE  S = {}
<1> SUFFICES ASSUME S # {} PROVE FALSE
  OBVIOUS
<1>1. PICK x \in S : \A y \in S : x <= y
  BY Least
<1>2. {y \in S : y < x} = {}
  <2>1. \A y \in S : ~(y < x)
    BY <1>1
  <2> QED
    BY <2>1, Zenon
<1>3. Cardinality({y \in S : y < x}) < n
  BY <1>2, FS_EmptySet
<1> QED
  BY <1>3 DEF FirstOf, FirstBy

(***************************************************************************)
(* The hit list.                                                           *)
(***************************************************************************)
\* A hit has the fields of a hit, and the place of the candidate it shows.
Shaped(h) ==
    h = [key |-> h.key, entity |-> h.entity, region |-> h.region, path |-> h.path,
         span |-> h.span, rep |-> h.rep, evidence |-> h.evidence, route |-> h.route,
         routes |-> h.routes, current |-> h.current, terms |-> h.terms, strict |-> h.strict,
         score |-> h.score]
Listed(h) ==
    /\ Shaped(h)
    /\ h.key \in DOMAIN cands
    /\ h.region = cands[h.key].region /\ h.path = cands[h.key].path
    /\ h.span = cands[h.key].span

ListInv ==
    /\ IsList(hits)
    /\ stage \notin {"select", "report", "done"} => hits = <<>>
    /\ \A i \in DOMAIN hits : Listed(hits[i])
    /\ stage = "select" => \A c \in queue : Listed(c.hit)
    /\ \A k \in DOMAIN cands : CandidateKey(k)

\* The steps before the list is there leave it empty.
LEMMA EarlyKeepsListInv ==
    ASSUME ListInv, \/ ResolveIndex \/ LiteralGate \/ DefinitionGate \/ RelationGate
                    \/ HistoryGate \/ Quiet \/ StrictGate \/ Prune
    PROVE  ListInv'
<1>1. CASE Prune
  BY <1>1 DEF Prune, ListInv, Listed, Shaped, IsList
<1>2. CASE Quiet
  BY <1>2 DEF Quiet, ListInv, Listed, Shaped, IsList, RouteStages, CandidateKey
<1>3. CASE StrictGate
  BY <1>3 DEF StrictGate, Route, Goto, ListInv, Listed, Shaped, IsList, CandidateKey
<1>4. CASE ResolveIndex
  BY <1>4 DEF ResolveIndex, Goto, Fail, ListInv, Listed, Shaped, IsList, CandidateKey
<1>5. CASE LiteralGate \/ DefinitionGate \/ RelationGate \/ HistoryGate
  BY <1>5 DEF LiteralGate, DefinitionGate, RelationGate, HistoryGate, Gate, abstain_result,
     Goto, ListInv, Listed, Shaped, IsList, CandidateKey
<1> QED
  BY <1>1, <1>2, <1>3, <1>4, <1>5

\* The same hit, found by more routes.
Rerouted(g, h) ==
    /\ Shaped(g)
    /\ g.key = h.key /\ g.entity = h.entity /\ g.region = h.region /\ g.path = h.path
    /\ g.span = h.span /\ h.routes \subseteq g.routes

\* A hit with more routes is the same hit, rerouted.
LEMMA ReroutedExcept ==
    ASSUME NEW h, Shaped(h), NEW R
    PROVE  Rerouted([h EXCEPT !.routes = @ \cup R], h)
<1> DEFINE g == [h EXCEPT !.routes = @ \cup R]
<1>1. DOMAIN h = {"key", "entity", "region", "path", "span", "rep", "evidence", "route",
                  "routes", "current", "terms", "strict", "score"}
  BY Zenon DEF Shaped
<1>2. /\ g.key = h.key /\ g.entity = h.entity /\ g.region = h.region /\ g.path = h.path
      /\ g.rep = h.rep /\ g.evidence = h.evidence /\ g.route = h.route
      /\ g.current = h.current /\ g.terms = h.terms /\ g.strict = h.strict
      /\ g.span = h.span /\ g.score = h.score /\ g.routes = h.routes \cup R
  BY <1>1
<1>3. Shaped(g)
  BY <1>2 DEF Shaped
<1> QED
  BY <1>2, <1>3 DEF Rerouted

\* And it is still the hit of its candidate.
LEMMA ReroutedListed ==
    ASSUME NEW h, Listed(h), NEW g, Rerouted(g, h)
    PROVE  Listed(g)
BY DEF Listed, Rerouted

\* What judging a candidate makes of the list.
LEMMA JudgedList ==
    ASSUME ListInv, NEW h, Listed(h)
    PROVE  \/ Judged(h) = hits
           \/ /\ IsList(Judged(h)) /\ DOMAIN Judged(h) = DOMAIN hits
              /\ Len(Judged(h)) = Len(hits)
              /\ \A i \in DOMAIN hits : Judged(h)[i] = hits[i] \/ Rerouted(Judged(h)[i], hits[i])
           \/ Judged(h) = Append(hits, h) /\ SamePlace(h) = {} /\ ~Capped(h)
<1> DEFINE merged == [i \in DOMAIN hits |->
                         IF i \in SamePlace(h) THEN [hits[i] EXCEPT !.routes = @ \cup h.routes]
                         ELSE hits[i]]
<1>1. \/ Judged(h) = hits \/ Judged(h) = merged
      \/ Judged(h) = Append(hits, h) /\ SamePlace(h) = {} /\ ~Capped(h)
  BY Zenon DEF Judged
<1>2. IsList(merged) /\ Len(merged) = Len(hits) /\ DOMAIN merged = DOMAIN hits
  <2>1. merged = [i \in DOMAIN hits |-> merged[i]]
    OBVIOUS
  <2> QED
    BY <2>1, ListMap, Zenon DEF ListInv
<1>3. ASSUME NEW i \in DOMAIN hits PROVE merged[i] = hits[i] \/ Rerouted(merged[i], hits[i])
  <2>1. Rerouted([hits[i] EXCEPT !.routes = @ \cup h.routes], hits[i])
    BY ReroutedExcept, Zenon DEF ListInv, Listed
  <2> QED
    BY <2>1, Zenon
<1> HIDE DEF merged
<1> QED
  BY <1>1, <1>2, <1>3, Zenon

\* Ranking turns candidates into hits of the same place.
LEMMA RankedHitListed ==
    ASSUME NEW k \in DOMAIN cands, NEW bonus
    PROVE  Listed(HitOf(k, bonus))
<1> DEFINE h == HitOf(k, bonus)
<1>1. Shaped(h)
  BY DEF HitOf, Shaped
<1> QED
  BY <1>1 DEF HitOf, Listed

\* Ranking starts with an empty list,
LEMMA RankKeepsListInv == ASSUME ListInv, RankCandidates PROVE ListInv'
<1>1. stage = "rank" /\ stage' = "select" /\ hits' = hits /\ cands' = cands
  BY DEF RankCandidates, Goto
<1>2. ASSUME NEW c \in queue' PROVE Listed(c.hit)
  <2>1. \E bonus : \E k \in DOMAIN cands : c.hit = HitOf(k, bonus)
    BY <1>2 DEF RankCandidates
  <2> QED
    BY <2>1, RankedHitListed
<1> QED
  BY <1>1, <1>2 DEF ListInv, Listed, Shaped, IsList

\* selecting appends the hit of a candidate that was not selected yet,
LEMMA SelectKeepsListInv == ASSUME ListInv, SelectHit PROVE ListInv'
<1>1. stage = "select" /\ stage' = "select" /\ cands' = cands
  BY DEF SelectHit
<1>2. PICK c \in queue : hits' = Judged(c.hit)
  BY Zenon DEF SelectHit
<1>3. queue' \subseteq queue
  BY DEF SelectHit
<1>4. Listed(c.hit)
  BY <1>1, <1>2 DEF ListInv
<1>5. IsList(hits') /\ \A i \in DOMAIN hits' : Listed(hits'[i])
  <2>1. CASE hits' = hits
    BY <2>1 DEF ListInv, IsList
  <2>2. CASE /\ IsList(hits') /\ DOMAIN hits' = DOMAIN hits
             /\ \A i \in DOMAIN hits : hits'[i] = hits[i] \/ Rerouted(hits'[i], hits[i])
    BY <2>2, ReroutedListed DEF ListInv
  <2>3. CASE hits' = Append(hits, c.hit)
    BY <2>3, <1>4, ListAppend DEF ListInv
  <2> QED
    BY <1>2, <1>4, <2>1, <2>2, <2>3, JudgedList, Zenon
<1>6. ASSUME NEW h, Listed(h) PROVE Listed(h)'
  BY <1>1, <1>6 DEF Listed, Shaped
<1> QED
  BY <1>1, <1>3, <1>5 DEF ListInv, Listed, Shaped, IsList

\* A reordering fetches every slot from a slot of its own and touches the
\* topical slots only.
Fetches(order, i) == IF i \in TopicalSlots THEN order[i] ELSE i

\* The reranker permutes: every position of the new list shows the hit of one
\* position of the old, each is shown once, and none but a topical one moves.
LEMMA RerankFetches ==
    ASSUME ListInv, NEW order \in Bijection(TopicalSlots, TopicalSlots)
    PROVE  /\ IsList(Permuted(order)) /\ Len(Permuted(order)) = Len(hits)
           /\ DOMAIN Permuted(order) = DOMAIN hits
           /\ \A i \in DOMAIN hits : /\ Fetches(order, i) \in DOMAIN hits
                                     /\ \/ Permuted(order)[i] = hits[Fetches(order, i)]
                                        \/ Rerouted(Permuted(order)[i], hits[Fetches(order, i)])
           /\ \A i, j \in DOMAIN hits : Fetches(order, i) = Fetches(order, j) => i = j
           /\ \A i \in DOMAIN hits : \E j \in DOMAIN hits : Fetches(order, j) = i
<1>1. TopicalSlots \subseteq DOMAIN hits
  BY DEF TopicalSlots, FirstOf, FirstBy
<1>2. /\ order \in [TopicalSlots -> TopicalSlots]
      /\ \A a, b \in TopicalSlots : order[a] = order[b] => a = b
      /\ \A t \in TopicalSlots : \E s \in TopicalSlots : order[s] = t
  BY DEF Bijection, Injection, Surjection, IsInjective
<1>3. ASSUME NEW i \in DOMAIN hits
      PROVE  /\ Fetches(order, i) \in DOMAIN hits
             /\ \/ Permuted(order)[i] = hits[Fetches(order, i)]
                \/ Rerouted(Permuted(order)[i], hits[Fetches(order, i)])
  <2>1. CASE i \in TopicalSlots
    <3>1. order[i] \in DOMAIN hits /\ Fetches(order, i) = order[i]
      BY <1>1, <1>2, <2>1 DEF Fetches
    <3>2. Permuted(order)[i] = [hits[order[i]] EXCEPT !.routes = @ \cup {"Reranked"}]
      BY <2>1 DEF Permuted
    <3>3. Shaped(hits[order[i]])
      BY <3>1 DEF ListInv, Listed
    <3> QED
      BY <3>1, <3>2, <3>3, ReroutedExcept
  <2>2. CASE i \notin TopicalSlots
    BY <2>2 DEF Permuted, Fetches
  <2> QED
    BY <2>1, <2>2
<1>4. IsList(Permuted(order)) /\ Len(Permuted(order)) = Len(hits)
      /\ DOMAIN Permuted(order) = DOMAIN hits
  <2>1. Permuted(order) = [i \in DOMAIN hits |-> Permuted(order)[i]]
    BY DEF Permuted
  <2> QED
    BY <2>1, ListMap, Zenon DEF ListInv
<1>5. \A i, j \in DOMAIN hits : Fetches(order, i) = Fetches(order, j) => i = j
  BY <1>2 DEF Fetches
<1>6. \A i \in DOMAIN hits : \E j \in DOMAIN hits : Fetches(order, j) = i
  BY <1>1, <1>2 DEF Fetches
<1> QED
  BY <1>3, <1>4, <1>5, <1>6

\* Reranking either leaves the list alone or permutes it.
LEMMA RerankEffect ==
    ASSUME Rerank
    PROVE  /\ stage = "select" /\ stage' = "report" /\ cands' = cands
           /\ request' = request /\ env' = env /\ live' = live /\ plan_' = plan_
           /\ frame' = frame /\ flow' = flow /\ queue' = queue
           /\ \A n \in notes' : n \in notes \/ Remark(n)
           /\ \/ hits' = hits
              \/ /\ env.reranker = "ready"
                 /\ \E order \in Bijection(TopicalSlots, TopicalSlots) : hits' = Permuted(order)
<1>1. \A n \in notes' : n \in notes \/ Remark(n)
  BY DEF Rerank, Remark
<1> QED
  BY <1>1, Zenon DEF Rerank, Goto

\* so reranking keeps the list invariant,
LEMMA RerankKeepsListInv == ASSUME ListInv, Rerank PROVE ListInv'
<1>1. stage = "select" /\ stage' = "report" /\ cands' = cands
  BY RerankEffect
<1>2. IsList(hits') /\ \A i \in DOMAIN hits' : Listed(hits'[i])
  <2>1. CASE hits' = hits
    BY <2>1 DEF ListInv, IsList
  <2>2. ASSUME NEW order \in Bijection(TopicalSlots, TopicalSlots), hits' = Permuted(order)
        PROVE  IsList(hits') /\ \A i \in DOMAIN hits' : Listed(hits'[i])
    BY <2>2, RerankFetches, ReroutedListed DEF ListInv
  <2> QED
    BY <2>1, <2>2, RerankEffect
<1> QED
  BY <1>1, <1>2 DEF ListInv, Listed, Shaped, IsList

\* and the report changes no hit.
LEMMA ReportKeepsListInv == ASSUME ListInv, Report PROVE ListInv'
BY DEF Report, Goto, ListInv, Listed, Shaped, IsList

\* Seen from the search, every step of a request is one of its own steps, a
\* prune, or none.
LEMMA StepOfSearch == ASSUME [Next]_vars PROVE SearchStep \/ Prune \/ UNCHANGED searchVars
<1>1. PackStep => UNCHANGED searchVars
  BY Zenon DEF PackStep, StartLinks, LinkSubject, InsertSubject, StartPack, PackRole,
     StartFill, PackFill, FinishPack
<1> QED
  BY <1>1 DEF Next, Work, Retention, Done, vars, searchVars

\* Only the selection and the reranker change the list.
LEMMA StepOfList == ASSUME [Next]_vars PROVE SelectHit \/ Rerank \/ hits' = hits
<1>1. CASE SearchStep
  BY <1>1, SearchSteps DEF ResolveIndex, LiteralGate, DefinitionGate, RelationGate,
     HistoryGate, Gate, Quiet, StrictGate, Route, RankCandidates, Report
<1> QED
  BY <1>1, StepOfSearch DEF Prune, searchVars

\* Every step keeps the list invariant.
LEMMA NextKeepsListInv == ASSUME ListInv, [Next]_vars PROVE ListInv'
<1>1. CASE SearchStep
  BY <1>1, SearchSteps, EarlyKeepsListInv, RankKeepsListInv, SelectKeepsListInv,
     RerankKeepsListInv, ReportKeepsListInv, Zenon
<1>2. CASE Prune
  BY <1>2, EarlyKeepsListInv, Zenon
<1>3. CASE UNCHANGED searchVars
  BY <1>3 DEF searchVars, ListInv, Listed, Shaped, IsList
<1> QED
  BY <1>1, <1>2, <1>3, StepOfSearch

\* A search starts with no hits.
LEMMA InitListInv == ASSUME Init PROVE ListInv
BY EmptyList DEF Init, SearchInit, ListInv

\* The hit list is a list of candidates, empty until the selection.
THEOREM ListInvariant == Spec => []ListInv
<1>1. Init => ListInv
  BY InitListInv
<1>2. ListInv /\ [Next]_vars => ListInv'
  BY NextKeepsListInv
<1> QED
  BY <1>1, <1>2, PTL DEF Spec

-----------------------------------------------------------------------------
\* No two hits show one place: a candidate is appended only when no hit shows
\* its place, and merging and reranking move hits without changing theirs.
LEMMA SamePlaceKey ==
    ASSUME NEW g, NEW h, g = h \/ Rerouted(g, h)
    PROVE  RegionKey(g) = RegionKey(h)
BY DEF RegionKey, Rerouted

\* Every step keeps the hits at distinct places.
LEMMA NextKeepsOnePlace ==
    ASSUME ListInv, OnePlacePerHit, [Next]_vars PROVE OnePlacePerHit'
<1>1. CASE hits' = hits
  BY <1>1 DEF OnePlacePerHit, RegionKey
<1>2. CASE SelectHit
  <2>1. PICK c \in queue : hits' = Judged(c.hit)
    BY <1>2, Zenon DEF SelectHit
  <2>2. Listed(c.hit)
    BY <1>2, <2>1 DEF ListInv, SelectHit
  <2>3. CASE /\ DOMAIN hits' = DOMAIN hits
             /\ \A i \in DOMAIN hits : hits'[i] = hits[i] \/ Rerouted(hits'[i], hits[i])
    <3>1. \A i \in DOMAIN hits : RegionKey(hits'[i]) = RegionKey(hits[i])
      BY <2>3, SamePlaceKey
    <3>2. \A i, j \in DOMAIN hits' : RegionKey(hits'[i]) = RegionKey(hits'[j]) => i = j
      BY <2>3, <3>1 DEF OnePlacePerHit
    <3> QED
      BY <3>2 DEF OnePlacePerHit, RegionKey
  <2>4. CASE hits' = Append(hits, c.hit) /\ SamePlace(c.hit) = {}
    <3>1. \A i \in DOMAIN hits : RegionKey(hits[i]) # RegionKey(c.hit)
      BY <2>4 DEF SamePlace
    <3>2. /\ DOMAIN hits' = DOMAIN hits \cup {Len(hits) + 1}
          /\ \A i \in DOMAIN hits : hits'[i] = hits[i]
          /\ hits'[Len(hits) + 1] = c.hit
      BY <2>4, ListAppend DEF ListInv
    <3>3. \A i, j \in DOMAIN hits' : RegionKey(hits'[i]) = RegionKey(hits'[j]) => i = j
      BY <3>1, <3>2 DEF OnePlacePerHit
    <3> QED
      BY <3>3 DEF OnePlacePerHit, RegionKey
  <2> QED
    BY <1>1, <2>1, <2>2, <2>3, <2>4, JudgedList, Zenon
<1>3. ASSUME NEW order \in Bijection(TopicalSlots, TopicalSlots), hits' = Permuted(order)
      PROVE  OnePlacePerHit'
  <2>1. /\ DOMAIN hits' = DOMAIN hits
        /\ \A i \in DOMAIN hits : /\ Fetches(order, i) \in DOMAIN hits
                                  /\ RegionKey(hits'[i]) = RegionKey(hits[Fetches(order, i)])
        /\ \A i, j \in DOMAIN hits : Fetches(order, i) = Fetches(order, j) => i = j
    BY <1>3, RerankFetches, SamePlaceKey
  <2>2. \A i, j \in DOMAIN hits' : RegionKey(hits'[i]) = RegionKey(hits'[j]) => i = j
    BY <2>1 DEF OnePlacePerHit
  <2> QED
    BY <2>2 DEF OnePlacePerHit, RegionKey
<1>4. CASE Rerank
  BY <1>1, <1>3, <1>4, RerankEffect
<1> QED
  BY <1>1, <1>2, <1>4, StepOfList

\* The hit list never shows a place twice (OnePlacePerHit).
THEOREM HitsShowDistinctPlaces == Spec => []OnePlacePerHit
<1>1. Init => OnePlacePerHit
  BY DEF Init, SearchInit, OnePlacePerHit
<1>2. ListInv /\ OnePlacePerHit /\ [Next]_vars => OnePlacePerHit'
  BY NextKeepsOnePlace
<1> QED
  BY <1>1, <1>2, ListInvariant, PTL DEF Spec

-----------------------------------------------------------------------------
\* A file keeps to its share of the head: a hit is appended below the cap of
\* its slot, and merging only adds routes.
Diverse ==
    \A i \in DOMAIN hits :
        hits[i].path # None /\ "ExactSymbol" \notin hits[i].routes =>
            Cardinality({j \in 1..(i - 1) : hits[j].path = hits[i].path}) < per_file_cap(i - 1)
DiverseInv == env.reranker # "ready" => Diverse

\* Every step keeps the head of an unreranked list diverse.
LEMMA NextKeepsDiverse == ASSUME ListInv, DiverseInv, [Next]_vars PROVE DiverseInv'
<1>1. env' = env
  <2>1. CASE SearchStep
    BY <2>1, SearchSteps DEF ResolveIndex, LiteralGate, DefinitionGate, RelationGate,
       HistoryGate, Gate, Quiet, StrictGate, Route, RankCandidates, SelectHit, Rerank, Report
  <2> QED
    BY <2>1, StepOfSearch DEF Prune, searchVars
<1> SUFFICES ASSUME env.reranker # "ready", Diverse PROVE Diverse'
  BY <1>1 DEF DiverseInv
<1>2. CASE hits' = hits
  BY <1>2 DEF Diverse, per_file_cap
<1>3. CASE Rerank
  BY <1>2, <1>3, RerankEffect
<1>4. CASE SelectHit
  <2>1. PICK c \in queue : hits' = Judged(c.hit)
    BY <1>4, Zenon DEF SelectHit
  <2>2. Listed(c.hit)
    BY <1>4, <2>1 DEF ListInv, SelectHit
  <2>3. CASE /\ DOMAIN hits' = DOMAIN hits
             /\ \A i \in DOMAIN hits : hits'[i] = hits[i] \/ Rerouted(hits'[i], hits[i])
    <3>1. \A i \in DOMAIN hits : /\ hits'[i].path = hits[i].path
                                 /\ hits[i].routes \subseteq hits'[i].routes
      BY <2>3 DEF Rerouted
    <3> SUFFICES ASSUME NEW i \in DOMAIN hits', hits'[i].path # None,
                        "ExactSymbol" \notin hits'[i].routes
                 PROVE  Cardinality({j \in 1..(i - 1) : hits'[j].path = hits'[i].path})
                            < per_file_cap(i - 1)
      BY DEF Diverse, per_file_cap
    <3>2. i \in 1..Len(hits) /\ Len(hits) \in Nat /\ DOMAIN hits = 1..Len(hits)
      BY <2>3, ListShape DEF ListInv
    <3>3. \A j \in 1..(i - 1) : hits'[j].path = hits[j].path
      BY <3>1, <3>2
    <3>4. {j \in 1..(i - 1) : hits'[j].path = hits'[i].path}
             = {j \in 1..(i - 1) : hits[j].path = hits[i].path}
      BY <2>3, <3>1, <3>3
    <3> QED
      BY <2>3, <3>1, <3>4 DEF Diverse
  <2>4. CASE hits' = Append(hits, c.hit) /\ ~Capped(c.hit)
    <3> SUFFICES ASSUME NEW i \in DOMAIN hits', hits'[i].path # None,
                        "ExactSymbol" \notin hits'[i].routes
                 PROVE  Cardinality({j \in 1..(i - 1) : hits'[j].path = hits'[i].path})
                            < per_file_cap(i - 1)
      BY DEF Diverse, per_file_cap
    <3>1. /\ DOMAIN hits' = DOMAIN hits \cup {Len(hits) + 1}
          /\ \A j \in DOMAIN hits : hits'[j] = hits[j]
          /\ hits'[Len(hits) + 1] = c.hit
          /\ Len(hits) \in Nat /\ DOMAIN hits = 1..Len(hits)
      BY <2>4, ListAppend, ListShape DEF ListInv
    <3>2. CASE i \in DOMAIN hits
      <4>1. \A j \in 1..(i - 1) : hits'[j] = hits[j]
        BY <3>1, <3>2
      <4>2. {j \in 1..(i - 1) : hits'[j].path = hits'[i].path}
               = {j \in 1..(i - 1) : hits[j].path = hits[i].path}
        BY <3>1, <3>2, <4>1
      <4> QED
        BY <3>1, <3>2, <4>2 DEF Diverse
    <3>3. CASE i = Len(hits) + 1
      <4>1. {j \in 1..(i - 1) : hits'[j].path = hits'[i].path} = HitsOf(c.hit.path)
        BY <3>1, <3>3 DEF HitsOf
      <4>2. ~(Cardinality(HitsOf(c.hit.path)) >= per_file_cap(Len(hits)))
        BY <2>4, <3>1, <3>3 DEF Capped
      <4>3. Cardinality(HitsOf(c.hit.path)) \in Nat /\ per_file_cap(Len(hits)) \in Nat
        <5>1. IsFiniteSet(1..Len(hits))
          BY <3>1, FS_Interval
        <5>2. IsFiniteSet(HitsOf(c.hit.path))
          BY <3>1, <5>1, FS_Subset DEF HitsOf
        <5> QED
          BY <5>2, FS_CardinalityType DEF per_file_cap
      <4>4. i - 1 = Len(hits)
        BY <3>1, <3>3
      <4>5. Cardinality(HitsOf(c.hit.path)) < per_file_cap(Len(hits))
        BY <4>2, <4>3
      <4> QED
        BY <4>1, <4>4, <4>5, Zenon
    <3> QED
      BY <3>1, <3>2, <3>3
  <2> QED
    BY <1>2, <2>1, <2>2, <2>3, <2>4, JudgedList, Zenon
<1> QED
  BY <1>2, <1>3, <1>4, StepOfList

\* No file takes more of the head than the window allows, until a reranker
\* permutes the list (HeadIsDiverse).
THEOREM HeadsAreDiverse == Spec => []HeadIsDiverse
<1>1. Init => DiverseInv
  BY DEF Init, SearchInit, DiverseInv, Diverse
<1>2. ListInv /\ DiverseInv /\ [Next]_vars => DiverseInv'
  BY NextKeepsDiverse
<1>3. DiverseInv => HeadIsDiverse
  BY DEF DiverseInv, Diverse, HeadIsDiverse
<1> QED
  BY <1>1, <1>2, <1>3, ListInvariant, PTL DEF Spec

-----------------------------------------------------------------------------
\* The reranker moves topical hits only, and loses and repeats nothing
\* (RerankKeepsEvidence).
LEMMA RerankKeepsHits ==
    ASSUME ListInv, Rerank
    PROVE  /\ KeysOf(hits') = KeysOf(hits) /\ Len(hits') = Len(hits)
           /\ \A i \in DOMAIN hits : ~Topical(hits[i]) => hits'[i] = hits[i]
<1>1. CASE hits' = hits
  BY <1>1 DEF KeysOf
<1>2. ASSUME NEW order \in Bijection(TopicalSlots, TopicalSlots), hits' = Permuted(order)
      PROVE  /\ KeysOf(hits') = KeysOf(hits) /\ Len(hits') = Len(hits)
             /\ \A i \in DOMAIN hits : ~Topical(hits[i]) => hits'[i] = hits[i]
  <2>1. /\ DOMAIN hits' = DOMAIN hits /\ Len(hits') = Len(hits)
        /\ \A i \in DOMAIN hits : /\ Fetches(order, i) \in DOMAIN hits
                                  /\ hits'[i].key = hits[Fetches(order, i)].key
        /\ \A i \in DOMAIN hits : \E j \in DOMAIN hits : Fetches(order, j) = i
    BY <1>2, RerankFetches DEF Rerouted
  <2>2. KeysOf(hits') \subseteq KeysOf(hits)
    <3>1. ASSUME NEW i \in DOMAIN hits' PROVE \E j \in DOMAIN hits : hits[j].key = hits'[i].key
      BY <2>1
    <3> QED
      BY <3>1, Zenon DEF KeysOf
  <2>3. KeysOf(hits) \subseteq KeysOf(hits')
    <3>1. ASSUME NEW i \in DOMAIN hits PROVE \E j \in DOMAIN hits' : hits'[j].key = hits[i].key
      <4>1. PICK j \in DOMAIN hits : Fetches(order, j) = i
        BY <2>1, Zenon
      <4>2. j \in DOMAIN hits' /\ hits'[j].key = hits[i].key
        BY <2>1, <4>1, Zenon
      <4> QED
        BY <4>2, Zenon
    <3> QED
      BY <3>1, Zenon DEF KeysOf
  <2>4. \A i \in DOMAIN hits : ~Topical(hits[i]) => i \notin TopicalSlots
    BY DEF TopicalSlots, FirstOf, FirstBy
  <2> QED
    BY <1>2, <2>1, <2>2, <2>3, <2>4 DEF Permuted
<1> QED
  BY <1>1, <1>2, RerankEffect

\* Only the reranker ends the selection.
THEOREM RerankingKeepsEvidence == Spec => RerankKeepsEvidence
<1>1. ListInv /\ [Next]_vars =>
        [stage = "select" /\ stage' = "report" =>
           /\ KeysOf(hits') = KeysOf(hits) /\ Len(hits') = Len(hits)
           /\ \A i \in DOMAIN hits : ~Topical(hits[i]) => hits'[i] = hits[i]]_vars
  <2> SUFFICES ASSUME ListInv, [Next]_vars, stage = "select", stage' = "report"
               PROVE  Rerank
    BY RerankKeepsHits, Zenon
  <2>1. ~Prune /\ ~UNCHANGED searchVars
    BY DEF Prune, searchVars
  <2>2. SearchStep
    BY <2>1, StepOfSearch
  <2> QED
    BY <2>2, SearchSteps DEF ResolveIndex, LiteralGate, DefinitionGate, RelationGate,
       HistoryGate, Gate, Quiet, RouteStages, StrictGate, Route, RankCandidates, SelectHit,
       Report
<1> QED
  BY <1>1, ListInvariant, PTL DEF Spec, RerankKeepsEvidence

-----------------------------------------------------------------------------
\* A list that is not empty was selected from candidates some of which are
\* literal evidence.
Evidence == \E k \in DOMAIN cands : cands[k].strict
EvidenceInv ==
    /\ stage = "rank" => cands = <<>> \/ Evidence
    /\ stage = "select" /\ queue # {} => Evidence
    /\ hits # <<>> => Evidence

\* Every step keeps the evidence that a hit requires.
LEMMA NextKeepsEvidence == ASSUME ListInv, EvidenceInv, [Next]_vars PROVE EvidenceInv'
<1>1. CASE ResolveIndex \/ LiteralGate \/ DefinitionGate \/ RelationGate \/ HistoryGate
  BY <1>1 DEF ListInv, EvidenceInv, ResolveIndex, LiteralGate, DefinitionGate, RelationGate,
     HistoryGate, Gate, abstain_result, Goto, Fail
<1>2. CASE Quiet
  BY <1>2 DEF ListInv, EvidenceInv, Quiet, RouteStages
<1>3. CASE StrictGate
  BY <1>3 DEF ListInv, EvidenceInv, Evidence, StrictGate, Route, Goto
<1>4. CASE RankCandidates
  BY <1>4 DEF ListInv, EvidenceInv, Evidence, RankCandidates, Goto
<1>5. CASE SelectHit
  BY <1>5 DEF EvidenceInv, Evidence, SelectHit
<1>6. CASE Rerank
  <2>1. hits' # <<>> => hits # <<>>
    BY <1>6, RerankKeepsHits DEF ListInv, IsList, KeysOf
  <2> QED
    BY <1>6, <2>1, RerankEffect DEF EvidenceInv, Evidence
<1>7. CASE Report
  BY <1>7 DEF EvidenceInv, Evidence, Report, Goto
<1>8. CASE Prune \/ UNCHANGED searchVars
  BY <1>8 DEF EvidenceInv, Evidence, Prune, searchVars
<1> QED
  BY <1>1, <1>2, <1>3, <1>4, <1>5, <1>6, <1>7, <1>8, StepOfSearch, SearchSteps

\* Inferred vicinity alone is never an answer (AnswersHaveEvidence).
THEOREM AnswersRestOnEvidence == Spec => []AnswersHaveEvidence
<1>1. Init => EvidenceInv
  BY DEF Init, SearchInit, EvidenceInv
<1>2. ListInv /\ EvidenceInv /\ [Next]_vars => EvidenceInv'
  BY NextKeepsEvidence
<1>3. EvidenceInv => AnswersHaveEvidence
  BY DEF EvidenceInv, Evidence, AnswersHaveEvidence
<1> QED
  BY <1>1, <1>2, <1>3, ListInvariant, PTL DEF Spec

-----------------------------------------------------------------------------
\* The claim is the same, whatever words of it distinguish the corpus.
SameClaim == frame' = frame \/ \E rare : frame' = [frame EXCEPT !.rare = rare]

\* The gates are the only steps that write an abstention, but for the strict
\* gate, which infers nothing about the past.
LEMMA GateNotes ==
    ASSUME NEW here, NEW next, NEW applies, NEW refuted, NEW reason,
           Gate(here, next, applies, refuted, reason)
    PROVE  /\ plan_' = plan_ /\ live' = live /\ env' = env
           /\ notes' = notes \/ (applies /\ refuted /\ notes' = notes \cup {<<"abstained", reason>>})
           /\ notes' = notes \/ (refuted /\ notes' = notes \cup {<<"abstained", reason>>})
           /\ SameClaim
BY DEF Gate, abstain_result, Goto, SameClaim

\* The notes of the resolution are remarks.
LEMMA ViewNotesAreRemarks ==
    ASSUME NEW S, NEW n \in {<<"view", v>> : v \in S} \cup {<<"unverified", "">>}
    PROVE  Remark(n)
<1>1. \A v : Remark(<<"view", v>>)
  BY DEF Remark
<1>2. Remark(<<"unverified", "">>)
  BY DEF Remark
<1> QED
  BY <1>1, <1>2, Zenon

\* The notes of a plan that greps patches name no absence, those of a
\* temporal plan no missing definition or edge.
LEMMA NextKeepsPast == ASSUME PastIsNotRefuted, [Next]_vars PROVE PastIsNotRefuted'
<1>1. CASE ResolveIndex
  <2>1. CASE notes' = notes /\ plan_' = plan_
    BY <2>1 DEF PastIsNotRefuted, PatchGrepPlanned, TemporalOnly
  <2>2. CASE \A n \in notes' : Remark(n)
    BY <2>2 DEF PastIsNotRefuted, Remark
  <2>3. \/ notes' = notes /\ plan_' = plan_
        \/ \E S : notes' \subseteq {<<"view", v>> : v \in S} \cup {<<"unverified", "">>}
    BY <1>1, Zenon DEF ResolveIndex
  <2>4. ASSUME NEW S, notes' \subseteq {<<"view", v>> : v \in S} \cup {<<"unverified", "">>}
        PROVE  \A n \in notes' : Remark(n)
    BY <2>4, ViewNotesAreRemarks, Zenon
  <2> QED
    BY <2>1, <2>2, <2>3, <2>4
<1>2. CASE LiteralGate
  <2>1. /\ plan_' = plan_
        /\ notes' = notes \/ (~PatchGrepPlanned(plan_) /\ notes' = notes \cup {<<"abstained", "absent">>})
    BY <1>2, GateNotes, Zenon DEF LiteralGate
  <2> QED
    BY <2>1 DEF PastIsNotRefuted, PatchGrepPlanned, TemporalOnly
<1>3. CASE DefinitionGate
  <2>1. /\ plan_' = plan_
        /\ notes' = notes \/ (~TemporalOnly(plan_) /\ notes' = notes \cup {<<"abstained", "undefined">>})
    BY <1>3, GateNotes, Zenon DEF DefinitionGate
  <2> QED
    BY <2>1 DEF PastIsNotRefuted, PatchGrepPlanned, TemporalOnly
<1>4. CASE RelationGate
  <2>1. /\ plan_' = plan_
        /\ notes' = notes \/ (~TemporalOnly(plan_) /\ notes' = notes \cup {<<"abstained", "unrelated">>})
    BY <1>4, GateNotes, Zenon DEF RelationGate
  <2> QED
    BY <2>1 DEF PastIsNotRefuted, PatchGrepPlanned, TemporalOnly
<1>5. CASE HistoryGate
  <2>1. /\ plan_' = plan_
        /\ notes' = notes \/ (~PatchGrepPlanned(plan_) /\ notes' = notes \cup {<<"abstained", "unrecorded">>})
    BY <1>5, GateNotes, Zenon DEF HistoryGate
  <2> QED
    BY <2>1 DEF PastIsNotRefuted, PatchGrepPlanned, TemporalOnly
<1>6. CASE Quiet
  BY <1>6 DEF Quiet, Remark, PastIsNotRefuted, PatchGrepPlanned, TemporalOnly
<1>7. CASE StrictGate
  BY <1>7 DEF StrictGate, Route, PastIsNotRefuted, PatchGrepPlanned, TemporalOnly
<1>8. CASE Rerank
  BY <1>8, RerankEffect DEF Remark, PastIsNotRefuted, PatchGrepPlanned, TemporalOnly
<1>9. CASE notes' = notes /\ plan_' = plan_
  BY <1>9 DEF PastIsNotRefuted, PatchGrepPlanned, TemporalOnly
<1> QED
  BY <1>1, <1>2, <1>3, <1>4, <1>5, <1>6, <1>7, <1>8, <1>9, StepOfSearch, SearchSteps
     DEF RankCandidates, SelectHit, Report, Prune, searchVars

\* The present never refutes a question about the past (PastIsNotRefuted).
THEOREM PastStandsUnrefuted == Spec => []PastIsNotRefuted
<1>1. Init => PastIsNotRefuted
  BY DEF Init, SearchInit, PastIsNotRefuted
<1>2. PastIsNotRefuted /\ [Next]_vars => PastIsNotRefuted'
  BY NextKeepsPast
<1> QED
  BY <1>1, <1>2, PTL DEF Spec

-----------------------------------------------------------------------------
\* The whole snapshot, and what an abstention says of a spelling.
Intact == {"fts", "rows", "objects"}
Unrelated(w) == ~Defined(w) \/ \A r \in Rels : {r.src, r.dst} \cap Definitions(w) = {}
NoteIsTrue(n, w) ==
    /\ n = <<"abstained", "absent">> => \A d \in Docs : ~Carries(d, w)
    /\ n = <<"abstained", "undefined">> /\ NotCutOff(w) => ~Defined(w)
    /\ /\ n = <<"abstained", "unrelated">>
       /\ NotCutOff(w) /\ Cardinality(Definitions(w)) <= WitnessLimit
       => Unrelated(w)
    /\ n = <<"abstained", "unrecorded">> =>
          \A d \in Docs : Doc[d].rep \in CommitReps => ~Carries(d, w)
AbsenceInv ==
    /\ frame = [subjects |-> frame.subjects, rare |-> frame.rare, witness |-> frame.witness]
    /\ ~env.prunable => /\ live = Intact
                        /\ \A n \in notes, w \in frame.subjects : NoteIsTrue(n, w)

\* A remark is no abstention and claims nothing.
LEMMA RemarkIsTrue == ASSUME NEW n, Remark(n), NEW w PROVE NoteIsTrue(n, w)
BY DEF Remark, NoteIsTrue

\* A word with no document in the index has no document at all.
LEMMA AbsentMeansAbsent ==
    ASSUME NEW w, term_document_frequency_capped(Intact, w, 1) = 0
    PROVE  \A d \in Docs : ~Carries(d, w)
<1> DEFINE D == {d \in Docs : Carries(d, w)}
<1>1. IsFiniteSet(D)
  BY CorpusAssumption, FS_Subset
<1>2. Cardinality(D) \in Nat
  BY <1>1, FS_CardinalityType
<1>3. term_document_frequency(Intact, w) = Cardinality(D)
  BY DEF term_document_frequency, FtsDocs, Intact
<1>4. Cardinality(D) = 0
  BY <1>2, <1>3 DEF term_document_frequency_capped
<1>5. D = {}
  BY <1>1, <1>4, FS_EmptySet
<1> QED
  BY <1>5

\* A word with no history document in the index has no recorded history.
LEMMA UnrecordedMeansUnrecorded ==
    ASSUME NEW w, history_documents_matching_term(Intact, w, 1) = {}
    PROVE  \A d \in Docs : Doc[d].rep \in CommitReps => ~Carries(d, w)
<1> DEFINE D == {d \in Docs : Carries(d, w) /\ Doc[d].rep \in CommitReps}
<1>1. D \in SUBSET Nat
  BY CorpusAssumption
<1>2. history_documents_matching_term(Intact, w, 1) = FirstOf(D, 1)
  BY DEF history_documents_matching_term, FtsDocs, RowDocs, Intact
<1>3. D = {}
  BY <1>1, <1>2, FirstOfSome
<1> QED
  BY <1>3

\* A lookup that may return as many rows as there are returns all of them.
LEMMA FewerBefore ==
    ASSUME NEW S, IsFiniteSet(S), NEW x \in S, NEW T \in SUBSET S, x \notin T
    PROVE  Cardinality(T) < Cardinality(S)
<1>1. T \subseteq S \ {x} /\ IsFiniteSet(S \ {x})
  BY FS_Subset
<1>2. Cardinality(S \ {x}) = Cardinality(S) - 1
  BY FS_RemoveElement
<1>3. Cardinality(T) <= Cardinality(S \ {x})
  BY <1>1, FS_Subset
<1> QED
  BY <1>1, <1>2, <1>3, FS_CardinalityType, FS_Subset

LEMMA FirstOfAll ==
    ASSUME NEW S \in SUBSET Nat, IsFiniteSet(S), NEW n \in Nat, Cardinality(S) <= n
    PROVE  FirstOf(S, n) = S
<1> SUFFICES ASSUME NEW x \in S PROVE Cardinality({y \in S : y < x}) < n
  BY DEF FirstOf, FirstBy
<1>1. x \notin {y \in S : y < x}
  OBVIOUS
<1>2. Cardinality({y \in S : y < x}) < Cardinality(S)
  BY <1>1, FewerBefore
<1>3. /\ Cardinality(S) \in Nat
      /\ Cardinality({y \in S : y < x}) \in Nat
  BY FS_Subset, FS_CardinalityType
<1> QED
  BY <1>2, <1>3

\* A spelling whose lookup is not cut off has all its carriers as candidates.
LEMMA CandidatesAreAll ==
    ASSUME NEW s, s \in Indexed => Cardinality(Entities \cap Alike(s)) <= IndexLimit,
           Cardinality(Entities \cap Holding(s)) <= NameLimit
    PROVE  NamedCandidates(Intact, s) = Carriers(s)
<1> DEFINE offered == IF s \in Indexed
                      THEN FirstOf(RowEntities(Intact) \cap Alike(s), IndexLimit)
                      ELSE RowEntities(Intact)
<1>1. RowEntities(Intact) = Entities
  BY DEF RowEntities, Intact
<1>2. Entities \in SUBSET Nat /\ IsFiniteSet(Entities) /\ IndexLimit \in Nat /\ NameLimit \in Nat
  BY CorpusAssumption
<1>3. /\ IsFiniteSet(Entities \cap Alike(s)) /\ Entities \cap Alike(s) \in SUBSET Nat
      /\ IsFiniteSet(Entities \cap Holding(s)) /\ Entities \cap Holding(s) \in SUBSET Nat
  BY <1>2, FS_Subset
<1>4. offered \cap Holding(s) = Entities \cap Holding(s)
  <2>1. CASE s \in Indexed
    <3>1. FirstOf(Entities \cap Alike(s), IndexLimit) = Entities \cap Alike(s)
      BY <1>2, <1>3, <2>1, FirstOfAll
    <3> QED
      BY <1>1, <2>1, <3>1 DEF Alike
  <2> QED
    BY <1>1, <2>1
<1>5. FirstOf(Entities \cap Holding(s), NameLimit) = Entities \cap Holding(s)
  BY <1>2, <1>3, FirstOfAll
<1>6. entity_name_candidates(Intact, s, NameLimit) = Entities \cap Holding(s)
  BY <1>4, <1>5 DEF entity_name_candidates
<1> QED
  BY <1>6 DEF NamedCandidates, Carriers, Holding, name_witnesses

\* So no witness means no definition,
LEMMA UndefinedMeansUndefined ==
    ASSUME NEW w, NotCutOff(w), defined_witnesses(Intact, w) = {}
    PROVE  ~Defined(w)
<1>1. \A s \in SpellingsOf(w) : NamedCandidates(Intact, s) = Carriers(s)
  BY CandidatesAreAll DEF NotCutOff
<1> DEFINE tail == NamedCandidates(Intact, Segments[w].member)
           scope == {Ent[e].path : e \in UNION {NamedCandidates(Intact, s) :
                                                    s \in Segments[w].scope}}
           Coherent(e) == Ent[e].path # None /\ Ent[e].path \in scope
           Sooner(e, f) == \/ Coherent(e) /\ ~Coherent(f)
                           \/ (Coherent(e) <=> Coherent(f)) /\ e < f
           near == {e \in tail : Coherent(e)}
<1>2. \/ \E s \in Segments[w].scope : NamedCandidates(Intact, s) = {}
      \/ {x \in tail : Cardinality({y \in tail : Sooner(y, x)}) < WitnessLimit} = {}
  BY DEF defined_witnesses, FirstBy
<1>3. CASE \E s \in Segments[w].scope : NamedCandidates(Intact, s) = {}
  BY <1>1, <1>3 DEF Defined, SpellingsOf
<1>4. CASE {x \in tail : Cardinality({y \in tail : Sooner(y, x)}) < WitnessLimit} = {}
  <2>1. tail \in SUBSET Nat
    BY CorpusAssumption, <1>1 DEF SpellingsOf, Carriers
  <2>2. SUFFICES ASSUME tail # {} PROVE FALSE
    BY <1>1, <2>2 DEF Defined, SpellingsOf
  <2>3. PICK x \in tail : /\ Coherent(x) \/ near = {}
                          /\ \A y \in tail : (Coherent(x) <=> Coherent(y)) => x <= y
    <3>1. CASE near = {}
      <4>1. PICK x \in tail : \A y \in tail : x <= y
        BY <2>1, <2>2, Least
      <4> QED
        BY <3>1, <4>1
    <3>2. CASE near # {}
      <4>1. PICK x \in near : \A y \in near : x <= y
        BY <2>1, <3>2, Least
      <4> QED
        BY <4>1
    <3> QED
      BY <3>1, <3>2
  <2>4. {y \in tail : Sooner(y, x)} = {}
    BY <2>1, <2>3
  <2>5. Cardinality({y \in tail : Sooner(y, x)}) = 0
    BY <2>4, FS_EmptySet
  <2>6. 0 < WitnessLimit
    BY CorpusAssumption
  <2> QED
    BY <1>4, <2>5, <2>6
<1> QED
  BY <1>2, <1>3, <1>4

\* and few enough definitions are all witnesses.
LEMMA WitnessesAreDefinitions ==
    ASSUME NEW w, NotCutOff(w), Defined(w), Cardinality(Definitions(w)) <= WitnessLimit
    PROVE  defined_witnesses(Intact, w) = Definitions(w)
<1>1. \A s \in SpellingsOf(w) : NamedCandidates(Intact, s) = Carriers(s)
  BY CandidatesAreAll DEF NotCutOff
<1> DEFINE tail == NamedCandidates(Intact, Segments[w].member)
           scope == {Ent[e].path : e \in UNION {NamedCandidates(Intact, s) :
                                                    s \in Segments[w].scope}}
           Coherent(e) == Ent[e].path # None /\ Ent[e].path \in scope
           Sooner(e, f) == \/ Coherent(e) /\ ~Coherent(f)
                           \/ (Coherent(e) <=> Coherent(f)) /\ e < f
<1>2. tail = Definitions(w)
  BY <1>1 DEF SpellingsOf, Definitions
<1>3. \A s \in Segments[w].scope : NamedCandidates(Intact, s) # {}
  BY <1>1 DEF Defined, SpellingsOf
<1>4. defined_witnesses(Intact, w)
          = {x \in tail : Cardinality({y \in tail : Sooner(y, x)}) < WitnessLimit}
  BY <1>3 DEF defined_witnesses, FirstBy
<1>5. tail \in SUBSET Nat /\ IsFiniteSet(tail) /\ WitnessLimit \in Nat
  BY <1>2, CorpusAssumption, FS_Subset DEF Definitions, Carriers
<1>6. ASSUME NEW x \in tail PROVE Cardinality({y \in tail : Sooner(y, x)}) < WitnessLimit
  <2>1. x \notin {y \in tail : Sooner(y, x)}
    BY <1>5
  <2>2. Cardinality({y \in tail : Sooner(y, x)}) < Cardinality(tail)
    BY <1>5, <2>1, FewerBefore
  <2>3. Cardinality({y \in tail : Sooner(y, x)}) \in Nat /\ Cardinality(tail) \in Nat
    BY <1>5, FS_Subset, FS_CardinalityType
  <2> QED
    BY <1>2, <1>5, <2>2, <2>3
<1> QED
  BY <1>2, <1>4, <1>6

\* A definition with an edge shows one of its edges.
LEMMA UnrelatedMeansUnrelated ==
    ASSUME NEW S, relation_witness(Intact, S) = {}
    PROVE  \A r \in Rels : {r.src, r.dst} \cap S = {}
<1> SUFFICES ASSUME NEW r \in Rels, NEW e \in S, e \in {r.src, r.dst} PROVE FALSE
  OBVIOUS
<1> DEFINE T == {q \in Rels : q.src = e \/ q.dst = e}
<1>1. IsFiniteSet(T) /\ r \in T
  BY CorpusAssumption, FS_Subset
<1>2. Cardinality(T) \in Nat /\ Cardinality(T) # 0
  BY <1>1, FS_CardinalityType, FS_EmptySet
<1>3. 1 \in DOMAIN relations_for_entity(Intact, e, "both", 64)
  BY <1>2 DEF relations_for_entity, Take, Ordered, RowRels, Intact
<1>4. Range(relations_for_entity(Intact, e, "both", 64)) # {}
  BY <1>3 DEF Range
<1> QED
  BY <1>4 DEF relation_witness

\* Each gate refutes only what the whole snapshot refutes.
LEMMA NextKeepsAbsence == ASSUME AbsenceInv, [Next]_vars PROVE AbsenceInv'
<1>1. CASE frame' = frame /\ env' = env /\ live' = live /\ notes' = notes
  BY <1>1 DEF AbsenceInv, NoteIsTrue
<1>2. ASSUME env' = env, live' = live, frame' = frame,
             \A n \in notes' : n \in notes \/ Remark(n)
      PROVE  AbsenceInv'
  <2>1. \A n \in notes' : \A w : n \in notes \/ NoteIsTrue(n, w)
    BY <1>2, RemarkIsTrue
  <2> QED
    BY <1>2, <2>1 DEF AbsenceInv, NoteIsTrue
<1>3. ASSUME NEW reason, NEW refuted,
             env' = env, live' = live,
             SameClaim,
             notes' = notes \/ (refuted /\ notes' = notes \cup {<<"abstained", reason>>}),
             refuted /\ live = Intact =>
                 \A w \in frame.subjects : NoteIsTrue(<<"abstained", reason>>, w)
      PROVE  AbsenceInv'
  <2>1. /\ frame' = [subjects |-> frame'.subjects, rare |-> frame'.rare,
                     witness |-> frame'.witness]
        /\ frame'.subjects = frame.subjects
    BY <1>3 DEF AbsenceInv, SameClaim
  <2>2. ~env.prunable => \A n \in notes', w \in frame.subjects : NoteIsTrue(n, w)
    BY <1>3, Zenon DEF AbsenceInv
  <2> QED
    BY <1>3, <2>1, <2>2 DEF AbsenceInv, NoteIsTrue
<1>4. CASE LiteralGate
  <2>1. LiteralRefuted /\ live = Intact =>
            \A w \in frame.subjects : NoteIsTrue(<<"abstained", "absent">>, w)
    BY AbsentMeansAbsent DEF LiteralRefuted, NoteIsTrue
  <2>2. /\ env' = env /\ live' = live
        /\ SameClaim
        /\ notes' = notes \/ (LiteralRefuted /\ notes' = notes \cup {<<"abstained", "absent">>})
    BY <1>4, GateNotes, Zenon DEF LiteralGate
  <2> QED
    BY <2>1, <2>2, <1>3, Zenon
<1>5. CASE DefinitionGate
  <2>1. DefinitionRefuted /\ live = Intact =>
            \A w \in frame.subjects : NoteIsTrue(<<"abstained", "undefined">>, w)
    BY UndefinedMeansUndefined DEF DefinitionRefuted, NoteIsTrue
  <2>2. /\ env' = env /\ live' = live
        /\ SameClaim
        /\ notes' = notes
           \/ (DefinitionRefuted /\ notes' = notes \cup {<<"abstained", "undefined">>})
    BY <1>5, GateNotes, Zenon DEF DefinitionGate
  <2> QED
    BY <2>1, <2>2, <1>3, Zenon
<1>6. CASE RelationGate
  <2>1. RelationRefuted /\ live = Intact =>
            \A w \in frame.subjects : NoteIsTrue(<<"abstained", "unrelated">>, w)
    BY UnrelatedMeansUnrelated, WitnessesAreDefinitions DEF RelationRefuted, NoteIsTrue, Unrelated
  <2>2. /\ env' = env /\ live' = live
        /\ SameClaim
        /\ notes' = notes
           \/ (RelationRefuted /\ notes' = notes \cup {<<"abstained", "unrelated">>})
    BY <1>6, GateNotes, Zenon DEF RelationGate
  <2> QED
    BY <2>1, <2>2, <1>3, Zenon
<1>7. CASE HistoryGate
  <2>1. HistoryRefuted /\ live = Intact =>
            \A w \in frame.subjects : NoteIsTrue(<<"abstained", "unrecorded">>, w)
    BY UnrecordedMeansUnrecorded DEF HistoryRefuted, NoteIsTrue
  <2>2. /\ env' = env /\ live' = live
        /\ SameClaim
        /\ notes' = notes
           \/ (HistoryRefuted /\ notes' = notes \cup {<<"abstained", "unrecorded">>})
    BY <1>7, GateNotes, Zenon DEF HistoryGate
  <2> QED
    BY <2>1, <2>2, <1>3, Zenon
<1>8. CASE RankCandidates
  <2>1. env' = env /\ live' = live /\ notes' = notes /\ SameClaim
    BY <1>8, Zenon DEF RankCandidates, SameClaim
  <2> QED
    BY <2>1, <1>3, Zenon
<1>9. CASE StrictGate
  <2>2. \A w : NoteIsTrue(<<"abstained", "inferred">>, w)
    BY DEF NoteIsTrue
  <2>3. /\ env' = env /\ live' = live /\ frame' = frame
        /\ notes' \subseteq notes \cup {<<"abstained", "inferred">>}
    BY <1>9, Zenon DEF StrictGate, Route
  <2>4. \A n \in notes' : \A w : n \in notes \/ NoteIsTrue(n, w)
    BY <2>2, <2>3, Zenon
  <2> QED
    BY <2>3, <2>4 DEF AbsenceInv, NoteIsTrue
<1>10. CASE ResolveIndex
  <2>1. env' = env /\ live' = live
    BY <1>10 DEF ResolveIndex
  <2>2. CASE frame' = frame /\ notes' = notes
    BY <2>1, <2>2, <1>1
  <2>3. ASSUME NEW intent, NEW subjects, frame' = claim_frame(intent, subjects),
               \A n \in notes' : Remark(n)
        PROVE  AbsenceInv'
    <3>1. frame' = [subjects |-> frame'.subjects, rare |-> frame'.rare,
                    witness |-> frame'.witness]
      BY <2>3 DEF claim_frame
    <3>2. \A n \in notes' : \A w : NoteIsTrue(n, w)
      BY <2>3, RemarkIsTrue
    <3> QED
      BY <2>1, <3>1, <3>2 DEF AbsenceInv, NoteIsTrue
  <2>4. \/ frame' = frame /\ notes' = notes
        \/ /\ \E intent, subjects : frame' = claim_frame(intent, subjects)
           /\ \E S : notes' \subseteq {<<"view", v>> : v \in S} \cup {<<"unverified", "">>}
    BY <1>10, Zenon DEF ResolveIndex
  <2>5. ASSUME NEW S, notes' \subseteq {<<"view", v>> : v \in S} \cup {<<"unverified", "">>}
        PROVE  \A n \in notes' : Remark(n)
    BY <2>5, ViewNotesAreRemarks, Zenon
  <2> QED
    BY <2>2, <2>3, <2>4, <2>5, Zenon
<1>11. CASE Prune
  BY <1>11 DEF Prune, AbsenceInv, NoteIsTrue
<1>12. CASE Quiet
  BY <1>12, <1>2 DEF Quiet
<1>13. CASE Rerank
  BY <1>13, <1>2, RerankEffect
<1>14. CASE SelectHit \/ Report \/ UNCHANGED searchVars
  BY <1>14, <1>1 DEF SelectHit, Report, searchVars
<1> QED
  BY <1>4, <1>5, <1>6, <1>7, <1>8, <1>9, <1>10, <1>11, <1>12, <1>13, <1>14, StepOfSearch,
     SearchSteps

\* As long as the snapshot is retained and no lookup is cut off, what an
\* abstention says is true of every document, name and relation of it
\* (AbsenceIsTrue).
THEOREM AbstentionsAreTrue == Spec => []AbsenceIsTrue
<1>1. Init => AbsenceInv
  BY DEF Init, SearchInit, claim_frame, Intact, AbsenceInv
<1>2. AbsenceInv /\ [Next]_vars => AbsenceInv'
  BY NextKeepsAbsence
<1>3. AbsenceInv => AbsenceIsTrue
  BY Zenon DEF AbsenceInv, AbsenceIsTrue, NoteIsTrue, Unrelated
<1> QED
  BY <1>1, <1>2, <1>3, PTL DEF Spec
=============================================================================
