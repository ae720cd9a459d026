---------------------------- MODULE ContextPack ----------------------------
(***************************************************************************)
(* One request to the engine: a search, or a context call (context.rs),    *)
(* which searches, inserts the code its evidence points at, and packs the  *)
(* hits into a token budget.  A request with budget NoBudget is a plain    *)
(* search.  Packing never reads the store; the backlinks do.               *)
(***************************************************************************)
EXTENDS Retrieval

CONSTANTS
    NoBudget,         \* the budget of a plain search
    OrientationSize,  \* tokens of the orientation item
    FileCapMax,       \* 4 in render_item
    ConfigLangs       \* the languages of configuration files

ASSUME PackAssumption ==
    /\ OrientationSize \in Nat /\ FileCapMax \in Nat
    /\ \A r \in Requests : r.budget = NoBudget \/ r.budget \in Nat

VARIABLES
    phase,        \* "search", "link", "roles", "fill" or "packed"
    sources,      \* the hits whose pointers are still to be followed
    links,        \* the subjects found, with the hit that points at each
    listing,      \* the hits with the subjects in place
    at,           \* the next role, then the next entry of the listing
    items,        \* the admitted hits, in order
    used,         \* tokens spent
    rejected      \* key -> the last reason a hit was turned away

packVars == <<phase, sources, links, listing, at, items, used, rejected>>
vars == <<request, env, manifest, live, stage, verified, plan_, frame, notes, cands,
          expansion, flow, corroborated, queue, hits, verdict,
          phase, sources, links, listing, at, items, used, rejected>>

Init ==
    /\ SearchInit
    /\ phase = "search" /\ sources = {} /\ links = <<>> /\ listing = <<>> /\ at = 1
    /\ items = <<>> /\ used = 0 /\ rejected = <<>>

(***************************************************************************)
(* Subject backlinks.                                                      *)
(***************************************************************************)
MechanismKinds == {"Calls", "References", "Tests"}
CallableKinds == {"Function", "Method"}

\* The hits whose pointers are followed: of the first eight with an address
\* those of callables, read in one query before the loop.
BacklinkSources ==
    {i \in FirstOf({j \in DOMAIN hits : hits[j].path # None}, 8) :
        /\ Planned("Structural")
        /\ hits[i].entity \in RowEntities(live)
        /\ Ent[hits[i].entity].kind \in CallableKinds}

\* The strongest edge to a target: confidence, then the kind.
EdgeRank(kind) == IF kind = "Tests" THEN 2 ELSE IF kind = "Calls" THEN 1 ELSE 0
BestEdge(edges, target) ==
    LET into == {r \in edges : r.dst = target}
        Beats(r, s) == \/ r.conf > s.conf
                       \/ r.conf = s.conf /\ EdgeRank(r.kind) > EdgeRank(s.kind)
    IN  CHOOSE r \in into : \A s \in into :
            ~Beats(s, r) /\ (Beats(r, s) \/ r.id <= s.id)

\* What a source may point at: a callable that is no test, no hit and not
\* linked yet, best by shared words, confidence, a call among the edges,
\* degree, name.
SubjectsOf(source) ==
    LET rows == Range(relations_for_entity(live, source, "out", 16))
        shown == {hits[i].entity : i \in DOMAIN hits}
        linked == {links[i].id : i \in DOMAIN links}
        edges == {r \in rows : r.kind \in MechanismKinds /\ r.dst \notin shown}
        asked == FeedbackWords(WordsOf(request.query))
        targets == {e \in entities_by_ids(live, {r.dst : r \in edges}) \ linked :
                       Ent[e].kind \in CallableKinds /\ ~is_test_entity(e)}
        key(e) == <<Cardinality(Ent[e].parts \cap asked), BestEdge(edges, e).conf,
                    IF \E r \in rows : r.dst = e /\ r.kind = "Calls" THEN 1 ELSE 0,
                    entity_relation_degree(live, e)>>
        Better(e, f) == \/ LexBefore(key(f), key(e))
                        \/ key(e) = key(f) /\ Before(Ent[e].name) < Before(Ent[f].name)
    IN  {e \in targets : \A f \in targets : ~Better(f, e)}

\* The search is done: read the entities of the sources.
StartLinks ==
    /\ phase = "search" /\ stage = "done" /\ request.budget # NoBudget
    /\ sources' = BacklinkSources
    /\ listing' = hits
    /\ phase' = "link"
    /\ UNCHANGED <<links, at, items, used, rejected>>
    /\ UNCHANGED searchVars

\* Follow one source, in list order; four subjects are enough.
LinkSubject ==
    /\ phase = "link"
    /\ \E i \in sources : \E best \in {SubjectsOf(hits[i].entity)} :
          /\ \A j \in sources : i <= j
          /\ IF best = {} THEN sources' = sources \ {i} /\ UNCHANGED links
             ELSE /\ \E e \in best :
                        links' = Append(links, [at |-> i, id |-> e,
                                                current |-> hits[i].current])
                  /\ sources' = IF Len(links) + 1 >= 4 THEN {} ELSE sources \ {i}
    /\ UNCHANGED <<phase, listing, at, items, used, rejected>>
    /\ UNCHANGED searchVars

\* A linked subject as a hit.
LinkedHit(link, key) ==
    [key |-> key, entity |-> link.id, region |-> Ent[link.id].region,
     path |-> Ent[link.id].path, span |-> Ent[link.id].span, rep |-> "RawCode", evidence |-> {},
     route |-> "Structural", routes |-> {"Structural"}, current |-> link.current,
     terms |-> FeedbackWords(Ent[link.id].parts), strict |-> FALSE, score |-> 0]
\* Seeded bug: the linked subject takes the id of a structural candidate.
SubjectHitAsCandidate(link) == LinkedHit(link, EntityKey(link.id))
SubjectHit(link) == LinkedHit(link, SubjectKey(link.id))

\* The subjects are inserted from the last source to the first, so that the
\* earlier indices stay valid.
\* Seeded bug: inserted from the first source to the last.
InsertSubjectForward ==
    /\ phase = "link" /\ sources = {} /\ links # <<>>
    /\ listing' = InsertAt(listing, links[1].at + 1, SubjectHit(links[1]))
    /\ links' = Tail(links)
    /\ UNCHANGED <<phase, sources, at, items, used, rejected>>
    /\ UNCHANGED searchVars
InsertSubject ==
    /\ phase = "link" /\ sources = {} /\ links # <<>>
    /\ LET link == links[Len(links)]
       IN  listing' = InsertAt(listing, link.at + 1, SubjectHit(link))
    /\ links' = SubSeq(links, 1, Len(links) - 1)
    /\ UNCHANGED <<phase, sources, at, items, used, rejected>>
    /\ UNCHANGED searchVars

(***************************************************************************)
(* Packing.                                                                *)
(***************************************************************************)
QuotaRoles == <<"Test", "Contract", "Caller", "Config", "History", "Knowledge">>

\* The part a hit plays in the pack.
role_of(hit) ==
    CASE hit.rep = "TestBehavior" -> "Test"
      [] hit.rep = "CommitSummary" -> "History"
      [] hit.rep \in {"RoleSummary", "ModuleSummary", "FlowSummary", "KnowledgePage"}
            -> "Knowledge"
      [] hit.rep = "Signature" ->
            IF hit.route = "Structural" THEN "Caller" ELSE "Contract"
      [] OTHER ->
            IF hit.route = "Structural" THEN "Caller"
            ELSE IF hit.path # None /\ Source[hit.path].lang \in ConfigLangs THEN "Config"
            ELSE "Target"

\* estimate_tokens of the rendered hit: a header and its words.
estimate_tokens(hit) == Cardinality(Words \cap hit.terms) + 1

\* The path and byte range a hit shows, if it has an address.
RangeOf(hit) == IF hit.path = None THEN <<>> ELSE <<hit.path, hit.span>>

TakenKeys == {items[i].key : i \in DOMAIN items}
ShownOf(path) == {i \in DOMAIN items : items[i].path = path}

\* Seeded bug: a hit is weighed against the whole budget.
RejectionByTotal(hit) ==
    IF estimate_tokens(hit) > request.budget THEN "Budget" ELSE "none"

\* Why a hit cannot be admitted now; "none" when it can.
Rejection(hit) ==
    CASE RangeOf(hit) # <<>> /\ \E i \in DOMAIN items : RangeOf(items[i]) = RangeOf(hit)
            -> "DuplicateRange"
      [] hit.path # None /\ Cardinality(ShownOf(hit.path)) >= FileCapMax
         /\ ~\E i \in DOMAIN items : RangeOf(items[i]) = RangeOf(hit) -> "FileCap"
      [] hit.path = None /\ \E i \in DOMAIN items : items[i].entity = hit.entity
            -> "DuplicateEntity"
      [] OTHER -> IF estimate_tokens(hit) > request.budget - used THEN "Budget" ELSE "none"

\* An admitted hit is charged against every quota; a rejected one against
\* none.
\* Seeded bug: the reason of a rejection is not kept.
render_item_silently(hit) ==
    /\ IF Rejection(hit) = "none"
       THEN items' = Append(items, hit) /\ used' = used + estimate_tokens(hit)
       ELSE UNCHANGED <<items, used>>
    /\ UNCHANGED rejected
render_item(hit) ==
    IF Rejection(hit) = "none"
    THEN /\ items' = Append(items, hit)
         /\ used' = used + estimate_tokens(hit)
         /\ UNCHANGED rejected
    ELSE /\ rejected' = Overlay(rejected, [k \in {hit.key} |-> Rejection(hit)])
         /\ UNCHANGED <<items, used>>

\* The pack starts with the orientation, if it fits.
StartPack ==
    /\ phase = "link" /\ sources = {} /\ links = <<>>
    /\ used' = IF OrientationSize <= request.budget THEN OrientationSize ELSE 0
    /\ phase' = "roles"
    /\ UNCHANGED <<sources, links, listing, at, items, rejected>>
    /\ UNCHANGED searchVars

\* One role: its first hit that has not shipped.
PackRole ==
    /\ phase = "roles" /\ at <= Len(QuotaRoles)
    /\ LET waiting == {i \in DOMAIN listing : /\ role_of(listing[i]) = QuotaRoles[at]
                                              /\ listing[i].key \notin TakenKeys}
       IN  \/ waiting = {} /\ UNCHANGED <<items, used, rejected>>
           \/ \E i \in waiting : (\A j \in waiting : i <= j) /\ render_item(listing[i])
    /\ at' = at + 1
    /\ UNCHANGED <<phase, sources, links, listing>>
    /\ UNCHANGED searchVars

StartFill ==
    /\ phase = "roles" /\ at > Len(QuotaRoles)
    /\ at' = 1
    /\ phase' = "fill"
    /\ UNCHANGED <<sources, links, listing, items, used, rejected>>
    /\ UNCHANGED searchVars

\* Seeded bug: a rejection starts the pass again.
PackFillRetrying ==
    /\ phase = "fill" /\ at <= Len(listing)
    /\ IF listing[at].key \in TakenKeys
       THEN UNCHANGED <<items, used, rejected>> /\ at' = at + 1
       ELSE /\ render_item(listing[at])
            /\ at' = IF Rejection(listing[at]) = "none" THEN at + 1 ELSE 1
    /\ UNCHANGED <<phase, sources, links, listing>>
    /\ UNCHANGED searchVars

\* The rest of the budget, in rank order.
PackFill ==
    /\ phase = "fill" /\ at <= Len(listing)
    /\ IF listing[at].key \in TakenKeys THEN UNCHANGED <<items, used, rejected>>
       ELSE render_item(listing[at])
    /\ at' = at + 1
    /\ UNCHANGED <<phase, sources, links, listing>>
    /\ UNCHANGED searchVars

FinishPack ==
    /\ phase = "fill" /\ at > Len(listing)
    /\ phase' = "packed"
    /\ UNCHANGED <<sources, links, listing, at, items, used, rejected>>
    /\ UNCHANGED searchVars

\* What shipped and what did not, with the last reason; the claim's words in
\* the shipped snippets; whether any shipped hit cites source.
delivery_report ==
    LET shipped == {listing[i] : i \in {j \in DOMAIN listing : listing[j].key \in TakenKeys}}
        left == {listing[i] : i \in DOMAIN listing} \ shipped
    IN  [omitted |-> {<<h.key, At(rejected, h.key, "Budget")>> : h \in left},
         delivered |-> {w \in frame.rare : \E h \in shipped : w \in h.terms},
         sourced |-> \E h \in shipped : h.path # None]

\* The uncertainties of the pack: every note, and the reasons of a weak
\* witness.
uncertainties ==
    notes \cup (IF verdict.state = "WeakWitness" THEN verdict.reasons ELSE {})

\* A request ends with its result, with an error, or with a full pack.
Finished ==
    \/ stage = "failed"
    \/ stage = "done" /\ (request.budget = NoBudget \/ phase = "packed")
Done == Finished /\ UNCHANGED vars

\* The store is read until the subjects are linked.
Reading ==
    \/ stage \notin {"resolve", "done", "failed"}
    \/ stage = "done" /\ request.budget # NoBudget /\ phase \in {"search", "link"}

Work == SearchStep /\ UNCHANGED packVars
Retention == Reading /\ Prune /\ UNCHANGED packVars
PackStep == \/ StartLinks \/ LinkSubject \/ InsertSubject
            \/ StartPack \/ PackRole \/ StartFill \/ PackFill \/ FinishPack

Next == Work \/ Retention \/ PackStep \/ Done

\* The task that serves a request is scheduled until it ends: weak fairness
\* of the steps that are not the environment's.  An unfinished request always
\* has such a step, so ~Finished stands for ENABLED, which TLC would have to
\* evaluate by running every ranking pass once more.
Fairness == []<>Finished \/ []<><<live' = live>>_vars

Spec == Init /\ [][Next]_vars /\ Fairness

(***************************************************************************)
(* Properties.                                                             *)
(***************************************************************************)
KeysOf(list) == {list[i].key : i \in DOMAIN list}
StageDone == stage = "done"

\* Every variable keeps its type: stages and phases are known ones, and the
\* three lists (search hits, context listing, pack items) hold candidates of
\* the search or subjects it linked.
TypeOK ==
    /\ request \in Requests /\ env \in Environments /\ manifest \in Manifests
    /\ live \subseteq {"fts", "rows", "objects"} /\ stage \in Stages
    /\ phase \in {"search", "link", "roles", "fill", "packed"}
    /\ sources \subseteq DOMAIN hits
    /\ KeysOf(hits) \subseteq DOMAIN cands
    /\ KeysOf(listing) \subseteq KeysOf(hits) \cup {SubjectKey(e) : e \in Entities}
    /\ KeysOf(items) \subseteq KeysOf(listing)
    /\ DOMAIN rejected \subseteq KeysOf(listing)
    /\ used \in Nat

\* The hit list presents places, not documents: whatever merging, capping
\* and reranking did, no two hits show the same region (select_hits).
OnePlacePerHit ==
    \A i, j \in DOMAIN hits : RegionKey(hits[i]) = RegionKey(hits[j]) => i = j

\* A file never takes more of the first slots than the window allows, except
\* for names the query spelled exactly, and until a reranker permutes the
\* list (per_file_cap).
HeadIsDiverse ==
    stage \in {"select", "report"} /\ env.reranker # "ready" =>
        \A i \in DOMAIN hits :
            hits[i].path # None /\ "ExactSymbol" \notin hits[i].routes =>
                Cardinality({j \in 1..(i - 1) : hits[j].path = hits[i].path})
                    < per_file_cap(i - 1)

\* The reranker judges topical matches only: evidence that graph, knowledge
\* or history routes brought stays in its slot, nothing is lost or repeated
\* (the permutation in search).
RerankKeepsEvidence ==
    [][stage = "select" /\ stage' = "report" =>
          /\ KeysOf(hits') = KeysOf(hits) /\ Len(hits') = Len(hits)
          /\ \A i \in DOMAIN hits : ~Topical(hits[i]) => hits'[i] = hits[i]]_vars

\* Does the snapshot define a spelling?  Some name carries it, or for a
\* qualified spelling each of its segments; what defines it is what carries
\* the last one.
SpellingsOf(w) == Segments[w].scope \cup {Segments[w].member}
Carriers(w) == {e \in Entities : w \in Ent[e].parts}
Defined(w) == \A s \in SpellingsOf(w) : Carriers(s) # {}
Definitions(w) == Carriers(Segments[w].member)

\* Few enough names are like the spelling that the store cuts none off.
NotCutOff(w) ==
    \A s \in SpellingsOf(w) :
        /\ s \in Indexed => Cardinality(Entities \cap Alike(s)) <= IndexLimit
        /\ Cardinality(Entities \cap Holding(s)) <= NameLimit

\* An abstention that says a name is absent, undefined, unrelated or
\* unrecorded is true of every row of the snapshot the search resolved, as
\* long as that snapshot is retained and no lookup was cut off: no document
\* mentions it; nothing defines it; it is not defined, or no relation touches
\* any of its definitions; no commit document mentions it (the four gates of
\* search).
AbsenceIsTrue ==
    ~env.prunable /\ StageDone =>
        \A n \in notes, w \in frame.subjects :
            /\ n = <<"abstained", "absent">> => \A d \in Docs : ~Carries(d, w)
            /\ n = <<"abstained", "undefined">> /\ NotCutOff(w) => ~Defined(w)
            /\ /\ n = <<"abstained", "unrelated">>
               /\ NotCutOff(w) /\ Cardinality(Definitions(w)) <= WitnessLimit
               => ~Defined(w) \/ \A r \in Rels : {r.src, r.dst} \cap Definitions(w) = {}
            /\ n = <<"abstained", "unrecorded">> =>
                  \A d \in Docs : Doc[d].rep \in CommitReps => ~Carries(d, w)

\* A question about the past is not refuted by the present: no gate that
\* reads the index or the commit documents speaks for a plan that greps
\* stored patches, and none that reads today's definitions and edges for a
\* plan of temporal routes alone (patch_grep_planned and temporal_only).
PastIsNotRefuted ==
    \A n \in notes : n[1] = "abstained" =>
        /\ PatchGrepPlanned(plan_) => n[2] \notin {"absent", "unrecorded"}
        /\ TemporalOnly(plan_) => n[2] \notin {"undefined", "unrelated"}

\* What the flow pass reports as evidence is grounded: every node's mass came
\* from seeds, and its evidence path is a connected walk of collected edges
\* that starts at one of those seeds and is at most two edges long
\* (flow_record_hop, extend_evidence_path).
Connected(path, n) ==
    /\ path.edges[1].from = path.seed
    /\ path.edges[Len(path.edges)].to = n
    /\ \A i \in 1..(Len(path.edges) - 1) : path.edges[i].to = path.edges[i + 1].from
FlowIsGrounded ==
    /\ \A n \in DOMAIN flow.origins : flow.origins[n] \subseteq flow.seeds
    /\ \A n \in DOMAIN flow.paths :
          LET path == flow.paths[n]
          IN  /\ path.seed \in flow.origins[n] /\ Len(path.edges) \in 1..2
              /\ Connected(path, n)
              /\ \A i \in DOMAIN path.edges : \E r \in flow.edges :
                    /\ r.kind = path.edges[i].kind
                    /\ {r.src, r.dst} = {path.edges[i].from, path.edges[i].to}

\* Inferred vicinity reorders evidence and never replaces it: a list that is
\* not empty was selected from candidates some of which carry literal
\* evidence (the strict gate).
AnswersHaveEvidence ==
    hits # <<>> => \E k \in DOMAIN cands : cands[k].strict

\* The pack spends what it says, within the budget, never shows a byte range
\* twice and keeps the per-file limit (pack, render_item).
TokensOf(list) == UNION {{i} \X (1..estimate_tokens(list[i])) : i \in DOMAIN list}
PackIsBounded ==
    request.budget # NoBudget =>
        /\ used <= request.budget
        /\ \E orientation \in {0, OrientationSize} :
              used = (IF phase \in {"search", "link"} THEN 0 ELSE orientation)
                     + Cardinality(TokensOf(items))
        /\ \A i, j \in DOMAIN items :
              RangeOf(items[i]) # <<>> /\ RangeOf(items[i]) = RangeOf(items[j]) => i = j
        /\ \A i \in DOMAIN items : items[i].path # None =>
              Cardinality(ShownOf(items[i].path)) <= FileCapMax

\* The delivery report accounts for every hit of the listing: it shipped, or
\* it is omitted with a reason that still holds of the finished pack, although
\* the reason was recorded before later hits were admitted.
OmissionsAreTrue ==
    phase = "packed" =>
        /\ KeysOf(listing) = TakenKeys \cup {o[1] : o \in delivery_report.omitted}
        /\ \A i \in DOMAIN listing : listing[i].key \notin TakenKeys =>
              /\ listing[i].key \in DOMAIN rejected
              /\ Rejection(listing[i]) # "none"
              /\ rejected[listing[i].key] = "Budget" =>
                    estimate_tokens(listing[i]) > request.budget - used

\* Linking subjects keeps the hits in their order, and every subject follows
\* a hit with an edge to it; it is no test and no hit of its own
\* (subject_backlinks and the insertion in context).
IsSubject(hit) == hit.key[1] = 4
HitsInOrder ==
    /\ \A i \in DOMAIN hits : \E p \in DOMAIN listing : listing[p] = hits[i]
    /\ \A p \in DOMAIN listing : ~IsSubject(listing[p]) =>
          \E i \in DOMAIN hits : listing[p] = hits[i]
    /\ \A p, q \in DOMAIN listing :
          p < q /\ ~IsSubject(listing[p]) /\ ~IsSubject(listing[q]) =>
              \E i, j \in DOMAIN hits : i < j /\ listing[p] = hits[i] /\ listing[q] = hits[j]
SubjectsFollowTheirSource ==
    phase \in {"roles", "fill", "packed"} =>
        /\ HitsInOrder
        /\ \A p \in DOMAIN listing : IsSubject(listing[p]) =>
              /\ p > 1 /\ ~is_test_entity(listing[p].entity)
              /\ \A q \in DOMAIN listing \ {p} : listing[q].entity # listing[p].entity
              /\ \E r \in Rels : /\ r.src = listing[p - 1].entity
                                 /\ r.dst = listing[p].entity

\* Every request ends: with a result, a pack or an error.
EveryRequestEnds == <>Finished
=============================================================================
