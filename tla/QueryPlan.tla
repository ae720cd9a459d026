----------------------------- MODULE QueryPlan -----------------------------
(***************************************************************************)
(* The deterministic part of a search request: the query text, the plan    *)
(* the planner derives from it (planner.rs), the pins that override the    *)
(* plan, the views a plan needs, and the claim the evidence is judged      *)
(* against (the head of CceEngine::search in retrieval.rs).                *)
(*                                                                         *)
(* A query is a sequence of tokens.  What the code asks of a spelling (is  *)
(* it identifier-like, could it name an entity, is it a stop word, which   *)
(* keyword list holds it) is a class and a cue of its word, so that the    *)
(* token filters become set operations.                                    *)
(***************************************************************************)
EXTENDS Integers, Sequences, FiniteSets, SequencesExt

CONSTANTS
    Words,      \* spellings that occur in queries, names and bodies
    Class,      \* Class[w]: the shape of the spelling (see WordClasses)
    Cue,        \* Cue[w]: the planner keyword list that holds the word
    Glossary    \* Glossary[w]: the English words a CJK word maps to

\* "name": snake_case, camelCase or a :: path; "capital": one leading
\* capital; "dotted": config.toml or 18.04; "plain": a lowercase word;
\* "grammar": a lowercase word that is also a feedback stop word or a
\* claim-shape word; "stop": shorter than three characters or in the
\* entity stop list; "cjk": CJK text.
WordClasses == {"name", "capital", "dotted", "plain", "grammar", "stop", "cjk"}

Cues == {"none", "taint", "history", "why", "change", "impact", "break",
         "condition", "trace", "architecture", "bug", "definition"}

ASSUME LexiconAssumption ==
    /\ IsFiniteSet(Words)
    /\ Class \in [Words -> WordClasses]
    /\ Cue \in [Words -> Cues]
    /\ Glossary \in [Words -> SUBSET Words]

\* A token of a query: a spelling, written inside backticks or not.
Tokens == [word : Words, tick : BOOLEAN]

Intents == {"ExactEntity", "NaturalLanguageBehavior", "IssueLocalization",
            "Trace", "Impact", "Architecture", "History", "PreciseDataflow",
            "Unknown"}
Routes == {"ExactSymbol", "Lexical", "Zoekt", "DenseRaw", "DenseSummary",
           "Hybrid", "Structural", "Knowledge", "History", "Diff", "Pattern"}
PlanViews == {"Symbols", "Lexical", "Dense", "Graph", "Knowledge", "History",
              "Dataflow", "Zoekt"}
UsableStates == {"Ready", "Partial"}

WordsOf(query) == {query[i].word : i \in DOMAIN query}

(***************************************************************************)
(* Spelling predicates.                                                    *)
(***************************************************************************)
IdentifierLike(w) == Class[w] \in {"name", "capital", "dotted"}
NameShaped(w) == Class[w] \in {"name", "capital"}
EntitySpelling(w) == Class[w] \in {"plain", "grammar", "name", "capital", "cjk"}
LooksLikeCode(w) == Class[w] \in {"name", "dotted"}

\* The tokens exact-symbol lookup may use: no stop words; in a query of
\* several tokens without CJK only identifier-like ones, and not a word
\* that is capitalised because it opens the sentence.
entity_tokens(query) ==
    LET kept == SelectSeq(query, LAMBDA t : Class[t.word] # "stop")
        strict == /\ Len(kept) > 1
                  /\ \A i \in DOMAIN kept : Class[kept[i].word] # "cjk"
    IN  IF ~strict THEN WordsOf(kept)
        ELSE {kept[i].word : i \in {j \in DOMAIN kept :
                 /\ IdentifierLike(kept[j].word)
                 /\ ~(j = 1 /\ Class[kept[j].word] = "capital")}}

\* The spellings whose absence from the corpus is a proof: backticked
\* entity spellings, and entity tokens that are name-shaped or the only one.
literal_anchors(query) ==
    LET entity == {w \in entity_tokens(query) : Class[w] # "cjk"}
        ticked == {query[i].word : i \in {j \in DOMAIN query : query[j].tick}}
    IN  {w \in ticked : EntitySpelling(w) /\ Class[w] \notin {"cjk", "stop"}}
        \cup {w \in entity : /\ EntitySpelling(w)
                             /\ Cardinality(entity) = 1 \/ NameShaped(w)}

\* The vocabulary of the claim: no CJK, no function or claim-shape words.
content_terms(query) ==
    {w \in WordsOf(query) : Class[w] \notin {"cjk", "stop", "grammar"}}

\* English anchors for the CJK words of the query.
cjk_glossary_terms(query) == UNION {Glossary[w] : w \in WordsOf(query)}

(***************************************************************************)
(* The planner.                                                            *)
(***************************************************************************)
HasCue(query, cue) == \E w \in WordsOf(query) : Cue[w] = cue

is_exact_entity_query(query) ==
    LET code == Cardinality({i \in DOMAIN query : LooksLikeCode(query[i].word)})
    IN  /\ query # <<>>
        /\ \/ 2 * code >= Len(query)
           \/ code > 0 /\ HasCue(query, "definition")

\* The keyword classifier: the first list that matches decides.
classify(query) ==
    CASE HasCue(query, "taint") -> "PreciseDataflow"
      [] ~HasCue(query, "taint")
         /\ \/ HasCue(query, "history")
            \/ HasCue(query, "why") /\ HasCue(query, "change") -> "History"
      [] OTHER ->
         IF \/ HasCue(query, "impact")
            \/ HasCue(query, "break") /\ HasCue(query, "condition")
         THEN "Impact"
         ELSE IF HasCue(query, "trace") THEN "Trace"
         ELSE IF HasCue(query, "architecture") THEN "Architecture"
         ELSE IF HasCue(query, "bug") THEN "IssueLocalization"
         ELSE IF is_exact_entity_query(query) THEN "ExactEntity"
         ELSE "NaturalLanguageBehavior"

Plan(intent, routes, policy, views) ==
    [intent |-> intent, routes |-> routes, policy |-> policy, views |-> views]

\* Every cheap route, damped expansion: the plan of a query without a
\* caller-supplied intent.
union_plan(intent) ==
    Plan(intent, Routes \ {"Diff", "Pattern"}, "Opportunistic",
         {"Symbols", "Lexical", "Dense"})

\* The plan of a caller-supplied intent.  An intent the planner only
\* guessed labels the plan and never narrows it.
plan(query, requested) ==
    CASE requested = "none" -> union_plan(classify(query))
      [] requested = "Unknown" -> union_plan("Unknown")
      [] requested = "ExactEntity" ->
            Plan(requested, {"ExactSymbol", "Lexical", "Zoekt"}, "None",
                 {"Symbols", "Lexical"})
      [] requested \in {"NaturalLanguageBehavior", "IssueLocalization"} ->
            Plan(requested,
                 {"Lexical", "Zoekt", "DenseRaw", "DenseSummary", "Hybrid"},
                 "None", {"Lexical", "Dense"})
      [] requested \in {"Trace", "Impact"} ->
            Plan(requested,
                 {"ExactSymbol", "Lexical", "Zoekt", "DenseRaw", "Structural"},
                 IF requested = "Trace" THEN "OutgoingTrace" ELSE "IncomingImpact",
                 {"Symbols", "Lexical", "Graph"})
      [] requested = "Architecture" ->
            Plan(requested,
                 {"Knowledge", "DenseSummary", "Structural", "Lexical", "Zoekt"},
                 "ArchitectureBoundary", {"Knowledge", "Graph", "Lexical"})
      [] requested = "History" ->
            Plan(requested, {"History", "Lexical", "Zoekt", "DenseSummary"},
                 "None", {"History", "Lexical"})
      [] requested = "PreciseDataflow" ->
            Plan(requested, {"ExactSymbol", "Structural"}, "DataflowRequired",
                 {"Dataflow", "Symbols"})

\* The views a set of routes reads.  Zoekt and Pattern need none.
required_views_for_routes(routes) ==
    UNION {CASE r = "ExactSymbol" -> {"Symbols"}
             [] r = "Lexical" -> {"Lexical"}
             [] r \in {"DenseRaw", "DenseSummary"} -> {"Dense"}
             [] r = "Hybrid" -> {"Lexical", "Dense"}
             [] r = "Structural" -> {"Graph"}
             [] r = "Knowledge" -> {"Knowledge"}
             [] r \in {"History", "Diff"} -> {"History"}
             [] r \in {"Zoekt", "Pattern"} -> {} : r \in routes}

\* Route pins, weakest first: the caller's routes, type:diff or type:commit,
\* then pat:.  A pin replaces the routes and the views, never the intent or
\* the graph policy.
PinnedRoutes(request) ==
    CASE request.pattern -> {"Pattern"}
      [] ~request.pattern /\ request.type = "diff" -> {"Diff"}
      [] ~request.pattern /\ request.type = "commit" -> {"History"}
      [] OTHER -> request.routes

EffectivePlan(request) ==
    LET base == plan(request.query, request.intent)
        pins == PinnedRoutes(request)
    IN  IF pins = {} THEN base
        ELSE [base EXCEPT !.routes = pins,
                          !.views = required_views_for_routes(pins)]

Usable(manifest, view) == manifest[view] \in UsableStates

\* The views the plan needs and the manifest cannot serve.
missing_views(manifest, p) == {v \in p.views : ~Usable(manifest, v)}

\* Could any of these routes execute under this manifest?
route_ran(manifest, route) ==
    \A v \in required_views_for_routes({route}) : Usable(manifest, v)

(***************************************************************************)
(* The claim.                                                              *)
(***************************************************************************)
\* The witness the intent requires of the evidence for the subjects; its
\* distinguishing words are resolved later.
claim_frame(intent, subjects) ==
    [subjects |-> subjects,
     rare |-> {},
     witness |-> CASE intent = "ExactEntity" -> "Definition"
                   [] intent \in {"NaturalLanguageBehavior", "IssueLocalization"}
                        -> "CodeBinding"
                   [] intent \in {"Trace", "Impact", "Architecture"} -> "Relation"
                   [] intent = "History" -> "History"
                   [] intent \in {"PreciseDataflow", "Unknown"} -> "Any"]

\* Diff greps raw patches, so no indexed document can refute it; a plan of
\* temporal routes asks about the past, so the present cannot refute it.
PatchGrepPlanned(p) == "Diff" \in p.routes
TemporalOnly(p) == p.routes \subseteq {"Diff", "History"}

(***************************************************************************)
(* Graph expansion and selection parameters.                               *)
(***************************************************************************)
\* Direction and edge kinds that are evidence under a graph policy.
expansion_policy(policy) ==
    CASE policy = "OutgoingTrace" ->
            [direction |-> "out",
             kinds |-> {"Calls", "Imports", "RouteHandledBy"}]
      [] policy = "IncomingImpact" ->
            [direction |-> "in",
             kinds |-> {"Calls", "References", "Tests", "Implements"}]
      [] policy = "Opportunistic" ->
            [direction |-> "both",
             kinds |-> {"Calls", "References", "Imports", "ChangedWith"}]
      [] OTHER ->
            [direction |-> "both", kinds |-> {"Calls", "References", "Imports"}]

\* Representation weight of a dense hit, in hundredths.
representation_weight(rep) ==
    CASE rep \in {"RoleSummary", "SymbolSummary", "ModuleSummary", "FlowSummary"}
            -> 115
      [] rep = "TestBehavior" -> 110
      [] OTHER -> 100
=============================================================================
