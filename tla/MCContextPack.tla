--------------------------- MODULE MCContextPack ---------------------------
(***************************************************************************)
(* A small repository for ContextPack: two source files in one package, a  *)
(* test, a documentation page, a configuration file, two commits.          *)
(***************************************************************************)
EXTENDS ContextPack

MCAlphabet == <<"Ghost", "Ghost::evict", "Store", "Store::evict", "breaks", "cache",
                "cache_key", "calls", "evict", "fetch", "ghost", "ghost_fn", "key", "lone_fn",
                "log", "of", "pin", "rate", "retry", "ttl_ms", "zh">>
MCWords == Range(MCAlphabet)
MCClass == [w \in MCWords |->
    CASE w \in {"cache_key", "ghost_fn", "lone_fn", "ttl_ms", "Store::evict", "Ghost::evict"}
           -> "name"
      [] w \in {"Store", "Ghost"} -> "capital"
      [] w \in {"breaks", "calls", "log"} -> "grammar"
      [] w = "of" -> "stop"
      [] w = "zh" -> "cjk"
      [] OTHER -> "plain"]
MCCue == [w \in MCWords |->
    CASE w = "breaks" -> "impact" [] w = "calls" -> "trace" [] w = "log" -> "history"
      [] OTHER -> "none"]
MCGlossary == [w \in MCWords |-> IF w = "zh" THEN {"retry"} ELSE {}]
MCLonger == [w \in MCWords |-> IF w = "cache" THEN {"cache", "cache_key"} ELSE {w}]
MCSegments == [w \in MCWords |->
    CASE w = "Store::evict" -> [scope |-> {"Store"}, member |-> "evict"]
      [] w = "Ghost::evict" -> [scope |-> {"Ghost"}, member |-> "evict"]
      [] OTHER -> [scope |-> {}, member |-> w]]

\* "rate" is held by as many names as a lookup takes, its definition last;
\* "pin" by one more, so that its definition is cut off.
MCInside == [w \in MCWords |->
    CASE w = "pin" -> {15, 16, 17} [] w = "rate" -> {19, 20} [] OTHER -> {}]
MCScattered == [w \in MCWords |-> IF w = "rate" THEN {18} ELSE {}]
MCIndexed == MCWords \ {"of", "zh"}

\* Paths: 1 and 2 source, 3 a test, 4 documentation, 5 configuration.
MCHome == <<"core", "core", "tests", "docs", "core">>
MCSource == [p \in 1..5 |->
    [lang |-> CASE p = 4 -> "none" [] p = 5 -> "toml" [] p = 3 -> "python" [] OTHER -> "rust",
     matches |-> IF p = 1 THEN {2, 5} ELSE IF p = 2 THEN {9} ELSE {}]]
MCReg == [r \in 1..6 |->
    CASE r = 1 -> [path |-> 1, first |-> 1, last |-> 3]
      [] r = 2 -> [path |-> 1, first |-> 4, last |-> 6]
      [] r = 3 -> [path |-> 2, first |-> 1, last |-> 4]
      [] r = 4 -> [path |-> 3, first |-> 1, last |-> 4]
      [] r = 5 -> [path |-> 1, first |-> 1, last |-> 9]
      [] r = 6 -> [path |-> 5, first |-> 1, last |-> 2]]

Entity(kind, name, parts, lang, region, path, span) ==
    [kind |-> kind, name |-> name, parts |-> parts, lang |-> lang, region |-> region,
     path |-> path, span |-> span, test |-> path = 3]
MCEnt == <<
    Entity("Function", "fetch", {"fetch"}, "rust", 1, 1, <<1, 3>>),
    Entity("Function", "cache_key", {"cache_key", "cache", "key"}, "rust", 2, 1, <<4, 6>>),
    Entity("Method", "evict", {"evict"}, "rust", 3, 2, <<1, 4>>),
    Entity("Function", "evict", {"evict", "retry"}, "python", 4, 3, <<1, 4>>),
    Entity("Concept", "cache", {"cache"}, "none", 0, 4, <<0, 0>>),
    Entity("File", "of", {}, "rust", 5, 1, <<1, 9>>),
    Entity("Commit", "of", {}, "none", 0, 0, <<0, 0>>),
    Entity("Commit", "of", {}, "none", 0, 0, <<0, 0>>),
    Entity("File", "of", {}, "toml", 6, 5, <<1, 2>>),
    Entity("Struct", "Store", {"Store"}, "rust", 0, 2, <<5, 6>>),
    Entity("Function", "key", {"key"}, "rust", 0, 2, <<7, 8>>),
    Entity("Package", "of", {}, "none", 0, 0, <<0, 0>>),
    Entity("File", "of", {}, "rust", 0, 2, <<0, 0>>),
    Entity("Function", "lone_fn", {"lone_fn"}, "python", 0, 3, <<0, 0>>)>>
    \o [i \in 1..8 |-> \* spin, ping, spinner, rat_date, crate, iterate, rate, pin
        LET name == CASE i = 7 -> "rate" [] i = 8 -> "pin" [] OTHER -> "of"
        IN  Entity("Function", name, {name} \ {"of"}, "rust", 0, 5, <<0, 0>>)]
MCRoots == [e \in {12} |-> {"core"}]

\* A document stands where its entity does; the first is a part of it.
DocumentRows == <<
    <<1, "RawCode", {"fetch", "cache", "retry"}>>,
    <<1, "SymbolSummary", {"fetch", "cache"}>>,
    <<2, "RawCode", {"cache_key", "key", "cache"}>>,
    <<3, "RawCode", {"evict", "cache", "Store", "Store::evict", "Ghost::evict"}>>,
    <<4, "TestBehavior", {"evict", "fetch"}>>,
    <<5, "KnowledgePage", {"cache", "retry", "evict"}>>,
    <<6, "FileDescriptor", {"fetch", "cache"}>>,
    <<7, "CommitSummary", {"evict", "retry"}>>,
    <<7, "CommitDiff", {"evict", "cache"}>>,
    <<8, "CommitDiff", {"evict", "fetch"}>>,
    <<9, "RawCode", {"cache", "retry", "ttl_ms", "lone_fn", "pin", "rate"}>>>>
MCDoc == [d \in 1..11 |->
    LET row == DocumentRows[d]
        place == MCEnt[row[1]]
    IN  [entity |-> row[1], rep |-> row[2], words |-> row[3], evidence |-> {},
         region |-> place.region, path |-> place.path,
         span |-> IF d = 1 THEN <<1, 2>> ELSE place.span]]

Edge(id, src, kind, dst, conf) ==
    [id |-> id, src |-> src, dst |-> dst, kind |-> kind, conf |-> conf,
     origin |-> IF conf < 50 THEN "ModelInference" ELSE "Parser"]
MCRels == {
    Edge(1, 1, "Calls", 2, 90), Edge(2, 1, "Calls", 3, 60), Edge(3, 4, "Tests", 3, 80),
    Edge(4, 4, "Calls", 1, 90), Edge(5, 3, "References", 10, 70),
    Edge(6, 2, "References", 10, 70), Edge(7, 6, "Contains", 1, 100),
    Edge(8, 6, "Contains", 2, 100), Edge(9, 13, "Contains", 3, 100),
    Edge(10, 6, "Imports", 13, 90), Edge(11, 3, "Calls", 11, 40),
    Edge(12, 6, "ChangedWith", 13, 50), Edge(13, 2, "Calls", 11, 90)}

MCPatch == [d \in {9, 10} |->
    IF d = 9 THEN 1 :> {"evict"} @@ 2 :> {"evict", "cache"} ELSE 2 :> {"evict", "fetch"}]
MCCommitted == [d \in {9, 10} |-> d]
MCRecency == <<20, 5, 1, 0, 0>>
MCDenseOrder == <<6, 4, 1, 5, 11, 3>>

Say(words) == [i \in DOMAIN words |-> [word |-> words[i], tick |-> FALSE]]
Tick(word) == <<[word |-> word, tick |-> TRUE]>>
Ask(words, intent, routes, limit, budget) ==
    [query |-> words, intent |-> intent, routes |-> routes, type |-> "any",
     pattern |-> FALSE, filters |-> [path |-> "any", lang |-> "any"], limit |-> limit,
     fresh |-> FALSE, budget |-> budget]

MCRequests == {
    Ask(Say(<<"cache", "evict">>), "none", {}, 3, 12),
    Ask(Say(<<"cache", "evict">>), "none", {}, 5, 40),
    Ask(Say(<<"cache", "fetch", "retry", "evict">>), "none", {}, 4, 9),
    Ask(Say(<<"zh", "cache">>), "IssueLocalization", {}, 3, 15),
    Ask(Say(<<"cache_key">>), "none", {}, 2, 8),
    Ask(Say(<<"evict", "calls">>), "Trace", {}, 4, 20),
    Ask(Say(<<"Store", "of">>), "Impact", {}, 3, 9),
    Ask(Say(<<"log", "evict">>), "History", {}, 3, 7),
    Ask(Say(<<"cache", "retry">>), "Architecture", {}, 3, 10),
    Ask(Say(<<"evict">>), "PreciseDataflow", {}, 2, 5),
    Ask(Tick("ghost"), "none", {}, 3, NoBudget),
    Ask(Say(<<"ghost_fn">>), "ExactEntity", {}, 3, NoBudget),
    Ask(Say(<<"ttl_ms">>), "ExactEntity", {}, 3, NoBudget),
    Ask(Say(<<"lone_fn">>), "Impact", {}, 3, NoBudget),
    Ask(Say(<<"pin">>), "ExactEntity", {}, 3, NoBudget),
    Ask(Say(<<"rate">>), "ExactEntity", {}, 3, NoBudget),
    Ask(Say(<<"rate">>), "Trace", {}, 3, NoBudget),
    Ask(Say(<<"Store::evict">>), "Trace", {}, 3, NoBudget),
    Ask(Say(<<"Ghost::evict">>), "ExactEntity", {}, 3, NoBudget),
    Ask(Say(<<"cache_key">>), "History", {}, 3, NoBudget),
    Ask(Say(<<"cache_key", "ghost_fn">>), "none", {}, 3, NoBudget),
    Ask(Say(<<"ghost_fn">>), "ExactEntity", {"Diff", "Lexical"}, 3, NoBudget),
    [Ask(Say(<<"ghost_fn">>), "none", {}, 3, NoBudget) EXCEPT !.type = "diff"],
    [Ask(Say(<<"cache", "evict">>), "none", {}, 5, NoBudget) EXCEPT
        !.filters = [path |-> "tests", lang |-> "any"]],
    [Ask(Say(<<"cache">>), "none", {"DenseRaw", "Lexical"}, 3, NoBudget) EXCEPT
        !.filters = [path |-> "any", lang |-> "rust"]],
    [Ask(Say(<<"cache">>), "none", {"DenseRaw"}, 3, NoBudget) EXCEPT !.fresh = TRUE],
    [Ask(Say(<<"evict">>), "none", {}, 3, NoBudget) EXCEPT !.type = "diff"],
    [Ask(Say(<<"ghost_fn">>), "none", {}, 3, NoBudget) EXCEPT !.type = "commit"],
    [Ask(Say(<<"cache">>), "none", {}, 2, NoBudget) EXCEPT !.pattern = TRUE],
    [Ask(<<>>, "none", {}, 4, NoBudget) EXCEPT !.pattern = TRUE]}

Setting(index, embedder, reranker, zoekt, prunable) ==
    [snapshot |-> TRUE, index |-> index, embedder |-> embedder, reranker |-> reranker,
     zoekt |-> zoekt, prunable |-> prunable]
MCEnvironments == {
    Setting("ok", "ready", "ready", "current", FALSE),
    Setting("fails", "broken", "broken", "stale", FALSE),
    Setting("ok", "flaky", "flaky", "broken", FALSE),
    Setting("ok", "ready", "none", "current", TRUE),
    [Setting("ok", "none", "none", "current", FALSE) EXCEPT !.snapshot = FALSE]}

View(states) == [v \in PlanViews |-> IF v \in DOMAIN states THEN states[v] ELSE "Ready"]
MCManifests == {
    View("Dataflow" :> "Missing"),
    View("Graph" :> "Failed" @@ "Dense" :> "Partial" @@ "Zoekt" :> "Missing")}
=============================================================================
