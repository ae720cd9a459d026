-------------------------- MODULE MCSnapshotBuild --------------------------
(***************************************************************************)
(* A small workspace for SnapshotBuild: two Cargo packages, a library with *)
(* a module and a test, a TypeScript project and a lock file.              *)
(***************************************************************************)
EXTENDS SnapshotBuild

CONSTANT gone   \* the content of a file that does not exist

Env == Path(<<>>, <<>>, "env")
Lock == Path(<<>>, <<"Cargo">>, "lock")
App == Path(<<>>, <<"Cargo">>, "toml")
Core == Path(<<"core">>, <<"Cargo">>, "toml")
Web == Path(<<"packages", "web">>, <<"app">>, "ts")
WebConfig == Path(<<"packages", "web">>, <<"tsconfig">>, "json")
Lib == Path(<<"src">>, <<"lib">>, "rs")
Util == Path(<<"src">>, <<"util">>, "rs")
Test == Path(<<"tests">>, <<"lib">>, "rs")
MCPathOrder == <<Env, Lock, App, Core, Web, WebConfig, Lib, Util, Test>>
MCNameOrder == <<<<"app">>, <<"core">>>>

Plain(text) ==
    [text |-> text, binary |-> FALSE, errors |-> FALSE, nodes |-> <<>>, calls |-> <<>>,
     specifiers |-> <<>>, routes |-> <<>>, manifest |-> [name |-> <<>>, deps |-> <<>>],
     scip |-> [occs |-> <<>>, infos |-> <<>>], hollow |-> FALSE, globs |-> {}]
Node(syntax, name, start, end, types) ==
    [syntax |-> syntax, name |-> name, start |-> start, end |-> end, types |-> types]
Call(name, at) == [name |-> name, start |-> at, end |-> at + 1]
Occ(sym, at, def) == [sym |-> sym, local |-> FALSE, start |-> at, end |-> at + 1, def |-> def]
Manifest(text, name, deps) == [Plain(text) EXCEPT !.manifest = [name |-> name, deps |-> deps]]

MCContent ==
    "lock" :> Plain(<<"x">>) @@
    "app" :> Manifest(<<"p", "nl", "d">>, <<"app">>, <<<<"core">>>>) @@
    "app2" :> Manifest(<<"p", "nl", "d", "d">>, <<"app">>, <<<<"core">>, <<"core">>>>) @@
    "core" :> Manifest(<<"p", "nl">>, <<"core">>, <<<<"serde">>>>) @@
    "web" :> [Plain(<<"doc", "k", "l", "nl">>) EXCEPT
        !.nodes = <<Node("class_declaration", <<"App">>, 1, 4, <<>>)>>,
        !.specifiers = <<[form |-> "relative", up |-> 0, segs |-> <<"app">>, ext |-> ""]>>,
        !.scip.occs = <<Occ("App", 1, TRUE), Occ("App", 0, FALSE)>>] @@
    "blob" :> [Plain(<<"k", "k", "k", "k">>) EXCEPT !.binary = TRUE] @@
    "tsconfig" :> Plain(<<"{", "}">>) @@
    "lib1" :> [Plain(<<"doc", "f", "x", "y", "cont", "nl", "s", "nl">>) EXCEPT
        !.nodes = <<Node("function_item", <<"run">>, 1, 6, <<<<"Store">>>>),
                    Node("struct_item", <<"Store">>, 6, 8, <<>>)>>,
        !.calls = <<Call(<<"load">>, 2), Call(<<"log">>, 3), Call(<<"load">>, 4)>>,
        !.specifiers = <<[form |-> "mod", segs |-> <<"util">>]>>,
        !.scip = [occs |-> <<Occ("run", 1, TRUE), Occ("Store", 6, TRUE), Occ("load", 2, FALSE),
                             Occ("Store", 3, FALSE)>>,
                  infos |-> <<[sym |-> "run", local |-> FALSE,
                               rels |-> <<[sym |-> "Store", local |-> FALSE,
                                           kind |-> "references"]>>]>>]] @@
    "lib2" :> [Plain(<<"f", "x", "nl", "g", "h", "nl", "r", "nl">>) EXCEPT
        !.nodes = <<Node("function_item", <<"go">>, 0, 3, <<>>),
                    Node("function_item", <<"run">>, 3, 6, <<>>)>>,
        !.calls = <<Call(<<"run">>, 1)>>,
        !.routes = <<[name |-> <<"get">>, handler |-> <<"go">>, start |-> 6, end |-> 8]>>,
        !.scip.occs = <<Occ("go", 0, TRUE), Occ("run", 3, TRUE), Occ("run", 1, FALSE)>>] @@
    "util" :> [Plain(<<"f", "x", "nl">>) EXCEPT
        !.nodes = <<Node("function_item", <<"load">>, 0, 3, <<<<"Store">>>>)>>,
        !.specifiers = <<[form |-> "super", segs |-> <<"lib">>]>>,
        !.scip.occs = <<Occ("load", 0, TRUE), Occ("Store", 1, FALSE)>>] @@
    "test" :> [Plain(<<"f", "x", "nl">>) EXCEPT
        !.nodes = <<Node("function_item", <<"test", "run">>, 0, 2, <<>>),
                    Node("function_item", <<"testgo", "twice">>, 2, 3, <<>>)>>,
        !.calls = <<Call(<<"run">>, 1)>>,
        !.scip.occs = <<Occ("run", 1, FALSE)>>]

MCFirstTree ==
    Env :> "lock" @@ Lock :> "lock" @@ App :> "app" @@ Core :> "core" @@ Web :> "web" @@ WebConfig :> "tsconfig"
    @@ Lib :> "lib1" @@ Util :> "util" @@ Test :> "test"
MCVersions == [p \in DOMAIN MCFirstTree |->
    CASE p = App -> {"app", "app2"} [] p = Lib -> {"lib1", "lib2"} [] p = Util -> {"util", gone}
      [] p = Web -> {"web", "blob"} [] OTHER -> {MCFirstTree[p]}]
MCTestWords == {"test", "tests", "testing", "testgo", "__tests__", "spec"}
MCAfterTest == "testgo" :> "go" @@ "tests" :> "s" @@ "testing" :> "ing"
MCShortNames == {<<"go">>}
MCBuiltIn == {Lock}
MCSensitive == {Env}

Change(id, touched, root) == [id |-> id, touched |-> touched, root |-> root]
MCHistory ==
    LET past == <<Change("c2", {Lib, Util}, FALSE), Change("c1", {Lib}, TRUE)>>
    IN  <<past, <<Change("c3", {Lib, Test, Lock, Env}, FALSE)>> \o past>>

MCRootIndex == ScipIndex(TRUE, <<[path |-> Lib, of |-> "lib1"], [path |-> Lock, of |-> "lib2"]>>)

\* Select and Sorted are the filter and the stable sort of the library: an
\* entry is a number to sort by and its position, which the sort must not use.
SmallLists == UNION {[1..n -> 1..3] : n \in 0..4}
ASSUME \A s \in SmallLists :
    LET list == [i \in DOMAIN s |-> <<s[i], i>>]
    IN  /\ \A k \in 1..3 :
              Select(list, LAMBDA e : e[1] # k) = SelectSeq(list, LAMBDA e : e[1] # k)
        /\ Sorted(list, LAMBDA d, e : d[1] <= e[1])
             = SortSeq(list, LAMBDA d, e : d[1] < e[1] \/ (d[1] = e[1] /\ d[2] < e[2]))

\* The texts of this instance are texts, and the ranges of short ones are
\* chunked without loss.
SmallTexts == UNION {[1..n -> {"x", "cont", "nl"}] : n \in 0..7}
ASSUME \A c \in DOMAIN Content : CharactersFit(Content[c].text)
ASSUME \A text \in SmallTexts : CharactersFit(text) =>
    \A start, end \in {k \in 0..Len(text) : is_char_boundary(text, k)} :
        start < end => Tiles(chunk_ranges(text, start, end), text, start, end)
=============================================================================
