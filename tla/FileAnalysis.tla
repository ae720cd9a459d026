--------------------------- MODULE FileAnalysis ---------------------------
(***************************************************************************)
(* What the engine extracts from the text of one file: the parsed units    *)
(* and calls (parser.rs), the chunks of a range, and the records the       *)
(* per-file loop of index_inner makes of them (engine.rs).                 *)
(*                                                                         *)
(* A text is a sequence of bytes; "cont" is a UTF-8 continuation byte,     *)
(* "nl" a newline and "doc" a whole comment line.  What tree-sitter and    *)
(* the extraction patterns find in a text is part of the content's record, *)
(* in the order they report it.  A name is the sequence of its words; a path  *)
(* is its directories, the words of its stem and its extension.  Bytes are *)
(* counted from 0 and ranges are half open, as in the code.                *)
(***************************************************************************)
EXTENDS Naturals, Sequences, FiniteSets, SequencesExt, FiniteSetsExt, Lists

CONSTANTS
    Content,       \* content -> [text, binary, errors, nodes, calls, specifiers, routes, manifest]
    MaxUnitBytes,  \* max_unit_bytes: longest chunk of a unit
    DocLines,      \* 4 in leading_doc_comment
    MaxCallees,    \* 12 in symbol_descriptor
    TestWords      \* the words in which "test" or "spec" occurs

ASSUME ChunkAssumption == MaxUnitBytes \in Nat /\ DocLines \in Nat /\ MaxCallees \in Nat
ASSUME TestWordAssumption == {"test", "tests", "testing", "__tests__", "spec"} \subseteq TestWords

\* What is reported of a content comes in lists.
ASSUME ContentAssumption ==
    \A c \in DOMAIN Content : LET k == Content[c] IN
        /\ IsList(k.text) /\ IsList(k.nodes) /\ IsList(k.calls)
        /\ IsList(k.specifiers) /\ IsList(k.routes) /\ IsList(k.manifest.deps)
        /\ \A n \in ToSet(k.nodes) : n.start \in Nat /\ n.end \in Nat /\ IsList(n.types)
        /\ \A s \in ToSet(k.specifiers) : IsList(s.segs)

Path(dir, stem, ext) == [dir |-> dir, stem |-> stem, ext |-> ext]
NoPath == Path(<<>>, <<>>, "")

\* The spelling of a path as the words of a document.
Spelled(p) == p.dir \o p.stem \o <<p.ext>>

-----------------------------------------------------------------------------
\* Languages.

ExtensionsOf(lang) ==
    CASE lang = "rust" -> {"rs"}
      [] lang = "typescript" -> {"ts", "mts", "cts"}
      [] lang = "tsx" -> {"tsx"}
      [] lang = "javascript" -> {"js", "mjs", "cjs", "jsx"}
      [] lang = "python" -> {"py", "pyi"}
      [] lang = "go" -> {"go"}
      [] lang = "java" -> {"java"}
      [] lang = "csharp" -> {"cs"}

Grammars == {"rust", "typescript", "tsx", "javascript", "python", "go", "java", "csharp"}

\* Languages without a grammar are not told apart.
language_for_path(p) ==
    IF \E l \in Grammars : p.ext \in ExtensionsOf(l)
    THEN CHOOSE l \in Grammars : p.ext \in ExtensionsOf(l)
    ELSE "text"

supports(lang) == lang \in Grammars

Script == {"typescript", "tsx", "javascript"}
Curly == {"java", "csharp"}

\* The syntax nodes that are units, by language.
UnitNodes ==
    { <<{"rust"}, {"function_item"}, "Function">>,
      <<{"rust"}, {"struct_item"}, "Struct">>,
      <<{"rust"}, {"enum_item"}, "Enum">>,
      <<{"rust"}, {"trait_item"}, "Trait">>,
      <<{"rust"}, {"impl_item", "mod_item"}, "Module">>,
      <<{"rust"}, {"const_item", "static_item"}, "Constant">>,
      <<Script, {"function_declaration", "generator_function_declaration"}, "Function">>,
      <<Script, {"method_definition", "method_signature"}, "Method">>,
      <<Script, {"class_declaration"}, "Class">>,
      <<Script \ {"javascript"}, {"interface_declaration"}, "Interface">>,
      <<Script \ {"javascript"}, {"type_alias_declaration"}, "Schema">>,
      <<{"python"}, {"function_definition"}, "Function">>,
      <<{"python"}, {"class_definition"}, "Class">>,
      <<{"go"}, {"function_declaration"}, "Function">>,
      <<{"go"}, {"method_declaration"}, "Method">>,
      <<{"go"}, {"type_spec"}, "Schema">>,
      <<Curly, {"method_declaration", "constructor_declaration"}, "Method">>,
      <<Curly, {"class_declaration"}, "Class">>,
      <<Curly, {"interface_declaration"}, "Interface">>,
      <<Curly, {"enum_declaration"}, "Enum">>,
      <<{"csharp"}, {"struct_declaration"}, "Struct">> }

entity_kind(lang, syntax) ==
    {row[3] : row \in {r \in UnitNodes : lang \in r[1] /\ syntax \in r[2]}}

-----------------------------------------------------------------------------
\* Parsing.

unparsed == [units |-> <<>>, calls |-> <<>>, parsed |-> FALSE, errors |-> FALSE]

\* Named nodes of a unit kind, as the walk meets them.
collect_candidates(lang, c) ==
    LET named == Select(Content[c].nodes,
                           LAMBDA n : entity_kind(lang, n.syntax) # {} /\ n.name # <<>>)
    IN  [i \in DOMAIN named |->
            [kind |-> CHOOSE k \in entity_kind(lang, named[i].syntax) : TRUE,
             name |-> named[i].name, start |-> named[i].start, end |-> named[i].end,
             types |-> named[i].types]]

\* Outer units before the units they hold.
UnitBefore(u, v) == u.start < v.start \/ (u.start = v.start /\ u.end >= v.end)

\* The stack of open units after the i-th one, which is its top: those below
\* end no earlier, and only the ends are compared.
Opened(units) ==
    LET open[i \in 0..Len(units)] ==
            IF i = 0 THEN <<>>
            ELSE LET around == {k \in DOMAIN open[i - 1] :
                                  units[open[i - 1][k]].end >= units[i].end}
                 IN  Append(SubSeq(open[i - 1], 1, Max({0} \cup around)), i)
    IN  open

\* The innermost open ancestor is the one below it on the stack.
assign_parents(units) ==
    LET open == Opened(units)
        Outer(stack) == IF Len(stack) = 1 THEN 0 ELSE stack[Len(stack) - 1]
    IN  [i \in DOMAIN units |->
            [kind |-> units[i].kind, name |-> units[i].name, start |-> units[i].start,
             end |-> units[i].end, types |-> units[i].types,
             parent |-> Outer(open[i])]]

\* A call belongs to the last unit in order that covers it.
CallerOf(units, call) ==
    Max({0} \cup {i \in DOMAIN units :
                    units[i].start <= call.start /\ units[i].end >= call.end})

parse(p, c) ==
    IF ~supports(language_for_path(p)) THEN unparsed
    ELSE LET units == assign_parents(Sorted(collect_candidates(language_for_path(p), c),
                                             UnitBefore))
             found == Content[c].calls
         IN  [units |-> units,
              calls |-> [i \in DOMAIN found |->
                            [name |-> found[i].name, start |-> found[i].start,
                             end |-> found[i].end, caller |-> CallerOf(units, found[i])]],
              parsed |-> TRUE, errors |-> Content[c].errors]

-----------------------------------------------------------------------------
\* Chunks of at most MaxUnitBytes, cut at a character and, in the second
\* half of a chunk, after a newline.

is_char_boundary(text, i) == i \in {0, Len(text)} \/ text[i + 1] # "cont"

ChunkEnd(text, cursor, end) ==
    LET far == IF cursor + MaxUnitBytes < end THEN cursor + MaxUnitBytes ELSE end
        cut == Max({k \in cursor..far : k = cursor \/ is_char_boundary(text, k)})
        breaks == {k \in cursor..(cut - 1) : text[k + 1] \in {"nl", "doc"}}
    IN  IF cut < end /\ breaks # {} /\ Max(breaks) - cursor > MaxUnitBytes \div 2
        THEN Max(breaks) + 1 ELSE cut

chunk_ranges(text, start, end) ==
    LET from[cursor \in start..end] ==
            LET stop == ChunkEnd(text, cursor, end)
            IN  IF stop = cursor THEN <<>> ELSE <<<<cursor, stop>>>> \o from[stop]
    IN  IF end - start <= MaxUnitBytes \/ MaxUnitBytes = 0
        THEN <<<<start, end>>>> ELSE from[start]

\* A continuation byte never follows a newline, and no character is longer
\* than a chunk may be: UTF-8 text, unless MaxUnitBytes is 1, 2 or 3.
CharactersFit(text) ==
    /\ IsList(text)
    /\ \A i \in 1..(Len(text) - 1) : text[i] \in {"nl", "doc"} => text[i + 1] # "cont"
    /\ \A i \in 0..Len(text) :
          is_char_boundary(text, i) /\ i + MaxUnitBytes < Len(text)
          => \E k \in (i + 1)..(i + MaxUnitBytes) : is_char_boundary(text, k)

\* The chunks follow one another from `first' to `last': no byte is in two
\* of them or in none, and no character is cut.
Tiles(chunks, text, first, last) ==
    /\ IsList(chunks) /\ chunks # <<>>
    /\ chunks[1][1] = first /\ chunks[Len(chunks)][2] = last
    /\ \A i \in DOMAIN chunks :
          /\ chunks[i][1] < chunks[i][2]
          /\ MaxUnitBytes # 0 => chunks[i][2] - chunks[i][1] <= MaxUnitBytes
          /\ is_char_boundary(text, chunks[i][1]) /\ is_char_boundary(text, chunks[i][2])
          /\ i + 1 \in DOMAIN chunks => chunks[i][2] = chunks[i + 1][1]

Slice(text, range) == SubSeq(text, range[1] + 1, range[2])

-----------------------------------------------------------------------------
\* Identities.  They are functions of the place and the name, never of the
\* text: a unit that is edited in place keeps its entity and document ids.

entity_id(p, start, end, label) == [path |-> p, start |-> start, end |-> end, label |-> label]
FileEntity(p, c) == entity_id(p, 0, Len(Content[c].text), <<"file">>)
UnitEntity(p, u) == entity_id(p, u.start, u.end, <<u.kind>> \o u.name)
Repository == entity_id(NoPath, 0, 0, <<"repository">>)

region_id(p, start, end, kind, name) ==
    [path |-> p, start |-> start, end |-> end, kind |-> kind, name |-> name]
FileRegion(p, c) == region_id(p, 0, Len(Content[c].text), "File", <<>>)
UnitRegion(p, u) == region_id(p, u.start, u.end, "Symbol", u.name)
NoRegion == region_id(NoPath, 0, 0, "none", <<>>)

document_id(entity, rep, start, end) ==
    [entity |-> entity, rep |-> rep, start |-> start, end |-> end]

\* A document: its identity, what it stands for and the text it is found by.
\* The id of a generated document holds the length of its text, which its
\* entity and representation already determine.
Document(entity, label, rep, range, region, text) ==
    [id |-> document_id(entity, label, range[1], range[2]), rep |-> rep,
     region |-> region, text |-> text]
Generated(entity, label, rep, region, text) ==
    Document(entity, label, rep, <<0, 0>>, region, text)

-----------------------------------------------------------------------------
\* Generated texts.

qualified_name(p, units, i) ==
    LET up[k \in 0..Len(units)] ==
            IF k = 0 THEN <<>> ELSE up[units[k].parent] \o units[k].name
    IN  Spelled(p) \o up[i]

\* The last DocLines lines of the comment above a unit; blank lines may
\* stand between the two, not inside the comment.
leading_doc_comment(text, start) ==
    LET last == Max({0} \cup {k \in 1..start : text[k] # "nl"})
        code == Max({0} \cup {k \in 1..last : text[k] # "doc"})
    IN  SubSeq(text, Max({code, IF last > DocLines THEN last - DocLines ELSE 0}) + 1, last)

\* It names the first MaxCallees of the functions the unit calls, each once and
\* in the order of their names.
symbol_descriptor(p, c, a, i) ==
    LET u == a.units[i]
        callees == SetToSeq({k.name : k \in {k \in ToSet(a.calls) : k.caller = i}})
    IN  <<u.kind>> \o qualified_name(p, a.units, i)
        \o leading_doc_comment(Content[c].text, u.start)
        \o FlattenSeq(SubSeq(callees, 1, Min({MaxCallees, Len(callees)})))
        \o FlattenSeq(u.types)

file_descriptor(p, c, a) ==
    LET top == Select(a.units, LAMBDA u : u.parent = 0)
    IN  <<"descriptor">> \o Spelled(p)
        \o Select(Content[c].text, LAMBDA b : b = "doc")
        \o FlattenSeq([i \in DOMAIN top |-> top[i].name])

deterministic_role_summary(p, a) ==
    <<"role">> \o Spelled(p) \o <<IF a.parsed THEN "parsed" ELSE "file-level only">>
    \o FlattenSeq([i \in DOMAIN a.units |-> a.units[i].name])

is_test(p, name) ==
    \/ ToSet(Spelled(p)) \cap TestWords # {}
    \/ Head(name) = "test" \/ Last(name) = "test"
    \/ name \in {<<"tests">>, <<"testing">>}

-----------------------------------------------------------------------------
\* The records of one file.

\* Mutant: a whole unit is given the region of a chunk.
ChunkRegionAlways(p, u, range) == region_id(p, range[1], range[2], "Subregion", u.name)

\* A chunk that is its whole unit is found in the unit's region.
ChunkRegion(p, u, range) ==
    IF range = <<u.start, u.end>> THEN UnitRegion(p, u)
    ELSE region_id(p, range[1], range[2], "Subregion", u.name)

UnitRecords(p, c, a, i) ==
    LET text == Content[c].text
        u == a.units[i]
        id == UnitEntity(p, u)
        chunks == chunk_ranges(text, u.start, u.end)
        parent == IF u.parent = 0 THEN FileEntity(p, c) ELSE UnitEntity(p, a.units[u.parent])
        outer == IF u.parent = 0 THEN FileRegion(p, c) ELSE UnitRegion(p, a.units[u.parent])
        parts == Select(chunks, LAMBDA r : r # <<u.start, u.end>>)
    IN  [regions |-> <<[id |-> UnitRegion(p, u), parent |-> outer]>>
                     \o [k \in DOMAIN parts |-> [id |-> ChunkRegion(p, u, parts[k]),
                                                 parent |-> UnitRegion(p, u)]],
         entities |-> <<id>>,
         contains |-> <<[src |-> parent, dst |-> id, kind |-> "contains",
                         origin |-> "TreeSitter", confidence |-> 100,
                         evidence |-> <<<<p, u.start, u.end>>>>]>>,
         docs |-> [k \in DOMAIN chunks |->
                     Document(id, "raw_code",
                              IF is_test(p, u.name) THEN "TestBehavior" ELSE "RawCode",
                              chunks[k], ChunkRegion(p, u, chunks[k]), Slice(text, chunks[k]))]
                  \o <<Generated(id, "symbol_summary", "SymbolSummary", UnitRegion(p, u),
                                 symbol_descriptor(p, c, a, i))>>]

\* A file without units is indexed in windows.
Windows(p, c, a) ==
    IF a.units = <<>> /\ Content[c].text # <<>>
    THEN chunk_ranges(Content[c].text, 0, Len(Content[c].text)) ELSE <<>>

\* `units' are the records of its units.
FileRecords(p, c, a, units) ==
    LET whole == FileRegion(p, c)
        file == FileEntity(p, c)
        windows == Windows(p, c, a)
        Sub(r) == region_id(p, r[1], r[2], "Subregion", <<>>)
    IN  [regions |-> <<[id |-> whole, parent |-> NoRegion]>>
                     \o [k \in DOMAIN windows |-> [id |-> Sub(windows[k]), parent |-> whole]]
                     \o FlattenSeq([i \in DOMAIN units |-> units[i].regions]),
         entities |-> <<file>> \o FlattenSeq([i \in DOMAIN units |-> units[i].entities]),
         contains |-> FlattenSeq([i \in DOMAIN units |-> units[i].contains]),
         docs |-> <<Generated(file, "file_descriptor", "FileDescriptor", whole,
                              file_descriptor(p, c, a))>>
                  \o [k \in DOMAIN windows |->
                        Document(file, "raw_code", "RawCode", windows[k], Sub(windows[k]),
                                 Slice(Content[c].text, windows[k]))]
                  \o FlattenSeq([i \in DOMAIN units |-> units[i].docs])
                  \o <<Generated(file, "role_summary", "RoleSummary", whole,
                                 deterministic_role_summary(p, a))>>]
=============================================================================
