----------------------------- MODULE GraphFlow -----------------------------
(***************************************************************************)
(* The query-seeded flow pass (apply_graph_flow in retrieval.rs).  The     *)
(* entities of the retrieved candidates are seeded with their fused score; *)
(* mass crosses typed edges for two hops and corroborates the candidates   *)
(* it reaches.  Every quantity is an integer: scores and masses in         *)
(* millionths, conductances and confidences in hundredths, strengths in    *)
(* thousandths.                                                            *)
(***************************************************************************)
EXTENDS SnapshotReader

CONSTANTS
    FlowSeeds,        \* FLOW_SEEDS
    FlowSeedDegree,   \* FLOW_SEED_DEGREE: edges read per node and direction
    FlowFrontier,     \* FLOW_FRONTIER: receivers whose edges hop 2 reads
    FlowEmitMax       \* FLOW_EMIT_MAX

FlowSeedContains == 60

\* Conductance of an edge kind along and against its direction.
flow_edge_weights(kind) ==
    CASE kind = "RouteHandledBy" -> <<90, 30>>
      [] kind = "Calls" -> <<80, 50>>
      [] kind = "Imports" -> <<70, 35>>
      [] kind = "Tests" -> <<60, 60>>
      [] kind = "References" -> <<50, 40>>
      [] kind = "Contains" -> <<30, 90>>
      [] kind = "ChangedWith" -> <<40, 40>>
      [] kind = "BuildDependsOn" -> <<25, 15>>
      [] OTHER -> <<0, 0>>

flow_kind_tag(kind) ==
    CASE kind = "Calls" -> 0 [] kind = "References" -> 1 [] kind = "Imports" -> 2
      [] kind = "Contains" -> 3 [] kind = "Tests" -> 4 [] kind = "ChangedWith" -> 5
      [] kind = "RouteHandledBy" -> 6 [] kind = "BuildDependsOn" -> 7
      [] OTHER -> 255

Largest(S) == CHOOSE x \in S : \A y \in S : y <= x
At(f, x, default) == IF x \in DOMAIN f THEN f[x] ELSE default

\* The function f, overridden by `new' on its domain.
Overlay(f, new) ==
    [x \in DOMAIN f \cup DOMAIN new |-> IF x \in DOMAIN new THEN new[x] ELSE f[x]]

(***************************************************************************)
(* Seeds and edges.                                                        *)
(***************************************************************************)
Heavier(score, x, y) == score[x] > score[y] \/ (score[x] = score[y] /\ x < y)
ByScore(score, S) == Ordered(S, LAMBDA x, y : Heavier(score, x, y))
Heaviest(score, S, n) == FirstBy(S, LAMBDA x, y : Heavier(score, x, y), n)

\* The strongest candidate entities, then what expansion surfaced: its
\* entities, and while the budget lasts the file entities of its paths.
\* seed entity |-> mass.
FlowSeedMass(live, cands, expansion) ==
    LET entities == {cands[d].entity : d \in DOMAIN cands}
        best == [e \in entities |->
                    Largest({cands[d].score : d \in {c \in DOMAIN cands :
                                                        cands[c].entity = e}})]
        direct == Heaviest(best, entities, FlowSeeds)
        surfaced == DOMAIN expansion.entities \ direct
        room == FlowSeeds - Cardinality(direct) - Cardinality(surfaced)
        paths == IF room <= 0 THEN <<>>
                 ELSE Take(ByScore(expansion.paths, DOMAIN expansion.paths), room + 4)
        holders == FoldLeft(LAMBDA fs, p :
                       IF Len(fs) >= room THEN fs
                       ELSE LET new == file_entity(live, p) \ (direct \cup surfaced)
                            IN  IF new = {} THEN fs
                                ELSE Append(fs, [id |-> CHOOSE e \in new : TRUE,
                                                 mass |-> expansion.paths[p]]),
                       <<>>, paths)
        extra == [e \in surfaced \cup {holders[i].id : i \in DOMAIN holders} |->
                     IF e \in surfaced THEN expansion.entities[e]
                     ELSE (CHOOSE h \in Range(holders) : h.id = e).mass]
        kept == direct \cup Heaviest(extra, DOMAIN extra, FlowSeeds - Cardinality(direct))
    IN  [e \in kept |-> IF e \in direct THEN best[e] ELSE extra[e]]

\* The edges touching some nodes: each direction has its own budget, and
\* rows that repeat a (source, target, kind) count once.
SameEdge(r, s) == r.src = s.src /\ r.dst = s.dst /\ r.kind = s.kind
flow_collect_edges(live, nodes) ==
    LET budget(e) == LET n == entity_relation_degree(live, e)
                     IN  IF n < FlowSeedDegree THEN n ELSE FlowSeedDegree
        rows == UNION {Range(relations_for_entity(live, e, dir, budget(e))) :
                          e \in nodes, dir \in {"out", "in"}}
    IN  {r \in rows : \A s \in rows : SameEdge(r, s) =>
            r.conf > s.conf \/ (r.conf = s.conf /\ r.id <= s.id)}

(***************************************************************************)
(* Evidence paths.                                                         *)
(***************************************************************************)
\* The walk of a traversal: a seed starts one, another node extends its own,
\* and one that is FlowHops long already has no extension.
FlowHops == 2
\* Seeded bug: the walk of the predecessor is forgotten.
restart_evidence_path(predecessor, from, to, kind, delivered) ==
    {[seed |-> from, edges |-> <<[from |-> from, to |-> to, kind |-> kind]>>,
      received |-> delivered]}
extend_evidence_path(predecessor, from, to, kind, delivered) ==
    LET walked == IF predecessor = <<>> THEN [seed |-> from, edges |-> <<>>]
                  ELSE predecessor[1]
    IN  IF predecessor # <<>> /\ Len(walked.edges) >= FlowHops THEN {}
        ELSE {[seed |-> walked.seed,
               edges |-> walked.edges \o <<[from |-> from, to |-> to, kind |-> kind]>>,
               received |-> delivered]}

\* Seed, then each edge as (from, kind, to).
evidence_path_key(path) ==
    <<path.seed>> \o FoldLeft(LAMBDA key, e :
                        key \o <<e.from, flow_kind_tag(e.kind), e.to>>,
                        <<>>, path.edges)

\* The order the code merges paths by: a path that delivered less wins.
evidence_path_better(p, q) ==
    \/ p.received < q.received
    \/ p.received = q.received /\ LexBefore(evidence_path_key(p), evidence_path_key(q))

(***************************************************************************)
(* Propagation.  A flow holds the seeds, the seeds that are files, the     *)
(* edge universe, and per node its mass, what it received and from which   *)
(* senders, the seeds its mass came from and one evidence path.            *)
(***************************************************************************)
NoFlow == [seeds |-> {}, files |-> {}, edges |-> {}, mass |-> <<>>, received |-> <<>>,
           senders |-> <<>>, origins |-> <<>>, paths |-> <<>>, used |-> {}]

FlowStart(live, seedMass, edges) ==
    [NoFlow EXCEPT
        !.seeds = DOMAIN seedMass,
        !.files = {e \in entities_by_ids(live, DOMAIN seedMass) : Ent[e].kind = "File"},
        !.edges = edges,
        !.mass = seedMass,
        !.origins = [e \in DOMAIN seedMass |-> {e}]]

\* What one hop may cross: an edge in a direction with conductance, from a
\* node with mass, unless the previous hop crossed it the other way.
Traversals(flow) ==
    LET forward(r) == [edge |-> r, back |-> FALSE, from |-> r.src, to |-> r.dst,
                       weight |-> IF r.kind = "Contains" /\ r.src \in flow.files
                                  THEN FlowSeedContains
                                  ELSE flow_edge_weights(r.kind)[1]]
        backward(r) == [edge |-> r, back |-> TRUE, from |-> r.dst, to |-> r.src,
                        weight |-> flow_edge_weights(r.kind)[2]]
    IN  {t \in {forward(r) : r \in flow.edges} \cup {backward(r) : r \in flow.edges} :
            /\ t.weight > 0
            /\ At(flow.mass, t.from, 0) > 0
            /\ <<t.edge.id, ~t.back>> \notin flow.used}

\* A node splits its mass over its edges of one kind and direction in
\* proportion to their confidence; the gain of hop n is halved n times.
Delivered(hop, t, flow) ==
    LET layer == {r \in flow.edges : /\ r.kind = t.edge.kind
                                     /\ t.from = IF t.back THEN r.dst ELSE r.src}
        total == MapThenSumSet(LAMBDA r : r.conf, layer)
    IN  ((t.weight * flow.mass[t.from] * t.edge.conf) \div (100 * total)) \div 2 ^ hop

\* The traversals with what each delivers.
Moves(hop, flow) ==
    {[edge |-> t.edge, back |-> t.back, from |-> t.from, to |-> t.to,
      gain |-> Delivered(hop, t, flow)] : t \in Traversals(flow)}

\* The evidence path a node keeps: its own so far or one a move brings.
PathsTo(moves, flow, n) ==
    (UNION {extend_evidence_path(
                IF t.from \in flow.seeds \/ t.from \notin DOMAIN flow.paths THEN <<>>
                ELSE <<flow.paths[t.from]>>,
                t.from, t.to, t.edge.kind, t.gain) : t \in {m \in moves : m.to = n}})
    \cup (IF n \in DOMAIN flow.paths THEN {flow.paths[n]} ELSE {})
KeptPath(moves, flow, n) ==
    LET walks == PathsTo(moves, flow, n)
        best == {p \in walks : \A q \in walks : ~evidence_path_better(q, p)}
    IN  CHOOSE p \in walks : best # {} => p \in best

\* Everything a hop relays is what earlier hops delivered.
flow_record_hop(moves, flow) ==
    LET targets == {t.to : t \in moves}
        into(n) == {t \in moves : t.to = n}
        gain(n) == MapThenSumSet(LAMBDA t : t.gain, into(n))
        shown == {n \in targets : PathsTo(moves, flow, n) # {}}
    IN  [flow EXCEPT
          !.mass = Overlay(@, [n \in targets |-> At(flow.mass, n, 0) + gain(n)]),
          !.received = Overlay(@, [n \in targets |-> At(flow.received, n, 0) + gain(n)]),
          !.senders = Overlay(@, [n \in targets |->
                         At(flow.senders, n, {}) \cup {t.from : t \in into(n)}]),
          !.origins = Overlay(@, [n \in targets |-> At(flow.origins, n, {}) \cup
                         UNION {At(flow.origins, t.from, {}) : t \in into(n)}]),
          !.paths = Overlay(@, [n \in shown |-> KeptPath(moves, flow, n)]),
          !.used = {<<t.edge.id, t.back>> : t \in moves}]

FlowHop(hop, flow) == flow_record_hop(Moves(hop, flow), flow)

\* The second hop also reads the edges of the strongest receivers that are
\* not seeds.
WithFrontier(live, flow) ==
    LET strongest == Heaviest(flow.received, DOMAIN flow.received \ flow.seeds, FlowFrontier)
        wider == flow_collect_edges(live, strongest)
    IN  [flow EXCEPT !.edges = @ \cup {r \in wider : \A s \in flow.edges : ~SameEdge(r, s)}]

MaxReceived(flow) ==
    IF DOMAIN flow.received = {} THEN 0 ELSE Largest(Range(flow.received))

(***************************************************************************)
(* Readouts.                                                               *)
(***************************************************************************)
\* The nodes whose evidence counts for a candidate: its entity and the file
\* that pools the votes of its members.
EvidenceNodes(live, cand) ==
    {cand.entity} \cup (IF cand.path = None THEN {} ELSE file_entity(live, cand.path))

\* Distinct seeds behind some nodes, the nodes themselves excluded.
SeedOrigins(flow, nodes) == UNION {At(flow.origins, n, {}) : n \in nodes} \ nodes

\* Readout 1: the bounded corroboration of a candidate that no expansion
\* produced.  Flow and expansion membership are alternative channels.
CorroborationOf(live, cand, flow, expansion) ==
    LET nodes == EvidenceNodes(live, cand)
        flowed == MapThenSumSet(LAMBDA n : At(flow.received, n, 0), nodes)
        top == MaxReceived(flow)
        share(x, most) == IF most = 0 THEN 0
                          ELSE IF x >= most THEN 1000 ELSE (x * 1000) \div most
        member == Largest({0} \cup {At(expansion.entities, cand.entity, 0)}
                          \cup {At(expansion.regions, cand.region, 0)}
                          \cup {At(expansion.paths, cand.path, 0)})
    IN  [strength |-> Largest({share(flowed, top), share(member, expansion.max)}),
         origins |-> Cardinality(SeedOrigins(flow, nodes)),
         emitted |-> FALSE]

EmittableKinds == {"Function", "Method", "Struct", "Enum", "Trait", "Class",
                   "Interface", "Constant"}

\* Readout 2: symbols no candidate names, admitted by two senders or by a
\* name the query shares, callables with a shared name in a lane of their
\* own.
FlowEmissions(live, flow, queryTerms, cands) ==
    LET named == {cands[d].entity : d \in DOMAIN cands}
        overlap(e) == Cardinality(Ent[e].parts \cap queryTerms)
        top == MaxReceived(flow)
        consensus(e) == Cardinality(flow.senders[e] \cap flow.seeds)
        score == [e \in DOMAIN flow.received |->
                     1500 * overlap(e) + 1000 * consensus(e)
                     + (IF top = 0 THEN 0 ELSE (flow.received[e] * 1000) \div top)]
        admitted == {e \in entities_by_ids(live, DOMAIN flow.received \ named) :
                        /\ Ent[e].kind \in EmittableKinds
                        /\ Cardinality(flow.senders[e]) >= 2 \/ overlap(e) > 0}
        callable == {e \in admitted : /\ overlap(e) > 0
                                      /\ Ent[e].kind \in {"Function", "Method"}}
        lanes == <<ByScore(score, callable), ByScore(score, admitted \ callable)>>
        round(i) == SelectSeq(<<1, 2>>, LAMBDA l : i <= Len(lanes[l]))
        Rounds == Len(lanes[1]) + Len(lanes[2])
        block == FoldLeft(LAMBDA b, i : b \o [k \in DOMAIN round(i) |->
                                                lanes[round(i)[k]][i]],
                          <<>>, [i \in 1..Rounds |-> i])
    IN  Take(block, FlowEmitMax)
=============================================================================
