-------------------------- MODULE GraphFlowProofs --------------------------
(***************************************************************************)
(* The evidence of the flow pass is grounded, however large the graph and  *)
(* the seeds are: two hops over any edges keep origins among the seeds and *)
(* paths connected walks from one of them.                                 *)
(***************************************************************************)
EXTENDS RetrievalProofs, SequenceTheorems

\* A flow record has its fields.
Flowing(f) ==
    f = [seeds |-> f.seeds, files |-> f.files, edges |-> f.edges, mass |-> f.mass,
         received |-> f.received, senders |-> f.senders, origins |-> f.origins,
         paths |-> f.paths, used |-> f.used]

\* An edge of the flow joins two nodes.
Joined(f, from, to, kind) ==
    \E r \in f.edges : r.kind = kind /\ {r.src, r.dst} = {from, to}

\* Before the first hop only the seeds hold mass, each its own.
Seeded(f) ==
    /\ Flowing(f)
    /\ DOMAIN f.mass = f.seeds /\ DOMAIN f.origins = f.seeds
    /\ \A e \in f.seeds : f.origins[e] = {e}
    /\ DOMAIN f.paths = {}

\* Mass has an origin, origins are seeds, and a seed is an origin of its own.
Rooted(f) ==
    /\ Flowing(f)
    /\ f.seeds \subseteq DOMAIN f.origins /\ \A s \in f.seeds : s \in f.origins[s]
    /\ \A n \in DOMAIN f.origins : f.origins[n] \subseteq f.seeds
    /\ DOMAIN f.mass \subseteq f.seeds \cup DOMAIN f.paths
    /\ DOMAIN f.paths \subseteq DOMAIN f.origins

\* A walk of one edge from a seed.
Direct(f, n, path) ==
    \E kind : /\ path.edges = <<[from |-> path.seed, to |-> n, kind |-> kind]>>
              /\ Joined(f, path.seed, n, kind)

\* A walk of two edges from a seed.
Relay(f, n, path) ==
    \E via, k1, k2 : /\ path.edges = <<[from |-> path.seed, to |-> via, kind |-> k1],
                                       [from |-> via, to |-> n, kind |-> k2]>>
                     /\ Joined(f, path.seed, via, k1) /\ Joined(f, via, n, k2)

\* After one hop every path is direct, after two it may be a relay.
Relayed(f) ==
    /\ Rooted(f)
    /\ \A n \in DOMAIN f.paths :
          f.paths[n].seed \in f.origins[n] /\ Direct(f, n, f.paths[n])
Grounded(f) ==
    /\ Rooted(f)
    /\ \A n \in DOMAIN f.paths :
          /\ f.paths[n].seed \in f.origins[n]
          /\ Direct(f, n, f.paths[n]) \/ Relay(f, n, f.paths[n])

-----------------------------------------------------------------------------
\* An overlay holds the new values over the old ones.
LEMMA OverlayFields ==
    ASSUME NEW old, NEW new
    PROVE  /\ DOMAIN Overlay(old, new) = DOMAIN old \cup DOMAIN new
           /\ \A x \in DOMAIN old \cup DOMAIN new :
                 Overlay(old, new)[x] = IF x \in DOMAIN new THEN new[x] ELSE old[x]
BY DEF Overlay

\* The nodes the moves of a hop reach, and the origins they bring there.
Targets(moves) == {t.to : t \in moves}
Came(f, moves, n) ==
    At(f.origins, n, {}) \cup UNION {At(f.origins, t.from, {}) : t \in {u \in moves : u.to = n}}

\* The step of a walk over a move: it starts one at a seed and extends the
\* sender's own otherwise.
StepOf(f, t, path) ==
    \/ /\ t.from \in f.seeds \/ t.from \notin DOMAIN f.paths
       /\ path.seed = t.from
       /\ path.edges = <<[from |-> t.from, to |-> t.to, kind |-> t.edge.kind]>>
    \/ /\ t.from \notin f.seeds /\ t.from \in DOMAIN f.paths
       /\ path.seed = f.paths[t.from].seed
       /\ path.edges = f.paths[t.from].edges
                       \o <<[from |-> t.from, to |-> t.to, kind |-> t.edge.kind]>>

\* No path is as long as the horizon yet.
Extensible(f) == \A n \in DOMAIN f.paths : ~(Len(f.paths[n].edges) >= FlowHops)

\* The path the propagation writes for a move is a step of a walk.
LEMMA WalkSteps ==
    ASSUME NEW f, Extensible(f), NEW t
    PROVE  \E p : /\ StepOf(f, t, p)
                  /\ extend_evidence_path(
                         IF t.from \in f.seeds \/ t.from \notin DOMAIN f.paths THEN <<>>
                         ELSE <<f.paths[t.from]>>,
                         t.from, t.to, t.edge.kind, t.gain) = {p}
<1> DEFINE e == [from |-> t.from, to |-> t.to, kind |-> t.edge.kind]
           path(seed, edges) == [seed |-> seed, edges |-> edges, received |-> t.gain]
<1>1. <<>> \o <<e>> = <<e>>
  <2> HIDE DEF e
  <2> QED
    OBVIOUS
<1>2. extend_evidence_path(<<>>, t.from, t.to, t.edge.kind, t.gain) = {path(t.from, <<e>>)}
  BY <1>1 DEF extend_evidence_path
<1>3. ASSUME NEW q, ~(Len(q.edges) >= FlowHops)
      PROVE  extend_evidence_path(<<q>>, t.from, t.to, t.edge.kind, t.gain)
                 = {path(q.seed, q.edges \o <<e>>)}
  BY <1>3 DEF extend_evidence_path
<1>4. \A seed, edges : path(seed, edges).seed = seed /\ path(seed, edges).edges = edges
  OBVIOUS
<1> HIDE DEF e, path
<1>5. CASE t.from \in f.seeds \/ t.from \notin DOMAIN f.paths
  <2>1. StepOf(f, t, path(t.from, <<e>>))
    BY <1>4, <1>5 DEF StepOf, e
  <2> QED
    BY <1>2, <1>5, <2>1
<1>6. CASE t.from \notin f.seeds /\ t.from \in DOMAIN f.paths
  <2> DEFINE q == f.paths[t.from]
  <2>1. ~(Len(q.edges) >= FlowHops)
    BY <1>6 DEF Extensible
  <2>2. StepOf(f, t, path(q.seed, q.edges \o <<e>>))
    BY <1>4, <1>6 DEF StepOf, e
  <2> QED
    BY <1>3, <1>6, <2>1, <2>2
<1> QED
  BY <1>5, <1>6

\* The paths to a node are its own and the walks of the moves into it.
LEMMA StepsTo ==
    ASSUME NEW f, Extensible(f), NEW moves, NEW m \in moves
    PROVE  /\ PathsTo(moves, f, m.to) # {}
           /\ \A p \in PathsTo(moves, f, m.to) :
                 \/ m.to \in DOMAIN f.paths /\ p = f.paths[m.to]
                 \/ \E t \in moves : t.to = m.to /\ StepOf(f, t, p)
<1> DEFINE walks(t) == extend_evidence_path(
                          IF t.from \in f.seeds \/ t.from \notin DOMAIN f.paths THEN <<>>
                          ELSE <<f.paths[t.from]>>,
                          t.from, t.to, t.edge.kind, t.gain)
           into == {t \in moves : t.to = m.to}
           own == IF m.to \in DOMAIN f.paths THEN {f.paths[m.to]} ELSE {}
           brought == {walks(t) : t \in into}
<1>1. PathsTo(moves, f, m.to) = (UNION brought) \cup own
  BY Zenon DEF PathsTo
<1>2. \A t : \E p : StepOf(f, t, p) /\ walks(t) = {p}
  BY WalkSteps, Zenon
<1>3. walks(m) # {} /\ walks(m) \in brought
  BY <1>2, Zenon
<1>4. \A t, p : p \in walks(t) => StepOf(f, t, p)
  BY <1>2
<1>5. \A W \in brought : \A p \in W : \E t \in moves : t.to = m.to /\ StepOf(f, t, p)
  BY <1>4, Zenon
<1>6. \A p \in own : m.to \in DOMAIN f.paths /\ p = f.paths[m.to]
  BY Zenon
<1> HIDE DEF walks, brought, own, into
<1> QED
  BY <1>1, <1>3, <1>5, <1>6

\* A node keeps its own path or the walk of a move into it.
LEMMA KeptSteps ==
    ASSUME NEW f, Extensible(f), NEW moves, NEW m \in moves
    PROVE  \/ m.to \in DOMAIN f.paths /\ KeptPath(moves, f, m.to) = f.paths[m.to]
           \/ \E t \in moves : t.to = m.to /\ StepOf(f, t, KeptPath(moves, f, m.to))
<1> DEFINE walks == PathsTo(moves, f, m.to)
           best == {p \in walks : \A q \in walks : ~evidence_path_better(q, p)}
<1>1. KeptPath(moves, f, m.to) = CHOOSE p \in walks : best # {} => p \in best
  BY Zenon DEF KeptPath
<1>2. walks # {}
  BY StepsTo
<1> HIDE DEF walks
<1>3. \E p \in walks : best # {} => p \in best
  BY <1>2
<1>4. KeptPath(moves, f, m.to) \in walks
  <2> HIDE DEF best
  <2> QED
    BY <1>1, <1>3, Zenon
<1> QED
  BY <1>4, StepsTo DEF walks

\* What a hop does to the fields of a flow.
LEMMA HopFields ==
    ASSUME NEW f, Flowing(f), Extensible(f), NEW moves, NEW h, h = flow_record_hop(moves, f)
    PROVE  /\ Flowing(h)
           /\ h.seeds = f.seeds /\ h.edges = f.edges
           /\ DOMAIN h.mass = DOMAIN f.mass \cup Targets(moves)
           /\ DOMAIN h.origins = DOMAIN f.origins \cup Targets(moves)
           /\ DOMAIN h.paths = DOMAIN f.paths \cup Targets(moves)
           /\ \A n \in DOMAIN h.origins :
                 h.origins[n] = IF n \in Targets(moves) THEN Came(f, moves, n)
                                ELSE f.origins[n]
           /\ \A n \in DOMAIN h.paths :
                 h.paths[n] = IF n \in Targets(moves) THEN KeptPath(moves, f, n)
                              ELSE f.paths[n]
<1> DEFINE targets == {t.to : t \in moves}
           into(n) == {t \in moves : t.to = n}
           mass == [n \in targets |-> At(f.mass, n, 0)
                                      + MapThenSumSet(LAMBDA t : t.gain, into(n))]
           received == [n \in targets |-> At(f.received, n, 0)
                                          + MapThenSumSet(LAMBDA t : t.gain, into(n))]
           senders == [n \in targets |-> At(f.senders, n, {}) \cup {t.from : t \in into(n)}]
           origins == [n \in targets |-> At(f.origins, n, {}) \cup
                         UNION {At(f.origins, t.from, {}) : t \in into(n)}]
           shown == {n \in targets : PathsTo(moves, f, n) # {}}
           paths == [n \in shown |-> KeptPath(moves, f, n)]
           now == {<<t.edge.id, t.back>> : t \in moves}
           g == [f EXCEPT !.mass = Overlay(@, mass), !.received = Overlay(@, received),
                          !.senders = Overlay(@, senders), !.origins = Overlay(@, origins),
                          !.paths = Overlay(@, paths), !.used = now]
<1>1. h = g
  BY Zenon DEF flow_record_hop
<1>2. DOMAIN mass = targets /\ DOMAIN origins = targets /\ DOMAIN paths = targets
  <2>1. \A t \in moves : PathsTo(moves, f, t.to) # {}
    BY StepsTo
  <2>2. shown = targets
    BY <2>1, Zenon
  <2> QED
    BY <2>2, Zenon
<1>3. \A n \in targets :
         origins[n] = Came(f, moves, n) /\ paths[n] = KeptPath(moves, f, n)
  <2>1. targets = shown
    BY <1>2, Zenon
  <2> QED
    BY <2>1, Zenon DEF Came
<1> HIDE DEF mass, received, senders, origins, shown, paths, now
<1>4. DOMAIN f = {"seeds", "files", "edges", "mass", "received", "senders", "origins",
                  "paths", "used"}
  BY Zenon DEF Flowing
<1>5. /\ g.seeds = f.seeds /\ g.files = f.files /\ g.edges = f.edges
      /\ g.mass = Overlay(f.mass, mass) /\ g.received = Overlay(f.received, received)
      /\ g.senders = Overlay(f.senders, senders) /\ g.origins = Overlay(f.origins, origins)
      /\ g.paths = Overlay(f.paths, paths) /\ g.used = now
  BY <1>4
<1>10. Flowing(g)
  <2>1. DOMAIN g = DOMAIN f /\ g = [x \in DOMAIN g |-> g[x]]
    BY Zenon
  <2> HIDE DEF g
  <2> QED
    BY <1>4, <2>1 DEF Flowing
<1> HIDE DEF g, targets, into
<1>6. /\ DOMAIN g.mass = DOMAIN f.mass \cup targets
      /\ DOMAIN g.origins = DOMAIN f.origins \cup targets
      /\ DOMAIN g.paths = DOMAIN f.paths \cup targets
  BY <1>2, <1>5, OverlayFields, Zenon
<1>7. ASSUME NEW n \in DOMAIN g.origins
      PROVE  g.origins[n] = IF n \in targets
                            THEN Came(f, moves, n) ELSE f.origins[n]
  <2>1. \A x \in DOMAIN f.origins \cup DOMAIN origins :
            Overlay(f.origins, origins)[x] = IF x \in DOMAIN origins THEN origins[x] ELSE f.origins[x]
    BY OverlayFields, Zenon
  <2>2. n \in DOMAIN f.origins \cup DOMAIN origins
    BY <1>2, <1>6
  <2> QED
    BY <1>2, <1>3, <1>5, <2>1, <2>2
<1>8. ASSUME NEW n \in DOMAIN g.paths
      PROVE  g.paths[n] = IF n \in targets THEN KeptPath(moves, f, n) ELSE f.paths[n]
  <2>1. \A x \in DOMAIN f.paths \cup DOMAIN paths :
            Overlay(f.paths, paths)[x] = IF x \in DOMAIN paths THEN paths[x] ELSE f.paths[x]
    BY OverlayFields, Zenon
  <2>2. n \in DOMAIN f.paths \cup DOMAIN paths
    BY <1>2, <1>6
  <2> QED
    BY <1>2, <1>3, <1>5, <2>1, <2>2
<1>9. Flowing(g) /\ g.seeds = f.seeds /\ g.edges = f.edges
  BY <1>5, <1>10
<1> QED
  BY <1>1, <1>6, <1>7, <1>8, <1>9, Zenon DEF targets, Targets

\* A move crosses an edge of the flow from a node with mass.
LEMMA MovesCross ==
    ASSUME NEW f, NEW hop, NEW t \in Moves(hop, f)
    PROVE  t.from \in DOMAIN f.mass /\ Joined(f, t.from, t.to, t.edge.kind)
<1>1. \E u \in Traversals(f) : t = [edge |-> u.edge, back |-> u.back, from |-> u.from,
                                    to |-> u.to, gain |-> Delivered(hop, u, f)]
  BY Zenon DEF Moves
<1>2. PICK u \in Traversals(f) : t.edge = u.edge /\ t.from = u.from /\ t.to = u.to
  BY <1>1
<1>3. At(f.mass, u.from, 0) > 0
  BY Zenon DEF Traversals
<1>4. \E r \in f.edges : /\ u.edge = r
                         /\ \/ u.from = r.src /\ u.to = r.dst
                            \/ u.from = r.dst /\ u.to = r.src
  BY DEF Traversals
<1> QED
  BY <1>2, <1>3, <1>4 DEF At, Joined

\* More edges join what fewer did.
LEMMA JoinedGrows ==
    ASSUME NEW f, NEW g, f.edges \subseteq g.edges, NEW from, NEW to, NEW kind,
           Joined(f, from, to, kind)
    PROVE  Joined(g, from, to, kind)
BY DEF Joined

\* A direct path stays one when the flow sees more edges.
LEMMA DirectGrows ==
    ASSUME NEW f, NEW g, f.edges \subseteq g.edges, NEW n, NEW path, Direct(f, n, path)
    PROVE  Direct(g, n, path)
BY JoinedGrows, Zenon DEF Direct

\* A move brings its sender's origins: they are seeds, and the seed of a walk
\* over the move is one of them.
LEMMA HopOrigins ==
    ASSUME NEW f, Rooted(f), Extensible(f), NEW hop, NEW moves, moves = Moves(hop, f),
           NEW g, g = flow_record_hop(moves, f)
    PROVE  /\ Rooted(g)
           /\ \A n \in DOMAIN f.origins : f.origins[n] \subseteq g.origins[n]
           /\ \A t \in moves : t.from \in DOMAIN f.origins
                               /\ f.origins[t.from] \subseteq g.origins[t.to]
<1>1. /\ Flowing(g) /\ g.seeds = f.seeds
      /\ DOMAIN g.mass = DOMAIN f.mass \cup Targets(moves)
      /\ DOMAIN g.origins = DOMAIN f.origins \cup Targets(moves)
      /\ DOMAIN g.paths = DOMAIN f.paths \cup Targets(moves)
      /\ \A n \in DOMAIN g.origins :
            g.origins[n] = IF n \in Targets(moves) THEN Came(f, moves, n) ELSE f.origins[n]
  <2>1. Flowing(f)
    BY DEF Rooted
  <2> QED
    BY <2>1, HopFields
<1>2. ASSUME NEW t \in moves PROVE t.from \in DOMAIN f.origins
  BY MovesCross DEF Rooted
<1>3. \A n : At(f.origins, n, {}) \subseteq f.seeds
  BY DEF At, Rooted
<1>4. \A n : Came(f, moves, n) \subseteq f.seeds
  BY <1>3 DEF Came
<1>5. \A n \in DOMAIN f.origins : f.origins[n] \subseteq Came(f, moves, n)
  BY DEF At, Came
<1>6. ASSUME NEW t \in moves PROVE f.origins[t.from] \subseteq Came(f, moves, t.to)
  <2>1. At(f.origins, t.from, {}) = f.origins[t.from]
    BY <1>2 DEF At
  <2>2. At(f.origins, t.from, {}) \subseteq Came(f, moves, t.to)
    BY Zenon DEF Came
  <2> QED
    BY <2>1, <2>2, Zenon
<1>7. \A t \in moves : t.to \in Targets(moves)
  BY Zenon DEF Targets
<1>8. Rooted(g)
  <2>1. /\ g.seeds \subseteq DOMAIN g.origins /\ DOMAIN g.paths \subseteq DOMAIN g.origins
        /\ DOMAIN g.mass \subseteq g.seeds \cup DOMAIN g.paths
    BY <1>1 DEF Rooted
  <2>2. \A n \in DOMAIN g.origins : g.origins[n] \subseteq g.seeds
    BY <1>1, <1>4 DEF Rooted
  <2>3. \A s \in g.seeds : s \in g.origins[s]
    BY <1>1, <1>5, <2>1 DEF Rooted
  <2> QED
    BY <1>1, <2>1, <2>2, <2>3 DEF Rooted
<1>9. \A n \in DOMAIN f.origins : f.origins[n] \subseteq g.origins[n]
  BY <1>1, <1>5
<1>10. \A t \in moves : f.origins[t.from] \subseteq g.origins[t.to]
  BY <1>1, <1>6, <1>7
<1> QED
  BY <1>2, <1>8, <1>9, <1>10, Zenon

\* The path of a node is the one it had or a walk over a move into it.
LEMMA HopPaths ==
    ASSUME NEW f, Rooted(f), Extensible(f), NEW hop, NEW moves, moves = Moves(hop, f),
           NEW g, g = flow_record_hop(moves, f), NEW n \in DOMAIN g.paths
    PROVE  /\ n \in DOMAIN g.origins
           /\ \/ n \in DOMAIN f.paths /\ g.paths[n] = f.paths[n]
              \/ \E t \in moves :
                    /\ t.to = n /\ StepOf(f, t, g.paths[n])
                    /\ t.from \in f.seeds \/ t.from \in DOMAIN f.paths
<1>1. /\ DOMAIN g.origins = DOMAIN f.origins \cup Targets(moves)
      /\ DOMAIN g.paths = DOMAIN f.paths \cup Targets(moves)
      /\ g.paths[n] = IF n \in Targets(moves) THEN KeptPath(moves, f, n) ELSE f.paths[n]
  <2>1. Flowing(f)
    BY DEF Rooted
  <2> QED
    BY <2>1, HopFields
<1>2. \A t \in moves : t.from \in f.seeds \/ t.from \in DOMAIN f.paths
  BY MovesCross DEF Rooted
<1>3. n \in DOMAIN g.origins
  BY <1>1 DEF Rooted
<1>4. CASE n \in Targets(moves)
  <2>1. PICK m \in moves : m.to = n
    BY <1>4 DEF Targets
  <2>2. g.paths[n] = KeptPath(moves, f, m.to)
    BY <1>1, <1>4, <2>1
  <2>3. \/ n \in DOMAIN f.paths /\ g.paths[n] = f.paths[n]
        \/ \E t \in moves : t.to = n /\ StepOf(f, t, g.paths[n])
    <3>1. \/ m.to \in DOMAIN f.paths /\ KeptPath(moves, f, m.to) = f.paths[m.to]
          \/ \E t \in moves : t.to = m.to /\ StepOf(f, t, KeptPath(moves, f, m.to))
      BY KeptSteps, Zenon
    <3> QED
      BY <2>1, <2>2, <3>1, Zenon
  <2> QED
    BY <1>2, <1>3, <2>3
<1>5. CASE n \notin Targets(moves)
  BY <1>1, <1>3, <1>5
<1> QED
  BY <1>4, <1>5

\* The first hop.  A sender is a seed, so every path is one edge long.
LEMMA FirstHop ==
    ASSUME NEW f, Seeded(f), NEW g, g = FlowHop(1, f)
    PROVE  Relayed(g)
<1> DEFINE moves == Moves(1, f)
<1>1. Rooted(f) /\ DOMAIN f.paths = {} /\ Extensible(f)
  BY DEF Seeded, Rooted, Extensible
<1>2. g = flow_record_hop(moves, f)
  BY DEF FlowHop
<1>3. /\ Rooted(g) /\ g.edges = f.edges
      /\ \A t \in moves : t.from \in DOMAIN f.origins
                          /\ f.origins[t.from] \subseteq g.origins[t.to]
  BY <1>1, <1>2, HopOrigins, HopFields DEF Rooted
<1>4. ASSUME NEW n \in DOMAIN g.paths
      PROVE  g.paths[n].seed \in g.origins[n] /\ Direct(g, n, g.paths[n])
  <2>1. PICK t \in moves : t.to = n /\ StepOf(f, t, g.paths[n]) /\ t.from \in f.seeds
    BY <1>1, <1>2, HopPaths
  <2>2. /\ g.paths[n].seed = t.from
        /\ g.paths[n].edges = <<[from |-> t.from, to |-> n, kind |-> t.edge.kind]>>
    BY <2>1 DEF StepOf
  <2>3. Joined(g, t.from, n, t.edge.kind)
    BY <1>3, <2>1, MovesCross, JoinedGrows
  <2>4. t.from \in g.origins[n]
    BY <1>1, <1>3, <2>1 DEF Rooted
  <2> QED
    BY <2>2, <2>3, <2>4 DEF Direct
<1> QED
  BY <1>3, <1>4 DEF Relayed

\* Widening the frontier only adds edges.
LEMMA WiderFlow ==
    ASSUME NEW snapshot, NEW f, Relayed(f)
    PROVE  Relayed(WithFrontier(snapshot, f))
<1> DEFINE g == WithFrontier(snapshot, f)
<1>1. \E more : g = [f EXCEPT !.edges = @ \cup more]
  BY Zenon DEF WithFrontier
<1>2. PICK more : g = [f EXCEPT !.edges = @ \cup more]
  BY <1>1
<1>3. DOMAIN f = {"seeds", "files", "edges", "mass", "received", "senders", "origins",
                  "paths", "used"}
  BY Zenon DEF Relayed, Rooted, Flowing
<1>4. /\ g.seeds = f.seeds /\ g.files = f.files /\ g.mass = f.mass
      /\ g.received = f.received /\ g.senders = f.senders /\ g.origins = f.origins
      /\ g.paths = f.paths /\ g.used = f.used /\ g.edges = f.edges \cup more
  BY <1>2, <1>3
<1>5. Flowing(g)
  <2>1. DOMAIN g = DOMAIN f /\ g = [x \in DOMAIN g |-> g[x]]
    BY <1>2, Zenon
  <2> HIDE DEF g
  <2> QED
    BY <1>3, <2>1 DEF Flowing
<1> HIDE DEF g
<1>6. Rooted(g)
  BY <1>4, <1>5 DEF Relayed, Rooted
<1>7. \A n \in DOMAIN g.paths : g.paths[n].seed \in g.origins[n] /\ Direct(g, n, g.paths[n])
  BY <1>4, DirectGrows DEF Relayed
<1> QED
  BY <1>6, <1>7 DEF Relayed, g

\* Two edges make a path of two.
LEMMA TwoSteps == ASSUME NEW a, NEW b PROVE <<a>> \o <<b>> = <<a, b>>
<1> DEFINE T == {a, b}
<1>1. <<a>> \in Seq(T) /\ <<b>> \in Seq(T) /\ <<a, b>> \in Seq(T)
  OBVIOUS
<1>2. Len(<<a>>) = 1 /\ Len(<<b>>) = 1 /\ Len(<<a, b>>) = 2
  OBVIOUS
<1>3. <<a>> \o <<b>> \in Seq(T) /\ Len(<<a>> \o <<b>>) = 2
  BY <1>1, <1>2
<1>4. (<<a>> \o <<b>>)[1] = a /\ (<<a>> \o <<b>>)[2] = b
  BY <1>1, <1>2
<1>5. \A i \in 1..Len(<<a>> \o <<b>>) : (<<a>> \o <<b>>)[i] = <<a, b>>[i]
  BY <1>3, <1>4
<1> HIDE DEF T
<1> QED
  BY <1>1, <1>2, <1>3, <1>5, SeqEqual

\* The second hop.  A sender that is no seed has a direct path, which the walk
\* extends by one edge.
LEMMA SecondHop ==
    ASSUME NEW f, Relayed(f), NEW g, g = FlowHop(2, f)
    PROVE  Grounded(g)
<1> DEFINE moves == Moves(2, f)
<1>1. Rooted(f) /\ Extensible(f)
  <2>1. ASSUME NEW n \in DOMAIN f.paths PROVE Len(f.paths[n].edges) = 1
    <3>1. PICK e : f.paths[n].edges = <<e>>
      BY DEF Relayed, Direct
    <3>2. Len(<<e>>) = 1
      OBVIOUS
    <3> QED
      BY <3>1, <3>2
  <2>2. ~(1 >= FlowHops)
    BY DEF FlowHops
  <2> QED
    BY <2>1, <2>2, Zenon DEF Relayed, Extensible
<1>2. g = flow_record_hop(moves, f)
  BY DEF FlowHop
<1>3. /\ Rooted(g) /\ g.edges = f.edges
      /\ \A n \in DOMAIN f.origins : f.origins[n] \subseteq g.origins[n]
      /\ \A t \in moves : t.from \in DOMAIN f.origins
                          /\ f.origins[t.from] \subseteq g.origins[t.to]
  BY <1>1, <1>2, HopOrigins, HopFields DEF Rooted
<1>4. ASSUME NEW n \in DOMAIN g.paths
      PROVE  /\ g.paths[n].seed \in g.origins[n]
             /\ Direct(g, n, g.paths[n]) \/ Relay(g, n, g.paths[n])
  <2>1. CASE n \in DOMAIN f.paths /\ g.paths[n] = f.paths[n]
    <3>1. f.paths[n].seed \in f.origins[n] /\ Direct(f, n, f.paths[n]) /\ n \in DOMAIN f.origins
      BY <2>1 DEF Relayed, Rooted
    <3> QED
      BY <1>3, <2>1, <3>1, DirectGrows
  <2>2. ASSUME NEW t \in moves, t.to = n, StepOf(f, t, g.paths[n]),
               t.from \in f.seeds, g.paths[n].seed = t.from,
               g.paths[n].edges = <<[from |-> t.from, to |-> n, kind |-> t.edge.kind]>>
        PROVE  g.paths[n].seed \in g.origins[n] /\ Direct(g, n, g.paths[n])
    <3>1. Joined(g, t.from, n, t.edge.kind)
      BY <1>3, <2>2, MovesCross, JoinedGrows
    <3>2. t.from \in g.origins[n]
      BY <1>1, <1>3, <2>2 DEF Rooted
    <3> QED
      BY <2>2, <3>1, <3>2 DEF Direct
  <2>3. ASSUME NEW t \in moves, t.to = n, t.from \in DOMAIN f.paths,
               g.paths[n].seed = f.paths[t.from].seed,
               g.paths[n].edges = f.paths[t.from].edges
                                  \o <<[from |-> t.from, to |-> n, kind |-> t.edge.kind]>>
        PROVE  g.paths[n].seed \in g.origins[n] /\ Relay(g, n, g.paths[n])
    <3>1. f.paths[t.from].seed \in f.origins[t.from] /\ Direct(f, t.from, f.paths[t.from])
      BY <2>3 DEF Relayed
    <3>2. g.paths[n].seed \in g.origins[n]
      BY <1>3, <2>3, <3>1
    <3>3. PICK kind : /\ f.paths[t.from].edges =
                            <<[from |-> f.paths[t.from].seed, to |-> t.from, kind |-> kind]>>
                      /\ Joined(f, f.paths[t.from].seed, t.from, kind)
      BY <3>1, Zenon DEF Direct
    <3>4. g.paths[n].edges =
             <<[from |-> g.paths[n].seed, to |-> t.from, kind |-> kind]>>
             \o <<[from |-> t.from, to |-> n, kind |-> t.edge.kind]>>
      BY <2>3, <3>3
    <3>5. g.paths[n].edges =
             <<[from |-> g.paths[n].seed, to |-> t.from, kind |-> kind],
               [from |-> t.from, to |-> n, kind |-> t.edge.kind]>>
      BY <3>4, TwoSteps, Zenon
    <3>6. Joined(g, g.paths[n].seed, t.from, kind) /\ Joined(g, t.from, n, t.edge.kind)
      BY <1>3, <2>3, <3>3, MovesCross, JoinedGrows
    <3> QED
      BY <3>2, <3>5, <3>6, Zenon DEF Relay
  <2>4. \/ n \in DOMAIN f.paths /\ g.paths[n] = f.paths[n]
        \/ \E t \in moves : /\ t.to = n /\ StepOf(f, t, g.paths[n])
                            /\ t.from \in f.seeds \/ t.from \in DOMAIN f.paths
    BY <1>1, <1>2, HopPaths
  <2>5. ASSUME NEW t \in moves, t.to = n, StepOf(f, t, g.paths[n]),
               t.from \in f.seeds \/ t.from \in DOMAIN f.paths
        PROVE  /\ g.paths[n].seed \in g.origins[n]
               /\ Direct(g, n, g.paths[n]) \/ Relay(g, n, g.paths[n])
    BY <2>2, <2>3, <2>5, Zenon DEF StepOf
  <2> QED
    BY <2>1, <2>4, <2>5, Zenon
<1> QED
  BY <1>3, <1>4 DEF Grounded

\* The start of the pass.
LEMMA FlowStarts ==
    ASSUME NEW snapshot, NEW mass, NEW edges
    PROVE  Seeded(FlowStart(snapshot, mass, edges))
<1> DEFINE files == {e \in entities_by_ids(snapshot, DOMAIN mass) : Ent[e].kind = "File"}
           own == [e \in DOMAIN mass |-> {e}]
<1>1. FlowStart(snapshot, mass, edges) =
         [NoFlow EXCEPT !.seeds = DOMAIN mass, !.files = files, !.edges = edges,
                        !.mass = mass, !.origins = own]
  BY Zenon DEF FlowStart
<1>2. DOMAIN own = DOMAIN mass /\ \A e \in DOMAIN mass : own[e] = {e}
  OBVIOUS
<1> DEFINE f == FlowStart(snapshot, mass, edges)
<1> HIDE DEF files, own
<1>3. f = [seeds |-> DOMAIN mass, files |-> files, edges |-> edges, mass |-> mass,
           received |-> <<>>, senders |-> <<>>, origins |-> own, paths |-> <<>>, used |-> {}]
  BY <1>1 DEF NoFlow
<1>4. Flowing(f) /\ DOMAIN f.mass = f.seeds /\ f.origins = own /\ f.seeds = DOMAIN mass
      /\ f.paths = <<>>
  BY <1>3 DEF Flowing
<1> HIDE DEF f
<1> QED
  BY <1>2, <1>4 DEF Seeded, f

-----------------------------------------------------------------------------
\* Direct walks and relays are connected walks of collected edges.
Walk(f, n, path) ==
    /\ Len(path.edges) \in 1..2 /\ Connected(path, n)
    /\ \A i \in DOMAIN path.edges : \E r \in f.edges :
          /\ r.kind = path.edges[i].kind
          /\ {r.src, r.dst} = {path.edges[i].from, path.edges[i].to}

\* A path of one or two joined edges is a walk from its seed to its end.
LEMMA GroundedPaths ==
    ASSUME NEW f, NEW n, NEW path, Direct(f, n, path) \/ Relay(f, n, path)
    PROVE  Walk(f, n, path)
<1>1. CASE Direct(f, n, path)
  <2>1. PICK kind : /\ path.edges = <<[from |-> path.seed, to |-> n, kind |-> kind]>>
                    /\ Joined(f, path.seed, n, kind)
    BY <1>1, Zenon DEF Direct
  <2>2. /\ Len(path.edges) = 1 /\ DOMAIN path.edges = {1}
        /\ path.edges[1] = [from |-> path.seed, to |-> n, kind |-> kind]
    BY <2>1
  <2> QED
    BY <2>1, <2>2 DEF Walk, Connected, Joined
<1>2. CASE Relay(f, n, path)
  <2>1. PICK via, k1, k2 :
           /\ path.edges = <<[from |-> path.seed, to |-> via, kind |-> k1],
                             [from |-> via, to |-> n, kind |-> k2]>>
           /\ Joined(f, path.seed, via, k1) /\ Joined(f, via, n, k2)
    BY <1>2, Zenon DEF Relay
  <2>2. /\ Len(path.edges) = 2 /\ DOMAIN path.edges = {1, 2}
        /\ path.edges[1] = [from |-> path.seed, to |-> via, kind |-> k1]
        /\ path.edges[2] = [from |-> via, to |-> n, kind |-> k2]
    BY <2>1
  <2>3. /\ path.edges[1].from = path.seed /\ path.edges[1].to = via /\ path.edges[1].kind = k1
        /\ path.edges[2].from = via /\ path.edges[2].to = n /\ path.edges[2].kind = k2
    BY <2>2
  <2>4. /\ path.edges[Len(path.edges)].to = n
        /\ \A i \in 1..(Len(path.edges) - 1) : path.edges[i].to = path.edges[i + 1].from
    BY <2>2, <2>3
  <2>5. ASSUME NEW i \in DOMAIN path.edges
        PROVE  \E r \in f.edges : /\ r.kind = path.edges[i].kind
                                  /\ {r.src, r.dst} = {path.edges[i].from, path.edges[i].to}
    <3>1. i = 1 \/ i = 2
      BY <2>2, <2>5
    <3>2. CASE i = 1
      BY <2>1, <2>3, <3>2, Zenon DEF Joined
    <3>3. CASE i = 2
      BY <2>1, <2>3, <3>3, Zenon DEF Joined
    <3> QED
      BY <3>1, <3>2, <3>3
  <2>6. Len(path.edges) \in 1..2
    BY <2>2
  <2> QED
    BY <2>3, <2>4, <2>5, <2>6, Zenon DEF Walk, Connected
<1> QED
  BY <1>1, <1>2

\* What FlowIsGrounded says of a flow.
FlowGrounded(f) ==
    /\ \A n \in DOMAIN f.origins : f.origins[n] \subseteq f.seeds
    /\ \A n \in DOMAIN f.paths :
          f.paths[n].seed \in f.origins[n] /\ Walk(f, n, f.paths[n])

\* After the second hop the evidence of the flow is grounded.
LEMMA GroundedFlow == ASSUME NEW f, Grounded(f) PROVE FlowGrounded(f)
BY GroundedPaths, Zenon DEF Grounded, Rooted, FlowGrounded

\* After the first hop too, when every path is one edge long.
LEMMA RelayedFlow == ASSUME NEW f, Relayed(f) PROVE FlowGrounded(f)
BY GroundedFlow, Zenon DEF Relayed, Grounded

\* And before it, when there is no path at all.
LEMMA SeededFlow == ASSUME NEW f, Seeded(f) PROVE FlowGrounded(f)
<1>1. \A n \in DOMAIN f.origins : f.origins[n] \subseteq f.seeds
  BY DEF Seeded
<1>2. DOMAIN f.paths = {}
  BY DEF Seeded
<1> QED
  BY <1>1, <1>2, Zenon DEF FlowGrounded

\* A pass that does not run shows nothing.
LEMMA NoFlowGrounded == FlowGrounded(NoFlow)
BY DEF NoFlow, FlowGrounded

\* The pass between its hops.
FlowInv ==
    /\ FlowGrounded(flow)
    /\ stage = "hop1" => Seeded(flow)
    /\ stage = "hop2" => Relayed(flow)

\* A step that is none of the pass.
Elsewhere == flow' = flow /\ stage' \notin {"hop1", "hop2"}

\* A route that ends outside the pass leaves the flow alone.
LEMMA RouteElsewhere ==
    ASSUME NEW from, NEW next, next \notin {"hop1", "hop2"}, NEW map, NEW extra,
           Route(from, next, map, extra)
    PROVE  Elsewhere
BY DEF Route, Goto, Elsewhere

\* So does a fused full-text route.
LEMMA FusedElsewhere ==
    ASSUME NEW from, NEW next, next \notin {"hop1", "hop2"}, NEW words, NEW route,
           NEW reps, NEW limit, NEW weight, NEW strict,
           FusedLexical(from, next, words, route, reps, limit, weight, strict)
    PROVE  Elsewhere
<1>1. \E map : Route(from, next, map, {})
  BY Zenon DEF FusedLexical
<1> QED
  BY <1>1, RouteElsewhere, Zenon

\* And a route that is skipped.
LEMMA SkipElsewhere ==
    ASSUME NEW from, NEW next, next \notin {"hop1", "hop2"}, SkipRoute(from, next)
    PROVE  Elsewhere
BY RouteElsewhere, Zenon DEF SkipRoute

\* The pass is seeded and propagated by two actions.
LEMMA StepsElsewhere == ASSUME SearchStep PROVE FlowSeed \/ Propagate \/ Elsewhere
<1>1. LexicalRoute \/ KnowledgeRoute \/ HistoryRoute \/ prf_expansion_pass => Elsewhere
  <2>1. /\ "zoekt" \notin {"hop1", "hop2"} /\ "recorded" \notin {"hop1", "hop2"}
        /\ "diff" \notin {"hop1", "hop2"} /\ "expand" \notin {"hop1", "hop2"}
    OBVIOUS
  <2> QED
    BY <2>1, FusedElsewhere, SkipElsewhere, Zenon DEF LexicalRoute, KnowledgeRoute,
       HistoryRoute, ArtifactRoute, prf_expansion_pass
<1>2. ExactSymbolRoute \/ ZoektRoute \/ DiffRoute \/ DenseRoute
      \/ apply_structural_features \/ StrictGate => Elsewhere
  <2>1. /\ "lexical" \notin {"hop1", "hop2"} /\ "pattern" \notin {"hop1", "hop2"}
        /\ "dense" \notin {"hop1", "hop2"} /\ "prf" \notin {"hop1", "hop2"}
        /\ "flow" \notin {"hop1", "hop2"} /\ "rank" \notin {"hop1", "hop2"}
    OBVIOUS
  <2> QED
    BY <2>1, RouteElsewhere, Zenon DEF ExactSymbolRoute, ZoektRoute, DiffRoute, DenseRoute,
       apply_structural_features, StrictGate
<1>3. ResolveIndex \/ LiteralGate \/ DefinitionGate \/ RelationGate \/ HistoryGate => Elsewhere
  BY DEF ResolveIndex, LiteralGate, DefinitionGate, RelationGate, HistoryGate, Gate,
     abstain_result, Goto, Fail, Elsewhere
<1>4. PatternRoute \/ PatternScan => Elsewhere
  BY DEF PatternRoute, PatternScan, PatternFile, Goto, Fail, Elsewhere
<1>5. Expand \/ Corroborate \/ Emit \/ RankCandidates \/ SelectHit \/ Rerank \/ Report
      => Elsewhere
  BY DEF Expand, Corroborate, Emit, RankCandidates, SelectHit, Rerank, Report, Goto, Elsewhere
<1> QED
  BY <1>1, <1>2, <1>3, <1>4, <1>5, Zenon DEF SearchStep

\* Every step keeps the flow grounded and its hops in order.
LEMMA NextKeepsFlowInv == ASSUME FlowInv, [Next]_vars PROVE FlowInv'
<1>1. CASE FlowSeed
  <2>1. CASE flow' = NoFlow /\ stage' = "strict"
    BY <2>1, NoFlowGrounded DEF FlowInv
  <2>2. ASSUME NEW mass, NEW edges, flow' = FlowStart(live, mass, edges), stage' = "hop1"
        PROVE  FlowInv'
    <3>1. Seeded(flow')
      BY <2>2, FlowStarts
    <3> QED
      BY <2>2, <3>1, SeededFlow DEF FlowInv
  <2> QED
    BY <1>1, <2>1, <2>2, Zenon DEF FlowSeed, Goto
<1>2. CASE Propagate
  <2>1. CASE stage = "hop1" /\ stage' = "hop2"
             /\ flow' = WithFrontier(live, FlowHop(1, flow))
    <3>1. Relayed(flow')
      BY <2>1, FirstHop, WiderFlow DEF FlowInv
    <3> QED
      BY <2>1, <3>1, RelayedFlow DEF FlowInv
  <2>2. CASE stage = "hop2" /\ stage' = "readout" /\ flow' = FlowHop(2, flow)
    <3>1. Grounded(flow')
      BY <2>2, SecondHop DEF FlowInv
    <3> QED
      BY <2>2, <3>1, GroundedFlow DEF FlowInv
  <2> QED
    BY <1>2, <2>1, <2>2, Zenon DEF Propagate, Goto
<1>3. CASE Elsewhere
  BY <1>3 DEF Elsewhere, FlowInv
<1>4. CASE Prune \/ UNCHANGED searchVars
  <2>1. flow' = flow /\ stage' = stage
    BY <1>4 DEF Prune, searchVars
  <2> QED
    BY <2>1 DEF FlowInv
<1> QED
  BY <1>1, <1>2, <1>3, <1>4, StepOfSearch, StepsElsewhere

\* What the flow pass reports as evidence is grounded (FlowIsGrounded).
THEOREM FlowEvidenceIsGrounded == Spec => []FlowIsGrounded
<1>1. Init => FlowInv
  BY NoFlowGrounded DEF Init, SearchInit, FlowInv
<1>2. FlowInv /\ [Next]_vars => FlowInv'
  BY NextKeepsFlowInv
<1>3. FlowInv => FlowIsGrounded
  BY DEF FlowInv, FlowGrounded, Walk, FlowIsGrounded
<1> QED
  BY <1>1, <1>2, <1>3, PTL DEF Spec
=============================================================================
