------------------------- MODULE ContextPackProofs -------------------------
(***************************************************************************)
(* What a context call keeps, whatever the hits, the graph and the budget  *)
(* are: where linked subjects end up, what the pack spends and shows, and  *)
(* that the reasons it gives for what it left out still hold when it ends. *)
(***************************************************************************)
EXTENDS RetrievalProofs, SequenceTheorems

\* The phases in which the pack is filled, after the listing is complete.
Packing == phase \in {"roles", "fill", "packed"}

\* The pack's variables are idle until the search is done, and the list of
\* links is used up before the pack starts.
PhaseInv ==
    /\ phase \in {"search", "link", "roles", "fill", "packed"}
    /\ phase = "search" => sources = {} /\ links = <<>> /\ listing = <<>>
    /\ phase \in {"search", "link"} => items = <<>> /\ used = 0 /\ rejected = <<>> /\ at = 1
    /\ phase # "search" => stage = "done" /\ request.budget # NoBudget
    /\ Packing => sources = {} /\ links = <<>>

\* The entities the hits show.
Shown == {hits[i].entity : i \in DOMAIN hits}

\* A link points from a hit over an edge at an entity that no hit shows.
LinkOf(link) ==
    /\ link.at \in DOMAIN hits /\ link.id \in Entities
    /\ ~is_test_entity(link.id) /\ link.id \notin Shown
    /\ \E r \in Rels : r.src = hits[link.at].entity /\ r.dst = link.id

\* Links are found in the order of their sources; those still to be inserted
\* point at the part of the listing that is as the search left it.
LinkInv ==
    phase = "link" =>
        /\ IsList(links) /\ sources \subseteq DOMAIN hits
        /\ sources # {} => listing = hits
        /\ \A i \in DOMAIN links :
              /\ LinkOf(links[i])
              /\ links[i].at \in DOMAIN listing
              /\ \A q \in DOMAIN listing : listing[q].entity # links[i].id
              /\ \A q \in DOMAIN listing : q <= links[i].at + 1 =>
                    q \in DOMAIN hits /\ listing[q] = hits[q]
              /\ \A s \in sources : links[i].at < s
        /\ \A i, j \in DOMAIN links : i < j => /\ links[i].at < links[j].at
                                               /\ links[i].id # links[j].id

\* A subject in a list: an entity of its own after a hit with an edge to it.
SubjectAt(list, p) ==
    /\ list[p].key = SubjectKey(list[p].entity) /\ list[p].entity \in Entities
    /\ p > 1 /\ ~is_test_entity(list[p].entity)
    /\ \A q \in DOMAIN list \ {p} : list[q].entity # list[p].entity
    /\ \E r \in Rels : r.src = list[p - 1].entity /\ r.dst = list[p].entity
KeysDiffer(list) == \A p, q \in DOMAIN list : list[p].key = list[q].key => p = q

ListingInv ==
    phase # "search" =>
        /\ IsList(listing) /\ HitsInOrder /\ KeysDiffer(listing)
        /\ \A p \in DOMAIN listing : IsSubject(listing[p]) => SubjectAt(listing, p)

\* What the pack has spent and shows.
PackInv ==
    Packing =>
        /\ IsList(items) /\ IsFiniteSet(TokensOf(items))
        /\ \A i \in DOMAIN items : \E p \in DOMAIN listing : items[i] = listing[p]
        /\ used \in Nat /\ used <= request.budget
        /\ \E orientation \in {0, OrientationSize} :
              used = orientation + Cardinality(TokensOf(items))
        /\ \A i, j \in DOMAIN items :
              RangeOf(items[i]) # <<>> /\ RangeOf(items[i]) = RangeOf(items[j]) => i = j
        /\ \A path : path # None => Cardinality(ShownOf(path)) <= FileCapMax

\* Why a hit cannot be admitted; all four reasons only grow.
Refused(hit) ==
    \/ hit.path # None /\ \E i \in DOMAIN items : RangeOf(items[i]) = RangeOf(hit)
    \/ hit.path # None /\ Cardinality(ShownOf(hit.path)) >= FileCapMax
    \/ hit.path = None /\ \E i \in DOMAIN items : items[i].entity = hit.entity
    \/ estimate_tokens(hit) > request.budget - used

\* The reasons on record are reasons of the listing's entries that still hold.
Reasons ==
    /\ DOMAIN rejected \subseteq KeysOf(listing)
    /\ \A i \in DOMAIN listing : listing[i].key \in DOMAIN rejected =>
          /\ Refused(listing[i])
          /\ rejected[listing[i].key] = "Budget" =>
                estimate_tokens(listing[i]) > request.budget - used

\* The entries the last pass went by are packed or have a reason.
ReasonInv ==
    Packing =>
        /\ Reasons /\ at \in Nat
        /\ phase = "fill" => at \in 1..(Len(listing) + 1)
        /\ \A i \in DOMAIN listing :
              phase = "packed" \/ (phase = "fill" /\ i < at) =>
                  listing[i].key \in TakenKeys \cup DOMAIN rejected

-----------------------------------------------------------------------------
(***************************************************************************)
(* Steps.                                                                  *)
(***************************************************************************)
\* The search has no step left once it is done.
LEMMA SearchIsOver == ASSUME SearchStep PROVE stage # "done"
BY SearchSteps, RerankEffect DEF ResolveIndex, LiteralGate, DefinitionGate, RelationGate,
   HistoryGate, Gate, Quiet, RouteStages, StrictGate, Route, RankCandidates, SelectHit, Report

\* A step of linking or packing leaves the state of the search alone.
LEMMA PackLeavesSearch == ASSUME PackStep PROVE UNCHANGED searchVars
BY Zenon DEF PackStep, StartLinks, LinkSubject, InsertSubject, StartPack, PackRole,
   StartFill, PackFill, FinishPack

\* A step of the call is one of the pack, which leaves the search alone, or
\* leaves the pack alone.
LEMMA StepOfCall ==
    ASSUME [Next]_vars
    PROVE  \/ PackStep /\ UNCHANGED searchVars
           \/ UNCHANGED packVars /\ (SearchStep \/ Prune \/ UNCHANGED searchVars)
BY PackLeavesSearch DEF Next, Work, Retention, Done, vars, packVars, searchVars

\* The request, its environment and the manifest are given.
LEMMA RequestIsGiven ==
    ASSUME [Next]_vars
    PROVE  request' = request /\ env' = env /\ manifest' = manifest
<1>1. CASE SearchStep
  BY <1>1, SearchSteps DEF ResolveIndex, LiteralGate, DefinitionGate, RelationGate,
     HistoryGate, Gate, Quiet, StrictGate, Route, RankCandidates, SelectHit, Rerank, Report
<1> QED
  BY <1>1, StepOfSearch DEF Prune, searchVars

\* While the listing is built and packed, the hits stay as they are.
LEMMA HitsStay ==
    ASSUME PhaseInv, [Next]_vars, phase # "search"
    PROVE  hits' = hits /\ stage' = stage
BY StepOfCall, SearchIsOver DEF PhaseInv, Prune, searchVars

\* Every step keeps what each phase has not touched yet.
LEMMA NextKeepsPhaseInv == ASSUME PhaseInv, [Next]_vars PROVE PhaseInv'
<1>1. request' = request
  BY RequestIsGiven
<1>2. CASE PackStep
  <2>1. stage' = stage
    BY <1>2, PackLeavesSearch DEF searchVars
  <2>2. CASE StartLinks
    BY <1>1, <2>1, <2>2 DEF StartLinks, PhaseInv, Packing
  <2>3. CASE LinkSubject
    BY <1>1, <2>1, <2>3 DEF LinkSubject, PhaseInv, Packing
  <2>4. CASE InsertSubject
    BY <1>1, <2>1, <2>4 DEF InsertSubject, PhaseInv, Packing
  <2>5. CASE StartPack
    BY <1>1, <2>1, <2>5 DEF StartPack, PhaseInv, Packing
  <2>6. CASE PackRole \/ StartFill \/ PackFill \/ FinishPack
    BY <1>1, <2>1, <2>6 DEF PackRole, StartFill, PackFill, FinishPack, PhaseInv, Packing
  <2> QED
    BY <1>2, <2>2, <2>3, <2>4, <2>5, <2>6 DEF PackStep
<1>3. CASE UNCHANGED packVars
  <2>1. stage = "done" => stage' = stage
    BY StepOfCall, SearchIsOver DEF Prune, searchVars, PackStep, StartLinks, LinkSubject
  <2> QED
    BY <1>1, <1>3, <2>1 DEF PhaseInv, Packing, packVars
<1> QED
  BY <1>2, <1>3, StepOfCall

\* A call starts in its search, with nothing linked and nothing packed.
LEMMA InitPhaseInv == ASSUME Init PROVE PhaseInv
BY DEF Init, PhaseInv, Packing

-----------------------------------------------------------------------------
(***************************************************************************)
(* Lists with an element inserted.                                         *)
(***************************************************************************)
\* Where an element of the longer list was before.
Was(q, p) == IF q < p THEN q ELSE q - 1

\* Inserting an entry behind position a: the list is one longer, the new entry
\* stands at a + 1, and every other entry is one of the old list, in its order.
LEMMA Inserted ==
    ASSUME NEW s, IsList(s), NEW a \in DOMAIN s, NEW e, NEW t, t = InsertAt(s, a + 1, e)
    PROVE  /\ IsList(t) /\ Len(t) = Len(s) + 1 /\ a + 1 \in DOMAIN t /\ t[a + 1] = e
           /\ \A q \in DOMAIN t : q # a + 1 => /\ Was(q, a + 1) \in DOMAIN s
                                               /\ t[q] = s[Was(q, a + 1)]
           /\ \A q \in DOMAIN s : \E r \in DOMAIN t : r # a + 1 /\ Was(r, a + 1) = q
<1> DEFINE T == Range(s) \cup {e}
           u == SubSeq(s, 1, (a + 1) - 1)
           v == SubSeq(s, a + 1, Len(s))
<1>1. s \in Seq(T) /\ e \in T /\ Len(s) \in Nat /\ DOMAIN s = 1..Len(s) /\ a \in 1..Len(s)
  <2>1. s \in Seq(Range(s)) /\ Len(s) \in Nat /\ DOMAIN s = 1..Len(s)
    BY DEF IsList
  <2>2. s \in Seq(T)
    BY <2>1, SeqMonotonic
  <2> QED
    BY <2>1, <2>2
<1>2. t = u \o <<e>> \o v
  BY Zenon DEF InsertAt
<1> HIDE DEF T
<1>3. /\ u \in Seq(T) /\ Len(u) = a /\ \A i \in 1..a : u[i] = s[i]
      /\ v \in Seq(T) /\ Len(v) = Len(s) - a /\ \A i \in 1..(Len(s) - a) : v[i] = s[a + i]
  <2>1. u = SubSeq(s, 1, a) /\ a \in 1..Len(s)
    BY <1>1
  <2>2. u \in Seq(T) /\ Len(u) = a /\ \A i \in 1..a : u[i] = s[i]
    <3> HIDE DEF u
    <3> QED
      BY <1>1, <2>1
  <2>3. v \in Seq(T) /\ Len(v) = Len(s) - a
    BY <1>1
  <2>4. \A i \in 1..(Len(s) - a) : v[i] = s[a + i]
    BY <1>1
  <2> QED
    BY <2>2, <2>3, <2>4, Zenon
<1> HIDE DEF u, v
<1>4. <<e>> \in Seq(T) /\ Len(<<e>>) = 1 /\ <<e>>[1] = e
  BY <1>1
<1> DEFINE w == u \o <<e>>
<1>5. /\ w \in Seq(T) /\ Len(w) = a + 1
      /\ \A i \in 1..a : w[i] = s[i]
      /\ w[a + 1] = e
  BY <1>1, <1>3, <1>4, ConcatProperties
<1> HIDE DEF w
<1>6. /\ t \in Seq(T) /\ Len(t) = Len(s) + 1
      /\ \A i \in 1..(Len(s) + 1) : t[i] = IF i <= a + 1 THEN w[i] ELSE v[i - (a + 1)]
  <2>1. t = w \o v
    BY <1>2 DEF w
  <2>2. /\ w \o v \in Seq(T) /\ Len(w \o v) = Len(w) + Len(v)
        /\ \A i \in 1..(Len(w) + Len(v)) :
              (w \o v)[i] = IF i <= Len(w) THEN w[i] ELSE v[i - Len(w)]
    <3>1. w \in Seq(T) /\ v \in Seq(T)
      BY <1>3, <1>5, Zenon
    <3> QED
      BY <3>1, ConcatProperties, Zenon
  <2>3. Len(w) + Len(v) = Len(s) + 1 /\ Len(w) = a + 1
    BY <1>1, <1>3, <1>5
  <2> QED
    BY <2>1, <2>2, <2>3, Zenon
<1>7. t \in Seq(Range(t)) /\ DOMAIN t = 1..(Len(s) + 1)
  BY <1>6, SeqOfRange
<1>8. a + 1 \in DOMAIN t /\ t[a + 1] = e
  BY <1>1, <1>5, <1>6, <1>7
<1>9. ASSUME NEW q \in DOMAIN t, q # a + 1
      PROVE  Was(q, a + 1) \in DOMAIN s /\ t[q] = s[Was(q, a + 1)]
  <2>1. CASE q <= a
    BY <1>1, <1>5, <1>6, <1>7, <2>1 DEF Was
  <2>2. CASE q > a + 1
    <3>1. q - (a + 1) \in 1..(Len(s) - a) /\ a + (q - (a + 1)) = q - 1
      BY <1>1, <1>7, <2>2
    <3>2. t[q] = s[q - 1]
      <4> DEFINE j == q - (a + 1)
      <4>1. q \in 1..(Len(s) + 1) /\ ~(q <= a + 1)
        BY <1>1, <1>7, <2>2
      <4>2. t[q] = v[j] /\ v[j] = s[a + j]
        BY <1>3, <1>6, <3>1, <4>1
      <4> QED
        BY <3>1, <4>2
    <3> QED
      BY <1>1, <1>7, <2>2, <3>2 DEF Was
  <2> QED
    BY <1>1, <1>7, <1>9, <2>1, <2>2
<1>10. ASSUME NEW q \in DOMAIN s
       PROVE  \E r \in DOMAIN t : r # a + 1 /\ Was(r, a + 1) = q
  <2>1. CASE q <= a
    <3>1. q \in DOMAIN t /\ q # a + 1 /\ Was(q, a + 1) = q
      BY <1>1, <1>7, <2>1 DEF Was
    <3> QED
      BY <3>1
  <2>2. CASE q > a
    <3>1. q \in Nat
      BY <1>1
    <3>2. q + 1 \in DOMAIN t /\ q + 1 # a + 1 /\ Was(q + 1, a + 1) = q
      BY <1>1, <1>7, <2>2, <3>1 DEF Was
    <3> QED
      BY <3>2
  <2> QED
    BY <1>1, <2>1, <2>2
<1> QED
  BY <1>6, <1>7, <1>8, <1>9, <1>10 DEF IsList

\* Dropping the last entry of a list keeps every other at its place.
LEMMA Shortened ==
    ASSUME NEW s, IsList(s), s # <<>>, NEW t, t = SubSeq(s, 1, Len(s) - 1)
    PROVE  /\ IsList(t) /\ Len(s) \in Nat /\ Len(s) \in DOMAIN s /\ DOMAIN s = 1..Len(s)
           /\ DOMAIN t = 1..(Len(s) - 1) /\ DOMAIN t \subseteq DOMAIN s
           /\ \A i \in DOMAIN t : t[i] = s[i]
<1>1. s \in Seq(Range(s)) /\ Len(s) \in Nat /\ DOMAIN s = 1..Len(s)
  BY DEF IsList
<1>2. Len(s) # 0
  BY <1>1, EmptySeq
<1>3. /\ t \in Seq(Range(s)) /\ Len(t) = Len(s) - 1
      /\ \A i \in 1..(Len(s) - 1) : t[i] = s[i]
  BY <1>1, <1>2
<1>4. t \in Seq(Range(t)) /\ DOMAIN t = 1..(Len(s) - 1)
  <2>1. t \in Seq(Range(t))
    BY <1>3, SeqOfRange, Zenon
  <2> QED
    BY <1>3, <2>1
<1> QED
  BY <1>1, <1>2, <1>3, <1>4 DEF IsList

-----------------------------------------------------------------------------
(***************************************************************************)
(* The listing.                                                            *)
(***************************************************************************)
\* The outgoing relations of an entity are relations, and start there.
LEMMA OutgoingStart ==
    ASSUME NEW snapshot, NEW e, NEW limit,
           NEW r \in Range(relations_for_entity(snapshot, e, "out", limit))
    PROVE  r \in Rels /\ r.src = e
<1> DEFINE touching == {q \in RowRels(snapshot) :
                           \/ "out" \in {"out", "both"} /\ q.src = e
                           \/ "out" \in {"in", "both"} /\ q.dst = e}
           Stronger(q, s) == q.conf > s.conf \/ (q.conf = s.conf /\ q.id < s.id)
           placed == {<<Cardinality({y \in touching : Stronger(y, x)}), x>> : x \in touching}
           ranked(n) == {p \in placed : p[1] = n}
           order == [i \in 1..Cardinality(touching) |->
                        (CHOOSE p \in placed : ranked(i - 1) # {} => p \in ranked(i - 1))[2]]
<1>1. relations_for_entity(snapshot, e, "out", limit) = Take(order, limit)
  BY Zenon DEF relations_for_entity, Ordered
<1>2. \A q \in touching : q \in Rels /\ q.src = e
  BY DEF RowRels
<1>3. ASSUME NEW p \in placed PROVE p[2] \in touching
  <2>1. \E x \in touching : \E n : p = <<n, x>>
    BY Zenon
  <2> HIDE DEF touching, placed
  <2> QED
    BY <2>1
<1>4. touching # {} => placed # {}
  BY Zenon
<1>5. touching = {} => DOMAIN order = {}
  <2>1. ASSUME touching = {} PROVE Cardinality(touching) = 0
    BY <2>1, FS_EmptySet
  <2> HIDE DEF touching, placed, ranked
  <2> QED
    BY <2>1
<1> HIDE DEF touching
<1>6. ASSUME NEW i \in DOMAIN order PROVE order[i] \in touching
  <2>1. placed # {}
    BY <1>4, <1>5, <1>6
  <2> DEFINE c == CHOOSE p \in placed : ranked(i - 1) # {} => p \in ranked(i - 1)
  <2>2. \E p \in placed : ranked(i - 1) # {} => p \in ranked(i - 1)
    <3> HIDE DEF placed
    <3> QED
      BY <2>1
  <2>3. c \in placed
    <3> HIDE DEF placed, ranked
    <3> QED
      BY <2>2, Zenon
  <2>4. order[i] = c[2]
    BY Zenon
  <2> QED
    BY <1>3, <2>3, <2>4
<1> HIDE DEF order
<1>7. \E i \in DOMAIN order : r = order[i]
  BY <1>1 DEF Take, Range
<1> QED
  BY <1>2, <1>6, <1>7

\* A subject of a source is linked by an edge from it, tests nothing, and is
\* neither shown nor linked yet.
LEMMA SubjectFacts ==
    ASSUME NEW source, NEW e \in SubjectsOf(source)
    PROVE  /\ e \in Entities /\ ~is_test_entity(e) /\ e \notin Shown
           /\ \A i \in DOMAIN links : links[i].id # e
           /\ \E r \in Rels : r.src = source /\ r.dst = e
<1> DEFINE rows == Range(relations_for_entity(live, source, "out", 16))
           edges == {r \in rows : r.kind \in MechanismKinds /\ r.dst \notin Shown}
           linked == {links[i].id : i \in DOMAIN links}
           targets == {t \in entities_by_ids(live, {r.dst : r \in edges}) \ linked :
                          Ent[t].kind \in CallableKinds /\ ~is_test_entity(t)}
<1>1. e \in targets
  BY Zenon DEF SubjectsOf, Shown
<1>2. e \notin linked /\ ~is_test_entity(e) /\ e \in entities_by_ids(live, {r.dst : r \in edges})
  BY <1>1, Zenon
<1>3. e \in Entities /\ \E r \in edges : r.dst = e
  BY <1>2 DEF entities_by_ids, RowEntities
<1>4. \A r \in edges : r \in Rels /\ r.src = source /\ r.dst \notin Shown
  <2> TAKE r \in edges
  <2>1. r \in rows /\ r.dst \notin Shown
    BY Zenon
  <2> QED
    BY <2>1, OutgoingStart
<1>5. \A i \in DOMAIN links : links[i].id # e
  BY <1>2, Zenon
<1> HIDE DEF edges
<1> QED
  BY <1>2, <1>3, <1>4, <1>5

\* A linked artifact becomes a hit of its own key.
LEMMA SubjectHitFields ==
    ASSUME NEW link
    PROVE  /\ SubjectHit(link).key = SubjectKey(link.id) /\ SubjectHit(link).entity = link.id
           /\ IsSubject(SubjectHit(link))
BY DEF SubjectHit, LinkedHit, SubjectKey, IsSubject

\* No hit of the search is an artifact that linking lists: the two kinds of
\* key differ.
LEMMA HitsAreNoSubjects ==
    ASSUME ListInv, NEW i \in DOMAIN hits
    PROVE  ~IsSubject(hits[i])
BY DEF ListInv, Listed, CandidateKey, IsSubject

\* Two hits of one document would show one place.
LEMMA HitKeysDiffer == ASSUME ListInv, OnePlacePerHit PROVE KeysDiffer(hits)
<1> SUFFICES ASSUME NEW i \in DOMAIN hits, NEW j \in DOMAIN hits, hits[i].key = hits[j].key
             PROVE  i = j
  BY DEF KeysDiffer
<1>1. /\ hits[i].region = hits[j].region /\ hits[i].path = hits[j].path
      /\ hits[i].span = hits[j].span
  BY DEF ListInv, Listed
<1>2. RegionKey(hits[i]) = RegionKey(hits[j])
  BY <1>1 DEF RegionKey
<1> QED
  BY <1>2 DEF OnePlacePerHit

\* Linking starts from the hits, with links from hits that are listed.
LEMMA StartLinksKeeps ==
    ASSUME ListInv, OnePlacePerHit, PhaseInv, StartLinks PROVE LinkInv' /\ ListingInv'
<1>1. /\ hits' = hits /\ listing' = hits /\ links' = <<>> /\ phase' = "link"
      /\ sources' = BacklinkSources /\ IsList(hits)
  BY DEF StartLinks, searchVars, PhaseInv, ListInv
<1>2. BacklinkSources \subseteq DOMAIN hits
  BY DEF BacklinkSources, FirstOf, FirstBy
<1>3. LinkInv'
  BY <1>1, <1>2, EmptyList DEF LinkInv, IsList
<1>4. \A i \in DOMAIN hits : ~IsSubject(hits[i])
  BY HitsAreNoSubjects
<1>5. HitsInOrder'
  BY <1>1, <1>4 DEF HitsInOrder, IsSubject
<1>6. KeysDiffer(hits)
  BY HitKeysDiffer
<1> QED
  BY <1>1, <1>3, <1>4, <1>5, <1>6 DEF ListingInv, KeysDiffer, IsList, IsSubject

\* A new link comes after the others and before the sources left.
LEMMA LinkSubjectKeeps ==
    ASSUME ListInv, PhaseInv, LinkInv, LinkSubject PROVE LinkInv'
<1>1. /\ hits' = hits /\ listing' = listing /\ phase' = phase /\ phase = "link"
      /\ IsList(hits)
  BY DEF LinkSubject, searchVars, ListInv
<1>2. PICK i \in sources :
         /\ \A j \in sources : i <= j
         /\ \/ sources' = sources \ {i} /\ links' = links
            \/ /\ \E e \in SubjectsOf(hits[i].entity) :
                     links' = Append(links, [at |-> i, id |-> e, current |-> hits[i].current])
               /\ sources' = {} \/ sources' = sources \ {i}
  BY Zenon DEF LinkSubject
<1>3. /\ IsList(links) /\ listing = hits /\ sources \subseteq DOMAIN hits
      /\ DOMAIN hits = 1..Len(hits) /\ Len(hits) \in Nat
      /\ \A k \in DOMAIN links : links[k].at < i /\ LinkOf(links[k])
      /\ \A j, k \in DOMAIN links : j < k => /\ links[j].at < links[k].at
                                             /\ links[j].id # links[k].id
  BY <1>1, <1>2, ListShape DEF LinkInv
<1>4. CASE links' = links
  <2>1. sources' \subseteq sources
    BY <1>2
  <2> QED
    BY <1>1, <1>3, <1>4, <2>1 DEF LinkInv, LinkOf, Shown, IsList
<1>5. ASSUME NEW e \in SubjectsOf(hits[i].entity), NEW link,
             link = [at |-> i, id |-> e, current |-> hits[i].current],
             links' = Append(links, link), sources' \subseteq sources \ {i}
      PROVE  LinkInv'
  <2>1. /\ e \in Entities /\ ~is_test_entity(e) /\ e \notin Shown
        /\ \A k \in DOMAIN links : links[k].id # e
        /\ \E r \in Rels : r.src = hits[i].entity /\ r.dst = e
    BY SubjectFacts
  <2>2. link.at = i /\ link.id = e
    BY <1>5
  <2>3. LinkOf(link)
    BY <1>2, <1>3, <2>1, <2>2 DEF LinkOf
  <2>4. /\ IsList(links') /\ DOMAIN links' = DOMAIN links \cup {Len(links) + 1}
        /\ \A k \in DOMAIN links : links'[k] = links[k]
        /\ links'[Len(links) + 1] = link
        /\ Len(links) \in Nat /\ DOMAIN links = 1..Len(links)
    BY <1>3, <1>5, ListAppend, ListShape
  <2>5. ASSUME NEW k \in DOMAIN links' PROVE LinkOf(links'[k]) /\ links'[k].at <= i
    <3>1. CASE k \in DOMAIN links
      <4>1. links'[k] = links[k]
        BY <2>4, <3>1
      <4>2. links[k].at \in DOMAIN hits /\ links[k].at < i /\ i \in DOMAIN hits
        BY <1>2, <1>3, <3>1 DEF LinkOf
      <4> QED
        BY <1>3, <3>1, <4>1, <4>2
    <3>2. CASE k = Len(links) + 1
      BY <1>2, <1>3, <2>2, <2>3, <2>4, <3>2
    <3> QED
      BY <2>4, <3>1, <3>2
  <2>6. \A k \in DOMAIN links' :
           /\ links'[k].at \in DOMAIN hits /\ links'[k].id \notin Shown
           /\ \A s \in sources' : links'[k].at < s
    <3> TAKE k \in DOMAIN links'
    <3>1. links'[k].at \in DOMAIN hits /\ links'[k].id \notin Shown
      BY <2>5 DEF LinkOf
    <3>2. \A s \in sources' : i <= s /\ i # s /\ s \in DOMAIN hits
      BY <1>2, <1>3, <1>5
    <3>3. \A s \in sources' : links'[k].at < s
      BY <1>2, <1>3, <2>5, <3>1, <3>2
    <3> QED
      BY <3>1, <3>3
  <2>7. ASSUME NEW j \in DOMAIN links', NEW k \in DOMAIN links', j < k
        PROVE  links'[j].at < links'[k].at /\ links'[j].id # links'[k].id
    <3>1. j \in DOMAIN links
      BY <2>4, <2>7
    <3>2. CASE k \in DOMAIN links
      BY <1>3, <2>4, <2>7, <3>1, <3>2
    <3>3. CASE k = Len(links) + 1
      BY <1>3, <2>1, <2>2, <2>4, <3>1, <3>3
    <3> QED
      BY <2>4, <3>2, <3>3
  <2>8. (\A k \in DOMAIN links : LinkOf(links[k]))'
    BY <1>1, <2>5 DEF LinkOf, Shown
  <2>9. \A q \in DOMAIN hits : hits[q].entity \in Shown
    BY DEF Shown
  <2>10. \A k \in DOMAIN links', q \in DOMAIN hits : hits[q].entity # links'[k].id
    BY <2>6, <2>9, Zenon
  <2>11. sources' \subseteq DOMAIN hits
    BY <1>3, <1>5
  <2> QED
    BY <1>1, <1>3, <2>4, <2>6, <2>7, <2>8, <2>10, <2>11 DEF LinkInv, IsList
<1>6. ASSUME NEW e \in SubjectsOf(hits[i].entity),
             links' = Append(links, [at |-> i, id |-> e, current |-> hits[i].current])
      PROVE  LinkInv'
  <2>1. sources' \subseteq sources \ {i}
    BY <1>2
  <2> QED
    BY <1>5, <1>6, <2>1, Zenon
<1> QED
  BY <1>2, <1>4, <1>6, Zenon

\* The last link is inserted behind its source: the part of the listing the
\* other links point at is before it.
LEMMA InsertEffect ==
    ASSUME ListInv, PhaseInv, LinkInv, ListingInv, InsertSubject
    PROVE  \E n \in DOMAIN links :
              /\ n = Len(links) /\ Len(links) \in Nat
              /\ links[n].at \in DOMAIN listing
              /\ listing' = InsertAt(listing, links[n].at + 1, SubjectHit(links[n]))
              /\ IsList(links') /\ DOMAIN links' = 1..(n - 1) /\ DOMAIN links' \subseteq DOMAIN links
              /\ \A i \in DOMAIN links' : links'[i] = links[i] /\ i < n
<1>1. /\ phase = "link" /\ links # <<>> /\ links' = SubSeq(links, 1, Len(links) - 1)
      /\ listing' = InsertAt(listing, links[Len(links)].at + 1, SubjectHit(links[Len(links)]))
  BY Zenon DEF InsertSubject
<1>2. /\ IsList(links') /\ Len(links) \in Nat /\ Len(links) \in DOMAIN links
      /\ DOMAIN links = 1..Len(links)
      /\ DOMAIN links' = 1..(Len(links) - 1) /\ DOMAIN links' \subseteq DOMAIN links
      /\ \A i \in DOMAIN links' : links'[i] = links[i]
  <2>1. IsList(links)
    BY <1>1 DEF LinkInv
  <2> QED
    BY <1>1, <2>1, Shortened, Zenon
<1>3. \A i \in DOMAIN links' : i < Len(links)
  BY <1>2
<1>4. links[Len(links)].at \in DOMAIN listing
  BY <1>1, <1>2 DEF LinkInv
<1> QED
  BY <1>1, <1>2, <1>3, <1>4

\* What InsertSubject makes of the listing, position by position.
LEMMA InsertPlaces ==
    ASSUME ListInv, PhaseInv, LinkInv, ListingInv, NEW n \in DOMAIN links,
           links[n].at \in DOMAIN listing, phase = "link",
           listing' = InsertAt(listing, links[n].at + 1, SubjectHit(links[n]))
    PROVE  LET a == links[n].at
           IN  /\ IsList(listing') /\ a \in Nat /\ a > 0
               /\ DOMAIN listing \in SUBSET Nat /\ DOMAIN listing' \in SUBSET Nat
               /\ DOMAIN listing \subseteq DOMAIN listing'
               /\ a + 1 \in DOMAIN listing' /\ listing'[a + 1] = SubjectHit(links[n])
               /\ \A q \in DOMAIN listing' : q # a + 1 =>
                     /\ Was(q, a + 1) \in DOMAIN listing
                     /\ listing'[q] = listing[Was(q, a + 1)]
               /\ \A q \in DOMAIN listing : \E r \in DOMAIN listing' :
                     r # a + 1 /\ Was(r, a + 1) = q
<1> DEFINE a == links[n].at
<1>1. IsList(listing)
  BY DEF ListingInv
<1>2. /\ IsList(listing') /\ Len(listing') = Len(listing) + 1
      /\ a + 1 \in DOMAIN listing' /\ listing'[a + 1] = SubjectHit(links[n])
      /\ \A q \in DOMAIN listing' : q # a + 1 => /\ Was(q, a + 1) \in DOMAIN listing
                                                 /\ listing'[q] = listing[Was(q, a + 1)]
      /\ \A q \in DOMAIN listing : \E r \in DOMAIN listing' : r # a + 1 /\ Was(r, a + 1) = q
  BY <1>1, Inserted
<1>3. /\ Len(listing) \in Nat /\ DOMAIN listing = 1..Len(listing)
      /\ DOMAIN listing' = 1..(Len(listing) + 1)
  BY <1>1, <1>2, ListShape
<1> QED
  BY <1>2, <1>3

\* An inserted artifact moves the links behind it along with their sources.
LEMMA InsertKeepsLinkInv ==
    ASSUME ListInv, PhaseInv, LinkInv, ListingInv, InsertSubject PROVE LinkInv'
<1>1. hits' = hits /\ phase' = phase /\ phase = "link" /\ sources = {} /\ sources' = {}
  BY DEF InsertSubject, searchVars
<1>2. PICK n \in DOMAIN links :
         /\ n = Len(links) /\ Len(links) \in Nat
         /\ links[n].at \in DOMAIN listing
         /\ listing' = InsertAt(listing, links[n].at + 1, SubjectHit(links[n]))
         /\ IsList(links') /\ DOMAIN links' = 1..(n - 1) /\ DOMAIN links' \subseteq DOMAIN links
         /\ \A i \in DOMAIN links' : links'[i] = links[i] /\ i < n
  BY InsertEffect
<1> DEFINE a == links[n].at
<1>3. /\ IsList(listing') /\ a \in Nat /\ a > 0
      /\ DOMAIN listing \in SUBSET Nat /\ DOMAIN listing' \in SUBSET Nat
      /\ DOMAIN listing \subseteq DOMAIN listing'
      /\ a + 1 \in DOMAIN listing' /\ listing'[a + 1] = SubjectHit(links[n])
      /\ \A q \in DOMAIN listing' : q # a + 1 => /\ Was(q, a + 1) \in DOMAIN listing
                                                 /\ listing'[q] = listing[Was(q, a + 1)]
  BY <1>1, <1>2, InsertPlaces
<1>4. /\ \A i \in DOMAIN links :
            /\ LinkOf(links[i])
            /\ links[i].at \in DOMAIN listing
            /\ \A q \in DOMAIN listing : listing[q].entity # links[i].id
            /\ \A q \in DOMAIN listing : q <= links[i].at + 1 =>
                  q \in DOMAIN hits /\ listing[q] = hits[q]
      /\ \A i, j \in DOMAIN links : i < j => /\ links[i].at < links[j].at
                                             /\ links[i].id # links[j].id
  BY <1>1 DEF LinkInv
<1>5. SubjectHit(links[n]).entity = links[n].id
  BY SubjectHitFields
<1>6. ASSUME NEW i \in DOMAIN links'
      PROVE  /\ LinkOf(links[i])
             /\ links[i].at \in DOMAIN listing'
             /\ \A q \in DOMAIN listing' : listing'[q].entity # links[i].id
             /\ \A q \in DOMAIN listing' : q <= links[i].at + 1 =>
                   q \in DOMAIN hits /\ listing'[q] = hits[q]
  <2>1. i \in DOMAIN links /\ links[i].at < a /\ links[i].id # links[n].id
    BY <1>2, <1>4
  <2>2. LinkOf(links[i]) /\ links[i].at \in DOMAIN listing' /\ links[i].at \in Nat
    BY <1>3, <1>4, <2>1
  <2>3. ASSUME NEW q \in DOMAIN listing' PROVE listing'[q].entity # links[i].id
    BY <1>3, <1>4, <1>5, <2>1
  <2>4. ASSUME NEW q \in DOMAIN listing', q <= links[i].at + 1
        PROVE  q \in DOMAIN hits /\ listing'[q] = hits[q]
    <3>1. q \in Nat /\ q < a + 1
      BY <1>3, <2>1, <2>2, <2>4
    <3>2. Was(q, a + 1) = q
      BY <3>1 DEF Was
    <3> QED
      BY <1>3, <1>4, <2>1, <2>4, <3>1, <3>2
  <2> QED
    BY <2>2, <2>3, <2>4
<1>7. (\A i \in DOMAIN links : LinkOf(links[i]))'
  BY <1>1, <1>2, <1>6 DEF LinkOf, Shown
<1> QED
  BY <1>1, <1>2, <1>4, <1>6, <1>7 DEF LinkInv

\* An insertion keeps the hits in the search's order, the keys apart and each
\* artifact directly behind its source or behind other artifacts of it.
LEMMA InsertKeepsListingInv ==
    ASSUME ListInv, PhaseInv, LinkInv, ListingInv, InsertSubject PROVE ListingInv'
<1>1. hits' = hits /\ phase' = phase /\ phase = "link"
  BY DEF InsertSubject, searchVars
<1>2. PICK n \in DOMAIN links :
         /\ links[n].at \in DOMAIN listing
         /\ listing' = InsertAt(listing, links[n].at + 1, SubjectHit(links[n]))
  BY InsertEffect
<1> DEFINE a == links[n].at
           new == SubjectHit(links[n])
<1>3. /\ IsList(listing') /\ a \in Nat /\ a > 0
      /\ DOMAIN listing \in SUBSET Nat /\ DOMAIN listing' \in SUBSET Nat
      /\ DOMAIN listing \subseteq DOMAIN listing'
      /\ a + 1 \in DOMAIN listing' /\ listing'[a + 1] = new
      /\ \A q \in DOMAIN listing' : q # a + 1 => /\ Was(q, a + 1) \in DOMAIN listing
                                                 /\ listing'[q] = listing[Was(q, a + 1)]
      /\ \A q \in DOMAIN listing : \E r \in DOMAIN listing' : r # a + 1 /\ Was(r, a + 1) = q
  BY <1>1, <1>2, InsertPlaces
<1>4. /\ a \in DOMAIN hits /\ links[n].id \in Entities /\ ~is_test_entity(links[n].id)
      /\ \E r \in Rels : r.src = hits[a].entity /\ r.dst = links[n].id
      /\ \A q \in DOMAIN listing : listing[q].entity # links[n].id
      /\ \A q \in DOMAIN listing : q <= a + 1 => q \in DOMAIN hits /\ listing[q] = hits[q]
  BY <1>1 DEF LinkInv, LinkOf
<1>5. new.key = SubjectKey(links[n].id) /\ new.entity = links[n].id /\ IsSubject(new)
  BY SubjectHitFields
<1>6. HitsInOrder /\ KeysDiffer(listing)
      /\ \A p \in DOMAIN listing : IsSubject(listing[p]) => SubjectAt(listing, p)
  BY <1>1 DEF ListingInv
<1> HIDE DEF a, new
\* Positions keep their order.
<1>7. \A p, q \in DOMAIN listing' :
         p # a + 1 /\ q # a + 1 => /\ p < q => Was(p, a + 1) < Was(q, a + 1)
                                   /\ Was(p, a + 1) = Was(q, a + 1) => p = q
  BY <1>3 DEF Was
<1>8. HitsInOrder'
  <2>1. \A i \in DOMAIN hits : \E p \in DOMAIN listing' : listing'[p] = hits[i]
    <3> TAKE i \in DOMAIN hits
    <3>1. PICK q \in DOMAIN listing : listing[q] = hits[i]
      BY <1>6 DEF HitsInOrder
    <3>2. PICK r \in DOMAIN listing' : r # a + 1 /\ Was(r, a + 1) = q
      BY <1>3
    <3> QED
      BY <1>3, <3>1, <3>2
  <2>2. \A p \in DOMAIN listing' : ~IsSubject(listing'[p]) =>
           \E i \in DOMAIN hits : listing'[p] = hits[i]
    BY <1>3, <1>5, <1>6 DEF HitsInOrder
  <2>3. ASSUME NEW p \in DOMAIN listing', NEW q \in DOMAIN listing', p < q,
               ~IsSubject(listing'[p]), ~IsSubject(listing'[q])
        PROVE  \E i, j \in DOMAIN hits : /\ i < j
                                         /\ listing'[p] = hits[i] /\ listing'[q] = hits[j]
    <3>1. p # a + 1 /\ q # a + 1
      BY <1>3, <1>5, <2>3
    <3>2. /\ Was(p, a + 1) \in DOMAIN listing /\ Was(q, a + 1) \in DOMAIN listing
          /\ listing'[p] = listing[Was(p, a + 1)] /\ listing'[q] = listing[Was(q, a + 1)]
          /\ Was(p, a + 1) < Was(q, a + 1)
      BY <1>3, <1>7, <2>3, <3>1
    <3> QED
      BY <1>6, <2>3, <3>2 DEF HitsInOrder
  <2> QED
    BY <1>1, <2>1, <2>2, <2>3 DEF HitsInOrder, IsSubject
<1>9. ASSUME NEW p \in DOMAIN listing', p # a + 1, IsSubject(listing'[p])
      PROVE  SubjectAt(listing', p) /\ listing'[p].key # new.key
  <2> DEFINE w == Was(p, a + 1)
  <2>1. w \in DOMAIN listing /\ listing'[p] = listing[w] /\ IsSubject(listing[w]) /\ w \in Nat
    BY <1>3, <1>9
  <2>2. SubjectAt(listing, w)
    BY <1>6, <2>1
  <2>3. ~(w <= a + 1)
    BY <1>4, <2>1, HitsAreNoSubjects
  <2>4. p \in Nat /\ w = p - 1 /\ p > a + 2
    BY <1>3, <2>1, <2>3 DEF Was
  <2>5. p - 1 # a + 1 /\ Was(p - 1, a + 1) = w - 1
    BY <1>3, <2>4 DEF Was
  <2>6. p - 1 \in DOMAIN listing'
    BY <1>3, <2>1, <2>4
  <2>7. listing'[p - 1] = listing[w - 1]
    BY <1>3, <2>5, <2>6
  <2>8. \A q \in DOMAIN listing' \ {p} : listing'[q].entity # listing'[p].entity
    <3> TAKE q \in DOMAIN listing' \ {p}
    <3>1. CASE q = a + 1
      BY <1>3, <1>4, <1>5, <2>1, <3>1
    <3>2. CASE q # a + 1
      <4>1. /\ Was(q, a + 1) \in DOMAIN listing \ {w}
            /\ listing'[q] = listing[Was(q, a + 1)]
        BY <1>3, <1>7, <1>9, <3>2
      <4> QED
        BY <2>1, <2>2, <4>1 DEF SubjectAt
    <3> QED
      BY <3>1, <3>2
  <2>9. listing'[p].key # new.key
    BY <1>4, <1>5, <2>1, <2>2 DEF SubjectAt, SubjectKey
  <2> HIDE DEF w
  <2> QED
    BY <2>1, <2>2, <2>4, <2>7, <2>8, <2>9 DEF SubjectAt
<1>10. SubjectAt(listing', a + 1)
  <2>1. a + 1 > 1 /\ (a + 1) - 1 = a /\ a # a + 1
    BY <1>3
  <2>2. a \in DOMAIN listing /\ listing[a] = hits[a]
    BY <1>2, <1>3, <1>4 DEF a
  <2>3. listing'[a] = hits[a]
    <3>1. Was(a, a + 1) = a
      BY <1>3 DEF Was
    <3> QED
      BY <1>3, <2>1, <2>2, <3>1
  <2>4. \A q \in DOMAIN listing' \ {a + 1} : listing'[q].entity # new.entity
    BY <1>3, <1>4, <1>5
  <2> QED
    BY <1>3, <1>4, <1>5, <2>1, <2>3, <2>4 DEF SubjectAt
<1>11. KeysDiffer(listing')
  <2>1. ASSUME NEW p \in DOMAIN listing', p # a + 1 PROVE listing'[p].key # new.key
    BY <1>5, <1>9, <2>1 DEF IsSubject
  <2> SUFFICES ASSUME NEW p \in DOMAIN listing', NEW q \in DOMAIN listing',
                      listing'[p].key = listing'[q].key
               PROVE  p = q
    BY DEF KeysDiffer
  <2>2. CASE p = a + 1 \/ q = a + 1
    BY <1>3, <2>1, <2>2
  <2>3. CASE p # a + 1 /\ q # a + 1
    <3>1. /\ Was(p, a + 1) \in DOMAIN listing /\ Was(q, a + 1) \in DOMAIN listing
          /\ listing'[p] = listing[Was(p, a + 1)] /\ listing'[q] = listing[Was(q, a + 1)]
      BY <1>3, <2>3
    <3>2. Was(p, a + 1) = Was(q, a + 1)
      BY <1>6, <3>1 DEF KeysDiffer
    <3> QED
      BY <1>7, <2>3, <3>2
  <2> QED
    BY <2>2, <2>3
<1>12. \A p \in DOMAIN listing' : IsSubject(listing'[p]) => SubjectAt(listing', p)
  BY <1>9, <1>10
<1> QED
  BY <1>3, <1>8, <1>11, <1>12 DEF ListingInv

\* The other steps leave the links, the listing and the hits as they are.
LEMMA NextKeepsListing ==
    ASSUME ListInv, OnePlacePerHit, PhaseInv, LinkInv, ListingInv, [Next]_vars
    PROVE  LinkInv' /\ ListingInv'
<1>1. CASE StartLinks
  BY <1>1, StartLinksKeeps
<1>2. CASE LinkSubject
  <2>1. hits' = hits /\ listing' = listing /\ phase' = phase
    BY <1>2 DEF LinkSubject, searchVars
  <2>2. ListingInv'
    BY <2>1 DEF ListingInv, HitsInOrder, KeysDiffer, SubjectAt, IsSubject, IsList
  <2> QED
    BY <1>2, <2>2, LinkSubjectKeeps
<1>3. CASE InsertSubject
  BY <1>3, InsertKeepsLinkInv, InsertKeepsListingInv
<1>4. CASE StartPack \/ PackRole \/ StartFill \/ PackFill \/ FinishPack
  <2>1. /\ hits' = hits /\ listing' = listing /\ phase # "search" /\ phase' # "link"
    BY <1>4 DEF StartPack, PackRole, StartFill, PackFill, FinishPack, searchVars
  <2> QED
    BY <2>1 DEF LinkInv, ListingInv, HitsInOrder, KeysDiffer, SubjectAt, IsSubject, IsList
<1>5. CASE UNCHANGED packVars
  <2>1. CASE phase = "search"
    BY <1>5, <2>1 DEF packVars, LinkInv, ListingInv
  <2>2. CASE phase # "search"
    <3>1. /\ hits' = hits /\ listing' = listing /\ phase' = phase
          /\ links' = links /\ sources' = sources
      BY <1>5, <2>2, HitsStay DEF packVars
    <3> QED
      BY <3>1 DEF LinkInv, LinkOf, Shown, ListingInv, HitsInOrder, KeysDiffer, SubjectAt,
         IsSubject, IsList
  <2> QED
    BY <2>1, <2>2
<1> QED
  BY <1>1, <1>2, <1>3, <1>4, <1>5, StepOfCall DEF PackStep

\* The phases and the listing, as an invariant of the call.
ListingInvs == PhaseInv /\ LinkInv /\ ListingInv

\* The listing invariant holds in every state: the list of context.rs from the
\* end of the search to the end of the packing.
THEOREM ListingInvariant == Spec => []ListingInvs
<1>1. Init => ListingInvs
  BY InitPhaseInv DEF Init, LinkInv, ListingInv, ListingInvs
<1>2. ListInv /\ OnePlacePerHit /\ ListingInvs /\ [Next]_vars => ListingInvs'
  BY NextKeepsPhaseInv, NextKeepsListing DEF ListingInvs
<1> QED
  BY <1>1, <1>2, ListInvariant, HitsShowDistinctPlaces, PTL DEF Spec

\* Subjects follow a hit with an edge to them, and hits keep their order
\* (SubjectsFollowTheirSource).
THEOREM SubjectsStayWithTheirSource == Spec => []SubjectsFollowTheirSource
<1>1. ListingInvs => SubjectsFollowTheirSource
  BY DEF ListingInvs, ListingInv, SubjectAt, SubjectsFollowTheirSource
<1> QED
  BY <1>1, ListingInvariant, PTL

-----------------------------------------------------------------------------
(***************************************************************************)
(* Packing.                                                                *)
(***************************************************************************)
\* A hit with an address has a range.
LEMMA RangeGiven == ASSUME NEW hit PROVE hit.path # None <=> RangeOf(hit) # <<>>
BY DEF RangeOf

\* A hit costs a token for its header and one for every word.
LEMMA EstimateType ==
    ASSUME NEW hit PROVE estimate_tokens(hit) \in Nat /\ estimate_tokens(hit) > 0
<1>1. IsFiniteSet(Words \cap hit.terms)
  BY LexiconAssumption, FS_Intersection
<1>2. Cardinality(Words \cap hit.terms) \in Nat
  BY <1>1, FS_CardinalityType
<1> QED
  BY <1>2 DEF estimate_tokens

\* Rejection gives a reason exactly for the hits that cannot be admitted.
LEMMA ReasonsAreRefusals ==
    ASSUME NEW hit
    PROVE  /\ Rejection(hit) # "none" <=> Refused(hit)
           /\ Rejection(hit) = "Budget" => estimate_tokens(hit) > request.budget - used
<1>1. CASE hit.path = None
  BY <1>1, RangeGiven DEF Rejection, Refused
<1>2. CASE hit.path # None
  BY <1>2, RangeGiven DEF Rejection, Refused
<1> QED
  BY <1>1, <1>2

\* The tokens of a list with one more item: those of the item come on top.
LEMMA TokensOfAppend ==
    ASSUME NEW list, IsList(list), IsFiniteSet(TokensOf(list)), NEW hit,
           NEW more, more = Append(list, hit)
    PROVE  /\ IsFiniteSet(TokensOf(more))
           /\ Cardinality(TokensOf(more)) = Cardinality(TokensOf(list)) + estimate_tokens(hit)
<1> DEFINE n == Len(list) + 1
           m == estimate_tokens(hit)
           Of(s, i) == {i} \X (1..estimate_tokens(s[i]))
           new == {n} \X (1..m)
<1>1. /\ Len(list) \in Nat /\ DOMAIN list = 1..Len(list)
      /\ DOMAIN more = DOMAIN list \cup {n}
      /\ \A i \in DOMAIN list : more[i] = list[i]
      /\ more[n] = hit
  BY ListAppend, ListShape
<1>2. m \in Nat
  BY EstimateType
<1>3. IsFiniteSet(1..m) /\ Cardinality(1..m) = m
  BY <1>2, FS_Interval
<1>4. IsFiniteSet({n}) /\ Cardinality({n}) = 1
  BY FS_Singleton
<1>5. IsFiniteSet(new) /\ Cardinality(new) = m
  <2>1. IsFiniteSet(new) /\ Cardinality(new) = Cardinality({n}) * Cardinality(1..m)
    BY <1>3, <1>4, FS_Product
  <2> HIDE DEF new, m
  <2> QED
    BY <1>2, <1>3, <1>4, <2>1
<1>6. TokensOf(more) = TokensOf(list) \cup new
  <2>1. \A i \in DOMAIN list : Of(more, i) = Of(list, i)
    BY <1>1
  <2>2. Of(more, n) = new
    BY <1>1
  <2>3. {Of(more, i) : i \in DOMAIN more} = {Of(list, i) : i \in DOMAIN list} \cup {new}
    <3> HIDE DEF Of, new, n
    <3> QED
      BY <1>1, <2>1, <2>2
  <2> HIDE DEF new, n
  <2>4. TokensOf(more) = UNION {Of(more, i) : i \in DOMAIN more}
        /\ TokensOf(list) = UNION {Of(list, i) : i \in DOMAIN list}
    BY Zenon DEF TokensOf
  <2> HIDE DEF Of
  <2> QED
    BY <2>3, <2>4
<1>7. TokensOf(list) \cap new = {}
  <2> SUFFICES ASSUME NEW t \in TokensOf(list), t \in new PROVE FALSE
    OBVIOUS
  <2>1. PICK i \in DOMAIN list : t \in Of(list, i)
    BY DEF TokensOf
  <2>2. t[1] = i /\ t[1] = n
    BY <2>1
  <2> QED
    BY <1>1, <2>2
<1> HIDE DEF new, m
<1>8. /\ IsFiniteSet(TokensOf(list) \cup new)
      /\ Cardinality(TokensOf(list) \cup new) =
            Cardinality(TokensOf(list)) + Cardinality(new) - Cardinality(TokensOf(list) \cap new)
  BY <1>5, FS_Union
<1>9. Cardinality(TokensOf(list)) \in Nat /\ Cardinality(TokensOf(list) \cap new) = 0
  <2>1. Cardinality(TokensOf(list) \cap new) = 0
    BY <1>7, FS_EmptySet, Zenon
  <2> QED
    BY <2>1, FS_CardinalityType
<1>10. Cardinality(new) = estimate_tokens(hit) /\ estimate_tokens(hit) \in Nat
  BY <1>2, <1>5 DEF m
<1>11. IsFiniteSet(TokensOf(more))
  BY <1>6, <1>8
<1>12. Cardinality(TokensOf(list) \cup new) = Cardinality(TokensOf(list)) + estimate_tokens(hit)
  BY <1>8, <1>9, <1>10
<1> QED
  BY <1>6, <1>11, <1>12

\* Turning a hit away keeps its reason; admitting it appends it.
LEMMA RenderEffect ==
    ASSUME NEW hit, render_item(hit)
    PROVE  \/ /\ Rejection(hit) = "none" /\ rejected' = rejected
              /\ items' = Append(items, hit) /\ used' = used + estimate_tokens(hit)
           \/ /\ Rejection(hit) # "none" /\ UNCHANGED <<items, used>>
              /\ DOMAIN rejected' = DOMAIN rejected \cup {hit.key}
              /\ rejected'[hit.key] = Rejection(hit)
              /\ \A k \in DOMAIN rejected \ {hit.key} : rejected'[k] = rejected[k]
<1>1. CASE Rejection(hit) = "none"
  BY <1>1 DEF render_item
<1>2. CASE Rejection(hit) # "none"
  <2>1. rejected' = Overlay(rejected, [k \in {hit.key} |-> Rejection(hit)])
        /\ UNCHANGED <<items, used>>
    BY <1>2 DEF render_item
  <2> DEFINE new == [k \in {hit.key} |-> Rejection(hit)]
  <2>2. DOMAIN new = {hit.key} /\ new[hit.key] = Rejection(hit)
    OBVIOUS
  <2> HIDE DEF new
  <2>3. rejected' = [x \in DOMAIN rejected \cup DOMAIN new |->
                        IF x \in DOMAIN new THEN new[x] ELSE rejected[x]]
    BY <2>1, Zenon DEF Overlay, new
  <2> QED
    BY <1>2, <2>1, <2>2, <2>3
<1> QED
  BY <1>1, <1>2

\* The items of a file, when a hit is admitted.
LEMMA ShownAfter ==
    ASSUME IsList(items), NEW hit, items' = Append(items, hit), NEW path
    PROVE  ShownOf(path)' = IF hit.path = path THEN ShownOf(path) \cup {Len(items) + 1}
                            ELSE ShownOf(path)
BY ListAppend, ListShape DEF ShownOf

\* A pack shows finitely many entries of a path.
LEMMA ShownIsFinite ==
    ASSUME IsList(items), NEW path
    PROVE  IsFiniteSet(ShownOf(path)) /\ Cardinality(ShownOf(path)) \in Nat
<1>1. IsFiniteSet(DOMAIN items)
  BY ListShape, FS_Interval
<1>2. ShownOf(path) \in SUBSET DOMAIN items
  BY DEF ShownOf
<1>3. IsFiniteSet(ShownOf(path))
  BY <1>1, <1>2, FS_Subset
<1> QED
  BY <1>3, FS_CardinalityType

\* Rendering an entry of the listing keeps the pack within its bounds.
LEMMA RenderKeepsPackInv ==
    ASSUME PackInv, Packing, Packing', NEW p \in DOMAIN listing, render_item(listing[p]),
           listing' = listing, request' = request, request.budget \in Nat
    PROVE  PackInv'
<1> DEFINE hit == listing[p]
<1>1. CASE UNCHANGED <<items, used>>
  <2>1. \A path : ShownOf(path)' = ShownOf(path)
    BY <1>1 DEF ShownOf
  <2> QED
    BY <1>1, <2>1 DEF PackInv, IsList, TokensOf, RangeOf, estimate_tokens
<1>2. ASSUME Rejection(hit) = "none",
             items' = Append(items, hit), used' = used + estimate_tokens(hit)
      PROVE  PackInv'
  <2> DEFINE n == Len(items) + 1
  <2>1. /\ IsList(items) /\ IsFiniteSet(TokensOf(items))
        /\ \A i \in DOMAIN items : \E q \in DOMAIN listing : items[i] = listing[q]
        /\ used \in Nat /\ used <= request.budget
        /\ \A i, j \in DOMAIN items :
              RangeOf(items[i]) # <<>> /\ RangeOf(items[i]) = RangeOf(items[j]) => i = j
        /\ \A path : path # None => Cardinality(ShownOf(path)) <= FileCapMax
    BY DEF PackInv
  <2>2. estimate_tokens(hit) \in Nat /\ ~Refused(hit)
    BY <1>2, EstimateType, ReasonsAreRefusals
  <2>3. /\ IsList(items') /\ Len(items) \in Nat /\ DOMAIN items = 1..Len(items)
        /\ DOMAIN items' = DOMAIN items \cup {n} /\ n \notin DOMAIN items
        /\ \A i \in DOMAIN items : items'[i] = items[i]
        /\ items'[n] = hit
    BY <1>2, <2>1, ListAppend, ListShape
  <2>4. /\ IsFiniteSet(TokensOf(items'))
        /\ Cardinality(TokensOf(items')) = Cardinality(TokensOf(items)) + estimate_tokens(hit)
    BY <1>2, <2>1, TokensOfAppend
  <2>5. \A i \in DOMAIN items' : \E q \in DOMAIN listing' : items'[i] = listing'[q]
    BY <2>1, <2>3
  <2>6. used' \in Nat /\ used' <= request'.budget
    BY <1>2, <2>1, <2>2 DEF Refused
  <2>7. \E orientation \in {0, OrientationSize} :
            used' = orientation + Cardinality(TokensOf(items'))
    <3>1. PICK orientation \in {0, OrientationSize} :
              used = orientation + Cardinality(TokensOf(items))
      BY DEF PackInv
    <3>2. Cardinality(TokensOf(items)) \in Nat
      BY <2>1, FS_CardinalityType
    <3>3. orientation \in Nat
      BY PackAssumption
    <3> QED
      BY <1>2, <2>2, <2>4, <3>1, <3>2, <3>3
  <2>8. \A i \in DOMAIN items : RangeOf(hit) # <<>> => RangeOf(items[i]) # RangeOf(hit)
    BY <2>2, RangeGiven DEF Refused
  <2>9. \A i, j \in DOMAIN items' :
           RangeOf(items'[i]) # <<>> /\ RangeOf(items'[i]) = RangeOf(items'[j]) => i = j
    BY <2>1, <2>3, <2>8
  <2>10. ASSUME NEW path, path # None PROVE Cardinality(ShownOf(path)') <= FileCapMax
    <3>1. IsFiniteSet(ShownOf(path)) /\ Cardinality(ShownOf(path)) \in Nat
      BY <2>1, ShownIsFinite
    <3>2. CASE hit.path = path
      <4>1. ~(Cardinality(ShownOf(path)) >= FileCapMax)
        BY <2>2, <2>10, <3>2 DEF Refused
      <4>2. ShownOf(path)' = ShownOf(path) \cup {n}
        BY <1>2, <2>1, <3>2, ShownAfter
      <4>3. Cardinality(ShownOf(path) \cup {n}) =
               IF n \in ShownOf(path) THEN Cardinality(ShownOf(path))
               ELSE Cardinality(ShownOf(path)) + 1
        BY <3>1, FS_AddElement, Zenon
      <4>4. FileCapMax \in Nat
        BY PackAssumption
      <4>5. Cardinality(ShownOf(path) \cup {n}) \in Nat
        BY <3>1, <4>3
      <4> HIDE DEF n
      <4> QED
        BY <3>1, <4>1, <4>2, <4>3, <4>4, <4>5
    <3>3. CASE hit.path # path
      <4>1. ShownOf(path)' = ShownOf(path)
        BY <1>2, <2>1, <3>3, ShownAfter
      <4> QED
        BY <2>1, <2>10, <4>1
    <3> QED
      BY <3>2, <3>3
  <2> HIDE DEF n, hit
  <2> QED
    BY <2>3, <2>4, <2>5, <2>6, <2>7, <2>9, <2>10
       DEF PackInv, IsList, TokensOf, RangeOf, estimate_tokens
<1> QED
  BY <1>1, <1>2, RenderEffect

\* The pack starts empty, with the orientation if it fits.
LEMMA EmptyPack ==
    ASSUME NEW list, list = <<>>
    PROVE  TokensOf(list) = {} /\ IsFiniteSet(TokensOf(list)) /\ Cardinality(TokensOf(list)) = 0
<1>1. TokensOf(list) = {}
  BY DEF TokensOf
<1> QED
  BY <1>1, FS_EmptySet

\* A pack starts with nothing but the orientation, if that fits the budget.
LEMMA StartKeepsPackInv ==
    ASSUME PhaseInv, StartPack, request.budget \in Nat PROVE PackInv'
<1>1. /\ items = <<>> /\ items' = items /\ request' = request /\ listing' = listing
      /\ used' = IF OrientationSize <= request.budget THEN OrientationSize ELSE 0
  BY DEF StartPack, PhaseInv, searchVars
<1>2. used' \in {0, OrientationSize} /\ used' \in Nat /\ used' <= request'.budget
  BY <1>1, PackAssumption
<1>3. TokensOf(items') = {} /\ IsFiniteSet(TokensOf(items')) /\ Cardinality(TokensOf(items')) = 0
  BY <1>1, EmptyPack
<1>4. used' = used' + Cardinality(TokensOf(items'))
  BY <1>2, <1>3
<1>5. IsList(items') /\ DOMAIN items' = {}
  BY <1>1, EmptyList
<1>6. \A path : ShownOf(path)' = {}
  BY <1>5 DEF ShownOf
<1>7. FileCapMax \in Nat /\ Cardinality({}) = 0
  BY PackAssumption, FS_EmptySet
<1>8. TokensOf(items)' = TokensOf(items')
  BY Zenon DEF TokensOf, estimate_tokens
<1>9. IsList(items)'
  BY <1>5 DEF IsList
<1>10. \A path : Cardinality(ShownOf(path)') <= FileCapMax
  BY <1>6, <1>7
<1>11. IsFiniteSet(TokensOf(items)')
  BY <1>3, <1>8
<1>12. \E orientation \in {0, OrientationSize} :
           used' = orientation + Cardinality(TokensOf(items)')
  BY <1>2, <1>4, <1>8
<1> QED
  BY <1>2, <1>5, <1>9, <1>10, <1>11, <1>12 DEF PackInv

\* What the packing steps do: nothing to the pack, or render one entry.
LEMMA PackRoleEffect ==
    ASSUME PackRole
    PROVE  /\ phase = "roles" /\ UNCHANGED <<phase, listing, request>> /\ at' = at + 1
           /\ \/ UNCHANGED <<items, used, rejected>>
              \/ \E p \in DOMAIN listing : render_item(listing[p])
BY Zenon DEF PackRole, searchVars

\* What one step of the filling does: it skips an entry that is taken, or
\* renders it, and moves on.
LEMMA PackFillEffect ==
    ASSUME PackFill
    PROVE  /\ phase = "fill" /\ UNCHANGED <<phase, listing, request>> /\ at' = at + 1
           /\ at <= Len(listing)
           /\ \/ listing[at].key \in TakenKeys /\ UNCHANGED <<items, used, rejected>>
              \/ render_item(listing[at])
BY Zenon DEF PackFill, searchVars

\* The budget of a call that packs is a number.
LEMMA BudgetIsGiven ==
    ASSUME PhaseInv, request \in Requests, phase # "search" PROVE request.budget \in Nat
BY PackAssumption DEF PhaseInv

\* Every step keeps the pack's account: what is used is what is shown.
LEMMA NextKeepsPackInv ==
    ASSUME PhaseInv, ListingInv, ReasonInv, PackInv, request \in Requests, [Next]_vars
    PROVE  PackInv'
<1>1. CASE ~Packing'
  BY <1>1 DEF PackInv
<1>2. CASE StartPack
  BY <1>2, StartKeepsPackInv, BudgetIsGiven DEF StartPack
<1>3. CASE PackRole
  <2>1. Packing /\ Packing' /\ request.budget \in Nat
    BY <1>3, PackRoleEffect, BudgetIsGiven DEF Packing
  <2>2. CASE UNCHANGED <<items, used, rejected>>
    BY <1>3, <2>1, <2>2, PackRoleEffect
       DEF PackInv, IsList, TokensOf, RangeOf, estimate_tokens, ShownOf
  <2>3. CASE \E p \in DOMAIN listing : render_item(listing[p])
    BY <1>3, <2>1, <2>3, PackRoleEffect, RenderKeepsPackInv
  <2> QED
    BY <1>3, <2>2, <2>3, PackRoleEffect
<1>4. CASE PackFill
  <2>1. Packing /\ Packing' /\ request.budget \in Nat
    BY <1>4, PackFillEffect, BudgetIsGiven DEF Packing
  <2>2. CASE UNCHANGED <<items, used, rejected>>
    BY <1>4, <2>1, <2>2, PackFillEffect
       DEF PackInv, IsList, TokensOf, RangeOf, estimate_tokens, ShownOf
  <2>3. CASE render_item(listing[at])
    <3>1. at \in DOMAIN listing
      <4>1. phase = "fill" /\ phase # "search" /\ at <= Len(listing)
        BY <1>4, PackFillEffect
      <4>2. IsList(listing) /\ at \in 1..(Len(listing) + 1)
        BY <2>1, <4>1 DEF ListingInv, ReasonInv
      <4> QED
        BY <4>1, <4>2, ListShape
    <3> QED
      BY <1>4, <2>1, <2>3, <3>1, PackFillEffect, RenderKeepsPackInv
  <2> QED
    BY <1>4, <2>2, <2>3, PackFillEffect
<1>5. CASE Packing' /\ (StartLinks \/ LinkSubject \/ InsertSubject)
  BY <1>5 DEF Packing, StartLinks, LinkSubject, InsertSubject
<1>6. CASE StartFill \/ FinishPack
  <2>1. Packing /\ UNCHANGED <<listing, items, used, request>>
    BY <1>6 DEF StartFill, FinishPack, Packing, searchVars
  <2> QED
    BY <2>1 DEF PackInv, IsList, TokensOf, RangeOf, estimate_tokens, ShownOf
<1>7. CASE UNCHANGED packVars
  <2>1. UNCHANGED <<phase, listing, items, used, request>>
    BY <1>7, RequestIsGiven DEF packVars
  <2> QED
    BY <2>1 DEF PackInv, IsList, TokensOf, RangeOf, estimate_tokens, ShownOf, Packing
<1> QED
  BY <1>1, <1>2, <1>3, <1>4, <1>5, <1>6, <1>7, StepOfCall DEF PackStep

\* What a rendered entry does to the pack: it only grows.
LEMMA RenderGrows ==
    ASSUME PackInv, Packing, NEW hit, render_item(hit), request' = request,
           request.budget \in Nat
    PROVE  /\ DOMAIN items \subseteq DOMAIN items' /\ used \in Nat /\ used' \in Nat /\ used <= used'
           /\ \A i \in DOMAIN items : items'[i] = items[i]
           /\ TakenKeys \subseteq TakenKeys' /\ DOMAIN rejected \subseteq DOMAIN rejected'
           /\ hit.key \in TakenKeys' \cup DOMAIN rejected'
<1>1. IsList(items) /\ used \in Nat /\ estimate_tokens(hit) \in Nat
  BY EstimateType DEF PackInv
<1>2. CASE /\ Rejection(hit) = "none" /\ rejected' = rejected
           /\ items' = Append(items, hit) /\ used' = used + estimate_tokens(hit)
  <2>1. /\ DOMAIN items' = DOMAIN items \cup {Len(items) + 1}
        /\ \A i \in DOMAIN items : items'[i] = items[i]
        /\ items'[Len(items) + 1] = hit
    BY <1>1, <1>2, ListAppend
  <2>2. TakenKeys \subseteq TakenKeys'
    BY <2>1 DEF TakenKeys
  <2>3. hit.key \in TakenKeys'
    BY <2>1 DEF TakenKeys
  <2> QED
    BY <1>1, <1>2, <2>1, <2>2, <2>3
<1>3. CASE UNCHANGED <<items, used>> /\ DOMAIN rejected' = DOMAIN rejected \cup {hit.key}
  BY <1>1, <1>3 DEF TakenKeys
<1> QED
  BY <1>2, <1>3, RenderEffect

\* A refusal stands while the pack grows.
LEMMA RefusalStands ==
    ASSUME IsList(items), IsList(items'), DOMAIN items \subseteq DOMAIN items',
           \A i \in DOMAIN items : items'[i] = items[i],
           used \in Nat, used' \in Nat, used <= used', request' = request, request.budget \in Nat,
           NEW hit, Refused(hit)
    PROVE  \/ hit.path # None /\ \E i \in DOMAIN items' : RangeOf(items'[i]) = RangeOf(hit)
           \/ hit.path # None /\ Cardinality(ShownOf(hit.path)') >= FileCapMax
           \/ hit.path = None /\ \E i \in DOMAIN items' : items'[i].entity = hit.entity
           \/ estimate_tokens(hit) > request'.budget - used'
<1>1. CASE Cardinality(ShownOf(hit.path)) >= FileCapMax
  <2>1. IsFiniteSet(DOMAIN items')
    BY ListShape, FS_Interval
  <2>2. ShownOf(hit.path) \subseteq ShownOf(hit.path)' /\ ShownOf(hit.path)' \subseteq DOMAIN items'
    BY DEF ShownOf
  <2>3. IsFiniteSet(ShownOf(hit.path)')
    BY <2>1, <2>2, FS_Subset
  <2>4. Cardinality(ShownOf(hit.path)) <= Cardinality(ShownOf(hit.path)')
    BY <2>2, <2>3, FS_Subset
  <2>5. Cardinality(ShownOf(hit.path)) \in Nat /\ Cardinality(ShownOf(hit.path)') \in Nat
    BY <2>3, ShownIsFinite, FS_CardinalityType
  <2>6. FileCapMax \in Nat
    BY PackAssumption
  <2>7. Cardinality(ShownOf(hit.path)') >= FileCapMax
    BY <1>1, <2>4, <2>5, <2>6
  <2> QED
    BY <2>7, EstimateType DEF Refused
<1>2. CASE estimate_tokens(hit) > request.budget - used
  BY <1>2, EstimateType
<1> QED
  BY <1>1, <1>2 DEF Refused

\* Rendering an entry keeps the reasons true.
LEMMA RenderKeepsReasons ==
    ASSUME PackInv, Packing, PackInv', Packing', Reasons, KeysDiffer(listing),
           NEW p \in DOMAIN listing, render_item(listing[p]),
           listing' = listing, request' = request, request.budget \in Nat
    PROVE  Reasons'
<1> DEFINE hit == listing[p]
<1>1. /\ DOMAIN items \subseteq DOMAIN items' /\ used \in Nat /\ used' \in Nat /\ used <= used'
      /\ \A i \in DOMAIN items : items'[i] = items[i]
  BY RenderGrows
<1>2. IsList(items) /\ IsList(items')
  BY DEF PackInv, IsList
<1>3. ASSUME NEW h, Refused(h)
      PROVE  \/ h.path # None /\ \E i \in DOMAIN items' : RangeOf(items'[i]) = RangeOf(h)
             \/ h.path # None /\ Cardinality(ShownOf(h.path)') >= FileCapMax
             \/ h.path = None /\ \E i \in DOMAIN items' : items'[i].entity = h.entity
             \/ estimate_tokens(h) > request'.budget - used'
  BY <1>1, <1>2, <1>3, RefusalStands
<1>4. /\ DOMAIN rejected' \subseteq DOMAIN rejected \cup {hit.key}
      /\ hit.key \in DOMAIN rejected' \ DOMAIN rejected => Refused(hit)
      /\ \A k \in DOMAIN rejected \cap DOMAIN rejected' :
            rejected'[k] = rejected[k] \/ (k = hit.key /\ Refused(hit))
      /\ hit.key \in DOMAIN rejected' /\ rejected'[hit.key] = "Budget" =>
            \/ hit.key \in DOMAIN rejected /\ rejected[hit.key] = "Budget"
            \/ estimate_tokens(hit) > request.budget - used
  BY RenderEffect, ReasonsAreRefusals
<1>5. DOMAIN rejected' \subseteq KeysOf(listing)
  BY <1>4 DEF Reasons, KeysOf
<1>6. ASSUME NEW i \in DOMAIN listing, listing[i].key \in DOMAIN rejected'
      PROVE  /\ Refused(listing[i])
             /\ rejected'[listing[i].key] = "Budget" =>
                   estimate_tokens(listing[i]) > request'.budget - used'
  <2>1. Refused(listing[i])
    BY <1>4, <1>6 DEF Reasons, KeysDiffer
  <2>2. ASSUME rejected'[listing[i].key] = "Budget"
        PROVE  estimate_tokens(listing[i]) > request.budget - used
    <3>1. CASE listing[i].key = hit.key
      <4>1. i = p
        BY <3>1 DEF KeysDiffer
      <4> QED
        BY <1>4, <1>6, <2>2, <4>1 DEF Reasons
    <3>2. CASE listing[i].key # hit.key
      BY <1>4, <1>6, <2>2, <3>2 DEF Reasons
    <3> QED
      BY <3>1, <3>2
  <2> QED
    BY <1>1, <2>1, <2>2, EstimateType
<1>7. ASSUME NEW i \in DOMAIN listing, Refused(listing[i])
      PROVE  Refused(listing[i])'
  BY <1>3, <1>7 DEF Refused, RangeOf, ShownOf, estimate_tokens
<1> QED
  BY <1>5, <1>6, <1>7 DEF Reasons, KeysOf, estimate_tokens

\* Every step keeps the reasons: an entry that was passed is in the pack or
\* named among the rejected, for a reason that is still true.
LEMMA NextKeepsReasonInv ==
    ASSUME PhaseInv, ListingInv, PackInv, PackInv', ReasonInv, request \in Requests, [Next]_vars
    PROVE  ReasonInv'
<1>1. CASE ~Packing'
  BY <1>1 DEF ReasonInv
<1>2. CASE StartPack
  <2>1. /\ rejected' = <<>> /\ at' = 1 /\ phase' = "roles"
    BY <1>2 DEF StartPack, PhaseInv
  <2>2. DOMAIN rejected' = {}
    BY <2>1
  <2> QED
    BY <2>1, <2>2 DEF ReasonInv, Reasons
<1>3. CASE PackRole
  <2>1. /\ Packing /\ Packing' /\ request.budget \in Nat /\ KeysDiffer(listing)
        /\ phase = "roles" /\ phase' = phase /\ Reasons /\ at \in Nat /\ at' = at + 1
        /\ UNCHANGED <<listing, request>>
    BY <1>3, PackRoleEffect, BudgetIsGiven DEF Packing, ListingInv, ReasonInv
  <2>2. CASE UNCHANGED <<items, used, rejected>>
    <3>1. Reasons'
      BY <2>1, <2>2 DEF Reasons, KeysOf, Refused, ShownOf
    <3> QED
      BY <2>1, <3>1 DEF ReasonInv
  <2>3. CASE \E p \in DOMAIN listing : render_item(listing[p])
    <3>1. Reasons'
      BY <2>1, <2>3, RenderKeepsReasons
    <3> QED
      BY <2>1, <3>1 DEF ReasonInv
  <2> QED
    BY <1>3, <2>2, <2>3, PackRoleEffect
<1>4. CASE PackFill
  <2>1. /\ Packing /\ Packing' /\ request.budget \in Nat /\ KeysDiffer(listing)
        /\ phase = "fill" /\ phase' = phase /\ at' = at + 1
        /\ UNCHANGED <<listing, request>> /\ IsList(listing) /\ at <= Len(listing)
    BY <1>4, PackFillEffect, BudgetIsGiven DEF Packing, ListingInv
  <2>2. /\ Reasons /\ at \in Nat /\ at \in 1..(Len(listing) + 1)
        /\ \A i \in DOMAIN listing : i < at => listing[i].key \in TakenKeys \cup DOMAIN rejected
    BY <2>1 DEF ReasonInv
  <2>3. at \in DOMAIN listing /\ at' \in 1..(Len(listing) + 1) /\ at' \in Nat
        /\ \A i \in DOMAIN listing : i < at' => i < at \/ i = at
    BY <2>1, <2>2, ListShape
  <2>4. /\ Reasons'
        /\ TakenKeys \subseteq TakenKeys' /\ DOMAIN rejected \subseteq DOMAIN rejected'
        /\ listing[at].key \in TakenKeys' \cup DOMAIN rejected'
    <3>1. CASE listing[at].key \in TakenKeys /\ UNCHANGED <<items, used, rejected>>
      BY <2>1, <2>2, <3>1 DEF Reasons, KeysOf, Refused, ShownOf, TakenKeys
    <3>2. CASE render_item(listing[at])
      <4>1. Reasons'
        BY <2>1, <2>2, <2>3, <3>2, RenderKeepsReasons
      <4> QED
        BY <2>1, <3>2, <4>1, RenderGrows
    <3> QED
      BY <1>4, <3>1, <3>2, PackFillEffect
  <2>5. \A i \in DOMAIN listing' : i < at' => listing'[i].key \in TakenKeys' \cup DOMAIN rejected'
    BY <2>1, <2>2, <2>3, <2>4
  <2> QED
    BY <2>1, <2>3, <2>4, <2>5 DEF ReasonInv
<1>5. CASE Packing' /\ (StartLinks \/ LinkSubject \/ InsertSubject)
  BY <1>5 DEF Packing, StartLinks, LinkSubject, InsertSubject
<1>6. CASE StartFill \/ FinishPack
  <2>1. Packing /\ UNCHANGED <<listing, items, used, rejected, request>> /\ IsList(listing)
    BY <1>6 DEF StartFill, FinishPack, Packing, searchVars, ListingInv
  <2>2. Reasons' /\ TakenKeys' = TakenKeys
    BY <2>1 DEF ReasonInv, Reasons, KeysOf, Refused, ShownOf, TakenKeys
  <2>3. CASE StartFill
    <3>1. at' = 1 /\ phase' = "fill" /\ Len(listing) \in Nat /\ DOMAIN listing = 1..Len(listing)
      BY <2>1, <2>3, ListShape DEF StartFill
    <3> QED
      BY <2>1, <2>2, <3>1 DEF ReasonInv
  <2>4. CASE FinishPack
    <3>1. /\ at' = at /\ phase = "fill" /\ phase' = "packed" /\ at > Len(listing)
          /\ Len(listing) \in Nat /\ DOMAIN listing = 1..Len(listing)
      BY <2>1, <2>4, ListShape DEF FinishPack
    <3> QED
      BY <2>1, <2>2, <3>1 DEF ReasonInv
  <2> QED
    BY <1>6, <2>3, <2>4
<1>7. CASE UNCHANGED packVars
  <2>1. UNCHANGED <<phase, listing, items, used, rejected, at, request>>
    BY <1>7, RequestIsGiven DEF packVars
  <2>2. Packing' = Packing /\ TakenKeys' = TakenKeys
    BY <2>1 DEF Packing, TakenKeys
  <2>3. Reasons => Reasons'
    BY <2>1 DEF Reasons, KeysOf, Refused, ShownOf
  <2>4. CASE Packing
    <3>1. /\ Reasons /\ at \in Nat
          /\ phase = "fill" => at \in 1..(Len(listing) + 1)
          /\ \A i \in DOMAIN listing :
                phase = "packed" \/ (phase = "fill" /\ i < at) =>
                    listing[i].key \in TakenKeys \cup DOMAIN rejected
      BY <2>4 DEF ReasonInv
    <3> QED
      BY <2>1, <2>2, <2>3, <3>1 DEF ReasonInv
  <2> QED
    BY <1>1, <2>2, <2>4
<1> QED
  BY <1>1, <1>2, <1>3, <1>4, <1>5, <1>6, <1>7, StepOfCall DEF PackStep

\* The invariant of the pack: it needs the listing's, because a key must name
\* one entry for a reason to be that entry's.
PackInvs == request \in Requests /\ ListingInvs /\ PackInv /\ ReasonInv

\* The pack invariant holds in every state: the account and the reasons of
\* what context.rs packs, over the listing it packs from.
THEOREM PackInvariant == Spec => []PackInvs
<1>1. Init => request \in Requests /\ PackInv /\ ReasonInv
  BY DEF Init, SearchInit, PackInv, ReasonInv, Packing
<1>2. ListingInvs /\ request \in Requests /\ PackInv /\ ReasonInv /\ [Next]_vars
      => (request \in Requests /\ PackInv /\ ReasonInv)'
  BY RequestIsGiven, NextKeepsPackInv, NextKeepsReasonInv DEF ListingInvs
<1> QED
  BY <1>1, <1>2, ListingInvariant, PTL DEF Spec, PackInvs

\* The pack spends what it says within the budget, repeats no range and keeps
\* the limit per file (PackIsBounded).
THEOREM PackStaysInBounds == Spec => []PackIsBounded
<1>1. ASSUME PackInvs PROVE PackIsBounded
  <2>1. CASE Packing
    <3>1. PackInv /\ phase \notin {"search", "link"}
      BY <1>1, <2>1 DEF PackInvs, Packing
    <3>2. \A i \in DOMAIN items : items[i].path # None =>
             Cardinality(ShownOf(items[i].path)) <= FileCapMax
      BY <2>1, <3>1 DEF PackInv
    <3>3. \E orientation \in {0, OrientationSize} :
             used = (IF phase \in {"search", "link"} THEN 0 ELSE orientation)
                    + Cardinality(TokensOf(items))
      BY <2>1, <3>1 DEF PackInv
    <3> QED
      BY <2>1, <3>1, <3>2, <3>3 DEF PackInv, PackIsBounded
  <2>2. CASE ~Packing
    <3>1. phase \in {"search", "link"} /\ items = <<>> /\ used = 0
      BY <1>1, <2>2 DEF PackInvs, ListingInvs, PhaseInv, Packing
    <3>2. DOMAIN items = {} /\ Cardinality(TokensOf(items)) = 0
      BY <3>1, EmptyPack
    <3>3. request.budget # NoBudget => request.budget \in Nat
      BY <1>1, PackAssumption DEF PackInvs
    <3>4. used = (IF phase \in {"search", "link"} THEN 0 ELSE 0) + Cardinality(TokensOf(items))
      BY <3>1, <3>2
    <3> QED
      BY <3>1, <3>2, <3>3, <3>4 DEF PackIsBounded
  <2> QED
    BY <2>1, <2>2
<1> QED
  BY <1>1, PackInvariant, PTL

\* Every entry of the listing shipped or is omitted for a reason that holds
\* of the finished pack (OmissionsAreTrue).
THEOREM OmissionsHold == Spec => []OmissionsAreTrue
<1>1. ASSUME PackInvs, phase = "packed"
      PROVE  KeysOf(listing) = TakenKeys \cup {o[1] : o \in delivery_report.omitted}
  <2> DEFINE shipped == {listing[i] : i \in {j \in DOMAIN listing : listing[j].key \in TakenKeys}}
             left == {listing[i] : i \in DOMAIN listing} \ shipped
             omitted == {<<h.key, At(rejected, h.key, "Budget")>> : h \in left}
  <2>1. delivery_report.omitted = omitted
    BY Zenon DEF delivery_report
  <2>2. {o[1] : o \in omitted} = {h.key : h \in left}
    <3> HIDE DEF left
    <3>1. \A h \in left : <<h.key, At(rejected, h.key, "Budget")>>[1] = h.key
      OBVIOUS
    <3> QED
      BY <3>1
  <2>3. TakenKeys \subseteq KeysOf(listing)
    BY <1>1 DEF PackInvs, PackInv, Packing, TakenKeys, KeysOf
  <2>4. \A h \in left : h.key \in KeysOf(listing)
    BY DEF KeysOf
  <2>5. ASSUME NEW i \in DOMAIN listing, listing[i].key \notin TakenKeys
        PROVE  listing[i].key \in {h.key : h \in left}
    <3>1. listing[i] \in left
      BY <2>5
    <3> HIDE DEF left
    <3> QED
      BY <3>1
  <2> HIDE DEF left, omitted
  <2> QED
    BY <2>1, <2>2, <2>3, <2>4, <2>5 DEF KeysOf
<1>2. ASSUME PackInvs, phase = "packed", NEW i \in DOMAIN listing, listing[i].key \notin TakenKeys
      PROVE  /\ listing[i].key \in DOMAIN rejected
             /\ Rejection(listing[i]) # "none"
             /\ rejected[listing[i].key] = "Budget" =>
                   estimate_tokens(listing[i]) > request.budget - used
  BY <1>2, ReasonsAreRefusals DEF PackInvs, ReasonInv, Reasons, Packing
<1>3. PackInvs => OmissionsAreTrue
  BY <1>1, <1>2 DEF OmissionsAreTrue
<1> QED
  BY <1>3, PackInvariant, PTL

\* The stages, and the components of the snapshot that are left to read.
StageInv ==
    /\ request \in Requests /\ env \in Environments /\ manifest \in Manifests
    /\ live \subseteq {"fts", "rows", "objects"} /\ stage \in Stages

\* Every step keeps the request, the environment and the store in their sets.
LEMMA NextKeepsStageInv == ASSUME StageInv, [Next]_vars PROVE StageInv'
<1>1. request' = request /\ env' = env /\ manifest' = manifest
  BY RequestIsGiven
<1>2. live' \subseteq live
  <2>1. ASSUME SearchStep PROVE live' = live
    <3>1. CASE Rerank
      BY <3>1, RerankEffect
    <3>2. CASE Quiet \/ ResolveIndex \/ StrictGate \/ RankCandidates \/ SelectHit \/ Report
      BY <3>2, Zenon DEF Quiet, ResolveIndex, StrictGate, Route, RankCandidates, SelectHit, Report
    <3>3. CASE LiteralGate \/ DefinitionGate \/ RelationGate \/ HistoryGate
      BY <3>3, Zenon DEF LiteralGate, DefinitionGate, RelationGate, HistoryGate, Gate
    <3> QED
      BY <2>1, <3>1, <3>2, <3>3, SearchSteps
  <2>2. CASE Prune
    BY <2>2 DEF Prune
  <2> QED
    BY <2>1, <2>2, StepOfSearch DEF searchVars
<1>3. stage' \in Stages
  <2>1. ASSUME SearchStep
        PROVE  stage' \in RouteStages \cup {"strict", "failed", "done", "literal", "definition",
                                            "relation", "history", "rank", "select", "report"}
    <3>1. CASE Rerank
      BY <3>1, RerankEffect
    <3>2. CASE Quiet
      BY <3>2 DEF Quiet
    <3>3. CASE LiteralGate \/ DefinitionGate \/ RelationGate \/ HistoryGate
      <4>1. stage' \in {"done", "definition", "relation", "history", "exact"}
        BY <3>3 DEF LiteralGate, DefinitionGate, RelationGate, HistoryGate, Gate,
           abstain_result, Goto
      <4> QED
        BY <4>1 DEF RouteStages
    <3>4. CASE ResolveIndex
      <4>1. stage' = "literal" \/ stage' = "failed"
        BY <3>4, Zenon DEF ResolveIndex, Goto, Fail
      <4> QED
        BY <4>1
    <3>5. CASE StrictGate \/ RankCandidates \/ SelectHit \/ Report
      <4>1. stage' \in {"rank", "select", "done"}
        BY <3>5, Zenon DEF StrictGate, Route, RankCandidates, SelectHit, Report, Goto
      <4> QED
        BY <4>1
    <3> QED
      BY <2>1, <3>1, <3>2, <3>3, <3>4, <3>5, SearchSteps
  <2>2. CASE SearchStep
    BY <2>1, <2>2 DEF RouteStages, Stages
  <2> QED
    BY <2>2, StepOfSearch DEF StageInv, Prune, searchVars
<1> QED
  BY <1>1, <1>2, <1>3 DEF StageInv

\* Stages and phases are known ones, and the three lists hold candidates of
\* the search or subjects it linked (TypeOK).
THEOREM CallsAreTyped == Spec => []TypeOK
<1>1. Init => StageInv
  BY DEF Init, SearchInit, StageInv, Stages
<1>2. StageInv /\ [Next]_vars => StageInv'
  BY NextKeepsStageInv
<1>3. ASSUME StageInv, ListInv, PackInvs PROVE TypeOK
  <2>1. PhaseInv /\ LinkInv /\ ListingInv /\ PackInv /\ ReasonInv
    BY <1>3 DEF PackInvs, ListingInvs
  <2>2. sources \subseteq DOMAIN hits
    BY <2>1 DEF PhaseInv, LinkInv, Packing
  <2>3. KeysOf(hits) \subseteq DOMAIN cands
    BY <1>3 DEF ListInv, Listed, KeysOf
  <2>4. KeysOf(listing) \subseteq KeysOf(hits) \cup {SubjectKey(e) : e \in Entities}
    <3> SUFFICES ASSUME NEW p \in DOMAIN listing
                 PROVE  listing[p].key \in KeysOf(hits) \cup {SubjectKey(e) : e \in Entities}
      BY DEF KeysOf
    <3>1. CASE phase = "search"
      BY <2>1, <3>1 DEF PhaseInv
    <3>2. CASE phase # "search" /\ IsSubject(listing[p])
      BY <2>1, <3>2 DEF ListingInv, SubjectAt
    <3>3. CASE phase # "search" /\ ~IsSubject(listing[p])
      <4>1. \E i \in DOMAIN hits : listing[p] = hits[i]
        BY <2>1, <3>3 DEF ListingInv, HitsInOrder
      <4> QED
        BY <4>1 DEF KeysOf
    <3> QED
      BY <3>1, <3>2, <3>3
  <2>5. /\ KeysOf(items) \subseteq KeysOf(listing) /\ DOMAIN rejected \subseteq KeysOf(listing)
        /\ used \in Nat
    <3>1. CASE Packing
      BY <2>1, <3>1 DEF PackInv, ReasonInv, Reasons, KeysOf
    <3>2. CASE ~Packing
      <4>1. items = <<>> /\ used = 0 /\ rejected = <<>>
        BY <2>1, <3>2 DEF PhaseInv, Packing
      <4> QED
        BY <4>1 DEF KeysOf
    <3> QED
      BY <3>1, <3>2
  <2> QED
    BY <1>3, <2>1, <2>2, <2>3, <2>4, <2>5 DEF StageInv, PhaseInv, TypeOK
<1> QED
  BY <1>1, <1>2, <1>3, ListInvariant, PackInvariant, PTL DEF Spec
=============================================================================
