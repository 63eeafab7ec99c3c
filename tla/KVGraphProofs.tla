--------------------------- MODULE KVGraphProofs ---------------------------
(***************************************************************************)
(* The targets and the sources that the graph keeps are exact, for any     *)
(* number of nodes and any definitions by key, by selector or by prefixes  *)
(* that name directories; a copy that is saved loses nothing, and no       *)
(* operation follows a link to a node that is not there.                   *)
(***************************************************************************)
EXTENDS KVGraph, EdgeLookupProofs

AllDefs == UNION Lists

LEMMA DefFields ==
    ASSUME NEW d \in AllDefs
    PROVE  /\ d.label \in Labels /\ d.label \in Nat /\ d.key \in Paths
           /\ d.prefixes \in Seq([path : Paths, slash : BOOLEAN])
           /\ Len(d.prefixes) \in Nat /\ DOMAIN d.prefixes = 1..Len(d.prefixes)
           /\ \A i \in DOMAIN d.prefixes :
                 /\ d.prefixes[i] \in [path : Paths, slash : BOOLEAN]
                 /\ d.prefixes[i].path \in Paths
<1>1. PICK defs \in Lists : d \in defs
  BY DEF AllDefs
<1>2. d.label \in Labels /\ d.key \in Paths /\ d.prefixes \in Seq([path : Paths, slash : BOOLEAN])
  BY <1>1, GraphAssumption DEF Paths
<1>3. d.label \in Nat
  BY <1>2, GraphAssumption DEF Labels
<1>4. Len(d.prefixes) \in Nat /\ DOMAIN d.prefixes = 1..Len(d.prefixes)
  BY <1>2, LenProperties
<1>5. \A i \in DOMAIN d.prefixes : d.prefixes[i] \in [path : Paths, slash : BOOLEAN]
  BY <1>2, <1>4, ElementOfSeq
<1> QED
  BY <1>2, <1>3, <1>4, <1>5

LEMMA KeyIsPath ==
    ASSUME NEW key \in Keys
    PROVE  key \in Paths /\ key # <<>>
BY GraphAssumption DEF Paths, NoKey

-----------------------------------------------------------------------------
(* The edges of a definition *)

edgeSet(source, d) == {edgesOf(source, d)[i] : i \in DOMAIN edgesOf(source, d)}

\* the edges of a source with a label
OwnEdges(source, label) == {e \in EdgeRecords : e.removed = FALSE /\ e.sourceNode = source /\ e.label = label}

LEMMA OwnEdge ==
    ASSUME NEW path \in Paths, NEW isPrefix \in BOOLEAN, NEW source \in Paths, NEW label \in Nat
    PROVE  Edge(path, isPrefix, source, label) \in OwnEdges(source, label)
<1> DEFINE e == Edge(path, isPrefix, source, label)
<1>1. e \in EdgeRecords /\ e.removed = FALSE /\ e.sourceNode = source /\ e.label = label
  BY DEF Edge, EdgeRecords
<1> HIDE DEF e
<1>2. e \in OwnEdges(source, label)
  BY <1>1 DEF OwnEdges
<1> QED
  BY <1>2 DEF e

LEMMA OneItem ==
    ASSUME NEW x, NEW S, x \in S, NEW s, s = <<x>>
    PROVE  {s[i] : i \in DOMAIN s} = {x} /\ s \in Seq(S)
<1>1. DOMAIN s = {1} /\ s[1] = x
  BY SMT
<1> QED
  BY <1>1

\* They carry the source and the label of the definition.
LEMMA EdgesOfDef ==
    ASSUME NEW source \in Paths, NEW d \in AllDefs
    PROVE  /\ edgesOf(source, d) \in Seq(EdgeRecords)
           /\ edgeSet(source, d) \subseteq OwnEdges(source, d.label)
<1> DEFINE es == edgesOf(source, d)
           Own == OwnEdges(source, d.label)
<1>1. es \in Seq(Own)
  <2>1. CASE d.key # NoKey
    <3>1. es = <<Edge(d.key, FALSE, source, d.label)>>
      BY <2>1 DEF edgesOf
    <3>2. Edge(d.key, FALSE, source, d.label) \in Own
      <4>1. d.key \in Paths /\ FALSE \in BOOLEAN /\ d.label \in Nat
        BY DefFields
      <4> QED
        BY <4>1, OwnEdge
    <3> QED
      BY <3>1, <3>2, OneItem
  <2>2. CASE d.key = NoKey /\ d.prefixes = <<>>
    <3>1. es = <<Edge(<<>>, TRUE, source, d.label)>>
      BY <2>2 DEF edgesOf
    <3>2. <<>> \in Paths
      BY DEF Paths
    <3>3. Edge(<<>>, TRUE, source, d.label) \in Own
      BY <3>2, DefFields, OwnEdge
    <3> QED
      BY <3>1, <3>3, OneItem
  <2>3. CASE d.key = NoKey /\ d.prefixes # <<>>
    <3>1. es = [i \in DOMAIN d.prefixes |-> Edge(d.prefixes[i].path, TRUE, source, d.label)]
      BY <2>3 DEF edgesOf
    <3>2. \A i \in DOMAIN d.prefixes : Edge(d.prefixes[i].path, TRUE, source, d.label) \in Own
      BY DefFields, OwnEdge
    <3>3. DOMAIN d.prefixes = 1..Len(d.prefixes) /\ Len(d.prefixes) \in Nat
      BY DefFields
    <3>4. es \in [1..Len(d.prefixes) -> Own]
      BY <3>1, <3>2, <3>3
    <3> QED
      BY <3>3, <3>4, FunctionIsSeq
  <2> QED
    BY <2>1, <2>2, <2>3
<1>2. es \in Seq(EdgeRecords)
  <2>1. Own \subseteq EdgeRecords
    BY DEF OwnEdges
  <2> HIDE DEF es, Own
  <2> QED
    BY <1>1, <2>1, SeqMonotonic
<1>3. \A e \in edgeSet(source, d) : e \in Own
  <2>1. \A i \in DOMAIN es : es[i] \in Own
    BY <1>1, LenProperties, ElementOfSeq
  <2> QED
    BY <2>1 DEF edgeSet
<1> QED
  BY <1>2, <1>3

\* An edge of the definition reaches a key when the definition matches it.
LEMMA EdgesReach ==
    ASSUME DirectoryPrefixes, NEW source \in Paths, NEW d \in AllDefs, NEW key \in Keys
    PROVE  (\E e \in edgeSet(source, d) : reaches(e, key)) <=> candidate(d, key)
<1>0. key \in Paths /\ key # <<>>
  BY KeyIsPath
<1>1. CASE d.key # NoKey
  <2> DEFINE e == Edge(d.key, FALSE, source, d.label)
  <2>1. edgesOf(source, d) = <<e>>
    BY <1>1 DEF edgesOf
  <2>3. e.targetKey = d.key /\ e.isPrefix = FALSE
    BY DEF Edge
  <2> HIDE DEF e
  <2>2. edgeSet(source, d) = {e}
    BY <2>1, OneItem DEF edgeSet
  <2> QED
    BY <1>1, <2>2, <2>3 DEF reaches, candidate
<1>2. CASE d.key = NoKey /\ d.prefixes = <<>>
  <2> DEFINE e == Edge(<<>>, TRUE, source, d.label)
  <2>1. edgesOf(source, d) = <<e>>
    BY <1>2 DEF edgesOf
  <2>3. e.targetKey = <<>> /\ e.isPrefix = TRUE
    BY DEF Edge
  <2>4. IsStrictPrefix(<<>>, key)
    <3>1. <<>> \in Paths /\ Len(<<>>) = 0 /\ Len(key) \in Nat
      BY <1>0 DEF Paths
    <3>2. Len(key) # 0
      BY <1>0, EmptySeq DEF Paths
    <3>3. Len(<<>>) < Len(key) /\ \A j \in 1..Len(<<>>) : <<>>[j] = key[j]
      BY <3>1, <3>2
    <3> QED
      BY <1>0, <3>1, <3>3, StrictPrefix
  <2> HIDE DEF e
  <2>2. edgeSet(source, d) = {e}
    BY <2>1, OneItem DEF edgeSet
  <2> QED
    BY <1>2, <2>2, <2>3, <2>4 DEF reaches, candidate
<1>3. CASE d.key = NoKey /\ d.prefixes # <<>>
  <2> DEFINE at(i) == Edge(d.prefixes[i].path, TRUE, source, d.label)
  <2>1. edgesOf(source, d) = [i \in DOMAIN d.prefixes |-> at(i)]
    BY <1>3 DEF edgesOf
  <2>2. edgeSet(source, d) = {at(i) : i \in DOMAIN d.prefixes}
    BY <2>1 DEF edgeSet
  <2>3. \A i \in DOMAIN d.prefixes : at(i).targetKey = d.prefixes[i].path /\ at(i).isPrefix = TRUE
    BY DEF Edge
  <2> HIDE DEF at
  <2>4. \A i \in DOMAIN d.prefixes : d.prefixes[i].slash /\
            (d.prefixes[i].path \in Keys => candidate(d, d.prefixes[i].path))
    <3>1. PICK defs \in Lists : d \in defs
      BY DEF AllDefs
    <3> QED
      BY <1>3, <3>1 DEF DirectoryPrefixes
  <2>5. \A i \in DOMAIN d.prefixes : HasPrefix(key, d.prefixes[i]) <=> IsStrictPrefix(d.prefixes[i].path, key)
    BY <2>4 DEF HasPrefix
  <2>6. candidate(d, key) <=> \E i \in DOMAIN d.prefixes : IsStrictPrefix(d.prefixes[i].path, key)
    BY <1>3, <2>5 DEF candidate
  <2>7. (\E e \in edgeSet(source, d) : reaches(e, key)) <=>
            \E i \in DOMAIN d.prefixes : \/ d.prefixes[i].path = key
                                         \/ IsStrictPrefix(d.prefixes[i].path, key)
    BY <2>2, <2>3 DEF reaches
  <2> QED
    BY <2>4, <2>6, <2>7
<1> QED
  BY <1>1, <1>2, <1>3

\* f is the edge lookup after each of the first n callbacks of addDelEdges
Callbacks(f, el, es, del, n) ==
    f = [i \in 0..n |->
            IF i = 0 THEN el ELSE IF del THEN delEdge(f[i - 1], es[i]) ELSE addEdge(f[i - 1], es[i])]

LEMMA CallbacksExist ==
    ASSUME NEW el, NEW es, NEW del, NEW N \in Nat
    PROVE  \E f : Callbacks(f, el, es, del, N)
<1> DEFINE step(a, i) == IF del THEN delEdge(a, es[i]) ELSE addEdge(a, es[i])
           T == {n \in Nat : ~\E f : Callbacks(f, el, es, del, n)}
<1> SUFFICES ASSUME T # {} PROVE FALSE
  OBVIOUS
<1>0. \A f, n : Callbacks(f, el, es, del, n) <=> f = [i \in 0..n |-> IF i = 0 THEN el ELSE step(f[i - 1], i)]
  BY DEF Callbacks
<1>1. PICK n \in T : \A m \in T : n <= m
  <2>1. T \in SUBSET Nat
    OBVIOUS
  <2> HIDE DEF T
  <2> QED
    BY <2>1, Least
<1>2. n \in Nat /\ ~\E f : Callbacks(f, el, es, del, n)
  BY <1>1
<1> HIDE DEF step
<1>3. CASE n = 0
  <2> DEFINE h == [i \in 0..0 |-> el]
  <2>1. h = [i \in 0..0 |-> IF i = 0 THEN el ELSE step(h[i - 1], i)]
    OBVIOUS
  <2> QED
    BY <1>0, <1>2, <1>3, <2>1
<1>4. CASE n # 0
  <2>1. n - 1 \in Nat /\ ~(n <= n - 1)
    BY <1>2, <1>4
  <2>2. PICK f : Callbacks(f, el, es, del, n - 1)
    BY <1>1, <2>1
  <2>3. f = [i \in 0..(n - 1) |-> IF i = 0 THEN el ELSE step(f[i - 1], i)]
    BY <1>0, <2>2
  <2> DEFINE h == [i \in 0..n |-> IF i = n THEN step(f[n - 1], n) ELSE f[i]]
  <2>4. \A i \in 0..n : h[i] = IF i = 0 THEN el ELSE step(h[i - 1], i)
    <3> TAKE i \in 0..n
    <3>1. CASE i = n
      <4>1. n - 1 \in 0..n /\ n - 1 # n
        BY <1>2, <2>1
      <4>2. h[n] = step(f[n - 1], n) /\ h[n - 1] = f[n - 1]
        BY <1>2, <4>1
      <4> QED
        BY <1>4, <3>1, <4>2
    <3>2. CASE i = 0
      <4>1. 0 \in 0..(n - 1) /\ f[0] = el
        BY <2>1, <2>3
      <4> QED
        BY <1>4, <3>2, <4>1
    <3>3. CASE i # n /\ i # 0
      <4>1. i \in 0..(n - 1) /\ i - 1 \in 0..n /\ i - 1 # n /\ i \in 0..n
        BY <1>2, <3>3
      <4>2. f[i] = step(f[i - 1], i)
        BY <2>3, <3>3, <4>1
      <4>3. h[i] = f[i] /\ h[i - 1] = f[i - 1]
        BY <3>3, <4>1
      <4> QED
        BY <3>3, <4>2, <4>3
    <3> QED
      BY <3>1, <3>2, <3>3
  <2>5. h = [i \in 0..n |-> h[i]]
    OBVIOUS
  <2> HIDE DEF h
  <2>6. h = [i \in 0..n |-> IF i = 0 THEN el ELSE step(h[i - 1], i)]
    BY <2>4, <2>5
  <2> QED
    BY <1>0, <1>2, <2>6
<1> QED
  BY <1>3, <1>4

LEMMA EdgeStepSame ==
    ASSUME NEW el, Sound(el)
    PROVE  EdgeStep(el, el, LiveEdges(el))
BY DEF EdgeStep, SameKeys

LEMMA EdgeStepTrans ==
    ASSUME NEW el, NEW el1, NEW el2, NEW E1, NEW E2, EdgeStep(el1, el, E1), EdgeStep(el2, el1, E2)
    PROVE  EdgeStep(el2, el, E2)
BY DEF EdgeStep, SameKeys

\* the edges of the lookup after those of new were deleted or added
edgesAfter(old, new, del) == IF del THEN old \ new ELSE old \cup new

LEMMA AddDelEdges ==
    ASSUME NEW el, Sound(el), NEW es \in Seq(EdgeRecords), NEW del \in BOOLEAN,
           \A e \in Range(es) : e.removed = FALSE
    PROVE  EdgeStep(addDelEdges(el, es, del), el, edgesAfter(LiveEdges(el), Range(es), del))
<1> DEFINE N == Len(es)
           E == LiveEdges(el)
           upto(i) == {es[j] : j \in 1..i}
           f == CHOOSE f : Callbacks(f, el, es, del, N)
           good(i) == EdgeStep(f[i], el, edgesAfter(E, upto(i), del))
           T == {i \in 0..N : ~good(i)}
<1>1. N \in Nat /\ DOMAIN es = 1..N /\ \A i \in 1..N : es[i] \in EdgeRecords /\ es[i] \in Range(es)
  BY LenProperties, ElementOfSeq DEF Range
<1>2. Callbacks(f, el, es, del, N)
  <2> HIDE DEF N
  <2> QED
    BY <1>1, CallbacksExist
<1>3. addDelEdges(el, es, del) = f[N]
  BY DEF addDelEdges, Callbacks
<1>4. upto(N) = Range(es) /\ upto(0) = {}
  BY <1>1 DEF Range
<1> HIDE DEF f, N, E
<1>5. f[0] = el /\ \A i \in 1..N : f[i] = IF del THEN delEdge(f[i - 1], es[i]) ELSE addEdge(f[i - 1], es[i])
  <2>1. 0 \in 0..N /\ \A i \in 1..N : i \in 0..N /\ i # 0
    BY <1>1
  <2> QED
    BY <1>2, <2>1 DEF Callbacks
<1>6. ASSUME T # {} PROVE FALSE
  <2>1. T \in SUBSET Nat
    BY <1>1
  <2> HIDE DEF T
  <2>2. PICK i \in T : \A m \in T : i <= m
    BY <1>6, <2>1, Least
  <2>3. i \in 0..N /\ ~good(i)
    BY <2>2 DEF T
  <2>4. CASE i = 0
    <3>1. edgesAfter(E, upto(0), del) = E
      BY <1>4 DEF edgesAfter
    <3> QED
      BY <1>5, <2>3, <2>4, <3>1, EdgeStepSame DEF E
  <2>5. CASE i # 0
    <3>1. i \in 1..N /\ i - 1 \in 0..N /\ ~(i <= i - 1)
      BY <1>1, <2>3, <2>5
    <3>2. good(i - 1)
      BY <2>2, <3>1 DEF T
    <3>3. es[i] \in EdgeRecords /\ es[i].removed = FALSE /\ Sound(f[i - 1])
      BY <1>1, <3>1, <3>2 DEF EdgeStep
    <3>4. upto(i) = upto(i - 1) \cup {es[i]}
      <4>1. 1..i = 1..(i - 1) \cup {i}
        BY <1>1, <3>1
      <4> QED
        BY <4>1
    <3>5. LiveEdges(f[i - 1]) = edgesAfter(E, upto(i - 1), del)
      BY <3>2 DEF EdgeStep
    <3> HIDE DEF upto
    <3>6. EdgeStep(f[i], f[i - 1], edgesAfter(LiveEdges(f[i - 1]), {es[i]}, del))
      BY <1>5, <3>1, <3>3, DelEdge, AddEdge DEF edgesAfter
    <3>7. edgesAfter(LiveEdges(f[i - 1]), {es[i]}, del) = edgesAfter(E, upto(i), del)
      BY <3>4, <3>5 DEF edgesAfter
    <3>8. EdgeStep(f[i - 1], el, edgesAfter(E, upto(i - 1), del))
      BY <3>2
    <3>9. EdgeStep(f[i], el, edgesAfter(E, upto(i), del))
      BY <3>6, <3>7, <3>8, EdgeStepTrans
    <3> QED
      BY <2>3, <3>9
  <2> QED
    BY <2>4, <2>5
<1>7. good(N)
  <2>1. N \in 0..N
    BY <1>1
  <2> QED
    BY <1>6, <2>1
<1> QED
  BY <1>3, <1>4, <1>7 DEF E

\* The edges of a definition are added, or deleted, together.
LEMMA EdgesOfDefStep ==
    ASSUME NEW el, Sound(el), NEW source \in Paths, NEW d \in AllDefs, NEW del \in BOOLEAN
    PROVE  EdgeStep(addDelEdges(el, edgesOf(source, d), del), el,
                    edgesAfter(LiveEdges(el), edgeSet(source, d), del))
<1>1. Range(edgesOf(source, d)) = edgeSet(source, d)
  BY DEF Range, edgeSet
<1>2. edgesOf(source, d) \in Seq(EdgeRecords) /\ \A e \in Range(edgesOf(source, d)) : e.removed = FALSE
  <2>1. edgeSet(source, d) \subseteq OwnEdges(source, d.label)
    BY EdgesOfDef
  <2>2. \A e \in edgeSet(source, d) : e.removed = FALSE
    BY <2>1 DEF OwnEdges
  <2> QED
    BY <1>1, <2>2, EdgesOfDef
<1> QED
  BY <1>1, <1>2, AddDelEdges

-----------------------------------------------------------------------------
(* Links between nodes *)

Links == [label : Labels, key : Keys]
Link(label, key) == [label |-> label, key |-> key]

NodeRecords ==
    [defs : Lists \cup {{}}, targets : SUBSET Links, sources : SUBSET Links, updated : BOOLEAN]
NodeMaps == UNION {[K -> NodeRecords] : K \in SUBSET Keys}
Graphs == [nodes : NodeMaps, el : Lookups, unsaved : SUBSET Keys, panic : BOOLEAN]

\* node k has key x as a target, key y as a source, with the label
target(g, k, label, x) == Link(label, x) \in g.nodes[k].targets
source(g, k, label, y) == Link(label, y) \in g.nodes[k].sources

\* a definition selects a key
wanted(d, key) == candidate(d, key) /\ selects(d, key)

LEMMA LinkFields ==
    ASSUME NEW l, NEW x
    PROVE  /\ Link(l, x).label = l /\ Link(l, x).key = x
           /\ \A m, y : Link(l, x) = Link(m, y) => l = m /\ x = y
BY DEF Link

LEMMA LinkOf ==
    ASSUME NEW t \in Links
    PROVE  t.label \in Labels /\ t.key \in Keys /\ t = Link(t.label, t.key)
BY DEF Links, Link

LEMMA LinkType ==
    ASSUME NEW l \in Labels, NEW x \in Keys
    PROVE  Link(l, x) \in Links
BY DEF Links, Link

LEMMA NodeFields ==
    ASSUME NEW g, g.nodes \in NodeMaps
    PROVE  /\ DOMAIN g.nodes \subseteq Keys
           /\ g.nodes = [k \in DOMAIN g.nodes |-> g.nodes[k]]
           /\ \A k \in DOMAIN g.nodes : g.nodes[k] \in NodeRecords
<1>1. PICK K \in SUBSET Keys : g.nodes \in [K -> NodeRecords]
  BY DEF NodeMaps
<1> QED
  BY <1>1

LEMMA NodeMapType ==
    ASSUME NEW K \in SUBSET Keys, NEW f, f \in [K -> NodeRecords]
    PROVE  f \in NodeMaps /\ DOMAIN f = K
BY DEF NodeMaps

\* The sources of a node are the nodes it is a target of, and those are there.
SourcesInv(g) ==
    \A k \in DOMAIN g.nodes, l \in Labels, y \in Keys :
        source(g, k, l, y) <=> y \in DOMAIN g.nodes /\ target(g, y, l, k)
TargetsKnown(g) ==
    \A k \in DOMAIN g.nodes, l \in Labels, x \in Keys : target(g, k, l, x) => x \in DOMAIN g.nodes

\* the same nodes with the same definitions
SameDefs(g1, g) ==
    /\ DOMAIN g1.nodes = DOMAIN g.nodes
    /\ \A k \in DOMAIN g.nodes : g1.nodes[k].defs = g.nodes[k].defs

\* what a save would copy, or what needs no copy: every change outside of X is
\* in the set of unsaved keys and marked
noted(g, k) == k \in g.unsaved /\ (k \in DOMAIN g.nodes => g.nodes[k].updated)
unchanged(g1, g, k) ==
    /\ k \in DOMAIN g1.nodes <=> k \in DOMAIN g.nodes
    /\ k \in DOMAIN g.nodes =>
         content(g1.nodes[k]) = content(g.nodes[k]) /\ (g.nodes[k].updated => g1.nodes[k].updated)
Tracks(g1, g, X) ==
    /\ g.unsaved \subseteq g1.unsaved
    /\ \A k \in Keys \ X : noted(g1, k) \/ unchanged(g1, g, k)

\* the targets of node s with label l become X, and nothing else changes
Retargeted(g1, g, s, l, X) ==
    /\ g1 \in Graphs /\ g1.panic = FALSE /\ SameDefs(g1, g) /\ SourcesInv(g1) /\ TargetsKnown(g1)
    /\ \A k \in DOMAIN g.nodes, m \in Labels, x \in Keys :
          IF k = s /\ m = l THEN target(g1, k, m, x) <=> x \in X
          ELSE target(g1, k, m, x) <=> target(g, k, m, x)
    /\ Tracks(g1, g, {s})

LEMMA TracksSame ==
    ASSUME NEW g, NEW X
    PROVE  Tracks(g, g, X)
BY DEF Tracks, unchanged

LEMMA TracksTrans ==
    ASSUME NEW g, NEW g1, NEW g2, NEW X, Tracks(g1, g, X), Tracks(g2, g1, X)
    PROVE  Tracks(g2, g, X)
<1>1. g.unsaved \subseteq g2.unsaved
  BY DEF Tracks
<1>2. ASSUME NEW k \in Keys \ X PROVE noted(g2, k) \/ unchanged(g2, g, k)
  <2>1. noted(g2, k) \/ unchanged(g2, g1, k)
    BY DEF Tracks
  <2>2. noted(g1, k) \/ unchanged(g1, g, k)
    BY DEF Tracks
  <2>3. ASSUME noted(g1, k), unchanged(g2, g1, k) PROVE noted(g2, k)
    BY <2>3 DEF noted, unchanged, Tracks
  <2>4. ASSUME unchanged(g1, g, k), unchanged(g2, g1, k) PROVE unchanged(g2, g, k)
    BY <2>4 DEF unchanged
  <2> QED
    BY <2>1, <2>2, <2>3, <2>4
<1> QED
  BY <1>1, <1>2 DEF Tracks

LEMMA RetargetedTrans ==
    ASSUME NEW g, NEW g1, NEW g2, NEW s, NEW l, NEW X, NEW Y,
           Retargeted(g1, g, s, l, X), Retargeted(g2, g1, s, l, Y)
    PROVE  Retargeted(g2, g, s, l, Y)
<1>1. SameDefs(g2, g) /\ DOMAIN g1.nodes = DOMAIN g.nodes
  BY DEF Retargeted, SameDefs
<1>2. Tracks(g2, g, {s})
  BY TracksTrans DEF Retargeted
<1>3. \A k \in DOMAIN g.nodes, m \in Labels, x \in Keys :
          IF k = s /\ m = l THEN target(g2, k, m, x) <=> x \in Y
          ELSE target(g2, k, m, x) <=> target(g, k, m, x)
  BY <1>1 DEF Retargeted
<1> QED
  BY <1>1, <1>2, <1>3 DEF Retargeted

\* g1 is g with other targets, sources and marks of its nodes
Relinked(g1, g, targets, sources, updated, unsaved) ==
    /\ g1 \in Graphs /\ DOMAIN g1.nodes = DOMAIN g.nodes
    /\ \A k \in DOMAIN g.nodes :
          /\ g1.nodes[k].defs = g.nodes[k].defs /\ g1.nodes[k].targets = targets[k]
          /\ g1.nodes[k].sources = sources[k] /\ g1.nodes[k].updated = updated[k]
    /\ g1.unsaved = unsaved /\ g1.el = g.el /\ g1.panic = g.panic

\* the keys of the targets of s with label l; the keys of a set of targets
LEMMA Matching ==
    ASSUME NEW g \in Graphs, NEW s \in DOMAIN g.nodes, NEW l \in Labels
    PROVE  /\ matching(g, s, l) \subseteq Keys
           /\ \A x \in Keys : x \in matching(g, s, l) <=> target(g, s, l, x)
<1>1. g.nodes[s].targets \subseteq Links
  BY NodeFields DEF Graphs, NodeRecords
<1>2. matching(g, s, l) \subseteq Keys
  BY <1>1, LinkOf DEF matching
<1>3. ASSUME NEW x \in Keys, x \in matching(g, s, l) PROVE target(g, s, l, x)
  <2>1. PICK t \in g.nodes[s].targets : t.label = l /\ t.key = x
    BY <1>3 DEF matching
  <2>2. t = Link(l, x)
    BY <1>1, <2>1, LinkOf
  <2> QED
    BY <2>1, <2>2 DEF target
<1>4. ASSUME NEW x \in Keys, target(g, s, l, x) PROVE x \in matching(g, s, l)
  BY <1>4, LinkFields DEF target, matching
<1> QED
  BY <1>2, <1>3, <1>4

LEMMA LinkSet ==
    ASSUME NEW l, NEW keys
    PROVE  \A m, x : Link(m, x) \in [label : {l}, key : keys] <=> m = l /\ x \in keys
BY DEF Link

LEMMA DropNodes ==
    ASSUME NEW g \in Graphs, NEW s \in DOMAIN g.nodes, NEW l \in Labels, NEW keys \in SUBSET DOMAIN g.nodes,
           \A k \in keys : source(g, k, l, s)
    PROVE  Relinked(dropTargets(removeFromSources(g, s, l, keys), s, l, keys), g,
                    [k \in DOMAIN g.nodes |->
                        IF k = s THEN g.nodes[k].targets \ [label : {l}, key : keys] ELSE g.nodes[k].targets],
                    [k \in DOMAIN g.nodes |->
                        IF k \in keys THEN g.nodes[k].sources \ {Link(l, s)} ELSE g.nodes[k].sources],
                    [k \in DOMAIN g.nodes |-> k \in keys \/ g.nodes[k].updated],
                    g.unsaved \cup keys)
<1> DEFINE K == DOMAIN g.nodes
           n1 == [k \in K |-> IF k \in keys
                              THEN [g.nodes[k] EXCEPT !.sources = @ \ {[label |-> l, key |-> s]},
                                                        !.updated = TRUE]
                              ELSE g.nodes[k]]
           g1 == removeFromSources(g, s, l, keys)
           n2 == [n1 EXCEPT ![s].targets = @ \ [label : {l}, key : keys]]
           g2 == dropTargets(g1, s, l, keys)
           targets == [k \in K |-> IF k = s THEN g.nodes[k].targets \ [label : {l}, key : keys]
                                   ELSE g.nodes[k].targets]
           sources == [k \in K |-> IF k \in keys THEN g.nodes[k].sources \ {Link(l, s)} ELSE g.nodes[k].sources]
           updated == [k \in K |-> k \in keys \/ g.nodes[k].updated]
<1>1. ~\E k \in keys : k \notin DOMAIN g.nodes \/ ~\E t \in g.nodes[k].sources : t.label = l
  BY LinkFields DEF source
<1>2. g1 = [g EXCEPT !.nodes = n1, !.unsaved = @ \cup keys]
  BY <1>1 DEF removeFromSources
<1>3. K \subseteq Keys /\ (\A k \in K : g.nodes[k] \in NodeRecords) /\ g.unsaved \subseteq Keys
  BY NodeFields DEF Graphs
<1>4. \A k \in K : n1[k] \in NodeRecords
  BY <1>3 DEF NodeRecords
<1>5. g2 = [g1 EXCEPT !.nodes[s].targets = @ \ [label : {l}, key : keys]]
  BY DEF dropTargets
<1> HIDE DEF g1, g2
<1>6. g1 = [nodes |-> n1, el |-> g.el, unsaved |-> g.unsaved \cup keys, panic |-> g.panic]
  BY <1>2 DEF Graphs
<1>7. g2 = [nodes |-> n2, el |-> g.el, unsaved |-> g.unsaved \cup keys, panic |-> g.panic]
  BY <1>5, <1>6
<1>8. n2 \in [K -> NodeRecords]
  <2>1. n1 \in [K -> NodeRecords]
    BY <1>4
  <2>2. [n1[s] EXCEPT !.targets = @ \ [label : {l}, key : keys]] \in NodeRecords
    <3>1. s \in K
      OBVIOUS
    <3>2. n1[s] \in NodeRecords
      BY <1>4, <3>1
    <3> HIDE DEF n1
    <3> QED
      BY <3>2 DEF NodeRecords
  <2> HIDE DEF n1
  <2> QED
    BY <2>1, <2>2
<1>9. \A k \in K :
        /\ n2[k].defs = g.nodes[k].defs /\ n2[k].targets = targets[k]
        /\ n2[k].sources = sources[k] /\ n2[k].updated = updated[k]
  BY <1>3 DEF NodeRecords, Link
<1>10. g2 \in Graphs
  BY <1>3, <1>7, <1>8, NodeMapType DEF Graphs
<1> HIDE DEF n2, targets, sources, updated
<1>11. Relinked(g2, g, targets, sources, updated, g.unsaved \cup keys)
  BY <1>7, <1>8, <1>9, <1>10 DEF Relinked
<1> QED
  BY <1>11 DEF g1, g2, targets, sources, updated

\* Targets are dropped together with their sources.
LEMMA Drop ==
    ASSUME NEW g \in Graphs, g.panic = FALSE, SourcesInv(g), TargetsKnown(g),
           NEW s \in DOMAIN g.nodes, NEW l \in Labels, NEW keys \in SUBSET matching(g, s, l)
    PROVE  LET g1 == dropTargets(removeFromSources(g, s, l, keys), s, l, keys)
           IN  Retargeted(g1, g, s, l, matching(g, s, l) \ keys) /\ g1.el = g.el
<1> DEFINE K == DOMAIN g.nodes
           g1 == dropTargets(removeFromSources(g, s, l, keys), s, l, keys)
           L == [label : {l}, key : keys]
           targets == [k \in K |-> IF k = s THEN g.nodes[k].targets \ L ELSE g.nodes[k].targets]
           sources == [k \in K |-> IF k \in keys THEN g.nodes[k].sources \ {Link(l, s)} ELSE g.nodes[k].sources]
           updated == [k \in K |-> k \in keys \/ g.nodes[k].updated]
<1>1. K \subseteq Keys /\ \A k \in K : g.nodes[k] \in NodeRecords
  BY NodeFields DEF Graphs
<1>2. \A x \in keys : x \in Keys /\ x \in K /\ target(g, s, l, x) /\ source(g, x, l, s)
  BY <1>1, Matching DEF SourcesInv, TargetsKnown
<1>3. Relinked(g1, g, targets, sources, updated, g.unsaved \cup keys)
  BY <1>2, DropNodes
<1> HIDE DEF g1
<1>4. /\ g1 \in Graphs /\ g1.panic = FALSE /\ SameDefs(g1, g) /\ g1.el = g.el
      /\ DOMAIN g1.nodes = K /\ g1.unsaved = g.unsaved \cup keys
  BY <1>3 DEF Relinked, SameDefs
<1>5. \A k \in K : g1.nodes[k].targets = targets[k] /\ g1.nodes[k].sources = sources[k]
                   /\ g1.nodes[k].updated = updated[k] /\ g1.nodes[k].defs = g.nodes[k].defs
  BY <1>3 DEF Relinked
<1>6. \A k \in K, m \in Labels, x \in Keys :
          target(g1, k, m, x) <=> target(g, k, m, x) /\ ~(k = s /\ m = l /\ x \in keys)
  <2> TAKE k \in K, m \in Labels, x \in Keys
  <2>1. Link(m, x) \in L <=> m = l /\ x \in keys
    BY LinkSet
  <2>2. g1.nodes[k].targets = IF k = s THEN g.nodes[k].targets \ L ELSE g.nodes[k].targets
    BY <1>5
  <2> HIDE DEF L
  <2> QED
    BY <2>1, <2>2 DEF target
<1>7. \A k \in K, m \in Labels, y \in Keys :
          source(g1, k, m, y) <=> source(g, k, m, y) /\ ~(k \in keys /\ m = l /\ y = s)
  <2> TAKE k \in K, m \in Labels, y \in Keys
  <2>1. Link(m, y) = Link(l, s) <=> m = l /\ y = s
    BY LinkFields
  <2>2. g1.nodes[k].sources = IF k \in keys THEN g.nodes[k].sources \ {Link(l, s)} ELSE g.nodes[k].sources
    BY <1>5
  <2> QED
    BY <2>1, <2>2 DEF source
<1>8. SourcesInv(g1)
  <2>1. \A k \in K, m \in Labels, y \in Keys :
            source(g1, k, m, y) <=> y \in K /\ target(g1, y, m, k)
    BY <1>1, <1>2, <1>6, <1>7 DEF SourcesInv
  <2> QED
    BY <1>4, <2>1 DEF SourcesInv
<1>9. TargetsKnown(g1)
  BY <1>4, <1>6 DEF TargetsKnown
<1>10. \A k \in K, m \in Labels, x \in Keys :
          IF k = s /\ m = l THEN target(g1, k, m, x) <=> x \in matching(g, s, l) \ keys
          ELSE target(g1, k, m, x) <=> target(g, k, m, x)
  BY <1>6, Matching
<1>11. Tracks(g1, g, {s})
  <2>1. ASSUME NEW k \in Keys \ {s} PROVE noted(g1, k) \/ unchanged(g1, g, k)
    <3>1. CASE k \in keys
      BY <1>2, <1>4, <1>5, <3>1 DEF noted
    <3>2. CASE k \notin keys /\ k \in K
      <4>1. g1.nodes[k] \in NodeRecords
        BY <1>4, <3>2, NodeFields DEF Graphs
      <4>2. /\ g1.nodes[k].targets = g.nodes[k].targets /\ g1.nodes[k].sources = g.nodes[k].sources
            /\ g1.nodes[k].updated = g.nodes[k].updated /\ g1.nodes[k].defs = g.nodes[k].defs
        BY <1>1, <1>5, <3>2 DEF NodeRecords
      <4>3. g1.nodes[k] = g.nodes[k]
        BY <1>1, <3>2, <4>1, <4>2 DEF NodeRecords
      <4> QED
        BY <1>4, <4>3 DEF unchanged
    <3>3. CASE k \notin K
      BY <1>4, <3>3 DEF unchanged
    <3> QED
      BY <3>1, <3>2, <3>3
  <2> QED
    BY <1>4, <2>1 DEF Tracks
<1>12. Retargeted(g1, g, s, l, matching(g, s, l) \ keys) /\ g1.el = g.el
  BY <1>4, <1>8, <1>9, <1>10, <1>11 DEF Retargeted
<1> QED
  BY <1>12 DEF g1

LEMMA AddNodes ==
    ASSUME NEW g \in Graphs, NEW s \in DOMAIN g.nodes, NEW l \in Labels, NEW found \in SUBSET DOMAIN g.nodes,
           NEW new, new = found \ matching(g, s, l), new # {}
    PROVE  Relinked(addToTargets(g, s, l, found), g,
                    [k \in DOMAIN g.nodes |->
                        IF k = s THEN g.nodes[k].targets \cup [label : {l}, key : new] ELSE g.nodes[k].targets],
                    [k \in DOMAIN g.nodes |->
                        IF k \in new THEN g.nodes[k].sources \cup {Link(l, s)} ELSE g.nodes[k].sources],
                    [k \in DOMAIN g.nodes |-> g.nodes[k].updated \/ k \in new \cup {s}],
                    g.unsaved \cup {s} \cup new)
<1> DEFINE K == DOMAIN g.nodes
           targets == [k \in K |-> IF k = s THEN g.nodes[k].targets \cup [label : {l}, key : new]
                                   ELSE g.nodes[k].targets]
           sources == [k \in K |-> IF k \in new THEN g.nodes[k].sources \cup {Link(l, s)} ELSE g.nodes[k].sources]
           updated == [k \in K |-> g.nodes[k].updated \/ k \in new \cup {s}]
           touched(k, n) ==
               [n EXCEPT !.targets = IF k = s THEN @ \cup [label : {l}, key : new] ELSE @,
                         !.sources = IF k \in new THEN @ \cup {[label |-> l, key |-> s]} ELSE @,
                         !.updated = @ \/ k \in new \cup {s}]
           n1 == [k \in K |-> touched(k, g.nodes[k])]
           g1 == addToTargets(g, s, l, found)
<1>1. g1 = [g EXCEPT !.nodes = n1, !.unsaved = @ \cup {s} \cup new]
  BY DEF addToTargets
<1>2. K \subseteq Keys /\ (\A k \in K : g.nodes[k] \in NodeRecords) /\ g.unsaved \subseteq Keys
  BY NodeFields DEF Graphs
<1>3. new \subseteq K /\ [label : {l}, key : new] \subseteq Links
  BY <1>2 DEF Links
<1>4. [label |-> l, key |-> s] \in Links /\ Link(l, s) = [label |-> l, key |-> s]
  BY <1>2 DEF Links, Link
<1>5. ASSUME NEW k \in K
      PROVE  /\ n1[k] \in NodeRecords
             /\ n1[k].defs = g.nodes[k].defs /\ n1[k].targets = targets[k]
             /\ n1[k].sources = sources[k] /\ n1[k].updated = updated[k]
  <2> DEFINE L == [label : {l}, key : new]
             x == [label |-> l, key |-> s]
  <2>1. n1[k] = [g.nodes[k] EXCEPT !.targets = IF k = s THEN @ \cup L ELSE @,
                                   !.sources = IF k \in new THEN @ \cup {x} ELSE @,
                                   !.updated = @ \/ k \in new \cup {s}]
    OBVIOUS
  <2>2. /\ targets[k] = IF k = s THEN g.nodes[k].targets \cup L ELSE g.nodes[k].targets
        /\ sources[k] = IF k \in new THEN g.nodes[k].sources \cup {x} ELSE g.nodes[k].sources
        /\ updated[k] = (g.nodes[k].updated \/ k \in new \cup {s})
    BY <1>4
  <2>3. L \subseteq Links /\ x \in Links /\ g.nodes[k] \in NodeRecords
    BY <1>2, <1>3, <1>4
  <2> HIDE DEF L, x, n1, targets, sources, updated
  <2>4. n1[k].defs = g.nodes[k].defs /\ n1[k].targets = targets[k]
    BY <2>1, <2>2, <2>3 DEF NodeRecords
  <2>5. n1[k].sources = sources[k] /\ n1[k].updated = updated[k]
    BY <2>1, <2>2, <2>3 DEF NodeRecords
  <2>6. n1[k] \in NodeRecords
    <3>1. n1[k] = [defs |-> g.nodes[k].defs, targets |-> targets[k], sources |-> sources[k],
                   updated |-> updated[k]]
      BY <2>1, <2>2, <2>3 DEF NodeRecords
    <3>2. g.nodes[k].defs \in Lists \cup {{}} /\ targets[k] \in SUBSET Links /\ sources[k] \in SUBSET Links
      BY <2>2, <2>3 DEF NodeRecords
    <3>3. updated[k] \in BOOLEAN
      BY <2>2, <2>3 DEF NodeRecords
    <3> QED
      BY <3>1, <3>2, <3>3 DEF NodeRecords
  <2> QED
    BY <2>4, <2>5, <2>6
<1> HIDE DEF g1
<1>6. g1 = [nodes |-> n1, el |-> g.el, unsaved |-> g.unsaved \cup {s} \cup new, panic |-> g.panic]
  BY <1>1 DEF Graphs
<1>7. n1 \in [K -> NodeRecords] /\ DOMAIN n1 = K
  BY <1>5
<1> HIDE DEF n1, targets, sources, updated
<1>8. g1 \in Graphs
  BY <1>2, <1>3, <1>6, <1>7, NodeMapType DEF Graphs
<1>9. Relinked(g1, g, targets, sources, updated, g.unsaved \cup {s} \cup new)
  BY <1>5, <1>6, <1>7, <1>8 DEF Relinked
<1> QED
  BY <1>9 DEF g1, targets, sources, updated

LEMMA RetargetedSame ==
    ASSUME NEW g \in Graphs, g.panic = FALSE, SourcesInv(g), TargetsKnown(g),
           NEW s \in DOMAIN g.nodes, NEW l \in Labels
    PROVE  Retargeted(g, g, s, l, matching(g, s, l))
BY Matching, TracksSame DEF Retargeted, SameDefs

\* Targets are added together with their sources.
LEMMA Add ==
    ASSUME NEW g \in Graphs, g.panic = FALSE, SourcesInv(g), TargetsKnown(g),
           NEW s \in DOMAIN g.nodes, NEW l \in Labels, NEW found \in SUBSET DOMAIN g.nodes
    PROVE  /\ Retargeted(addToTargets(g, s, l, found), g, s, l, matching(g, s, l) \cup found)
           /\ addToTargets(g, s, l, found).el = g.el
<1> DEFINE K == DOMAIN g.nodes
           new == found \ matching(g, s, l)
           g1 == addToTargets(g, s, l, found)
           L == [label : {l}, key : new]
           targets == [k \in K |-> IF k = s THEN g.nodes[k].targets \cup L ELSE g.nodes[k].targets]
           sources == [k \in K |-> IF k \in new THEN g.nodes[k].sources \cup {Link(l, s)} ELSE g.nodes[k].sources]
           updated == [k \in K |-> g.nodes[k].updated \/ k \in new \cup {s}]
<1>1. K \subseteq Keys /\ (\A k \in K : g.nodes[k] \in NodeRecords) /\ new \subseteq K
  BY NodeFields DEF Graphs
<1>2. CASE new = {}
  <2>1. g1 = g
    BY <1>2 DEF addToTargets
  <2>2. matching(g, s, l) \cup found = matching(g, s, l)
    BY <1>2
  <2> QED
    BY <2>1, <2>2, RetargetedSame
<1>3. CASE new # {}
  <2>1. Relinked(g1, g, targets, sources, updated, g.unsaved \cup {s} \cup new)
    BY <1>3, AddNodes
  <2> HIDE DEF g1
  <2>2. /\ g1 \in Graphs /\ g1.panic = FALSE /\ SameDefs(g1, g) /\ g1.el = g.el
        /\ DOMAIN g1.nodes = K /\ g1.unsaved = g.unsaved \cup {s} \cup new
    BY <2>1 DEF Relinked, SameDefs
  <2>3. \A k \in K : g1.nodes[k].targets = targets[k] /\ g1.nodes[k].sources = sources[k]
                     /\ g1.nodes[k].updated = updated[k] /\ g1.nodes[k].defs = g.nodes[k].defs
    BY <2>1 DEF Relinked
  <2>4. \A k \in K, m \in Labels, x \in Keys :
            target(g1, k, m, x) <=> target(g, k, m, x) \/ (k = s /\ m = l /\ x \in new)
    <3> TAKE k \in K, m \in Labels, x \in Keys
    <3>2. g1.nodes[k].targets = IF k = s THEN g.nodes[k].targets \cup L ELSE g.nodes[k].targets
      BY <2>3
    <3> HIDE DEF new
    <3>1. Link(m, x) \in L <=> m = l /\ x \in new
      BY LinkSet
    <3> HIDE DEF L
    <3> QED
      BY <3>1, <3>2 DEF target
  <2>5. \A k \in K, m \in Labels, y \in Keys :
            source(g1, k, m, y) <=> source(g, k, m, y) \/ (k \in new /\ m = l /\ y = s)
    <3> TAKE k \in K, m \in Labels, y \in Keys
    <3>1. Link(m, y) = Link(l, s) <=> m = l /\ y = s
      BY LinkFields
    <3>2. g1.nodes[k].sources = IF k \in new THEN g.nodes[k].sources \cup {Link(l, s)} ELSE g.nodes[k].sources
      BY <2>3
    <3> HIDE DEF new
    <3> QED
      BY <3>1, <3>2 DEF source
  <2>6. SourcesInv(g1)
    <3>1. \A k \in K, m \in Labels, y \in Keys :
              source(g1, k, m, y) <=> y \in K /\ target(g1, y, m, k)
      <4> HIDE DEF new
      <4> QED
        BY <1>1, <2>4, <2>5 DEF SourcesInv
    <3> QED
      BY <2>2, <3>1 DEF SourcesInv
  <2>7. TargetsKnown(g1)
    BY <1>1, <2>2, <2>4 DEF TargetsKnown
  <2>8. \A k \in K, m \in Labels, x \in Keys :
            IF k = s /\ m = l THEN target(g1, k, m, x) <=> x \in matching(g, s, l) \cup found
            ELSE target(g1, k, m, x) <=> target(g, k, m, x)
    BY <2>4, Matching
  <2>9. Tracks(g1, g, {s})
    <3>1. ASSUME NEW k \in Keys \ {s} PROVE noted(g1, k) \/ unchanged(g1, g, k)
      <4>1. CASE k \in new
        BY <1>1, <2>2, <2>3, <4>1 DEF noted
      <4>2. CASE k \notin new /\ k \in K
        <5>1. g1.nodes[k] \in NodeRecords
          BY <2>2, <4>2, NodeFields DEF Graphs
        <5>2. /\ g1.nodes[k].targets = g.nodes[k].targets /\ g1.nodes[k].sources = g.nodes[k].sources
              /\ g1.nodes[k].updated = g.nodes[k].updated /\ g1.nodes[k].defs = g.nodes[k].defs
          <6> HIDE DEF new, L
          <6> QED
            BY <1>1, <2>3, <3>1, <4>2 DEF NodeRecords
        <5>3. g1.nodes[k] = g.nodes[k]
          BY <1>1, <4>2, <5>1, <5>2 DEF NodeRecords
        <5> QED
          BY <2>2, <5>3 DEF unchanged
      <4>3. CASE k \notin K
        BY <2>2, <4>3 DEF unchanged
      <4> QED
        BY <4>1, <4>2, <4>3
    <3> QED
      BY <2>2, <3>1 DEF Tracks
  <2>10. Retargeted(g1, g, s, l, matching(g, s, l) \cup found) /\ g1.el = g.el
    BY <2>2, <2>6, <2>7, <2>8, <2>9 DEF Retargeted
  <2> QED
    BY <2>10 DEF g1
<1> QED
  BY <1>2, <1>3

-----------------------------------------------------------------------------
(* The keys that a definition selects *)

known(el, under, k) ==
    IF k \in DOMAIN el.nodeKeyMap THEN el.nodeKeyMap[k] ELSE el.overlay /\ k \in DOMAIN under.nodeKeyMap

\* the lookup finds exactly the nodes K
Knows(el, under, K) ==
    /\ Sound(el) /\ LiveKeys(el) = K
    /\ \A k \in Paths : known(el, under, k) <=> k \in K

LEMMA KnowsEdgeStep ==
    ASSUME NEW el, NEW el1, NEW under, NEW K, NEW E, Knows(el, under, K), EdgeStep(el1, el, E)
    PROVE  Knows(el1, under, K)
<1>1. LiveKeys(el1) = K
  BY DEF Knows, EdgeStep, SameKeys, LiveKeys
<1>2. \A k \in Paths : known(el1, under, k) <=> known(el, under, k)
  BY DEF EdgeStep, known
<1> QED
  BY <1>1, <1>2 DEF Knows, EdgeStep

LEMMA Found ==
    ASSUME DirectoryPrefixes, NEW g, NEW under, NEW K \in SUBSET Keys, Knows(g.el, under, K),
           NEW d \in AllDefs
    PROVE  iterEveryEdge(g, under, d) = {x \in K : wanted(d, x)}
<1> DEFINE found == IF d.key # NoKey THEN targetsWithKey(g.el, under, d.key)
                    ELSE IF d.prefixes = <<>> THEN targetsWithPrefix(g.el, Prefix(<<>>, FALSE))
                    ELSE UNION {targetsWithPrefix(g.el, d.prefixes[i]) : i \in DOMAIN d.prefixes}
<1>1. iterEveryEdge(g, under, d) = {x \in found : selects(d, x)}
  BY DEF iterEveryEdge
<1>2. Sound(g.el) /\ LiveKeys(g.el) = K /\ d.key \in Paths
  BY DefFields DEF Knows
<1>3. found = {x \in K : candidate(d, x)}
  <2>1. CASE d.key # NoKey
    <3>1. found = {k \in {d.key} : known(g.el, under, k)}
      BY <2>1 DEF targetsWithKey, known
    <3>2. known(g.el, under, d.key) <=> d.key \in K
      BY <1>2 DEF Knows
    <3>3. \A x : candidate(d, x) <=> x = d.key
      BY <2>1 DEF candidate
    <3> HIDE DEF found
    <3> QED
      BY <3>1, <3>2, <3>3
  <2>2. CASE d.key = NoKey /\ d.prefixes = <<>>
    <3>1. found = K
      BY <1>2, <2>2, TargetsOfNoPrefix
    <3>2. \A x : candidate(d, x)
      BY <2>2 DEF candidate
    <3> HIDE DEF found
    <3> QED
      BY <3>1, <3>2
  <2>3. CASE d.key = NoKey /\ d.prefixes # <<>>
    <3>1. found = UNION {targetsWithPrefix(g.el, d.prefixes[i]) : i \in DOMAIN d.prefixes}
      BY <2>3
    <3>2. ASSUME NEW i \in DOMAIN d.prefixes
          PROVE  /\ d.prefixes[i] = Prefix(d.prefixes[i].path, TRUE) /\ d.prefixes[i].path \in Paths
                 /\ d.prefixes[i].slash = TRUE
      <4>1. d.prefixes[i] \in [path : Paths, slash : BOOLEAN]
        BY DefFields
      <4>2. PICK defs \in Lists : d \in defs
        BY DEF AllDefs
      <4>3. d.prefixes[i].slash
        BY <2>3, <4>2 DEF DirectoryPrefixes
      <4> QED
        BY <4>1, <4>3 DEF Prefix
    <3>3. \A i \in DOMAIN d.prefixes :
              targetsWithPrefix(g.el, d.prefixes[i]) = {k \in K : IsStrictPrefix(d.prefixes[i].path, k)}
      <4> TAKE i \in DOMAIN d.prefixes
      <4>1. targetsWithPrefix(g.el, Prefix(d.prefixes[i].path, TRUE)) =
                {k \in LiveKeys(g.el) : IsStrictPrefix(d.prefixes[i].path, k)}
        BY <1>2, <3>2, TargetsOfDirectory
      <4> QED
        BY <1>2, <3>2, <4>1
    <3>4. \A x : candidate(d, x) <=> \E i \in DOMAIN d.prefixes : IsStrictPrefix(d.prefixes[i].path, x)
      BY <2>3, <3>2 DEF candidate, HasPrefix
    <3> HIDE DEF found
    <3> QED
      BY <3>1, <3>3, <3>4
  <2> HIDE DEF found
  <2> QED
    BY <2>1, <2>2, <2>3
<1> HIDE DEF found
<1> QED
  BY <1>1, <1>3 DEF wanted

-----------------------------------------------------------------------------
(* A graph whose links are the ones that the definitions D ask for *)

\* at most one definition for a label
OneEach(S) == S \subseteq AllDefs /\ \A d, e \in S : d.label = e.label => d = e

\* a definition with the label selects the key
asks(S, label, key) == \E d \in S : d.label = label /\ wanted(d, key)

hasEdge(D, e) == \E k \in DOMAIN D : \E d \in D[k] : e \in edgeSet(k, d)

EdgesInv(el, D) == \A e : e \in LiveEdges(el) <=> hasEdge(D, e)

TargetsInv(g, D) ==
    \A k \in DOMAIN g.nodes, l \in Labels, x \in Keys :
        target(g, k, l, x) <=> x \in DOMAIN g.nodes /\ asks(D[k], l, x)

Linked(g) == g \in Graphs /\ g.panic = FALSE /\ SourcesInv(g) /\ TargetsKnown(g)

Good(g, under, D) ==
    /\ Linked(g) /\ Knows(g.el, under, DOMAIN g.nodes)
    /\ DOMAIN D = DOMAIN g.nodes /\ \A k \in DOMAIN D : OneEach(D[k])
    /\ EdgesInv(g.el, D) /\ TargetsInv(g, D)

\* the links of s, and of the nodes it is linked to, change
Moved(g1, g, s) ==
    /\ SameDefs(g1, g) /\ Tracks(g1, g, {s})
    /\ g1.el.nodeKeyMap = g.el.nodeKeyMap /\ g1.el.overlay = g.el.overlay

LEMMA MovedTrans ==
    ASSUME NEW g, NEW g1, NEW g2, NEW s, Moved(g1, g, s), Moved(g2, g1, s)
    PROVE  Moved(g2, g, s)
<1>1. Tracks(g2, g, {s})
  BY TracksTrans DEF Moved
<1> QED
  BY <1>1 DEF Moved, SameDefs

\* S differs from S0 only in what it says of a label
Redefined(S, S0, l) == OneEach(S) /\ \A d : d.label # l => (d \in S <=> d \in S0)

\* X are the nodes that S selects with the label
Selected(X, K, S, l) == \A x \in Keys : x \in X <=> x \in K /\ asks(S, l, x)

LEMMA GoodStep ==
    ASSUME NEW g, NEW under, NEW D, Good(g, under, D), NEW s \in DOMAIN g.nodes, NEW l \in Labels,
           NEW S, Redefined(S, D[s], l), NEW X, Selected(X, DOMAIN g.nodes, S, l),
           NEW g1, Retargeted(g1, g, s, l, X), NEW E, EdgeStep(g1.el, g.el, E),
           EdgesInv(g1.el, [D EXCEPT ![s] = S])
    PROVE  Good(g1, under, [D EXCEPT ![s] = S]) /\ Moved(g1, g, s)
<1> DEFINE D1 == [D EXCEPT ![s] = S]
<1>1. DOMAIN D = DOMAIN g.nodes /\ DOMAIN g1.nodes = DOMAIN g.nodes /\ DOMAIN D1 = DOMAIN D
  BY DEF Good, Retargeted, SameDefs
<1>2. D1[s] = S /\ \A k \in DOMAIN D : k # s => D1[k] = D[k]
  BY <1>1
<1>3. EdgesInv(g1.el, D1)
  OBVIOUS
<1> HIDE DEF D1
<1>4. \A k \in DOMAIN D1 : OneEach(D1[k])
  BY <1>1, <1>2 DEF Good, Redefined
<1>5. Knows(g1.el, under, DOMAIN g1.nodes)
  BY <1>1, KnowsEdgeStep DEF Good
<1>6. TargetsInv(g1, D1)
  <2>1. ASSUME NEW k \in DOMAIN g.nodes, NEW m \in Labels, NEW x \in Keys
        PROVE  target(g1, k, m, x) <=> x \in DOMAIN g.nodes /\ asks(D1[k], m, x)
    <3>1. CASE k = s /\ m = l
      BY <1>2, <2>1, <3>1 DEF Retargeted, Selected
    <3>2. CASE ~(k = s /\ m = l)
      <4>1. target(g1, k, m, x) <=> target(g, k, m, x)
        BY <2>1, <3>2 DEF Retargeted
      <4>2. target(g, k, m, x) <=> x \in DOMAIN g.nodes /\ asks(D[k], m, x)
        BY <2>1 DEF Good, TargetsInv
      <4>3. asks(D1[k], m, x) <=> asks(D[k], m, x)
        <5>1. CASE k # s
          BY <1>1, <1>2, <5>1
        <5>2. CASE k = s
          BY <1>2, <3>2, <5>2 DEF Redefined, asks
        <5> QED
          BY <5>1, <5>2
      <4> QED
        BY <4>1, <4>2, <4>3
    <3> QED
      BY <3>1, <3>2
  <2> QED
    BY <1>1, <2>1 DEF TargetsInv
<1>7. Linked(g1)
  BY DEF Retargeted, Linked
<1>8. Good(g1, under, D1)
  BY <1>1, <1>3, <1>4, <1>5, <1>6, <1>7 DEF Good
<1>9. Moved(g1, g, s)
  BY DEF Moved, Retargeted, EdgeStep
<1> QED
  BY <1>8, <1>9 DEF D1

\* Only the lookup changes.
LEMMA WithLookup ==
    ASSUME NEW g \in Graphs, NEW el \in Lookups
    PROVE  /\ [g EXCEPT !.el = el] \in Graphs /\ [g EXCEPT !.el = el].el = el
           /\ [g EXCEPT !.el = el].nodes = g.nodes /\ [g EXCEPT !.el = el].unsaved = g.unsaved
           /\ [g EXCEPT !.el = el].panic = g.panic
BY DEF Graphs

SameNodes(g1, g) == g1.nodes = g.nodes /\ g1.unsaved = g.unsaved /\ g1.panic = g.panic

LEMMA LinkedSameNodes ==
    ASSUME NEW g, Linked(g), NEW g1 \in Graphs, SameNodes(g1, g)
    PROVE  Linked(g1) /\ \A s, l : matching(g1, s, l) = matching(g, s, l)
BY DEF Linked, SameNodes, SourcesInv, TargetsKnown, source, target, matching

LEMMA RetargetedSameNodes ==
    ASSUME NEW g, NEW g1, NEW s, NEW l, NEW X, Retargeted(g1, g, s, l, X)
    PROVE  /\ \A h : SameNodes(h, g) => Retargeted(g1, h, s, l, X)
           /\ \A h \in Graphs : SameNodes(h, g1) => Retargeted(h, g, s, l, X)
<1>1. ASSUME NEW h, SameNodes(h, g) PROVE Retargeted(g1, h, s, l, X)
  BY <1>1 DEF Retargeted, SameNodes, SameDefs, Tracks, noted, unchanged, target
<1>2. ASSUME NEW h \in Graphs, SameNodes(h, g1) PROVE Retargeted(h, g, s, l, X)
  <2>1. SourcesInv(h) /\ TargetsKnown(h)
    BY <1>2 DEF Retargeted, SameNodes, SourcesInv, TargetsKnown, source, target
  <2>2. SameDefs(h, g) /\ Tracks(h, g, {s}) /\ h.panic = FALSE
    BY <1>2 DEF Retargeted, SameNodes, SameDefs, Tracks, noted, unchanged
  <2>3. \A k, m, x : target(h, k, m, x) <=> target(g1, k, m, x)
    BY <1>2 DEF SameNodes, target
  <2> QED
    BY <2>1, <2>2, <2>3 DEF Retargeted
<1> QED
  BY <1>1, <1>2

LEMMA EdgesApart ==
    ASSUME NEW k \in Paths, NEW s \in Paths, NEW d \in AllDefs, NEW c \in AllDefs,
           NEW e, e \in edgeSet(k, d), e \in edgeSet(s, c)
    PROVE  k = s /\ d.label = c.label
<1>1. e \in OwnEdges(k, d.label)
  BY EdgesOfDef
<1>2. e \in OwnEdges(s, c.label)
  BY EdgesOfDef
<1> QED
  BY <1>1, <1>2 DEF OwnEdges

LEMMA GoodTypes ==
    ASSUME NEW g, NEW under, NEW D, Good(g, under, D)
    PROVE  /\ g \in Graphs /\ g.panic = FALSE /\ SourcesInv(g) /\ TargetsKnown(g) /\ Linked(g)
           /\ Sound(g.el) /\ g.el \in Lookups
           /\ DOMAIN g.nodes \subseteq Keys /\ DOMAIN g.nodes \subseteq Paths /\ DOMAIN D = DOMAIN g.nodes
           /\ \A k \in DOMAIN D : \A d \in D[k] : d \in AllDefs /\ d.label \in Labels
<1>1. g \in Graphs /\ g.panic = FALSE /\ SourcesInv(g) /\ TargetsKnown(g) /\ Sound(g.el) /\ g.el \in Lookups
  BY DEF Good, Linked, Knows, Sound
<1>2. DOMAIN g.nodes \subseteq Keys
  BY <1>1, NodeFields DEF Graphs
<1>3. DOMAIN g.nodes \subseteq Paths
  BY <1>2, KeyIsPath
<1>4. \A k \in DOMAIN D : \A d \in D[k] : d \in AllDefs
  BY DEF Good, OneEach
<1> QED
  BY <1>1, <1>2, <1>3, <1>4, DefFields DEF Good

\* A definition is removed with its links and its edges.
LEMMA RemoveDef ==
    ASSUME NEW g, NEW under, NEW D, Good(g, under, D), NEW s \in DOMAIN g.nodes, NEW d \in D[s]
    PROVE  Good(removeDef(g, s, d), under, [D EXCEPT ![s] = D[s] \ {d}]) /\ Moved(removeDef(g, s, d), g, s)
<1> DEFINE l == d.label
           K == DOMAIN g.nodes
           M == matching(g, s, l)
           g1 == dropTargets(removeFromSources(g, s, l, M), s, l, M)
           el2 == addDelEdges(g1.el, edgesOf(s, d), TRUE)
           g2 == removeDef(g, s, d)
           S == D[s] \ {d}
           E == edgesAfter(LiveEdges(g.el), edgeSet(s, d), TRUE)
           X == M \ M
<1>1. /\ g \in Graphs /\ g.panic = FALSE /\ SourcesInv(g) /\ TargetsKnown(g)
      /\ Sound(g.el) /\ DOMAIN D = K /\ s \in Paths /\ K \subseteq Paths /\ d \in AllDefs /\ l \in Labels
  BY GoodTypes
<1>2. g2 = [g1 EXCEPT !.el = el2]
  BY DEF removeDef, delEdges, clearTargets
<1>3. Retargeted(g1, g, s, l, X) /\ g1.el = g.el
  <2>1. M \in SUBSET M
    OBVIOUS
  <2> HIDE DEF M, l
  <2> QED
    BY <1>1, <2>1, Drop DEF M
<1> HIDE DEF g1, g2
<1>4. EdgeStep(el2, g.el, E)
  BY <1>1, <1>3, EdgesOfDefStep
<1> HIDE DEF el2
<1>5. g1 \in Graphs /\ el2 \in Lookups
  BY <1>3, <1>4 DEF Retargeted, EdgeStep, Sound
<1>6. g2 \in Graphs /\ g2.el = el2 /\ SameNodes(g2, g1)
  BY <1>2, <1>5, WithLookup DEF SameNodes
<1>7. Retargeted(g2, g, s, l, X)
  BY <1>3, <1>6, RetargetedSameNodes
<1>8. OneEach(D[s])
  BY <1>1 DEF Good
<1>9. \A c \in S : c.label # l
  BY <1>8 DEF OneEach
<1>10. Redefined(S, D[s], l)
  BY <1>8 DEF Redefined, OneEach
<1>11. Selected(X, K, S, l)
  BY <1>9 DEF Selected, asks
<1>12. EdgesInv(g2.el, [D EXCEPT ![s] = S])
  <2> DEFINE D1 == [D EXCEPT ![s] = S]
  <2>1. D1[s] = S /\ DOMAIN D1 = K /\ \A k \in K : k # s => D1[k] = D[k]
    BY <1>1
  <2> HIDE DEF D1
  <2>2. \A e : e \in LiveEdges(g2.el) <=> e \in LiveEdges(g.el) /\ e \notin edgeSet(s, d)
    <3>1. LiveEdges(g2.el) = E
      BY <1>4, <1>6 DEF EdgeStep
    <3> QED
      BY <3>1 DEF edgesAfter
  <2>3. \A e : e \in LiveEdges(g.el) <=> hasEdge(D, e)
    BY DEF Good, EdgesInv
  <2>4. ASSUME NEW e, hasEdge(D1, e) PROVE hasEdge(D, e) /\ e \notin edgeSet(s, d)
    <3>1. PICK k \in K : \E c \in D1[k] : e \in edgeSet(k, c)
      BY <2>1, <2>4 DEF hasEdge
    <3>2. PICK c \in D1[k] : e \in edgeSet(k, c)
      BY <3>1
    <3>3. c \in D[k] /\ (k = s => c.label # l)
      BY <1>9, <2>1
    <3>4. k \in Paths /\ c \in AllDefs
      BY <1>1, <3>3, GoodTypes
    <3>5. e \notin edgeSet(s, d)
      BY <1>1, <3>2, <3>3, <3>4, EdgesApart
    <3> QED
      BY <1>1, <3>2, <3>3, <3>5 DEF hasEdge
  <2>5. ASSUME NEW e, hasEdge(D, e), e \notin edgeSet(s, d) PROVE hasEdge(D1, e)
    <3>1. PICK k \in K : \E c \in D[k] : e \in edgeSet(k, c)
      BY <1>1, <2>5 DEF hasEdge
    <3>2. PICK c \in D[k] : e \in edgeSet(k, c)
      BY <3>1
    <3>3. c \in D1[k]
      BY <2>1, <2>5, <3>2
    <3> QED
      BY <2>1, <3>2, <3>3 DEF hasEdge
  <2>6. EdgesInv(g2.el, D1)
    BY <2>2, <2>3, <2>4, <2>5 DEF EdgesInv
  <2> QED
    BY <2>6 DEF D1
<1>13. EdgeStep(g2.el, g.el, E)
  BY <1>4, <1>6
<1> HIDE DEF S, X, E, l
<1>14. Good(g2, under, [D EXCEPT ![s] = S]) /\ Moved(g2, g, s)
  BY <1>1, <1>7, <1>10, <1>11, <1>12, <1>13, GoodStep
<1> QED
  BY <1>14 DEF S, g2

\* A definition is added with its edges and its links.
LEMMA AddDef ==
    ASSUME DirectoryPrefixes, NEW g, NEW under, NEW D, Good(g, under, D), NEW s \in DOMAIN g.nodes,
           NEW d \in AllDefs, \A c \in D[s] : c.label # d.label
    PROVE  /\ Good(addDef(g, under, s, d), under, [D EXCEPT ![s] = D[s] \cup {d}])
           /\ Moved(addDef(g, under, s, d), g, s)
<1> DEFINE l == d.label
           K == DOMAIN g.nodes
           el1 == addDelEdges(g.el, edgesOf(s, d), FALSE)
           g1 == [g EXCEPT !.el = el1]
           F == iterEveryEdge(g1, under, d)
           g2 == addToTargets(g1, s, l, F)
           S == D[s] \cup {d}
           E == edgesAfter(LiveEdges(g.el), edgeSet(s, d), FALSE)
           X == matching(g1, s, l) \cup F
<1>1. /\ g \in Graphs /\ Linked(g) /\ Sound(g.el) /\ DOMAIN D = K /\ s \in Paths /\ K \subseteq Paths
      /\ K \subseteq Keys /\ l \in Labels
  BY GoodTypes, DefFields
<1>2. addDef(g, under, s, d) = g2
  BY DEF addDef, addDefTo, addEdges
<1>3. EdgeStep(el1, g.el, E)
  BY <1>1, EdgesOfDefStep
<1> HIDE DEF el1
<1>4. g1 \in Graphs /\ g1.el = el1 /\ SameNodes(g1, g) /\ DOMAIN g1.nodes = K
  <2>1. el1 \in Lookups
    BY <1>3 DEF EdgeStep, Sound
  <2> QED
    BY <1>1, <2>1, WithLookup DEF SameNodes
<1> HIDE DEF g1
<1>5. Knows(g1.el, under, K)
  BY <1>3, <1>4, KnowsEdgeStep DEF Good
<1>6. F = {x \in K : wanted(d, x)}
  BY <1>1, <1>5, Found
<1> HIDE DEF F
<1>7. Linked(g1) /\ matching(g1, s, l) = matching(g, s, l)
  BY <1>1, <1>4, LinkedSameNodes
<1>8. Retargeted(g2, g1, s, l, X) /\ g2.el = g1.el
  <2>1. g1.panic = FALSE /\ SourcesInv(g1) /\ TargetsKnown(g1) /\ F \in SUBSET K
    BY <1>6, <1>7 DEF Linked
  <2> HIDE DEF l
  <2> QED
    BY <1>1, <1>4, <2>1, Add
<1> HIDE DEF g2
<1>9. Retargeted(g2, g, s, l, X)
  <2>1. SameNodes(g, g1)
    BY <1>4 DEF SameNodes
  <2> QED
    BY <1>8, <2>1, RetargetedSameNodes
<1>10. Redefined(S, D[s], l)
  <2>1. OneEach(D[s])
    BY <1>1 DEF Good
  <2> QED
    BY <2>1 DEF Redefined, OneEach
<1>11. Selected(X, K, S, l)
  <2>1. \A x \in Keys : x \notin matching(g, s, l)
    <3>1. \A x \in Keys : ~target(g, s, l, x)
      BY <1>1 DEF Good, TargetsInv, asks
    <3> QED
      BY <1>1, <3>1, Matching
  <2>2. \A x \in Keys : x \in X <=> x \in K /\ wanted(d, x)
    BY <1>6, <1>7, <2>1
  <2>3. \A x \in Keys : asks(S, l, x) <=> wanted(d, x)
    BY DEF asks
  <2> QED
    BY <2>2, <2>3 DEF Selected
<1>12. EdgesInv(g2.el, [D EXCEPT ![s] = S])
  <2> DEFINE D1 == [D EXCEPT ![s] = S]
  <2>1. D1[s] = S /\ DOMAIN D1 = K /\ \A k \in K : k # s => D1[k] = D[k]
    BY <1>1
  <2> HIDE DEF D1
  <2>2. \A e : e \in LiveEdges(g2.el) <=> e \in LiveEdges(g.el) \/ e \in edgeSet(s, d)
    <3>1. LiveEdges(g2.el) = E
      BY <1>3, <1>4, <1>8 DEF EdgeStep
    <3> QED
      BY <3>1 DEF edgesAfter
  <2>3. \A e : e \in LiveEdges(g.el) <=> hasEdge(D, e)
    BY DEF Good, EdgesInv
  <2>4. \A e : hasEdge(D1, e) <=> hasEdge(D, e) \/ e \in edgeSet(s, d)
    BY <1>1, <2>1 DEF hasEdge
  <2>5. EdgesInv(g2.el, D1)
    BY <2>2, <2>3, <2>4 DEF EdgesInv
  <2> QED
    BY <2>5 DEF D1
<1>13. EdgeStep(g2.el, g.el, E)
  BY <1>3, <1>4, <1>8
<1> HIDE DEF S, X, E, l
<1>14. Good(g2, under, [D EXCEPT ![s] = S]) /\ Moved(g2, g, s)
  BY <1>1, <1>9, <1>10, <1>11, <1>12, <1>13, GoodStep
<1> QED
  BY <1>2, <1>14 DEF S

\* A definition that differs only in its selector has the same edges.
LEMMA SameTargets ==
    ASSUME NEW d, NEW c, sameTargets(d, c), d.label = c.label
    PROVE  /\ \A s : edgeSet(s, d) = edgeSet(s, c)
           /\ \A x : candidate(d, x) <=> candidate(c, x)
<1>1. d.key = c.key /\ d.prefixes = c.prefixes
  BY DEF sameTargets
<1>2. \A s : edgesOf(s, d) = edgesOf(s, c)
  BY <1>1 DEF edgesOf
<1>3. \A x : candidate(d, x) <=> candidate(c, x)
  BY <1>1 DEF candidate
<1> QED
  BY <1>2, <1>3 DEF edgeSet

\* When only the selector changes, the links follow it.
LEMMA Reselect ==
    ASSUME DirectoryPrefixes, SelectorsKept,
           NEW g, NEW under, NEW D, Good(g, under, D), NEW s \in DOMAIN g.nodes,
           NEW c \in D[s], NEW d \in AllDefs, c.label = d.label, sameTargets(c, d)
    PROVE  /\ Good(reselect(g, under, s, d), under, [D EXCEPT ![s] = (D[s] \ {c}) \cup {d}])
           /\ Moved(reselect(g, under, s, d), g, s)
<1> DEFINE l == d.label
           K == DOMAIN g.nodes
           S == (D[s] \ {c}) \cup {d}
           D1 == [D EXCEPT ![s] = S]
           M == matching(g, s, l)
           obsolete == {k \in M : ~selects(d, k)}
           g1 == dropTargets(removeFromSources(g, s, l, obsolete), s, l, obsolete)
           F == iterEveryEdge(g1, under, d)
           g2 == addToTargets(g1, s, l, F)
           X1 == M \ obsolete
           X == matching(g1, s, l) \cup F
           E == LiveEdges(g.el)
<1>1. /\ g \in Graphs /\ g.panic = FALSE /\ SourcesInv(g) /\ TargetsKnown(g)
      /\ Linked(g) /\ Sound(g.el) /\ DOMAIN D = K /\ s \in Paths /\ K \subseteq Paths
      /\ K \subseteq Keys /\ l \in Labels /\ OneEach(D[s]) /\ c \in AllDefs
  BY GoodTypes, DefFields DEF Good
<1>2. \A x : candidate(c, x) <=> candidate(d, x)
  BY SameTargets
<1>3. Redefined(S, D[s], l) /\ \A e \in S : e.label = l => e = d
  BY <1>1 DEF Redefined, OneEach
<1>4. \A x \in Keys : asks(S, l, x) <=> wanted(d, x)
  BY <1>3 DEF asks
<1>5. \A x \in Keys : x \in M <=> x \in K /\ wanted(c, x)
  <2>1. \A x \in Keys : x \in M <=> target(g, s, l, x)
    BY <1>1, Matching
  <2>2. \A x \in Keys : target(g, s, l, x) <=> x \in K /\ asks(D[s], l, x)
    BY <1>1 DEF Good, TargetsInv
  <2>3. \A x \in Keys : asks(D[s], l, x) <=> wanted(c, x)
    BY <1>1 DEF asks, OneEach
  <2> QED
    BY <2>1, <2>2, <2>3
<1>6. EdgesInv(g.el, D1)
  <2>1. D1[s] = S /\ DOMAIN D1 = K /\ \A k \in K : k # s => D1[k] = D[k]
    BY <1>1
  <2>2. edgeSet(s, c) = edgeSet(s, d)
    BY SameTargets
  <2> HIDE DEF D1
  <2>3. \A e : hasEdge(D1, e) <=> hasEdge(D, e)
    BY <1>1, <2>1, <2>2 DEF hasEdge
  <2> QED
    BY <2>3 DEF Good, EdgesInv
<1>7. EdgeStep(g.el, g.el, E)
  BY <1>1, EdgeStepSame
<1>8. CASE ~d.selective
  <2>1. reselect(g, under, s, d) = g
    BY <1>8 DEF reselect
  <2>2. ~c.selective
    <3>1. PICK old \in Lists : c \in old
      BY <1>1 DEF AllDefs
    <3>2. PICK new \in Lists : d \in new
      BY DEF AllDefs
    <3> QED
      BY <1>8, <3>1, <3>2 DEF SelectorsKept
  <2>3. Selected(M, K, S, l)
    BY <1>2, <1>4, <1>5, <1>8, <2>2 DEF Selected, wanted, selects
  <2>4. Retargeted(g, g, s, l, M)
    BY <1>1, RetargetedSame
  <2> HIDE DEF S, M, E, l
  <2>5. Good(g, under, [D EXCEPT ![s] = S]) /\ Moved(g, g, s)
    BY <1>1, <1>3, <1>6, <1>7, <2>3, <2>4, GoodStep
  <2> QED
    BY <2>1, <2>5 DEF S
<1>9. CASE d.selective
  <2>1. reselect(g, under, s, d) = g2
    BY <1>9 DEF reselect
  <2>2. Retargeted(g1, g, s, l, X1) /\ g1.el = g.el
    <3>1. obsolete \in SUBSET M
      OBVIOUS
    <3> HIDE DEF M, obsolete, l
    <3> QED
      BY <1>1, <3>1, Drop DEF M
  <2> HIDE DEF g1
  <2>3. Linked(g1) /\ g1 \in Graphs /\ DOMAIN g1.nodes = K
    BY <2>2 DEF Retargeted, Linked, SameDefs
  <2>4. F = {x \in K : wanted(d, x)}
    <3>1. Knows(g1.el, under, K)
      BY <2>2 DEF Good
    <3> QED
      BY <1>1, <3>1, Found
  <2> HIDE DEF F
  <2>5. Retargeted(g2, g1, s, l, X) /\ g2.el = g1.el
    <3>1. g1.panic = FALSE /\ SourcesInv(g1) /\ TargetsKnown(g1) /\ F \in SUBSET K
      BY <2>3, <2>4 DEF Linked
    <3> HIDE DEF l
    <3> QED
      BY <1>1, <2>3, <3>1, Add
  <2> HIDE DEF g2
  <2>6. Retargeted(g2, g, s, l, X)
    <3> HIDE DEF l, X, X1
    <3> QED
      BY <2>2, <2>5, RetargetedTrans
  <2>7. Selected(X, K, S, l)
    <3>1. \A x \in Keys : x \in matching(g1, s, l) <=> target(g1, s, l, x)
      BY <1>1, <2>3, Matching
    <3>2. \A x \in Keys : target(g1, s, l, x) <=> x \in X1
      BY <1>1, <2>2 DEF Retargeted
    <3>3. \A x \in Keys : x \in X1 => x \in K /\ wanted(d, x)
      BY <1>2, <1>5 DEF wanted
    <3>4. \A x \in Keys : x \in X <=> x \in K /\ wanted(d, x)
      BY <2>4, <3>1, <3>2, <3>3
    <3> HIDE DEF X
    <3> QED
      BY <1>4, <3>4 DEF Selected
  <2>8. EdgeStep(g2.el, g.el, E) /\ EdgesInv(g2.el, [D EXCEPT ![s] = S])
    BY <1>6, <1>7, <2>2, <2>5
  <2> HIDE DEF S, X, E, l
  <2>9. Good(g2, under, [D EXCEPT ![s] = S]) /\ Moved(g2, g, s)
    BY <1>1, <1>3, <2>6, <2>7, <2>8, GoodStep
  <2> QED
    BY <2>1, <2>9 DEF S
<1> QED
  BY <1>8, <1>9

-----------------------------------------------------------------------------
(* SetTargets *)

SameMap(D1, D) == DOMAIN D1 = DOMAIN D /\ \A k \in DOMAIN D : D1[k] = D[k]

LEMMA GoodSameMap ==
    ASSUME NEW g, NEW under, NEW D, NEW D1, Good(g, under, D), SameMap(D1, D)
    PROVE  Good(g, under, D1)
<1>1. \A e : hasEdge(D1, e) <=> hasEdge(D, e)
  BY DEF hasEdge, SameMap
<1>2. EdgesInv(g.el, D1)
  BY <1>1 DEF Good, EdgesInv
<1>3. TargetsInv(g, D1)
  BY DEF Good, TargetsInv, SameMap
<1> QED
  BY <1>2, <1>3 DEF Good, SameMap

LEMMA MovedSame ==
    ASSUME NEW g, NEW s
    PROVE  Moved(g, g, s)
BY TracksSame DEF Moved, SameDefs

\* One label of the merge leaves the graph with the new definition of that label.
LEMMA MergeLabel ==
    ASSUME DirectoryPrefixes, SelectorsKept,
           NEW g, NEW under, NEW D, Good(g, under, D), NEW s \in DOMAIN g.nodes, NEW l \in Labels,
           NEW new, OneEach(new), \A d \in new : d.label = l,
           NEW g1, g1 = mergeLabel(g, under, s, withLabel(D[s], l), new),
           NEW D1, SameMap(D1, [D EXCEPT ![s] = {d \in D[s] : d.label # l} \cup new])
    PROVE  Good(g1, under, D1) /\ Moved(g1, g, s)
<1> DEFINE old == withLabel(D[s], l)
           c == CHOOSE x \in old : TRUE
           d == CHOOSE x \in new : TRUE
<1>1. DOMAIN D = DOMAIN g.nodes /\ OneEach(D[s])
  BY DEF Good
<1>2. DOMAIN D1 = DOMAIN D /\ D1[s] = {x \in D[s] : x.label # l} \cup new
      /\ \A k \in DOMAIN D : k # s => D1[k] = D[k]
  BY <1>1 DEF SameMap
<1>3. old # {} => c \in D[s] /\ c.label = l /\ c \in AllDefs /\ \A x \in D[s] : x.label # l <=> x # c
  BY <1>1 DEF withLabel, OneEach
<1>4. old = {} => \A x \in D[s] : x.label # l
  BY DEF withLabel
<1>5. new # {} => d \in AllDefs /\ d.label = l /\ \A x : x \in new <=> x = d
  BY DEF OneEach
<1>6. g1 = IF old = {} THEN IF new = {} THEN g ELSE addDef(g, under, s, d)
           ELSE IF new = {} THEN removeDef(g, s, c)
           ELSE IF sameTargets(c, d) THEN reselect(g, under, s, d)
           ELSE addDef(removeDef(g, s, c), under, s, d)
  BY DEF mergeLabel
<1> HIDE DEF old, c, d
<1>7. CASE old = {} /\ new = {}
  <2>1. g1 = g
    BY <1>6, <1>7
  <2>2. SameMap(D1, D)
    BY <1>2, <1>4, <1>7 DEF SameMap
  <2> QED
    BY <2>1, <2>2, GoodSameMap, MovedSame
<1>8. CASE old = {} /\ new # {}
  <2>1. g1 = addDef(g, under, s, d)
    BY <1>6, <1>8
  <2>2. \A x \in D[s] : x.label # d.label
    BY <1>4, <1>5, <1>8
  <2>3. Good(addDef(g, under, s, d), under, [D EXCEPT ![s] = D[s] \cup {d}]) /\ Moved(addDef(g, under, s, d), g, s)
    BY <1>5, <1>8, <2>2, AddDef
  <2>4. SameMap(D1, [D EXCEPT ![s] = D[s] \cup {d}])
    <3>1. D1[s] = D[s] \cup {d}
      BY <1>2, <1>4, <1>5, <1>8
    <3> QED
      BY <1>1, <1>2, <3>1 DEF SameMap
  <2> QED
    BY <2>1, <2>3, <2>4, GoodSameMap
<1>9. CASE old # {} /\ new = {}
  <2>1. g1 = removeDef(g, s, c)
    BY <1>6, <1>9
  <2>2. Good(removeDef(g, s, c), under, [D EXCEPT ![s] = D[s] \ {c}]) /\ Moved(removeDef(g, s, c), g, s)
    BY <1>3, <1>9, RemoveDef
  <2>3. SameMap(D1, [D EXCEPT ![s] = D[s] \ {c}])
    <3>1. D1[s] = D[s] \ {c}
      BY <1>2, <1>3, <1>9
    <3> QED
      BY <1>1, <1>2, <3>1 DEF SameMap
  <2> QED
    BY <2>1, <2>2, <2>3, GoodSameMap
<1>10. CASE old # {} /\ new # {} /\ sameTargets(c, d)
  <2>1. g1 = reselect(g, under, s, d)
    BY <1>6, <1>10
  <2>2. /\ Good(reselect(g, under, s, d), under, [D EXCEPT ![s] = (D[s] \ {c}) \cup {d}])
        /\ Moved(reselect(g, under, s, d), g, s)
    BY <1>3, <1>5, <1>10, Reselect
  <2>3. SameMap(D1, [D EXCEPT ![s] = (D[s] \ {c}) \cup {d}])
    <3>1. D1[s] = (D[s] \ {c}) \cup {d}
      BY <1>2, <1>3, <1>5, <1>10
    <3> QED
      BY <1>1, <1>2, <3>1 DEF SameMap
  <2> QED
    BY <2>1, <2>2, <2>3, GoodSameMap
<1>11. CASE old # {} /\ new # {} /\ ~sameTargets(c, d)
  <2> DEFINE h == removeDef(g, s, c)
             D2 == [D EXCEPT ![s] = D[s] \ {c}]
  <2>1. g1 = addDef(h, under, s, d)
    BY <1>6, <1>11
  <2>2. Good(h, under, D2) /\ Moved(h, g, s)
    BY <1>3, <1>11, RemoveDef
  <2>3. D2[s] = D[s] \ {c} /\ DOMAIN D2 = DOMAIN D /\ \A k \in DOMAIN D : k # s => D2[k] = D[k]
    BY <1>1
  <2> HIDE DEF h, D2
  <2>4. s \in DOMAIN h.nodes /\ \A x \in D2[s] : x.label # d.label
    BY <1>3, <1>5, <1>11, <2>2, <2>3 DEF Moved, SameDefs
  <2>5. Good(g1, under, [D2 EXCEPT ![s] = D2[s] \cup {d}]) /\ Moved(g1, h, s)
    BY <1>5, <1>11, <2>1, <2>2, <2>4, AddDef
  <2>6. SameMap(D1, [D2 EXCEPT ![s] = D2[s] \cup {d}])
    <3>1. D1[s] = D2[s] \cup {d}
      BY <1>2, <1>3, <1>5, <1>11, <2>3
    <3> QED
      BY <1>1, <1>2, <2>3, <3>1 DEF SameMap
  <2> QED
    BY <2>2, <2>5, <2>6, GoodSameMap, MovedTrans
<1> QED
  BY <1>7, <1>8, <1>9, <1>10, <1>11

\* f is the graph after each of the first n labels of the merge
Merges(f, g, under, s, old, defs, n) ==
    f = [i \in 0..n |->
            IF i = 0 THEN g ELSE IF f[i - 1].panic THEN f[i - 1]
            ELSE mergeLabel(f[i - 1], under, s, withLabel(old, i), withLabel(defs, i))]

LEMMA MergesExist ==
    ASSUME NEW g, NEW under, NEW s, NEW old, NEW defs, NEW N \in Nat
    PROVE  \E f : Merges(f, g, under, s, old, defs, N)
<1> DEFINE step(a, i) == IF a.panic THEN a ELSE mergeLabel(a, under, s, withLabel(old, i), withLabel(defs, i))
           T == {n \in Nat : ~\E f : Merges(f, g, under, s, old, defs, n)}
<1> SUFFICES ASSUME T # {} PROVE FALSE
  OBVIOUS
<1>0. \A f, n : Merges(f, g, under, s, old, defs, n) <=>
            f = [i \in 0..n |-> IF i = 0 THEN g ELSE step(f[i - 1], i)]
  BY DEF Merges
<1>1. PICK n \in T : \A m \in T : n <= m
  <2>1. T \in SUBSET Nat
    OBVIOUS
  <2> HIDE DEF T
  <2> QED
    BY <2>1, Least
<1>2. n \in Nat /\ ~\E f : Merges(f, g, under, s, old, defs, n)
  BY <1>1
<1> HIDE DEF step
<1>3. CASE n = 0
  <2> DEFINE h == [i \in 0..0 |-> g]
  <2>1. h = [i \in 0..0 |-> IF i = 0 THEN g ELSE step(h[i - 1], i)]
    OBVIOUS
  <2> QED
    BY <1>0, <1>2, <1>3, <2>1
<1>4. CASE n # 0
  <2>1. n - 1 \in Nat /\ ~(n <= n - 1)
    BY <1>2, <1>4
  <2>2. PICK f : Merges(f, g, under, s, old, defs, n - 1)
    BY <1>1, <2>1
  <2>3. f = [i \in 0..(n - 1) |-> IF i = 0 THEN g ELSE step(f[i - 1], i)]
    BY <1>0, <2>2
  <2> DEFINE h == [i \in 0..n |-> IF i = n THEN step(f[n - 1], n) ELSE f[i]]
  <2>4. \A i \in 0..n : h[i] = IF i = 0 THEN g ELSE step(h[i - 1], i)
    <3> TAKE i \in 0..n
    <3>1. CASE i = n
      <4>1. n - 1 \in 0..n /\ n - 1 # n
        BY <1>2, <2>1
      <4>2. h[n] = step(f[n - 1], n) /\ h[n - 1] = f[n - 1]
        BY <1>2, <4>1
      <4> QED
        BY <1>4, <3>1, <4>2
    <3>2. CASE i = 0
      <4>1. 0 \in 0..(n - 1) /\ f[0] = g
        BY <2>1, <2>3
      <4> QED
        BY <1>4, <3>2, <4>1
    <3>3. CASE i # n /\ i # 0
      <4>1. i \in 0..(n - 1) /\ i - 1 \in 0..n /\ i - 1 # n /\ i \in 0..n
        BY <1>2, <3>3
      <4>2. f[i] = step(f[i - 1], i)
        BY <2>3, <3>3, <4>1
      <4>3. h[i] = f[i] /\ h[i - 1] = f[i - 1]
        BY <3>3, <4>1
      <4> QED
        BY <3>3, <4>2, <4>3
    <3> QED
      BY <3>1, <3>2, <3>3
  <2>5. h = [i \in 0..n |-> h[i]]
    OBVIOUS
  <2> HIDE DEF h
  <2>6. h = [i \in 0..n |-> IF i = 0 THEN g ELSE step(h[i - 1], i)]
    BY <2>4, <2>5
  <2> QED
    BY <1>0, <1>2, <2>6
<1> QED
  BY <1>3, <1>4

\* the definitions of the nodes; those of s after the first i labels of the merge
defsOf(g) == [k \in DOMAIN g.nodes |-> g.nodes[k].defs]
partly(g, s, defs, i) ==
    [k \in DOMAIN g.nodes |->
        IF k = s THEN {d \in g.nodes[s].defs : d.label > i} \cup {d \in defs : d.label <= i}
        ELSE g.nodes[k].defs]

LEMMA ListOneEach ==
    ASSUME NEW defs \in Lists \cup {{}}
    PROVE  OneEach(defs)
BY GraphAssumption DEF OneEach, AllDefs

LEMMA Merged ==
    ASSUME DirectoryPrefixes, SelectorsKept,
           NEW g, NEW under, Good(g, under, defsOf(g)), NEW s \in DOMAIN g.nodes,
           NEW defs \in Lists \cup {{}},
           NEW f, Merges(f, g, under, s, g.nodes[s].defs, defs, MaxLabel)
    PROVE  /\ Good(f[MaxLabel], under, partly(g, s, defs, MaxLabel)) /\ Moved(f[MaxLabel], g, s)
<1> DEFINE old == g.nodes[s].defs
           K == DOMAIN g.nodes
           at(i) == partly(g, s, defs, i)
           good(i) == Good(f[i], under, at(i)) /\ Moved(f[i], g, s)
           T == {i \in 0..MaxLabel : ~good(i)}
<1>1. MaxLabel \in Nat /\ OneEach(old) /\ OneEach(defs)
  BY GraphAssumption, ListOneEach DEF Good, defsOf
<1>2. /\ \A d \in old : d \in AllDefs /\ d.label \in Nat /\ d.label > 0
      /\ \A d \in defs : d \in AllDefs /\ d.label \in Nat /\ d.label > 0
  BY <1>1, DefFields DEF OneEach, Labels
<1>3. f[0] = g /\ \A i \in 1..MaxLabel :
          f[i] = IF f[i - 1].panic THEN f[i - 1]
                 ELSE mergeLabel(f[i - 1], under, s, withLabel(old, i), withLabel(defs, i))
  <2>1. 0 \in 0..MaxLabel /\ \A i \in 1..MaxLabel : i \in 0..MaxLabel /\ i # 0
    BY <1>1
  <2> QED
    BY <2>1 DEF Merges
<1>4. \A i : DOMAIN at(i) = K /\ at(i)[s] = {d \in old : d.label > i} \cup {d \in defs : d.label <= i}
             /\ \A k \in K : k # s => at(i)[k] = g.nodes[k].defs
  BY DEF partly
<1> HIDE DEF at, old
<1>5. good(0)
  <2>1. at(0)[s] = old
    <3>1. at(0)[s] = {d \in old : d.label > 0} \cup {d \in defs : d.label <= 0}
      BY <1>4
    <3>2. (\A d \in old : d.label > 0) /\ \A d \in defs : ~(d.label <= 0)
      BY <1>2
    <3> QED
      BY <3>1, <3>2
  <2>2. SameMap(at(0), defsOf(g))
    BY <1>4, <2>1 DEF SameMap, defsOf, old
  <2> QED
    BY <1>3, <2>2, GoodSameMap, MovedSame
<1>6. ASSUME NEW i \in 1..MaxLabel, good(i - 1) PROVE good(i)
  <2> DEFINE new == withLabel(defs, i)
             h == f[i - 1]
             D == at(i - 1)
  <2>1. Good(h, under, D) /\ Moved(h, g, s)
    BY <1>6
  <2>2. i \in Nat /\ i \in Labels /\ i - 1 \in Nat
    BY <1>1 DEF Labels
  <2>3. s \in DOMAIN h.nodes /\ h.panic = FALSE
    BY <2>1 DEF Good, Linked, Moved, SameDefs
  <2>4. withLabel(D[s], i) = withLabel(old, i)
    BY <1>2, <1>4, <2>2 DEF withLabel
  <2>5. OneEach(new) /\ \A d \in new : d.label = i
    BY <1>1 DEF withLabel, OneEach
  <2>6. f[i] = mergeLabel(h, under, s, withLabel(D[s], i), new)
    BY <1>3, <2>3, <2>4
  <2>7. SameMap(at(i), [D EXCEPT ![s] = {d \in D[s] : d.label # i} \cup new])
    <3>1. at(i)[s] = {d \in D[s] : d.label # i} \cup new
      BY <1>2, <1>4, <2>2 DEF withLabel
    <3> HIDE DEF new
    <3> QED
      BY <1>4, <3>1 DEF SameMap
  <2> HIDE DEF new, h, D
  <2>8. Good(f[i], under, at(i)) /\ Moved(f[i], h, s)
    BY <2>1, <2>2, <2>3, <2>5, <2>6, <2>7, MergeLabel
  <2> QED
    BY <2>1, <2>8, MovedTrans
<1>7. ASSUME T # {} PROVE FALSE
  <2>1. T \in SUBSET Nat
    BY <1>1
  <2> HIDE DEF T
  <2>2. PICK i \in T : \A m \in T : i <= m
    BY <1>7, <2>1, Least
  <2> HIDE DEF good
  <2>3. i \in 0..MaxLabel /\ ~good(i)
    BY <2>2 DEF T
  <2>4. i # 0
    BY <1>5, <2>3
  <2>5. i \in 1..MaxLabel /\ i - 1 \in 0..MaxLabel /\ ~(i <= i - 1)
    BY <1>1, <2>3, <2>4
  <2>6. good(i - 1)
    BY <2>2, <2>5 DEF T
  <2> QED
    BY <1>6, <2>3, <2>5, <2>6
<1>8. MaxLabel \in 0..MaxLabel
  BY <1>1
<1> QED
  BY <1>7, <1>8 DEF at

SameLinks(g1, g) ==
    /\ DOMAIN g1.nodes = DOMAIN g.nodes
    /\ \A k \in DOMAIN g.nodes : /\ g1.nodes[k].targets = g.nodes[k].targets
                                 /\ g1.nodes[k].sources = g.nodes[k].sources

\* What a graph promises depends on its links, its lookup and the definitions.
LEMMA GoodTransfer ==
    ASSUME NEW g, NEW under, NEW D, Good(g, under, D), NEW g1 \in Graphs, g1.panic = FALSE,
           SameLinks(g1, g), NEW under1, Knows(g1.el, under1, DOMAIN g.nodes),
           LiveEdges(g1.el) = LiveEdges(g.el)
    PROVE  Good(g1, under1, D)
<1>1. DOMAIN g1.nodes = DOMAIN g.nodes
  BY DEF SameLinks
<1>2. /\ \A k \in DOMAIN g.nodes : \A m, x : target(g1, k, m, x) <=> target(g, k, m, x)
      /\ \A k \in DOMAIN g.nodes : \A m, x : source(g1, k, m, x) <=> source(g, k, m, x)
  BY DEF SameLinks, target, source
<1>3. SourcesInv(g1) /\ TargetsKnown(g1)
  BY <1>1, <1>2 DEF Good, Linked, SourcesInv, TargetsKnown
<1>4. TargetsInv(g1, D)
  BY <1>1, <1>2 DEF Good, TargetsInv
<1>5. EdgesInv(g1.el, D)
  BY DEF Good, EdgesInv
<1> QED
  BY <1>1, <1>3, <1>4, <1>5 DEF Good, Linked

\* what SetTargets(defs) leaves
TargetsSet(g1, g, under, s, defs) ==
    /\ Good(g1, under, defsOf(g1)) /\ Tracks(g1, g, {s})
    /\ DOMAIN g1.nodes = DOMAIN g.nodes /\ g1.nodes[s].defs = defs /\ g1.nodes[s].updated = TRUE
    /\ g1.el.nodeKeyMap = g.el.nodeKeyMap /\ g1.el.overlay = g.el.overlay

\* SetTargets leaves the graph with the links that the new definitions ask for.
LEMMA SetTargetsGood ==
    ASSUME DirectoryPrefixes, SelectorsKept,
           NEW g, NEW under, Good(g, under, defsOf(g)), NEW s \in DOMAIN g.nodes,
           NEW defs \in Lists \cup {{}}, NEW g1, g1 = setTargets(g, under, s, defs)
    PROVE  TargetsSet(g1, g, under, s, defs)
<1> DEFINE old == g.nodes[s].defs
           f == CHOOSE f : Merges(f, g, under, s, old, defs, MaxLabel)
           h == f[MaxLabel]
           D == partly(g, s, defs, MaxLabel)
           K == DOMAIN g.nodes
<1>1. Merges(f, g, under, s, old, defs, MaxLabel)
  BY GraphAssumption, MergesExist
<1>2. g1 = IF h.panic THEN h ELSE withDefs(h, s, defs)
  BY DEF setTargets, Merges
<1> HIDE DEF f
<1>3. Good(h, under, D) /\ Moved(h, g, s)
  BY <1>1, Merged
<1> HIDE DEF h
<1>4. h \in Graphs /\ h.panic = FALSE /\ DOMAIN h.nodes = K /\ Sound(h.el)
      /\ \A k \in K : h.nodes[k].defs = g.nodes[k].defs /\ h.nodes[k] \in NodeRecords
  <2>1. h \in Graphs /\ h.panic = FALSE /\ DOMAIN h.nodes = K /\ Sound(h.el)
    BY <1>3, GoodTypes DEF Moved, SameDefs
  <2>2. \A k \in DOMAIN h.nodes : h.nodes[k] \in NodeRecords
    BY <2>1, NodeFields DEF Graphs
  <2> QED
    BY <1>3, <2>1, <2>2 DEF Moved, SameDefs
<1> DEFINE n1 == [h.nodes EXCEPT ![s] = [h.nodes[s] EXCEPT !.defs = defs, !.updated = TRUE]]
<1>5. g1 = [h EXCEPT !.nodes = n1]
  BY <1>2, <1>4 DEF withDefs, Graphs, NodeRecords
<1>6. /\ n1 \in [K -> NodeRecords] /\ n1[s].defs = defs /\ n1[s].updated = TRUE
      /\ n1[s].targets = h.nodes[s].targets /\ n1[s].sources = h.nodes[s].sources
      /\ \A k \in K : k # s => n1[k] = h.nodes[k]
  BY <1>4 DEF NodeRecords
<1> HIDE DEF n1
<1>7. K \subseteq Keys
  BY GoodTypes
<1>8. /\ g1 \in Graphs /\ g1.panic = FALSE /\ g1.nodes = n1 /\ g1.el = h.el /\ g1.unsaved = h.unsaved
      /\ DOMAIN g1.nodes = K
  <2>1. n1 \in NodeMaps /\ DOMAIN n1 = K
    BY <1>6, <1>7, NodeMapType
  <2> QED
    BY <1>4, <1>5, <2>1 DEF Graphs
<1>9. SameLinks(g1, h)
  BY <1>4, <1>6, <1>8 DEF SameLinks
<1>10. Good(g1, under, D)
  <2>1. Knows(g1.el, under, DOMAIN h.nodes) /\ LiveEdges(g1.el) = LiveEdges(h.el)
    BY <1>3, <1>8 DEF Good
  <2> QED
    BY <1>3, <1>8, <1>9, <2>1, GoodTransfer
<1>11. SameMap(defsOf(g1), D)
  <2>1. \A d \in old \cup defs : d.label \in 1..MaxLabel
    <3>1. OneEach(old) /\ OneEach(defs)
      BY ListOneEach DEF Good, defsOf
    <3> QED
      BY <3>1, DefFields DEF OneEach, Labels
  <2>2. {d \in old : d.label > MaxLabel} \cup {d \in defs : d.label <= MaxLabel} = defs
    <3>1. MaxLabel \in Nat /\ (\A d \in old : ~(d.label > MaxLabel)) /\ \A d \in defs : d.label <= MaxLabel
      BY <2>1, GraphAssumption
    <3> HIDE DEF old
    <3> QED
      BY <3>1
  <2>3. DOMAIN D = K /\ D[s] = defs /\ \A k \in K : k # s => D[k] = g.nodes[k].defs
    BY <2>2 DEF partly
  <2>4. DOMAIN defsOf(g1) = K /\ defsOf(g1)[s] = defs /\ \A k \in K : k # s => defsOf(g1)[k] = g.nodes[k].defs
    BY <1>4, <1>6, <1>8 DEF defsOf
  <2> HIDE DEF D
  <2> QED
    BY <2>3, <2>4 DEF SameMap
<1>12. Good(g1, under, defsOf(g1))
  BY <1>10, <1>11, GoodSameMap
<1>13. Tracks(g1, g, {s})
  <2>1. Tracks(g1, h, {s})
    BY <1>4, <1>6, <1>8 DEF Tracks, noted, unchanged
  <2> QED
    BY <1>3, <2>1, TracksTrans DEF Moved
<1> QED
  BY <1>3, <1>6, <1>8, <1>12, <1>13 DEF Moved, TargetsSet

-----------------------------------------------------------------------------
(* SetNode *)

Src(k, l) == [sourceNode |-> k, label |-> l]

\* a definition with the label matches the key
offers(S, label, key) == \E d \in S : d.label = label /\ candidate(d, key)

DefMap(D) == DOMAIN D \subseteq Keys /\ \A k \in DOMAIN D : OneEach(D[k])

\* iterSources finds the definitions that match the key.
LEMMA SourcesFound ==
    ASSUME DirectoryPrefixes, NEW el, Sound(el), NEW D, DefMap(D), EdgesInv(el, D), NEW key \in Keys
    PROVE  /\ \A k, l : Src(k, l) \in iterSources(el, key) <=> k \in DOMAIN D /\ offers(D[k], l, key)
           /\ \A s \in iterSources(el, key) : /\ s = Src(s.sourceNode, s.label)
                                              /\ s.sourceNode \in DOMAIN D /\ s.label \in Labels
<1> DEFINE R == {e \in LiveEdges(el) : reaches(e, key)}
           I == iterSources(el, key)
<1>1. I = {Src(e.sourceNode, e.label) : e \in R}
  BY KeyIsPath, IterSources DEF Src
<1>2. \A k \in DOMAIN D : k \in Paths /\ \A d \in D[k] : d \in AllDefs /\ d.label \in Labels
  BY KeyIsPath, DefFields DEF DefMap, OneEach
<1>3. ASSUME NEW e \in R
      PROVE  /\ e.sourceNode \in DOMAIN D /\ e.label \in Labels
             /\ offers(D[e.sourceNode], e.label, key)
  <2>1. hasEdge(D, e) /\ reaches(e, key)
    BY DEF EdgesInv
  <2>2. PICK k \in DOMAIN D : \E d \in D[k] : e \in edgeSet(k, d)
    BY <2>1 DEF hasEdge
  <2>3. PICK d \in D[k] : e \in edgeSet(k, d)
    BY <2>2
  <2>4. d \in AllDefs /\ d.label \in Labels /\ k \in Paths
    BY <1>2
  <2>5. e \in OwnEdges(k, d.label)
    BY <2>3, <2>4, EdgesOfDef
  <2>6. e.sourceNode = k /\ e.label = d.label
    BY <2>5 DEF OwnEdges
  <2>7. candidate(d, key)
    BY <2>1, <2>3, <2>4, EdgesReach
  <2> QED
    BY <2>4, <2>6, <2>7 DEF offers
<1>4. ASSUME NEW k \in DOMAIN D, NEW l, offers(D[k], l, key)
      PROVE  \E e \in R : e.sourceNode = k /\ e.label = l
  <2>1. PICK d \in D[k] : d.label = l /\ candidate(d, key)
    BY <1>4 DEF offers
  <2>2. d \in AllDefs /\ k \in Paths
    BY <1>2
  <2>3. PICK e \in edgeSet(k, d) : reaches(e, key)
    BY <2>1, <2>2, EdgesReach
  <2>4. e \in OwnEdges(k, d.label)
    BY <2>2, <2>3, EdgesOfDef
  <2>5. e.sourceNode = k /\ e.label = l
    BY <2>1, <2>4 DEF OwnEdges
  <2>6. e \in LiveEdges(el)
    BY <2>3 DEF EdgesInv, hasEdge
  <2> QED
    BY <2>3, <2>5, <2>6
<1> HIDE DEF R, I
<1>5. \A k, l, m, j : Src(k, l) = Src(m, j) => k = m /\ l = j
  BY DEF Src
<1>6. \A k, l : Src(k, l) \in I <=> k \in DOMAIN D /\ offers(D[k], l, key)
  BY <1>1, <1>3, <1>4, <1>5
<1>7. ASSUME NEW s \in I
      PROVE  s = Src(s.sourceNode, s.label) /\ s.sourceNode \in DOMAIN D /\ s.label \in Labels
  <2>1. PICK e \in R : s = Src(e.sourceNode, e.label)
    BY <1>1
  <2>2. s.sourceNode = e.sourceNode /\ s.label = e.label
    BY <2>1 DEF Src
  <2> QED
    BY <1>3, <2>1, <2>2
<1> QED
  BY <1>6, <1>7 DEF I

\* only an overlay remembers keys that were removed; an operation keeps it that way
Plain(el) == el.overlay = FALSE => \A k \in DOMAIN el.nodeKeyMap : el.nodeKeyMap[k] = TRUE
KeepsPlain(el1, el) == el1.overlay = el.overlay /\ (Plain(el) => Plain(el1))

LEMMA KnowsNewKey ==
    ASSUME NEW el, NEW el1, NEW under, NEW K, NEW key \in Paths, Knows(el, under, K),
           KeyStep(el1, el, LiveKeys(el) \cup {key}, remembered(el, key, TRUE))
    PROVE  Knows(el1, under, K \cup {key}) /\ LiveEdges(el1) = LiveEdges(el) /\ KeepsPlain(el1, el)
<1> DEFINE map == remembered(el, key, TRUE)
<1>1. Sound(el1) /\ el1.nodeKeyMap = map /\ el1.overlay = el.overlay /\ LiveKeys(el1) = K \cup {key}
  BY DEF KeyStep, Knows
<1>2. DOMAIN map = DOMAIN el.nodeKeyMap \cup {key} /\ map[key] = TRUE
      /\ \A k \in DOMAIN el.nodeKeyMap : k # key => map[k] = el.nodeKeyMap[k]
  BY DEF remembered
<1> HIDE DEF map
<1>3. \A k : known(el1, under, k) <=> k = key \/ known(el, under, k)
  BY <1>1, <1>2 DEF known
<1>4. \A k \in Paths : known(el1, under, k) <=> k \in K \cup {key}
  BY <1>3 DEF Knows
<1>5. LiveEdges(el1) = LiveEdges(el)
  BY DEF KeyStep, SameEdges, LiveEdges
<1>6. KeepsPlain(el1, el)
  BY <1>1, <1>2 DEF KeepsPlain, Plain
<1> QED
  BY <1>1, <1>4, <1>5, <1>6 DEF Knows

\* the links from the definitions of new, a set of sources, to a node
LEMMA LinkNodes ==
    ASSUME NEW g \in Graphs, NEW key \in DOMAIN g.nodes, NEW new,
           \A s \in new : s.sourceNode \in DOMAIN g.nodes /\ s.label \in Labels,
           new = {s \in {s \in iterSources(g.el, key) : selects(defOf(g, s), key)} :
                    [label |-> s.label, key |-> key] \notin g.nodes[s.sourceNode].targets}
    PROVE  Relinked(linkSources(g, key), g,
                    [k \in DOMAIN g.nodes |->
                        g.nodes[k].targets \cup {Link(s.label, key) : s \in {s \in new : s.sourceNode = k}}],
                    [k \in DOMAIN g.nodes |->
                        IF k = key THEN g.nodes[k].sources \cup {Link(s.label, s.sourceNode) : s \in new}
                        ELSE g.nodes[k].sources],
                    [k \in DOMAIN g.nodes |->
                        g.nodes[k].updated \/ (new # {} /\ k = key) \/ \E s \in new : s.sourceNode = k],
                    g.unsaved \cup {s.sourceNode : s \in new} \cup {key : s \in new})
<1> DEFINE K == DOMAIN g.nodes
           to(k) == {Link(s.label, key) : s \in {s \in new : s.sourceNode = k}}
           back == {Link(s.label, s.sourceNode) : s \in new}
           mark(k) == (new # {} /\ k = key) \/ \E s \in new : s.sourceNode = k
           more == {s.sourceNode : s \in new} \cup {key : s \in new}
           targets == [k \in K |-> g.nodes[k].targets \cup to(k)]
           sources == [k \in K |-> IF k = key THEN g.nodes[k].sources \cup back ELSE g.nodes[k].sources]
           updated == [k \in K |-> g.nodes[k].updated \/ mark(k)]
           touched(k, n) ==
               [n EXCEPT !.targets = @ \cup to(k), !.sources = IF k = key THEN @ \cup back ELSE @,
                         !.updated = @ \/ mark(k)]
           n1 == [k \in K |-> touched(k, g.nodes[k])]
           g1 == linkSources(g, key)
<1>1. g1 = [g EXCEPT !.nodes = n1, !.unsaved = g.unsaved \cup more]
  BY DEF linkSources, Link, Graphs
<1>2. K \subseteq Keys /\ (\A k \in K : g.nodes[k] \in NodeRecords) /\ g.unsaved \subseteq Keys
  BY NodeFields DEF Graphs
<1>3. (\A k : to(k) \subseteq Links) /\ back \subseteq Links
  <2>1. ASSUME NEW k, NEW t \in to(k)
        PROVE  t \in Links
    <3>1. PICK s \in new : t = Link(s.label, key)
      OBVIOUS
    <3>2. s.label \in Labels /\ key \in Keys
      BY <1>2
    <3> QED
      BY <3>1, <3>2, LinkType
  <2>2. ASSUME NEW t \in back
        PROVE  t \in Links
    <3>1. PICK s \in new : t = Link(s.label, s.sourceNode)
      OBVIOUS
    <3>2. s.label \in Labels /\ s.sourceNode \in Keys
      BY <1>2
    <3> QED
      BY <3>1, <3>2, LinkType
  <2> HIDE DEF to, back
  <2> QED
    BY <2>1, <2>2
<1>4. more \subseteq Keys
  BY <1>2
<1>5. \A k \in K : mark(k) \in BOOLEAN
  OBVIOUS
<1> HIDE DEF to, back, mark, more
<1>6. ASSUME NEW k \in K
      PROVE  /\ n1[k] \in NodeRecords
             /\ n1[k].defs = g.nodes[k].defs /\ n1[k].targets = targets[k]
             /\ n1[k].sources = sources[k] /\ n1[k].updated = updated[k]
  <2>1. n1[k] = [defs |-> g.nodes[k].defs, targets |-> targets[k], sources |-> sources[k], updated |-> updated[k]]
    BY <1>2, <1>6 DEF NodeRecords
  <2>2. targets[k] \in SUBSET Links /\ sources[k] \in SUBSET Links /\ g.nodes[k].defs \in Lists \cup {{}}
    BY <1>2, <1>3, <1>6 DEF NodeRecords
  <2>3. updated[k] \in BOOLEAN
    BY <1>2, <1>5, <1>6 DEF NodeRecords
  <2> HIDE DEF n1, targets, sources, updated
  <2> QED
    BY <2>1, <2>2, <2>3 DEF NodeRecords
<1> HIDE DEF g1
<1>7. g1 = [nodes |-> n1, el |-> g.el, unsaved |-> g.unsaved \cup more, panic |-> g.panic]
  BY <1>1 DEF Graphs
<1>8. n1 \in [K -> NodeRecords] /\ DOMAIN n1 = K
  BY <1>6
<1> HIDE DEF n1, targets, sources, updated
<1>9. g1 \in Graphs
  BY <1>2, <1>4, <1>7, <1>8, NodeMapType DEF Graphs
<1>10. Relinked(g1, g, targets, sources, updated, g.unsaved \cup more)
  BY <1>6, <1>7, <1>8, <1>9 DEF Relinked
<1>11. g.unsaved \cup more = g.unsaved \cup {s.sourceNode : s \in new} \cup {key : s \in new}
  BY DEF more
<1> QED
  BY <1>10, <1>11 DEF g1, targets, sources, updated, to, back, mark

\* h is the graph with the new node, before it is linked
Grown(h, g, under, key) ==
    /\ h \in Graphs /\ h.panic = FALSE /\ h.unsaved = g.unsaved \cup {key}
    /\ DOMAIN h.nodes = DOMAIN g.nodes \cup {key} /\ h.nodes[key] = NewNode
    /\ \A k \in DOMAIN g.nodes : h.nodes[k] = g.nodes[k]
    /\ Knows(h.el, under, DOMAIN h.nodes) /\ LiveEdges(h.el) = LiveEdges(g.el)
    /\ KeepsPlain(h.el, g.el)

LEMMA WithNode ==
    ASSUME NEW g, NEW under, NEW D, Good(g, under, D), NEW key \in Keys, key \notin DOMAIN g.nodes,
           NEW h, h = withNode([g EXCEPT !.unsaved = @ \cup {key}], key)
    PROVE  Grown(h, g, under, key)
<1> DEFINE K == DOMAIN g.nodes
           n1 == [k \in K \cup {key} |-> IF k = key THEN NewNode ELSE g.nodes[k]]
           el1 == addNodeKey(g.el, key)
<1>1. /\ g \in Graphs /\ g.panic = FALSE /\ Sound(g.el) /\ K \subseteq Keys /\ key \in Paths
      /\ \A k \in K : g.nodes[k] \in NodeRecords
  <2>1. g \in Graphs /\ g.panic = FALSE /\ Sound(g.el)
    BY GoodTypes
  <2> QED
    BY <2>1, NodeFields, KeyIsPath DEF Graphs
<1>2. h = [nodes |-> n1, el |-> el1, unsaved |-> g.unsaved \cup {key}, panic |-> g.panic]
  BY <1>1 DEF withNode, Graphs
<1>3. KeyStep(el1, g.el, LiveKeys(g.el) \cup {key}, remembered(g.el, key, TRUE))
  BY <1>1, AddNodeKey
<1> HIDE DEF el1
<1>4. Knows(el1, under, K \cup {key}) /\ LiveEdges(el1) = LiveEdges(g.el) /\ KeepsPlain(el1, g.el)
  BY <1>1, <1>3, KnowsNewKey DEF Good
<1>5. NewNode \in NodeRecords
  BY DEF NewNode, NodeRecords
<1>6. n1 \in [K \cup {key} -> NodeRecords] /\ n1[key] = NewNode /\ \A k \in K : n1[k] = g.nodes[k]
  BY <1>1, <1>5
<1> HIDE DEF n1
<1>7. n1 \in NodeMaps /\ DOMAIN n1 = K \cup {key}
  <2>1. K \cup {key} \in SUBSET Keys
    BY <1>1
  <2> QED
    BY <1>6, <2>1, NodeMapType
<1>8. h \in Graphs
  <2>1. el1 \in Lookups
    BY <1>4 DEF Knows, Sound
  <2> QED
    BY <1>1, <1>2, <1>7, <2>1 DEF Graphs
<1>9. h.panic = FALSE /\ h.nodes = n1 /\ h.el = el1 /\ h.unsaved = g.unsaved \cup {key}
  BY <1>1, <1>2
<1> QED
  BY <1>4, <1>6, <1>7, <1>8, <1>9 DEF Grown

\* A new node is linked from the nodes that select it.
LEMMA LinkSources ==
    ASSUME DirectoryPrefixes, NEW g, NEW under, Good(g, under, defsOf(g)),
           NEW key \in Keys, key \notin DOMAIN g.nodes,
           NEW h, h = withNode([g EXCEPT !.unsaved = @ \cup {key}], key)
    PROVE  LET g1 == linkSources(h, key)
           IN  /\ Good(g1, under, defsOf(g1)) /\ Tracks(g1, g, {}) /\ KeepsPlain(g1.el, g.el)
               /\ key \in DOMAIN g1.nodes /\ key \in g1.unsaved
<1> DEFINE K == DOMAIN g.nodes
           D == defsOf(g)
           from == {s \in iterSources(h.el, key) : selects(defOf(h, s), key)}
           new == {s \in from : [label |-> s.label, key |-> key] \notin h.nodes[s.sourceNode].targets}
           to(k) == {Link(s.label, key) : s \in {s \in new : s.sourceNode = k}}
           back == {Link(s.label, s.sourceNode) : s \in new}
           mark(k) == (new # {} /\ k = key) \/ \E s \in new : s.sourceNode = k
           targets == [k \in DOMAIN h.nodes |-> h.nodes[k].targets \cup to(k)]
           sources == [k \in DOMAIN h.nodes |-> IF k = key THEN h.nodes[k].sources \cup back
                                                ELSE h.nodes[k].sources]
           updated == [k \in DOMAIN h.nodes |->
                          h.nodes[k].updated \/ (new # {} /\ k = key) \/ \E s \in new : s.sourceNode = k]
           unsaved == h.unsaved \cup {s.sourceNode : s \in new} \cup {key : s \in new}
           g1 == linkSources(h, key)
           D1 == defsOf(g1)
<1>1. /\ h \in Graphs /\ h.panic = FALSE /\ h.unsaved = g.unsaved \cup {key}
      /\ DOMAIN h.nodes = K \cup {key} /\ h.nodes[key] = NewNode
      /\ \A k \in K : h.nodes[k] = g.nodes[k]
      /\ Knows(h.el, under, DOMAIN h.nodes) /\ LiveEdges(h.el) = LiveEdges(g.el)
      /\ KeepsPlain(h.el, g.el)
  <2>1. Grown(h, g, under, key)
    BY WithNode
  <2> QED
    BY <2>1 DEF Grown
<1>2. /\ g \in Graphs /\ SourcesInv(g) /\ TargetsKnown(g) /\ K \subseteq Keys /\ DOMAIN D = K
      /\ \A k \in K : OneEach(D[k]) /\ D[k] = g.nodes[k].defs
      /\ \A k \in K : \A d \in D[k] : d.label \in Labels
  BY GoodTypes DEF Good, defsOf
<1>3. DefMap(D) /\ Sound(h.el) /\ EdgesInv(h.el, D)
  BY <1>1, <1>2 DEF DefMap, Knows, Good, EdgesInv
<1>4. /\ \A k, l : Src(k, l) \in iterSources(h.el, key) <=> k \in K /\ offers(D[k], l, key)
      /\ \A s \in iterSources(h.el, key) : /\ s = Src(s.sourceNode, s.label)
                                           /\ s.sourceNode \in K /\ s.label \in Labels
  BY <1>2, <1>3, SourcesFound
<1>5. \A k, l : Src(k, l).sourceNode = k /\ Src(k, l).label = l
  BY DEF Src
<1>6. ASSUME NEW k \in K, NEW l, offers(D[k], l, key)
      PROVE  selects(defOf(h, Src(k, l)), key) <=> asks(D[k], l, key)
  <2>1. PICK d \in D[k] : d.label = l /\ candidate(d, key)
    BY <1>6 DEF offers
  <2>2. \A c \in D[k] : c.label = l <=> c = d
    BY <1>2, <2>1 DEF OneEach
  <2>3. defOf(h, Src(k, l)) = d
    <3>1. h.nodes[Src(k, l).sourceNode].defs = D[k] /\ Src(k, l).label = l
      <4>1. h.nodes[k] = g.nodes[k]
        BY <1>1
      <4>2. D[k] = g.nodes[k].defs
        BY <1>2
      <4>3. Src(k, l).sourceNode = k /\ Src(k, l).label = l
        BY <1>5
      <4> QED
        BY <4>1, <4>2, <4>3
    <3>2. defOf(h, Src(k, l)) \in D[k] /\ defOf(h, Src(k, l)).label = l
      BY <2>1, <3>1 DEF defOf
    <3> QED
      BY <2>2, <3>2
  <2>4. asks(D[k], l, key) <=> wanted(d, key)
    BY <2>2 DEF asks
  <2> QED
    BY <2>1, <2>3, <2>4 DEF wanted
<1>7. \A k \in K, l \in Labels : ~target(g, k, l, key)
  BY <1>2 DEF TargetsKnown
<1>8. \A k, l : Src(k, l) \in new <=> k \in K /\ asks(D[k], l, key)
  <2> TAKE k, l
  <2>1. Src(k, l) \in from <=> k \in K /\ asks(D[k], l, key)
    <3>1. asks(D[k], l, key) => offers(D[k], l, key)
      BY DEF asks, offers, wanted
    <3> QED
      BY <1>4, <1>6, <3>1
  <2>2. k \in K /\ asks(D[k], l, key) => [label |-> l, key |-> key] \notin h.nodes[k].targets
    <3>1. k \in K /\ asks(D[k], l, key) => l \in Labels
      BY <1>2 DEF asks
    <3> QED
      BY <1>1, <1>7, <3>1 DEF target, Link
  <2> HIDE DEF from
  <2> QED
    BY <1>5, <2>1, <2>2
<1>9. \A s \in new : s = Src(s.sourceNode, s.label) /\ s.sourceNode \in K /\ s.label \in Labels
  BY <1>4
<1>10. Relinked(g1, h, targets, sources, updated, unsaved)
  <2>1. \A s \in new : s.sourceNode \in DOMAIN h.nodes /\ s.label \in Labels
    BY <1>1, <1>9
  <2>2. key \in DOMAIN h.nodes
    BY <1>1
  <2> HIDE DEF g1
  <2> QED
    BY <1>1, <2>1, <2>2, LinkNodes DEF g1
<1> HIDE DEF new, from, g1, D
<1>11. \A k, l, x : Link(l, x) \in to(k) <=> x = key /\ Src(k, l) \in new
  BY <1>5, <1>9, LinkFields
<1>12. \A l, y : Link(l, y) \in back <=> Src(y, l) \in new
  BY <1>5, <1>9, LinkFields
<1> HIDE DEF to, back
<1>13. /\ g1 \in Graphs /\ g1.panic = FALSE /\ g1.el = h.el /\ DOMAIN g1.nodes = K \cup {key}
       /\ g1.unsaved = unsaved
       /\ \A k \in DOMAIN h.nodes :
             /\ g1.nodes[k].defs = h.nodes[k].defs /\ g1.nodes[k].targets = targets[k]
             /\ g1.nodes[k].sources = sources[k] /\ g1.nodes[k].updated = updated[k]
  BY <1>1, <1>10 DEF Relinked
<1>14. NewNode.defs = {} /\ NewNode.targets = {} /\ NewNode.sources = {} /\ NewNode.updated = TRUE
  BY DEF NewNode
<1>15. /\ DOMAIN D1 = K \cup {key} /\ D1[key] = {} /\ \A k \in K : D1[k] = D[k]
  <2>1. \A k \in DOMAIN g1.nodes : g1.nodes[k].defs = h.nodes[k].defs
    BY <1>1, <1>13
  <2>2. DOMAIN D1 = DOMAIN g1.nodes /\ \A k \in DOMAIN g1.nodes : D1[k] = h.nodes[k].defs
    BY <2>1 DEF defsOf
  <2> HIDE DEF D1
  <2> QED
    <3>1. \A k \in K : h.nodes[k] = g.nodes[k] /\ D[k] = g.nodes[k].defs
      BY <1>1, <1>2
    <3>2. DOMAIN g1.nodes = K \cup {key} /\ h.nodes[key].defs = {}
      BY <1>1, <1>13, <1>14
    <3> QED
      BY <2>2, <3>1, <3>2
<1> HIDE DEF D1
<1>16. \A k \in K, l \in Labels, x \in Keys :
           target(g1, k, l, x) <=> target(g, k, l, x) \/ (x = key /\ asks(D[k], l, key))
  <2> TAKE k \in K, l \in Labels, x \in Keys
  <2>1. g1.nodes[k].targets = g.nodes[k].targets \cup to(k)
    BY <1>1, <1>13
  <2> QED
    BY <1>8, <1>11, <2>1 DEF target
<1>17. \A l \in Labels, x \in Keys : ~target(g1, key, l, x)
  <2> TAKE l \in Labels, x \in Keys
  <2>1. g1.nodes[key].targets = {} \cup to(key)
    BY <1>1, <1>13, <1>14
  <2> QED
    BY <1>8, <1>11, <2>1 DEF target
<1>18. \A k \in K, l \in Labels, y \in Keys : source(g1, k, l, y) <=> source(g, k, l, y)
  <2> TAKE k \in K, l \in Labels, y \in Keys
  <2>1. g1.nodes[k].sources = g.nodes[k].sources
    <3>1. k # key /\ k \in DOMAIN h.nodes /\ h.nodes[k] = g.nodes[k]
      BY <1>1
    <3>2. g1.nodes[k].sources = sources[k]
      BY <1>13, <3>1
    <3>3. sources[k] = h.nodes[k].sources
      BY <3>1
    <3> QED
      BY <3>1, <3>2, <3>3
  <2> QED
    BY <2>1 DEF source
<1>19. \A l \in Labels, y \in Keys : source(g1, key, l, y) <=> y \in K /\ asks(D[y], l, key)
  <2> TAKE l \in Labels, y \in Keys
  <2>1. g1.nodes[key].sources = {} \cup back
    BY <1>1, <1>13, <1>14
  <2> QED
    BY <1>8, <1>12, <2>1 DEF source
<1>20. SourcesInv(g1)
  <2>1. ASSUME NEW k \in K, NEW l \in Labels, NEW y \in Keys
        PROVE  source(g1, k, l, y) <=> y \in K \cup {key} /\ target(g1, y, l, k)
    <3>1. source(g1, k, l, y) <=> y \in K /\ target(g, y, l, k)
      BY <1>2, <1>18 DEF SourcesInv
    <3>2. y \in K => (target(g1, y, l, k) <=> target(g, y, l, k))
      BY <1>2, <1>16
    <3>3. k \in Keys
      BY <1>2
    <3> QED
      BY <1>17, <3>1, <3>2, <3>3
  <2>2. ASSUME NEW l \in Labels, NEW y \in Keys
        PROVE  source(g1, key, l, y) <=> y \in K \cup {key} /\ target(g1, y, l, key)
    <3>1. y \in K => (target(g1, y, l, key) <=> asks(D[y], l, key))
      BY <1>7, <1>16
    <3> QED
      BY <1>17, <1>19, <3>1
  <2> QED
    BY <1>13, <2>1, <2>2 DEF SourcesInv
<1>21. TargetsInv(g1, D1) /\ TargetsKnown(g1)
  <2>1. ASSUME NEW k \in K \cup {key}, NEW l \in Labels, NEW x \in Keys
        PROVE  target(g1, k, l, x) <=> x \in K \cup {key} /\ asks(D1[k], l, x)
    <3>1. CASE k = key
      BY <1>15, <1>17, <3>1 DEF asks
    <3>2. CASE k \in K
      <4>1. target(g, k, l, x) <=> x \in K /\ asks(D[k], l, x)
        BY <3>2 DEF Good, TargetsInv, D
      <4> QED
        BY <1>15, <1>16, <3>2, <4>1
    <3> QED
      BY <3>1, <3>2
  <2> QED
    BY <1>13, <2>1 DEF TargetsInv, TargetsKnown
<1>22. EdgesInv(g1.el, D1)
  <2>1. \A e : hasEdge(D1, e) <=> hasEdge(D, e)
    BY <1>2, <1>15 DEF hasEdge
  <2> QED
    BY <1>3, <1>13, <2>1 DEF EdgesInv
<1>23. Good(g1, under, D1)
  <2>1. \A k \in DOMAIN D1 : OneEach(D1[k])
    BY <1>2, <1>15 DEF OneEach
  <2> QED
    BY <1>1, <1>13, <1>15, <1>20, <1>21, <1>22, <2>1 DEF Good, Linked
<1>24. Tracks(g1, g, {})
  <2>1. ASSUME NEW k \in Keys PROVE noted(g1, k) \/ unchanged(g1, g, k)
    <3>1. CASE k = key
      BY <1>1, <1>13, <1>14, <3>1 DEF noted
    <3>2. CASE k \in K /\ \E s \in new : s.sourceNode = k
      <4>1. k \in DOMAIN h.nodes
        BY <1>1, <3>2
      <4>2. g1.nodes[k].updated = TRUE
        BY <1>13, <3>2, <4>1
      <4>3. k \in g1.unsaved
        BY <1>13, <3>2
      <4> QED
        BY <4>2, <4>3 DEF noted
    <3>3. CASE k \in K /\ ~\E s \in new : s.sourceNode = k
      <4>1. to(k) = {}
        BY <3>3 DEF to
      <4>2. /\ g1.nodes[k].targets = g.nodes[k].targets /\ g1.nodes[k].sources = g.nodes[k].sources
            /\ g1.nodes[k].defs = g.nodes[k].defs
        <5>1. k # key /\ k \in DOMAIN h.nodes /\ h.nodes[k] = g.nodes[k]
          BY <1>1, <3>3
        <5>2. /\ g1.nodes[k].targets = targets[k] /\ g1.nodes[k].sources = sources[k]
              /\ g1.nodes[k].defs = h.nodes[k].defs
          BY <1>13, <5>1
        <5>3. targets[k] = h.nodes[k].targets /\ sources[k] = h.nodes[k].sources
          BY <4>1, <5>1
        <5> HIDE DEF targets, sources
        <5> QED
          BY <5>1, <5>2, <5>3
      <4>3. g.nodes[k] \in NodeRecords /\ g1.nodes[k] \in NodeRecords
        BY <1>2, <1>13, <3>3, NodeFields DEF Graphs
      <4>4. g1.nodes[k].updated = g.nodes[k].updated
        BY <1>1, <1>13, <3>3, <4>3 DEF NodeRecords
      <4>5. g1.nodes[k] = g.nodes[k]
        BY <4>2, <4>3, <4>4 DEF NodeRecords
      <4> QED
        BY <1>13, <3>3, <4>5 DEF unchanged
    <3>4. CASE k \notin K \cup {key}
      BY <1>13, <3>4 DEF unchanged
    <3> QED
      BY <3>1, <3>2, <3>3, <3>4
  <2> QED
    BY <1>1, <1>13, <2>1 DEF Tracks
<1>25. KeepsPlain(g1.el, g.el) /\ key \in DOMAIN g1.nodes /\ key \in g1.unsaved
  BY <1>1, <1>13
<1> QED
  BY <1>23, <1>24, <1>25 DEF g1, D1

\* A node that is set is there, with the links from the nodes that select it.
LEMMA SetNodeGood ==
    ASSUME DirectoryPrefixes, NEW g, NEW under, Good(g, under, defsOf(g)), NEW key \in Keys,
           NEW g1, g1 = setNode(g, key)
    PROVE  /\ Good(g1, under, defsOf(g1)) /\ Tracks(g1, g, {}) /\ KeepsPlain(g1.el, g.el)
           /\ key \in DOMAIN g1.nodes /\ key \in g1.unsaved
<1>1. g \in Graphs /\ g.panic = FALSE
  BY GoodTypes
<1>2. CASE key \in DOMAIN g.nodes
  <2>1. g1 = [g EXCEPT !.unsaved = @ \cup {key}]
    BY <1>2 DEF setNode
  <2>2. /\ g1 \in Graphs /\ g1.panic = FALSE /\ g1.nodes = g.nodes /\ g1.el = g.el
        /\ g1.unsaved = g.unsaved \cup {key}
    BY <1>1, <2>1 DEF Graphs
  <2>3. SameLinks(g1, g) /\ defsOf(g1) = defsOf(g)
    BY <2>2 DEF SameLinks, defsOf
  <2>4. Good(g1, under, defsOf(g))
    <3>1. Knows(g1.el, under, DOMAIN g.nodes) /\ LiveEdges(g1.el) = LiveEdges(g.el)
      BY <2>2 DEF Good
    <3> QED
      BY <2>2, <2>3, <3>1, GoodTransfer
  <2>5. Tracks(g1, g, {})
    BY <2>2 DEF Tracks, unchanged
  <2> QED
    BY <1>2, <2>2, <2>3, <2>4, <2>5 DEF KeepsPlain
<1>3. CASE key \notin DOMAIN g.nodes
  <2> DEFINE h == withNode([g EXCEPT !.unsaved = @ \cup {key}], key)
  <2>1. g1 = linkSources(h, key)
    BY <1>3 DEF setNode
  <2> HIDE DEF h
  <2>2. h = withNode([g EXCEPT !.unsaved = @ \cup {key}], key)
    BY DEF h
  <2> QED
    BY <1>3, <2>1, <2>2, LinkSources
<1> QED
  BY <1>2, <1>3

-----------------------------------------------------------------------------
(* DeleteNode *)

LEMMA KnowsNotKey ==
    ASSUME NEW el, NEW el1, NEW under, NEW K, NEW key \in Paths, Knows(el, under, K), Plain(el),
           KeyStep(el1, el, LiveKeys(el) \ {key}, forgotten(el, key))
    PROVE  Knows(el1, under, K \ {key}) /\ LiveEdges(el1) = LiveEdges(el) /\ KeepsPlain(el1, el)
<1> DEFINE map == forgotten(el, key)
<1>1. Sound(el1) /\ el1.nodeKeyMap = map /\ el1.overlay = el.overlay /\ LiveKeys(el1) = K \ {key}
      /\ el.overlay \in BOOLEAN
  BY DEF KeyStep, Knows, Sound, Lookups
<1>2. \A k \in Paths : known(el1, under, k) <=> k # key /\ known(el, under, k)
  <2>1. CASE el.overlay = TRUE
    <3>1. DOMAIN map = DOMAIN el.nodeKeyMap \cup {key} /\ map[key] = FALSE
          /\ \A k \in DOMAIN el.nodeKeyMap : k # key => map[k] = el.nodeKeyMap[k]
      BY <2>1 DEF forgotten, remembered
    <3> HIDE DEF map
    <3> QED
      BY <1>1, <2>1, <3>1 DEF known
  <2>2. CASE el.overlay = FALSE
    <3>1. DOMAIN map = DOMAIN el.nodeKeyMap \ {key} /\ \A k \in DOMAIN map : map[k] = TRUE
      BY <2>2 DEF forgotten
    <3> HIDE DEF map
    <3> QED
      BY <1>1, <2>2, <3>1 DEF known, Plain
  <2> QED
    BY <1>1, <2>1, <2>2
<1>3. \A k \in Paths : known(el1, under, k) <=> k \in K \ {key}
  BY <1>2 DEF Knows
<1>4. LiveEdges(el1) = LiveEdges(el)
  BY DEF KeyStep, SameEdges, LiveEdges
<1>5. KeepsPlain(el1, el)
  BY <1>1 DEF KeepsPlain, Plain, forgotten
<1> QED
  BY <1>1, <1>3, <1>4, <1>5 DEF Knows

\* the nodes that are left, without their links to the key
Unlinked(g1, g, from, key, sources) ==
    /\ g1 \in Graphs /\ DOMAIN g1.nodes = DOMAIN g.nodes /\ g1.el = g.el /\ g1.panic = g.panic
    /\ g1.unsaved = g.unsaved \cup sources
    /\ \A k \in DOMAIN g.nodes :
          IF k \in sources
          THEN /\ g1.nodes[k].defs = g.nodes[k].defs /\ g1.nodes[k].sources = g.nodes[k].sources
               /\ g1.nodes[k].targets = {t \in g.nodes[k].targets : t.key # key \/ Src(k, t.label) \notin from}
               /\ g1.nodes[k].updated = TRUE
          ELSE g1.nodes[k] = g.nodes[k]

LEMMA UnlinkNodes ==
    ASSUME NEW g \in Graphs, NEW key,
           NEW from, from = iterSources(g.el, key), \A s \in from : s.sourceNode \in DOMAIN g.nodes,
           NEW gone, gone = {s \in from : [label |-> s.label, key |-> key] \in g.nodes[s.sourceNode].targets}
    PROVE  Unlinked(unlinkSources(g, key), g, from, key, {s.sourceNode : s \in gone})
<1> DEFINE K == DOMAIN g.nodes
           sources == {s.sourceNode : s \in gone}
           left(k) == {t \in g.nodes[k].targets : \/ t.key # key
                                                  \/ [sourceNode |-> k, label |-> t.label] \notin from}
           n1 == [k \in K |-> IF k \in sources THEN [g.nodes[k] EXCEPT !.targets = left(k), !.updated = TRUE]
                              ELSE g.nodes[k]]
           g1 == unlinkSources(g, key)
<1>1. g1 = [g EXCEPT !.nodes = n1, !.unsaved = g.unsaved \cup sources]
  BY DEF unlinkSources, Graphs
<1>2. K \subseteq Keys /\ (\A k \in K : g.nodes[k] \in NodeRecords) /\ g.unsaved \subseteq Keys
  BY NodeFields DEF Graphs
<1>3. sources \subseteq Keys
  BY <1>2
<1>4. \A k \in K : left(k) \subseteq Links
  BY <1>2 DEF NodeRecords
<1>5. \A k : left(k) = {t \in g.nodes[k].targets : t.key # key \/ Src(k, t.label) \notin from}
  BY DEF Src
<1> HIDE DEF sources, left, g1
<1>6. n1 \in [K -> NodeRecords] /\ DOMAIN n1 = K
  BY <1>2, <1>4 DEF NodeRecords
<1>7. \A k \in K : IF k \in sources
                   THEN /\ n1[k].defs = g.nodes[k].defs /\ n1[k].sources = g.nodes[k].sources
                        /\ n1[k].targets = left(k) /\ n1[k].updated = TRUE
                   ELSE n1[k] = g.nodes[k]
  BY <1>2 DEF NodeRecords
<1> HIDE DEF n1
<1>8. /\ g1 \in Graphs /\ g1.nodes = n1 /\ g1.el = g.el /\ g1.panic = g.panic
      /\ g1.unsaved = g.unsaved \cup sources
  BY <1>1, <1>2, <1>3, <1>6, NodeMapType DEF Graphs
<1>9. Unlinked(g1, g, from, key, sources)
  BY <1>5, <1>6, <1>7, <1>8 DEF Unlinked
<1> QED
  BY <1>9 DEF g1, sources

\* h is the graph without the node
Shrunk(h, g, under, key) ==
    /\ h \in Graphs /\ h.panic = g.panic /\ h.unsaved = g.unsaved \cup {key}
    /\ DOMAIN h.nodes = DOMAIN g.nodes \ {key}
    /\ Knows(h.el, under, DOMAIN h.nodes) /\ LiveEdges(h.el) = LiveEdges(g.el)
    /\ KeepsPlain(h.el, g.el)
    /\ \A k \in DOMAIN h.nodes : h.nodes[k] = g.nodes[k]

LEMMA WithoutNode ==
    ASSUME NEW g \in Graphs, NEW under, Knows(g.el, under, DOMAIN g.nodes), Plain(g.el),
           NEW key \in DOMAIN g.nodes, NEW h, h = withoutNode(g, key)
    PROVE  Shrunk(h, g, under, key)
<1> DEFINE K == DOMAIN g.nodes
           n1 == [k \in K \ {key} |-> g.nodes[k]]
           el1 == delNodeKey(g.el, key)
<1>1. K \subseteq Keys /\ (\A k \in K : g.nodes[k] \in NodeRecords) /\ key \in Paths /\ Sound(g.el)
  BY NodeFields, KeyIsPath DEF Graphs, Knows
<1>2. h = [nodes |-> n1, el |-> el1, unsaved |-> g.unsaved \cup {key}, panic |-> g.panic]
  BY DEF withoutNode, Graphs
<1>3. KeyStep(el1, g.el, LiveKeys(g.el) \ {key}, forgotten(g.el, key))
  BY <1>1, DelNodeKey
<1> HIDE DEF el1
<1>4. Knows(el1, under, K \ {key}) /\ LiveEdges(el1) = LiveEdges(g.el) /\ KeepsPlain(el1, g.el)
  BY <1>1, <1>3, KnowsNotKey
<1>5. n1 \in [K \ {key} -> NodeRecords] /\ \A k \in K \ {key} : n1[k] = g.nodes[k]
  BY <1>1
<1> HIDE DEF n1
<1>6. n1 \in NodeMaps /\ DOMAIN n1 = K \ {key}
  <2>1. K \ {key} \in SUBSET Keys
    BY <1>1
  <2> QED
    BY <1>5, <2>1, NodeMapType
<1>7. h \in Graphs
  <2>1. el1 \in Lookups
    BY <1>4 DEF Knows, Sound
  <2> QED
    BY <1>1, <1>2, <1>6, <2>1 DEF Graphs
<1>8. h.panic = g.panic /\ h.nodes = n1 /\ h.el = el1 /\ h.unsaved = g.unsaved \cup {key}
  BY <1>2
<1> QED
  BY <1>4, <1>5, <1>6, <1>7, <1>8 DEF Shrunk

\* A node without definitions is deleted with the links to it.
LEMMA DeleteTargets ==
    ASSUME DirectoryPrefixes, NEW g, NEW under, Good(g, under, defsOf(g)), Plain(g.el),
           NEW key \in DOMAIN g.nodes, g.nodes[key].defs = {},
           NEW g2, g2 = withoutNode(unlinkSources(g, key), key)
    PROVE  /\ Good(g2, under, defsOf(g2)) /\ Tracks(g2, g, {}) /\ KeepsPlain(g2.el, g.el)
           /\ noted(g2, key)
<1> DEFINE K == DOMAIN g.nodes
           K2 == K \ {key}
           D == defsOf(g)
           D2 == defsOf(g2)
           from == iterSources(g.el, key)
           gone == {s \in from : [label |-> s.label, key |-> key] \in g.nodes[s.sourceNode].targets}
           sources == {s.sourceNode : s \in gone}
           g1 == unlinkSources(g, key)
<1>1. /\ g \in Graphs /\ g.panic = FALSE /\ SourcesInv(g) /\ TargetsKnown(g) /\ Sound(g.el)
      /\ K \subseteq Keys /\ DOMAIN D = K /\ key \in Keys
      /\ \A k \in K : OneEach(D[k]) /\ D[k] = g.nodes[k].defs
      /\ \A k \in K : g.nodes[k] \in NodeRecords
  <2>1. \A k \in K : g.nodes[k] \in NodeRecords
    BY GoodTypes, NodeFields DEF Graphs
  <2> QED
    BY <2>1, GoodTypes DEF Good, defsOf
<1>2. DefMap(D) /\ EdgesInv(g.el, D) /\ TargetsInv(g, D) /\ Knows(g.el, under, K)
  BY <1>1 DEF DefMap, Good
<1>3. /\ \A k, l : Src(k, l) \in from <=> k \in K /\ offers(D[k], l, key)
      /\ \A s \in from : /\ s = Src(s.sourceNode, s.label)
                         /\ s.sourceNode \in K /\ s.label \in Labels
  BY <1>1, <1>2, SourcesFound
<1>4. Unlinked(g1, g, from, key, sources)
  BY <1>1, <1>3, UnlinkNodes
<1> HIDE DEF from, g1, D, D2
<1>5. /\ g1 \in Graphs /\ DOMAIN g1.nodes = K /\ g1.el = g.el /\ g1.panic = FALSE
      /\ g1.unsaved = g.unsaved \cup sources
  BY <1>1, <1>4 DEF Unlinked
<1>6. /\ g2 \in Graphs /\ g2.panic = FALSE /\ g2.unsaved = g1.unsaved \cup {key}
      /\ DOMAIN g2.nodes = K2
      /\ Knows(g2.el, under, DOMAIN g2.nodes) /\ LiveEdges(g2.el) = LiveEdges(g.el)
      /\ KeepsPlain(g2.el, g.el)
      /\ \A k \in DOMAIN g2.nodes : g2.nodes[k] = g1.nodes[k]
  <2>1. g2 = withoutNode(g1, key)
    BY DEF g1
  <2>2. Knows(g1.el, under, DOMAIN g1.nodes) /\ Plain(g1.el)
    BY <1>2, <1>5
  <2>3. Shrunk(g2, g1, under, key)
    BY <1>5, <2>1, <2>2, WithoutNode
  <2> QED
    BY <1>5, <2>3 DEF Shrunk
<1>7. \A k \in K2 : IF k \in sources
                    THEN /\ g2.nodes[k].defs = g.nodes[k].defs /\ g2.nodes[k].sources = g.nodes[k].sources
                         /\ g2.nodes[k].targets =
                                {t \in g.nodes[k].targets : t.key # key \/ Src(k, t.label) \notin from}
                         /\ g2.nodes[k].updated = TRUE
                    ELSE g2.nodes[k] = g.nodes[k]
  BY <1>4, <1>6 DEF Unlinked
<1>8. \A k \in K, l \in Labels : target(g, k, l, key) <=> Src(k, l) \in gone
  <2> TAKE k \in K, l \in Labels
  <2>1. target(g, k, l, key) => offers(D[k], l, key)
    BY <1>1, <1>2 DEF TargetsInv, asks, offers, wanted
  <2>2. Src(k, l).sourceNode = k /\ Src(k, l).label = l
    BY DEF Src
  <2> QED
    BY <1>3, <2>1, <2>2 DEF target, Link
<1>9. \A k \in K, l \in Labels : Src(k, l) \in gone => Src(k, l) \in from /\ k \in sources
  BY DEF Src
<1> HIDE DEF gone, sources
<1>10. \A k \in K2, l \in Labels, x \in Keys : target(g2, k, l, x) <=> target(g, k, l, x) /\ x # key
  <2> TAKE k \in K2, l \in Labels, x \in Keys
  <2>1. CASE k \in sources
    <3>1. g2.nodes[k].targets = {t \in g.nodes[k].targets : t.key # key \/ Src(k, t.label) \notin from}
      BY <1>7, <2>1
    <3>2. target(g2, k, l, x) <=> target(g, k, l, x) /\ (x # key \/ Src(k, l) \notin from)
      BY <3>1, LinkFields DEF target
    <3> QED
      BY <1>8, <1>9, <3>2
  <2>2. CASE k \notin sources
    BY <1>7, <1>8, <1>9, <2>2 DEF target
  <2> QED
    BY <2>1, <2>2
<1>11. \A k \in K2, l \in Labels, y \in Keys : source(g2, k, l, y) <=> source(g, k, l, y)
  BY <1>7 DEF source
<1>12. \A l \in Labels, x \in Keys : ~target(g, key, l, x)
  BY <1>1, <1>2 DEF TargetsInv, asks
<1>13. SourcesInv(g2)
  <2>1. ASSUME NEW k \in K2, NEW l \in Labels, NEW y \in Keys
        PROVE  source(g2, k, l, y) <=> y \in K2 /\ target(g2, y, l, k)
    <3>1. source(g2, k, l, y) <=> y \in K /\ target(g, y, l, k)
      BY <1>1, <1>11 DEF SourcesInv
    <3>2. k \in Keys /\ k # key
      BY <1>1
    <3> QED
      BY <1>10, <1>12, <3>1, <3>2
  <2> QED
    BY <1>6, <2>1 DEF SourcesInv
<1>14. DOMAIN D2 = K2 /\ \A k \in K2 : D2[k] = D[k]
  <2>1. \A k \in K2 : g2.nodes[k].defs = D[k]
    BY <1>1, <1>7
  <2> QED
    BY <1>6, <2>1 DEF D2, defsOf
<1>15. TargetsInv(g2, D2) /\ TargetsKnown(g2)
  <2>1. ASSUME NEW k \in K2, NEW l \in Labels, NEW x \in Keys
        PROVE  target(g2, k, l, x) <=> x \in K2 /\ asks(D2[k], l, x)
    <3>1. target(g, k, l, x) <=> x \in K /\ asks(D[k], l, x)
      BY <1>2 DEF TargetsInv
    <3> QED
      BY <1>10, <1>14, <3>1
  <2> QED
    BY <1>6, <2>1 DEF TargetsInv, TargetsKnown
<1>16. EdgesInv(g2.el, D2)
  <2>1. D[key] = {}
    BY <1>1
  <2>2. \A e : hasEdge(D2, e) <=> hasEdge(D, e)
    BY <1>1, <1>14, <2>1 DEF hasEdge
  <2> QED
    BY <1>2, <1>6, <2>2 DEF EdgesInv
<1>17. Good(g2, under, D2)
  <2>1. \A k \in DOMAIN D2 : OneEach(D2[k])
    BY <1>1, <1>14
  <2> QED
    BY <1>6, <1>13, <1>14, <1>15, <1>16, <2>1 DEF Good, Linked
<1>18. noted(g2, key)
  BY <1>6 DEF noted
<1>19. Tracks(g2, g, {})
  <2>1. ASSUME NEW k \in Keys PROVE noted(g2, k) \/ unchanged(g2, g, k)
    <3>1. CASE k = key
      BY <1>18, <3>1
    <3>2. CASE k \in K2 /\ k \in sources
      BY <1>5, <1>6, <1>7, <3>2 DEF noted
    <3>3. CASE k \in K2 /\ k \notin sources
      BY <1>6, <1>7, <3>3 DEF unchanged
    <3>4. CASE k \notin K
      BY <1>6, <3>4 DEF unchanged
    <3> QED
      BY <3>1, <3>2, <3>3, <3>4
  <2> QED
    BY <1>5, <1>6, <2>1 DEF Tracks
<1> QED
  BY <1>6, <1>17, <1>18, <1>19 DEF D2

LEMMA DeleteNodeGood ==
    ASSUME DirectoryPrefixes, SelectorsKept, NEW g, NEW under, Good(g, under, defsOf(g)), Plain(g.el),
           NEW key \in DOMAIN g.nodes, NEW g1, g1 = deleteNode(g, under, key)
    PROVE  Good(g1, under, defsOf(g1)) /\ Tracks(g1, g, {}) /\ KeepsPlain(g1.el, g.el)
<1> DEFINE h == setTargets(g, under, key, {})
<1>1. /\ Good(h, under, defsOf(h)) /\ Tracks(h, g, {key}) /\ key \in DOMAIN h.nodes
      /\ h.nodes[key].defs = {} /\ h.el.nodeKeyMap = g.el.nodeKeyMap /\ h.el.overlay = g.el.overlay
  <2>1. {} \in Lists \cup {{}}
    OBVIOUS
  <2>2. TargetsSet(h, g, under, key, {})
    BY <2>1, SetTargetsGood
  <2> QED
    BY <2>2 DEF TargetsSet
<1>2. g1 = IF h.panic THEN h ELSE withoutNode(unlinkSources(h, key), key)
  BY DEF deleteNode, deleteTargets
<1> HIDE DEF h
<1>3. Plain(h.el) /\ h.panic = FALSE
  BY <1>1, GoodTypes DEF Plain
<1>4. Good(g1, under, defsOf(g1)) /\ Tracks(g1, h, {}) /\ KeepsPlain(g1.el, h.el) /\ noted(g1, key)
  BY <1>1, <1>2, <1>3, DeleteTargets
<1>5. Tracks(g1, g, {})
  <2>1. Tracks(g1, h, {key})
    BY <1>4 DEF Tracks
  <2>2. Tracks(g1, g, {key})
    BY <1>1, <2>1, TracksTrans
  <2> QED
    BY <1>4, <2>2 DEF Tracks
<1> QED
  BY <1>1, <1>3, <1>4, <1>5 DEF KeepsPlain

-----------------------------------------------------------------------------
(* Handles *)

\* what differs between the copy w and the graph g is noted
Complete(w, g) ==
    \A k \in DOMAIN w.nodes \cup DOMAIN g.nodes :
        \/ noted(w, k)
        \/ /\ k \in DOMAIN w.nodes \cap DOMAIN g.nodes
           /\ content(w.nodes[k]) = content(g.nodes[k])

SameContent(g1, g) ==
    /\ DOMAIN g1.nodes = DOMAIN g.nodes
    /\ \A k \in DOMAIN g.nodes : content(g1.nodes[k]) = content(g.nodes[k])

LEMMA CompleteTracks ==
    ASSUME NEW w, NEW w1, NEW g, DOMAIN w1.nodes \subseteq Keys, DOMAIN g.nodes \subseteq Keys,
           Complete(w, g), Tracks(w1, w, {})
    PROVE  Complete(w1, g)
<1>1. ASSUME NEW k \in DOMAIN w1.nodes \cup DOMAIN g.nodes
      PROVE  \/ noted(w1, k)
             \/ /\ k \in DOMAIN w1.nodes \cap DOMAIN g.nodes
                /\ content(w1.nodes[k]) = content(g.nodes[k])
  <2>1. noted(w1, k) \/ unchanged(w1, w, k)
    BY DEF Tracks
  <2>2. ASSUME unchanged(w1, w, k), noted(w, k) PROVE noted(w1, k)
    BY <2>2 DEF unchanged, noted, Tracks
  <2>3. ASSUME unchanged(w1, w, k), ~noted(w, k)
        PROVE  /\ k \in DOMAIN w1.nodes \cap DOMAIN g.nodes
               /\ content(w1.nodes[k]) = content(g.nodes[k])
    BY <2>3 DEF unchanged, Complete
  <2> QED
    BY <2>1, <2>2, <2>3
<1> QED
  BY <1>1 DEF Complete

LEMMA ContentFields ==
    ASSUME NEW n \in NodeRecords, NEW m \in NodeRecords
    PROVE  content(n) = content(m) <=> n.defs = m.defs /\ n.targets = m.targets /\ n.sources = m.sources
<1>1. /\ content(n).defs = n.defs /\ content(n).targets = n.targets /\ content(n).sources = n.sources
      /\ content(n).updated = FALSE /\ content(n) \in NodeRecords
  BY DEF content, NodeRecords
<1>2. /\ content(m).defs = m.defs /\ content(m).targets = m.targets /\ content(m).sources = m.sources
      /\ content(m).updated = FALSE /\ content(m) \in NodeRecords
  BY DEF content, NodeRecords
<1>3. \A x, y \in NodeRecords :
          x.defs = y.defs /\ x.targets = y.targets /\ x.sources = y.sources /\ x.updated = y.updated => x = y
  BY DEF NodeRecords
<1> QED
  BY <1>1, <1>2, <1>3

\* The marks of the nodes do not matter to what a graph promises.
LEMMA GoodContent ==
    ASSUME NEW g, NEW under, Good(g, under, defsOf(g)), NEW g1 \in Graphs, g1.panic = FALSE,
           SameContent(g1, g), NEW under1, Knows(g1.el, under1, DOMAIN g.nodes),
           LiveEdges(g1.el) = LiveEdges(g.el)
    PROVE  Good(g1, under1, defsOf(g1))
<1>1. DOMAIN g1.nodes = DOMAIN g.nodes
  BY DEF SameContent
<1>2. g \in Graphs
  BY GoodTypes
<1>3. \A k \in DOMAIN g.nodes : g.nodes[k] \in NodeRecords /\ g1.nodes[k] \in NodeRecords
  BY <1>1, <1>2, NodeFields DEF Graphs
<1>4. \A k \in DOMAIN g.nodes : /\ g1.nodes[k].defs = g.nodes[k].defs
                                /\ g1.nodes[k].targets = g.nodes[k].targets
                                /\ g1.nodes[k].sources = g.nodes[k].sources
  BY <1>3, ContentFields DEF SameContent
<1>5. SameLinks(g1, g)
  BY <1>1, <1>4 DEF SameLinks
<1>6. SameMap(defsOf(g1), defsOf(g))
  BY <1>1, <1>4 DEF SameMap, defsOf
<1>7. Good(g1, under1, defsOf(g))
  BY <1>5, GoodTransfer
<1> QED
  BY <1>6, <1>7, GoodSameMap

\* The lookup of the graph itself does not look below it.
LEMMA KnowsAlone ==
    ASSUME NEW el, NEW under, NEW K, Knows(el, under, K), el.overlay = FALSE
    PROVE  \A u : Knows(el, u, K)
<1>1. \A u, k : known(el, u, k) <=> known(el, under, k)
  BY DEF known
<1> QED
  BY <1>1 DEF Knows

LEMMA OverlayOf ==
    ASSUME NEW el, Sound(el)
    PROVE  /\ Sound(makeOverlay(el)) /\ LiveKeys(makeOverlay(el)) = LiveKeys(el)
           /\ LiveEdges(makeOverlay(el)) = LiveEdges(el)
           /\ DOMAIN makeOverlay(el).nodeKeyMap = {} /\ makeOverlay(el).overlay = TRUE
<1>1. NoKeys \in KeyMaps /\ DOMAIN NoKeys = {}
  BY NewLookup DEF Sound, Lookups, NoKeys
<1> DEFINE el1 == makeOverlay(el)
           map == NoKeys
           overlay == TRUE
<1>2. Overlaid(el1, el, map, overlay)
  BY DEF makeOverlay, Overlaid
<1>3. map \in KeyMaps /\ overlay \in BOOLEAN
  BY <1>1
<1> HIDE DEF el1, map, overlay
<1>4. /\ Sound(el1) /\ LiveKeys(el1) = LiveKeys(el) /\ LiveEdges(el1) = LiveEdges(el)
      /\ el1.nodeKeyMap = map /\ el1.overlay = overlay
  BY <1>2, <1>3, OverlaySound
<1> QED
  BY <1>1, <1>4 DEF el1, map, overlay

LEMMA OverlayKnows ==
    ASSUME NEW el, NEW under, NEW K, Knows(el, under, K), Plain(el), el.overlay = FALSE
    PROVE  /\ Knows(makeOverlay(el), el, K) /\ LiveEdges(makeOverlay(el)) = LiveEdges(el)
           /\ makeOverlay(el).overlay = TRUE
<1> DEFINE el1 == makeOverlay(el)
<1>1. Sound(el) /\ LiveKeys(el) = K
  BY DEF Knows
<1>2. /\ Sound(el1) /\ LiveKeys(el1) = LiveKeys(el) /\ LiveEdges(el1) = LiveEdges(el)
      /\ DOMAIN el1.nodeKeyMap = {} /\ el1.overlay = TRUE
  BY <1>1, OverlayOf
<1> HIDE DEF el1
<1>3. \A k : known(el1, el, k) <=> known(el, under, k)
  BY <1>2 DEF known, Plain
<1>4. Knows(el1, el, K)
  BY <1>1, <1>2, <1>3 DEF Knows
<1> QED
  BY <1>2, <1>4 DEF el1

LEMMA SavedKnows ==
    ASSUME NEW el, NEW under, NEW K, Knows(el, under, K), el.overlay = TRUE, Sound(under),
           NEW el1, el1 = saveOverlay(el, under)
    PROVE  /\ \A u : Knows(el1, u, K)
           /\ LiveEdges(el1) = LiveEdges(el) /\ el1.overlay = FALSE /\ Plain(el1)
           /\ Knows(makeOverlay(el), el1, K) /\ LiveEdges(makeOverlay(el)) = LiveEdges(el)
           /\ makeOverlay(el).overlay = TRUE
<1> DEFINE map == mergedKeys(el, under)
           el2 == makeOverlay(el)
<1>1. Sound(el) /\ LiveKeys(el) = K /\ el \in Lookups /\ under \in Lookups
  BY DEF Knows, Sound
<1>2. /\ DOMAIN map = {k \in DOMAIN under.nodeKeyMap \cup DOMAIN el.nodeKeyMap :
                           k \in DOMAIN el.nodeKeyMap => el.nodeKeyMap[k]}
      /\ \A k \in DOMAIN map : map[k] = TRUE
  BY DEF mergedKeys
<1>3. map \in KeyMaps
  <2>1. DOMAIN under.nodeKeyMap \subseteq Paths /\ DOMAIN el.nodeKeyMap \subseteq Paths
    BY <1>1 DEF Lookups, KeyMaps
  <2>2. DOMAIN map \in SUBSET Paths
    BY <1>2, <2>1
  <2>3. map = [k \in DOMAIN map |-> map[k]]
    BY DEF mergedKeys
  <2> HIDE DEF map
  <2>4. map \in [DOMAIN map -> BOOLEAN]
    BY <1>2, <2>3
  <2> QED
    BY <2>2, <2>4 DEF KeyMaps
<1>4. Overlaid(el1, el, map, FALSE)
  BY DEF saveOverlay, Overlaid
<1> HIDE DEF map
<1>5. /\ Sound(el1) /\ LiveKeys(el1) = LiveKeys(el) /\ LiveEdges(el1) = LiveEdges(el)
      /\ el1.nodeKeyMap = map /\ el1.overlay = FALSE
  BY <1>1, <1>3, <1>4, OverlaySound
<1>6. /\ Sound(el2) /\ LiveKeys(el2) = LiveKeys(el) /\ LiveEdges(el2) = LiveEdges(el)
      /\ DOMAIN el2.nodeKeyMap = {} /\ el2.overlay = TRUE
  BY <1>1, OverlayOf
<1> HIDE DEF el2
<1>7. \A k : k \in DOMAIN map <=> known(el, under, k)
  BY <1>2 DEF known
<1>8. \A u, k : known(el1, u, k) <=> known(el, under, k)
  BY <1>2, <1>5, <1>7 DEF known
<1>9. \A k : known(el2, el1, k) <=> known(el, under, k)
  BY <1>5, <1>6, <1>7 DEF known
<1>10. (\A u : Knows(el1, u, K)) /\ Knows(el2, el1, K)
  BY <1>1, <1>5, <1>6, <1>8, <1>9 DEF Knows
<1>11. Plain(el1)
  BY <1>2, <1>5 DEF Plain
<1> QED
  BY <1>5, <1>6, <1>10, <1>11 DEF el2

\* The graph has the links that its definitions ask for, and its lookup stands alone;
\* the copy has those of its own definitions, and its lookup is an overlay.
GraphInv(g) == Good(g, g.el, defsOf(g)) /\ g.el.overlay = FALSE /\ Plain(g.el)
CopyInv(w, g) == Good(w, g.el, defsOf(w)) /\ w.el.overlay = TRUE /\ Complete(w, g)

\* what every operation of a handle leaves
Changed(g1, g, under) ==
    Good(g1, under, defsOf(g1)) /\ Tracks(g1, g, {}) /\ KeepsPlain(g1.el, g.el)

LEMMA TracksNoted ==
    ASSUME NEW g, NEW g1, NEW g2, NEW s, Tracks(g1, g, {}), Tracks(g2, g1, {s}), noted(g2, s)
    PROVE  Tracks(g2, g, {})
<1>1. g.unsaved \subseteq g2.unsaved
  BY DEF Tracks
<1>2. ASSUME NEW k \in Keys
      PROVE  noted(g2, k) \/ unchanged(g2, g, k)
  <2>1. CASE k = s
    BY <2>1
  <2>2. CASE k # s
    <3>1. noted(g1, k) \/ unchanged(g1, g, k)
      BY DEF Tracks
    <3>2. noted(g2, k) \/ unchanged(g2, g1, k)
      BY <2>2 DEF Tracks
    <3>3. CASE noted(g2, k)
      BY <3>3
    <3>4. CASE unchanged(g2, g1, k) /\ noted(g1, k)
      BY <3>4 DEF Tracks, unchanged, noted
    <3>5. CASE unchanged(g2, g1, k) /\ unchanged(g1, g, k)
      BY <3>5 DEF unchanged
    <3> QED
      BY <3>1, <3>2, <3>3, <3>4, <3>5
  <2> QED
    BY <2>1, <2>2
<1> QED
  BY <1>1, <1>2 DEF Tracks

LEMMA SetTargetsOn ==
    ASSUME DirectoryPrefixes, SelectorsKept, NEW g, NEW under, Good(g, under, defsOf(g)),
           NEW key \in Keys, NEW defs \in Lists,
           NEW g2, g2 = setTargets(setNode(g, key), under, key, defs)
    PROVE  Changed(g2, g, under)
<1> DEFINE g1 == setNode(g, key)
<1>1. /\ Good(g1, under, defsOf(g1)) /\ Tracks(g1, g, {}) /\ KeepsPlain(g1.el, g.el)
      /\ key \in DOMAIN g1.nodes /\ key \in g1.unsaved
  BY SetNodeGood
<1>2. g2 = setTargets(g1, under, key, defs)
  OBVIOUS
<1> HIDE DEF g1
<1>3. TargetsSet(g2, g1, under, key, defs)
  BY <1>1, <1>2, SetTargetsGood
<1>4. /\ Good(g2, under, defsOf(g2)) /\ Tracks(g2, g1, {key})
      /\ g2.nodes[key].updated = TRUE
      /\ g2.el.nodeKeyMap = g1.el.nodeKeyMap /\ g2.el.overlay = g1.el.overlay
  BY <1>3 DEF TargetsSet
<1>5. noted(g2, key)
  BY <1>1, <1>4 DEF noted, Tracks
<1>6. Tracks(g2, g, {})
  BY <1>1, <1>4, <1>5, TracksNoted
<1>7. KeepsPlain(g2.el, g.el)
  BY <1>1, <1>4 DEF KeepsPlain, Plain
<1> QED
  BY <1>4, <1>6, <1>7 DEF Changed

LEMMA UseGraph ==
    ASSUME NEW g, NEW g1, GraphInv(g), Changed(g1, g, g.el)
    PROVE  GraphInv(g1)
<1>1. Good(g1, g.el, defsOf(g1)) /\ g1.el.overlay = FALSE /\ Plain(g1.el)
  BY DEF GraphInv, Changed, KeepsPlain
<1>2. Knows(g1.el, g1.el, DOMAIN g1.nodes)
  BY <1>1, KnowsAlone DEF Good
<1>3. g1 \in Graphs /\ g1.panic = FALSE
  BY <1>1, GoodTypes
<1>4. SameContent(g1, g1)
  BY DEF SameContent
<1>5. Good(g1, g1.el, defsOf(g1))
  BY <1>1, <1>2, <1>3, <1>4, GoodContent
<1> QED
  BY <1>1, <1>5 DEF GraphInv

LEMMA UseCopy ==
    ASSUME NEW g, NEW w, NEW w1, GraphInv(g), CopyInv(w, g), Changed(w1, w, g.el)
    PROVE  CopyInv(w1, g)
<1>1. Good(w1, g.el, defsOf(w1)) /\ w1.el.overlay = TRUE
  BY DEF CopyInv, Changed, KeepsPlain
<1>2. DOMAIN w1.nodes \subseteq Keys
  BY <1>1, GoodTypes
<1>3. DOMAIN g.nodes \subseteq Keys
  BY GoodTypes DEF GraphInv
<1>4. Complete(w1, g)
  BY <1>2, <1>3, CompleteTracks DEF CopyInv, Changed
<1> QED
  BY <1>1, <1>4 DEF CopyInv

\* only the marks of the nodes change
Remarked(g1, g, updated) ==
    /\ DOMAIN g1.nodes = DOMAIN g.nodes
    /\ \A k \in DOMAIN g.nodes : g1.nodes[k] = [g.nodes[k] EXCEPT !.updated = updated[k]]

LEMMA RemarkedNodes ==
    ASSUME NEW g, g.nodes \in NodeMaps, NEW g1, NEW updated \in [DOMAIN g.nodes -> BOOLEAN],
           Remarked(g1, g, updated), g1.nodes = [k \in DOMAIN g1.nodes |-> g1.nodes[k]]
    PROVE  g1.nodes \in NodeMaps /\ SameContent(g1, g)
<1>1. /\ DOMAIN g.nodes \subseteq Keys
      /\ \A k \in DOMAIN g.nodes : g.nodes[k] \in NodeRecords
  BY NodeFields
<1>2. ASSUME NEW n \in NodeRecords, NEW b \in BOOLEAN
      PROVE  [n EXCEPT !.updated = b] \in NodeRecords
  BY DEF NodeRecords
<1>3. ASSUME NEW k \in DOMAIN g.nodes
      PROVE  g1.nodes[k] \in NodeRecords
  <2>1. g.nodes[k] \in NodeRecords /\ updated[k] \in BOOLEAN
    BY <1>1
  <2>2. [g.nodes[k] EXCEPT !.updated = updated[k]] \in NodeRecords
    BY <2>1, <1>2
  <2> QED
    BY <2>2 DEF Remarked
<1>4. ASSUME NEW n \in NodeRecords, NEW b \in BOOLEAN
      PROVE  content([n EXCEPT !.updated = b]) = content(n)
  BY DEF content, NodeRecords
<1>5. \A k \in DOMAIN g.nodes : content(g1.nodes[k]) = content(g.nodes[k])
  BY <1>1, <1>4 DEF Remarked
<1>6. g1.nodes \in [DOMAIN g.nodes -> NodeRecords]
  BY <1>3 DEF Remarked
<1> QED
  BY <1>1, <1>5, <1>6, NodeMapType DEF Remarked, SameContent

\* A handle that works in place begins with no unsaved key.
LEMMA WriteInPlace ==
    ASSUME NEW g, GraphInv(g), NEW g1, g1 = [g EXCEPT !.unsaved = {}]
    PROVE  GraphInv(g1)
<1>1. Good(g, g.el, defsOf(g)) /\ g.el.overlay = FALSE /\ Plain(g.el)
  BY DEF GraphInv
<1>2. g \in Graphs /\ g.panic = FALSE
  BY <1>1, GoodTypes
<1>3. g1 \in Graphs /\ g1.panic = FALSE /\ g1.nodes = g.nodes /\ g1.el = g.el
  BY <1>2 DEF Graphs
<1>4. SameContent(g1, g)
  BY <1>3 DEF SameContent
<1>5. Knows(g1.el, g1.el, DOMAIN g.nodes)
  BY <1>1, <1>3 DEF Good
<1>6. Good(g1, g1.el, defsOf(g1))
  BY <1>1, <1>3, <1>4, <1>5, GoodContent
<1> QED
  BY <1>1, <1>3, <1>6 DEF GraphInv

\* A copy is as good as the graph it was made of, and nothing differs yet.
LEMMA WriteCopy ==
    ASSUME NEW g, GraphInv(g), NEW w, w = copyNodesOnly(g)
    PROVE  CopyInv(w, g)
<1>1. Good(g, g.el, defsOf(g)) /\ g.el.overlay = FALSE /\ Plain(g.el)
  BY DEF GraphInv
<1>2. g \in Graphs /\ g.panic = FALSE
  BY <1>1, GoodTypes
<1>3. Knows(g.el, g.el, DOMAIN g.nodes)
  BY <1>1 DEF Good
<1> DEFINE el1 == makeOverlay(g.el)
<1>4. /\ Knows(el1, g.el, DOMAIN g.nodes) /\ LiveEdges(el1) = LiveEdges(g.el) /\ el1.overlay = TRUE
  BY <1>1, <1>3, OverlayKnows
<1> DEFINE nodes == [k \in DOMAIN g.nodes |-> [g.nodes[k] EXCEPT !.updated = FALSE]]
<1>5. w = [g EXCEPT !.unsaved = {}, !.el = el1, !.nodes = nodes]
  BY DEF copyNodesOnly
<1>6. /\ nodes = [k \in DOMAIN nodes |-> nodes[k]] /\ DOMAIN nodes = DOMAIN g.nodes
      /\ \A k \in DOMAIN g.nodes : nodes[k] = [g.nodes[k] EXCEPT !.updated = FALSE]
  OBVIOUS
<1> HIDE DEF el1, nodes
<1>7. w.nodes = nodes /\ w.el = el1 /\ w.unsaved = {} /\ w.panic = FALSE
  BY <1>2, <1>5 DEF Graphs
<1> DEFINE updated == [k \in DOMAIN g.nodes |-> FALSE]
<1>8. updated \in [DOMAIN g.nodes -> BOOLEAN] /\ Remarked(w, g, updated)
  BY <1>6, <1>7 DEF Remarked
<1> HIDE DEF updated
<1>9. w.nodes \in NodeMaps /\ SameContent(w, g)
  BY <1>2, <1>6, <1>7, <1>8, RemarkedNodes DEF Graphs
<1>10. w \in Graphs
  <2>1. el1 \in Lookups
    BY <1>4 DEF Knows, Sound
  <2>2. nodes \in NodeMaps
    BY <1>7, <1>9
  <2> QED
    BY <1>2, <1>5, <2>1, <2>2 DEF Graphs
<1>11. Good(w, g.el, defsOf(w))
  BY <1>1, <1>4, <1>7, <1>9, <1>10, GoodContent
<1>12. Complete(w, g)
  BY <1>9 DEF SameContent, Complete
<1> QED
  BY <1>4, <1>7, <1>11, <1>12 DEF CopyInv

\* Marking the nodes as saved changes nothing else.
LEMMA Synced ==
    ASSUME NEW g \in Graphs, NEW g1, g1 = synced(g)
    PROVE  /\ g1 \in Graphs /\ SameContent(g1, g)
           /\ g1.el = g.el /\ g1.panic = g.panic /\ g1.unsaved = {}
<1> DEFINE updated == [k \in DOMAIN g.nodes |-> g.nodes[k].updated /\ k \notin g.unsaved]
           nodes == [k \in DOMAIN g.nodes |-> [g.nodes[k] EXCEPT !.updated = @ /\ k \notin g.unsaved]]
<1>1. g1 = [g EXCEPT !.unsaved = {}, !.nodes = nodes]
  BY DEF synced
<1>2. /\ nodes = [k \in DOMAIN nodes |-> nodes[k]] /\ DOMAIN nodes = DOMAIN g.nodes
      /\ \A k \in DOMAIN g.nodes : nodes[k] = [g.nodes[k] EXCEPT !.updated = updated[k]]
  OBVIOUS
<1>3. updated \in [DOMAIN g.nodes -> BOOLEAN]
  OBVIOUS
<1> HIDE DEF updated, nodes
<1>4. g1.nodes = nodes /\ g1.el = g.el /\ g1.panic = g.panic /\ g1.unsaved = {}
  BY <1>1 DEF Graphs
<1>5. Remarked(g1, g, updated)
  BY <1>2, <1>4 DEF Remarked
<1>6. g1.nodes \in NodeMaps /\ SameContent(g1, g)
  BY <1>2, <1>3, <1>4, <1>5, RemarkedNodes DEF Graphs
<1>7. nodes \in NodeMaps
  BY <1>4, <1>6
<1>8. g1 \in Graphs
  BY <1>1, <1>7 DEF Graphs
<1> QED
  BY <1>4, <1>6, <1>8

LEMMA ReleaseInPlace ==
    ASSUME NEW g, GraphInv(g), NEW g1, g1 = synced(g)
    PROVE  GraphInv(g1)
<1>1. Good(g, g.el, defsOf(g)) /\ g.el.overlay = FALSE /\ Plain(g.el)
  BY DEF GraphInv
<1>2. g \in Graphs /\ g.panic = FALSE
  BY <1>1, GoodTypes
<1>3. g1 \in Graphs /\ SameContent(g1, g) /\ g1.el = g.el /\ g1.panic = FALSE
  BY <1>2, Synced
<1>4. Knows(g1.el, g1.el, DOMAIN g.nodes)
  BY <1>1, <1>3 DEF Good
<1>5. Good(g1, g1.el, defsOf(g1))
  BY <1>1, <1>3, <1>4, GoodContent
<1> QED
  BY <1>1, <1>3, <1>5 DEF GraphInv


\* The nodes of the graph after a save are those of the copy.
LEMMA SavedNodes ==
    ASSUME NEW w, NEW g, w \in Graphs, g \in Graphs, Complete(w, g), NEW nodes, nodes = savedNodes(w, g)
    PROVE  /\ nodes \in NodeMaps /\ DOMAIN nodes = DOMAIN w.nodes
           /\ \A k \in DOMAIN w.nodes : content(nodes[k]) = content(w.nodes[k])
<1> DEFINE changed == {k \in w.unsaved : k \in DOMAIN w.nodes => w.nodes[k].updated}
           domain == (DOMAIN g.nodes \ changed) \cup (changed \cap DOMAIN w.nodes)
<1>1. nodes = [k \in domain |->
                  IF k \in changed THEN [w.nodes[k] EXCEPT !.updated = FALSE] ELSE g.nodes[k]]
  BY DEF savedNodes
<1>2. \A k : k \in changed <=> noted(w, k)
  BY DEF noted
<1>3. domain = DOMAIN w.nodes
  BY <1>2 DEF Complete
<1> HIDE DEF changed, domain
<1>4. /\ DOMAIN w.nodes \subseteq Keys
      /\ \A k \in DOMAIN w.nodes : w.nodes[k] \in NodeRecords
  BY NodeFields DEF Graphs
<1>5. \A k \in DOMAIN g.nodes : g.nodes[k] \in NodeRecords
  BY NodeFields DEF Graphs
<1>6. ASSUME NEW n \in NodeRecords
      PROVE  [n EXCEPT !.updated = FALSE] \in NodeRecords /\ content([n EXCEPT !.updated = FALSE]) = content(n)
  BY DEF NodeRecords, content
<1>7. ASSUME NEW k \in DOMAIN w.nodes
      PROVE  nodes[k] \in NodeRecords /\ content(nodes[k]) = content(w.nodes[k])
  <2>1. CASE k \in changed
    <3>1. nodes[k] = [w.nodes[k] EXCEPT !.updated = FALSE]
      BY <1>1, <1>3, <2>1
    <3>2. w.nodes[k] \in NodeRecords
      BY <1>4
    <3> QED
      BY <3>1, <3>2, <1>6
  <2>2. CASE k \notin changed
    <3>1. nodes[k] = g.nodes[k]
      BY <1>1, <1>3, <2>2
    <3>2. k \in DOMAIN g.nodes /\ content(w.nodes[k]) = content(g.nodes[k])
      BY <1>2, <2>2 DEF Complete
    <3> QED
      BY <3>1, <3>2, <1>5
  <2> QED
    BY <2>1, <2>2
<1>8. nodes \in [DOMAIN w.nodes -> NodeRecords]
  BY <1>1, <1>3, <1>7
<1> QED
  BY <1>4, <1>7, <1>8, NodeMapType

\* Saving a copy makes the graph what the copy is, and the copy can be used on.
LEMMA SaveGood ==
    ASSUME NEW w, NEW g, GraphInv(g), CopyInv(w, g), NEW g1, g1 = saved(w, g),
           NEW w1, w1 = [synced(w) EXCEPT !.el = makeOverlay(@)]
    PROVE  GraphInv(g1) /\ CopyInv(w1, g1)
<1> DEFINE nodes == savedNodes(w, g)
           el1 == saveOverlay(w.el, g.el)
           h == synced(w)
           el2 == makeOverlay(w.el)
<1>1. Good(w, g.el, defsOf(w)) /\ w.el.overlay = TRUE /\ Complete(w, g)
  BY DEF CopyInv
<1>2. Good(g, g.el, defsOf(g))
  BY DEF GraphInv
<1>3. w \in Graphs /\ w.panic = FALSE
  BY <1>1, GoodTypes
<1>4. g \in Graphs /\ g.panic = FALSE /\ Sound(g.el)
  BY <1>2, GoodTypes
<1>5. Knows(w.el, g.el, DOMAIN w.nodes)
  BY <1>1 DEF Good
<1>6. /\ \A u : Knows(el1, u, DOMAIN w.nodes)
      /\ LiveEdges(el1) = LiveEdges(w.el) /\ el1.overlay = FALSE /\ Plain(el1)
      /\ Knows(el2, el1, DOMAIN w.nodes) /\ LiveEdges(el2) = LiveEdges(w.el)
      /\ el2.overlay = TRUE
  BY <1>1, <1>4, <1>5, SavedKnows
<1>7. /\ nodes \in NodeMaps /\ DOMAIN nodes = DOMAIN w.nodes
      /\ \A k \in DOMAIN w.nodes : content(nodes[k]) = content(w.nodes[k])
  BY <1>1, <1>3, <1>4, SavedNodes
<1>8. g1 = [g EXCEPT !.nodes = nodes, !.el = el1]
  BY DEF saved
<1>9. /\ h \in Graphs /\ SameContent(h, w) /\ h.el = w.el /\ h.panic = FALSE /\ h.unsaved = {}
  BY <1>3, Synced
<1>10. w1 = [h EXCEPT !.el = makeOverlay(@)]
  OBVIOUS
<1>11. w1 = [h EXCEPT !.el = el2]
  BY <1>9, <1>10
<1>12. el1 \in Lookups /\ el2 \in Lookups
  BY <1>6 DEF Knows, Sound
<1> HIDE DEF nodes, el1, el2, h
<1>13. g1 \in Graphs /\ g1.nodes = nodes /\ g1.el = el1 /\ g1.panic = FALSE
  BY <1>4, <1>7, <1>8, <1>12 DEF Graphs
<1>14. w1 \in Graphs /\ w1.nodes = h.nodes /\ w1.el = el2 /\ w1.panic = FALSE
  BY <1>9, <1>11, <1>12 DEF Graphs
<1>15. SameContent(g1, w)
  BY <1>7, <1>13 DEF SameContent
<1>16. SameContent(w1, w)
  BY <1>9, <1>14 DEF SameContent
<1>17. Good(g1, g1.el, defsOf(g1))
  <2>1. Knows(g1.el, g1.el, DOMAIN w.nodes) /\ LiveEdges(g1.el) = LiveEdges(w.el)
    BY <1>6, <1>13
  <2> QED
    BY <1>1, <1>13, <1>15, <2>1, GoodContent
<1>18. Good(w1, g1.el, defsOf(w1))
  <2>1. Knows(w1.el, g1.el, DOMAIN w.nodes) /\ LiveEdges(w1.el) = LiveEdges(w.el)
    BY <1>6, <1>13, <1>14
  <2> QED
    BY <1>1, <1>14, <1>16, <2>1, GoodContent
<1>19. Complete(w1, g1)
  BY <1>15, <1>16 DEF SameContent, Complete
<1> QED
  BY <1>6, <1>13, <1>14, <1>17, <1>18, <1>19 DEF GraphInv, CopyInv

-----------------------------------------------------------------------------
(* The inductive invariant *)

IInv ==
    /\ handle \in {NoHandle, InPlace, Copy} /\ ops \in Nat
    /\ GraphInv(graph)
    /\ IF handle = Copy THEN CopyInv(work, graph) ELSE work = NewGraph

LEMMA NewGraphGood ==
    GraphInv(NewGraph)
<1> DEFINE g == NewGraph
           nodes == [k \in {} |-> NewNode]
<1>1. g = [nodes |-> nodes, el |-> newEdgeLookup, unsaved |-> {}, panic |-> FALSE]
  BY DEF NewGraph
<1>2. DOMAIN nodes = {} /\ nodes \in [{} -> NodeRecords]
  OBVIOUS
<1> HIDE DEF nodes
<1>3. nodes \in NodeMaps
  <2>1. {} \in SUBSET Keys
    OBVIOUS
  <2> QED
    BY <1>2, <2>1, NodeMapType
<1>4. /\ Sound(newEdgeLookup) /\ LiveKeys(newEdgeLookup) = {} /\ LiveEdges(newEdgeLookup) = {}
      /\ newEdgeLookup.nodeKeyMap = NoKeys /\ newEdgeLookup.overlay = FALSE
  BY NewLookup
<1>5. DOMAIN NoKeys = {}
  BY DEF NoKeys
<1>6. newEdgeLookup \in Lookups
  BY <1>4 DEF Sound
<1>7. g \in Graphs
  BY <1>1, <1>3, <1>6 DEF Graphs
<1>8. g.nodes = nodes /\ g.el = newEdgeLookup /\ g.panic = FALSE
  BY <1>1
<1> HIDE DEF g
<1>9. DOMAIN g.nodes = {} /\ DOMAIN defsOf(g) = {}
  BY <1>2, <1>8 DEF defsOf
<1>10. SourcesInv(g) /\ TargetsKnown(g) /\ TargetsInv(g, defsOf(g))
  BY <1>9 DEF SourcesInv, TargetsKnown, TargetsInv
<1>11. EdgesInv(g.el, defsOf(g))
  BY <1>4, <1>8, <1>9 DEF EdgesInv, hasEdge
<1>12. Knows(g.el, g.el, {})
  BY <1>4, <1>5, <1>8 DEF Knows, known
<1>13. Good(g, g.el, defsOf(g))
  BY <1>7, <1>8, <1>9, <1>10, <1>11, <1>12 DEF Good, Linked
<1>14. Plain(g.el) /\ g.el.overlay = FALSE
  BY <1>4, <1>5, <1>8 DEF Plain
<1> QED
  BY <1>13, <1>14 DEF GraphInv, g

LEMMA InitIInv ==
    ASSUME Init
    PROVE  IInv
BY NewGraphGood DEF Init, IInv, NoHandle, InPlace, Copy

\* the graph that the handle works on, and what it becomes
LEMMA UseInv ==
    ASSUME IInv, handle # NoHandle, NEW g1, Use(g1), Changed(g1, current, graph.el)
    PROVE  IInv'
<1>1. CASE handle = Copy
  <2>1. work' = g1 /\ graph' = graph /\ handle' = handle /\ ops' \in Nat
    BY <1>1 DEF Use, IInv
  <2>2. CopyInv(g1, graph)
    BY <1>1, UseCopy DEF IInv, current
  <2> QED
    BY <1>1, <2>1, <2>2 DEF IInv
<1>2. CASE handle # Copy
  <2>1. graph' = g1 /\ work' = work /\ handle' = handle /\ ops' \in Nat
    BY <1>2 DEF Use, IInv
  <2>2. GraphInv(g1)
    BY <1>2, UseGraph DEF IInv, current
  <2> QED
    BY <1>2, <2>1, <2>2 DEF IInv
<1> QED
  BY <1>1, <1>2

\* the handle works on a graph with the links its definitions ask for
LEMMA CurrentGood ==
    ASSUME IInv
    PROVE  Good(current, graph.el, defsOf(current)) /\ Plain(current.el)
<1>1. CASE handle = Copy
  BY <1>1 DEF IInv, current, CopyInv, Plain
<1>2. CASE handle # Copy
  BY <1>2 DEF IInv, current, GraphInv
<1> QED
  BY <1>1, <1>2

LEMMA NextIInv ==
    ASSUME DirectoryPrefixes, SelectorsKept, IInv, [Next]_vars
    PROVE  IInv'
<1>1. ASSUME NEW inPlace \in BOOLEAN, Write(inPlace)
      PROVE  IInv'
  <2>1. handle = NoHandle /\ handle # Copy /\ GraphInv(graph) /\ work = NewGraph /\ ops' \in Nat
    BY <1>1 DEF Write, IInv, NoHandle, Copy
  <2>2. CASE inPlace
    <3>1. handle' = InPlace /\ graph' = [graph EXCEPT !.unsaved = {}] /\ work' = NewGraph
      BY <1>1, <2>1, <2>2 DEF Write
    <3>2. GraphInv(graph')
      BY <2>1, <3>1, WriteInPlace
    <3> QED
      BY <2>1, <3>1, <3>2 DEF IInv, InPlace, Copy
  <2>3. CASE ~inPlace
    <3>1. handle' = Copy /\ graph' = graph /\ work' = copyNodesOnly(graph)
      BY <1>1, <2>1, <2>3 DEF Write
    <3>2. CopyInv(work', graph')
      BY <2>1, <3>1, WriteCopy
    <3> QED
      BY <2>1, <3>1, <3>2 DEF IInv
  <2> QED
    BY <2>2, <2>3
<1>2. ASSUME NEW key \in Keys, SetNode(key)
      PROVE  IInv'
  <2> DEFINE g1 == setNode(current, key)
  <2>1. handle # NoHandle /\ Use(g1)
    BY <1>2 DEF SetNode
  <2>2. Changed(g1, current, graph.el)
    BY CurrentGood, SetNodeGood DEF Changed
  <2> HIDE DEF g1
  <2> QED
    BY <2>1, <2>2, UseInv
<1>3. ASSUME NEW key \in Keys, DeleteNode(key)
      PROVE  IInv'
  <2> DEFINE g1 == deleteNode(current, graph.el, key)
  <2>1. handle # NoHandle /\ Use(g1) /\ key \in DOMAIN current.nodes
    BY <1>3 DEF DeleteNode
  <2>2. Changed(g1, current, graph.el)
    BY <2>1, CurrentGood, DeleteNodeGood DEF Changed
  <2> HIDE DEF g1
  <2> QED
    BY <2>1, <2>2, UseInv
<1>4. ASSUME NEW key \in Keys, NEW defs \in Lists, SetTargets(key, defs)
      PROVE  IInv'
  <2> DEFINE g1 == setTargets(setNode(current, key), graph.el, key, defs)
  <2>1. handle # NoHandle /\ Use(g1)
    BY <1>4 DEF SetTargets
  <2>2. Changed(g1, current, graph.el)
    BY CurrentGood, SetTargetsOn
  <2> HIDE DEF g1
  <2> QED
    BY <2>1, <2>2, UseInv
<1>5. CASE Save
  <2>1. handle = Copy /\ handle' = Copy /\ ops' \in Nat /\ GraphInv(graph) /\ CopyInv(work, graph)
    BY <1>5 DEF Save, IInv
  <2>2. graph' = saved(work, graph) /\ work' = [synced(work) EXCEPT !.el = makeOverlay(@)]
    BY <1>5 DEF Save
  <2>3. GraphInv(graph') /\ CopyInv(work', graph')
    BY <2>1, <2>2, SaveGood
  <2> QED
    BY <2>1, <2>3 DEF IInv
<1>6. CASE Release
  <2>1. handle' = NoHandle /\ handle' # Copy /\ work' = NewGraph /\ ops' \in Nat /\ GraphInv(graph)
    BY <1>6 DEF Release, IInv, NoHandle, Copy
  <2>2. CASE handle = InPlace
    <3>1. graph' = synced(graph)
      BY <1>6, <2>2 DEF Release
    <3>2. GraphInv(graph')
      BY <2>1, <3>1, ReleaseInPlace
    <3> QED
      BY <2>1, <3>2 DEF IInv
  <2>3. CASE handle # InPlace
    <3>1. graph' = graph
      BY <1>6, <2>3 DEF Release
    <3> QED
      BY <2>1, <3>1 DEF IInv
  <2> QED
    BY <2>2, <2>3
<1>7. CASE UNCHANGED vars
  BY <1>7 DEF IInv, vars
<1> QED
  BY <1>1, <1>2, <1>3, <1>4, <1>5, <1>6, <1>7 DEF Next

LEMMA Inductive ==
    ASSUME DirectoryPrefixes, SelectorsKept
    PROVE  Spec => []IInv
BY InitIInv, NextIInv, PTL DEF Spec


-----------------------------------------------------------------------------
(* What the invariant says *)

LEMMA TypeOf ==
    ASSUME NEW g \in Graphs
    PROVE  /\ DOMAIN g.nodes \subseteq Keys /\ g.unsaved \subseteq Keys /\ g.panic \in BOOLEAN
           /\ \A k \in DOMAIN g.nodes :
                 /\ g.nodes[k].defs \in Lists \cup {{}}
                 /\ g.nodes[k].targets \subseteq [label : Labels, key : Keys]
                 /\ g.nodes[k].sources \subseteq [label : Labels, key : Keys]
<1>1. DOMAIN g.nodes \subseteq Keys /\ \A k \in DOMAIN g.nodes : g.nodes[k] \in NodeRecords
  BY NodeFields DEF Graphs
<1>2. g.unsaved \subseteq Keys /\ g.panic \in BOOLEAN
  BY DEF Graphs
<1>3. ASSUME NEW n \in NodeRecords
      PROVE  /\ n.defs \in Lists \cup {{}} /\ n.targets \subseteq [label : Labels, key : Keys]
             /\ n.sources \subseteq [label : Labels, key : Keys]
  BY DEF NodeRecords, Links
<1> QED
  BY <1>1, <1>2, <1>3

LEMMA BothGood ==
    ASSUME IInv
    PROVE  /\ graph \in Graphs /\ graph.panic = FALSE /\ Sound(graph.el)
           /\ work \in Graphs /\ work.panic = FALSE /\ Sound(work.el)
<1>1. graph \in Graphs /\ graph.panic = FALSE /\ Sound(graph.el)
  BY GoodTypes DEF IInv, GraphInv
<1>2. CASE handle = Copy
  <2>1. work \in Graphs /\ work.panic = FALSE /\ Sound(work.el)
    BY <1>2, GoodTypes DEF IInv, CopyInv
  <2> QED
    BY <1>1, <2>1
<1>3. CASE handle # Copy
  <2>1. work = NewGraph
    BY <1>3 DEF IInv
  <2>2. NewGraph \in Graphs /\ NewGraph.panic = FALSE /\ Sound(NewGraph.el)
    BY NewGraphGood, GoodTypes DEF GraphInv
  <2> QED
    BY <1>1, <2>1, <2>2
<1> QED
  BY <1>2, <1>3

LEMMA IInvTypes ==
    ASSUME IInv
    PROVE  TypeOK
<1>1. handle \in {NoHandle, InPlace, Copy}
  BY DEF IInv
<1>2. ASSUME NEW g \in {graph, work}
      PROVE  g \in Graphs
  BY BothGood
<1> QED
  BY <1>1, <1>2, TypeOf DEF TypeOK

LEMMA IInvLookup ==
    ASSUME DirectoryPrefixes, IInv
    PROVE  LookupExact
<1> DEFINE g == current
           D == defsOf(g)
<1>1. Good(g, graph.el, D)
  BY CurrentGood
<1>2. LookupSound
  BY BothGood, SoundIsWellFormed DEF LookupSound
<1> HIDE DEF g, D
<1>3. /\ Sound(g.el) /\ LiveKeys(g.el) = DOMAIN g.nodes
      /\ \A k \in Paths : known(g.el, graph.el, k) <=> k \in DOMAIN g.nodes
  BY <1>1 DEF Good, Knows
<1>4. ASSUME NEW k \in Keys
      PROVE  targetsWithKey(g.el, graph.el, k) = {k} \cap DOMAIN g.nodes
  <2>1. known(g.el, graph.el, k) <=> k \in DOMAIN g.nodes
    BY <1>3, KeyIsPath
  <2> QED
    BY <2>1 DEF targetsWithKey, known
<1>5. targetsWithPrefix(g.el, Prefix(<<>>, FALSE)) = DOMAIN g.nodes
  BY <1>3, TargetsOfNoPrefix
<1>6. ASSUME NEW k \in Keys
      PROVE  iterSources(g.el, k) =
               {s \in [sourceNode : DOMAIN g.nodes, label : Labels] :
                  \E d \in g.nodes[s.sourceNode].defs : d.label = s.label /\ candidate(d, k)}
  <2>1. DefMap(D) /\ EdgesInv(g.el, D) /\ DOMAIN D = DOMAIN g.nodes
    BY <1>1, GoodTypes DEF DefMap, Good
  <2>2. \A y \in DOMAIN g.nodes : D[y] = g.nodes[y].defs
    BY DEF D, defsOf
  <2>3. /\ \A y, l : Src(y, l) \in iterSources(g.el, k) <=> y \in DOMAIN D /\ offers(D[y], l, k)
        /\ \A s \in iterSources(g.el, k) : /\ s = Src(s.sourceNode, s.label)
                                           /\ s.sourceNode \in DOMAIN D /\ s.label \in Labels
    BY <1>3, <2>1, SourcesFound
  <2>4. \A y \in DOMAIN g.nodes : \A l :
           offers(D[y], l, k) <=> \E d \in g.nodes[y].defs : d.label = l /\ candidate(d, k)
    BY <2>2 DEF offers
  <2>5. \A s \in [sourceNode : DOMAIN g.nodes, label : Labels] :
           s = Src(s.sourceNode, s.label) /\ s.sourceNode \in DOMAIN g.nodes
    BY DEF Src
  <2>6. ASSUME NEW s \in iterSources(g.el, k)
        PROVE  /\ s \in [sourceNode : DOMAIN g.nodes, label : Labels]
               /\ \E d \in g.nodes[s.sourceNode].defs : d.label = s.label /\ candidate(d, k)
    <3>1. s = Src(s.sourceNode, s.label) /\ s.sourceNode \in DOMAIN g.nodes /\ s.label \in Labels
      BY <2>1, <2>3
    <3>2. s \in [sourceNode : DOMAIN g.nodes, label : Labels]
      BY <3>1 DEF Src
    <3>3. offers(D[s.sourceNode], s.label, k)
      BY <2>3, <3>1
    <3> QED
      BY <2>4, <3>1, <3>2, <3>3
  <2>7. ASSUME NEW s \in [sourceNode : DOMAIN g.nodes, label : Labels],
               \E d \in g.nodes[s.sourceNode].defs : d.label = s.label /\ candidate(d, k)
        PROVE  s \in iterSources(g.el, k)
    <3>1. s = Src(s.sourceNode, s.label) /\ s.sourceNode \in DOMAIN g.nodes
      BY <2>5
    <3>2. offers(D[s.sourceNode], s.label, k)
      BY <2>4, <2>7, <3>1
    <3>3. Src(s.sourceNode, s.label) \in iterSources(g.el, k)
      BY <2>1, <2>3, <3>1, <3>2
    <3> QED
      BY <3>1, <3>3
  <2> QED
    BY <2>6, <2>7
<1> QED
  BY <1>2, <1>4, <1>5, <1>6 DEF LookupExact, g

\* a set of links, told by its members
LEMMA LinkSets ==
    ASSUME NEW S \in SUBSET Links, NEW T \in SUBSET Links,
           \A l \in Labels, x \in Keys : Link(l, x) \in S <=> Link(l, x) \in T
    PROVE  S = T
<1>1. ASSUME NEW t \in Links
      PROVE  t \in S <=> t \in T
  BY LinkOf
<1> QED
  BY <1>1

LEMMA IInvTargets ==
    ASSUME IInv
    PROVE  TargetsExact
<1> DEFINE g == current
           D == defsOf(g)
<1>1. Good(g, graph.el, D)
  BY CurrentGood
<1> HIDE DEF g, D
<1>2. g \in Graphs /\ DOMAIN g.nodes \subseteq Keys /\ TargetsInv(g, D)
  BY <1>1, GoodTypes DEF Good
<1>3. ASSUME NEW k \in DOMAIN g.nodes
      PROVE  g.nodes[k].targets =
               {t \in [label : Labels, key : DOMAIN g.nodes] :
                   \E d \in g.nodes[k].defs : d.label = t.label /\ candidate(d, t.key) /\ selects(d, t.key)}
  <2> DEFINE asked(l, x) == \E d \in g.nodes[k].defs : d.label = l /\ candidate(d, x) /\ selects(d, x)
             T == {t \in [label : Labels, key : DOMAIN g.nodes] : asked(t.label, t.key)}
  <2>1. D[k] = g.nodes[k].defs
    BY DEF D, defsOf
  <2>2. \A l, x : asks(D[k], l, x) <=> asked(l, x)
    BY <2>1 DEF asks, wanted
  <2> HIDE DEF asked
  <2>3. ASSUME NEW l \in Labels, NEW x \in Keys
        PROVE  Link(l, x) \in g.nodes[k].targets <=> Link(l, x) \in T
    <3>1. Link(l, x) \in T <=> x \in DOMAIN g.nodes /\ asked(l, x)
      BY DEF Link
    <3>2. Link(l, x) \in g.nodes[k].targets <=> x \in DOMAIN g.nodes /\ asks(D[k], l, x)
      BY <1>2 DEF TargetsInv, target
    <3> QED
      BY <2>2, <3>1, <3>2
  <2>4. g.nodes[k].targets \in SUBSET Links
    BY <1>2, TypeOf DEF Links
  <2>5. T \in SUBSET Links
    BY <1>2 DEF Links
  <2> HIDE DEF T
  <2>6. g.nodes[k].targets = T
    BY <2>3, <2>4, <2>5, LinkSets
  <2> QED
    BY <2>6 DEF T, asked
<1> QED
  BY <1>3 DEF TargetsExact, g

LEMMA IInvSources ==
    ASSUME IInv
    PROVE  SourcesMirror
<1> DEFINE g == current
<1>1. Good(g, graph.el, defsOf(g))
  BY CurrentGood
<1> HIDE DEF g
<1>2. g \in Graphs /\ DOMAIN g.nodes \subseteq Keys /\ SourcesInv(g)
  BY <1>1, GoodTypes
<1>3. ASSUME NEW k \in DOMAIN g.nodes
      PROVE  g.nodes[k].sources =
               {s \in [label : Labels, key : DOMAIN g.nodes] :
                   [label |-> s.label, key |-> k] \in g.nodes[s.key].targets}
  <2> DEFINE T == {s \in [label : Labels, key : DOMAIN g.nodes] : target(g, s.key, s.label, k)}
  <2>1. ASSUME NEW l \in Labels, NEW y \in Keys
        PROVE  Link(l, y) \in g.nodes[k].sources <=> Link(l, y) \in T
    <3>1. Link(l, y) \in T <=> y \in DOMAIN g.nodes /\ target(g, y, l, k)
      BY DEF Link
    <3>2. Link(l, y) \in g.nodes[k].sources <=> y \in DOMAIN g.nodes /\ target(g, y, l, k)
      BY <1>2 DEF SourcesInv, source
    <3> QED
      BY <3>1, <3>2
  <2>2. g.nodes[k].sources \in SUBSET Links
    BY <1>2, TypeOf DEF Links
  <2>3. T \in SUBSET Links
    BY <1>2 DEF Links
  <2> HIDE DEF T
  <2>4. g.nodes[k].sources = T
    BY <2>1, <2>2, <2>3, LinkSets
  <2> QED
    BY <2>4 DEF T, target, Link
<1> QED
  BY <1>3 DEF SourcesMirror, g

-----------------------------------------------------------------------------
(* The theorems *)

\* Whatever is set, deleted, saved or thrown away, the nodes, their definitions,
\* their targets and their sources are of their types.
THEOREM GraphTypes ==
    ASSUME DirectoryPrefixes, SelectorsKept
    PROVE  Spec => []TypeOK
BY Inductive, IInvTypes, PTL

\* edge_lookup.go: through insertions, removals, garbage collections and overlays
\* the arrays stay sorted and without holes, iterTargets finds exactly the nodes
\* there are, and iterSources exactly the definitions that match a key.
THEOREM LookupIsExact ==
    ASSUME DirectoryPrefixes, SelectorsKept
    PROVE  Spec => []LookupExact
BY Inductive, IInvLookup, PTL

\* node_write.go, graph_write.go: the targets that SetTargets, SetNode and
\* DeleteNode leave are the nodes that the definitions select, whether the
\* definition or the node was there first.
THEOREM TargetsAreExact ==
    ASSUME DirectoryPrefixes, SelectorsKept
    PROVE  Spec => []TargetsExact
BY Inductive, IInvTargets, PTL

\* node_write.go: every target has its source and every source its target, which
\* is what ValidateEdges checks after each test.
THEOREM SourcesAreMirrored ==
    ASSUME DirectoryPrefixes, SelectorsKept
    PROVE  Spec => []SourcesMirror
BY Inductive, IInvSources, PTL

\* graph_write.go Save: every node of the copy that differs from the graph is in
\* the set of unsaved keys and marked as updated, so that the save copies it.
THEOREM SaveIsComplete ==
    ASSUME DirectoryPrefixes, SelectorsKept
    PROVE  Spec => []SaveComplete
<1>1. IInv => SaveComplete
  BY DEF IInv, CopyInv, Complete, noted, SaveComplete
<1> QED
  BY <1>1, Inductive, PTL

\* node_write.go: no operation follows a target or a source to a node that is not
\* in the graph, which would be a nil pointer.
THEOREM NeverPanics ==
    ASSUME DirectoryPrefixes, SelectorsKept
    PROVE  Spec => []NoPanic
<1>1. IInv => NoPanic
  BY BothGood DEF NoPanic
<1> QED
  BY <1>1, Inductive, PTL

=============================================================================
