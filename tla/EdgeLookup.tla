----------------------------- MODULE EdgeLookup -----------------------------
(***************************************************************************)
(* internal/graph/edge_lookup.go: the index over node keys and edges that  *)
(* the graph of the scheduler uses to find the targets and the sources of  *)
(* an edge.  Keys and edges are kept in unordered arrays of data; arrays   *)
(* of offsets give their order.  What is removed is only marked, until     *)
(* half of the data is garbage.  Edges are ordered by the depth of their   *)
(* target directory first, and dirDepthBounds tells where a depth begins.  *)
(*                                                                         *)
(* A key is the sequence of its directories, which are numbers ordered as  *)
(* the names they stand for.  Positions and offsets count from 1.          *)
(***************************************************************************)
EXTENDS Naturals, Sequences, FiniteSets, FiniteSetsExt, SequencesExt

CONSTANT CharPrefix  \* <<c, d>>: the name c begins the (longer) name d

\* a key prefix: a path, with or without the separator at its end
Prefix(path, slash) == [path |-> path, slash |-> slash]

\* strings.HasPrefix(key, p)
HasPrefix(key, p) ==
    IF p.slash THEN IsStrictPrefix(p.path, key)
    ELSE LET n == Len(p.path)
         IN  \/ n = 0
             \/ /\ n <= Len(key) /\ IsPrefix(Front(p.path), key)
                /\ (key[n] = p.path[n] \/ <<p.path[n], key[n]>> \in CharPrefix)

\* the order of keys
Before(k1, k2) ==
    \E i \in 1..Len(k2) : /\ i <= Len(k1) + 1 /\ \A j \in 1..(i - 1) : k1[j] = k2[j]
                          /\ i <= Len(k1) => k1[i] < k2[i]

\* does the key come before the string of the prefix?
keyBefore(key, p) == Before(key, p.path) \/ (p.slash /\ key = p.path)

Edge(targetKey, isPrefix, sourceNode, label) ==
    [targetKey |-> targetKey, isPrefix |-> isPrefix, sourceNode |-> sourceNode,
     label |-> label, removed |-> FALSE]

\* edge.compare
sameEdge(e1, e2) == [e1 EXCEPT !.removed = FALSE] = [e2 EXCEPT !.removed = FALSE]

edgeBefore(e1, e2) ==
    \/ Before(e1.targetKey, e2.targetKey)
    \/ /\ e1.targetKey = e2.targetKey
       /\ \/ ~e1.isPrefix /\ e2.isPrefix
          \/ /\ e1.isPrefix = e2.isPrefix
             /\ \/ Before(e1.sourceNode, e2.sourceNode)
                \/ e1.sourceNode = e2.sourceNode /\ e1.label < e2.label

\* getDirDepth, after the separators at the ends were trimmed
getDirDepth(path) == Len(path)

\* the order of the edges in the index
sortedBefore(e1, e2) ==
    \/ getDirDepth(e1.targetKey) < getDirDepth(e2.targetKey)
    \/ getDirDepth(e1.targetKey) = getDirDepth(e2.targetKey) /\ edgeBefore(e1, e2)

NoKeys == [k \in {} |-> TRUE]

newEdgeLookup ==
    [nodeKeyData |-> <<>>, nodeKeyOffset |-> <<>>, nodeKeyMap |-> NoKeys, removedNodes |-> 0,
     edgeData |-> <<>>, edgeOffset |-> <<>>, removedEdges |-> 0, dirDepthBounds |-> <<>>,
     overlay |-> FALSE]

makeOverlay(el) == [el EXCEPT !.nodeKeyMap = NoKeys, !.overlay = TRUE]

BugMergedKeys(el, under) ==
    [k \in DOMAIN under.nodeKeyMap \cup {k \in DOMAIN el.nodeKeyMap : el.nodeKeyMap[k]} |-> TRUE]

\* the keys the underlay has once the overlay is saved
mergedKeys(el, under) ==
    [k \in {k \in DOMAIN under.nodeKeyMap \cup DOMAIN el.nodeKeyMap :
              k \in DOMAIN el.nodeKeyMap => el.nodeKeyMap[k]} |-> TRUE]

saveOverlay(el, under) == [el EXCEPT !.nodeKeyMap = mergedKeys(el, under), !.overlay = FALSE]

-----------------------------------------------------------------------------
(* Garbage collection *)

\* the number of elements of S up to x; the n-th element of S
rank(S, x) == Cardinality({y \in S : y <= x})
nth(S, n) == CHOOSE x \in S : rank(S, x) = n

marked(data, o, removed) ==
    [i \in DOMAIN data |-> IF i = o THEN [data[i] EXCEPT !.removed = removed] ELSE data[i]]

live(data) == {o \in DOMAIN data : ~data[o].removed}
kept(data, offset) == {i \in DOMAIN offset : offset[i] \in live(data)}

compacted(data) == [n \in 1..Cardinality(live(data)) |-> data[nth(live(data), n)]]

compactedOffsets(data, offset) ==
    [n \in 1..Cardinality(kept(data, offset)) |->
        rank(live(data), offset[nth(kept(data, offset), n)])]

gcNodeKeys(el) ==
    [el EXCEPT !.nodeKeyOffset = compactedOffsets(el.nodeKeyData, @),
               !.nodeKeyData = compacted(@), !.removedNodes = 0]

\* dirDepthBounds without the depths that have no edge left at the end
compactedBounds(el) ==
    LET bound(d) == 1 + rank(kept(el.edgeData, el.edgeOffset), el.dirDepthBounds[d] - 1)
        depths == {d \in DOMAIN el.dirDepthBounds : bound(d) <= Cardinality(live(el.edgeData))}
    IN  [d \in 1..Max(depths \cup {0}) |-> bound(d)]

gcEdges(el) ==
    [el EXCEPT !.edgeOffset = compactedOffsets(el.edgeData, @), !.edgeData = compacted(@),
               !.dirDepthBounds = compactedBounds(el), !.removedEdges = 0]

-----------------------------------------------------------------------------
(* Node keys *)

\* the first position of S, or the one behind the end: sort.Search
firstOf(S, end) == Min(S \cup {end})

nodeKeyIdx(el, p) ==
    firstOf({i \in DOMAIN el.nodeKeyOffset : ~keyBefore(el.nodeKeyData[el.nodeKeyOffset[i]].key, p)},
            Len(el.nodeKeyOffset) + 1)

remembered(el, key, known) ==
    [k \in DOMAIN el.nodeKeyMap \cup {key} |-> IF k = key THEN known ELSE el.nodeKeyMap[k]]

addNodeKey(el, key) ==
    LET idx == nodeKeyIdx(el, Prefix(key, FALSE))
        found == idx \in DOMAIN el.nodeKeyOffset /\ el.nodeKeyData[el.nodeKeyOffset[idx]].key = key
        el1 == [el EXCEPT !.nodeKeyMap = remembered(el, key, TRUE)]
    IN  IF ~found
        THEN [el1 EXCEPT !.nodeKeyData = Append(@, [key |-> key, removed |-> FALSE]),
                         !.nodeKeyOffset = InsertAt(@, idx, Len(el.nodeKeyData) + 1)]
        ELSE IF el.nodeKeyData[el.nodeKeyOffset[idx]].removed
        THEN [el1 EXCEPT !.nodeKeyData = marked(@, el.nodeKeyOffset[idx], FALSE), !.removedNodes = @ - 1]
        ELSE el1

\* an overlay remembers the removal, the underlay forgets the key
delNodeKey(el, key) ==
    LET idx == nodeKeyIdx(el, Prefix(key, FALSE))
        found == /\ idx \in DOMAIN el.nodeKeyOffset
                 /\ el.nodeKeyData[el.nodeKeyOffset[idx]] = [key |-> key, removed |-> FALSE]
        el1 == [el EXCEPT !.nodeKeyMap = IF el.overlay THEN remembered(el, key, FALSE)
                                         ELSE [k \in DOMAIN @ \ {key} |-> TRUE]]
        el2 == [el1 EXCEPT !.nodeKeyData = marked(@, el.nodeKeyOffset[idx], TRUE), !.removedNodes = @ + 1]
    IN  IF ~found THEN el1
        ELSE IF el2.removedNodes > Len(el2.nodeKeyData) \div 2 THEN gcNodeKeys(el2) ELSE el2

BugTargetsWithKey(el, under, key) ==
    {k \in {key} : k \in DOMAIN el.nodeKeyMap \/ (el.overlay /\ k \in DOMAIN under.nodeKeyMap)}

\* iterTargets for a full key
targetsWithKey(el, under, key) ==
    {k \in {key} : IF k \in DOMAIN el.nodeKeyMap THEN el.nodeKeyMap[k]
                   ELSE el.overlay /\ k \in DOMAIN under.nodeKeyMap}

\* iterTargets for a prefix: from the first key that is not before it up to
\* the first one that does not begin with it
targetsWithPrefix(el, p) ==
    LET at(i) == el.nodeKeyData[el.nodeKeyOffset[i]]
        idx == nodeKeyIdx(el, p)
        ends == {i \in idx..Len(el.nodeKeyOffset) : ~at(i).removed /\ ~HasPrefix(at(i).key, p)}
        end == firstOf(ends, Len(el.nodeKeyOffset) + 1)
    IN  {at(i).key : i \in {i \in idx..(end - 1) : ~at(i).removed}}

-----------------------------------------------------------------------------
(* Edges *)

depthBegin(el, depth) ==
    IF depth < Len(el.dirDepthBounds) THEN el.dirDepthBounds[depth + 1] ELSE Len(el.edgeOffset) + 1
depthEnd(el, depth) == depthBegin(el, depth + 1)

edgeIdx(el, e) ==
    LET depth == getDirDepth(e.targetKey)
    IN  firstOf({i \in depthBegin(el, depth)..(depthEnd(el, depth) - 1) :
                    ~edgeBefore(el.edgeData[el.edgeOffset[i]], e)}, depthEnd(el, depth))

\* the bounds after an edge of this depth was inserted
boundsWith(el, depth) ==
    [d \in 1..Max({Len(el.dirDepthBounds), depth + 1}) |->
        IF d > Len(el.dirDepthBounds) THEN Len(el.edgeOffset) + 1
        ELSE IF d > depth + 1 THEN el.dirDepthBounds[d] + 1 ELSE el.dirDepthBounds[d]]

addEdge(el, e) ==
    LET idx == edgeIdx(el, e)
        found == idx \in DOMAIN el.edgeOffset /\ sameEdge(e, el.edgeData[el.edgeOffset[idx]])
    IN  IF ~found
        THEN [el EXCEPT !.edgeData = Append(@, e), !.edgeOffset = InsertAt(@, idx, Len(el.edgeData) + 1),
                        !.dirDepthBounds = boundsWith(el, getDirDepth(e.targetKey))]
        ELSE IF el.edgeData[el.edgeOffset[idx]].removed
        THEN [el EXCEPT !.edgeData = marked(@, el.edgeOffset[idx], FALSE), !.removedEdges = @ - 1]
        ELSE el

delEdge(el, e) ==
    LET idx == edgeIdx(el, e)
        found == idx \in DOMAIN el.edgeOffset /\ e = el.edgeData[el.edgeOffset[idx]]
        el1 == [el EXCEPT !.edgeData = marked(@, el.edgeOffset[idx], TRUE), !.removedEdges = @ + 1]
    IN  IF ~found THEN el
        ELSE IF el1.removedEdges > Len(el1.edgeData) \div 2 THEN gcEdges(el1) ELSE el1

\* iterSources: edges whose target is the key, or a prefix that is one of the
\* directories above it
iterSources(el, targetKey) ==
    LET at(i) == el.edgeData[el.edgeOffset[i]]
        matching(path) ==
            LET idx == edgeIdx(el, Edge(path, FALSE, <<>>, 0))
                end == firstOf({i \in idx..(depthEnd(el, Len(path)) - 1) : at(i).targetKey # path},
                               depthEnd(el, Len(path)))
            IN  {i \in idx..(end - 1) : ~at(i).removed /\ (path = targetKey \/ at(i).isPrefix)}
    IN  {[sourceNode |-> at(i).sourceNode, label |-> at(i).label] :
            i \in UNION {matching(SubSeq(targetKey, 1, n)) : n \in 0..Len(targetKey)}}

-----------------------------------------------------------------------------
(* What verifyDirDepthBounds and its tests expect of the arrays *)

isOrder(offset, data) ==
    Len(offset) = Len(data) /\ {offset[i] : i \in DOMAIN offset} = DOMAIN data

expectedBounds(el) ==
    LET depth(i) == getDirDepth(el.edgeData[el.edgeOffset[i]].targetKey)
        N == Len(el.edgeOffset)
    IN  IF N = 0 THEN <<>>
        ELSE [d \in 1..(depth(N) + 1) |-> Min({i \in 1..N : depth(i) >= d - 1})]

wellFormed(el) ==
    /\ isOrder(el.nodeKeyOffset, el.nodeKeyData) /\ isOrder(el.edgeOffset, el.edgeData)
    /\ \A i, j \in DOMAIN el.nodeKeyOffset : i < j =>
          Before(el.nodeKeyData[el.nodeKeyOffset[i]].key, el.nodeKeyData[el.nodeKeyOffset[j]].key)
    /\ \A i, j \in DOMAIN el.edgeOffset : i < j =>
          sortedBefore(el.edgeData[el.edgeOffset[i]], el.edgeData[el.edgeOffset[j]])
    /\ el.dirDepthBounds = expectedBounds(el)
    /\ el.removedNodes = Cardinality(DOMAIN el.nodeKeyData \ live(el.nodeKeyData))
    /\ el.removedEdges = Cardinality(DOMAIN el.edgeData \ live(el.edgeData))
=============================================================================
