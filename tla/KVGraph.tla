------------------------------ MODULE KVGraph ------------------------------
(***************************************************************************)
(* internal/graph: the in-memory graph of the scheduler.  A node defines   *)
(* its targets by a key or by key prefixes and a selector; the graph keeps *)
(* the nodes they select, and the sources of every node, up to date while  *)
(* nodes come and go.  There is one write handle at a time: it works in    *)
(* place, or on a copy (with an overlay of the edge lookup) that reaches   *)
(* the graph when it is saved.                                             *)
(*                                                                         *)
(* A label stands for a relation and a label.  The value, the flags and    *)
(* the metadata of a node, and the timeline of past revisions, are left    *)
(* out.  A nil pointer that the code follows sets panic.                   *)
(***************************************************************************)
EXTENDS EdgeLookup

CONSTANTS Keys,    \* the keys of the nodes
          Owners,  \* the keys of the nodes that define targets
          MaxLabel, \* the labels of targets are 1..MaxLabel
          Lists,   \* the lists of target definitions a node is given
          MaxOps   \* bound: calls that change a node

Labels == 1..MaxLabel
NoKey == <<>>
NoHandle == "none"
InPlace == "in place"
Copy == "copy"

ASSUME GraphAssumption ==
    /\ MaxLabel \in Nat /\ MaxOps \in Nat
    /\ \A key \in Keys : key \in Seq(Nat) /\ key # NoKey
    /\ \A defs \in Lists : \A d \in defs :
          /\ d.label \in Labels /\ d.key \in Seq(Nat)
          /\ d.prefixes \in Seq([path : Seq(Nat), slash : BOOLEAN])
          /\ \A e \in defs : e.label = d.label => e = d

VARIABLES graph,   \* the graph
          work,    \* the nodes and the edge lookup of a handle that works on a copy
          handle,  \* NoHandle, InPlace or Copy
          ops      \* calls that changed a node so far

vars == <<graph, work, handle, ops>>

NewNode == [defs |-> {}, targets |-> {}, sources |-> {}, updated |-> TRUE]
NewGraph == [nodes |-> [k \in {} |-> NewNode], el |-> newEdgeLookup, unsaved |-> {}, panic |-> FALSE]

-----------------------------------------------------------------------------
(* Target definitions: key and prefixes, or a selector (KeySelector # nil) *)

KeyDef(label, key) ==
    [label |-> label, key |-> key, prefixes |-> <<>>, selective |-> FALSE, selector |-> {}]
PrefixDef(label, prefixes) ==
    [label |-> label, key |-> NoKey, prefixes |-> prefixes, selective |-> FALSE, selector |-> {}]
SelectorDef(label, prefixes, selector) ==
    [label |-> label, key |-> NoKey, prefixes |-> prefixes, selective |-> TRUE, selector |-> selector]

\* RelationTargetDef.Compare of two definitions with the same label: not the selectors
sameTargets(d1, d2) == d1.key = d2.key /\ d1.prefixes = d2.prefixes

selects(d, key) == d.selective => key \in d.selector

\* addDelEdges: the edges of a definition
edgesOf(source, d) ==
    IF d.key # NoKey THEN <<Edge(d.key, FALSE, source, d.label)>>
    ELSE IF d.prefixes = <<>> THEN <<Edge(<<>>, TRUE, source, d.label)>>
    ELSE [i \in DOMAIN d.prefixes |-> Edge(d.prefixes[i].path, TRUE, source, d.label)]

\* the edge lookup after its callback was called for every edge of es
addDelEdges(el, es, del) ==
    LET after[i \in 0..Len(es)] ==
          IF i = 0 THEN el ELSE IF del THEN delEdge(after[i - 1], es[i]) ELSE addEdge(after[i - 1], es[i])
    IN  after[Len(es)]

addEdges(g, source, d) == [g EXCEPT !.el = addDelEdges(@, edgesOf(source, d), FALSE)]
delEdges(g, source, d) == [g EXCEPT !.el = addDelEdges(@, edgesOf(source, d), TRUE)]

\* iterEveryEdge: the keys that a definition selects now
iterEveryEdge(g, under, d) ==
    LET found == IF d.key # NoKey THEN targetsWithKey(g.el, under, d.key)
                 ELSE IF d.prefixes = <<>> THEN targetsWithPrefix(g.el, Prefix(<<>>, FALSE))
                 ELSE UNION {targetsWithPrefix(g.el, d.prefixes[i]) : i \in DOMAIN d.prefixes}
    IN  {key \in found : selects(d, key)}

-----------------------------------------------------------------------------
(* Edges between nodes *)

matching(g, key, label) == {t.key : t \in {t \in g.nodes[key].targets : t.label = label}}

\* addToTargets and addToSources, for every key of found
addToTargets(g, source, label, found) ==
    LET new == found \ matching(g, source, label)
        touched(k, n) ==
            [n EXCEPT !.targets = IF k = source THEN @ \cup [label : {label}, key : new] ELSE @,
                      !.sources = IF k \in new THEN @ \cup {[label |-> label, key |-> source]} ELSE @,
                      !.updated = @ \/ k \in new \cup {source}]
    IN  IF ~(found \subseteq DOMAIN g.nodes) THEN [g EXCEPT !.panic = TRUE]
        ELSE IF new = {} THEN g
        ELSE [g EXCEPT !.nodes = [k \in DOMAIN g.nodes |-> touched(k, g.nodes[k])],
                       !.unsaved = @ \cup {source} \cup new]

BugRemoveFromSources(g, source, label, keys) ==
    IF \E k \in keys : k \notin DOMAIN g.nodes \/ ~\E s \in g.nodes[k].sources : s.label = label
    THEN [g EXCEPT !.panic = TRUE]
    ELSE [g EXCEPT !.nodes = [k \in DOMAIN g.nodes |->
                      IF k \in keys
                      THEN [g.nodes[k] EXCEPT !.sources = @ \ {[label |-> label, key |-> source]}]
                      ELSE g.nodes[k]],
                   !.unsaved = @ \cup keys]

\* removeFromSources, for every key of keys
removeFromSources(g, source, label, keys) ==
    IF \E k \in keys : k \notin DOMAIN g.nodes \/ ~\E s \in g.nodes[k].sources : s.label = label
    THEN [g EXCEPT !.panic = TRUE]
    ELSE [g EXCEPT !.nodes = [k \in DOMAIN g.nodes |->
                      IF k \in keys
                      THEN [g.nodes[k] EXCEPT !.sources = @ \ {[label |-> label, key |-> source]},
                                        !.updated = TRUE]
                      ELSE g.nodes[k]],
                   !.unsaved = @ \cup keys]

dropTargets(g, source, label, keys) ==
    [g EXCEPT !.nodes[source].targets = @ \ [label : {label}, key : keys]]

\* remove all the targets with the label, and their sources
clearTargets(g, source, label) ==
    dropTargets(removeFromSources(g, source, label, matching(g, source, label)), source, label,
                matching(g, source, label))

-----------------------------------------------------------------------------
(* SetTargets: old and new definitions are merged by their labels *)

BugReselect(g, under, source, d) ==
    addToTargets(g, source, d.label, iterEveryEdge(g, under, d))

\* the definition did not change: the key selector is run again
reselect(g, under, source, d) ==
    LET obsolete == {k \in matching(g, source, d.label) : ~selects(d, k)}
        g1 == dropTargets(removeFromSources(g, source, d.label, obsolete), source, d.label, obsolete)
    IN  IF d.selective THEN addToTargets(g1, source, d.label, iterEveryEdge(g1, under, d)) ELSE g

BugRemoveDef(g, source, d) ==
    delEdges(dropTargets(g, source, d.label, matching(g, source, d.label)), source, d)

removeDef(g, source, d) == delEdges(clearTargets(g, source, d.label), source, d)

addDefTo(g, under, source, d) == addToTargets(g, source, d.label, iterEveryEdge(g, under, d))
addDef(g, under, source, d) == addDefTo(addEdges(g, source, d), under, source, d)

\* one label of the merge
mergeLabel(g, under, source, old, new) ==
    IF old = {} THEN IF new = {} THEN g ELSE addDef(g, under, source, CHOOSE d \in new : TRUE)
    ELSE IF new = {} THEN removeDef(g, source, CHOOSE d \in old : TRUE)
    ELSE IF sameTargets(CHOOSE d \in old : TRUE, CHOOSE d \in new : TRUE)
    THEN reselect(g, under, source, CHOOSE d \in new : TRUE)
    ELSE addDef(removeDef(g, source, CHOOSE d \in old : TRUE), under, source, CHOOSE d \in new : TRUE)

withLabel(defs, label) == {d \in defs : d.label = label}

withDefs(g, source, defs) ==
    [g EXCEPT !.nodes[source].defs = defs, !.nodes[source].updated = TRUE]

setTargets(g, under, source, defs) ==
    LET old == g.nodes[source].defs
        merged[label \in 0..MaxLabel] ==
            IF label = 0 THEN g ELSE IF merged[label - 1].panic THEN merged[label - 1]
            ELSE mergeLabel(merged[label - 1], under, source, withLabel(old, label), withLabel(defs, label))
    IN  IF merged[MaxLabel].panic THEN merged[MaxLabel] ELSE withDefs(merged[MaxLabel], source, defs)

-----------------------------------------------------------------------------
(* Nodes *)

defOf(g, s) == CHOOSE d \in g.nodes[s.sourceNode].defs : d.label = s.label

\* the edges that go into a new node
linkSources(g, key) ==
    LET from == {s \in iterSources(g.el, key) : selects(defOf(g, s), key)}
        new == {s \in from : [label |-> s.label, key |-> key] \notin g.nodes[s.sourceNode].targets}
        touched(k, n) ==
            [n EXCEPT !.targets = @ \cup {[label |-> s.label, key |-> key] : s \in {s \in new : s.sourceNode = k}},
                      !.sources = IF k = key THEN @ \cup {[label |-> s.label, key |-> s.sourceNode] : s \in new}
                                  ELSE @,
                      !.updated = @ \/ (new # {} /\ k = key) \/ \E s \in new : s.sourceNode = k]
    IN  [g EXCEPT !.nodes = [k \in DOMAIN g.nodes |-> touched(k, g.nodes[k])],
                  !.unsaved = @ \cup {s.sourceNode : s \in new} \cup {key : s \in new}]

withNode(g, key) ==
    [g EXCEPT !.nodes = [k \in DOMAIN g.nodes \cup {key} |-> IF k = key THEN NewNode ELSE g.nodes[k]],
              !.el = addNodeKey(@, key)]

setNode(g, key) ==
    LET g1 == [g EXCEPT !.unsaved = @ \cup {key}]
    IN  IF key \in DOMAIN g.nodes THEN g1 ELSE linkSources(withNode(g1, key), key)

\* removeFromTarget, for every source of the key
unlinkSources(g, key) ==
    LET from == iterSources(g.el, key)
        gone == {s \in from : [label |-> s.label, key |-> key] \in g.nodes[s.sourceNode].targets}
        sources == {s.sourceNode : s \in gone}
    IN  [g EXCEPT !.nodes = [k \in DOMAIN g.nodes |->
                      IF k \in sources
                      THEN [g.nodes[k] EXCEPT
                               !.targets = {t \in @ : \/ t.key # key
                                                      \/ [sourceNode |-> k, label |-> t.label] \notin from},
                               !.updated = TRUE]
                      ELSE g.nodes[k]],
                  !.unsaved = @ \cup sources]

withoutNode(g, key) ==
    [g EXCEPT !.nodes = [k \in DOMAIN g.nodes \ {key} |-> g.nodes[k]], !.el = delNodeKey(@, key),
              !.unsaved = @ \cup {key}]

deleteTargets(g, key) == IF g.panic THEN g ELSE withoutNode(unlinkSources(g, key), key)
deleteNode(g, under, key) == deleteTargets(setTargets(g, under, key, {}), key)

-----------------------------------------------------------------------------
(* Handles *)

current == IF handle = Copy THEN work ELSE graph

\* what the handle changes
Use(g) == /\ ops < MaxOps /\ ops' = ops + 1
          /\ IF handle = Copy THEN work' = g /\ UNCHANGED <<graph, handle>>
             ELSE graph' = g /\ UNCHANGED <<work, handle>>

synced(g) ==
    [g EXCEPT !.unsaved = {},
              !.nodes = [k \in DOMAIN g.nodes |-> [g.nodes[k] EXCEPT !.updated = @ /\ k \notin g.unsaved]]]

copyNodesOnly(g) ==
    [g EXCEPT !.unsaved = {}, !.el = makeOverlay(@),
              !.nodes = [k \in DOMAIN g.nodes |-> [g.nodes[k] EXCEPT !.updated = FALSE]]]

Init == graph = NewGraph /\ work = NewGraph /\ handle = NoHandle /\ ops = 0

\* Write(inPlace): a copy of the nodes, and an overlay
Write(inPlace) ==
    /\ handle = NoHandle
    /\ handle' = IF inPlace THEN InPlace ELSE Copy
    /\ graph' = IF inPlace THEN [graph EXCEPT !.unsaved = {}] ELSE graph
    /\ work' = IF inPlace THEN work ELSE copyNodesOnly(graph)
    /\ UNCHANGED ops

SetNode(key) == handle # NoHandle /\ ~current.panic /\ Use(setNode(current, key))

DeleteNode(key) ==
    /\ handle # NoHandle /\ ~current.panic /\ key \in DOMAIN current.nodes
    /\ Use(deleteNode(current, graph.el, key))

\* SetTargets is called on what SetNode returned
SetTargets(key, defs) ==
    /\ handle # NoHandle /\ ~current.panic /\ key \in Owners \cap DOMAIN current.nodes
    /\ Use(setTargets(setNode(current, key), graph.el, key, defs))

\* the nodes of the graph after the unsaved ones were copied into it
savedNodes(g, dest) ==
    LET changed == {k \in g.unsaved : k \in DOMAIN g.nodes => g.nodes[k].updated}
    IN  [k \in (DOMAIN dest.nodes \ changed) \cup (changed \cap DOMAIN g.nodes) |->
            IF k \in changed THEN [g.nodes[k] EXCEPT !.updated = FALSE] ELSE dest.nodes[k]]

saved(g, dest) == [dest EXCEPT !.nodes = savedNodes(g, dest), !.el = saveOverlay(g.el, dest.el)]

\* the copy is in sync with the graph and can be used on
Save ==
    /\ handle = Copy /\ ~work.panic
    /\ graph' = saved(work, graph)
    /\ work' = [synced(work) EXCEPT !.el = makeOverlay(@)]
    /\ UNCHANGED <<handle, ops>>

Release ==
    /\ handle # NoHandle /\ ~current.panic
    /\ handle' = NoHandle
    /\ graph' = IF handle = InPlace THEN synced(graph) ELSE graph
    /\ work' = NewGraph
    /\ UNCHANGED ops

Next ==
    \/ \E inPlace \in BOOLEAN : Write(inPlace)
    \/ \E key \in Keys : SetNode(key) \/ DeleteNode(key) \/ \E defs \in Lists : SetTargets(key, defs)
    \/ Save
    \/ Release

Spec == Init /\ [][Next]_vars

-----------------------------------------------------------------------------
TypeOK ==
    /\ handle \in {NoHandle, InPlace, Copy}
    /\ \A g \in {graph, work} :
          /\ DOMAIN g.nodes \subseteq Keys /\ g.unsaved \subseteq Keys /\ g.panic \in BOOLEAN
          /\ \A k \in DOMAIN g.nodes :
                /\ g.nodes[k].defs \in Lists \cup {{}}
                /\ g.nodes[k].targets \subseteq [label : Labels, key : Keys]
                /\ g.nodes[k].sources \subseteq [label : Labels, key : Keys]

\* The arrays of the edge lookup stay a sorted index without holes whatever is
\* added, marked as removed, collected, saved or thrown away: what
\* verifyDirDepthBounds checks in the unit tests, for the graph and the copy.
LookupSound == wellFormed(graph.el) /\ wellFormed(work.el)

\* a definition matches a key whatever its selector says
candidate(d, key) ==
    IF d.key # NoKey THEN key = d.key
    ELSE d.prefixes = <<>> \/ \E i \in DOMAIN d.prefixes : HasPrefix(key, d.prefixes[i])

\* Prefixes that name directories: they end with the separator, and a definition
\* that has the prefix of a directory with a node of the same key selects that node too.
DirectoryPrefixes ==
    \A defs \in Lists : \A d \in {d \in defs : d.key = NoKey} : \A i \in DOMAIN d.prefixes :
        d.prefixes[i].slash /\ (d.prefixes[i].path \in Keys => candidate(d, d.prefixes[i].path))

\* A definition that changes nothing but its selector has a selector still.
SelectorsKept ==
    \A old, new \in Lists : \A d \in old, e \in new :
        d.label = e.label /\ sameTargets(d, e) /\ d.selective => e.selective

\* The edge lookup is sound and the one of the handle in use finds exactly the
\* nodes there are, by key (through the overlay) and by prefix, and for every key
\* exactly the definitions that match it (iterTargets, iterSources).
LookupExact ==
    /\ LookupSound
    /\ \A k \in Keys : targetsWithKey(current.el, graph.el, k) = {k} \cap DOMAIN current.nodes
    /\ targetsWithPrefix(current.el, Prefix(<<>>, FALSE)) = DOMAIN current.nodes
    /\ \A k \in Keys :
          iterSources(current.el, k) =
              {s \in [sourceNode : DOMAIN current.nodes, label : Labels] :
                  \E d \in current.nodes[s.sourceNode].defs : d.label = s.label /\ candidate(d, k)}

\* "KeyPrefixes jointly select a set of keys that begin with at least one of the
\* defined key prefixes", filtered by the selector (api/kv_descriptor_api.go:46):
\* the targets of a node are the nodes its definitions select, whichever of
\* them was there first.
TargetsExact ==
    \A k \in DOMAIN current.nodes :
        current.nodes[k].targets =
            {t \in [label : Labels, key : DOMAIN current.nodes] :
                \E d \in current.nodes[k].defs :
                    d.label = t.label /\ candidate(d, t.key) /\ selects(d, t.key)}

\* The sources of a node are the nodes it is a target of: ValidateEdges.
SourcesMirror ==
    \A k \in DOMAIN current.nodes :
        current.nodes[k].sources =
            {s \in [label : Labels, key : DOMAIN current.nodes] :
                [label |-> s.label, key |-> k] \in current.nodes[s.key].targets}

content(n) == [n EXCEPT !.updated = FALSE]

\* What differs between the copy and the graph is in the set of unsaved keys and,
\* unless it was deleted, marked as updated: Save loses nothing.
SaveComplete ==
    handle = Copy =>
        \A k \in DOMAIN work.nodes \cup DOMAIN graph.nodes :
            \/ k \in work.unsaved /\ (k \in DOMAIN work.nodes => work.nodes[k].updated)
            \/ /\ k \in DOMAIN work.nodes \cap DOMAIN graph.nodes
               /\ content(work.nodes[k]) = content(graph.nodes[k])

\* No operation follows a target or a source to a node that is not there.
NoPanic == ~graph.panic /\ ~work.panic
=============================================================================
