------------------------------ MODULE KVRefresh ------------------------------
(***************************************************************************)
(* refreshGraph: the graph is brought to the real state of SB using the    *)
(* Retrieve methods of the descriptors.  Every base key has a descriptor   *)
(* of its own here; the descriptors of derived values do not implement     *)
(* Retrieve.                                                               *)
(*                                                                         *)
(*   Q: graph g, updatedStates upd and the set of keys already refreshed   *)
(***************************************************************************)
EXTENDS KVExec

Refreshes == [g : Graphs, upd : SUBSET Keys, refreshed : SUBSET Keys]

\* states in which a node changes when its value was retrieved
foundState(state, origin) ==
    CASE state = "NONEXISTENT" -> IF origin = "SB" THEN "OBTAINED" ELSE "DISCOVERED"
      [] state = "PENDING" -> "CONFIGURED"
      [] OTHER -> state

BugRefreshAvail(Q, T, k, origin, base) ==
    [g |-> [Q.g EXCEPT ![k] = [@ EXCEPT !.state = foundState(@, origin),
                                        !.descr = hasDescriptor(T, k), !.base = base]],
     upd |-> Q.upd \cup {base},
     refreshed |-> Q.refreshed \cup {k}]
BugRefreshQuiet(Q, T, k, origin, base) ==
    [g |-> [Q.g EXCEPT ![k] = [@ EXCEPT !.avail = TRUE, !.state = foundState(@, origin),
                                        !.descr = hasDescriptor(T, k), !.base = base]],
     upd |-> Q.upd,
     refreshed |-> Q.refreshed \cup {k}]

refreshAvailNode(Q, T, k, origin, base) ==
    LET node == Q.g[k]
    IN [g |-> [Q.g EXCEPT ![k] = [node EXCEPT !.avail = TRUE, !.state = foundState(node.state, origin),
                                              !.descr = hasDescriptor(T, k), !.base = base]],
        upd |-> IF node.avail THEN Q.upd ELSE Q.upd \cup {base},
        refreshed |-> Q.refreshed \cup {k}]

BugRefreshUnavail(Q, k) ==
    [Q EXCEPT !.g[k].state = IF @ = "CONFIGURED" THEN "MISSING" ELSE @,
              !.refreshed = @ \cup {k}]

refreshUnavailNode(Q, k) ==
    LET node == Q.g[k]
        missing == IF node.state # "CONFIGURED" THEN node.state
                   ELSE IF node.upd.value = Nil THEN "REMOVED" ELSE "MISSING"
    IN [g |-> IF node.state \in {"OBTAINED", "DISCOVERED"} THEN DeleteNode(Q.g, k)
              ELSE [Q.g EXCEPT ![k].avail = FALSE, ![k].state = missing],
        upd |-> IF node.avail THEN Q.upd \cup {node.base} ELSE Q.upd,
        refreshed |-> Q.refreshed \cup {k}]

\* a derived value: der holds the ones SB has now
refreshDerived(Q, T, d, der, origin, base) ==
    IF d \notin DOMAIN der THEN refreshUnavailNode(Q, d)
    ELSE refreshAvailNode([Q EXCEPT !.g[d] = [@ EXCEPT !.value = der[d], !.derives = {},
                                                       !.deps = dependencies(T, d, der[d])]],
                          T, d, origin, base)

withNode(Q, k) == [Q EXCEPT !.g = SetNode(@, k)]

\* relations of a node whose value v was retrieved, then its derived values K;
\* obsolete ones stay in the relation
refreshRelations(Q, T, k, v, origin, K) ==
    InKeyOrder([d \in K |-> [R \in Refreshes |->
                   refreshDerived(withNode(R, d), T, d, v.der, origin, k)]],
               K, [Q EXCEPT !.g[k] = [@ EXCEPT !.deps = Dependencies(k, v), !.derives = K]])

refreshFound(Q, T, k, v, origin) ==
    refreshRelations(Q, T, k, v, origin, (DOMAIN v.der) \cup getDerivedKeys(Q.g, k))

\* the node of a retrieved value v
refreshValue(Q, T, k, v, origin) ==
    refreshFound(refreshAvailNode([withNode(Q, k) EXCEPT !.g[k] = [@ EXCEPT !.value = v]],
                                  T, k, origin, k),
                 T, k, v, origin)

\* origin of a retrieved value: from the values given for correlation (those
\* received from NB in the first resync, the available ones otherwise), then
\* from the last recorded revision of the node, then SB
retrievedOrigin(g, T, hist, k) ==
    LET correlated == IF T.firstResync
                      THEN IF k \in DOMAIN T.values THEN "NB" ELSE "unknown"
                      ELSE IF isNodeAvailable(g, k) /\ g[k].descr
                           THEN valueStateToOrigin(g[k].state) ELSE "unknown"
    IN CASE correlated # "unknown" -> correlated
         [] correlated = "unknown" /\ hist[k] # "unknown" -> hist[k]
         [] OTHER -> "SB"

\* nodes that were neither retrieved nor skipped
refreshRest(Q) ==
    InKeyOrder([k \in Keys |-> [R \in Refreshes |-> refreshUnavailNode(R, k)]],
               nodesOf(Q.g) \ Q.refreshed, Q)

withGraph(S, Q) == [S EXCEPT !.g = Q.g, !.upd = Q.upd]

\* keys: the base keys to refresh
refreshGraph(S, T, hist, keys) ==
    LET able == {k \in keys : hasDescriptor(T, k) /\ k \notin T.unretrievable}
        \* skipRefresh: other described base nodes with their derived values
        skipped == {k \in nodesOf(S.g) : S.g[k].descr /\ S.g[k].base = k /\ k \notin able}
    IN withGraph(S, refreshRest(
         InKeyOrder([k \in Keys |-> [Q \in Refreshes |->
                        refreshValue(Q, T, k, retrieve(T, S.sb, k), retrievedOrigin(S.g, T, hist, k))]],
                    {k \in able : S.sb[k] # Nil},
                    [g |-> S.g, upd |-> S.upd,
                     refreshed |-> skipped \cup UNION {getDerivedKeys(S.g, k) : k \in skipped}])))
=============================================================================
