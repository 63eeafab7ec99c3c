------------------------------- MODULE KVExec -------------------------------
(***************************************************************************)
(* What the KVScheduler does to its graph and to the southbound (SB) while *)
(* it processes one transaction: the recursive walk of txn_exec.go         *)
(* (applyValue and everything it calls), the refresh of the graph from SB  *)
(* (refresh.go) and the readiness test with its dependency cycles          *)
(* (node_utils.go).  The operators are functions from an execution state   *)
(* to the next one; KVScheduler turns them into the steps of the           *)
(* processing of a transaction.                                            *)
(*                                                                         *)
(*   S: execution state - graph g, SB content sb, keys of the recorded     *)
(*      operations (exec) and of those recorded with an error (errs),      *)
(*      updatedStates (upd), whether the transaction was reverted          *)
(*   T: the transaction and the outcomes of the descriptor calls in it     *)
(*   A: applyValueArgs                                                     *)
(*                                                                         *)
(*   rec: applyValue for the values below this one, a function of A and S  *)
(*                                                                         *)
(* Keys are numbers, whose order is the alphabetical order of the keys.    *)
(* A value is [rev, der], der giving the values derived from it.           *)
(* Metadata, labels, logging and the order of recorded operations are left *)
(* out.                                                                    *)
(***************************************************************************)
EXTENDS Integers, Sequences, FiniteSets, FiniteSetsExt, Folds

CONSTANTS
    BaseKeys,              \* keys NB and SB give values to
    DerivedKeys,           \* keys of derived values
    Described,             \* keys some descriptor selects (once registered)
    Owner(_),              \* the base key a derived key belongs to
    Dependencies(_, _),    \* descriptor: set of labels, each a set of keys (AnyOf)
    Revisions,             \* what tells the values of a key apart
    Recreate(_, _, _),     \* descriptor: UpdateWithRecreate
    Valid(_, _),           \* descriptor: Validate
    MaxCount               \* RetryOpt.MaxCount

Keys == BaseKeys \cup DerivedKeys

DerivedOf(k) == {d \in DerivedKeys : Owner(d) = k}
DerivedValues == [rev : Revisions, der : [{} -> {}]]
ValuesOf(k) == [rev : Revisions, der : UNION {[D -> DerivedValues] : D \in SUBSET DerivedOf(k)}]

ASSUME ExecAssumption ==
    /\ Keys \subseteq Nat /\ IsFiniteSet(Keys) /\ BaseKeys \cap DerivedKeys = {}
    /\ Described \subseteq Keys
    /\ \A d \in DerivedKeys : Owner(d) \in BaseKeys
    /\ \A k \in Keys : \A v \in ValuesOf(k) : Dependencies(k, v) \subseteq SUBSET Keys
    /\ MaxCount \in Nat

Nil == <<>>
NoUpdate == [txnSeqNum |-> -1]
NoNode == <<>>

-----------------------------------------------------------------------------
(* States of an execution and its results, arguments of applyValue *)

States == {"NONEXISTENT", "MISSING", "UNIMPLEMENTED", "REMOVED", "CONFIGURED", "OBTAINED",
           "DISCOVERED", "PENDING", "INVALID", "FAILED", "RETRYING"}
Values == [rev : Revisions, der : UNION {[D -> DerivedValues] : D \in SUBSET DerivedKeys}] \cup {Nil}

LastUpdates == {NoUpdate} \cup
    [txnSeqNum : Nat, txnOp : {"CREATE", "UPDATE", "DELETE"}, value : Values,
     revert : BOOLEAN, retryEnabled : BOOLEAN]

Nodes == [value : Values, state : States, avail : BOOLEAN, upd : LastUpdates, err : BOOLEAN,
          base : Keys, deps : SUBSET SUBSET Keys, derives : SUBSET DerivedKeys, descr : BOOLEAN]

Graphs == [Keys -> Nodes \cup {NoNode}]

ExecStates == [g : Graphs, sb : [Keys -> Values], exec : SUBSET Keys, errs : SUBSET Keys,
               upd : SUBSET Keys, reverted : {"no", "done", "failed"}]

Results == [s : ExecStates, err : BOOLEAN]

Args == [key : Keys, value : Values, origin : {"NB", "SB"}, isRevert : BOOLEAN, base : Keys,
         applied : SUBSET Keys, isDerived : BOOLEAN, isDepUpdate : BOOLEAN, branch : SUBSET Keys]

-----------------------------------------------------------------------------
(* Graph nodes and their flags *)

\* keys that have a node
nodesOf(g) == {k \in Keys : g[k] # NoNode}

FreshNode(k) == [value |-> Nil, state |-> "NONEXISTENT", avail |-> TRUE,
                 upd |-> NoUpdate, err |-> FALSE, base |-> k,
                 deps |-> {}, derives |-> {}, descr |-> FALSE]

SetNode(g, k) == IF g[k] = NoNode THEN [g EXCEPT ![k] = FreshNode(k)] ELSE g

DeleteNode(g, k) == [g EXCEPT ![k] = NoNode]

getNodeState(g, k) == IF g[k] # NoNode THEN g[k].state ELSE "NONEXISTENT"

valueStateToOrigin(state) ==
    CASE state = "NONEXISTENT" -> "unknown" [] state = "OBTAINED" -> "SB" [] OTHER -> "NB"

isNodeDerived(g, k) == g[k].base # k

isNodeAvailable(g, k) == g[k] # NoNode /\ g[k].avail

getDerivedKeys(g, k) == g[k].derives \cap nodesOf(g)

\* labels of the dependencies a pending value still misses
getValueDetails(g, k) ==
    IF getNodeState(g, k) # "PENDING" THEN {}
    ELSE {label \in g[k].deps : \A t \in label : ~isNodeAvailable(g, t)}

getNodeLastOperation(g, k) ==
    IF getNodeState(g, k) \in {"NONEXISTENT", "OBTAINED"} \/ g[k].upd = NoUpdate
    THEN "UNDEFINED" ELSE g[k].upd.txnOp

\* everything applyValue compares to detect a change of the value status
statusOf(g, k) == <<getNodeState(g, k), getNodeLastOperation(g, k),
                    g[k] # NoNode /\ g[k].err, getValueDetails(g, k)>>

(***************************************************************************)
(* isNodeReadyRec: nodes of a strongly connected component of the          *)
(* dependency graph count as one.  cycleDepth says how far back in the     *)
(* visited branch the node reaches through its dependencies.               *)
(***************************************************************************)
\* rec: isNodeReadyRec for the targets; visited: the branch of keys that led here
BugIsNodeReadyRec(rec, g, k, visited) ==
    [ready |-> \A l \in g[k].deps : \E t \in l \cap nodesOf(g) : g[t].state # "REMOVED" /\ g[t].avail,
     cycleDepth |-> Len(visited)]
isNodeReadyRec(rec, g, k, visited) ==
    LET depth == Len(visited)
        at == {i \in 1..depth : visited[i] = k}
        target(t) == rec[t][Append(visited, k)]
        considered(label) == {t \in label \cap nodesOf(g) : g[t].state # "REMOVED"}
        reach == {t \in UNION {considered(l) : l \in g[k].deps} :
                    target(t).ready /\ target(t).cycleDepth <= depth}
    IN IF at # {} THEN [ready |-> TRUE, cycleDepth |-> Min(at) - 1]
       ELSE [ready |-> \A l \in g[k].deps :
                          \E t \in considered(l) : g[t].avail \/ t \in reach,
             cycleDepth |-> Min({depth} \cup {target(t).cycleDepth : t \in reach})]

\* at most n keys more on the branch
readyWithin(g) ==
    LET within[n \in 0..Cardinality(Keys) + 1] ==
          [k \in Keys |-> [visited \in Seq(Keys) |->
              IF n = 0 THEN [ready |-> FALSE, cycleDepth |-> 0]
              ELSE isNodeReadyRec(within[n - 1], g, k, visited)]]
    IN  within

isNodeReady(g, k) ==
    \/ g[k].state = "OBTAINED"
    \/ readyWithin(g)[Cardinality(Keys) + 1][k][<<>>].ready

-----------------------------------------------------------------------------
(* Descriptors: a call fails when the transaction's oracle says so; it may *)
(* have taken effect all the same.                                         *)

hasDescriptor(T, k) == k \in T.registered

derivedValues(T, k, v) == IF hasDescriptor(T, k) /\ v # Nil THEN v.der ELSE [d \in {} |-> Nil]

dependencies(T, k, v) == IF hasDescriptor(T, k) /\ v # Nil THEN Dependencies(k, v) ELSE {}

updateWithRecreate(T, k, old, new) == hasDescriptor(T, k) /\ Recreate(k, old, new)

\* the handler is called: not in simulation, not for values reported by SB
called(T, A) == ~T.dryRun /\ hasDescriptor(T, A.key) /\ A.origin # "SB"

\* nil is refused by the typed adapters of the descriptors
fails(T, A, op) ==
    called(T, A) /\ (<<op, A.key>> \in T.failing \/ (op = "CREATE" /\ A.value = Nil))

\* SB after a call that leaves value v under the key
afterCall(S, T, A, op, v) ==
    IF called(T, A) /\ (~fails(T, A, op) \/ T.effective)
    THEN [S EXCEPT !.sb[A.key] = v] ELSE S

\* what Retrieve returns for a base key: derived values that really exist
retrieve(T, sb, k) ==
    [rev |-> sb[k].rev,
     der |-> LET real == {d \in DerivedKeys : Owner(d) = k /\ hasDescriptor(T, d) /\ sb[d] # Nil}
                 props == {d \in DOMAIN sb[k].der : ~hasDescriptor(T, d)}
             IN [d \in real \cup props |-> IF d \in real THEN sb[d] ELSE sb[k].der[d]]]

-----------------------------------------------------------------------------
(* Steps shared by the operations *)

Ok(S) == [s |-> S, err |-> FALSE]

\* the next step, unless an error ends the operation
then(r, next(_)) == IF r.err THEN r ELSE next(r.s)

orErr(r, err) == [r EXCEPT !.err = @ \/ err]

recordOp(S, k) == [S EXCEPT !.exec = @ \cup {k}]

setFlags(S, k, state, avail, err) ==
    [S EXCEPT !.g[k] = [@ EXCEPT !.state = state, !.avail = avail, !.err = err]]

setValue(S, k, v) == [S EXCEPT !.g[k] = [@ EXCEPT !.value = v]]

\* step[k][r] for every key of K in alphabetical order, beginning with r
InKeyOrder(step, K, r) ==
    MapThenFoldSet(LAMBDA k, q : step[k][q], r, LAMBDA k : k, Max, K)

\* which attempt to apply the value comes next
BugNextAttempt(T, k) == IF T.type = "RetryFailedOps" /\ k \in T.retryKeys THEN T.attempt ELSE 1
nextAttempt(T, k) == IF T.type = "RetryFailedOps" /\ k \in T.retryKeys THEN T.attempt + 1 ELSE 1

\* Mutant: one attempt too many.
BugFailedState(T, A, node) ==
    LET toBeReverted == T.revertOnFailure /\ ~A.isRevert
    IN IF /\ T.retriable /\ ~toBeReverted
          /\ node.upd.retryEnabled
          /\ MaxCount = 0 \/ nextAttempt(T, node.base) <= MaxCount + 1
       THEN "RETRYING" ELSE "FAILED"

\* markFailedValue: FAILED or RETRYING
failedState(T, A, node) ==
    LET attempt == nextAttempt(T, node.base)
        toBeReverted == T.revertOnFailure /\ ~A.isRevert
    IN IF /\ T.retriable /\ ~toBeReverted
          /\ node.upd.retryEnabled
          /\ MaxCount = 0 \/ attempt <= MaxCount
       THEN "RETRYING" ELSE "FAILED"

\* the node is in an error state; the error only counts for values of this
\* transaction
failed(S, T, A, state, avail) ==
    [s |-> [recordOp(setFlags(S, A.key, state, avail, TRUE), A.key) EXCEPT !.errs = @ \cup {A.key}],
     err |-> S.g[A.key].base \in A.applied]

finalState(A) == IF A.origin = "SB" THEN "OBTAINED" ELSE "CONFIGURED"

validDerivedKV(g, k, v) == v # Nil /\ (g[k] # NoNode => isNodeDerived(g, k))

derivedArgs(A, k, v) ==
    [A EXCEPT !.key = k, !.value = v, !.isDerived = TRUE, !.isDepUpdate = FALSE]

\* vals: derived key -> value, Nil to delete
applyDerived(rec, S, A, vals, check) ==
    InKeyOrder([k \in DOMAIN vals |-> [r \in Results |->
                   IF check /\ ~validDerivedKV(r.s.g, k, vals[k]) THEN r
                   ELSE orErr(rec[derivedArgs(A, k, vals[k])][r.s], r.err)]],
               DOMAIN vals, Ok(S))

toDelete(K) == [k \in K |-> Nil]

depUpdateArgs(A, k, node) ==
    [A EXCEPT !.key = k, !.origin = "NB",
              !.value = IF node.upd = NoUpdate THEN node.value ELSE node.upd.value,
              !.base = node.base, !.isDerived = node.base # k, !.isDepUpdate = TRUE]

depUpdate(rec, r, A, k, forUnavailable) ==
    IF \/ valueStateToOrigin(getNodeState(r.s.g, k)) # "NB"
       \/ r.s.g[k].avail = forUnavailable
    THEN r
    ELSE orErr(rec[depUpdateArgs(A, k, r.s.g[k])][r.s], r.err)

\* one dependency update of each NB value that depends on the key and is
\* (un)available; once per label
BugDepUpdates(rec, S, A, forUnavailable) == Ok(S)

runDepUpdates(rec, S, A, forUnavailable) ==
    LET labels(k) == 1..Cardinality({l \in S.g[k].deps : A.key \in l})
        update(k) == [i \in labels(k) |-> [r \in Results |-> depUpdate(rec, r, A, k, forUnavailable)]]
    IN InKeyOrder([k \in nodesOf(S.g) |-> [r \in Results |-> InKeyOrder(update(k), labels(k), r)]],
                  nodesOf(S.g), Ok(S))

setRelations(S, T, k, derives) ==
    [S EXCEPT !.g[k] = [@ EXCEPT !.deps = dependencies(T, k, S.g[k].value), !.derives = derives]]

\* new targets of the node, then removal of obsolete derived values
BugNewRelations(rec, S, T, A, prevValue, updateDeps) ==
    Ok(IF ~updateDeps THEN S
       ELSE setRelations(S, T, A.key, IF A.isDerived THEN {}
                                      ELSE DOMAIN derivedValues(T, A.key, S.g[A.key].value)))

applyNewRelations(rec, S, T, A, prevValue, updateDeps) ==
    LET k == A.key
        old == IF A.isDerived THEN {} ELSE DOMAIN derivedValues(T, k, prevValue)
        new == IF A.isDerived THEN {} ELSE DOMAIN derivedValues(T, k, S.g[k].value)
        S1 == IF updateDeps \/ old # new
              THEN setRelations(S, T, k, new) ELSE S
    IN IF A.isDerived /\ ~updateDeps THEN Ok(S)
       ELSE applyDerived(rec, S1, A, toDelete(old \ new), FALSE)

-----------------------------------------------------------------------------
(* The three operations *)

\* the deferred function of a successful applyDelete
BugRemoved(S, A, pending, recreate) ==
    Ok(recordOp(setFlags(S, A.key, IF pending THEN "PENDING" ELSE "REMOVED", S.g[A.key].avail, FALSE),
                A.key))

removed(S, A, pending, recreate) ==
    LET k == A.key
        S1 == setFlags(S, k, IF pending THEN "PENDING" ELSE "REMOVED", S.g[k].avail, FALSE)
    IN Ok(recordOp(IF ~pending /\ A.isDerived /\ ~recreate
                   THEN [S1 EXCEPT !.g = DeleteNode(@, k)] ELSE S1, k))

\* Mutant: a value that is to be pending is not hidden.
BugHidden(S, A, pending) ==
    IF pending THEN S ELSE setFlags(S, A.key, "REMOVED", FALSE, S.g[A.key].err)

\* unavailable already, so that nothing sees the value as a satisfied dependency
hidden(S, A, pending) ==
    LET node == S.g[A.key]
    IN setFlags(S, A.key, IF pending THEN node.state ELSE "REMOVED", FALSE, node.err)

\* derived values and the values that depend on this one go first
deleteDependents(rec, S, A) ==
    then(IF A.isDerived THEN Ok(S)
         ELSE applyDerived(rec, S, A, toDelete(getDerivedKeys(S.g, A.key)), FALSE),
         LAMBDA S1 : runDepUpdates(rec, S1, A, FALSE))

callDelete(S, T, A, pending, recreate) ==
    IF fails(T, A, "DELETE") THEN failed(S, T, A, failedState(T, A, S.g[A.key]), FALSE)
    ELSE removed(S, A, pending, recreate)

\* r: outcome of deleteDependents; on failure the value is available again,
\* another one failed instead
deleteAlone(r, T, A, node, pending, recreate) ==
    IF r.err THEN [r EXCEPT !.s = setFlags(@, A.key, node.state, TRUE, node.err)]
    ELSE callDelete(afterCall(r.s, T, A, "DELETE", Nil), T, A, pending, recreate)

applyDelete(rec, S, T, A, pending, recreate) ==
    LET node == S.g[A.key] IN
    CASE node.value = Nil -> Ok([S EXCEPT !.g = DeleteNode(@, A.key)])
      [] node.value # Nil /\ ~node.avail -> removed(S, A, pending, recreate)
      [] OTHER -> deleteAlone(deleteDependents(rec, hidden(S, A, pending), A),
                              T, A, node, pending, recreate)

invalid(T, A) == ~T.dryRun /\ A.origin = "NB" /\ hasDescriptor(T, A.key) /\ ~Valid(A.key, A.value)

unavail(S, k, state) ==
    Ok(recordOp(setFlags(S, k, state, FALSE, FALSE), k))

inPlace(S, A) == setFlags(S, A.key, finalState(A), TRUE, FALSE)

applyOwnDerived(rec, S, T, A) ==
    IF A.isDerived THEN Ok(S)
    ELSE applyDerived(rec, S, A, derivedValues(T, A.key, A.value), TRUE)

callCreate(rec, S, T, A) ==
    IF fails(T, A, "CREATE") THEN failed(S, T, A, failedState(T, A, S.g[A.key]), FALSE)
    ELSE then(runDepUpdates(rec, recordOp(inPlace(S, A), A.key), A, TRUE),
              LAMBDA S1 : applyOwnDerived(rec, S1, T, A))

createIfReady(rec, S, T, A) ==
    IF ~isNodeReady(S.g, A.key) THEN unavail(S, A.key, "PENDING")
    ELSE callCreate(rec, afterCall(S, T, A, "CREATE", A.value), T, A)

\* the node gets its value, its descriptor and the key it is derived from
withValue(S, T, A) ==
    LET node == S.g[A.key]
    IN [S EXCEPT !.g[A.key] = [@ EXCEPT !.value = A.value,
                                        !.descr = node.descr \/ hasDescriptor(T, A.key),
                                        !.base = IF A.isDerived THEN A.base ELSE node.base]]

applyCreate(rec, S, T, A) ==
    LET k == A.key
        S1 == withValue(S, T, A)
        unimplemented == A.origin = "NB" /\ ~A.isDerived /\ ~hasDescriptor(T, k)
    IN CASE unimplemented ->
              IF S.g[k].state = "UNIMPLEMENTED" THEN Ok(S1) ELSE unavail(S1, k, "UNIMPLEMENTED")
         [] ~unimplemented /\ invalid(T, A) -> failed(S1, T, A, "INVALID", FALSE)
         [] OTHER -> createIfReady(rec, applyNewRelations(rec, S1, T, A, Nil, TRUE).s, T, A)

\* nothing to do and nothing to record
inSync(node, A) ==
    /\ node.value = A.value
    /\ \/ node.state = finalState(A)
       \/ node.state = "DISCOVERED" /\ finalState(A) = "CONFIGURED"

callUpdate(rec, S, T, A, node) ==
    IF node.value # A.value /\ fails(T, A, "UPDATE")
    THEN failed(S, T, A, failedState(T, A, S.g[A.key]), S.g[A.key].avail)
    ELSE applyOwnDerived(rec, IF inSync(node, A) THEN inPlace(S, A)
                              ELSE recordOp(inPlace(S, A), A.key), T, A)

\* r: outcome of applyNewRelations; a value that is not ready any more is deleted
\* in its previous form
updateIfReady(rec, r, T, A, node) ==
    LET k == A.key
        equivalent == node.value = A.value
    IN IF r.err THEN [r EXCEPT !.s = setValue(@, k, node.value)]
       ELSE IF ~equivalent /\ ~isNodeReady(r.s.g, k)
       THEN [applyDelete(rec, setValue(r.s, k, node.value), T, A, TRUE, FALSE)
               EXCEPT !.s = setValue(@, k, A.value)]
       ELSE callUpdate(rec, IF equivalent THEN r.s ELSE afterCall(r.s, T, A, "UPDATE", A.value),
                       T, A, node)

applyUpdate(rec, S, T, A) ==
    LET k == A.key
        node == S.g[k]
        equivalent == node.value = A.value
        S1 == setValue(S, k, A.value)
    IN CASE invalid(T, A) -> failed(S1, T, A, "INVALID", FALSE)
         [] /\ ~invalid(T, A) /\ ~equivalent /\ A.origin # "SB"
            /\ updateWithRecreate(T, k, node.value, A.value) ->
              then(applyDelete(rec, S, T, A, FALSE, TRUE),
                   LAMBDA S2 : applyCreate(rec, [S2 EXCEPT !.g = SetNode(@, k)], T, A))
         [] OTHER -> updateIfReady(rec, applyNewRelations(rec, S1, T, A, node.value, ~equivalent),
                                 T, A, node)

-----------------------------------------------------------------------------
(* applyValue *)

BugDepUpdateOperation(g, k) ==
    IF ~g[k].avail /\ isNodeReady(g, k) THEN "CREATE" ELSE "UNDEFINED"

determineDepUpdateOperation(g, k) ==
    CASE ~g[k].avail /\ isNodeReady(g, k) -> "CREATE"
      [] g[k].avail /\ ~isNodeReady(g, k) -> "DELETE"
      [] OTHER -> "UNDEFINED"

operation(g, A) ==
    CASE A.isDepUpdate -> determineDepUpdateOperation(g, A.key)
      [] ~A.isDepUpdate /\ A.value = Nil -> "DELETE"
      [] OTHER -> IF g[A.key].value = Nil \/ ~g[A.key].avail THEN "CREATE" ELSE "UPDATE"

\* retry arguments of this NB transaction, else of the last one for the value,
\* else of the parent value
retryEnabled(g, T, A) ==
    CASE T.type = "NBTransaction" -> T.retryEnabled
      [] T.type # "NBTransaction" /\ g[A.key].upd # NoUpdate -> g[A.key].upd.retryEnabled
      [] OTHER -> /\ A.isDerived /\ g[A.base] # NoNode
                  /\ g[A.base].upd # NoUpdate /\ g[A.base].upd.retryEnabled

\* already broken by this transaction: to be refreshed before it is tried again
alreadyBroken(node, T, A) ==
    /\ node.state \in {"FAILED", "RETRYING", "UNIMPLEMENTED"}
    /\ ~A.isRevert /\ node.upd.txnSeqNum = T.seqNum

\* s.updatedStates: the status of the base value is published
BugStateUpdated(S, A) == [S EXCEPT !.upd = @ \cup {A.key}]
stateUpdated(S, A) == [S EXCEPT !.upd = @ \cup {A.base}]

applyOperation(rec, S, T, A, op) ==
    CASE op = "DELETE" -> applyDelete(rec, S, T, A, A.isDepUpdate, FALSE)
      [] op = "CREATE" -> applyCreate(rec, S, T, A)
      [] op = "UPDATE" -> applyUpdate(rec, S, T, A)

\* before: the graph ahead of the operation
noteChange(r, T, A, before) ==
    IF \/ T.dryRun
       \/ before[A.key].upd # NoUpdate /\ statusOf(before, A.key) = statusOf(r.s.g, A.key)
    THEN r ELSE [r EXCEPT !.s = stateUpdated(@, A)]

\* the last update of the node, recorded before the operation
updated(S, T, A, g, op) ==
    [S EXCEPT !.g = [g EXCEPT ![A.key].upd =
        [txnSeqNum |-> T.seqNum, txnOp |-> op, value |-> A.value,
         revert |-> A.isRevert, retryEnabled |-> retryEnabled(g, T, A)]]]

\* g: the graph with a node for the key
applyToNode(rec, S, T, A, g, op) ==
    CASE op = "UNDEFINED" ->
           Ok([S EXCEPT !.g = IF g[A.key].value = Nil THEN DeleteNode(g, A.key) ELSE g])
      [] op # "UNDEFINED" /\ alreadyBroken(g[A.key], T, A) ->
           [s |-> updated(S, T, A, g, op), err |-> g[A.key].err]
      [] OTHER ->
           noteChange(applyOperation(rec, updated(S, T, A, g, op), T,
                                     [A EXCEPT !.branch = @ \cup {A.key}], op), T, A, g)

\* one value, unless it is being applied already further up the branch
applyOne(rec, S, T, A) ==
    LET g == SetNode(S.g, A.key) IN
    IF A.key \in A.branch THEN Ok(S) ELSE applyToNode(rec, S, T, A, g, operation(g, A))

\* at most n values more on the branch
applyWithin(T) ==
    LET within[n \in 0..Cardinality(Keys)] ==
          [A \in Args |-> [S \in ExecStates |->
              IF n = 0 THEN Ok(S) ELSE applyOne(within[n - 1], S, T, A)]]
    IN  within

\* the branch is never longer than there are keys
applyValue(S, T, A) == applyWithin(T)[Cardinality(Keys)][A][S]

\* arguments of a top-level applyValue
topArgs(kv, applied) ==
    [key |-> kv.key, value |-> kv.value, origin |-> kv.origin, isRevert |-> kv.isRevert,
     base |-> kv.key, applied |-> applied, isDerived |-> FALSE, isDepUpdate |-> FALSE,
     branch |-> {}]
=============================================================================
