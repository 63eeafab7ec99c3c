----------------------------- MODULE KVScheduler -----------------------------
(***************************************************************************)
(* The processing of transactions by the KVScheduler: NB transactions      *)
(* (changes, reverted ones, the three kinds of resync), SB notifications,  *)
(* retries of failed and of unimplemented values.  The consumer goroutine  *)
(* holds the txnLock for the whole of processTransaction, so processing    *)
(* one transaction is one step here; TxnQueue models the queue and the     *)
(* goroutines around it, and a retry may be processed at any moment after  *)
(* it was scheduled.                                                       *)
(***************************************************************************)
EXTENDS KVRefresh, Sequences

CONSTANTS
    Requests,       \* NB transactions: values, resync, retry, revert, simulate
    Notifications,  \* SB changes that are notified: sequences of key and value
    Drifts,         \* SB changes nobody is notified of
    Late,           \* described keys whose descriptor is registered later
    Outcomes,       \* failures of descriptor calls within one transaction
    MaxTxns         \* bound on the number of processed transactions

ASSUME SchedulerAssumption ==
    /\ \A q \in Requests :
          /\ q.resync \in {"NotResync", "Full", "Upstream", "Downstream"}
          /\ q.retry \in BOOLEAN /\ q.revert \in BOOLEAN /\ q.simulate \in BOOLEAN
          /\ DOMAIN q.values \subseteq BaseKeys
          /\ \A k \in DOMAIN q.values : q.values[k] \in ValuesOf(k) \cup {Nil}
    /\ \A x \in Notifications \cup Drifts : \A i \in DOMAIN x :
          x[i].key \in Keys /\ x[i].value \in ValuesOf(x[i].key) \cup {Nil}
    /\ \A x \in Notifications : \A i \in DOMAIN x : x[i].key \in BaseKeys
    /\ Late \subseteq Described
    /\ MaxTxns \in Nat

VARIABLES
    graph,          \* s.graph
    sb,             \* southbound: key -> value
    hist,           \* origin by the last recorded revision of each base key
    txnSeqNumber,   \* s.txnSeqNumber
    resynced,       \* s.resyncCount > 0
    retries,        \* scheduled retries of failed values
    impls,          \* goroutines waiting for a descriptor
    registered,     \* keys with a registered descriptor
    notifs,         \* SB notifications not yet processed
    published,      \* status of each base value last sent to the watchers
    panicked,       \* the consumer goroutine dereferenced nil
    nb,             \* NB view: what clients asked for
    last            \* what the last transaction was and how it ended

vars == <<graph, sb, hist, txnSeqNumber, resynced, retries, impls, registered,
          notifs, published, panicked, nb, last>>

\* status of a base value with its derived values, as sent to the watchers;
\* REMOVED is followed by the removal of the node
getValueStatus(g, k) ==
    LET seen(j) == IF getNodeState(g, j) = "REMOVED" THEN "NONEXISTENT" ELSE getNodeState(g, j)
    IN <<seen(k), IF seen(k) = "NONEXISTENT" THEN <<>>
                  ELSE [d \in getDerivedKeys(g, k) |-> getNodeState(g, d)]>>

\* SB as the Retrieve methods show it
observed == [k \in BaseKeys |-> IF sb[k] = Nil THEN Nil
                               ELSE retrieve([registered |-> registered], sb, k)]

NoTxn == [type |-> "none", resync |-> "NotResync", failing |-> {}, errs |-> {},
          reverted |-> "no"]

Init ==
    /\ graph = [k \in Keys |-> NoNode] /\ sb = [k \in Keys |-> Nil]
    /\ hist = [k \in BaseKeys |-> "unknown"]
    /\ txnSeqNumber = 0 /\ resynced = FALSE
    /\ retries = {} /\ impls = {}
    /\ registered = Described \ Late
    /\ notifs = <<>>
    /\ published = [k \in BaseKeys |-> <<"NONEXISTENT", <<>>>>]
    /\ panicked = FALSE
    /\ nb = [k \in BaseKeys |-> Nil]
    /\ last = NoTxn

-----------------------------------------------------------------------------
(* Pre-processing *)

kvForTxn(k, v, origin, isRevert) ==
    [key |-> k, value |-> v, origin |-> origin, isRevert |-> isRevert]

BugNBKeys(g) == {k \in nodesOf(g) : g[k].base = k /\ g[k].state \in {"CONFIGURED", "PENDING"}}
nbBaseKeys(g) == {k \in nodesOf(g) : g[k].base = k /\ g[k].state # "OBTAINED"}
sbBaseKeys(g) == {k \in nodesOf(g) : g[k].base = k /\ g[k].state = "OBTAINED"}

State(g) == [g |-> g, sb |-> sb, exec |-> {}, errs |-> {}, upd |-> {},
             reverted |-> "no"]

\* values of a resync: given ones, removal of the NB values that were not
\* given, the values SB created by itself
resyncValues(S, values) ==
    [s |-> S,
     values |-> [k \in DOMAIN values \cup nbBaseKeys(S.g) \cup sbBaseKeys(S.g) |->
                    IF k \in DOMAIN values THEN values[k]
                    ELSE IF k \in nbBaseKeys(S.g) THEN kvForTxn(k, Nil, "NB", FALSE)
                    ELSE kvForTxn(k, S.g[k].value, "SB", FALSE)]]

resyncState(T, values) ==
    IF T.resync = "Upstream" THEN State(graph)
    ELSE refreshGraph(State(graph), [T EXCEPT !.values = values, !.firstResync = ~resynced],
                      hist, BaseKeys)

lastValue(k) == kvForTxn(k, graph[k].upd.value, "NB", graph[k].upd.revert)

\* refreshed state and all values of a resync transaction
preProcessNBTransaction(T) ==
    LET values == IF T.resync = "Downstream" THEN [k \in nbBaseKeys(graph) |-> lastValue(k)]
                  ELSE T.values
    IN IF T.resync = "NotResync" THEN [s |-> State(graph), values |-> T.values]
       ELSE resyncValues(resyncState(T, values), values)

\* obsolete retries are filtered out
preProcessRetryTxn(keys) ==
    LET current == {k \in DOMAIN keys :
                      /\ graph[k] # NoNode /\ graph[k].upd # NoUpdate
                      /\ graph[k].upd.txnSeqNum <= keys[k]}
    IN [k \in current |-> lastValue(k)]

\* only the first value of the notification is looked at
BugFilter(kv) == kv.key \notin registered \/ getNodeState(graph, kv.key) # "NONEXISTENT"

filterNotification(kv) ==
    \/ kv.key \notin registered
    \/ valueStateToOrigin(getNodeState(graph, kv.key)) = "NB"

\* the keys of the deletes, re-creates, creates and updates
orderValuesByOp(T, g, values) ==
    LET rank(k) == CASE values[k].value = Nil -> 1
                     [] values[k].value # Nil /\ ~isNodeAvailable(g, k) -> 3
                     [] OTHER -> IF updateWithRecreate(T, k, g[k].value, values[k].value)
                                 THEN 2 ELSE 4
    IN [op \in 1..4 |-> {k \in DOMAIN values : rank(k) = op}]

-----------------------------------------------------------------------------
(* Execution *)

\* value to go back to, should the transaction be reverted
BugPrevValue(g, kv) == kvForTxn(kv.key, Nil, "NB", TRUE)
prevValue(g, kv) == kvForTxn(kv.key, SetNode(g, kv.key)[kv.key].value, "NB", TRUE)

KVs == [key : Keys, value : Values, origin : {"NB", "SB"}, isRevert : BOOLEAN]
Loops == [s : ExecStates, applied : SUBSET Keys, prevValues : Seq(KVs), stop : BOOLEAN]

\* q: outcome of applyValue for kv
afterValue(r, T, kv, q) ==
    [s |-> q.s, applied |-> r.applied \cup {kv.key},
     prevValues |-> Append(r.prevValues, prevValue(r.s.g, kv)),
     stop |-> q.err /\ T.revertOnFailure]

applyNext(r, T, kv) ==
    IF r.stop THEN r
    ELSE afterValue(r, T, kv, applyValue(r.s, T, topArgs(kv, r.applied \cup {kv.key})))

\* the value being applied is refreshed and all values go back in reverse order
revert(r, T) ==
    LET n == Len(r.prevValues)
    IN InKeyOrder([i \in 1..n |-> [S \in ExecStates |->
                      applyValue(S, T, topArgs(r.prevValues[n + 1 - i], r.applied)).s]],
                  1..n, [refreshGraph(r.s, T, hist, {r.prevValues[n].key}) EXCEPT !.errs = {}])

afterRevert(S, errs) ==
    [S EXCEPT !.errs = @ \cup errs, !.reverted = IF S.errs = {} THEN "done" ELSE "failed"]

\* with revertOnFailure the first error ends the loop over the values
afterLoop(r, T) == IF r.stop THEN afterRevert(revert(r, T), r.s.errs) ELSE r.s

\* one value after the other, by operation and key
executeTransaction(S, T, values, order) ==
    LET step == [k \in DOMAIN values |-> [r \in Loops |-> applyNext(r, T, values[k])]]
    IN afterLoop(InKeyOrder([op \in 1..4 |-> [r \in Loops |-> InKeyOrder(step, order[op], r)]], 1..4,
                            [s |-> S, applied |-> {}, prevValues |-> <<>>, stop |-> FALSE]),
                 T)

\* origin in the newest recorded revision of each base node
record(h, before, after) ==
    [k \in BaseKeys |->
        IF after[k] # NoNode /\ before[k] # after[k]
        THEN valueStateToOrigin(after[k].state) ELSE h[k]]

-----------------------------------------------------------------------------
(* Post-processing *)

inState(S, states) == {S.g[k].base : k \in {k \in S.exec \cap nodesOf(S.g) : S.g[k].state \in states}}

\* retries of the values that failed in this transaction, by attempt
scheduleRetries(S, T, toRetry) ==
    LET again == {k \in toRetry : T.type = "RetryFailedOps" /\ k \in T.retryKeys}
        retry(K) == {[keys |-> [k \in L |-> S.g[k].upd.txnSeqNum],
                      attempt |-> nextAttempt(T, CHOOSE k \in L : TRUE)] : L \in {K} \ {{}}}
    IN retry(again) \cup retry(toRetry \ again)

scheduleUnimpl(S, T, toImpl) ==
    IF T.type = "RetryUnimplOps" THEN {}
    ELSE {[key |-> k, txnSeqNum |-> S.g[k].upd.txnSeqNum] : k \in toImpl}

\* lastUpdate.retryArgs of a value to retry is nil
retryArgsMissing(S, k) == S.g[k] = NoNode \/ S.g[k].upd = NoUpdate \/ ~S.g[k].upd.retryEnabled

\* S: the refreshed state
finalizeTransaction(S, T, toRetry, toImpl) ==
    LET gone == {k \in S.upd : getNodeState(S.g, k) = "REMOVED"}
    IN IF \E k \in toRetry : retryArgsMissing(S, k)
       THEN /\ panicked' = TRUE
            /\ graph' = S.g
            /\ UNCHANGED <<retries, impls, published>>
       ELSE /\ graph' = [k \in Keys |-> IF k \in gone THEN NoNode ELSE S.g[k]]
            /\ retries' = (retries \ T.consumed) \cup scheduleRetries(S, T, toRetry)
            /\ impls' = (impls \ T.consumed) \cup scheduleUnimpl(S, T, toImpl)
            /\ published' = [k \in BaseKeys |-> IF k \in S.upd THEN getValueStatus(S.g, k)
                                                ELSE published[k]]
            /\ UNCHANGED panicked

refreshBroken(S, T, h, broken) == IF broken = {} THEN S ELSE refreshGraph(S, T, h, broken)

postProcessTransaction(S, T, h) ==
    finalizeTransaction(
        refreshBroken(S, T, h, inState(S, {"UNIMPLEMENTED", "FAILED", "RETRYING"})),
        T, inState(S, {"RETRYING"}), inState(S, {"UNIMPLEMENTED"}))

-----------------------------------------------------------------------------
(* processTransaction *)

\* nothing is executed when the simulation finds nothing to do
afterSimulation(dry, S, T, values, order) ==
    IF dry.exec = {} THEN [S EXCEPT !.g = dry.g] ELSE executeTransaction(S, T, values, order)

execute(T, S, values, order, skipExec, simulate) ==
    CASE skipExec -> S
      [] ~skipExec /\ simulate ->
           afterSimulation(executeTransaction(S, [T EXCEPT !.dryRun = TRUE], values, order),
                           S, T, values, order)
      [] OTHER -> executeTransaction(S, T, values, order)

\* S, S1: state before and after the execution
recordTransaction(T, S, S1) ==
    /\ txnSeqNumber < MaxTxns /\ ~panicked
    /\ txnSeqNumber' = txnSeqNumber + 1
    /\ hist' = IF T.resync = "Downstream" THEN hist ELSE record(hist, S.g, S1.g)
    /\ sb' = S1.sb
    /\ last' = [type |-> T.type, resync |-> T.resync, failing |-> T.failing,
                errs |-> S1.errs, reverted |-> S1.reverted]
    /\ postProcessTransaction(S1, T, hist')

processTransaction(T, S, values, skipExec, simulate) ==
    recordTransaction(T, S, execute(T, S, values, orderValuesByOp(T, S.g, values), skipExec, simulate))

\* a transaction of the given type, with the outcome o of its descriptor calls
transaction(type, o) ==
    [type |-> type, seqNum |-> txnSeqNumber, registered |-> registered, dryRun |-> FALSE,
     failing |-> o.failing, effective |-> o.effective, retriable |-> o.retriable,
     unretrievable |-> o.unretrievable, firstResync |-> FALSE, resync |-> "NotResync",
     values |-> [k \in {} |-> Nil], retryEnabled |-> FALSE, revertOnFailure |-> FALSE,
     retryKeys |-> {}, attempt |-> 0, consumed |-> {}]

\* options Commit refuses to combine: the transaction is never queued
commitAccepted(q) ==
    /\ ~(q.resync = "Downstream" /\ DOMAIN q.values # {})
    /\ ~(q.revert /\ q.resync # "NotResync")

\* p: the pre-processed state and values
processNBTransaction(T, p, q) ==
    LET skip == q.resync # "NotResync" /\ DOMAIN p.values = {}
    IN processTransaction(T, p.s, p.values, skip, q.simulate /\ ~skip)

nbValues(q, otherwise) ==
    [k \in BaseKeys |-> IF k \in DOMAIN q.values THEN q.values[k] ELSE otherwise[k]]

\* a downstream resync reads the last update of every NB value
lastUpdateMissing(q) ==
    q.resync = "Downstream" /\ \E k \in nbBaseKeys(graph) : graph[k].upd = NoUpdate

PanicInResync ==
    /\ txnSeqNumber < MaxTxns /\ ~panicked /\ panicked' = TRUE
    /\ UNCHANGED <<graph, sb, hist, txnSeqNumber, resynced, retries, impls, registered,
                   notifs, published, nb, last>>

NBTransaction(q, o) ==
    LET T == [transaction("NBTransaction", o) EXCEPT
                !.resync = q.resync,
                !.values = [k \in DOMAIN q.values |-> kvForTxn(k, q.values[k], "NB", FALSE)],
                !.retryEnabled = q.retry, !.revertOnFailure = q.revert]
    IN /\ commitAccepted(q)
       /\ IF lastUpdateMissing(q) THEN PanicInResync
          ELSE /\ processNBTransaction(T, preProcessNBTransaction(T), q)
               /\ resynced' = (resynced \/ q.resync # "NotResync")
               /\ nb' = CASE q.resync = "Downstream" -> nb
                          [] q.resync \in {"Full", "Upstream"} -> nbValues(q, [k \in BaseKeys |-> Nil])
                          [] OTHER -> IF last'.reverted # "no" THEN nb ELSE nbValues(q, nb)
               /\ UNCHANGED <<registered, notifs>>

\* RetryFailedOps, always simulated first
RetryFailedOps(r, o) ==
    LET values == preProcessRetryTxn(r.keys) IN
    /\ processTransaction([transaction("RetryFailedOps", o) EXCEPT
                             !.retryKeys = DOMAIN r.keys, !.attempt = r.attempt, !.consumed = {r}],
                          State(graph), values, DOMAIN values = {}, DOMAIN values # {})
    /\ UNCHANGED <<resynced, registered, notifs, nb>>

\* RetryUnimplOps, once the descriptor is registered
RetryUnimplOps(i, o) ==
    LET values == preProcessRetryTxn([k \in {i.key} |-> i.txnSeqNum]) IN
    /\ i.key \in registered
    /\ processTransaction([transaction("RetryUnimplOps", o) EXCEPT !.consumed = {i}],
                          State(graph), values, DOMAIN values = {}, DOMAIN values # {})
    /\ UNCHANGED <<resynced, registered, notifs, nb>>

\* keys of a notification, and the value it has for one
notified(x) == {x[i].key : i \in DOMAIN x}
valueOf(x, k) == x[CHOOSE i \in DOMAIN x : x[i].key = k].value

SBNotification(o) ==
    LET x == Head(notifs)
        values == [k \in notified(x) |-> kvForTxn(k, valueOf(x, k), "SB", FALSE)]
    IN /\ notifs # <<>>
       /\ notifs' = Tail(notifs)
       /\ processTransaction(transaction("SBNotification", o), State(graph), values,
                             filterNotification(x[1]), FALSE)
       /\ UNCHANGED <<resynced, registered, nb>>

-----------------------------------------------------------------------------
(* The environment *)

SBChange(x) == sb' = [k \in Keys |-> IF k \in notified(x) THEN valueOf(x, k) ELSE sb[k]]

\* SB changes by itself and the change is notified
SBEvent(x) ==
    /\ notifs = <<>> /\ txnSeqNumber < MaxTxns
    /\ SBChange(x) /\ sb' # sb
    /\ notifs' = Append(notifs, x)
    /\ UNCHANGED <<graph, hist, txnSeqNumber, resynced, retries, impls, registered,
                   published, panicked, nb, last>>

\* SB changes by itself and nobody is told (a lost notification, a restart)
SBDrift(x) ==
    /\ txnSeqNumber < MaxTxns
    /\ SBChange(x) /\ sb' # sb /\ last' = [NoTxn EXCEPT !.type = "drift"]
    /\ UNCHANGED <<graph, hist, txnSeqNumber, resynced, retries, impls, registered,
                   notifs, published, panicked, nb>>

RegisterKVDescriptor(k) ==
    /\ k \notin registered
    /\ registered' = registered \cup {k}
    /\ UNCHANGED <<graph, sb, hist, txnSeqNumber, resynced, retries, impls,
                   notifs, published, panicked, nb, last>>

\* after a loss of SB the next transaction is the resync that its reconnection
\* triggers
lost == last.type = "drift"
resyncsSB(q) == q.resync \in {"Full", "Downstream"}

Next ==
    \/ \E o \in Outcomes :
         \/ \E q \in Requests : (lost => resyncsSB(q)) /\ NBTransaction(q, o)
         \/ \E r \in retries : ~lost /\ RetryFailedOps(r, o)
         \/ \E i \in impls : ~lost /\ RetryUnimplOps(i, o)
         \/ ~lost /\ SBNotification(o)
    \/ \E x \in Notifications : SBEvent(x)
    \/ \E x \in Drifts : SBDrift(x)
    \/ \E k \in Late : RegisterKVDescriptor(k)

Spec == Init /\ [][Next]_vars

-----------------------------------------------------------------------------
(* Properties *)

\* Type invariant of the state kept by the scheduler (Scheduler struct).
TypeOK ==
    /\ graph \in Graphs
    /\ \A k \in nodesOf(graph) :
          /\ graph[k].base = (IF k \in BaseKeys THEN k ELSE Owner(k))
          /\ graph[k].upd.txnSeqNum < txnSeqNumber
    /\ DOMAIN sb = Keys /\ DOMAIN nb = BaseKeys /\ DOMAIN published = BaseKeys
    /\ hist \in [BaseKeys -> {"unknown", "NB", "SB"}]
    /\ txnSeqNumber \in 0 .. MaxTxns
    /\ \A r \in retries : DOMAIN r.keys \subseteq BaseKeys /\ r.attempt \in Nat \ {0}
    /\ \A i \in impls : i.key \in BaseKeys /\ i.txnSeqNum \in 0 .. txnSeqNumber - 1
    /\ registered \subseteq Described
    /\ resynced \in BOOLEAN /\ panicked \in BOOLEAN

\* What is reported of a value agrees with what its dependents go by (flags
\* UnavailValueFlag, ValueStateFlag and ErrorFlag of its node): a value in place
\* is available, a pending one is not, and an error is kept exactly for a value
\* in an error state - after failed deletes, reverts and refreshes too.
StatusTruthful ==
    \A k \in nodesOf(graph) :
        /\ graph[k].state \in {"CONFIGURED", "OBTAINED", "DISCOVERED"} => graph[k].avail
        /\ graph[k].state = "PENDING" => ~graph[k].avail
        /\ graph[k].err <=> graph[k].state \in {"FAILED", "RETRYING", "INVALID"}

\* SB as the scheduler has been told: a pending notification is still to come.
knownSB ==
    [k \in Keys |->
        IF \E n \in DOMAIN notifs : k \in notified(notifs[n])
        THEN IF isNodeAvailable(graph, k) THEN graph[k].value ELSE Nil
        ELSE IF k \in BaseKeys THEN observed[k] ELSE sb[k]]

\* The reconciliation KVScheduler implements when nothing fails.  A descriptor
\* counts once the values that waited for it have been told.
Reconciliation == INSTANCE Reconciler WITH
    want <- nb,
    external <- [k \in BaseKeys |-> IF getNodeState(graph, k) = "OBTAINED" THEN graph[k].value ELSE Nil],
    implemented <- {k \in registered : getNodeState(graph, k) # "UNIMPLEMENTED"},
    have <- knownSB

\* All transactions of NB and notifications of SB, in whatever order they come,
\* leave in SB exactly what the reconciliation promises (txn_exec.go, applyValue).
Reconciles == Reconciliation!Spec

\* The graph knows which described values are in SB: the ones it considers
\* available (postProcessTransaction refreshes what failed).
GraphMatchesSB ==
    \A k \in Described : isNodeAvailable(graph, k) <=> knownSB[k] # Nil

\* "A cannot exist without B": a configured value has an available target for
\* each of its dependencies (kv_scheduler_api.go:133, runDepUpdates).
DependenciesHold ==
    \A k \in nodesOf(graph) : graph[k].state = "CONFIGURED" /\ k \in registered =>
        \A label \in Dependencies(k, graph[k].value) : \E t \in label : isNodeAvailable(graph, t)

\* No wake-up is missed: a value is left pending only while its dependencies
\* are not met (txn_exec.go, runDepUpdates and determineDepUpdateOperation).
PendingJustified ==
    \A k \in nodesOf(graph) : graph[k].state = "PENDING" => ~isNodeReady(graph, k)

\* Between transactions the graph holds no node of a removed value, no node
\* without a value and no derived value its base does not derive
\* (postProcessTransaction and applyDelete).
NoLeftovers ==
    \A k \in nodesOf(graph) :
        /\ graph[k].state \notin {"REMOVED", "NONEXISTENT"} /\ graph[k].value # Nil
        /\ isNodeDerived(graph, k) =>
              graph[k].base \in nodesOf(graph) /\ k \in graph[graph[k].base].derives

\* What the watchers were last told about a base value and its derived values
\* is their status (updatedStates, postProcessTransaction).
StatusPublished == \A k \in BaseKeys : published[k] = getValueStatus(graph, k)

\* A value is retried at most MaxCount times, whatever happens to it in between
\* (markFailedValue, scheduleRetries; WithRetry, txn_options.go:197).
RetryBounded == \A r \in retries : MaxCount # 0 => r.attempt <= MaxCount

\* A value whose retry fails again is retried under the next attempt number: no
\* chain of retries is endless (scheduleRetries).
RetryAdvances ==
    [][\A r \in retries \ retries', again \in retries' \ retries :
          (DOMAIN r.keys) \cap (DOMAIN again.keys) # {} => again.attempt > r.attempt]_vars

\* Every value to be retried has retry arguments: scheduleRetries reads the ones
\* of the base value, markFailedValue looked at those of the value that failed.
NoPanic == ~panicked

\* A transaction reverted without a further error leaves SB as it found it,
\* unless some value was broken already (executeTransaction).
RevertRestores ==
    [][/\ txnSeqNumber' # txnSeqNumber /\ last'.reverted = "done"
       /\ \A k \in nodesOf(graph) : ~graph[k].err
       => observed' = observed]_vars

\* Whatever failed or drifted before, a resync in which nothing fails brings SB
\* to what the reconciliation promises (preProcessNBTransaction, refreshGraph).
ResyncHeals ==
    last.resync \in {"Full", "Downstream"} /\ last.failing = {} /\ ~panicked =>
        Reconciliation!InPlace

\* "If <value> is nil, the value will get deleted": a value NB has deleted, or
\* never set, is not in the graph unless SB has it by itself (SetValue).
DeletesHonoured ==
    \A k \in BaseKeys : nb[k] = Nil => getNodeState(graph, k) \in {"NONEXISTENT", "OBTAINED"}

\* A notification changes nothing NB manages: no value of NB ends up reported by
\* SB (preProcessNotification, filterNotification).
NotificationsFiltered ==
    \A k \in BaseKeys : nb[k] # Nil => getNodeState(graph, k) # "OBTAINED"

-----------------------------------------------------------------------------
(***************************************************************************)
(* What the documentation says of a value and the code does not always     *)
(* keep: the README gives for each the instance in which TLC finds it out. *)
(***************************************************************************)

\* RETRYING: "one or more attempts to fix the error by repeating the last
\* operation are planned" (value_status.proto): a retry is scheduled that
\* will not be dropped as obsolete.
RetryPlanned ==
    \A k \in nodesOf(graph) : graph[k].state = "RETRYING" =>
        \E r \in retries : LET b == graph[k].base IN
            b \in DOMAIN r.keys /\ graph[b].upd.txnSeqNum <= r.keys[b]

\* A value whose descriptor has been registered is not left unimplemented
\* without a transaction on its way that will configure it (scheduleUnimpl,
\* preProcessRetryTxn).
UnimplementedWaits ==
    \A k \in nodesOf(graph) : graph[k].state = "UNIMPLEMENTED" /\ k \in registered =>
        \E i \in impls : i.key = k /\ graph[k].upd.txnSeqNum <= i.txnSeqNum

\* A value that NB has deleted and that is gone from the graph is gone from SB.
DeletedFromSB ==
    \A k \in BaseKeys : nb[k] = Nil /\ k \notin nodesOf(graph) => knownSB[k] = Nil

\* "derived value exists only as long as its base does" (kv_scheduler_api.go:141).
DerivedNeedsBase ==
    \A k \in nodesOf(graph) : isNodeDerived(graph, k) => graph[k].base \in nodesOf(graph)

\* A configured base value has all the values its descriptor derives from it in
\* the graph, whatever their state (applyCreate, applyUpdate).
DerivedComplete ==
    \A k \in nodesOf(graph) : graph[k].state = "CONFIGURED" /\ k \in BaseKeys =>
        DOMAIN graph[k].value.der \subseteq nodesOf(graph)
=============================================================================
