----------------------------- MODULE Dispatcher -----------------------------
(***************************************************************************)
(* The dispatcher of the orchestrator (dispatcher.go, store.go): every     *)
(* source of configuration ends in PushData, which keeps the data of each  *)
(* source in memory and commits a transaction to the KVScheduler.          *)
(*                                                                         *)
(* The KVScheduler is seen from here as the queue of TxnQueue, processed   *)
(* in order, and the values NB has set in it; a transaction whose caller   *)
(* gave up waiting stays in the queue.  What becomes of a value in SB is   *)
(* KVScheduler's part.  The checks of PushData refuse a request before     *)
(* anything has changed: a request is a function from keys to values.      *)
(* Labels are left out: nothing here depends on them.                      *)
(***************************************************************************)
EXTENDS Integers, Sequences, FiniteSets

CONSTANTS Keys, Values,
          SourceOrder,  \* the data sources, sorted by name
          Callers,      \* goroutines that call PushData
          Impatient     \* the callers whose context may be cancelled: gRPC calls

Nil == 0
None == "none"
Sources == {SourceOrder[i] : i \in DOMAIN SourceOrder}

ASSUME DispatcherAssumption ==
    /\ SourceOrder \in Seq(Sources)
    /\ \A i, j \in DOMAIN SourceOrder : SourceOrder[i] = SourceOrder[j] => i = j
    /\ Nil \notin Values /\ None \notin Callers /\ Impatient \subseteq Callers

VARIABLES
    db,     \* memStore.db: source -> key -> value
    mu,     \* who holds the mutex of the dispatcher
    call,   \* progress of each caller in PushData
    queue,  \* transactions committed and not yet processed
    sched,  \* values NB has set in the KVScheduler
    dirty   \* keys about which store and scheduler may disagree, and why: see prepared

dispatcherVars == <<db, mu, call, queue, sched, dirty>>

NoRequest == [src |-> None, resync |-> FALSE, kvs |-> <<>>]
IdleCall == [pc |-> "idle", req |-> NoRequest, values |-> <<>>]

InitDispatcher ==
    /\ db = [s \in Sources |-> [k \in Keys |-> Nil]]
    /\ mu = None /\ queue = <<>> /\ dirty = {}
    /\ call = [x \in Callers |-> IdleCall]
    /\ sched = [k \in Keys |-> Nil]

-----------------------------------------------------------------------------
(* memStore *)

\* the last source in the order that has the key wins
ListAll(store, k) ==
    LET holding == {i \in DOMAIN SourceOrder : store[SourceOrder[i]][k] # Nil}
    IN IF holding = {} THEN Nil
       ELSE store[SourceOrder[CHOOSE i \in holding : \A j \in holding : j <= i]][k]

\* Update and Delete of one source, after Reset in a resync, which skips nil
updatedStore(req) ==
    [db EXCEPT ![req.src] = [k \in Keys |-> IF k \in DOMAIN req.kvs THEN req.kvs[k]
                                           ELSE IF req.resync THEN Nil ELSE @[k]]]

-----------------------------------------------------------------------------
(* PushData *)

\* the values of the transaction: everything there is for a resync
txnValues(req, store) ==
    IF req.resync
    THEN LET all == {k \in Keys : ListAll(store, k) # Nil} IN [k \in all |-> ListAll(store, k)]
    ELSE req.kvs

\* A change of a key that another source has too leaves the scheduler with the
\* value changed last, the store with the one of the last source: until the
\* next resync, or a change when nobody else has the key.
prepared(req) ==
    IF req.resync THEN {}
    ELSE LET shared == {k \in DOMAIN req.kvs : \E s \in Sources \ {req.src} : db[s][k] # Nil}
         IN (dirty \ DOMAIN req.kvs) \cup shared

\* mutant: the mutex covers the store only
BugPrepare(x) ==
    /\ call[x].pc = "lock" /\ mu = None
    /\ db' = updatedStore(call[x].req)
    /\ dirty' = prepared(call[x].req)
    /\ call' = [call EXCEPT ![x].pc = "commit", ![x].values = txnValues(call[x].req, db')]
    /\ UNCHANGED <<mu, queue, sched>>

\* the mutex is taken, the store is updated and the transaction is filled
Prepare(x) ==
    /\ call[x].pc = "lock" /\ mu = None
    /\ mu' = x
    /\ db' = updatedStore(call[x].req)
    /\ dirty' = prepared(call[x].req)
    /\ call' = [call EXCEPT ![x].pc = "commit", ![x].values = txnValues(call[x].req, db')]
    /\ UNCHANGED <<queue, sched>>

Commit(x) ==
    /\ call[x].pc = "commit"
    /\ queue' = Append(queue, [by |-> x, resync |-> call[x].req.resync, values |-> call[x].values])
    /\ call' = [call EXCEPT ![x].pc = "wait"]
    /\ UNCHANGED <<db, mu, sched, dirty>>

\* the transaction is not accepted: the scheduler closes or refuses its options.
\* Allowed to every impatient caller; the store stays as it is
CommitRefused(x) ==
    /\ call[x].pc = "commit" /\ x \in Impatient
    /\ dirty' = IF call[x].req.resync THEN Keys ELSE dirty \cup DOMAIN call[x].req.kvs
    /\ call' = [call EXCEPT ![x].pc = "done"]
    /\ UNCHANGED <<db, mu, queue, sched>>

\* the transaction is finished, or its caller stops waiting; TransactionBarrier
\* returns as soon as no transaction is being processed
Committed(x) ==
    /\ call[x].pc = "wait"
    /\ x \in Impatient \/ \A i \in DOMAIN queue : queue[i].by # x
    /\ call' = [call EXCEPT ![x].pc = "done"]
    /\ UNCHANGED <<db, mu, queue, sched, dirty>>

\* the deferred unlock
PushReturn(x) ==
    /\ call[x].pc = "done"
    /\ mu' = IF mu = x THEN None ELSE mu
    /\ call' = [call EXCEPT ![x] = IdleCall]
    /\ UNCHANGED <<db, queue, sched, dirty>>

\* the KVScheduler processes a transaction: a full resync removes what it does
\* not set
Process ==
    /\ queue # <<>>
    /\ LET t == Head(queue)
       IN sched' = [k \in Keys |-> IF k \in DOMAIN t.values THEN t.values[k]
                                   ELSE IF t.resync THEN Nil ELSE sched[k]]
    /\ queue' = Tail(queue)
    /\ UNCHANGED <<db, mu, call, dirty>>

pushSteps(x) == Prepare(x) \/ Commit(x) \/ CommitRefused(x) \/ Committed(x)

-----------------------------------------------------------------------------
(* Properties *)

Contents == [Keys -> Values \cup {Nil}]
Maps == UNION {[K -> Values \cup {Nil}] : K \in SUBSET Keys}
Requests == [src : Sources, resync : BOOLEAN, kvs : Maps]
Transactions == [by : Callers, resync : BOOLEAN, values : Maps]

\* the state of the dispatcher; whoever is inside PushData has a request
DispatcherTypeOK ==
    /\ db \in [Sources -> Contents] /\ sched \in Contents
    /\ mu \in Callers \cup {None} /\ dirty \subseteq Keys
    /\ call \in [Callers -> [pc : {"idle", "lock", "commit", "wait", "done"},
                             req : Requests \cup {NoRequest}, values : Maps]]
    /\ \A x \in Callers : call[x].pc # "idle" => call[x].req \in Requests
    /\ queue \in Seq(Transactions)

\* The transactions are committed in the order in which the store was updated,
\* whichever callers compete and whoever gives up: once they are processed the
\* scheduler has what the store lists, and a full resync of any source brings
\* back together what a refused commit or a shared key has separated (PushData).
StoreApplied ==
    mu = None /\ queue = <<>> =>
        \A k \in Keys \ dirty : sched[k] = ListAll(db, k)
=============================================================================
