---------------------------- MODULE Registration ----------------------------
(***************************************************************************)
(* Descriptors registered while the scheduler already runs.  The goroutine *)
(* that initialises plugins registers descriptors one after another        *)
(* (plugin_scheduler.go, registerKVDescriptor) while the consumer of       *)
(* transactions executes values.  A value without a descriptor becomes     *)
(* UNIMPLEMENTED; a goroutine waits for the registration of its key prefix *)
(* on a channel of a broadcast (pkg/models/registry.go) and then asks for  *)
(* the value to be tried again.                                            *)
(*                                                                         *)
(* keyPrefixes and subs are plain maps used by both goroutines without a   *)
(* lock, so every access is a step of its own.  What orders the two is the *)
(* lock of the graph, which the consumer holds while it executes values    *)
(* and while it subscribes, and which a registration takes only for a      *)
(* descriptor with metadata.                                               *)
(*                                                                         *)
(* A model has one descriptor and one key prefix, so a descriptor also     *)
(* stands for its prefix.  Descriptors are numbers, ordered as their names.*)
(***************************************************************************)
EXTENDS Naturals, Sequences, FiniteSets, SequencesExt

CONSTANTS Keys,
          Descriptors,
          SelectedBy,      \* key -> the descriptor whose KeySelector selects it
          WithMetadata,    \* descriptors with metadata
          RetrieveDependencies,
          MaxKeyCacheSize,
          Updates,         \* may NB change a value it has put?
          MaxTxns          \* bound: transactions of NB

NoDescriptor == 0

ASSUME RegistrationAssumption ==
    /\ IsFiniteSet(Descriptors) /\ Descriptors \subseteq Nat \ {NoDescriptor}
    /\ SelectedBy \in [Keys -> Descriptors]
    /\ WithMetadata \subseteq Descriptors
    /\ RetrieveDependencies \in [Descriptors -> SUBSET Descriptors]
    /\ \A D \in (SUBSET Descriptors) \ {{}} : \E d \in D : RetrieveDependencies[d] \cap D = {}
    /\ MaxKeyCacheSize \in Nat \ {0} /\ Updates \in BOOLEAN /\ MaxTxns \in Nat

VARIABLES
    descriptors,      \* registry: the registered descriptors
    upToDateDescList, \* registry: is descriptorList in sync with descriptors?
    descriptorList,   \* registry: descriptors in the order of Retrieve
    keyCache,         \* registry: key and descriptor, the last used first
    keyPrefixes,      \* scheduler: prefixes of registered descriptors
    subs,             \* scheduler: prefix -> index of its broadcast, or 0
    mappings,         \* graph: descriptors whose metadata map is registered
    metadata,         \* keys that have an entry in the metadata map
    broadcasts,       \* every SourceBroadcast made so far
    waits,            \* every wait for a registration (goroutine waitForImpl)
    reg,              \* progress of registerKVDescriptor
    cons,             \* progress of the consumer with its transaction
    value,            \* graph: state and last update of each value
    txnSeqNumber,
    queue,            \* txnQueue
    nb,               \* what NB wants: the keys it has put and not deleted
    commits,          \* number of transactions committed by NB
    crashed           \* the process was aborted

registry == <<descriptors, upToDateDescList, descriptorList, keyCache>>
maps     == <<keyPrefixes, subs>>
graph    == <<mappings, metadata, value>>
north    == <<nb, commits>>
vars == <<registry, maps, graph, broadcasts, waits, reg, cons, txnSeqNumber, queue, north,
          crashed>>

RegIdle  == [pc |-> "idle", d |-> NoDescriptor, sbc |-> 0]
NoTxn    == [type |-> "NBTransaction", put |-> {}, del |-> {}, rev |-> 0]
ConsIdle == [pc |-> "idle", txn |-> NoTxn, todo |-> {}, toImpl |-> {}, b |-> 0]
Absent   == [state |-> "none", rev |-> 0]

Init ==
    /\ descriptors = {} /\ upToDateDescList = FALSE /\ descriptorList = <<>>
    /\ keyCache = <<>> /\ keyPrefixes = {} /\ subs = [d \in Descriptors |-> 0]
    /\ mappings = {} /\ metadata = {} /\ broadcasts = <<>> /\ waits = <<>>
    /\ reg = RegIdle /\ cons = ConsIdle
    /\ value = [k \in Keys |-> Absent]
    /\ txnSeqNumber = 0 /\ queue = <<>> /\ nb = {} /\ commits = 0 /\ crashed = FALSE

\* the consumer holds the write lock of the graph
graphLocked == cons.pc \in {"exec", "prefix", "subs", "load", "subscribe"}

-----------------------------------------------------------------------------
(* The registry of descriptors; every operation runs under its mutex *)

cached(key) == \E i \in DOMAIN keyCache : keyCache[i].key = key
position(key) == CHOOSE i \in DOMAIN keyCache : keyCache[i].key = key

\* GetDescriptorForKey: what it returns, from the cache or by asking every
\* descriptor, and the cache it leaves
GetDescriptorForKey(key) ==
    IF cached(key) THEN keyCache[position(key)].descriptor
    ELSE IF SelectedBy[key] \in descriptors THEN SelectedBy[key] ELSE NoDescriptor

BugEvicted == IF Len(keyCache) > MaxKeyCacheSize THEN Front(keyCache) ELSE keyCache

evicted == IF Len(keyCache) = MaxKeyCacheSize THEN Front(keyCache) ELSE keyCache

cacheAfter(key) ==
    IF cached(key) THEN <<keyCache[position(key)]>> \o RemoveAt(keyCache, position(key))
    ELSE IF GetDescriptorForKey(key) = NoDescriptor THEN evicted
    ELSE <<[key |-> key, descriptor |-> GetDescriptorForKey(key)]>> \o evicted

\* utils.TopologicalOrder with depFirst: Kahn's algorithm, the first candidate
\* by name goes next
candidates(remains) == {d \in remains : RetrieveDependencies[d] \cap remains = {}}
selected(remains) == CHOOSE d \in candidates(remains) : \A e \in candidates(remains) : d <= e

TopologicalOrder(names) ==
    LET order[remains \in SUBSET names] ==
          IF remains = {} THEN <<>>
          ELSE <<selected(remains)>> \o order[remains \ {selected(remains)}]
    IN  order[names]

GetAllDescriptors ==
    /\ upToDateDescList' = TRUE
    /\ descriptorList' = IF upToDateDescList THEN descriptorList
                         ELSE TopologicalOrder(descriptors)

\* lookups of REST, of validations and of the ordering of a transaction
Lookup(key) ==
    /\ keyCache' = cacheAfter(key)
    /\ UNCHANGED <<descriptors, upToDateDescList, descriptorList, maps, graph, broadcasts,
                   waits, reg, cons, txnSeqNumber, queue, north, crashed>>

-----------------------------------------------------------------------------
(* registerKVDescriptor.  A name that is registered is refused. *)

RegisterDescriptor(d) ==
    /\ reg.pc = "idle" /\ d \notin descriptors
    /\ descriptors' = descriptors \cup {d} /\ upToDateDescList' = FALSE
    /\ reg' = [reg EXCEPT !.pc = "prefix", !.d = d]
    /\ UNCHANGED <<descriptorList, keyCache, maps, graph, broadcasts, waits, cons,
                   txnSeqNumber, queue, north, crashed>>

RegisterPrefix ==
    /\ reg.pc = "prefix"
    /\ keyPrefixes' = keyPrefixes \cup {reg.d}
    /\ reg' = [reg EXCEPT !.pc = IF reg.d \in WithMetadata THEN "metadata" ELSE "subs"]
    /\ UNCHANGED <<registry, subs, graph, broadcasts, waits, cons, txnSeqNumber, queue,
                   north, crashed>>

BugRegisterMetadataMap ==
    /\ reg.pc = "metadata"
    /\ mappings' = mappings \cup {reg.d}
    /\ reg' = [reg EXCEPT !.pc = "subs"]
    /\ UNCHANGED <<registry, maps, metadata, value, broadcasts, waits, cons, txnSeqNumber,
                   queue, north, crashed>>

RegisterMetadataMap ==
    /\ reg.pc = "metadata" /\ ~graphLocked
    /\ mappings' = mappings \cup {reg.d}
    /\ reg' = [reg EXCEPT !.pc = "subs"]
    /\ UNCHANGED <<registry, maps, metadata, value, broadcasts, waits, cons, txnSeqNumber,
                   queue, north, crashed>>

FindSubscribers ==
    /\ reg.pc = "subs"
    /\ reg' = IF subs[reg.d] = 0 THEN RegIdle
              ELSE [reg EXCEPT !.pc = "send", !.sbc = subs[reg.d]]
    /\ UNCHANGED <<registry, maps, graph, broadcasts, waits, cons, txnSeqNumber, queue,
                   north, crashed>>

\* sbc.S has no buffer: the send meets the receive of serve
SendToSource ==
    /\ reg.pc = "send" /\ broadcasts[reg.sbc].serve = "range"
    /\ broadcasts' = [broadcasts EXCEPT ![reg.sbc].serve = "received"]
    /\ reg' = [reg EXCEPT !.pc = "close"]
    /\ UNCHANGED <<registry, maps, graph, waits, cons, txnSeqNumber, queue, north, crashed>>

CloseSource ==
    /\ reg.pc = "close"
    /\ broadcasts' = [broadcasts EXCEPT ![reg.sbc].closed = TRUE]
    /\ reg' = [reg EXCEPT !.pc = "delete"]
    /\ UNCHANGED <<registry, maps, graph, waits, cons, txnSeqNumber, queue, north, crashed>>

DeleteSubscription ==
    /\ reg.pc = "delete"
    /\ subs' = [subs EXCEPT ![reg.d] = 0]
    /\ reg' = RegIdle
    /\ UNCHANGED <<registry, keyPrefixes, graph, broadcasts, waits, cons, txnSeqNumber,
                   queue, north, crashed>>

-----------------------------------------------------------------------------
(* The goroutine serve of a broadcast.  It holds the mutex while it sends to
   the subscribers one by one, each of which has a buffer of one. *)

muFree(b) == broadcasts[b].serve # "broadcast"

BroadcastLock(b) ==
    /\ broadcasts[b].serve = "received"
    /\ broadcasts' = [broadcasts EXCEPT ![b].serve = "broadcast",
                                        ![b].todo = @ \cup broadcasts[b].subscribers]
    /\ UNCHANGED <<registry, maps, graph, waits, reg, cons, txnSeqNumber, queue, north, crashed>>

BroadcastSend(b, w) ==
    /\ broadcasts[b].serve = "broadcast" /\ w \in broadcasts[b].todo
    /\ waits[w].ch = "empty"
    /\ waits' = [waits EXCEPT ![w].ch = "ready"]
    /\ broadcasts' = [broadcasts EXCEPT ![b].todo = @ \ {w}]
    /\ UNCHANGED <<registry, maps, graph, reg, cons, txnSeqNumber, queue, north, crashed>>

BroadcastUnlock(b) ==
    /\ broadcasts[b].serve = "broadcast" /\ broadcasts[b].todo = {}
    /\ broadcasts' = [broadcasts EXCEPT ![b].serve = "range"]
    /\ UNCHANGED <<registry, maps, graph, waits, reg, cons, txnSeqNumber, queue, north, crashed>>

\* the source is closed: every subscriber's channel is closed, which wakes
\* whoever still waits on it
BroadcastClose(b) ==
    /\ broadcasts[b].serve = "range" /\ broadcasts[b].closed
    /\ broadcasts' = [broadcasts EXCEPT ![b].serve = "end"]
    /\ waits' = [w \in DOMAIN waits |->
                    IF w \in broadcasts[b].subscribers
                    THEN [waits[w] EXCEPT !.ch = "ready"] ELSE waits[w]]
    /\ UNCHANGED <<registry, maps, graph, reg, cons, txnSeqNumber, queue, north, crashed>>

-----------------------------------------------------------------------------
(* The consumer *)

\* preProcessRetryTxn: is the value still the one that had no descriptor?
BugCurrent(txn, key) == value[key] # Absent /\ value[key].rev < txn.rev

current(txn, key) == value[key] # Absent /\ value[key].rev <= txn.rev

remaining(txn) ==
    IF txn.type = "NBTransaction" THEN txn
    ELSE [txn EXCEPT !.put = {k \in txn.put : current(txn, k)}]

TakeTransaction ==
    /\ cons.pc = "idle" /\ queue # <<>>
    /\ queue' = Tail(queue) /\ txnSeqNumber' = txnSeqNumber + 1
    /\ LET txn == remaining(Head(queue))
           keys == txn.put \cup txn.del
       IN  cons' = IF keys = {} THEN ConsIdle
                   ELSE [ConsIdle EXCEPT !.pc = "exec", !.txn = txn, !.todo = keys]
    /\ UNCHANGED <<registry, maps, graph, broadcasts, waits, reg, north, crashed>>

\* applyValue for one key: applyDelete, or applyCreate / applyUpdate with or
\* without a descriptor.  A value already known as unimplemented leaves no
\* operation behind, and so nothing to post-process.
executed(key, d) ==
    IF key \in cons.txn.del THEN Absent
    ELSE [state |-> IF d = NoDescriptor THEN "unimplemented" ELSE "configured",
          rev |-> txnSeqNumber - 1]

\* the consumer releases the graph; what has no descriptor is post-processed
endExec(todo, toImpl) ==
    IF todo # {} THEN [cons EXCEPT !.todo = todo, !.toImpl = toImpl]
    ELSE IF toImpl = {} THEN ConsIdle
    ELSE [cons EXCEPT !.pc = "post", !.todo = toImpl, !.toImpl = toImpl]

ExecuteValue(key) ==
    /\ cons.pc = "exec" /\ key \in cons.todo
    /\ keyCache' = cacheAfter(key)
    /\ LET d == GetDescriptorForKey(key)
           new == executed(key, d)
           toImpl == IF new.state = "unimplemented" /\ value[key].state # "unimplemented"
                     THEN {key} ELSE {}
       IN  /\ value' = [value EXCEPT ![key] = new]
           \* syncMetadata: without a metadata map the metadata is forgotten
           /\ metadata' = IF new.state = "configured"
                          THEN metadata \cup {k \in {key} : d \in mappings}
                          ELSE metadata \ {key}
           /\ cons' = endExec(cons.todo \ {key}, cons.toImpl \cup toImpl)
    /\ UNCHANGED <<descriptors, upToDateDescList, descriptorList, maps, mappings, broadcasts,
                   waits, reg, txnSeqNumber, queue, north, crashed>>

\* postProcessTransaction locks the graph again and refreshes the values
RefreshUnimplemented ==
    /\ cons.pc = "post"
    /\ GetAllDescriptors
    /\ cons' = IF cons.txn.type = "NBTransaction" THEN [cons EXCEPT !.pc = "prefix"]
               ELSE ConsIdle
    /\ UNCHANGED <<descriptors, keyCache, maps, graph, broadcasts, waits, reg, txnSeqNumber,
                   queue, north, crashed>>

\* scheduleUnimpl handles the keys in the order of its KeySet
unimplKey == CHOOSE k \in cons.todo : TRUE
unimplPrefix == SelectedBy[unimplKey]

\* enqueueImpl for the key, and on to the next one
implScheduled(ch) ==
    /\ waits' = Append(waits, [key |-> unimplKey, rev |-> value[unimplKey].rev, ch |-> ch,
                               pc |-> "waiting"])
    /\ cons' = IF cons.todo = {unimplKey} THEN ConsIdle
               ELSE [cons EXCEPT !.pc = "prefix", !.todo = @ \ {unimplKey}]

\* WatchNBKeyPrefixRegistration looks into keyPrefixes ...
WatchPrefix ==
    /\ cons.pc = "prefix"
    /\ IF unimplPrefix \in keyPrefixes THEN implScheduled("ready")
       ELSE cons' = [cons EXCEPT !.pc = "subs"] /\ UNCHANGED waits
    /\ UNCHANGED <<registry, maps, graph, broadcasts, reg, txnSeqNumber, queue, north, crashed>>

BugWatchSubs ==
    /\ cons.pc = "subs"
    /\ cons' = [cons EXCEPT !.pc = "load"]
    /\ IF subs[unimplPrefix] # 0 THEN UNCHANGED <<subs, broadcasts>>
       ELSE /\ broadcasts' = Append(broadcasts, [serve |-> "end", closed |-> FALSE,
                                                 subscribers |-> {}, todo |-> {}])
            /\ subs' = [subs EXCEPT ![unimplPrefix] = Len(broadcasts) + 1]
    /\ UNCHANGED <<registry, keyPrefixes, graph, waits, reg, txnSeqNumber, queue, north, crashed>>

\* ... makes a broadcast unless there is one ...
WatchSubs ==
    /\ cons.pc = "subs"
    /\ cons' = [cons EXCEPT !.pc = "load"]
    /\ IF subs[unimplPrefix] # 0 THEN UNCHANGED <<subs, broadcasts>>
       ELSE /\ broadcasts' = Append(broadcasts, [serve |-> "range", closed |-> FALSE,
                                                 subscribers |-> {}, todo |-> {}])
            /\ subs' = [subs EXCEPT ![unimplPrefix] = Len(broadcasts) + 1]
    /\ UNCHANGED <<registry, keyPrefixes, graph, waits, reg, txnSeqNumber, queue, north, crashed>>

\* ... looks it up again ...
LoadBroadcast ==
    /\ cons.pc = "load"
    /\ cons' = [cons EXCEPT !.pc = "subscribe", !.b = subs[unimplPrefix]]
    /\ crashed' = (subs[unimplPrefix] = 0)
    /\ UNCHANGED <<registry, maps, graph, broadcasts, waits, reg, txnSeqNumber, queue, north>>

\* ... and subscribes
Subscribe ==
    /\ cons.pc = "subscribe" /\ muFree(cons.b)
    /\ broadcasts' = [broadcasts EXCEPT ![cons.b].subscribers = @ \cup {Len(waits) + 1}]
    /\ implScheduled("empty")
    /\ UNCHANGED <<registry, maps, graph, reg, txnSeqNumber, queue, north, crashed>>

\* waitForImpl: the wait is over, the value is to be tried again.  Here the
\* queue has room; a goroutine that finds it full waits anew (TxnQueue's
\* RetryAgain).
WaitOver(w) ==
    /\ waits[w].pc = "waiting" /\ waits[w].ch = "ready"
    /\ waits' = [waits EXCEPT ![w].pc = "done"]
    /\ queue' = Append(queue, [type |-> "RetryUnimplOps", put |-> {waits[w].key}, del |-> {},
                               rev |-> waits[w].rev])
    /\ UNCHANGED <<registry, maps, graph, broadcasts, reg, cons, txnSeqNumber, north, crashed>>

-----------------------------------------------------------------------------
(* Environment *)

\* NB commits a transaction that puts some values or deletes some
Commit(put, del) ==
    /\ commits < MaxTxns /\ put \cup del # {} /\ del \subseteq nb
    /\ Updates \/ put \cap nb = {}
    /\ queue' = Append(queue, [NoTxn EXCEPT !.put = put, !.del = del])
    /\ nb' = (nb \cup put) \ del /\ commits' = commits + 1
    /\ UNCHANGED <<registry, maps, graph, broadcasts, waits, reg, cons, txnSeqNumber, crashed>>

\* Go maps do not support a write next to another access; the runtime aborts
\* the process when it notices one
mapRace ==
    \/ reg.pc = "prefix" /\ cons.pc = "prefix"
    \/ reg.pc = "delete" /\ cons.pc \in {"subs", "load"}
    \/ reg.pc = "subs" /\ cons.pc = "subs" /\ subs[unimplPrefix] = 0

ConcurrentMapAccess ==
    /\ mapRace
    /\ crashed' = TRUE
    /\ UNCHANGED <<registry, maps, graph, broadcasts, waits, reg, cons, txnSeqNumber, queue,
                   north>>

Register == RegisterPrefix \/ RegisterMetadataMap \/ FindSubscribers \/ SendToSource
            \/ CloseSource \/ DeleteSubscription

Serve(b) == \/ BroadcastLock(b)
            \/ \E w \in DOMAIN waits : BroadcastSend(b, w)
            \/ BroadcastUnlock(b)
            \/ BroadcastClose(b)

Consume == \/ TakeTransaction
           \/ \E k \in Keys : ExecuteValue(k)
           \/ RefreshUnimplemented \/ WatchPrefix \/ WatchSubs \/ LoadBroadcast \/ Subscribe

Next ==
    /\ ~crashed
    /\ \/ \E d \in Descriptors : RegisterDescriptor(d)
       \/ Register
       \/ \E b \in DOMAIN broadcasts : Serve(b)
       \/ Consume
       \/ \E w \in DOMAIN waits : WaitOver(w)
       \/ \E k \in Keys : Lookup(k)
       \/ \E keys \in SUBSET Keys : Commit(keys, {}) \/ Commit({}, keys)
       \/ ConcurrentMapAccess

Spec == Init /\ [][Next]_vars

(***************************************************************************)
(* Every goroutine that can run does so in the end.  Nobody has to commit  *)
(* a transaction or to begin a registration.                               *)
(***************************************************************************)
maxWaits == MaxTxns * Cardinality(Keys)

Fairness ==
    /\ WF_vars(~crashed /\ Register)
    /\ WF_vars(~crashed /\ Consume)
    /\ \A n \in 1..maxWaits :
         /\ WF_vars(~crashed /\ n \in DOMAIN broadcasts /\ Serve(n))
         /\ WF_vars(~crashed /\ n \in DOMAIN waits /\ WaitOver(n))

FairSpec == Spec /\ Fairness

-----------------------------------------------------------------------------
(* Properties *)

CacheEntries == [key : Keys, descriptor : Descriptors]
Transactions == [type : {"NBTransaction", "RetryUnimplOps"}, put : SUBSET Keys,
                 del : SUBSET Keys, rev : Nat]
Broadcasts == [serve : {"range", "received", "broadcast", "end"}, closed : BOOLEAN,
               subscribers : SUBSET Nat, todo : SUBSET Nat]
Waits == [key : Keys, rev : Nat, ch : {"empty", "ready"}, pc : {"waiting", "done"}]

\* the types of the state; who registers a descriptor has one, who subscribes
\* to a broadcast has one and a key to wait for
TypeOK ==
    /\ descriptors \subseteq Descriptors /\ upToDateDescList \in BOOLEAN
    /\ descriptorList \in Seq(Descriptors) /\ keyCache \in Seq(CacheEntries)
    /\ keyPrefixes \subseteq descriptors /\ subs \in [Descriptors -> 0..Len(broadcasts)]
    /\ mappings \subseteq Descriptors /\ metadata \subseteq Keys
    /\ broadcasts \in Seq(Broadcasts) /\ waits \in Seq(Waits)
    /\ reg \in [pc : {"idle", "prefix", "metadata", "subs", "send", "close", "delete"},
                d : descriptors \cup {NoDescriptor}, sbc : 0..Len(broadcasts)]
    /\ reg.pc # "idle" => reg.d # NoDescriptor
    /\ reg.pc \in {"send", "close", "delete"} => reg.sbc # 0
    /\ cons \in [pc : {"idle", "exec", "post", "prefix", "subs", "load", "subscribe"},
                 txn : Transactions, todo : SUBSET Keys, toImpl : SUBSET Keys,
                 b : 0..Len(broadcasts)]
    /\ cons.pc # "idle" => cons.todo # {} /\ txnSeqNumber > 0
    /\ cons.pc = "subscribe" /\ ~crashed => cons.b # 0
    /\ value \in [Keys -> [state : {"none", "unimplemented", "configured"}, rev : Nat]]
    /\ txnSeqNumber \in Nat /\ queue \in Seq(Transactions)
    /\ nb \subseteq Keys /\ commits \in 0..MaxTxns /\ crashed \in BOOLEAN

\* A lookup through the cache finds what a search of all descriptors would
\* find, however descriptors are registered in between: an entry names the
\* registered descriptor of its key, no key has two entries, the cache keeps
\* within its size (GetDescriptorForKey).
CacheSound ==
    /\ Len(keyCache) <= MaxKeyCacheSize
    /\ \A i, j \in DOMAIN keyCache : keyCache[i].key = keyCache[j].key => i = j
    /\ \A i \in DOMAIN keyCache : /\ keyCache[i].descriptor \in descriptors
                                  /\ keyCache[i].descriptor = SelectedBy[keyCache[i].key]

\* The list by which values are retrieved, while it counts as up to date, has
\* every registered descriptor once and after the ones its Retrieve depends
\* on (GetAllDescriptors, TopologicalOrder).
ListOrdered ==
    upToDateDescList =>
        /\ ToSet(descriptorList) = descriptors /\ Len(descriptorList) = Cardinality(descriptors)
        /\ \A i, j \in DOMAIN descriptorList :
              descriptorList[j] \in RetrieveDependencies[descriptorList[i]] => j < i

\* The registry serves both of its users at any moment: the consumer that looks up
\* descriptors by key, through the cache, and the refresh that retrieves values in
\* the order of the list (registry_impl.go).
RegistrySound == CacheSound /\ ListOrdered

\* the broadcast of b is under way or certain to come
willServe(b) ==
    \/ broadcasts[b].serve \in {"received", "broadcast"} \/ broadcasts[b].closed
    \/ reg.pc \in {"send", "close"} /\ reg.sbc = b

\* No wait for a descriptor with metadata is forgotten: as soon as the prefix
\* is registered, whoever waits without having been told is subscribed to a
\* broadcast that is under way, or to the one the registration has yet to
\* look for (registerKVDescriptor against WatchNBKeyPrefixRegistration).
NoneForgotten ==
    \A w \in DOMAIN waits :
        LET d == SelectedBy[waits[w].key]
        IN  (d \in WithMetadata \cap keyPrefixes /\ waits[w].ch = "empty") =>
              \E b \in DOMAIN broadcasts :
                  /\ w \in broadcasts[b].subscribers
                  /\ broadcasts[b].serve # "end"
                  /\ \/ willServe(b)
                     \/ subs[d] = b /\ reg.d = d /\ reg.pc \in {"metadata", "subs"}

\* A registration returns, whoever waits for it: neither the send to the
\* broadcast nor the lock of the graph blocks it for ever (registerKVDescriptor,
\* Broadcast.serve), unless the runtime aborts the process.
RegistrationReturns == reg.pc # "idle" ~> reg.pc = "idle" \/ crashed

\* A value put before its descriptor with metadata was registered is
\* configured in the end (waitForImpl, RetryUnimplOps), or deleted again,
\* unless the runtime aborts the process.
EventuallyImplemented ==
    \A k \in Keys :
        (SelectedBy[k] \in WithMetadata \cap descriptors /\ value[k].state = "unimplemented")
            ~> (value[k].state # "unimplemented" \/ crashed)

-----------------------------------------------------------------------------
(* Statements that the code does not keep; see the README. *)

\* "RetryUnimplOps is a transaction re-trying unimplemented operations (those
\* that do not have a kvdescriptor registered yet)" (api/txn_record.go:42):
\* without metadata a wait may begin after the broadcast it waits for.
EventuallyImplementedAll ==
    \A k \in Keys : (SelectedBy[k] \in descriptors /\ value[k].state = "unimplemented")
                        ~> (value[k].state # "unimplemented" \/ crashed)

\* "If enabled, the scheduler will maintain a map between key (-label, if
\* KeyLabel is defined) and the associated metadata" (kv_descriptor_api.go:181):
\* a value configured between RegisterDescriptor and RegisterMetadataMap is
\* not in the map.
MetadataMapped ==
    \A k \in Keys : value[k].state = "configured" /\ SelectedBy[k] \in mappings => k \in metadata

\* the maps keyPrefixes and subs are accessed by one goroutine at a time, and
\* the broadcast found by WatchNBKeyPrefixRegistration stays in subs
NoCrash == ~crashed
=============================================================================
