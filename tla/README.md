# A TLA+ model of the Ligato VPP agent

The VPP agent turns a desired configuration (key-value pairs received from
*northbound*, NB: gRPC, etcd, files, a local client) into calls that configure
VPP and Linux (*southbound*, SB). Nearly all of the logic that decides **what is
called when** sits in one plugin, the KVScheduler (`plugins/kvscheduler`); the
other plugins register *descriptors*, which say how values of one kind are
created, updated, deleted and retrieved, what they depend on and what is derived
from them. This project models the KVScheduler with its in-memory graph and its
registry, the way configuration takes to it (aggregator, orchestrator, dispatcher)
and the notification service, and states what the rest of the agent may rely on.

Paths below are relative to the root of the repository; where no directory is
given, to `plugins/kvscheduler`.

## 1. Inventory

| component | state | operations | interacts through | modelled |
|---|---|---|---|---|
| transaction queue (`txn_queue.go`, `plugin_scheduler.go`) | `txnQueue`, `ctx`, `wg`, result channels | `Commit`, `PushSBNotification`, `dequeueTxn`, `delayRetry`, `waitForImpl`, `TransactionBarrier`, `Close` | a bounded channel, `txnLock`, a WaitGroup | `TxnQueue` |
| transaction processing (`txn_process.go`, `txn_order.go`) | `txnSeqNumber`, `resyncCount`, `updatedStates` | `processTransaction` for four types of transaction, `scheduleRetries`, `scheduleUnimpl`, `filterNotification` | the graph, the queue, status watchers | `KVScheduler` |
| transaction execution (`txn_exec.go`, `node_utils.go`, `descriptor_handler.go`) | graph nodes and flags | `applyValue`, `applyCreate/Update/Delete`, `applyDerived`, `runDepUpdates`, `isNodeReady` | recursion over the graph, descriptor calls | `KVExec` |
| refresh (`refresh.go`) | graph nodes | `refreshGraph` and its helpers | `Retrieve` of descriptors | `KVRefresh` |
| graph (`internal/graph`) | nodes, edges, edge lookup, revisions, metadata maps | `SetNode`, `DeleteNode`, `SetTargets`, `Save`, `Release` | copy-on-write handles | `EdgeLookup`, `KVGraph`; a function of keys in `KVExec` |
| registry (`internal/registry`), `registerKVDescriptor` | descriptors, LRU cache, `keyPrefixes`, `subs` | register, lookup, topological order | maps shared with the consumer, the graph's lock | `Registration` |
| history (`txn_record.go`, `internal/graph`) | recorded transactions, node revisions | record, trim | a trimming goroutine | only the recorded origin |
| dispatcher and store (`plugins/orchestrator`) | values by source and label | `PushData`, resync | `Commit`, `TransactionBarrier` under a mutex | `Dispatcher` |
| events and initial sync (`plugins/orchestrator`) | pending events | `watchEvents`, `InitialSync`, `SetConfig`, the initial file | channels, the dispatcher | `Aggregator` |
| watcher aggregator (`plugins/orchestrator/watcher`) | cached resyncs, local values | merge of resync events | channels of several goroutines | `Aggregator` |
| notifications (`plugins/configurator/notify.go`) | ring buffer, watchers | push, replay, watch | channels, RWMutex | `NotifyService` |
| broadcast (`pkg/models/registry.go`) | subscribers | subscribe, broadcast, close | wakes `waitForImpl` | `Registration`; one event in `TxnQueue` |
| GoVPP mux, interface state, microservices | connection and event state | reconnect, dumps, events | trigger resyncs and SB notifications | as environment |
| descriptors, vppcalls, binapi, REST, telemetry, agentctl | | conversion and I/O | | no: generated code, conversions, pure I/O |

What is hard in it: a blocking or abandoned `Commit` racing `Close`; a full queue;
retries that run when the value has changed; the recursion of dependency updates
that triggers itself while the graph changes; dependency cycles; descriptor calls
that fail, possibly after they took effect; reverting half a transaction; SB
changing by itself, with or without a notification; descriptors registered while
their values are already waiting; an index that is renumbered in place and overlaid;
snapshots of several sources merged while the sources change; a ring buffer replayed
while it is written. `PROJECT.json` lists the hazards with their lines.

What makes the parts correct: every accepted transaction is executed exactly once
and in order, and nobody waits for ever (queue); after each transaction SB holds
exactly the values that can exist, and the graph, the published status and SB
agree (processing and execution); a resync puts back whatever was lost (refresh);
targets and sources are what the definitions select, whoever came first, and a copy
loses nothing when saved (graph); a value is configured once its descriptor is there
(registry, broadcast); the scheduler ends up with what the sources have (aggregator,
dispatcher); a client is replayed what it asks for, is handed nothing again, and holds
up no plugin as long as it reads or leaves (notifications).

## 2. Modules

| module | what it is |
|---|---|
| `TxnQueue` | queue, consumer, clients, retry goroutines, observers, `Close`; properties |
| `MCTxnQueue` | its instances |
| `Executor` | abstract specification: transactions executed one by one, in the order of acceptance |
| `TxnQueueProofs` | TLAPS proofs about `TxnQueue` |
| `KVExec` | one transaction: the recursive execution, as functions on (graph, SB) |
| `KVRefresh` | extends it with the refresh of the graph from SB |
| `KVScheduler` | the state machine: transactions of every type, SB and its changes; properties |
| `Reconciler` | abstract specification: what is in SB when nothing fails |
| `MCKVScheduler` | instances of `KVScheduler` |
| `KVSchedulerProofs` | TLAPS proofs about `KVExec`, `KVRefresh` and `KVScheduler` |
| `EdgeLookup` | the index of node keys and edges, as functions on its arrays |
| `KVGraph` | extends it: nodes, handles, `Save`; properties |
| `MCKVGraph` | instances of `KVGraph` |
| `EdgeLookupProofs` | TLAPS proofs: what each operation of the index does |
| `KVGraphProofs` | TLAPS proofs about `KVGraph`, on top of them |
| `Registration` | registry, registration of descriptors, broadcast, waits; properties |
| `MCRegistration` | its instance |
| `RegistrationProofs` | TLAPS proofs about `Registration` |
| `Dispatcher` | `PushData` of competing callers above the queue of the scheduler |
| `Aggregator` | extends it: sources, aggregator, orchestrator, gRPC; properties |
| `MCAggregator` | its instance |
| `AggregatorProofs` | TLAPS proofs about `Dispatcher` and `Aggregator` |
| `NotifyService` | pushes, ring buffer, replay, watchers; properties |
| `MCNotifyService` | its instance |
| `NotifyProofs` | TLAPS proofs about `NotifyService` |
| `OrderLemmas` | least and minimal elements, from which the proofs get their inductions |

`TxnQueue` and `KVScheduler` are two views of the scheduler. The consumer holds
`txnLock` during the whole of `processTransaction` (`txn_process.go:126`) and
nothing else writes the graph's values, so in `KVScheduler` processing one
transaction is **one step**; what is concurrent about a transaction is the queue,
and there a transaction is an identity and the set of retries it asks for.

### TxnQueue

`queue` is the channel; `place[t]` says where a transaction is (`pushing`,
`queued`, `held` by the consumer, `running`, `processed`, `dropped`, and for
retries `spawned` - the `go` statement was executed, the goroutine not yet
scheduled - and `waiting`). The consumer goes through `dequeue`, `lock`,
`execute`, `finish`; `wg` is the set of goroutines that called `wg.Add`.
A Go `select` with several ready cases is a nondeterministic choice, its `default`
is enabled only when no case is ready. `Dequeue`, `StartTxn` (lock and sequence
number), `PostProcess` (retries are started and the result is sent) and
`FinishTxn` (removed values leave the graph, unlock) are separate steps, because
clients and observers can act in between. Delays are abstracted: a timer may fire
at any moment. `Observe` stands for a plugin that received a change from a running
transaction and is about to call `TransactionBarrier`. Which retries a transaction
asks for is a nondeterministic choice over what `scheduleRetries` and
`scheduleUnimpl` can produce.

`Executor` says what all this is to a client: a transaction is accepted or refused,
accepted ones are executed alone, in the order of acceptance, under consecutive
numbers, and the result goes once to the caller of that transaction. `Execution` maps
the queue to it: a transaction waits until the consumer has the `txnLock`, hence the one
taken from the channel (`lock`) still stands in front of the others. `InOrderExecutor`
says that `TxnQueue` implements it.

### KVExec, KVRefresh, KVScheduler

Keys are numbers (the code sorts keys alphabetically; their order is the order of
the numbers). A base value is `[rev, der]`, where `der` maps the keys of its
derived values to their values; the constants `Dependencies`, `Recreate`, `Valid`
are the descriptors' methods. A node carries its value, state, availability, last
update (sequence number, operation, value, revert flag, retry), error flag, base
key, dependency labels, derived keys and whether it has a descriptor: the flags of
`value_flags.go` and the targets of the graph. The operators of `KVExec` have the
names of the Go methods and map an execution state `S` to the next one; deferred
functions are the result expressions of the operator (`removed`, `failed`). The graph
maps every key to its node or to `NoNode`; `Revisions` tells the values of a key apart.

`applyValue` calls itself through derived values and dependency updates, and
`isNodeReadyRec` through the targets. Both keep the keys of the calls they are inside of
(`branch`, `visited`) and stop at a key that is among them, so the nesting never exceeds
the number of keys. The recursion is therefore a function of the levels that are left
(`applyWithin`, `readyWithin`): the operators of one call take `rec`, the next level, for
the nested calls. Loops over sorted keys are folds (`InKeyOrder`).

A transaction chooses one of `Outcomes`: which (operation, key) calls fail in it,
whether they took effect in SB all the same, whether the error is retriable and
which descriptors cannot retrieve. Calls with `nil` fail, as the typed adapters
of the descriptors refuse it
(`plugins/vpp/ifplugin/descriptor/adapter/interface.go:110`). `sb` is
the real content of SB; `nb` records what clients asked for (it is only used by
properties); `last` is what the last transaction was; `published` is the last
status each watcher was told. `panicked` is a nil dereference: of retry arguments
(`txn_process.go:499`), or, in a downstream resync, of the last update of an NB value that
has none (`txn_process.go:235`, `PanicInResync`).

Abstractions:

- metadata, labels, timestamps, logs and the recorded operations (only their keys
  matter to post-processing, and `compressTxnOps` keeps those);
- every base key has a descriptor of its own; descriptors of derived values have
  no `Retrieve`; `Retrieve` of a base value reports the derived values that really
  exist (`api/kv_descriptor_api.go:232`);
- values are equivalent when equal; a value is derived from one base key only;
- the simulation mode for all transactions (`EnableTxnSimulation`) is off, as by
  default: transactions are simulated on request, retries always;
- `verifyTransaction`, a debugging mode, is left out;
- `runDepUpdates` iterates over source nodes collected when it starts; the model
  reads each node from the current graph;
- an SB change that nobody is notified of (`SBDrift`: a restart of VPP) is followed
  by a resync before any other transaction, which is what the reconnection does;
- watchers keep up: the loss of a status update on a full channel is not modelled.

`Reconciler` says what the scheduler promises: `Resolved` is the largest set of
keys in which every value has its base and one alternative of each dependency
(values reported by SB need none), and SB holds exactly those.
`KVScheduler` implements it under the mapping `Reconciliation`: `want` is `nb`,
`external` the values in state OBTAINED, and a descriptor counts as `implemented`
once the values that waited for it were told. A key with an undelivered
notification is shown as the graph still has it (`knownSB`).

### EdgeLookup, KVGraph

A key is the sequence of its directories, a prefix a path with or without the
separator at its end; `CharPrefix` says which names begin with another name, which
is all that string comparison adds. The operators of `EdgeLookup` are the methods of
`edge_lookup.go` on a record with its fields: unordered data, the arrays of offsets
that order it, marks instead of removals, garbage collection above one half,
`dirDepthBounds`, and the map of full keys that an overlay shadows. A binary search is
modelled by what it returns (`firstOf`), and so is the renumbering of a garbage
collection: what is kept moves to its rank among what is kept (`rank`, `nth`; the code
subtracts the number of removed elements before it). Capacities of slices are left out.

`KVGraph` has one write handle at a time, as the code assumes. `current` is the graph
it works on: the graph itself, or `work`, whose overlay looks through to
`graph.el`. `SetTargets` merges old and new definitions label by label in their
order (labels are the numbers up to `MaxLabel`), in the four cases of the code; targets and sources are sets of pairs of label
and key, and following a key without a node sets `panic`. Values, flags, metadata and
the timeline are left out: they change nothing here but the mark `updated`, which
`SetTargets` sets as well.

### Registration

The goroutine that registers descriptors, the consumer that executes values, the
goroutine of each broadcast and the waits are interleaved at every access to
`keyPrefixes` and `subs`; a concurrent access to one of these maps may abort the
process (`crashed`). The lock of the graph, which the consumer holds while it
executes and subscribes, is what makes descriptors with metadata safe: their
registration takes it between adding the prefix and looking for subscribers. For
others the wake-up can be lost, and the properties that hold are about descriptors
with metadata. The registry's cache and its list are part of the state: both are
changed by lookups of the consumer while the other goroutine registers. An entry that
is looked up moves to the front of the cache, and the last one is dropped when it is
full.

### Dispatcher, Aggregator

`Dispatcher` holds the store (`db`, by source), the mutex, each caller's `PushData`
and the scheduler as a queue of transactions with the values NB has set (`sched`). A
caller may give up (`Impatient`, a gRPC call whose context ends); its transaction stays
in the queue and the mutex is released. `dirty` collects the keys that a refused commit
or a key shared by several sources has separated from the store, until a full resync.
`Aggregator` adds the sources (a key-value store and the file of initial
configuration, which is pushed once), the goroutines of `aggregator.go`, `watchEvents`,
`InitialSync` and gRPC calls. The sources and the resync plugin are external: modelled
from how `src/` uses them. `overtaken` remembers that a source changed after its snapshot
had been cached or that an event came out of turn. `Converges` is about the keys that
one watcher alone ever has (`sole`): two watchers are one source, `datasync`, for the
store, and what they both provide depends on which of their events comes last.

### NotifyService

A push is four steps (index read, incremented, sent to the dispatching goroutine,
stored in the buffer), since nothing but the store is locked; the replay of the
buffer holds the read lock while it sends, one notification per step. `idx` wraps at
`IndexMod`, as the unsigned subtraction does. The non-blocking send reaches a watcher
only while its handler waits in its `select`; the dispatching goroutine ranges over a
slice from which it removes watchers that left, which is modelled on the array itself.
`upto` remembers at which index the replay to a client ended, so that `ReplayExact` can
say where it has to start and to end.

## 3. Runs

Key 1 depends on something of key 2, from which 4 (with a descriptor, depends on
3) and 5 (a property) are derived; 3 has no dependencies. These five keys are the
least with a base value, a property, a derived value with dependencies of its own
and a dependency of a derived value on another base value; `OnProperty`, `OnBase`
and `Cyclic` are the three shapes of the dependencies.

| run | instance | shows |
|---|---|---|
| `txn_queue` | a blocking and a non-blocking client, two commits each, capacity 2 | refinement of `Executor`: nothing accepted is lost, executed twice or reordered; what `Commit`, `TransactionBarrier` and `Close` report is true |
| `txn_queue_live` | a client, a notification, two retries, capacity 1, `MaxCount` 1 | `Commit` and `Close` return, retries run; a retry is abandoned only on `Close`, attempts are bounded |
| `kv_reconcile` | every transaction that sets or deletes a subset of the keys, 4 of them in a row, re-creation | refinement of `Reconciler`, dependencies hold, no leftovers, published status |
| `kv_cycle` | cycle between 1 and 2, AnyOf, SB creating and removing 3 with notifications, late descriptor of 1, simulated, 4 transactions | refinement of `Reconciler`; no value is left pending that could exist |
| `kv_revert` | best-effort and reverted transactions, failing Create and Update, invalid values | a completed revert restores SB; graph and SB agree; no status contradicts the availability or the error of its value |
| `kv_resync` | SB restarts, loses values or gets foreign ones, resyncs of every kind | a resync in which nothing fails heals SB |
| `kv_recovery` | changes and resyncs of every kind with retry, `MaxCount` 2, one retriable failure of Create or Update per transaction, with or without effect | graph, status and SB agree after failures; a value that fails again is retried under a higher number, at most twice; a resync heals SB |
| `graph` | two nodes that define targets by key, by nested prefixes and by a selector that changes, three keys one below the other, in place and on copies, 6 changes | the index is sound and exact, targets and sources are what the definitions select, `Save` loses nothing, no nil node |
| `graph_prefix` | a prefix without a separator at its end, and a name that begins with its last name | **violated**: see below |
| `registration` | two descriptors, the second with metadata, two keys of it, a cache of size 1, 2 transactions | no wait is forgotten, values are implemented in the end, registrations return; cache and order are right |
| `nb_path` | a key-value store, the initial file, the local client and an impatient gRPC caller; 2 inputs, 2 resyncs | what is in the store reaches the scheduler; the store converges to the sources; no deadlock |
| `notify` | two pushing plugins, two pushes, a client that stays and one that leaves, a buffer of 1, clients that ask for index 0 or 2, which is still to come until both are pushed | no watcher is handed anything twice or again after its replay; an undisturbed replay has all it should have, in order; no plugin is held up by clients that read or leave |

Three transactions in a row (four in `kv_reconcile` and `kv_cycle`) are enough for: create, break,
repair; each transaction sets up to three values, triggers updates of others and
may leave retries that are transactions of their own. `CHECK_DEADLOCK FALSE` in the
`KVScheduler` runs: with `MaxTxns` transactions done the system stops by the bound.
`TxnQueue` is checked for deadlock: its only final states are those after `Close`
(`Quiescent`); so are `Aggregator` and `KVGraph`. `Registration` and `NotifyService`
may stop when their bounds are used up; that nobody is left waiting is what their
liveness properties say. Six changes are enough for the graph to create its nodes,
define targets, collect garbage with survivors in both arrays and delete and re-create
a node in an overlay: dropping the renumbering of the offsets or of the bounds is
found after five.

`TypeOK` of `TxnQueue`, `KVScheduler`, `KVGraph`, `Registration`, `Aggregator` and
`NotifyService` is proved (section 4) and holds in the instances of their runs; it is
kept out of the configurations, where each property is one that a mutant of the code can
break.

**Fairness** (`TxnQueue!Fairness`): goroutines that can run are scheduled, timers
fire and descriptor calls return, hence weak fairness of each step of the consumer,
of a client inside `Commit`, of a retry goroutine and of `Close`. Clients need not
commit, contexts need not be cancelled, descriptors need not be registered. The
cancellation of a waiting retry is strongly fair: with the context done, each pass
through its `select` chooses at random between an elapsed timer and the context,
and a goroutine that loses is started again. `NotifyService`: pushes and the
dispatching goroutine go on when they can, and so does a replay except in `server.Send`,
which blocks while a connected client does not read (`mayBlock`) and fails once it has
left. That the clients read what they are replayed or leave is a hypothesis of
`PushCompletes`; a watcher need not read what it is handed.
`Registration`: a registration that has begun, the consumer, the broadcasts and the
waits go on; nobody has to register or to commit.

### Disagreements with the documentation

One run, `graph_prefix`, is expected to be violated; `PROJECT.json` quotes the
statement. `iterTargets` compares strings, `iterSources` looks only at prefixes that
end with a directory of the key. With a prefix such as `NeighGwKey(...)`, which names a
whole key (`plugins/linux/l3plugin/descriptor/route.go:297`), a node whose name is
longer is a target if it exists when the definition is made, and is not if it comes
later; deleted, it leaves a dangling target. A node named like the directory of a
prefix `a/` is the mirror image: matched when it comes later only.

Others were met while modelling, and are stated by definitions that no run checks.
Each is reproduced with the configuration given, changed as said, and the property as
the only one.

| property | configuration | what happens |
|---|---|---|
| `CloseStopsGoroutines` | `TxnQueue.cfg` with `Clients = {c1}`, `NonBlocking = {}`, `MaxCommits = 1`, `Retries = {r1}`, `QueueCap = 1`, `MaxCount = 1` | `wg.Add(1)` is executed inside the new goroutine (`txn_queue.go:72`): `Close` returns with retry goroutines about to run, against "Close stops all the go routines." (`plugin_scheduler.go:230`) |
| `DeletesHonoured` | `KVReconcile.cfg` with `Requests <- DeleteAndCreate`, `MaxTxns = 3` | a transaction deletes a pending value and creates what it waited for: the dependency update (`txn_exec.go:781`) calls Create with nil, the deleted value stays in the graph as FAILED |
| `NoPanic` | `KVRecovery.cfg` with `Requests <- SomeRetried` | base value last changed without retry, derived value failed with retry: `scheduleRetries` dereferences nil (`txn_process.go:499`) |
| `NotificationsFiltered` | `KVReconcile.cfg` with `Requests <- Single`, `Notifications <- Both31` | a notification of several values is filtered by its first value only (`txn_process.go:214`) |
| `Served` | `Notify.cfg` | a watcher that is not the last one leaves: the loop goes on over the array it began with, whose tail was set to nil, and the agent crashes (`plugins/configurator/notify.go:142`) |
| `NeverHeldUp` | `Notify.cfg` | a client stays connected and does not read what it is replayed: `Notify` blocks in `Send` with the lock held for reading (`notify.go:65`), and `pushNotification` hangs when it wants to store (`notify.go:122`) |
| `InOrder` | `Notify.cfg` | pushes overlap, one is stored between replay and registration, or one comes during a replay, whose bound moves while the slots are not filled yet: notifications are lost, repeated or out of order, against "in the same order as they were received" (`notify.go:47`) |
| `ConvergesAlways` | `NBPath.cfg` | a source changes after its snapshot was cached and the older snapshot is applied last; two resyncs of one watcher stand for those of two (`plugins/orchestrator/watcher/aggregator.go:293`); the file sends its content once only |
| `ResyncOverwrites` | `NBPath.cfg` | a local change is stored under the source `localclient` (`client/local_client.go:218`), the aggregated resync replaces the source `datasync`: the old value stays, against "ResyncConfig overwrites existing config." (`client/client_api.go:80`) |
| `EventuallyImplementedAll` | `Registration.cfg` with `Keys = {"b1"}`, `MaxTxns = 1` | a descriptor without metadata is registered between the lookup and the subscription of the consumer: nobody wakes the wait (`plugin_scheduler.go:276`) |
| `MetadataMapped` | `Registration.cfg` with `Keys = {"a1"}`, `MaxTxns = 1` | a value is configured after `RegisterDescriptor` and before `RegisterMetadataMap`: its metadata is in no map (`plugin_scheduler.go:259`) |
| `NoCrash` | the same | `keyPrefixes` and `subs` are accessed by two goroutines at once |

The following change the constants of `KVReconcile.cfg`:

| property | constants | what happens |
|---|---|---|
| `DependenciesHold` | `Requests <- Single`, `Outcomes <- DeleteFails`, `MaxTxns = 4` | Delete of a dependent fails, its dependency is deleted all the same (`txn_exec.go:306`), and a later update without changes marks the dependent CONFIGURED |
| `RetryPlanned` | `Requests <- Retried`, `Outcomes <- Retriable` | a derived value stays RETRYING when the retry of its base fails for the last time (`value_status.proto:59`) |
| `UnimplementedWaits` | `Requests <- Single`, `Late = {1}` | an update of an UNIMPLEMENTED value makes the scheduled wait obsolete and starts no other (`txn_exec.go:391`) |
| `DerivedComplete` | `Dependencies <- OnBase`, `Requests <- Several`, `Outcomes <- CreateOrUpdateFails` | a failing dependent makes `applyCreate` return before the derived values (`txn_exec.go:491`) |
| `PendingJustified` | `Dependencies <- Cyclic` | re-creation of a value in a cycle leaves the cycle pending (`node_utils.go:312`) |
| `DerivedNeedsBase` | `Requests <- Recovering`, `Drifts <- Losses` | a base value found MISSING is deleted without its derived nodes (`txn_exec.go:314`); with `MaxTxns = 4` a dependency update later creates the orphan in SB and no resync removes it (`ResyncHeals`) |
| `RevertRestores` | `Requests <- Reverted`, `Outcomes <- CreateMayTakeEffect` | the revert refreshes the applied key, not the derived or dependent value that failed (`txn_exec.go:104`) |
| `DeletedFromSB` | `Requests <- SomeInvalid`, `MaxTxns = 4` | an invalid update marks a configured value unavailable; its deletion is then a NOOP (`txn_exec.go:530`) |
| `Reconciles` | `Requests <- ObsoleteDerived` | a derived value is pending when a full resync no longer derives it: the refresh keeps it in the relation (`refresh.go:251`), and it is created in SB when its dependency appears |
| `NoLeftovers` | `Requests <- DeleteAndCreate`; also `Requests <- Recovering`, `Drifts <- Losses` | the deleted value of `DeletesHonoured` and the orphan of `DerivedNeedsBase` stay in the graph |
| `GraphMatchesSB` | `Requests <- SomeInvalid`, `MaxTxns = 4` | as `DeletedFromSB`: the value is in SB and not in the graph |
| `PendingJustified` | `Requests <- Single`, `Outcomes <- DeleteFails` or `CreateMayTakeEffect` | a value that failed, or whose removal failed, is no longer what its dependents wait for, and nothing updates them |
| `StatusPublished` | `Requests <- Retried`, `Outcomes <- Retriable`, `Recreate <- NoRecreate`, `MaxTxns = 3` | Create of a derived value fails and the refresh takes the base value without it from SB. An update that drops it looks for obsolete values in that base value (`txn_exec.go:690`), not in the relation: the node stays, and the status of the base changes without being published |

The passing runs stay clear of these cases by their instances, never by the
properties: no failing deletes in `kv_revert` and `kv_recovery`, no resync in
`kv_recovery` that deletes 1 and creates what it was waiting for, no
re-creation in `kv_cycle`, no failures with effect in `kv_revert`, no failures in
`kv_resync`, whose three transactions (load, loss, resync) end before the orphan of
`DerivedNeedsBase` can come back.

## 4. Proofs

Every safety property of `TxnQueue`, `KVGraph`, `Registration`, `Dispatcher`,
`Aggregator` and `NotifyService` that a run checks is proved, for every value of the
constants that satisfies the named assumptions, and so are those of `KVScheduler` that
hold for every value of its constants. TLC evaluates the assumptions in each run.

| theorem (module) | states |
|---|---|
| `TypeCorrect`, `CommitTellsTheTruth`, `CommitsInOrder`, `RetriesKept`, `BarrierWaitsForTxn`, `NothingRunsAfterClose`, `QueueIsExecutor` (`TxnQueueProofs`) | `TypeOK`, `CommitTruthful`, `CommitOrder`, `RetryKept`, `BarrierFinalizes`, `ClosedNotExecuting`, `InOrderExecutor` |
| `Invariance`, `TypeCorrect`, `RetriesBounded`, `RetriesAdvance`, `StatusIsTruthful` (`KVSchedulerProofs`) | `SchedulerInv`, `TypeOK`, `RetryBounded`, `RetryAdvances`, `StatusTruthful` |
| `GraphTypes`, `LookupIsExact`, `TargetsAreExact`, `SourcesAreMirrored`, `SaveIsComplete`, `NeverPanics` (`KVGraphProofs`) | `TypeOK`, `LookupExact`, `TargetsExact`, `SourcesMirror`, `SaveComplete`, `NoPanic` |
| `RegistrationTypes`, `RegistryIsSound`, `NobodyForgotten` (`RegistrationProofs`) | `TypeOK`, `RegistrySound`, `NoneForgotten` |
| `NorthboundTypes`, `StoreReachesScheduler`, `SourcesConverge` (`AggregatorProofs`) | `TypeOK`, `StoreApplied`, `Converges` |
| `NotifyTypes`, `NothingTwice`, `ReplayIsExact` (`NotifyProofs`) | `TypeOK`, `NotTwice`, `ReplayExact` |

None of the properties is inductive by itself. For each module the strengthening is a
conjunction of named parts; a lemma says that the actions of one process keep a part,
with one step per action.

**Induction over data.** The library states induction with an operator parameter, which
the provers cannot instantiate. `OrderLemmas` says instead that a non-empty set of
naturals, of bounded integers or of subsets of a finite set has a least or minimal
element, and the proofs argue about the least counterexample. In this way it is proved
that a recursive function has a value at all (`KahnExists`, `CallbacksExist`,
`MergesExist`, `FoldExists`, `LevelsExist`) and what it computes or keeps
(`TopologicalOrderCorrect`, `AddDelEdges`, `Merged`, `FoldKeeps`, `ApplyValue`).

### TxnQueueProofs

For any sets of clients, notifications and retries, any number of commits, any capacity
and any `MaxCount`. `QueueAssumption`: commits, notifications, retries, the absent
transaction and the consumer's name are distinct, and the numbers are naturals with a
positive capacity. The parts of `QueueInv` build on each other:

- `TypeInv`: types, and that whoever executes a transaction holds and has numbered it;
- `WgInv`: the consumer stays in the WaitGroup until it exits, which is why `Close`
  cannot return before;
- `OnceInv`: the queue has no repetition, `place` agrees with the queue and with
  `cur`, and a commit that a client is still pushing, or has not started, is nowhere
  else: without it `Enqueue` could add a transaction twice;
- `LockInv`: the transaction the consumer holds is `running` exactly while the lock
  is held; the observed one is running or processed;
- `SeqInv`: exactly the running and processed transactions have numbers, all
  different and below `txnSeqNumber`;
- `TruthInv`: a filled `resultChan` holds the transaction's own number, and nothing
  was returned yet to a client that is still inside `Commit`, so that a result or a
  refusal is written once;
- `OrderInv`: commits of a client are in the queue in order, and when one of them was
  taken all earlier ones are finished or were refused. The order of the sequence
  numbers follows because the next number is above all those given.

`QueueIsExecutor` is the refinement of `Executor`. `StepKinds` sorts the twenty-odd
actions into those that accept a transaction, turn one away, leave the queue alone, and
the steps of the consumer; `StepSimulated` maps each kind to a step of the executor or to
none (`Dequeue`: the transaction stays the first that waits). It needs one part beyond
`QueueInv`: `SentInv`, that a result is in a channel only of a transaction that was
executed, so that it is sent once. The fairness of the consumer is not part of it: that
an accepted transaction is executed at last is checked by TLC (`CommitReturns`,
`RetryRuns`).

### KVSchedulerProofs

For any finite set of keys, any dependencies (cycles included), any descriptors and
outcomes of their calls, any requests, notifications and changes of SB. `ExecAssumption`:
keys are finitely many naturals (they are sorted), base and derived keys differ, every
derived key belongs to a base key, dependencies name keys. `SchedulerAssumption`: requests
and notifications are about base keys and carry values of their keys.

The work is to carry facts through the recursion. `Good` is said of an execution state:
each node has a value of its key, the base key it is derived from and a last update not
newer than the transaction (`NodeOK`), SB has values of their keys (`SBOK`), and a value
in state RETRYING that was executed may be retried once more (`RetryOK`). A nested call must not
undo what its callers rely on, so `Kept` also says what it leaves alone: the nodes of the
keys on the branch (`Alone`), and that no node becomes dishonest (`Truer`). `Honest` is
`StatusTruthful` for one node. It does not hold throughout a call: a value is hidden from
its dependents before they are removed (`hidden`), its state unchanged. During that
time `Loose` exempts the one node, and `LooseHonest` ends the exemption.

`RecOK` says that the next level satisfies `Kept` for all arguments. From it follow
`ApplyDelete`, `ApplyCreate`, `ApplyUpdate` and `ApplyOne`, one lemma for each operation and
one for each part of it; `LevelKeeps` is the induction over the levels, `ApplyValue`
its result. A loop over keys keeps what its steps keep (`FoldKeeps`, `FoldUpTo`). A refresh
changes nodes differently: `Keep` compares each node with the one before, whose last
update and base stay and which becomes no less honest (`RefreshGraph`). `Fine`, which is
`Good` and every node honest, is then kept by the loop over the values of a
transaction, by its revert and by its refreshes (`ExecuteTransaction`). `Processed` says
what a transaction of any type leaves, its retries and waits included, and `SchedulerInv`
is the inductive invariant between transactions.

Attempts are bounded because `markFailedValue` decides about the failing value and
`scheduleRetries` counts for its base: the two agree since a node never changes its base,
which is what `NodeOK` keeps.

### EdgeLookupProofs, KVGraphProofs

`GraphAssumption`: keys are non-empty paths; the definitions of one node have different
labels. The theorems have two hypotheses more, each of which the code needs:

- `DirectoryPrefixes`: prefixes end with the separator, and a node whose key is the
  directory of a prefix is selected by the definition otherwise. Without it
  `TargetsExact` is false: it is what `graph_prefix` shows.
- `SelectorsKept`: when nothing but the selector of a definition changes, it has one
  still. `RelationTargetDef.Compare` does not look at selectors
  (`internal/graph/graph_api.go:249`) and `SetTargets` then runs the new one only if
  there is one (`internal/graph/node_write.go:153`): a definition that loses its
  selector keeps the targets that the old one allowed.

The `graph` instance satisfies both (`InstanceAssumption`).

`EdgeLookupProofs` is about the arrays. `Sound` says that data and offsets number each
other, that offsets are in order, that the bounds are those of the depths and that the
counters count the marks. Each of `addNodeKey`, `delNodeKey`, `addEdge`, `delEdge`, with
or without a garbage collection, keeps it and changes the set of live keys or edges by
that one element (`KeyStep`, `EdgeStep`); a search in one depth finds the place of an
edge among all; and the lookups return what the sets say (`TargetsOfNoPrefix`,
`TargetsOfDirectory`, `IterSources`). From there on the arrays are forgotten.

`KVGraphProofs` is about `Good(g, under, D)`: the lookup knows exactly the nodes of `g`
(`Knows`, through the overlay to `under`) and the edges of the definitions `D`
(`EdgesInv`), the targets are what `D` asks for (`TargetsInv`) and the sources mirror
them (`SourcesInv`). `D` is a parameter because in the middle of `SetTargets` the graph
follows neither the old nor the new list but the new one up to a label (`partly`). Each
operation keeps it, and every node it changes is noted for the save (`Tracks`). The
inductive invariant `IInv` is that the graph is `Good` and remembers no removal
(`Plain`), and that a copy is `Good` above the graph and `Complete`: what differs is noted.

### RegistrationProofs

`RegistrationAssumption`: finitely many descriptors, whose retrieve dependencies have no
cycle (with one the sort panics, `internal/utils/dependencies.go:84`), a cache of at least
one entry. `RegistryInv`: the cache has no more entries than it may have, one for a key,
with the descriptor of the key; the list is a topological order of the registered
descriptors whenever it is marked up to date. For `NoneForgotten`, `SubscribeInv`: the registration
goes on from its prefix to its broadcast (`RegInv`); a broadcast belongs to one
descriptor and receives what one registration sends (`BroadcastInv`); while the consumer
subscribes it holds the lock of the graph, which a registration with metadata needs to
go on (`ConsumerInv`); so whoever waits is subscribed to a broadcast that is certain to
come (`WaitInv`).

### AggregatorProofs

`DispatcherAssumption` and `AggregatorAssumption`: the order in which the store lists its
sources repeats none, the orchestrator waits for its commits, there are finitely many
watchers, and gRPC requests name neither `datasync` nor `localclient`. `DispatchInv`: the mutex is held by whoever is inside `PushData`
(`MutexInv`), a change is committed as requested (`ValuesInv`), and once the queue and the
transaction about to be committed are processed the scheduler has what the store lists
(`StoreInv`; `Ends` says what a queue of transactions leaves of a key). It does not depend
on who gave up waiting. `NorthInv` follows a value from its source to the store: what a
goroutine holds is what the source has (`SourceInv`), the aggregator waits while the
orchestrator applies its resync (`CallInv`), a snapshot not overtaken and the merge of
all of them are what the sources have (`SnapshotInv`, `MergedInv`), and the store has or
is about to get it (`ConvergeInv`).

### NotifyProofs

`NotifyAssumption`: fewer pushes than the index can count (`MaxPushes < IndexMod`: 2^32 in
the code, after which an old and a new notification have the same index), and a buffer
smaller than that. `TwiceInv`: indexes that are in use were given (`IndexInv`), what is not
dispatched yet is not in the buffer and nobody has it (`FreshInv`: the code sends before it
stores), the array of watchers has only registered clients and none twice (`WatchInv`), and
what is being dispatched was replayed to no registered watcher, nor is anyone who was handed
it in the rest of the range (`HandedInv`; `WatchersMove`: a removal shifts watchers to the
front only). `ReplayInv`: as long
as pushes do not overlap, indexes are consecutive (`OneInv`), the buffer has the last
ones at their slots (`BufferInv`), and an undisturbed replay has sent exactly the part from
where it had to start (`firstIdx`) up to its position (`LockInv`, `ReplayingInv`), which is
the index recorded in `upto` when it ends. `StartExact` is the arithmetic on 32 bits: an
index still to come, as after a restart of the agent, counts as one of long ago.

### What stays with TLC

The liveness properties (`CommitReturns`, `RetryRuns`, `CloseTerminates`,
`RegistrationReturns`, `EventuallyImplemented`, `PushCompletes`), which need fairness and
`ENABLED`. And those properties of `KVScheduler` that no theorem can state, since each is
false for some constants: `DependenciesHold`, `NoLeftovers`, `StatusPublished`,
`PendingJustified`, `GraphMatchesSB`, `ResyncHeals`, `RevertRestores` and the refinement of
`Reconciler` hold in the instances of the runs and fail in those of section 3. What
excludes the failures (which calls fail in which order, which values come back after a
resync) is a property of whole behaviours, not an assumption about constants.

## 5. Not modelled

- Generated code and conversions: of the 322 thousand lines counted as implementation
  most are the binary API of three VPP versions, protobuf code and the wrappers of
  single calls around them (`plugins/*/vppcalls`, `proto/`); the descriptors convert
  messages. They have no control of their own to check, and enter the model as the
  constants `Dependencies`, `Recreate`, `Valid`, `Outcomes`. A map of any share of them
  would be a transliteration.
- Interface state (`plugins/vpp/ifplugin/interface_state.go`, `link_state.go`): events
  and periodic dumps of the same interface are not ordered by the code. An event that
  arrives while the lock is released for a dump is overwritten by the older dump (line
  265), `Retrieve` of link states replaces the map with states read before it took the
  lock, and an interface deleted before its first dump leaves its link state. What
  remains true does not go beyond single steps.
- GoVPP mux and the Docker events of the Linux namespace plugin: the state machines are
  in vendored libraries; the agent reacts with a resync or a notification, which
  `KVScheduler` takes from its environment (`SBDrift`, `Notifications`).
- History of transactions and revisions, REST, telemetry, metrics, `agentctl`: read-only
  views, trimming by age.
- In the graph: metadata maps and the timeline. In the dispatcher: labels, by which
  `GetConfig` filters. Between the aggregator's goroutines: the unlocked map `localKVs`,
  whose accesses are taken as atomic; `ResyncDataSourceOverride` (`aggregator.go:271`), which
  is off by default; the downstream resync that `InitialSync` commits before it asks for the
  sources (`orchestrator.go:158`), which carries no values. Watchers of value statuses are
  assumed to keep up: one whose channel is full misses a change for ever (`txn_process.go:430`).
- In `Registration`: a full queue. The wait that starts itself again when it finds the queue
  full (`txn_queue.go:110`) is part of `TxnQueue` (`RetryAgain`).

## 6. Plan

1. *(done)* queue and goroutines; execution, refresh and processing of transactions;
   the abstract reconciliation; every safety property of `TxnQueue` that holds, proved.
2. *(done)* the in-memory graph, the registration of descriptors, the dispatcher and
   aggregator, the notification service.
3. *(done)* proofs of every safety property of the graph, the registration, the way of
   configuration and the notifications that the runs check, and that the queue implements
   the in-order executor.
4. *(done)* `KVExec` without `RECURSIVE` operators: the recursion as functions on the
   bounded nesting of calls. With it the types, the bound and the advance of retries and
   the truth of the status are proved for every value of the constants.
5. `DependenciesHold` and `GraphMatchesSB` for descriptors whose calls do not fail, without
   resyncs. The invariant has to say, for every point of the recursion, which
   dependents are still to be updated: this is more than the frames of `Kept` can say.
