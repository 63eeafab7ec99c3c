----------------------------- MODULE Aggregator -----------------------------
(***************************************************************************)
(* The way of configuration from its sources to the dispatcher:            *)
(*                                                                         *)
(*   - watchers of key-value stores, and the file of initial configuration *)
(*     (initfileregistry.go), send change and resync events,               *)
(*   - the Aggregator (aggregator.go) forwards changes, collects one       *)
(*     resync of each watcher into a single one, and adds the values of    *)
(*     the local client,                                                   *)
(*   - the orchestrator (watchEvents) hands events to PushData, one at a   *)
(*     time, and gRPC calls compete with it (meta_service.go).             *)
(*                                                                         *)
(* All channels but aggrResync are unbuffered: a send and its receive are  *)
(* one step.  The sources and the resync plugin are not part of the        *)
(* repository: a source reports its own changes in order, and DoResync     *)
(* asks every source for its content and waits until all have reported.    *)
(***************************************************************************)
EXTENDS Dispatcher

CONSTANTS Watchers,     \* sources aggregated
          Once,         \* the ones that report at the first resync only: the file
          Content,      \* what each source has at first: watcher -> key -> value
          Changes,      \* changes of sources: watcher -> set of <<key, value>>
          LocalKeys,    \* keys the local client uses
          GrpcRequests, \* requests of gRPC clients
          Undecodable,  \* values that cannot be decoded
          MaxInputs,    \* bound: changes and requests
          MaxResyncs    \* bound: calls of DoResync and resyncs of a single source

VARIABLES
    content,    \* what each source has
    fwd,        \* the event each forwarding goroutine holds
    aggrResync, \* channel of resync events, one place for each watcher
    aggr,       \* watchAggrResync: cachedResyncs and the event on its way
    localKVs,   \* values of the local client, as the aggregator knows them
    asked,      \* DoResync: what each source still has to do
    doing,      \* who has called DoResync
    reported,   \* sources that have reported at least once (pushedToWatchedRegistry)
    inputs,     \* number of inputs so far, and of resyncs
    overtaken,  \* a snapshot was overtaken, or counted for another source
    synced,     \* the aggregated resync has been applied
    localWish   \* what the local client has asked for

aggregatorVars == <<content, fwd, aggrResync, aggr, localKVs, asked, doing, reported,
                    inputs, overtaken, synced, localWish>>
vars == <<dispatcherVars, aggregatorVars>>

Local == "LOCAL"
Forwarders == Watchers \cup {Local}
NoEvent == [kind |-> "none", req |-> NoRequest]
NoKVs == [k \in Keys |-> Nil]

ASSUME AggregatorAssumption ==
    /\ Local \notin Watchers /\ Once \subseteq Watchers /\ Watchers # {}
    /\ {"datasync", "localclient"} \subseteq Sources
    /\ "orch" \in Callers /\ "orch" \notin Impatient
    /\ Content \in [Watchers -> Contents] /\ IsFiniteSet(Watchers)
    /\ Changes \in [Watchers -> SUBSET (Keys \X (Values \cup {Nil}))]
    /\ LocalKeys \subseteq Keys /\ Undecodable \subseteq Values
    /\ GrpcRequests \subseteq {r \in Requests : r.src \notin {"datasync", "localclient"}}
    /\ MaxInputs \in Nat /\ MaxResyncs \in Nat

change(src, kvs) == [kind |-> "change", req |-> [src |-> src, resync |-> FALSE, kvs |-> kvs]]
\* ResyncDataSourceOverride, off by default, is left out: the source is datasync
snapshot(kvs) == [kind |-> "resync", req |-> [src |-> "datasync", resync |-> TRUE, kvs |-> kvs]]

Init ==
    /\ InitDispatcher
    /\ content = Content
    /\ fwd = [w \in Forwarders |-> NoEvent]
    /\ aggrResync = <<>>
    /\ aggr = [pc |-> "range", cached |-> <<>>, kvs |-> <<>>]
    /\ localKVs = NoKVs /\ localWish = NoKVs
    /\ asked = [w \in Watchers |-> "no"] /\ doing = None /\ reported = {}
    /\ inputs = [changes |-> 0, resyncs |-> 0]
    /\ overtaken = FALSE /\ synced = FALSE

-----------------------------------------------------------------------------
(* Sources (external) *)

\* a resync of the source is on its way to the orchestrator
inFlight(w) ==
    \/ fwd[w].kind = "resync"
    \/ \E i \in DOMAIN aggrResync : aggrResync[i].from = w
    \/ \E i \in DOMAIN aggr.cached : aggr.cached[i].from = w /\ aggr.pc # "wait"

more == inputs.changes < MaxInputs
counted == inputs' = [inputs EXCEPT !.changes = @ + 1]

SourceChange(w, k, v) ==
    /\ more /\ fwd[w] = NoEvent /\ content[w][k] # v
    /\ content' = [content EXCEPT ![w][k] = v]
    /\ fwd' = [fwd EXCEPT ![w] = change("datasync", [j \in {k} |-> v])]
    /\ overtaken' = (overtaken \/ inFlight(w))
    /\ counted
    /\ UNCHANGED <<dispatcherVars, aggrResync, aggr, localKVs, asked, doing, reported,
                   synced, localWish>>

\* DoResync reaches the source; the file reports once
SourceResync(w) ==
    /\ asked[w] = "asked" /\ fwd[w] = NoEvent
    /\ IF w \in Once \cap reported
       THEN asked' = [asked EXCEPT ![w] = "no"] /\ UNCHANGED <<fwd, reported>>
       ELSE /\ fwd' = [fwd EXCEPT ![w] = snapshot(content[w])]
            /\ asked' = [asked EXCEPT ![w] = "sent"]
            /\ reported' = reported \cup {w}
    /\ UNCHANGED <<dispatcherVars, content, aggrResync, aggr, localKVs, doing,
                   inputs, overtaken, synced, localWish>>

\* a key-value store is connected again and reports by itself
SourceReconnect(w) ==
    /\ w \notin Once /\ asked[w] = "no" /\ fwd[w] = NoEvent
    /\ inputs.resyncs < MaxResyncs
    /\ inputs' = [inputs EXCEPT !.resyncs = @ + 1]
    /\ fwd' = [fwd EXCEPT ![w] = snapshot(content[w])]
    /\ UNCHANGED <<dispatcherVars, content, aggrResync, aggr, localKVs, asked, doing,
                   reported, overtaken, synced, localWish>>

\* the resync plugin: one resync at a time, by the agent (InitialSync, or the
\* connection to VPP that is back) or by the local client.  The downstream resync
\* InitialSync commits first carries no values and is left out
DoResync(by) ==
    /\ doing = None /\ inputs.resyncs < MaxResyncs
    /\ by = Local => fwd[Local].kind = "doResync"
    /\ doing' = by
    /\ asked' = [w \in Watchers |-> "asked"]
    /\ inputs' = [inputs EXCEPT !.resyncs = @ + 1]
    /\ UNCHANGED <<dispatcherVars, content, fwd, aggrResync, aggr, localKVs, reported,
                   overtaken, synced, localWish>>

DoResyncReturns ==
    /\ doing # None /\ \A w \in Watchers : asked[w] = "no"
    /\ doing' = None
    /\ fwd' = IF doing = Local THEN [fwd EXCEPT ![Local] = NoEvent] ELSE fwd
    /\ UNCHANGED <<dispatcherVars, content, aggrResync, aggr, localKVs, asked, reported,
                   inputs, overtaken, synced, localWish>>

-----------------------------------------------------------------------------
(* The Aggregator *)

\* aggrResync <- e: blocks while the channel is full
ForwardResync(w) ==
    /\ fwd[w].kind = "resync" /\ Len(aggrResync) < Cardinality(Watchers)
    /\ aggrResync' = Append(aggrResync, [from |-> w, kvs |-> fwd[w].req.kvs])
    /\ fwd' = [fwd EXCEPT ![w] = NoEvent]
    /\ UNCHANGED <<dispatcherVars, content, aggr, localKVs, asked, doing, reported,
                   inputs, overtaken, synced, localWish>>

\* kvToKeyVals: later resyncs, and the local client, overwrite
merged(cached) ==
    [k \in Keys |->
        LET having == {i \in DOMAIN cached : cached[i].kvs[k] # Nil}
        IN IF localKVs[k] # Nil THEN localKVs[k]
           ELSE IF having = {} THEN Nil
           ELSE cached[CHOOSE i \in having : \A j \in having : j <= i].kvs[k]]

\* mutant: any resync completes the collection
BugAllReceived(cached) == TRUE

\* resyncs are counted, whoever they come from
allReceived(cached) == Len(cached) = Cardinality(Watchers)

\* a resync is cached and its sender is released; the last one completes the
\* aggregated resync
CacheResync ==
    LET e == Head(aggrResync)
        cached == Append(aggr.cached, e)
    IN /\ aggr.pc = "range" /\ aggrResync # <<>>
       /\ aggrResync' = Tail(aggrResync)
       /\ asked' = [asked EXCEPT ![e.from] = IF @ = "sent" THEN "no" ELSE @]
       /\ aggr' = IF allReceived(cached)
                  THEN [pc |-> "send", cached |-> cached, kvs |-> merged(cached)]
                  ELSE [aggr EXCEPT !.cached = cached]
       /\ overtaken' = (overtaken \/ (Len(cached) = Cardinality(Watchers)
                                       /\ {cached[i].from : i \in DOMAIN cached} # Watchers))
       /\ UNCHANGED <<dispatcherVars, content, fwd, localKVs, doing, reported,
                      inputs, synced, localWish>>

\* watchLocalEvents: a change of the local client
LocalChange(k, v) ==
    /\ more /\ fwd[Local] = NoEvent /\ localWish[k] # v
    /\ localWish' = [localWish EXCEPT ![k] = v]
    /\ localKVs' = [localKVs EXCEPT ![k] = v]
    /\ fwd' = [fwd EXCEPT ![Local] = change("localclient", [j \in {k} |-> v])]
    /\ overtaken' = (overtaken \/ aggr.pc = "send")
    /\ counted
    /\ UNCHANGED <<dispatcherVars, content, aggrResync, aggr, asked, doing, reported, synced>>

\* ... and a resync of it, which calls DoResync
LocalResync(kvs) ==
    /\ more /\ inputs.resyncs < MaxResyncs /\ fwd[Local] = NoEvent
    /\ localWish' = kvs /\ localKVs' = kvs
    /\ fwd' = [fwd EXCEPT ![Local] = [kind |-> "doResync", req |-> NoRequest]]
    /\ overtaken' = (overtaken \/ aggr.pc = "send")
    /\ counted
    /\ UNCHANGED <<dispatcherVars, content, aggrResync, aggr, asked, doing, reported, synced>>

-----------------------------------------------------------------------------
(* The orchestrator and the gRPC services *)

decoded(req) ==
    LET kept == {k \in DOMAIN req.kvs : req.kvs[k] \notin Undecodable}
    IN [req EXCEPT !.kvs = [k \in kept |-> req.kvs[k]]]

pushing(x, req) == call' = [call EXCEPT ![x] = [IdleCall EXCEPT !.pc = "lock", !.req = req]]
orchIdle == call["orch"].pc = "idle"

\* changeChan <- e; an event without a value that can be decoded is done at once
HandleChange(w) ==
    LET req == decoded(fwd[w].req)
    IN /\ orchIdle /\ fwd[w].kind = "change"
       /\ fwd' = [fwd EXCEPT ![w] = NoEvent]
       /\ IF DOMAIN req.kvs = {} THEN UNCHANGED call ELSE pushing("orch", req)
       /\ UNCHANGED <<db, mu, queue, sched, dirty, content, aggrResync, aggr, localKVs, asked,
                      doing, reported, inputs, overtaken, synced, localWish>>

\* resyncCh <- resEv
HandleResync ==
    /\ orchIdle /\ aggr.pc = "send"
    /\ pushing("orch", decoded(snapshot(aggr.kvs).req))
    /\ aggr' = [aggr EXCEPT !.pc = "wait"]
    /\ UNCHANGED <<db, mu, queue, sched, dirty, content, fwd, aggrResync, localKVs, asked,
                   doing, reported, inputs, overtaken, synced, localWish>>

\* e.Done: PushData has returned, and the aggregator goes on after a resync
EventDone ==
    /\ PushReturn("orch")
    /\ IF call["orch"].req.resync
       THEN aggr' = [pc |-> "range", cached |-> <<>>, kvs |-> <<>>] /\ synced' = TRUE
       ELSE UNCHANGED <<aggr, synced>>
    /\ UNCHANGED <<content, fwd, aggrResync, localKVs, asked, doing, reported,
                   inputs, overtaken, localWish>>

GrpcCall(x, req) ==
    /\ more /\ call[x].pc = "idle"
    /\ pushing(x, req)
    /\ counted
    /\ UNCHANGED <<db, mu, queue, sched, dirty, content, fwd, aggrResync, aggr, localKVs, asked,
                   doing, reported, overtaken, synced, localWish>>

-----------------------------------------------------------------------------
\* nothing that came in is waiting: where the inputs may end without anybody
\* being stuck
Settled ==
    /\ \A x \in Callers : call[x].pc = "idle"
    /\ \A w \in Forwarders : fwd[w].kind \notin {"change", "resync"}
    /\ queue = <<>> /\ aggrResync = <<>> /\ aggr.pc = "range" /\ doing = None

LocalMaps == {kvs \in [Keys -> Values \cup {Nil}] : \A k \in Keys \ LocalKeys : kvs[k] = Nil}

Next ==
    \/ \E w \in Watchers :
         \/ \E c \in Changes[w] : SourceChange(w, c[1], c[2])
         \/ SourceResync(w) \/ SourceReconnect(w) \/ ForwardResync(w)
    \/ DoResync("agent") \/ DoResync(Local) \/ DoResyncReturns
    \/ CacheResync \/ HandleResync \/ EventDone
    \/ \E w \in Forwarders : HandleChange(w)
    \/ \E k \in LocalKeys, v \in Values \cup {Nil} : LocalChange(k, v)
    \/ \E kvs \in LocalMaps : LocalResync(kvs)
    \/ \E x \in Impatient, req \in GrpcRequests : GrpcCall(x, req)
    \/ (Process /\ UNCHANGED aggregatorVars)
    \/ \E x \in Callers : pushSteps(x) /\ UNCHANGED aggregatorVars
    \/ \E x \in Impatient : PushReturn(x) /\ UNCHANGED aggregatorVars
    \/ (Settled /\ UNCHANGED vars)

Spec == Init /\ [][Next]_vars

-----------------------------------------------------------------------------
(* Properties *)

Snapshots == [from : Watchers, kvs : Contents]
Events == [kind : {"none", "change", "resync", "doResync"}, req : Requests \cup {NoRequest}]

\* the state of the way of configuration; an event to be handed over has a
\* request, and a resync reports every key
TypeOK ==
    /\ DispatcherTypeOK
    /\ content \in [Watchers -> Contents]
    /\ fwd \in [Forwarders -> Events]
    /\ \A w \in Forwarders :
          /\ fwd[w].kind \in {"change", "resync"} => fwd[w].req \in Requests
          /\ fwd[w].kind = "resync" => fwd[w].req.kvs \in Contents
    /\ aggrResync \in Seq(Snapshots)
    /\ aggr \in [pc : {"range", "send", "wait"}, cached : Seq(Snapshots), kvs : Maps]
    /\ localKVs \in Contents /\ localWish \in Contents
    /\ asked \in [Watchers -> {"no", "asked", "sent"}] /\ doing \in {None, "agent", Local}
    /\ reported \subseteq Watchers /\ overtaken \in BOOLEAN /\ synced \in BOOLEAN
    /\ inputs \in [changes : 0..MaxInputs, resyncs : 0..MaxResyncs]

\* nothing is on its way and nobody waits for anything
quiet ==
    /\ \A w \in Forwarders : fwd[w] = NoEvent
    /\ aggrResync = <<>> /\ aggr.pc = "range" /\ aggr.cached = <<>> /\ doing = None
    /\ \A x \in Callers : call[x].pc = "idle"
    /\ queue = <<>>

\* nobody but w has the key, now or later
sole(w, k) ==
    \A u \in Watchers \ {w} : Content[u][k] = Nil /\ \A c \in Changes[u] : c[1] # k

\* Whatever changes while resyncs are collected, merged and applied, the store
\* ends up with what the sources have, for the keys that belong to one source
\* and that the local client leaves alone, unless a source changed after its
\* snapshot was taken or reported out of turn (watchAggrResync).
Converges ==
    quiet /\ synced /\ ~overtaken =>
        \A w \in Watchers, k \in Keys \ LocalKeys :
            sole(w, k) /\ content[w][k] \notin Undecodable =>
                db["datasync"][k] = content[w][k]

\* The same without the exception: what a reader of aggregator.go expects.
ConvergesAlways ==
    quiet /\ synced =>
        \A k \in Keys \ LocalKeys, w \in Watchers :
            content[w][k] \notin Undecodable \cup {Nil} /\ (\A u \in Watchers \ {w} : content[u][k] = Nil)
            => db["datasync"][k] = content[w][k]

\* "ResyncConfig overwrites existing config" (client_api.go:80): a value the
\* local client has left out, and no source or gRPC client has, is gone once
\* everything is applied.
ResyncOverwrites ==
    quiet /\ synced /\ ~overtaken =>
        \A k \in LocalKeys :
            /\ localWish[k] = Nil /\ \A w \in Watchers : content[w][k] = Nil
            /\ \A s \in Sources \ {"datasync", "localclient"} : db[s][k] = Nil
            => sched[k] = Nil
=============================================================================
