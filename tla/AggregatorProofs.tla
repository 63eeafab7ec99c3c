-------------------------- MODULE AggregatorProofs --------------------------
(***************************************************************************)
(* Proofs about the way of configuration from its sources to the           *)
(* KVScheduler, for any sources, keys, values and callers and any number   *)
(* of changes and resyncs.                                                 *)
(***************************************************************************)
EXTENDS Aggregator, OrderLemmas

-----------------------------------------------------------------------------
(* The store and the transactions *)

\* What ListAll says of a key depends on the values of that key only.
LEMMA ListAllLocal ==
    ASSUME NEW st1, NEW st2, NEW k, \A s \in Sources : st1[s][k] = st2[s][k]
    PROVE  ListAll(st1, k) = ListAll(st2, k)
<1> DEFINE H1 == {i \in DOMAIN SourceOrder : st1[SourceOrder[i]][k] # Nil}
           H2 == {i \in DOMAIN SourceOrder : st2[SourceOrder[i]][k] # Nil}
<1>1. \A i \in DOMAIN SourceOrder : st1[SourceOrder[i]][k] = st2[SourceOrder[i]][k]
  BY DEF Sources
<1>2. H1 = H2
  BY <1>1
<1> HIDE DEF H1, H2
<1>3. H1 # {} => (CHOOSE i \in H1 : \A j \in H1 : j <= i) \in DOMAIN SourceOrder
  <2> SUFFICES ASSUME H1 # {} PROVE \E i \in H1 : \A j \in H1 : j <= i
    BY DEF H1
  <2>1. SourceOrder \in Seq(Sources)
    BY DispatcherAssumption
  <2>2. H1 \in SUBSET Int /\ Len(SourceOrder) \in Int /\ \A t \in H1 : t <= Len(SourceOrder)
    BY <2>1 DEF H1
  <2> QED
    BY <2>2, Greatest
<1> QED
  BY <1>1, <1>2, <1>3 DEF ListAll, H1, H2

\* ListAll finds a value of a source, or nothing.
LEMMA ListAllType ==
    ASSUME NEW st \in [Sources -> Contents], NEW k \in Keys
    PROVE  ListAll(st, k) \in Values \cup {Nil}
<1> DEFINE H == {i \in DOMAIN SourceOrder : st[SourceOrder[i]][k] # Nil}
<1>1. SourceOrder \in Seq(Sources)
  BY DispatcherAssumption
<1>2. H # {} => (CHOOSE i \in H : \A j \in H : j <= i) \in DOMAIN SourceOrder
  <2> SUFFICES ASSUME H # {} PROVE \E i \in H : \A j \in H : j <= i
    OBVIOUS
  <2>2. H \in SUBSET Int /\ Len(SourceOrder) \in Int /\ \A t \in H : t <= Len(SourceOrder)
    BY <1>1
  <2> QED
    BY <2>2, Greatest
<1>3. \A i \in DOMAIN SourceOrder : st[SourceOrder[i]][k] \in Values \cup {Nil}
  BY <1>1 DEF Contents
<1> QED
  BY <1>2, <1>3 DEF ListAll

\* If one source at most has the key, ListAll finds what that source has.
LEMMA ListAllOnly ==
    ASSUME NEW st \in [Sources -> Contents], NEW k \in Keys, NEW s \in Sources,
           \A u \in Sources \ {s} : st[u][k] = Nil
    PROVE  ListAll(st, k) = st[s][k]
<1> DEFINE H == {i \in DOMAIN SourceOrder : st[SourceOrder[i]][k] # Nil}
<1>1. PICK n \in DOMAIN SourceOrder : SourceOrder[n] = s
  BY DEF Sources
<1>2. \A i \in DOMAIN SourceOrder \ {n} : SourceOrder[i] \in Sources \ {s}
  BY <1>1, DispatcherAssumption DEF Sources
<1>3. H = IF st[s][k] = Nil THEN {} ELSE {n}
  BY <1>1, <1>2
<1>4. n \in Int
  BY DispatcherAssumption
<1>5. ASSUME st[s][k] # Nil PROVE (CHOOSE i \in H : \A j \in H : j <= i) = n
  <2>1. H = {n}
    BY <1>3, <1>5
  <2>2. \A i \in H : i = n
    BY <2>1
  <2>3. n \in H /\ \A j \in H : j <= n
    BY <2>1, <1>4
  <2> HIDE DEF H
  <2> QED
    BY <2>2, <2>3
<1> QED
  BY <1>1, <1>3, <1>5 DEF ListAll

-----------------------------------------------------------------------------
(* What a queue of transactions leaves behind *)

touches(t, k) == t.resync \/ k \in DOMAIN t.values
leaves(t, k) == IF k \in DOMAIN t.values THEN t.values[k] ELSE Nil

\* once the transactions of q are processed, the value of k is v
Ends(q, s, k, v) ==
    \/ s[k] = v /\ \A i \in 1..Len(q) : ~touches(q[i], k)
    \/ \E i \in 1..Len(q) : /\ touches(q[i], k) /\ leaves(q[i], k) = v
                            /\ \A j \in (i + 1)..Len(q) : ~touches(q[j], k)

\* the effect of a transaction on the values of the scheduler
processed(s, t) ==
    [k \in Keys |-> IF k \in DOMAIN t.values THEN t.values[k]
                   ELSE IF t.resync THEN Nil ELSE s[k]]

\* A transaction appended to the queue decides the keys it touches.
LEMMA EndsAppend ==
    ASSUME NEW q \in Seq(Transactions), NEW t \in Transactions, NEW s, NEW k \in Keys, NEW v,
           IF touches(t, k) THEN leaves(t, k) = v ELSE Ends(q, s, k, v)
    PROVE  Ends(Append(q, t), s, k, v)
<1> DEFINE r == Append(q, t)
<1>1. /\ Len(q) \in Nat /\ Len(r) = Len(q) + 1 /\ r[Len(q) + 1] = t
      /\ \A i \in 1..Len(q) : r[i] = q[i]
  OBVIOUS
<1> HIDE DEF r
<1>2. CASE touches(t, k)
  <2>1. Len(q) + 1 \in 1..Len(r) /\ touches(r[Len(q) + 1], k) /\ leaves(r[Len(q) + 1], k) = v
    BY <1>1, <1>2
  <2>2. \A j \in (Len(q) + 2)..Len(r) : ~touches(r[j], k)
    BY <1>1
  <2>3. Ends(r, s, k, v)
    BY <1>1, <2>1, <2>2 DEF Ends
  <2> QED
    BY <2>3 DEF r
<1>3. CASE ~touches(t, k)
  <2>1. \A i \in 1..Len(r) : i \in 1..Len(q) \/ i = Len(q) + 1
    BY <1>1
  <2>2. CASE s[k] = v /\ \A i \in 1..Len(q) : ~touches(q[i], k)
    <3>1. \A i \in 1..Len(r) : ~touches(r[i], k)
      BY <1>1, <1>3, <2>1, <2>2
    <3> QED
      BY <2>2, <3>1 DEF Ends, r
  <2>3. CASE \E i \in 1..Len(q) : /\ touches(q[i], k) /\ leaves(q[i], k) = v
                                  /\ \A j \in (i + 1)..Len(q) : ~touches(q[j], k)
    <3>1. PICK i \in 1..Len(q) : /\ touches(q[i], k) /\ leaves(q[i], k) = v
                                 /\ \A j \in (i + 1)..Len(q) : ~touches(q[j], k)
      BY <2>3
    <3>2. i \in 1..Len(r) /\ r[i] = q[i]
      BY <1>1
    <3>3. ASSUME NEW j \in (i + 1)..Len(r) PROVE ~touches(r[j], k)
      <4>1. j = Len(q) + 1 \/ (j \in (i + 1)..Len(q) /\ r[j] = q[j])
        BY <1>1
      <4> QED
        BY <1>1, <1>3, <3>1, <4>1
    <3> QED
      BY <3>1, <3>2, <3>3 DEF Ends, r
  <2> QED
    BY <1>3, <2>2, <2>3 DEF Ends
<1> QED
  BY <1>2, <1>3

\* Processing the first transaction changes nothing about what comes out.
LEMMA EndsProcess ==
    ASSUME NEW q \in Seq(Transactions), q # <<>>, NEW s, NEW k \in Keys, NEW v,
           Ends(q, s, k, v)
    PROVE  Ends(Tail(q), processed(s, Head(q)), k, v)
<1> DEFINE r == Tail(q)
           p == processed(s, q[1])
<1>1. /\ Len(q) \in Nat \ {0} /\ Len(r) = Len(q) - 1 /\ Head(q) = q[1]
      /\ \A i \in 1..Len(r) : r[i] = q[i + 1]
  OBVIOUS
<1>2. p[k] = IF touches(q[1], k) THEN leaves(q[1], k) ELSE s[k]
  BY DEF processed, touches, leaves
<1> HIDE DEF r, p
<1>3. CASE s[k] = v /\ \A i \in 1..Len(q) : ~touches(q[i], k)
  <2>1. p[k] = v
    BY <1>1, <1>2, <1>3
  <2>2. \A i \in 1..Len(r) : ~touches(r[i], k)
    BY <1>1, <1>3
  <2> QED
    BY <1>1, <2>1, <2>2 DEF Ends, r, p
<1>4. ASSUME NEW i \in 1..Len(q), touches(q[i], k), leaves(q[i], k) = v,
             \A j \in (i + 1)..Len(q) : ~touches(q[j], k)
      PROVE  Ends(r, p, k, v)
  <2>1. CASE i = 1
    <3>1. p[k] = v
      BY <1>2, <1>4, <2>1
    <3>2. \A j \in 1..Len(r) : ~touches(r[j], k)
      BY <1>1, <1>4, <2>1
    <3> QED
      BY <3>1, <3>2 DEF Ends
  <2>2. CASE i # 1
    <3>1. i - 1 \in 1..Len(r) /\ r[i - 1] = q[i]
      BY <1>1, <2>2
    <3>2. \A j \in i..Len(r) : ~touches(r[j], k)
      BY <1>1, <1>4, <2>2
    <3>3. (i - 1) + 1 = i
      OBVIOUS
    <3> QED
      BY <1>4, <3>1, <3>2, <3>3 DEF Ends
  <2> QED
    BY <2>1, <2>2
<1> QED
  BY <1>1, <1>3, <1>4 DEF Ends, r, p

-----------------------------------------------------------------------------
(* Types *)

\* the part of the type invariant that is about the aggregator
AggregatorType ==
    /\ content \in [Watchers -> Contents]
    /\ fwd \in [Forwarders -> Events]
    /\ \A w \in Forwarders :
          /\ fwd[w].kind \in {"change", "resync"} => fwd[w].req \in Requests
          /\ fwd[w].kind = "resync" => fwd[w].req.kvs \in Contents
    /\ aggrResync \in Seq(Snapshots)
    /\ aggr \in [pc : {"range", "send", "wait"}, cached : Seq(Snapshots), kvs : Maps]
    /\ localKVs \in Contents /\ localWish \in Contents
    /\ asked \in [Watchers -> {"no", "asked", "sent"}] /\ doing \in {None, "agent", Local}
    /\ reported \subseteq Watchers /\ overtaken \in BOOLEAN /\ synced \in BOOLEAN
    /\ inputs \in [changes : 0..MaxInputs, resyncs : 0..MaxResyncs]

\* A map of some of the keys is a map; so is the empty one and a map of all.
LEMMA MapsFacts ==
    /\ <<>> \in Maps /\ Contents \subseteq Maps
    /\ \A m \in Maps : DOMAIN m \subseteq Keys /\ \A k \in DOMAIN m : m[k] \in Values \cup {Nil}
    /\ \A m : DOMAIN m \subseteq Keys /\ m \in [DOMAIN m -> Values \cup {Nil}] => m \in Maps
<1>1. <<>> \in [{} -> Values \cup {Nil}]
  OBVIOUS
<1>2. {} \in SUBSET Keys /\ Keys \in SUBSET Keys
  OBVIOUS
<1> QED
  BY <1>1, <1>2 DEF Maps, Contents

\* The store after a request, and the values of its transaction, are well typed.
LEMMA PreparedType ==
    ASSUME db \in [Sources -> Contents], NEW req \in Requests
    PROVE  /\ updatedStore(req) \in [Sources -> Contents]
           /\ txnValues(req, updatedStore(req)) \in Maps
<1> DEFINE st == updatedStore(req)
<1>1. /\ req.src \in Sources /\ req.kvs \in Maps
      /\ \A k \in DOMAIN req.kvs : k \in Keys /\ req.kvs[k] \in Values \cup {Nil}
  BY MapsFacts DEF Requests
<1>2. \A k \in Keys : db[req.src][k] \in Values \cup {Nil}
  BY <1>1 DEF Contents
<1>3. st \in [Sources -> Contents]
  BY <1>1, <1>2 DEF updatedStore, Contents
<1> HIDE DEF st
<1>4. \A k \in Keys : ListAll(st, k) \in Values \cup {Nil}
  BY <1>3, ListAllType
<1>5. txnValues(req, st) \in Maps
  <2>1. CASE ~req.resync
    BY <1>1, <2>1 DEF txnValues
  <2>2. CASE req.resync
    <3> DEFINE all == {k \in Keys : ListAll(st, k) # Nil}
               m == [k \in all |-> ListAll(st, k)]
    <3>1. DOMAIN m \subseteq Keys /\ m \in [DOMAIN m -> Values \cup {Nil}]
      BY <1>4
    <3>2. m \in Maps
      <4> HIDE DEF m
      <4> QED
        BY <3>1, MapsFacts
    <3> QED
      BY <2>2, <3>2 DEF txnValues
  <2> QED
    BY <2>1, <2>2
<1> QED
  BY <1>3, <1>5 DEF st

\* What can be decoded of a request is a request.
LEMMA DecodedType ==
    ASSUME NEW req \in Requests
    PROVE  /\ decoded(req) \in Requests
           /\ decoded(req).src = req.src /\ decoded(req).resync = req.resync
           /\ DOMAIN decoded(req).kvs = {k \in DOMAIN req.kvs : req.kvs[k] \notin Undecodable}
           /\ \A k \in DOMAIN decoded(req).kvs : decoded(req).kvs[k] = req.kvs[k]
<1> DEFINE kept == {k \in DOMAIN req.kvs : req.kvs[k] \notin Undecodable}
           m == [k \in kept |-> req.kvs[k]]
<1>1. DOMAIN m = kept /\ \A k \in kept : m[k] = req.kvs[k]
  OBVIOUS
<1>2. m \in Maps
  <2>1. DOMAIN m \subseteq Keys /\ m \in [DOMAIN m -> Values \cup {Nil}]
    BY MapsFacts DEF Requests
  <2> HIDE DEF m
  <2> QED
    BY <2>1, MapsFacts
<1>3. decoded(req) = [req EXCEPT !.kvs = m]
  BY DEF decoded
<1> HIDE DEF m
<1> QED
  BY <1>1, <1>2, <1>3 DEF Requests

\* The steps of PushData, and of the scheduler, keep the types of the dispatcher.
LEMMA PushTypeStep ==
    ASSUME DispatcherTypeOK, NEW x \in Callers, pushSteps(x) \/ PushReturn(x) \/ Process
    PROVE  DispatcherTypeOK'
<1> USE DEF DispatcherTypeOK
<1>1. CASE Prepare(x)
  <2>1. call[x].req \in Requests
    BY <1>1 DEF Prepare
  <2>2. db' \in [Sources -> Contents] /\ txnValues(call[x].req, db') \in Maps
    BY <1>1, <2>1, PreparedType DEF Prepare
  <2>3. dirty' \subseteq Keys
    BY <1>1, <2>1, MapsFacts DEF Prepare, prepared, Requests
  <2> QED
    BY <1>1, <2>1, <2>2, <2>3 DEF Prepare
<1>2. CASE Commit(x)
  <2>1. call[x].req \in Requests
    BY <1>2 DEF Commit
  <2>2. [by |-> x, resync |-> call[x].req.resync, values |-> call[x].values] \in Transactions
    BY <2>1 DEF Transactions, Requests
  <2>3. queue' \in Seq(Transactions)
    BY <1>2, <2>2 DEF Commit
  <2> QED
    BY <1>2, <2>1, <2>3 DEF Commit
<1>3. CASE CommitRefused(x)
  <2>1. dirty' \subseteq Keys
    BY <1>3, MapsFacts DEF CommitRefused, Requests
  <2> QED
    BY <1>3, <2>1 DEF CommitRefused
<1>4. CASE Committed(x)
  BY <1>4 DEF Committed
<1>5. CASE PushReturn(x)
  <2>1. IdleCall \in [pc : {"idle", "lock", "commit", "wait", "done"},
                      req : Requests \cup {NoRequest}, values : Maps]
    BY MapsFacts DEF IdleCall
  <2> QED
    BY <1>5, <2>1 DEF PushReturn, IdleCall
<1>6. CASE Process
  <2>1. Head(queue) \in Transactions /\ Tail(queue) \in Seq(Transactions)
    BY <1>6 DEF Process
  <2>2. \A k \in DOMAIN Head(queue).values : Head(queue).values[k] \in Values \cup {Nil}
    BY <2>1, MapsFacts DEF Transactions
  <2>3. sched' \in Contents
    BY <1>6, <2>2 DEF Process, Contents
  <2> QED
    BY <1>6, <2>1, <2>3 DEF Process
<1> QED
  BY <1>1, <1>2, <1>3, <1>4, <1>5, <1>6 DEF pushSteps

\* The names of the goroutines and of the sources, and what inputs are made of.
LEMMA ConstantFacts ==
    /\ "orch" \in Callers \ Impatient /\ Impatient \subseteq Callers
    /\ "datasync" \in Sources /\ "localclient" \in Sources /\ LocalKeys \subseteq Keys
    /\ Local \in Forwarders \ Watchers /\ Watchers \subseteq Forwarders
    /\ MaxInputs \in Nat /\ MaxResyncs \in Nat
    /\ \A w \in Watchers : \A c \in Changes[w] : c[1] \in Keys /\ c[2] \in Values \cup {Nil}
    /\ \A r \in GrpcRequests : r \in Requests /\ r.src # "datasync"
    /\ Nil \notin Undecodable /\ None \notin Callers
  BY DispatcherAssumption, AggregatorAssumption DEF Forwarders

\* Merging snapshots gives a value or nothing for every key.
LEMMA MergedType ==
    ASSUME localKVs \in Contents, NEW cached \in Seq(Snapshots)
    PROVE  merged(cached) \in Contents
<1> SUFFICES ASSUME NEW k \in Keys PROVE merged(cached)[k] \in Values \cup {Nil}
  BY DEF merged, Contents
<1> DEFINE having == {i \in DOMAIN cached : cached[i].kvs[k] # Nil}
           last == CHOOSE i \in having : \A j \in having : j <= i
<1>1. having # {} => last \in DOMAIN cached
  <2> SUFFICES ASSUME having # {} PROVE \E i \in having : \A j \in having : j <= i
    OBVIOUS
  <2>1. having \in SUBSET Int /\ Len(cached) \in Int /\ \A t \in having : t <= Len(cached)
    OBVIOUS
  <2> QED
    BY <2>1, Greatest
<1>2. \A i \in DOMAIN cached : cached[i].kvs[k] \in Values \cup {Nil}
  <2>1. \A i \in DOMAIN cached : cached[i] \in Snapshots
    OBVIOUS
  <2>2. \A i \in DOMAIN cached : cached[i].kvs \in Contents
    BY <2>1 DEF Snapshots
  <2> QED
    BY <2>2 DEF Contents
<1>3. localKVs[k] \in Values \cup {Nil}
  BY DEF Contents
<1> QED
  BY <1>1, <1>2, <1>3 DEF merged

\* The initial state is well typed.
LEMMA TypeInit == Init => TypeOK
<1> SUFFICES ASSUME Init PROVE TypeOK
  OBVIOUS
<1> USE DispatcherAssumption, AggregatorAssumption, MapsFacts
<1>1. NoKVs \in Contents
  BY DEF NoKVs, Contents
<1>2. DispatcherTypeOK
  <2>1. IdleCall \in [pc : {"idle", "lock", "commit", "wait", "done"},
                      req : Requests \cup {NoRequest}, values : Maps]
    BY DEF IdleCall
  <2> QED
    BY <1>1, <2>1 DEF Init, InitDispatcher, DispatcherTypeOK, NoKVs, IdleCall
<1>3. fwd \in [Forwarders -> Events] /\ \A w \in Forwarders : fwd[w].kind = "none"
  BY DEF Init, NoEvent, Events
<1>4. aggr \in [pc : {"range", "send", "wait"}, cached : Seq(Snapshots), kvs : Maps]
  BY DEF Init
<1>5. inputs \in [changes : 0..MaxInputs, resyncs : 0..MaxResyncs]
  BY DEF Init
<1>6. aggrResync \in Seq(Snapshots) /\ asked \in [Watchers -> {"no", "asked", "sent"}]
  BY DEF Init
<1> QED
  BY <1>1, <1>2, <1>3, <1>4, <1>5, <1>6 DEF Init, TypeOK

\* Every step keeps the types.
LEMMA TypeStep == TypeOK /\ [Next]_vars => TypeOK'
<1> SUFFICES ASSUME TypeOK, [Next]_vars PROVE TypeOK'
  OBVIOUS
<1> USE ConstantFacts
<1>0. /\ DispatcherTypeOK /\ AggregatorType /\ NoEvent \in Events
      /\ (DispatcherTypeOK' /\ AggregatorType' => TypeOK')
  BY DEF TypeOK, AggregatorType, NoEvent, Events
<1>1. UNCHANGED dispatcherVars => DispatcherTypeOK'
  BY <1>0 DEF DispatcherTypeOK, dispatcherVars
<1>2. UNCHANGED aggregatorVars => AggregatorType'
  BY <1>0 DEF AggregatorType, aggregatorVars
<1>3. \A kvs \in Contents : snapshot(kvs) \in Events /\ snapshot(kvs).req \in Requests
  BY MapsFacts DEF snapshot, Events, Requests, Sources
<1>4. ASSUME NEW src \in Sources, NEW k \in Keys, NEW v \in Values \cup {Nil}
      PROVE  /\ change(src, [j \in {k} |-> v]) \in Events
             /\ change(src, [j \in {k} |-> v]).req \in Requests
             /\ change(src, [j \in {k} |-> v]).kind = "change"
  <2> DEFINE m == [j \in {k} |-> v]
  <2>1. DOMAIN m \subseteq Keys /\ m \in [DOMAIN m -> Values \cup {Nil}]
    OBVIOUS
  <2> HIDE DEF m
  <2>2. m \in Maps
    BY <2>1, MapsFacts
  <2> QED
    BY <2>2 DEF change, Events, Requests, m
<1>5. ASSUME NEW x \in Callers, NEW req \in Requests, pushing(x, req),
             UNCHANGED <<db, mu, queue, sched, dirty>>
      PROVE  DispatcherTypeOK'
  <2>1. [IdleCall EXCEPT !.pc = "lock", !.req = req] \in
            [pc : {"idle", "lock", "commit", "wait", "done"},
             req : Requests \cup {NoRequest}, values : Maps]
    BY MapsFacts DEF IdleCall
  <2> QED
    BY <1>0, <1>5, <2>1 DEF DispatcherTypeOK, pushing, IdleCall
<1>6. ASSUME more, counted PROVE inputs' \in [changes : 0..MaxInputs, resyncs : 0..MaxResyncs]
  <2>1. inputs.changes \in 0..MaxInputs /\ inputs.resyncs \in 0..MaxResyncs
    BY <1>0 DEF AggregatorType
  <2>2. inputs.changes + 1 \in 0..MaxInputs
    BY <1>6, <2>1 DEF more
  <2> QED
    BY <1>0, <1>6, <2>1, <2>2 DEF AggregatorType, counted
<1>7. ASSUME NEW w \in Watchers, NEW c \in Changes[w], SourceChange(w, c[1], c[2]) PROVE TypeOK'
  <2>1. c[1] \in Keys /\ c[2] \in Values \cup {Nil} /\ "datasync" \in Sources /\ w \in Forwarders
    BY DEF Forwarders
  <2>2. content' \in [Watchers -> Contents]
    BY <1>0, <1>7, <2>1 DEF SourceChange, AggregatorType, Contents
  <2>3. /\ fwd' \in [Forwarders -> Events] /\ fwd'[w].req \in Requests /\ fwd'[w].kind = "change"
        /\ \A u \in Forwarders \ {w} : fwd'[u] = fwd[u]
    <3> DEFINE e == change("datasync", [j \in {c[1]} |-> c[2]])
    <3>1. e \in Events /\ e.req \in Requests /\ e.kind = "change"
      BY <1>4, <2>1
    <3>2. fwd' = [fwd EXCEPT ![w] = e]
      BY <1>7 DEF SourceChange
    <3> HIDE DEF e
    <3> QED
      BY <1>0, <2>1, <3>1, <3>2 DEF AggregatorType
  <2>4. inputs' \in [changes : 0..MaxInputs, resyncs : 0..MaxResyncs]
    BY <1>7, <1>6 DEF SourceChange
  <2>5. overtaken' \in BOOLEAN
    BY <1>0, <1>7 DEF SourceChange, AggregatorType
  <2> QED
    BY <1>0, <1>1, <1>7, <2>2, <2>3, <2>4, <2>5 DEF SourceChange, AggregatorType
<1>8. ASSUME NEW w \in Watchers, SourceResync(w) PROVE TypeOK'
  <2>1. content[w] \in Contents /\ w \in Forwarders
    BY <1>0 DEF AggregatorType, Forwarders
  <2>2. /\ fwd' \in [Forwarders -> Events]
        /\ \A u \in Forwarders : fwd'[u] = fwd[u] \/ fwd'[u] = snapshot(content[w])
    <3>1. CASE fwd' = fwd
      BY <1>0, <3>1 DEF AggregatorType
    <3>2. CASE fwd' = [fwd EXCEPT ![w] = snapshot(content[w])]
      BY <1>0, <1>3, <2>1, <3>2 DEF AggregatorType
    <3> QED
      BY <1>8, <3>1, <3>2 DEF SourceResync
  <2>3. snapshot(content[w]).req.kvs \in Contents
    BY <2>1 DEF snapshot
  <2>4. \A u \in Forwarders :
          /\ fwd'[u].kind \in {"change", "resync"} => fwd'[u].req \in Requests
          /\ fwd'[u].kind = "resync" => fwd'[u].req.kvs \in Contents
    BY <1>0, <1>3, <2>1, <2>2, <2>3 DEF AggregatorType
  <2> QED
    BY <1>0, <1>1, <1>8, <2>2, <2>4, SMTT(30) DEF SourceResync, AggregatorType
<1>9. ASSUME NEW w \in Watchers, SourceReconnect(w) PROVE TypeOK'
  <2>1. content[w] \in Contents /\ w \in Forwarders
    BY <1>0 DEF AggregatorType, Forwarders
  <2>2. /\ fwd' \in [Forwarders -> Events]
        /\ \A u \in Forwarders : fwd'[u] = fwd[u] \/ fwd'[u] = snapshot(content[w])
    BY <1>0, <1>3, <1>9, <2>1 DEF SourceReconnect, AggregatorType
  <2>3. snapshot(content[w]).req.kvs \in Contents
    BY <2>1 DEF snapshot
  <2>4. \A u \in Forwarders :
          /\ fwd'[u].kind \in {"change", "resync"} => fwd'[u].req \in Requests
          /\ fwd'[u].kind = "resync" => fwd'[u].req.kvs \in Contents
    BY <1>0, <1>3, <2>1, <2>2, <2>3 DEF AggregatorType
  <2>5. inputs' \in [changes : 0..MaxInputs, resyncs : 0..MaxResyncs]
    <3>1. inputs.changes \in 0..MaxInputs /\ inputs.resyncs \in 0..MaxResyncs
      BY <1>0 DEF AggregatorType
    <3>2. inputs.resyncs + 1 \in 0..MaxResyncs
      BY <1>9, <3>1 DEF SourceReconnect
    <3> QED
      BY <1>0, <1>9, <3>1, <3>2 DEF AggregatorType, SourceReconnect
  <2> QED
    BY <1>0, <1>1, <1>9, <2>2, <2>4, <2>5 DEF SourceReconnect, AggregatorType
<1>10. ASSUME NEW w \in Watchers, ForwardResync(w) PROVE TypeOK'
  <2>1. w \in Forwarders /\ fwd[w].req.kvs \in Contents
    BY <1>0, <1>10 DEF AggregatorType, Forwarders, ForwardResync
  <2>2. [from |-> w, kvs |-> fwd[w].req.kvs] \in Snapshots
    BY <2>1 DEF Snapshots
  <2>3. aggrResync' \in Seq(Snapshots)
    BY <1>0, <1>10, <2>2 DEF AggregatorType, ForwardResync
  <2>4. /\ fwd' \in [Forwarders -> Events]
        /\ \A u \in Forwarders : fwd'[u] = fwd[u] \/ fwd'[u] = NoEvent
    BY <1>0, <1>10, <2>1 DEF ForwardResync, AggregatorType
  <2>5. \A u \in Forwarders :
          /\ fwd'[u].kind \in {"change", "resync"} => fwd'[u].req \in Requests
          /\ fwd'[u].kind = "resync" => fwd'[u].req.kvs \in Contents
    BY <1>0, <2>4 DEF AggregatorType, NoEvent
  <2> QED
    BY <1>0, <1>1, <1>10, <2>3, <2>4, <2>5 DEF ForwardResync, AggregatorType
<1>11. ASSUME NEW by \in {"agent", Local}, DoResync(by) PROVE TypeOK'
  <2>1. inputs \in [changes : 0..MaxInputs, resyncs : 0..MaxResyncs]
    BY <1>0 DEF AggregatorType
  <2>2. inputs.resyncs < MaxResyncs /\ inputs' = [inputs EXCEPT !.resyncs = inputs.resyncs + 1]
    BY <1>11 DEF DoResync
  <2>3. inputs.resyncs + 1 \in 0..MaxResyncs
    BY <2>1, <2>2, AggregatorAssumption
  <2>4. inputs' \in [changes : 0..MaxInputs, resyncs : 0..MaxResyncs]
    BY <2>1, <2>2, <2>3
  <2> QED
    BY <1>0, <1>1, <1>11, <2>4 DEF DoResync, AggregatorType
<1>12. CASE DoResyncReturns
  <2>1. /\ fwd' \in [Forwarders -> Events]
        /\ \A u \in Forwarders : fwd'[u] = fwd[u] \/ fwd'[u] = NoEvent
    BY <1>0, <1>12 DEF DoResyncReturns, AggregatorType
  <2>2. \A u \in Forwarders :
          /\ fwd'[u].kind \in {"change", "resync"} => fwd'[u].req \in Requests
          /\ fwd'[u].kind = "resync" => fwd'[u].req.kvs \in Contents
    BY <1>0, <2>1 DEF AggregatorType, NoEvent
  <2> QED
    BY <1>0, <1>1, <1>12, <2>1, <2>2 DEF DoResyncReturns, AggregatorType
<1>13. CASE CacheResync
  <2> DEFINE cached == Append(aggr.cached, Head(aggrResync))
  <2>1. Head(aggrResync) \in Snapshots /\ Tail(aggrResync) \in Seq(Snapshots)
    BY <1>0, <1>13 DEF CacheResync, AggregatorType
  <2>2. cached \in Seq(Snapshots)
    BY <1>0, <2>1 DEF AggregatorType
  <2>3. merged(cached) \in Maps
    BY <1>0, <2>2, MergedType, MapsFacts DEF AggregatorType
  <2>4. aggr' \in [pc : {"range", "send", "wait"}, cached : Seq(Snapshots), kvs : Maps]
    <3> HIDE DEF cached
    <3>1. aggr' = IF allReceived(cached)
                  THEN [pc |-> "send", cached |-> cached, kvs |-> merged(cached)]
                  ELSE [aggr EXCEPT !.cached = cached]
      BY <1>13 DEF CacheResync, cached
    <3> QED
      BY <1>0, <2>2, <2>3, <3>1 DEF AggregatorType
  <2>5. overtaken' \in BOOLEAN /\ asked' \in [Watchers -> {"no", "asked", "sent"}]
    BY <1>0, <1>13 DEF CacheResync, AggregatorType
  <2> QED
    BY <1>0, <1>1, <1>13, <2>1, <2>4, <2>5 DEF CacheResync, AggregatorType
<1>14. CASE HandleResync
  <2>0. "orch" \in Callers
    OBVIOUS
  <2>1. snapshot(aggr.kvs).req \in Requests
    BY <1>0 DEF AggregatorType, snapshot, Requests
  <2>2. DispatcherTypeOK'
    BY <1>5, <1>14, <2>0, <2>1, DecodedType DEF HandleResync
  <2> QED
    BY <1>0, <1>14, <2>2 DEF HandleResync, AggregatorType
<1>15. CASE EventDone
  <2>1. DispatcherTypeOK'
    BY <1>0, <1>15, PushTypeStep DEF EventDone
  <2>2. aggr' \in [pc : {"range", "send", "wait"}, cached : Seq(Snapshots), kvs : Maps]
    <3>1. CASE aggr' = aggr
      BY <1>0, <3>1 DEF AggregatorType
    <3>2. CASE aggr' = [pc |-> "range", cached |-> <<>>, kvs |-> <<>>]
      BY <3>2, MapsFacts
    <3> QED
      BY <1>15, <3>1, <3>2 DEF EventDone
  <2> QED
    BY <1>0, <1>15, <2>1, <2>2 DEF EventDone, AggregatorType
<1>16. ASSUME NEW w \in Forwarders, HandleChange(w) PROVE TypeOK'
  <2>0. "orch" \in Callers /\ fwd[w].req \in Requests
    BY <1>0, <1>16 DEF HandleChange, AggregatorType
  <2>1. DispatcherTypeOK'
    <3>1. CASE UNCHANGED call
      BY <1>1, <1>16, <3>1 DEF HandleChange, dispatcherVars
    <3>2. CASE pushing("orch", decoded(fwd[w].req))
      BY <1>5, <1>16, <2>0, <3>2, DecodedType DEF HandleChange
    <3> QED
      BY <1>16, <3>1, <3>2 DEF HandleChange
  <2>2. /\ fwd' \in [Forwarders -> Events]
        /\ \A u \in Forwarders : fwd'[u] = fwd[u] \/ fwd'[u] = NoEvent
    BY <1>0, <1>16 DEF HandleChange, AggregatorType
  <2>3. \A u \in Forwarders :
          /\ fwd'[u].kind \in {"change", "resync"} => fwd'[u].req \in Requests
          /\ fwd'[u].kind = "resync" => fwd'[u].req.kvs \in Contents
    BY <1>0, <2>2 DEF AggregatorType, NoEvent
  <2> QED
    BY <1>0, <1>16, <2>1, <2>2, <2>3 DEF HandleChange, AggregatorType
<1>17. ASSUME NEW k \in LocalKeys, NEW v \in Values \cup {Nil}, LocalChange(k, v) PROVE TypeOK'
  <2>1. k \in Keys /\ "localclient" \in Sources /\ Local \in Forwarders
    BY DEF Forwarders
  <2>2. localKVs' \in Contents /\ localWish' \in Contents
    BY <1>0, <1>17, <2>1 DEF LocalChange, AggregatorType, Contents
  <2>3. /\ fwd' \in [Forwarders -> Events] /\ fwd'[Local].req \in Requests /\ fwd'[Local].kind = "change"
        /\ \A u \in Forwarders \ {Local} : fwd'[u] = fwd[u]
    <3> DEFINE e == change("localclient", [j \in {k} |-> v])
    <3>1. e \in Events /\ e.req \in Requests /\ e.kind = "change"
      BY <1>4, <2>1
    <3>2. fwd' = [fwd EXCEPT ![Local] = e]
      BY <1>17 DEF LocalChange
    <3> HIDE DEF e
    <3> QED
      BY <1>0, <2>1, <3>1, <3>2 DEF AggregatorType
  <2>4. inputs' \in [changes : 0..MaxInputs, resyncs : 0..MaxResyncs] /\ overtaken' \in BOOLEAN
    BY <1>0, <1>17, <1>6 DEF LocalChange, AggregatorType
  <2> QED
    BY <1>0, <1>1, <1>17, <2>2, <2>3, <2>4 DEF LocalChange, AggregatorType
<1>18. ASSUME NEW kvs \in LocalMaps, LocalResync(kvs) PROVE TypeOK'
  <2>1. kvs \in Contents /\ Local \in Forwarders
    BY DEF Forwarders, LocalMaps, Contents
  <2>2. [kind |-> "doResync", req |-> NoRequest] \in Events
    BY DEF Events
  <2>3. /\ fwd' \in [Forwarders -> Events] /\ fwd'[Local].kind = "doResync"
        /\ \A u \in Forwarders \ {Local} : fwd'[u] = fwd[u]
    BY <1>0, <1>18, <2>1, <2>2 DEF LocalResync, AggregatorType
  <2>4. inputs' \in [changes : 0..MaxInputs, resyncs : 0..MaxResyncs] /\ overtaken' \in BOOLEAN
    BY <1>0, <1>18, <1>6 DEF LocalResync, AggregatorType
  <2> QED
    BY <1>0, <1>1, <1>18, <2>1, <2>3, <2>4 DEF LocalResync, AggregatorType
<1>19. ASSUME NEW x \in Impatient, NEW req \in GrpcRequests, GrpcCall(x, req) PROVE TypeOK'
  <2>1. DispatcherTypeOK'
    BY <1>5, <1>19 DEF GrpcCall
  <2>2. inputs' \in [changes : 0..MaxInputs, resyncs : 0..MaxResyncs]
    BY <1>19, <1>6 DEF GrpcCall
  <2> QED
    BY <1>0, <1>19, <2>1, <2>2 DEF GrpcCall, AggregatorType
<1>20. CASE Process /\ UNCHANGED aggregatorVars
  <2>1. "orch" \in Callers
    OBVIOUS
  <2> QED
    BY <1>0, <1>2, <1>20, <2>1, PushTypeStep
<1>21. ASSUME NEW x \in Callers, pushSteps(x) \/ PushReturn(x), UNCHANGED aggregatorVars PROVE TypeOK'
  BY <1>0, <1>2, <1>21, PushTypeStep
<1>22. CASE UNCHANGED vars
  BY <1>0, <1>1, <1>2, <1>22 DEF vars
<1> QED
  BY <1>7, <1>8, <1>9, <1>10, <1>11, <1>12, <1>13, <1>14, <1>15, <1>16, <1>17, <1>18, <1>19, <1>20,
     <1>21, <1>22 DEF Next

\* The state of the way of configuration keeps its types, whichever sources,
\* clients and gRPC calls compete (TypeOK).
THEOREM NorthboundTypes == Spec => []TypeOK
  BY TypeInit, TypeStep, PTL DEF Spec

-----------------------------------------------------------------------------
(* The store and the scheduler *)

inside == {"commit", "wait", "done"}
pendingTxn(x) == [by |-> x, resync |-> call[x].req.resync, values |-> call[x].values]

\* One caller at a time is between the lock and the unlock.
MutexInv == \A x \in Callers : call[x].pc \in inside <=> mu = x

\* A change is committed as it was requested.
ValuesInv ==
    \A x \in Callers : call[x].pc = "commit" /\ ~call[x].req.resync =>
        call[x].values = call[x].req.kvs

\* Once the transaction that is about to be committed and the ones in the queue
\* are processed, the scheduler has what the store lists.
StoreInv ==
    \A k \in Keys \ dirty :
        /\ (\A x \in Callers : call[x].pc # "commit") => Ends(queue, sched, k, ListAll(db, k))
        /\ \A x \in Callers : call[x].pc = "commit" =>
              IF touches(pendingTxn(x), k) THEN leaves(pendingTxn(x), k) = ListAll(db, k)
              ELSE Ends(queue, sched, k, ListAll(db, k))

DispatchInv == MutexInv /\ ValuesInv /\ StoreInv

\* A request that changes the store leaves a transaction that does the same to
\* the scheduler.
LEMMA PrepareStore ==
    ASSUME DispatcherTypeOK, DispatchInv, NEW x \in Callers, Prepare(x)
    PROVE  DispatchInv'
<1> DEFINE req == call[x].req
<1>1. /\ req \in Requests /\ req.src \in Sources /\ req.kvs \in Maps /\ req.resync \in BOOLEAN
      /\ db \in [Sources -> Contents] /\ db' = updatedStore(req) /\ db' \in [Sources -> Contents]
  <2>1. req \in Requests
    BY DEF DispatcherTypeOK, Prepare
  <2> QED
    BY <2>1, PreparedType DEF DispatcherTypeOK, Prepare, Requests
<1>2. \A y \in Callers : call[y].pc \notin inside
  BY ConstantFacts DEF DispatchInv, MutexInv, Prepare
<1>3. /\ call'[x].pc = "commit" /\ call'[x].req = req /\ call'[x].values = txnValues(req, db')
      /\ \A y \in Callers \ {x} : call'[y] = call[y]
  BY DEF DispatcherTypeOK, Prepare
<1>4. MutexInv'
  BY <1>2, <1>3 DEF MutexInv, Prepare, inside
<1>5. ValuesInv'
  BY <1>2, <1>3 DEF ValuesInv, txnValues, inside
<1>6. StoreInv'
  <2> SUFFICES ASSUME NEW k \in Keys \ dirty'
               PROVE  IF touches(pendingTxn(x)', k) THEN leaves(pendingTxn(x)', k) = ListAll(db', k)
                      ELSE Ends(queue', sched', k, ListAll(db', k))
    BY <1>2, <1>3 DEF StoreInv, inside
  <2>0. /\ pendingTxn(x)'.resync = req.resync /\ pendingTxn(x)'.values = txnValues(req, db')
        /\ queue' = queue /\ sched' = sched /\ dirty' = prepared(req)
    BY <1>3 DEF pendingTxn, Prepare
  <2>1. CASE req.resync
    <3>1. /\ DOMAIN txnValues(req, db') = {j \in Keys : ListAll(db', j) # Nil}
          /\ \A j \in DOMAIN txnValues(req, db') : txnValues(req, db')[j] = ListAll(db', j)
      BY <2>1 DEF txnValues
    <3> QED
      BY <2>0, <2>1, <3>1 DEF touches, leaves
  <2>2. CASE ~req.resync /\ k \in DOMAIN req.kvs
    <3>1. txnValues(req, db') = req.kvs
      BY <2>2 DEF txnValues
    <3>2. \A u \in Sources \ {req.src} : db'[u][k] = Nil
      <4>1. \A u \in Sources \ {req.src} : db[u][k] = Nil
        BY <2>0, <2>2 DEF prepared
      <4> QED
        BY <1>1, <4>1 DEF updatedStore
    <3>3. db'[req.src][k] = req.kvs[k]
      BY <1>1, <2>2 DEF updatedStore
    <3>4. ListAll(db', k) = req.kvs[k]
      BY <1>1, <3>2, <3>3, ListAllOnly
    <3> QED
      BY <2>0, <2>2, <3>1, <3>4 DEF touches, leaves
  <2>3. CASE ~req.resync /\ k \notin DOMAIN req.kvs
    <3>1. txnValues(req, db') = req.kvs
      BY <2>3 DEF txnValues
    <3>2. \A u \in Sources : db'[u][k] = db[u][k]
      BY <1>1, <2>3 DEF updatedStore
    <3>3. ListAll(db', k) = ListAll(db, k)
      BY <3>2, ListAllLocal
    <3>4. k \in Keys \ dirty
      BY <2>0, <2>3 DEF prepared
    <3>5. Ends(queue, sched, k, ListAll(db, k))
      BY <1>2, <3>4 DEF DispatchInv, StoreInv, inside
    <3> QED
      BY <2>0, <2>3, <3>1, <3>3, <3>5 DEF touches
  <2> QED
    BY <2>1, <2>2, <2>3
<1> QED
  BY <1>4, <1>5, <1>6 DEF DispatchInv

\* The steps of the dispatcher and of the scheduler keep store and scheduler
\* together.
LEMMA DispatchStep ==
    ASSUME DispatcherTypeOK, DispatchInv, NEW x \in Callers,
           pushSteps(x) \/ PushReturn(x) \/ Process
    PROVE  DispatchInv'
<1>0. call \in [Callers -> [pc : {"idle", "lock", "commit", "wait", "done"},
                           req : Requests \cup {NoRequest}, values : Maps]]
  BY DEF DispatcherTypeOK
<1>1. CASE Prepare(x)
  BY <1>1, PrepareStore
<1>2. CASE Commit(x)
  <2>1. /\ call[x].pc = "commit" /\ call'[x].pc = "wait" /\ queue' = Append(queue, pendingTxn(x))
        /\ \A y \in Callers \ {x} : call'[y] = call[y]
        /\ UNCHANGED <<db, mu, sched, dirty>>
    BY <1>0, <1>2 DEF Commit, pendingTxn
  <2>2. \A y \in Callers : call'[y].pc # "commit"
    BY <2>1 DEF DispatchInv, MutexInv, inside
  <2>3. pendingTxn(x) \in Transactions /\ queue \in Seq(Transactions)
    BY <2>1 DEF DispatcherTypeOK, pendingTxn, Transactions, Requests
  <2>4. \A k \in Keys \ dirty : Ends(queue', sched, k, ListAll(db, k))
    <3> TAKE k \in Keys \ dirty
    <3>1. IF touches(pendingTxn(x), k) THEN leaves(pendingTxn(x), k) = ListAll(db, k)
          ELSE Ends(queue, sched, k, ListAll(db, k))
      BY <2>1 DEF DispatchInv, StoreInv
    <3> QED
      BY <2>1, <2>3, <3>1, EndsAppend
  <2>5. StoreInv'
    BY <2>1, <2>2, <2>4 DEF StoreInv
  <2> QED
    BY <2>1, <2>2, <2>5 DEF DispatchInv, MutexInv, ValuesInv, inside
<1>3. CASE CommitRefused(x)
  <2>1. /\ call[x].pc = "commit" /\ call'[x].pc = "done"
        /\ \A y \in Callers \ {x} : call'[y] = call[y]
        /\ UNCHANGED <<db, mu, queue, sched>>
        /\ dirty' = IF call[x].req.resync THEN Keys ELSE dirty \cup DOMAIN call[x].req.kvs
    BY <1>0, <1>3 DEF CommitRefused
  <2>2. \A y \in Callers : call'[y].pc # "commit"
    BY <2>1 DEF DispatchInv, MutexInv, inside
  <2>3. \A k \in Keys \ dirty' : Ends(queue, sched, k, ListAll(db, k))
    <3> TAKE k \in Keys \ dirty'
    <3>1. ~call[x].req.resync /\ k \in Keys \ dirty /\ k \notin DOMAIN call[x].req.kvs
      BY <2>1
    <3>2. ~touches(pendingTxn(x), k)
      BY <2>1, <3>1 DEF touches, pendingTxn, DispatchInv, ValuesInv
    <3> QED
      BY <2>1, <3>1, <3>2 DEF DispatchInv, StoreInv
  <2>4. StoreInv'
    BY <2>1, <2>2, <2>3 DEF StoreInv
  <2> QED
    BY <2>1, <2>2, <2>4 DEF DispatchInv, MutexInv, ValuesInv, inside
<1>4. CASE Committed(x) \/ PushReturn(x)
  <2>1. /\ call[x].pc \in {"wait", "done"} /\ call'[x].pc \in {"done", "idle"}
        /\ \A y \in Callers \ {x} : call'[y] = call[y]
        /\ UNCHANGED <<db, queue, sched, dirty>>
    BY <1>0, <1>4 DEF Committed, PushReturn, IdleCall
  <2>2. MutexInv'
    BY <1>0, <1>4, <2>1, ConstantFacts DEF Committed, PushReturn, IdleCall, DispatchInv, MutexInv, inside
  <2>3. /\ \A y \in Callers : call'[y].pc = "commit" => call'[y] = call[y]
        /\ (\A y \in Callers : call'[y].pc # "commit") => \A y \in Callers : call[y].pc # "commit"
    BY <2>1
  <2>4. StoreInv'
    BY <2>1, <2>3 DEF DispatchInv, StoreInv, pendingTxn
  <2> QED
    BY <2>2, <2>3, <2>4 DEF DispatchInv, ValuesInv
<1>5. CASE Process
  <2>1. /\ queue \in Seq(Transactions) /\ queue # <<>> /\ queue' = Tail(queue)
        /\ sched' = processed(sched, Head(queue)) /\ UNCHANGED <<db, mu, call, dirty>>
    BY <1>5 DEF DispatcherTypeOK, Process, processed
  <2>2. \A k \in Keys : \A v : Ends(queue, sched, k, v) => Ends(queue', sched', k, v)
    BY <2>1, EndsProcess
  <2>3. StoreInv'
    BY <2>1, <2>2 DEF DispatchInv, StoreInv, pendingTxn
  <2> QED
    BY <2>1, <2>3 DEF DispatchInv, MutexInv, ValuesInv
<1> QED
  BY <1>1, <1>2, <1>3, <1>4, <1>5 DEF pushSteps

\* So does everything that leaves the dispatcher alone or brings it a request.
LEMMA DispatchFrame ==
    ASSUME DispatcherTypeOK, DispatchInv, UNCHANGED <<db, mu, queue, sched, dirty>>,
           \/ UNCHANGED call
           \/ \E x \in Callers : call[x].pc = "idle" /\ \E req \in Requests : pushing(x, req)
    PROVE  DispatchInv'
<1>1. CASE UNCHANGED call
  BY <1>1 DEF DispatchInv, MutexInv, ValuesInv, StoreInv, pendingTxn
<1>2. ASSUME NEW x \in Callers, call[x].pc = "idle", NEW req \in Requests, pushing(x, req)
      PROVE  DispatchInv'
  <2>1. call'[x].pc = "lock" /\ \A y \in Callers \ {x} : call'[y] = call[y]
    BY <1>2 DEF DispatcherTypeOK, pushing, IdleCall
  <2>2. /\ \A y \in Callers : call'[y].pc \in inside => call'[y] = call[y]
        /\ \A y \in Callers : call[y].pc \in inside => call'[y] = call[y]
    BY <1>2, <2>1 DEF inside
  <2>3. StoreInv'
    BY <2>2 DEF DispatchInv, StoreInv, pendingTxn, inside
  <2> QED
    BY <2>2, <2>3 DEF DispatchInv, MutexInv, ValuesInv, inside
<1> QED
  BY <1>1, <1>2

\* The dispatcher starts with an empty store and an empty scheduler.
LEMMA DispatchInit == Init => DispatchInv
<1> SUFFICES ASSUME Init PROVE DispatchInv
  OBVIOUS
<1>1. /\ \A x \in Callers : call[x].pc = "idle"
      /\ mu = None /\ queue = <<>> /\ \A k \in Keys : sched[k] = Nil
      /\ \A s \in Sources, k \in Keys : db[s][k] = Nil
  BY DEF Init, InitDispatcher, IdleCall
<1>2. \A k \in Keys : ListAll(db, k) = Nil
  BY <1>1 DEF ListAll, Sources
<1>3. \A k \in Keys : Ends(queue, sched, k, ListAll(db, k))
  BY <1>1, <1>2 DEF Ends
<1> QED
  BY <1>1, <1>3, ConstantFacts DEF DispatchInv, MutexInv, ValuesInv, StoreInv, inside

\* Every step of the system is one of these.
LEMMA DispatchNext == TypeOK /\ DispatchInv /\ [Next]_vars => DispatchInv'
<1> SUFFICES ASSUME TypeOK, DispatchInv, [Next]_vars PROVE DispatchInv'
  OBVIOUS
<1> USE ConstantFacts
<1>0. DispatcherTypeOK /\ AggregatorType
  BY DEF TypeOK, AggregatorType
<1>1. ASSUME UNCHANGED dispatcherVars PROVE DispatchInv'
  BY <1>0, <1>1, DispatchFrame DEF dispatcherVars
<1>2. ASSUME NEW x \in Callers, call[x].pc = "idle", NEW req \in Requests, pushing(x, req),
             UNCHANGED <<db, mu, queue, sched, dirty>>
      PROVE  DispatchInv'
  BY <1>0, <1>2, DispatchFrame
<1>3. ASSUME NEW w \in Watchers,
             \/ \E c \in Changes[w] : SourceChange(w, c[1], c[2])
             \/ SourceResync(w) \/ SourceReconnect(w) \/ ForwardResync(w)
      PROVE  DispatchInv'
  BY <1>1, <1>3 DEF SourceChange, SourceResync, SourceReconnect, ForwardResync
<1>4. CASE DoResync("agent") \/ DoResync(Local) \/ DoResyncReturns \/ CacheResync
  BY <1>1, <1>4 DEF DoResync, DoResyncReturns, CacheResync
<1>5. CASE HandleResync
  <2>1. snapshot(aggr.kvs).req \in Requests
    BY <1>0 DEF AggregatorType, snapshot, Requests
  <2> QED
    BY <1>2, <1>5, <2>1, DecodedType DEF HandleResync, orchIdle
<1>6. CASE EventDone
  BY <1>0, <1>6, DispatchStep DEF EventDone
<1>7. ASSUME NEW w \in Forwarders, HandleChange(w) PROVE DispatchInv'
  <2>1. fwd[w].req \in Requests
    BY <1>0, <1>7 DEF AggregatorType, HandleChange
  <2>2. CASE UNCHANGED call
    BY <1>1, <1>7, <2>2 DEF HandleChange, dispatcherVars
  <2>3. CASE pushing("orch", decoded(fwd[w].req))
    BY <1>2, <1>7, <2>1, <2>3, DecodedType DEF HandleChange, orchIdle
  <2> QED
    BY <1>7, <2>2, <2>3 DEF HandleChange
<1>8. CASE (\E k \in LocalKeys, v \in Values \cup {Nil} : LocalChange(k, v))
           \/ \E kvs \in LocalMaps : LocalResync(kvs)
  BY <1>1, <1>8 DEF LocalChange, LocalResync
<1>9. ASSUME NEW x \in Impatient, NEW req \in GrpcRequests, GrpcCall(x, req) PROVE DispatchInv'
  BY <1>2, <1>9 DEF GrpcCall
<1>10. CASE Process
  BY <1>0, <1>10, DispatchStep
<1>11. ASSUME NEW x \in Callers, pushSteps(x) \/ PushReturn(x) PROVE DispatchInv'
  BY <1>0, <1>11, DispatchStep
<1>12. CASE UNCHANGED vars
  BY <1>1, <1>12 DEF vars
<1> QED
  BY <1>3, <1>4, <1>5, <1>6, <1>7, <1>8, <1>9, <1>10, <1>11, <1>12 DEF Next

\* Whichever callers compete for PushData and whoever gives up, the scheduler
\* has what the store lists as soon as the committed transactions are processed
\* (StoreApplied), for any number of sources, keys, callers and transactions.
THEOREM StoreReachesScheduler == Spec => []StoreApplied
<1>1. TypeOK /\ DispatchInv => StoreApplied
  <2> SUFFICES ASSUME TypeOK, DispatchInv, mu = None, queue = <<>>, NEW k \in Keys \ dirty
               PROVE  sched[k] = ListAll(db, k)
    BY DEF StoreApplied
  <2>1. \A x \in Callers : call[x].pc # "commit"
    BY ConstantFacts DEF DispatchInv, MutexInv, inside
  <2>2. Ends(queue, sched, k, ListAll(db, k))
    BY <2>1 DEF DispatchInv, StoreInv
  <2> QED
    BY <2>2 DEF Ends
<1> QED
  BY <1>1, TypeInit, TypeStep, DispatchInit, DispatchNext, PTL DEF Spec

-----------------------------------------------------------------------------
(* The sources and the store *)

\* Only the local client has its keys, and only the one source a sole key; what
\* a goroutine holds of a change is what the source has; what comes from gRPC
\* or from the local client is no data of a key-value store.
SourceInv ==
    /\ \A k \in Keys \ LocalKeys : localKVs[k] = Nil
    /\ \A w \in Watchers, k \in Keys : sole(w, k) => \A u \in Watchers \ {w} : content[u][k] = Nil
    /\ \A w \in Watchers : fwd[w].kind = "change" =>
          /\ fwd[w].req.src = "datasync" /\ ~fwd[w].req.resync
          /\ \A k \in DOMAIN fwd[w].req.kvs : /\ fwd[w].req.kvs[k] = content[w][k]
                                              /\ \E c \in Changes[w] : c[1] = k
    /\ fwd[Local].kind = "change" => fwd[Local].req.src # "datasync" /\ ~fwd[Local].req.resync

\* The aggregator waits exactly while the orchestrator applies its resync.
CallInv ==
    /\ \A x \in Callers \ {"orch"} : call[x].pc # "idle" => call[x].req.src # "datasync"
    /\ aggr.pc = "wait" <=> call["orch"].pc # "idle" /\ call["orch"].req.resync
    /\ call["orch"].pc # "idle" /\ call["orch"].req.resync => call["orch"].req.src = "datasync"

\* A snapshot that was not overtaken is what the source has.
SnapshotInv ==
    ~overtaken =>
        /\ \A w \in Watchers : fwd[w].kind = "resync" => fwd[w].req.kvs = content[w]
        /\ \A i \in DOMAIN aggrResync : aggrResync[i].kvs = content[aggrResync[i].from]
        /\ aggr.pc # "wait" =>
              \A i \in DOMAIN aggr.cached : aggr.cached[i].kvs = content[aggr.cached[i].from]

\* A resync that is ready to be handed over has a snapshot of every source and,
\* for the keys of one source, the value it has.
MergedInv ==
    ~overtaken /\ aggr.pc = "send" =>
        /\ \A w \in Watchers : \E i \in DOMAIN aggr.cached : aggr.cached[i].from = w
        /\ aggr.kvs \in Contents
        /\ \A w \in Watchers, k \in Keys \ LocalKeys : sole(w, k) => aggr.kvs[k] = content[w][k]

\* the source has changed the key and the orchestrator does not know yet
announced(w, k) == fwd[w].kind = "change" /\ k \in DOMAIN fwd[w].req.kvs

\* the orchestrator is about to write the key
writing(k) ==
    LET c == call["orch"]
    IN  c.pc = "lock" /\ c.req.src = "datasync" /\ (c.req.resync \/ k \in DOMAIN c.req.kvs)
written(k) == IF k \in DOMAIN call["orch"].req.kvs THEN call["orch"].req.kvs[k] ELSE Nil

\* the store has been brought up to date at least once
filled == synced \/ (call["orch"].pc \in inside /\ call["orch"].req.resync)

\* The store has, or is about to get, what the source has, unless the source
\* has announced a change.
ConvergeInv ==
    ~overtaken => \A w \in Watchers, k \in Keys \ LocalKeys :
        sole(w, k) /\ content[w][k] \notin Undecodable /\ ~announced(w, k) =>
            IF writing(k) THEN written(k) = content[w][k]
            ELSE filled => db["datasync"][k] = content[w][k]

NorthInv == SourceInv /\ CallInv /\ SnapshotInv /\ MergedInv /\ ConvergeInv

\* Initially no source has reported.
LEMMA NorthInit == Init => NorthInv
<1> SUFFICES ASSUME Init PROVE NorthInv
  OBVIOUS
<1>1. /\ \A w \in Forwarders : fwd[w].kind = "none"
      /\ \A x \in Callers : call[x].pc = "idle" /\ call[x].req.src = None /\ ~call[x].req.resync
      /\ aggr.pc = "range" /\ aggr.cached = <<>> /\ aggrResync = <<>> /\ ~synced
      /\ content = Content /\ \A k \in Keys : localKVs[k] = Nil
  BY DEF Init, InitDispatcher, NoEvent, IdleCall, NoRequest, NoKVs
<1>2. SourceInv
  BY <1>1, ConstantFacts DEF SourceInv, sole
<1>3. CallInv
  BY <1>1, ConstantFacts DEF CallInv
<1>4. SnapshotInv
  BY <1>1, ConstantFacts DEF SnapshotInv
<1>5. MergedInv
  BY <1>1 DEF MergedInv
<1>6. ConvergeInv
  BY <1>1, ConstantFacts DEF ConvergeInv, writing, filled, inside
<1> QED
  BY <1>2, <1>3, <1>4, <1>5, <1>6 DEF NorthInv

\* Only the step of a source or of the local client changes what they have or
\* hold; handing an event over leaves its goroutine without one.
LEMMA SourceNext == TypeOK /\ NorthInv /\ [Next]_vars => SourceInv'
<1> SUFFICES ASSUME TypeOK, NorthInv, [Next]_vars PROVE SourceInv'
  OBVIOUS
<1> USE ConstantFacts
<1>0. AggregatorType /\ SourceInv
  BY DEF TypeOK, AggregatorType, NorthInv
<1>1. ASSUME UNCHANGED <<content, localKVs>>,
             \A w \in Forwarders : fwd'[w] = fwd[w] \/ fwd'[w].kind # "change"
      PROVE  SourceInv'
  BY <1>0, <1>1 DEF SourceInv
<1>2. ASSUME UNCHANGED <<content, localKVs, fwd>> PROVE SourceInv'
  BY <1>1, <1>2
<1>3. ASSUME NEW w \in Watchers, NEW c \in Changes[w], SourceChange(w, c[1], c[2]) PROVE SourceInv'
  <2>1. /\ fwd'[w].kind = "change" /\ fwd'[w].req.src = "datasync" /\ fwd'[w].req.resync = FALSE
        /\ DOMAIN fwd'[w].req.kvs = {c[1]} /\ fwd'[w].req.kvs[c[1]] = c[2]
        /\ \A u \in Forwarders \ {w} : fwd'[u] = fwd[u]
    BY <1>0, <1>3 DEF AggregatorType, SourceChange, change
  <2>2. /\ content'[w][c[1]] = c[2] /\ \A k \in Keys \ {c[1]} : content'[w][k] = content[w][k]
        /\ \A u \in Watchers \ {w} : content'[u] = content[u]
        /\ UNCHANGED localKVs /\ c[1] \in Keys
    BY <1>0, <1>3 DEF AggregatorType, SourceChange, Contents
  <2>3. ASSUME NEW u \in Watchers, NEW k \in Keys, sole(u, k), NEW y \in Watchers \ {u}
        PROVE  content'[y][k] = Nil
    <3>1. content[y][k] = Nil /\ (y = w => c[1] # k)
      BY <1>0, <2>3 DEF SourceInv, sole
    <3> QED
      BY <2>2, <3>1
  <2>4. \A u \in Watchers : fwd'[u].kind = "change" =>
          /\ fwd'[u].req.src = "datasync" /\ ~fwd'[u].req.resync
          /\ \A k \in DOMAIN fwd'[u].req.kvs : /\ fwd'[u].req.kvs[k] = content'[u][k]
                                               /\ \E d \in Changes[u] : d[1] = k
    <3> TAKE u \in Watchers
    <3>1. CASE u = w
      BY <2>1, <2>2, <3>1
    <3>2. CASE u # w
      BY <1>0, <2>1, <2>2, <3>2 DEF SourceInv
    <3> QED
      BY <3>1, <3>2
  <2>5. fwd'[Local] = fwd[Local]
    BY <2>1
  <2> QED
    BY <1>0, <2>2, <2>3, <2>4, <2>5 DEF SourceInv, sole
<1>4. ASSUME NEW w \in Watchers, SourceResync(w) \/ SourceReconnect(w) \/ ForwardResync(w)
      PROVE  SourceInv'
  <2>1. \A u \in Forwarders : fwd'[u] = fwd[u] \/ fwd'[u] = NoEvent \/ fwd'[u] = snapshot(content[w])
    <3>1. CASE fwd' = fwd
      BY <3>1
    <3>2. CASE fwd' = [fwd EXCEPT ![w] = snapshot(content[w])]
      BY <1>0, <3>2 DEF AggregatorType
    <3>3. CASE fwd' = [fwd EXCEPT ![w] = NoEvent]
      BY <1>0, <3>3 DEF AggregatorType
    <3> QED
      BY <1>4, <3>1, <3>2, <3>3 DEF SourceResync, SourceReconnect, ForwardResync
  <2>2. UNCHANGED <<content, localKVs>>
    BY <1>4 DEF SourceResync, SourceReconnect, ForwardResync
  <2> QED
    BY <1>1, <2>1, <2>2 DEF NoEvent, snapshot
<1>5. CASE DoResync("agent") \/ DoResync(Local) \/ CacheResync \/ HandleResync \/ EventDone
  BY <1>2, <1>5 DEF DoResync, CacheResync, HandleResync, EventDone
<1>6. CASE DoResyncReturns \/ \E w \in Forwarders : HandleChange(w)
  <2>1. /\ \A u \in Forwarders : fwd'[u] = fwd[u] \/ fwd'[u] = NoEvent
        /\ UNCHANGED <<content, localKVs>>
    BY <1>0, <1>6 DEF AggregatorType, DoResyncReturns, HandleChange
  <2> QED
    BY <1>1, <2>1 DEF NoEvent
<1>7. ASSUME NEW k \in LocalKeys, NEW v \in Values \cup {Nil}, LocalChange(k, v) PROVE SourceInv'
  <2>1. /\ fwd'[Local].req.src = "localclient" /\ fwd'[Local].req.resync = FALSE
        /\ \A u \in Watchers : fwd'[u] = fwd[u]
    BY <1>0, <1>7 DEF AggregatorType, LocalChange, change
  <2>2. \A j \in Keys \ LocalKeys : localKVs'[j] = localKVs[j]
    BY <1>0, <1>7 DEF AggregatorType, LocalChange, Contents
  <2>3. UNCHANGED content
    BY <1>7 DEF LocalChange
  <2> QED
    BY <1>0, <2>1, <2>2, <2>3 DEF SourceInv
<1>8. ASSUME NEW kvs \in LocalMaps, LocalResync(kvs) PROVE SourceInv'
  <2>1. fwd'[Local].kind = "doResync" /\ \A u \in Watchers : fwd'[u] = fwd[u]
    BY <1>0, <1>8 DEF AggregatorType, LocalResync
  <2>2. \A j \in Keys \ LocalKeys : localKVs'[j] = Nil
    BY <1>8 DEF LocalResync, LocalMaps
  <2>3. UNCHANGED content
    BY <1>8 DEF LocalResync
  <2> QED
    BY <1>0, <2>1, <2>2, <2>3 DEF SourceInv
<1>9. CASE (\E x \in Impatient, req \in GrpcRequests : GrpcCall(x, req)) \/ UNCHANGED aggregatorVars
  BY <1>2, <1>9 DEF GrpcCall, aggregatorVars
<1> QED
  BY <1>3, <1>4, <1>5, <1>6, <1>7, <1>8, <1>9 DEF Next, vars

\* What a step of PushData leaves of a call.
LEMMA PushStepFacts ==
    ASSUME DispatcherTypeOK, NEW x \in Callers, pushSteps(x)
    PROVE  /\ call'[x].req = call[x].req /\ call[x].pc # "idle" /\ call'[x].pc # "idle"
           /\ \A y \in Callers \ {x} : call'[y] = call[y]
  BY DEF DispatcherTypeOK, pushSteps, Prepare, Commit, CommitRefused, Committed

\* The aggregator starts to wait when it hands its resync over and stops when
\* PushData has returned.
LEMMA CallNext == TypeOK /\ NorthInv /\ [Next]_vars => CallInv'
<1> SUFFICES ASSUME TypeOK, NorthInv, [Next]_vars PROVE CallInv'
  OBVIOUS
<1> USE ConstantFacts
<1>0. AggregatorType /\ DispatcherTypeOK /\ SourceInv /\ CallInv
  BY DEF TypeOK, AggregatorType, NorthInv
<1>1. ASSUME UNCHANGED <<call, aggr>> PROVE CallInv'
  BY <1>0, <1>1 DEF CallInv
<1>2. ASSUME NEW w \in Watchers,
             \/ \E c \in Changes[w] : SourceChange(w, c[1], c[2])
             \/ SourceResync(w) \/ SourceReconnect(w) \/ ForwardResync(w)
      PROVE  CallInv'
  BY <1>1, <1>2 DEF SourceChange, SourceResync, SourceReconnect, ForwardResync, dispatcherVars
<1>3. CASE DoResync("agent") \/ DoResync(Local) \/ DoResyncReturns
           \/ (\E k \in LocalKeys, v \in Values \cup {Nil} : LocalChange(k, v))
           \/ \E kvs \in LocalMaps : LocalResync(kvs)
  BY <1>1, <1>3 DEF DoResync, DoResyncReturns, LocalChange, LocalResync, dispatcherVars
<1>4. CASE CacheResync
  <2>1. aggr.pc = "range" /\ aggr'.pc \in {"range", "send"} /\ UNCHANGED call
    BY <1>0, <1>4 DEF CacheResync, AggregatorType, dispatcherVars
  <2> QED
    BY <1>0, <2>1 DEF CallInv
<1>5. CASE HandleResync
  <2>1. snapshot(aggr.kvs).req \in Requests
    BY <1>0 DEF AggregatorType, snapshot, Requests
  <2>2. /\ decoded(snapshot(aggr.kvs).req).src = "datasync"
        /\ decoded(snapshot(aggr.kvs).req).resync = TRUE
    BY <2>1, DecodedType DEF snapshot
  <2>3. /\ call'["orch"].pc = "lock" /\ call'["orch"].req = decoded(snapshot(aggr.kvs).req)
        /\ \A y \in Callers \ {"orch"} : call'[y] = call[y]
    BY <1>0, <1>5 DEF HandleResync, pushing, IdleCall, DispatcherTypeOK
  <2>4. aggr'.pc = "wait"
    BY <1>0, <1>5 DEF HandleResync, AggregatorType
  <2> QED
    BY <1>0, <2>2, <2>3, <2>4 DEF CallInv
<1>6. CASE EventDone
  <2>1. /\ call["orch"].pc = "done" /\ call'["orch"].pc = "idle"
        /\ \A y \in Callers \ {"orch"} : call'[y] = call[y]
    BY <1>0, <1>6 DEF EventDone, PushReturn, IdleCall, DispatcherTypeOK
  <2>2. aggr'.pc # "wait"
    <3>1. CASE call["orch"].req.resync
      BY <1>6, <3>1 DEF EventDone
    <3>2. CASE ~call["orch"].req.resync
      BY <1>0, <1>6, <3>2 DEF EventDone, CallInv
    <3> QED
      BY <3>1, <3>2
  <2> QED
    BY <1>0, <2>1, <2>2 DEF CallInv
<1>7. ASSUME NEW w \in Forwarders, HandleChange(w) PROVE CallInv'
  <2>1. /\ fwd[w].req \in Requests /\ fwd[w].req.resync = FALSE /\ UNCHANGED aggr
        /\ call["orch"].pc = "idle"
    BY <1>0, <1>7 DEF HandleChange, AggregatorType, SourceInv, Forwarders, orchIdle, Requests
  <2>2. CASE UNCHANGED call
    BY <1>1, <2>1, <2>2
  <2>3. CASE pushing("orch", decoded(fwd[w].req))
    <3>1. /\ call'["orch"].pc = "lock" /\ call'["orch"].req = decoded(fwd[w].req)
          /\ \A y \in Callers \ {"orch"} : call'[y] = call[y]
      BY <1>0, <2>3 DEF pushing, IdleCall, DispatcherTypeOK
    <3>2. decoded(fwd[w].req).resync = FALSE
      BY <2>1, DecodedType
    <3> QED
      BY <1>0, <2>1, <3>1, <3>2 DEF CallInv
  <2> QED
    BY <1>7, <2>2, <2>3 DEF HandleChange
<1>8. ASSUME NEW x \in Impatient, NEW req \in GrpcRequests, GrpcCall(x, req) PROVE CallInv'
  <2>1. call'[x].req = req /\ \A y \in Callers \ {x} : call'[y] = call[y]
    BY <1>0, <1>8 DEF GrpcCall, pushing, IdleCall, DispatcherTypeOK
  <2>2. UNCHANGED aggr /\ call'["orch"] = call["orch"]
    BY <1>8, <2>1 DEF GrpcCall
  <2> QED
    BY <1>0, <2>1, <2>2 DEF CallInv
<1>9. CASE Process /\ UNCHANGED aggregatorVars
  BY <1>1, <1>9 DEF Process, aggregatorVars
<1>10. ASSUME NEW x \in Callers, pushSteps(x), UNCHANGED aggregatorVars PROVE CallInv'
  <2>1. UNCHANGED aggr
    BY <1>10 DEF aggregatorVars
  <2>2. \A y \in Callers : /\ call'[y].req = call[y].req
                           /\ call'[y].pc = "idle" <=> call[y].pc = "idle"
    BY <1>0, <1>10, PushStepFacts
  <2> QED
    BY <1>0, <2>1, <2>2 DEF CallInv
<1>11. ASSUME NEW x \in Impatient, PushReturn(x), UNCHANGED aggregatorVars PROVE CallInv'
  <2>1. UNCHANGED aggr
    BY <1>11 DEF aggregatorVars
  <2>2. call'[x].pc = "idle" /\ \A y \in Callers \ {x} : call'[y] = call[y]
    BY <1>0, <1>11 DEF PushReturn, IdleCall, DispatcherTypeOK
  <2> QED
    BY <1>0, <2>1, <2>2 DEF CallInv
<1>12. CASE UNCHANGED vars
  BY <1>1, <1>12 DEF vars, dispatcherVars, aggregatorVars
<1> QED
  BY <1>2, <1>3, <1>4, <1>5, <1>6, <1>7, <1>8, <1>9, <1>10, <1>11, <1>12 DEF Next

\* A source that changes while its snapshot is on its way overtakes it.
LEMMA SnapshotNext == TypeOK /\ NorthInv /\ [Next]_vars => SnapshotInv'
<1> SUFFICES ASSUME TypeOK, NorthInv, [Next]_vars, ~overtaken' PROVE SnapshotInv'
  BY DEF SnapshotInv
<1> USE ConstantFacts
<1>0. AggregatorType /\ SnapshotInv /\ CallInv
  BY DEF TypeOK, AggregatorType, NorthInv
<1>1. ~overtaken
  BY DEF Next, SourceChange, SourceResync, SourceReconnect, ForwardResync, DoResync,
         DoResyncReturns, CacheResync, HandleResync, EventDone, HandleChange, LocalChange,
         LocalResync, GrpcCall, aggregatorVars, vars
<1>2. /\ \A w \in Watchers : fwd[w].kind = "resync" => fwd[w].req.kvs = content[w]
      /\ \A i \in DOMAIN aggrResync : aggrResync[i].kvs = content[aggrResync[i].from]
      /\ aggr.pc # "wait" =>
            \A i \in DOMAIN aggr.cached : aggr.cached[i].kvs = content[aggr.cached[i].from]
  BY <1>0, <1>1 DEF SnapshotInv
<1>3. /\ aggrResync \in Seq(Snapshots) /\ aggr.cached \in Seq(Snapshots)
      /\ \A i \in DOMAIN aggrResync : aggrResync[i].from \in Watchers
      /\ \A i \in DOMAIN aggr.cached : aggr.cached[i].from \in Watchers
  <2>1. aggrResync \in Seq(Snapshots) /\ aggr.cached \in Seq(Snapshots)
    BY <1>0 DEF AggregatorType
  <2>2. /\ \A i \in DOMAIN aggrResync : aggrResync[i] \in Snapshots
        /\ \A i \in DOMAIN aggr.cached : aggr.cached[i] \in Snapshots
    BY <2>1
  <2> QED
    BY <2>1, <2>2 DEF Snapshots
<1>4. ASSUME UNCHANGED <<content, aggrResync, aggr>>,
             \A w \in Watchers : \/ fwd'[w] = fwd[w] \/ fwd'[w].kind # "resync"
                                 \/ fwd'[w].req.kvs = content[w]
      PROVE  SnapshotInv'
  BY <1>2, <1>4 DEF SnapshotInv
<1>5. ASSUME NEW w \in Watchers, NEW c \in Changes[w], SourceChange(w, c[1], c[2]) PROVE SnapshotInv'
  <2>1. ~inFlight(w)
    BY <1>5 DEF SourceChange
  <2>2. /\ fwd'[w].kind = "change" /\ \A u \in Watchers \ {w} : fwd'[u] = fwd[u]
        /\ \A u \in Watchers \ {w} : content'[u] = content[u]
        /\ UNCHANGED <<aggrResync, aggr>>
    BY <1>0, <1>5 DEF AggregatorType, SourceChange, change
  <2>3. \A i \in DOMAIN aggrResync : aggrResync[i].from # w
    BY <2>1 DEF inFlight
  <2>4. aggr.pc # "wait" => \A i \in DOMAIN aggr.cached : aggr.cached[i].from # w
    BY <2>1 DEF inFlight
  <2> QED
    BY <1>2, <1>3, <2>2, <2>3, <2>4 DEF SnapshotInv
<1>6. ASSUME NEW w \in Watchers, SourceResync(w) \/ SourceReconnect(w) PROVE SnapshotInv'
  <2>1. UNCHANGED <<content, aggrResync, aggr>>
    BY <1>6 DEF SourceResync, SourceReconnect
  <2>2. \A u \in Watchers : fwd'[u] = fwd[u] \/ fwd'[u].req.kvs = content[u]
    <3>1. CASE fwd' = fwd
      BY <3>1
    <3>2. CASE fwd' = [fwd EXCEPT ![w] = snapshot(content[w])]
      BY <1>0, <3>2 DEF AggregatorType, snapshot
    <3> QED
      BY <1>6, <3>1, <3>2 DEF SourceResync, SourceReconnect
  <2> QED
    BY <1>4, <2>1, <2>2
<1>7. ASSUME NEW w \in Watchers, ForwardResync(w) PROVE SnapshotInv'
  <2>1. /\ aggrResync' = Append(aggrResync, [from |-> w, kvs |-> content[w]])
        /\ UNCHANGED <<content, aggr>>
    BY <1>2, <1>7 DEF ForwardResync
  <2>2. \A u \in Watchers : fwd'[u] = fwd[u] \/ fwd'[u].kind # "resync"
    BY <1>0, <1>7 DEF AggregatorType, ForwardResync, NoEvent
  <2>3. \A i \in DOMAIN aggrResync' : aggrResync'[i].kvs = content[aggrResync'[i].from]
    BY <1>2, <1>3, <2>1
  <2> QED
    BY <1>2, <2>1, <2>2, <2>3 DEF SnapshotInv
<1>8. CASE DoResync("agent") \/ DoResync(Local)
  BY <1>4, <1>8 DEF DoResync
<1>9. CASE DoResyncReturns \/ \E w \in Forwarders : HandleChange(w)
  <2>1. /\ \A u \in Watchers : fwd'[u] = fwd[u] \/ fwd'[u] = NoEvent
        /\ UNCHANGED <<content, aggrResync, aggr>>
    BY <1>0, <1>9 DEF AggregatorType, DoResyncReturns, HandleChange
  <2> QED
    BY <1>4, <2>1 DEF NoEvent
<1>10. CASE CacheResync
  <2> DEFINE cached == Append(aggr.cached, Head(aggrResync))
  <2>1. /\ aggrResync # <<>> /\ aggr.pc = "range" /\ aggrResync' = Tail(aggrResync)
        /\ aggr'.cached = cached /\ UNCHANGED <<content, fwd>>
    BY <1>0, <1>10 DEF CacheResync, AggregatorType
  <2>2. \A i \in DOMAIN aggrResync' : aggrResync'[i].kvs = content[aggrResync'[i].from]
    BY <1>2, <1>3, <2>1
  <2>3. \A i \in DOMAIN cached : cached[i].kvs = content[cached[i].from]
    <3>1. Head(aggrResync) = aggrResync[1] /\ 1 \in DOMAIN aggrResync
      BY <1>3, <2>1
    <3> QED
      BY <1>2, <1>3, <2>1, <3>1
  <2> HIDE DEF cached
  <2> QED
    BY <1>2, <2>1, <2>2, <2>3 DEF SnapshotInv
<1>11. CASE HandleResync
  <2>1. aggr'.pc = "wait" /\ UNCHANGED <<content, fwd, aggrResync>>
    BY <1>0, <1>11 DEF HandleResync, AggregatorType
  <2> QED
    BY <1>2, <2>1 DEF SnapshotInv
<1>12. CASE EventDone
  <2>1. UNCHANGED <<content, fwd, aggrResync>> /\ (aggr' = aggr \/ aggr'.cached = <<>>)
    BY <1>12 DEF EventDone
  <2> QED
    BY <1>2, <2>1 DEF SnapshotInv
<1>13. CASE (\E k \in LocalKeys, v \in Values \cup {Nil} : LocalChange(k, v))
            \/ \E kvs \in LocalMaps : LocalResync(kvs)
  <2>1. (\A u \in Watchers : fwd'[u] = fwd[u]) /\ UNCHANGED <<content, aggrResync, aggr>>
    BY <1>0, <1>13 DEF AggregatorType, LocalChange, LocalResync
  <2> QED
    BY <1>4, <2>1
<1>14. CASE (\E x \in Impatient, req \in GrpcRequests : GrpcCall(x, req)) \/ UNCHANGED aggregatorVars
  BY <1>4, <1>14 DEF GrpcCall, aggregatorVars
<1> QED
  BY <1>5, <1>6, <1>7, <1>8, <1>9, <1>10, <1>11, <1>12, <1>13, <1>14 DEF Next, vars

\* The snapshots of all sources, one of each, merge into what the sources have.
LEMMA MergedSole ==
    ASSUME AggregatorType, SourceInv, NEW cached \in Seq(Snapshots),
           \A i \in DOMAIN cached : cached[i].kvs = content[cached[i].from],
           NEW w \in Watchers, NEW k \in Keys \ LocalKeys, sole(w, k),
           \E i \in DOMAIN cached : cached[i].from = w
    PROVE  merged(cached)[k] = content[w][k]
<1> DEFINE having == {i \in DOMAIN cached : cached[i].kvs[k] # Nil}
           last == CHOOSE i \in having : \A j \in having : j <= i
<1>1. localKVs[k] = Nil
  BY DEF SourceInv
<1>2. \A i \in DOMAIN cached : cached[i].from \in Watchers
  <2>1. \A i \in DOMAIN cached : cached[i] \in Snapshots
    OBVIOUS
  <2> QED
    BY <2>1 DEF Snapshots
<1>3. \A i \in having : cached[i].from = w /\ cached[i].kvs[k] = content[w][k]
  BY <1>2 DEF SourceInv
<1>4. CASE having = {}
  <2>1. content[w][k] = Nil
    BY <1>4
  <2> QED
    BY <1>1, <1>4, <2>1 DEF merged
<1>5. CASE having # {}
  <2>1. having \in SUBSET Int /\ Len(cached) \in Int /\ \A t \in having : t <= Len(cached)
    OBVIOUS
  <2>2. last \in having
    BY <1>5, <2>1, Greatest
  <2>3. merged(cached)[k] = cached[last].kvs[k]
    BY <1>1, <1>5 DEF merged
  <2> QED
    BY <1>3, <2>2, <2>3
<1> QED
  BY <1>4, <1>5

\* Nothing changes between merging the snapshots and handing the result over.
LEMMA MergedNext == TypeOK /\ NorthInv /\ [Next]_vars => MergedInv'
<1> SUFFICES ASSUME TypeOK, NorthInv, [Next]_vars, ~overtaken', aggr'.pc = "send" PROVE MergedInv'
  BY DEF MergedInv
<1> USE ConstantFacts
<1>0. AggregatorType /\ SourceInv /\ SnapshotInv /\ MergedInv
  BY DEF TypeOK, AggregatorType, NorthInv
<1>1. ~overtaken
  BY DEF Next, SourceChange, SourceResync, SourceReconnect, ForwardResync, DoResync,
         DoResyncReturns, CacheResync, HandleResync, EventDone, HandleChange, LocalChange,
         LocalResync, GrpcCall, aggregatorVars, vars
<1>2. ASSUME UNCHANGED <<content, aggr>> PROVE MergedInv'
  BY <1>0, <1>1, <1>2 DEF MergedInv, sole
<1>3. ASSUME NEW w \in Watchers, NEW c \in Changes[w], SourceChange(w, c[1], c[2]) PROVE MergedInv'
  <2>1. ~inFlight(w) /\ aggr.pc = "send"
    BY <1>3 DEF SourceChange
  <2>2. \E i \in DOMAIN aggr.cached : aggr.cached[i].from = w
    BY <1>0, <1>1, <2>1 DEF MergedInv
  <2> QED
    BY <2>1, <2>2 DEF inFlight
<1>4. ASSUME NEW w \in Watchers, SourceResync(w) \/ SourceReconnect(w) \/ ForwardResync(w)
      PROVE  MergedInv'
  BY <1>2, <1>4 DEF SourceResync, SourceReconnect, ForwardResync
<1>5. CASE DoResync("agent") \/ DoResync(Local) \/ DoResyncReturns \/ \E w \in Forwarders : HandleChange(w)
  BY <1>2, <1>5 DEF DoResync, DoResyncReturns, HandleChange
<1>6. CASE CacheResync
  <2> DEFINE cached == Append(aggr.cached, Head(aggrResync))
  <2>1. /\ aggrResync # <<>> /\ aggr.pc = "range" /\ UNCHANGED content
        /\ aggr' = IF allReceived(cached)
                   THEN [pc |-> "send", cached |-> cached, kvs |-> merged(cached)]
                   ELSE [aggr EXCEPT !.cached = cached]
        /\ overtaken' = (overtaken \/ (Len(cached) = Cardinality(Watchers)
                                       /\ {cached[i].from : i \in DOMAIN cached} # Watchers))
    BY <1>6 DEF CacheResync
  <2>2. cached \in Seq(Snapshots) /\ Head(aggrResync) = aggrResync[1] /\ 1 \in DOMAIN aggrResync
    BY <1>0, <2>1 DEF AggregatorType
  <2>3. \A i \in DOMAIN cached : cached[i].kvs = content[cached[i].from]
    <3>1. /\ \A i \in DOMAIN aggr.cached : aggr.cached[i].kvs = content[aggr.cached[i].from]
          /\ aggrResync[1].kvs = content[aggrResync[1].from] /\ aggr.cached \in Seq(Snapshots)
      BY <1>0, <1>1, <2>1, <2>2 DEF SnapshotInv, AggregatorType
    <3> QED
      BY <2>2, <3>1
  <2> HIDE DEF cached
  <2>4. allReceived(cached)
    BY <1>0, <2>1 DEF AggregatorType
  <2>5. aggr'.cached = cached /\ aggr'.kvs = merged(cached)
    BY <2>1, <2>4
  <2>6. {cached[i].from : i \in DOMAIN cached} = Watchers
    BY <2>1, <2>4 DEF allReceived
  <2>7. \A w \in Watchers : \E i \in DOMAIN cached : cached[i].from = w
    BY <2>6
  <2>8. merged(cached) \in Contents
    BY <1>0, <2>2, MergedType DEF AggregatorType
  <2>9. \A w \in Watchers, k \in Keys \ LocalKeys : sole(w, k) => merged(cached)[k] = content[w][k]
    BY <1>0, <2>2, <2>3, <2>7, MergedSole
  <2> QED
    BY <2>1, <2>5, <2>7, <2>8, <2>9 DEF MergedInv, sole
<1>7. CASE HandleResync
  BY <1>0, <1>7 DEF HandleResync, AggregatorType
<1>8. CASE EventDone
  BY <1>2, <1>8 DEF EventDone
<1>9. CASE (\E k \in LocalKeys, v \in Values \cup {Nil} : LocalChange(k, v))
           \/ \E kvs \in LocalMaps : LocalResync(kvs)
  BY <1>2, <1>9 DEF LocalChange, LocalResync
<1>10. CASE (\E x \in Impatient, req \in GrpcRequests : GrpcCall(x, req)) \/ UNCHANGED aggregatorVars
  BY <1>2, <1>10 DEF GrpcCall, aggregatorVars
<1> QED
  BY <1>3, <1>4, <1>5, <1>6, <1>7, <1>8, <1>9, <1>10 DEF Next, vars

\* An event of a source reaches the call of the orchestrator, and from there the
\* store, before the next one of that source.
LEMMA ConvergeNext == TypeOK /\ NorthInv /\ [Next]_vars => ConvergeInv'
<1> SUFFICES ASSUME TypeOK, NorthInv, [Next]_vars, ~overtaken',
                    NEW w \in Watchers, NEW k \in Keys \ LocalKeys, sole(w, k),
                    content'[w][k] \notin Undecodable, ~announced(w, k)'
             PROVE  (IF writing(k) THEN written(k) = content[w][k]
                     ELSE filled => db["datasync"][k] = content[w][k])'
  BY DEF ConvergeInv, sole
<1> USE ConstantFacts
<1>0. AggregatorType /\ DispatcherTypeOK /\ SourceInv /\ CallInv /\ MergedInv /\ ConvergeInv
  BY DEF TypeOK, AggregatorType, NorthInv
<1>1. ~overtaken
  BY DEF Next, SourceChange, SourceResync, SourceReconnect, ForwardResync, DoResync,
         DoResyncReturns, CacheResync, HandleResync, EventDone, HandleChange, LocalChange,
         LocalResync, GrpcCall, aggregatorVars, vars
<1>2. content[w][k] \notin Undecodable /\ ~announced(w, k) =>
          IF writing(k) THEN written(k) = content[w][k]
          ELSE filled => db["datasync"][k] = content[w][k]
  BY <1>0, <1>1 DEF ConvergeInv
<1>3. ASSUME content'[w][k] = content[w][k], ~announced(w, k), call'["orch"] = call["orch"],
             synced' = synced, db'["datasync"][k] = db["datasync"][k]
      PROVE  (IF writing(k) THEN written(k) = content[w][k]
              ELSE filled => db["datasync"][k] = content[w][k])'
  BY <1>2, <1>3 DEF writing, written, filled
<1>4. ASSUME NEW u \in Watchers, NEW c \in Changes[u], SourceChange(u, c[1], c[2])
      PROVE  (IF writing(k) THEN written(k) = content[w][k]
              ELSE filled => db["datasync"][k] = content[w][k])'
  <2>1. UNCHANGED <<db, call, synced>>
    BY <1>4 DEF SourceChange, dispatcherVars
  <2>2. /\ fwd[u].kind = "none" /\ fwd'[u].kind = "change" /\ DOMAIN fwd'[u].req.kvs = {c[1]}
        /\ \A y \in Forwarders \ {u} : fwd'[y] = fwd[y]
    BY <1>0, <1>4 DEF AggregatorType, SourceChange, change, NoEvent
  <2>3. u = w => c[1] # k
    BY <2>2 DEF announced
  <2>4. content'[w][k] = content[w][k]
    BY <1>0, <1>4, <2>3 DEF AggregatorType, SourceChange, Contents
  <2>5. ~announced(w, k)
    BY <2>2 DEF announced
  <2> QED
    BY <1>3, <2>1, <2>4, <2>5
<1>5. ASSUME NEW u \in Watchers, SourceResync(u) \/ SourceReconnect(u) \/ ForwardResync(u)
      PROVE  (IF writing(k) THEN written(k) = content[w][k]
              ELSE filled => db["datasync"][k] = content[w][k])'
  <2>1. UNCHANGED <<db, call, synced, content>>
    BY <1>5 DEF SourceResync, SourceReconnect, ForwardResync, dispatcherVars
  <2>2. \A y \in Watchers : fwd'[y] = fwd[y] \/ fwd[y].kind # "change"
    <3>1. CASE fwd' = fwd
      BY <3>1
    <3>2. CASE fwd' = [fwd EXCEPT ![u] = snapshot(content[u])] /\ fwd[u] = NoEvent
      BY <1>0, <3>2 DEF AggregatorType, NoEvent
    <3>3. CASE fwd' = [fwd EXCEPT ![u] = NoEvent] /\ fwd[u].kind = "resync"
      BY <1>0, <3>3 DEF AggregatorType
    <3> QED
      BY <1>5, <3>1, <3>2, <3>3 DEF SourceResync, SourceReconnect, ForwardResync
  <2>3. ~announced(w, k)
    BY <2>2 DEF announced
  <2> QED
    BY <1>3, <2>1, <2>3
<1>6. CASE DoResync("agent") \/ DoResync(Local) \/ CacheResync
  BY <1>3, <1>6 DEF DoResync, CacheResync, dispatcherVars, announced
<1>7. CASE DoResyncReturns \/ (\E j \in LocalKeys, v \in Values \cup {Nil} : LocalChange(j, v))
           \/ \E kvs \in LocalMaps : LocalResync(kvs)
  <2>1. fwd'[w] = fwd[w] /\ UNCHANGED <<db, call, synced, content>>
    BY <1>0, <1>7 DEF AggregatorType, DoResyncReturns, LocalChange, LocalResync, dispatcherVars
  <2> QED
    BY <1>3, <2>1 DEF announced
<1>8. CASE HandleResync
  <2> DEFINE req == snapshot(aggr.kvs).req
  <2>1. req \in Requests
    BY <1>0 DEF AggregatorType, snapshot, Requests
  <2>2. req.src = "datasync" /\ req.resync = TRUE /\ req.kvs = aggr.kvs
    BY DEF snapshot
  <2>3. call'["orch"].pc = "lock" /\ call'["orch"].req = decoded(req) /\ UNCHANGED content
    BY <1>0, <1>8 DEF HandleResync, pushing, IdleCall, DispatcherTypeOK
  <2> HIDE DEF req
  <2>4. aggr.kvs \in Contents /\ aggr.kvs[k] = content[w][k]
    BY <1>0, <1>1, <1>8 DEF HandleResync, MergedInv
  <2>5. k \in DOMAIN decoded(req).kvs /\ decoded(req).kvs[k] = content[w][k]
    BY <2>1, <2>2, <2>3, <2>4, DecodedType DEF Contents
  <2>6. decoded(req).src = "datasync"
    BY <2>1, <2>2, DecodedType
  <2> QED
    BY <2>3, <2>5, <2>6 DEF writing, written
<1>9. CASE EventDone
  <2>1. /\ call["orch"].pc = "done" /\ call'["orch"].pc = "idle" /\ UNCHANGED <<db, content, fwd>>
        /\ synced' => synced \/ call["orch"].req.resync
    BY <1>0, <1>9 DEF EventDone, PushReturn, IdleCall, DispatcherTypeOK
  <2>2. ~writing(k) /\ ~writing(k)' /\ (filled' => filled) /\ ~announced(w, k)
    BY <2>1 DEF writing, filled, announced, inside
  <2> QED
    BY <1>2, <2>1, <2>2
<1>10. ASSUME NEW u \in Forwarders, HandleChange(u)
       PROVE  (IF writing(k) THEN written(k) = content[w][k]
               ELSE filled => db["datasync"][k] = content[w][k])'
  <2> DEFINE req == fwd[u].req
  <2>1. /\ req \in Requests /\ fwd[u].kind = "change" /\ call["orch"].pc = "idle"
        /\ UNCHANGED <<db, content, synced>> /\ fwd' = [fwd EXCEPT ![u] = NoEvent]
        /\ IF DOMAIN decoded(req).kvs = {} THEN UNCHANGED call ELSE pushing("orch", decoded(req))
    BY <1>0, <1>10 DEF AggregatorType, HandleChange, orchIdle
  <2>2. req.resync = FALSE /\ (u \in Watchers <=> req.src = "datasync")
    BY <1>0, <2>1 DEF SourceInv, Forwarders, Requests
  <2>3. u \in Watchers => \A j \in DOMAIN req.kvs :
            req.kvs[j] = content[u][j] /\ \E c \in Changes[u] : c[1] = j
    BY <1>0, <2>1 DEF SourceInv
  <2> HIDE DEF req
  <2>4. /\ decoded(req).src = req.src /\ decoded(req).resync = FALSE
        /\ DOMAIN decoded(req).kvs = {j \in DOMAIN req.kvs : req.kvs[j] \notin Undecodable}
        /\ \A j \in DOMAIN decoded(req).kvs : decoded(req).kvs[j] = req.kvs[j]
    BY <2>1, <2>2, DecodedType
  <2>5. u \in Watchers /\ k \in DOMAIN req.kvs => u = w
    BY <2>3 DEF sole
  <2>6. ~(u \in Watchers /\ k \in DOMAIN decoded(req).kvs) => ~announced(w, k)
    <3> SUFFICES ASSUME announced(w, k) PROVE u \in Watchers /\ k \in DOMAIN decoded(req).kvs
      OBVIOUS
    <3>1. u = w
      BY <1>0, <2>1 DEF announced, AggregatorType
    <3>2. k \in DOMAIN req.kvs
      BY <3>1 DEF announced, req
    <3>3. req.kvs[k] \notin Undecodable
      BY <2>1, <2>3, <3>1, <3>2
    <3> QED
      BY <2>4, <3>1, <3>2, <3>3
  <2>7. ~writing(k) /\ (filled => synced) /\ (synced => filled)
    BY <2>1 DEF writing, filled, inside
  <2>8. CASE UNCHANGED call
    <3>1. ~announced(w, k)
      <4>1. CASE DOMAIN decoded(req).kvs = {}
        BY <2>6, <4>1
      <4>2. CASE pushing("orch", decoded(req))
        BY <1>0, <2>1, <2>8, <4>2 DEF pushing, IdleCall, DispatcherTypeOK
      <4> QED
        BY <2>1, <4>1, <4>2
    <3> QED
      BY <1>3, <2>1, <2>8, <3>1
  <2>9. CASE pushing("orch", decoded(req))
    <3>1. call'["orch"].pc = "lock" /\ call'["orch"].req = decoded(req)
      BY <1>0, <2>9 DEF pushing, IdleCall, DispatcherTypeOK
    <3>2. CASE u \in Watchers /\ k \in DOMAIN decoded(req).kvs
      <4>1. decoded(req).kvs[k] = content[w][k]
        BY <2>3, <2>4, <2>5, <3>2
      <4> QED
        BY <2>1, <2>2, <2>4, <3>1, <3>2, <4>1 DEF writing, written
    <3>3. CASE ~(u \in Watchers /\ k \in DOMAIN decoded(req).kvs)
      <4>1. ~writing(k)' /\ (filled' => synced)
        BY <2>1, <2>2, <2>4, <3>1, <3>3 DEF writing, filled, inside
      <4> QED
        BY <1>2, <2>1, <2>6, <2>7, <3>3, <4>1
    <3> QED
      BY <3>2, <3>3
  <2> QED
    BY <2>1, <2>8, <2>9
<1>11. ASSUME NEW x \in Impatient, NEW req \in GrpcRequests, GrpcCall(x, req)
       PROVE  (IF writing(k) THEN written(k) = content[w][k]
               ELSE filled => db["datasync"][k] = content[w][k])'
  <2>1. call'["orch"] = call["orch"] /\ UNCHANGED <<db, content, synced, fwd>>
    BY <1>0, <1>11 DEF GrpcCall, pushing, DispatcherTypeOK
  <2> QED
    BY <1>3, <2>1 DEF announced
<1>12. ASSUME UNCHANGED aggregatorVars, call'["orch"] = call["orch"],
              db'["datasync"][k] = db["datasync"][k]
       PROVE  (IF writing(k) THEN written(k) = content[w][k]
               ELSE filled => db["datasync"][k] = content[w][k])'
  BY <1>3, <1>12 DEF aggregatorVars, announced
<1>13. CASE Process /\ UNCHANGED aggregatorVars
  BY <1>12, <1>13 DEF Process
<1>14. ASSUME NEW x \in Callers, Prepare(x), UNCHANGED aggregatorVars
       PROVE  (IF writing(k) THEN written(k) = content[w][k]
               ELSE filled => db["datasync"][k] = content[w][k])'
  <2> DEFINE req == call[x].req
  <2>1. /\ req \in Requests /\ req.src \in Sources /\ db' = updatedStore(req)
        /\ db \in [Sources -> Contents] /\ call[x].pc = "lock"
        /\ call'[x].pc = "commit" /\ call'[x].req = req
        /\ \A y \in Callers \ {x} : call'[y] = call[y]
    BY <1>0, <1>14 DEF Prepare, DispatcherTypeOK, Requests
  <2>2. UNCHANGED <<content, synced>> /\ ~announced(w, k)
    BY <1>14 DEF aggregatorVars, announced
  <2>3. req.src # "datasync" => db'["datasync"][k] = db["datasync"][k]
    BY <2>1 DEF updatedStore
  <2>4. req.src = "datasync" =>
          db'["datasync"][k] = IF k \in DOMAIN req.kvs THEN req.kvs[k]
                               ELSE IF req.resync THEN Nil ELSE db["datasync"][k]
    BY <2>1 DEF updatedStore
  <2> HIDE DEF req
  <2>5. CASE x # "orch"
    <3>1. req.src # "datasync" /\ call'["orch"] = call["orch"]
      BY <1>0, <2>1, <2>5 DEF CallInv, req
    <3> QED
      BY <1>3, <2>2, <2>3, <3>1
  <2>6. CASE x = "orch"
    <3>1. req = call["orch"].req
      BY <2>6 DEF req
    <3>2. ~writing(k)'
      BY <2>1, <2>6 DEF writing
    <3>3. CASE writing(k)
      <4>1. db'["datasync"][k] = written(k)
        BY <2>4, <3>1, <3>3 DEF writing, written
      <4> QED
        BY <1>2, <2>2, <3>2, <3>3, <4>1
    <3>4. CASE ~writing(k)
      <4>1. ~req.resync
        BY <1>0, <2>1, <2>6, <3>1, <3>4 DEF CallInv, writing
      <4>2. db'["datasync"][k] = db["datasync"][k]
        BY <2>1, <2>3, <2>4, <2>6, <3>1, <3>4, <4>1 DEF writing
      <4>3. filled' => filled
        BY <2>1, <2>2, <2>6, <4>1 DEF filled
      <4> QED
        BY <1>2, <2>2, <3>2, <3>4, <4>2, <4>3
    <3> QED
      BY <3>3, <3>4
  <2> QED
    BY <2>5, <2>6
<1>15. ASSUME NEW x \in Callers, Commit(x) \/ CommitRefused(x) \/ Committed(x),
              UNCHANGED aggregatorVars
       PROVE  (IF writing(k) THEN written(k) = content[w][k]
               ELSE filled => db["datasync"][k] = content[w][k])'
  <2>1. /\ call[x].pc \in inside /\ call'[x].pc \in inside /\ call'[x].req = call[x].req
        /\ \A y \in Callers \ {x} : call'[y] = call[y]
        /\ UNCHANGED db
    BY <1>0, <1>15 DEF Commit, CommitRefused, Committed, DispatcherTypeOK, inside
  <2>2. UNCHANGED <<content, synced>> /\ ~announced(w, k)
    BY <1>15 DEF aggregatorVars, announced
  <2>3. CASE x # "orch"
    BY <1>12, <1>15, <2>1, <2>3
  <2>4. CASE x = "orch"
    <3>1. ~writing(k) /\ ~writing(k)' /\ (filled' => filled)
      BY <2>1, <2>2, <2>4 DEF writing, filled, inside
    <3> QED
      BY <1>2, <2>1, <2>2, <3>1
  <2> QED
    BY <2>3, <2>4
<1>16. ASSUME NEW x \in Impatient, PushReturn(x), UNCHANGED aggregatorVars
       PROVE  (IF writing(k) THEN written(k) = content[w][k]
               ELSE filled => db["datasync"][k] = content[w][k])'
  <2>1. call'["orch"] = call["orch"] /\ UNCHANGED db
    BY <1>0, <1>16 DEF PushReturn, DispatcherTypeOK
  <2> QED
    BY <1>12, <1>16, <2>1
<1>17. CASE UNCHANGED vars
  BY <1>12, <1>17 DEF vars, dispatcherVars
<1> QED
  BY <1>4, <1>5, <1>6, <1>7, <1>8, <1>9, <1>10, <1>11, <1>13, <1>14, <1>15, <1>16, <1>17
  DEF Next, pushSteps

\* Whatever changes while the resyncs of the sources are collected, merged and
\* applied, the store ends up with what the sources have, for the keys of one
\* source, unless a snapshot was overtaken or counted for another source
\* (Converges, watchAggrResync): for any number of sources, keys and callers.
THEOREM SourcesConverge == Spec => []Converges
<1>1. TypeOK /\ NorthInv => Converges
  <2> SUFFICES ASSUME TypeOK, NorthInv, quiet, synced, ~overtaken,
                      NEW w \in Watchers, NEW k \in Keys \ LocalKeys, sole(w, k),
                      content[w][k] \notin Undecodable
               PROVE  db["datasync"][k] = content[w][k]
    BY DEF Converges
  <2>1. ~announced(w, k) /\ ~writing(k) /\ filled
    BY ConstantFacts DEF quiet, announced, writing, filled, NoEvent
  <2> QED
    BY <2>1 DEF NorthInv, ConvergeInv
<1>2. TypeOK /\ NorthInv /\ [Next]_vars => NorthInv'
  BY SourceNext, CallNext, SnapshotNext, MergedNext, ConvergeNext DEF NorthInv
<1> QED
  BY <1>1, <1>2, NorthInit, TypeInit, TypeStep, PTL DEF Spec
=============================================================================
