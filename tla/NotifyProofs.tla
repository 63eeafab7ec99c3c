---------------------------- MODULE NotifyProofs ----------------------------
(***************************************************************************)
(* Proofs about the notification service of the configurator.              *)
(***************************************************************************)
EXTENDS NotifyService, FiniteSetTheorems, SequenceTheorems, TLAPS

-----------------------------------------------------------------------------
(* Indexes *)

\* Two indexes that are less than a buffer apart have different slots.
LEMMA SlotsDiffer ==
    ASSUME NEW B \in Nat \ {0}, NEW a \in Nat, NEW b \in Nat, a < b, b - a < B
    PROVE  a % B # b % B
<1>1. SUFFICES ASSUME a % B = b % B PROVE FALSE
  OBVIOUS
<1>2. /\ a = B * (a \div B) + (a % B) /\ a \div B \in Int
      /\ b = B * (b \div B) + (b % B) /\ b \div B \in Int
      /\ a % B \in Int
  OBVIOUS
<1> DEFINE qa == a \div B  qb == b \div B  r == a % B
<1>3. qa \in Int /\ qb \in Int /\ r \in Int /\ a = B * qa + r /\ b = B * qb + r
  BY <1>1, <1>2
<1> HIDE DEF qa, qb, r
<1>4. B * qa \in Int /\ B * qb \in Int
  BY <1>3
<1>5. CASE qb > qa
  <2>1. B * qb >= B * qa + B
    BY <1>3, <1>5
  <2> QED
    BY <1>3, <1>4, <2>1
<1>6. CASE qa >= qb
  <2>1. B * qa >= B * qb
    BY <1>3, <1>6
  <2> QED
    BY <1>3, <1>4, <2>1
<1> QED
  BY <1>3, <1>5, <1>6

\* A slot is a slot of the buffer.
LEMMA SlotInBuffer ==
    ASSUME NEW B \in Nat \ {0}, NEW a \in Nat
    PROVE  a % B \in 0..(B - 1)
  OBVIOUS

\* Remainders of differences that wrap around at most once.
LEMMA Wrapped ==
    ASSUME NEW M \in Nat \ {0}, NEW a \in Int, a < M, a + M >= 0
    PROVE  a % M = IF a >= 0 THEN a ELSE a + M
<1>1. CASE a >= 0
  BY <1>1
<1>2. CASE a < 0
  BY <1>2
<1> QED
  BY <1>1, <1>2

\* What Append adds to the elements of a sequence.
LEMMA SentAppend ==
    ASSUME NEW S, NEW f, NEW g, NEW c, NEW e, f[c] \in Seq(S), e \in S, g[c] = Append(f[c], e)
    PROVE  /\ sent(g, c) = sent(f, c) \cup {e}
           /\ DOMAIN g[c] = 1..(Len(f[c]) + 1) /\ DOMAIN f[c] = 1..Len(f[c])
           /\ g[c][Len(f[c]) + 1] = e
           /\ \A j \in 1..Len(f[c]) : g[c][j] = f[c][j]
<1> DEFINE s == f[c]  t == g[c]  n == Len(s)
<1>1. s \in Seq(S) /\ t = Append(s, e) /\ n \in Nat
  OBVIOUS
<1>2. DOMAIN t = 1..(n + 1) /\ DOMAIN s = 1..n /\ t[n + 1] = e /\ \A j \in 1..n : t[j] = s[j]
  BY <1>1
<1>3. \A j : j \in 1..(n + 1) <=> j \in 1..n \/ j = n + 1
  BY <1>1
<1>4. sent(g, c) = {t[j] : j \in DOMAIN t} /\ sent(f, c) = {s[j] : j \in DOMAIN s}
  BY DEF sent
<1> HIDE DEF s, t, n
<1>5. sent(g, c) = sent(f, c) \cup {e}
  BY <1>2, <1>3, <1>4
<1> QED
  BY <1>2, <1>5 DEF s, t, n

-----------------------------------------------------------------------------
(* Types *)

loaded == {p \in Pushers : push[p].pc = "loaded"}

PushRecords == [pc : {"idle", "loaded", "sending", "storing"}, idx : 0..MaxPushes,
                notif : Notif \cup {Nil}]
ClientRecords == [pc : {"idle", "replay", "register", "ready", "sending", "returned", "done"},
                  from : Froms \cup {0}, i : 0..(IndexMod - 1)]

\* There is an index left for every notification that is about to have one.
PushType ==
    /\ curIdx \in 0..MaxPushes /\ curIdx + Cardinality(loaded) <= MaxPushes
    /\ buffer \in [0..(BufferSize - 1) -> Notif \cup {Nil}]
    /\ push \in [Pushers -> PushRecords]
    /\ \A p \in Pushers : push[p].pc \in {"sending", "storing"} =>
                             push[p].notif \in Notif /\ push[p].notif.by = p
    /\ log \in Seq(Pushers) /\ overlapped \in BOOLEAN

ClientType ==
    /\ rlocked \subseteq Clients /\ cancelled \subseteq Clients /\ disturbed \subseteq Clients
    /\ client \in [Clients -> ClientRecords]
    /\ replayed \in [Clients -> Seq(Notif \cup {Nil})] /\ live \in [Clients -> Seq(Notif)]
    /\ upto \in [Clients -> 0..MaxPushes]

\* The range over the watchers removes at most what it has visited.
DispType ==
    /\ watchers \in Seq(Clients \cup {noWatcher})
    /\ disp \in [pc : {"select", "range"}, notif : Notif \cup {Nil}, i : Nat \ {0}, removed : Nat]
    /\ disp.pc = "range" => disp.notif \in Notif
    /\ disp.removed < disp.i /\ disp.i <= Len(watchers) + 1
    /\ crashed \in BOOLEAN

TypeInv == PushType /\ ClientType /\ DispType

\* The type invariant follows.
LEMMA TypeInvTypes == TypeInv => TypeOK
  BY DEF TypeInv, PushType, ClientType, DispType, TypeOK, PushRecords, ClientRecords

\* Initially everything is typed.
LEMMA TypeInit == Init => TypeInv
<1> SUFFICES ASSUME Init PROVE TypeInv
  OBVIOUS
<1>1. PushType
  <2>1. loaded = {}
    BY DEF Init, loaded, Idle
  <2>2. Cardinality(loaded) = 0
    BY <2>1, FS_EmptySet
  <2>3. 0 \in 0..MaxPushes /\ 0 + 0 <= MaxPushes
    BY NotifyAssumption
  <2>4. Idle \in PushRecords /\ Idle.pc = "idle"
    BY <2>3 DEF Idle, PushRecords
  <2>5. push \in [Pushers -> PushRecords] /\ \A p \in Pushers : push[p].pc = "idle"
    BY <2>4 DEF Init
  <2>6. curIdx \in 0..MaxPushes /\ curIdx + Cardinality(loaded) <= MaxPushes
    BY <2>2, <2>3 DEF Init
  <2>7. /\ buffer \in [0..(BufferSize - 1) -> Notif \cup {Nil}]
        /\ log \in Seq(Pushers) /\ overlapped \in BOOLEAN
    <3>1. buffer \in [0..(BufferSize - 1) -> Notif \cup {Nil}]
      BY DEF Init
    <3>2. log \in Seq(Pushers)
      BY DEF Init
    <3> QED
      BY <3>1, <3>2 DEF Init
  <2> QED
    BY <2>5, <2>6, <2>7 DEF PushType
<1>2. ClientType
  <2>1. 0 \in 0..(IndexMod - 1)
    BY NotifyAssumption
  <2>2. [pc |-> "idle", from |-> 0, i |-> 0] \in ClientRecords
    BY <2>1 DEF ClientRecords
  <2>3. 0 \in 0..MaxPushes
    BY NotifyAssumption
  <2> QED
    BY <2>2, <2>3 DEF Init, ClientType
<1>3. DispType
  <2>1. Len(<<>>) = 0 /\ <<>> \in Seq(Clients \cup {noWatcher}) /\ 0 < 1 /\ 1 <= 0 + 1
    OBVIOUS
  <2>2. Select \in [pc : {"select", "range"}, notif : Notif \cup {Nil}, i : Nat \ {0}, removed : Nat]
    BY DEF Select
  <2>3. Select.pc = "select" /\ Select.i = 1 /\ Select.removed = 0
    BY DEF Select
  <2>4. watchers = <<>> /\ disp = Select /\ crashed = FALSE
    BY DEF Init
  <2> QED
    BY <2>1, <2>2, <2>3, <2>4 DEF DispType
<1> QED
  BY <1>1, <1>2, <1>3 DEF TypeInv

\* The index does not overflow.
LEMMA AddIndex ==
    ASSUME PushType, NEW p \in Pushers, PushAdd(p)
    PROVE  /\ curIdx' = curIdx + 1 /\ curIdx + 1 \in 1..MaxPushes /\ curIdx \in 0..MaxPushes
           /\ curIdx + 1 + Cardinality(loaded \ {p}) <= MaxPushes
<1>1. p \in loaded /\ IsFiniteSet(loaded)
  BY NotifyAssumption, FS_Subset DEF PushAdd, loaded
<1>2. Cardinality(loaded \ {p}) = Cardinality(loaded) - 1 /\ IsFiniteSet(loaded \ {p})
  BY <1>1, FS_RemoveElement
<1>3. Cardinality(loaded \ {p}) \in Nat /\ Cardinality(loaded) \in Nat
  BY <1>1, <1>2, FS_CardinalityType
<1>4. /\ curIdx \in 0..MaxPushes /\ curIdx + Cardinality(loaded) <= MaxPushes
      /\ MaxPushes \in Nat /\ IndexMod \in Nat /\ MaxPushes < IndexMod
  BY NotifyAssumption DEF PushType
<1>5. /\ curIdx + 1 \in 1..MaxPushes /\ curIdx + 1 < IndexMod
      /\ curIdx + 1 + Cardinality(loaded \ {p}) <= MaxPushes
  BY <1>2, <1>3, <1>4
<1>6. (curIdx + 1) % IndexMod = curIdx + 1
  BY <1>4, <1>5
<1> QED
  BY <1>4, <1>5, <1>6 DEF PushAdd

\* A push keeps the types.
LEMMA TypePush ==
    ASSUME TypeInv, NEW p \in Pushers, pushSteps(p)
    PROVE  TypeInv'
<1>0. PushType /\ ClientType /\ DispType
  BY DEF TypeInv
<1>t. push[p] \in PushRecords /\ push \in [Pushers -> PushRecords]
  BY <1>0 DEF PushType
<1>f. IsFiniteSet(loaded) /\ Cardinality(loaded) \in Nat
  <2>1. IsFiniteSet(loaded)
    BY NotifyAssumption, FS_Subset DEF loaded
  <2> QED
    BY <2>1, FS_CardinalityType
<1>n. MaxPushes \in Nat /\ IndexMod \in Nat /\ MaxPushes < IndexMod /\ BufferSize \in Nat \ {0}
  BY NotifyAssumption
<1>1. CASE PushLoad(p)
  <2>1. /\ p \notin loaded
        /\ push' = [push EXCEPT ![p] = [pc |-> "loaded", idx |-> curIdx, notif |-> Nil]]
        /\ curIdx + Cardinality(loaded) < MaxPushes /\ UNCHANGED <<curIdx, buffer, log>>
        /\ overlapped' = (overlapped \/ pushing # {})
    BY <1>1 DEF PushLoad, loaded
  <2>2. [pc |-> "loaded", idx |-> curIdx, notif |-> Nil] \in PushRecords
    BY <1>0 DEF PushType, PushRecords
  <2>3. loaded' = loaded \cup {p}
    BY <1>t, <2>1 DEF loaded
  <2>4. Cardinality(loaded') = Cardinality(loaded) + 1
    BY <1>f, <2>1, <2>3, FS_AddElement
  <2>5. PushType'
    <3>1. curIdx' \in 0..MaxPushes /\ curIdx' + Cardinality(loaded') <= MaxPushes
      BY <1>0, <1>f, <1>n, <2>1, <2>4 DEF PushType
    <3>2. push' \in [Pushers -> PushRecords]
      BY <1>t, <2>1, <2>2
    <3>3. \A q \in Pushers : push'[q].pc \in {"sending", "storing"} =>
                                push'[q].notif \in Notif /\ push'[q].notif.by = q
      BY <1>0, <1>t, <2>1 DEF PushType
    <3> QED
      BY <1>0, <2>1, <3>1, <3>2, <3>3 DEF PushType
  <2>6. ClientType'
    BY <1>0, <1>1 DEF PushLoad, ClientType
  <2>7. DispType'
    BY <1>0, <1>1 DEF PushLoad, DispType
  <2> QED
    BY <2>1, <2>5, <2>6, <2>7 DEF TypeInv
<1>2. CASE PushAdd(p)
  <2>3. /\ curIdx \in 0..MaxPushes /\ curIdx + 1 \in 1..MaxPushes
        /\ curIdx + 1 + Cardinality(loaded \ {p}) <= MaxPushes
    BY <1>0, <1>2, AddIndex
  <2>4. curIdx' = curIdx + 1
    BY <1>0, <1>2, AddIndex
  <2>5. push' = [push EXCEPT ![p] = [push[p] EXCEPT !.pc = "sending",
                                                    !.notif = [next |-> curIdx + 1, by |-> p]]]
    BY <1>t, <1>2, <2>4 DEF PushAdd
  <2>6. [next |-> curIdx + 1, by |-> p] \in Notif
    BY <2>3 DEF Notif
  <2>7. [push[p] EXCEPT !.pc = "sending", !.notif = [next |-> curIdx + 1, by |-> p]] \in PushRecords
    BY <1>t, <2>6 DEF PushRecords
  <2>8. loaded' = loaded \ {p}
    BY <1>t, <2>5 DEF loaded, PushRecords
  <2>9. PushType'
    <3>1. curIdx' \in 0..MaxPushes /\ curIdx' + Cardinality(loaded') <= MaxPushes
      BY <2>3, <2>4, <2>8
    <3>2. push' \in [Pushers -> PushRecords]
      BY <1>t, <2>5, <2>7
    <3>3. \A q \in Pushers : push'[q].pc \in {"sending", "storing"} =>
                                push'[q].notif \in Notif /\ push'[q].notif.by = q
      <4>1. push'[p].notif = [next |-> curIdx + 1, by |-> p]
        BY <1>t, <2>5 DEF PushRecords
      <4>2. \A q \in Pushers \ {p} : push'[q] = push[q]
        BY <1>t, <2>5
      <4> QED
        BY <1>0, <2>6, <4>1, <4>2 DEF PushType
    <3>4. log' \in Seq(Pushers) /\ UNCHANGED <<buffer, overlapped>>
      BY <1>0, <1>2 DEF PushAdd, PushType
    <3> QED
      BY <1>0, <3>1, <3>2, <3>3, <3>4 DEF PushType
  <2>10. ClientType'
    BY <1>0, <1>2 DEF PushAdd, ClientType
  <2>11. DispType'
    BY <1>0, <1>2 DEF PushAdd, DispType
  <2> QED
    BY <1>2, <2>4, <2>9, <2>10, <2>11 DEF TypeInv
<1>3. CASE PushSend(p)
  <2>1. /\ push[p].pc = "sending" /\ push' = [push EXCEPT ![p].pc = "storing"]
        /\ disp' = [Select EXCEPT !.pc = "range", !.notif = push[p].notif]
        /\ UNCHANGED <<curIdx, buffer, watchers, crashed, log, overlapped>>
    BY <1>3 DEF PushSend, history
  <2>2. push[p].notif \in Notif /\ push[p].notif.by = p
    BY <1>0, <2>1 DEF PushType
  <2>3. [push[p] EXCEPT !.pc = "storing"] \in PushRecords
    BY <1>t DEF PushRecords
  <2>4. loaded' = loaded
    BY <1>t, <2>1 DEF loaded, PushRecords
  <2>5. PushType'
    <3>1. push' \in [Pushers -> PushRecords]
      BY <1>t, <2>1, <2>3
    <3>2. \A q \in Pushers : push'[q].pc \in {"sending", "storing"} =>
                                push'[q].notif \in Notif /\ push'[q].notif.by = q
      BY <1>0, <1>t, <2>1, <2>2 DEF PushType, PushRecords
    <3> QED
      BY <1>0, <2>1, <2>4, <3>1, <3>2 DEF PushType
  <2>6. ClientType'
    BY <1>0, <1>3 DEF PushSend, ClientType, history
  <2>7. DispType'
    <3>1. disp' = [pc |-> "range", notif |-> push[p].notif, i |-> 1, removed |-> 0]
      BY <2>1 DEF Select
    <3>2. Len(watchers) \in Nat
      BY <1>0 DEF DispType
    <3>3. /\ disp' \in [pc : {"select", "range"}, notif : Notif \cup {Nil}, i : Nat \ {0}, removed : Nat]
          /\ disp'.notif \in Notif /\ disp'.i = 1 /\ disp'.removed = 0
      BY <2>2, <3>1
    <3>4. disp'.removed < disp'.i /\ disp'.i <= Len(watchers) + 1
      BY <3>2, <3>3
    <3> QED
      BY <1>0, <2>1, <3>3, <3>4 DEF DispType
  <2> QED
    BY <2>1, <2>5, <2>6, <2>7 DEF TypeInv
<1>4. CASE PushStore(p)
  <2>1. /\ push[p].pc = "storing" /\ push' = [push EXCEPT ![p] = Idle]
        /\ buffer' = [buffer EXCEPT ![push[p].idx % BufferSize] = push[p].notif]
        /\ UNCHANGED <<curIdx, log, overlapped>>
    BY <1>4 DEF PushStore, history
  <2>2. push[p].notif \in Notif
    BY <1>0, <2>1 DEF PushType
  <2>3. Idle \in PushRecords /\ Idle.pc = "idle"
    BY <1>n DEF Idle, PushRecords
  <2>4. loaded' = loaded
    BY <1>t, <2>1, <2>3 DEF loaded
  <2>5. PushType'
    <3>1. push' \in [Pushers -> PushRecords]
      BY <1>t, <2>1, <2>3
    <3>2. \A q \in Pushers : push'[q].pc \in {"sending", "storing"} =>
                                push'[q].notif \in Notif /\ push'[q].notif.by = q
      BY <1>0, <1>t, <2>1, <2>3 DEF PushType
    <3>3. buffer' \in [0..(BufferSize - 1) -> Notif \cup {Nil}]
      BY <1>0, <2>1, <2>2 DEF PushType
    <3> QED
      BY <1>0, <2>1, <2>4, <3>1, <3>2, <3>3 DEF PushType
  <2>6. ClientType'
    BY <1>0, <1>4 DEF PushStore, ClientType, history
  <2>7. DispType'
    BY <1>0, <1>4 DEF PushStore, DispType
  <2> QED
    BY <2>1, <2>5, <2>6, <2>7 DEF TypeInv
<1> QED
  BY <1>1, <1>2, <1>3, <1>4 DEF pushSteps

\* Where a replay starts is an index.
LEMMA StartType ==
    ASSUME PushType, NEW from \in Froms
    PROVE  startIdx(from) \in 0..(IndexMod - 1)
<1>1. /\ IndexMod \in Nat \ {0} /\ BufferSize \in Nat /\ from \in 0..(IndexMod - 1)
      /\ curIdx \in Int
  BY NotifyAssumption DEF PushType
<1>2. (curIdx - BufferSize) % IndexMod \in 0..(IndexMod - 1)
  BY <1>1
<1> QED
  BY <1>1, <1>2 DEF startIdx

\* Steps of a client keep the types.
LEMMA TypeClient ==
    ASSUME TypeInv, NEW c \in Clients, clientSteps(c)
    PROVE  TypeInv'
<1>0. PushType /\ ClientType /\ DispType
  BY DEF TypeInv
<1>t. client[c] \in ClientRecords /\ client \in [Clients -> ClientRecords]
  BY <1>0 DEF ClientType
<1>1. UNCHANGED <<curIdx, buffer, push, log, overlapped>>
  BY DEF clientSteps, Notify, Replay, ReplayEnd, Register, Sent, Return, Cancel, history
<1>2. PushType'
  BY <1>0, <1>1 DEF PushType, loaded
<1>3. DispType'
  <2>1. CASE UNCHANGED <<watchers, disp, crashed>>
    BY <1>0, <2>1 DEF DispType
  <2>2. CASE Register(c)
    <3>1. watchers' = Append(watchers, c) /\ UNCHANGED <<disp, crashed>>
      BY <2>2 DEF Register
    <3>2. /\ watchers' \in Seq(Clients \cup {noWatcher})
          /\ Len(watchers') = Len(watchers) + 1 /\ Len(watchers) \in Nat
      BY <1>0, <3>1 DEF DispType
    <3>3. disp.i <= Len(watchers') + 1
      BY <1>0, <3>2 DEF DispType
    <3> QED
      BY <1>0, <3>1, <3>2, <3>3 DEF DispType
  <2> QED
    BY <2>1, <2>2 DEF clientSteps, Notify, Replay, ReplayEnd, Sent, Return, Cancel
<1>4. ASSUME NEW x \in ClientRecords, client' = [client EXCEPT ![c] = x],
             rlocked' \subseteq Clients, disturbed' \subseteq Clients,
             UNCHANGED <<cancelled, live>>, replayed' \in [Clients -> Seq(Notif \cup {Nil})],
             upto' \in [Clients -> 0..MaxPushes]
      PROVE  ClientType'
  BY <1>0, <1>t, <1>4 DEF ClientType
<1>5. CASE \E from \in Froms : Notify(c, from)
  <2>1. PICK from \in Froms : Notify(c, from)
    BY <1>5
  <2>2. [pc |-> "replay", from |-> from, i |-> startIdx(from)] \in ClientRecords
    BY <1>0, StartType DEF ClientRecords
  <2>3. rlocked' \subseteq Clients /\ disturbed' \subseteq Clients
    BY <1>0, <2>1 DEF Notify, ClientType
  <2>4. ClientType'
    BY <1>0, <1>4, <2>1, <2>2, <2>3 DEF Notify, ClientType
  <2> QED
    BY <1>2, <1>3, <2>4 DEF TypeInv
<1>6. CASE Replay(c)
  <2> DEFINE entry == buffer[client[c].i % BufferSize]
             matches == isFilter(entry, Filters[c])
  <2>1. client[c].i \in 0..(IndexMod - 1) /\ client[c].i + 1 \in 0..(IndexMod - 1)
    BY <1>0, <1>t, <1>6, NotifyAssumption DEF Replay, PushType, ClientRecords
  <2>2. entry \in Notif \cup {Nil}
    <3>1. client[c].i % BufferSize \in 0..(BufferSize - 1)
      <4>1. client[c].i \in Nat /\ BufferSize \in Nat \ {0}
        BY <2>1, NotifyAssumption
      <4> QED
        BY <4>1, SlotInBuffer
    <3> QED
      BY <1>0, <3>1 DEF PushType
  <2>3. /\ rlocked' \subseteq Clients /\ disturbed' \subseteq Clients /\ UNCHANGED <<cancelled, live>>
        /\ upto' \in [Clients -> 0..MaxPushes]
    BY <1>0, <1>6 DEF Replay, ClientType, history
  <2>4. CASE matches /\ c \in cancelled
    <3>1. client' = [client EXCEPT ![c] = [client[c] EXCEPT !.pc = "returned"]] /\ UNCHANGED replayed
      BY <1>6, <2>4 DEF Replay
    <3>2. [client[c] EXCEPT !.pc = "returned"] \in ClientRecords
      BY <1>t DEF ClientRecords
    <3> QED
      BY <1>0, <1>2, <1>3, <1>4, <2>3, <3>1, <3>2 DEF TypeInv, ClientType
  <2>5. CASE ~(matches /\ c \in cancelled)
    <3>1. /\ client' = [client EXCEPT ![c] = [client[c] EXCEPT !.i = @ + 1]]
          /\ replayed' = [replayed EXCEPT ![c] = IF matches THEN Append(@, entry) ELSE @]
      BY <1>6, <2>5 DEF Replay
    <3>2. [client[c] EXCEPT !.i = @ + 1] \in ClientRecords
      BY <1>t, <2>1 DEF ClientRecords
    <3> HIDE DEF entry, matches
    <3>3. replayed' \in [Clients -> Seq(Notif \cup {Nil})]
      <4>1. Append(replayed[c], entry) \in Seq(Notif \cup {Nil}) /\ replayed[c] \in Seq(Notif \cup {Nil})
        BY <1>0, <2>2 DEF ClientType
      <4> QED
        BY <1>0, <3>1, <4>1 DEF ClientType
    <3> QED
      BY <1>0, <1>2, <1>3, <1>4, <2>3, <3>1, <3>2, <3>3 DEF TypeInv
  <2> QED
    BY <2>4, <2>5
<1>7. CASE ReplayEnd(c)
  <2>1. client' = [client EXCEPT ![c] = [client[c] EXCEPT !.pc = "register", !.i = 0]]
    BY <1>t, <1>7 DEF ReplayEnd
  <2>2. 0 \in 0..(IndexMod - 1)
    BY NotifyAssumption
  <2>3. [client[c] EXCEPT !.pc = "register", !.i = 0] \in ClientRecords
    BY <1>t, <2>2 DEF ClientRecords
  <2>4. upto' \in [Clients -> 0..MaxPushes]
    BY <1>0, <1>7 DEF ReplayEnd, ClientType, PushType
  <2> QED
    BY <1>0, <1>2, <1>3, <1>4, <1>7, <2>1, <2>3, <2>4 DEF TypeInv, ReplayEnd, ClientType
<1>8. ASSUME NEW pc \in {"ready", "done", "returned"}, client' = [client EXCEPT ![c].pc = pc],
             UNCHANGED <<rlocked, disturbed, cancelled, live, replayed, upto>>
      PROVE  TypeInv'
  <2>1. [client[c] EXCEPT !.pc = pc] \in ClientRecords
    BY <1>t DEF ClientRecords
  <2>2. client' = [client EXCEPT ![c] = [client[c] EXCEPT !.pc = pc]]
    BY <1>8
  <2> QED
    BY <1>0, <1>2, <1>3, <1>4, <1>8, <2>1, <2>2 DEF TypeInv, ClientType
<1>9. CASE Register(c)
  BY <1>8, <1>9 DEF Register, history
<1>10. CASE Sent(c)
  BY <1>8, <1>10 DEF Sent, history
<1>11. CASE Return(c)
  BY <1>8, <1>11 DEF Return, history
<1>12. CASE Cancel(c)
  BY <1>0, <1>2, <1>3, <1>12 DEF TypeInv, Cancel, ClientType, history
<1> QED
  BY <1>5, <1>6, <1>7, <1>9, <1>10, <1>11, <1>12 DEF clientSteps

\* The dispatching goroutine keeps the types, whomever it removes.
LEMMA TypeDispatch ==
    ASSUME TypeInv, Dispatch \/ DispatchEnd
    PROVE  TypeInv'
<1>0. PushType /\ ClientType /\ DispType
  BY DEF TypeInv
<1>1. UNCHANGED <<curIdx, buffer, rlocked, push, cancelled, replayed, log, overlapped, disturbed, upto>>
  BY DEF Dispatch, DispatchEnd, history
<1>2. PushType'
  BY <1>0, <1>1 DEF PushType, loaded
<1> DEFINE n == Len(watchers)
<1>3. /\ watchers \in [1..n -> Clients \cup {noWatcher}] /\ DOMAIN watchers = 1..n /\ n \in Nat
      /\ watchers \in Seq(Clients \cup {noWatcher})
      /\ disp \in [pc : {"select", "range"}, notif : Notif \cup {Nil}, i : Nat \ {0}, removed : Nat]
      /\ disp.removed < disp.i /\ disp.i <= n + 1
      /\ disp.pc = "range" => disp.notif \in Notif
  BY <1>0 DEF DispType
<1>4. CASE Dispatch
  <2> DEFINE w == watchers[disp.i]
  <2>1. disp.pc = "range" /\ disp.i \in 1..n /\ disp.notif \in Notif
    BY <1>3, <1>4 DEF Dispatch
  <2>2. w \in Clients \cup {noWatcher}
    BY <1>3, <2>1
  <2>3. CASE w = noWatcher /\ crashed' = TRUE /\ UNCHANGED <<watchers, disp, client, live>>
    <3>1. ClientType'
      BY <1>0, <1>1, <2>3 DEF ClientType
    <3>2. DispType'
      BY <1>0, <2>3 DEF DispType
    <3> QED
      BY <1>2, <3>1, <3>2 DEF TypeInv
  <2>4. CASE /\ watchers' = removeWatcher(disp.i, n - disp.removed)
             /\ disp' = [disp EXCEPT !.i = @ + 1, !.removed = @ + 1]
             /\ UNCHANGED <<client, live, crashed>>
    <3>1. ClientType'
      BY <1>0, <1>1, <2>4 DEF ClientType
    <3> DEFINE length == n - disp.removed
    <3>2. length \in Int /\ length <= n
      BY <1>3
    <3>3. watchers' = [j \in 1..n |-> IF j < disp.i \/ j > length THEN watchers[j]
                                      ELSE IF j < length THEN watchers[j + 1] ELSE noWatcher]
      BY <1>3, <2>4 DEF removeWatcher
    <3> HIDE DEF n, length
    <3>4. \A j \in 1..n : j < length => j + 1 \in 1..n
      BY <1>3, <3>2
    <3>5. watchers' \in [1..n -> Clients \cup {noWatcher}]
      BY <1>3, <3>3, <3>4
    <3>6. watchers' \in Seq(Clients \cup {noWatcher}) /\ Len(watchers') = n
      BY <1>3, <3>5
    <3>7. /\ disp' \in [pc : {"select", "range"}, notif : Notif \cup {Nil}, i : Nat \ {0}, removed : Nat]
          /\ disp'.i = disp.i + 1 /\ disp'.removed = disp.removed + 1 /\ disp'.notif = disp.notif
      <4>1. disp.i + 1 \in Nat \ {0} /\ disp.removed + 1 \in Nat
        BY <1>3
      <4> QED
        BY <1>3, <2>4, <4>1
    <3>8. disp'.removed < disp'.i /\ disp'.i <= n + 1
      BY <1>3, <2>1, <3>7
    <3>9. DispType'
      BY <1>0, <2>1, <2>4, <3>6, <3>7, <3>8 DEF DispType
    <3> QED
      BY <1>2, <3>1, <3>9 DEF TypeInv
  <2>5. CASE w # noWatcher /\ offer(w) /\ disp' = [disp EXCEPT !.i = @ + 1] /\ UNCHANGED <<watchers, crashed>>
    <3>0. w \in Clients
      BY <2>2, <2>5
    <3> HIDE DEF w, n
    <3>1. ClientType'
      <4>1. CASE UNCHANGED <<client, live>>
        BY <1>0, <1>1, <4>1 DEF ClientType
      <4>2. CASE /\ client' = [client EXCEPT ![w].pc = "sending"]
                 /\ live' = [live EXCEPT ![w] = Append(@, disp.notif)]
        <5>1. client[w] \in ClientRecords /\ live[w] \in Seq(Notif)
          BY <1>0, <3>0 DEF ClientType
        <5>2. [client[w] EXCEPT !.pc = "sending"] \in ClientRecords
          BY <5>1 DEF ClientRecords
        <5>3. client' \in [Clients -> ClientRecords]
          BY <1>0, <3>0, <4>2, <5>2 DEF ClientType
        <5>4. live' \in [Clients -> Seq(Notif)]
          BY <1>0, <2>1, <3>0, <4>2, <5>1 DEF ClientType
        <5> QED
          BY <1>0, <1>1, <5>3, <5>4 DEF ClientType
      <4> QED
        BY <2>5, <4>1, <4>2 DEF offer
    <3>2. /\ disp' \in [pc : {"select", "range"}, notif : Notif \cup {Nil}, i : Nat \ {0}, removed : Nat]
          /\ disp'.i = disp.i + 1 /\ disp'.removed = disp.removed /\ disp'.notif = disp.notif
      BY <1>3, <2>5
    <3>3. disp'.removed < disp'.i /\ disp'.i <= n + 1
      BY <1>3, <2>1, <3>2
    <3>4. DispType'
      BY <1>0, <2>1, <2>5, <3>2, <3>3 DEF DispType, n
    <3> QED
      BY <1>2, <3>1, <3>4 DEF TypeInv
  <2> QED
    BY <1>4, <2>3, <2>4, <2>5 DEF Dispatch, Visit
<1>5. CASE DispatchEnd
  <2>1. ClientType'
    BY <1>0, <1>1, <1>5 DEF DispatchEnd, ClientType
  <2>2. watchers' = SubSeq(watchers, 1, n - disp.removed) /\ disp' = Select /\ UNCHANGED crashed
    BY <1>5 DEF DispatchEnd
  <2>3. n - disp.removed \in 0..n
    BY <1>3
  <2>4. watchers' \in Seq(Clients \cup {noWatcher}) /\ Len(watchers') = n - disp.removed
    BY <1>3, <2>2, <2>3, SubSeqProperties
  <2>5. DispType'
    <3>1. /\ Select \in [pc : {"select", "range"}, notif : Notif \cup {Nil}, i : Nat \ {0}, removed : Nat]
          /\ Select.pc = "select" /\ Select.i = 1 /\ Select.removed = 0
      BY DEF Select
    <3> HIDE DEF n
    <3>2. 0 < 1 /\ 1 <= Len(watchers') + 1
      BY <2>3, <2>4
    <3> QED
      BY <1>0, <2>2, <2>4, <3>1, <3>2 DEF DispType
  <2> QED
    BY <1>2, <2>1, <2>5 DEF TypeInv
<1> QED
  BY <1>4, <1>5

\* Every step keeps the types.
LEMMA TypeNext == TypeInv /\ [Next]_vars => TypeInv'
<1>1. TypeInv /\ UNCHANGED vars => TypeInv'
  BY DEF TypeInv, PushType, ClientType, DispType, vars, loaded
<1> QED
  BY <1>1, TypePush, TypeClient, TypeDispatch DEF Next

\* The state of the service keeps its types: in particular no index overflows
\* while fewer than 2^32 notifications are pushed.
THEOREM NotifyTypes == Spec => []TypeOK
  BY TypeInit, TypeNext, TypeInvTypes, PTL DEF Spec

-----------------------------------------------------------------------------
(* No notification is handed out twice *)

registered(c) == client[c].pc \in {"ready", "sending", "done"}

\* Whatever is stored, about to be dispatched or handed out has an index that
\* was given.
IndexInv ==
    /\ \A p \in Pushers : push[p].pc \in {"sending", "storing"} => push[p].notif.next <= curIdx
    /\ \A x \in 0..(BufferSize - 1) : buffer[x] \in Notif => buffer[x].next <= curIdx
    /\ \A c \in Clients : \A n \in sent(replayed, c) \cup sent(live, c) : n \in Notif => n.next <= curIdx
    /\ disp.pc = "range" => disp.notif.next <= curIdx

\* What is not taken yet is not in the buffer, and nobody was sent it.
FreshInv ==
    \A p \in Pushers : push[p].pc = "sending" =>
        /\ \A x \in 0..(BufferSize - 1) : buffer[x] # push[p].notif
        /\ \A c \in Clients : push[p].notif \notin sent(replayed, c) \cup sent(live, c)
        /\ disp.pc = "range" => push[p].notif # disp.notif

\* The array of watchers has registered clients, none of them twice.
WatchInv ==
    /\ \A j \in DOMAIN watchers : watchers[j] # noWatcher => registered(watchers[j])
    /\ \A j, k \in DOMAIN watchers : watchers[j] # noWatcher /\ watchers[j] = watchers[k] => j = k

\* What is being dispatched was replayed to no watcher, and whoever was handed
\* it is not met again in the rest of the range.
HandedInv ==
    /\ disp.pc = "range" =>
          \A c \in Clients :
              /\ registered(c) => disp.notif \notin sent(replayed, c)
              /\ disp.notif \in sent(live, c) => \A j \in DOMAIN watchers : j >= disp.i => watchers[j] # c
    /\ \A c \in Clients : ~registered(c) => live[c] = <<>>

TwiceInv == IndexInv /\ FreshInv /\ WatchInv /\ HandedInv /\ NotTwice

\* Initially nothing was sent.
LEMMA TwiceInit == Init => TwiceInv
<1> SUFFICES ASSUME Init PROVE TwiceInv
  OBVIOUS
<1>1. \A p \in Pushers : push[p].pc = "idle"
  BY DEF Init, Idle
<1>2. \A c \in Clients : /\ sent(replayed, c) = {} /\ sent(live, c) = {} /\ DOMAIN live[c] = {}
                         /\ client[c].pc = "idle" /\ live[c] = <<>>
  BY DEF Init, sent
<1>3. disp.pc = "select" /\ DOMAIN watchers = {}
  BY DEF Init, Select
<1>4. IndexInv
  <2>1. \A x \in 0..(BufferSize - 1) : buffer[x] = Nil
    BY DEF Init
  <2>2. Nil \notin Notif
    BY DEF Nil, Notif
  <2> QED
    BY <1>1, <1>2, <1>3, <2>1, <2>2 DEF IndexInv
<1>5. FreshInv /\ WatchInv /\ HandedInv /\ NotTwice
  BY <1>1, <1>2, <1>3 DEF FreshInv, WatchInv, HandedInv, NotTwice, registered
<1> QED
  BY <1>4, <1>5 DEF TwiceInv

\* A push takes a new index, is dispatched, and only then stored.
LEMMA TwicePush ==
    ASSUME TypeInv, TwiceInv, NEW p \in Pushers, pushSteps(p)
    PROVE  TwiceInv'
<1>0. PushType /\ ClientType /\ DispType
  BY DEF TypeInv
<1>i. IndexInv /\ FreshInv /\ WatchInv /\ HandedInv /\ NotTwice
  BY DEF TwiceInv
<1>t. push[p] \in PushRecords /\ push \in [Pushers -> PushRecords] /\ curIdx \in Int
  BY <1>0 DEF PushType
<1>u. UNCHANGED <<replayed, live, client, watchers>>
  BY DEF pushSteps, PushLoad, PushAdd, PushSend, PushStore
<1>s. /\ \A c \in Clients : sent(replayed', c) = sent(replayed, c) /\ sent(live', c) = sent(live, c)
      /\ \A c \in Clients : registered(c)' <=> registered(c)
  BY <1>u DEF sent, registered
<1>n. NotTwice' /\ WatchInv'
  <2>1. NotTwice'
    BY <1>i, <1>s, <1>u DEF NotTwice
  <2> QED
    BY <1>i, <1>u, <2>1 DEF WatchInv, registered
<1>q. \A q \in Pushers : push[q].pc \in {"sending", "storing"} =>
         push[q].notif \in Notif /\ push[q].notif.by = q /\ push[q].notif.next \in Int
  BY <1>0 DEF PushType, Notif
<1>1. CASE PushLoad(p)
  <2>1. /\ push'[p].pc = "loaded" /\ \A q \in Pushers \ {p} : push'[q] = push[q]
        /\ UNCHANGED <<curIdx, buffer, disp>>
    BY <1>t, <1>1 DEF PushLoad
  <2>2. IndexInv'
    BY <1>i, <1>s, <2>1 DEF IndexInv
  <2>3. FreshInv'
    BY <1>i, <1>s, <2>1 DEF FreshInv
  <2>4. HandedInv'
    BY <1>i, <1>s, <1>u, <2>1 DEF HandedInv
  <2> QED
    BY <1>n, <2>2, <2>3, <2>4 DEF TwiceInv
<1>2. CASE PushAdd(p)
  <2>1. curIdx' = curIdx + 1 /\ curIdx + 1 \in 1..MaxPushes
    BY <1>0, <1>2, AddIndex
  <2> DEFINE n == [next |-> curIdx + 1, by |-> p]
  <2>2. /\ push'[p].pc = "sending" /\ push'[p].notif = n
        /\ \A q \in Pushers \ {p} : push'[q] = push[q]
        /\ UNCHANGED <<buffer, disp>>
    BY <1>t, <1>2, <2>1 DEF PushAdd, PushRecords
  <2>3. n.next = curIdx + 1 /\ n \in Notif
    BY <2>1 DEF Notif
  <2> HIDE DEF n
  <2>4. IndexInv'
    <3>1. \A q \in Pushers : push'[q].pc \in {"sending", "storing"} => push'[q].notif.next <= curIdx'
      BY <1>t, <1>i, <1>q, <2>1, <2>2, <2>3 DEF IndexInv
    <3>2. \A x \in 0..(BufferSize - 1) : buffer'[x] \in Notif => buffer'[x].next <= curIdx'
      <4>1. \A x \in 0..(BufferSize - 1) : buffer[x] \in Notif => buffer[x].next \in Int
        BY DEF Notif
      <4> QED
        BY <1>t, <1>i, <2>1, <2>2, <4>1 DEF IndexInv
    <3>3. \A c \in Clients : \A m \in sent(replayed, c) \cup sent(live, c) : m \in Notif => m.next <= curIdx'
      <4>1. \A m \in Notif : m.next \in Int
        BY DEF Notif
      <4> QED
        BY <1>t, <1>i, <2>1, <4>1 DEF IndexInv
    <3>4. disp.pc = "range" => disp.notif.next <= curIdx'
      BY <1>0, <1>t, <1>i, <2>1 DEF IndexInv, DispType, Notif
    <3> QED
      BY <1>s, <2>2, <3>1, <3>2, <3>3, <3>4 DEF IndexInv
  <2>5. FreshInv'
    <3>1. \A x \in 0..(BufferSize - 1) : buffer[x] # n
      BY <1>t, <1>i, <2>3 DEF IndexInv
    <3>2. \A c \in Clients : n \notin sent(replayed, c) \cup sent(live, c)
      BY <1>t, <1>i, <2>3 DEF IndexInv
    <3>3. disp.pc = "range" => n # disp.notif
      BY <1>t, <1>i, <2>3 DEF IndexInv
    <3> QED
      BY <1>i, <1>s, <2>2, <3>1, <3>2, <3>3 DEF FreshInv
  <2>6. HandedInv'
    BY <1>i, <1>s, <1>u, <2>2 DEF HandedInv
  <2> QED
    BY <1>n, <2>4, <2>5, <2>6 DEF TwiceInv
<1>3. CASE PushSend(p)
  <2>1. /\ push[p].pc = "sending" /\ push'[p].pc = "storing" /\ push'[p].notif = push[p].notif
        /\ \A q \in Pushers \ {p} : push'[q] = push[q]
        /\ UNCHANGED <<curIdx, buffer>> /\ disp'.notif = push[p].notif
    BY <1>t, <1>3 DEF PushSend, PushRecords, Select
  <2>2. IndexInv'
    BY <1>i, <1>s, <2>1 DEF IndexInv
  <2>3. FreshInv'
    BY <1>i, <1>q, <1>s, <2>1 DEF FreshInv
  <2>4. HandedInv'
    BY <1>i, <1>s, <1>u, <2>1 DEF HandedInv, FreshInv
  <2> QED
    BY <1>n, <2>2, <2>3, <2>4 DEF TwiceInv
<1>4. CASE PushStore(p)
  <2> DEFINE slot == push[p].idx % BufferSize
  <2>1. /\ push[p].pc = "storing" /\ push'[p].pc = "idle"
        /\ \A q \in Pushers \ {p} : push'[q] = push[q]
        /\ UNCHANGED <<curIdx, disp>>
    BY <1>t, <1>4 DEF PushStore, Idle
  <2>2. \A x \in 0..(BufferSize - 1) : buffer'[x] = push[p].notif \/ buffer'[x] = buffer[x]
    BY <1>0, <1>4 DEF PushStore, PushType
  <2>3. IndexInv'
    BY <1>i, <1>s, <2>1, <2>2 DEF IndexInv
  <2>4. \A q \in Pushers : push'[q].pc = "sending" => push'[q].notif # push[p].notif
    BY <1>q, <2>1
  <2>5. FreshInv'
    BY <1>i, <1>s, <2>1, <2>2, <2>4 DEF FreshInv
  <2>6. HandedInv'
    BY <1>i, <1>s, <1>u, <2>1 DEF HandedInv
  <2> QED
    BY <1>n, <2>3, <2>5, <2>6 DEF TwiceInv
<1> QED
  BY <1>1, <1>2, <1>3, <1>4 DEF pushSteps

\* A client is registered only when nothing is being dispatched.
LEMMA TwiceClient ==
    ASSUME TypeInv, TwiceInv, NEW c \in Clients, clientSteps(c)
    PROVE  TwiceInv'
<1>0. PushType /\ ClientType /\ DispType
  BY DEF TypeInv
<1>i. IndexInv /\ FreshInv /\ WatchInv /\ HandedInv /\ NotTwice
  BY DEF TwiceInv
<1>u. UNCHANGED <<curIdx, buffer, push, disp, live>>
  BY DEF clientSteps, Notify, Replay, ReplayEnd, Register, Sent, Return, Cancel, history
<1>t. client[c] \in ClientRecords /\ client \in [Clients -> ClientRecords]
  BY <1>0 DEF ClientType
<1>1. \A d \in Clients \ {c} : client'[d] = client[d]
  BY <1>t DEF clientSteps, Notify, Replay, ReplayEnd, Register, Sent, Return, Cancel
<1>n. /\ \A d \in Clients : d \in Clients /\ registered(d) => registered(d)'
      /\ Register(c) => ~registered(c) /\ registered(c)' /\ disp.pc = "select"
      /\ ~Register(c) => UNCHANGED watchers /\ (registered(c)' => registered(c))
  <2>1. registered(c) => registered(c)'
    BY <1>t DEF clientSteps, Notify, Replay, ReplayEnd, Register, Sent, Return, Cancel, registered,
       ClientRecords
  <2>2. \A d \in Clients \ {c} : registered(d)' <=> registered(d)
    BY <1>1 DEF registered
  <2>3. Register(c) => ~registered(c) /\ registered(c)' /\ disp.pc = "select"
    BY <1>t DEF Register, registered, ClientRecords
  <2>4. ~Register(c) => UNCHANGED watchers
    BY DEF clientSteps, Notify, Replay, ReplayEnd, Sent, Return, Cancel
  <2>5. ~Register(c) /\ registered(c)' => registered(c)
    BY <1>t DEF clientSteps, Notify, Replay, ReplayEnd, Sent, Return, Cancel, registered, ClientRecords
  <2> QED
    BY <2>1, <2>2, <2>3, <2>4, <2>5
<1>w. WatchInv'
  <2>0. watchers \in Seq(Clients \cup {noWatcher})
    BY <1>0 DEF DispType
  <2> DEFINE n == Len(watchers)
  <2>1. n \in Nat /\ DOMAIN watchers = 1..n /\ \A j \in 1..n : watchers[j] \in Clients \cup {noWatcher}
    BY <2>0
  <2>2. CASE ~Register(c)
    BY <1>i, <1>n, <2>1, <2>2 DEF WatchInv
  <2>3. CASE Register(c)
    <3>1. watchers' = Append(watchers, c)
      BY <2>3 DEF Register
    <3>2. /\ DOMAIN watchers' = 1..(n + 1) /\ watchers'[n + 1] = c
          /\ \A j \in 1..n : watchers'[j] = watchers[j]
      BY <2>0, <3>1
    <3>3. \A j \in 1..(n + 1) : j \in 1..n \/ j = n + 1
      BY <2>1
    <3>4. \A j \in 1..n : watchers[j] # c
      BY <1>i, <1>n, <2>1, <2>3, NotifyAssumption DEF WatchInv
    <3> HIDE DEF n
    <3> QED
      BY <1>i, <1>n, <2>1, <2>3, <3>2, <3>3, <3>4 DEF WatchInv
  <2> QED
    BY <2>2, <2>3
<1>2. CASE UNCHANGED replayed
  <2>1. \A d \in Clients : sent(replayed', d) = sent(replayed, d) /\ sent(live', d) = sent(live, d)
    BY <1>u, <1>2 DEF sent
  <2>2. IndexInv' /\ FreshInv' /\ NotTwice'
    BY <1>i, <1>u, <2>1 DEF IndexInv, FreshInv, NotTwice
  <2>5. \A d \in Clients \ {c} : registered(d)' <=> registered(d)
    BY <1>1 DEF registered
  <2>6. HandedInv'
    <3>1. CASE Register(c)
      BY <1>i, <1>n, <1>u, <2>5, <3>1 DEF HandedInv
    <3>2. CASE ~Register(c)
      BY <1>i, <1>n, <1>u, <2>1, <2>5, <3>2 DEF HandedInv
    <3> QED
      BY <3>1, <3>2
  <2> QED
    BY <1>w, <2>2, <2>6 DEF TwiceInv
<1>3. CASE replayed' # replayed
  <2>1. Replay(c)
    BY <1>3 DEF clientSteps, Notify, ReplayEnd, Register, Sent, Return, Cancel
  <2> DEFINE slot == client[c].i % BufferSize
             entry == buffer[slot]
  <2>2. slot \in 0..(BufferSize - 1)
    <3>1. client[c].i \in Nat /\ BufferSize \in Nat \ {0}
      BY <1>t, NotifyAssumption DEF ClientRecords
    <3> QED
      BY <3>1, SlotInBuffer
  <2>3. /\ client[c].pc = "replay" /\ client'[c].pc = "replay"
        /\ replayed' = [replayed EXCEPT ![c] = Append(@, entry)]
    <3>1. client[c].pc = "replay" /\ client' = [client EXCEPT ![c].i = @ + 1]
      BY <1>3, <2>1 DEF Replay
    <3>2. replayed' = [replayed EXCEPT ![c] = Append(@, entry)] \/ replayed' = [replayed EXCEPT ![c] = @]
      BY <1>3, <2>1 DEF Replay
    <3>3. [replayed EXCEPT ![c] = @] = replayed
      BY <1>0 DEF ClientType
    <3> QED
      BY <1>t, <1>3, <3>1, <3>2, <3>3 DEF ClientRecords
  <2>4. entry \in Notif \cup {Nil}
    BY <1>0, <2>2 DEF PushType
  <2> HIDE DEF slot, entry
  <2>5. replayed[c] \in Seq(Notif \cup {Nil}) /\ replayed'[c] = Append(replayed[c], entry)
        /\ \A d \in Clients \ {c} : replayed'[d] = replayed[d]
    BY <1>0, <2>3 DEF ClientType
  <2>6. sent(replayed', c) = sent(replayed, c) \cup {entry}
    <3>1. ASSUME NEW T, NEW e \in T, replayed[c] \in Seq(T), replayed'[c] = Append(replayed[c], e)
          PROVE  sent(replayed', c) = sent(replayed, c) \cup {e}
      BY <3>1, SentAppend
    <3> QED
      BY <2>4, <2>5, <3>1
  <2>7. \A d \in Clients \ {c} : sent(replayed', d) = sent(replayed, d)
    BY <2>5 DEF sent
  <2>8. IndexInv'
    BY <1>i, <1>u, <2>2, <2>6, <2>7 DEF IndexInv, entry
  <2>9. FreshInv'
    BY <1>i, <1>u, <2>2, <2>6, <2>7 DEF FreshInv, entry
  <2>10. ~registered(c) /\ ~registered(c)' /\ \A d \in Clients \ {c} : registered(d)' <=> registered(d)
    BY <1>1, <2>3 DEF registered
  <2>11. HandedInv'
    <3>1. ~Register(c)
      BY <2>3 DEF Register
    <3>2. \A d \in Clients : sent(live', d) = sent(live, d)
      BY <1>u DEF sent
    <3> QED
      BY <1>i, <1>n, <1>u, <2>7, <2>10, <3>1, <3>2 DEF HandedInv
  <2>12. NotTwice'
    <3>1. sent(live', c) = {}
      BY <1>i, <1>u, <2>10 DEF HandedInv, sent
    <3>2. \A d \in Clients : sent(live', d) = sent(live, d)
      BY <1>u DEF sent
    <3> QED
      BY <1>i, <1>u, <2>7, <3>1, <3>2 DEF NotTwice
  <2> QED
    BY <1>w, <2>8, <2>9, <2>11, <2>12 DEF TwiceInv
<1> QED
  BY <1>2, <1>3

\* Watchers are only moved to the front of the range or dropped.
LEMMA WatchersMove ==
    ASSUME DispType, Dispatch \/ DispatchEnd
    PROVE  /\ DOMAIN watchers' \subseteq DOMAIN watchers
           /\ \A j \in DOMAIN watchers' : watchers'[j] # noWatcher =>
                 \E k \in DOMAIN watchers : k >= j /\ watchers'[j] = watchers[k]
           /\ \A j, k \in DOMAIN watchers' :
                 watchers'[j] # noWatcher /\ watchers'[j] = watchers'[k] /\ j # k =>
                    \E x, y \in DOMAIN watchers :
                       x # y /\ watchers[x] = watchers'[j] /\ watchers[y] = watchers'[k]
<1> DEFINE n == Len(watchers)  i == disp.i  length == n - disp.removed
<1>1. /\ watchers \in Seq(Clients \cup {noWatcher}) /\ DOMAIN watchers = 1..n /\ n \in Nat
      /\ i \in Nat \ {0} /\ disp.removed \in Nat /\ disp.removed < i /\ i <= n + 1
  BY DEF DispType
<1>2. length \in Int /\ length <= n
  BY <1>1
<1>3. CASE UNCHANGED watchers
  BY <1>1, <1>3
<1>4. CASE watchers' = removeWatcher(i, length)
  <2>1. watchers' = [j \in 1..n |-> IF j < i \/ j > length THEN watchers[j]
                                    ELSE IF j < length THEN watchers[j + 1] ELSE noWatcher]
    BY <1>1, <1>4 DEF removeWatcher
  <2> DEFINE old(j) == IF j < i \/ j > length THEN j ELSE j + 1
  <2> HIDE DEF n, i, length
  <2>2. \A j \in 1..n : watchers'[j] # noWatcher =>
           old(j) \in 1..n /\ old(j) >= j /\ watchers'[j] = watchers[old(j)]
    BY <1>1, <1>2, <2>1
  <2>3. \A j, k \in 1..n : j # k /\ watchers'[j] # noWatcher /\ watchers'[k] # noWatcher => old(j) # old(k)
    BY <1>1, <1>2, <2>1
  <2>4. DOMAIN watchers' = 1..n
    BY <2>1
  <2> HIDE DEF old
  <2> QED
    BY <1>1, <2>2, <2>3, <2>4
<1>5. CASE DispatchEnd
  <2>1. watchers' = SubSeq(watchers, 1, length)
    BY <1>5 DEF DispatchEnd
  <2>2. length \in 0..n
    BY <1>1, <1>2
  <2> HIDE DEF length
  <2>3. DOMAIN watchers' = 1..length /\ \A j \in 1..length : watchers'[j] = watchers[j]
    BY <1>1, <2>1, <2>2
  <2>4. \A j \in 1..length : j \in 1..n /\ j >= j
    BY <1>1, <2>2
  <2> QED
    BY <1>1, <2>3, <2>4
<1> QED
  BY <1>3, <1>4, <1>5 DEF Dispatch, Visit

\* A watcher is handed what it was not replayed and was not handed before.
LEMMA TwiceDispatch ==
    ASSUME TypeInv, TwiceInv, Dispatch \/ DispatchEnd
    PROVE  TwiceInv'
<1>0. PushType /\ ClientType /\ DispType
  BY DEF TypeInv
<1>i. IndexInv /\ FreshInv /\ WatchInv /\ HandedInv /\ NotTwice
  BY DEF TwiceInv
<1>u. UNCHANGED <<curIdx, buffer, push, replayed>>
  BY DEF Dispatch, DispatchEnd
<1>s. \A d \in Clients : sent(replayed', d) = sent(replayed, d)
  BY <1>u DEF sent
<1>d. /\ watchers \in Seq(Clients \cup {noWatcher}) /\ DOMAIN watchers = 1..Len(watchers)
      /\ Len(watchers) \in Nat /\ disp.i \in Nat \ {0}
      /\ \A j \in DOMAIN watchers : watchers[j] \in Clients \cup {noWatcher}
  <2>1. watchers \in Seq(Clients \cup {noWatcher})
    BY <1>0 DEF DispType
  <2> QED
    BY <1>0, <2>1 DEF DispType
<1>2. disp'.pc = "range" => disp.pc = "range" /\ disp'.notif = disp.notif /\ disp'.i \in {disp.i, disp.i + 1}
  <2>1. CASE Dispatch
    BY <1>0, <2>1 DEF Dispatch, Visit, DispType
  <2>2. CASE DispatchEnd
    BY <2>2 DEF DispatchEnd, Select
  <2> QED
    BY <2>1, <2>2
<1>m. /\ DOMAIN watchers' \subseteq DOMAIN watchers
      /\ \A j \in DOMAIN watchers' : watchers'[j] # noWatcher =>
            \E k \in DOMAIN watchers : k >= j /\ watchers'[j] = watchers[k]
      /\ \A j, k \in DOMAIN watchers' :
            watchers'[j] # noWatcher /\ watchers'[j] = watchers'[k] /\ j # k =>
               \E x, y \in DOMAIN watchers :
                  x # y /\ watchers[x] = watchers'[j] /\ watchers[y] = watchers'[k]
  BY <1>0, WatchersMove
<1>w. ASSUME \A d \in Clients : registered(d)' <=> registered(d) PROVE WatchInv'
  <2>1. \A j \in DOMAIN watchers' : watchers'[j] # noWatcher =>
                                        client'[watchers'[j]].pc \in {"ready", "sending", "done"}
    BY <1>d, <1>i, <1>m, <1>w DEF WatchInv, registered
  <2>2. \A j, k \in DOMAIN watchers' : watchers'[j] # noWatcher /\ watchers'[j] = watchers'[k] => j = k
    BY <1>i, <1>m DEF WatchInv
  <2> QED
    BY <2>1, <2>2 DEF WatchInv, registered
\* whoever is not in the rest of the range is not in the rest of the new one
<1>r. ASSUME NEW c \in Clients, disp'.pc = "range", \A j \in DOMAIN watchers : j >= disp.i => watchers[j] # c
      PROVE  \A j \in DOMAIN watchers' : j >= disp'.i => watchers'[j] # c
  <2>1. disp'.i \in Int /\ disp'.i >= disp.i
    BY <1>d, <1>r, <1>2
  <2>2. \A j, k \in DOMAIN watchers : k >= j /\ j >= disp'.i => k >= disp.i
    BY <1>d, <2>1
  <2>3. c # noWatcher
    BY NotifyAssumption
  <2> QED
    BY <1>m, <1>r, <2>2, <2>3
<1>3. CASE UNCHANGED <<client, live>>
  <2>0. /\ \A d \in Clients : registered(d)' <=> registered(d)
        /\ \A d \in Clients : sent(live', d) = sent(live, d)
    BY <1>3 DEF registered, sent
  <2>1. HandedInv'
    BY <1>i, <1>r, <1>s, <1>2, <1>3, <2>0 DEF HandedInv
  <2>2. NotTwice'
    BY <1>i, <1>s, <1>3, <2>0 DEF NotTwice
  <2>3. IndexInv' /\ FreshInv'
    BY <1>i, <1>u, <1>s, <1>2, <2>0 DEF IndexInv, FreshInv
  <2> QED
    BY <1>w, <2>0, <2>1, <2>2, <2>3 DEF TwiceInv
<1>4. CASE ~UNCHANGED <<client, live>>
  <2> DEFINE w == watchers[disp.i]
  <2>1. /\ disp.pc = "range" /\ w # noWatcher /\ disp.i <= Len(watchers)
        /\ client[w].pc = "ready" /\ client' = [client EXCEPT ![w].pc = "sending"]
        /\ live' = [live EXCEPT ![w] = Append(@, disp.notif)]
        /\ disp' = [disp EXCEPT !.i = @ + 1] /\ UNCHANGED watchers
    BY <1>4 DEF Dispatch, DispatchEnd, Visit, offer
  <2>2. w \in Clients /\ disp.notif \in Notif /\ disp.i \in DOMAIN watchers
    BY <1>0, <1>d, <2>1 DEF DispType
  <2>h. \A j \in DOMAIN watchers : j >= disp.i + 1 => watchers[j] # w
    <3>1. \A j \in DOMAIN watchers : j >= disp.i + 1 => j # disp.i
      BY <1>d
    <3> QED
      BY <1>i, <2>1, <2>2, <3>1 DEF WatchInv
  <2>f. disp.notif \notin sent(live, w)
    BY <1>d, <1>i, <2>1, <2>2 DEF HandedInv
  <2> HIDE DEF w
  <2>3. live[w] \in Seq(Notif) /\ live'[w] = Append(live[w], disp.notif)
        /\ \A d \in Clients \ {w} : live'[d] = live[d]
    BY <1>0, <2>1, <2>2 DEF ClientType
  <2>4. /\ sent(live', w) = sent(live, w) \cup {disp.notif}
        /\ DOMAIN live'[w] = 1..(Len(live[w]) + 1) /\ DOMAIN live[w] = 1..Len(live[w])
        /\ live'[w][Len(live[w]) + 1] = disp.notif
        /\ \A j \in 1..Len(live[w]) : live'[w][j] = live[w][j]
    <3>1. ASSUME NEW T, NEW e \in T, live[w] \in Seq(T), live'[w] = Append(live[w], e)
          PROVE  /\ sent(live', w) = sent(live, w) \cup {e}
                 /\ DOMAIN live'[w] = 1..(Len(live[w]) + 1) /\ DOMAIN live[w] = 1..Len(live[w])
                 /\ live'[w][Len(live[w]) + 1] = e
                 /\ \A j \in 1..Len(live[w]) : live'[w][j] = live[w][j]
      <4>1. sent(live', w) = sent(live, w) \cup {e}
        BY <3>1, SentAppend
      <4> QED
        BY <3>1, <4>1
    <3> QED
      BY <2>2, <2>3, <3>1
  <2>5. \A d \in Clients \ {w} : sent(live', d) = sent(live, d)
    BY <2>3 DEF sent
  <2>6. registered(w) /\ \A d \in Clients : registered(d)' <=> registered(d)
    BY <1>0, <2>1, <2>2 DEF registered, ClientType, ClientRecords
  <2>i. disp'.i = disp.i + 1 /\ disp'.notif = disp.notif
    BY <1>0, <2>1 DEF DispType
  <2>7. HandedInv'
    <3>1. ASSUME NEW c \in Clients, disp'.pc = "range", disp.notif \in sent(live', c)
          PROVE  \A j \in DOMAIN watchers' : j >= disp'.i => watchers'[j] # c
      <4>1. CASE c = w
        BY <2>1, <2>h, <2>i, <4>1
      <4>2. CASE c # w
        BY <1>i, <1>r, <2>1, <2>5, <3>1, <4>2 DEF HandedInv
      <4> QED
        BY <4>1, <4>2
    <3>2. \A c \in Clients : registered(c)' => disp'.notif \notin sent(replayed', c)
      BY <1>i, <1>s, <2>1, <2>6, <2>i DEF HandedInv
    <3>3. \A c \in Clients : ~registered(c)' => live'[c] = <<>>
      BY <1>i, <2>3, <2>6 DEF HandedInv
    <3> QED
      BY <2>i, <3>1, <3>2, <3>3 DEF HandedInv
  <2>8. NotTwice'
    <3>1. \A c \in Clients : sent(replayed', c) \cap sent(live', c) = {}
      <4>1. disp.notif \notin sent(replayed, w)
        BY <1>i, <2>1, <2>2, <2>6 DEF HandedInv
      <4>2. \A c \in Clients : sent(replayed, c) \cap sent(live, c) = {}
        BY <1>i DEF NotTwice
      <4> QED
        BY <1>s, <2>2, <2>4, <2>5, <4>1, <4>2
    <3>2. \A j, k \in DOMAIN live'[w] : live'[w][j] = live'[w][k] => j = k
      <4> DEFINE l == Len(live[w])
      <4>1. l \in Nat
        BY <2>3
      <4>2. \A j \in 1..(l + 1) : j \in 1..l \/ j = l + 1
        BY <4>1
      <4>3. \A j \in 1..l : live[w][j] # disp.notif
        BY <2>4, <2>f DEF sent
      <4>4. \A j, k \in 1..l : live[w][j] = live[w][k] => j = k
        BY <1>i, <2>2, <2>4 DEF NotTwice
      <4> HIDE DEF l
      <4>5. DOMAIN live'[w] = 1..(l + 1) /\ live'[w][l + 1] = disp.notif
            /\ \A j \in 1..l : live'[w][j] = live[w][j]
        BY <2>4 DEF l
      <4> QED
        BY <4>2, <4>3, <4>4, <4>5
    <3>3. \A c \in Clients \ {w} : \A j, k \in DOMAIN live'[c] : live'[c][j] = live'[c][k] => j = k
      BY <1>i, <2>3 DEF NotTwice
    <3> QED
      BY <3>1, <3>2, <3>3 DEF NotTwice
  <2>9. IndexInv'
    <3>1. disp.notif.next <= curIdx
      BY <1>i, <2>1 DEF IndexInv
    <3> QED
      BY <1>i, <1>s, <1>u, <2>4, <2>5, <2>i, <3>1 DEF IndexInv
  <2>10. FreshInv'
    <3>1. \A q \in Pushers : push[q].pc = "sending" => push[q].notif # disp.notif
      BY <1>i, <2>1 DEF FreshInv
    <3> QED
      BY <1>i, <1>s, <1>u, <2>4, <2>5, <2>i, <3>1 DEF FreshInv
  <2> QED
    BY <1>w, <2>6, <2>7, <2>8, <2>9, <2>10 DEF TwiceInv
<1> QED
  BY <1>3, <1>4

\* Every step keeps what makes replay and dispatch exclude each other.
LEMMA TwiceNext == TypeInv /\ TwiceInv /\ [Next]_vars => TwiceInv'
<1>1. TwiceInv /\ UNCHANGED vars => TwiceInv'
  BY SMTT(30) DEF TwiceInv, IndexInv, FreshInv, WatchInv, HandedInv, NotTwice, registered, sent, vars
<1> QED
  BY <1>1, TwicePush, TwiceClient, TwiceDispatch DEF Next

\* No watcher is handed a notification twice, nor one that it was replayed
\* (NotTwice), for any number of plugins, clients and slots of the buffer,
\* whatever overlaps and whoever leaves during a dispatch.
THEOREM NothingTwice == Spec => []NotTwice
<1>1. TwiceInv => NotTwice
  BY DEF TwiceInv
<1> QED
  BY <1>1, TypeInit, TypeNext, TwiceInit, TwiceNext, PTL DEF Spec

-----------------------------------------------------------------------------
(* The replay is exact *)

inHand(p) == push[p].pc \in {"sending", "storing"}

\* Pushes that come one after the other have consecutive indexes.
OneInv ==
    /\ Len(log) = curIdx
    /\ ~overlapped =>
          /\ \A p, q \in pushing : p = q
          /\ \A p \in Pushers : push[p].pc = "loaded" => push[p].idx = curIdx
          /\ \A p \in Pushers : inHand(p) => /\ push[p].idx + 1 = curIdx
                                             /\ push[p].notif = notification(curIdx)

\* The buffer has the last notifications, but for the one in hand.
BufferInv ==
    ~overlapped =>
        \A j \in Nat : j < curIdx /\ curIdx - BufferSize <= j /\ (\A p \in Pushers : inHand(p) => j + 1 # curIdx)
                          => buffer[j % BufferSize] = notification(j + 1)

\* A replay starts with nothing; a push that begins during it is noticed.
LockInv ==
    \A c \in Clients : /\ client[c].pc = "replay" => c \in rlocked
                       /\ client[c].pc = "idle" => replayed[c] = <<>>
                       /\ upto[c] <= curIdx

\* how far an undisturbed replay to c has come: to its position, or it has
\* nothing to send
progress(c) ==
    LET a == firstIdx(client[c].from, curIdx)
    IN \/ a = curIdx /\ replayed[c] = <<>> /\ client[c].i >= curIdx
       \/ client[c].i \in a..curIdx /\ replayedSegment(c, a, client[c].i)

ReplayingInv ==
    \A c \in Clients : client[c].pc = "replay" /\ c \notin disturbed /\ ~overlapped =>
        pushing = {} /\ progress(c)

ReplayInv == OneInv /\ BufferInv /\ LockInv /\ ReplayingInv /\ ReplayExact

\* Initially nothing was pushed and nobody replays.
LEMMA ReplayInit == Init => ReplayInv
<1> SUFFICES ASSUME Init PROVE ReplayInv
  OBVIOUS
<1>1. \A p \in Pushers : push[p].pc = "idle"
  BY DEF Init, Idle
<1>2. \A c \in Clients : client[c].pc = "idle" /\ replayed[c] = <<>>
  BY DEF Init
<1>3. OneInv
  <2>1. Len(log) = curIdx
    BY DEF Init
  <2> QED
    BY <1>1, <2>1 DEF OneInv, pushing, inHand
<1>4. BufferInv
  BY DEF Init, BufferInv
<1>5. LockInv /\ ReplayingInv /\ ReplayExact
  <2>1. \A c \in Clients : upto[c] <= curIdx
    BY DEF Init
  <2> QED
    BY <1>2, <2>1 DEF LockInv, ReplayingInv, ReplayExact
<1> QED
  BY <1>3, <1>4, <1>5 DEF ReplayInv

\* the replay to c was exact
exact(c) == replayedSegment(c, firstIdx(client[c].from, upto[c]), upto[c])

\* Where a replay has to start is between the oldest index and the last.
LEMMA FirstType ==
    ASSUME NEW from \in Nat, NEW b \in Nat
    PROVE  firstIdx(from, b) \in oldest(b)..b /\ firstIdx(from, b) \in Nat
  BY NotifyAssumption DEF firstIdx, oldest

\* The index a client asks for is a number.
LEMMA FromType ==
    ASSUME ClientType, NEW c \in Clients
    PROVE  client[c].from \in Nat
<1>1. client[c].from \in Froms \cup {0}
  BY DEF ClientType, ClientRecords
<1>2. Froms \subseteq 0..(IndexMod - 1) /\ IndexMod \in Nat
  BY NotifyAssumption
<1>3. \A x \in Froms : x \in Nat
  BY <1>2
<1> QED
  BY <1>1, <1>3

\* What was replayed stays the same segment while notifications are added.
LEMMA SegmentFrame ==
    ASSUME NEW c, NEW a, NEW b, replayedSegment(c, a, b), replayed'[c] = replayed[c],
           \A x \in (a + 1)..b : log'[x] = log[x]
    PROVE  replayedSegment(c, a, b)'
<1>1. \A x \in (a + 1)..b : notification(x)' = notification(x)
  BY DEF notification
<1>2. sent(replayed', c) = sent(replayed, c)
  BY DEF sent
<1>3. {n \in {notification(x)' : x \in (a + 1)..b} : isFilter(n, Filters[c])}
        = {n \in {notification(x) : x \in (a + 1)..b} : isFilter(n, Filters[c])}
  BY <1>1
<1> QED
  BY <1>2, <1>3 DEF replayedSegment

\* An exact replay stays exact.
LEMMA ExactFrame ==
    ASSUME NEW c, exact(c), curIdx \in Nat, client[c].from \in Nat, upto[c] \in Nat, upto[c] <= curIdx,
           \A x \in 1..curIdx : log'[x] = log[x], replayed'[c] = replayed[c],
           client'[c].from = client[c].from, upto'[c] = upto[c]
    PROVE  exact(c)'
<1>1. PICK b \in Nat : b = upto[c]
  OBVIOUS
<1>2. PICK a \in Nat : a = firstIdx(client[c].from, b)
  BY <1>1, FirstType
<1>3. \A x \in (a + 1)..b : x \in 1..curIdx
  BY <1>1
<1>4. replayedSegment(c, a, b)'
  BY <1>1, <1>2, <1>3, SegmentFrame DEF exact
<1>5. upto'[c] = b /\ firstIdx(client'[c].from, b) = a
  BY <1>1, <1>2
<1> QED
  BY <1>4, <1>5 DEF exact, firstIdx, oldest

\* A push leaves undisturbed replays alone, and fills the buffer in order.
LEMMA ReplayPush ==
    ASSUME TypeInv, ReplayInv, NEW p \in Pushers, pushSteps(p)
    PROVE  ReplayInv'
<1>0. PushType /\ ClientType
  BY DEF TypeInv
<1>i. OneInv /\ BufferInv /\ LockInv /\ ReplayingInv /\ ReplayExact
  BY DEF ReplayInv
<1>t. /\ push[p] \in PushRecords /\ push \in [Pushers -> PushRecords] /\ curIdx \in Nat
      /\ log \in Seq(Pushers) /\ Len(log) = curIdx
      /\ buffer \in [0..(BufferSize - 1) -> Notif \cup {Nil}] /\ BufferSize \in Nat \ {0}
  BY <1>0, <1>i, NotifyAssumption DEF PushType, OneInv
<1>u. UNCHANGED <<replayed, client, rlocked, upto>> /\ disturbed \subseteq disturbed'
  BY DEF pushSteps, PushLoad, PushAdd, PushSend, PushStore, history
<1>k. \A c \in Clients : upto[c] \in Nat /\ client[c].from \in Nat
  BY <1>0, FromType DEF ClientType
<1>l. ASSUME curIdx' \in Nat, curIdx <= curIdx' PROVE LockInv'
  BY <1>i, <1>k, <1>l, <1>t, <1>u DEF LockInv
\* what was replayed is not touched
<1>e. ASSUME curIdx' \in Nat, curIdx <= curIdx', \A x \in 1..curIdx : log'[x] = log[x],
             ~overlapped' => ~overlapped
      PROVE  ReplayExact'
  <2> SUFFICES ASSUME NEW c \in Clients, client[c].pc \in {"register", "ready", "sending"},
                      c \notin disturbed', ~overlapped'
               PROVE  exact(c)'
    BY <1>u DEF ReplayExact, exact
  <2>1. exact(c)
    BY <1>e, <1>i, <1>u DEF ReplayExact, exact
  <2> QED
    BY <1>e, <1>i, <1>k, <1>t, <1>u, <2>1, ExactFrame DEF LockInv
<1>1. CASE PushLoad(p)
  <2>1. /\ push'[p].pc = "loaded" /\ push'[p].idx = curIdx
        /\ \A q \in Pushers \ {p} : push'[q] = push[q]
        /\ UNCHANGED <<curIdx, buffer, log>> /\ overlapped' = (overlapped \/ pushing # {})
        /\ disturbed' = disturbed \cup rlocked
    BY <1>t, <1>1 DEF PushLoad
  <2>2. ~overlapped' => ~overlapped /\ \A q \in Pushers : push[q].pc = "idle"
    BY <2>1 DEF pushing
  <2>3. OneInv'
    BY <1>t, <2>1, <2>2 DEF OneInv, pushing, inHand
  <2>4. BufferInv'
    BY <1>i, <2>1, <2>2 DEF BufferInv, inHand, notification
  <2>5. ReplayingInv'
    BY <1>i, <1>u, <2>1 DEF LockInv, ReplayingInv
  <2>6. ReplayExact'
    BY <1>e, <1>t, <2>1, <2>2
  <2> QED
    BY <1>l, <1>t, <2>1, <2>3, <2>4, <2>5, <2>6 DEF ReplayInv
\* a replay without disturbance meets no other step of a push
<1>r. CASE ~PushLoad(p)
  <2>1. p \in pushing
    BY <1>r DEF pushSteps, PushAdd, PushSend, PushStore, pushing
  <2>2. UNCHANGED <<overlapped, disturbed>>
    BY <1>r DEF pushSteps, PushAdd, PushSend, PushStore, history
  <2>3. ReplayingInv'
    BY <1>i, <1>u, <2>1, <2>2 DEF ReplayingInv
  <2>4. ~overlapped => \A q \in Pushers \ {p} : push[q].pc = "idle"
    BY <1>i, <2>1 DEF OneInv, pushing
  <2>5. CASE PushAdd(p)
    <3>1. curIdx' = curIdx + 1
      BY <1>0, <2>5, AddIndex
    <3>2. /\ push[p].pc = "loaded" /\ push'[p].pc = "sending" /\ push'[p].idx = push[p].idx
          /\ push'[p].notif = [next |-> curIdx + 1, by |-> p]
          /\ \A q \in Pushers \ {p} : push'[q] = push[q]
          /\ UNCHANGED buffer /\ log' = Append(log, p)
      BY <1>t, <2>5, <3>1 DEF PushAdd, PushRecords
    <3>3. Len(log') = curIdx + 1 /\ log'[curIdx + 1] = p /\ \A x \in 1..curIdx : log'[x] = log[x]
      BY <1>t, <3>2
    <3>4. push'[p].notif = notification(curIdx)' /\ inHand(p)'
      BY <3>1, <3>2, <3>3 DEF notification, inHand
    <3>5. OneInv'
      <4>1. Len(log') = curIdx'
        BY <3>1, <3>3
      <4> SUFFICES ASSUME ~overlapped PROVE OneInv'
        BY <2>2, <4>1 DEF OneInv
      <4>2. \A q, r \in pushing' : q = r
        BY <2>4, <3>2 DEF pushing
      <4>3. \A q \in Pushers : push'[q].pc # "idle" => q = p
        BY <2>4, <3>2
      <4>4. push'[p].idx + 1 = curIdx'
        BY <1>i, <3>1, <3>2 DEF OneInv
      <4> QED
        BY <3>2, <3>4, <4>1, <4>2, <4>3, <4>4 DEF OneInv, inHand
    <3>6. BufferInv'
      <4> SUFFICES ASSUME ~overlapped', NEW j \in Nat, j < curIdx', curIdx' - BufferSize <= j,
                          \A q \in Pushers : inHand(q)' => j + 1 # curIdx'
                   PROVE  buffer'[j % BufferSize] = notification(j + 1)'
        BY DEF BufferInv
      <4>1. j < curIdx /\ curIdx - BufferSize <= j /\ j + 1 \in 1..curIdx
        BY <1>t, <3>1, <3>4
      <4>2. \A q \in Pushers : ~inHand(q)
        BY <2>2, <2>4, <3>2 DEF inHand
      <4>3. buffer[j % BufferSize] = notification(j + 1)
        BY <1>i, <2>2, <4>1, <4>2 DEF BufferInv
      <4> QED
        BY <3>2, <3>3, <4>1, <4>3 DEF notification
    <3>7. ReplayExact'
      BY <1>e, <1>t, <2>2, <3>1, <3>3
    <3> QED
      BY <1>l, <1>t, <2>3, <3>1, <3>5, <3>6, <3>7 DEF ReplayInv
  <2>6. CASE PushSend(p)
    <3>1. /\ push[p].pc = "sending" /\ push'[p].pc = "storing" /\ push'[p].idx = push[p].idx
          /\ push'[p].notif = push[p].notif
          /\ \A q \in Pushers \ {p} : push'[q] = push[q]
      BY <1>t, <2>6 DEF PushSend, PushRecords, history
    <3>2. UNCHANGED <<curIdx, buffer, log>>
      BY <2>6 DEF PushSend, history
    <3>3. \A q \in Pushers : inHand(q)' <=> inHand(q)
      BY <3>1 DEF inHand
    <3>4. OneInv'
      BY <1>i, <2>2, <3>1, <3>2, <3>3 DEF OneInv, pushing, notification
    <3>5. BufferInv'
      BY <1>i, <2>2, <3>2, <3>3 DEF BufferInv, notification
    <3>6. ReplayExact'
      BY <1>e, <1>t, <2>2, <3>2
    <3> QED
      BY <1>l, <1>t, <2>3, <3>2, <3>4, <3>5, <3>6 DEF ReplayInv
  <2>7. CASE PushStore(p)
    <3>1. /\ push[p].pc = "storing" /\ push'[p].pc = "idle"
          /\ \A q \in Pushers \ {p} : push'[q] = push[q]
          /\ buffer' = [buffer EXCEPT ![push[p].idx % BufferSize] = push[p].notif]
      BY <1>t, <2>7 DEF PushStore, Idle
    <3>2. UNCHANGED <<curIdx, log>>
      BY <2>7 DEF PushStore, history
    <3>3. OneInv'
      BY <1>i, <2>2, <2>4, <3>1, <3>2 DEF OneInv, pushing, inHand, notification
    <3>4. BufferInv'
      <4> SUFFICES ASSUME ~overlapped, NEW j \in Nat, j < curIdx, curIdx - BufferSize <= j
                   PROVE  buffer'[j % BufferSize] = notification(j + 1)
        BY <2>2, <3>2 DEF BufferInv, notification
      <4>1. push[p].idx + 1 = curIdx /\ push[p].notif = notification(curIdx) /\ push[p].idx \in Nat
        BY <1>t, <1>i, <3>1 DEF OneInv, inHand, PushRecords
      <4>2. push[p].idx % BufferSize \in DOMAIN buffer /\ j % BufferSize \in DOMAIN buffer
        BY <1>t, <4>1, SlotInBuffer
      <4>3. CASE j = push[p].idx
        BY <3>1, <4>1, <4>2, <4>3
      <4>4. CASE j # push[p].idx
        <5>1. j < push[p].idx /\ push[p].idx - j < BufferSize
          BY <1>t, <4>1, <4>4
        <5>2. j % BufferSize # push[p].idx % BufferSize
          BY <1>t, <4>1, <5>1, SlotsDiffer
        <5>3. buffer[j % BufferSize] = notification(j + 1)
          BY <1>t, <1>i, <4>1, <5>1 DEF BufferInv
        <5> QED
          BY <3>1, <4>2, <5>2, <5>3
      <4> QED
        BY <4>3, <4>4
    <3>5. ReplayExact'
      BY <1>e, <1>t, <2>2, <3>2
    <3> QED
      BY <1>l, <1>t, <2>3, <3>2, <3>3, <3>4, <3>5 DEF ReplayInv
  <2> QED
    BY <1>r, <2>5, <2>6, <2>7 DEF pushSteps
<1> QED
  BY <1>1, <1>r

\* Nothing is replayed of an empty segment.
LEMMA EmptySegment ==
    ASSUME NEW c, NEW a \in Int, replayed[c] = <<>>
    PROVE  replayedSegment(c, a, a)
<1>1. sent(replayed, c) = {} /\ DOMAIN replayed[c] = {}
  BY DEF sent
<1>2. (a + 1)..a = {}
  OBVIOUS
<1> QED
  BY <1>1, <1>2 DEF replayedSegment

\* A client asks for an index: where the replay starts, on 32 bits.
LEMMA StartExact ==
    ASSUME PushType, NEW c, NEW from \in Froms, UNCHANGED curIdx, replayed'[c] = <<>>,
           client'[c].from = from, client'[c].i = startIdx(from)
    PROVE  progress(c)'
<1>1. /\ IndexMod \in Nat \ {0} /\ BufferSize \in Nat \ {0} /\ BufferSize < IndexMod
      /\ curIdx \in Nat /\ curIdx < IndexMod /\ from \in Nat /\ from < IndexMod
  BY NotifyAssumption DEF PushType
<1> DEFINE diff == (curIdx - from) % IndexMod
           base == (curIdx - BufferSize) % IndexMod
<1>2. diff = IF curIdx >= from THEN curIdx - from ELSE curIdx - from + IndexMod
  <2>1. curIdx - from \in Int /\ curIdx - from < IndexMod /\ curIdx - from + IndexMod >= 0
    BY <1>1
  <2>2. diff = IF curIdx - from >= 0 THEN curIdx - from ELSE curIdx - from + IndexMod
    BY <1>1, <2>1, Wrapped
  <2> QED
    BY <1>1, <2>2
<1>3. base = IF curIdx >= BufferSize THEN curIdx - BufferSize ELSE curIdx - BufferSize + IndexMod
  <2>1. curIdx - BufferSize \in Int /\ curIdx - BufferSize < IndexMod /\ curIdx - BufferSize + IndexMod >= 0
    BY <1>1
  <2>2. base = IF curIdx - BufferSize >= 0 THEN curIdx - BufferSize ELSE curIdx - BufferSize + IndexMod
    BY <1>1, <2>1, Wrapped
  <2> QED
    BY <1>1, <2>2
<1>4. startIdx(from) = IF diff > BufferSize THEN base ELSE from
  BY DEF startIdx
<1> HIDE DEF diff, base
<1>e. \A a \in Int : replayedSegment(c, a, a)'
  <2>1. sent(replayed', c) = {} /\ DOMAIN replayed'[c] = {}
    BY DEF sent
  <2>2. \A a \in Int : (a + 1)..a = {}
    OBVIOUS
  <2> QED
    BY <2>1, <2>2 DEF replayedSegment
<1> DEFINE i == startIdx(from)
           a == firstIdx(from, curIdx)
<1>5. a = IF from > curIdx
          THEN IF curIdx >= BufferSize /\ curIdx + IndexMod - from > BufferSize
               THEN IF curIdx > BufferSize THEN curIdx - BufferSize ELSE 0
               ELSE curIdx
          ELSE IF from < (IF curIdx > BufferSize THEN curIdx - BufferSize ELSE 0)
               THEN IF curIdx > BufferSize THEN curIdx - BufferSize ELSE 0
               ELSE from
  BY DEF firstIdx, oldest
<1>6. firstIdx(client'[c].from, curIdx') = a /\ client'[c].i = i
  OBVIOUS
<1> HIDE DEF a, i
<1>7. \/ i = a /\ a \in Int /\ a <= curIdx
      \/ a = curIdx /\ i \in Int /\ i >= curIdx
  <2>0. i = IF diff > BufferSize THEN base ELSE from
    BY <1>4 DEF i
  <2>1. CASE from > curIdx /\ diff > BufferSize
    BY <1>1, <1>2, <1>3, <1>5, <2>0, <2>1
  <2>2. CASE from > curIdx /\ diff <= BufferSize
    BY <1>1, <1>2, <1>5, <2>0, <2>2
  <2>3. CASE from <= curIdx /\ diff > BufferSize
    BY <1>1, <1>2, <1>3, <1>5, <2>0, <2>3
  <2>4. CASE from <= curIdx /\ diff <= BufferSize
    BY <1>1, <1>2, <1>5, <2>0, <2>4
  <2>5. diff \in Int
    BY <1>1, <1>2
  <2> QED
    BY <1>1, <2>1, <2>2, <2>3, <2>4, <2>5
<1>8. CASE a = curIdx /\ i >= curIdx
  BY <1>6, <1>8 DEF progress, firstIdx, oldest
<1>9. CASE i = a /\ a \in Int /\ a <= curIdx
  <2>1. PICK x \in Int : x = a
    BY <1>9
  <2>2. x \in x..curIdx' /\ replayedSegment(c, x, x)'
    BY <1>1, <1>9, <1>e, <2>1
  <2>3. client'[c].i = x /\ firstIdx(client'[c].from, curIdx') = x
    BY <1>6, <1>9, <2>1
  <2> QED
    BY <2>2, <2>3 DEF progress, firstIdx, oldest
<1> QED
  BY <1>7, <1>8, <1>9

\* One more notification of the segment is replayed, or left out by the filter.
LEMMA SegmentStep ==
    ASSUME NEW c, NEW a \in Nat, NEW i \in Nat, a <= i, replayedSegment(c, a, i), UNCHANGED log,
           replayed[c] \in Seq(Notif \cup {Nil}),
           IF isFilter(notification(i + 1), Filters[c])
           THEN notification(i + 1) \in Notif /\ replayed'[c] = Append(replayed[c], notification(i + 1))
           ELSE replayed'[c] = replayed[c]
    PROVE  replayedSegment(c, a, i + 1)'
<1> DEFINE n == notification(i + 1)
           Segment(b) == {m \in {notification(x) : x \in (a + 1)..b} : isFilter(m, Filters[c])}
<1>1. \A x : x \in (a + 1)..(i + 1) <=> x \in (a + 1)..i \/ x = i + 1
  OBVIOUS
<1>2. Segment(i + 1) = Segment(i) \cup (IF isFilter(n, Filters[c]) THEN {n} ELSE {})
  BY <1>1
<1>3. \A x : notification(x)' = notification(x)
  BY DEF notification
<1>4. SUFFICES /\ sent(replayed', c) = Segment(i + 1)
               /\ \A j, k \in DOMAIN replayed'[c] : j < k => replayed'[c][j].next < replayed'[c][k].next
  BY <1>3 DEF replayedSegment
<1>5. /\ sent(replayed, c) = Segment(i)
      /\ \A j, k \in DOMAIN replayed[c] : j < k => replayed[c][j].next < replayed[c][k].next
  BY DEF replayedSegment
<1>6. n.next = i + 1 /\ \A m \in Segment(i) : m.next \in Nat /\ m.next < i + 1
  <2>1. \A x \in (a + 1)..i : notification(x).next = x
    BY DEF notification
  <2>2. n.next = i + 1
    BY DEF notification
  <2>3. \A m \in Segment(i) : \E x \in (a + 1)..i : m = notification(x)
    OBVIOUS
  <2>4. \A x \in (a + 1)..i : x \in Nat /\ x < i + 1
    OBVIOUS
  <2> QED
    BY <2>1, <2>2, <2>3, <2>4
<1> HIDE DEF n, Segment
<1>7. CASE ~isFilter(n, Filters[c])
  <2>1. replayed'[c] = replayed[c]
    BY <1>7 DEF n
  <2>2. sent(replayed', c) = sent(replayed, c)
    BY <2>1 DEF sent
  <2> QED
    BY <1>2, <1>5, <1>7, <2>1, <2>2
<1>8. CASE isFilter(n, Filters[c])
  <2> DEFINE s == replayed[c]
             t == replayed'[c]
  <2>1. n \in Notif \cup {Nil} /\ replayed'[c] = Append(replayed[c], n)
    BY <1>8 DEF n
  <2>2. ASSUME NEW T, NEW e \in T, replayed[c] \in Seq(T), replayed'[c] = Append(replayed[c], e)
        PROVE  /\ sent(replayed', c) = sent(replayed, c) \cup {e}
               /\ DOMAIN t = 1..(Len(s) + 1) /\ DOMAIN s = 1..Len(s) /\ t[Len(s) + 1] = e
               /\ \A j \in 1..Len(s) : t[j] = s[j]
    <3>2. /\ DOMAIN t = 1..(Len(s) + 1) /\ DOMAIN s = 1..Len(s) /\ t[Len(s) + 1] = e
          /\ \A j \in 1..Len(s) : t[j] = s[j]
      BY <2>2
    <3>3. \A j : j \in 1..(Len(s) + 1) <=> j \in 1..Len(s) \/ j = Len(s) + 1
      BY <2>2
    <3>4. sent(replayed', c) = {t[j] : j \in DOMAIN t} /\ sent(replayed, c) = {s[j] : j \in DOMAIN s}
      BY DEF sent
    <3> HIDE DEF s, t
    <3>5. sent(replayed', c) = sent(replayed, c) \cup {e}
      BY <3>2, <3>3, <3>4
    <3> QED
      BY <3>2, <3>5
  <2>3. /\ sent(replayed', c) = sent(replayed, c) \cup {n}
        /\ DOMAIN t = 1..(Len(s) + 1) /\ DOMAIN s = 1..Len(s) /\ t[Len(s) + 1] = n
        /\ \A j \in 1..Len(s) : t[j] = s[j]
    BY <2>1, <2>2
  <2>4. \A j \in 1..Len(s) : s[j] \in Segment(i)
    BY <1>5, <2>3 DEF sent
  <2>5. Len(s) \in Nat
    OBVIOUS
  <2> DEFINE l == Len(s)
  <2> HIDE DEF s, t, l
  <2>6. \A j, k \in 1..(l + 1) : j < k => j \in 1..l /\ (k \in 1..l \/ k = l + 1)
    BY <2>5 DEF l
  <2>7. \A j, k \in DOMAIN t : j < k => t[j].next < t[k].next
    BY <1>5, <1>6, <2>3, <2>4, <2>6 DEF l, s
  <2>8. sent(replayed', c) = Segment(i + 1)
    BY <1>2, <1>5, <1>8, <2>3
  <2> QED
    BY <2>7, <2>8 DEF t
<1> QED
  BY <1>7, <1>8

\* A step that leaves a client and what it was replayed alone keeps its progress.
LEMMA ProgressFrame ==
    ASSUME NEW d, progress(d), UNCHANGED <<curIdx, log>>, replayed'[d] = replayed[d],
           client'[d] = client[d]
    PROVE  progress(d)'
<1>1. \A a, b : replayedSegment(d, a, b) => replayedSegment(d, a, b)'
  BY SegmentFrame
<1>2. PICK a : a = firstIdx(client[d].from, curIdx)
  OBVIOUS
<1>3. PICK i : i = client[d].i
  OBVIOUS
<1>4. firstIdx(client'[d].from, curIdx') = a /\ client'[d].i = i
  BY <1>2, <1>3
<1>5. \/ a = curIdx' /\ replayed'[d] = <<>> /\ i >= curIdx'
      \/ i \in a..curIdx' /\ replayedSegment(d, a, i)'
  BY <1>1, <1>2, <1>3 DEF progress
<1> QED
  BY <1>4, <1>5 DEF progress, firstIdx, oldest

\* A client replays what the buffer has, one notification after the other.
LEMMA ReplayClient ==
    ASSUME TypeInv, ReplayInv, NEW c \in Clients, clientSteps(c)
    PROVE  ReplayInv'
<1>0. PushType /\ ClientType
  BY DEF TypeInv
<1>i. OneInv /\ BufferInv /\ LockInv /\ ReplayingInv /\ ReplayExact
  BY DEF ReplayInv
<1>u. UNCHANGED <<curIdx, buffer, push, log, overlapped>>
  BY DEF clientSteps, Notify, Replay, ReplayEnd, Register, Sent, Return, Cancel, history
<1>t. /\ client[c] \in ClientRecords /\ client \in [Clients -> ClientRecords]
      /\ replayed \in [Clients -> Seq(Notif \cup {Nil})]
      /\ curIdx \in Nat /\ BufferSize \in Nat \ {0} /\ upto \in [Clients -> 0..MaxPushes]
  BY <1>0, NotifyAssumption DEF ClientType, PushType
<1>k. \A d \in Clients : upto[d] \in Nat /\ client[d].from \in Nat /\ upto[d] <= curIdx
  BY <1>0, <1>i, <1>t, FromType DEF LockInv
<1>o. \A d \in Clients \ {c} : /\ client'[d] = client[d] /\ replayed'[d] = replayed[d] /\ upto'[d] = upto[d]
                               /\ d \in rlocked <=> d \in rlocked'
                               /\ d \in disturbed <=> d \in disturbed'
  BY <1>t DEF clientSteps, Notify, Replay, ReplayEnd, Register, Sent, Return, Cancel, history
<1>1. OneInv' /\ BufferInv' /\ pushing' = pushing
  BY <1>i, <1>u DEF OneInv, BufferInv, pushing, inHand, notification
<1>p. /\ \A d \in Clients : client[d].pc = "replay" /\ d \notin disturbed /\ ~overlapped =>
                               pushing = {} /\ progress(d)
      /\ \A d \in Clients : client[d].pc \in {"register", "ready", "sending"} /\ d \notin disturbed
                               /\ ~overlapped => exact(d)
  BY <1>i DEF ReplayingInv, ReplayExact, exact
\* it is enough to look at the client that moves
<1>2. ASSUME client'[c].pc = "replay" => c \in rlocked', client'[c].pc # "idle", upto'[c] <= curIdx,
             client'[c].pc = "replay" /\ c \notin disturbed' /\ ~overlapped => pushing = {} /\ progress(c)',
             client'[c].pc \in {"register", "ready", "sending"} /\ c \notin disturbed' /\ ~overlapped
                => exact(c)'
      PROVE  ReplayInv'
  <2>1. LockInv'
    BY <1>i, <1>o, <1>u, <1>2 DEF LockInv
  <2>2. \A d \in Clients : client'[d].pc = "replay" /\ d \notin disturbed' /\ ~overlapped =>
                              pushing = {} /\ progress(d)'
    BY <1>o, <1>p, <1>u, <1>2, ProgressFrame
  <2>3. ReplayingInv'
    BY <1>1, <1>u, <2>2 DEF ReplayingInv
  <2>4. \A d \in Clients : client'[d].pc \in {"register", "ready", "sending"} /\ d \notin disturbed'
                              /\ ~overlapped => exact(d)'
    <3> SUFFICES ASSUME NEW d \in Clients, client'[d].pc \in {"register", "ready", "sending"},
                        d \notin disturbed', ~overlapped
                 PROVE  exact(d)'
      OBVIOUS
    <3>1. CASE d = c
      BY <1>2, <3>1
    <3>2. CASE d # c
      <4>1. exact(d) /\ client'[d] = client[d] /\ replayed'[d] = replayed[d] /\ upto'[d] = upto[d]
        BY <1>o, <1>p, <3>2
      <4> QED
        BY <1>k, <1>t, <1>u, <4>1, ExactFrame, SMTT(30)
    <3> QED
      BY <3>1, <3>2
  <2>5. ReplayExact'
    BY <1>u, <2>4 DEF ReplayExact, exact
  <2> QED
    BY <1>1, <2>1, <2>3, <2>5 DEF ReplayInv
<1>3. CASE \E from \in Froms : Notify(c, from)
  <2>1. PICK from \in Froms : Notify(c, from)
    BY <1>3
  <2>2. /\ client[c].pc = "idle" /\ client'[c].pc = "replay" /\ client'[c].from = from
        /\ client'[c].i = startIdx(from) /\ c \in rlocked' /\ UNCHANGED replayed
        /\ UNCHANGED upto /\ (pushing # {} => c \in disturbed')
    BY <1>t, <2>1 DEF Notify
  <2>3. replayed[c] = <<>>
    BY <1>i, <2>2 DEF LockInv
  <2>4. progress(c)'
    BY <1>0, <1>u, <2>2, <2>3, StartExact
  <2> QED
    BY <1>2, <1>k, <2>2, <2>4
<1>4. CASE Replay(c)
  <2> DEFINE i == client[c].i
             entry == buffer[i % BufferSize]
             matches == isFilter(entry, Filters[c])
  <2>1. CASE matches /\ c \in cancelled
    <3>1. client'[c].pc = "returned" /\ UNCHANGED upto
      BY <1>t, <1>4, <2>1 DEF Replay, ClientRecords, history
    <3> QED
      BY <1>2, <1>k, <3>1
  <2>2. CASE ~(matches /\ c \in cancelled)
    <3>1. /\ client[c].pc = "replay" /\ client'[c].pc = "replay" /\ i < curIdx
          /\ client'[c].i = i + 1 /\ client'[c].from = client[c].from
          /\ UNCHANGED <<rlocked, disturbed, upto>>
      BY <1>t, <1>4, <2>2 DEF Replay, ClientRecords, history
    <3>2. replayed'[c] = IF matches THEN Append(replayed[c], entry) ELSE replayed[c]
      BY <1>t, <1>4, <2>2 DEF Replay
    <3>3. i \in Nat
      BY <1>t DEF ClientRecords
    <3> HIDE DEF i
    <3>4. ASSUME c \notin disturbed', ~overlapped PROVE pushing = {} /\ progress(c)'
      <4>1. pushing = {} /\ progress(c)
        BY <1>p, <3>1, <3>4
      <4>2. PICK a : a = firstIdx(client[c].from, curIdx)
        OBVIOUS
      <4>f. a \in oldest(curIdx)..curIdx /\ a \in Nat
        BY <1>k, <1>t, <4>2, FirstType
      <4>s. i \in a..curIdx /\ replayedSegment(c, a, i)
        BY <1>t, <3>1, <3>3, <4>1, <4>2 DEF progress, i
      <4>3. /\ a \in Nat /\ a <= i /\ curIdx - BufferSize <= i /\ i + 1 \in a..curIdx
        BY <1>t, <3>1, <3>3, <4>f, <4>s DEF oldest
      <4>4. entry = notification(i + 1)
        <5>1. \A q \in Pushers : ~inHand(q)
          BY <4>1 DEF pushing, inHand
        <5> QED
          BY <1>i, <3>1, <3>3, <3>4, <4>3, <5>1 DEF BufferInv
      <4>5. entry \in Notif
        <5>1. i + 1 \in 1..MaxPushes /\ i + 1 \in 1..Len(log)
          <6>1. curIdx \in 0..MaxPushes /\ Len(log) = curIdx /\ MaxPushes \in Nat
            BY <1>0, <1>i, NotifyAssumption DEF PushType, OneInv
          <6> QED
            BY <3>1, <3>3, <6>1
        <5>2. log[i + 1] \in Pushers
          BY <1>0, <5>1 DEF PushType
        <5> QED
          BY <4>4, <5>1, <5>2 DEF notification, Notif
      <4>7. PICK k \in Nat : k = i + 1
        BY <3>3
      <4>8. replayedSegment(c, a, k)'
        <5> SUFFICES ASSUME NEW m \in Nat, m = i, m + 1 = k PROVE replayedSegment(c, a, k)'
          BY <3>3, <4>7
        <5>1. replayedSegment(c, a, m) /\ a <= m /\ entry = notification(m + 1)
          BY <4>3, <4>4, <4>s
        <5>2. replayedSegment(c, a, m + 1)'
          <6> HIDE DEF entry
          <6>1. replayed[c] \in Seq(Notif \cup {Nil})
            BY <1>t
          <6> QED
            BY <1>u, <3>2, <4>3, <4>5, <5>1, <6>1, SegmentStep
        <5> QED
          BY <5>2
      <4>9. /\ firstIdx(client'[c].from, curIdx') = a /\ client'[c].i = k
            /\ k \in a..curIdx' /\ replayedSegment(c, a, k)'
        BY <1>u, <3>1, <4>2, <4>3, <4>7, <4>8
      <4> QED
        BY <4>1, <4>9 DEF progress, firstIdx, oldest
    <3>5. c \in rlocked'
      BY <1>i, <3>1 DEF LockInv
    <3> QED
      BY <1>2, <1>k, <3>1, <3>4, <3>5
  <2> QED
    BY <2>1, <2>2
<1>5. CASE ReplayEnd(c)
  <2>1. /\ client[c].pc = "replay" /\ client'[c].pc = "register" /\ client[c].i >= curIdx
        /\ client'[c].from = client[c].from /\ UNCHANGED <<replayed, disturbed>>
        /\ upto'[c] = curIdx
    BY <1>t, <1>5 DEF ReplayEnd, ClientRecords
  <2>2. ASSUME c \notin disturbed', ~overlapped PROVE exact(c)'
    <3>1. PICK a : a = firstIdx(client[c].from, curIdx)
      OBVIOUS
    <3>2. PICK b : b = curIdx
      OBVIOUS
    <3>3. a \in Nat /\ a <= b /\ client[c].i \in Nat
      <4>1. a \in oldest(b)..b /\ a \in Nat
        BY <1>k, <1>t, <3>1, <3>2, FirstType
      <4> QED
        BY <1>t, <3>2, <4>1 DEF oldest, ClientRecords
    <3>4. replayedSegment(c, a, b)
      <4>1. progress(c)
        BY <1>p, <2>1, <2>2
      <4>2. CASE a = b /\ replayed[c] = <<>>
        BY <3>3, <4>2, EmptySegment
      <4>3. CASE client[c].i \in a..b /\ replayedSegment(c, a, client[c].i)
        BY <1>t, <2>1, <3>2, <3>3, <4>3
      <4> QED
        BY <3>1, <3>2, <4>1, <4>2, <4>3 DEF progress
    <3>5. replayedSegment(c, a, b)'
      BY <1>u, <2>1, <3>4, SegmentFrame
    <3>6. upto'[c] = b /\ firstIdx(client'[c].from, b) = a
      BY <2>1, <3>1, <3>2
    <3> QED
      BY <3>5, <3>6 DEF exact, firstIdx, oldest
  <2>3. upto'[c] <= curIdx
    BY <1>t, <2>1
  <2> QED
    BY <1>2, <2>1, <2>2, <2>3
<1>6. CASE Register(c) \/ Sent(c) \/ Return(c) \/ Cancel(c)
  <2>1. /\ UNCHANGED <<replayed, rlocked, disturbed, upto>> /\ client'[c].from = client[c].from
        /\ client'[c].pc # "idle"
        /\ client'[c].pc = "replay" => client'[c] = client[c]
        /\ client'[c].pc \in {"register", "ready", "sending"} =>
              client[c].pc \in {"register", "ready", "sending"}
    BY <1>t, <1>6 DEF Register, Sent, Return, Cancel, ClientRecords, history
  <2>2. client'[c].pc = "replay" => c \in rlocked'
    BY <1>i, <2>1 DEF LockInv
  <2>3. client'[c].pc = "replay" /\ c \notin disturbed' /\ ~overlapped => pushing = {} /\ progress(c)'
    BY <1>p, <1>u, <2>1, ProgressFrame
  <2>4. ASSUME client'[c].pc \in {"register", "ready", "sending"}, c \notin disturbed', ~overlapped
        PROVE  exact(c)'
    <3>1. exact(c)
      BY <1>p, <2>1, <2>4
    <3> QED
      BY <1>k, <1>t, <1>u, <2>1, <3>1, ExactFrame
  <2> QED
    BY <1>2, <1>k, <2>1, <2>2, <2>3, <2>4
<1> QED
  BY <1>3, <1>4, <1>5, <1>6 DEF clientSteps

\* The dispatching goroutine takes no part in a replay, nor does a step that
\* changes nothing.
LEMMA ReplayDispatch ==
    ASSUME TypeInv, ReplayInv, Dispatch \/ DispatchEnd \/ UNCHANGED vars
    PROVE  ReplayInv'
<1>0. PushType /\ ClientType /\ DispType
  BY DEF TypeInv
<1>i. OneInv /\ BufferInv /\ LockInv /\ ReplayingInv /\ ReplayExact
  BY DEF ReplayInv
<1>u. UNCHANGED <<curIdx, buffer, push, log, overlapped, replayed, rlocked, disturbed, upto>>
  BY DEF Dispatch, DispatchEnd, history, vars
<1>t. curIdx \in Nat /\ BufferSize \in Nat
  BY <1>0, NotifyAssumption DEF PushType
<1>k. \A d \in Clients : upto[d] \in Nat /\ client[d].from \in Nat /\ upto[d] <= curIdx
  BY <1>0, <1>i, FromType DEF ClientType, LockInv
<1>1. OneInv' /\ BufferInv' /\ pushing' = pushing
  BY <1>i, <1>u DEF OneInv, BufferInv, pushing, inHand, notification
<1>2. \A d \in Clients : \/ client'[d] = client[d]
                         \/ /\ client[d].pc = "ready" /\ client'[d].pc = "sending"
                            /\ client'[d].from = client[d].from
  <2>1. CASE UNCHANGED client
    BY <2>1
  <2>2. ASSUME NEW w, client[w].pc = "ready", client' = [client EXCEPT ![w].pc = "sending"],
               NEW d \in Clients
        PROVE  \/ client'[d] = client[d]
               \/ /\ client[d].pc = "ready" /\ client'[d].pc = "sending"
                  /\ client'[d].from = client[d].from
    BY <1>0, <2>2 DEF ClientType, ClientRecords
  <2> QED
    BY <2>1, <2>2 DEF Dispatch, DispatchEnd, Visit, offer, vars
<1>3. LockInv'
  BY <1>i, <1>u, <1>2 DEF LockInv
<1>4. ReplayingInv'
  <2> SUFFICES ASSUME NEW d \in Clients, client'[d].pc = "replay", d \notin disturbed, ~overlapped
               PROVE  pushing = {} /\ progress(d)'
    BY <1>1, <1>u DEF ReplayingInv
  <2>1. client'[d] = client[d]
    BY <1>2
  <2>2. pushing = {} /\ progress(d)
    BY <1>i, <2>1 DEF ReplayingInv
  <2> QED
    BY <1>u, <2>1, <2>2, ProgressFrame
<1>5. ReplayExact'
  <2> SUFFICES ASSUME NEW d \in Clients, client'[d].pc \in {"register", "ready", "sending"},
                      d \notin disturbed, ~overlapped
               PROVE  exact(d)'
    BY <1>u DEF ReplayExact, exact
  <2>1. /\ client[d].pc \in {"register", "ready", "sending"}
        /\ client'[d].from = client[d].from
    BY <1>2
  <2>2. exact(d)
    BY <1>i, <2>1 DEF ReplayExact, exact
  <2> QED
    BY <1>k, <1>t, <1>u, <2>1, <2>2, ExactFrame
<1> QED
  BY <1>1, <1>3, <1>4, <1>5 DEF ReplayInv

\* Every step keeps what makes a replay exact.
LEMMA ReplayNext == TypeInv /\ ReplayInv /\ [Next]_vars => ReplayInv'
  BY ReplayPush, ReplayClient, ReplayDispatch DEF Next

\* A client is replayed all it asks for of what the buffer keeps up to the index
\* at which its replay ended, each notification once and in order (ReplayExact),
\* when pushes come one after the other and none meets the replay: for any size
\* of the buffer, index and number of notifications, also where the difference
\* of the indexes wraps around.
THEOREM ReplayIsExact == Spec => []ReplayExact
<1>1. ReplayInv => ReplayExact
  BY DEF ReplayInv
<1> QED
  BY <1>1, TypeInit, TypeNext, ReplayInit, ReplayNext, PTL DEF Spec
=============================================================================
