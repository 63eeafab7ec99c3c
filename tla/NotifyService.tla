---------------------------- MODULE NotifyService ----------------------------
(***************************************************************************)
(* The notification service of the configurator (notify.go):               *)
(*                                                                         *)
(*   - the VPP and the Linux interface plugins push notifications from     *)
(*     goroutines of their own (pushNotification),                         *)
(*   - a ring buffer keeps the last ones for clients that come later,      *)
(*   - one goroutine hands every notification to the registered watchers   *)
(*     and registers new watchers (init),                                  *)
(*   - gRPC handlers replay the buffer and then forward what they are      *)
(*     handed, until their client leaves (Notify).                         *)
(*                                                                         *)
(* Both channels are unbuffered: a send and its receive are one step.  A   *)
(* notification is told apart by who pushed it, which is what a filter     *)
(* sees, and by its NextIdx.                                               *)
(***************************************************************************)
EXTENDS Integers, Sequences, FiniteSets

CONSTANTS Pushers,      \* plugins that push notifications
          Clients,      \* gRPC clients, each calls Notify once
          Filters,      \* client -> pushers it asks for, {} for everything
          Leaving,      \* bound: the clients that may leave
          Froms,        \* values of NotifyRequest.Idx
          BufferSize,   \* bufferSize
          IndexMod,     \* 2^32, the range of curIdx and Idx
          MaxPushes     \* bound: notifications pushed

Nil == <<>>
noWatcher == "nil"

ASSUME NotifyAssumption ==
    /\ Filters \in [Clients -> SUBSET Pushers]
    /\ Leaving \subseteq Clients
    /\ BufferSize \in Nat \ {0} /\ IndexMod \in Nat /\ MaxPushes \in Nat
    /\ MaxPushes < IndexMod /\ BufferSize < IndexMod
    /\ Froms \subseteq 0..(IndexMod - 1)
    /\ IsFiniteSet(Pushers) /\ noWatcher \notin Clients

VARIABLES
    curIdx,    \* svc.curIdx
    buffer,    \* svc.buffer: slot -> notification or Nil
    rlocked,   \* handlers that hold svc.mx for reading
    push,      \* progress of each pushNotification
    client,    \* progress of each Notify
    cancelled, \* clients whose context is done
    watchers,  \* the array of watchers; past the slice it holds nil
    disp,      \* the dispatching goroutine; removed: by how much the slice shrank
    crashed,   \* nil was dereferenced: the agent is gone
    replayed,  \* what each client was sent from the buffer
    live,      \* what each client was sent as it came
    log,       \* who pushed the notification with NextIdx 1, 2, ...
    overlapped,\* two pushes were in progress at the same time
    disturbed, \* clients during whose replay a push was in progress
    upto       \* the index at which the replay to each client ended

vars == <<curIdx, buffer, rlocked, push, client, cancelled, watchers, disp, crashed,
          replayed, live, log, overlapped, disturbed, upto>>
history == <<log, overlapped, disturbed, upto>>

Idle == [pc |-> "idle", idx |-> 0, notif |-> Nil]
Select == [pc |-> "select", notif |-> Nil, i |-> 1, removed |-> 0]

Init ==
    /\ curIdx = 0 /\ buffer = [s \in 0..(BufferSize - 1) |-> Nil]
    /\ rlocked = {} /\ cancelled = {} /\ crashed = FALSE
    /\ push = [p \in Pushers |-> Idle]
    /\ client = [c \in Clients |-> [pc |-> "idle", from |-> 0, i |-> 0]]
    /\ watchers = <<>> /\ disp = Select
    /\ replayed = [c \in Clients |-> <<>>] /\ live = [c \in Clients |-> <<>>]
    /\ log = <<>> /\ overlapped = FALSE /\ disturbed = {}
    /\ upto = [c \in Clients |-> 0]

pushing == {p \in Pushers : push[p].pc # "idle"}

\* the protobuf merge of a filter changes nothing; an empty slot has nothing
\* that a filter could match
isFilter(notif, filters) ==
    filters = {} \/ (notif # Nil /\ notif.by \in filters)

-----------------------------------------------------------------------------
(* pushNotification *)

\* the index is read ...
PushLoad(p) ==
    /\ push[p].pc = "idle"
    /\ curIdx + Cardinality({q \in Pushers : push[q].pc = "loaded"}) < MaxPushes
    /\ push' = [push EXCEPT ![p] = [pc |-> "loaded", idx |-> curIdx, notif |-> Nil]]
    /\ overlapped' = (overlapped \/ pushing # {})
    /\ disturbed' = disturbed \cup rlocked
    /\ UNCHANGED <<curIdx, buffer, rlocked, client, cancelled, watchers, disp, crashed,
                   replayed, live, log, upto>>

\* mutant: the slot is written before the notification is dispatched
BugPushAdd(p) ==
    /\ push[p].pc = "loaded" /\ rlocked = {}
    /\ curIdx' = (curIdx + 1) % IndexMod
    /\ push' = [push EXCEPT ![p].pc = "sending", ![p].notif = [next |-> curIdx', by |-> p]]
    /\ buffer' = [buffer EXCEPT ![push[p].idx % BufferSize] = push'[p].notif]
    /\ log' = Append(log, p)
    /\ UNCHANGED <<rlocked, client, cancelled, watchers, disp, crashed,
                   replayed, live, overlapped, disturbed, upto>>

\* ... and incremented
PushAdd(p) ==
    /\ push[p].pc = "loaded"
    /\ curIdx' = (curIdx + 1) % IndexMod
    /\ push' = [push EXCEPT ![p].pc = "sending", ![p].notif = [next |-> curIdx', by |-> p]]
    /\ log' = Append(log, p)
    /\ UNCHANGED <<buffer, rlocked, client, cancelled, watchers, disp, crashed,
                   replayed, live, overlapped, disturbed, upto>>

\* svc.notifs <- notif, taken by the dispatching goroutine
PushSend(p) ==
    /\ push[p].pc = "sending" /\ disp.pc = "select"
    /\ push' = [push EXCEPT ![p].pc = "storing"]
    /\ disp' = [Select EXCEPT !.pc = "range", !.notif = push[p].notif]
    /\ UNCHANGED <<curIdx, buffer, rlocked, client, cancelled, watchers, crashed,
                   replayed, live, history>>

\* the lock is free of readers and the slot is written
PushStore(p) ==
    /\ push[p].pc = "storing" /\ rlocked = {}
    /\ buffer' = [buffer EXCEPT ![push[p].idx % BufferSize] = push[p].notif]
    /\ push' = [push EXCEPT ![p] = Idle]
    /\ UNCHANGED <<curIdx, rlocked, client, cancelled, watchers, disp, crashed,
                   replayed, live, history>>

-----------------------------------------------------------------------------
(* The dispatching goroutine: range over the array as it was when the loop  *)
(* began, while watchers are removed from the slice                         *)

\* shift the rest of the slice to the left and erase its last element
removeWatcher(i, length) ==
    [j \in DOMAIN watchers |-> IF j < i \/ j > length THEN watchers[j]
                               ELSE IF j < length THEN watchers[j + 1] ELSE noWatcher]

\* the non-blocking send: only a handler that waits in its select is reached
offer(w) ==
    IF isFilter(disp.notif, Filters[w]) /\ client[w].pc = "ready"
    THEN /\ client' = [client EXCEPT ![w].pc = "sending"]
         /\ live' = [live EXCEPT ![w] = Append(@, disp.notif)]
    ELSE UNCHANGED <<client, live>>

Visit(w) ==
    \/ /\ w = noWatcher
       /\ crashed' = TRUE
       /\ UNCHANGED <<watchers, disp, client, live>>
    \/ /\ w # noWatcher /\ client[w].pc = "done"
       /\ watchers' = removeWatcher(disp.i, Len(watchers) - disp.removed)
       /\ disp' = [disp EXCEPT !.i = @ + 1, !.removed = @ + 1]
       /\ UNCHANGED <<client, live, crashed>>
    \/ /\ w # noWatcher /\ client[w].pc # "done"
       /\ offer(w)
       /\ disp' = [disp EXCEPT !.i = @ + 1]
       /\ UNCHANGED <<watchers, crashed>>

Dispatch ==
    /\ disp.pc = "range" /\ disp.i <= Len(watchers)
    /\ Visit(watchers[disp.i])
    /\ UNCHANGED <<curIdx, buffer, rlocked, push, cancelled, replayed, history>>

DispatchEnd ==
    /\ disp.pc = "range" /\ disp.i > Len(watchers)
    /\ watchers' = SubSeq(watchers, 1, Len(watchers) - disp.removed)
    /\ disp' = Select
    /\ UNCHANGED <<curIdx, buffer, rlocked, push, client, cancelled, crashed,
                   replayed, live, history>>

-----------------------------------------------------------------------------
(* Notify *)

\* mutant: the difference does not wrap around
BugSigned(from) ==
    IF curIdx - from > BufferSize THEN (curIdx - BufferSize) % IndexMod ELSE from

\* where the replay starts; the subtraction wraps around
startIdx(from) ==
    IF (curIdx - from) % IndexMod > BufferSize THEN (curIdx - BufferSize) % IndexMod ELSE from

Notify(c, from) ==
    /\ client[c].pc = "idle"
    /\ rlocked' = rlocked \cup {c}
    /\ client' = [client EXCEPT ![c] = [pc |-> "replay", from |-> from, i |-> startIdx(from)]]
    /\ disturbed' = IF pushing # {} THEN disturbed \cup {c} ELSE disturbed
    /\ UNCHANGED <<curIdx, buffer, push, cancelled, watchers, disp, crashed,
                   replayed, live, log, overlapped, upto>>

\* mutant: the lock is kept when server.Send fails
BugReplay(c) ==
    LET entry == buffer[client[c].i % BufferSize]
        matches == isFilter(entry, Filters[c])
    IN /\ client[c].pc = "replay" /\ client[c].i < curIdx
       /\ \/ /\ matches /\ c \in cancelled      \* server.Send fails
             /\ client' = [client EXCEPT ![c].pc = "returned"]
             /\ UNCHANGED <<replayed, rlocked>>
          \/ /\ ~(matches /\ c \in cancelled)
             /\ replayed' = [replayed EXCEPT ![c] = IF matches THEN Append(@, entry) ELSE @]
             /\ client' = [client EXCEPT ![c].i = @ + 1]
             /\ UNCHANGED rlocked
       /\ UNCHANGED <<curIdx, buffer, push, cancelled, watchers, disp, crashed, live, history>>

\* one turn of the loop, whose bound is read again every time
Replay(c) ==
    LET entry == buffer[client[c].i % BufferSize]
        matches == isFilter(entry, Filters[c])
    IN /\ client[c].pc = "replay" /\ client[c].i < curIdx
       /\ \/ /\ matches /\ c \in cancelled      \* server.Send fails
             /\ client' = [client EXCEPT ![c].pc = "returned"]
             /\ rlocked' = rlocked \ {c}
             /\ UNCHANGED replayed
          \/ /\ ~(matches /\ c \in cancelled)
             /\ replayed' = [replayed EXCEPT ![c] = IF matches THEN Append(@, entry) ELSE @]
             /\ client' = [client EXCEPT ![c].i = @ + 1]
             /\ UNCHANGED rlocked
       /\ UNCHANGED <<curIdx, buffer, push, cancelled, watchers, disp, crashed, live, history>>

ReplayEnd(c) ==
    /\ client[c].pc = "replay" /\ client[c].i >= curIdx
    /\ rlocked' = rlocked \ {c}
    /\ client' = [client EXCEPT ![c].pc = "register", ![c].i = 0]
    /\ upto' = [upto EXCEPT ![c] = curIdx]
    /\ UNCHANGED <<curIdx, buffer, push, cancelled, watchers, disp, crashed,
                   replayed, live, log, overlapped, disturbed>>

\* svc.watchs <- w, taken by the dispatching goroutine
Register(c) ==
    /\ client[c].pc = "register" /\ disp.pc = "select"
    /\ watchers' = Append(watchers, c)
    /\ client' = [client EXCEPT ![c].pc = "ready"]
    /\ UNCHANGED <<curIdx, buffer, rlocked, push, cancelled, disp, crashed,
                   replayed, live, history>>

\* server.Send of a notification that was handed over returns
Sent(c) ==
    /\ client[c].pc = "sending"
    /\ client' = [client EXCEPT ![c].pc = IF c \in cancelled THEN "done" ELSE "ready"]
    /\ UNCHANGED <<curIdx, buffer, rlocked, push, cancelled, watchers, disp, crashed,
                   replayed, live, history>>

\* a handler waiting in a select sees that the context is done; only a
\* registered watcher closes its done channel
Return(c) ==
    /\ c \in cancelled /\ client[c].pc \in {"register", "ready"}
    /\ client' = [client EXCEPT ![c].pc = IF @ = "ready" THEN "done" ELSE "returned"]
    /\ UNCHANGED <<curIdx, buffer, rlocked, push, cancelled, watchers, disp, crashed,
                   replayed, live, history>>

\* the client leaves
Cancel(c) ==
    /\ client[c].pc \notin {"idle", "returned", "done"} /\ c \in Leaving \ cancelled
    /\ cancelled' = cancelled \cup {c}
    /\ UNCHANGED <<curIdx, buffer, rlocked, push, client, watchers, disp, crashed,
                   replayed, live, history>>

-----------------------------------------------------------------------------
pushSteps(p) == PushLoad(p) \/ PushAdd(p) \/ PushSend(p) \/ PushStore(p)
clientSteps(c) ==
    \/ \E from \in Froms : Notify(c, from)
    \/ Replay(c) \/ ReplayEnd(c) \/ Register(c) \/ Sent(c) \/ Return(c) \/ Cancel(c)

Next ==
    /\ ~crashed
    /\ \/ \E p \in Pushers : pushSteps(p)
       \/ \E c \in Clients : clientSteps(c)
       \/ Dispatch \/ DispatchEnd

Spec == Init /\ [][Next]_vars

\* server.Send blocks while a connected client does not read (flow control)
mayBlock(c) == c \notin cancelled /\ isFilter(buffer[client[c].i % BufferSize], Filters[c])

\* the goroutines run; a Send returns once its client is gone, and otherwise
\* only if the client reads, which nothing guarantees
FairSpec ==
    /\ Spec
    /\ \A p \in Pushers : /\ WF_vars(~crashed /\ PushAdd(p))
                          /\ WF_vars(~crashed /\ PushSend(p))
                          /\ WF_vars(~crashed /\ PushStore(p))
    /\ \A c \in Clients : WF_vars(~crashed /\ ((~mayBlock(c) /\ Replay(c)) \/ ReplayEnd(c)))
    /\ WF_vars(~crashed /\ (Dispatch \/ DispatchEnd))

-----------------------------------------------------------------------------
(* Properties *)

Notif == [next : 1..MaxPushes, by : Pushers]

TypeOK ==
    /\ curIdx \in 0..MaxPushes
    /\ buffer \in [0..(BufferSize - 1) -> Notif \cup {Nil}]
    /\ rlocked \subseteq Clients /\ cancelled \subseteq Clients /\ disturbed \subseteq Clients
    /\ push \in [Pushers -> [pc : {"idle", "loaded", "sending", "storing"}, idx : 0..MaxPushes,
                             notif : Notif \cup {Nil}]]
    /\ client \in [Clients -> [pc : {"idle", "replay", "register", "ready", "sending",
                                     "returned", "done"},
                               from : Froms \cup {0}, i : 0..(IndexMod - 1)]]
    /\ watchers \in Seq(Clients \cup {noWatcher})
    /\ disp \in [pc : {"select", "range"}, notif : Notif \cup {Nil},
                 i : Nat \ {0}, removed : Nat]
    /\ crashed \in BOOLEAN /\ overlapped \in BOOLEAN
    /\ replayed \in [Clients -> Seq(Notif \cup {Nil})] /\ live \in [Clients -> Seq(Notif)]
    /\ log \in Seq(Pushers) /\ upto \in [Clients -> 0..MaxPushes]

sent(f, c) == {f[c][j] : j \in DOMAIN f[c]}

\* A client is handed no notification again: none of those it was replayed, as
\* whatever is in the buffer has been dispatched and no watcher is registered
\* while one is being dispatched (pushNotification sends before it stores;
\* init), and none twice as it comes, although the watchers are shifted while
\* the goroutine ranges over them (the removal in init).
NotTwice ==
    \A c \in Clients : /\ sent(replayed, c) \cap sent(live, c) = {}
                       /\ \A j, k \in DOMAIN live[c] : live[c][j] = live[c][k] => j = k

\* the notification with this NextIdx
notification(next) == [next |-> next, by |-> log[next]]

\* the client was replayed what it asks for of the notifications behind index a
\* up to index b: each of them once, in the order of their indexes
replayedSegment(c, a, b) ==
    /\ sent(replayed, c) = {n \in {notification(next) : next \in (a + 1)..b} :
                               isFilter(n, Filters[c])}
    /\ \A j, k \in DOMAIN replayed[c] : j < k => replayed[c][j].next < replayed[c][k].next

\* the oldest index the buffer keeps when b notifications were pushed
oldest(b) == IF b > BufferSize THEN b - BufferSize ELSE 0

\* where the replay up to index b has to start: at the index the client asks
\* for, or at the oldest one in the buffer.  An index still to come counts as
\* one of long ago, unless it is within BufferSize of wrapping around to b: it
\* asks for all of a full buffer, and for nothing of one that is not full
firstIdx(from, b) ==
    IF from > b
    THEN IF b >= BufferSize /\ b + IndexMod - from > BufferSize THEN oldest(b) ELSE b
    ELSE IF from < oldest(b) THEN oldest(b) ELSE from

\* "Notify returns all required VPP notifications (or those available in the
\* buffer) in the same order as they were received": all of them up to the index
\* at which the replay ended, when pushes come one after the other and none is
\* in progress during the replay.
ReplayExact ==
    \A c \in Clients :
        client[c].pc \in {"register", "ready", "sending"} /\ c \notin disturbed /\ ~overlapped =>
            replayedSegment(c, firstIdx(client[c].from, upto[c]), upto[c])

\* No plugin is held up for ever, whatever the clients do.
NeverHeldUp == \A p \in Pushers : push[p].pc # "idle" ~> push[p].pc = "idle" \/ crashed

\* every client reads what it is replayed, or leaves
clientsReadOrLeave == \A c \in Clients : []<>(client[c].pc # "replay" \/ c \in cancelled)

\* No plugin is held up for ever while the clients read what they are replayed
\* or leave: not by a watcher that does not read (the non-blocking send in
\* init), nor by one that leaves during its replay (the lock that Notify holds).
PushCompletes == clientsReadOrLeave => NeverHeldUp

\* "in the same order as they were received", whatever happens at the same time.
InOrder ==
    \A c \in Clients :
        LET all == replayed[c] \o live[c]
        IN \A j, k \in DOMAIN all : j < k => all[j] # Nil /\ all[j].next < all[k].next

\* A client that stays connected is served: the watchers that leave do not take
\* the others, or the agent, with them.
Served == \A c \in Clients : client[c].pc \in {"ready", "sending"} => ~crashed
=============================================================================
