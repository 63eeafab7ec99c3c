---------------------------- MODULE MCKVScheduler ----------------------------
(***************************************************************************)
(* Small instances of KVScheduler.                                         *)
(*                                                                         *)
(*   key 1: a base value that depends on another one                       *)
(*   key 2: a base value with derived values among 4 and 5                 *)
(*   key 3: a base value without dependencies                              *)
(*   key 4: derived from 2, has a descriptor, depends on 3                 *)
(*   key 5: derived from 2, a property: no descriptor                      *)
(***************************************************************************)
EXTENDS KVScheduler, TLC

\* values of 1 and 3; values of 2 with the derived keys D
V(r) == [rev |-> r, der |-> <<>>]
A(r, D) == [rev |-> r, der |-> [d \in D |-> V(IF d = 5 THEN r ELSE 1)]]

MCOwner(d) == 2
MCValid(k, v) == v = Nil \/ v.rev # 9

\* value 2 is re-created for a new revision; or everything can be updated
RecreateOnRev(k, old, new) == k = 2 /\ old.rev # new.rev
NoRecreate(k, old, new) == FALSE

\* 1 depends on the property 5 of 2, or on 2 itself
OnProperty(k, v) == CASE k = 1 -> {{5}} [] k = 4 -> {{3}} [] OTHER -> {}
OnBase(k, v) == CASE k = 1 -> {{2}} [] k = 4 -> {{3}} [] OTHER -> {}

\* 1 and 2 depend on each other, or 2 on 3 instead; 1 at revision 2 on 3 too;
\* the derived 4 on 1
Cyclic(k, v) == CASE k = 1 -> IF v.rev = 2 THEN {{2}, {3}} ELSE {{2}}
                  [] k = 2 -> {{1, 3}}
                  [] k = 4 -> {{1}}
                  [] OTHER -> {}

-----------------------------------------------------------------------------
(* NB transactions *)

request(f) == [values |-> f, resync |-> "NotResync", retry |-> FALSE, revert |-> FALSE,
               simulate |-> FALSE]
resync(type, f) == [request(f) EXCEPT !.resync = type]
retried(q) == [q EXCEPT !.retry = TRUE]
reverted(q) == [q EXCEPT !.revert = TRUE]
simulated(q) == [q EXCEPT !.simulate = TRUE]

Options(k) == CASE k = 1 -> {V(1), V(2)}
                [] k = 2 -> {A(1, {4, 5}), A(1, {5}), A(2, {4, 5})}
                [] k = 3 -> {V(1)}

Assign(K) == {f \in [K -> UNION {Options(k) : k \in K}] : \A k \in K : f[k] \in Options(k)}

\* all transactions that set some values or delete some values
SetOrDelete ==
    {request(f) : f \in UNION {Assign(K) \cup {[k \in K |-> Nil]} : K \in (SUBSET BaseKeys) \ {{}}}}

\* the ones that leave 3 to SB, simulated first
NotThree == {simulated(q) : q \in {q \in SetOrDelete : 3 \notin DOMAIN q.values}}

\* one value at a time, and several
Single == {request(f) : f \in {1 :> V(1), 1 :> V(2), 1 :> Nil, 2 :> A(1, {4, 5}), 2 :> A(1, {5}),
                               2 :> Nil, 3 :> V(1), 3 :> Nil}}
Several == {request(f) : f \in {(1 :> V(1)) @@ (2 :> A(1, {4, 5})),
                                (1 :> V(2)) @@ (2 :> A(2, {4, 5})) @@ (3 :> V(1)),
                                (1 :> Nil) @@ (2 :> Nil)}}
Invalid == {request((1 :> V(9)) @@ (2 :> A(2, {4, 5})))}

\* resyncs of every kind, two of them with options Commit refuses
Resyncs == {resync("Full", <<>>), resync("Downstream", <<>>),
            resync("Full", (1 :> V(1)) @@ (2 :> A(1, {4, 5}))),
            resync("Full", (2 :> A(2, {4, 5})) @@ (3 :> V(1))),
            resync("Downstream", 1 :> V(1)), reverted(resync("Full", 3 :> V(1))),
            resync("Upstream", (1 :> V(1)) @@ (2 :> A(1, {5})))}

Retried == {retried(q) : q \in Single \cup Several}
Reverted == Single \cup {reverted(q) : q \in Several \cup Invalid \cup {request(1 :> V(1)), request(2 :> A(2, {4, 5}))}}

Recovering == Resyncs \cup Several \cup {request(2 :> A(1, {5})), request(3 :> V(1)), request(3 :> Nil)}

\* retried changes, and resyncs; not the ones that delete 1 and create what it was waiting for
Faults == Retried \cup {retried(q) : q \in {q \in Recovering : 1 \in DOMAIN q.values \/ 2 \notin DOMAIN q.values}}

\* a transaction that deletes 1 and creates what 1 was waiting for
DeleteAndCreate == {request(f) : f \in {1 :> V(1), 2 :> A(1, {5}), (1 :> Nil) @@ (2 :> A(1, {5}))}}
\* 2 no longer has the derived value 4, pending for 3, when a full resync comes
ObsoleteDerived == {request(2 :> A(1, {4, 5})), resync("Full", 2 :> A(1, {5})), request(3 :> V(1))}
SomeRetried == Single \cup Retried
SomeInvalid == Single \cup Invalid

-----------------------------------------------------------------------------
(* Outcomes of descriptor calls, changes of SB *)

outcome(failing, effective, retriable) ==
    [failing |-> failing, effective |-> effective, retriable |-> retriable, unretrievable |-> {}]
NoFailure == {outcome({}, FALSE, FALSE)}
oneOf(ops, K, effective, retriable) ==
    NoFailure \cup {outcome({f}, e, retriable) : f \in ops \X K, e \in effective}

CreateOrUpdateFails == oneOf({"CREATE", "UPDATE"}, Described, {FALSE}, FALSE)
CreateMayTakeEffect == oneOf({"CREATE"}, {1, 2, 4}, BOOLEAN, FALSE) \cup oneOf({"UPDATE"}, {2}, BOOLEAN, FALSE)
Retriable == oneOf({"CREATE"}, {1, 2, 4}, BOOLEAN, TRUE) \cup oneOf({"UPDATE"}, {1, 2}, {FALSE}, TRUE)
DeleteFails == oneOf({"DELETE"}, Described, {FALSE}, FALSE)

KV(k, v) == [key |-> k, value |-> v]
\* SB creates and removes 3; or 3 and 1 at once
Both31 == {<<KV(3, V(1)), KV(1, V(1))>>}
UpDown3 == {<<KV(3, V(1))>>, <<KV(3, Nil)>>}

\* SB restarts, loses a value with what depends on it, gets one from elsewhere
Losses == {<<KV(1, Nil), KV(2, Nil), KV(3, Nil), KV(4, Nil)>>, <<KV(1, Nil), KV(2, Nil), KV(4, Nil)>>,
           <<KV(3, Nil), KV(4, Nil)>>, <<KV(3, V(2))>>}
=============================================================================
