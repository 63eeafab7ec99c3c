------------------------------ MODULE Executor ------------------------------
(***************************************************************************)
(* What the transaction queue promises to whoever puts a transaction into  *)
(* it, all goroutines, the lock and the capacity left out: an accepted     *)
(* transaction is executed at most once, alone, after everything accepted  *)
(* before it, under the next sequence number; a refused one is never       *)
(* executed; and the result a caller gets is the one of its own            *)
(* transaction, sent once, after it was executed and before the next one   *)
(* starts.                                                                 *)
(***************************************************************************)
EXTENDS Integers, Sequences

CONSTANTS Txns,    \* all transactions
          Callers, \* the transactions somebody may wait for
          NoTxn,   \* nothing is executed
          NoSeq    \* not numbered

VARIABLES waiting, \* the accepted transactions, first come first served
          running, \* the transaction being executed
          next,    \* next sequence number
          number,  \* the sequence number of each transaction
          result,  \* the result sent to the caller: a sequence number
          refused  \* transactions turned away

vars == <<waiting, running, next, number, result, refused>>

Init ==
    /\ waiting = <<>> /\ running = NoTxn /\ next = 0 /\ refused = {}
    /\ number = [t \in Txns |-> NoSeq]
    /\ result = [t \in Callers |-> NoSeq]

\* nothing was decided about t yet
Fresh(t) ==
    /\ number[t] = NoSeq /\ t \notin refused
    /\ \A i \in 1..Len(waiting) : waiting[i] # t

Accept(t) ==
    /\ Fresh(t)
    /\ waiting' = Append(waiting, t)
    /\ UNCHANGED <<running, next, number, result, refused>>

Refuse(t) ==
    /\ Fresh(t)
    /\ refused' = refused \cup {t}
    /\ UNCHANGED <<waiting, running, next, number, result>>

Execute ==
    /\ running = NoTxn /\ waiting # <<>>
    /\ running' = Head(waiting) /\ waiting' = Tail(waiting)
    /\ number' = [number EXCEPT ![Head(waiting)] = next]
    /\ next' = next + 1
    /\ UNCHANGED <<result, refused>>

Report ==
    /\ running \in Callers /\ result[running] = NoSeq
    /\ result' = [result EXCEPT ![running] = number[running]]
    /\ UNCHANGED <<waiting, running, next, number, refused>>

Finish ==
    /\ running # NoTxn
    /\ running' = NoTxn
    /\ UNCHANGED <<waiting, next, number, result, refused>>

Next ==
    \/ \E t \in Txns : Accept(t) \/ Refuse(t)
    \/ Execute \/ Report \/ Finish

Spec == Init /\ [][Next]_vars
=============================================================================
