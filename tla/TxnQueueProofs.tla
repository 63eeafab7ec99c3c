--------------------------- MODULE TxnQueueProofs ---------------------------
(***************************************************************************)
(* Proofs about TxnQueue for any number of clients, commits, notifications *)
(* and retries, any queue capacity and any retry limit.                    *)
(***************************************************************************)
EXTENDS TxnQueue, TLAPS

\* What the type invariant is inductive with: the consumer holds a transaction
\* while it processes one and has numbered it before it executes it, and a
\* client inside Commit has started one.
RunInv ==
    /\ consumer \in {"lock", "execute", "finish"} => cur \in Txns
    /\ consumer \in {"execute", "finish"} => seq[cur] \in Nat
    /\ \A c \in Clients : pc[c] # "idle" => n[c] > 0

TypeInv == TypeOK /\ RunInv

\* Commits, notifications and retries are distinct transactions.
LEMMA ConstantFacts ==
    /\ Commits \subseteq Txns /\ Notifs \subseteq Txns /\ Retries \subseteq Txns
    /\ \A c \in Clients : \A i \in 1..MaxCommits : <<c, i>> \in Commits
    /\ NoTxn \notin Txns
    /\ \A t \in Commits : t[1] \in Clients /\ t \notin Retries /\ t \notin Notifs
    /\ \A x \in Notifs : x \notin Retries
  BY QueueAssumption DEF Commits, Txns

\* The initial state is well typed.
LEMMA TypeInit == Init => TypeInv
<1> SUFFICES ASSUME Init PROVE TypeInv
  OBVIOUS
<1> USE QueueAssumption, ConstantFacts DEF Init
<1>1. queue \in Seq(Txns) /\ place \in [Txns -> Places] /\ retry \in [Retries -> RetryArgs]
  BY DEF Places, RetryArgs
<1>2. ConsumerType
  BY DEF ConsumerType, NoSeq
<1>3. ClientType
  BY DEF ClientType, NoSeq
<1>4. CloseType
  BY DEF CloseType
<1> QED
  BY <1>1, <1>2, <1>3, <1>4 DEF TypeInv, TypeOK, RunInv

\* Every step of every goroutine keeps the types.
LEMMA TypeStep == TypeInv /\ [Next]_vars => TypeInv'
<1> SUFFICES ASSUME TypeInv, [Next]_vars PROVE TypeInv'
  OBVIOUS
<1> USE QueueAssumption, ConstantFacts DEF TypeInv, TypeOK
<1>1. ASSUME NEW c \in Clients, CommitStart(c) PROVE TypeInv'
  <2>1. (queue \in Seq(Txns))' /\ (place \in [Txns -> Places])' /\ (retry \in [Retries -> RetryArgs])'
    BY <1>1 DEF CommitStart, Places, RetryArgs, ConsumerType, RunInv
  <2>2. ConsumerType' /\ RunInv'
    BY <1>1 DEF CommitStart, ConsumerType, ClientType, RunInv
  <2>3. ClientType'
    BY <1>1 DEF CommitStart, clientVars, ClientType, RunInv
  <2>4. CloseType'
    BY <1>1 DEF CommitStart, CloseType, ConsumerType
  <2> QED
    BY <2>1, <2>2, <2>3, <2>4
<1>2. ASSUME NEW c \in Clients, CommitEnqueue(c) PROVE TypeInv'
  <2>00. n[c] \in 1..MaxCommits
    BY <1>2 DEF CommitEnqueue, ClientType, RunInv
  <2>0. commit(c) \in Txns
    BY <2>00 DEF commit
  <2>01. (queue \in Seq(Txns))'
    BY <1>2, <2>0 DEF CommitEnqueue, Enqueue
  <2>1. (queue \in Seq(Txns))' /\ (place \in [Txns -> Places])' /\ (retry \in [Retries -> RetryArgs])'
    BY <1>2, <2>01 DEF CommitEnqueue, Enqueue, Places
  <2>2. ConsumerType' /\ RunInv'
    BY <1>2 DEF CommitEnqueue, Enqueue, commit, ConsumerType, ClientType, RunInv, clientVars
  <2>3. ClientType'
    BY <1>2 DEF CommitEnqueue, Enqueue, commit, clientVars, ClientType, RunInv
  <2>4. CloseType'
    BY <1>2 DEF CommitEnqueue, Enqueue, commit, CloseType, ConsumerType
  <2> QED
    BY <2>1, <2>2, <2>3, <2>4
<1>3. ASSUME NEW c \in Clients, CommitRefused(c) PROVE TypeInv'
  <2>1. (queue \in Seq(Txns))' /\ (place \in [Txns -> Places])' /\ (retry \in [Retries -> RetryArgs])'
    BY <1>3 DEF CommitRefused, CommitReturn, commit, Places, RetryArgs, ConsumerType, RunInv
  <2>2. ConsumerType' /\ RunInv'
    BY <1>3 DEF CommitRefused, CommitReturn, commit, ConsumerType, ClientType, RunInv, clientVars
  <2>3. ClientType'
    BY <1>3 DEF CommitRefused, CommitReturn, commit, clientVars, ClientType, RunInv
  <2>4. CloseType'
    BY <1>3 DEF CommitRefused, CommitReturn, commit, CloseType, ConsumerType
  <2> QED
    BY <2>1, <2>2, <2>3, <2>4
<1>4. ASSUME NEW c \in Clients, CommitResult(c) PROVE TypeInv'
  <2>1. (queue \in Seq(Txns))' /\ (place \in [Txns -> Places])' /\ (retry \in [Retries -> RetryArgs])'
    BY <1>4 DEF CommitResult, CommitReturn, commit, Places, RetryArgs, ConsumerType, RunInv
  <2>2. ConsumerType' /\ RunInv'
    BY <1>4 DEF CommitResult, CommitReturn, commit, ConsumerType, ClientType, RunInv, clientVars
  <2>3. ClientType'
    BY <1>4 DEF CommitResult, CommitReturn, commit, clientVars, ClientType, RunInv
  <2>4. CloseType'
    BY <1>4 DEF CommitResult, CommitReturn, commit, CloseType, ConsumerType
  <2> QED
    BY <2>1, <2>2, <2>3, <2>4
<1>5. ASSUME NEW c \in Clients, CommitClosed(c) PROVE TypeInv'
  <2>1. (queue \in Seq(Txns))' /\ (place \in [Txns -> Places])' /\ (retry \in [Retries -> RetryArgs])'
    BY <1>5 DEF CommitClosed, CommitReturn, commit, Places, RetryArgs, ConsumerType, RunInv
  <2>2. ConsumerType' /\ RunInv'
    BY <1>5 DEF CommitClosed, CommitReturn, commit, ConsumerType, ClientType, RunInv, clientVars
  <2>3. ClientType'
    BY <1>5 DEF CommitClosed, CommitReturn, commit, clientVars, ClientType, RunInv
  <2>4. CloseType'
    BY <1>5 DEF CommitClosed, CommitReturn, commit, CloseType, ConsumerType
  <2> QED
    BY <2>1, <2>2, <2>3, <2>4
<1>6. ASSUME NEW c \in Clients, CommitCanceled(c) PROVE TypeInv'
  <2>1. (queue \in Seq(Txns))' /\ (place \in [Txns -> Places])' /\ (retry \in [Retries -> RetryArgs])'
    BY <1>6 DEF CommitCanceled, CommitReturn, commit, Places, RetryArgs, ConsumerType, RunInv
  <2>2. ConsumerType' /\ RunInv'
    BY <1>6 DEF CommitCanceled, CommitReturn, commit, ConsumerType, ClientType, RunInv, clientVars
  <2>3. ClientType'
    BY <1>6 DEF CommitCanceled, CommitReturn, commit, clientVars, ClientType, RunInv
  <2>4. CloseType'
    BY <1>6 DEF CommitCanceled, CommitReturn, commit, CloseType, ConsumerType
  <2> QED
    BY <2>1, <2>2, <2>3, <2>4
<1>7. ASSUME NEW x \in Notifs, PushSBNotification(x) PROVE TypeInv'
  <2>01. (queue \in Seq(Txns))'
    BY <1>7 DEF PushSBNotification, Enqueue
  <2>1. (queue \in Seq(Txns))' /\ (place \in [Txns -> Places])' /\ (retry \in [Retries -> RetryArgs])'
    BY <1>7, <2>01 DEF PushSBNotification, Enqueue, Places
  <2>2. ConsumerType' /\ RunInv'
    BY <1>7 DEF PushSBNotification, Enqueue, ConsumerType, ClientType, RunInv, clientVars
  <2>3. ClientType'
    BY <1>7 DEF PushSBNotification, Enqueue, clientVars, ClientType, RunInv
  <2>4. CloseType'
    BY <1>7 DEF PushSBNotification, Enqueue, CloseType, ConsumerType
  <2> QED
    BY <2>1, <2>2, <2>3, <2>4
<1>8. CASE Dequeue
  <2>1. (queue \in Seq(Txns))' /\ (place \in [Txns -> Places])' /\ (retry \in [Retries -> RetryArgs])'
    BY <1>8 DEF Dequeue, Places, RetryArgs, ConsumerType, RunInv
  <2>2. ConsumerType' /\ RunInv'
    BY <1>8 DEF Dequeue, ConsumerType, ClientType, RunInv, clientVars
  <2>3. ClientType'
    BY <1>8 DEF Dequeue, clientVars, ClientType, RunInv
  <2>4. CloseType'
    BY <1>8 DEF Dequeue, CloseType, ConsumerType
  <2> QED
    BY <2>1, <2>2, <2>3, <2>4
<1>9. CASE ConsumerExit
  <2>1. (queue \in Seq(Txns))' /\ (place \in [Txns -> Places])' /\ (retry \in [Retries -> RetryArgs])'
    BY <1>9 DEF ConsumerExit, Places, RetryArgs, ConsumerType, RunInv
  <2>2. ConsumerType' /\ RunInv'
    BY <1>9 DEF ConsumerExit, ConsumerType, ClientType, RunInv, clientVars
  <2>3. ClientType'
    BY <1>9 DEF ConsumerExit, clientVars, ClientType, RunInv
  <2>4. CloseType'
    BY <1>9 DEF ConsumerExit, CloseType, ConsumerType
  <2> QED
    BY <2>1, <2>2, <2>3, <2>4
<1>10. CASE StartTxn
  <2>1. (queue \in Seq(Txns))' /\ (place \in [Txns -> Places])' /\ (retry \in [Retries -> RetryArgs])'
    BY <1>10 DEF StartTxn, Places, RetryArgs, ConsumerType, RunInv
  <2>2. ConsumerType' /\ RunInv'
    BY <1>10 DEF StartTxn, ConsumerType, ClientType, RunInv, clientVars
  <2>3. ClientType'
    BY <1>10 DEF StartTxn, clientVars, ClientType, RunInv
  <2>4. CloseType'
    BY <1>10 DEF StartTxn, CloseType, ConsumerType
  <2> QED
    BY <2>1, <2>2, <2>3, <2>4
<1>11. CASE PostProcess
  <2>0. PICK R \in SUBSET {r \in Retries : place[r] = "none"} :
           \E args \in [R -> NextRetryArgs] : Spawn(R, args)
    BY <1>11 DEF PostProcess
  <2>01. PICK args \in [R -> NextRetryArgs] : Spawn(R, args)
    BY <2>0
  <2>02. NextRetryArgs \subseteq RetryArgs
    BY <1>11 DEF PostProcess, NextRetryArgs, RetryArgs, RunInv
  <2>1. (queue \in Seq(Txns))' /\ (place \in [Txns -> Places])' /\ (retry \in [Retries -> RetryArgs])'
    BY <1>11, <2>01, <2>02 DEF PostProcess, Spawn, Places
  <2>2. ConsumerType' /\ RunInv'
    BY <1>11 DEF PostProcess, Spawn, NextRetryArgs, ConsumerType, ClientType, RunInv, clientVars
  <2>3. ClientType'
    BY <1>11 DEF PostProcess, Spawn, NextRetryArgs, clientVars, ClientType, RunInv
  <2>4. CloseType'
    BY <1>11 DEF PostProcess, Spawn, NextRetryArgs, CloseType, ConsumerType
  <2> QED
    BY <2>1, <2>2, <2>3, <2>4
<1>12. CASE FinishTxn
  <2>1. (queue \in Seq(Txns))' /\ (place \in [Txns -> Places])' /\ (retry \in [Retries -> RetryArgs])'
    BY <1>12 DEF FinishTxn, Places, RetryArgs, ConsumerType, RunInv
  <2>2. ConsumerType' /\ RunInv'
    BY <1>12 DEF FinishTxn, ConsumerType, ClientType, RunInv, clientVars
  <2>3. ClientType'
    BY <1>12 DEF FinishTxn, clientVars, ClientType, RunInv
  <2>4. CloseType'
    BY <1>12 DEF FinishTxn, CloseType, ConsumerType
  <2> QED
    BY <2>1, <2>2, <2>3, <2>4
<1>13. ASSUME NEW r \in Retries, RetryStart(r) PROVE TypeInv'
  <2>1. (queue \in Seq(Txns))' /\ (place \in [Txns -> Places])' /\ (retry \in [Retries -> RetryArgs])'
    BY <1>13 DEF RetryStart, Places, RetryArgs, ConsumerType, RunInv
  <2>2. ConsumerType' /\ RunInv'
    BY <1>13 DEF RetryStart, ConsumerType, ClientType, RunInv, clientVars
  <2>3. ClientType'
    BY <1>13 DEF RetryStart, clientVars, ClientType, RunInv
  <2>4. CloseType'
    BY <1>13 DEF RetryStart, CloseType, ConsumerType
  <2> QED
    BY <2>1, <2>2, <2>3, <2>4
<1>14. ASSUME NEW r \in Retries, RetryEnqueue(r) PROVE TypeInv'
  <2>1. (queue \in Seq(Txns))' /\ (place \in [Txns -> Places])' /\ (retry \in [Retries -> RetryArgs])'
    BY <1>14 DEF RetryEnqueue, Enqueue, RetryDue, Places, RetryArgs, ConsumerType, RunInv
  <2>2. ConsumerType' /\ RunInv'
    BY <1>14 DEF RetryEnqueue, Enqueue, RetryDue, ConsumerType, ClientType, RunInv, clientVars
  <2>3. ClientType'
    BY <1>14 DEF RetryEnqueue, Enqueue, RetryDue, clientVars, ClientType, RunInv
  <2>4. CloseType'
    BY <1>14 DEF RetryEnqueue, Enqueue, RetryDue, CloseType, ConsumerType
  <2> QED
    BY <2>1, <2>2, <2>3, <2>4
<1>15. ASSUME NEW r \in Retries, RetryAgain(r) PROVE TypeInv'
  <2>1. (queue \in Seq(Txns))' /\ (place \in [Txns -> Places])' /\ (retry \in [Retries -> RetryArgs])'
    BY <1>15 DEF RetryAgain, RetryDue, Places, RetryArgs, ConsumerType, RunInv
  <2>2. ConsumerType' /\ RunInv'
    BY <1>15 DEF RetryAgain, RetryDue, ConsumerType, ClientType, RunInv, clientVars
  <2>3. ClientType'
    BY <1>15 DEF RetryAgain, RetryDue, clientVars, ClientType, RunInv
  <2>4. CloseType'
    BY <1>15 DEF RetryAgain, RetryDue, CloseType, ConsumerType
  <2> QED
    BY <2>1, <2>2, <2>3, <2>4
<1>16. ASSUME NEW r \in Retries, RetryCancel(r) PROVE TypeInv'
  <2>1. (queue \in Seq(Txns))' /\ (place \in [Txns -> Places])' /\ (retry \in [Retries -> RetryArgs])'
    BY <1>16 DEF RetryCancel, Places, RetryArgs, ConsumerType, RunInv
  <2>2. ConsumerType' /\ RunInv'
    BY <1>16 DEF RetryCancel, ConsumerType, ClientType, RunInv, clientVars
  <2>3. ClientType'
    BY <1>16 DEF RetryCancel, clientVars, ClientType, RunInv
  <2>4. CloseType'
    BY <1>16 DEF RetryCancel, CloseType, ConsumerType
  <2> QED
    BY <2>1, <2>2, <2>3, <2>4
<1>17. CASE RegisterDescriptor
  <2>1. (queue \in Seq(Txns))' /\ (place \in [Txns -> Places])' /\ (retry \in [Retries -> RetryArgs])'
    BY <1>17 DEF RegisterDescriptor, Places, RetryArgs, ConsumerType, RunInv
  <2>2. ConsumerType' /\ RunInv'
    BY <1>17 DEF RegisterDescriptor, ConsumerType, ClientType, RunInv, clientVars
  <2>3. ClientType'
    BY <1>17 DEF RegisterDescriptor, clientVars, ClientType, RunInv
  <2>4. CloseType'
    BY <1>17 DEF RegisterDescriptor, CloseType, ConsumerType
  <2> QED
    BY <2>1, <2>2, <2>3, <2>4
<1>18. CASE Observe
  <2>1. (queue \in Seq(Txns))' /\ (place \in [Txns -> Places])' /\ (retry \in [Retries -> RetryArgs])'
    BY <1>18 DEF Observe, Places, RetryArgs, ConsumerType, RunInv
  <2>2. ConsumerType' /\ RunInv'
    BY <1>18 DEF Observe, ConsumerType, ClientType, RunInv, clientVars
  <2>3. ClientType'
    BY <1>18 DEF Observe, clientVars, ClientType, RunInv
  <2>4. CloseType'
    BY <1>18 DEF Observe, CloseType, ConsumerType
  <2> QED
    BY <2>1, <2>2, <2>3, <2>4
<1>19. CASE TransactionBarrier
  <2>1. (queue \in Seq(Txns))' /\ (place \in [Txns -> Places])' /\ (retry \in [Retries -> RetryArgs])'
    BY <1>19 DEF TransactionBarrier, Places, RetryArgs, ConsumerType, RunInv
  <2>2. ConsumerType' /\ RunInv'
    BY <1>19 DEF TransactionBarrier, ConsumerType, ClientType, RunInv, clientVars
  <2>3. ClientType'
    BY <1>19 DEF TransactionBarrier, clientVars, ClientType, RunInv
  <2>4. CloseType'
    BY <1>19 DEF TransactionBarrier, CloseType, ConsumerType
  <2> QED
    BY <2>1, <2>2, <2>3, <2>4
<1>20. CASE CloseCancel
  <2>1. (queue \in Seq(Txns))' /\ (place \in [Txns -> Places])' /\ (retry \in [Retries -> RetryArgs])'
    BY <1>20 DEF CloseCancel, Places, RetryArgs, ConsumerType, RunInv
  <2>2. ConsumerType' /\ RunInv'
    BY <1>20 DEF CloseCancel, ConsumerType, ClientType, RunInv, clientVars
  <2>3. ClientType'
    BY <1>20 DEF CloseCancel, clientVars, ClientType, RunInv
  <2>4. CloseType'
    BY <1>20 DEF CloseCancel, CloseType, ConsumerType
  <2> QED
    BY <2>1, <2>2, <2>3, <2>4
<1>21. CASE CloseReturn
  <2>1. (queue \in Seq(Txns))' /\ (place \in [Txns -> Places])' /\ (retry \in [Retries -> RetryArgs])'
    BY <1>21 DEF CloseReturn, Places, RetryArgs, ConsumerType, RunInv
  <2>2. ConsumerType' /\ RunInv'
    BY <1>21 DEF CloseReturn, ConsumerType, ClientType, RunInv, clientVars
  <2>3. ClientType'
    BY <1>21 DEF CloseReturn, clientVars, ClientType, RunInv
  <2>4. CloseType'
    BY <1>21 DEF CloseReturn, CloseType, ConsumerType
  <2> QED
    BY <2>1, <2>2, <2>3, <2>4
<1>22. CASE Quiescent \/ UNCHANGED vars
  BY <1>22 DEF Quiescent, vars, clientVars, ConsumerType, ClientType, CloseType, RunInv
<1> QED
  BY <1>1, <1>2, <1>3, <1>4, <1>5, <1>6, <1>7, <1>8, <1>9, <1>10, <1>11, <1>12, <1>13, <1>14, <1>15, <1>16, <1>17, <1>18, <1>19, <1>20, <1>21, <1>22
     DEF Next, ClientStep, ConsumerStep, RetryStep

\* Every variable keeps its type, for any clients, notifications and retries.
THEOREM TypeCorrect == Spec => []TypeOK
<1>1. TypeInv /\ [Next]_vars => TypeInv'
  BY TypeStep
<1>2. TypeInv => TypeOK
  BY DEF TypeInv
<1> QED
  BY TypeInit, <1>1, <1>2, PTL DEF Spec

-----------------------------------------------------------------------------
(* Close *)

\* The consumer is counted by the WaitGroup until it exits, so that Close cannot
\* return before.
WgInv ==
    /\ consumer # "exited" => "consumer" \in wg
    /\ consumer \in {"dequeue", "exited"} <=> cur = NoTxn
    /\ closer = "closed" => consumer = "exited"

\* No step lets the consumer run outside the WaitGroup or Close return too early.
LEMMA WgStep == TypeInv /\ WgInv /\ [Next]_vars => WgInv'
<1> SUFFICES ASSUME TypeInv, WgInv, [Next]_vars PROVE WgInv'
  OBVIOUS
<1>0. /\ consumer \in {"dequeue", "lock", "execute", "finish", "exited"} /\ queue \in Seq(Txns)
      /\ consumer \in {"lock", "execute", "finish"} => cur \in Txns
      /\ wg \in SUBSET ({"consumer"} \cup Retries) /\ "consumer" \notin Retries
  BY QueueAssumption DEF TypeInv, TypeOK, RunInv, ConsumerType, ClientType, CloseType, NoSeq
<1> USE ConstantFacts, <1>0 DEF WgInv
<1>1. ASSUME NEW c \in Clients, CommitStart(c) PROVE WgInv'
  BY <1>1 DEF CommitStart, clientVars
<1>2. ASSUME NEW c \in Clients, CommitEnqueue(c) PROVE WgInv'
  BY <1>2 DEF CommitEnqueue, Enqueue, commit, clientVars
<1>3. ASSUME NEW c \in Clients, CommitRefused(c) PROVE WgInv'
  BY <1>3 DEF CommitRefused, CommitReturn, commit, clientVars
<1>4. ASSUME NEW c \in Clients, CommitResult(c) PROVE WgInv'
  BY <1>4 DEF CommitResult, CommitReturn, commit, clientVars
<1>5. ASSUME NEW c \in Clients, CommitClosed(c) PROVE WgInv'
  BY <1>5 DEF CommitClosed, CommitReturn, commit, clientVars
<1>6. ASSUME NEW c \in Clients, CommitCanceled(c) PROVE WgInv'
  BY <1>6 DEF CommitCanceled, CommitReturn, commit, clientVars
<1>7. ASSUME NEW x \in Notifs, PushSBNotification(x) PROVE WgInv'
  BY <1>7 DEF PushSBNotification, Enqueue, clientVars
<1>8. CASE Dequeue
  BY <1>8 DEF Dequeue, clientVars
<1>9. CASE ConsumerExit
  BY <1>9 DEF ConsumerExit, clientVars
<1>10. CASE StartTxn
  BY <1>10 DEF StartTxn, clientVars
<1>11. CASE PostProcess
  BY <1>11 DEF PostProcess, Spawn, clientVars
<1>12. CASE FinishTxn
  BY <1>12 DEF FinishTxn, clientVars
<1>13. ASSUME NEW r \in Retries, RetryStart(r) PROVE WgInv'
  BY <1>13 DEF RetryStart, clientVars
<1>14. ASSUME NEW r \in Retries, RetryEnqueue(r) PROVE WgInv'
  BY <1>14 DEF RetryEnqueue, RetryDue, Enqueue, clientVars
<1>15. ASSUME NEW r \in Retries, RetryAgain(r) PROVE WgInv'
  BY <1>15 DEF RetryAgain, RetryDue, clientVars
<1>16. ASSUME NEW r \in Retries, RetryCancel(r) PROVE WgInv'
  BY <1>16 DEF RetryCancel, clientVars
<1>17. CASE RegisterDescriptor
  BY <1>17 DEF RegisterDescriptor, clientVars
<1>18. CASE Observe
  BY <1>18 DEF Observe, clientVars
<1>19. CASE TransactionBarrier
  BY <1>19 DEF TransactionBarrier, txnLockFree, clientVars
<1>20. CASE CloseCancel
  BY <1>20 DEF CloseCancel, clientVars
<1>21. CASE CloseReturn
  BY <1>21 DEF CloseReturn, clientVars
<1>22. CASE Quiescent \/ UNCHANGED vars
  BY <1>22 DEF Quiescent, vars, clientVars
<1> QED
  BY <1>1, <1>2, <1>3, <1>4, <1>5, <1>6, <1>7, <1>8, <1>9, <1>10, <1>11,
     <1>12, <1>13, <1>14, <1>15, <1>16, <1>17, <1>18, <1>19, <1>20, <1>21, <1>22
     DEF Next, ClientStep, ConsumerStep, RetryStep

-----------------------------------------------------------------------------
(* Exactly once *)

Injective(q) == \A i, j \in 1..Len(q) : q[i] = q[j] => i = j
Elems(q) == {q[i] : i \in 1..Len(q)}

\* Appending a transaction that is not queued keeps the queue free of repetition.
LEMMA AppendOnce ==
    ASSUME NEW q \in Seq(Txns), NEW t \in Txns, t \notin Elems(q), Injective(q)
    PROVE  /\ Injective(Append(q, t)) /\ Elems(Append(q, t)) = Elems(q) \cup {t}
           /\ Len(Append(q, t)) = Len(q) + 1
<1>1. /\ Len(Append(q, t)) = Len(q) + 1
      /\ \A i \in 1..Len(q) : Append(q, t)[i] = q[i]
      /\ Append(q, t)[Len(q) + 1] = t
      /\ Len(q) \in Nat
  OBVIOUS
<1> QED
  BY <1>1 DEF Injective, Elems

\* Taking the first transaction removes it, and only it, from the queue.
LEMMA TailOnce ==
    ASSUME NEW q \in Seq(Txns), q # <<>>, Injective(q)
    PROVE  /\ Injective(Tail(q)) /\ Elems(Tail(q)) = Elems(q) \ {Head(q)}
           /\ Len(Tail(q)) = Len(q) - 1 /\ Head(q) \in Elems(q)
<1>1. /\ Len(Tail(q)) = Len(q) - 1
      /\ \A i \in 1..(Len(q) - 1) : Tail(q)[i] = q[i + 1]
      /\ Head(q) = q[1] /\ Len(q) \in Nat \ {0}
  OBVIOUS
<1>2. Injective(Tail(q))
  BY <1>1 DEF Injective
<1>3. Elems(Tail(q)) \subseteq Elems(q) \ {Head(q)}
  BY <1>1 DEF Injective, Elems
<1>4. ASSUME NEW i \in 1..Len(q), q[i] # Head(q) PROVE q[i] \in Elems(Tail(q))
  <2>1. i - 1 \in 1..(Len(q) - 1) /\ Tail(q)[i - 1] = q[i]
    BY <1>1, <1>4
  <2> QED
    BY <1>1, <2>1 DEF Elems
<1>5. Elems(Tail(q)) = Elems(q) \ {Head(q)}
  BY <1>3, <1>4 DEF Elems
<1>6. Head(q) \in Elems(q)
  BY <1>1 DEF Elems
<1> QED
  BY <1>1, <1>2, <1>5, <1>6

\* Where the transactions are: in the queue without repetition, with the
\* consumer, with a client that has not yet queued its own, or not yet created.
OnceInv ==
    /\ Injective(queue) /\ Len(queue) <= QueueCap
    /\ \A t \in Txns : (place[t] = "queued") <=> t \in Elems(queue)
    /\ \A t \in Txns : (place[t] \in {"held", "running"}) <=> cur = t
    /\ \A c \in Clients : pc[c] = "enqueue" => place[commit(c)] = "pushing"
    /\ \A c \in Clients : \A i \in 1..MaxCommits : i > n[c] => place[<<c, i>>] = "none"

\* No step of a client, plugin, retry or the consumer loses or doubles a transaction.
LEMMA OnceStep == TypeInv /\ WgInv /\ OnceInv /\ [Next]_vars => OnceInv'
<1> SUFFICES ASSUME TypeInv, WgInv, OnceInv, [Next]_vars PROVE OnceInv'
  OBVIOUS
<1>0. /\ queue \in Seq(Txns) /\ place \in [Txns -> Places] /\ consumer \in {"dequeue", "lock", "execute", "finish", "exited"}
      /\ n \in [Clients -> 0..MaxCommits] /\ pc \in [Clients -> {"idle", "enqueue", "wait"}]
      /\ consumer \in {"lock", "execute", "finish"} => cur \in Txns
      /\ \A c \in Clients : pc[c] # "idle" => n[c] \in 1..MaxCommits
  BY QueueAssumption DEF TypeInv, TypeOK, RunInv, ConsumerType, ClientType, CloseType, NoSeq
<1> USE ConstantFacts, <1>0 DEF OnceInv, commit
<1>1. ASSUME NEW c \in Clients, CommitStart(c) PROVE OnceInv'
  <2>01. n[c] + 1 \in 1..MaxCommits
    BY <1>1, QueueAssumption DEF CommitStart
  <2>02. <<c, n[c] + 1>> \in Txns
    BY <2>01
  <2>03. place[<<c, n[c] + 1>>] = "none"
    BY <2>01
  <2>1. n[c] + 1 \in 1..MaxCommits /\ <<c, n[c] + 1>> \in Txns /\ place[<<c, n[c] + 1>>] = "none"
    BY <2>01, <2>02, <2>03
  <2>2. /\ place' = [place EXCEPT ![<<c, n[c] + 1>>] = "pushing"] /\ UNCHANGED <<queue, cur>>
        /\ n' = [n EXCEPT ![c] = n[c] + 1] /\ pc' = [pc EXCEPT ![c] = "enqueue"]
    BY <1>1 DEF CommitStart
  <2>3. \A u \in Txns : /\ (place'[u] = "queued") <=> u \in Elems(queue')
                        /\ (place'[u] \in {"held", "running"}) <=> cur' = u
    BY <2>1, <2>2
  <2>4. \A d \in Clients : pc'[d] = "enqueue" => place'[<<d, n'[d]>>] = "pushing"
    BY <2>1, <2>2
  <2>5. \A d \in Clients : \A i \in 1..MaxCommits : i > n'[d] => place'[<<d, i>>] = "none"
    BY <2>1, <2>2
  <2> QED
    BY <2>2, <2>3, <2>4, <2>5
<1>2. ASSUME NEW c \in Clients, CommitEnqueue(c) PROVE OnceInv'
  <2>1. <<c, n[c]>> \in Txns /\ n[c] \in 1..MaxCommits /\ place[<<c, n[c]>>] = "pushing"
    BY <1>2 DEF CommitEnqueue
  <2>2. <<c, n[c]>> \notin Elems(queue) /\ cur # <<c, n[c]>>
    BY <2>1
  <2>3. /\ queue' = Append(queue, <<c, n[c]>>) /\ place' = [place EXCEPT ![<<c, n[c]>>] = "queued"]
        /\ Len(queue) < QueueCap /\ UNCHANGED <<n, cur>>
    BY <1>2 DEF CommitEnqueue, Enqueue, HasRoom, clientVars
  <2>41. Injective(queue') /\ Elems(queue') = Elems(queue) \cup {<<c, n[c]>>} /\ Len(queue') = Len(queue) + 1
    BY <2>1, <2>2, <2>3, AppendOnce
  <2>4. Injective(queue') /\ Elems(queue') = Elems(queue) \cup {<<c, n[c]>>} /\ Len(queue') <= QueueCap
    <3>1. Len(queue) \in Nat /\ QueueCap \in Nat
      BY QueueAssumption
    <3>2. Len(queue') <= QueueCap
      BY <2>3, <2>41, <3>1
    <3> QED
      BY <2>41, <3>2
  <2>5. \A u \in Txns : /\ (place'[u] = "queued") <=> u \in Elems(queue')
                        /\ (place'[u] \in {"held", "running"}) <=> cur' = u
    BY <2>1, <2>2, <2>3, <2>4
  <2>6. \A d \in Clients : /\ pc'[d] = "enqueue" => place'[<<d, n'[d]>>] = "pushing"
                           /\ \A i \in 1..MaxCommits : i > n'[d] => place'[<<d, i>>] = "none"
    BY <1>2, <2>1, <2>3 DEF CommitEnqueue, clientVars
  <2> QED
    BY <2>4, <2>5, <2>6
<1>3. ASSUME NEW c \in Clients, CommitRefused(c) PROVE OnceInv'
  BY <1>3 DEF CommitRefused, CommitReturn, commit, clientVars
<1>4. ASSUME NEW c \in Clients, CommitResult(c) PROVE OnceInv'
  BY <1>4 DEF CommitResult, CommitReturn, commit, clientVars
<1>5. ASSUME NEW c \in Clients, CommitClosed(c) PROVE OnceInv'
  BY <1>5 DEF CommitClosed, CommitReturn, commit, clientVars
<1>6. ASSUME NEW c \in Clients, CommitCanceled(c) PROVE OnceInv'
  BY <1>6 DEF CommitCanceled, CommitReturn, commit, clientVars
<1>7. ASSUME NEW x \in Notifs, PushSBNotification(x) PROVE OnceInv'
  <2>1. CASE Enqueue(x)
    <3>1. x \in Txns /\ x \notin Commits /\ place[x] = "none"
      BY <1>7, <2>1 DEF PushSBNotification
    <3>2. x \notin Elems(queue) /\ cur # x
      BY <3>1
    <3>3. /\ queue' = Append(queue, x) /\ place' = [place EXCEPT ![x] = "queued"]
          /\ Len(queue) < QueueCap /\ UNCHANGED <<n, cur>>
      BY <1>7, <2>1 DEF PushSBNotification, Enqueue, HasRoom, clientVars
    <3>41. Injective(queue') /\ Elems(queue') = Elems(queue) \cup {x} /\ Len(queue') = Len(queue) + 1
      BY <3>1, <3>2, <3>3, AppendOnce
    <3>4. Injective(queue') /\ Elems(queue') = Elems(queue) \cup {x} /\ Len(queue') <= QueueCap
      <4>1. Len(queue) \in Nat /\ QueueCap \in Nat
        BY QueueAssumption
      <4>2. Len(queue') <= QueueCap
        BY <3>3, <3>41, <4>1
      <4> QED
        BY <3>41, <4>2
    <3>5. \A u \in Txns : /\ (place'[u] = "queued") <=> u \in Elems(queue')
                          /\ (place'[u] \in {"held", "running"}) <=> cur' = u
      BY <3>1, <3>2, <3>3, <3>4
    <3>6. \A d \in Clients : /\ pc'[d] = "enqueue" => place'[<<d, n'[d]>>] = "pushing"
                             /\ \A i \in 1..MaxCommits : i > n'[d] => place'[<<d, i>>] = "none"
      BY <1>7, <2>1, <3>1, <3>3 DEF PushSBNotification, clientVars
    <3> QED
      BY <3>4, <3>5, <3>6
  <2>2. CASE place' = [place EXCEPT ![x] = "dropped"] /\ UNCHANGED queue
    BY <1>7, <2>2 DEF PushSBNotification, clientVars
  <2> QED
    BY <1>7, <2>1, <2>2 DEF PushSBNotification
<1>8. CASE Dequeue
  <2> DEFINE t == Head(queue)
  <2>1. /\ queue # <<>> /\ queue' = Tail(queue) /\ cur' = t /\ cur = NoTxn
        /\ place' = [place EXCEPT ![t] = "held"] /\ UNCHANGED <<n, pc>>
    BY <1>8 DEF Dequeue, clientVars, WgInv
  <2>2. t \in Txns
    BY <2>1
  <2>3. /\ Injective(queue') /\ Elems(queue') = Elems(queue) \ {t}
        /\ Len(queue') <= QueueCap /\ t \in Elems(queue)
    BY <2>1, TailOnce, QueueAssumption
  <2>4. place[t] = "queued"
    BY <2>2, <2>3
  <2>5. \A u \in Txns : /\ (place'[u] = "queued") <=> u \in Elems(queue')
                        /\ (place'[u] \in {"held", "running"}) <=> cur' = u
    BY <2>1, <2>2, <2>3, <2>4
  <2>6. \A d \in Clients : /\ pc'[d] = "enqueue" => place'[<<d, n'[d]>>] = "pushing"
                           /\ \A i \in 1..MaxCommits : i > n'[d] => place'[<<d, i>>] = "none"
    <3>1. \A d \in Clients : pc'[d] = "enqueue" => <<d, n[d]>> \in Txns
      BY <2>1
    <3>2. \A d \in Clients : pc'[d] = "enqueue" => place'[<<d, n'[d]>>] = "pushing"
      BY <2>1, <2>2, <2>4, <3>1
    <3>3. ASSUME NEW d \in Clients, NEW i \in 1..MaxCommits, i > n'[d]
          PROVE  place'[<<d, i>>] = "none"
      <4>1. place[<<d, i>>] = "none" /\ <<d, i>> \in Txns
        BY <2>1, <3>3
      <4>2. <<d, i>> # t
        BY <2>4, <4>1
      <4> HIDE DEF t
      <4> QED
        BY <2>1, <4>1, <4>2
    <3> QED
      BY <3>2, <3>3
  <2> QED
    BY <2>3, <2>5, <2>6
<1>9. CASE ConsumerExit
  BY <1>9 DEF ConsumerExit, clientVars
<1>10. CASE StartTxn
  BY <1>10 DEF StartTxn, clientVars
<1>11. CASE PostProcess
  BY <1>11 DEF PostProcess, Spawn, clientVars
<1>12. CASE FinishTxn
  BY <1>12, SMTT(30) DEF FinishTxn, clientVars
<1>13. ASSUME NEW r \in Retries, RetryStart(r) PROVE OnceInv'
  BY <1>13 DEF RetryStart, clientVars
<1>14. ASSUME NEW r \in Retries, RetryEnqueue(r) PROVE OnceInv'
  <2>1. r \in Txns /\ r \notin Commits /\ place[r] = "waiting"
    BY <1>14 DEF RetryEnqueue, RetryDue
  <2>2. r \notin Elems(queue) /\ cur # r
    BY <2>1
  <2>3. /\ queue' = Append(queue, r) /\ place' = [place EXCEPT ![r] = "queued"]
        /\ Len(queue) < QueueCap /\ UNCHANGED <<n, cur>>
    BY <1>14 DEF RetryEnqueue, RetryDue, Enqueue, HasRoom, clientVars
  <2>41. Injective(queue') /\ Elems(queue') = Elems(queue) \cup {r} /\ Len(queue') = Len(queue) + 1
    BY <2>1, <2>2, <2>3, AppendOnce
  <2>4. Injective(queue') /\ Elems(queue') = Elems(queue) \cup {r} /\ Len(queue') <= QueueCap
    <3>1. Len(queue) \in Nat /\ QueueCap \in Nat
      BY QueueAssumption
    <3>2. Len(queue') <= QueueCap
      BY <2>3, <2>41, <3>1
    <3> QED
      BY <2>41, <3>2
  <2>5. \A u \in Txns : /\ (place'[u] = "queued") <=> u \in Elems(queue')
                        /\ (place'[u] \in {"held", "running"}) <=> cur' = u
    BY <2>1, <2>2, <2>3, <2>4
  <2>6. \A d \in Clients : /\ pc'[d] = "enqueue" => place'[<<d, n'[d]>>] = "pushing"
                           /\ \A i \in 1..MaxCommits : i > n'[d] => place'[<<d, i>>] = "none"
    BY <1>14, <2>1, <2>3 DEF RetryEnqueue, RetryDue, clientVars
  <2> QED
    BY <2>4, <2>5, <2>6
<1>15. ASSUME NEW r \in Retries, RetryAgain(r) PROVE OnceInv'
  BY <1>15 DEF RetryAgain, RetryDue, clientVars
<1>16. ASSUME NEW r \in Retries, RetryCancel(r) PROVE OnceInv'
  BY <1>16 DEF RetryCancel, clientVars
<1>17. CASE RegisterDescriptor
  BY <1>17 DEF RegisterDescriptor, clientVars
<1>18. CASE Observe
  BY <1>18 DEF Observe, clientVars
<1>19. CASE TransactionBarrier
  BY <1>19 DEF TransactionBarrier, txnLockFree, clientVars
<1>20. CASE CloseCancel
  BY <1>20 DEF CloseCancel, clientVars
<1>21. CASE CloseReturn
  BY <1>21 DEF CloseReturn, clientVars
<1>22. CASE Quiescent \/ UNCHANGED vars
  BY <1>22 DEF Quiescent, vars, clientVars
<1> QED
  BY <1>1, <1>2, <1>3, <1>4, <1>5, <1>6, <1>7, <1>8, <1>9, <1>10, <1>11,
     <1>12, <1>13, <1>14, <1>15, <1>16, <1>17, <1>18, <1>19, <1>20, <1>21, <1>22
     DEF Next, ClientStep, ConsumerStep, RetryStep

-----------------------------------------------------------------------------
(* TransactionBarrier *)

\* A client inside Commit has a commit of its own.
LEMMA ClientCommit ==
    ASSUME TypeInv, NEW c \in Clients, pc[c] # "idle"
    PROVE  n[c] \in 1..MaxCommits /\ commit(c) \in Commits
<1>1. n[c] \in 1..MaxCommits
  BY QueueAssumption DEF TypeInv, TypeOK, ClientType, RunInv
<1> QED
  BY <1>1, ConstantFacts DEF commit

\* A commit that starts is new.
LEMMA StartFresh ==
    ASSUME TypeInv, OnceInv, NEW c \in Clients, CommitStart(c)
    PROVE  /\ n[c] + 1 \in 1..MaxCommits /\ <<c, n[c] + 1>> \in Commits
           /\ place[<<c, n[c] + 1>>] = "none"
<1>1. n[c] + 1 \in 1..MaxCommits /\ n[c] \in Nat
  BY QueueAssumption DEF CommitStart, TypeInv, TypeOK, ClientType
<1>2. place[<<c, n[c] + 1>>] = "none"
  BY <1>1 DEF OnceInv
<1> QED
  BY <1>1, <1>2, ConstantFacts

\* What the consumer takes was queued.
LEMMA HeadQueued ==
    ASSUME TypeInv, OnceInv, Dequeue
    PROVE  Head(queue) \in Txns /\ place[Head(queue)] = "queued"
<1>1. queue \in Seq(Txns) /\ queue # <<>>
  BY DEF Dequeue, TypeInv, TypeOK
<1>2. Head(queue) \in Txns /\ Head(queue) \in Elems(queue)
  BY <1>1, TailOnce DEF OnceInv
<1> QED
  BY <1>2 DEF OnceInv

\* What the txnLock protects: the transaction the consumer executes is running
\* for as long as the lock is held, so that whoever reacts to a change it
\* published and then takes the lock finds it processed.
LockInv ==
    /\ consumer = "lock" => place[cur] = "held"
    /\ consumer \in {"execute", "finish"} => place[cur] = "running"
    /\ observed.txn # NoTxn => place[observed.txn] \in {"running", "processed"}
    /\ observed.passed => observed.txn # NoTxn /\ place[observed.txn] = "processed"

\* Only FinishTxn, which frees the lock, ends the execution an observer waits for.
LEMMA LockStep == TypeInv /\ WgInv /\ OnceInv /\ LockInv /\ [Next]_vars => LockInv'
<1> SUFFICES ASSUME TypeInv, WgInv, OnceInv, LockInv, [Next]_vars PROVE LockInv'
  OBVIOUS
<1>0. /\ place \in [Txns -> Places] /\ consumer \in {"dequeue", "lock", "execute", "finish", "exited"}
      /\ consumer \in {"lock", "execute", "finish"} => cur \in Txns
      /\ observed \in [txn: Txns \cup {NoTxn}, passed: BOOLEAN]
      /\ \A c \in Clients : pc[c] # "idle" => commit(c) \in Commits
      /\ queue \in Seq(Txns)
  BY QueueAssumption, ClientCommit DEF TypeInv, TypeOK, RunInv, ConsumerType, ClientType, CloseType, NoSeq
<1> USE ConstantFacts, <1>0 DEF LockInv, OnceInv
<1>1. ASSUME NEW c \in Clients, CommitStart(c) PROVE LockInv'
  <2>1. <<c, n[c] + 1>> \in Txns /\ place[<<c, n[c] + 1>>] = "none"
    BY <1>1, StartFresh
  <2> QED
    BY <1>1, <2>1 DEF CommitStart
<1>2. ASSUME NEW c \in Clients, CommitEnqueue(c) PROVE LockInv'
  BY <1>2 DEF CommitEnqueue, Enqueue, commit, clientVars
<1>3. ASSUME NEW c \in Clients, CommitRefused(c) PROVE LockInv'
  BY <1>3 DEF CommitRefused, CommitReturn, commit, clientVars
<1>4. ASSUME NEW c \in Clients, CommitResult(c) PROVE LockInv'
  BY <1>4 DEF CommitResult, CommitReturn, commit, clientVars
<1>5. ASSUME NEW c \in Clients, CommitClosed(c) PROVE LockInv'
  BY <1>5 DEF CommitClosed, CommitReturn, commit, clientVars
<1>6. ASSUME NEW c \in Clients, CommitCanceled(c) PROVE LockInv'
  BY <1>6 DEF CommitCanceled, CommitReturn, commit, clientVars
<1>7. ASSUME NEW x \in Notifs, PushSBNotification(x) PROVE LockInv'
  BY <1>7 DEF PushSBNotification, Enqueue, clientVars
<1>8. CASE Dequeue
  <2>1. Head(queue) \in Txns /\ place[Head(queue)] = "queued"
    BY <1>8, HeadQueued
  <2> QED
    BY <1>8, <2>1 DEF Dequeue
<1>9. CASE ConsumerExit
  BY <1>9 DEF ConsumerExit, clientVars
<1>10. CASE StartTxn
  BY <1>10 DEF StartTxn, clientVars
<1>11. CASE PostProcess
  BY <1>11 DEF PostProcess, Spawn, clientVars
<1>12. CASE FinishTxn
  BY <1>12 DEF FinishTxn, clientVars
<1>13. ASSUME NEW r \in Retries, RetryStart(r) PROVE LockInv'
  BY <1>13 DEF RetryStart, clientVars
<1>14. ASSUME NEW r \in Retries, RetryEnqueue(r) PROVE LockInv'
  BY <1>14 DEF RetryEnqueue, RetryDue, Enqueue, clientVars
<1>15. ASSUME NEW r \in Retries, RetryAgain(r) PROVE LockInv'
  BY <1>15 DEF RetryAgain, RetryDue, clientVars
<1>16. ASSUME NEW r \in Retries, RetryCancel(r) PROVE LockInv'
  BY <1>16 DEF RetryCancel, clientVars
<1>17. CASE RegisterDescriptor
  BY <1>17 DEF RegisterDescriptor, clientVars
<1>18. CASE Observe
  BY <1>18 DEF Observe, clientVars
<1>19. CASE TransactionBarrier
  <2>1. observed.txn \in Txns /\ place[observed.txn] \in {"running", "processed"}
    BY <1>19 DEF TransactionBarrier
  <2>2. place[observed.txn] # "running"
    <3>1. SUFFICES ASSUME place[observed.txn] = "running" PROVE FALSE
      OBVIOUS
    <3>2. cur = observed.txn
      BY <2>1, <3>1
    <3>3. consumer = "lock"
      BY <1>19, <2>1, <3>2 DEF TransactionBarrier, txnLockFree, WgInv
    <3> QED
      BY <3>1, <3>2, <3>3
  <2> QED
    BY <1>19, <2>1, <2>2 DEF TransactionBarrier
<1>20. CASE CloseCancel
  BY <1>20 DEF CloseCancel, clientVars
<1>21. CASE CloseReturn
  BY <1>21 DEF CloseReturn, clientVars
<1>22. CASE Quiescent \/ UNCHANGED vars
  BY <1>22 DEF Quiescent, vars, clientVars
<1> QED
  BY <1>1, <1>2, <1>3, <1>4, <1>5, <1>6, <1>7, <1>8, <1>9, <1>10, <1>11,
     <1>12, <1>13, <1>14, <1>15, <1>16, <1>17, <1>18, <1>19, <1>20, <1>21, <1>22
     DEF Next, ClientStep, ConsumerStep, RetryStep

-----------------------------------------------------------------------------
(* Retries *)

\* No step abandons a retry before Close or lets it exceed MaxCount.
LEMMA RetryStepKept == TypeInv /\ RetryKept /\ [Next]_vars => RetryKept'
<1> SUFFICES ASSUME TypeInv, RetryKept, [Next]_vars PROVE RetryKept'
  OBVIOUS
<1>0. /\ place \in [Txns -> Places] /\ retry \in [Retries -> RetryArgs] /\ MaxCount \in Nat
      /\ consumer \in {"lock", "execute", "finish"} => cur \in Txns
      /\ \A c \in Clients : pc[c] # "idle" => commit(c) \in Commits
      /\ queue \in Seq(Txns)
  BY QueueAssumption, ClientCommit DEF TypeInv, TypeOK, RunInv, ConsumerType, ClientType, CloseType, NoSeq
<1> USE ConstantFacts, <1>0 DEF RetryKept
<1>1. ASSUME NEW c \in Clients, CommitStart(c) PROVE RetryKept'
  BY <1>1 DEF CommitStart, clientVars
<1>2. ASSUME NEW c \in Clients, CommitEnqueue(c) PROVE RetryKept'
  BY <1>2 DEF CommitEnqueue, Enqueue, commit, clientVars
<1>3. ASSUME NEW c \in Clients, CommitRefused(c) PROVE RetryKept'
  BY <1>3 DEF CommitRefused, CommitReturn, commit, clientVars
<1>4. ASSUME NEW c \in Clients, CommitResult(c) PROVE RetryKept'
  BY <1>4 DEF CommitResult, CommitReturn, commit, clientVars
<1>5. ASSUME NEW c \in Clients, CommitClosed(c) PROVE RetryKept'
  BY <1>5 DEF CommitClosed, CommitReturn, commit, clientVars
<1>6. ASSUME NEW c \in Clients, CommitCanceled(c) PROVE RetryKept'
  BY <1>6 DEF CommitCanceled, CommitReturn, commit, clientVars
<1>7. ASSUME NEW x \in Notifs, PushSBNotification(x) PROVE RetryKept'
  BY <1>7 DEF PushSBNotification, Enqueue, clientVars
<1>8. CASE Dequeue
  BY <1>8 DEF Dequeue, clientVars
<1>9. CASE ConsumerExit
  BY <1>9 DEF ConsumerExit, clientVars
<1>10. CASE StartTxn
  BY <1>10 DEF StartTxn, clientVars
<1>11. CASE PostProcess
  <2>1. PICK R \in SUBSET {r \in Retries : place[r] = "none"} :
          \E args \in [R -> NextRetryArgs] : Spawn(R, args)
    BY <1>11 DEF PostProcess
  <2>2. PICK args \in [R -> NextRetryArgs] : Spawn(R, args)
    BY <2>1
  <2>3. ASSUME NEW a \in NextRetryArgs, MaxCount # 0 PROVE a.attempt <= MaxCount
    BY <2>3 DEF NextRetryArgs, RetryAllowed
  <2> QED
    BY <1>11, <2>1, <2>2, <2>3 DEF PostProcess, Spawn
<1>12. CASE FinishTxn
  BY <1>12 DEF FinishTxn, clientVars
<1>13. ASSUME NEW r \in Retries, RetryStart(r) PROVE RetryKept'
  BY <1>13 DEF RetryStart, clientVars
<1>14. ASSUME NEW r \in Retries, RetryEnqueue(r) PROVE RetryKept'
  BY <1>14 DEF RetryEnqueue, RetryDue, Enqueue, clientVars
<1>15. ASSUME NEW r \in Retries, RetryAgain(r) PROVE RetryKept'
  BY <1>15 DEF RetryAgain, RetryDue, clientVars
<1>16. ASSUME NEW r \in Retries, RetryCancel(r) PROVE RetryKept'
  BY <1>16 DEF RetryCancel, clientVars
<1>17. CASE RegisterDescriptor
  BY <1>17 DEF RegisterDescriptor, clientVars
<1>18. CASE Observe
  BY <1>18 DEF Observe, clientVars
<1>19. CASE TransactionBarrier
  BY <1>19 DEF TransactionBarrier, txnLockFree, clientVars
<1>20. CASE CloseCancel
  BY <1>20 DEF CloseCancel, clientVars
<1>21. CASE CloseReturn
  BY <1>21 DEF CloseReturn, clientVars
<1>22. CASE Quiescent \/ UNCHANGED vars
  BY <1>22 DEF Quiescent, vars, clientVars
<1> QED
  BY <1>1, <1>2, <1>3, <1>4, <1>5, <1>6, <1>7, <1>8, <1>9, <1>10, <1>11,
     <1>12, <1>13, <1>14, <1>15, <1>16, <1>17, <1>18, <1>19, <1>20, <1>21, <1>22
     DEF Next, ClientStep, ConsumerStep, RetryStep

-----------------------------------------------------------------------------
(* Sequence numbers *)

\* A transaction is numbered when it starts to run, below the next number to be
\* allocated, and no number is allocated twice.
SeqInv ==
    /\ \A t \in Txns : place[t] \in {"running", "processed"} <=> seq[t] # NoSeq
    /\ \A t \in Txns : seq[t] # NoSeq => seq[t] < txnSeqNumber
    /\ \A t, u \in Txns : seq[t] # NoSeq /\ seq[t] = seq[u] => t = u

\* Only StartTxn gives a number, a fresh one, to a transaction that has none.
LEMMA SeqStep == TypeInv /\ OnceInv /\ LockInv /\ SeqInv /\ [Next]_vars => SeqInv'
<1> SUFFICES ASSUME TypeInv, OnceInv, LockInv, SeqInv, [Next]_vars PROVE SeqInv'
  OBVIOUS
<1>0. /\ place \in [Txns -> Places] /\ queue \in Seq(Txns)
      /\ txnSeqNumber \in Nat /\ seq \in [Txns -> Nat \cup {NoSeq}] /\ NoSeq = -1
      /\ consumer \in {"lock", "execute", "finish"} => cur \in Txns
      /\ \A c \in Clients : pc[c] # "idle" => commit(c) \in Commits
  BY QueueAssumption, ClientCommit DEF TypeInv, TypeOK, RunInv, ConsumerType, ClientType, CloseType, NoSeq
<1> USE ConstantFacts, <1>0 DEF SeqInv
<1>1. ASSUME NEW c \in Clients, CommitStart(c) PROVE SeqInv'
  <2>1. <<c, n[c] + 1>> \in Commits /\ place[<<c, n[c] + 1>>] = "none"
    BY <1>1, StartFresh
  <2> QED
    BY <1>1, <2>1 DEF CommitStart
<1>2. ASSUME NEW c \in Clients, CommitEnqueue(c) PROVE SeqInv'
  <2>1. commit(c) \in Commits /\ place[commit(c)] = "pushing"
    BY <1>2 DEF CommitEnqueue, OnceInv
  <2> QED
    BY <1>2, <2>1 DEF CommitEnqueue, Enqueue
<1>3. ASSUME NEW c \in Clients, CommitRefused(c) PROVE SeqInv'
  <2>1. commit(c) \in Commits /\ place[commit(c)] = "pushing"
    BY <1>3 DEF CommitRefused, OnceInv
  <2> QED
    BY <1>3, <2>1 DEF CommitRefused, CommitReturn
<1>4. ASSUME NEW c \in Clients, CommitResult(c) PROVE SeqInv'
  BY <1>4 DEF CommitResult, CommitReturn, commit, clientVars
<1>5. ASSUME NEW c \in Clients, CommitClosed(c) PROVE SeqInv'
  BY <1>5 DEF CommitClosed, CommitReturn, commit, clientVars
<1>6. ASSUME NEW c \in Clients, CommitCanceled(c) PROVE SeqInv'
  BY <1>6 DEF CommitCanceled, CommitReturn, commit, clientVars
<1>7. ASSUME NEW x \in Notifs, PushSBNotification(x) PROVE SeqInv'
  BY <1>7 DEF PushSBNotification, Enqueue, clientVars
<1>8. CASE Dequeue
  <2>1. Head(queue) \in Txns /\ place[Head(queue)] = "queued"
    BY <1>8, HeadQueued
  <2> QED
    BY <1>8, <2>1 DEF Dequeue
<1>9. CASE ConsumerExit
  BY <1>9 DEF ConsumerExit, clientVars
<1>10. CASE StartTxn
  BY <1>10 DEF StartTxn, clientVars
<1>11. CASE PostProcess
  BY <1>11 DEF PostProcess, Spawn, clientVars
<1>12. CASE FinishTxn
  <2>1. cur \in Txns /\ place[cur] = "running"
    BY <1>12 DEF FinishTxn, LockInv
  <2> QED
    BY <1>12, <2>1 DEF FinishTxn
<1>13. ASSUME NEW r \in Retries, RetryStart(r) PROVE SeqInv'
  BY <1>13 DEF RetryStart, clientVars
<1>14. ASSUME NEW r \in Retries, RetryEnqueue(r) PROVE SeqInv'
  BY <1>14 DEF RetryEnqueue, RetryDue, Enqueue, clientVars
<1>15. ASSUME NEW r \in Retries, RetryAgain(r) PROVE SeqInv'
  BY <1>15 DEF RetryAgain, RetryDue, clientVars
<1>16. ASSUME NEW r \in Retries, RetryCancel(r) PROVE SeqInv'
  BY <1>16 DEF RetryCancel, clientVars
<1>17. CASE RegisterDescriptor
  BY <1>17 DEF RegisterDescriptor, clientVars
<1>18. CASE Observe
  BY <1>18 DEF Observe, clientVars
<1>19. CASE TransactionBarrier
  BY <1>19 DEF TransactionBarrier, txnLockFree, clientVars
<1>20. CASE CloseCancel
  BY <1>20 DEF CloseCancel, clientVars
<1>21. CASE CloseReturn
  BY <1>21 DEF CloseReturn, clientVars
<1>22. CASE Quiescent \/ UNCHANGED vars
  BY <1>22 DEF Quiescent, vars, clientVars
<1> QED
  BY <1>1, <1>2, <1>3, <1>4, <1>5, <1>6, <1>7, <1>8, <1>9, <1>10, <1>11,
     <1>12, <1>13, <1>14, <1>15, <1>16, <1>17, <1>18, <1>19, <1>20, <1>21, <1>22
     DEF Next, ClientStep, ConsumerStep, RetryStep

-----------------------------------------------------------------------------
(* What Commit returns *)

\* A commit still in progress has returned nothing, one that waits is on its way
\* through the queue, and what was sent to the caller is the commit's own number.
TruthInv ==
    /\ \A t \in Commits : resultChan[t] # NoSeq => resultChan[t] = seq[t]
    /\ \A c \in Clients : pc[c] # "idle" => ret[commit(c)] = "none"
    /\ \A c \in Clients : \A i \in 1..MaxCommits : i > n[c] => ret[<<c, i>>] = "none"
    /\ \A c \in Clients : pc[c] = "wait" =>
          place[commit(c)] \in {"queued", "held", "running", "processed"}
    /\ CommitTruthful

\* What a Commit returned stays true of its transaction whatever runs later.
LEMMA TruthStep == TypeInv /\ OnceInv /\ LockInv /\ SeqInv /\ TruthInv /\ [Next]_vars => TruthInv'
<1> SUFFICES ASSUME TypeInv, OnceInv, LockInv, SeqInv, TruthInv, [Next]_vars PROVE TruthInv'
  OBVIOUS
<1>0. /\ place \in [Txns -> Places] /\ seq \in [Txns -> Nat \cup {NoSeq}]
      /\ n \in [Clients -> 0..MaxCommits] /\ pc \in [Clients -> {"idle", "enqueue", "wait"}]
      /\ resultChan \in [Commits -> Nat \cup {NoSeq}]
      /\ ret \in [Commits -> {"none", "nil", "result", "closed", "full", "canceled"}]
      /\ consumer \in {"lock", "execute", "finish"} => cur \in Txns
      /\ consumer \in {"execute", "finish"} => seq[cur] # NoSeq
      /\ \A c \in Clients : pc[c] # "idle" => commit(c) \in Commits
  BY QueueAssumption, ClientCommit DEF TypeInv, TypeOK, RunInv, ConsumerType, ClientType, CloseType, NoSeq
<1> USE ConstantFacts, <1>0 DEF TruthInv, CommitTruthful, commit
<1>1. ASSUME NEW c \in Clients, CommitStart(c) PROVE TruthInv'
  <2>1. <<c, n[c] + 1>> \in Commits /\ place[<<c, n[c] + 1>>] = "none" /\ n[c] + 1 \in 1..MaxCommits
    BY <1>1, StartFresh
  <2>2. \A t \in Commits : place'[t] \notin {"running", "processed"} => seq'[t] = NoSeq
    BY <1>1, <2>1 DEF CommitStart, SeqInv
  <2>3. \A t \in Commits : resultChan'[t] # NoSeq => resultChan'[t] = seq'[t]
    BY <1>1, <2>1, <2>2 DEF CommitStart, SeqInv
  <2>4. \A d \in Clients : /\ pc'[d] # "idle" => ret'[<<d, n'[d]>>] = "none"
                           /\ \A i \in 1..MaxCommits : i > n'[d] => ret'[<<d, i>>] = "none"
    BY <1>1, <2>1 DEF CommitStart
  <2>5. \A d \in Clients : pc'[d] = "wait" =>
          place'[<<d, n'[d]>>] \in {"queued", "held", "running", "processed"}
    BY <1>1, <2>1 DEF CommitStart
  <2>6. \A t \in Commits : /\ ret'[t] = "full" => place'[t] = "dropped"
                           /\ place'[t] = "dropped" => ret'[t] \in {"full", "closed"}
                           /\ ret'[t] = "result" => resultChan'[t] = seq'[t] /\ seq'[t] # NoSeq
    BY <1>1, <2>1 DEF CommitStart, SeqInv
  <2> QED
    BY <2>2, <2>3, <2>4, <2>5, <2>6
<1>2. ASSUME NEW c \in Clients, CommitEnqueue(c) PROVE TruthInv'
  <2>1. commit(c) \in Commits /\ place[commit(c)] = "pushing"
    BY <1>2 DEF CommitEnqueue, OnceInv
  <2>2. \A t \in Commits : place'[t] \notin {"running", "processed"} => seq'[t] = NoSeq
    BY <1>2, <2>1 DEF CommitEnqueue, Enqueue, SeqInv
  <2>3. \A t \in Commits : resultChan'[t] # NoSeq => resultChan'[t] = seq'[t]
    BY <1>2, <2>1, <2>2 DEF CommitEnqueue, Enqueue, SeqInv
  <2>4. \A d \in Clients : /\ pc'[d] # "idle" => ret'[<<d, n'[d]>>] = "none"
                           /\ \A i \in 1..MaxCommits : i > n'[d] => ret'[<<d, i>>] = "none"
    BY <1>2, <2>1 DEF CommitEnqueue, Enqueue
  <2>5. \A d \in Clients : pc'[d] = "wait" =>
          place'[<<d, n'[d]>>] \in {"queued", "held", "running", "processed"}
    BY <1>2, <2>1 DEF CommitEnqueue, Enqueue
  <2>6. \A t \in Commits : /\ ret'[t] = "full" => place'[t] = "dropped"
                           /\ place'[t] = "dropped" => ret'[t] \in {"full", "closed"}
                           /\ ret'[t] = "result" => resultChan'[t] = seq'[t] /\ seq'[t] # NoSeq
    <3>1. /\ place' = [place EXCEPT ![commit(c)] = "queued"] /\ UNCHANGED <<resultChan, seq>>
          /\ \A t \in Commits : t # commit(c) => ret'[t] = ret[t]
      BY <1>2, <2>1 DEF CommitEnqueue, Enqueue
    <3>2. ret'[commit(c)] \in {"none", "nil"} /\ place'[commit(c)] = "queued"
      BY <1>2, <2>1 DEF CommitEnqueue, Enqueue
    <3>3. \A t \in Commits : t # commit(c) => place'[t] = place[t]
      BY <2>1, <3>1
    <3> QED
      BY <3>1, <3>2, <3>3
  <2> QED
    BY <2>2, <2>3, <2>4, <2>5, <2>6
<1>3. ASSUME NEW c \in Clients, CommitRefused(c) PROVE TruthInv'
  <2>1. commit(c) \in Commits /\ place[commit(c)] = "pushing"
    BY <1>3 DEF CommitRefused, OnceInv
  <2>2. \A t \in Commits : place'[t] \notin {"running", "processed"} => seq'[t] = NoSeq
    BY <1>3, <2>1 DEF CommitRefused, CommitReturn, SeqInv
  <2>3. \A t \in Commits : resultChan'[t] # NoSeq => resultChan'[t] = seq'[t]
    BY <1>3, <2>1, <2>2 DEF CommitRefused, CommitReturn, SeqInv
  <2>4. \A d \in Clients : /\ pc'[d] # "idle" => ret'[<<d, n'[d]>>] = "none"
                           /\ \A i \in 1..MaxCommits : i > n'[d] => ret'[<<d, i>>] = "none"
    BY <1>3, <2>1 DEF CommitRefused, CommitReturn
  <2>5. \A d \in Clients : pc'[d] = "wait" =>
          place'[<<d, n'[d]>>] \in {"queued", "held", "running", "processed"}
    BY <1>3, <2>1 DEF CommitRefused, CommitReturn
  <2>6. \A t \in Commits : /\ ret'[t] = "full" => place'[t] = "dropped"
                           /\ place'[t] = "dropped" => ret'[t] \in {"full", "closed"}
                           /\ ret'[t] = "result" => resultChan'[t] = seq'[t] /\ seq'[t] # NoSeq
    <3>1. /\ ret' = [ret EXCEPT ![commit(c)] = "closed"] \/ ret' = [ret EXCEPT ![commit(c)] = "full"]
          /\ place' = [place EXCEPT ![commit(c)] = "dropped"] /\ UNCHANGED <<resultChan, seq>>
      BY <1>3 DEF CommitRefused, CommitReturn
    <3>2. ASSUME NEW t \in Commits, t # commit(c)
          PROVE  ret'[t] = ret[t] /\ place'[t] = place[t]
      BY <3>1, <3>2
    <3>3. /\ ret'[commit(c)] \in {"closed", "full"} /\ place'[commit(c)] = "dropped"
      BY <2>1, <3>1
    <3>4. \A t \in Commits : t # commit(c) =>
              /\ ret'[t] = "full" => place'[t] = "dropped"
              /\ place'[t] = "dropped" => ret'[t] \in {"full", "closed"}
              /\ ret'[t] = "result" => resultChan'[t] = seq'[t] /\ seq'[t] # NoSeq
      BY <3>1, <3>2
    <3> QED
      BY <3>3, <3>4
  <2> QED
    BY <2>2, <2>3, <2>4, <2>5, <2>6
<1>4. ASSUME NEW c \in Clients, CommitResult(c) PROVE TruthInv'
  BY <1>4 DEF CommitResult, CommitReturn, commit, clientVars
<1>5. ASSUME NEW c \in Clients, CommitClosed(c) PROVE TruthInv'
  BY <1>5 DEF CommitClosed, CommitReturn, commit, clientVars
<1>6. ASSUME NEW c \in Clients, CommitCanceled(c) PROVE TruthInv'
  BY <1>6 DEF CommitCanceled, CommitReturn, commit, clientVars
<1>7. ASSUME NEW x \in Notifs, PushSBNotification(x) PROVE TruthInv'
  <2>1. UNCHANGED <<seq, n, pc, resultChan, ret>>
    BY <1>7 DEF PushSBNotification, clientVars
  <2>2. \A t \in Commits : place'[t] = place[t]
    <3>1. \/ place' = [place EXCEPT ![x] = "queued"]
          \/ place' = [place EXCEPT ![x] = "dropped"]
      BY <1>7 DEF PushSBNotification, Enqueue
    <3> QED
      BY <3>1
  <2>3. \A d \in Clients : /\ commit(d)' = commit(d)
                           /\ pc[d] = "wait" => commit(d) \in Commits
    BY <2>1
  <2> QED
    BY <2>1, <2>2, <2>3
<1>8. CASE Dequeue
  <2>1. Head(queue) \in Txns /\ place[Head(queue)] = "queued"
    BY <1>8, HeadQueued
  <2>2. \A t \in Commits : place'[t] \notin {"running", "processed"} => seq'[t] = NoSeq
    BY <1>8, <2>1 DEF Dequeue, clientVars, SeqInv
  <2>3. \A t \in Commits : resultChan'[t] # NoSeq => resultChan'[t] = seq'[t]
    BY <1>8, <2>1, <2>2 DEF Dequeue, clientVars, SeqInv
  <2>4. \A d \in Clients : /\ pc'[d] # "idle" => ret'[<<d, n'[d]>>] = "none"
                           /\ \A i \in 1..MaxCommits : i > n'[d] => ret'[<<d, i>>] = "none"
    BY <1>8, <2>1 DEF Dequeue, clientVars
  <2>5. \A d \in Clients : pc'[d] = "wait" =>
          place'[<<d, n'[d]>>] \in {"queued", "held", "running", "processed"}
    BY <1>8, <2>1 DEF Dequeue, clientVars
  <2>6. \A t \in Commits : /\ ret'[t] = "full" => place'[t] = "dropped"
                           /\ place'[t] = "dropped" => ret'[t] \in {"full", "closed"}
                           /\ ret'[t] = "result" => resultChan'[t] = seq'[t] /\ seq'[t] # NoSeq
    BY <1>8, <2>1 DEF Dequeue, clientVars, SeqInv
  <2> QED
    BY <2>2, <2>3, <2>4, <2>5, <2>6
<1>9. CASE ConsumerExit
  BY <1>9 DEF ConsumerExit, clientVars
<1>10. CASE StartTxn
  <2>1. cur \in Txns /\ place[cur] = "held" /\ seq[cur] = NoSeq /\ txnSeqNumber \in Nat /\ txnSeqNumber # NoSeq
    BY <1>10 DEF StartTxn, LockInv, SeqInv, TypeInv, TypeOK, ConsumerType, NoSeq
  <2>2. \A t \in Commits : place'[t] \notin {"running", "processed"} => seq'[t] = NoSeq
    BY <1>10, <2>1 DEF StartTxn, clientVars, SeqInv
  <2>3. \A t \in Commits : resultChan'[t] # NoSeq => resultChan'[t] = seq'[t]
    BY <1>10, <2>1, <2>2 DEF StartTxn, clientVars, SeqInv
  <2>4. \A d \in Clients : /\ pc'[d] # "idle" => ret'[<<d, n'[d]>>] = "none"
                           /\ \A i \in 1..MaxCommits : i > n'[d] => ret'[<<d, i>>] = "none"
    BY <1>10, <2>1 DEF StartTxn, clientVars
  <2>5. \A d \in Clients : pc'[d] = "wait" =>
          place'[<<d, n'[d]>>] \in {"queued", "held", "running", "processed"}
    BY <1>10, <2>1 DEF StartTxn, clientVars
  <2>6. \A t \in Commits : /\ ret'[t] = "full" => place'[t] = "dropped"
                           /\ place'[t] = "dropped" => ret'[t] \in {"full", "closed"}
                           /\ ret'[t] = "result" => resultChan'[t] = seq'[t] /\ seq'[t] # NoSeq
    BY <1>10, <2>1 DEF StartTxn, clientVars, SeqInv
  <2> QED
    BY <2>2, <2>3, <2>4, <2>5, <2>6
<1>11. CASE PostProcess
  BY <1>11 DEF PostProcess, Spawn, clientVars
<1>12. CASE FinishTxn
  BY <1>12 DEF FinishTxn, clientVars
<1>13. ASSUME NEW r \in Retries, RetryStart(r) PROVE TruthInv'
  BY <1>13 DEF RetryStart, clientVars
<1>14. ASSUME NEW r \in Retries, RetryEnqueue(r) PROVE TruthInv'
  BY <1>14 DEF RetryEnqueue, RetryDue, Enqueue, clientVars
<1>15. ASSUME NEW r \in Retries, RetryAgain(r) PROVE TruthInv'
  BY <1>15 DEF RetryAgain, RetryDue, clientVars
<1>16. ASSUME NEW r \in Retries, RetryCancel(r) PROVE TruthInv'
  BY <1>16 DEF RetryCancel, clientVars
<1>17. CASE RegisterDescriptor
  BY <1>17 DEF RegisterDescriptor, clientVars
<1>18. CASE Observe
  BY <1>18 DEF Observe, clientVars
<1>19. CASE TransactionBarrier
  BY <1>19 DEF TransactionBarrier, txnLockFree, clientVars
<1>20. CASE CloseCancel
  BY <1>20 DEF CloseCancel, clientVars
<1>21. CASE CloseReturn
  BY <1>21 DEF CloseReturn, clientVars
<1>22. CASE Quiescent \/ UNCHANGED vars
  BY <1>22 DEF Quiescent, vars, clientVars
<1> QED
  BY <1>1, <1>2, <1>3, <1>4, <1>5, <1>6, <1>7, <1>8, <1>9, <1>10, <1>11,
     <1>12, <1>13, <1>14, <1>15, <1>16, <1>17, <1>18, <1>19, <1>20, <1>21, <1>22
     DEF Next, ClientStep, ConsumerStep, RetryStep

-----------------------------------------------------------------------------
(* Order of one client's commits *)

InOrder(q) ==
    \A c \in Clients : \A i, j \in 1..MaxCommits : \A k, m \in 1..Len(q) :
        q[k] = <<c, i>> /\ q[m] = <<c, j>> /\ i < j => k < m

\* Taking the first transaction keeps the others in order.
LEMMA TailInOrder ==
    ASSUME NEW q \in Seq(Txns), q # <<>>, InOrder(q)
    PROVE  InOrder(Tail(q))
<1>1. /\ Len(Tail(q)) = Len(q) - 1 /\ Len(q) \in Nat \ {0}
      /\ \A i \in 1..(Len(q) - 1) : Tail(q)[i] = q[i + 1] /\ i + 1 \in 1..Len(q)
  OBVIOUS
<1>2. SUFFICES ASSUME NEW c \in Clients, NEW i \in 1..MaxCommits, NEW j \in 1..MaxCommits,
                      NEW k \in 1..(Len(q) - 1), NEW m \in 1..(Len(q) - 1),
                      Tail(q)[k] = <<c, i>>, Tail(q)[m] = <<c, j>>, i < j
               PROVE  k < m
  BY <1>1 DEF InOrder
<1>3. q[k + 1] = <<c, i>> /\ q[m + 1] = <<c, j>> /\ k + 1 \in 1..Len(q) /\ m + 1 \in 1..Len(q)
  BY <1>1, <1>2
<1>4. k + 1 < m + 1
  BY <1>2, <1>3 DEF InOrder
<1> QED
  BY <1>1, <1>4

\* A transaction may join the queue when no later commit of its client is in it.
LEMMA AppendInOrder ==
    ASSUME NEW q \in Seq(Txns), NEW t \in Txns, InOrder(q), t \notin Elems(q),
           \A c \in Clients : \A i, j \in 1..MaxCommits :
              t = <<c, i>> /\ i < j => <<c, j>> \notin Elems(q)
    PROVE  InOrder(Append(q, t))
<1>1. /\ Len(Append(q, t)) = Len(q) + 1 /\ Len(q) \in Nat
      /\ \A k \in 1..Len(q) : Append(q, t)[k] = q[k]
      /\ Append(q, t)[Len(q) + 1] = t
  OBVIOUS
<1>2. SUFFICES ASSUME NEW c \in Clients, NEW i \in 1..MaxCommits, NEW j \in 1..MaxCommits,
                      NEW k \in 1..(Len(q) + 1), NEW m \in 1..(Len(q) + 1),
                      Append(q, t)[k] = <<c, i>>, Append(q, t)[m] = <<c, j>>, i < j
               PROVE  k < m
  BY <1>1 DEF InOrder
<1>3. CASE k = Len(q) + 1 /\ m = Len(q) + 1
  <2>1. <<c, i>> = <<c, j>>
    BY <1>1, <1>2, <1>3
  <2>2. i = j /\ i \in Nat /\ j \in Nat
    BY <2>1
  <2> QED
    BY <1>2, <2>2
<1>4. CASE k = Len(q) + 1 /\ m \in 1..Len(q)
  <2>1. t = <<c, i>> /\ q[m] = <<c, j>>
    BY <1>1, <1>2, <1>4
  <2>2. <<c, j>> \in Elems(q)
    BY <1>4, <2>1 DEF Elems
  <2> QED
    BY <1>2, <2>1, <2>2
<1>5. CASE k \in 1..Len(q) /\ m = Len(q) + 1
  BY <1>1, <1>5
<1>6. CASE k \in 1..Len(q) /\ m \in 1..Len(q)
  <2>1. q[k] = <<c, i>> /\ q[m] = <<c, j>>
    BY <1>1, <1>2, <1>6
  <2> QED
    BY <1>2, <1>6, <2>1 DEF InOrder
<1> QED
  BY <1>1, <1>3, <1>4, <1>5, <1>6

\* No earlier commit of the same client is behind the first transaction.
LEMMA HeadEarliest ==
    ASSUME NEW q \in Seq(Txns), q # <<>>, InOrder(q), NEW c \in Clients,
           NEW i \in 1..MaxCommits, NEW j \in 1..MaxCommits, i < j, Head(q) = <<c, j>>
    PROVE  <<c, i>> \notin Elems(q)
<1>1. SUFFICES ASSUME NEW k \in 1..Len(q), q[k] = <<c, i>> PROVE FALSE
  BY DEF Elems
<1>2. 1 \in 1..Len(q) /\ q[1] = <<c, j>> /\ Len(q) \in Nat
  OBVIOUS
<1>3. k < 1
  BY <1>1, <1>2 DEF InOrder
<1> QED
  BY <1>2, <1>3

\* A client starts a commit only when the one before is queued, done or refused;
\* the queue keeps a client's commits in order, and one is taken from it only
\* when the earlier ones are processed or were refused.
OrderInv ==
    /\ InOrder(queue)
    /\ \A c \in Clients : \A i \in 1..MaxCommits :
          /\ place[<<c, i>>] \notin {"spawned", "waiting"}
          /\ place[<<c, i>>] = "none" => i > n[c]
          /\ place[<<c, i>>] = "pushing" => pc[c] = "enqueue" /\ i = n[c]
    /\ \A c \in Clients : \A i, j \in 1..MaxCommits :
          i < j /\ place[<<c, j>>] \in {"held", "running", "processed"}
            => place[<<c, i>>] \in {"processed", "dropped"}
    /\ \A c \in Clients : \A i, j \in 1..MaxCommits :
          i < j /\ seq[<<c, i>>] # NoSeq /\ seq[<<c, j>>] # NoSeq
            => seq[<<c, i>>] < seq[<<c, j>>]

\* No interleaving lets a later commit of a client overtake an earlier one.
LEMMA OrderStep == TypeInv /\ WgInv /\ OnceInv /\ LockInv /\ SeqInv /\ OrderInv /\ [Next]_vars => OrderInv'
<1> SUFFICES ASSUME TypeInv, WgInv, OnceInv, LockInv, SeqInv, OrderInv, [Next]_vars PROVE OrderInv'
  OBVIOUS
<1>0. /\ place \in [Txns -> Places] /\ queue \in Seq(Txns)
      /\ n \in [Clients -> 0..MaxCommits] /\ pc \in [Clients -> {"idle", "enqueue", "wait"}]
      /\ consumer \in {"lock", "execute", "finish"} => cur \in Txns
      /\ MaxCommits \in Nat
      /\ \A c \in Clients : pc[c] # "idle" => commit(c) \in Commits
  BY QueueAssumption, ClientCommit DEF TypeInv, TypeOK, RunInv, ConsumerType, ClientType, CloseType, NoSeq
<1> USE ConstantFacts, <1>0 DEF OrderInv
<1>1. ASSUME NEW c \in Clients, CommitStart(c) PROVE OrderInv'
  <2>1. <<c, n[c] + 1>> \in Commits /\ place[<<c, n[c] + 1>>] = "none" /\ n[c] + 1 \in 1..MaxCommits /\ n[c] \in Nat
    BY <1>1, StartFresh
  <2>2. InOrder(queue')
    BY <1>1 DEF CommitStart
  <2>3. \A d \in Clients : \A i \in 1..MaxCommits :
          /\ place'[<<d, i>>] \notin {"spawned", "waiting"}
          /\ place'[<<d, i>>] = "none" => i > n'[d]
          /\ place'[<<d, i>>] = "pushing" => pc'[d] = "enqueue" /\ i = n'[d]
    <3>1. /\ place' = [place EXCEPT ![<<c, n[c] + 1>>] = "pushing"] /\ pc[c] = "idle"
          /\ n' = [n EXCEPT ![c] = n[c] + 1] /\ pc' = [pc EXCEPT ![c] = "enqueue"]
      BY <1>1 DEF CommitStart
    <3> SUFFICES ASSUME NEW d \in Clients, NEW i \in 1..MaxCommits
                 PROVE  /\ place'[<<d, i>>] \notin {"spawned", "waiting"}
                        /\ place'[<<d, i>>] = "none" => i > n'[d]
                        /\ place'[<<d, i>>] = "pushing" => pc'[d] = "enqueue" /\ i = n'[d]
      OBVIOUS
    <3>2. <<d, i>> \in Txns /\ i \in Nat /\ n[d] \in Nat
      OBVIOUS
    <3>3. CASE <<d, i>> = <<c, n[c] + 1>>
      BY <2>1, <3>1, <3>2, <3>3
    <3>4. CASE <<d, i>> # <<c, n[c] + 1>>
      <4>1. place'[<<d, i>>] = place[<<d, i>>]
        BY <2>1, <3>1, <3>2, <3>4
      <4>2. d = c => i # n[c] + 1
        BY <3>4
      <4>3. CASE d = c
        BY <2>1, <3>1, <3>2, <4>1, <4>2, <4>3
      <4>4. CASE d # c
        BY <3>1, <4>1, <4>4
      <4> QED
        BY <4>3, <4>4
    <3> QED
      BY <3>3, <3>4
  <2>4. \A d \in Clients : \A i, j \in 1..MaxCommits :
          i < j /\ place'[<<d, j>>] \in {"held", "running", "processed"}
            => place'[<<d, i>>] \in {"processed", "dropped"}
    BY <1>1, <2>1 DEF CommitStart
  <2>5. \A d \in Clients : \A i, j \in 1..MaxCommits :
          i < j /\ seq'[<<d, i>>] # NoSeq /\ seq'[<<d, j>>] # NoSeq
            => seq'[<<d, i>>] < seq'[<<d, j>>]
    BY <1>1, <2>1 DEF CommitStart
  <2> QED
    BY <2>2, <2>3, <2>4, <2>5
<1>2. ASSUME NEW c \in Clients, CommitEnqueue(c) PROVE OrderInv'
  <2>1. /\ n[c] \in 1..MaxCommits /\ <<c, n[c]>> \in Commits
        /\ place[<<c, n[c]>>] = "pushing"
    BY <1>2, ClientCommit DEF CommitEnqueue, OnceInv, commit
  <2>2. InOrder(queue')
    <3>1. queue' = Append(queue, <<c, n[c]>>) /\ <<c, n[c]>> \in Txns /\ <<c, n[c]>> \notin Elems(queue)
      BY <1>2, <2>1 DEF CommitEnqueue, Enqueue, OnceInv, commit
    <3>2. \A d \in Clients : \A i, j \in 1..MaxCommits :
            <<c, n[c]>> = <<d, i>> /\ i < j => <<d, j>> \notin Elems(queue)
      <4>1. ASSUME NEW j \in 1..MaxCommits, n[c] < j PROVE <<c, j>> \notin Elems(queue)
        <5>1. place[<<c, j>>] = "none"
          BY <4>1 DEF OnceInv
        <5> QED
          BY <5>1 DEF OnceInv
      <4> QED
        BY <4>1
    <3> QED
      BY <3>1, <3>2, AppendInOrder
  <2>3. \A d \in Clients : \A i \in 1..MaxCommits :
          /\ place'[<<d, i>>] \notin {"spawned", "waiting"}
          /\ place'[<<d, i>>] = "none" => i > n'[d]
          /\ place'[<<d, i>>] = "pushing" => pc'[d] = "enqueue" /\ i = n'[d]
    <3>1. /\ place' = [place EXCEPT ![<<c, n[c]>>] = "queued"] /\ n' = n
          /\ \A d \in Clients : d # c => pc'[d] = pc[d]
      BY <1>2 DEF CommitEnqueue, Enqueue, commit
    <3> SUFFICES ASSUME NEW d \in Clients, NEW i \in 1..MaxCommits
                 PROVE  /\ place'[<<d, i>>] \notin {"spawned", "waiting"}
                        /\ place'[<<d, i>>] = "none" => i > n'[d]
                        /\ place'[<<d, i>>] = "pushing" => pc'[d] = "enqueue" /\ i = n'[d]
      OBVIOUS
    <3>2. <<d, i>> \in Txns /\ i \in Nat /\ n[d] \in Nat
      OBVIOUS
    <3>3. CASE <<d, i>> = <<c, n[c]>>
      BY <2>1, <3>1, <3>2, <3>3
    <3>4. CASE <<d, i>> # <<c, n[c]>>
      <4>1. place'[<<d, i>>] = place[<<d, i>>]
        BY <2>1, <3>1, <3>2, <3>4
      <4>2. d = c => i # n[c]
        BY <3>4
      <4>3. CASE d = c
        BY <2>1, <3>1, <3>2, <4>1, <4>2, <4>3
      <4>4. CASE d # c
        BY <3>1, <4>1, <4>4
      <4> QED
        BY <4>3, <4>4
    <3> QED
      BY <3>3, <3>4
  <2>4. \A d \in Clients : \A i, j \in 1..MaxCommits :
          i < j /\ place'[<<d, j>>] \in {"held", "running", "processed"}
            => place'[<<d, i>>] \in {"processed", "dropped"}
    BY <1>2, <2>1 DEF CommitEnqueue, Enqueue, commit
  <2>5. \A d \in Clients : \A i, j \in 1..MaxCommits :
          i < j /\ seq'[<<d, i>>] # NoSeq /\ seq'[<<d, j>>] # NoSeq
            => seq'[<<d, i>>] < seq'[<<d, j>>]
    BY <1>2, <2>1 DEF CommitEnqueue, Enqueue, commit
  <2> QED
    BY <2>2, <2>3, <2>4, <2>5
<1>3. ASSUME NEW c \in Clients, CommitRefused(c) PROVE OrderInv'
  BY <1>3 DEF CommitRefused, CommitReturn, commit, clientVars
<1>4. ASSUME NEW c \in Clients, CommitResult(c) PROVE OrderInv'
  BY <1>4 DEF CommitResult, CommitReturn, commit, clientVars
<1>5. ASSUME NEW c \in Clients, CommitClosed(c) PROVE OrderInv'
  BY <1>5 DEF CommitClosed, CommitReturn, commit, clientVars
<1>6. ASSUME NEW c \in Clients, CommitCanceled(c) PROVE OrderInv'
  BY <1>6 DEF CommitCanceled, CommitReturn, commit, clientVars
<1>7. ASSUME NEW x \in Notifs, PushSBNotification(x) PROVE OrderInv'
  <2>1. x \in Txns /\ x \notin Commits /\ place[x] = "none"
    BY <1>7 DEF PushSBNotification
  <2>2. InOrder(queue')
    <3>0. CASE UNCHANGED queue
      BY <3>0
    <3>00. CASE Enqueue(x)
      <4>1. queue' = Append(queue, x) /\ x \in Txns /\ x \notin Elems(queue)
        BY <3>00, <2>1 DEF Enqueue, OnceInv, commit
      <4>2. \A d \in Clients : \A i, j \in 1..MaxCommits :
              x = <<d, i>> /\ i < j => <<d, j>> \notin Elems(queue)
        BY <2>1
      <4> QED
        BY <4>1, <4>2, AppendInOrder
    <3> QED
      BY <1>7, <3>0, <3>00 DEF PushSBNotification
  <2>3. \A d \in Clients : \A i \in 1..MaxCommits :
          /\ place'[<<d, i>>] \notin {"spawned", "waiting"}
          /\ place'[<<d, i>>] = "none" => i > n'[d]
          /\ place'[<<d, i>>] = "pushing" => pc'[d] = "enqueue" /\ i = n'[d]
    <3>1. /\ \A t \in Txns : t # x => place'[t] = place[t]
          /\ UNCHANGED <<n, pc>>
      BY <1>7 DEF PushSBNotification, Enqueue, clientVars
    <3> SUFFICES ASSUME NEW d \in Clients, NEW i \in 1..MaxCommits
                 PROVE  /\ place'[<<d, i>>] \notin {"spawned", "waiting"}
                        /\ place'[<<d, i>>] = "none" => i > n'[d]
                        /\ place'[<<d, i>>] = "pushing" => pc'[d] = "enqueue" /\ i = n'[d]
      OBVIOUS
    <3>2. place'[<<d, i>>] = place[<<d, i>>] /\ n'[d] = n[d] /\ pc'[d] = pc[d]
      BY <2>1, <3>1
    <3> QED
      BY <3>2
  <2>4. \A d \in Clients : \A i, j \in 1..MaxCommits :
          i < j /\ place'[<<d, j>>] \in {"held", "running", "processed"}
            => place'[<<d, i>>] \in {"processed", "dropped"}
    BY <1>7, <2>1, SMTT(30) DEF PushSBNotification, Enqueue, clientVars
  <2>5. \A d \in Clients : \A i, j \in 1..MaxCommits :
          i < j /\ seq'[<<d, i>>] # NoSeq /\ seq'[<<d, j>>] # NoSeq
            => seq'[<<d, i>>] < seq'[<<d, j>>]
    BY <1>7, <2>1 DEF PushSBNotification, Enqueue, clientVars
  <2> QED
    BY <2>2, <2>3, <2>4, <2>5
<1>8. CASE Dequeue
  <2>1. /\ Head(queue) \in Txns /\ place[Head(queue)] = "queued" /\ cur = NoTxn
        /\ queue # <<>>
    BY <1>8, HeadQueued DEF Dequeue, WgInv
  <2>2. InOrder(queue')
    BY <1>8, <2>1, TailInOrder DEF Dequeue
  <2>3. \A d \in Clients : \A i \in 1..MaxCommits :
          /\ place'[<<d, i>>] \notin {"spawned", "waiting"}
          /\ place'[<<d, i>>] = "none" => i > n'[d]
          /\ place'[<<d, i>>] = "pushing" => pc'[d] = "enqueue" /\ i = n'[d]
    BY <1>8, <2>1 DEF Dequeue, clientVars
  <2>4. \A d \in Clients : \A i, j \in 1..MaxCommits :
          i < j /\ place'[<<d, j>>] \in {"held", "running", "processed"}
            => place'[<<d, i>>] \in {"processed", "dropped"}
    <3>1. SUFFICES ASSUME NEW d \in Clients, NEW i \in 1..MaxCommits, NEW j \in 1..MaxCommits,
                          i < j, Head(queue) = <<d, j>>
                   PROVE  place[<<d, i>>] \in {"processed", "dropped"}
      BY <1>8, <2>1 DEF Dequeue
    <3>2. place[<<d, i>>] \notin {"none", "pushing", "spawned", "waiting"}
      <4>1. ~(j > n[d])
        BY <2>1, <3>1 DEF OnceInv
      <4>2. ~(i > n[d]) /\ i # n[d]
        BY <3>1, <4>1
      <4> QED
        BY <4>2
    <3>3. place[<<d, i>>] \notin {"held", "running"}
      BY <2>1 DEF OnceInv
    <3>4. place[<<d, i>>] # "queued"
      <4>1. <<d, i>> \notin Elems(queue)
        BY <2>1, <3>1, HeadEarliest
      <4> QED
        BY <4>1 DEF OnceInv
    <3> QED
      BY <3>2, <3>3, <3>4 DEF Places
  <2>5. \A d \in Clients : \A i, j \in 1..MaxCommits :
          i < j /\ seq'[<<d, i>>] # NoSeq /\ seq'[<<d, j>>] # NoSeq
            => seq'[<<d, i>>] < seq'[<<d, j>>]
    BY <1>8, <2>1 DEF Dequeue, clientVars
  <2> QED
    BY <2>2, <2>3, <2>4, <2>5
<1>9. CASE ConsumerExit
  BY <1>9 DEF ConsumerExit, clientVars
<1>10. CASE StartTxn
  <2>1. cur \in Txns /\ place[cur] = "held"
    BY <1>10 DEF StartTxn, LockInv
  <2>2. InOrder(queue')
    BY <1>10 DEF StartTxn
  <2>3. \A d \in Clients : \A i \in 1..MaxCommits :
          /\ place'[<<d, i>>] \notin {"spawned", "waiting"}
          /\ place'[<<d, i>>] = "none" => i > n'[d]
          /\ place'[<<d, i>>] = "pushing" => pc'[d] = "enqueue" /\ i = n'[d]
    BY <1>10, <2>1 DEF StartTxn, clientVars
  <2>4. \A d \in Clients : \A i, j \in 1..MaxCommits :
          i < j /\ place'[<<d, j>>] \in {"held", "running", "processed"}
            => place'[<<d, i>>] \in {"processed", "dropped"}
    BY <1>10, <2>1, SMTT(30) DEF StartTxn, clientVars
  <2>5. \A d \in Clients : \A i, j \in 1..MaxCommits :
          i < j /\ seq'[<<d, i>>] # NoSeq /\ seq'[<<d, j>>] # NoSeq
            => seq'[<<d, i>>] < seq'[<<d, j>>]
    <3>1. /\ seq' = [seq EXCEPT ![cur] = txnSeqNumber]
          /\ seq \in [Txns -> Nat \cup {NoSeq}] /\ txnSeqNumber \in Nat
      BY <1>10 DEF StartTxn, TypeInv, TypeOK, ConsumerType
    <3>2. SUFFICES ASSUME NEW d \in Clients, NEW i \in 1..MaxCommits, NEW j \in 1..MaxCommits,
                          i < j, seq'[<<d, i>>] # NoSeq, seq'[<<d, j>>] # NoSeq
                   PROVE  seq'[<<d, i>>] < seq'[<<d, j>>]
      OBVIOUS
    <3>3. <<d, i>> # <<d, j>> /\ <<d, i>> \in Txns /\ <<d, j>> \in Txns
      BY <3>2
    <3>4. CASE cur = <<d, j>>
      BY <3>1, <3>2, <3>3, <3>4 DEF SeqInv
    <3>5. CASE cur = <<d, i>>
      <4>1. seq[<<d, j>>] # NoSeq
        BY <3>1, <3>2, <3>3, <3>5
      <4>2. place[<<d, j>>] \in {"running", "processed"}
        BY <3>3, <4>1 DEF SeqInv
      <4> QED
        BY <2>1, <3>2, <3>5, <4>2
    <3>6. CASE cur # <<d, i>> /\ cur # <<d, j>>
      BY <3>1, <3>2, <3>3, <3>6
    <3> QED
      BY <3>4, <3>5, <3>6
  <2> QED
    BY <2>2, <2>3, <2>4, <2>5
<1>11. CASE PostProcess
  BY <1>11 DEF PostProcess, Spawn, clientVars
<1>12. CASE FinishTxn
  <2>1. cur \in Txns /\ place[cur] = "running"
    BY <1>12 DEF FinishTxn, LockInv
  <2>2. InOrder(queue')
    BY <1>12 DEF FinishTxn
  <2>3. \A d \in Clients : \A i \in 1..MaxCommits :
          /\ place'[<<d, i>>] \notin {"spawned", "waiting"}
          /\ place'[<<d, i>>] = "none" => i > n'[d]
          /\ place'[<<d, i>>] = "pushing" => pc'[d] = "enqueue" /\ i = n'[d]
    BY <1>12, <2>1 DEF FinishTxn, clientVars
  <2>4. \A d \in Clients : \A i, j \in 1..MaxCommits :
          i < j /\ place'[<<d, j>>] \in {"held", "running", "processed"}
            => place'[<<d, i>>] \in {"processed", "dropped"}
    BY <1>12, <2>1 DEF FinishTxn, clientVars
  <2>5. \A d \in Clients : \A i, j \in 1..MaxCommits :
          i < j /\ seq'[<<d, i>>] # NoSeq /\ seq'[<<d, j>>] # NoSeq
            => seq'[<<d, i>>] < seq'[<<d, j>>]
    BY <1>12, <2>1 DEF FinishTxn, clientVars
  <2> QED
    BY <2>2, <2>3, <2>4, <2>5
<1>13. ASSUME NEW r \in Retries, RetryStart(r) PROVE OrderInv'
  BY <1>13 DEF RetryStart, clientVars
<1>14. ASSUME NEW r \in Retries, RetryEnqueue(r) PROVE OrderInv'
  <2>1. r \in Txns /\ r \notin Commits /\ place[r] = "waiting"
    BY <1>14 DEF RetryEnqueue, RetryDue
  <2>2. InOrder(queue')
    <3>1. queue' = Append(queue, r) /\ r \in Txns /\ r \notin Elems(queue)
      BY <1>14, <2>1 DEF RetryEnqueue, RetryDue, Enqueue, OnceInv, commit
    <3>2. \A d \in Clients : \A i, j \in 1..MaxCommits :
            r = <<d, i>> /\ i < j => <<d, j>> \notin Elems(queue)
      BY <2>1
    <3> QED
      BY <3>1, <3>2, AppendInOrder
  <2>3. \A d \in Clients : \A i \in 1..MaxCommits :
          /\ place'[<<d, i>>] \notin {"spawned", "waiting"}
          /\ place'[<<d, i>>] = "none" => i > n'[d]
          /\ place'[<<d, i>>] = "pushing" => pc'[d] = "enqueue" /\ i = n'[d]
    BY <1>14, <2>1 DEF RetryEnqueue, RetryDue, Enqueue, clientVars
  <2>4. \A d \in Clients : \A i, j \in 1..MaxCommits :
          i < j /\ place'[<<d, j>>] \in {"held", "running", "processed"}
            => place'[<<d, i>>] \in {"processed", "dropped"}
    BY <1>14, <2>1 DEF RetryEnqueue, RetryDue, Enqueue, clientVars
  <2>5. \A d \in Clients : \A i, j \in 1..MaxCommits :
          i < j /\ seq'[<<d, i>>] # NoSeq /\ seq'[<<d, j>>] # NoSeq
            => seq'[<<d, i>>] < seq'[<<d, j>>]
    BY <1>14, <2>1 DEF RetryEnqueue, RetryDue, Enqueue, clientVars
  <2> QED
    BY <2>2, <2>3, <2>4, <2>5
<1>15. ASSUME NEW r \in Retries, RetryAgain(r) PROVE OrderInv'
  BY <1>15 DEF RetryAgain, RetryDue, clientVars
<1>16. ASSUME NEW r \in Retries, RetryCancel(r) PROVE OrderInv'
  BY <1>16 DEF RetryCancel, clientVars
<1>17. CASE RegisterDescriptor
  BY <1>17 DEF RegisterDescriptor, clientVars
<1>18. CASE Observe
  BY <1>18 DEF Observe, clientVars
<1>19. CASE TransactionBarrier
  BY <1>19 DEF TransactionBarrier, txnLockFree, clientVars
<1>20. CASE CloseCancel
  BY <1>20 DEF CloseCancel, clientVars
<1>21. CASE CloseReturn
  BY <1>21 DEF CloseReturn, clientVars
<1>22. CASE Quiescent \/ UNCHANGED vars
  BY <1>22 DEF Quiescent, vars, clientVars
<1> QED
  BY <1>1, <1>2, <1>3, <1>4, <1>5, <1>6, <1>7, <1>8, <1>9, <1>10, <1>11,
     <1>12, <1>13, <1>14, <1>15, <1>16, <1>17, <1>18, <1>19, <1>20, <1>21, <1>22
     DEF Next, ClientStep, ConsumerStep, RetryStep

-----------------------------------------------------------------------------
\* Every part of the inductive invariant holds when the scheduler starts
\* (Init of the plugin: empty queue, one consumer, nothing committed).
LEMMA PartsInit ==
    Init => WgInv /\ OnceInv /\ LockInv /\ RetryKept /\ SeqInv /\ TruthInv /\ OrderInv
<1> SUFFICES ASSUME Init
             PROVE  WgInv /\ OnceInv /\ LockInv /\ RetryKept /\ SeqInv /\ TruthInv /\ OrderInv
  OBVIOUS
<1> USE QueueAssumption, ConstantFacts
<1>1. WgInv
  BY DEF Init, WgInv
<1>2. queue = <<>> /\ Len(queue) = 0 /\ Elems(queue) = {} /\ Injective(queue)
  BY DEF Init, Elems, Injective
<1>3. /\ \A t \in Txns : place[t] = "none" /\ seq[t] = NoSeq
      /\ \A t \in Commits : resultChan[t] = NoSeq /\ ret[t] = "none" /\ t \in Txns
      /\ \A c \in Clients : pc[c] = "idle" /\ n[c] = 0
      /\ \A c \in Clients : \A i \in 1..MaxCommits : <<c, i>> \in Commits
  BY DEF Init
<1>4. OnceInv
  <2>1. \A t \in Txns : cur # t
    BY DEF Init
  <2> QED
    BY <1>2, <1>3, <2>1 DEF OnceInv
<1>5. LockInv
  BY DEF Init, LockInv
<1>6. RetryKept
  BY <1>3 DEF Init, RetryKept
<1>7. SeqInv
  BY <1>3 DEF SeqInv
<1>8. TruthInv
  BY <1>3 DEF TruthInv, CommitTruthful
<1>9. OrderInv
  <2>1. InOrder(queue)
    BY <1>2 DEF InOrder
  <2> QED
    BY <1>3, <2>1 DEF OrderInv
<1> QED
  BY <1>1, <1>4, <1>5, <1>6, <1>7, <1>8, <1>9

\* The whole inductive invariant: types, WaitGroup, queue contents, lock,
\* retries, sequence numbers, what Commit returned, and commit order.
QueueInv == TypeInv /\ WgInv /\ OnceInv /\ LockInv /\ RetryKept /\ SeqInv /\ TruthInv /\ OrderInv

\* It holds in every reachable state of the queue and its goroutines.
THEOREM QueueInvariant == Spec => []QueueInv
<1>1. Init => QueueInv
  BY TypeInit, PartsInit DEF QueueInv
<1>2. QueueInv /\ [Next]_vars => QueueInv'
  BY TypeStep, WgStep, OnceStep, LockStep, RetryStepKept, SeqStep, TruthStep, OrderStep DEF QueueInv
<1> QED
  BY <1>1, <1>2, PTL DEF Spec

\* Once Close returned, the consumer is gone and holds no transaction: nothing
\* is executed after Close (plugin_scheduler.go, Close).
THEOREM NothingRunsAfterClose == Spec => []ClosedNotExecuting
<1>1. QueueInv => ClosedNotExecuting
  BY DEF QueueInv, WgInv, ClosedNotExecuting
<1> QED
  BY <1>1, QueueInvariant, PTL

\* TransactionBarrier returns only after the transaction that published the
\* observed change is finalized (plugin_scheduler.go, TransactionBarrier).
THEOREM BarrierWaitsForTxn == Spec => []BarrierFinalizes
<1>1. QueueInv => BarrierFinalizes
  BY DEF QueueInv, LockInv, BarrierFinalizes
<1> QED
  BY <1>1, QueueInvariant, PTL

\* A scheduled retry is abandoned only because the scheduler is closing, and
\* its attempt number never exceeds MaxCount (scheduleRetries, delayRetry).
THEOREM RetriesKept == Spec => []RetryKept
<1>1. QueueInv => RetryKept
  BY DEF QueueInv
<1> QED
  BY <1>1, QueueInvariant, PTL

\* What Commit returns is true of the transaction: refused means never
\* executed, a result carries the number of that very transaction
\* (plugin_scheduler.go, Commit).
THEOREM CommitTellsTheTruth == Spec => []CommitTruthful
<1>1. QueueInv => CommitTruthful
  BY DEF QueueInv, TruthInv
<1> QED
  BY <1>1, QueueInvariant, PTL

\* The transactions of one client are numbered, hence executed, in the order it
\* committed them, and no number is given twice (preProcessTransaction).
THEOREM CommitsInOrder == Spec => []CommitOrder
<1>1. QueueInv => CommitOrder
  <2> SUFFICES ASSUME QueueInv PROVE CommitOrder
    OBVIOUS
  <2>1. \A t1, t2 \in Txns : seq[t1] # NoSeq /\ seq[t1] = seq[t2] => t1 = t2
    BY DEF QueueInv, SeqInv
  <2>2. ASSUME NEW c \in Clients, NEW i \in 1..MaxCommits, NEW j \in 1..MaxCommits,
               i < j, seq[<<c, j>>] # NoSeq
        PROVE  \/ seq[<<c, i>>] # NoSeq /\ seq[<<c, i>>] < seq[<<c, j>>]
               \/ place[<<c, i>>] = "dropped"
    <3>1. <<c, i>> \in Txns /\ <<c, j>> \in Txns
      BY ConstantFacts
    <3>2. place[<<c, j>>] \in {"running", "processed"}
      BY <2>2, <3>1 DEF QueueInv, SeqInv
    <3>3. place[<<c, i>>] \in {"processed", "dropped"}
      BY <2>2, <3>2 DEF QueueInv, OrderInv
    <3>4. CASE place[<<c, i>>] = "processed"
      <4>1. seq[<<c, i>>] # NoSeq
        BY <3>1, <3>4 DEF QueueInv, SeqInv
      <4> QED
        BY <2>2, <4>1 DEF QueueInv, OrderInv
    <3> QED
      BY <3>3, <3>4
  <2> QED
    BY <2>1, <2>2 DEF CommitOrder
<1> QED
  BY <1>1, QueueInvariant, PTL

-----------------------------------------------------------------------------
(* The in-order executor *)

\* Nothing was decided about the transaction: it is neither accepted nor turned
\* away.
Undecided(t) == t \in Txns /\ place[t] \in {"none", "pushing", "spawned", "waiting"}

\* The consumer and what it told the clients stay as they are.
ConsumerIdle == UNCHANGED <<consumer, cur, txnSeqNumber, seq, resultChan>>

Accepts == ConsumerIdle /\ \E t : Undecided(t) /\ Enqueue(t)
TurnsAway ==
    /\ ConsumerIdle /\ UNCHANGED queue
    /\ \E t : Undecided(t) /\ place' = [place EXCEPT ![t] = "dropped"]
Prepares ==
    /\ ConsumerIdle /\ UNCHANGED queue
    /\ \A t \in Txns : place'[t] = place[t] \/ (Undecided(t) /\ Undecided(t)')
Exits == UNCHANGED <<queue, cur, txnSeqNumber, seq, resultChan, place>>
         /\ consumer = "dequeue" /\ consumer' = "exited"

\* Every step of a client, plugin, retry, observer or of Close accepts or turns
\* away one transaction or leaves the queue alone.
LEMMA StepKinds ==
    ASSUME TypeInv, OnceInv, [Next]_vars
    PROVE  \/ Accepts \/ TurnsAway \/ Prepares \/ Exits
           \/ Dequeue \/ StartTxn \/ PostProcess \/ FinishTxn
<1>0. place \in [Txns -> Places]
  BY DEF TypeInv, TypeOK
<1> USE ConstantFacts, <1>0
<1>1. ASSUME NEW c \in Clients, CommitStart(c) PROVE Prepares
  <2> DEFINE t == <<c, n[c] + 1>>
  <2>1. t \in Txns /\ place[t] = "none"
    BY <1>1, StartFresh
  <2>2. place' = [place EXCEPT ![t] = "pushing"] /\ ConsumerIdle /\ UNCHANGED queue
    BY <1>1 DEF CommitStart, ConsumerIdle
  <2> HIDE DEF t
  <2> QED
    BY <2>1, <2>2 DEF Prepares, Undecided
<1>2. ASSUME NEW c \in Clients, CommitEnqueue(c) PROVE Accepts
  <2>1. commit(c) \in Txns /\ place[commit(c)] = "pushing"
    BY <1>2, ClientCommit DEF CommitEnqueue, OnceInv
  <2>2. Enqueue(commit(c)) /\ ConsumerIdle
    BY <1>2 DEF CommitEnqueue, ConsumerIdle
  <2> QED
    BY <2>1, <2>2 DEF Accepts, Undecided
<1>3. ASSUME NEW c \in Clients, CommitRefused(c) PROVE TurnsAway
  <2>1. commit(c) \in Txns /\ place[commit(c)] = "pushing"
    BY <1>3, ClientCommit DEF CommitRefused, OnceInv
  <2>2. place' = [place EXCEPT ![commit(c)] = "dropped"] /\ ConsumerIdle /\ UNCHANGED queue
    BY <1>3 DEF CommitRefused, CommitReturn, ConsumerIdle
  <2> QED
    BY <2>1, <2>2 DEF TurnsAway, Undecided
<1>4. ASSUME NEW c \in Clients, CommitResult(c) \/ CommitClosed(c) \/ CommitCanceled(c) PROVE Prepares
  BY <1>4 DEF CommitResult, CommitClosed, CommitCanceled, CommitReturn, Prepares, ConsumerIdle
<1>5. ASSUME NEW x \in Notifs, PushSBNotification(x) PROVE Accepts \/ TurnsAway
  <2>1. Undecided(x) /\ ConsumerIdle
    BY <1>5 DEF PushSBNotification, clientVars, ConsumerIdle, Undecided
  <2>2. \/ Enqueue(x)
        \/ place' = [place EXCEPT ![x] = "dropped"] /\ UNCHANGED queue
    BY <1>5 DEF PushSBNotification
  <2> QED
    BY <2>1, <2>2 DEF Accepts, TurnsAway
<1>6. CASE ConsumerExit
  BY <1>6 DEF ConsumerExit, Exits, clientVars
<1>7. ASSUME NEW r \in Retries, RetryStart(r) \/ RetryAgain(r) PROVE Prepares
  <2>1. /\ place[r] \in {"spawned", "waiting"} /\ r \in Txns
        /\ \/ place' = [place EXCEPT ![r] = "waiting"]
           \/ place' = [place EXCEPT ![r] = "spawned"]
    BY <1>7 DEF RetryStart, RetryAgain, RetryDue
  <2>2. ConsumerIdle /\ UNCHANGED queue
    BY <1>7 DEF RetryStart, RetryAgain, clientVars, ConsumerIdle
  <2> QED
    BY <2>1, <2>2 DEF Prepares, Undecided
<1>8. ASSUME NEW r \in Retries, RetryEnqueue(r) PROVE Accepts
  BY <1>8 DEF RetryEnqueue, RetryDue, clientVars, ConsumerIdle, Accepts, Undecided
<1>9. ASSUME NEW r \in Retries, RetryCancel(r) PROVE TurnsAway
  BY <1>9 DEF RetryCancel, clientVars, ConsumerIdle, TurnsAway, Undecided
<1>10. CASE \/ RegisterDescriptor \/ Observe \/ TransactionBarrier \/ CloseCancel \/ CloseReturn
            \/ Quiescent \/ UNCHANGED vars
  BY <1>10 DEF RegisterDescriptor, Observe, TransactionBarrier, CloseCancel, CloseReturn, Quiescent,
               vars, clientVars, Prepares, ConsumerIdle
<1> QED
  BY <1>1, <1>2, <1>3, <1>4, <1>5, <1>6, <1>7, <1>8, <1>9, <1>10
     DEF Next, ClientStep, ConsumerStep, RetryStep


\* A result is in a resultChan only once its transaction was executed, and only
\* while the consumer has not gone on without finishing it.
SentInv ==
    \A t \in Commits : resultChan[t] # NoSeq => place[t] = "processed" \/ (consumer = "finish" /\ cur = t)

\* Only postProcessTransaction sends a result, for the transaction at hand.
LEMMA SentStep == TypeInv /\ OnceInv /\ LockInv /\ SentInv /\ [Next]_vars => SentInv'
<1> SUFFICES ASSUME TypeInv, OnceInv, LockInv, SentInv, [Next]_vars,
                    NEW t \in Commits, resultChan'[t] # NoSeq
             PROVE  place'[t] = "processed" \/ (consumer' = "finish" /\ cur' = t)
  BY DEF SentInv
<1>0. /\ place \in [Txns -> Places] /\ t \in Txns
      /\ resultChan[t] # NoSeq => place[t] = "processed" \/ (consumer = "finish" /\ cur = t)
  BY ConstantFacts DEF TypeInv, TypeOK, SentInv
<1> USE <1>0
<1>1. CASE Accepts
  <2>1. PICK u : Undecided(u) /\ place' = [place EXCEPT ![u] = "queued"]
    BY <1>1 DEF Accepts, Enqueue
  <2> QED
    BY <1>1, <2>1 DEF Accepts, ConsumerIdle, Undecided
<1>2. CASE TurnsAway
  <2>1. PICK u : Undecided(u) /\ place' = [place EXCEPT ![u] = "dropped"]
    BY <1>2 DEF TurnsAway
  <2> QED
    BY <1>2, <2>1 DEF TurnsAway, ConsumerIdle, Undecided
<1>3. CASE Prepares
  BY <1>3 DEF Prepares, ConsumerIdle, Undecided
<1>4. CASE Exits
  BY <1>4 DEF Exits
<1>5. CASE Dequeue
  <2>1. /\ place' = [place EXCEPT ![Head(queue)] = "held"] /\ resultChan' = resultChan
        /\ consumer = "dequeue" /\ place[Head(queue)] = "queued"
    BY <1>5, HeadQueued DEF Dequeue, clientVars
  <2> QED
    BY <2>1
<1>6. CASE StartTxn
  <2>1. /\ place' = [place EXCEPT ![cur] = "running"] /\ resultChan' = resultChan
        /\ consumer = "lock" /\ place[cur] = "held"
    BY <1>6 DEF StartTxn, clientVars, LockInv
  <2> QED
    BY <2>1
<1>7. CASE PostProcess
  <2>1. /\ \A u \in Txns : place[u] = "processed" => place'[u] = "processed"
        /\ consumer = "execute" /\ consumer' = "finish" /\ cur' = cur
        /\ t # cur => resultChan'[t] = resultChan[t]
    BY <1>7 DEF PostProcess, Spawn
  <2> QED
    BY <2>1
<1>8. CASE FinishTxn
  <2>1. /\ place' = [place EXCEPT ![cur] = "processed"] /\ resultChan' = resultChan
        /\ consumer = "finish"
    BY <1>8 DEF FinishTxn, clientVars
  <2> QED
    BY <2>1
<1> QED
  BY <1>1, <1>2, <1>3, <1>4, <1>5, <1>6, <1>7, <1>8, StepKinds

\* The transactions that wait: in the queue, and the one the consumer took but
\* does not execute yet.
Waiting == IF consumer = "lock" THEN <<cur>> \o queue ELSE queue
Running == IF consumer \in {"execute", "finish"} THEN cur ELSE NoTxn
Refused == {t \in Txns : place[t] = "dropped"}

\* A transaction about which nothing was decided does not wait, has no number and
\* was not refused.
LEMMA UndecidedFresh ==
    ASSUME TypeInv, OnceInv, LockInv, SeqInv, NEW t, Undecided(t)
    PROVE  Execution!Fresh(t)
<1>1. seq[t] = NoSeq /\ t \notin Refused
  BY DEF Undecided, SeqInv, Refused
<1>2. \A i \in 1..Len(queue) : queue[i] # t
  BY DEF Undecided, OnceInv, Elems
<1>3. consumer = "lock" => cur # t
  BY DEF Undecided, LockInv
<1>4. \A i \in 1..Len(Waiting) : Waiting[i] # t
  <2>1. CASE consumer = "lock"
    <3>1. ASSUME NEW i \in 1..Len(<<cur>> \o queue)
          PROVE  (<<cur>> \o queue)[i] # t
      <4>0. queue \in Seq(Txns)
        BY DEF TypeInv, TypeOK
      <4>1. CASE i = 1
        BY <1>3, <2>1, <4>0, <4>1
      <4>2. CASE i # 1
        <5>1. i - 1 \in 1..Len(queue) /\ (<<cur>> \o queue)[i] = queue[i - 1]
          BY <4>0, <4>2
        <5> QED
          BY <1>2, <5>1
      <4> QED
        BY <4>1, <4>2
    <3> QED
      BY <2>1, <3>1 DEF Waiting
  <2>2. CASE consumer # "lock"
    BY <1>2, <2>2 DEF Waiting
  <2> QED
    BY <2>1, <2>2
<1> QED
  BY <1>1, <1>4 DEF Execution!Fresh, Waiting, Refused


\* Appending to the queue appends to what waits.
LEMMA WaitingAppend ==
    ASSUME NEW q \in Seq(Txns), NEW h \in Txns, NEW t \in Txns
    PROVE  <<h>> \o Append(q, t) = Append(<<h>> \o q, t)
<1> DEFINE a == <<h>> \o Append(q, t)
           b == Append(<<h>> \o q, t)
<1>1. /\ a \in Seq(Txns) /\ b \in Seq(Txns) /\ Len(a) = Len(q) + 2 /\ Len(b) = Len(q) + 2
      /\ Len(q) \in Nat
  OBVIOUS
<1>2. ASSUME NEW i \in 1..(Len(q) + 2) PROVE a[i] = b[i]
  <2>1. CASE i = 1
    BY <2>1
  <2>2. CASE i \in 2..(Len(q) + 1)
    <3>1. i - 1 \in 1..Len(q)
      BY <1>1, <2>2
    <3>2. a[i] = q[i - 1] /\ b[i] = q[i - 1]
      BY <2>2, <3>1
    <3> QED
      BY <3>2
  <2>3. CASE i = Len(q) + 2
    BY <1>1, <2>3
  <2> QED
    BY <1>1, <2>1, <2>2, <2>3
<1> HIDE DEF a, b
<1>3. a = b
  BY <1>1, <1>2
<1> QED
  BY <1>3 DEF a, b

\* Taking the first transaction and putting it in front again changes nothing.
LEMMA HeadTail ==
    ASSUME NEW q \in Seq(Txns), q # <<>>
    PROVE  <<Head(q)>> \o Tail(q) = q
<1> DEFINE a == <<Head(q)>> \o Tail(q)
<1>1. a \in Seq(Txns) /\ Len(a) = Len(q) /\ Len(q) \in Nat
  OBVIOUS
<1>2. ASSUME NEW i \in 1..Len(q) PROVE a[i] = q[i]
  OBVIOUS
<1> HIDE DEF a
<1>3. a = q
  BY <1>1, <1>2
<1> QED
  BY <1>3 DEF a

\* The transaction that is taken is the first that waits, the others keep their order.
LEMMA WaitingFirst ==
    ASSUME NEW q \in Seq(Txns), NEW h \in Txns
    PROVE  /\ <<h>> \o q # <<>> /\ Head(<<h>> \o q) = h /\ Tail(<<h>> \o q) = q
<1> DEFINE a == <<h>> \o q
<1>1. /\ a \in Seq(Txns) /\ Len(a) = Len(q) + 1 /\ Len(q) \in Nat /\ a[1] = h
      /\ \A i \in 1..Len(q) : a[i + 1] = q[i]
  OBVIOUS
<1> HIDE DEF a
<1>2. a # <<>> /\ Head(a) = h
  BY <1>1
<1>3. Tail(a) \in Seq(Txns) /\ Len(Tail(a)) = Len(q) /\ \A i \in 1..Len(q) : Tail(a)[i] = q[i]
  BY <1>1, <1>2
<1>4. Tail(a) = q
  BY <1>3
<1> QED
  BY <1>2, <1>4 DEF a


\* Every step of the queue and its goroutines is a step of the executor or
\* changes nothing the executor knows of.
LEMMA StepSimulated ==
    ASSUME TypeInv, WgInv, OnceInv, LockInv, SeqInv, SentInv, [Next]_vars
    PROVE  [Execution!Next]_(Execution!vars)
<1>0. /\ queue \in Seq(Txns) /\ place \in [Txns -> Places]
      /\ consumer \in {"lock", "execute", "finish"} => cur \in Txns
      /\ resultChan \in [Commits -> Nat \cup {NoSeq}] /\ seq \in [Txns -> Nat \cup {NoSeq}]
  BY DEF TypeInv, TypeOK, RunInv, ConsumerType, ClientType
<1> USE <1>0
<1>1. CASE Accepts
  <2>1. PICK t : Undecided(t) /\ queue' = Append(queue, t) /\ place' = [place EXCEPT ![t] = "queued"]
    BY <1>1 DEF Accepts, Enqueue
  <2>2. t \in Txns /\ place[t] # "dropped"
    BY <2>1 DEF Undecided
  <2>3. UNCHANGED <<consumer, cur, txnSeqNumber, seq, resultChan>>
    BY <1>1 DEF Accepts, ConsumerIdle
  <2>4. Waiting' = Append(Waiting, t)
    BY <2>1, <2>2, <2>3, WaitingAppend DEF Waiting
  <2>5. Refused' = Refused
    BY <2>1, <2>2 DEF Refused
  <2>6. Running' = Running
    BY <2>3 DEF Running
  <2>7. Execution!Fresh(t)
    BY <2>1, UndecidedFresh
  <2>8. Execution!Accept(t)
    BY <2>3, <2>4, <2>5, <2>6, <2>7 DEF Execution!Accept, Waiting, Running, Refused
  <2> QED
    BY <2>2, <2>8 DEF Execution!Next
<1>2. CASE TurnsAway
  <2>1. PICK t : Undecided(t) /\ place' = [place EXCEPT ![t] = "dropped"]
    BY <1>2 DEF TurnsAway
  <2>2. t \in Txns
    BY <2>1 DEF Undecided
  <2>3. UNCHANGED <<queue, consumer, cur, txnSeqNumber, seq, resultChan>>
    BY <1>2 DEF TurnsAway, ConsumerIdle
  <2>4. Waiting' = Waiting /\ Running' = Running
    BY <2>3 DEF Waiting, Running
  <2>5. Refused' = Refused \cup {t}
    BY <2>1, <2>2 DEF Refused
  <2>6. Execution!Fresh(t)
    BY <2>1, UndecidedFresh
  <2>7. Execution!Refuse(t)
    BY <2>3, <2>4, <2>5, <2>6 DEF Execution!Refuse, Waiting, Running, Refused
  <2> QED
    BY <2>2, <2>7 DEF Execution!Next
<1>3. CASE Prepares
  <2>1. UNCHANGED <<queue, consumer, cur, txnSeqNumber, seq, resultChan>>
    BY <1>3 DEF Prepares, ConsumerIdle
  <2>2. \A t \in Txns : place'[t] = "dropped" <=> place[t] = "dropped"
    BY <1>3 DEF Prepares, Undecided
  <2>3. Waiting' = Waiting /\ Running' = Running /\ Refused' = Refused
    BY <2>1, <2>2 DEF Waiting, Running, Refused
  <2> QED
    BY <2>1, <2>3 DEF Execution!vars, Waiting, Running, Refused
<1>4. CASE Exits
  <2>1. Waiting' = Waiting /\ Running' = Running /\ Refused' = Refused
    BY <1>4 DEF Exits, Waiting, Running, Refused
  <2> QED
    BY <1>4, <2>1 DEF Exits, Execution!vars, Waiting, Running, Refused
<1>5. CASE Dequeue
  <2>1. Head(queue) \in Txns /\ place[Head(queue)] = "queued"
    BY <1>5, HeadQueued
  <2>2. /\ consumer = "dequeue" /\ consumer' = "lock" /\ queue # <<>>
        /\ cur' = Head(queue) /\ queue' = Tail(queue)
        /\ place' = [place EXCEPT ![Head(queue)] = "held"]
        /\ UNCHANGED <<txnSeqNumber, seq, resultChan>>
    BY <1>5 DEF Dequeue, clientVars
  <2>3. Waiting' = Waiting
    <3>1. <<cur'>> \o queue' = queue
      BY <2>2, HeadTail
    <3> QED
      BY <2>2, <3>1 DEF Waiting
  <2>4. Running' = Running /\ Refused' = Refused
    BY <2>1, <2>2 DEF Running, Refused
  <2> QED
    BY <2>2, <2>3, <2>4 DEF Execution!vars, Waiting, Running, Refused
<1>6. CASE StartTxn
  <2>1. cur \in Txns /\ place[cur] = "held"
    BY <1>6 DEF StartTxn, LockInv
  <2>2. /\ consumer = "lock" /\ consumer' = "execute"
        /\ place' = [place EXCEPT ![cur] = "running"]
        /\ seq' = [seq EXCEPT ![cur] = txnSeqNumber] /\ txnSeqNumber' = txnSeqNumber + 1
        /\ UNCHANGED <<queue, cur, resultChan>>
    BY <1>6 DEF StartTxn, clientVars
  <2>3. Waiting # <<>> /\ Head(Waiting) = cur /\ Waiting' = Tail(Waiting)
    BY <2>1, <2>2, WaitingFirst DEF Waiting
  <2>4. Running = NoTxn /\ Running' = cur /\ Refused' = Refused
    BY <2>1, <2>2 DEF Running, Refused
  <2>5. Execution!Execute
    BY <2>2, <2>3, <2>4 DEF Execution!Execute, Waiting, Running, Refused
  <2> QED
    BY <2>5 DEF Execution!Next
<1>7. CASE PostProcess
  <2>1. cur \in Txns /\ place[cur] = "running"
    BY <1>7 DEF PostProcess, LockInv
  <2>2. /\ consumer = "execute" /\ consumer' = "finish"
        /\ UNCHANGED <<queue, cur, txnSeqNumber, seq>>
        /\ resultChan' = [t \in Commits |->
                            IF t = cur /\ t[1] \notin NonBlocking THEN seq[t] ELSE resultChan[t]]
        /\ \A t \in Txns : place'[t] = "dropped" <=> place[t] = "dropped"
    BY <1>7, ConstantFacts DEF PostProcess, Spawn
  <2>3. Waiting' = Waiting /\ Running' = Running /\ Running = cur /\ Refused' = Refused
    BY <2>2 DEF Waiting, Running, Refused
  <2>4. CASE cur \in Commits /\ cur[1] \notin NonBlocking
    <3>1. resultChan[cur] = NoSeq
      BY <2>1, <2>2, <2>4 DEF SentInv
    <3>2. resultChan' = [resultChan EXCEPT ![cur] = seq[cur]]
      BY <2>2, <2>4
    <3>3. Execution!Report
      BY <2>2, <2>3, <2>4, <3>1, <3>2 DEF Execution!Report, Waiting, Running, Refused
    <3> QED
      BY <3>3 DEF Execution!Next
  <2>5. CASE ~(cur \in Commits /\ cur[1] \notin NonBlocking)
    <3>1. resultChan' = resultChan
      BY <2>2, <2>5
    <3> QED
      BY <2>2, <2>3, <3>1 DEF Execution!vars, Waiting, Running, Refused
  <2> QED
    BY <2>4, <2>5
<1>8. CASE FinishTxn
  <2>1. cur \in Txns /\ place[cur] = "running"
    BY <1>8 DEF FinishTxn, LockInv
  <2>2. /\ consumer = "finish" /\ consumer' = "dequeue"
        /\ place' = [place EXCEPT ![cur] = "processed"]
        /\ UNCHANGED <<queue, txnSeqNumber, seq, resultChan>>
    BY <1>8 DEF FinishTxn, clientVars
  <2>3. Waiting' = Waiting /\ Running = cur /\ Running' = NoTxn /\ Refused' = Refused
    BY <2>1, <2>2 DEF Waiting, Running, Refused
  <2>4. cur # NoTxn
    BY <2>1, ConstantFacts
  <2>5. Execution!Finish
    BY <2>2, <2>3, <2>4 DEF Execution!Finish, Waiting, Running, Refused
  <2> QED
    BY <2>5 DEF Execution!Next
<1> QED
  BY <1>1, <1>2, <1>3, <1>4, <1>5, <1>6, <1>7, <1>8, StepKinds

\* The queue with all its goroutines implements the in-order executor, for any
\* number of clients, notifications and retries and any capacity: accepted
\* transactions run one by one in the order of acceptance under consecutive
\* numbers, a refused one never runs, and a result is sent at most once, for its
\* own transaction (txn_queue.go, consumeTransactions, processTransaction).
THEOREM QueueIsExecutor == Spec => InOrderExecutor
<1>1. Init => Execution!Init /\ SentInv
  BY ConstantFacts DEF Init, Execution!Init, SentInv
<1>2. QueueInv /\ SentInv /\ [Next]_vars => SentInv'
  BY SentStep DEF QueueInv
<1>3. QueueInv /\ SentInv /\ [Next]_vars => [Execution!Next]_(Execution!vars)
  BY StepSimulated DEF QueueInv
<1> QED
  BY <1>1, <1>2, <1>3, QueueInvariant, PTL DEF Spec, InOrderExecutor, Execution!Spec

=============================================================================
