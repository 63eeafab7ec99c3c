------------------------------ MODULE TxnQueue ------------------------------
(***************************************************************************)
(* The transaction queue of the KVScheduler and every goroutine around it: *)
(*                                                                         *)
(*   - NB clients calling SchedulerTxn.Commit, blocking or not,            *)
(*   - SB plugins calling PushSBNotification,                              *)
(*   - the single consumer goroutine (consumeTransactions), which takes    *)
(*     the txnLock for the whole of processTransaction,                    *)
(*   - the goroutines that delay a retry (delayRetry) or wait for a        *)
(*     descriptor to be registered (waitForImpl),                          *)
(*   - observers that react to a change published by a running transaction *)
(*     and call TransactionBarrier,                                        *)
(*   - Close, which cancels the context and waits for the WaitGroup.       *)
(*                                                                         *)
(* What a transaction does to the graph is abstracted to what the queue    *)
(* can see of it: which retries it asks for.  KVExec models the rest.      *)
(* Time is abstracted away: a delay may elapse at any moment.              *)
(***************************************************************************)
EXTENDS Integers, Sequences, FiniteSets

CONSTANTS Clients,      \* NB clients
          NonBlocking,  \* the clients that commit with WithoutBlocking
          MaxCommits,   \* bound: how many transactions one client commits
          Notifs,       \* SB notifications pushed, each one once
          Retries,      \* bound: retry / impl-wait goroutine generations
          QueueCap,     \* txnQueueCapacity
          MaxCount      \* RetryOpt.MaxCount

Commits == Clients \X (1..MaxCommits)

\* Identities of everything that may travel through the queue.
Txns == Commits \cup Notifs \cup Retries

NoTxn == <<>>
NoSeq == -1

ASSUME QueueAssumption ==
    /\ NonBlocking \subseteq Clients
    /\ MaxCommits \in Nat
    /\ QueueCap \in Nat \ {0}
    /\ MaxCount \in Nat
    /\ Commits \cap Notifs = {} /\ Commits \cap Retries = {} /\ Notifs \cap Retries = {}
    /\ NoTxn \notin Txns /\ "consumer" \notin Retries
    /\ IsFiniteSet(Retries)

VARIABLES
    queue,        \* s.txnQueue
    cancelled,    \* s.ctx is done
    closer,       \* progress of Close
    consumer,     \* control state of consumeTransactions
    cur,          \* the transaction the consumer holds
    txnSeqNumber, \* s.txnSeqNumber
    place,        \* where each transaction is
    seq,          \* transaction.seqNum once allocated
    pc,           \* control state of each client
    n,            \* number of the client's current commit
    resultChan,   \* content of each commit's resultChan
    ret,          \* what each Commit returned
    retry,        \* kind and arguments of each retry goroutine
    registered,   \* the missing descriptor has been registered
    observed,     \* change notification an observer is reacting to
    wg            \* members of s.wg: goroutines counted by the WaitGroup

clientVars == <<pc, n, resultChan, ret>>
vars == <<queue, cancelled, closer, consumer, cur, txnSeqNumber, place, seq,
          clientVars, retry, registered, observed, wg>>

Places == {"none", "pushing", "spawned", "waiting", "queued", "held",
           "running", "processed", "dropped"}

RetryArgs == [kind: {"retry", "impl"}, txnSeqNum: Nat, attempt: Nat]

ConsumerType ==
    /\ consumer \in {"dequeue", "lock", "execute", "finish", "exited"}
    /\ cur \in Txns \cup {NoTxn}
    /\ txnSeqNumber \in Nat
    /\ seq \in [Txns -> Nat \cup {NoSeq}]

ClientType ==
    /\ pc \in [Clients -> {"idle", "enqueue", "wait"}]
    /\ n \in [Clients -> 0..MaxCommits]
    /\ resultChan \in [Commits -> Nat \cup {NoSeq}]
    /\ ret \in [Commits -> {"none", "nil", "result", "closed", "full", "canceled"}]

CloseType ==
    /\ cancelled \in BOOLEAN
    /\ closer \in {"open", "waiting", "closed"}
    /\ registered \in BOOLEAN
    /\ observed \in [txn: Txns \cup {NoTxn}, passed: BOOLEAN]
    /\ wg \in SUBSET ({"consumer"} \cup Retries)

TypeOK ==
    /\ queue \in Seq(Txns)
    /\ place \in [Txns -> Places]
    /\ retry \in [Retries -> RetryArgs]
    /\ ConsumerType
    /\ ClientType
    /\ CloseType

Init ==
    /\ queue = <<>> /\ cancelled = FALSE /\ closer = "open"
    /\ consumer = "dequeue" /\ cur = NoTxn /\ txnSeqNumber = 0
    /\ place = [t \in Txns |-> "none"]
    /\ seq = [t \in Txns |-> NoSeq]
    /\ pc = [c \in Clients |-> "idle"] /\ n = [c \in Clients |-> 0]
    /\ resultChan = [t \in Commits |-> NoSeq]
    /\ ret = [t \in Commits |-> "none"]
    /\ retry = [r \in Retries |-> [kind |-> "retry", txnSeqNum |-> 0, attempt |-> 1]]
    /\ registered = FALSE
    /\ observed = [txn |-> NoTxn, passed |-> FALSE]
    /\ wg = {"consumer"}

-----------------------------------------------------------------------------
(***************************************************************************)
(* enqueueTxn.  The three ready cases of its select; when the context is   *)
(* done AND the channel has room, Go picks either.                         *)
(***************************************************************************)
HasRoom == Len(queue) < QueueCap

\* Mutant: the newest transaction overtakes the queued ones.
BugEnqueue(t) ==
    /\ HasRoom
    /\ queue' = <<t>> \o queue
    /\ place' = [place EXCEPT ![t] = "queued"]

Enqueue(t) ==
    /\ HasRoom
    /\ queue' = Append(queue, t)
    /\ place' = [place EXCEPT ![t] = "queued"]

\* default branch: only when neither of the other cases is ready
QueueFull == ~cancelled /\ ~HasRoom

-----------------------------------------------------------------------------
(* NB clients: SchedulerTxn.Commit *)

commit(c) == <<c, n[c]>>

CommitStart(c) ==
    /\ pc[c] = "idle" /\ n[c] < MaxCommits
    /\ pc' = [pc EXCEPT ![c] = "enqueue"]
    /\ n' = [n EXCEPT ![c] = @ + 1]
    /\ place' = [place EXCEPT ![<<c, n[c] + 1>>] = "pushing"]
    /\ UNCHANGED <<queue, cancelled, closer, consumer, cur, txnSeqNumber, seq,
                   resultChan, ret, retry, registered, observed, wg>>

CommitEnqueue(c) ==
    /\ pc[c] = "enqueue"
    /\ Enqueue(commit(c))
    /\ IF c \in NonBlocking
       THEN /\ pc' = [pc EXCEPT ![c] = "idle"]
            /\ ret' = [ret EXCEPT ![commit(c)] = "nil"]
       ELSE /\ pc' = [pc EXCEPT ![c] = "wait"]
            /\ UNCHANGED ret
    /\ UNCHANGED <<cancelled, closer, consumer, cur, txnSeqNumber, seq, n,
                   resultChan, retry, registered, observed, wg>>

\* Commit returns with an error or with the result; the transaction itself is
\* where it is.
CommitReturn(c, value) ==
    /\ pc' = [pc EXCEPT ![c] = "idle"]
    /\ ret' = [ret EXCEPT ![commit(c)] = value]
    /\ UNCHANGED <<queue, cancelled, closer, consumer, cur, txnSeqNumber, seq, n,
                   resultChan, retry, registered, observed, wg>>

CommitRefused(c) ==
    /\ pc[c] = "enqueue"
    /\ \/ cancelled /\ CommitReturn(c, "closed")
       \/ c \in NonBlocking /\ QueueFull /\ CommitReturn(c, "full")
    /\ place' = [place EXCEPT ![commit(c)] = "dropped"]

CommitResult(c) ==
    /\ pc[c] = "wait" /\ resultChan[commit(c)] # NoSeq
    /\ CommitReturn(c, "result")
    /\ UNCHANGED place

\* Mutant: Commit waits without watching the scheduler's context.
BugCommitClosed(c) == FALSE /\ UNCHANGED vars

\* the scheduler's context ends the wait
CommitClosed(c) ==
    /\ pc[c] = "wait" /\ cancelled
    /\ CommitReturn(c, "closed")
    /\ UNCHANGED place

\* the caller's own context ends the wait; the transaction stays queued
CommitCanceled(c) ==
    /\ pc[c] = "wait"
    /\ CommitReturn(c, "canceled")
    /\ UNCHANGED place

-----------------------------------------------------------------------------
(* SB plugins: PushSBNotification, never blocking *)

PushSBNotification(x) ==
    /\ place[x] = "none"
    /\ \/ Enqueue(x)
       \/ /\ cancelled \/ QueueFull
          /\ place' = [place EXCEPT ![x] = "dropped"]
          /\ UNCHANGED queue
    /\ UNCHANGED <<cancelled, closer, consumer, cur, txnSeqNumber, seq,
                   clientVars, retry, registered, observed, wg>>

-----------------------------------------------------------------------------
(* The consumer goroutine *)

Dequeue ==
    /\ consumer = "dequeue" /\ queue # <<>>
    /\ cur' = Head(queue)
    /\ queue' = Tail(queue)
    /\ place' = [place EXCEPT ![Head(queue)] = "held"]
    /\ consumer' = "lock"
    /\ UNCHANGED <<cancelled, closer, txnSeqNumber, seq, clientVars, retry,
                   registered, observed, wg>>

ConsumerExit ==
    /\ consumer = "dequeue" /\ cancelled
    /\ consumer' = "exited"
    /\ wg' = wg \ {"consumer"}
    /\ UNCHANGED <<queue, cancelled, closer, cur, txnSeqNumber, place, seq,
                   clientVars, retry, registered, observed>>

\* Mutant: the sequence number is read and not incremented.
BugStartTxn ==
    /\ consumer = "lock"
    /\ consumer' = "execute"
    /\ place' = [place EXCEPT ![cur] = "running"]
    /\ seq' = [seq EXCEPT ![cur] = txnSeqNumber]
    /\ UNCHANGED <<queue, cancelled, closer, cur, txnSeqNumber, clientVars, retry,
                   registered, observed, wg>>

\* txnLock.Lock, then preProcessTransaction allocates the sequence number
StartTxn ==
    /\ consumer = "lock"
    /\ consumer' = "execute"
    /\ place' = [place EXCEPT ![cur] = "running"]
    /\ seq' = [seq EXCEPT ![cur] = txnSeqNumber]
    /\ txnSeqNumber' = txnSeqNumber + 1
    /\ UNCHANGED <<queue, cancelled, closer, cur, clientVars, retry,
                   registered, observed, wg>>

\* go s.delayRetry / go s.waitForImpl; the goroutine has not run yet, hence is
\* not counted by the WaitGroup
Spawn(R, args) ==
    /\ place' = [t \in Txns |-> IF t \in R THEN "spawned" ELSE place[t]]
    /\ retry' = [r \in Retries |-> IF r \in R THEN args[r] ELSE retry[r]]

\* Mutant: one attempt too many.
BugRetryAllowed(attempt) == MaxCount = 0 \/ attempt <= MaxCount + 1

\* markFailedValue: MaxCount = 0 means no limit
RetryAllowed(attempt) == MaxCount = 0 \/ attempt <= MaxCount

\* The retries a transaction may ask for: of values that failed in it for the
\* first time (attempt 1), of the values it was itself retrying (next
\* attempt), and the wait for a missing descriptor (not after RetryUnimplOps).
NextRetryArgs ==
    {[kind |-> "retry", txnSeqNum |-> seq[cur], attempt |-> 1]}
    \cup {[kind |-> "retry", txnSeqNum |-> retry[r].txnSeqNum, attempt |-> retry[r].attempt + 1] :
            r \in {r \in Retries : r = cur /\ retry[r].kind = "retry"
                                   /\ RetryAllowed(retry[r].attempt + 1)}}
    \cup {[kind |-> "impl", txnSeqNum |-> seq[cur], attempt |-> 1] :
            t \in {t \in {cur} : ~(t \in Retries /\ retry[t].kind = "impl")}}

\* Mutant: the result carries the number the next transaction will get.
BugPostProcess ==
    /\ consumer = "execute"
    /\ consumer' = "finish"
    /\ resultChan' = [t \in Commits |->
                        IF t = cur /\ t[1] \notin NonBlocking THEN txnSeqNumber ELSE resultChan[t]]
    /\ UNCHANGED <<queue, cancelled, closer, cur, txnSeqNumber, place, seq, pc, n,
                   ret, retry, registered, observed, wg>>

\* execution done; postProcessTransaction schedules the retries and sends the
\* result to the caller of a blocking Commit
PostProcess ==
    /\ consumer = "execute"
    /\ consumer' = "finish"
    /\ \E R \in SUBSET {r \in Retries : place[r] = "none"} :
         \E args \in [R -> NextRetryArgs] :
            /\ \A r1, r2 \in R : args[r1] = args[r2] => r1 = r2
            /\ Spawn(R, args)
    /\ resultChan' = [t \in Commits |->
                        IF t = cur /\ t[1] \notin NonBlocking THEN seq[t] ELSE resultChan[t]]
    /\ UNCHANGED <<queue, cancelled, closer, cur, txnSeqNumber, seq, pc, n, ret,
                   registered, observed, wg>>

\* removed values leave the graph, txnLock.Unlock
FinishTxn ==
    /\ consumer = "finish"
    /\ consumer' = "dequeue"
    /\ place' = [place EXCEPT ![cur] = "processed"]
    /\ cur' = NoTxn
    /\ UNCHANGED <<queue, cancelled, closer, txnSeqNumber, seq, clientVars,
                   retry, registered, observed, wg>>

-----------------------------------------------------------------------------
(* Goroutines of enqueueRetry and enqueueImpl *)

\* the goroutine is scheduled and runs wg.Add(1)
RetryStart(r) ==
    /\ place[r] = "spawned"
    /\ place' = [place EXCEPT ![r] = "waiting"]
    /\ wg' = wg \cup {r}
    /\ UNCHANGED <<queue, cancelled, closer, consumer, cur, txnSeqNumber, seq,
                   clientVars, retry, registered, observed>>

\* delay elapsed (retry), or the descriptor was registered (impl)
RetryDue(r) == place[r] = "waiting" /\ (retry[r].kind = "impl" => registered)

RetryEnqueue(r) ==
    /\ RetryDue(r)
    /\ Enqueue(r)
    /\ wg' = wg \ {r}
    /\ UNCHANGED <<cancelled, closer, consumer, cur, txnSeqNumber, seq,
                   clientVars, retry, registered, observed>>

\* Mutant: a retry that finds the queue full is only logged.
BugRetryAgain(r) ==
    /\ RetryDue(r) /\ (cancelled \/ QueueFull)
    /\ place' = [place EXCEPT ![r] = "dropped"]
    /\ wg' = wg \ {r}
    /\ UNCHANGED <<queue, cancelled, closer, consumer, cur, txnSeqNumber, seq,
                   clientVars, retry, registered, observed>>

\* enqueueTxn failed: another delayed retry is spawned; a wait for a descriptor
\* becomes a retry of a failed operation
RetryAgain(r) ==
    /\ RetryDue(r) /\ (cancelled \/ QueueFull)
    /\ place' = [place EXCEPT ![r] = "spawned"]
    /\ retry' = [retry EXCEPT ![r] = IF @.kind = "impl"
                                     THEN [@ EXCEPT !.kind = "retry", !.attempt = 1] ELSE @]
    /\ wg' = wg \ {r}
    /\ UNCHANGED <<queue, cancelled, closer, consumer, cur, txnSeqNumber, seq,
                   clientVars, registered, observed>>

\* Mutant: the goroutine waits without watching the scheduler's context.
BugRetryCancel(r) == FALSE /\ UNCHANGED vars

RetryCancel(r) ==
    /\ place[r] = "waiting" /\ cancelled
    /\ place' = [place EXCEPT ![r] = "dropped"]
    /\ wg' = wg \ {r}
    /\ UNCHANGED <<queue, cancelled, closer, consumer, cur, txnSeqNumber, seq,
                   clientVars, retry, registered, observed>>

\* registerKVDescriptor wakes every goroutine waiting for the key prefix
RegisterDescriptor ==
    /\ ~registered
    /\ registered' = TRUE
    /\ UNCHANGED <<queue, cancelled, closer, consumer, cur, txnSeqNumber, place,
                   seq, clientVars, retry, observed, wg>>

-----------------------------------------------------------------------------
(* Observers and Close *)

\* a metadata or status update published by the running transaction reaches an
\* observer, which will call TransactionBarrier before acting on it
Observe ==
    /\ consumer \in {"execute", "finish"}
    /\ observed' = [txn |-> cur, passed |-> FALSE]
    /\ UNCHANGED <<queue, cancelled, closer, consumer, cur, txnSeqNumber, place,
                   seq, clientVars, retry, registered, wg>>

\* Mutant: the lock is released before the transaction is finalized.
BugTxnLockFree == consumer # "execute"

\* the txnLock is held by the consumer from StartTxn to FinishTxn
txnLockFree == consumer \notin {"execute", "finish"}

TransactionBarrier ==
    /\ observed.txn # NoTxn /\ ~observed.passed
    /\ txnLockFree
    /\ observed' = [observed EXCEPT !.passed = TRUE]
    /\ UNCHANGED <<queue, cancelled, closer, consumer, cur, txnSeqNumber, place,
                   seq, clientVars, retry, registered, wg>>

CloseCancel ==
    /\ closer = "open"
    /\ cancelled' = TRUE
    /\ closer' = "waiting"
    /\ UNCHANGED <<queue, consumer, cur, txnSeqNumber, place, seq, clientVars,
                   retry, registered, observed, wg>>

\* Mutant: Close does not wait for the goroutines.
BugCloseReturn ==
    /\ closer = "waiting"
    /\ closer' = "closed"
    /\ UNCHANGED <<queue, cancelled, consumer, cur, txnSeqNumber, place, seq,
                   clientVars, retry, registered, observed, wg>>

CloseReturn ==
    /\ closer = "waiting" /\ wg = {}
    /\ closer' = "closed"
    /\ UNCHANGED <<queue, cancelled, consumer, cur, txnSeqNumber, place, seq,
                   clientVars, retry, registered, observed, wg>>

-----------------------------------------------------------------------------
ClientStep(c) == CommitStart(c) \/ CommitEnqueue(c) \/ CommitRefused(c)
                 \/ CommitResult(c) \/ CommitClosed(c) \/ CommitCanceled(c)
ConsumerStep == Dequeue \/ ConsumerExit \/ StartTxn \/ PostProcess \/ FinishTxn
RetryStep(r) == RetryStart(r) \/ RetryEnqueue(r) \/ RetryAgain(r) \/ RetryCancel(r)

\* everything is settled: the process is about to exit
Quiescent ==
    /\ closer = "closed" /\ cur = NoTxn
    /\ \A c \in Clients : pc[c] = "idle" /\ n[c] = MaxCommits
    /\ \A r \in Retries : place[r] \notin {"spawned", "waiting"}
    /\ UNCHANGED vars

Next ==
    \/ \E c \in Clients : ClientStep(c)
    \/ \E x \in Notifs : PushSBNotification(x)
    \/ ConsumerStep
    \/ \E r \in Retries : RetryStep(r)
    \/ RegisterDescriptor
    \/ Observe
    \/ TransactionBarrier
    \/ CloseCancel
    \/ CloseReturn
    \/ Quiescent

Spec == Init /\ [][Next]_vars

(***************************************************************************)
(* Fairness: a runnable goroutine is eventually scheduled by the Go        *)
(* runtime, timers fire and handlers return.  Whether clients commit, a    *)
(* context is cancelled, a descriptor is registered or Close is called is  *)
(* up to the environment.  RetryCancel is strongly fair: select chooses at *)
(* random between a cancelled context and an elapsed timer.                *)
(***************************************************************************)
Fairness ==
    /\ WF_vars(Dequeue) /\ WF_vars(StartTxn) /\ WF_vars(PostProcess)
    /\ WF_vars(FinishTxn) /\ WF_vars(ConsumerExit)
    /\ \A c \in Clients : WF_vars(CommitEnqueue(c)) /\ WF_vars(CommitRefused(c))
                          /\ WF_vars(CommitResult(c)) /\ WF_vars(CommitClosed(c))
    /\ \A r \in Retries : WF_vars(RetryStart(r)) /\ WF_vars(RetryEnqueue(r))
                          /\ SF_vars(RetryCancel(r))
    /\ WF_vars(CloseReturn)

FairSpec == Spec /\ Fairness

-----------------------------------------------------------------------------
(* Properties *)

\* The executor the clients see: a transaction waits until the consumer has the
\* txnLock (StartTxn), also while the consumer already holds it.
Execution == INSTANCE Executor WITH
    Callers <- Commits,
    waiting <- IF consumer = "lock" THEN <<cur>> \o queue ELSE queue,
    running <- IF consumer \in {"execute", "finish"} THEN cur ELSE NoTxn,
    next    <- txnSeqNumber,
    number  <- seq,
    result  <- resultChan,
    refused <- {t \in Txns : place[t] = "dropped"}

\* The queue, its clients, retries and consumer together implement the in-order
\* executor: whatever the interleaving, accepted transactions run one by one in
\* the order of acceptance under consecutive numbers, a refused one never runs,
\* and a result is sent once, for its own transaction (txn_queue.go,
\* txn_process.go, consumeTransactions and processTransaction).
InOrderExecutor == Execution!Spec

\* A Commit that reports the queue full, or that the scheduler was closed
\* before the transaction was queued, is never executed; one that returned a
\* result reports the sequence number of its own, executed transaction
\* (plugin_scheduler.go, Commit).
CommitTruthful ==
    \A t \in Commits :
        /\ ret[t] = "full" => seq[t] = NoSeq /\ place[t] = "dropped"
        /\ place[t] = "dropped" => seq[t] = NoSeq /\ ret[t] \in {"full", "closed"}
        /\ ret[t] = "result" => resultChan[t] = seq[t] /\ seq[t] # NoSeq

\* Transactions of one client run in the order it committed them, and no two
\* transactions share a sequence number (txn_process.go, preProcessTransaction).
CommitOrder ==
    /\ \A t1, t2 \in Txns : seq[t1] # NoSeq /\ seq[t1] = seq[t2] => t1 = t2
    /\ \A c \in Clients : \A i, j \in 1..MaxCommits :
          (i < j /\ seq[<<c, j>>] # NoSeq) =>
             \/ seq[<<c, i>>] # NoSeq /\ seq[<<c, i>>] < seq[<<c, j>>]
             \/ place[<<c, i>>] = "dropped"

\* A scheduled retry survives a full queue: as long as the scheduler is not
\* being closed it is not abandoned, and its attempt number stays within
\* MaxCount (delayRetry, scheduleRetries).
RetryKept ==
    \A r \in Retries :
        /\ place[r] = "dropped" => cancelled
        /\ MaxCount # 0 => retry[r].attempt <= MaxCount

\* After TransactionBarrier returns, the transaction whose notification the
\* caller was reacting to is finalized (plugin_scheduler.go:318).
BarrierFinalizes ==
    observed.passed => place[observed.txn] = "processed"

\* Once Close returned no transaction is executing and none will be
\* (plugin_scheduler.go, Close).
ClosedNotExecuting ==
    closer = "closed" => consumer = "exited" /\ cur = NoTxn

\* "Close stops all the go routines." (plugin_scheduler.go:230)
CloseStopsGoroutines ==
    closer = "closed" => \A r \in Retries : place[r] \notin {"spawned", "waiting"}

\* Every Commit call returns (plugin_scheduler.go, Commit).
CommitReturns == \A c \in Clients : (pc[c] # "idle") ~> (pc[c] = "idle")

\* Every scheduled retry is executed, unless it waits for a descriptor nobody
\* registers or the scheduler is closed (txn_queue.go, delayRetry).
RetryRuns ==
    \A r \in Retries :
        (place[r] = "spawned") ~>
            (place[r] = "processed" \/ cancelled \/ (retry[r].kind = "impl" /\ ~registered))

\* Close returns (plugin_scheduler.go, Close).
CloseTerminates == (closer = "waiting") ~> (closer = "closed")
=============================================================================
