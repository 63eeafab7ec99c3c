------------------------- MODULE KVSchedulerProofs -------------------------
(***************************************************************************)
(* Proofs about KVScheduler: types, the bound on retries, and that states  *)
(* agree with availability and errors.                                     *)
(***************************************************************************)
EXTENDS KVScheduler, OrderLemmas

-----------------------------------------------------------------------------
(* Folds: InKeyOrder as an induction over the keys *)

FiniteNats(K) == K \subseteq Nat /\ IsFiniteSet(K)

\* f gives the outcome of the fold for every subset of K
IsFold(f, step, K, r) ==
    f = [L \in SUBSET K |-> IF L = {} THEN r ELSE step[Max(L)][f[L \ {Max(L)}]]]

LEMMA MaxOf ==
    ASSUME NEW L, FiniteNats(L), L # {}
    PROVE  Max(L) \in L /\ \A k \in L : k <= Max(L)
<1> DEFINE U == {P \in SUBSET L : P # {} /\ \A x \in P, y \in L \ P : y < x}
<1>1. U # {} /\ U \in SUBSET SUBSET L /\ IsFiniteSet(L)
  <2>1. L \in U
    OBVIOUS
  <2> QED
    BY <2>1 DEF FiniteNats
<1>2. PICK X \in U : \A Y \in U : Y \subseteq X => Y = X
  <2> HIDE DEF U
  <2> QED
    BY <1>1, MinimalSubset
<1>3. X \in SUBSET L /\ X # {} /\ \A x \in X, y \in L \ X : y < x
  OBVIOUS
<1>4. PICK n \in X : \A m \in X : n <= m
  <2>1. X \in SUBSET Nat
    BY <1>3 DEF FiniteNats
  <2> QED
    BY <1>3, <2>1, Least
<1>5. X = {n}
  <2> DEFINE Y == X \ {n}
  <2>1. ASSUME Y # {} PROVE FALSE
    <3>1. \A x \in Y, y \in L \ Y : y < x
      <4> TAKE x \in Y, y \in L \ Y
      <4>1. CASE y \in L \ X
        BY <1>3, <4>1
      <4>2. CASE y = n
        BY <1>3, <1>4, <4>2 DEF FiniteNats
      <4> QED
        BY <4>1, <4>2
    <3>2. Y \in U
      BY <1>3, <2>1, <3>1
    <3> QED
      BY <1>2, <3>2
  <2> QED
    BY <1>3, <2>1
<1>6. n \in L /\ \A k \in L : n >= k
  BY <1>3, <1>5 DEF FiniteNats
<1> DEFINE m == CHOOSE x \in L : \A y \in L : x >= y
<1>7. m \in L /\ \A y \in L : m >= y
  BY <1>6
<1> QED
  BY <1>7 DEF Max

LEMMA FiniteNatsSubset ==
    ASSUME NEW K, FiniteNats(K), NEW L \in SUBSET K
    PROVE  FiniteNats(L)
BY FS_Subset DEF FiniteNats

LEMMA FoldUnique ==
    ASSUME NEW K, FiniteNats(K), NEW step, NEW r, NEW f, NEW g,
           NEW M \in SUBSET K, NEW N \in SUBSET K, IsFold(f, step, M, r), IsFold(g, step, N, r)
    PROVE  \A P \in SUBSET (M \cap N) : f[P] = g[P]
<1> DEFINE T == {P \in SUBSET (M \cap N) : f[P] # g[P]}
<1> SUFFICES ASSUME T # {} PROVE FALSE
  OBVIOUS
<1>1. T \in SUBSET SUBSET K /\ IsFiniteSet(K)
  BY DEF FiniteNats
<1>2. PICK P \in T : \A Q \in T : Q \subseteq P => Q = P
  <2> HIDE DEF T
  <2> QED
    BY <1>1, MinimalSubset
<1>3. P \in SUBSET M /\ P \in SUBSET N /\ f[P] # g[P]
  OBVIOUS
<1>4. P # {}
  BY <1>3 DEF IsFold
<1>5. Max(P) \in P
  BY <1>3, <1>4, MaxOf, FiniteNatsSubset
<1>6. f[P \ {Max(P)}] = g[P \ {Max(P)}]
  <2>1. P \ {Max(P)} \in SUBSET (M \cap N) /\ P \ {Max(P)} # P
    BY <1>3, <1>5
  <2> QED
    BY <1>2, <2>1
<1>7. f[P] = step[Max(P)][f[P \ {Max(P)}]] /\ g[P] = step[Max(P)][g[P \ {Max(P)}]]
  BY <1>3, <1>4 DEF IsFold
<1> QED
  BY <1>3, <1>6, <1>7

LEMMA FoldExists ==
    ASSUME NEW K, FiniteNats(K), NEW step, NEW r
    PROVE  \E f : IsFold(f, step, K, r)
<1> DEFINE T == {M \in SUBSET K : ~\E f : IsFold(f, step, M, r)}
<1> SUFFICES ASSUME T # {} PROVE FALSE
  OBVIOUS
<1>1. T \in SUBSET SUBSET K /\ IsFiniteSet(K)
  BY DEF FiniteNats
<1>2. PICK M \in T : \A Q \in T : Q \subseteq M => Q = M
  <2> HIDE DEF T
  <2> QED
    BY <1>1, MinimalSubset
<1>3. M \in SUBSET K /\ ~\E f : IsFold(f, step, M, r)
  OBVIOUS
<1>4. \A L \in SUBSET M : L # M => \E f : IsFold(f, step, L, r)
  BY <1>2, <1>3
<1> HIDE DEF T
<1> DEFINE fold(L) == CHOOSE f : IsFold(f, step, L, r)
           value(L) == fold(L)[L]
           h == [L \in SUBSET M |->
                    IF L = {} THEN r ELSE step[Max(L)][value(L \ {Max(L)})]]
<1>5. \A L \in SUBSET M : L # M => IsFold(fold(L), step, L, r)
  BY <1>4
<1> HIDE DEF fold
<1>6. \A L \in SUBSET M : L # {} => Max(L) \in L
  BY <1>3, MaxOf, FiniteNatsSubset
<1>7. \A L \in SUBSET M : L # M => value(L) = h[L]
  <2> SUFFICES ASSUME NEW L \in SUBSET M, L # M PROVE value(L) = h[L]
    OBVIOUS
  <2>1. value(L) = IF L = {} THEN r ELSE step[Max(L)][fold(L)[L \ {Max(L)}]]
    BY <1>5 DEF IsFold
  <2>2. CASE L = {}
    BY <2>1, <2>2
  <2>3. CASE L # {}
    <3> DEFINE N == L \ {Max(L)}
    <3>1. N \in SUBSET L /\ N \in SUBSET M /\ N # M /\ N \in SUBSET (L \cap N)
      BY <1>6, <2>3
    <3>2. IsFold(fold(N), step, N, r) /\ IsFold(fold(L), step, L, r)
      BY <1>5, <3>1
    <3>3. L \in SUBSET K /\ N \in SUBSET K
      BY <1>3
    <3> HIDE DEF N
    <3>4. fold(L)[N] = fold(N)[N]
      BY <3>1, <3>2, <3>3, FoldUnique
    <3> QED
      BY <2>1, <2>3, <3>4 DEF N
  <2> QED
    BY <2>2, <2>3
<1>8. \A L \in SUBSET M : L # {} => value(L \ {Max(L)}) = h[L \ {Max(L)}]
  <2> SUFFICES ASSUME NEW L \in SUBSET M, L # {} PROVE value(L \ {Max(L)}) = h[L \ {Max(L)}]
    OBVIOUS
  <2>1. L \ {Max(L)} \in SUBSET M /\ L \ {Max(L)} # M
    BY <1>6
  <2> QED
    BY <1>7, <2>1
<1>9. h = [L \in SUBSET M |-> IF L = {} THEN r ELSE step[Max(L)][h[L \ {Max(L)}]]]
  <2> HIDE DEF value
  <2>1. \A L \in SUBSET M : h[L] = IF L = {} THEN r ELSE step[Max(L)][h[L \ {Max(L)}]]
    BY <1>8
  <2>2. h = [L \in SUBSET M |-> h[L]]
    OBVIOUS
  <2> HIDE DEF h
  <2> QED
    BY <2>1, <2>2
<1>10. IsFold(h, step, M, r)
  <2> HIDE DEF h
  <2> QED
    BY <1>9 DEF IsFold
<1> QED
  BY <1>3, <1>10

LEMMA FoldRule ==
    ASSUME NEW K, FiniteNats(K), NEW step, NEW r
    PROVE  \E f : IsFold(f, step, K, r) /\ InKeyOrder(step, K, r) = f[K]
<1> DEFINE f == CHOOSE f : IsFold(f, step, K, r)
<1>1. IsFold(f, step, K, r)
  BY FoldExists
<1>2. InKeyOrder(step, K, r) = f[K]
  BY DEF InKeyOrder, MapThenFoldSet, IsFold
<1> QED
  BY <1>1, <1>2

\* Induction over the keys: what holds of r for no key, and goes from the keys
\* below k to those up to k, holds of the outcome for all keys.
LEMMA FoldUpTo ==
    ASSUME NEW K, FiniteNats(K), NEW step, NEW r, NEW I, r \in I[{}],
           \A k \in K, L \in SUBSET K : \A q \in I[L] :
               (\A j \in L : j < k) => step[k][q] \in I[L \cup {k}]
    PROVE  InKeyOrder(step, K, r) \in I[K]
<1>1. PICK f : IsFold(f, step, K, r) /\ InKeyOrder(step, K, r) = f[K]
  BY FoldRule
<1> DEFINE T == {L \in SUBSET K : f[L] \notin I[L]}
<1> SUFFICES ASSUME T # {} PROVE FALSE
  BY <1>1
<1>2. T \in SUBSET SUBSET K /\ IsFiniteSet(K)
  BY DEF FiniteNats
<1>3. PICK L \in T : \A Q \in T : Q \subseteq L => Q = L
  <2> HIDE DEF T
  <2> QED
    BY <1>2, MinimalSubset
<1>4. L \in SUBSET K /\ f[L] \notin I[L]
  OBVIOUS
<1>5. L # {}
  BY <1>1, <1>4 DEF IsFold
<1>6. Max(L) \in L /\ \A k \in L : k <= Max(L)
  BY <1>4, <1>5, MaxOf, FiniteNatsSubset
<1>7. f[L] = step[Max(L)][f[L \ {Max(L)}]]
  BY <1>1, <1>4, <1>5 DEF IsFold
<1> DEFINE N == L \ {Max(L)}
<1>8. N \in SUBSET K /\ N # L /\ N \subseteq L /\ Max(L) \in K /\ N \cup {Max(L)} = L
  BY <1>4, <1>6
<1>9. \A j \in N : j < Max(L)
  <2>1. \A j \in N : j \in Nat /\ Max(L) \in Nat /\ j # Max(L) /\ j <= Max(L)
    BY <1>4, <1>6, <1>8 DEF FiniteNats
  <2> HIDE DEF N
  <2> QED
    BY <2>1
<1>10. f[N] \in I[N]
  BY <1>3, <1>8
<1>11. step[Max(L)][f[N]] \in I[N \cup {Max(L)}]
  <2> HIDE DEF N
  <2> QED
    BY <1>8, <1>9, <1>10
<1> QED
  BY <1>4, <1>7, <1>8, <1>11

\* What every step keeps holds of the outcome.
LEMMA FoldKeeps ==
    ASSUME NEW K, FiniteNats(K), NEW step, NEW r, NEW P, r \in P,
           \A k \in K : \A q \in P : step[k][q] \in P
    PROVE  InKeyOrder(step, K, r) \in P
<1> DEFINE I == [L \in SUBSET K |-> P]
<1>1. r \in I[{}]
  OBVIOUS
<1>2. \A k \in K, L \in SUBSET K : \A q \in I[L] :
         (\A j \in L : j < k) => step[k][q] \in I[L \cup {k}]
  OBVIOUS
<1>3. I[K] = P
  OBVIOUS
<1> HIDE DEF I
<1> QED
  BY <1>1, <1>2, <1>3, FoldUpTo

-----------------------------------------------------------------------------
(* Constants *)

baseOf(k) == IF k \in BaseKeys THEN k ELSE Owner(k)
OptValues(k) == ValuesOf(k) \cup {Nil}

LEMMA KeySubset ==
    ASSUME NEW K \in SUBSET Keys
    PROVE  FiniteNats(K)
BY ExecAssumption, FiniteNatsSubset DEF FiniteNats

LEMMA KeyCount == Cardinality(Keys) \in Nat
BY ExecAssumption, FS_CardinalityType

\* A key has one kind, and a derived key a base key of its own.
LEMMA KeyKinds ==
    ASSUME NEW k \in Keys
    PROVE  /\ baseOf(k) \in BaseKeys /\ baseOf(k) \in Keys
           /\ k \in DerivedKeys <=> k \notin BaseKeys
           /\ k \in DerivedKeys <=> baseOf(k) # k
           /\ \A d \in DerivedOf(k) : d \in DerivedKeys /\ d \in Keys /\ baseOf(d) = k /\ k \in BaseKeys
BY ExecAssumption DEF Keys, baseOf, DerivedOf

LEMMA ValueType ==
    ASSUME NEW k \in Keys
    PROVE  Nil \in OptValues(k) /\ OptValues(k) \subseteq Values
<1>1. \A D \in SUBSET DerivedOf(k) : D \in SUBSET DerivedKeys
  BY DEF DerivedOf
<1>2. UNION {[D -> DerivedValues] : D \in SUBSET DerivedOf(k)}
        \subseteq UNION {[D -> DerivedValues] : D \in SUBSET DerivedKeys}
  BY <1>1
<1>3. ValuesOf(k) \subseteq Values
  BY <1>2 DEF ValuesOf, Values
<1> QED
  BY <1>3 DEF OptValues, Values

LEMMA NotNil ==
    ASSUME NEW k \in Keys, NEW v \in ValuesOf(k)
    PROVE  v # Nil
<1>1. DOMAIN v = {"rev", "der"}
  BY DEF ValuesOf
<1>2. DOMAIN Nil = {}
  BY DEF Nil
<1> QED
  BY <1>1, <1>2

\* The derived values of a value, by key.
LEMMA DerOf ==
    ASSUME NEW k \in Keys, NEW v \in ValuesOf(k)
    PROVE  /\ DOMAIN v.der \subseteq DerivedOf(k)
           /\ \A d \in DOMAIN v.der : v.der[d] \in ValuesOf(d)
<1>1. v.der \in UNION {[D -> DerivedValues] : D \in SUBSET DerivedOf(k)}
  BY DEF ValuesOf
<1>2. PICK D \in SUBSET DerivedOf(k) : v.der \in [D -> DerivedValues]
  BY <1>1
<1>4. ASSUME NEW d \in D PROVE v.der[d] \in ValuesOf(d)
  <2>1. v.der[d] \in DerivedValues
    BY <1>2
  <2>2. v.der[d].rev \in Revisions /\ v.der[d].der \in [{} -> {}]
           /\ v.der[d] = [rev |-> v.der[d].rev, der |-> v.der[d].der]
    BY <2>1 DEF DerivedValues
  <2>3. v.der[d].der \in [{} -> DerivedValues]
    BY <2>2
  <2>4. v.der[d].der \in UNION {[E -> DerivedValues] : E \in SUBSET DerivedOf(d)}
    BY <2>3
  <2> QED
    BY <2>2, <2>4 DEF ValuesOf
<1> QED
  BY <1>2, <1>4


-----------------------------------------------------------------------------
(* What every operation of an execution keeps *)

\* the node n of key k in a transaction with the number seq; a new one is not
\* yet derived from its base
NodeRaw(n, k, seq) ==
    /\ n \in Nodes
    /\ k \in BaseKeys => n.base = k
    /\ n.value \in OptValues(k)
    /\ n.derives \subseteq DerivedOf(k)
    /\ n.upd # NoUpdate => n.upd.value \in OptValues(k) /\ n.upd.txnSeqNum <= seq
    /\ n.state = "UNIMPLEMENTED" => k \in BaseKeys /\ n.upd # NoUpdate

NodeOK(n, k, seq) == NodeRaw(n, k, seq) /\ n.base = baseOf(k)

GraphOK(g, seq) == g \in Graphs /\ \A k \in Keys : g[k] # NoNode => NodeOK(g[k], k, seq)

SBOK(s) == s \in [Keys -> Values] /\ \A k \in Keys : s[k] \in OptValues(k)

\* another attempt is due for a value of key k
Allowed(T, k) == MaxCount = 0 \/ nextAttempt(T, baseOf(k)) <= MaxCount

\* what this transaction leaves to be retried has attempts left
RetryOK(g, exec, T) ==
    \A k \in exec : g[k] # NoNode /\ g[k].state = "RETRYING" => Allowed(T, k)

Good(S, T) ==
    S \in ExecStates /\ GraphOK(S.g, T.seqNum) /\ SBOK(S.sb) /\ RetryOK(S.g, S.exec, T)

\* the same, but for the node of k
Others(S, T, k) ==
    /\ S \in ExecStates /\ SBOK(S.sb)
    /\ \A j \in Keys \ {k} : S.g[j] # NoNode =>
          /\ NodeOK(S.g[j], j, T.seqNum)
          /\ j \in S.exec /\ S.g[j].state = "RETRYING" => Allowed(T, j)

ErrStates == {"FAILED", "RETRYING", "INVALID"}

\* the flags of a node agree: see StatusTruthful
HonestFlags(state, avail, err) ==
    /\ state \in {"CONFIGURED", "OBTAINED", "DISCOVERED"} => avail
    /\ state = "PENDING" => ~avail
    /\ err <=> state \in ErrStates

Honest(n) == HonestFlags(n.state, n.avail, n.err)

HonestAt(S, k) == S.g[k] # NoNode => Honest(S.g[k])

\* of the keys of K, none becomes dishonest
Truer(S, S1, K) == \A k \in K : HonestAt(S, k) => HonestAt(S1, k)

\* the keys of B are left alone
Alone(S, S1, B) == \A k \in B : S1.g[k] = S.g[k] /\ (k \in S1.exec <=> k \in S.exec)

Frame(S, S1, B) == Alone(S, S1, B) /\ Truer(S, S1, Keys)

\* the same, but for the flags of k
Loose(S, S1, B, k) == Alone(S, S1, B) /\ Truer(S, S1, Keys \ {k})

\* the node n is as honest as the one of k it replaces
StaysHonest(S, k, n) == HonestAt(S, k) /\ n # NoNode => Honest(n)

Kept(r, S, T, B) == r \in Results /\ Good(r.s, T) /\ Frame(S, r.s, B)

ArgsOK(A) ==
    /\ A \in Args
    /\ A.value \in OptValues(A.key)
    /\ A.base = baseOf(A.key)
    /\ A.isDerived <=> A.key \in DerivedKeys

TxnOK(T) == T.seqNum \in Nat /\ T.retryEnabled \in BOOLEAN

\* nested calls keep the state and the branch
RecOK(rec, T) ==
    \A A \in Args : \A S \in ExecStates :
        ArgsOK(A) /\ Good(S, T) => Kept(rec[A][S], S, T, A.branch)

LEMMA NodeNotNil ==
    ASSUME NEW n \in Nodes
    PROVE  n # NoNode
<1>1. "value" \in DOMAIN n
  BY DEF Nodes
<1>2. DOMAIN NoNode = {}
  BY DEF NoNode
<1> QED
  BY <1>1, <1>2

LEMMA StateFields ==
    ASSUME NEW S \in ExecStates
    PROVE  /\ S.g \in Graphs /\ S.sb \in [Keys -> Values]
           /\ S.exec \in SUBSET Keys /\ S.errs \in SUBSET Keys /\ S.upd \in SUBSET Keys
           /\ S.reverted \in {"no", "done", "failed"}
BY DEF ExecStates

LEMMA FrameSame ==
    ASSUME NEW S, NEW B
    PROVE  Frame(S, S, B)
BY DEF Frame, Alone, Truer

LEMMA FrameTrans ==
    ASSUME NEW S, NEW S1, NEW S2, NEW B, NEW C, Frame(S, S1, B), Frame(S1, S2, C)
    PROVE  Frame(S, S2, B \cap C)
BY DEF Frame, Alone, Truer

\* states with the same graph and the same recorded operations
LEMMA FrameEqual ==
    ASSUME NEW S, NEW S1, NEW S2, NEW B, Frame(S, S1, B), S2.g = S1.g, S2.exec = S1.exec
    PROVE  Frame(S, S2, B)
BY DEF Frame, Alone, Truer, HonestAt

LEMMA LooseThen ==
    ASSUME NEW S, NEW S1, NEW S2, NEW B, NEW C, NEW k, B \subseteq C,
           Loose(S, S1, B, k), Frame(S1, S2, C)
    PROVE  Loose(S, S2, B, k)
BY DEF Frame, Loose, Alone, Truer

LEMMA LooseHonest ==
    ASSUME NEW S, NEW S1, NEW B, NEW k, Loose(S, S1, B, k), HonestAt(S, k) => HonestAt(S1, k)
    PROVE  Frame(S, S1, B)
BY DEF Frame, Loose, Truer

LEMMA OkKept ==
    ASSUME NEW S, NEW T, NEW B, Good(S, T)
    PROVE  Kept(Ok(S), S, T, B)
<1>1. Ok(S) = [s |-> S, err |-> FALSE] /\ Ok(S).s = S
  BY DEF Ok
<1>2. Ok(S) \in Results
  BY <1>1 DEF Good, Results
<1> QED
  BY <1>1, <1>2, FrameSame DEF Kept

LEMMA GoodOthers ==
    ASSUME NEW S, NEW T, Good(S, T), NEW k \in Keys
    PROVE  /\ Others(S, T, k)
           /\ S.g[k] # NoNode => /\ NodeOK(S.g[k], k, T.seqNum)
                                 /\ k \in S.exec /\ S.g[k].state = "RETRYING" => Allowed(T, k)
BY DEF Good, GraphOK, RetryOK, Others

LEMMA OthersGood ==
    ASSUME NEW S, NEW T, NEW k \in Keys, Others(S, T, k),
           S.g[k] # NoNode => /\ NodeOK(S.g[k], k, T.seqNum)
                              /\ k \in S.exec /\ S.g[k].state = "RETRYING" => Allowed(T, k)
    PROVE  Good(S, T)
<1>1. S.g \in Graphs /\ S.exec \subseteq Keys
  BY StateFields DEF Others
<1>2. GraphOK(S.g, T.seqNum)
  BY <1>1 DEF GraphOK, Others
<1>3. RetryOK(S.g, S.exec, T)
  BY <1>1 DEF RetryOK, Others
<1> QED
  BY <1>2, <1>3 DEF Good, Others

\* S1 is S with the node n for k, and may have k recorded.
Changed(S, S1, k, n) ==
    /\ S1 \in ExecStates /\ SBOK(S1.sb)
    /\ S1.g = [S.g EXCEPT ![k] = n]
    /\ S.exec \subseteq S1.exec /\ S1.exec \subseteq S.exec \cup {k}

LEMMA ChangedOthers ==
    ASSUME NEW S, NEW T, NEW k \in Keys, Others(S, T, k), NEW n, NEW S1, Changed(S, S1, k, n)
    PROVE  /\ Others(S1, T, k) /\ S1.g[k] = n
           /\ \A B : k \notin B /\ B \subseteq Keys => Loose(S, S1, B, k)
           /\ StaysHonest(S, k, n) => \A B : k \notin B /\ B \subseteq Keys => Frame(S, S1, B)
<1>0. S.g \in Graphs /\ S.exec \subseteq Keys
  BY StateFields DEF Others
<1>1. S1.g[k] = n /\ \A j \in Keys : j # k => S1.g[j] = S.g[j]
  BY <1>0 DEF Graphs, Changed
<1>2. \A j \in Keys : j # k => (j \in S1.exec <=> j \in S.exec)
  BY DEF Changed
<1>3. Others(S1, T, k)
  <2> SUFFICES ASSUME NEW j \in Keys \ {k}, S1.g[j] # NoNode
               PROVE  /\ NodeOK(S1.g[j], j, T.seqNum)
                      /\ j \in S1.exec /\ S1.g[j].state = "RETRYING" => Allowed(T, j)
    BY DEF Others, Changed
  <2> QED
    BY <1>1, <1>2 DEF Others
<1>4. ASSUME NEW B, k \notin B /\ B \subseteq Keys PROVE Loose(S, S1, B, k)
  <2>1. Alone(S, S1, B)
    <3> SUFFICES ASSUME NEW j \in B PROVE S1.g[j] = S.g[j] /\ (j \in S1.exec <=> j \in S.exec)
      BY DEF Alone
    <3>1. j \in Keys /\ j # k
      BY <1>4
    <3> QED
      BY <1>1, <1>2, <3>1
  <2>2. Truer(S, S1, Keys \ {k})
    BY <1>1 DEF Truer, HonestAt
  <2> QED
    BY <2>1, <2>2 DEF Loose
<1>5. StaysHonest(S, k, n) => (HonestAt(S, k) => HonestAt(S1, k))
  BY <1>1 DEF StaysHonest, HonestAt
<1>6. ASSUME StaysHonest(S, k, n), NEW B, k \notin B /\ B \subseteq Keys PROVE Frame(S, S1, B)
  BY <1>4, <1>5, <1>6, LooseHonest
<1> QED
  BY <1>1, <1>3, <1>4, <1>6

LEMMA ChangedGood ==
    ASSUME NEW S, NEW T, NEW k \in Keys, Others(S, T, k), NEW n, NEW S1, Changed(S, S1, k, n),
           n # NoNode => /\ NodeOK(n, k, T.seqNum)
                         /\ n.state = "RETRYING" /\ k \in S1.exec => Allowed(T, k)
    PROVE  /\ Good(S1, T) /\ S1.g[k] = n
           /\ \A B : k \notin B /\ B \subseteq Keys => Loose(S, S1, B, k)
           /\ StaysHonest(S, k, n) => \A B : k \notin B /\ B \subseteq Keys => Frame(S, S1, B)
<1>1. /\ Others(S1, T, k) /\ S1.g[k] = n
      /\ \A B : k \notin B /\ B \subseteq Keys => Loose(S, S1, B, k)
      /\ StaysHonest(S, k, n) => \A B : k \notin B /\ B \subseteq Keys => Frame(S, S1, B)
  BY ChangedOthers
<1> QED
  BY <1>1, OthersGood

\* a state of the execution with another node for k
LEMMA NodePut ==
    ASSUME NEW S \in ExecStates, SBOK(S.sb), NEW k \in Keys, NEW n, n \in Nodes \cup {NoNode},
           NEW S1, S1 = [S EXCEPT !.g[k] = n]
    PROVE  /\ Changed(S, S1, k, n)
           /\ S1.exec = S.exec /\ S1.errs = S.errs /\ S1.sb = S.sb /\ S1.upd = S.upd
           /\ S1.reverted = S.reverted
<1>1. S.g \in Graphs
  BY StateFields
<1>2. [S.g EXCEPT ![k] = n] \in Graphs
  BY <1>1 DEF Graphs
<1> DEFINE h == [S.g EXCEPT ![k] = n]
<1>3. S1 = [S EXCEPT !.g = h]
  BY <1>1 DEF ExecStates
<1> HIDE DEF h
<1>4. S1 \in ExecStates /\ S1.g = h /\ S1.exec = S.exec /\ S1.errs = S.errs /\ S1.sb = S.sb
      /\ S1.upd = S.upd /\ S1.reverted = S.reverted
  BY <1>2, <1>3 DEF ExecStates, h
<1> QED
  BY <1>4 DEF Changed, h

LEMMA NodeFields ==
    ASSUME NEW n \in Nodes
    PROVE  /\ n.value \in Values /\ n.state \in States /\ n.avail \in BOOLEAN
           /\ n.upd \in LastUpdates /\ n.err \in BOOLEAN /\ n.base \in Keys
           /\ n.deps \in SUBSET SUBSET Keys /\ n.derives \in SUBSET DerivedKeys /\ n.descr \in BOOLEAN
BY DEF Nodes

\* when a node may be in the state
StateOK(n, k, state) ==
    state \in States /\ (state = "UNIMPLEMENTED" => k \in BaseKeys /\ n.upd # NoUpdate)

FlagsSet(n, m, state, avail, err) ==
    m = [n EXCEPT !.state = state, !.avail = avail, !.err = err]

LEMMA FlagsNode ==
    ASSUME NEW n, NEW k \in Keys, NEW seq, NodeOK(n, k, seq), NEW state, StateOK(n, k, state),
           NEW avail \in BOOLEAN, NEW err \in BOOLEAN, NEW m, FlagsSet(n, m, state, avail, err)
    PROVE  /\ NodeOK(m, k, seq) /\ m # NoNode
           /\ m.state = state /\ m.avail = avail /\ m.err = err
           /\ m.upd = n.upd /\ m.value = n.value /\ m.deps = n.deps /\ m.derives = n.derives
           /\ m.base = n.base /\ m.descr = n.descr
<1>1. n \in Nodes
  BY DEF NodeOK, NodeRaw
<1>2. /\ m \in Nodes /\ m.state = state /\ m.avail = avail /\ m.err = err
      /\ m.upd = n.upd /\ m.value = n.value /\ m.deps = n.deps /\ m.derives = n.derives
      /\ m.base = n.base /\ m.descr = n.descr
  BY <1>1 DEF Nodes, StateOK, FlagsSet
<1>3. NodeOK(m, k, seq)
  BY <1>2 DEF NodeOK, NodeRaw, StateOK
<1> QED
  BY <1>2, <1>3, NodeNotNil

\* no attempt is promised that is not due
MayRetry(T, k, state) == state = "RETRYING" => Allowed(T, k)
RetryState(S, T, k, state) == state = "RETRYING" /\ k \in S.exec => Allowed(T, k)

LEMMA SetFlags ==
    ASSUME NEW S, NEW T, Good(S, T), NEW k \in Keys, S.g[k] # NoNode,
           NEW state, StateOK(S.g[k], k, state), RetryState(S, T, k, state),
           NEW avail \in BOOLEAN, NEW err \in BOOLEAN,
           NEW S1, S1 = setFlags(S, k, state, avail, err)
    PROVE  /\ Good(S1, T) /\ \A B : k \notin B /\ B \subseteq Keys => Loose(S, S1, B, k)
           /\ HonestFlags(state, avail, err) =>
                 HonestAt(S1, k) /\ \A B : k \notin B /\ B \subseteq Keys => Frame(S, S1, B)
           /\ S1.g[k] # NoNode /\ S1.g[k].upd = S.g[k].upd
           /\ S1.g[k].state = state /\ S1.g[k].avail = avail
           /\ S1.g[k].base = baseOf(k)
           /\ S1.exec = S.exec
<1> DEFINE n == S.g[k]
           m == [n EXCEPT !.state = state, !.avail = avail, !.err = err]
<1>1. Others(S, T, k) /\ NodeOK(n, k, T.seqNum) /\ S \in ExecStates /\ SBOK(S.sb)
  BY GoodOthers DEF Good
<1>0. StateOK(n, k, state)
  OBVIOUS
<1>3. S1 = [S EXCEPT !.g[k] = m]
  BY DEF setFlags
<1> HIDE DEF n
<1>2. NodeOK(m, k, T.seqNum) /\ m # NoNode /\ m.state = state /\ m.upd = n.upd
      /\ m.avail = avail /\ m.err = err
  <2>1. FlagsSet(n, m, state, avail, err)
    BY DEF FlagsSet
  <2> HIDE DEF m
  <2> QED
    BY <1>0, <1>1, <2>1, FlagsNode
<1> HIDE DEF m
<1>4. m \in Nodes \cup {NoNode} /\ m.base = baseOf(k)
  BY <1>2 DEF NodeOK, NodeRaw
<1>5. Changed(S, S1, k, m) /\ S1.exec = S.exec
  BY <1>1, <1>3, <1>4, NodePut
<1>6. m.state = "RETRYING" /\ k \in S1.exec => Allowed(T, k)
  BY <1>2, <1>5 DEF RetryState
<1>7. /\ Good(S1, T) /\ S1.g[k] = m
      /\ \A B : k \notin B /\ B \subseteq Keys => Loose(S, S1, B, k)
      /\ StaysHonest(S, k, m) => \A B : k \notin B /\ B \subseteq Keys => Frame(S, S1, B)
  BY <1>1, <1>2, <1>5, <1>6, ChangedGood
<1>8. HonestFlags(state, avail, err) => HonestAt(S1, k) /\ StaysHonest(S, k, m)
  BY <1>2, <1>7 DEF Honest, HonestAt, StaysHonest
<1> QED
  BY <1>2, <1>4, <1>5, <1>7, <1>8 DEF n

LEMMA RecordOp ==
    ASSUME NEW S, NEW T, Good(S, T), NEW k \in Keys,
           S.g[k] # NoNode /\ S.g[k].state = "RETRYING" => Allowed(T, k),
           NEW S1, S1 = recordOp(S, k)
    PROVE  /\ Good(S1, T) /\ \A B : k \notin B /\ B \subseteq Keys => Frame(S, S1, B)
           /\ S1.g = S.g
<1>1. S \in ExecStates /\ SBOK(S.sb) /\ S.g \in Graphs /\ S.exec \in SUBSET Keys
  BY StateFields DEF Good
<1>2. S1 \in ExecStates /\ S1.g = S.g /\ S1.sb = S.sb /\ S1.exec = S.exec \cup {k}
  BY <1>1 DEF recordOp, ExecStates
<1>3. S1.g = [S.g EXCEPT ![k] = S.g[k]]
  BY <1>1, <1>2 DEF Graphs
<1>4. Changed(S, S1, k, S.g[k])
  BY <1>1, <1>2, <1>3 DEF Changed
<1>5. Others(S, T, k) /\ (S.g[k] # NoNode => NodeOK(S.g[k], k, T.seqNum))
  BY GoodOthers
<1>6. StaysHonest(S, k, S.g[k])
  BY DEF StaysHonest, HonestAt
<1>7. Good(S1, T) /\ \A B : k \notin B /\ B \subseteq Keys => Frame(S, S1, B)
  BY <1>4, <1>5, <1>6, ChangedGood
<1> QED
  BY <1>2, <1>7

\* A state recorded for k: the flags are set first.
LEMMA FlagsRecorded ==
    ASSUME NEW S, NEW T, Good(S, T), NEW k \in Keys, S.g[k] # NoNode,
           NEW state, StateOK(S.g[k], k, state), MayRetry(T, k, state),
           NEW avail \in BOOLEAN, NEW err \in BOOLEAN, HonestFlags(state, avail, err),
           NEW S1, S1 = recordOp(setFlags(S, k, state, avail, err), k)
    PROVE  /\ Good(S1, T) /\ \A B : k \notin B /\ B \subseteq Keys => Frame(S, S1, B)
           /\ S1.g[k] # NoNode /\ S1.g[k].upd = S.g[k].upd /\ HonestAt(S1, k)
<1> DEFINE S2 == setFlags(S, k, state, avail, err)
<1>1. RetryState(S, T, k, state)
  BY DEF RetryState, MayRetry
<1>2. /\ Good(S2, T) /\ \A B : k \notin B /\ B \subseteq Keys => Frame(S, S2, B)
      /\ S2.g[k] # NoNode /\ S2.g[k].upd = S.g[k].upd /\ S2.g[k].state = state
      /\ HonestAt(S2, k)
  BY <1>1, SetFlags
<1>3. S1 = recordOp(S2, k)
  OBVIOUS
<1> HIDE DEF S2
<1>4. /\ Good(S1, T) /\ \A B : k \notin B /\ B \subseteq Keys => Frame(S2, S1, B)
      /\ S1.g = S2.g
  BY <1>2, <1>3, RecordOp DEF MayRetry
<1>5. ASSUME NEW B, k \notin B /\ B \subseteq Keys PROVE Frame(S, S1, B)
  <2>1. Frame(S, S2, B) /\ Frame(S2, S1, B)
    BY <1>2, <1>4, <1>5
  <2> QED
    BY <2>1, FrameTrans
<1> QED
  BY <1>2, <1>4, <1>5 DEF HonestAt

LEMMA SetValue ==
    ASSUME NEW S, NEW T, Good(S, T), NEW k \in Keys, S.g[k] # NoNode, NEW v \in OptValues(k),
           NEW S1, S1 = setValue(S, k, v)
    PROVE  /\ Good(S1, T) /\ \A B : k \notin B /\ B \subseteq Keys => Frame(S, S1, B)
           /\ S1.g[k] # NoNode /\ S1.g[k].upd = S.g[k].upd /\ S1.g[k].value = v
<1> DEFINE n == S.g[k]
           m == [n EXCEPT !.value = v]
<1>1. Others(S, T, k) /\ NodeOK(n, k, T.seqNum) /\ S \in ExecStates /\ SBOK(S.sb)
      /\ (k \in S.exec /\ n.state = "RETRYING" => Allowed(T, k))
  BY GoodOthers DEF Good
<1> HIDE DEF n
<1>2. n \in Nodes /\ v \in Values
  BY <1>1, ValueType DEF NodeOK, NodeRaw
<1>3. /\ m \in Nodes /\ m.value = v /\ m.state = n.state /\ m.upd = n.upd
      /\ m.base = n.base /\ m.derives = n.derives /\ m.avail = n.avail /\ m.err = n.err
  BY <1>2 DEF Nodes
<1>4. S1 = [S EXCEPT !.g[k] = m]
  BY DEF setValue, n
<1> HIDE DEF m
<1>5. NodeOK(m, k, T.seqNum) /\ m # NoNode
  BY <1>1, <1>3, NodeNotNil DEF NodeOK, NodeRaw
<1>6. Changed(S, S1, k, m) /\ S1.exec = S.exec
  BY <1>1, <1>3, <1>4, NodePut
<1>7. m.state = "RETRYING" /\ k \in S1.exec => Allowed(T, k)
  BY <1>1, <1>3, <1>6
<1>8. StaysHonest(S, k, m)
  BY <1>3 DEF StaysHonest, HonestAt, Honest, n
<1>9. Good(S1, T) /\ S1.g[k] = m /\ \A B : k \notin B /\ B \subseteq Keys => Frame(S, S1, B)
  BY <1>1, <1>5, <1>6, <1>7, <1>8, ChangedGood
<1> QED
  BY <1>3, <1>5, <1>9 DEF n

LEMMA DependenciesType ==
    ASSUME NEW T, NEW k \in Keys, NEW v \in OptValues(k)
    PROVE  dependencies(T, k, v) \in SUBSET SUBSET Keys
BY ExecAssumption DEF dependencies, OptValues

LEMMA DerivedValuesType ==
    ASSUME NEW T, NEW k \in Keys, NEW v \in OptValues(k)
    PROVE  /\ DOMAIN derivedValues(T, k, v) \subseteq DerivedOf(k)
           /\ \A d \in DOMAIN derivedValues(T, k, v) : derivedValues(T, k, v)[d] \in OptValues(d)
<1>1. CASE hasDescriptor(T, k) /\ v # Nil
  <2>1. v \in ValuesOf(k) /\ derivedValues(T, k, v) = v.der
    BY <1>1 DEF derivedValues, OptValues
  <2> QED
    BY <2>1, DerOf DEF OptValues
<1>2. CASE ~(hasDescriptor(T, k) /\ v # Nil)
  BY <1>2 DEF derivedValues
<1> QED
  BY <1>1, <1>2

LEMMA SetRelations ==
    ASSUME NEW S, NEW T, Good(S, T), NEW k \in Keys, S.g[k] # NoNode,
           NEW D \in SUBSET DerivedOf(k), NEW S1, S1 = setRelations(S, T, k, D)
    PROVE  /\ Good(S1, T) /\ \A B : k \notin B /\ B \subseteq Keys => Frame(S, S1, B)
           /\ S1.g[k] # NoNode /\ S1.g[k].upd = S.g[k].upd
<1> DEFINE n == S.g[k]
           X == dependencies(T, k, n.value)
           m == [n EXCEPT !.deps = X, !.derives = D]
<1>1. Others(S, T, k) /\ NodeOK(n, k, T.seqNum) /\ S \in ExecStates /\ SBOK(S.sb)
      /\ (k \in S.exec /\ n.state = "RETRYING" => Allowed(T, k))
  BY GoodOthers DEF Good
<1>2. S1 = [S EXCEPT !.g[k] = m]
  BY DEF setRelations
<1> HIDE DEF n
<1>3. n \in Nodes /\ X \in SUBSET SUBSET Keys /\ D \in SUBSET DerivedKeys
  BY <1>1, DependenciesType DEF NodeOK, NodeRaw, DerivedOf
<1> HIDE DEF X
<1>4. /\ m \in Nodes /\ m.value = n.value /\ m.state = n.state /\ m.upd = n.upd
      /\ m.base = n.base /\ m.derives = D /\ m.avail = n.avail /\ m.err = n.err
  BY <1>3 DEF Nodes
<1> HIDE DEF m
<1>5. NodeOK(m, k, T.seqNum) /\ m # NoNode
  BY <1>1, <1>4, NodeNotNil DEF NodeOK, NodeRaw
<1>6. Changed(S, S1, k, m) /\ S1.exec = S.exec
  BY <1>1, <1>2, <1>4, NodePut
<1>7. m.state = "RETRYING" /\ k \in S1.exec => Allowed(T, k)
  BY <1>1, <1>4, <1>6
<1>8. StaysHonest(S, k, m)
  BY <1>4 DEF StaysHonest, HonestAt, Honest, n
<1>9. Good(S1, T) /\ S1.g[k] = m /\ \A B : k \notin B /\ B \subseteq Keys => Frame(S, S1, B)
  BY <1>1, <1>5, <1>6, <1>7, <1>8, ChangedGood
<1> QED
  BY <1>4, <1>5, <1>9 DEF n


-----------------------------------------------------------------------------
(* Steps on the node of one value.  B: keys that are left alone *)

Dropped(S, S1, k) == S1 = [S EXCEPT !.g = DeleteNode(@, k)]

LEMMA DropNode ==
    ASSUME NEW S, NEW T, NEW k \in Keys, Others(S, T, k), NEW S1, Dropped(S, S1, k)
    PROVE  /\ Good(S1, T) /\ \A B : k \notin B /\ B \subseteq Keys => Frame(S, S1, B)
           /\ S1.g[k] = NoNode /\ S1.exec = S.exec
<1>1. S \in ExecStates /\ SBOK(S.sb)
  BY DEF Others
<1>2. S1 = [S EXCEPT !.g[k] = NoNode]
  BY DEF Dropped, DeleteNode
<1> DEFINE n == NoNode
<1>3. S1 = [S EXCEPT !.g[k] = n] /\ n \in Nodes \cup {NoNode}
  BY <1>2
<1>4. n = NoNode
  OBVIOUS
<1> HIDE DEF n
<1>5. Changed(S, S1, k, n) /\ S1.exec = S.exec
  BY <1>1, <1>3, NodePut
<1>6. StaysHonest(S, k, n)
  BY <1>4 DEF StaysHonest
<1> QED
  BY <1>4, <1>5, <1>6, ChangedGood

LEMMA AfterCall ==
    ASSUME NEW S, NEW T, Good(S, T), NEW A, ArgsOK(A), NEW v \in OptValues(A.key), NEW op,
           NEW S1, S1 = afterCall(S, T, A, op, v)
    PROVE  Good(S1, T) /\ S1.g = S.g /\ S1.exec = S.exec
<1>1. A.key \in Keys
  BY DEF ArgsOK, Args
<1>2. S \in ExecStates /\ S.sb \in [Keys -> Values] /\ SBOK(S.sb)
  BY StateFields DEF Good
<1>3. v \in Values
  BY <1>1, ValueType
<1>4. CASE S1 = S
  BY <1>4
<1>5. CASE S1 = [S EXCEPT !.sb[A.key] = v]
  <2> DEFINE h == [S.sb EXCEPT ![A.key] = v]
  <2>1. h \in [Keys -> Values] /\ h[A.key] = v /\ \A j \in Keys : j # A.key => h[j] = S.sb[j]
    BY <1>1, <1>2, <1>3
  <2>2. S1 = [S EXCEPT !.sb = h]
    BY <1>5
  <2> HIDE DEF h
  <2>3. SBOK(h)
    BY <1>1, <1>2, <2>1 DEF SBOK
  <2>4. S1 \in ExecStates /\ S1.sb = h /\ S1.g = S.g /\ S1.exec = S.exec
    BY <1>2, <2>1, <2>2 DEF ExecStates
  <2> QED
    BY <2>3, <2>4 DEF Good
<1> QED
  BY <1>4, <1>5 DEF afterCall

LEMMA FailedState ==
    ASSUME NEW S, NEW T, Good(S, T), NEW A, ArgsOK(A), S.g[A.key] # NoNode,
           NEW state, state = failedState(T, A, S.g[A.key])
    PROVE  state \in ErrStates /\ MayRetry(T, A.key, state)
<1>1. A.key \in Keys
  BY DEF ArgsOK, Args
<1>2. S.g[A.key].base = baseOf(A.key)
  BY <1>1, GoodOthers DEF NodeOK
<1> QED
  BY <1>2 DEF failedState, Allowed, ErrStates, MayRetry

LEMMA Failed ==
    ASSUME NEW S, NEW T, Good(S, T), NEW A, ArgsOK(A), S.g[A.key] # NoNode,
           NEW state \in ErrStates, MayRetry(T, A.key, state),
           NEW avail \in BOOLEAN, NEW B, A.key \notin B, B \subseteq Keys,
           NEW r, r = failed(S, T, A, state, avail)
    PROVE  /\ Kept(r, S, T, B) /\ HonestAt(r.s, A.key)
           /\ r.s.g[A.key] # NoNode /\ r.s.g[A.key].upd = S.g[A.key].upd
<1> DEFINE k == A.key
           yes == TRUE
           S2 == recordOp(setFlags(S, k, state, avail, yes), k)
<1>1. k \in Keys
  BY DEF ArgsOK, Args
<1>2. StateOK(S.g[k], k, state)
  BY DEF StateOK, States, ErrStates
<1>4. r = [s |-> [S2 EXCEPT !.errs = @ \cup {k}], err |-> S.g[k].base \in A.applied]
  BY DEF failed
<1>0. yes \in BOOLEAN /\ HonestFlags(state, avail, yes)
  BY DEF HonestFlags, ErrStates
<1> HIDE DEF yes
<1>3. /\ Good(S2, T) /\ Frame(S, S2, B) /\ HonestAt(S2, k)
      /\ S2.g[k] # NoNode /\ S2.g[k].upd = S.g[k].upd
  BY <1>0, <1>1, <1>2, FlagsRecorded
<1> HIDE DEF S2
<1> DEFINE S3 == [S2 EXCEPT !.errs = @ \cup {k}]
<1>5. S3 \in ExecStates /\ S3.g = S2.g /\ S3.sb = S2.sb /\ S3.exec = S2.exec
  BY <1>1, <1>3 DEF Good, ExecStates
<1>6. r.s = S3 /\ r \in Results
  BY <1>4, <1>5 DEF Results
<1> HIDE DEF S3
<1>7. Good(S3, T) /\ Frame(S, S3, B) /\ HonestAt(S3, k)
  BY <1>3, <1>5, FrameEqual DEF Good, HonestAt
<1> QED
  BY <1>3, <1>5, <1>6, <1>7 DEF Kept

LEMMA Removed ==
    ASSUME NEW S, NEW T, Good(S, T), NEW A, ArgsOK(A), S.g[A.key] # NoNode, ~S.g[A.key].avail,
           NEW pending, NEW recreate, NEW r, r = removed(S, A, pending, recreate)
    PROVE  /\ \A B : A.key \notin B /\ B \subseteq Keys => Kept(r, S, T, B)
           /\ HonestAt(r.s, A.key)
           /\ pending \/ recreate => r.s.g[A.key] # NoNode /\ r.s.g[A.key].upd = S.g[A.key].upd
<1> DEFINE k == A.key
           B == Keys \ {k}
           Free(X, Y) == Frame(X, Y, B)
           state == IF pending THEN "PENDING" ELSE "REMOVED"
           avail == S.g[k].avail
           no == FALSE
           S1 == setFlags(S, k, state, avail, no)
           S2 == [S1 EXCEPT !.g = DeleteNode(@, k)]
           S3 == IF ~pending /\ A.isDerived /\ ~recreate THEN S2 ELSE S1
<1>1. k \in Keys /\ k \notin B /\ B \subseteq Keys
  BY DEF ArgsOK, Args
<1>2. StateOK(S.g[k], k, state) /\ RetryState(S, T, k, state) /\ avail \in BOOLEAN /\ no \in BOOLEAN
  <2>1. S.g[k] \in Nodes
    BY <1>1, GoodOthers DEF NodeOK, NodeRaw
  <2> QED
    BY <2>1, NodeFields DEF StateOK, States, RetryState
<1>3. state # "RETRYING" /\ HonestFlags(state, avail, no)
  BY DEF HonestFlags, ErrStates
<1>4. r = Ok(recordOp(S3, k))
  BY DEF removed
<1> HIDE DEF state, avail, no
<1>5. /\ Good(S1, T) /\ Free(S, S1) /\ HonestAt(S1, k)
      /\ S1.g[k] # NoNode /\ S1.g[k].upd = S.g[k].upd /\ S1.g[k].state = state
  BY <1>1, <1>2, <1>3, SetFlags
<1> HIDE DEF S1
<1>6. Others(S1, T, k)
  BY <1>1, <1>5, GoodOthers
<1>7. Good(S2, T) /\ Free(S1, S2) /\ S2.g[k] = NoNode
  <2>1. Dropped(S1, S2, k)
    BY DEF Dropped
  <2> HIDE DEF S2
  <2> QED
    BY <1>1, <1>6, <2>1, DropNode
<1> HIDE DEF S2
<1>8. Good(S3, T) /\ Free(S, S3) /\ (S3.g[k] # NoNode => S3.g[k].state # "RETRYING")
      /\ (pending \/ recreate => S3.g[k] # NoNode /\ S3.g[k].upd = S.g[k].upd)
      /\ HonestAt(S3, k)
  <2>1. CASE S3 = S1
    BY <1>3, <1>5, <1>7, <2>1
  <2>2. CASE S3 = S2 /\ ~pending /\ ~recreate
    <3>1. Free(S, S2)
      BY <1>5, <1>7, FrameTrans
    <3> QED
      BY <1>7, <2>2, <3>1 DEF HonestAt
  <2> QED
    BY <2>1, <2>2
<1> HIDE DEF S3
<1> DEFINE S4 == recordOp(S3, k)
<1>9. Good(S4, T) /\ Free(S3, S4) /\ S4.g = S3.g
  BY <1>1, <1>8, RecordOp
<1> HIDE DEF S4
<1>10. Free(S, S4)
  BY <1>8, <1>9, FrameTrans
<1>11. r = Ok(S4) /\ Ok(S4).s = S4
  BY <1>4 DEF S4, Ok
<1>12. ASSUME NEW C, k \notin C /\ C \subseteq Keys PROVE Kept(r, S, T, C)
  <2>1. C \subseteq B
    BY <1>12
  <2>2. Frame(S, S4, C)
    BY <1>10, <2>1 DEF Frame, Alone
  <2>3. Kept(Ok(S4), S4, T, C)
    BY <1>9, OkKept
  <2> QED
    BY <1>11, <2>2, <2>3 DEF Kept
<1> QED
  BY <1>8, <1>9, <1>11, <1>12 DEF HonestAt

LEMMA Hidden ==
    ASSUME NEW S, NEW T, Good(S, T), NEW A, ArgsOK(A), S.g[A.key] # NoNode,
           NEW pending, NEW S1, S1 = hidden(S, A, pending)
    PROVE  /\ Good(S1, T) /\ \A B : A.key \notin B /\ B \subseteq Keys => Loose(S, S1, B, A.key)
           /\ S1.g[A.key] # NoNode /\ S1.g[A.key].upd = S.g[A.key].upd /\ S1.exec = S.exec
           /\ ~S1.g[A.key].avail
<1> DEFINE k == A.key
           state == IF pending THEN S.g[k].state ELSE "REMOVED"
           err == S.g[k].err
           no == FALSE
<1>1. k \in Keys
  BY DEF ArgsOK, Args
<1>2. NodeOK(S.g[k], k, T.seqNum) /\ S.g[k] \in Nodes
      /\ (k \in S.exec /\ S.g[k].state = "RETRYING" => Allowed(T, k))
  BY <1>1, GoodOthers DEF NodeOK, NodeRaw
<1>3. StateOK(S.g[k], k, state) /\ RetryState(S, T, k, state) /\ err \in BOOLEAN /\ no \in BOOLEAN
  BY <1>2, NodeFields DEF StateOK, RetryState, NodeOK, NodeRaw, States
<1>4. S1 = setFlags(S, k, state, no, err) /\ ~no
  BY DEF hidden
<1> HIDE DEF state, err, no
<1> QED
  BY <1>1, <1>3, <1>4, SetFlags


-----------------------------------------------------------------------------
(* Nested calls *)

LEMMA ArgsFields ==
    ASSUME NEW A, ArgsOK(A)
    PROVE  /\ A.key \in Keys /\ A.branch \in SUBSET Keys /\ A.isDerived \in BOOLEAN
           /\ A.value \in OptValues(A.key) /\ A.base = baseOf(A.key)
           /\ A.isDerived <=> A.key \in DerivedKeys
BY DEF ArgsOK, Args

LEMMA DerivedArgs ==
    ASSUME NEW A, ArgsOK(A), NEW d \in DerivedOf(A.key), NEW v \in OptValues(d),
           NEW D, D = derivedArgs(A, d, v)
    PROVE  ArgsOK(D) /\ D.branch = A.branch
<1>1. A \in Args /\ A.key \in Keys /\ A.base = baseOf(A.key)
  BY DEF ArgsOK, Args
<1>2. d \in DerivedKeys /\ d \in Keys /\ baseOf(d) = A.key /\ A.key \in BaseKeys
  BY <1>1, KeyKinds
<1>3. v \in Values /\ A.base = baseOf(d)
  BY <1>1, <1>2, ValueType DEF baseOf
<1>4. /\ D \in Args /\ D.key = d /\ D.value = v /\ D.base = A.base /\ D.isDerived = TRUE
      /\ D.branch = A.branch
  BY <1>1, <1>2, <1>3 DEF derivedArgs, Args
<1> QED
  BY <1>2, <1>3, <1>4 DEF ArgsOK

LEMMA DepUpdateArgs ==
    ASSUME NEW A, ArgsOK(A), NEW k \in Keys, NEW n, NEW seq, NodeOK(n, k, seq),
           NEW D, D = depUpdateArgs(A, k, n)
    PROVE  ArgsOK(D) /\ D.branch = A.branch
<1>1. A \in Args
  BY DEF ArgsOK
<1> DEFINE v == IF n.upd = NoUpdate THEN n.value ELSE n.upd.value
           der == n.base # k
<1>2. v \in OptValues(k) /\ n.base = baseOf(k)
  BY DEF NodeOK, NodeRaw
<1>3. v \in Values /\ n.base \in Keys /\ der \in BOOLEAN /\ (der <=> k \in DerivedKeys)
  BY <1>2, ValueType, KeyKinds
<1>4. D = [A EXCEPT !.key = k, !.origin = "NB", !.value = v, !.base = n.base, !.isDerived = der,
                    !.isDepUpdate = TRUE]
  BY DEF depUpdateArgs
<1> HIDE DEF v, der
<1>5. D \in Args /\ D.key = k /\ D.value = v /\ D.base = n.base /\ D.isDerived = der
      /\ D.branch = A.branch
  BY <1>1, <1>3, <1>4 DEF Args
<1> QED
  BY <1>2, <1>3, <1>5 DEF ArgsOK

LEMMA RecStep ==
    ASSUME NEW rec, NEW T, RecOK(rec, T), NEW S, NEW B, NEW r, Kept(r, S, T, B),
           NEW A, ArgsOK(A), A.branch = B, NEW q, q = orErr(rec[A][r.s], r.err)
    PROVE  Kept(q, S, T, B)
<1>1. A \in Args /\ r.s \in ExecStates /\ Good(r.s, T) /\ r.err \in BOOLEAN /\ Frame(S, r.s, B)
  BY DEF ArgsOK, Kept, Results, Good
<1> DEFINE p == rec[A][r.s]
           e == r.err
<1>2. Kept(p, r.s, T, B)
  BY <1>1 DEF RecOK
<1>3. q = [p EXCEPT !.err = @ \/ e] /\ e \in BOOLEAN
  BY <1>1 DEF orErr
<1> HIDE DEF p, e
<1>4. p \in Results /\ Good(p.s, T) /\ Frame(r.s, p.s, B)
  BY <1>2 DEF Kept
<1>5. q \in Results /\ q.s = p.s
  BY <1>3, <1>4 DEF Results
<1>6. Frame(S, p.s, B)
  BY <1>1, <1>4, FrameTrans
<1> QED
  BY <1>4, <1>5, <1>6 DEF Kept

LEMMA ApplyDerived ==
    ASSUME NEW rec, NEW T, RecOK(rec, T), NEW S, Good(S, T), NEW A, ArgsOK(A),
           NEW vals, DOMAIN vals \subseteq DerivedOf(A.key),
           \A d \in DOMAIN vals : vals[d] \in OptValues(d), NEW check
    PROVE  Kept(applyDerived(rec, S, A, vals, check), S, T, A.branch)
<1> DEFINE K == DOMAIN vals
           B == A.branch
           one(k, r) == IF check /\ ~validDerivedKV(r.s.g, k, vals[k]) THEN r
                        ELSE orErr(rec[derivedArgs(A, k, vals[k])][r.s], r.err)
           step == [k \in K |-> [r \in Results |-> one(k, r)]]
           P == {r \in Results : Kept(r, S, T, B)}
<1>1. applyDerived(rec, S, A, vals, check) = InKeyOrder(step, K, Ok(S))
  BY DEF applyDerived
<1>2. FiniteNats(K)
  <2>1. A.key \in Keys
    BY ArgsFields
  <2>2. K \in SUBSET Keys
    BY <2>1, KeyKinds
  <2> QED
    BY <2>2, KeySubset
<1>3. Ok(S) \in P
  BY OkKept DEF Kept
<1>4. ASSUME NEW k \in K, NEW q \in P PROVE step[k][q] \in P
  <2>1. q \in Results /\ Kept(q, S, T, B)
    OBVIOUS
  <2>2. step[k][q] = one(k, q)
    BY <2>1
  <2>3. CASE one(k, q) = q
    BY <2>2, <2>3
  <2>4. CASE one(k, q) = orErr(rec[derivedArgs(A, k, vals[k])][q.s], q.err)
    <3> DEFINE D == derivedArgs(A, k, vals[k])
    <3>1. k \in DerivedOf(A.key) /\ vals[k] \in OptValues(k)
      OBVIOUS
    <3>2. ArgsOK(D) /\ D.branch = B
      BY <3>1, DerivedArgs
    <3> HIDE DEF D
    <3>3. Kept(orErr(rec[D][q.s], q.err), S, T, B)
      BY <2>1, <3>2, RecStep
    <3>4. one(k, q) = orErr(rec[D][q.s], q.err)
      BY <2>4 DEF D
    <3> QED
      BY <2>2, <3>3, <3>4 DEF Kept
  <2> QED
    BY <2>3, <2>4
<1> HIDE DEF step, K, P
<1>5. InKeyOrder(step, K, Ok(S)) \in P
  BY <1>2, <1>3, <1>4, FoldKeeps
<1> QED
  BY <1>1, <1>5 DEF P

LEMMA CountNats ==
    ASSUME NEW D \in SUBSET SUBSET Keys
    PROVE  FiniteNats(1..Cardinality(D))
<1>1. IsFiniteSet(SUBSET Keys)
  BY ExecAssumption, FS_SUBSET
<1>2. Cardinality(D) \in Nat
  BY <1>1, FS_Subset, FS_CardinalityType
<1>3. IsFiniteSet(1..Cardinality(D))
  BY <1>2, FS_Interval
<1> QED
  BY <1>2, <1>3 DEF FiniteNats

LEMMA DepUpdate ==
    ASSUME NEW rec, NEW T, RecOK(rec, T), NEW S, NEW A, ArgsOK(A), NEW k \in Keys,
           NEW r, Kept(r, S, T, A.branch), NEW forUnavailable,
           NEW q, q = depUpdate(rec, r, A, k, forUnavailable)
    PROVE  Kept(q, S, T, A.branch)
<1>1. CASE q = r
  BY <1>1
<1>2. CASE /\ q = orErr(rec[depUpdateArgs(A, k, r.s.g[k])][r.s], r.err)
           /\ valueStateToOrigin(getNodeState(r.s.g, k)) = "NB"
  <2> DEFINE n == r.s.g[k]
             D == depUpdateArgs(A, k, n)
  <2>1. n # NoNode
    BY <1>2 DEF getNodeState, valueStateToOrigin
  <2>2. NodeOK(n, k, T.seqNum)
    BY <2>1, GoodOthers DEF Kept
  <2> HIDE DEF n
  <2>3. ArgsOK(D) /\ D.branch = A.branch
    BY <2>2, DepUpdateArgs
  <2>4. q = orErr(rec[D][r.s], r.err)
    BY <1>2 DEF n
  <2> HIDE DEF D
  <2> QED
    BY <2>3, <2>4, RecStep
<1> QED
  BY <1>1, <1>2 DEF depUpdate

LEMMA RunDepUpdates ==
    ASSUME NEW rec, NEW T, RecOK(rec, T), NEW S, Good(S, T), NEW A, ArgsOK(A), NEW forUnavailable
    PROVE  Kept(runDepUpdates(rec, S, A, forUnavailable), S, T, A.branch)
<1> DEFINE K == nodesOf(S.g)
           labels(k) == 1..Cardinality({l \in S.g[k].deps : A.key \in l})
           update(k) == [i \in labels(k) |->
                            [r \in Results |-> depUpdate(rec, r, A, k, forUnavailable)]]
           step == [k \in K |-> [r \in Results |-> InKeyOrder(update(k), labels(k), r)]]
           P == {r \in Results : Kept(r, S, T, A.branch)}
<1>1. runDepUpdates(rec, S, A, forUnavailable) = InKeyOrder(step, K, Ok(S))
  BY DEF runDepUpdates
<1>2. FiniteNats(K)
  BY KeySubset DEF nodesOf
<1>3. Ok(S) \in P
  BY OkKept DEF Kept
<1>4. ASSUME NEW k \in K, NEW q \in P PROVE step[k][q] \in P
  <2>1. q \in Results /\ k \in Keys
    BY DEF nodesOf
  <2>2. step[k][q] = InKeyOrder(update(k), labels(k), q)
    BY <2>1
  <2>3. FiniteNats(labels(k))
    <3>1. NodeOK(S.g[k], k, T.seqNum)
      BY <2>1, GoodOthers DEF nodesOf
    <3>2. {l \in S.g[k].deps : A.key \in l} \in SUBSET SUBSET Keys
      BY <3>1, NodeFields DEF NodeOK, NodeRaw
    <3> QED
      BY <3>2, CountNats
  <2>4. ASSUME NEW i \in labels(k), NEW r \in P PROVE update(k)[i][r] \in P
    <3>1. r \in Results /\ Kept(r, S, T, A.branch)
      OBVIOUS
    <3>2. update(k)[i][r] = depUpdate(rec, r, A, k, forUnavailable)
      BY <3>1
    <3> HIDE DEF update
    <3>3. Kept(update(k)[i][r], S, T, A.branch)
      BY <2>1, <3>1, <3>2, DepUpdate
    <3> QED
      BY <3>3 DEF Kept
  <2> HIDE DEF step, P, update, labels
  <2>5. InKeyOrder(update(k), labels(k), q) \in P
    BY <2>3, <2>4, FoldKeeps
  <2> QED
    BY <2>2, <2>5
<1> HIDE DEF step, K, P
<1>5. InKeyOrder(step, K, Ok(S)) \in P
  BY <1>2, <1>3, <1>4, FoldKeeps
<1> QED
  BY <1>1, <1>5 DEF P


-----------------------------------------------------------------------------
(* The operations: the value being applied is on the branch already *)

Inner(A) == ArgsOK(A) /\ A.key \in A.branch
Rest(A) == A.branch \ {A.key}

LEMMA InnerFields ==
    ASSUME NEW A, Inner(A)
    PROVE  /\ ArgsOK(A) /\ A.key \in Keys /\ A.key \in A.branch /\ A.branch \subseteq Keys
           /\ A.key \notin Rest(A) /\ Rest(A) \subseteq Keys /\ Rest(A) \subseteq A.branch
           /\ A.isDerived \in BOOLEAN /\ A.value \in OptValues(A.key)
BY ArgsFields DEF Inner, Rest

LEMMA FrameSub ==
    ASSUME NEW S, NEW S1, NEW B, NEW C, C \subseteq B, Frame(S, S1, B)
    PROVE  Frame(S, S1, C)
BY DEF Frame, Alone

LEMMA KeptAfter ==
    ASSUME NEW S, NEW T, NEW B, NEW S1, Frame(S, S1, B), NEW r, NEW C, Kept(r, S1, T, C), B \subseteq C
    PROVE  Kept(r, S, T, B)
<1>1. Frame(S1, r.s, B)
  BY FrameSub DEF Kept
<1>2. Frame(S, r.s, B)
  BY <1>1, FrameTrans
<1> QED
  BY <1>2 DEF Kept

\* the node of the key is still there, with the same last update
Stays(S, S1, k) == S1.g[k] # NoNode /\ S1.g[k].upd = S.g[k].upd

LEMMA ToDelete ==
    ASSUME NEW k \in Keys, NEW D \in SUBSET DerivedOf(k)
    PROVE  /\ DOMAIN toDelete(D) \subseteq DerivedOf(k)
           /\ \A d \in DOMAIN toDelete(D) : toDelete(D)[d] \in OptValues(d)
<1>1. \A d \in D : d \in Keys
  BY KeyKinds
<1> QED
  BY <1>1, ValueType DEF toDelete

LEMMA NewRelations ==
    ASSUME NEW rec, NEW T, RecOK(rec, T), NEW A, Inner(A), NEW S, Good(S, T), S.g[A.key] # NoNode,
           NEW v \in OptValues(A.key), NEW updateDeps,
           NEW r, r = applyNewRelations(rec, S, T, A, v, updateDeps)
    PROVE  Kept(r, S, T, Rest(A)) /\ Stays(S, r.s, A.key)
<1> DEFINE k == A.key
           old == IF A.isDerived THEN {} ELSE DOMAIN derivedValues(T, k, v)
           new == IF A.isDerived THEN {} ELSE DOMAIN derivedValues(T, k, S.g[k].value)
           S1 == IF updateDeps \/ old # new THEN setRelations(S, T, k, new) ELSE S
           none == FALSE
<1>1. r = IF A.isDerived /\ ~updateDeps THEN Ok(S)
          ELSE applyDerived(rec, S1, A, toDelete(old \ new), none)
  BY DEF applyNewRelations
<1>2. k \in Keys /\ ArgsOK(A) /\ Rest(A) \subseteq Keys /\ Rest(A) \subseteq A.branch /\ k \notin Rest(A)
      /\ k \in A.branch
  BY InnerFields
<1>3. old \in SUBSET DerivedOf(k) /\ new \in SUBSET DerivedOf(k)
  <2>1. S.g[k].value \in OptValues(k)
    BY <1>2, GoodOthers DEF NodeOK, NodeRaw
  <2>2. DOMAIN derivedValues(T, k, v) \subseteq DerivedOf(k)
    BY <1>2, DerivedValuesType
  <2>3. DOMAIN derivedValues(T, k, S.g[k].value) \subseteq DerivedOf(k)
    BY <1>2, <2>1, DerivedValuesType
  <2> QED
    BY <2>2, <2>3
<1> HIDE DEF old, new, none
<1>4. Good(S1, T) /\ Frame(S, S1, Rest(A)) /\ Stays(S, S1, k)
  <2>1. CASE S1 = S
    BY <2>1, FrameSame DEF Stays
  <2>2. CASE S1 = setRelations(S, T, k, new)
    <3> HIDE DEF S1
    <3> QED
      BY <1>2, <1>3, <2>2, SetRelations DEF Stays
  <2> QED
    BY <2>1, <2>2
<1> HIDE DEF S1
<1>5. CASE r = Ok(S)
  BY <1>5, OkKept DEF Ok, Stays
<1>6. CASE r = applyDerived(rec, S1, A, toDelete(old \ new), none)
  <2>1. old \ new \in SUBSET DerivedOf(k)
    BY <1>3
  <2> DEFINE vals == toDelete(old \ new)
  <2>2. DOMAIN vals \subseteq DerivedOf(k) /\ \A d \in DOMAIN vals : vals[d] \in OptValues(d)
    BY <1>2, <2>1, ToDelete
  <2> HIDE DEF vals
  <2>3. Kept(applyDerived(rec, S1, A, vals, none), S1, T, A.branch)
    BY <1>2, <1>4, <2>2, ApplyDerived
  <2>4. Kept(r, S1, T, A.branch)
    BY <1>6, <2>3 DEF vals
  <2>5. Kept(r, S, T, Rest(A))
    BY <1>2, <1>4, <2>4, KeptAfter
  <2>6. r.s.g[k] = S1.g[k]
    BY <1>2, <2>4 DEF Kept, Frame, Alone
  <2> QED
    BY <1>4, <2>5, <2>6 DEF Stays
<1> QED
  BY <1>1, <1>5, <1>6

LEMMA DeleteDependents ==
    ASSUME NEW rec, NEW T, RecOK(rec, T), NEW A, Inner(A), NEW S, Good(S, T), S.g[A.key] # NoNode,
           NEW r, r = deleteDependents(rec, S, A)
    PROVE  Kept(r, S, T, A.branch)
<1> DEFINE k == A.key
           none == FALSE
           vals == toDelete(getDerivedKeys(S.g, k))
           q == IF A.isDerived THEN Ok(S) ELSE applyDerived(rec, S, A, vals, none)
           p == runDepUpdates(rec, q.s, A, none)
<1>1. r = IF q.err THEN q ELSE p
  BY DEF deleteDependents, then
<1>2. k \in Keys /\ ArgsOK(A)
  BY InnerFields
<1>3. getDerivedKeys(S.g, k) \in SUBSET DerivedOf(k)
  BY <1>2, GoodOthers DEF getDerivedKeys, NodeOK, NodeRaw
<1>4. DOMAIN vals \subseteq DerivedOf(k) /\ \A d \in DOMAIN vals : vals[d] \in OptValues(d)
  BY <1>2, <1>3, ToDelete
<1> HIDE DEF vals, none
<1>5. Kept(q, S, T, A.branch)
  <2>1. Kept(applyDerived(rec, S, A, vals, none), S, T, A.branch)
    BY <1>2, <1>4, ApplyDerived
  <2>2. Kept(Ok(S), S, T, A.branch)
    BY OkKept
  <2> QED
    BY <2>1, <2>2
<1> HIDE DEF q
<1>6. Good(q.s, T) /\ Frame(S, q.s, A.branch)
  BY <1>5 DEF Kept
<1>7. Kept(p, q.s, T, A.branch)
  BY <1>2, <1>6, RunDepUpdates
<1> HIDE DEF p
<1>8. Kept(p, S, T, A.branch)
  BY <1>6, <1>7, KeptAfter
<1> QED
  BY <1>1, <1>5, <1>8


LEMMA CallDelete ==
    ASSUME NEW T, NEW A, Inner(A), NEW S, Good(S, T), S.g[A.key] # NoNode, ~S.g[A.key].avail,
           NEW pending, NEW recreate, NEW r, r = callDelete(S, T, A, pending, recreate)
    PROVE  /\ Kept(r, S, T, Rest(A)) /\ HonestAt(r.s, A.key)
           /\ pending \/ recreate => Stays(S, r.s, A.key)
<1>1. ArgsOK(A) /\ A.key \notin Rest(A) /\ Rest(A) \subseteq Keys
  BY InnerFields
<1> DEFINE state == failedState(T, A, S.g[A.key])
           no == FALSE
<1>2. state \in ErrStates /\ MayRetry(T, A.key, state)
  BY <1>1, FailedState
<1>3. no \in BOOLEAN
  OBVIOUS
<1>4. r = failed(S, T, A, state, no) \/ r = removed(S, A, pending, recreate)
  BY DEF callDelete
<1> HIDE DEF state, no
<1>5. CASE r = failed(S, T, A, state, no)
  BY <1>1, <1>2, <1>3, <1>5, Failed DEF Stays
<1>6. CASE r = removed(S, A, pending, recreate)
  <2>1. Kept(r, S, T, Rest(A)) /\ HonestAt(r.s, A.key)
    BY <1>1, <1>6, Removed
  <2>2. pending \/ recreate => Stays(S, r.s, A.key)
    BY <1>1, <1>6, Removed DEF Stays
  <2> QED
    BY <2>1, <2>2
<1> QED
  BY <1>4, <1>5, <1>6

LEMMA DeleteAlone ==
    ASSUME NEW rec, NEW T, RecOK(rec, T), NEW A, Inner(A), NEW S, Good(S, T),
           S.g[A.key] # NoNode, S.g[A.key].avail, NEW pending, NEW recreate,
           NEW r, r = deleteAlone(deleteDependents(rec, hidden(S, A, pending), A),
                                  T, A, S.g[A.key], pending, recreate)
    PROVE  Kept(r, S, T, Rest(A)) /\ (pending \/ recreate => Stays(S, r.s, A.key))
<1> DEFINE k == A.key
           n == S.g[k]
           B == Rest(A)
           S1 == hidden(S, A, pending)
           q == deleteDependents(rec, S1, A)
           yes == TRUE
           S2 == setFlags(q.s, k, n.state, yes, n.err)
           S3 == afterCall(q.s, T, A, "DELETE", Nil)
<1>1. r = IF q.err THEN [q EXCEPT !.s = S2] ELSE callDelete(S3, T, A, pending, recreate)
  BY DEF deleteAlone
<1>2. k \in Keys /\ ArgsOK(A) /\ k \in A.branch /\ k \notin B /\ B \subseteq Keys /\ B \subseteq A.branch
  BY InnerFields
<1> HIDE DEF B
<1>3. Good(S1, T) /\ Loose(S, S1, B, k) /\ Stays(S, S1, k) /\ S1.exec = S.exec /\ ~S1.g[k].avail
  BY <1>2, Hidden DEF Stays
<1> HIDE DEF S1
<1>4. Kept(q, S1, T, A.branch)
  BY <1>3, DeleteDependents DEF Stays
<1> HIDE DEF q
<1>5. Loose(S, q.s, B, k)
  BY <1>2, <1>3, <1>4, LooseThen DEF Kept
<1>6. Stays(S, q.s, k) /\ (k \in q.s.exec <=> k \in S.exec) /\ ~q.s.g[k].avail
  BY <1>2, <1>3, <1>4 DEF Kept, Frame, Alone, Stays
<1>7. Good(q.s, T) /\ q \in Results
  BY <1>4 DEF Kept
<1>8. CASE q.err
  <2>1. NodeOK(n, k, T.seqNum) /\ n \in Nodes
        /\ (k \in S.exec /\ n.state = "RETRYING" => Allowed(T, k))
    BY <1>2, GoodOthers DEF NodeOK, NodeRaw
  <2> DEFINE state == n.state
             err == n.err
  <2>2. StateOK(q.s.g[k], k, state) /\ RetryState(q.s, T, k, state) /\ err \in BOOLEAN /\ yes \in BOOLEAN
    BY <1>6, <2>1, NodeFields DEF StateOK, RetryState, NodeOK, NodeRaw, Stays
  <2>3. S2 = setFlags(q.s, k, state, yes, err) /\ q.s.g[k] # NoNode
    BY <1>6 DEF Stays
  <2>4. r = [q EXCEPT !.s = S2]
    BY <1>1, <1>8
  <2>h. HonestAt(S, k) => HonestFlags(state, yes, err)
    BY DEF HonestAt, Honest, HonestFlags
  <2> HIDE DEF S2, state, err, yes
  <2>5. Good(S2, T) /\ Loose(q.s, S2, B, k) /\ Stays(q.s, S2, k)
        /\ (HonestFlags(state, yes, err) => HonestAt(S2, k))
    BY <1>2, <1>7, <2>2, <2>3, SetFlags DEF Stays
  <2>l. Loose(S, S2, B, k)
    BY <1>5, <2>5 DEF Loose, Alone, Truer
  <2>6. Frame(S, S2, B)
    BY <2>h, <2>5, <2>l, LooseHonest
  <2>7. r \in Results /\ r.s = S2
    BY <1>7, <2>4, <2>5 DEF Results, Good
  <2> QED
    BY <1>6, <2>5, <2>6, <2>7 DEF Kept, Stays, B
<1>9. CASE ~q.err
  <2>0. Nil \in OptValues(k)
    BY <1>2, ValueType
  <2>1. Good(S3, T) /\ S3.g = q.s.g /\ S3.exec = q.s.exec
    <3> DEFINE v == Nil
               op == "DELETE"
    <3>1. v \in OptValues(k) /\ S3 = afterCall(q.s, T, A, op, v)
      BY <2>0
    <3> HIDE DEF v, op, S3
    <3> QED
      BY <1>2, <1>7, <3>1, AfterCall
  <2>2. r = callDelete(S3, T, A, pending, recreate)
    BY <1>1, <1>9
  <2> HIDE DEF S3
  <2>3. Loose(S, S3, B, k) /\ Stays(S, S3, k) /\ ~S3.g[k].avail
    BY <1>5, <1>6, <2>1 DEF Loose, Alone, Truer, HonestAt, Stays
  <2>4. Kept(r, S3, T, B) /\ HonestAt(r.s, k) /\ (pending \/ recreate => Stays(S3, r.s, k))
    BY <2>1, <2>2, <2>3, CallDelete DEF Stays, B
  <2>l. Loose(S, r.s, B, k)
    BY <2>3, <2>4, LooseThen DEF Kept
  <2>5. Kept(r, S, T, B)
    BY <2>4, <2>l, LooseHonest DEF Kept
  <2> QED
    BY <2>3, <2>4, <2>5 DEF Stays, B
<1> QED
  BY <1>8, <1>9 DEF B

LEMMA ApplyDelete ==
    ASSUME NEW rec, NEW T, RecOK(rec, T), NEW A, Inner(A), NEW S, Others(S, T, A.key),
           S.g[A.key] # NoNode, S.g[A.key].value # Nil => Good(S, T),
           NEW pending, NEW recreate, NEW r, r = applyDelete(rec, S, T, A, pending, recreate)
    PROVE  /\ Kept(r, S, T, Rest(A))
           /\ S.g[A.key].value # Nil /\ (pending \/ recreate) => Stays(S, r.s, A.key)
<1> DEFINE k == A.key
<1>1. k \in Keys /\ ArgsOK(A) /\ k \notin Rest(A) /\ Rest(A) \subseteq Keys
  BY InnerFields
<1>2. CASE S.g[k].value = Nil
  <2> DEFINE S1 == [S EXCEPT !.g = DeleteNode(@, k)]
  <2>1. r = Ok(S1)
    BY <1>2 DEF applyDelete
  <2>2. Dropped(S, S1, k)
    BY DEF Dropped
  <2> HIDE DEF S1
  <2>3. Good(S1, T) /\ Frame(S, S1, Rest(A))
    BY <1>1, <2>2, DropNode
  <2>4. Kept(r, S1, T, Rest(A))
    BY <2>1, <2>3, OkKept
  <2>5. Kept(r, S, T, Rest(A))
    BY <2>3, <2>4, KeptAfter
  <2> QED
    BY <1>2, <2>5
<1>3. CASE S.g[k].value # Nil /\ ~S.g[k].avail
  <2>1. r = removed(S, A, pending, recreate)
    BY <1>3 DEF applyDelete
  <2> QED
    BY <1>1, <1>3, <2>1, Removed DEF Stays
<1>4. CASE S.g[k].value # Nil /\ S.g[k].avail
  <2>1. r = deleteAlone(deleteDependents(rec, hidden(S, A, pending), A),
                        T, A, S.g[k], pending, recreate)
    BY <1>4 DEF applyDelete
  <2> QED
    BY <1>4, <2>1, DeleteAlone
<1> QED
  BY <1>2, <1>3, <1>4


LEMMA Unavail ==
    ASSUME NEW T, NEW A, Inner(A), NEW S, Good(S, T), S.g[A.key] # NoNode,
           NEW state, StateOK(S.g[A.key], A.key, state), state \in {"PENDING", "UNIMPLEMENTED"},
           NEW r, r = unavail(S, A.key, state)
    PROVE  Kept(r, S, T, Rest(A))
<1> DEFINE k == A.key
           no == FALSE
           S1 == recordOp(setFlags(S, k, state, no, no), k)
<1>1. k \in Keys /\ k \notin Rest(A) /\ Rest(A) \subseteq Keys
  BY InnerFields
<1>2. r = Ok(S1) /\ no \in BOOLEAN /\ HonestFlags(state, no, no) /\ MayRetry(T, k, state)
  BY DEF unavail, HonestFlags, ErrStates, MayRetry
<1> HIDE DEF no
<1>3. Good(S1, T) /\ Frame(S, S1, Rest(A))
  BY <1>1, <1>2, FlagsRecorded
<1> HIDE DEF S1
<1>4. Kept(r, S1, T, Rest(A))
  BY <1>2, <1>3, OkKept
<1> QED
  BY <1>3, <1>4, KeptAfter

LEMMA FinalState ==
    ASSUME NEW n, NEW k, NEW T, NEW A, NEW S, NEW state, state = finalState(A)
    PROVE  /\ StateOK(n, k, state) /\ MayRetry(T, k, state) /\ RetryState(S, T, k, state)
           /\ HonestFlags(state, TRUE, FALSE)
BY DEF finalState, StateOK, States, MayRetry, RetryState, HonestFlags, ErrStates

LEMMA InPlace ==
    ASSUME NEW T, NEW A, Inner(A), NEW S, Good(S, T), S.g[A.key] # NoNode,
           NEW S1, S1 = inPlace(S, A) \/ S1 = recordOp(inPlace(S, A), A.key)
    PROVE  Good(S1, T) /\ Frame(S, S1, Rest(A)) /\ Stays(S, S1, A.key)
<1> DEFINE k == A.key
           no == FALSE
           yes == TRUE
           state == finalState(A)
           S2 == setFlags(S, k, state, yes, no)
<1>1. k \in Keys /\ k \notin Rest(A) /\ Rest(A) \subseteq Keys
  BY InnerFields
<1>2. no \in BOOLEAN /\ yes \in BOOLEAN /\ (S1 = S2 \/ S1 = recordOp(S2, k))
  BY DEF inPlace
<1>3. /\ StateOK(S.g[k], k, state) /\ MayRetry(T, k, state) /\ RetryState(S, T, k, state)
      /\ HonestFlags(state, yes, no)
  BY FinalState
<1> HIDE DEF no, yes, state
<1>4. CASE S1 = S2
  BY <1>1, <1>2, <1>3, <1>4, SetFlags DEF Stays
<1>5. CASE S1 = recordOp(S2, k)
  BY <1>1, <1>2, <1>3, <1>5, FlagsRecorded DEF Stays
<1> QED
  BY <1>2, <1>4, <1>5

LEMMA OwnDerived ==
    ASSUME NEW rec, NEW T, RecOK(rec, T), NEW A, Inner(A), NEW S, Good(S, T),
           NEW r, r = applyOwnDerived(rec, S, T, A)
    PROVE  Kept(r, S, T, A.branch)
<1>1. ArgsOK(A) /\ A.key \in Keys /\ A.value \in OptValues(A.key)
  BY InnerFields
<1> DEFINE vals == derivedValues(T, A.key, A.value)
           yes == TRUE
<1>2. DOMAIN vals \subseteq DerivedOf(A.key) /\ \A d \in DOMAIN vals : vals[d] \in OptValues(d)
  BY <1>1, DerivedValuesType
<1>3. r = Ok(S) \/ r = applyDerived(rec, S, A, vals, yes)
  BY DEF applyOwnDerived
<1> HIDE DEF vals, yes
<1>4. Kept(applyDerived(rec, S, A, vals, yes), S, T, A.branch)
  BY <1>1, <1>2, ApplyDerived
<1> QED
  BY <1>3, <1>4, OkKept

LEMMA CallCreate ==
    ASSUME NEW rec, NEW T, RecOK(rec, T), NEW A, Inner(A), NEW S, Good(S, T), S.g[A.key] # NoNode,
           NEW r, r = callCreate(rec, S, T, A)
    PROVE  Kept(r, S, T, Rest(A))
<1> DEFINE k == A.key
           yes == TRUE
           S1 == recordOp(inPlace(S, A), k)
           q == runDepUpdates(rec, S1, A, yes)
           p == applyOwnDerived(rec, q.s, T, A)
           state == failedState(T, A, S.g[k])
           no == FALSE
<1>1. r = IF fails(T, A, "CREATE") THEN failed(S, T, A, state, no) ELSE IF q.err THEN q ELSE p
  BY DEF callCreate, then
<1>2. ArgsOK(A) /\ k \notin Rest(A) /\ Rest(A) \subseteq Keys /\ Rest(A) \subseteq A.branch
      /\ no \in BOOLEAN
  BY InnerFields
<1>3. state \in ErrStates /\ MayRetry(T, k, state)
  BY <1>2, FailedState
<1> HIDE DEF state, no, yes
<1>4. Kept(failed(S, T, A, state, no), S, T, Rest(A))
  BY <1>2, <1>3, Failed
<1>5. Good(S1, T) /\ Frame(S, S1, Rest(A))
  BY InPlace
<1> HIDE DEF S1
<1>6. Kept(q, S1, T, A.branch)
  BY <1>2, <1>5, RunDepUpdates
<1> HIDE DEF q
<1>7. Kept(q, S, T, Rest(A)) /\ Good(q.s, T) /\ Frame(S, q.s, Rest(A))
  BY <1>2, <1>5, <1>6, KeptAfter DEF Kept
<1>8. Kept(p, q.s, T, A.branch)
  BY <1>7, OwnDerived
<1> HIDE DEF p
<1>9. Kept(p, S, T, Rest(A))
  BY <1>2, <1>7, <1>8, KeptAfter
<1> QED
  BY <1>1, <1>4, <1>7, <1>9

LEMMA CreateIfReady ==
    ASSUME NEW rec, NEW T, RecOK(rec, T), NEW A, Inner(A), NEW S, Good(S, T), S.g[A.key] # NoNode,
           NEW r, r = createIfReady(rec, S, T, A)
    PROVE  Kept(r, S, T, Rest(A))
<1> DEFINE state == "PENDING"
           op == "CREATE"
           v == A.value
           S1 == afterCall(S, T, A, op, v)
<1>1. ArgsOK(A) /\ v \in OptValues(A.key)
  BY InnerFields
<1>2. r = unavail(S, A.key, state) \/ r = callCreate(rec, S1, T, A)
  BY DEF createIfReady
<1>3. StateOK(S.g[A.key], A.key, state) /\ state \in {"PENDING", "UNIMPLEMENTED"}
  BY DEF StateOK, States
<1> HIDE DEF state, op, v
<1>4. CASE r = unavail(S, A.key, state)
  BY <1>3, <1>4, Unavail
<1>5. CASE r = callCreate(rec, S1, T, A)
  <2>1. Good(S1, T) /\ S1.g = S.g /\ S1.exec = S.exec
    BY <1>1, AfterCall
  <2> HIDE DEF S1
  <2>2. Kept(r, S1, T, Rest(A))
    BY <1>5, <2>1, CallCreate
  <2>3. Frame(S, S1, Rest(A))
    BY <2>1, FrameSame, FrameEqual
  <2> QED
    BY <2>2, <2>3, KeptAfter
<1> QED
  BY <1>2, <1>4, <1>5

\* The node of k may be a new one.
RawAt(S, T, k) ==
    /\ Others(S, T, k) /\ S.g[k] # NoNode /\ NodeRaw(S.g[k], k, T.seqNum)
    /\ RetryState(S, T, k, S.g[k].state)

LEMMA GoodRaw ==
    ASSUME NEW S, NEW T, Good(S, T), NEW k \in Keys, S.g[k] # NoNode
    PROVE  RawAt(S, T, k)
BY GoodOthers DEF RawAt, NodeOK, RetryState

LEMMA WithValue ==
    ASSUME NEW T, NEW A, Inner(A), NEW S, RawAt(S, T, A.key), NEW S1, S1 = withValue(S, T, A)
    PROVE  /\ Good(S1, T) /\ Frame(S, S1, Rest(A)) /\ Stays(S, S1, A.key)
           /\ S1.g[A.key].value = A.value
<1> DEFINE k == A.key
           n == S.g[k]
           d == n.descr \/ hasDescriptor(T, k)
           b == IF A.isDerived THEN A.base ELSE n.base
           m == [n EXCEPT !.value = A.value, !.descr = d, !.base = b]
<1>1. k \in Keys /\ ArgsOK(A) /\ k \notin Rest(A) /\ Rest(A) \subseteq Keys /\ A.value \in OptValues(k)
  BY InnerFields
<1>2. S1 = [S EXCEPT !.g[k] = m]
  BY DEF withValue
<1>3. Others(S, T, k) /\ NodeRaw(n, k, T.seqNum) /\ n \in Nodes /\ RetryState(S, T, k, n.state)
      /\ S \in ExecStates /\ SBOK(S.sb)
  BY DEF RawAt, NodeRaw, Others
<1> HIDE DEF n
<1>4. b = baseOf(k) /\ b \in Keys
  <2>1. A.base = baseOf(k) /\ (A.isDerived <=> k \in DerivedKeys) /\ A.isDerived \in BOOLEAN
    BY <1>1, ArgsFields
  <2>2. k \in BaseKeys => n.base = k
    BY <1>3 DEF NodeRaw
  <2>3. b = baseOf(k)
    BY <1>1, <2>1, <2>2, KeyKinds DEF baseOf
  <2> QED
    BY <1>1, <2>3, KeyKinds
<1>5. d \in BOOLEAN /\ A.value \in Values
  BY <1>1, ValueType
<1> HIDE DEF b, d
<1>6. /\ m \in Nodes /\ m.value = A.value /\ m.state = n.state /\ m.upd = n.upd /\ m.base = b
      /\ m.derives = n.derives /\ m.avail = n.avail /\ m.err = n.err
  BY <1>3, <1>4, <1>5 DEF Nodes
<1> HIDE DEF m
<1>7. NodeOK(m, k, T.seqNum) /\ m # NoNode
  BY <1>1, <1>3, <1>4, <1>6, KeyKinds, NodeNotNil DEF NodeOK, NodeRaw, baseOf
<1>8. Changed(S, S1, k, m) /\ S1.exec = S.exec
  BY <1>1, <1>2, <1>3, <1>6, NodePut
<1>9. m.state = "RETRYING" /\ k \in S1.exec => Allowed(T, k)
  BY <1>3, <1>6, <1>8 DEF RetryState
<1>h. StaysHonest(S, k, m)
  <2>1. n # NoNode
    BY <1>3, NodeNotNil
  <2> QED
    BY <1>6, <2>1 DEF StaysHonest, HonestAt, Honest, n
<1>10. Good(S1, T) /\ S1.g[k] = m /\ \A B : k \notin B /\ B \subseteq Keys => Frame(S, S1, B)
  BY <1>1, <1>3, <1>7, <1>8, <1>9, <1>h, ChangedGood
<1>11. Frame(S, S1, Rest(A))
  BY <1>1, <1>10
<1> QED
  BY <1>6, <1>7, <1>10, <1>11 DEF Stays, n

LEMMA ApplyCreate ==
    ASSUME NEW rec, NEW T, RecOK(rec, T), NEW A, Inner(A), NEW S, RawAt(S, T, A.key),
           S.g[A.key].upd # NoUpdate \/ hasDescriptor(T, A.key),
           NEW r, r = applyCreate(rec, S, T, A)
    PROVE  Kept(r, S, T, Rest(A))
<1> DEFINE k == A.key
           S1 == withValue(S, T, A)
           none == Nil
           yes == TRUE
           no == FALSE
           q == applyNewRelations(rec, S1, T, A, none, yes)
           unimpl == "UNIMPLEMENTED"
           inv == "INVALID"
           unimplemented == A.origin = "NB" /\ ~A.isDerived /\ ~hasDescriptor(T, k)
<1>1. \/ unimplemented /\ r = Ok(S1)
      \/ unimplemented /\ r = unavail(S1, k, unimpl)
      \/ r = failed(S1, T, A, inv, no)
      \/ r = createIfReady(rec, q.s, T, A)
  BY DEF applyCreate
<1>2. k \in Keys /\ ArgsOK(A) /\ k \notin Rest(A) /\ Rest(A) \subseteq Keys /\ none \in OptValues(k)
      /\ (k \in DerivedKeys <=> A.isDerived) /\ (k \in DerivedKeys <=> k \notin BaseKeys)
      /\ no \in BOOLEAN
  <2>1. k \in Keys /\ ArgsOK(A)
    BY InnerFields
  <2>2. (k \in DerivedKeys <=> A.isDerived) /\ none \in OptValues(k)
    BY <2>1, ArgsFields, ValueType
  <2> QED
    BY <2>1, <2>2, InnerFields, KeyKinds
<1>3. Good(S1, T) /\ Frame(S, S1, Rest(A)) /\ Stays(S, S1, k)
  BY WithValue
<1>4. inv \in ErrStates /\ MayRetry(T, k, inv) /\ unimpl \in {"PENDING", "UNIMPLEMENTED"}
  BY DEF ErrStates, MayRetry
<1>5. unimplemented => StateOK(S1.g[k], k, unimpl)
  BY <1>2, <1>3 DEF StateOK, States, Stays
<1> HIDE DEF S1, none, yes, no, unimpl, inv, unimplemented
<1>6. CASE r = Ok(S1)
  <2>1. Kept(r, S1, T, Rest(A))
    BY <1>3, <1>6, OkKept
  <2> QED
    BY <1>3, <2>1, KeptAfter
<1>7. CASE unimplemented /\ r = unavail(S1, k, unimpl)
  <2>1. Kept(r, S1, T, Rest(A))
    BY <1>3, <1>4, <1>5, <1>7, Unavail DEF Stays
  <2> QED
    BY <1>3, <2>1, KeptAfter
<1>8. CASE r = failed(S1, T, A, inv, no)
  <2>1. Kept(r, S1, T, Rest(A))
    BY <1>2, <1>3, <1>4, <1>8, Failed DEF Stays
  <2> QED
    BY <1>3, <2>1, KeptAfter
<1>9. CASE r = createIfReady(rec, q.s, T, A)
  <2>1. Kept(q, S1, T, Rest(A)) /\ Stays(S1, q.s, k)
    BY <1>2, <1>3, NewRelations DEF Stays
  <2> HIDE DEF q
  <2>2. Good(q.s, T) /\ q.s.g[k] # NoNode /\ Frame(S1, q.s, Rest(A))
    BY <2>1 DEF Kept, Stays
  <2>3. Kept(r, q.s, T, Rest(A))
    BY <1>9, <2>2, CreateIfReady
  <2>4. Kept(r, S1, T, Rest(A))
    BY <2>2, <2>3, KeptAfter
  <2> QED
    BY <1>3, <2>4, KeptAfter
<1> QED
  BY <1>1, <1>6, <1>7, <1>8, <1>9


LEMMA CallUpdate ==
    ASSUME NEW rec, NEW T, RecOK(rec, T), NEW A, Inner(A), NEW S, Good(S, T), S.g[A.key] # NoNode,
           NEW n, NEW r, r = callUpdate(rec, S, T, A, n)
    PROVE  Kept(r, S, T, Rest(A))
<1> DEFINE k == A.key
           state == failedState(T, A, S.g[k])
           avail == S.g[k].avail
           S1 == IF inSync(n, A) THEN inPlace(S, A) ELSE recordOp(inPlace(S, A), k)
<1>1. r = failed(S, T, A, state, avail) \/ r = applyOwnDerived(rec, S1, T, A)
  BY DEF callUpdate
<1>2. k \in Keys /\ ArgsOK(A) /\ k \notin Rest(A) /\ Rest(A) \subseteq Keys /\ Rest(A) \subseteq A.branch
  BY InnerFields
<1>3. state \in ErrStates /\ MayRetry(T, k, state)
  BY <1>2, FailedState
<1>4. avail \in BOOLEAN
  BY <1>2, GoodOthers, NodeFields DEF NodeOK, NodeRaw
<1> HIDE DEF state, avail
<1>5. Kept(failed(S, T, A, state, avail), S, T, Rest(A))
  BY <1>2, <1>3, <1>4, Failed
<1>6. Good(S1, T) /\ Frame(S, S1, Rest(A))
  <2>1. S1 = inPlace(S, A) \/ S1 = recordOp(inPlace(S, A), k)
    OBVIOUS
  <2> HIDE DEF S1
  <2> QED
    BY <2>1, InPlace
<1> HIDE DEF S1
<1>7. Kept(applyOwnDerived(rec, S1, T, A), S1, T, A.branch)
  BY <1>6, OwnDerived
<1>8. Kept(applyOwnDerived(rec, S1, T, A), S, T, Rest(A))
  BY <1>2, <1>6, <1>7, KeptAfter
<1> QED
  BY <1>1, <1>5, <1>8

\* r is left with the value v for k
LEMMA ResultValue ==
    ASSUME NEW T, NEW A, Inner(A), NEW S, NEW q, Kept(q, S, T, Rest(A)), q.s.g[A.key] # NoNode,
           NEW v \in OptValues(A.key), NEW r, r = [q EXCEPT !.s = setValue(@, A.key, v)]
    PROVE  Kept(r, S, T, Rest(A))
<1> DEFINE k == A.key
           S1 == setValue(q.s, k, v)
<1>1. k \in Keys /\ k \notin Rest(A) /\ Rest(A) \subseteq Keys
  BY InnerFields
<1>2. q \in Results /\ Good(q.s, T) /\ Frame(S, q.s, Rest(A))
  BY DEF Kept
<1>3. Good(S1, T) /\ Frame(q.s, S1, Rest(A))
  BY <1>1, <1>2, SetValue
<1>4. r = [q EXCEPT !.s = S1]
  OBVIOUS
<1> HIDE DEF S1
<1>5. r \in Results /\ r.s = S1
  BY <1>2, <1>3, <1>4 DEF Results, Good
<1>6. Frame(S, S1, Rest(A))
  BY <1>2, <1>3, FrameTrans
<1> QED
  BY <1>3, <1>5, <1>6 DEF Kept

LEMMA UpdateIfReady ==
    ASSUME NEW rec, NEW T, RecOK(rec, T), NEW A, Inner(A), NEW S,
           NEW q, Kept(q, S, T, Rest(A)), q.s.g[A.key] # NoNode,
           NEW n, n.value \in OptValues(A.key), n.value # Nil,
           NEW r, r = updateIfReady(rec, q, T, A, n)
    PROVE  Kept(r, S, T, Rest(A))
<1> DEFINE k == A.key
           v == n.value
           w == A.value
           op == "UPDATE"
           yes == TRUE
           no == FALSE
           S1 == setValue(q.s, k, v)
           p == applyDelete(rec, S1, T, A, yes, no)
           S2 == IF v = w THEN q.s ELSE afterCall(q.s, T, A, op, w)
<1>1. \/ r = [q EXCEPT !.s = setValue(@, k, v)]
      \/ r = [p EXCEPT !.s = setValue(@, k, w)]
      \/ r = callUpdate(rec, S2, T, A, n)
  BY DEF updateIfReady
<1>2. k \in Keys /\ ArgsOK(A) /\ k \notin Rest(A) /\ Rest(A) \subseteq Keys
      /\ v \in OptValues(k) /\ w \in OptValues(k) /\ v # Nil
  BY InnerFields
<1>3. q \in Results /\ Good(q.s, T) /\ Frame(S, q.s, Rest(A))
  BY DEF Kept
<1>y. yes
  OBVIOUS
<1> HIDE DEF v, w, op, yes, no
<1>4. CASE r = [q EXCEPT !.s = setValue(@, k, v)]
  BY <1>2, <1>4, ResultValue
<1>5. CASE r = [p EXCEPT !.s = setValue(@, k, w)]
  <2>1. Good(S1, T) /\ Frame(q.s, S1, Rest(A)) /\ S1.g[k] # NoNode /\ S1.g[k].value = v
    BY <1>2, <1>3, SetValue
  <2>2. Others(S1, T, k)
    BY <1>2, <2>1, GoodOthers
  <2> HIDE DEF S1
  <2>3. Kept(p, S1, T, Rest(A)) /\ p.s.g[k] # NoNode
    <3>1. S1.g[k].value # Nil
      BY <1>2, <2>1
    <3>2. Kept(p, S1, T, Rest(A)) /\ Stays(S1, p.s, k)
      BY <1>y, <2>1, <2>2, <3>1, ApplyDelete
    <3> QED
      BY <3>2 DEF Stays
  <2> HIDE DEF p
  <2>4. Frame(S, S1, Rest(A))
    BY <1>3, <2>1, FrameTrans
  <2>5. Kept(p, S, T, Rest(A))
    BY <2>3, <2>4, KeptAfter
  <2> QED
    BY <1>2, <1>5, <2>3, <2>5, ResultValue
<1>6. CASE r = callUpdate(rec, S2, T, A, n)
  <2>1. Good(S2, T) /\ S2.g = q.s.g /\ S2.exec = q.s.exec
    <3> DEFINE S3 == afterCall(q.s, T, A, op, w)
    <3>1. Good(S3, T) /\ S3.g = q.s.g /\ S3.exec = q.s.exec
      BY <1>2, <1>3, AfterCall
    <3>2. S2 = q.s \/ S2 = S3
      OBVIOUS
    <3> HIDE DEF S2, S3
    <3> QED
      BY <1>3, <3>1, <3>2
  <2> HIDE DEF S2
  <2>2. Kept(r, S2, T, Rest(A))
    BY <1>6, <2>1, CallUpdate
  <2>3. Frame(S, S2, Rest(A))
    BY <1>3, <2>1, FrameEqual
  <2> QED
    BY <2>2, <2>3, KeptAfter
<1> QED
  BY <1>1, <1>4, <1>5, <1>6

Made(S, S1, k) == S1 = [S EXCEPT !.g = SetNode(@, k)]

LEMMA SetNodeRaw ==
    ASSUME NEW S, NEW T, Good(S, T), T.seqNum \in Nat, NEW k \in Keys, NEW S1, Made(S, S1, k)
    PROVE  /\ RawAt(S1, T, k) /\ S1.exec = S.exec
           /\ \A B : k \notin B /\ B \subseteq Keys => Frame(S, S1, B)
           /\ S.g[k] # NoNode => S1 = S
           /\ S.g[k] = NoNode => S1.g[k].value = Nil /\ S1.g[k].state = "NONEXISTENT"
<1>1. S \in ExecStates /\ SBOK(S.sb) /\ Others(S, T, k) /\ S.g \in Graphs
  BY GoodOthers, StateFields DEF Good
<1>2. CASE S.g[k] # NoNode
  <2>1. S1 = S
    BY <1>1, <1>2 DEF Made, SetNode, ExecStates
  <2> QED
    BY <1>2, <2>1, GoodRaw, FrameSame
<1>3. CASE S.g[k] = NoNode
  <2> DEFINE n == FreshNode(k)
  <2>1. S1 = [S EXCEPT !.g[k] = n]
    BY <1>3 DEF Made, SetNode
  <2>2. /\ n.value = Nil /\ n.state = "NONEXISTENT" /\ n.upd = NoUpdate /\ n.base = k
        /\ n.derives = {} /\ n \in Nodes /\ n.avail = TRUE /\ n.err = FALSE
    BY DEF FreshNode, Nodes, Values, States, LastUpdates
  <2> HIDE DEF n
  <2>3. NodeRaw(n, k, T.seqNum) /\ n # NoNode
    BY <2>2, NodeNotNil DEF NodeRaw, OptValues
  <2>4. Changed(S, S1, k, n) /\ S1.exec = S.exec
    BY <1>1, <2>1, <2>2, NodePut
  <2>h. StaysHonest(S, k, n)
    BY <2>2 DEF StaysHonest, Honest, HonestFlags, ErrStates
  <2>5. Others(S1, T, k) /\ S1.g[k] = n /\ \A B : k \notin B /\ B \subseteq Keys => Frame(S, S1, B)
    BY <1>1, <2>4, <2>h, ChangedOthers
  <2>6. RawAt(S1, T, k)
    BY <2>2, <2>3, <2>5 DEF RawAt, RetryState
  <2> QED
    BY <1>3, <2>2, <2>4, <2>5, <2>6
<1> QED
  BY <1>2, <1>3

LEMMA ApplyUpdate ==
    ASSUME NEW rec, NEW T, RecOK(rec, T), T.seqNum \in Nat, NEW A, Inner(A), NEW S, Good(S, T),
           S.g[A.key] # NoNode, S.g[A.key].value # Nil, NEW r, r = applyUpdate(rec, S, T, A)
    PROVE  Kept(r, S, T, Rest(A))
<1> DEFINE k == A.key
           n == S.g[k]
           v == n.value
           inv == "INVALID"
           no == FALSE
           yes == TRUE
           upd == v # A.value
           S1 == setValue(S, k, A.value)
           q == applyDelete(rec, S, T, A, no, yes)
           S2 == [q.s EXCEPT !.g = SetNode(@, k)]
           p == applyCreate(rec, S2, T, A)
           z == applyNewRelations(rec, S1, T, A, v, upd)
<1>1. \/ r = failed(S1, T, A, inv, no)
      \/ hasDescriptor(T, k) /\ (r = q \/ r = p)
      \/ r = updateIfReady(rec, z, T, A, n)
  BY DEF applyUpdate, updateWithRecreate, then
<1>2. k \in Keys /\ ArgsOK(A) /\ k \notin Rest(A) /\ Rest(A) \subseteq Keys
      /\ A.value \in OptValues(k) /\ no \in BOOLEAN
  BY InnerFields
<1>3. inv \in ErrStates /\ MayRetry(T, k, inv) /\ yes
  BY DEF ErrStates, MayRetry
<1>4. v \in OptValues(k) /\ v # Nil /\ Others(S, T, k)
  BY <1>2, GoodOthers DEF NodeOK, NodeRaw
<1> HIDE DEF n, inv, no, yes, upd
<1>5. Good(S1, T) /\ Frame(S, S1, Rest(A)) /\ S1.g[k] # NoNode
  BY <1>2, SetValue
<1>6. CASE r = failed(S1, T, A, inv, no)
  <2> HIDE DEF S1
  <2>1. Kept(r, S1, T, Rest(A))
    BY <1>2, <1>3, <1>5, <1>6, Failed
  <2> QED
    BY <1>5, <2>1, KeptAfter
<1>7. CASE hasDescriptor(T, k) /\ (r = q \/ r = p)
  <2>1. Kept(q, S, T, Rest(A))
    BY <1>4, ApplyDelete
  <2> HIDE DEF q
  <2>2. Good(q.s, T) /\ Frame(S, q.s, Rest(A))
    BY <2>1 DEF Kept
  <2>m. Made(q.s, S2, k)
    BY DEF Made
  <2> HIDE DEF S2
  <2>3. RawAt(S2, T, k) /\ Frame(q.s, S2, Rest(A))
    BY <1>2, <2>2, <2>m, SetNodeRaw
  <2>4. Kept(p, S2, T, Rest(A))
    BY <1>7, <2>3, ApplyCreate
  <2> HIDE DEF p
  <2>5. Frame(S, S2, Rest(A))
    BY <2>2, <2>3, FrameTrans
  <2>6. Kept(p, S, T, Rest(A))
    BY <2>4, <2>5, KeptAfter
  <2> QED
    BY <1>7, <2>1, <2>6
<1>8. CASE r = updateIfReady(rec, z, T, A, n)
  <2> HIDE DEF S1
  <2>1. Kept(z, S1, T, Rest(A)) /\ Stays(S1, z.s, k)
    BY <1>4, <1>5, NewRelations
  <2> HIDE DEF z
  <2>2. Kept(z, S, T, Rest(A)) /\ z.s.g[k] # NoNode
    BY <1>5, <2>1, KeptAfter DEF Stays
  <2> QED
    BY <1>4, <1>8, <2>2, UpdateIfReady
<1> QED
  BY <1>1, <1>6, <1>7, <1>8


-----------------------------------------------------------------------------
(* applyValue *)

Ops == {"CREATE", "UPDATE", "DELETE"}

LEMMA OperationType ==
    ASSUME NEW g, NEW A, NEW op, op = operation(g, A)
    PROVE  op = "UNDEFINED" \/ (op \in Ops /\ (op = "UPDATE" => g[A.key].value # Nil))
BY DEF operation, determineDepUpdateOperation, Ops

LEMMA RetryEnabledType ==
    ASSUME NEW g \in Graphs, NEW T, TxnOK(T), NEW A, ArgsOK(A), g[A.key] # NoNode
    PROVE  retryEnabled(g, T, A) \in BOOLEAN
<1>1. A.key \in Keys /\ A.base \in Keys /\ A.isDerived \in BOOLEAN /\ T.retryEnabled \in BOOLEAN
  BY ArgsFields, KeyKinds DEF TxnOK
<1>2. \A k \in Keys : g[k] # NoNode /\ g[k].upd # NoUpdate => g[k].upd.retryEnabled \in BOOLEAN
  BY DEF Graphs, Nodes, LastUpdates
<1>3. CASE T.type = "NBTransaction"
  BY <1>1, <1>3 DEF retryEnabled
<1>4. CASE T.type # "NBTransaction" /\ g[A.key].upd # NoUpdate
  BY <1>1, <1>2, <1>4 DEF retryEnabled
<1>5. CASE T.type # "NBTransaction" /\ g[A.key].upd = NoUpdate
  BY <1>1, <1>2, <1>5 DEF retryEnabled
<1> QED
  BY <1>3, <1>4, <1>5

LEMMA RawGood ==
    ASSUME NEW S, NEW T, NEW k \in Keys, RawAt(S, T, k), S.g[k].base = baseOf(k)
    PROVE  Good(S, T)
<1>1. Others(S, T, k) /\ NodeOK(S.g[k], k, T.seqNum) /\ RetryState(S, T, k, S.g[k].state)
  BY DEF RawAt, NodeOK
<1>2. k \in S.exec /\ S.g[k].state = "RETRYING" => Allowed(T, k)
  BY <1>1 DEF RetryState
<1> QED
  BY <1>1, <1>2, OthersGood

\* S0: S with a node for the key
LEMMA Updated ==
    ASSUME NEW T, TxnOK(T), NEW A, ArgsOK(A), NEW S, NEW S0, S0 = [S EXCEPT !.g = S0.g],
           RawAt(S0, T, A.key), NEW op \in Ops, NEW S1, S1 = updated(S, T, A, S0.g, op)
    PROVE  /\ RawAt(S1, T, A.key) /\ S1.g[A.key].upd # NoUpdate
           /\ S1.g[A.key].value = S0.g[A.key].value
           /\ S0.g[A.key].base = baseOf(A.key) => Good(S1, T)
           /\ \A B : A.key \notin B /\ B \subseteq Keys => Frame(S0, S1, B)
<1> DEFINE k == A.key
           n == S0.g[k]
           re == retryEnabled(S0.g, T, A)
           u == [txnSeqNum |-> T.seqNum, txnOp |-> op, value |-> A.value,
                 revert |-> A.isRevert, retryEnabled |-> re]
           m == [n EXCEPT !.upd = u]
<1>1. /\ k \in Keys /\ A.value \in OptValues(k) /\ A.value \in Values /\ A.isRevert \in BOOLEAN
      /\ T.seqNum \in Nat
  BY ArgsFields, ValueType DEF ArgsOK, Args, TxnOK
<1>2. /\ Others(S0, T, k) /\ NodeRaw(n, k, T.seqNum) /\ n \in Nodes /\ RetryState(S0, T, k, n.state)
      /\ S0 \in ExecStates /\ SBOK(S0.sb) /\ n # NoNode /\ S0.g \in Graphs
  BY StateFields DEF RawAt, NodeRaw, Others
<1>3. re \in BOOLEAN
  BY <1>2, RetryEnabledType
<1> HIDE DEF re
<1>4. u \in LastUpdates /\ u # NoUpdate /\ u.value = A.value /\ u.txnSeqNum = T.seqNum
  <2>1. u \in [txnSeqNum : Nat, txnOp : {"CREATE", "UPDATE", "DELETE"}, value : Values,
               revert : BOOLEAN, retryEnabled : BOOLEAN]
    BY <1>1, <1>3 DEF Ops
  <2>2. NoUpdate.txnSeqNum = -1 /\ u.txnSeqNum = T.seqNum /\ u.value = A.value
    BY DEF NoUpdate
  <2> HIDE DEF u
  <2>3. u # NoUpdate
    BY <1>1, <2>2
  <2> QED
    BY <2>1, <2>2, <2>3 DEF LastUpdates
<1>5. S1 = [S0 EXCEPT !.g[k] = m]
  <2>1. S1 = [S EXCEPT !.g = [S0.g EXCEPT ![k].upd = u]]
    BY DEF updated, re
  <2> HIDE DEF u
  <2>2. [S0.g EXCEPT ![k].upd = u] = [S0.g EXCEPT ![k] = m]
    BY <1>1, <1>2 DEF Graphs
  <2> DEFINE h == [S0.g EXCEPT ![k] = m]
  <2>3. S1 = [S EXCEPT !.g = h]
    BY <2>1, <2>2
  <2>4. [S0 EXCEPT !.g[k] = m] = [S0 EXCEPT !.g = h]
    OBVIOUS
  <2> HIDE DEF h
  <2>5. [S0 EXCEPT !.g = h] = [S EXCEPT !.g = h]
    OBVIOUS
  <2> QED
    BY <2>3, <2>4, <2>5
<1> HIDE DEF u, n
<1>6. /\ m \in Nodes /\ m.value = n.value /\ m.state = n.state /\ m.upd = u /\ m.base = n.base
      /\ m.derives = n.derives /\ m.avail = n.avail /\ m.err = n.err
  BY <1>2, <1>4 DEF Nodes
<1> HIDE DEF m
<1>7. NodeRaw(m, k, T.seqNum) /\ m # NoNode
  <2>1. u.value \in OptValues(k) /\ u.txnSeqNum <= T.seqNum
    BY <1>1, <1>4
  <2> QED
    BY <1>2, <1>4, <1>6, <2>1, NodeNotNil DEF NodeRaw
<1>8. Changed(S0, S1, k, m) /\ S1.exec = S0.exec
  BY <1>1, <1>2, <1>5, <1>6, NodePut
<1>h. StaysHonest(S0, k, m)
  BY <1>2, <1>6 DEF StaysHonest, HonestAt, Honest, n
<1>9. Others(S1, T, k) /\ S1.g[k] = m /\ \A B : k \notin B /\ B \subseteq Keys => Frame(S0, S1, B)
  BY <1>1, <1>2, <1>8, <1>h, ChangedOthers
<1>10. RawAt(S1, T, k)
  BY <1>2, <1>6, <1>7, <1>8, <1>9 DEF RawAt, RetryState
<1>11. S0.g[k].base = baseOf(k) => Good(S1, T)
  BY <1>1, <1>6, <1>9, <1>10, RawGood DEF n
<1> QED
  BY <1>4, <1>6, <1>9, <1>10, <1>11 DEF n

LEMMA NoteChange ==
    ASSUME NEW S, NEW T, NEW B, NEW q, Kept(q, S, T, B), NEW A, ArgsOK(A), NEW g,
           NEW r, r = noteChange(q, T, A, g)
    PROVE  Kept(r, S, T, B)
<1>1. CASE r = q
  BY <1>1
<1>2. CASE r = [q EXCEPT !.s = stateUpdated(@, A)]
  <2> DEFINE S1 == stateUpdated(q.s, A)
  <2>1. A.base \in Keys /\ q \in Results /\ Good(q.s, T) /\ Frame(S, q.s, B) /\ q.s \in ExecStates
    BY ArgsFields, KeyKinds DEF Kept, Good
  <2>2. S1 \in ExecStates /\ S1.g = q.s.g /\ S1.sb = q.s.sb /\ S1.exec = q.s.exec
    BY <2>1 DEF stateUpdated, ExecStates
  <2>3. r = [q EXCEPT !.s = S1]
    BY <1>2
  <2> HIDE DEF S1
  <2>4. r \in Results /\ r.s = S1
    BY <2>1, <2>2, <2>3 DEF Results
  <2> QED
    BY <2>1, <2>2, <2>4, FrameEqual DEF Kept, Good
<1> QED
  BY <1>1, <1>2 DEF noteChange

LEMMA ApplyOperation ==
    ASSUME NEW rec, NEW T, RecOK(rec, T), TxnOK(T), NEW A, Inner(A), NEW S, RawAt(S, T, A.key),
           S.g[A.key].upd # NoUpdate, S.g[A.key].value # Nil => Good(S, T),
           NEW op \in Ops, op = "UPDATE" => S.g[A.key].value # Nil,
           NEW r, r = applyOperation(rec, S, T, A, op)
    PROVE  Kept(r, S, T, Rest(A))
<1>1. Others(S, T, A.key) /\ S.g[A.key] # NoNode /\ T.seqNum \in Nat
  BY DEF RawAt, TxnOK
<1>2. CASE op = "DELETE"
  <2> DEFINE pending == A.isDepUpdate
             no == FALSE
  <2>1. r = applyDelete(rec, S, T, A, pending, no)
    BY <1>2 DEF applyOperation
  <2> HIDE DEF pending, no
  <2> QED
    BY <1>1, <2>1, ApplyDelete
<1>3. CASE op = "CREATE"
  <2>1. r = applyCreate(rec, S, T, A)
    BY <1>3 DEF applyOperation
  <2> QED
    BY <2>1, ApplyCreate
<1>4. CASE op = "UPDATE"
  <2>1. r = applyUpdate(rec, S, T, A) /\ S.g[A.key].value # Nil /\ Good(S, T)
    BY <1>4 DEF applyOperation
  <2> QED
    BY <1>1, <2>1, ApplyUpdate
<1> QED
  BY <1>2, <1>3, <1>4 DEF Ops

LEMMA OnBranch ==
    ASSUME NEW A, ArgsOK(A), A.key \notin A.branch,
           NEW C, C = [A EXCEPT !.branch = @ \cup {A.key}]
    PROVE  Inner(C) /\ C.key = A.key /\ Rest(C) = A.branch
<1>1. A \in Args /\ A.key \in Keys /\ A.branch \in SUBSET Keys
  BY DEF ArgsOK, Args
<1>2. /\ C \in Args /\ C.key = A.key /\ C.value = A.value /\ C.base = A.base
      /\ C.isDerived = A.isDerived /\ C.branch = A.branch \cup {A.key}
  BY <1>1 DEF Args
<1> QED
  BY <1>2 DEF Inner, ArgsOK, Rest

LEMMA ApplyOne ==
    ASSUME NEW rec, NEW T, RecOK(rec, T), TxnOK(T), NEW A, ArgsOK(A), NEW S, Good(S, T),
           NEW r, r = applyOne(rec, S, T, A)
    PROVE  Kept(r, S, T, A.branch)
<1> DEFINE k == A.key
           S0 == [S EXCEPT !.g = SetNode(@, k)]
           g == S0.g
           op == operation(g, A)
           B == A.branch
           S1 == updated(S, T, A, g, op)
           C == [A EXCEPT !.branch = @ \cup {A.key}]
           q == applyOperation(rec, S1, T, C, op)
<1>1. CASE k \in B
  BY <1>1, OkKept DEF applyOne
<1>2. CASE k \notin B
  <2>1. k \in Keys /\ B \subseteq Keys /\ T.seqNum \in Nat /\ S \in ExecStates
    BY ArgsFields DEF TxnOK, Good
  <2>2. g = SetNode(S.g, k)
    BY <2>1 DEF ExecStates
  <2>3. r = applyToNode(rec, S, T, A, g, op)
    BY <1>2, <2>2 DEF applyOne
  <2>4. Made(S, S0, k) /\ S0 = [S EXCEPT !.g = S0.g]
    BY <2>1 DEF Made, ExecStates
  <2>5. op = "UNDEFINED" \/ (op \in Ops /\ (op = "UPDATE" => g[k].value # Nil))
    BY OperationType
  <2> HIDE DEF S0, op
  <2>6. /\ RawAt(S0, T, k) /\ Frame(S, S0, B)
        /\ S.g[k] # NoNode => S0 = S
        /\ S.g[k] = NoNode => g[k].value = Nil /\ g[k].state = "NONEXISTENT"
    BY <1>2, <2>1, <2>4, SetNodeRaw
  <2>7. g[k].value # Nil \/ g[k].state # "NONEXISTENT" => S0 = S /\ Good(S0, T) /\ g[k].base = baseOf(k)
    BY <2>1, <2>6, GoodOthers DEF NodeOK
  <2>8. CASE op = "UNDEFINED"
    <3> DEFINE S2 == [S EXCEPT !.g = IF g[k].value = Nil THEN DeleteNode(g, k) ELSE g]
    <3>1. r = Ok(S2)
      BY <2>3, <2>8 DEF applyToNode
    <3>2. Good(S2, T) /\ Frame(S, S2, B)
      <4>1. CASE g[k].value = Nil
        <5> DEFINE h == DeleteNode(g, k)
        <5>1. S2 = [S EXCEPT !.g = h]
          BY <4>1
        <5>2. [S EXCEPT !.g = h] = [S0 EXCEPT !.g = h]
          <6> HIDE DEF h
          <6> QED
            BY <2>4
        <5>3. [S0 EXCEPT !.g = h] = [S0 EXCEPT !.g = DeleteNode(@, k)]
          OBVIOUS
        <5>4. Dropped(S0, S2, k)
          BY <5>1, <5>2, <5>3 DEF Dropped
        <5> HIDE DEF S2
        <5>5. Others(S0, T, k)
          BY <2>6 DEF RawAt
        <5>6. Good(S2, T) /\ Frame(S0, S2, B)
          BY <1>2, <2>1, <5>4, <5>5, DropNode
        <5>7. Frame(S, S2, B)
          BY <2>6, <5>6, FrameTrans
        <5> QED
          BY <5>6, <5>7
      <4>2. CASE g[k].value # Nil
        <5>1. S2 = [S EXCEPT !.g = S.g]
          BY <2>7, <4>2
        <5>2. S2 = S
          BY <2>1, <5>1 DEF ExecStates
        <5> QED
          BY <5>2, FrameSame
      <4> QED
        BY <4>1, <4>2
    <3> HIDE DEF S2
    <3>3. Kept(Ok(S2), S2, T, B)
      BY <3>2, OkKept
    <3> QED
      BY <3>1, <3>2, <3>3, KeptAfter
  <2>9. CASE op \in Ops
    <3>0. op # "UNDEFINED"
      BY <2>9 DEF Ops
    <3>1. /\ RawAt(S1, T, k) /\ S1.g[k].upd # NoUpdate /\ S1.g[k].value = g[k].value
          /\ g[k].base = baseOf(k) => Good(S1, T)
          /\ Frame(S0, S1, B)
      BY <1>2, <2>1, <2>4, <2>6, <2>9, Updated
    <3>2. Frame(S, S1, B)
      BY <2>6, <3>1, FrameTrans
    <3>3. g[k].value # Nil => Good(S1, T)
      BY <2>7, <3>1
    <3>4. CASE alreadyBroken(g[k], T, A)
      <4>1. r = [s |-> S1, err |-> g[k].err]
        BY <2>3, <3>0, <3>4 DEF applyToNode
      <4>2. g[k].state # "NONEXISTENT"
        BY <3>4 DEF alreadyBroken
      <4>3. Good(S1, T) /\ S1 \in ExecStates
        BY <2>7, <3>1, <4>2 DEF Good
      <4>4. g[k].err \in BOOLEAN
        BY <2>6, NodeFields DEF RawAt, NodeRaw
      <4> HIDE DEF S1
      <4>5. r \in Results /\ r.s = S1
        BY <4>1, <4>3, <4>4 DEF Results
      <4> QED
        BY <3>2, <4>3, <4>5 DEF Kept
    <3>5. CASE ~alreadyBroken(g[k], T, A)
      <4>1. r = noteChange(q, T, A, g)
        BY <2>3, <3>0, <3>5 DEF applyToNode
      <4>2. Inner(C) /\ C.key = k /\ Rest(C) = B
        BY <1>2, OnBranch
      <4>3. op = "UPDATE" => S1.g[k].value # Nil
        BY <2>5, <3>0, <3>1
      <4> HIDE DEF C, S1
      <4>4. Kept(q, S1, T, B)
        BY <2>9, <3>1, <3>3, <4>2, <4>3, ApplyOperation
      <4> HIDE DEF q
      <4>5. Kept(q, S, T, B)
        BY <3>2, <4>4, KeptAfter
      <4> QED
        BY <4>1, <4>5, NoteChange
    <3> QED
      BY <3>4, <3>5
  <2> QED
    BY <2>5, <2>8, <2>9
<1> QED
  BY <1>1, <1>2


\* applyValue with n values more on the branch, a being the one for n - 1
level(T, a, n) ==
    [A \in Args |-> [S \in ExecStates |-> IF n = 0 THEN Ok(S) ELSE applyOne(a, S, T, A)]]

Levels(f, T, N) == f = [n \in 0..N |-> level(T, f[n - 1], n)]

LEMMA LevelsExist ==
    ASSUME NEW T, NEW N \in Nat
    PROVE  \E f : Levels(f, T, N)
<1> DEFINE X == {n \in Nat : ~\E f : Levels(f, T, n)}
<1> SUFFICES ASSUME X # {} PROVE FALSE
  OBVIOUS
<1>1. PICK n \in X : \A m \in X : n <= m
  <2>1. X \in SUBSET Nat
    OBVIOUS
  <2> HIDE DEF X
  <2> QED
    BY <2>1, Least
<1>2. n \in Nat /\ ~\E f : Levels(f, T, n)
  BY <1>1
<1>0. \A a, b : level(T, a, 0) = level(T, b, 0)
  BY DEF level
<1>3. CASE n = 0
  <2> DEFINE h == [i \in 0..0 |-> level(T, {}, 0)]
  <2>1. h = [i \in 0..0 |-> level(T, h[i - 1], i)]
    <3>1. \A i \in 0..0 : i = 0 /\ h[i] = level(T, h[i - 1], i)
      BY <1>0
    <3>2. h = [i \in 0..0 |-> h[i]]
      OBVIOUS
    <3> HIDE DEF h
    <3> QED
      BY <3>1, <3>2
  <2> QED
    BY <1>2, <1>3, <2>1 DEF Levels
<1>4. CASE n # 0
  <2>1. n - 1 \in Nat /\ ~(n <= n - 1)
    BY <1>2, <1>4
  <2>2. PICK f : Levels(f, T, n - 1)
    BY <1>1, <2>1
  <2>3. f = [i \in 0..(n - 1) |-> level(T, f[i - 1], i)]
    BY <2>2 DEF Levels
  <2> DEFINE h == [i \in 0..n |-> IF i = n THEN level(T, f[n - 1], n) ELSE f[i]]
  <2>4. \A i \in 0..n : h[i] = level(T, h[i - 1], i)
    <3> TAKE i \in 0..n
    <3>1. CASE i = n
      <4>1. n - 1 \in 0..n /\ n - 1 # n
        BY <1>2, <2>1
      <4>2. h[n] = level(T, f[n - 1], n) /\ h[n - 1] = f[n - 1]
        BY <1>2, <4>1
      <4> QED
        BY <3>1, <4>2
    <3>2. CASE i = 0
      <4>1. 0 \in 0..(n - 1) /\ f[0] = level(T, f[0 - 1], 0)
        BY <2>1, <2>3
      <4>2. h[0] = f[0]
        BY <1>4, <3>2
      <4> QED
        BY <1>0, <3>2, <4>1, <4>2
    <3>3. CASE i # n /\ i # 0
      <4>1. i \in 0..(n - 1) /\ i - 1 \in 0..n /\ i - 1 # n /\ i \in 0..n
        BY <1>2, <3>3
      <4>2. f[i] = level(T, f[i - 1], i)
        BY <2>3, <4>1
      <4>3. h[i] = f[i] /\ h[i - 1] = f[i - 1]
        BY <3>3, <4>1
      <4> QED
        BY <4>2, <4>3
    <3> QED
      BY <3>1, <3>2, <3>3
  <2>5. h = [i \in 0..n |-> h[i]]
    OBVIOUS
  <2> HIDE DEF h
  <2>6. h = [i \in 0..n |-> level(T, h[i - 1], i)]
    BY <2>4, <2>5
  <2> QED
    BY <1>2, <2>6 DEF Levels
<1> QED
  BY <1>3, <1>4

LEMMA ApplyWithin ==
    ASSUME NEW T
    PROVE  Levels(applyWithin(T), T, Cardinality(Keys))
<1> DEFINE f == CHOOSE f : Levels(f, T, Cardinality(Keys))
<1>1. Levels(f, T, Cardinality(Keys))
  BY KeyCount, LevelsExist
<1>2. applyWithin(T) = f
  BY DEF applyWithin, Levels, level
<1> QED
  BY <1>1, <1>2

LEMMA LevelKeeps ==
    ASSUME NEW T, TxnOK(T), NEW a, NEW n \in Nat, n # 0 => RecOK(a, T)
    PROVE  RecOK(level(T, a, n), T)
<1> SUFFICES ASSUME NEW A \in Args, NEW S \in ExecStates, ArgsOK(A), Good(S, T)
             PROVE  Kept(level(T, a, n)[A][S], S, T, A.branch)
  BY DEF RecOK
<1>1. level(T, a, n)[A][S] = IF n = 0 THEN Ok(S) ELSE applyOne(a, S, T, A)
  BY DEF level
<1> QED
  BY <1>1, OkKept, ApplyOne

\* applyValue keeps the state of the execution well-formed, whatever fails.
LEMMA ApplyValue ==
    ASSUME NEW T, TxnOK(T), NEW A, ArgsOK(A), NEW S, Good(S, T)
    PROVE  Kept(applyValue(S, T, A), S, T, A.branch)
<1> DEFINE f == applyWithin(T)
           N == Cardinality(Keys)
           X == {n \in 0..N : ~RecOK(f[n], T)}
<1>1. f = [n \in 0..N |-> level(T, f[n - 1], n)] /\ N \in Nat
  BY ApplyWithin, KeyCount DEF Levels
<1>2. X = {}
  <2> SUFFICES ASSUME X # {} PROVE FALSE
    OBVIOUS
  <2>1. PICK n \in X : \A m \in X : n <= m
    <3>1. X \in SUBSET Nat
      BY <1>1
    <3> HIDE DEF X
    <3> QED
      BY <3>1, Least
  <2>2. n \in 0..N /\ n \in Nat /\ ~RecOK(f[n], T)
    BY <1>1
  <2>3. n # 0 => RecOK(f[n - 1], T)
    BY <1>1, <2>1, <2>2
  <2>4. f[n] = level(T, f[n - 1], n)
    BY <1>1, <2>2
  <2> HIDE DEF f
  <2> QED
    BY <2>2, <2>3, <2>4, LevelKeeps
<1>3. RecOK(f[N], T)
  BY <1>1, <1>2
<1>4. A \in Args /\ S \in ExecStates
  BY DEF ArgsOK, Good
<1> QED
  BY <1>3, <1>4 DEF RecOK, applyValue


-----------------------------------------------------------------------------
(* refreshGraph *)

\* what a refresh makes of the node n: it plans no retry, an unimplemented value
\* waits as before, and flags that agree still do
Keep(n, m) ==
    /\ m # NoNode /\ m.state = "RETRYING" => n # NoNode /\ n.state = "RETRYING"
    /\ n # NoNode /\ n.state = "UNIMPLEMENTED" =>
          m # NoNode /\ m.state = "UNIMPLEMENTED" /\ m.upd = n.upd
    /\ (n # NoNode => Honest(n)) /\ m # NoNode => Honest(m)

\* Q: a refresh of the graph g0; but for the node of k
QOthers(Q, g0, seq, k) ==
    /\ Q \in Refreshes
    /\ \A j \in Keys \ {k} : Keep(g0[j], Q.g[j]) /\ (Q.g[j] # NoNode => NodeOK(Q.g[j], j, seq))

QGood(Q, g0, seq) ==
    /\ Q \in Refreshes /\ GraphOK(Q.g, seq)
    /\ \A j \in Keys : Keep(g0[j], Q.g[j])

\* the node of k may be a new one
QRaw(Q, g0, seq, k) ==
    /\ QOthers(Q, g0, seq, k)
    /\ Q.g[k] # NoNode /\ NodeRaw(Q.g[k], k, seq) /\ Keep(g0[k], Q.g[k])

\* Q1 is Q with the node n for k
QChanged(Q, Q1, k, n) == Q1 \in Refreshes /\ Q1.g = [Q.g EXCEPT ![k] = n]

SameBut(Q, Q1, k) == \A j \in Keys : j # k => Q1.g[j] = Q.g[j]

LEMMA RefreshFields ==
    ASSUME NEW Q \in Refreshes
    PROVE  Q.g \in Graphs /\ Q.upd \in SUBSET Keys /\ Q.refreshed \in SUBSET Keys
BY DEF Refreshes

LEMMA QGoodOthers ==
    ASSUME NEW Q, NEW g0, NEW seq, QGood(Q, g0, seq), NEW k \in Keys
    PROVE  QOthers(Q, g0, seq, k) /\ (Q.g[k] # NoNode => QRaw(Q, g0, seq, k) /\ NodeOK(Q.g[k], k, seq))
BY DEF QGood, QOthers, QRaw, GraphOK, NodeOK

LEMMA QChangedOthers ==
    ASSUME NEW Q, NEW g0, NEW seq, NEW k \in Keys, QOthers(Q, g0, seq, k),
           NEW n, NEW Q1, QChanged(Q, Q1, k, n)
    PROVE  QOthers(Q1, g0, seq, k) /\ Q1.g[k] = n /\ SameBut(Q, Q1, k)
<1>1. Q.g \in Graphs
  BY RefreshFields DEF QOthers
<1>2. Q1.g[k] = n /\ \A j \in Keys : j # k => Q1.g[j] = Q.g[j]
  BY <1>1 DEF Graphs, QChanged
<1> QED
  BY <1>2 DEF QOthers, QChanged, SameBut

LEMMA QOthersGood ==
    ASSUME NEW Q, NEW g0, NEW seq, NEW k \in Keys, QOthers(Q, g0, seq, k),
           Keep(g0[k], Q.g[k]), Q.g[k] # NoNode => NodeOK(Q.g[k], k, seq)
    PROVE  QGood(Q, g0, seq)
<1>1. Q.g \in Graphs
  BY RefreshFields DEF QOthers
<1>2. \A j \in Keys : Keep(g0[j], Q.g[j]) /\ (Q.g[j] # NoNode => NodeOK(Q.g[j], j, seq))
  BY DEF QOthers
<1> QED
  BY <1>1, <1>2 DEF QGood, QOthers, GraphOK

LEMMA KeepTrans ==
    ASSUME NEW n, NEW m, NEW p, Keep(n, m), Keep(m, p)
    PROVE  Keep(n, p)
BY DEF Keep

LEMMA WithNode ==
    ASSUME NEW Q, NEW g0, NEW seq \in Nat, QGood(Q, g0, seq), NEW k \in Keys, NEW Q1, Q1 = withNode(Q, k)
    PROVE  /\ QRaw(Q1, g0, seq, k) /\ SameBut(Q, Q1, k)
           /\ Q.g[k] # NoNode => Q1.g[k] = Q.g[k] /\ QGood(Q1, g0, seq)
<1>1. QOthers(Q, g0, seq, k) /\ Q \in Refreshes /\ Q.g \in Graphs /\ Keep(g0[k], Q.g[k])
  BY QGoodOthers, RefreshFields DEF QGood
<1>2. CASE Q.g[k] # NoNode
  <2>1. Q1 = Q
    BY <1>1, <1>2 DEF withNode, SetNode, Refreshes
  <2> QED
    BY <1>2, <2>1, QGoodOthers DEF SameBut
<1>3. CASE Q.g[k] = NoNode
  <2> DEFINE n == FreshNode(k)
             h == [Q.g EXCEPT ![k] = n]
  <2>1. Q1 = [Q EXCEPT !.g = h]
    BY <1>3 DEF withNode, SetNode
  <2>2. /\ n.value = Nil /\ n.state = "NONEXISTENT" /\ n.upd = NoUpdate /\ n.base = k
        /\ n.derives = {} /\ n \in Nodes /\ n.avail = TRUE /\ n.err = FALSE
    BY DEF FreshNode, Nodes, Values, States, LastUpdates
  <2> HIDE DEF n
  <2>3. h \in Graphs
    BY <1>1, <2>2 DEF Graphs
  <2> HIDE DEF h
  <2>4. Q1 \in Refreshes /\ Q1.g = h
    BY <1>1, <2>1, <2>3 DEF Refreshes
  <2>5. QChanged(Q, Q1, k, n)
    BY <2>4 DEF QChanged, h
  <2>6. NodeRaw(n, k, seq) /\ n # NoNode
    BY <2>2, NodeNotNil DEF NodeRaw, OptValues
  <2>7. QOthers(Q1, g0, seq, k) /\ Q1.g[k] = n /\ SameBut(Q, Q1, k)
    BY <1>1, <2>5, QChangedOthers
  <2>h. Honest(n)
    BY <2>2 DEF Honest, HonestFlags, ErrStates
  <2>8. Keep(g0[k], n)
    BY <1>1, <1>3, <2>2, <2>h DEF Keep
  <2> QED
    BY <1>3, <2>6, <2>7, <2>8 DEF QRaw
<1> QED
  BY <1>2, <1>3

LEMMA FoundState ==
    ASSUME NEW state \in States, NEW origin, NEW s, s = foundState(state, origin)
    PROVE  /\ s \in States
           /\ s = "RETRYING" <=> state = "RETRYING"
           /\ s = "UNIMPLEMENTED" <=> state = "UNIMPLEMENTED"
BY DEF foundState, States

LEMMA FoundHonest ==
    ASSUME NEW state, NEW avail, NEW err, HonestFlags(state, avail, err),
           NEW origin, NEW s, s = foundState(state, origin)
    PROVE  HonestFlags(s, TRUE, err)
BY DEF foundState, HonestFlags, ErrStates

LEMMA RefreshAvail ==
    ASSUME NEW Q, NEW g0, NEW seq, NEW k \in Keys, QRaw(Q, g0, seq, k), NEW T, NEW origin,
           NEW Q1, Q1 = refreshAvailNode(Q, T, k, origin, baseOf(k))
    PROVE  QGood(Q1, g0, seq) /\ SameBut(Q, Q1, k) /\ Q1.g[k] # NoNode
<1> DEFINE n == Q.g[k]
           b == baseOf(k)
           s == foundState(n.state, origin)
           d == hasDescriptor(T, k)
           m == [n EXCEPT !.avail = TRUE, !.state = s, !.descr = d, !.base = b]
           h == [Q.g EXCEPT ![k] = m]
<1>1. QOthers(Q, g0, seq, k) /\ Q \in Refreshes /\ NodeRaw(n, k, seq) /\ n \in Nodes /\ Keep(g0[k], n)
      /\ n # NoNode
  BY DEF QRaw, QOthers, NodeRaw
<1>2. b \in Keys /\ d \in BOOLEAN /\ n.state \in States
  BY <1>1, KeyKinds, NodeFields DEF hasDescriptor
<1>3. Q1.g = h /\ Q1 \in Refreshes
  <2>1. m \in Nodes
    <3>1. s \in States
      BY <1>2, FoundState
    <3> HIDE DEF s, n, d, b
    <3> QED
      BY <1>1, <1>2, <3>1 DEF Nodes
  <2>2. h \in Graphs
    <3> HIDE DEF m
    <3> QED
      BY <1>1, <2>1, RefreshFields DEF Graphs
  <2>3. Q.upd \in SUBSET Keys /\ Q.refreshed \cup {k} \in SUBSET Keys
    BY <1>1, RefreshFields
  <2>4. Q1 = [g |-> h, upd |-> IF n.avail THEN Q.upd ELSE Q.upd \cup {b}, refreshed |-> Q.refreshed \cup {k}]
    BY DEF refreshAvailNode
  <2> HIDE DEF h, b, n
  <2> QED
    BY <1>2, <2>2, <2>3, <2>4 DEF Refreshes
<1>4. QChanged(Q, Q1, k, m)
  BY <1>3 DEF QChanged
<1> HIDE DEF n
<1>5. s \in States /\ (s = "RETRYING" <=> n.state = "RETRYING")
      /\ (s = "UNIMPLEMENTED" <=> n.state = "UNIMPLEMENTED")
  BY <1>2, FoundState
<1>f. HonestFlags(n.state, n.avail, n.err) => HonestFlags(s, TRUE, n.err)
  BY FoundHonest
<1> HIDE DEF s, d, b
<1>6. /\ m \in Nodes /\ m.value = n.value /\ m.state = s /\ m.upd = n.upd /\ m.base = b
      /\ m.derives = n.derives /\ m.avail = TRUE /\ m.err = n.err
  BY <1>1, <1>2, <1>5 DEF Nodes
<1> HIDE DEF m
<1>7. NodeOK(m, k, seq) /\ m # NoNode
  <2>1. b = baseOf(k) /\ (k \in BaseKeys => b = k)
    BY DEF b, baseOf
  <2> QED
    BY <1>1, <1>5, <1>6, <2>1, NodeNotNil DEF NodeOK, NodeRaw
<1>h. Honest(n) => Honest(m)
  BY <1>6, <1>f DEF Honest
<1>8. Keep(n, m)
  BY <1>1, <1>5, <1>6, <1>7, <1>h DEF Keep
<1>9. Keep(g0[k], m)
  BY <1>1, <1>8, KeepTrans DEF n
<1>10. QOthers(Q1, g0, seq, k) /\ Q1.g[k] = m /\ SameBut(Q, Q1, k)
  BY <1>1, <1>4, QChangedOthers
<1> QED
  BY <1>7, <1>9, <1>10, QOthersGood

LEMMA RefreshUnavail ==
    ASSUME NEW Q, NEW g0, NEW seq, NEW k \in Keys, QGood(Q, g0, seq), Q.g[k] # NoNode,
           NEW Q1, Q1 = refreshUnavailNode(Q, k)
    PROVE  QGood(Q1, g0, seq) /\ SameBut(Q, Q1, k)
<1> DEFINE n == Q.g[k]
           s == IF n.state # "CONFIGURED" THEN n.state
                ELSE IF n.upd.value = Nil THEN "REMOVED" ELSE "MISSING"
           m == [n EXCEPT !.avail = FALSE, !.state = s]
           p == IF n.state \in {"OBTAINED", "DISCOVERED"} THEN NoNode ELSE m
           h == [Q.g EXCEPT ![k] = p]
           U == IF n.avail THEN Q.upd \cup {n.base} ELSE Q.upd
           F == Q.refreshed \cup {k}
<1>1. QOthers(Q, g0, seq, k) /\ Q \in Refreshes /\ NodeOK(n, k, seq) /\ n \in Nodes /\ Keep(g0[k], n)
  BY QGoodOthers DEF QRaw, QOthers, NodeRaw
<1>2. n.state \in States /\ n.base \in Keys /\ Q.g \in Graphs
  BY <1>1, NodeFields, RefreshFields
<1>3. Q1 = [g |-> h, upd |-> U, refreshed |-> F]
  <2>1. [Q.g EXCEPT ![k].avail = FALSE, ![k].state = s] = [Q.g EXCEPT ![k] = m]
    <3> HIDE DEF s
    <3> QED
      BY <1>1, <1>2 DEF Graphs
  <2> QED
    BY <2>1 DEF refreshUnavailNode, DeleteNode
<1>4. s \in States /\ (s = "RETRYING" <=> n.state = "RETRYING")
      /\ (s = "UNIMPLEMENTED" <=> n.state = "UNIMPLEMENTED")
      /\ (n.state \notin {"OBTAINED", "DISCOVERED"} =>
            (HonestFlags(n.state, n.avail, n.err) => HonestFlags(s, FALSE, n.err)))
  BY <1>2 DEF States, HonestFlags, ErrStates
<1>5. U \in SUBSET Keys /\ F \in SUBSET Keys
  BY <1>1, <1>2, RefreshFields
<1> HIDE DEF s, n, U, F
<1>6. /\ m \in Nodes /\ m.value = n.value /\ m.state = s /\ m.upd = n.upd /\ m.base = n.base
      /\ m.derives = n.derives /\ m.avail = FALSE /\ m.err = n.err
  BY <1>1, <1>4 DEF Nodes
<1> HIDE DEF m
<1>7. NodeOK(m, k, seq) /\ m # NoNode
  BY <1>1, <1>4, <1>6, NodeNotNil DEF NodeOK, NodeRaw
<1>h. n.state \notin {"OBTAINED", "DISCOVERED"} => (Honest(n) => Honest(m))
  BY <1>4, <1>6 DEF Honest
<1>8. p \in Nodes \cup {NoNode} /\ (p # NoNode => p = m) /\ Keep(n, p)
  BY <1>1, <1>4, <1>6, <1>7, <1>h, NodeNotNil DEF Keep
<1> HIDE DEF p
<1>9. h \in Graphs
  BY <1>2, <1>8 DEF Graphs
<1> HIDE DEF h
<1>10. Q1 \in Refreshes /\ Q1.g = h
  BY <1>3, <1>5, <1>9 DEF Refreshes
<1>11. QChanged(Q, Q1, k, p)
  BY <1>10 DEF QChanged, h
<1>12. QOthers(Q1, g0, seq, k) /\ Q1.g[k] = p /\ SameBut(Q, Q1, k)
  BY <1>1, <1>11, QChangedOthers
<1>13. Keep(g0[k], p)
  BY <1>1, <1>8, KeepTrans DEF n
<1> QED
  BY <1>7, <1>8, <1>12, <1>13, QOthersGood


LEMMA QPut ==
    ASSUME NEW Q \in Refreshes, NEW k \in Keys, NEW n, n \in Nodes, NEW Q1, Q1 = [Q EXCEPT !.g[k] = n]
    PROVE  QChanged(Q, Q1, k, n)
<1> DEFINE h == [Q.g EXCEPT ![k] = n]
<1>1. h \in Graphs
  BY RefreshFields DEF Graphs
<1>2. Q1 = [Q EXCEPT !.g = h]
  OBVIOUS
<1> HIDE DEF h
<1>3. Q1 \in Refreshes /\ Q1.g = h
  BY <1>1, <1>2 DEF Refreshes
<1> QED
  BY <1>3 DEF QChanged, h

\* the node of k gets another value and other relations
QSet(Q, Q1, k, v, D, E) ==
    Q1 = [Q EXCEPT !.g[k] = [@ EXCEPT !.value = v, !.derives = E, !.deps = D]]

LEMMA QSetRaw ==
    ASSUME NEW Q, NEW g0, NEW seq, NEW k \in Keys, QRaw(Q, g0, seq, k), NEW v \in OptValues(k),
           NEW D \in SUBSET SUBSET Keys, NEW E \in SUBSET DerivedOf(k), NEW Q1, QSet(Q, Q1, k, v, D, E)
    PROVE  QRaw(Q1, g0, seq, k) /\ SameBut(Q, Q1, k) /\ Q1.g[k].base = Q.g[k].base
<1> DEFINE n == Q.g[k]
           m == [n EXCEPT !.value = v, !.derives = E, !.deps = D]
<1>1. QOthers(Q, g0, seq, k) /\ Q \in Refreshes /\ NodeRaw(n, k, seq) /\ n \in Nodes /\ Keep(g0[k], n)
      /\ n # NoNode
  BY DEF QRaw, QOthers, NodeRaw
<1>2. Q1 = [Q EXCEPT !.g[k] = m]
  BY DEF QSet
<1>3. v \in Values /\ E \in SUBSET DerivedKeys
  BY ValueType DEF DerivedOf
<1> HIDE DEF n
<1>4. /\ m \in Nodes /\ m.value = v /\ m.state = n.state /\ m.upd = n.upd /\ m.base = n.base
      /\ m.derives = E /\ m.avail = n.avail /\ m.err = n.err
  BY <1>1, <1>3 DEF Nodes
<1> HIDE DEF m
<1>5. QChanged(Q, Q1, k, m)
  BY <1>1, <1>2, <1>4, QPut
<1>6. NodeRaw(m, k, seq) /\ m # NoNode /\ Keep(n, m)
  BY <1>1, <1>4, NodeNotNil DEF NodeRaw, Keep, Honest
<1>7. QOthers(Q1, g0, seq, k) /\ Q1.g[k] = m /\ SameBut(Q, Q1, k)
  BY <1>1, <1>5, QChangedOthers
<1>8. Keep(g0[k], m)
  BY <1>1, <1>6, KeepTrans
<1> QED
  BY <1>4, <1>6, <1>7, <1>8 DEF QRaw, n

LEMMA QRawGood ==
    ASSUME NEW Q, NEW g0, NEW seq, NEW k \in Keys, QRaw(Q, g0, seq, k), Q.g[k].base = baseOf(k)
    PROVE  QGood(Q, g0, seq)
<1>1. QOthers(Q, g0, seq, k) /\ NodeOK(Q.g[k], k, seq) /\ Keep(g0[k], Q.g[k])
  BY DEF QRaw, NodeOK
<1> QED
  BY <1>1, QOthersGood

LEMMA RefreshDerived ==
    ASSUME NEW R, NEW g0, NEW seq \in Nat, QGood(R, g0, seq), NEW T, NEW d \in Keys,
           NEW der, NEW origin, d \in DOMAIN der => der[d] \in ValuesOf(d),
           d \notin DOMAIN der => R.g[d] # NoNode,
           NEW Q1, Q1 = refreshDerived(withNode(R, d), T, d, der, origin, baseOf(d))
    PROVE  QGood(Q1, g0, seq) /\ SameBut(R, Q1, d)
<1> DEFINE Q == withNode(R, d)
<1>1. /\ QRaw(Q, g0, seq, d) /\ SameBut(R, Q, d)
      /\ R.g[d] # NoNode => Q.g[d] = R.g[d] /\ QGood(Q, g0, seq)
  BY WithNode
<1>2. Q1 = refreshDerived(Q, T, d, der, origin, baseOf(d))
  OBVIOUS
<1> HIDE DEF Q
<1>3. CASE d \notin DOMAIN der
  <2>1. Q1 = refreshUnavailNode(Q, d)
    BY <1>2, <1>3 DEF refreshDerived
  <2>2. QGood(Q1, g0, seq) /\ SameBut(Q, Q1, d)
    BY <1>1, <1>3, <2>1, RefreshUnavail
  <2> QED
    BY <1>1, <2>2 DEF SameBut
<1>4. CASE d \in DOMAIN der
  <2> DEFINE v == der[d]
             D == dependencies(T, d, v)
             E == {}
             b == baseOf(d)
             Q2 == [Q EXCEPT !.g[d] = [@ EXCEPT !.value = v, !.derives = E, !.deps = D]]
  <2>1. Q1 = refreshAvailNode(Q2, T, d, origin, b)
    BY <1>2, <1>4 DEF refreshDerived
  <2>2. v \in OptValues(d) /\ E \in SUBSET DerivedOf(d)
    BY <1>4 DEF OptValues
  <2>3. D \in SUBSET SUBSET Keys
    BY <2>2, DependenciesType
  <2> HIDE DEF v, D, E
  <2>4. QSet(Q, Q2, d, v, D, E)
    BY DEF QSet
  <2> HIDE DEF Q2
  <2>5. QRaw(Q2, g0, seq, d) /\ SameBut(Q, Q2, d)
    BY <1>1, <2>2, <2>3, <2>4, QSetRaw
  <2>6. QGood(Q1, g0, seq) /\ SameBut(Q2, Q1, d)
    BY <2>1, <2>5, RefreshAvail
  <2> QED
    BY <1>1, <2>5, <2>6 DEF SameBut
<1> QED
  BY <1>3, <1>4

LEMMA RefreshRelations ==
    ASSUME NEW Q, NEW g0, NEW seq \in Nat, QGood(Q, g0, seq), NEW T, NEW k \in BaseKeys,
           Q.g[k] # NoNode, NEW v \in ValuesOf(k), NEW origin,
           NEW K \in SUBSET DerivedOf(k), \A d \in K : d \notin DOMAIN v.der => Q.g[d] # NoNode
    PROVE  QGood(refreshRelations(Q, T, k, v, origin, K), g0, seq)
<1> DEFINE D == Dependencies(k, v)
           w == Q.g[k].value
           Q1 == [Q EXCEPT !.g[k] = [@ EXCEPT !.deps = D, !.derives = K]]
           step == [d \in K |-> [R \in Refreshes |->
                        refreshDerived(withNode(R, d), T, d, v.der, origin, k)]]
           I == [L \in SUBSET K |-> {R \in Refreshes : QGood(R, g0, seq) /\
                                        \A d \in K \ L : R.g[d] = Q1.g[d]}]
<1>1. refreshRelations(Q, T, k, v, origin, K) = InKeyOrder(step, K, Q1)
  BY DEF refreshRelations
<1>2. k \in Keys /\ baseOf(k) = k /\ D \in SUBSET SUBSET Keys
  <2>1. k \in Keys
    BY DEF Keys
  <2> QED
    BY <2>1, ExecAssumption DEF baseOf
<1>3. FiniteNats(K) /\ \A d \in K : d \in Keys /\ baseOf(d) = k /\ d # k
  <2>1. \A d \in K : d \in Keys /\ baseOf(d) = k /\ d \in DerivedKeys
    BY <1>2, KeyKinds
  <2> QED
    BY <2>1, KeySubset, KeyKinds
<1>4. QRaw(Q, g0, seq, k) /\ NodeOK(Q.g[k], k, seq)
  BY <1>2, QGoodOthers
<1>5. w \in OptValues(k) /\ Q.g[k].base = baseOf(k)
  BY <1>4 DEF NodeOK, NodeRaw
<1>6. QGood(Q1, g0, seq) /\ SameBut(Q, Q1, k)
  <2>1. QSet(Q, Q1, k, w, D, K)
    <3> DEFINE n == Q.g[k]
    <3>1. n \in Nodes
      BY <1>4 DEF NodeOK, NodeRaw
    <3>2. [n EXCEPT !.deps = D, !.derives = K] = [n EXCEPT !.value = n.value, !.derives = K, !.deps = D]
      <4> HIDE DEF n, D
      <4> QED
        BY <3>1 DEF Nodes
    <3>3. Q1 = [Q EXCEPT !.g[k] = [n EXCEPT !.value = n.value, !.derives = K, !.deps = D]]
      <4> DEFINE m == [n EXCEPT !.deps = D, !.derives = K]
      <4>1. Q1 = [Q EXCEPT !.g[k] = m]
        OBVIOUS
      <4> HIDE DEF m, Q1
      <4> QED
        BY <3>2, <4>1 DEF m
    <3> QED
      BY <3>3 DEF QSet
  <2> HIDE DEF Q1, w, D
  <2>2. QRaw(Q1, g0, seq, k) /\ SameBut(Q, Q1, k) /\ Q1.g[k].base = baseOf(k)
    BY <1>2, <1>4, <1>5, <2>1, QSetRaw
  <2> QED
    BY <1>2, <2>2, QRawGood
<1> HIDE DEF Q1, w, D
<1>7. Q1 \in I[{}]
  BY <1>6 DEF QGood
<1>8. ASSUME NEW d \in K, NEW L \in SUBSET K, NEW R \in I[L], \A j \in L : j < d
      PROVE  step[d][R] \in I[L \cup {d}]
  <2>1. R \in Refreshes /\ QGood(R, g0, seq) /\ \A j \in K \ L : R.g[j] = Q1.g[j]
    OBVIOUS
  <2>2. d \notin L
    <3>1. d \in Nat
      BY <1>3, ExecAssumption
    <3> QED
      BY <1>8, <3>1
  <2>3. step[d][R] = refreshDerived(withNode(R, d), T, d, v.der, origin, baseOf(d))
    BY <1>3, <2>1
  <2>4. d \in DOMAIN v.der => v.der[d] \in ValuesOf(d)
    BY <1>2, DerOf
  <2>5. d \notin DOMAIN v.der => R.g[d] # NoNode
    <3>1. R.g[d] = Q1.g[d] /\ Q1.g[d] = Q.g[d]
      BY <1>3, <1>6, <2>1, <2>2 DEF SameBut
    <3> QED
      BY <3>1
  <2> DEFINE R1 == step[d][R]
             der == v.der
  <2> HIDE DEF step, R1, der
  <2>6. QGood(R1, g0, seq) /\ SameBut(R, R1, d)
    <3>1. R1 = refreshDerived(withNode(R, d), T, d, der, origin, baseOf(d))
      BY <2>3 DEF R1, der
    <3>2. (d \in DOMAIN der => der[d] \in ValuesOf(d)) /\ (d \notin DOMAIN der => R.g[d] # NoNode)
      BY <2>4, <2>5 DEF der
    <3> QED
      BY <1>3, <2>1, <3>1, <3>2, RefreshDerived
  <2>7. \A j \in K \ (L \cup {d}) : R1.g[j] = Q1.g[j]
    BY <1>3, <2>1, <2>6 DEF SameBut
  <2>8. L \cup {d} \in SUBSET K /\ R1 \in Refreshes
    BY <2>6 DEF QGood
  <2>9. R1 \in I[L \cup {d}]
    BY <2>6, <2>7, <2>8
  <2> QED
    BY <2>9 DEF R1
<1>9. I[K] = {R \in Refreshes : QGood(R, g0, seq) /\ \A d \in K \ K : R.g[d] = Q1.g[d]}
  OBVIOUS
<1> HIDE DEF I, step
<1>10. InKeyOrder(step, K, Q1) \in I[K]
  BY <1>3, <1>7, <1>8, FoldUpTo
<1> QED
  BY <1>1, <1>9, <1>10


LEMMA RefreshValue ==
    ASSUME NEW Q, NEW g0, NEW seq \in Nat, QGood(Q, g0, seq), NEW T, NEW k \in BaseKeys,
           NEW v \in ValuesOf(k), NEW origin
    PROVE  QGood(refreshValue(Q, T, k, v, origin), g0, seq)
<1> DEFINE Q1 == withNode(Q, k)
           n == Q1.g[k]
           D == n.deps
           E == n.derives
           Q2 == [Q1 EXCEPT !.g[k] = [@ EXCEPT !.value = v]]
           Q3 == refreshAvailNode(Q2, T, k, origin, k)
           K == (DOMAIN v.der) \cup getDerivedKeys(Q3.g, k)
<1>1. refreshValue(Q, T, k, v, origin) = refreshRelations(Q3, T, k, v, origin, K)
  BY DEF refreshValue, refreshFound
<1>2. k \in Keys /\ baseOf(k) = k /\ v \in OptValues(k)
  BY DEF Keys, baseOf, OptValues
<1>3. QRaw(Q1, g0, seq, k)
  BY <1>2, WithNode
<1> HIDE DEF Q1
<1>4. n \in Nodes /\ NodeRaw(n, k, seq)
  BY <1>3 DEF QRaw, NodeRaw
<1>5. D \in SUBSET SUBSET Keys /\ E \in SUBSET DerivedOf(k)
  BY <1>4, NodeFields DEF NodeRaw
<1>6. QSet(Q1, Q2, k, v, D, E)
  <2>1. [n EXCEPT !.value = v] = [n EXCEPT !.value = v, !.derives = n.derives, !.deps = n.deps]
    <3> HIDE DEF n
    <3> QED
      BY <1>4 DEF Nodes
  <2> DEFINE m == [n EXCEPT !.value = v]
  <2>2. Q2 = [Q1 EXCEPT !.g[k] = m]
    OBVIOUS
  <2>3. m = [n EXCEPT !.value = v, !.derives = E, !.deps = D]
    BY <2>1
  <2> HIDE DEF m, Q2
  <2> QED
    BY <2>2, <2>3 DEF QSet
<1> HIDE DEF Q2, n, D, E
<1>7. QRaw(Q2, g0, seq, k)
  BY <1>2, <1>3, <1>5, <1>6, QSetRaw
<1>8. QGood(Q3, g0, seq) /\ Q3.g[k] # NoNode
  BY <1>2, <1>7, RefreshAvail
<1> HIDE DEF Q3
<1>9. NodeOK(Q3.g[k], k, seq)
  BY <1>2, <1>8, QGoodOthers
<1>10. K \in SUBSET DerivedOf(k) /\ \A d \in K : d \notin DOMAIN v.der => Q3.g[d] # NoNode
  BY <1>2, <1>9, DerOf DEF NodeOK, NodeRaw, getDerivedKeys, nodesOf
<1> HIDE DEF K
<1> QED
  BY <1>1, <1>8, <1>10, RefreshRelations

\* Values of derived keys derive nothing.
LEMMA DerivedValueType ==
    ASSUME NEW d \in DerivedKeys, NEW v \in ValuesOf(d)
    PROVE  v \in DerivedValues
<1>1. d \in Keys
  BY DEF Keys
<1>2. DerivedOf(d) = {}
  BY <1>1, KeyKinds
<1>3. v.rev \in Revisions /\ v = [rev |-> v.rev, der |-> v.der]
  BY DEF ValuesOf
<1>4. v.der \in UNION {[D -> DerivedValues] : D \in SUBSET DerivedOf(d)}
  BY DEF ValuesOf
<1>5. v.der \in [{} -> DerivedValues]
  BY <1>2, <1>4
<1>6. v.der \in [{} -> {}]
  BY <1>5
<1> QED
  BY <1>3, <1>6 DEF DerivedValues

LEMMA Retrieve ==
    ASSUME NEW s, SBOK(s), NEW T, NEW k \in BaseKeys, s[k] # Nil
    PROVE  retrieve(T, s, k) \in ValuesOf(k)
<1> DEFINE real == {d \in DerivedKeys : Owner(d) = k /\ hasDescriptor(T, d) /\ s[d] # Nil}
           props == {d \in DOMAIN s[k].der : ~hasDescriptor(T, d)}
           der == [d \in real \cup props |-> IF d \in real THEN s[d] ELSE s[k].der[d]]
<1>1. retrieve(T, s, k) = [rev |-> s[k].rev, der |-> der]
  BY DEF retrieve
<1>2. k \in Keys /\ s[k] \in ValuesOf(k)
  BY DEF Keys, SBOK, OptValues
<1>3. s[k].rev \in Revisions
  BY <1>2 DEF ValuesOf
<1>4. real \cup props \in SUBSET DerivedOf(k)
  BY <1>2, DerOf DEF DerivedOf
<1>5. \A d \in real : s[d] \in DerivedValues
  <2>1. \A d \in real : d \in DerivedKeys /\ d \in Keys /\ s[d] \in ValuesOf(d)
    BY DEF Keys, SBOK, OptValues
  <2> QED
    BY <2>1, DerivedValueType
<1>6. \A d \in props : s[k].der[d] \in DerivedValues
  <2>1. \A d \in DOMAIN s[k].der : d \in DerivedKeys /\ s[k].der[d] \in ValuesOf(d)
    BY <1>2, <1>4, DerOf DEF DerivedOf
  <2> QED
    BY <2>1, DerivedValueType
<1> DEFINE D == real \cup props
<1>7. der \in [D -> DerivedValues]
  BY <1>5, <1>6
<1>8. der \in UNION {[E -> DerivedValues] : E \in SUBSET DerivedOf(k)}
  <2> HIDE DEF der, D
  <2> QED
    BY <1>4, <1>7 DEF D
<1> HIDE DEF der
<1> QED
  BY <1>1, <1>3, <1>8 DEF ValuesOf

LEMMA RefreshRest ==
    ASSUME NEW Q, NEW g0, NEW seq, QGood(Q, g0, seq)
    PROVE  QGood(refreshRest(Q), g0, seq)
<1> DEFINE K == nodesOf(Q.g) \ Q.refreshed
           step == [k \in Keys |-> [R \in Refreshes |-> refreshUnavailNode(R, k)]]
           I == [L \in SUBSET K |-> {R \in Refreshes : QGood(R, g0, seq) /\
                                        \A k \in K \ L : R.g[k] = Q.g[k]}]
<1>1. refreshRest(Q) = InKeyOrder(step, K, Q)
  BY DEF refreshRest
<1>2. FiniteNats(K) /\ \A k \in K : k \in Keys /\ Q.g[k] # NoNode
  BY KeySubset DEF nodesOf
<1>3. Q \in I[{}]
  BY DEF QGood
<1>4. ASSUME NEW d \in K, NEW L \in SUBSET K, NEW R \in I[L], \A j \in L : j < d
      PROVE  step[d][R] \in I[L \cup {d}]
  <2>1. R \in Refreshes /\ QGood(R, g0, seq) /\ \A j \in K \ L : R.g[j] = Q.g[j]
    OBVIOUS
  <2>2. d \notin L
    <3>1. d \in Nat
      BY <1>2, ExecAssumption
    <3> QED
      BY <1>4, <3>1
  <2>3. step[d][R] = refreshUnavailNode(R, d)
    BY <1>2, <2>1
  <2>4. R.g[d] # NoNode /\ d \in Keys
    BY <1>2, <2>1, <2>2
  <2> DEFINE R1 == step[d][R]
  <2> HIDE DEF step, R1
  <2>5. QGood(R1, g0, seq) /\ SameBut(R, R1, d)
    <3>1. R1 = refreshUnavailNode(R, d)
      BY <2>3 DEF R1
    <3> QED
      BY <2>1, <2>4, <3>1, RefreshUnavail
  <2>6. \A j \in K \ (L \cup {d}) : R1.g[j] = Q.g[j]
    BY <1>2, <2>1, <2>5 DEF SameBut
  <2>7. L \cup {d} \in SUBSET K /\ R1 \in Refreshes
    BY <2>5 DEF QGood
  <2>8. R1 \in I[L \cup {d}]
    BY <2>5, <2>6, <2>7
  <2> QED
    BY <2>8 DEF R1
<1>5. I[K] = {R \in Refreshes : QGood(R, g0, seq) /\ \A k \in K \ K : R.g[k] = Q.g[k]}
  OBVIOUS
<1> HIDE DEF I, step
<1>6. InKeyOrder(step, K, Q) \in I[K]
  BY <1>2, <1>3, <1>4, FoldUpTo
<1> QED
  BY <1>1, <1>5, <1>6

\* A refresh keeps the state well-formed; U: the transaction it is part of.
LEMMA RefreshGraph ==
    ASSUME NEW S, NEW T, Good(S, T), T.seqNum \in Nat, NEW U, NEW h, NEW keys \in SUBSET BaseKeys,
           NEW S1, S1 = refreshGraph(S, U, h, keys)
    PROVE  /\ Good(S1, T) /\ S1.exec = S.exec /\ S1.errs = S.errs
           /\ \A k \in Keys : Keep(S.g[k], S1.g[k])
<1> DEFINE seq == T.seqNum
           g0 == S.g
           able == {k \in keys : hasDescriptor(U, k) /\ k \notin U.unretrievable}
           skipped == {k \in nodesOf(g0) : g0[k].descr /\ g0[k].base = k /\ k \notin able}
           F == skipped \cup UNION {getDerivedKeys(g0, k) : k \in skipped}
           Q0 == [g |-> g0, upd |-> S.upd, refreshed |-> F]
           K == {k \in able : S.sb[k] # Nil}
           value(k) == retrieve(U, S.sb, k)
           origin(k) == retrievedOrigin(g0, U, h, k)
           step == [k \in Keys |-> [Q \in Refreshes |-> refreshValue(Q, U, k, value(k), origin(k))]]
           P == {Q \in Refreshes : QGood(Q, g0, seq)}
           Q1 == InKeyOrder(step, K, Q0)
           Q2 == refreshRest(Q1)
<1>1. S1 = withGraph(S, Q2)
  BY DEF refreshGraph
<1>2. S \in ExecStates /\ GraphOK(g0, seq) /\ SBOK(S.sb) /\ g0 \in Graphs /\ S.upd \in SUBSET Keys
      /\ seq \in Nat
  BY StateFields DEF Good
<1>3. QGood(Q0, g0, seq)
  <2>1. F \in SUBSET Keys
    BY DEF nodesOf, getDerivedKeys
  <2> HIDE DEF F, g0
  <2>2. Q0 \in Refreshes /\ Q0.g = g0
    BY <1>2, <2>1 DEF Refreshes
  <2> QED
    BY <1>2, <2>2 DEF QGood, Keep
<1>4. FiniteNats(K) /\ \A k \in K : k \in BaseKeys /\ k \in Keys /\ S.sb[k] # Nil
  <2>1. K \in SUBSET Keys
    BY DEF Keys
  <2> QED
    BY <2>1, KeySubset
<1>5. ASSUME NEW k \in K, NEW Q \in P PROVE step[k][Q] \in P
  <2>1. Q \in Refreshes /\ QGood(Q, g0, seq) /\ k \in BaseKeys /\ k \in Keys /\ S.sb[k] # Nil
    BY <1>4
  <2>2. step[k][Q] = refreshValue(Q, U, k, value(k), origin(k))
    BY <2>1
  <2>3. value(k) \in ValuesOf(k)
    BY <1>2, <2>1, Retrieve
  <2> HIDE DEF value, origin, step, g0, seq
  <2>4. QGood(step[k][Q], g0, seq)
    BY <1>2, <2>1, <2>2, <2>3, RefreshValue
  <2> QED
    BY <2>4 DEF QGood
<1>6. Q1 \in P
  <2>1. Q0 \in P
    BY <1>3 DEF QGood
  <2> HIDE DEF step, K, P, Q0
  <2> QED
    BY <1>4, <1>5, <2>1, FoldKeeps
<1>7. QGood(Q2, g0, seq)
  <2>1. QGood(Q1, g0, seq)
    BY <1>6
  <2> HIDE DEF Q1
  <2> QED
    BY <2>1, RefreshRest
<1> HIDE DEF Q2, g0
<1>8. Q2.g \in Graphs /\ Q2.upd \in SUBSET Keys /\ GraphOK(Q2.g, seq)
      /\ \A k \in Keys : Keep(g0[k], Q2.g[k])
  BY <1>7, RefreshFields DEF QGood
<1>9. S1 \in ExecStates /\ S1.g = Q2.g /\ S1.sb = S.sb /\ S1.exec = S.exec /\ S1.errs = S.errs
  BY <1>1, <1>2, <1>8 DEF withGraph, ExecStates
<1>10. RetryOK(S1.g, S1.exec, T)
  <2>1. S.exec \in SUBSET Keys /\ RetryOK(g0, S.exec, T)
    BY StateFields DEF Good, g0
  <2> QED
    BY <1>8, <1>9, <2>1 DEF RetryOK, Keep
<1> QED
  BY <1>2, <1>8, <1>9, <1>10 DEF Good, g0


-----------------------------------------------------------------------------
(* executeTransaction *)

Truthful(g) == \A k \in Keys : g[k] # NoNode => Honest(g[k])

Fine(S, T) == Good(S, T) /\ Truthful(S.g)

LEMMA FineKept ==
    ASSUME NEW S, NEW T, Fine(S, T), NEW B, NEW r, Kept(r, S, T, B)
    PROVE  Fine(r.s, T)
BY DEF Fine, Truthful, Kept, Frame, Truer, HonestAt

LEMMA FineRefreshed ==
    ASSUME NEW S, NEW T, Fine(S, T), T.seqNum \in Nat, NEW U, NEW h, NEW keys \in SUBSET BaseKeys,
           NEW S1, S1 = refreshGraph(S, U, h, keys)
    PROVE  /\ Fine(S1, T) /\ S1.exec = S.exec
           /\ \A k \in Keys : Keep(S.g[k], S1.g[k])
<1>1. Good(S1, T) /\ S1.exec = S.exec /\ \A k \in Keys : Keep(S.g[k], S1.g[k])
  BY RefreshGraph DEF Fine
<1>2. Truthful(S1.g)
  BY <1>1 DEF Fine, Truthful, Keep
<1> QED
  BY <1>1, <1>2 DEF Fine

KVOK(kv) == kv \in KVs /\ kv.key \in BaseKeys /\ kv.value \in OptValues(kv.key)

ValuesOK(values) == \A k \in DOMAIN values : k \in Keys /\ KVOK(values[k])

LoopOK(r, T) ==
    /\ r \in Loops /\ Fine(r.s, T)
    /\ \A i \in DOMAIN r.prevValues : KVOK(r.prevValues[i])
    /\ r.stop => r.prevValues # <<>>

LEMMA TopArgs ==
    ASSUME NEW kv, KVOK(kv), NEW applied \in SUBSET Keys
    PROVE  ArgsOK(topArgs(kv, applied))
<1> DEFINE A == topArgs(kv, applied)
<1>1. /\ kv.key \in Keys /\ kv.value \in Values /\ kv.origin \in {"NB", "SB"} /\ kv.isRevert \in BOOLEAN
      /\ kv.key \in BaseKeys /\ kv.value \in OptValues(kv.key)
  BY DEF KVOK, KVs
<1>2. /\ A \in Args /\ A.key = kv.key /\ A.value = kv.value /\ A.base = kv.key /\ A.isDerived = FALSE
  BY <1>1 DEF topArgs, Args
<1>3. baseOf(kv.key) = kv.key /\ kv.key \notin DerivedKeys
  BY <1>1, KeyKinds DEF baseOf
<1> HIDE DEF A
<1> QED
  BY <1>1, <1>2, <1>3 DEF ArgsOK, A

LEMMA TopValue ==
    ASSUME NEW T, TxnOK(T), NEW S, Fine(S, T), NEW kv, KVOK(kv), NEW applied \in SUBSET Keys,
           NEW q, q = applyValue(S, T, topArgs(kv, applied))
    PROVE  q \in Results /\ Fine(q.s, T)
<1> DEFINE A == topArgs(kv, applied)
<1>1. ArgsOK(A)
  BY TopArgs
<1> HIDE DEF A
<1>2. Kept(q, S, T, A.branch)
  BY <1>1, ApplyValue DEF Fine, A
<1> QED
  BY <1>2, FineKept DEF Kept

LEMMA PrevValue ==
    ASSUME NEW g, NEW seq, GraphOK(g, seq), NEW kv, KVOK(kv)
    PROVE  KVOK(prevValue(g, kv))
<1> DEFINE k == kv.key
           v == SetNode(g, k)[k].value
<1>1. k \in Keys /\ k \in BaseKeys /\ g \in Graphs
  BY DEF KVOK, KVs, GraphOK
<1>2. v \in OptValues(k)
  <2>1. CASE g[k] = NoNode
    <3>1. SetNode(g, k)[k] = FreshNode(k)
      BY <1>1, <2>1 DEF SetNode, Graphs
    <3>2. v = Nil
      BY <3>1 DEF FreshNode
    <3> QED
      BY <3>2 DEF OptValues
  <2>2. CASE g[k] # NoNode
    BY <1>1, <2>2 DEF SetNode, GraphOK, NodeOK, NodeRaw
  <2> QED
    BY <2>1, <2>2
<1>3. v \in Values
  BY <1>1, <1>2, ValueType
<1>4. prevValue(g, kv) = [key |-> k, value |-> v, origin |-> "NB", isRevert |-> TRUE]
  BY DEF prevValue, kvForTxn
<1> HIDE DEF v
<1> QED
  BY <1>1, <1>2, <1>3, <1>4 DEF KVOK, KVs

LEMMA ApplyNext ==
    ASSUME NEW T, TxnOK(T), NEW r, LoopOK(r, T), NEW kv, KVOK(kv)
    PROVE  LoopOK(applyNext(r, T, kv), T)
<1>1. CASE r.stop
  BY <1>1 DEF applyNext
<1>2. CASE ~r.stop
  <2> DEFINE applied == r.applied \cup {kv.key}
             q == applyValue(r.s, T, topArgs(kv, applied))
             p == prevValue(r.s.g, kv)
             ps == Append(r.prevValues, p)
             stop == q.err /\ T.revertOnFailure
             r1 == applyNext(r, T, kv)
  <2>1. r1 = [s |-> q.s, applied |-> applied, prevValues |-> ps, stop |-> stop]
    BY <1>2 DEF applyNext, afterValue
  <2>2. applied \in SUBSET Keys /\ r.prevValues \in Seq(KVs) /\ Fine(r.s, T)
    BY DEF LoopOK, Loops, KVOK, KVs
  <2>3. q \in Results /\ Fine(q.s, T) /\ q.s \in ExecStates
    BY <2>2, TopValue DEF Fine, Good
  <2>4. KVOK(p) /\ p \in KVs
    BY <2>2, PrevValue DEF Fine, Good, KVOK
  <2> HIDE DEF p
  <2>5. ps \in Seq(KVs) /\ ps # <<>> /\ DOMAIN ps = 1..(Len(r.prevValues) + 1)
        /\ Len(r.prevValues) \in Nat /\ DOMAIN r.prevValues = 1..Len(r.prevValues)
    BY <2>2, <2>4
  <2>6. \A i \in DOMAIN ps : KVOK(ps[i])
    <3> TAKE i \in DOMAIN ps
    <3>1. CASE i = Len(r.prevValues) + 1
      <4>1. ps[i] = p
        BY <2>2, <2>5, <3>1
      <4> QED
        BY <2>4, <4>1
    <3>2. CASE i \in DOMAIN r.prevValues
      <4>1. ps[i] = r.prevValues[i]
        BY <2>2, <2>5, <3>2
      <4> QED
        BY <3>2, <4>1 DEF LoopOK
    <3>3. i = Len(r.prevValues) + 1 \/ i \in DOMAIN r.prevValues
      BY <2>5
    <3> QED
      BY <3>1, <3>2, <3>3
  <2>7. stop \in BOOLEAN
    OBVIOUS
  <2> HIDE DEF q, ps, applied, stop, r1
  <2>8. r1 \in Loops /\ r1.s = q.s /\ r1.prevValues = ps
    BY <2>1, <2>2, <2>3, <2>5, <2>7 DEF Loops
  <2> QED
    BY <2>3, <2>5, <2>6, <2>8 DEF LoopOK, r1
<1> QED
  BY <1>1, <1>2

LEMMA Revert ==
    ASSUME NEW T, TxnOK(T), NEW r, LoopOK(r, T), r.stop
    PROVE  Fine(revert(r, T), T)
<1> DEFINE n == Len(r.prevValues)
           kv(i) == r.prevValues[n + 1 - i]
           step == [i \in 1..n |-> [S \in ExecStates |-> applyValue(S, T, topArgs(kv(i), r.applied)).s]]
           keys == {r.prevValues[n].key}
           S1 == refreshGraph(r.s, T, hist, keys)
           S2 == [S1 EXCEPT !.errs = {}]
           P == {S \in ExecStates : Fine(S, T)}
<1>1. revert(r, T) = InKeyOrder(step, 1..n, S2)
  BY DEF revert
<1>2. /\ r.prevValues \in Seq(KVs) /\ r.prevValues # <<>> /\ r.applied \in SUBSET Keys /\ Fine(r.s, T)
      /\ \A i \in DOMAIN r.prevValues : KVOK(r.prevValues[i])
      /\ T.seqNum \in Nat
  BY DEF LoopOK, Loops, TxnOK
<1>3. n \in Nat /\ n # 0 /\ DOMAIN r.prevValues = 1..n
  BY <1>2
<1>4. \A i \in 1..n : KVOK(kv(i))
  <2>1. \A i \in 1..n : n + 1 - i \in 1..n
    BY <1>3
  <2> QED
    BY <1>2, <1>3, <2>1
<1>5. FiniteNats(1..n)
  BY <1>3, FS_Interval DEF FiniteNats
<1>6. Fine(S1, T)
  <2>1. n \in DOMAIN r.prevValues
    BY <1>3
  <2>2. keys \in SUBSET BaseKeys
    BY <1>2, <2>1 DEF KVOK
  <2> HIDE DEF keys
  <2> QED
    BY <1>2, <2>2, FineRefreshed
<1> HIDE DEF S1
<1>7. S2 \in P
  <2>1. S2 \in ExecStates /\ S2.g = S1.g /\ S2.sb = S1.sb /\ S2.exec = S1.exec
    BY <1>6 DEF Fine, Good, ExecStates
  <2> QED
    BY <1>6, <2>1 DEF Fine, Good
<1>8. ASSUME NEW i \in 1..n, NEW S \in P PROVE step[i][S] \in P
  <2>1. S \in ExecStates /\ Fine(S, T)
    OBVIOUS
  <2>2. step[i][S] = applyValue(S, T, topArgs(kv(i), r.applied)).s
    BY <2>1
  <2>3. KVOK(kv(i))
    BY <1>4
  <2> HIDE DEF kv, step
  <2>4. Fine(step[i][S], T)
    BY <1>2, <2>1, <2>2, <2>3, TopValue
  <2> QED
    BY <2>4 DEF Fine, Good
<1> HIDE DEF step, P, S2
<1>9. InKeyOrder(step, 1..n, S2) \in P
  BY <1>5, <1>7, <1>8, FoldKeeps
<1> QED
  BY <1>1, <1>9 DEF P

LEMMA AfterLoop ==
    ASSUME NEW T, TxnOK(T), NEW r, LoopOK(r, T)
    PROVE  Fine(afterLoop(r, T), T)
<1>1. CASE ~r.stop
  BY <1>1 DEF afterLoop, LoopOK
<1>2. CASE r.stop
  <2> DEFINE S == revert(r, T)
             R == IF S.errs = {} THEN "done" ELSE "failed"
             S1 == [S EXCEPT !.errs = @ \cup r.s.errs, !.reverted = R]
  <2>1. afterLoop(r, T) = S1
    BY <1>2 DEF afterLoop, afterRevert
  <2>2. Fine(S, T)
    BY <1>2, Revert
  <2>3. R \in {"no", "done", "failed"} /\ r.s.errs \in SUBSET Keys
    BY StateFields DEF LoopOK, Fine, Good
  <2> HIDE DEF S, R
  <2>4. S1 \in ExecStates /\ S1.g = S.g /\ S1.sb = S.sb /\ S1.exec = S.exec
    BY <2>2, <2>3 DEF Fine, Good, ExecStates
  <2> HIDE DEF S1
  <2>5. Fine(S1, T)
    BY <2>2, <2>4 DEF Fine, Good
  <2> QED
    BY <2>1, <2>5
<1> QED
  BY <1>1, <1>2

LEMMA ExecuteTransaction ==
    ASSUME NEW T, TxnOK(T), NEW S, Fine(S, T), NEW values, ValuesOK(values),
           NEW order, \A op \in 1..4 : order[op] \subseteq DOMAIN values
    PROVE  Fine(executeTransaction(S, T, values, order), T)
<1> DEFINE step == [k \in DOMAIN values |-> [r \in Loops |-> applyNext(r, T, values[k])]]
           group == [op \in 1..4 |-> [r \in Loops |-> InKeyOrder(step, order[op], r)]]
           r0 == [s |-> S, applied |-> {}, prevValues |-> <<>>, stop |-> FALSE]
           P == {r \in Loops : LoopOK(r, T)}
           r1 == InKeyOrder(group, 1..4, r0)
<1>1. executeTransaction(S, T, values, order) = afterLoop(r1, T)
  BY DEF executeTransaction
<1>2. r0 \in P
  <2>1. r0.s = S /\ r0.prevValues = <<>> /\ r0.stop = FALSE /\ DOMAIN r0.prevValues = {}
    OBVIOUS
  <2>2. r0 \in Loops
    BY DEF Loops, Fine, Good
  <2> HIDE DEF r0
  <2> QED
    BY <2>1, <2>2 DEF LoopOK
<1>3. ASSUME NEW k \in DOMAIN values, NEW r \in P PROVE step[k][r] \in P
  <2>1. r \in Loops /\ LoopOK(r, T) /\ KVOK(values[k])
    BY DEF ValuesOK
  <2>2. step[k][r] = applyNext(r, T, values[k])
    BY <2>1
  <2>3. LoopOK(step[k][r], T)
    BY <2>1, <2>2, ApplyNext
  <2> QED
    BY <2>3 DEF LoopOK
<1>4. ASSUME NEW op \in 1..4, NEW r \in P PROVE group[op][r] \in P
  <2>1. group[op][r] = InKeyOrder(step, order[op], r)
    OBVIOUS
  <2>2. FiniteNats(order[op]) /\ order[op] \subseteq DOMAIN values
    <3>1. order[op] \in SUBSET Keys
      BY DEF ValuesOK
    <3> QED
      BY <3>1, KeySubset
  <2> DEFINE K == order[op]
  <2>3. \A k \in K : \A q \in P : step[k][q] \in P
    BY <1>3, <2>2
  <2> HIDE DEF P, step, K
  <2>4. InKeyOrder(step, K, r) \in P
    BY <2>2, <2>3, FoldKeeps DEF K
  <2> QED
    BY <2>1, <2>4 DEF K
<1>5. FiniteNats(1..4)
  <2> DEFINE n == 4
  <2>1. n \in Nat
    OBVIOUS
  <2> HIDE DEF n
  <2>2. FiniteNats(1..n)
    BY <2>1, FS_Interval DEF FiniteNats
  <2> QED
    BY <2>2 DEF n
<1>6. r1 \in P
  <2> HIDE DEF P, group, r0
  <2> QED
    BY <1>2, <1>4, <1>5, FoldKeeps
<1>7. LoopOK(r1, T)
  BY <1>6
<1> HIDE DEF r1
<1> QED
  BY <1>1, <1>7, AfterLoop


\* the fields of a transaction that count here
TxnFields(T) ==
    /\ {"type", "seqNum", "retryEnabled", "retryKeys", "attempt"} \subseteq DOMAIN T
    /\ TxnOK(T) /\ T.attempt \in Nat

LEMMA DryRun ==
    ASSUME NEW T, TxnFields(T), NEW D, D = [T EXCEPT !.dryRun = TRUE]
    PROVE  TxnOK(D) /\ \A S : Fine(S, D) <=> Fine(S, T)
<1>1. /\ D.type = T.type /\ D.seqNum = T.seqNum /\ D.retryEnabled = T.retryEnabled
      /\ D.retryKeys = T.retryKeys /\ D.attempt = T.attempt
  BY DEF TxnFields
<1>2. TxnOK(D)
  BY <1>1 DEF TxnFields, TxnOK
<1>3. \A k : nextAttempt(D, k) = nextAttempt(T, k)
  BY <1>1 DEF nextAttempt
<1>4. \A k : Allowed(D, k) <=> Allowed(T, k)
  BY <1>3 DEF Allowed
<1> HIDE DEF TxnOK
<1>5. \A S : Fine(S, D) <=> Fine(S, T)
  BY <1>1, <1>4 DEF Fine, Good, RetryOK
<1> QED
  BY <1>2, <1>5

LEMMA OrderOK ==
    ASSUME NEW T, NEW g, NEW values
    PROVE  \A op \in 1..4 : orderValuesByOp(T, g, values)[op] \subseteq DOMAIN values
BY DEF orderValuesByOp

LEMMA Execute ==
    ASSUME NEW T, TxnFields(T), NEW S, Fine(S, T), S.exec = {}, NEW values, ValuesOK(values),
           NEW order, \A op \in 1..4 : order[op] \subseteq DOMAIN values, NEW skipExec, NEW simulate
    PROVE  Fine(execute(T, S, values, order, skipExec, simulate), T)
<1> DEFINE D == [T EXCEPT !.dryRun = TRUE]
           dry == executeTransaction(S, D, values, order)
           real == executeTransaction(S, T, values, order)
           S1 == [S EXCEPT !.g = dry.g]
           r == execute(T, S, values, order, skipExec, simulate)
<1>1. r = S \/ r = S1 \/ r = real
  BY DEF execute, afterSimulation
<1>2. Fine(real, T)
  BY ExecuteTransaction DEF TxnFields
<1>3. TxnOK(D) /\ Fine(S, D)
  BY DryRun
<1> HIDE DEF D
<1>4. Fine(dry, D)
  BY <1>3, ExecuteTransaction
<1>5. Fine(dry, T)
  BY <1>4, DryRun DEF D
<1> HIDE DEF dry, real
<1>6. dry.g \in Graphs /\ GraphOK(dry.g, T.seqNum) /\ Truthful(dry.g)
  BY <1>5, StateFields DEF Fine, Good
<1>7. S1 \in ExecStates /\ S1.g = dry.g /\ S1.sb = S.sb /\ S1.exec = {}
  BY <1>6 DEF Fine, Good, ExecStates
<1>8. Fine(S1, T)
  <2>1. SBOK(S.sb)
    BY DEF Fine, Good
  <2> QED
    BY <1>6, <1>7, <2>1 DEF Fine, Good, RetryOK
<1> QED
  BY <1>1, <1>2, <1>8

-----------------------------------------------------------------------------
(* Post-processing *)

LEMMA InState ==
    ASSUME NEW S, NEW T, Good(S, T), NEW states, NEW b \in inState(S, states)
    PROVE  /\ b \in BaseKeys
           /\ \E k \in Keys : /\ k \in S.exec /\ S.g[k] # NoNode /\ S.g[k].state \in states
                              /\ NodeOK(S.g[k], k, T.seqNum) /\ b = baseOf(k)
<1>1. PICK k \in S.exec \cap nodesOf(S.g) : S.g[k].state \in states /\ b = S.g[k].base
  BY DEF inState
<1>2. k \in Keys /\ S.g[k] # NoNode
  BY <1>1 DEF nodesOf
<1>3. NodeOK(S.g[k], k, T.seqNum)
  BY <1>2, GoodOthers
<1>4. b = baseOf(k)
  BY <1>1, <1>3 DEF NodeOK
<1> QED
  BY <1>1, <1>2, <1>3, <1>4, KeyKinds

\* what is known of a scheduled retry
RetryRec(r) ==
    /\ DOMAIN r = {"keys", "attempt"} /\ DOMAIN r.keys \subseteq BaseKeys
    /\ r.attempt \in Nat \ {0} /\ (MaxCount # 0 => r.attempt <= MaxCount)

\* what is known of a wait for a descriptor
ImplRec(i, seq) ==
    DOMAIN i = {"key", "txnSeqNum"} /\ i.key \in BaseKeys /\ i.txnSeqNum \in 0..seq

\* a retry of what was retried before has the next number
Advances(r, T) ==
    T.type = "RetryFailedOps" /\ (DOMAIN r.keys) \cap T.retryKeys # {} => r.attempt = T.attempt + 1

LEMMA ScheduleRetries ==
    ASSUME NEW S, NEW T, T.attempt \in Nat, NEW toRetry \in SUBSET BaseKeys,
           \A k \in toRetry : MaxCount = 0 \/ nextAttempt(T, k) <= MaxCount,
           NEW r \in scheduleRetries(S, T, toRetry)
    PROVE  RetryRec(r) /\ Advances(r, T)
<1> DEFINE again == {k \in toRetry : T.type = "RetryFailedOps" /\ k \in T.retryKeys}
<1>1. PICK L \in {again, toRetry \ again} :
         /\ L # {}
         /\ r = [keys |-> [k \in L |-> S.g[k].upd.txnSeqNum],
                 attempt |-> nextAttempt(T, CHOOSE k \in L : TRUE)]
  BY DEF scheduleRetries
<1> DEFINE c == CHOOSE k \in L : TRUE
<1>2. c \in L /\ L \subseteq toRetry /\ L \subseteq BaseKeys
  BY <1>1
<1>3. DOMAIN r = {"keys", "attempt"} /\ DOMAIN r.keys = L /\ r.attempt = nextAttempt(T, c)
  BY <1>1
<1> HIDE DEF c
<1>4. nextAttempt(T, c) \in Nat \ {0}
  BY DEF nextAttempt
<1>5. RetryRec(r)
  BY <1>2, <1>3, <1>4 DEF RetryRec
<1>6. ASSUME T.type = "RetryFailedOps", L \cap T.retryKeys # {} PROVE r.attempt = T.attempt + 1
  <2>1. L = again
    BY <1>1, <1>2, <1>6
  <2>2. c \in T.retryKeys
    BY <1>2, <2>1
  <2> QED
    BY <1>3, <1>6, <2>2 DEF nextAttempt
<1> QED
  BY <1>3, <1>5, <1>6 DEF Advances

LEMMA Unimplemented ==
    ASSUME NEW S, NEW T, Good(S, T), T.seqNum \in Nat, NEW S1, Good(S1, T),
           \A k \in Keys : Keep(S.g[k], S1.g[k]),
           NEW i \in scheduleUnimpl(S1, T, inState(S, {"UNIMPLEMENTED"}))
    PROVE  ImplRec(i, T.seqNum)
<1>1. PICK b \in inState(S, {"UNIMPLEMENTED"}) : i = [key |-> b, txnSeqNum |-> S1.g[b].upd.txnSeqNum]
  BY DEF scheduleUnimpl
<1>2. PICK k \in Keys : /\ S.g[k] # NoNode /\ S.g[k].state \in {"UNIMPLEMENTED"}
                        /\ NodeOK(S.g[k], k, T.seqNum) /\ b = baseOf(k)
  BY <1>1, InState
<1>3. k \in BaseKeys /\ b = k
  BY <1>2 DEF NodeOK, NodeRaw, baseOf
<1>4. S1.g[k] # NoNode /\ S1.g[k].state = "UNIMPLEMENTED"
  BY <1>2 DEF Keep
<1>5. NodeOK(S1.g[k], k, T.seqNum)
  BY <1>4, GoodOthers
<1> DEFINE u == S1.g[k].upd
<1>6. u # NoUpdate /\ u \in LastUpdates /\ u.txnSeqNum <= T.seqNum
  BY <1>4, <1>5, NodeFields DEF NodeOK, NodeRaw
<1>7. u.txnSeqNum \in 0..T.seqNum
  <2> HIDE DEF u
  <2>1. u.txnSeqNum \in Nat
    BY <1>6 DEF LastUpdates
  <2> QED
    BY <1>6, <2>1
<1> QED
  BY <1>1, <1>3, <1>7 DEF ImplRec


-----------------------------------------------------------------------------
(* The inductive invariant *)

\* the graph and SB hold values of their keys, retries and waits are what the
\* post-processing made them, notifications come from Notifications
WellFormed ==
    /\ GraphOK(graph, txnSeqNumber - 1) /\ Truthful(graph) /\ SBOK(sb)
    /\ \A r \in retries : RetryRec(r)
    /\ \A i \in impls : ImplRec(i, txnSeqNumber - 1)
    /\ notifs \in Seq(Notifications)

Counters ==
    /\ DOMAIN nb = BaseKeys /\ DOMAIN published = BaseKeys
    /\ hist \in [BaseKeys -> {"unknown", "NB", "SB"}]
    /\ txnSeqNumber \in 0 .. MaxTxns
    /\ registered \subseteq Described
    /\ resynced \in BOOLEAN /\ panicked \in BOOLEAN

SchedulerInv == WellFormed /\ Counters

LEMMA InvTypes ==
    ASSUME SchedulerInv
    PROVE  TypeOK /\ RetryBounded
<1>1. ASSUME NEW k \in nodesOf(graph)
      PROVE  /\ graph[k].base = (IF k \in BaseKeys THEN k ELSE Owner(k))
             /\ graph[k].upd.txnSeqNum < txnSeqNumber
  <2>1. NodeOK(graph[k], k, txnSeqNumber - 1) /\ txnSeqNumber \in Nat
    BY DEF nodesOf, GraphOK, SchedulerInv, WellFormed, Counters
  <2>2. graph[k].upd \in LastUpdates
    BY <2>1, NodeFields DEF NodeOK, NodeRaw
  <2> DEFINE u == graph[k].upd
  <2>3. CASE u = NoUpdate
    <3>1. u.txnSeqNum = -1
      BY <2>3 DEF NoUpdate
    <3> QED
      BY <2>1, <3>1 DEF NodeOK, baseOf
  <2>4. CASE u # NoUpdate
    <3>1. u.txnSeqNum <= txnSeqNumber - 1
      BY <2>1, <2>4 DEF NodeOK, NodeRaw
    <3>2. u.txnSeqNum \in Nat
      <4> HIDE DEF u
      <4> QED
        BY <2>2, <2>4 DEF LastUpdates, u
    <3>3. u.txnSeqNum < txnSeqNumber
      <4> HIDE DEF u
      <4> QED
        BY <2>1, <3>1, <3>2
    <3> QED
      BY <2>1, <3>3 DEF NodeOK, baseOf
  <2> QED
    BY <2>3, <2>4
<1>2. graph \in Graphs /\ DOMAIN sb = Keys
  BY DEF SchedulerInv, WellFormed, GraphOK, SBOK
<1>3. \A r \in retries : DOMAIN r.keys \subseteq BaseKeys /\ r.attempt \in Nat \ {0}
  BY DEF SchedulerInv, WellFormed, RetryRec
<1>4. \A i \in impls : i.key \in BaseKeys /\ i.txnSeqNum \in 0 .. txnSeqNumber - 1
  BY DEF SchedulerInv, WellFormed, ImplRec
<1>5. TypeOK
  BY <1>1, <1>2, <1>3, <1>4 DEF TypeOK, SchedulerInv, Counters
<1>6. RetryBounded
  BY DEF RetryBounded, SchedulerInv, WellFormed, RetryRec
<1> QED
  BY <1>5, <1>6

LEMMA InvTruthful ==
    ASSUME SchedulerInv
    PROVE  StatusTruthful
<1> SUFFICES ASSUME NEW k \in nodesOf(graph)
             PROVE  /\ graph[k].state \in {"CONFIGURED", "OBTAINED", "DISCOVERED"} => graph[k].avail
                    /\ graph[k].state = "PENDING" => ~graph[k].avail
                    /\ graph[k].err <=> graph[k].state \in {"FAILED", "RETRYING", "INVALID"}
  BY DEF StatusTruthful
<1>1. k \in Keys /\ graph[k] # NoNode
  BY DEF nodesOf
<1>2. Honest(graph[k])
  BY <1>1 DEF SchedulerInv, WellFormed, Truthful
<1> QED
  BY <1>2 DEF Honest, HonestFlags, ErrStates

LEMMA InvInit ==
    ASSUME Init
    PROVE  SchedulerInv
<1>1. graph \in Graphs /\ \A k \in Keys : graph[k] = NoNode
  BY DEF Init, Graphs
<1>2. GraphOK(graph, txnSeqNumber - 1)
  BY <1>1 DEF GraphOK
<1>3. SBOK(sb)
  BY ValueType DEF Init, SBOK, Values
<1>4. notifs \in Seq(Notifications)
  BY DEF Init
<1>5. WellFormed
  BY <1>1, <1>2, <1>3, <1>4 DEF Init, WellFormed, Truthful
<1>6. hist \in [BaseKeys -> {"unknown", "NB", "SB"}]
  BY DEF Init
<1>7. DOMAIN nb = BaseKeys /\ DOMAIN published = BaseKeys /\ registered \subseteq Described
  BY DEF Init
<1>8. txnSeqNumber \in 0 .. MaxTxns
  BY SchedulerAssumption DEF Init
<1>9. Counters
  BY <1>6, <1>7, <1>8 DEF Init, Counters
<1> QED
  BY <1>5, <1>9 DEF SchedulerInv

\* what the execution of a transaction starts from
LEMMA StateGood ==
    ASSUME SchedulerInv, NEW T, T.seqNum = txnSeqNumber
    PROVE  Fine(State(graph), T) /\ State(graph).exec = {} /\ State(graph).g = graph
<1> DEFINE S == State(graph)
<1>1. GraphOK(graph, txnSeqNumber - 1) /\ Truthful(graph) /\ SBOK(sb) /\ txnSeqNumber \in Nat
  BY DEF SchedulerInv, WellFormed, Counters
<1>2. graph \in Graphs /\ sb \in [Keys -> Values]
  BY <1>1 DEF GraphOK, SBOK
<1>3. S \in ExecStates /\ S.g = graph /\ S.sb = sb /\ S.exec = {}
  BY <1>2 DEF State, ExecStates
<1>4. GraphOK(graph, txnSeqNumber)
  <2>1. ASSUME NEW n, NEW k \in Keys, NodeOK(n, k, txnSeqNumber - 1) PROVE NodeOK(n, k, txnSeqNumber)
    <3> SUFFICES ASSUME n.upd # NoUpdate PROVE n.upd.txnSeqNum <= txnSeqNumber
      BY <2>1 DEF NodeOK, NodeRaw
    <3>1. n.upd \in LastUpdates /\ n.upd.txnSeqNum <= txnSeqNumber - 1
      BY <2>1, NodeFields DEF NodeOK, NodeRaw
    <3>2. n.upd.txnSeqNum \in Nat
      BY <3>1 DEF LastUpdates
    <3> QED
      BY <1>1, <3>1, <3>2
  <2> QED
    BY <1>1, <2>1 DEF GraphOK
<1> HIDE DEF S
<1>5. Fine(S, T)
  BY <1>1, <1>3, <1>4 DEF Fine, Good, RetryOK
<1> QED
  BY <1>3, <1>5 DEF S

\* what the processing of a transaction changes
Processed(T) ==
    /\ GraphOK(graph', txnSeqNumber) /\ Truthful(graph') /\ SBOK(sb')
    /\ DOMAIN published' = BaseKeys /\ hist' \in [BaseKeys -> {"unknown", "NB", "SB"}]
    /\ txnSeqNumber' = txnSeqNumber + 1 /\ txnSeqNumber' \in 0..MaxTxns
    /\ panicked' \in BOOLEAN
    /\ \/ retries' = retries
       \/ \E new : /\ retries' = (retries \ T.consumed) \cup new
                   /\ \A r \in new : RetryRec(r) /\ Advances(r, T)
    /\ \A i \in impls' : i \in impls \/ ImplRec(i, txnSeqNumber)

LEMMA RecordTransaction ==
    ASSUME SchedulerInv, NEW T, TxnFields(T), T.seqNum = txnSeqNumber,
           NEW S, NEW S1, Fine(S1, T), recordTransaction(T, S, S1)
    PROVE  Processed(T)
<1> DEFINE broken == inState(S1, {"UNIMPLEMENTED", "FAILED", "RETRYING"})
           toRetry == inState(S1, {"RETRYING"})
           toImpl == inState(S1, {"UNIMPLEMENTED"})
           S2 == refreshBroken(S1, T, hist', broken)
           gone == {k \in S2.upd : getNodeState(S2.g, k) = "REMOVED"}
           g == [k \in Keys |-> IF k \in gone THEN NoNode ELSE S2.g[k]]
           new == scheduleRetries(S2, T, toRetry)
<1>0. Good(S1, T)
  BY DEF Fine
<1>1. finalizeTransaction(S2, T, toRetry, toImpl)
  BY DEF recordTransaction, postProcessTransaction
<1>2. T.seqNum \in Nat /\ T.attempt \in Nat /\ txnSeqNumber \in Nat /\ MaxTxns \in Nat
  BY SchedulerAssumption DEF TxnFields, TxnOK, SchedulerInv, Counters
<1>3. Fine(S2, T) /\ \A k \in Keys : Keep(S1.g[k], S2.g[k])
  <2>1. CASE broken = {}
    BY <2>1 DEF refreshBroken, Keep
  <2>2. CASE broken # {}
    <3>1. S2 = refreshGraph(S1, T, hist', broken)
      BY <2>2 DEF refreshBroken
    <3>2. broken \in SUBSET BaseKeys
      BY <1>0, InState
    <3> HIDE DEF broken, S2
    <3> QED
      BY <1>2, <3>1, <3>2, FineRefreshed
  <2> QED
    BY <2>1, <2>2
<1> HIDE DEF S2
<1>4. toRetry \in SUBSET BaseKeys
      /\ \A k \in toRetry : MaxCount = 0 \/ nextAttempt(T, k) <= MaxCount
  <2>1. toRetry \in SUBSET BaseKeys
    BY <1>0, InState
  <2>2. ASSUME NEW b \in toRetry PROVE MaxCount = 0 \/ nextAttempt(T, b) <= MaxCount
    <3>1. PICK k \in Keys : /\ k \in S1.exec /\ S1.g[k] # NoNode /\ S1.g[k].state \in {"RETRYING"}
                            /\ b = baseOf(k)
      BY <1>0, InState
    <3>2. Allowed(T, k)
      BY <3>1 DEF Fine, Good, RetryOK
    <3> QED
      BY <3>1, <3>2 DEF Allowed
  <2> QED
    BY <2>1, <2>2
<1>5. \A r \in new : RetryRec(r) /\ Advances(r, T)
  <2> HIDE DEF toRetry
  <2> QED
    BY <1>2, <1>4, ScheduleRetries
<1>6. \A i \in scheduleUnimpl(S2, T, toImpl) : ImplRec(i, txnSeqNumber)
  BY <1>0, <1>2, <1>3, Unimplemented DEF Fine
<1>7. GraphOK(S2.g, txnSeqNumber) /\ Truthful(S2.g) /\ SBOK(S1.sb)
  BY <1>3 DEF Fine, Good
<1>8. GraphOK(g, txnSeqNumber) /\ Truthful(g)
  <2>1. S2.g \in Graphs
    BY <1>7 DEF GraphOK
  <2>2. g \in Graphs
    BY <2>1 DEF Graphs
  <2>3. \A k \in Keys : g[k] = NoNode \/ g[k] = S2.g[k]
    OBVIOUS
  <2> HIDE DEF g
  <2> QED
    BY <1>7, <2>2, <2>3 DEF GraphOK, Truthful
<1>9. /\ GraphOK(graph', txnSeqNumber) /\ Truthful(graph')
      /\ panicked' \in BOOLEAN /\ DOMAIN published' = BaseKeys
      /\ retries' = retries \/ retries' = (retries \ T.consumed) \cup new
      /\ \A i \in impls' : i \in impls \/ i \in scheduleUnimpl(S2, T, toImpl)
  <2> HIDE DEF toRetry, toImpl
  <2>1. CASE \E k \in toRetry : retryArgsMissing(S2, k)
    <3>1. panicked' = TRUE /\ graph' = S2.g /\ UNCHANGED <<retries, impls, published>>
      BY <1>1, <2>1 DEF finalizeTransaction
    <3> QED
      BY <1>7, <3>1 DEF SchedulerInv, Counters
  <2>2. CASE ~\E k \in toRetry : retryArgsMissing(S2, k)
    <3>1. /\ graph' = g /\ UNCHANGED panicked
          /\ retries' = (retries \ T.consumed) \cup new
          /\ impls' = (impls \ T.consumed) \cup scheduleUnimpl(S2, T, toImpl)
          /\ DOMAIN published' = BaseKeys
      BY <1>1, <2>2 DEF finalizeTransaction
    <3> HIDE DEF g, new
    <3> QED
      BY <1>8, <3>1 DEF SchedulerInv, Counters
  <2> QED
    BY <2>1, <2>2
<1>10. hist' \in [BaseKeys -> {"unknown", "NB", "SB"}]
  <2>1. hist \in [BaseKeys -> {"unknown", "NB", "SB"}]
    BY DEF SchedulerInv, Counters
  <2>2. hist' = hist \/ hist' = record(hist, S.g, S1.g)
    BY DEF recordTransaction
  <2>3. record(hist, S.g, S1.g) \in [BaseKeys -> {"unknown", "NB", "SB"}]
    BY <2>1 DEF record, valueStateToOrigin
  <2> QED
    BY <2>1, <2>2, <2>3
<1>11. /\ txnSeqNumber' = txnSeqNumber + 1 /\ txnSeqNumber' \in 0..MaxTxns /\ sb' = S1.sb
  BY <1>2 DEF recordTransaction
<1> HIDE DEF new, toImpl
<1> QED
  BY <1>5, <1>6, <1>7, <1>9, <1>10, <1>11 DEF Processed

LEMMA ProcessTransaction ==
    ASSUME SchedulerInv, NEW T, TxnFields(T), T.seqNum = txnSeqNumber,
           NEW S, Fine(S, T), S.exec = {}, NEW values, ValuesOK(values), NEW skipExec, NEW simulate,
           processTransaction(T, S, values, skipExec, simulate)
    PROVE  Processed(T)
<1> DEFINE order == orderValuesByOp(T, S.g, values)
           S1 == execute(T, S, values, order, skipExec, simulate)
<1>1. recordTransaction(T, S, S1)
  BY DEF processTransaction
<1>2. \A op \in 1..4 : order[op] \subseteq DOMAIN values
  BY OrderOK
<1> HIDE DEF order
<1>3. Fine(S1, T)
  BY <1>2, Execute
<1> HIDE DEF S1
<1> QED
  BY <1>1, <1>3, RecordTransaction


-----------------------------------------------------------------------------
(* What the transactions carry *)

\* T has what transaction gives it, but for the fields of its own
Carries(T, type, enabled, retryKeys, attempt, consumed) ==
    /\ {"type", "seqNum", "retryEnabled", "retryKeys", "attempt"} \subseteq DOMAIN T
    /\ T.seqNum = txnSeqNumber /\ T.type = type /\ T.retryEnabled = enabled
    /\ T.retryKeys = retryKeys /\ T.attempt = attempt /\ T.consumed = consumed

LEMMA CarriesFields ==
    ASSUME SchedulerInv, NEW T, NEW type, NEW enabled \in BOOLEAN, NEW retryKeys, NEW attempt \in Nat,
           NEW consumed, Carries(T, type, enabled, retryKeys, attempt, consumed)
    PROVE  TxnFields(T) /\ T.seqNum = txnSeqNumber
BY DEF Carries, TxnFields, TxnOK, SchedulerInv, Counters

LEMMA KVForTxn ==
    ASSUME NEW k \in BaseKeys, NEW v \in OptValues(k), NEW origin \in {"NB", "SB"}, NEW isRevert \in BOOLEAN
    PROVE  KVOK(kvForTxn(k, v, origin, isRevert))
<1>1. k \in Keys /\ v \in Values
  BY ValueType DEF Keys
<1> DEFINE kv == kvForTxn(k, v, origin, isRevert)
<1>2. kv \in KVs /\ kv.key = k /\ kv.value = v
  BY <1>1 DEF kvForTxn, KVs
<1> HIDE DEF kv
<1>3. KVOK(kv)
  BY <1>2 DEF KVOK
<1> QED
  BY <1>3 DEF kv

\* last values are given back under NB
LEMMA LastValue ==
    ASSUME SchedulerInv, NEW k \in BaseKeys, graph[k] # NoNode, graph[k].upd # NoUpdate
    PROVE  KVOK(lastValue(k))
<1> DEFINE u == graph[k].upd
           origin == "NB"
<1>1. NodeOK(graph[k], k, txnSeqNumber - 1)
  BY DEF SchedulerInv, WellFormed, GraphOK, Keys
<1>2. u \in LastUpdates /\ u # NoUpdate /\ u.value \in OptValues(k)
  BY <1>1, NodeFields DEF NodeOK, NodeRaw
<1>3. u.revert \in BOOLEAN
  <2> HIDE DEF u
  <2> QED
    BY <1>2 DEF LastUpdates
<1>4. origin \in {"NB", "SB"}
  OBVIOUS
<1>5. lastValue(k) = kvForTxn(k, u.value, origin, u.revert)
  BY DEF lastValue
<1> HIDE DEF u, origin
<1> QED
  BY <1>2, <1>3, <1>4, <1>5, KVForTxn

LEMMA RetryValues ==
    ASSUME SchedulerInv, NEW keys, DOMAIN keys \subseteq BaseKeys
    PROVE  ValuesOK(preProcessRetryTxn(keys))
<1> DEFINE current == {k \in DOMAIN keys :
                         /\ graph[k] # NoNode /\ graph[k].upd # NoUpdate
                         /\ graph[k].upd.txnSeqNum <= keys[k]}
           values == preProcessRetryTxn(keys)
<1>1. values = [k \in current |-> lastValue(k)]
  BY DEF preProcessRetryTxn
<1>2. \A k \in current : k \in Keys /\ KVOK(lastValue(k))
  BY LastValue DEF Keys
<1> HIDE DEF current, values
<1>3. DOMAIN values = current /\ \A k \in current : values[k] = lastValue(k)
  BY <1>1
<1> QED
  BY <1>2, <1>3 DEF ValuesOK, values

-----------------------------------------------------------------------------
(* The values of SB *)

LEMMA NotifiedValue ==
    ASSUME NEW x \in Notifications \cup Drifts, NEW k \in notified(x)
    PROVE  k \in Keys /\ valueOf(x, k) \in OptValues(k) /\ (x \in Notifications => k \in BaseKeys)
<1> DEFINE i == CHOOSE i \in DOMAIN x : x[i].key = k
<1>1. i \in DOMAIN x /\ x[i].key = k
  BY DEF notified
<1>2. valueOf(x, k) = x[i].value
  BY DEF valueOf
<1> HIDE DEF i
<1> QED
  BY <1>1, <1>2, SchedulerAssumption DEF OptValues

LEMMA SBChanges ==
    ASSUME SchedulerInv, NEW x \in Notifications \cup Drifts, SBChange(x)
    PROVE  SBOK(sb')
<1>1. SBOK(sb)
  BY DEF SchedulerInv, WellFormed
<1>2. sb' = [k \in Keys |-> IF k \in notified(x) THEN valueOf(x, k) ELSE sb[k]]
  BY DEF SBChange
<1>3. \A k \in Keys : sb'[k] \in OptValues(k)
  BY <1>1, <1>2, NotifiedValue DEF SBOK
<1>4. sb' \in [Keys -> Values]
  BY <1>2, <1>3, ValueType
<1> QED
  BY <1>3, <1>4 DEF SBOK

LEMMA NotificationValues ==
    ASSUME NEW x \in Notifications, NEW values,
           values = [k \in notified(x) |-> kvForTxn(k, valueOf(x, k), "SB", FALSE)]
    PROVE  ValuesOK(values)
<1> DEFINE origin == "SB"
           no == FALSE
<1>1. origin \in {"NB", "SB"} /\ no \in BOOLEAN
  OBVIOUS
<1>2. values = [k \in notified(x) |-> kvForTxn(k, valueOf(x, k), origin, no)]
  OBVIOUS
<1> HIDE DEF origin, no
<1>3. ASSUME NEW k \in notified(x) PROVE k \in Keys /\ KVOK(kvForTxn(k, valueOf(x, k), origin, no))
  BY <1>1, NotifiedValue, KVForTxn
<1> QED
  BY <1>2, <1>3 DEF ValuesOK


-----------------------------------------------------------------------------
(* The values of NB *)

LEMMA GivenValues ==
    ASSUME NEW q \in Requests, NEW values,
           values = [k \in DOMAIN q.values |-> kvForTxn(k, q.values[k], "NB", FALSE)]
    PROVE  ValuesOK(values) /\ DOMAIN values \subseteq BaseKeys
<1> DEFINE origin == "NB"
           no == FALSE
<1>1. origin \in {"NB", "SB"} /\ no \in BOOLEAN
  OBVIOUS
<1>2. values = [k \in DOMAIN q.values |-> kvForTxn(k, q.values[k], origin, no)]
  OBVIOUS
<1> HIDE DEF origin, no
<1>3. ASSUME NEW k \in DOMAIN q.values
      PROVE  k \in BaseKeys /\ KVOK(kvForTxn(k, q.values[k], origin, no))
  <2>1. k \in BaseKeys /\ q.values[k] \in OptValues(k)
    BY SchedulerAssumption DEF OptValues
  <2> QED
    BY <1>1, <2>1, KVForTxn
<1> QED
  BY <1>2, <1>3 DEF ValuesOK, Keys

\* nodes of base values are the nodes of base keys
LEMMA BaseNodes ==
    ASSUME NEW g, NEW seq, GraphOK(g, seq)
    PROVE  nbBaseKeys(g) \subseteq BaseKeys /\ sbBaseKeys(g) \subseteq BaseKeys
<1>1. ASSUME NEW k \in nodesOf(g), g[k].base = k PROVE k \in BaseKeys
  <2>1. k \in Keys /\ NodeOK(g[k], k, seq)
    BY DEF nodesOf, GraphOK
  <2> QED
    BY <1>1, <2>1, KeyKinds DEF NodeOK
<1> QED
  BY <1>1 DEF nbBaseKeys, sbBaseKeys

LEMMA ResyncValues ==
    ASSUME NEW T, NEW S, Fine(S, T), NEW values, ValuesOK(values), NEW p, p = resyncValues(S, values)
    PROVE  p.s = S /\ ValuesOK(p.values)
<1> DEFINE NB == nbBaseKeys(S.g)
           SB == sbBaseKeys(S.g)
           no == FALSE
           nborigin == "NB"
           sborigin == "SB"
           gone(k) == kvForTxn(k, Nil, nborigin, no)
           found(k) == kvForTxn(k, S.g[k].value, sborigin, no)
           all == p.values
<1>1. /\ p.s = S
      /\ all = [k \in DOMAIN values \cup NB \cup SB |->
                   IF k \in DOMAIN values THEN values[k]
                   ELSE IF k \in NB THEN gone(k) ELSE found(k)]
  BY DEF resyncValues
<1>2. NB \subseteq BaseKeys /\ SB \subseteq BaseKeys
  BY BaseNodes DEF Fine, Good
<1>3. no \in BOOLEAN /\ nborigin \in {"NB", "SB"} /\ sborigin \in {"NB", "SB"}
  OBVIOUS
<1>4. SB \subseteq nodesOf(S.g)
  BY DEF sbBaseKeys
<1> HIDE DEF NB, SB, no, nborigin, sborigin
<1>5. ASSUME NEW k \in NB PROVE KVOK(gone(k))
  BY <1>2, <1>3, ValueType, KVForTxn DEF Keys
<1>6. ASSUME NEW k \in SB PROVE KVOK(found(k))
  <2>1. k \in BaseKeys /\ k \in Keys /\ S.g[k] # NoNode
    BY <1>2, <1>4 DEF nodesOf
  <2>2. NodeOK(S.g[k], k, T.seqNum)
    BY <2>1, GoodOthers DEF Fine
  <2>3. S.g[k].value \in OptValues(k)
    BY <2>2 DEF NodeOK, NodeRaw
  <2> QED
    BY <1>3, <2>1, <2>3, KVForTxn
<1> HIDE DEF gone, found
<1>7. ASSUME NEW k \in DOMAIN all PROVE k \in Keys /\ KVOK(all[k])
  <2>1. k \in DOMAIN values \cup NB \cup SB
    BY <1>1, <1>7
  <2>2. all[k] = IF k \in DOMAIN values THEN values[k] ELSE IF k \in NB THEN gone(k) ELSE found(k)
    BY <1>1, <2>1
  <2>3. CASE k \in DOMAIN values
    BY <2>2, <2>3 DEF ValuesOK
  <2>4. CASE k \notin DOMAIN values /\ k \in NB
    BY <1>2, <1>5, <2>2, <2>4 DEF Keys
  <2>5. CASE k \notin DOMAIN values /\ k \notin NB
    BY <1>2, <1>6, <2>1, <2>2, <2>5 DEF Keys
  <2> QED
    BY <2>3, <2>4, <2>5
<1> QED
  BY <1>1, <1>7 DEF ValuesOK

LEMMA PreProcess ==
    ASSUME SchedulerInv, NEW q \in Requests, NEW T, T.seqNum = txnSeqNumber, T.resync = q.resync,
           ValuesOK(T.values), ~lastUpdateMissing(q), NEW p, p = preProcessNBTransaction(T)
    PROVE  Fine(p.s, T) /\ p.s.exec = {} /\ ValuesOK(p.values)
<1> DEFINE S == State(graph)
           NB == nbBaseKeys(graph)
           values == IF T.resync = "Downstream" THEN [k \in NB |-> lastValue(k)] ELSE T.values
           R == resyncState(T, values)
<1>1. Fine(S, T) /\ S.exec = {}
  BY StateGood
<1>2. T.seqNum \in Nat
  BY DEF SchedulerInv, Counters
<1>3. CASE T.resync = "NotResync"
  <2>1. p.s = S /\ p.values = T.values
    BY <1>3 DEF preProcessNBTransaction
  <2> QED
    BY <1>1, <2>1
<1>4. CASE T.resync # "NotResync"
  <2>1. p = resyncValues(R, values)
    BY <1>4 DEF preProcessNBTransaction
  <2>2. ValuesOK(values)
    <3>1. CASE T.resync = "Downstream"
      <4>1. NB \subseteq BaseKeys /\ NB \subseteq nodesOf(graph)
        BY BaseNodes DEF SchedulerInv, WellFormed, nbBaseKeys
      <4>2. \A k \in NB : graph[k] # NoNode /\ graph[k].upd # NoUpdate
        BY <3>1, <4>1 DEF lastUpdateMissing, nodesOf
      <4> HIDE DEF NB
      <4>3. \A k \in NB : k \in Keys /\ KVOK(lastValue(k))
        BY <4>1, <4>2, LastValue DEF Keys
      <4>4. values = [k \in NB |-> lastValue(k)]
        BY <3>1
      <4> QED
        BY <4>3, <4>4 DEF ValuesOK
    <3>2. CASE T.resync # "Downstream"
      BY <3>2
    <3> QED
      BY <3>1, <3>2
  <2> HIDE DEF values
  <2>3. Fine(R, T) /\ R.exec = {}
    <3>1. CASE T.resync = "Upstream"
      BY <1>1, <3>1 DEF resyncState
    <3>2. CASE T.resync # "Upstream"
      <4> DEFINE U == [T EXCEPT !.values = values, !.firstResync = ~resynced]
      <4>1. R = refreshGraph(S, U, hist, BaseKeys)
        BY <3>2 DEF resyncState
      <4> HIDE DEF R, S, U
      <4>2. Fine(R, T) /\ R.exec = S.exec
        BY <1>1, <1>2, <4>1, FineRefreshed
      <4> QED
        BY <1>1, <4>2
    <3> QED
      BY <3>1, <3>2
  <2> HIDE DEF R
  <2>4. p.s = R /\ ValuesOK(p.values)
    BY <2>1, <2>2, <2>3, ResyncValues
  <2> QED
    BY <2>3, <2>4
<1> QED
  BY <1>3, <1>4


-----------------------------------------------------------------------------
(* The steps *)

\* What a transaction processed keeps of the invariant.
LEMMA ProcessedInv ==
    ASSUME SchedulerInv, NEW T, Processed(T)
    PROVE  /\ GraphOK(graph', txnSeqNumber' - 1) /\ Truthful(graph') /\ SBOK(sb')
           /\ \A r \in retries' : RetryRec(r)
           /\ \A i \in impls' : ImplRec(i, txnSeqNumber' - 1)
           /\ DOMAIN published' = BaseKeys /\ hist' \in [BaseKeys -> {"unknown", "NB", "SB"}]
           /\ txnSeqNumber' \in 0..MaxTxns /\ panicked' \in BOOLEAN
<1>1. txnSeqNumber \in Nat /\ txnSeqNumber' - 1 = txnSeqNumber
  BY DEF SchedulerInv, Counters, Processed
<1>2. \A r \in retries : RetryRec(r)
  BY DEF SchedulerInv, WellFormed
<1>3. \A r \in retries' : RetryRec(r)
  BY <1>2 DEF Processed
<1>4. \A i \in impls : ImplRec(i, txnSeqNumber)
  <2>1. \A i \in impls : ImplRec(i, txnSeqNumber - 1)
    BY DEF SchedulerInv, WellFormed
  <2>2. \A n \in 0 .. txnSeqNumber - 1 : n \in 0..txnSeqNumber
    BY <1>1
  <2> QED
    BY <2>1, <2>2 DEF ImplRec
<1>5. \A i \in impls' : ImplRec(i, txnSeqNumber)
  BY <1>4 DEF Processed
<1> QED
  BY <1>1, <1>3, <1>5 DEF Processed

LEMMA NBTransactionStep ==
    ASSUME SchedulerInv, NEW q \in Requests, NEW o, NBTransaction(q, o)
    PROVE  /\ SchedulerInv'
           /\ retries' = retries \/ \E T : Processed(T) /\ T.consumed = {}
<1> DEFINE T == [transaction("NBTransaction", o) EXCEPT
                   !.resync = q.resync,
                   !.values = [k \in DOMAIN q.values |-> kvForTxn(k, q.values[k], "NB", FALSE)],
                   !.retryEnabled = q.retry, !.revertOnFailure = q.revert]
           none == {}
           first == 0
           type == "NBTransaction"
           p == preProcessNBTransaction(T)
           skip == q.resync # "NotResync" /\ DOMAIN p.values = {}
           sim == q.simulate /\ ~skip
<1>1. CASE lastUpdateMissing(q)
  <2>1. PanicInResync
    BY <1>1 DEF NBTransaction
  <2>2. /\ panicked' = TRUE
        /\ UNCHANGED <<graph, sb, hist, txnSeqNumber, resynced, retries, impls, registered,
                       notifs, published, nb, last>>
    BY <2>1 DEF PanicInResync
  <2>3. WellFormed'
    BY <2>2 DEF SchedulerInv, WellFormed
  <2>4. Counters'
    BY <2>2 DEF SchedulerInv, Counters
  <2> QED
    BY <2>2, <2>3, <2>4 DEF SchedulerInv
<1>2. CASE ~lastUpdateMissing(q)
  <2>1. Carries(T, type, q.retry, none, first, none)
    BY DEF Carries, transaction
  <2>2. T.resync = q.resync
        /\ T.values = [k \in DOMAIN q.values |-> kvForTxn(k, q.values[k], "NB", FALSE)]
    BY DEF transaction
  <2>3. /\ processNBTransaction(T, p, q)
        /\ resynced' = (resynced \/ q.resync # "NotResync")
        /\ nb' = CASE q.resync = "Downstream" -> nb
                   [] q.resync \in {"Full", "Upstream"} -> nbValues(q, [k \in BaseKeys |-> Nil])
                   [] OTHER -> IF last'.reverted # "no" THEN nb ELSE nbValues(q, nb)
        /\ UNCHANGED <<registered, notifs>>
    BY <1>2 DEF NBTransaction
  <2>4. processTransaction(T, p.s, p.values, skip, sim)
    BY <2>3 DEF processNBTransaction
  <2>5. q.retry \in BOOLEAN /\ first \in Nat
    BY SchedulerAssumption
  <2> HIDE DEF T, none, first, type, p, skip, sim
  <2>6. TxnFields(T) /\ T.seqNum = txnSeqNumber /\ T.consumed = none
    BY <2>1, <2>5, CarriesFields DEF Carries
  <2>7. ValuesOK(T.values)
    BY <2>2, GivenValues
  <2>8. Fine(p.s, T) /\ p.s.exec = {} /\ ValuesOK(p.values)
    BY <1>2, <2>2, <2>6, <2>7, PreProcess DEF p
  <2>9. Processed(T)
    BY <2>4, <2>6, <2>8, ProcessTransaction
  <2>10. DOMAIN nb' = BaseKeys /\ resynced' \in BOOLEAN
    <3>1. DOMAIN nb = BaseKeys /\ resynced \in BOOLEAN
      BY DEF SchedulerInv, Counters
    <3>2. nb' = nb \/ nb' = nbValues(q, [k \in BaseKeys |-> Nil]) \/ nb' = nbValues(q, nb)
      <4>1. CASE q.resync = "Downstream"
        BY <2>3, <4>1
      <4>2. CASE q.resync \in {"Full", "Upstream"}
        BY <2>3, <4>2
      <4>3. CASE q.resync = "NotResync"
        BY <2>3, <4>3
      <4> QED
        BY <4>1, <4>2, <4>3, SchedulerAssumption
    <3> QED
      BY <2>3, <3>1, <3>2 DEF nbValues
  <2>11. WellFormed'
    BY <2>3, <2>9, ProcessedInv DEF SchedulerInv, WellFormed
  <2>12. Counters'
    BY <2>3, <2>9, <2>10, ProcessedInv DEF SchedulerInv, Counters
  <2> QED
    BY <2>6, <2>9, <2>11, <2>12 DEF SchedulerInv, none
<1> QED
  BY <1>1, <1>2

LEMMA KeptByProcessed ==
    ASSUME SchedulerInv, NEW T, Processed(T), notifs' \in Seq(Notifications),
           UNCHANGED <<resynced, registered, nb>>
    PROVE  SchedulerInv'
<1>1. WellFormed'
  BY ProcessedInv DEF WellFormed
<1>2. Counters'
  BY ProcessedInv DEF SchedulerInv, Counters
<1> QED
  BY <1>1, <1>2 DEF SchedulerInv

LEMMA RetryFailedOpsStep ==
    ASSUME SchedulerInv, NEW r \in retries, NEW o, RetryFailedOps(r, o)
    PROVE  /\ SchedulerInv'
           /\ \E T : /\ Processed(T) /\ T.consumed = {r} /\ T.type = "RetryFailedOps"
                     /\ T.retryKeys = DOMAIN r.keys /\ T.attempt = r.attempt
<1> DEFINE T == [transaction("RetryFailedOps", o) EXCEPT
                   !.retryKeys = DOMAIN r.keys, !.attempt = r.attempt, !.consumed = {r}]
           no == FALSE
           type == "RetryFailedOps"
           S == State(graph)
           values == preProcessRetryTxn(r.keys)
           skip == DOMAIN values = {}
           sim == DOMAIN values # {}
<1>1. Carries(T, type, no, DOMAIN r.keys, r.attempt, {r})
  BY DEF Carries, transaction
<1>2. processTransaction(T, S, values, skip, sim) /\ UNCHANGED <<resynced, registered, notifs, nb>>
  BY DEF RetryFailedOps
<1>3. no \in BOOLEAN /\ r.attempt \in Nat /\ DOMAIN r.keys \subseteq BaseKeys
  BY DEF SchedulerInv, WellFormed, RetryRec
<1>4. ValuesOK(values)
  BY <1>3, RetryValues
<1> HIDE DEF T, no, type, S, values, skip, sim
<1>5. TxnFields(T) /\ T.seqNum = txnSeqNumber
  BY <1>1, <1>3, CarriesFields
<1>6. Fine(S, T) /\ S.exec = {}
  BY <1>5, StateGood DEF S
<1>7. Processed(T)
  BY <1>2, <1>4, <1>5, <1>6, ProcessTransaction
<1>8. notifs' \in Seq(Notifications)
  BY <1>2 DEF SchedulerInv, WellFormed
<1>9. SchedulerInv'
  BY <1>2, <1>7, <1>8, KeptByProcessed
<1> QED
  BY <1>1, <1>7, <1>9 DEF Carries, type

LEMMA RetryUnimplOpsStep ==
    ASSUME SchedulerInv, NEW i \in impls, NEW o, RetryUnimplOps(i, o)
    PROVE  SchedulerInv' /\ \E T : Processed(T) /\ T.consumed = {i} /\ T.type = "RetryUnimplOps"
<1> DEFINE T == [transaction("RetryUnimplOps", o) EXCEPT !.consumed = {i}]
           no == FALSE
           type == "RetryUnimplOps"
           none == {}
           first == 0
           S == State(graph)
           keys == [k \in {i.key} |-> i.txnSeqNum]
           values == preProcessRetryTxn(keys)
           skip == DOMAIN values = {}
           sim == DOMAIN values # {}
<1>1. Carries(T, type, no, none, first, {i})
  BY DEF Carries, transaction
<1>2. processTransaction(T, S, values, skip, sim) /\ UNCHANGED <<resynced, registered, notifs, nb>>
  BY DEF RetryUnimplOps
<1>3. no \in BOOLEAN /\ first \in Nat /\ DOMAIN keys \subseteq BaseKeys
  BY DEF SchedulerInv, WellFormed, ImplRec
<1> HIDE DEF keys
<1>4. ValuesOK(values)
  BY <1>3, RetryValues
<1> HIDE DEF T, no, type, none, first, S, values, skip, sim
<1>5. TxnFields(T) /\ T.seqNum = txnSeqNumber
  BY <1>1, <1>3, CarriesFields
<1>6. Fine(S, T) /\ S.exec = {}
  BY <1>5, StateGood DEF S
<1>7. Processed(T)
  BY <1>2, <1>4, <1>5, <1>6, ProcessTransaction
<1>8. notifs' \in Seq(Notifications)
  BY <1>2 DEF SchedulerInv, WellFormed
<1>9. SchedulerInv'
  BY <1>2, <1>7, <1>8, KeptByProcessed
<1> QED
  BY <1>1, <1>7, <1>9 DEF Carries, type

LEMMA SBNotificationStep ==
    ASSUME SchedulerInv, NEW o, SBNotification(o)
    PROVE  SchedulerInv' /\ \E T : Processed(T) /\ T.consumed = {}
<1> DEFINE T == transaction("SBNotification", o)
           no == FALSE
           type == "SBNotification"
           none == {}
           first == 0
           S == State(graph)
           x == Head(notifs)
           values == [k \in notified(x) |-> kvForTxn(k, valueOf(x, k), "SB", FALSE)]
           skip == filterNotification(x[1])
<1>1. Carries(T, type, no, none, first, none)
  BY DEF Carries, transaction
<1>2. /\ processTransaction(T, S, values, skip, no) /\ UNCHANGED <<resynced, registered, nb>>
      /\ notifs # <<>> /\ notifs' = Tail(notifs)
  BY DEF SBNotification
<1>3. no \in BOOLEAN /\ first \in Nat
  OBVIOUS
<1>4. notifs \in Seq(Notifications)
  BY DEF SchedulerInv, WellFormed
<1>5. x \in Notifications /\ notifs' \in Seq(Notifications)
  BY <1>2, <1>4
<1>6. ValuesOK(values)
  <2> HIDE DEF x
  <2> QED
    BY <1>5, NotificationValues
<1> HIDE DEF T, no, type, none, first, S, x, values, skip
<1>7. TxnFields(T) /\ T.seqNum = txnSeqNumber
  BY <1>1, <1>3, CarriesFields
<1>8. Fine(S, T) /\ S.exec = {}
  BY <1>7, StateGood DEF S
<1>9. Processed(T)
  BY <1>2, <1>6, <1>7, <1>8, ProcessTransaction
<1>10. SchedulerInv'
  BY <1>2, <1>5, <1>9, KeptByProcessed
<1> QED
  BY <1>1, <1>9, <1>10 DEF Carries, none


LEMMA EnvironmentStep ==
    ASSUME SchedulerInv,
           \/ \E x \in Notifications : SBEvent(x)
           \/ \E x \in Drifts : SBDrift(x)
           \/ \E k \in Late : RegisterKVDescriptor(k)
           \/ UNCHANGED vars
    PROVE  SchedulerInv' /\ retries' = retries
<1>1. ASSUME NEW x \in Notifications, SBEvent(x) PROVE SchedulerInv' /\ retries' = retries
  <2>1. SBOK(sb')
    BY <1>1, SBChanges DEF SBEvent
  <2>2. /\ notifs' = Append(notifs, x) /\ notifs \in Seq(Notifications)
        /\ UNCHANGED <<graph, hist, txnSeqNumber, resynced, retries, impls, registered,
                       published, panicked, nb, last>>
    BY <1>1 DEF SBEvent, SchedulerInv, WellFormed
  <2>3. notifs' \in Seq(Notifications)
    BY <2>2
  <2>4. WellFormed'
    BY <2>1, <2>2, <2>3 DEF SchedulerInv, WellFormed
  <2>5. Counters'
    BY <2>2 DEF SchedulerInv, Counters
  <2> QED
    BY <2>2, <2>4, <2>5 DEF SchedulerInv
<1>2. ASSUME NEW x \in Drifts, SBDrift(x) PROVE SchedulerInv' /\ retries' = retries
  <2>1. SBOK(sb')
    BY <1>2, SBChanges DEF SBDrift
  <2>2. UNCHANGED <<graph, hist, txnSeqNumber, resynced, retries, impls, registered,
                    notifs, published, panicked, nb>>
    BY <1>2 DEF SBDrift
  <2>3. WellFormed'
    BY <2>1, <2>2 DEF SchedulerInv, WellFormed
  <2>4. Counters'
    BY <2>2 DEF SchedulerInv, Counters
  <2> QED
    BY <2>2, <2>3, <2>4 DEF SchedulerInv
<1>3. ASSUME NEW k \in Late, RegisterKVDescriptor(k) PROVE SchedulerInv' /\ retries' = retries
  <2>1. /\ registered' = registered \cup {k}
        /\ UNCHANGED <<graph, sb, hist, txnSeqNumber, resynced, retries, impls,
                       notifs, published, panicked, nb, last>>
    BY <1>3 DEF RegisterKVDescriptor
  <2>2. WellFormed'
    BY <2>1 DEF SchedulerInv, WellFormed
  <2>3. Counters'
    BY <2>1, SchedulerAssumption DEF SchedulerInv, Counters
  <2> QED
    BY <2>1, <2>2, <2>3 DEF SchedulerInv
<1>4. CASE UNCHANGED vars
  <2>1. WellFormed'
    BY <1>4 DEF SchedulerInv, WellFormed, vars
  <2>2. Counters'
    BY <1>4 DEF SchedulerInv, Counters, vars
  <2> QED
    BY <1>4, <2>1, <2>2 DEF SchedulerInv, vars
<1> QED
  BY <1>1, <1>2, <1>3, <1>4

\* what a step does to the retries
Retried(r, r1) == (DOMAIN r.keys) \cap (DOMAIN r1.keys) # {} => r1.attempt > r.attempt

\* A scheduled retry that is gone was the one being processed: what is retried
\* again comes from its transaction.
LEMMA ConsumedRetry ==
    ASSUME SchedulerInv, NEW T, Processed(T), NEW r \in retries \ retries', NEW again \in retries' \ retries
    PROVE  r \in T.consumed /\ RetryRec(r) /\ Advances(again, T)
<1>1. PICK new : /\ retries' = (retries \ T.consumed) \cup new
                 /\ \A s \in new : RetryRec(s) /\ Advances(s, T)
  BY DEF Processed
<1> QED
  BY <1>1 DEF SchedulerInv, WellFormed

LEMMA StepOK ==
    ASSUME SchedulerInv, [Next]_vars
    PROVE  SchedulerInv' /\ \A r \in retries \ retries', again \in retries' \ retries : Retried(r, again)
<1>1. ASSUME NEW o \in Outcomes, NEW q \in Requests, NBTransaction(q, o)
      PROVE  SchedulerInv' /\ \A r \in retries \ retries', again \in retries' \ retries : Retried(r, again)
  BY <1>1, NBTransactionStep, ConsumedRetry
<1>2. ASSUME NEW o \in Outcomes, NEW s \in retries, RetryFailedOps(s, o)
      PROVE  SchedulerInv' /\ \A r \in retries \ retries', again \in retries' \ retries : Retried(r, again)
  <2>1. PICK T : /\ Processed(T) /\ T.consumed = {s} /\ T.type = "RetryFailedOps"
                 /\ T.retryKeys = DOMAIN s.keys /\ T.attempt = s.attempt
    BY <1>2, RetryFailedOpsStep
  <2>2. ASSUME NEW r \in retries \ retries', NEW again \in retries' \ retries,
               (DOMAIN r.keys) \cap (DOMAIN again.keys) # {}
        PROVE  again.attempt > r.attempt
    <3>1. r = s /\ RetryRec(r) /\ Advances(again, T)
      BY <2>1, ConsumedRetry
    <3>2. again.attempt = r.attempt + 1
      BY <2>1, <2>2, <3>1 DEF Advances
    <3> QED
      BY <3>1, <3>2 DEF RetryRec
  <2> QED
    BY <1>2, <2>2, RetryFailedOpsStep DEF Retried
<1>3. ASSUME NEW o \in Outcomes, NEW i \in impls, RetryUnimplOps(i, o)
      PROVE  SchedulerInv' /\ \A r \in retries \ retries', again \in retries' \ retries : Retried(r, again)
  <2>1. PICK T : Processed(T) /\ T.consumed = {i} /\ T.type = "RetryUnimplOps"
    BY <1>3, RetryUnimplOpsStep
  <2>2. "key" \in DOMAIN i
    BY DEF SchedulerInv, WellFormed, ImplRec
  <2>3. \A r : RetryRec(r) => r # i
    BY <2>2 DEF RetryRec
  <2> QED
    BY <1>3, <2>1, <2>3, RetryUnimplOpsStep, ConsumedRetry
<1>4. ASSUME NEW o \in Outcomes, SBNotification(o)
      PROVE  SchedulerInv' /\ \A r \in retries \ retries', again \in retries' \ retries : Retried(r, again)
  BY <1>4, SBNotificationStep, ConsumedRetry
<1>5. CASE \/ \E x \in Notifications : SBEvent(x)
           \/ \E x \in Drifts : SBDrift(x)
           \/ \E k \in Late : RegisterKVDescriptor(k)
           \/ UNCHANGED vars
  BY <1>5, EnvironmentStep
<1> QED
  BY <1>1, <1>2, <1>3, <1>4, <1>5 DEF Next

-----------------------------------------------------------------------------
(* The theorems *)

\* Whatever the transactions, the outcomes of descriptor calls and the changes
\* of SB, the graph, SB and what is scheduled stay well formed: the inductive
\* invariant of the scheduler (processTransaction, applyValue, refreshGraph).
THEOREM Invariance == Spec => []SchedulerInv
<1>1. Init => SchedulerInv
  BY InvInit
<1>2. SchedulerInv /\ [Next]_vars => SchedulerInv'
  BY StepOK
<1> QED
  BY <1>1, <1>2, PTL DEF Spec

\* The state of the scheduler keeps its type: nodes belong to the base value
\* they are derived from and are older than the next transaction, retries and
\* waits are for base values (KVScheduler.TypeOK).
THEOREM TypeCorrect == Spec => []TypeOK
<1>1. SchedulerInv => TypeOK
  BY InvTypes
<1> QED
  BY <1>1, Invariance, PTL

\* No value is retried more than MaxCount times, through failures of derived
\* values, dependents, reverts and refreshes alike (KVScheduler.RetryBounded;
\* markFailedValue, scheduleRetries).
THEOREM RetriesBounded == Spec => []RetryBounded
<1>1. SchedulerInv => RetryBounded
  BY InvTypes
<1> QED
  BY <1>1, Invariance, PTL

\* Between transactions the status of a value agrees with what its dependents
\* go by: a value reported as in place is available to them, a pending one is
\* not, and an error is kept exactly for the values in an error state, whatever
\* failed, was reverted or was refreshed in between (KVScheduler.StatusTruthful;
\* applyDelete, applyCreate, applyUpdate, refreshAvailNode, refreshUnavailNode).
THEOREM StatusIsTruthful == Spec => []StatusTruthful
<1>1. SchedulerInv => StatusTruthful
  BY InvTruthful
<1> QED
  BY <1>1, Invariance, PTL

\* A value retried in vain is retried again only under the next attempt number
\* (KVScheduler.RetryAdvances; scheduleRetries).
THEOREM RetriesAdvance == Spec => RetryAdvances
<1>1. SchedulerInv /\ [Next]_vars =>
        [\A r \in retries \ retries', again \in retries' \ retries :
            (DOMAIN r.keys) \cap (DOMAIN again.keys) # {} => again.attempt > r.attempt]_vars
  BY StepOK DEF Retried
<1> QED
  BY <1>1, Invariance, PTL DEF Spec, RetryAdvances

=============================================================================
