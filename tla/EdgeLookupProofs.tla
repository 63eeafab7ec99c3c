-------------------------- MODULE EdgeLookupProofs --------------------------
(***************************************************************************)
(* What the operations of the edge lookup do, for keys and edges of any    *)
(* number and depth: the arrays stay a sorted index without holes through  *)
(* every insertion, removal and garbage collection, and looking up finds   *)
(* exactly what was added and not removed.                                 *)
(***************************************************************************)
EXTENDS EdgeLookup, OrderLemmas, FunctionTheorems, SequenceTheorems, TLAPS

-----------------------------------------------------------------------------
(* Positions in a finite set of numbers *)

\* A smaller element has a smaller rank, and nothing else has.
LEMMA RankBelow ==
    ASSUME NEW S \in SUBSET Nat, IsFiniteSet(S), NEW x \in S, NEW b \in Int
    PROVE  /\ rank(S, x) \in 1..Cardinality(S) /\ rank(S, b) \in 0..Cardinality(S)
           /\ Cardinality(S) \in Nat
           /\ x <= b <=> rank(S, x) <= rank(S, b)
<1> DEFINE X == {y \in S : y <= x}
           B == {y \in S : y <= b}
<1>1. /\ IsFiniteSet(X) /\ IsFiniteSet(B)
      /\ Cardinality(X) \in Nat /\ Cardinality(B) \in Nat /\ Cardinality(S) \in Nat
      /\ Cardinality(X) <= Cardinality(S) /\ Cardinality(B) <= Cardinality(S)
  BY FS_Subset, FS_CardinalityType
<1>2. Cardinality(X) # 0
  <2>1. X # {}
    OBVIOUS
  <2> QED
    BY <1>1, <2>1, FS_EmptySet
<1>3. ASSUME x <= b PROVE Cardinality(X) <= Cardinality(B)
  <2>1. X \in SUBSET B
    <3>1. \A y \in S : y \in Nat /\ (y <= x => y <= b)
      BY <1>3
    <3> QED
      BY <3>1
  <2> QED
    BY <1>1, <2>1, FS_Subset
<1>4. ASSUME ~(x <= b) PROVE Cardinality(B) < Cardinality(X)
  <2>1. B \in SUBSET X
    <3>1. \A y \in S : y \in Nat /\ (y <= b => y <= x)
      BY <1>4
    <3> QED
      BY <3>1
  <2>2. x \in X /\ x \notin B
    BY <1>4
  <2>3. Cardinality(B) <= Cardinality(X) /\ Cardinality(X) # Cardinality(B)
    BY <1>1, <2>1, <2>2, FS_Subset
  <2> QED
    BY <1>1, <2>3
<1>5. rank(S, x) = Cardinality(X) /\ rank(S, b) = Cardinality(B)
  BY DEF rank
<1> HIDE DEF X, B
<1> QED
  BY <1>1, <1>2, <1>3, <1>4, <1>5

\* The rank numbers the elements from 1 on, and nth is its inverse.
LEMMA RankNumbers ==
    ASSUME NEW S \in SUBSET Nat, IsFiniteSet(S)
    PROVE  /\ \A x \in S : rank(S, x) \in 1..Cardinality(S) /\ nth(S, rank(S, x)) = x
           /\ \A n \in 1..Cardinality(S) : nth(S, n) \in S /\ rank(S, nth(S, n)) = n
           /\ Cardinality(S) \in Nat
<1> DEFINE f == [x \in S |-> rank(S, x)]
           N == Cardinality(S)
<1>0. N \in Nat
  BY FS_CardinalityType
<1>1. \A x \in S : rank(S, x) \in 1..N
  BY RankBelow
<1>2. \A x, y \in S : rank(S, x) = rank(S, y) => x = y
  <2> SUFFICES ASSUME NEW x \in S, NEW y \in S, rank(S, x) = rank(S, y) PROVE x = y
    OBVIOUS
  <2>1. x \in Int /\ y \in Int
    OBVIOUS
  <2>2. x <= y <=> rank(S, x) <= rank(S, y)
    BY <2>1, RankBelow
  <2>3. y <= x <=> rank(S, y) <= rank(S, x)
    BY <2>1, RankBelow
  <2>4. rank(S, x) \in Nat /\ rank(S, y) \in Nat
    BY <1>0, <1>1
  <2> QED
    BY <2>1, <2>2, <2>3, <2>4
<1>3. f \in Injection(S, 1..N)
  BY <1>1, <1>2 DEF Injection, IsInjective
<1>4. IsFiniteSet(1..N) /\ Cardinality(1..N) = N
  BY <1>0, FS_Interval
<1>5. f \in Surjection(S, 1..N)
  BY <1>3, <1>4, FS_Injection
<1>6. \A n \in 1..N : \E x \in S : rank(S, x) = n
  BY <1>5 DEF Surjection
<1>7. \A n \in 1..N : nth(S, n) \in S /\ rank(S, nth(S, n)) = n
  BY <1>6 DEF nth
<1>8. \A x \in S : nth(S, rank(S, x)) = x
  BY <1>1, <1>2, <1>7
<1> QED
  BY <1>0, <1>1, <1>7, <1>8

-----------------------------------------------------------------------------
(* The order of keys and of edges *)

Paths == Seq(Nat)

LEMMA BeforeIrreflexive ==
    ASSUME NEW k \in Paths
    PROVE  ~Before(k, k)
BY DEF Before, Paths

LEMMA BeforeTransitive ==
    ASSUME NEW a \in Paths, NEW b \in Paths, NEW c \in Paths, Before(a, b), Before(b, c)
    PROVE  Before(a, c)
<1>1. PICK i \in 1..Len(b) : /\ i <= Len(a) + 1 /\ \A j \in 1..(i - 1) : a[j] = b[j]
                             /\ i <= Len(a) => a[i] < b[i]
  BY DEF Before
<1>2. PICK m \in 1..Len(c) : /\ m <= Len(b) + 1 /\ \A j \in 1..(m - 1) : b[j] = c[j]
                             /\ m <= Len(b) => b[m] < c[m]
  BY DEF Before
<1>3. /\ Len(a) \in Nat /\ Len(b) \in Nat /\ Len(c) \in Nat
      /\ \A j \in 1..Len(a) : a[j] \in Nat
      /\ \A j \in 1..Len(b) : b[j] \in Nat
      /\ \A j \in 1..Len(c) : c[j] \in Nat
  BY DEF Paths
<1>4. CASE i < m
  <2>1. i \in 1..Len(c) /\ \A j \in 1..(i - 1) : a[j] = c[j]
    BY <1>1, <1>2, <1>3, <1>4
  <2>2. b[i] = c[i]
    BY <1>1, <1>2, <1>3, <1>4
  <2> QED
    BY <1>1, <2>1, <2>2 DEF Before
<1>5. CASE ~(i < m)
  <2>1. m <= Len(a) + 1 /\ \A j \in 1..(m - 1) : a[j] = c[j]
    BY <1>1, <1>2, <1>3, <1>5
  <2>2. ASSUME m <= Len(a) PROVE a[m] < c[m]
    <3>1. CASE m = i
      BY <1>1, <1>2, <1>3, <2>2, <3>1
    <3>2. CASE m < i
      <4>1. a[m] = b[m] /\ m <= Len(b)
        BY <1>1, <1>2, <1>3, <3>2
      <4> QED
        BY <1>2, <4>1
    <3> QED
      BY <1>1, <1>2, <1>5, <3>1, <3>2
  <2> QED
    BY <1>2, <2>1, <2>2 DEF Before
<1> QED
  BY <1>4, <1>5

LEMMA BeforeTotal ==
    ASSUME NEW a \in Paths, NEW b \in Paths, a # b
    PROVE  Before(a, b) \/ Before(b, a)
<1> DEFINE same(i) == i <= Len(a) /\ i <= Len(b) /\ a[i] = b[i]
           T == {i \in Nat : i > 0 /\ ~same(i)}
<1>1. /\ Len(a) \in Nat /\ Len(b) \in Nat
      /\ \A j \in 1..Len(a) : a[j] \in Nat
      /\ \A j \in 1..Len(b) : b[j] \in Nat
  BY DEF Paths
<1>2. Len(a) + 1 \in T
  BY <1>1
<1>3. PICK i \in T : \A j \in T : i <= j
  <2> HIDE DEF T
  <2>1. T \in SUBSET Nat
    BY DEF T
  <2> QED
    BY <1>2, <2>1, Least
<1>4. /\ i \in Nat /\ i > 0 /\ i <= Len(a) + 1
      /\ \A j \in 1..(i - 1) : j <= Len(a) /\ j <= Len(b) /\ a[j] = b[j]
  <2>1. i \in Nat /\ i > 0 /\ i <= Len(a) + 1
    BY <1>2, <1>3
  <2>2. \A j \in 1..(i - 1) : j \notin T /\ j \in Nat /\ j > 0
    BY <1>3, <2>1
  <2> QED
    BY <2>1, <2>2
<1>5. i <= Len(b) + 1
  BY <1>1, <1>4
<1>6. CASE i <= Len(a) /\ i <= Len(b)
  <2>1. a[i] # b[i]
    BY <1>3, <1>6
  <2>2. a[i] < b[i] \/ b[i] < a[i]
    BY <1>1, <1>4, <1>6, <2>1
  <2> QED
    BY <1>1, <1>4, <1>6, <2>2 DEF Before
<1>7. CASE i = Len(a) + 1 /\ i <= Len(b)
  <2>1. Before(a, b)
    BY <1>1, <1>4, <1>7 DEF Before
  <2> QED
    BY <2>1
<1>8. CASE i = Len(b) + 1 /\ i <= Len(a)
  <2>1. Before(b, a)
    BY <1>1, <1>4, <1>8 DEF Before
  <2> QED
    BY <2>1
<1>9. CASE i = Len(a) + 1 /\ i = Len(b) + 1
  <2>1. Len(a) = Len(b) /\ \A j \in 1..Len(a) : a[j] = b[j]
    BY <1>1, <1>4, <1>9
  <2>2. a = b
    BY <2>1, SeqEqual DEF Paths
  <2> QED
    BY <2>2
<1> QED
  BY <1>1, <1>4, <1>5, <1>6, <1>7, <1>8, <1>9
-----------------------------------------------------------------------------
(* Unordered data with the offsets that order it *)

Arrays(D, R) ==
    {a \in [data : Seq(D), offset : Seq(Nat)] :
        /\ isOrder(a.offset, a.data)
        /\ \A i, j \in DOMAIN a.offset : i < j => a.data[a.offset[j]] \in R[a.data[a.offset[i]]]}

\* R is irreflexive and does not look at the mark of removed data
Flagged(D, R) ==
    /\ \A x \in D : x.removed \in BOOLEAN /\ x \notin R[x]
    /\ \A x \in D, r \in BOOLEAN : /\ [x EXCEPT !.removed = r] \in D
                                   /\ [x EXCEPT !.removed = r].removed = r
    /\ \A x, y \in D, r \in BOOLEAN : y \in R[x] => /\ y \in R[[x EXCEPT !.removed = r]]
                                                         /\ [y EXCEPT !.removed = r] \in R[x]

\* what was added and not removed
items(data) == {data[o] : o \in live(data)}

\* the offsets number the data, which has no repetition
Indexed(data, offset, D, R, N) ==
    /\ data \in Seq(D) /\ offset \in Seq(Nat) /\ Len(offset) = N /\ Len(data) = N /\ N \in Nat
    /\ DOMAIN data = 1..N /\ DOMAIN offset = 1..N
    /\ \A i \in 1..N : offset[i] \in 1..N /\ data[i] \in D
    /\ \A o \in 1..N : \E i \in 1..N : offset[i] = o
    /\ \A i, j \in 1..N : offset[i] = offset[j] => i = j
    /\ \A i, j \in 1..N : data[i] = data[j] => i = j
    /\ \A i, j \in 1..N : i < j => data[offset[j]] \in R[data[offset[i]]]

LEMMA ArrayOffsets ==
    ASSUME NEW D, NEW R, Flagged(D, R), NEW data, NEW offset,
           [data |-> data, offset |-> offset] \in Arrays(D, R)
    PROVE  Indexed(data, offset, D, R, Len(data))
<1>1. /\ data \in Seq(D) /\ offset \in Seq(Nat) /\ isOrder(offset, data)
      /\ \A i, j \in DOMAIN offset : i < j => data[offset[j]] \in R[data[offset[i]]]
  BY DEF Arrays
<1>2. Len(offset) = Len(data) /\ {offset[i] : i \in DOMAIN offset} = DOMAIN data
  BY <1>1 DEF isOrder
<1>3. /\ Len(data) \in Nat /\ DOMAIN data = 1..Len(data) /\ DOMAIN offset = 1..Len(data)
      /\ \A i \in 1..Len(data) : data[i] \in D
  BY <1>1, <1>2, LenProperties, ElementOfSeq
<1>4. /\ \A i \in 1..Len(data) : offset[i] \in 1..Len(data)
      /\ \A o \in 1..Len(data) : \E i \in 1..Len(data) : offset[i] = o
  BY <1>2, <1>3
<1>5. \A i, j \in 1..Len(data) : data[offset[i]] = data[offset[j]] => i = j
  <2> SUFFICES ASSUME NEW i \in 1..Len(data), NEW j \in 1..Len(data), data[offset[i]] = data[offset[j]],
                      i # j
               PROVE  FALSE
    OBVIOUS
  <2>1. data[offset[i]] \in D /\ data[offset[i]] \notin R[data[offset[i]]]
    BY <1>3, <1>4 DEF Flagged
  <2>2. i < j \/ j < i
    BY <1>3
  <2> QED
    BY <1>1, <1>3, <2>1, <2>2
<1>6. \A i, j \in 1..Len(data) : data[i] = data[j] => i = j
  BY <1>4, <1>5
<1> QED
  BY <1>1, <1>2, <1>3, <1>4, <1>5, <1>6 DEF Indexed

\* A function on 1..n is a sequence of length n.
LEMMA FunctionIsSeq ==
    ASSUME NEW S, NEW n \in Nat, NEW f, f \in [1..n -> S]
    PROVE  f \in Seq(S) /\ Len(f) = n
<1>1. f = [i \in 1..n |-> f[i]] /\ \A i \in 1..n : f[i] \in S
  OBVIOUS
<1>2. f \in Seq(S)
  BY <1>1
<1>3. Len(f) \in Nat /\ 1..Len(f) = 1..n
  BY <1>2, LenProperties
<1> QED
  BY <1>2, <1>3

\* t is the sequence s with x inserted at position i
Inserted(t, s, i, x) ==
    /\ Len(t) = Len(s) + 1 /\ DOMAIN t = 1..(Len(s) + 1)
    /\ \A j \in 1..Len(s) : j < i => t[j] = s[j]
    /\ \A j \in 1..Len(s) : i <= j => t[j + 1] = s[j]
    /\ t[i] = x

LEMMA InsertAtProperties ==
    ASSUME NEW S, NEW s \in Seq(S), NEW i \in 1..(Len(s) + 1), NEW e \in S
    PROVE  InsertAt(s, i, e) \in Seq(S) /\ Inserted(InsertAt(s, i, e), s, i, e)
<1> DEFINE a == SubSeq(s, 1, i - 1)
           b == SubSeq(s, i, Len(s))
<1>0. Len(s) \in Nat /\ i \in Nat /\ i >= 1 /\ i <= Len(s) + 1 /\ \A j \in 1..Len(s) : s[j] \in S
  BY LenProperties, ElementOfSeq
<1>1. a \in Seq(S) /\ Len(a) = i - 1 /\ \A j \in 1..(i - 1) : a[j] = s[j]
  <2>1. \A j \in 1..(i - 1) : s[j] \in S
    BY <1>0
  <2>2. /\ a \in Seq(S) /\ Len(a) = IF 1 <= i - 1 THEN (i - 1) - 1 + 1 ELSE 0
        /\ \A j \in 1..((i - 1) - 1 + 1) : a[j] = s[1 + j - 1]
    BY <1>0, <2>1, SubSeqProperties
  <2> HIDE DEF a
  <2>3. Len(a) = i - 1 /\ (i - 1) - 1 + 1 = i - 1
    BY <1>0, <2>2
  <2>4. \A j \in 1..(i - 1) : 1 + j - 1 = j
    BY <1>0
  <2> QED
    BY <2>2, <2>3, <2>4
<1>2. b \in Seq(S) /\ Len(b) = Len(s) - i + 1 /\ \A j \in 1..(Len(s) - i + 1) : b[j] = s[i + j - 1]
  <2>1. \A j \in i..Len(s) : s[j] \in S
    BY <1>0
  <2>2. /\ b \in Seq(S) /\ Len(b) = IF i <= Len(s) THEN Len(s) - i + 1 ELSE 0
        /\ \A j \in 1..(Len(s) - i + 1) : b[j] = s[i + j - 1]
    BY <1>0, <2>1, SubSeqProperties
  <2> HIDE DEF b
  <2> QED
    BY <1>0, <2>2
<1> HIDE DEF a, b
<1> DEFINE c == a \o <<e>>
<1>3. c \in Seq(S) /\ Len(c) = i /\ \A j \in 1..i : c[j] = IF j < i THEN s[j] ELSE e
  <2>1. <<e>> \in Seq(S) /\ Len(<<e>>) = 1 /\ <<e>>[1] = e
    OBVIOUS
  <2>2. /\ c \in Seq(S) /\ Len(c) = Len(a) + 1
        /\ \A j \in 1..(Len(a) + 1) : c[j] = IF j <= Len(a) THEN a[j] ELSE <<e>>[j - Len(a)]
    BY <1>1, <2>1, ConcatProperties
  <2> HIDE DEF c
  <2> QED
    BY <1>0, <1>1, <2>1, <2>2
<1> HIDE DEF c
<1>4. /\ c \o b \in Seq(S) /\ Len(c \o b) = Len(c) + Len(b)
      /\ \A j \in 1..(Len(c) + Len(b)) : (c \o b)[j] = IF j <= Len(c) THEN c[j] ELSE b[j - Len(c)]
  BY <1>2, <1>3, ConcatProperties
<1>5. InsertAt(s, i, e) = c \o b
  BY DEF InsertAt, a, b, c
<1> HIDE DEF a, b, c
<1>6. Len(c) + Len(b) = Len(s) + 1
  BY <1>0, <1>2, <1>3
<1>7. ASSUME NEW j \in 1..Len(s)
      PROVE  (j < i => (c \o b)[j] = s[j]) /\ (i <= j => (c \o b)[j + 1] = s[j])
  <2>0. j \in Nat /\ j \in 1..(Len(s) + 1) /\ j + 1 \in 1..(Len(s) + 1)
    BY <1>0
  <2>1. CASE j < i
    <3>1. (c \o b)[j] = c[j] /\ j \in 1..i
      BY <1>0, <1>3, <1>4, <1>6, <2>0, <2>1
    <3> QED
      BY <1>0, <1>3, <2>1, <3>1
  <2>2. CASE i <= j
    <3>1. (c \o b)[j + 1] = b[(j + 1) - i] /\ (j + 1) - i \in 1..(Len(s) - i + 1)
      BY <1>0, <1>3, <1>4, <1>6, <2>0, <2>2
    <3>2. b[(j + 1) - i] = s[i + ((j + 1) - i) - 1]
      BY <1>2, <3>1
    <3>3. i + ((j + 1) - i) - 1 = j
      BY <1>0, <2>0
    <3> QED
      BY <1>0, <2>0, <2>2, <3>1, <3>2, <3>3
  <2> QED
    BY <1>0, <2>0, <2>1, <2>2
<1>8. (c \o b)[i] = e
  BY <1>0, <1>3, <1>4, <1>6
<1>9. DOMAIN (c \o b) = 1..(Len(s) + 1)
  BY <1>4, <1>6, LenProperties
<1> QED
  BY <1>4, <1>5, <1>6, <1>7, <1>8, <1>9 DEF Inserted

\* e belongs between the data before position idx and the rest
fits(data, offset, e, idx, R) ==
    \A i \in 1..Len(data) : /\ i < idx => e \in R[data[offset[i]]]
                            /\ idx <= i => data[offset[i]] \in R[e]

\* the data in its order
view(data, offset) == [i \in DOMAIN offset |-> data[offset[i]]]

\* New data goes to the end, its offset to the place it belongs to.
LEMMA ArrayInsert ==
    ASSUME NEW D, NEW R, Flagged(D, R), NEW data, NEW offset,
           [data |-> data, offset |-> offset] \in Arrays(D, R),
           NEW e \in D, NEW idx \in 1..(Len(data) + 1), fits(data, offset, e, idx, R)
    PROVE  LET data1 == Append(data, e)
               offset1 == InsertAt(offset, idx, Len(data) + 1)
           IN  /\ [data |-> data1, offset |-> offset1] \in Arrays(D, R)
               /\ Inserted(view(data1, offset1), view(data, offset), idx, e)
<1> DEFINE N == Len(data)
           data1 == Append(data, e)
           offset1 == InsertAt(offset, idx, Len(data) + 1)
<1>1. Indexed(data, offset, D, R, N)
  BY ArrayOffsets
<1>0. N \in Nat /\ idx \in Nat /\ 1 <= idx /\ idx <= N + 1 /\ idx \in 1..(N + 1) /\ N + 1 \in Nat
  BY <1>1 DEF Indexed
<1>2. /\ data1 \in Seq(D) /\ Len(data1) = N + 1 /\ DOMAIN data1 = 1..(N + 1)
      /\ \A o \in 1..N : data1[o] = data[o]
      /\ data1[N + 1] = e
  <2>1. data \in Seq(D)
    BY <1>1 DEF Indexed
  <2> QED
    BY <2>1, AppendProperties, LenProperties
<1>3. offset1 \in Seq(Nat) /\ Inserted(offset1, offset, idx, N + 1)
  <2>1. offset \in Seq(Nat) /\ Len(offset) = N
    BY <1>1 DEF Indexed
  <2> QED
    BY <1>0, <2>1, InsertAtProperties
<1> HIDE DEF N, data1, offset1
<1>4. /\ Len(offset1) = N + 1 /\ DOMAIN offset1 = 1..(N + 1)
      /\ \A j \in 1..N : j < idx => offset1[j] = offset[j]
      /\ \A j \in 1..N : idx <= j => offset1[j + 1] = offset[j]
      /\ offset1[idx] = N + 1
  BY <1>1, <1>3 DEF Inserted, Indexed
<1> DEFINE v == view(data, offset)
           v1 == view(data1, offset1)
<1>8. \A o \in 1..(N + 1) : \E i \in 1..(N + 1) : offset1[i] = o
  <2> SUFFICES ASSUME NEW o \in 1..(N + 1) PROVE \E i \in 1..(N + 1) : offset1[i] = o
    OBVIOUS
  <2>1. CASE o = N + 1
    BY <1>0, <1>4, <2>1
  <2>2. CASE o # N + 1
    <3>1. PICK i \in 1..N : offset[i] = o
      <4>1. o \in 1..N
        BY <1>0, <2>2
      <4> QED
        BY <1>1, <4>1 DEF Indexed
    <3>2. i \in 1..(N + 1) /\ i + 1 \in 1..(N + 1) /\ (i < idx \/ idx <= i)
      BY <1>0
    <3> QED
      BY <1>4, <3>1, <3>2
  <2> QED
    BY <2>1, <2>2
<1>9. \A i \in 1..(N + 1) : offset1[i] \in 1..(N + 1)
  <2> SUFFICES ASSUME NEW i \in 1..(N + 1) PROVE offset1[i] \in 1..(N + 1)
    OBVIOUS
  <2>1. \A j \in 1..N : offset[j] \in 1..(N + 1)
    <3>1. \A j \in 1..N : offset[j] \in 1..N
      BY <1>1 DEF Indexed
    <3>2. \A o \in 1..N : o \in 1..(N + 1)
      BY <1>0
    <3> QED
      BY <3>1, <3>2
  <2>2. CASE i < idx
    <3>1. i \in 1..N
      BY <1>0, <2>2
    <3> QED
      BY <1>4, <2>1, <2>2, <3>1
  <2>3. CASE i = idx
    <3>1. N + 1 \in 1..(N + 1)
      BY <1>0
    <3> QED
      BY <1>4, <2>3, <3>1
  <2>4. CASE i > idx
    <3>1. i - 1 \in 1..N /\ idx <= i - 1 /\ (i - 1) + 1 = i
      BY <1>0, <2>4
    <3> QED
      BY <1>4, <2>1, <3>1
  <2> QED
    BY <1>0, <2>2, <2>3, <2>4
<1>10. isOrder(offset1, data1)
  <2>1. {offset1[i] : i \in 1..(N + 1)} = 1..(N + 1)
    BY <1>8, <1>9
  <2> QED
    BY <1>2, <1>4, <2>1 DEF isOrder
<1>5. v \in Seq(D) /\ Len(v) = N /\ \A i \in 1..N : v[i] = data[offset[i]]
  <2>1. DOMAIN offset = 1..N /\ \A i \in 1..N : data[offset[i]] \in D
    BY <1>1 DEF Indexed
  <2>2. v = [i \in 1..N |-> data[offset[i]]]
    BY <2>1 DEF view
  <2> HIDE DEF v
  <2> QED
    BY <1>0, <2>1, <2>2
<1>6. Len(v1) = N + 1 /\ DOMAIN v1 = 1..(N + 1) /\ \A i \in 1..(N + 1) : v1[i] = data1[offset1[i]]
  <2>1. v1 = [i \in 1..(N + 1) |-> data1[offset1[i]]]
    BY <1>4 DEF view
  <2>2. \A i \in 1..(N + 1) : data1[offset1[i]] \in D
    BY <1>2, <1>9, ElementOfSeq
  <2> HIDE DEF v1
  <2> QED
    BY <1>0, <2>1, <2>2
<1> HIDE DEF v, v1
<1>7. \A i \in 1..N : /\ i < idx => v1[i] = v[i]
                      /\ idx <= i => v1[i + 1] = v[i]
                      /\ i < idx => e \in R[v[i]]
                      /\ idx <= i => v[i] \in R[e]
  <2> SUFFICES ASSUME NEW i \in 1..N
               PROVE  /\ i < idx => v1[i] = v[i]
                      /\ idx <= i => v1[i + 1] = v[i]
                      /\ i < idx => e \in R[v[i]]
                      /\ idx <= i => v[i] \in R[e]
    OBVIOUS
  <2>1. i \in 1..(N + 1) /\ i + 1 \in 1..(N + 1)
    BY <1>0
  <2>2. v[i] = data[offset[i]] /\ v1[i] = data1[offset1[i]] /\ v1[i + 1] = data1[offset1[i + 1]]
    BY <1>5, <1>6, <2>1
  <2>3. data1[offset[i]] = data[offset[i]]
    BY <1>1, <1>2 DEF Indexed
  <2>4. (i < idx => offset1[i] = offset[i]) /\ (idx <= i => offset1[i + 1] = offset[i])
    BY <1>4
  <2>5. (i < idx => e \in R[v[i]]) /\ (idx <= i => v[i] \in R[e])
    BY <2>2 DEF fits, N
  <2> QED
    BY <2>2, <2>3, <2>4, <2>5
<1>13. v1[idx] = e
  BY <1>0, <1>2, <1>4, <1>6
<1>14. ASSUME NEW i \in 1..N, NEW j \in 1..N, i < j
       PROVE  v[j] \in R[v[i]]
  <2>1. data[offset[j]] \in R[data[offset[i]]]
    BY <1>1, <1>14 DEF Indexed
  <2> QED
    BY <1>5, <2>1
<1>11. ASSUME NEW i \in 1..(N + 1), NEW j \in 1..(N + 1), i < j
       PROVE  v1[j] \in R[v1[i]]
  <2>0. i \in Nat /\ j \in Nat
    BY <1>0
  <2>1. CASE j < idx
    <3>1. i \in 1..N /\ j \in 1..N /\ i < idx
      BY <1>0, <1>11, <2>0, <2>1
    <3>2. v1[i] = v[i] /\ v1[j] = v[j]
      BY <1>7, <2>1, <3>1
    <3> QED
      BY <1>14, <1>11, <3>1, <3>2
  <2>2. CASE j = idx
    <3>1. i \in 1..N /\ i < idx
      BY <1>0, <1>11, <2>0, <2>2
    <3> QED
      BY <1>7, <1>13, <2>2, <3>1
  <2>3. CASE j > idx
    <3>1. j - 1 \in 1..N /\ idx <= j - 1 /\ (j - 1) + 1 = j
      BY <1>0, <2>0, <2>3
    <3>2. v1[j] = v[j - 1] /\ v[j - 1] \in R[e]
      BY <1>7, <3>1
    <3>3. CASE i < idx
      <4>1. i \in 1..N /\ i < j - 1
        BY <1>0, <2>0, <2>3, <3>3
      <4>2. v1[i] = v[i]
        BY <1>7, <3>3, <4>1
      <4> QED
        BY <1>14, <3>1, <3>2, <4>1, <4>2
    <3>4. CASE i = idx
      BY <1>13, <3>2, <3>4
    <3>5. CASE i > idx
      <4>1. i - 1 \in 1..N /\ idx <= i - 1 /\ (i - 1) + 1 = i /\ i - 1 < j - 1
        BY <1>0, <1>11, <2>0, <3>5
      <4>2. v1[i] = v[i - 1]
        BY <1>7, <4>1
      <4> QED
        BY <1>14, <3>1, <3>2, <4>1, <4>2
    <3> QED
      BY <1>0, <2>0, <3>3, <3>4, <3>5
  <2> QED
    BY <1>0, <2>0, <2>1, <2>2, <2>3
<1>12. [data |-> data1, offset |-> offset1] \in Arrays(D, R)
  <2>1. \A i, j \in DOMAIN offset1 : i < j => data1[offset1[j]] \in R[data1[offset1[i]]]
    BY <1>4, <1>6, <1>11
  <2> QED
    BY <1>2, <1>3, <1>10, <2>1 DEF Arrays
<1>15. Inserted(v1, v, idx, e)
  BY <1>5, <1>6, <1>7, <1>13 DEF Inserted
<1> QED
  BY <1>12, <1>15 DEF v, v1, data1, offset1, N

\* the data that was removed and is not collected yet
garbage(data) == DOMAIN data \ live(data)

LEMMA GarbageFinite ==
    ASSUME NEW D, NEW data \in Seq(D)
    PROVE  /\ IsFiniteSet(garbage(data)) /\ IsFiniteSet(live(data)) /\ live(data) \in SUBSET Nat
           /\ Cardinality(garbage(data)) \in Nat
<1>1. DOMAIN data = 1..Len(data) /\ Len(data) \in Nat
  BY LenProperties
<1>2. IsFiniteSet(1..Len(data))
  BY <1>1, FS_Interval
<1>3. live(data) \in SUBSET (1..Len(data)) /\ garbage(data) \in SUBSET (1..Len(data))
  BY <1>1 DEF live, garbage
<1>4. 1..Len(data) \in SUBSET Nat
  BY <1>1
<1> QED
  BY <1>2, <1>3, <1>4, FS_Subset, FS_CardinalityType

LEMMA AppendItems ==
    ASSUME NEW D, NEW data \in Seq(D), NEW e \in D, e.removed = FALSE
    PROVE  /\ items(Append(data, e)) = items(data) \cup {e}
           /\ garbage(Append(data, e)) = garbage(data)
<1> DEFINE N == Len(data)
           data1 == Append(data, e)
<1>1. /\ N \in Nat /\ DOMAIN data = 1..N /\ DOMAIN data1 = 1..(N + 1)
      /\ \A o \in 1..N : data1[o] = data[o]
      /\ data1[N + 1] = e
  BY AppendProperties, LenProperties
<1> HIDE DEF N, data1
<1>2. N + 1 \notin 1..N /\ \A o : o \in 1..(N + 1) <=> (o \in 1..N \/ o = N + 1)
  BY <1>1
<1>3. live(data1) = live(data) \cup {N + 1}
  BY <1>1, <1>2 DEF live
<1>4. items(data1) = items(data) \cup {e}
  <2>1. \A o \in live(data) : data1[o] = data[o]
    BY <1>1 DEF live
  <2> QED
    BY <1>1, <1>3, <2>1 DEF items
<1>5. garbage(data1) = garbage(data)
  BY <1>1, <1>2, <1>3 DEF garbage
<1> QED
  BY <1>4, <1>5 DEF data1

\* data1 is data with the mark r at o
Marks(data1, data, o, r) ==
    /\ Len(data1) = Len(data) /\ DOMAIN data1 = DOMAIN data
    /\ \A p \in DOMAIN data : p # o => data1[p] = data[p]
    /\ data1[o] = [data[o] EXCEPT !.removed = r] /\ data1[o].removed = r

\* Marking data as removed, or as used again, leaves its order alone.
LEMMA ArrayMark ==
    ASSUME NEW D, NEW R, Flagged(D, R), NEW data, NEW offset,
           [data |-> data, offset |-> offset] \in Arrays(D, R),
           NEW o \in DOMAIN data, NEW r \in BOOLEAN
    PROVE  /\ [data |-> marked(data, o, r), offset |-> offset] \in Arrays(D, R)
           /\ Marks(marked(data, o, r), data, o, r)
<1> DEFINE data1 == marked(data, o, r)
           N == Len(data)
<1>1. Indexed(data, offset, D, R, N)
  BY ArrayOffsets
<1>2. /\ data \in Seq(D) /\ offset \in Seq(Nat) /\ Len(offset) = N /\ N \in Nat
      /\ DOMAIN data = 1..N /\ DOMAIN offset = 1..N
      /\ \A i \in 1..N : offset[i] \in 1..N /\ data[i] \in D
      /\ \A p \in 1..N : \E i \in 1..N : offset[i] = p
      /\ \A i, j \in 1..N : i < j => data[offset[j]] \in R[data[offset[i]]]
      /\ \A i, j \in 1..N : offset[i] = offset[j] => i = j
  BY <1>1 DEF Indexed
<1>3. data1 = [i \in 1..N |-> IF i = o THEN [data[i] EXCEPT !.removed = r] ELSE data[i]]
  BY <1>2 DEF marked
<1>4. o \in 1..N
  BY <1>2
<1> HIDE DEF data1, N
<1>5. /\ \A p \in 1..N : p # o => data1[p] = data[p]
      /\ data1[o] = [data[o] EXCEPT !.removed = r] /\ data1[o].removed = r
      /\ \A p \in 1..N : data1[p] \in D
      /\ DOMAIN data1 = 1..N
  BY <1>2, <1>3, <1>4 DEF Flagged
<1>6. data1 \in Seq(D) /\ Len(data1) = N
  <2>1. data1 = [i \in 1..N |-> data1[i]]
    BY <1>3
  <2>2. N \in Nat /\ \A p \in 1..N : data1[p] \in D
    BY <1>2, <1>5
  <2>3. [i \in 1..N |-> data1[i]] \in Seq(D)
    BY <2>2
  <2>4. data1 \in Seq(D)
    BY <2>1, <2>3
  <2>5. Len(data1) \in Nat /\ 1..Len(data1) = 1..N
    BY <1>5, <2>4, LenProperties
  <2>6. Len(data1) = N
    BY <1>2, <2>5
  <2> QED
    BY <2>4, <2>6
<1>7. isOrder(offset, data1)
  <2>1. {offset[i] : i \in 1..N} = 1..N
    <3>1. \A i \in 1..N : offset[i] \in 1..N
      BY <1>2
    <3>2. \A p \in 1..N : \E i \in 1..N : offset[i] = p
      BY <1>2
    <3> QED
      BY <3>1, <3>2
  <2> QED
    BY <1>2, <1>5, <1>6, <2>1 DEF isOrder
<1>8. ASSUME NEW i \in 1..N, NEW j \in 1..N, i < j
      PROVE  data1[offset[j]] \in R[data1[offset[i]]]
  <2> DEFINE p == offset[i]
             q == offset[j]
  <2>1. p \in 1..N /\ q \in 1..N /\ data[p] \in D /\ data[q] \in D /\ data[q] \in R[data[p]]
    BY <1>2, <1>8
  <2>2. p # q
    <3>1. i # j
      BY <1>2, <1>8
    <3> QED
      BY <1>2, <3>1
  <2> HIDE DEF p, q
  <2>3. CASE p = o
    <3>1. data1[q] = data[q] /\ data1[p] = [data[p] EXCEPT !.removed = r]
      BY <1>5, <2>1, <2>2, <2>3
    <3>2. data[q] \in R[[data[p] EXCEPT !.removed = r]]
      BY <2>1 DEF Flagged
    <3> QED
      BY <3>1, <3>2 DEF p, q
  <2>4. CASE q = o
    <3>1. data1[p] = data[p] /\ data1[q] = [data[q] EXCEPT !.removed = r]
      BY <1>5, <2>1, <2>2, <2>4
    <3>2. [data[q] EXCEPT !.removed = r] \in R[data[p]]
      BY <2>1 DEF Flagged
    <3> QED
      BY <3>1, <3>2 DEF p, q
  <2>5. CASE p # o /\ q # o
    <3>1. data1[p] = data[p] /\ data1[q] = data[q]
      BY <1>5, <2>1, <2>5
    <3> QED
      BY <2>1, <3>1 DEF p, q
  <2> QED
    BY <2>3, <2>4, <2>5
<1>9. [data |-> data1, offset |-> offset] \in Arrays(D, R)
  BY <1>2, <1>6, <1>7, <1>8 DEF Arrays
<1> QED
  BY <1>2, <1>4, <1>5, <1>6, <1>9 DEF data1, N, Marks

LEMMA RemoveItems ==
    ASSUME NEW D, NEW R, Flagged(D, R), NEW data, NEW offset,
           [data |-> data, offset |-> offset] \in Arrays(D, R), NEW o \in live(data)
    PROVE  LET data1 == marked(data, o, TRUE)
           IN  /\ items(data1) = items(data) \ {data[o]}
               /\ Cardinality(garbage(data1)) = Cardinality(garbage(data)) + 1
<1> DEFINE data1 == marked(data, o, TRUE)
           N == Len(data)
<1>1. /\ data \in Seq(D) /\ DOMAIN data = 1..N
      /\ \A i, j \in 1..N : data[i] = data[j] => i = j
  <2>1. Indexed(data, offset, D, R, N)
    BY ArrayOffsets
  <2> QED
    BY <2>1 DEF Indexed
<1>2. o \in 1..N
  BY <1>1 DEF live
<1> HIDE DEF N
<1>9. Marks(data1, data, o, TRUE)
  <2>1. o \in DOMAIN data /\ TRUE \in BOOLEAN
    BY <1>1, <1>2
  <2> QED
    BY <2>1, ArrayMark
<1> HIDE DEF data1
<1>3. /\ DOMAIN data1 = 1..N
      /\ \A p \in 1..N : p # o => data1[p] = data[p]
      /\ data1[o].removed = TRUE
  BY <1>1, <1>9 DEF Marks
<1>4. live(data1) = live(data) \ {o}
  BY <1>1, <1>2, <1>3 DEF live
<1>5. \A p \in live(data) : p \in 1..N
  BY <1>1 DEF live
<1>6. items(data1) = items(data) \ {data[o]}
  <2>1. \A p \in live(data) : p # o => data1[p] = data[p] /\ data[p] # data[o]
    BY <1>1, <1>2, <1>3, <1>5
  <2> QED
    BY <1>4, <2>1 DEF items
<1>7. garbage(data1) = garbage(data) \cup {o} /\ o \notin garbage(data)
  BY <1>1, <1>2, <1>3, <1>4 DEF garbage
<1>8. Cardinality(garbage(data1)) = Cardinality(garbage(data)) + 1
  BY <1>1, <1>7, GarbageFinite, FS_AddElement
<1> QED
  BY <1>6, <1>8 DEF data1

LEMMA RestoreItems ==
    ASSUME NEW D, NEW R, Flagged(D, R), NEW data, NEW offset,
           [data |-> data, offset |-> offset] \in Arrays(D, R), NEW o \in garbage(data)
    PROVE  LET data1 == marked(data, o, FALSE)
           IN  /\ items(data1) = items(data) \cup {[data[o] EXCEPT !.removed = FALSE]}
               /\ Cardinality(garbage(data1)) = Cardinality(garbage(data)) - 1
<1> DEFINE data1 == marked(data, o, FALSE)
           N == Len(data)
<1>1. /\ data \in Seq(D) /\ DOMAIN data = 1..N
  <2>1. Indexed(data, offset, D, R, N)
    BY ArrayOffsets
  <2> QED
    BY <2>1 DEF Indexed
<1>2. o \in 1..N /\ o \notin live(data)
  BY <1>1 DEF garbage
<1> HIDE DEF N
<1>9. Marks(data1, data, o, FALSE)
  <2>1. o \in DOMAIN data /\ FALSE \in BOOLEAN
    BY <1>1, <1>2
  <2> QED
    BY <2>1, ArrayMark
<1> HIDE DEF data1
<1>3. /\ DOMAIN data1 = 1..N
      /\ \A p \in 1..N : p # o => data1[p] = data[p]
      /\ data1[o] = [data[o] EXCEPT !.removed = FALSE] /\ data1[o].removed = FALSE
  BY <1>1, <1>9 DEF Marks
<1>4. live(data1) = live(data) \cup {o}
  BY <1>1, <1>2, <1>3 DEF live
<1>5. items(data1) = items(data) \cup {data1[o]}
  <2>1. \A p \in live(data) : data1[p] = data[p]
    BY <1>1, <1>2, <1>3 DEF live
  <2> QED
    BY <1>4, <2>1 DEF items
<1>6. garbage(data1) = garbage(data) \ {o}
  BY <1>1, <1>2, <1>3, <1>4 DEF garbage
<1>7. Cardinality(garbage(data1)) = Cardinality(garbage(data)) - 1
  BY <1>1, <1>6, GarbageFinite, FS_RemoveElement
<1> QED
  BY <1>3, <1>5, <1>7 DEF data1

\* Garbage collection keeps what is in use, in its order.
LEMMA ArrayCompact ==
    ASSUME NEW D, NEW R, Flagged(D, R), NEW data, NEW offset,
           [data |-> data, offset |-> offset] \in Arrays(D, R)
    PROVE  LET data1 == compacted(data)
               offset1 == compactedOffsets(data, offset)
               K == kept(data, offset)
           IN  /\ [data |-> data1, offset |-> offset1] \in Arrays(D, R)
               /\ K \in SUBSET Nat /\ IsFiniteSet(K) /\ Cardinality(K) = Cardinality(live(data))
               /\ DOMAIN offset1 = 1..Cardinality(K) /\ Len(offset1) = Cardinality(K)
               /\ \A n \in 1..Cardinality(K) : view(data1, offset1)[n] = view(data, offset)[nth(K, n)]
               /\ items(data1) = items(data) /\ garbage(data1) = {}
<1> DEFINE N == Len(data)
           L == live(data)
           K == kept(data, offset)
           C == Cardinality(L)
           data1 == compacted(data)
           offset1 == compactedOffsets(data, offset)
<1>1. Indexed(data, offset, D, R, N)
  BY ArrayOffsets
<1>2. /\ data \in Seq(D) /\ offset \in Seq(Nat) /\ Len(offset) = N /\ N \in Nat
      /\ DOMAIN data = 1..N /\ DOMAIN offset = 1..N
      /\ \A i \in 1..N : offset[i] \in 1..N /\ data[i] \in D
      /\ \A p \in 1..N : \E i \in 1..N : offset[i] = p
      /\ \A i, j \in 1..N : offset[i] = offset[j] => i = j
      /\ \A i, j \in 1..N : i < j => data[offset[j]] \in R[data[offset[i]]]
  BY <1>1 DEF Indexed
<1> HIDE DEF N
<1>3. /\ L \in SUBSET (1..N) /\ K \in SUBSET (1..N) /\ 1..N \in SUBSET Nat
      /\ IsFiniteSet(L) /\ IsFiniteSet(K) /\ L \in SUBSET Nat /\ K \in SUBSET Nat
  <2>1. IsFiniteSet(1..N) /\ 1..N \in SUBSET Nat
    BY <1>2, FS_Interval
  <2>2. L \in SUBSET (1..N) /\ K \in SUBSET (1..N)
    BY <1>2 DEF live, kept
  <2> QED
    BY <2>1, <2>2, FS_Subset
<1>4. /\ \A i \in K : offset[i] \in L
      /\ \A p \in L : \E i \in K : offset[i] = p
      /\ \A i, j \in K : offset[i] = offset[j] => i = j
  BY <1>2, <1>3 DEF kept
<1>5. Cardinality(K) = C
  <2> DEFINE f == [i \in K |-> offset[i]]
  <2>1. f \in Surjection(K, L)
    BY <1>4 DEF Surjection
  <2>2. f \in Injection(K, L)
    BY <1>4 DEF Injection, IsInjective
  <2> QED
    BY <1>3, <2>1, <2>2, FS_Surjection
<1>6. /\ \A x \in L : rank(L, x) \in 1..C /\ nth(L, rank(L, x)) = x
      /\ \A n \in 1..C : nth(L, n) \in L /\ rank(L, nth(L, n)) = n
      /\ C \in Nat
  BY <1>3, RankNumbers
<1>7. /\ \A x \in K : rank(K, x) \in 1..C /\ nth(K, rank(K, x)) = x
      /\ \A n \in 1..C : nth(K, n) \in K /\ rank(K, nth(K, n)) = n
  BY <1>3, <1>5, RankNumbers
<1>8. /\ data1 = [n \in 1..C |-> data[nth(L, n)]]
      /\ offset1 = [n \in 1..C |-> rank(L, offset[nth(K, n)])]
  BY <1>5 DEF compacted, compactedOffsets
<1> HIDE DEF data1, offset1, L, K, C
<1>9. /\ data1 \in Seq(D) /\ Len(data1) = C /\ DOMAIN data1 = 1..C
      /\ \A n \in 1..C : data1[n] = data[nth(L, n)]
  <2>1. \A n \in 1..C : data[nth(L, n)] \in D
    BY <1>2, <1>3, <1>6
  <2> QED
    BY <1>6, <1>8, <2>1
<1>10. /\ offset1 \in Seq(Nat) /\ Len(offset1) = C /\ DOMAIN offset1 = 1..C
       /\ \A n \in 1..C : offset1[n] = rank(L, offset[nth(K, n)]) /\ offset1[n] \in 1..C
  <2>1. \A n \in 1..C : rank(L, offset[nth(K, n)]) \in 1..C
    BY <1>4, <1>6, <1>7
  <2>2. \A n \in 1..C : rank(L, offset[nth(K, n)]) \in Nat
    BY <1>6, <2>1
  <2>3. offset1 \in Seq(Nat)
    BY <1>6, <1>8, <2>2
  <2>4. DOMAIN offset1 = 1..C
    BY <1>8
  <2>5. Len(offset1) = C
    BY <1>6, <2>3, <2>4, LenProperties
  <2>6. \A n \in 1..C : offset1[n] = rank(L, offset[nth(K, n)])
    BY <1>8
  <2> QED
    BY <2>1, <2>3, <2>4, <2>5, <2>6
<1>11. \A n \in 1..C : data1[offset1[n]] = data[offset[nth(K, n)]] /\ nth(K, n) \in 1..N
  <2> SUFFICES ASSUME NEW n \in 1..C
               PROVE  data1[offset1[n]] = data[offset[nth(K, n)]] /\ nth(K, n) \in 1..N
    OBVIOUS
  <2>1. nth(K, n) \in K /\ offset[nth(K, n)] \in L
    BY <1>4, <1>7
  <2>2. nth(L, rank(L, offset[nth(K, n)])) = offset[nth(K, n)]
    BY <1>6, <2>1
  <2> QED
    BY <1>3, <1>9, <1>10, <2>1, <2>2
<1>12. isOrder(offset1, data1)
  <2>1. ASSUME NEW m \in 1..C PROVE \E n \in 1..C : offset1[n] = m
    <3>1. PICK i \in K : offset[i] = nth(L, m)
      BY <1>4, <1>6
    <3>2. rank(K, i) \in 1..C /\ nth(K, rank(K, i)) = i
      BY <1>7
    <3>3. offset1[rank(K, i)] = m
      BY <1>6, <1>10, <3>1, <3>2
    <3> QED
      BY <3>2, <3>3
  <2>2. {offset1[n] : n \in 1..C} = 1..C
    BY <1>10, <2>1
  <2> QED
    BY <1>9, <1>10, <2>2 DEF isOrder
<1>13. ASSUME NEW m \in 1..C, NEW n \in 1..C, m < n
       PROVE  data1[offset1[n]] \in R[data1[offset1[m]]]
  <2> DEFINE i == nth(K, m)
             j == nth(K, n)
  <2>1. i \in K /\ j \in K /\ rank(K, i) = m /\ rank(K, j) = n
    BY <1>7
  <2> HIDE DEF i, j
  <2>2. i \in Nat /\ j \in Nat /\ i \in Int /\ j \in Int /\ i \in 1..N /\ j \in 1..N
    BY <1>3, <2>1
  <2>3. j <= i <=> rank(K, j) <= rank(K, i)
    BY <1>3, <2>1, <2>2, RankBelow
  <2>4. m \in Nat /\ n \in Nat
    BY <1>6
  <2>5. i < j
    BY <1>13, <2>1, <2>2, <2>3, <2>4
  <2>6. data[offset[j]] \in R[data[offset[i]]]
    BY <1>2, <2>2, <2>5
  <2> QED
    BY <1>11, <2>6 DEF i, j
<1>14. [data |-> data1, offset |-> offset1] \in Arrays(D, R)
  BY <1>9, <1>10, <1>12, <1>13 DEF Arrays
<1>15. \A n \in 1..C : view(data1, offset1)[n] = view(data, offset)[nth(K, n)]
  BY <1>2, <1>10, <1>11 DEF view
<1>16. live(data1) = 1..C
  <2>1. \A n \in 1..C : ~data1[n].removed
    <3>1. \A x \in L : ~data[x].removed
      BY DEF L, live
    <3> QED
      BY <1>6, <1>9, <3>1
  <2> QED
    BY <1>9, <2>1 DEF live
<1>17. items(data1) = items(data)
  <2>1. items(data1) = {data[nth(L, n)] : n \in 1..C}
    BY <1>9, <1>16 DEF items
  <2>2. items(data) = {data[x] : x \in L}
    BY DEF items, L
  <2> QED
    BY <1>6, <2>1, <2>2
<1>18. garbage(data1) = {}
  BY <1>9, <1>16 DEF garbage
<1> QED
  BY <1>3, <1>5, <1>10, <1>14, <1>15, <1>17, <1>18 DEF data1, offset1, K, L, C

-----------------------------------------------------------------------------
(* The two arrays of the edge lookup *)

NodeKeys == [key : Paths, removed : BOOLEAN]
EdgeRecords ==
    [targetKey : Paths, isPrefix : BOOLEAN, sourceNode : Paths, label : Nat, removed : BOOLEAN]

KeyOrder == [x \in NodeKeys |-> {y \in NodeKeys : Before(x.key, y.key)}]
EdgeOrder == [x \in EdgeRecords |-> {y \in EdgeRecords : sortedBefore(x, y)}]

LEMMA NodeKeyEqual ==
    ASSUME NEW y \in NodeKeys, NEW r \in BOOLEAN
    PROVE  /\ [y EXCEPT !.removed = r] = [key |-> y.key, removed |-> r]
           /\ y = [key |-> y.key, removed |-> y.removed]
BY DEF NodeKeys

LEMMA KeyFlagged == Flagged(NodeKeys, KeyOrder)
<1>1. \A x \in NodeKeys : x.removed \in BOOLEAN /\ x.key \in Paths /\ x \notin KeyOrder[x]
  BY BeforeIrreflexive DEF NodeKeys, KeyOrder
<1>2. \A x \in NodeKeys, r \in BOOLEAN : /\ [x EXCEPT !.removed = r] \in NodeKeys
                                         /\ [x EXCEPT !.removed = r].removed = r
                                         /\ [x EXCEPT !.removed = r].key = x.key
  BY DEF NodeKeys
<1>3. \A x, y \in NodeKeys : y \in KeyOrder[x] <=> Before(x.key, y.key)
  BY DEF KeyOrder
<1>4. ASSUME NEW x \in NodeKeys, NEW y \in NodeKeys, NEW r \in BOOLEAN, y \in KeyOrder[x]
      PROVE  y \in KeyOrder[[x EXCEPT !.removed = r]] /\ [y EXCEPT !.removed = r] \in KeyOrder[x]
  BY <1>2, <1>3, <1>4
<1> QED
  BY <1>1, <1>2, <1>4 DEF Flagged

\* the fields of an edge
LEMMA EdgeFields ==
    ASSUME NEW e \in EdgeRecords
    PROVE  /\ e.targetKey \in Paths /\ e.isPrefix \in BOOLEAN /\ e.sourceNode \in Paths
           /\ e.label \in Nat /\ e.removed \in BOOLEAN /\ Len(e.targetKey) \in Nat
BY DEF EdgeRecords, Paths

LEMMA EdgeMark ==
    ASSUME NEW e \in EdgeRecords, NEW r \in BOOLEAN
    PROVE  /\ [e EXCEPT !.removed = r] \in EdgeRecords
           /\ [e EXCEPT !.removed = r].removed = r
           /\ [e EXCEPT !.removed = r].targetKey = e.targetKey
           /\ [e EXCEPT !.removed = r].isPrefix = e.isPrefix
           /\ [e EXCEPT !.removed = r].sourceNode = e.sourceNode
           /\ [e EXCEPT !.removed = r].label = e.label
BY DEF EdgeRecords

\* Two edges are the same when they differ only in the mark.
LEMMA SameEdge ==
    ASSUME NEW d \in EdgeRecords, NEW e \in EdgeRecords
    PROVE  /\ sameEdge(d, e) <=> /\ d.targetKey = e.targetKey /\ d.isPrefix = e.isPrefix
                                 /\ d.sourceNode = e.sourceNode /\ d.label = e.label
           /\ sameEdge(d, e) /\ d.removed = e.removed => d = e
<1> DEFINE d1 == [d EXCEPT !.removed = FALSE]
           e1 == [e EXCEPT !.removed = FALSE]
<1>1. /\ d1 \in EdgeRecords /\ d1.removed = FALSE /\ d1.targetKey = d.targetKey
      /\ d1.isPrefix = d.isPrefix /\ d1.sourceNode = d.sourceNode /\ d1.label = d.label
  BY EdgeMark
<1>2. /\ e1 \in EdgeRecords /\ e1.removed = FALSE /\ e1.targetKey = e.targetKey
      /\ e1.isPrefix = e.isPrefix /\ e1.sourceNode = e.sourceNode /\ e1.label = e.label
  BY EdgeMark
<1>3. sameEdge(d, e) <=> d1 = e1
  BY DEF sameEdge
<1>4. \A x, y \in EdgeRecords :
          /\ x.targetKey = y.targetKey /\ x.isPrefix = y.isPrefix /\ x.sourceNode = y.sourceNode
          /\ x.label = y.label /\ x.removed = y.removed
          => x = y
  <2> SUFFICES ASSUME NEW x \in EdgeRecords, NEW y \in EdgeRecords,
                      x.targetKey = y.targetKey, x.isPrefix = y.isPrefix, x.sourceNode = y.sourceNode,
                      x.label = y.label, x.removed = y.removed
               PROVE  x = y
    OBVIOUS
  <2>1. x = [targetKey |-> x.targetKey, isPrefix |-> x.isPrefix, sourceNode |-> x.sourceNode,
             label |-> x.label, removed |-> x.removed]
    BY DEF EdgeRecords
  <2>2. y = [targetKey |-> y.targetKey, isPrefix |-> y.isPrefix, sourceNode |-> y.sourceNode,
             label |-> y.label, removed |-> y.removed]
    BY DEF EdgeRecords
  <2> QED
    BY <2>1, <2>2
<1> HIDE DEF d1, e1
<1> QED
  BY <1>1, <1>2, <1>3, <1>4

\* sortedBefore as four steps of one lexicographic order
LEMMA SortedFields ==
    ASSUME NEW d \in EdgeRecords, NEW e \in EdgeRecords
    PROVE  sortedBefore(d, e) <=>
             \/ Len(d.targetKey) < Len(e.targetKey)
             \/ /\ Len(d.targetKey) = Len(e.targetKey)
                /\ \/ Before(d.targetKey, e.targetKey)
                   \/ /\ d.targetKey = e.targetKey
                      /\ \/ ~d.isPrefix /\ e.isPrefix
                         \/ /\ d.isPrefix = e.isPrefix
                            /\ \/ Before(d.sourceNode, e.sourceNode)
                               \/ d.sourceNode = e.sourceNode /\ d.label < e.label
BY DEF sortedBefore, edgeBefore, getDirDepth

LEMMA SortedIrreflexive ==
    ASSUME NEW e \in EdgeRecords
    PROVE  ~sortedBefore(e, e)
BY EdgeFields, SortedFields, BeforeIrreflexive

LEMMA SortedTransitive ==
    ASSUME NEW a \in EdgeRecords, NEW b \in EdgeRecords, NEW c \in EdgeRecords,
           sortedBefore(a, b), sortedBefore(b, c)
    PROVE  sortedBefore(a, c)
<1>1. /\ a.targetKey \in Paths /\ b.targetKey \in Paths /\ c.targetKey \in Paths
      /\ a.sourceNode \in Paths /\ b.sourceNode \in Paths /\ c.sourceNode \in Paths
      /\ Before(a.targetKey, b.targetKey) /\ Before(b.targetKey, c.targetKey)
            => Before(a.targetKey, c.targetKey)
      /\ Before(a.sourceNode, b.sourceNode) /\ Before(b.sourceNode, c.sourceNode)
            => Before(a.sourceNode, c.sourceNode)
  BY EdgeFields, BeforeTransitive
<1>2. /\ Len(a.targetKey) \in Nat /\ Len(b.targetKey) \in Nat /\ Len(c.targetKey) \in Nat
      /\ a.label \in Nat /\ b.label \in Nat /\ c.label \in Nat
      /\ a.isPrefix \in BOOLEAN /\ b.isPrefix \in BOOLEAN /\ c.isPrefix \in BOOLEAN
  BY EdgeFields
<1>3. CASE Len(a.targetKey) < Len(c.targetKey)
  BY <1>3, SortedFields
<1>4. CASE ~(Len(a.targetKey) < Len(c.targetKey))
  <2>1. Len(a.targetKey) = Len(b.targetKey) /\ Len(b.targetKey) = Len(c.targetKey)
    BY <1>2, <1>4, SortedFields
  <2> QED
    BY <1>1, <1>2, <2>1, SortedFields
<1> QED
  BY <1>3, <1>4

LEMMA SortedTotal ==
    ASSUME NEW d \in EdgeRecords, NEW e \in EdgeRecords, ~sameEdge(d, e)
    PROVE  sortedBefore(d, e) \/ sortedBefore(e, d)
<1>1. /\ d.targetKey = e.targetKey \/ Before(d.targetKey, e.targetKey) \/ Before(e.targetKey, d.targetKey)
      /\ d.sourceNode = e.sourceNode \/ Before(d.sourceNode, e.sourceNode) \/ Before(e.sourceNode, d.sourceNode)
  BY EdgeFields, BeforeTotal
<1>2. /\ Len(d.targetKey) \in Nat /\ Len(e.targetKey) \in Nat /\ d.label \in Nat /\ e.label \in Nat
      /\ d.isPrefix \in BOOLEAN /\ e.isPrefix \in BOOLEAN
  BY EdgeFields
<1>3. ~(/\ d.targetKey = e.targetKey /\ d.isPrefix = e.isPrefix
        /\ d.sourceNode = e.sourceNode /\ d.label = e.label)
  BY SameEdge
<1>4. CASE Len(d.targetKey) # Len(e.targetKey)
  BY <1>2, <1>4, SortedFields
<1>5. CASE Len(d.targetKey) = Len(e.targetKey)
  <2>1. CASE d.targetKey # e.targetKey
    BY <1>1, <1>5, <2>1, SortedFields
  <2>2. CASE d.targetKey = e.targetKey /\ d.isPrefix # e.isPrefix
    BY <1>2, <1>5, <2>2, SortedFields
  <2>3. CASE d.targetKey = e.targetKey /\ d.isPrefix = e.isPrefix
    BY <1>1, <1>2, <1>3, <1>5, <2>3, SortedFields
  <2> QED
    BY <2>1, <2>2, <2>3
<1> QED
  BY <1>4, <1>5

LEMMA EdgeFlagged == Flagged(EdgeRecords, EdgeOrder)
<1>1. \A x \in EdgeRecords : x.removed \in BOOLEAN /\ x \notin EdgeOrder[x]
  BY SortedIrreflexive, EdgeFields DEF EdgeOrder
<1>2. \A x, y \in EdgeRecords : y \in EdgeOrder[x] <=> sortedBefore(x, y)
  BY DEF EdgeOrder
<1>3. ASSUME NEW x \in EdgeRecords, NEW y \in EdgeRecords, NEW r \in BOOLEAN, y \in EdgeOrder[x]
      PROVE  y \in EdgeOrder[[x EXCEPT !.removed = r]] /\ [y EXCEPT !.removed = r] \in EdgeOrder[x]
  <2> DEFINE x1 == [x EXCEPT !.removed = r]
             y1 == [y EXCEPT !.removed = r]
  <2>1. /\ x1 \in EdgeRecords /\ y1 \in EdgeRecords
        /\ x1.targetKey = x.targetKey /\ x1.isPrefix = x.isPrefix
        /\ x1.sourceNode = x.sourceNode /\ x1.label = x.label
        /\ y1.targetKey = y.targetKey /\ y1.isPrefix = y.isPrefix
        /\ y1.sourceNode = y.sourceNode /\ y1.label = y.label
    BY EdgeMark
  <2> HIDE DEF x1, y1
  <2>2. sortedBefore(x, y)
    BY <1>2, <1>3
  <2>3. sortedBefore(x1, y)
    BY <2>1, <2>2, SortedFields
  <2>4. sortedBefore(x, y1)
    BY <2>1, <2>2, SortedFields
  <2>5. y \in EdgeOrder[x1] /\ y1 \in EdgeOrder[x]
    BY <1>2, <2>1, <2>3, <2>4
  <2> QED
    BY <2>5 DEF x1, y1
<1>4. \A x \in EdgeRecords, r \in BOOLEAN : /\ [x EXCEPT !.removed = r] \in EdgeRecords
                                            /\ [x EXCEPT !.removed = r].removed = r
  BY EdgeMark
<1> QED
  BY <1>1, <1>3, <1>4 DEF Flagged

-----------------------------------------------------------------------------
(* A sound edge lookup *)

KeyMaps == UNION {[K -> BOOLEAN] : K \in SUBSET Paths}

Lookups ==
    [nodeKeyData : Seq(NodeKeys), nodeKeyOffset : Seq(Nat), nodeKeyMap : KeyMaps, removedNodes : Nat,
     edgeData : Seq(EdgeRecords), edgeOffset : Seq(Nat), removedEdges : Nat, dirDepthBounds : Seq(Nat),
     overlay : BOOLEAN]

KeysSound(el) ==
    /\ [data |-> el.nodeKeyData, offset |-> el.nodeKeyOffset] \in Arrays(NodeKeys, KeyOrder)
    /\ el.removedNodes = Cardinality(garbage(el.nodeKeyData))

EdgesSound(el) ==
    /\ [data |-> el.edgeData, offset |-> el.edgeOffset] \in Arrays(EdgeRecords, EdgeOrder)
    /\ el.dirDepthBounds = expectedBounds(el)
    /\ el.removedEdges = Cardinality(garbage(el.edgeData))

Sound(el) == el \in Lookups /\ KeysSound(el) /\ EdgesSound(el)

keyAt(el, i) == el.nodeKeyData[el.nodeKeyOffset[i]]
edgeAt(el, i) == el.edgeData[el.edgeOffset[i]]

\* the keys and the edges that were added and not removed
LiveKeys(el) == {k \in Paths : [key |-> k, removed |-> FALSE] \in items(el.nodeKeyData)}
LiveEdges(el) == items(el.edgeData)

SameKeys(el1, el) ==
    /\ el1.nodeKeyData = el.nodeKeyData /\ el1.nodeKeyOffset = el.nodeKeyOffset
    /\ el1.removedNodes = el.removedNodes
SameEdges(el1, el) ==
    /\ el1.edgeData = el.edgeData /\ el1.edgeOffset = el.edgeOffset
    /\ el1.removedEdges = el.removedEdges /\ el1.dirDepthBounds = el.dirDepthBounds

LEMMA SameKeysSound ==
    ASSUME NEW el, NEW el1, KeysSound(el), SameKeys(el1, el)
    PROVE  KeysSound(el1) /\ LiveKeys(el1) = LiveKeys(el)
BY DEF KeysSound, SameKeys, LiveKeys

LEMMA SameEdgesSound ==
    ASSUME NEW el, NEW el1, EdgesSound(el), SameEdges(el1, el)
    PROVE  EdgesSound(el1) /\ LiveEdges(el1) = LiveEdges(el)
<1>1. expectedBounds(el1) = expectedBounds(el)
  BY DEF SameEdges, expectedBounds
<1> QED
  BY <1>1 DEF EdgesSound, SameEdges, LiveEdges

\* sort.Search finds the first position, or the one behind the end.
LEMMA FirstOf ==
    ASSUME NEW S \in SUBSET Nat, NEW end \in Nat
    PROVE  /\ firstOf(S, end) \in S \cup {end} /\ firstOf(S, end) \in Nat /\ firstOf(S, end) <= end
           /\ \A s \in S : firstOf(S, end) <= s
<1>1. PICK m \in S \cup {end} : \A s \in S \cup {end} : m <= s
  <2>1. S \cup {end} \in SUBSET Nat /\ S \cup {end} # {}
    OBVIOUS
  <2> QED
    BY <2>1, Least
<1>2. firstOf(S, end) \in S \cup {end} /\ \A s \in S \cup {end} : firstOf(S, end) <= s
  <2>1. \E x \in S \cup {end} : \A y \in S \cup {end} : x <= y
    BY <1>1
  <2> QED
    BY <2>1 DEF firstOf, Min
<1> QED
  BY <1>2

\* the keys in the order of their offsets
KeyView(el, N) ==
    /\ N \in Nat /\ DOMAIN el.nodeKeyOffset = 1..N /\ Len(el.nodeKeyOffset) = N
    /\ Len(el.nodeKeyData) = N /\ DOMAIN el.nodeKeyData = 1..N
    /\ \A i \in 1..N : el.nodeKeyOffset[i] \in 1..N
    /\ \A i \in 1..N : keyAt(el, i) \in NodeKeys /\ keyAt(el, i).key \in Paths
    /\ \A o \in 1..N : \E i \in 1..N : el.nodeKeyOffset[i] = o
    /\ \A i, j \in 1..N : i < j => Before(keyAt(el, i).key, keyAt(el, j).key)

LEMMA KeysInOrder ==
    ASSUME NEW el, KeysSound(el)
    PROVE  KeyView(el, Len(el.nodeKeyOffset)) /\ Len(el.nodeKeyData) = Len(el.nodeKeyOffset)
<1> DEFINE N == Len(el.nodeKeyData)
<1>1. Indexed(el.nodeKeyData, el.nodeKeyOffset, NodeKeys, KeyOrder, N)
  BY KeyFlagged, ArrayOffsets DEF KeysSound
<1> HIDE DEF N
<1>2. /\ N \in Nat /\ DOMAIN el.nodeKeyOffset = 1..N /\ Len(el.nodeKeyOffset) = N
      /\ Len(el.nodeKeyData) = N /\ DOMAIN el.nodeKeyData = 1..N
      /\ \A i \in 1..N : el.nodeKeyOffset[i] \in 1..N /\ el.nodeKeyData[i] \in NodeKeys
      /\ \A o \in 1..N : \E i \in 1..N : el.nodeKeyOffset[i] = o
  BY <1>1 DEF Indexed
<1>3. \A i \in 1..N : keyAt(el, i) \in NodeKeys /\ keyAt(el, i).key \in Paths
  <2>1. \A i \in 1..N : keyAt(el, i) \in NodeKeys
    BY <1>2 DEF keyAt
  <2>2. \A x \in NodeKeys : x.key \in Paths
    BY DEF NodeKeys
  <2> QED
    BY <2>1, <2>2
<1>4. \A i, j \in 1..N : i < j => keyAt(el, j) \in KeyOrder[keyAt(el, i)]
  BY <1>1 DEF Indexed, keyAt
<1>5. \A i, j \in 1..N : i < j => Before(keyAt(el, i).key, keyAt(el, j).key)
  BY <1>3, <1>4 DEF KeyOrder
<1> QED
  BY <1>2, <1>3, <1>5 DEF KeyView

\* the keys before idx are the ones that come before key
KeyPlace(el, key, idx, N) ==
    /\ idx \in 1..(N + 1)
    /\ \A i \in 1..N : i < idx <=> Before(keyAt(el, i).key, key)

LEMMA KeyIdx ==
    ASSUME NEW el, KeysSound(el), NEW key \in Paths
    PROVE  KeyPlace(el, key, nodeKeyIdx(el, Prefix(key, FALSE)), Len(el.nodeKeyOffset))
<1> DEFINE N == Len(el.nodeKeyOffset)
           S == {i \in 1..N : ~Before(keyAt(el, i).key, key)}
           idx == nodeKeyIdx(el, Prefix(key, FALSE))
<1>1. /\ N \in Nat /\ DOMAIN el.nodeKeyOffset = 1..N
      /\ \A i \in 1..N : keyAt(el, i).key \in Paths
      /\ \A i, j \in 1..N : i < j => Before(keyAt(el, i).key, keyAt(el, j).key)
  BY KeysInOrder DEF KeyView
<1>2. idx = firstOf(S, N + 1)
  <2>1. \A k : keyBefore(k, Prefix(key, FALSE)) <=> Before(k, key)
    BY DEF keyBefore, Prefix
  <2>2. {i \in DOMAIN el.nodeKeyOffset :
            ~keyBefore(el.nodeKeyData[el.nodeKeyOffset[i]].key, Prefix(key, FALSE))} = S
    BY <1>1, <2>1 DEF keyAt
  <2> QED
    BY <2>2 DEF nodeKeyIdx
<1> HIDE DEF N, idx
<1>3. S \in SUBSET Nat /\ N + 1 \in Nat
  BY <1>1
<1>4. idx \in S \cup {N + 1} /\ idx \in Nat /\ idx <= N + 1 /\ \A s \in S : idx <= s
  BY <1>2, <1>3, FirstOf
<1>5. idx \in 1..(N + 1)
  BY <1>1, <1>4
<1>6. ASSUME NEW i \in 1..N PROVE i < idx <=> Before(keyAt(el, i).key, key)
  <2>0. i \in Nat
    BY <1>1
  <2>1. ASSUME i < idx PROVE Before(keyAt(el, i).key, key)
    <3>1. i \notin S
      BY <1>4, <2>0, <2>1
    <3> QED
      BY <3>1
  <2>2. ASSUME ~(i < idx) PROVE ~Before(keyAt(el, i).key, key)
    <3>1. idx \in S /\ idx \in 1..N
      BY <1>1, <1>4, <1>5, <2>0, <2>2
    <3>2. CASE i = idx
      BY <3>1, <3>2
    <3>3. CASE idx < i
      <4>1. Before(keyAt(el, idx).key, keyAt(el, i).key) /\ ~Before(keyAt(el, idx).key, key)
        BY <1>1, <3>1, <3>3
      <4>2. keyAt(el, idx).key \in Paths /\ keyAt(el, i).key \in Paths
        BY <1>1, <3>1
      <4> QED
        BY <4>1, <4>2, BeforeTransitive
    <3> QED
      BY <1>4, <2>0, <2>2, <3>2, <3>3
  <2> QED
    BY <2>1, <2>2
<1> QED
  BY <1>5, <1>6 DEF KeyPlace, N, idx

\* Looking at this place tells whether the key is in the array.
LEMMA KeyFound ==
    ASSUME NEW el, KeysSound(el), NEW key \in Paths, NEW N, N = Len(el.nodeKeyOffset),
           NEW idx, KeyPlace(el, key, idx, N)
    PROVE  /\ \A i \in 1..N : keyAt(el, i).key = key => i = idx
           /\ \A i \in 1..N : (idx <= N => keyAt(el, idx).key # key) /\ idx <= i
                              => Before(key, keyAt(el, i).key)
<1>1. /\ N \in Nat
      /\ \A i \in 1..N : keyAt(el, i).key \in Paths
      /\ \A i, j \in 1..N : i < j => Before(keyAt(el, i).key, keyAt(el, j).key)
  BY KeysInOrder DEF KeyView
<1>2. idx \in 1..(N + 1) /\ idx \in Nat /\ \A i \in 1..N : i < idx <=> Before(keyAt(el, i).key, key)
  BY <1>1 DEF KeyPlace
<1>3. ASSUME NEW i \in 1..N, keyAt(el, i).key = key PROVE i = idx
  <2>0. i \in Nat
    BY <1>1
  <2>1. ~(i < idx)
    BY <1>2, <1>3, BeforeIrreflexive
  <2>2. CASE idx < i
    <3>1. idx \in 1..N
      BY <1>1, <1>2, <2>0, <2>2
    <3>2. Before(keyAt(el, idx).key, key)
      BY <1>1, <1>3, <2>2, <3>1
    <3>3. idx < idx
      BY <1>2, <3>1, <3>2
    <3> QED
      BY <1>2, <3>3
  <2> QED
    BY <1>2, <2>0, <2>1, <2>2
<1>4. ASSUME NEW i \in 1..N, idx <= N => keyAt(el, idx).key # key, idx <= i
      PROVE  Before(key, keyAt(el, i).key)
  <2>0. i \in Nat /\ idx <= N
    BY <1>1, <1>2, <1>4
  <2>1. ~Before(keyAt(el, i).key, key)
    BY <1>2, <1>4, <2>0
  <2>2. keyAt(el, i).key # key
    BY <1>3, <1>4, <2>0
  <2> QED
    BY <1>1, <2>1, <2>2, BeforeTotal
<1> QED
  BY <1>3, <1>4

\* el1 is a sound lookup that differs from el in its keys only
KeyStep(el1, el, keys, map) ==
    /\ Sound(el1) /\ LiveKeys(el1) = keys /\ SameEdges(el1, el)
    /\ el1.nodeKeyMap = map /\ el1.overlay = el.overlay

LEMMA RememberedMap ==
    ASSUME NEW el \in Lookups, NEW key \in Paths, NEW known \in BOOLEAN
    PROVE  remembered(el, key, known) \in KeyMaps
<1>1. PICK K \in SUBSET Paths : el.nodeKeyMap \in [K -> BOOLEAN]
  BY DEF Lookups, KeyMaps
<1>2. remembered(el, key, known) \in [K \cup {key} -> BOOLEAN] /\ K \cup {key} \in SUBSET Paths
  BY <1>1 DEF remembered
<1> QED
  BY <1>2 DEF KeyMaps

\* el1 is el with other keys
Rekeyed(el1, el, map, data, offset, removed) ==
    /\ el1 = [el EXCEPT !.nodeKeyMap = map, !.nodeKeyData = data, !.nodeKeyOffset = offset,
                        !.removedNodes = removed]
    /\ map \in KeyMaps
    /\ [data |-> data, offset |-> offset] \in Arrays(NodeKeys, KeyOrder)
    /\ removed = Cardinality(garbage(data))

LEMMA KeyFields ==
    ASSUME NEW el, Sound(el), NEW el1, NEW map, NEW data, NEW offset, NEW removed,
           Rekeyed(el1, el, map, data, offset, removed)
    PROVE  /\ KeyStep(el1, el, LiveKeys(el1), map)
           /\ el1.nodeKeyData = data
<1>0. /\ map \in KeyMaps /\ data \in Seq(NodeKeys) /\ offset \in Seq(Nat)
      /\ [data |-> data, offset |-> offset] \in Arrays(NodeKeys, KeyOrder)
      /\ removed = Cardinality(garbage(data))
      /\ el1 = [el EXCEPT !.nodeKeyMap = map, !.nodeKeyData = data, !.nodeKeyOffset = offset,
                          !.removedNodes = removed]
  BY DEF Rekeyed, Arrays
<1>6. removed \in Nat
  BY <1>0, GarbageFinite
<1>1. el \in Lookups
  BY DEF Sound
<1>2. /\ el1 \in Lookups /\ el1.nodeKeyMap = map /\ el1.nodeKeyData = data /\ el1.nodeKeyOffset = offset
      /\ el1.removedNodes = removed /\ el1.overlay = el.overlay
  BY <1>0, <1>1, <1>6 DEF Lookups
<1>3. SameEdges(el1, el)
  BY <1>0, <1>1 DEF Lookups, SameEdges
<1>4. KeysSound(el1)
  BY <1>0, <1>2 DEF KeysSound
<1>5. EdgesSound(el1)
  BY <1>3, SameEdgesSound DEF Sound
<1> QED
  BY <1>2, <1>3, <1>4, <1>5 DEF KeyStep, Sound

\* A node key that is added is found, and so are all the others.
LEMMA AddNodeKey ==
    ASSUME NEW el, Sound(el), NEW key \in Paths
    PROVE  KeyStep(addNodeKey(el, key), el, LiveKeys(el) \cup {key}, remembered(el, key, TRUE))
<1> DEFINE N == Len(el.nodeKeyOffset)
           data == el.nodeKeyData
           offset == el.nodeKeyOffset
           idx == nodeKeyIdx(el, Prefix(key, FALSE))
           x == [key |-> key, removed |-> FALSE]
           map == remembered(el, key, TRUE)
           el1 == addNodeKey(el, key)
<1>1. /\ el \in Lookups /\ KeysSound(el) /\ [data |-> data, offset |-> offset] \in Arrays(NodeKeys, KeyOrder)
      /\ el.removedNodes = Cardinality(garbage(data))
  BY DEF Sound, KeysSound
<1>2. /\ N \in Nat /\ DOMAIN offset = 1..N /\ Len(data) = N /\ DOMAIN data = 1..N
      /\ \A i \in 1..N : offset[i] \in 1..N /\ keyAt(el, i) \in NodeKeys
  BY <1>1, KeysInOrder DEF KeyView
<1>3. KeyPlace(el, key, idx, N)
  BY <1>1, KeyIdx
<1>4. idx \in 1..(N + 1) /\ \A i \in 1..N : i < idx <=> Before(keyAt(el, i).key, key)
  BY <1>3 DEF KeyPlace
<1>5. x \in NodeKeys /\ x.removed = FALSE /\ x.key = key
  BY DEF NodeKeys
<1>6. map \in KeyMaps
  BY <1>1, RememberedMap
<1>7. data \in Seq(NodeKeys) /\ offset \in Seq(Nat) /\ el.removedNodes \in Nat
  BY <1>1 DEF Lookups
<1>8. CASE ~(idx \in DOMAIN offset /\ data[offset[idx]].key = key)
  <2> DEFINE data1 == Append(data, x)
             offset1 == InsertAt(offset, idx, Len(data) + 1)
  <2>1. fits(data, offset, x, idx, KeyOrder)
    <3>1. idx <= N => keyAt(el, idx).key # key
      <4>1. idx <= N => idx \in DOMAIN offset
        <5> HIDE DEF N, idx, offset
        <5> QED
          BY <1>2, <1>4
      <4> QED
        BY <1>8, <4>1 DEF keyAt
    <3>2. \A i \in 1..N : idx <= i => Before(key, keyAt(el, i).key)
      BY <1>1, <1>3, <3>1, KeyFound
    <3>3. \A i \in 1..N : /\ i < idx => x \in KeyOrder[keyAt(el, i)]
                          /\ idx <= i => keyAt(el, i) \in KeyOrder[x]
      BY <1>2, <1>4, <1>5, <3>2 DEF KeyOrder
    <3> QED
      BY <1>2, <3>3 DEF fits, keyAt
  <2>2. [data |-> data1, offset |-> offset1] \in Arrays(NodeKeys, KeyOrder)
    <3>1. idx \in 1..(Len(data) + 1)
      BY <1>2, <1>4
    <3> QED
      BY <1>1, <1>5, <2>1, <3>1, KeyFlagged, ArrayInsert
  <2>3. data1 \in Seq(NodeKeys) /\ offset1 \in Seq(Nat)
    BY <2>2 DEF Arrays
  <2>4. items(data1) = items(data) \cup {x} /\ garbage(data1) = garbage(data)
    BY <1>5, <1>7, AppendItems
  <2> HIDE DEF data1, offset1
  <2>5. el1 = [[el EXCEPT !.nodeKeyMap = map] EXCEPT !.nodeKeyData = data1, !.nodeKeyOffset = offset1]
    BY <1>1, <1>8 DEF addNodeKey, Lookups, data1, offset1
  <2>6. el1 = [el EXCEPT !.nodeKeyMap = map, !.nodeKeyData = data1, !.nodeKeyOffset = offset1,
                         !.removedNodes = el.removedNodes]
    BY <1>1, <2>5 DEF Lookups
  <2> HIDE DEF el1, map
  <2>9. Rekeyed(el1, el, map, data1, offset1, el.removedNodes)
    BY <1>1, <1>6, <2>2, <2>4, <2>6 DEF Rekeyed
  <2>7. KeyStep(el1, el, LiveKeys(el1), map) /\ el1.nodeKeyData = data1
    BY <2>9, KeyFields
  <2>8. LiveKeys(el1) = LiveKeys(el) \cup {key}
    BY <2>4, <2>7 DEF LiveKeys
  <2> QED
    BY <2>7, <2>8 DEF el1, map
<1>9. ASSUME idx \in DOMAIN offset, data[offset[idx]].key = key
      PROVE  /\ offset[idx] \in DOMAIN data
             /\ data[offset[idx]] \in NodeKeys
             /\ data[offset[idx]].removed = FALSE => data[offset[idx]] = x
             /\ [data[offset[idx]] EXCEPT !.removed = FALSE] = x
  <2>1. offset[idx] \in DOMAIN data /\ data[offset[idx]] \in NodeKeys
    BY <1>2, <1>9 DEF keyAt
  <2>2. \A y \in NodeKeys : y.key = key => /\ y.removed = FALSE => y = x
                                           /\ [y EXCEPT !.removed = FALSE] = x
    BY NodeKeyEqual
  <2> QED
    BY <1>9, <2>1, <2>2
<1>10. CASE idx \in DOMAIN offset /\ data[offset[idx]].key = key /\ data[offset[idx]].removed
  <2> DEFINE o == offset[idx]
             data1 == marked(data, o, FALSE)
  <2>1. o \in garbage(data)
    BY <1>9, <1>10 DEF garbage, live
  <2>2. [data |-> data1, offset |-> offset] \in Arrays(NodeKeys, KeyOrder)
    BY <1>1, <1>9, <1>10, KeyFlagged, ArrayMark
  <2>3. data1 \in Seq(NodeKeys)
    BY <2>2 DEF Arrays
  <2>4. /\ items(data1) = items(data) \cup {x}
        /\ Cardinality(garbage(data1)) = el.removedNodes - 1
    <3>1. /\ items(data1) = items(data) \cup {[data[o] EXCEPT !.removed = FALSE]}
          /\ Cardinality(garbage(data1)) = Cardinality(garbage(data)) - 1
      BY <1>1, <2>1, KeyFlagged, RestoreItems
    <3> QED
      BY <1>1, <1>9, <1>10, <3>1
  <2>5. el.removedNodes - 1 \in Nat
    BY <2>3, <2>4, GarbageFinite
  <2> HIDE DEF data1, o
  <2>6. el1 = [[el EXCEPT !.nodeKeyMap = map] EXCEPT !.nodeKeyData = data1,
                                                     !.removedNodes = el.removedNodes - 1]
    BY <1>1, <1>10 DEF addNodeKey, Lookups, data1, o
  <2>7. el1 = [el EXCEPT !.nodeKeyMap = map, !.nodeKeyData = data1, !.nodeKeyOffset = offset,
                         !.removedNodes = el.removedNodes - 1]
    BY <1>1, <2>6 DEF Lookups
  <2> HIDE DEF el1, map
  <2>10. Rekeyed(el1, el, map, data1, offset, el.removedNodes - 1)
    BY <1>6, <2>2, <2>4, <2>7 DEF Rekeyed
  <2>8. KeyStep(el1, el, LiveKeys(el1), map) /\ el1.nodeKeyData = data1
    BY <2>10, KeyFields
  <2>9. LiveKeys(el1) = LiveKeys(el) \cup {key}
    BY <2>4, <2>8 DEF LiveKeys
  <2> QED
    BY <2>8, <2>9 DEF el1, map
<1>11. CASE idx \in DOMAIN offset /\ data[offset[idx]].key = key /\ ~data[offset[idx]].removed
  <2>1. x \in items(data)
    <3>1. offset[idx] \in live(data) /\ data[offset[idx]].removed = FALSE
      BY <1>9, <1>11 DEF live, NodeKeys
    <3> QED
      BY <1>9, <1>11, <3>1 DEF items
  <2>2. el1 = [el EXCEPT !.nodeKeyMap = map]
    BY <1>11 DEF addNodeKey
  <2>3. el1 = [el EXCEPT !.nodeKeyMap = map, !.nodeKeyData = data, !.nodeKeyOffset = offset,
                         !.removedNodes = el.removedNodes]
    BY <1>1, <2>2 DEF Lookups
  <2> HIDE DEF el1, map
  <2>6. Rekeyed(el1, el, map, data, offset, el.removedNodes)
    BY <1>1, <1>6, <2>3 DEF Rekeyed
  <2>4. KeyStep(el1, el, LiveKeys(el1), map) /\ el1.nodeKeyData = data
    BY <2>6, KeyFields
  <2>5. LiveKeys(el1) = LiveKeys(el) \cup {key}
    BY <2>1, <2>4 DEF LiveKeys
  <2> QED
    BY <2>4, <2>5 DEF el1, map
<1> QED
  BY <1>8, <1>10, <1>11

\* what an overlay, and what the underlay, remembers of a removed key
forgotten(el, key) ==
    IF el.overlay THEN remembered(el, key, FALSE) ELSE [k \in DOMAIN el.nodeKeyMap \ {key} |-> TRUE]

LEMMA ForgottenMap ==
    ASSUME NEW el \in Lookups, NEW key \in Paths
    PROVE  forgotten(el, key) \in KeyMaps
<1>1. CASE el.overlay
  BY <1>1, RememberedMap DEF forgotten
<1>2. CASE ~el.overlay
  <2>1. PICK K \in SUBSET Paths : el.nodeKeyMap \in [K -> BOOLEAN]
    BY DEF Lookups, KeyMaps
  <2>2. forgotten(el, key) \in [K \ {key} -> BOOLEAN] /\ K \ {key} \in SUBSET Paths
    BY <1>2, <2>1 DEF forgotten
  <2> QED
    BY <2>2 DEF KeyMaps
<1> QED
  BY <1>1, <1>2

\* A node key that is deleted is not found any more; all the others are.
LEMMA DelNodeKey ==
    ASSUME NEW el, Sound(el), NEW key \in Paths
    PROVE  KeyStep(delNodeKey(el, key), el, LiveKeys(el) \ {key}, forgotten(el, key))
<1> DEFINE N == Len(el.nodeKeyOffset)
           data == el.nodeKeyData
           offset == el.nodeKeyOffset
           idx == nodeKeyIdx(el, Prefix(key, FALSE))
           x == [key |-> key, removed |-> FALSE]
           map == forgotten(el, key)
           el1 == delNodeKey(el, key)
           found == idx \in DOMAIN offset /\ data[offset[idx]] = x
<1>1. /\ el \in Lookups /\ KeysSound(el) /\ [data |-> data, offset |-> offset] \in Arrays(NodeKeys, KeyOrder)
      /\ el.removedNodes = Cardinality(garbage(data)) /\ el.removedNodes \in Nat
  BY DEF Sound, KeysSound, Lookups
<1>2. /\ N \in Nat /\ DOMAIN offset = 1..N /\ DOMAIN data = 1..N
      /\ \A i \in 1..N : offset[i] \in 1..N
      /\ \A o \in 1..N : \E i \in 1..N : offset[i] = o
  BY <1>1, KeysInOrder DEF KeyView
<1>3. KeyPlace(el, key, idx, N)
  BY <1>1, KeyIdx
<1>4. x.removed = FALSE /\ x.key = key
  OBVIOUS
<1>5. map \in KeyMaps
  BY <1>1, ForgottenMap
<1>6. map = IF el.overlay THEN remembered(el, key, FALSE) ELSE [k \in DOMAIN el.nodeKeyMap \ {key} |-> TRUE]
  BY DEF forgotten
<1>9. \A j \in 1..N : keyAt(el, j).key = key => j = idx
  <2>1. ASSUME NEW n, n = N, NEW m, KeyPlace(el, key, m, n)
        PROVE  \A j \in 1..n : keyAt(el, j).key = key => j = m
    BY <1>1, <2>1, KeyFound
  <2> QED
    BY <1>3, <2>1
<1>7. CASE ~found
  <2>1. x \notin items(data)
    <3> SUFFICES ASSUME NEW o \in live(data), data[o] = x PROVE FALSE
      BY DEF items
    <3>1. PICK i \in 1..N : offset[i] = o
      BY <1>2 DEF live
    <3>2. keyAt(el, i).key = key
      BY <1>4, <3>1 DEF keyAt
    <3>3. i = idx
      BY <1>9, <3>2
    <3> QED
      BY <1>2, <1>7, <3>1, <3>3
  <2>2. el1 = [el EXCEPT !.nodeKeyMap = map]
    BY <1>6, <1>7 DEF delNodeKey
  <2>3. el1 = [el EXCEPT !.nodeKeyMap = map, !.nodeKeyData = data, !.nodeKeyOffset = offset,
                         !.removedNodes = el.removedNodes]
    BY <1>1, <2>2 DEF Lookups
  <2> HIDE DEF el1, map
  <2>4. Rekeyed(el1, el, map, data, offset, el.removedNodes)
    BY <1>1, <1>5, <2>3 DEF Rekeyed
  <2>5. KeyStep(el1, el, LiveKeys(el1), map) /\ el1.nodeKeyData = data
    BY <2>4, KeyFields
  <2>6. LiveKeys(el1) = LiveKeys(el) \ {key}
    BY <2>1, <2>5 DEF LiveKeys
  <2> QED
    BY <2>5, <2>6 DEF el1, map
<1>8. CASE found
  <2> DEFINE o == offset[idx]
             data1 == marked(data, o, TRUE)
             n == el.removedNodes + 1
             el2 == [[el EXCEPT !.nodeKeyMap = map] EXCEPT !.nodeKeyData = data1, !.removedNodes = n]
  <2>1. o \in live(data) /\ o \in DOMAIN data /\ data[o] = x
    BY <1>2, <1>4, <1>8 DEF live
  <2>2. [data |-> data1, offset |-> offset] \in Arrays(NodeKeys, KeyOrder)
    BY <1>1, <2>1, KeyFlagged, ArrayMark
  <2>3. /\ items(data1) = items(data) \ {x}
        /\ Cardinality(garbage(data1)) = n
    <3>1. /\ items(data1) = items(data) \ {data[o]}
          /\ Cardinality(garbage(data1)) = Cardinality(garbage(data)) + 1
      BY <1>1, <2>1, KeyFlagged, RemoveItems
    <3> QED
      BY <1>1, <2>1, <3>1
  <2> HIDE DEF data1, o, map, n
  <2>4. el1 = IF el2.removedNodes > Len(el2.nodeKeyData) \div 2 THEN gcNodeKeys(el2) ELSE el2
    BY <1>1, <1>6, <1>8 DEF delNodeKey, Lookups, data1, o, n
  <2>5. el2 = [el EXCEPT !.nodeKeyMap = map, !.nodeKeyData = data1, !.nodeKeyOffset = offset,
                         !.removedNodes = n]
    BY <1>1 DEF Lookups
  <2> HIDE DEF el2, el1
  <2>6. CASE ~(el2.removedNodes > Len(el2.nodeKeyData) \div 2)
    <3>0. el1 = el2
      BY <2>4, <2>6
    <3>1. Rekeyed(el1, el, map, data1, offset, n)
      BY <1>5, <2>2, <2>3, <2>5, <3>0 DEF Rekeyed
    <3>2. KeyStep(el1, el, LiveKeys(el1), map) /\ el1.nodeKeyData = data1
      BY <3>1, KeyFields
    <3>3. LiveKeys(el1) = LiveKeys(el) \ {key}
      BY <2>3, <3>2 DEF LiveKeys
    <3> QED
      BY <3>2, <3>3 DEF el1, map
  <2>7. CASE el2.removedNodes > Len(el2.nodeKeyData) \div 2
    <3> DEFINE data2 == compacted(data1)
               offset2 == compactedOffsets(data1, offset)
    <3>0. el1 = gcNodeKeys(el2)
      BY <2>4, <2>7
    <3>1. /\ [data |-> data2, offset |-> offset2] \in Arrays(NodeKeys, KeyOrder)
          /\ items(data2) = items(data1) /\ garbage(data2) = {}
      BY <2>2, KeyFlagged, ArrayCompact
    <3> HIDE DEF data2, offset2
    <3>2. el1 = [el EXCEPT !.nodeKeyMap = map, !.nodeKeyData = data2, !.nodeKeyOffset = offset2,
                           !.removedNodes = 0]
      BY <1>1, <2>5, <3>0 DEF gcNodeKeys, Lookups, data2, offset2
    <3>3. Rekeyed(el1, el, map, data2, offset2, 0)
      BY <1>5, <3>1, <3>2, FS_EmptySet DEF Rekeyed
    <3>4. KeyStep(el1, el, LiveKeys(el1), map) /\ el1.nodeKeyData = data2
      BY <3>3, KeyFields
    <3>5. LiveKeys(el1) = LiveKeys(el) \ {key}
      BY <2>3, <3>1, <3>4 DEF LiveKeys
    <3> QED
      BY <3>4, <3>5 DEF el1, map
  <2> QED
    BY <2>6, <2>7
<1> QED
  BY <1>7, <1>8

-----------------------------------------------------------------------------
(* Targets by prefix *)

\* a strict prefix is shorter and agrees with the key as far as it goes
LEMMA StrictPrefix ==
    ASSUME NEW path \in Paths, NEW key \in Paths
    PROVE  IsStrictPrefix(path, key) <=>
             Len(path) < Len(key) /\ \A j \in 1..Len(path) : path[j] = key[j]
<1> DEFINE n == Len(path)
           m == Len(key)
<1>1. n \in Nat /\ m \in Nat /\ (\A j \in 1..n : path[j] \in Nat) /\ (\A j \in 1..m : key[j] \in Nat)
  BY DEF Paths
<1>2. SubSeq(path, 1, n) = path
  BY SubSeqFull DEF Paths
<1>3. ASSUME n <= m
      PROVE  SubSeq(key, 1, n) \in Paths /\ Len(SubSeq(key, 1, n)) = n
             /\ \A j \in 1..n : SubSeq(key, 1, n)[j] = key[j]
  <2>1. \A j \in 1..n : key[j] \in Nat
    BY <1>1, <1>3
  <2>2. /\ SubSeq(key, 1, n) \in Seq(Nat)
        /\ Len(SubSeq(key, 1, n)) = IF 1 <= n THEN n - 1 + 1 ELSE 0
        /\ \A j \in 1..(n - 1 + 1) : SubSeq(key, 1, n)[j] = key[1 + j - 1]
    BY <1>1, <2>1, SubSeqProperties
  <2> DEFINE t == SubSeq(key, 1, n)
  <2> HIDE DEF n, t
  <2>3. Len(t) = n /\ n - 1 + 1 = n /\ \A j \in 1..n : 1 + j - 1 = j
    BY <1>1, <2>2 DEF t
  <2> QED
    BY <2>2, <2>3 DEF Paths, t
<1> HIDE DEF n, m
<1>4. ASSUME IsStrictPrefix(path, key)
      PROVE  n < m /\ \A j \in 1..n : path[j] = key[j]
  <2>1. n <= m /\ path = SubSeq(key, 1, n) /\ path # key
    BY <1>2, <1>4 DEF IsStrictPrefix, IsPrefix, n, m
  <2>2. \A j \in 1..n : path[j] = key[j]
    BY <1>3, <2>1
  <2>3. n # m
    BY <2>1, <2>2, SeqEqual DEF Paths, n, m
  <2> QED
    BY <1>1, <2>1, <2>2, <2>3
<1>5. ASSUME n < m, \A j \in 1..n : path[j] = key[j]
      PROVE  IsStrictPrefix(path, key)
  <2>1. n <= m
    BY <1>1, <1>5
  <2>2. \A j \in 1..n : path[j] = SubSeq(key, 1, n)[j]
    BY <1>3, <1>5, <2>1
  <2>3. path = SubSeq(key, 1, n)
    BY <1>3, <2>1, <2>2, SeqEqual DEF Paths, n
  <2>4. path # key
    BY <1>1, <1>5 DEF n, m
  <2> QED
    BY <1>2, <2>1, <2>3, <2>4 DEF IsStrictPrefix, IsPrefix, n, m
<1> QED
  BY <1>4, <1>5 DEF n, m

\* The keys below a directory come right behind it.
LEMMA PrefixInterval ==
    ASSUME NEW path \in Paths, NEW a \in Paths, NEW b \in Paths, IsStrictPrefix(path, b)
    PROVE  /\ Before(path, b)
           /\ Before(path, a) /\ Before(a, b) => IsStrictPrefix(path, a)
<1> DEFINE n == Len(path)
<1>0. /\ n \in Nat /\ Len(a) \in Nat /\ Len(b) \in Nat
      /\ (\A j \in 1..n : path[j] \in Nat) /\ (\A j \in 1..Len(a) : a[j] \in Nat)
      /\ (\A j \in 1..Len(b) : b[j] \in Nat)
  BY DEF Paths
<1>1. n < Len(b) /\ \A j \in 1..n : path[j] = b[j]
  BY StrictPrefix
<1>2. Before(path, b)
  <2>1. n + 1 \in 1..Len(b) /\ n + 1 <= Len(path) + 1 /\ ~(n + 1 <= Len(path))
        /\ \A j \in 1..((n + 1) - 1) : path[j] = b[j]
    BY <1>0, <1>1
  <2> QED
    BY <2>1 DEF Before
<1>3. ASSUME Before(path, a), Before(a, b) PROVE IsStrictPrefix(path, a)
  <2>1. PICK i \in 1..Len(a) : /\ i <= n + 1 /\ \A j \in 1..(i - 1) : path[j] = a[j]
                               /\ i <= n => path[i] < a[i]
    BY <1>3 DEF Before
  <2>2. PICK m \in 1..Len(b) : /\ m <= Len(a) + 1 /\ \A j \in 1..(m - 1) : a[j] = b[j]
                               /\ m <= Len(a) => a[m] < b[m]
    BY <1>3 DEF Before
  <2> HIDE DEF n
  <2>3. CASE i = n + 1
    <3>1. n < Len(a) /\ \A j \in 1..n : path[j] = a[j]
      BY <1>0, <2>1, <2>3
    <3> QED
      BY <3>1, StrictPrefix DEF n
  <2>4. CASE i <= n
    <3>0. path[i] = b[i] /\ path[i] \in Nat /\ a[i] \in Nat /\ b[i] \in Nat /\ path[i] < a[i]
      BY <1>0, <1>1, <2>1, <2>4
    <3>1. CASE m < i
      <4>1. a[m] = path[m] /\ path[m] = b[m] /\ a[m] < b[m] /\ b[m] \in Nat
        BY <1>0, <1>1, <2>1, <2>2, <2>4, <3>1
      <4> QED
        BY <4>1
    <3>2. CASE m = i
      <4>1. a[i] < b[i]
        BY <1>0, <2>1, <2>2, <3>2
      <4> QED
        BY <3>0, <4>1
    <3>3. CASE m > i
      <4>1. a[i] = b[i]
        BY <1>0, <2>1, <2>2, <3>3
      <4> QED
        BY <3>0, <4>1
    <3> QED
      BY <1>0, <2>1, <2>2, <3>1, <3>2, <3>3
  <2> QED
    BY <1>0, <2>1, <2>3, <2>4
<1> QED
  BY <1>2, <1>3

LEMMA LiveKeyAt ==
    ASSUME NEW el, KeysSound(el), NEW N, N = Len(el.nodeKeyOffset)
    PROVE  LiveKeys(el) = {keyAt(el, i).key : i \in {i \in 1..N : ~keyAt(el, i).removed}}
<1>1. /\ N \in Nat /\ DOMAIN el.nodeKeyData = 1..N
      /\ \A i \in 1..N : el.nodeKeyOffset[i] \in 1..N
      /\ \A i \in 1..N : keyAt(el, i) \in NodeKeys /\ keyAt(el, i).key \in Paths
      /\ \A o \in 1..N : \E i \in 1..N : el.nodeKeyOffset[i] = o
  BY KeysInOrder DEF KeyView
<1>2. ASSUME NEW i \in 1..N, ~keyAt(el, i).removed PROVE keyAt(el, i).key \in LiveKeys(el)
  <2>1. keyAt(el, i) = [key |-> keyAt(el, i).key, removed |-> keyAt(el, i).removed]
        /\ keyAt(el, i).removed \in BOOLEAN
    BY <1>1, NodeKeyEqual DEF NodeKeys
  <2>2. keyAt(el, i) \in items(el.nodeKeyData)
    BY <1>1, <1>2 DEF items, live, keyAt
  <2>3. keyAt(el, i).removed = FALSE
    BY <1>2, <2>1
  <2> QED
    BY <1>1, <2>1, <2>2, <2>3 DEF LiveKeys
<1>3. ASSUME NEW k \in LiveKeys(el)
      PROVE  \E i \in 1..N : ~keyAt(el, i).removed /\ keyAt(el, i).key = k
  <2>1. PICK o \in live(el.nodeKeyData) : el.nodeKeyData[o] = [key |-> k, removed |-> FALSE]
    BY <1>3 DEF LiveKeys, items
  <2>2. PICK i \in 1..N : el.nodeKeyOffset[i] = o
    BY <1>1 DEF live
  <2>3. keyAt(el, i) = [key |-> k, removed |-> FALSE]
    BY <2>1, <2>2 DEF keyAt
  <2> QED
    BY <2>3
<1> QED
  BY <1>2, <1>3

\* An empty prefix selects every key.
LEMMA TargetsOfNoPrefix ==
    ASSUME NEW el, Sound(el)
    PROVE  targetsWithPrefix(el, Prefix(<<>>, FALSE)) = LiveKeys(el)
<1> DEFINE N == Len(el.nodeKeyOffset)
           p == Prefix(<<>>, FALSE)
           idx == nodeKeyIdx(el, p)
           ends == {i \in idx..N : ~keyAt(el, i).removed /\ ~HasPrefix(keyAt(el, i).key, p)}
           end == firstOf(ends, N + 1)
<1>1. N \in Nat /\ KeysSound(el) /\ <<>> \in Paths
  BY KeysInOrder DEF Sound, KeyView, Paths
<1>2. KeyPlace(el, <<>>, idx, N)
  BY <1>1, KeyIdx
<1>3. \A k : ~Before(k, <<>>)
  BY DEF Before
<1>4. \A k : HasPrefix(k, p)
  BY DEF HasPrefix, Prefix
<1>5. targetsWithPrefix(el, p) = {keyAt(el, i).key : i \in {i \in idx..(end - 1) : ~keyAt(el, i).removed}}
  BY DEF targetsWithPrefix, keyAt
<1> HIDE DEF N, idx
<1>6. idx = 1
  <2>1. idx \in 1..(N + 1) /\ \A i \in 1..N : ~(i < idx)
    BY <1>2, <1>3 DEF KeyPlace
  <2>2. CASE N = 0
    BY <2>1, <2>2
  <2>3. CASE N > 0
    <3>1. 1 \in 1..N
      BY <1>1, <2>3
    <3> QED
      BY <1>1, <2>1, <3>1
  <2> QED
    BY <1>1, <2>2, <2>3
<1>7. ends = {} /\ ends \in SUBSET Nat
  BY <1>4
<1> HIDE DEF ends
<1>8. end = N + 1
  <2>1. N + 1 \in Nat
    BY <1>1
  <2> QED
    BY <1>7, <2>1, FirstOf
<1> HIDE DEF end
<1>9. idx..(end - 1) = 1..N
  BY <1>1, <1>6, <1>8
<1>10. LiveKeys(el) = {keyAt(el, i).key : i \in {i \in 1..N : ~keyAt(el, i).removed}}
  BY <1>1, LiveKeyAt DEF N
<1> QED
  BY <1>5, <1>9, <1>10

\* A prefix that ends with a separator selects the keys below the directory.
LEMMA TargetsOfDirectory ==
    ASSUME NEW el, Sound(el), NEW path \in Paths
    PROVE  targetsWithPrefix(el, Prefix(path, TRUE)) = {k \in LiveKeys(el) : IsStrictPrefix(path, k)}
<1> DEFINE N == Len(el.nodeKeyOffset)
           p == Prefix(path, TRUE)
           idx == nodeKeyIdx(el, p)
           before(i) == Before(keyAt(el, i).key, path) \/ keyAt(el, i).key = path
           S == {i \in 1..N : ~before(i)}
           ends == {i \in idx..N : ~keyAt(el, i).removed /\ ~IsStrictPrefix(path, keyAt(el, i).key)}
           end == firstOf(ends, N + 1)
<1>1. /\ N \in Nat /\ KeysSound(el) /\ DOMAIN el.nodeKeyOffset = 1..N
      /\ \A i \in 1..N : keyAt(el, i).key \in Paths
      /\ \A i, j \in 1..N : i < j => Before(keyAt(el, i).key, keyAt(el, j).key)
  BY KeysInOrder DEF Sound, KeyView
<1>2. /\ \A k : keyBefore(k, p) <=> Before(k, path) \/ k = path
      /\ \A k : HasPrefix(k, p) <=> IsStrictPrefix(path, k)
  BY DEF keyBefore, HasPrefix, Prefix
<1>3. idx = firstOf(S, N + 1)
  <2>1. {i \in DOMAIN el.nodeKeyOffset : ~keyBefore(el.nodeKeyData[el.nodeKeyOffset[i]].key, p)} = S
    BY <1>1, <1>2 DEF keyAt
  <2> QED
    BY <2>1 DEF nodeKeyIdx
<1>4. targetsWithPrefix(el, p) = {keyAt(el, i).key : i \in {i \in idx..(end - 1) : ~keyAt(el, i).removed}}
  <2>1. {i \in idx..N : ~keyAt(el, i).removed /\ ~HasPrefix(keyAt(el, i).key, p)} = ends
    BY <1>2
  <2> QED
    BY <2>1 DEF targetsWithPrefix, keyAt
<1> HIDE DEF N, idx, p
<1>5. /\ idx \in Nat /\ idx <= N + 1 /\ 1 <= idx
      /\ \A i \in 1..N : ~before(i) => idx <= i
      /\ idx <= N => ~before(idx)
  <2>1. S \in SUBSET Nat /\ N + 1 \in Nat
    BY <1>1
  <2>2. idx \in S \cup {N + 1} /\ idx \in Nat /\ idx <= N + 1 /\ \A s \in S : idx <= s
    BY <1>3, <2>1, FirstOf
  <2> QED
    BY <1>1, <2>2
<1>6. ends \in SUBSET Nat /\ N + 1 \in Nat
  BY <1>1, <1>5
<1>7. end \in ends \cup {N + 1} /\ end \in Nat /\ end <= N + 1 /\ \A s \in ends : end <= s
  BY <1>6, FirstOf
<1> HIDE DEF end
<1>8. ASSUME NEW i \in 1..N, IsStrictPrefix(path, keyAt(el, i).key), ~keyAt(el, i).removed
      PROVE  i \in idx..(end - 1)
  <2>0. i \in Nat /\ 1 <= i /\ i <= N /\ keyAt(el, i).key \in Paths
    BY <1>1
  <2>1. Before(path, keyAt(el, i).key)
    BY <1>8, <2>0, PrefixInterval
  <2>2. ~before(i)
    <3>1. keyAt(el, i).key # path
      BY <2>1, BeforeIrreflexive
    <3>2. ~Before(keyAt(el, i).key, path)
      BY <2>0, <2>1, BeforeTransitive, BeforeIrreflexive
    <3> QED
      BY <3>1, <3>2
  <2>3. idx <= i
    BY <1>5, <2>2
  <2>4. ASSUME end <= i PROVE FALSE
    <3>1. end \in ends
      BY <1>1, <1>7, <2>0, <2>4
    <3>2. end \in idx..N /\ ~IsStrictPrefix(path, keyAt(el, end).key)
      BY <3>1
    <3>3. end \in 1..N /\ idx <= end
      BY <1>1, <1>5, <3>2
    <3>4. end # i
      BY <1>8, <3>2
    <3>5. end < i
      BY <1>7, <2>0, <2>4, <3>4
    <3>6. Before(keyAt(el, end).key, keyAt(el, i).key) /\ keyAt(el, end).key \in Paths
      BY <1>1, <3>3, <3>5
    <3>7. idx \in 1..N /\ ~before(idx) /\ keyAt(el, idx).key \in Paths
      BY <1>1, <1>5, <3>3
    <3>8. Before(path, keyAt(el, idx).key)
      BY <3>7, BeforeTotal
    <3>9. Before(path, keyAt(el, end).key)
      <4>1. CASE idx = end
        BY <3>8, <4>1
      <4>2. CASE idx < end
        <5>1. Before(keyAt(el, idx).key, keyAt(el, end).key)
          BY <1>1, <3>3, <3>7, <4>2
        <5> QED
          BY <3>6, <3>7, <3>8, <5>1, BeforeTransitive
      <4> QED
        BY <1>5, <1>7, <3>3, <4>1, <4>2
    <3> QED
      BY <1>8, <2>0, <3>2, <3>6, <3>9, PrefixInterval
  <2> QED
    BY <1>5, <1>7, <2>0, <2>3, <2>4
<1>9. ASSUME NEW i \in idx..(end - 1), ~keyAt(el, i).removed
      PROVE  i \in 1..N /\ IsStrictPrefix(path, keyAt(el, i).key)
  <2>1. i \in 1..N /\ i \in idx..N /\ i < end /\ i \in Nat
    BY <1>1, <1>5, <1>7
  <2>2. i \notin ends
    BY <1>7, <2>1
  <2> QED
    BY <1>9, <2>1, <2>2
<1>10. LiveKeys(el) = {keyAt(el, i).key : i \in {i \in 1..N : ~keyAt(el, i).removed}}
  BY <1>1, LiveKeyAt DEF N
<1> HIDE DEF ends, S, before
<1> QED
  BY <1>4, <1>8, <1>9, <1>10 DEF p

-----------------------------------------------------------------------------
(* Edges: v is the sequence of the N edges in the order of their offsets *)

depth(e) == Len(e.targetKey)

EdgeView(v, N) ==
    /\ N \in Nat /\ DOMAIN v = 1..N
    /\ \A i \in 1..N : v[i] \in EdgeRecords /\ depth(v[i]) \in Nat
    /\ \A i, j \in 1..N : i < j => sortedBefore(v[i], v[j])
    /\ \A i, j \in 1..N : i <= j => depth(v[i]) <= depth(v[j])

\* b[d] is the first position of an edge of depth d - 1 or more
IsBounds(b, v, N) ==
    /\ b \in Seq(Nat)
    /\ N = 0 => Len(b) = 0
    /\ N > 0 => Len(b) = depth(v[N]) + 1
    /\ \A d \in 1..Len(b) : b[d] \in 1..N
    /\ \A d \in 1..Len(b) : \A i \in 1..N : b[d] <= i <=> d - 1 <= depth(v[i])

LEMMA EdgesInOrder ==
    ASSUME NEW data, NEW offset, [data |-> data, offset |-> offset] \in Arrays(EdgeRecords, EdgeOrder)
    PROVE  /\ EdgeView(view(data, offset), Len(offset))
           /\ Len(data) = Len(offset) /\ DOMAIN offset = 1..Len(offset) /\ DOMAIN data = 1..Len(offset)
           /\ \A i \in 1..Len(offset) : /\ offset[i] \in 1..Len(offset)
                                        /\ view(data, offset)[i] = data[offset[i]]
           /\ \A o \in 1..Len(offset) : \E i \in 1..Len(offset) : offset[i] = o
<1> DEFINE N == Len(data)
           v == view(data, offset)
<1>1. Indexed(data, offset, EdgeRecords, EdgeOrder, N)
  BY EdgeFlagged, ArrayOffsets
<1> HIDE DEF N
<1>2. /\ N \in Nat /\ DOMAIN offset = 1..N /\ Len(offset) = N /\ Len(data) = N /\ DOMAIN data = 1..N
      /\ \A i \in 1..N : offset[i] \in 1..N /\ data[i] \in EdgeRecords
      /\ \A o \in 1..N : \E i \in 1..N : offset[i] = o
  BY <1>1 DEF Indexed
<1>3. DOMAIN v = 1..N /\ \A i \in 1..N : v[i] = data[offset[i]]
  BY <1>2 DEF view
<1> HIDE DEF v
<1>4. \A i \in 1..N : v[i] \in EdgeRecords /\ depth(v[i]) \in Nat
  BY <1>2, <1>3, EdgeFields DEF depth
<1>5. ASSUME NEW i \in 1..N, NEW j \in 1..N, i < j
      PROVE  v[j] \in EdgeOrder[v[i]]
  <2>1. data[offset[j]] \in EdgeOrder[data[offset[i]]]
    BY <1>1, <1>5 DEF Indexed
  <2> QED
    BY <1>3, <2>1
<1>6. \A i, j \in 1..N : i < j => sortedBefore(v[i], v[j])
  BY <1>4, <1>5 DEF EdgeOrder
<1>7. ASSUME NEW i \in 1..N, NEW j \in 1..N, i <= j PROVE depth(v[i]) <= depth(v[j])
  <2>1. CASE i = j
    BY <1>4, <2>1
  <2>2. CASE i < j
    <3>1. sortedBefore(v[i], v[j])
      BY <1>6, <2>2
    <3>2. depth(v[i]) < depth(v[j]) \/ depth(v[i]) = depth(v[j])
      BY <3>1 DEF sortedBefore, getDirDepth, depth
    <3> QED
      BY <1>4, <3>2
  <2> QED
    BY <1>2, <1>7, <2>1, <2>2
<1>8. EdgeView(v, N)
  BY <1>2, <1>3, <1>4, <1>6, <1>7 DEF EdgeView
<1> QED
  BY <1>2, <1>3, <1>8 DEF v

\* There is one sequence of bounds.
LEMMA BoundsUnique ==
    ASSUME NEW v, NEW N, EdgeView(v, N), NEW b, IsBounds(b, v, N), NEW c, IsBounds(c, v, N)
    PROVE  b = c
<1>1. N \in Nat /\ b \in Seq(Nat) /\ c \in Seq(Nat)
  BY DEF EdgeView, IsBounds
<1>2. Len(b) = Len(c)
  <2>1. N = 0 \/ N > 0
    BY <1>1
  <2> QED
    BY <2>1 DEF IsBounds
<1>3. ASSUME NEW d \in 1..Len(b) PROVE b[d] = c[d]
  <2>1. b[d] \in 1..N /\ \A i \in 1..N : b[d] <= i <=> d - 1 <= depth(v[i])
    BY DEF IsBounds
  <2>2. c[d] \in 1..N /\ \A i \in 1..N : c[d] <= i <=> d - 1 <= depth(v[i])
    BY <1>2 DEF IsBounds
  <2>3. b[d] \in Nat /\ c[d] \in Nat
    BY <1>1, <2>1, <2>2
  <2>4. b[d] <= c[d] /\ c[d] <= b[d]
    BY <2>1, <2>2, <2>3
  <2> QED
    BY <2>3, <2>4
<1> QED
  BY <1>1, <1>2, <1>3, SeqEqual

\* dirDepthBounds is what verifyDirDepthBounds expects when it is such a sequence.
LEMMA BoundsExpected ==
    ASSUME NEW el,
           [data |-> el.edgeData, offset |-> el.edgeOffset] \in Arrays(EdgeRecords, EdgeOrder)
    PROVE  /\ IsBounds(expectedBounds(el), view(el.edgeData, el.edgeOffset), Len(el.edgeOffset))
           /\ \A b : IsBounds(b, view(el.edgeData, el.edgeOffset), Len(el.edgeOffset))
                        => b = expectedBounds(el)
<1> DEFINE N == Len(el.edgeOffset)
           v == view(el.edgeData, el.edgeOffset)
           first(d) == {i \in 1..N : depth(v[i]) >= d - 1}
           b == expectedBounds(el)
<1>0. EdgeView(v, N)
  BY EdgesInOrder
<1>7. \A i \in 1..N : v[i] = el.edgeData[el.edgeOffset[i]]
  <2>1. DOMAIN el.edgeOffset = 1..N
    BY EdgesInOrder
  <2> QED
    BY <2>1 DEF view
<1>1. EdgeView(v, N) /\ \A i \in 1..N : v[i] = el.edgeData[el.edgeOffset[i]]
  BY <1>0, <1>7
<1>2. /\ N \in Nat /\ \A i \in 1..N : depth(v[i]) \in Nat
      /\ \A i, j \in 1..N : i <= j => depth(v[i]) <= depth(v[j])
  BY <1>1 DEF EdgeView
<1>3. ASSUME N = 0 PROVE b = <<>>
  BY <1>3 DEF expectedBounds
<1>4. ASSUME N > 0 PROVE b = [d \in 1..(depth(v[N]) + 1) |-> Min(first(d))]
  <2>1. N \in 1..N /\ N # 0
    BY <1>2, <1>4
  <2>2. \A i \in 1..N : getDirDepth(el.edgeData[el.edgeOffset[i]].targetKey) = depth(v[i])
    BY <1>1 DEF getDirDepth, depth
  <2>3. \A d : {i \in 1..N : getDirDepth(el.edgeData[el.edgeOffset[i]].targetKey) >= d - 1} = first(d)
    BY <2>2
  <2>4. b = [d \in 1..(getDirDepth(el.edgeData[el.edgeOffset[N]].targetKey) + 1) |->
                Min({i \in 1..N : getDirDepth(el.edgeData[el.edgeOffset[i]].targetKey) >= d - 1})]
    BY <2>1 DEF expectedBounds
  <2> QED
    BY <2>1, <2>2, <2>3, <2>4
<1> HIDE DEF N, v, b
<1>5. ASSUME N > 0, NEW d \in 1..(depth(v[N]) + 1)
      PROVE  /\ Min(first(d)) \in 1..N
             /\ \A i \in 1..N : Min(first(d)) <= i <=> d - 1 <= depth(v[i])
  <2>0. N \in 1..N /\ depth(v[N]) \in Nat /\ d \in Nat
    BY <1>2, <1>5
  <2>1. N \in first(d) /\ first(d) \in SUBSET Nat
    BY <1>2, <2>0
  <2>2. PICK m \in first(d) : \A j \in first(d) : m <= j
    BY <2>1, Least
  <2>3. Min(first(d)) \in first(d) /\ \A j \in first(d) : Min(first(d)) <= j
    BY <2>2 DEF Min
  <2> DEFINE m1 == Min(first(d))
  <2>4. m1 \in 1..N /\ m1 \in Nat /\ d - 1 <= depth(v[m1])
    BY <1>2, <2>0, <2>3
  <2>5. \A j \in 1..N : d - 1 <= depth(v[j]) => m1 <= j
    BY <1>2, <2>0, <2>3
  <2> HIDE DEF m1
  <2>6. \A j \in 1..N : m1 <= j => d - 1 <= depth(v[j])
    <3> SUFFICES ASSUME NEW j \in 1..N, m1 <= j PROVE d - 1 <= depth(v[j])
      OBVIOUS
    <3>1. depth(v[m1]) <= depth(v[j]) /\ depth(v[m1]) \in Nat /\ depth(v[j]) \in Nat
      BY <1>2, <2>4
    <3> QED
      BY <2>0, <2>4, <3>1
  <2> QED
    BY <2>4, <2>5, <2>6 DEF m1
<1>6. IsBounds(b, v, N)
  <2>1. CASE N = 0
    <3>1. b \in Seq(Nat) /\ Len(b) = 0
      BY <1>3, <2>1
    <3> QED
      BY <2>1, <3>1 DEF IsBounds
  <2>2. CASE N > 0
    <3>1. depth(v[N]) + 1 \in Nat
      BY <1>2, <2>2
    <3>2. \A d \in 1..(depth(v[N]) + 1) : Min(first(d)) \in Nat
      BY <1>2, <1>5, <2>2
    <3>3. b = [d \in 1..(depth(v[N]) + 1) |-> Min(first(d))]
      BY <1>4, <2>2
    <3>4. b \in [1..(depth(v[N]) + 1) -> Nat]
      BY <3>2, <3>3
    <3>6. b \in Seq(Nat) /\ Len(b) = depth(v[N]) + 1
      BY <3>1, <3>4, FunctionIsSeq
    <3>7. \A d \in 1..Len(b) : b[d] = Min(first(d))
      BY <3>3, <3>6
    <3>8. \A d \in 1..Len(b) : b[d] \in 1..N /\ \A i \in 1..N : b[d] <= i <=> d - 1 <= depth(v[i])
      BY <1>5, <2>2, <3>6, <3>7
    <3>9. N # 0
      BY <2>2
    <3> QED
      BY <3>6, <3>8, <3>9 DEF IsBounds
  <2> QED
    BY <1>2, <2>1, <2>2
<1> QED
  BY <1>1, <1>6, BoundsUnique DEF b, v, N

\* the edges before idx are the ones that come before e
EdgePlace(v, e, idx, N) ==
    /\ idx \in 1..(N + 1)
    /\ \A i \in 1..N : i < idx <=> sortedBefore(v[i], e)

\* the edges of less depth come before the bound of a depth
LEMMA DepthBegin ==
    ASSUME NEW el, EdgesSound(el), NEW d \in Nat
    PROVE  LET v == view(el.edgeData, el.edgeOffset)
               N == Len(el.edgeOffset)
           IN  /\ depthBegin(el, d) \in 1..(N + 1)
               /\ \A i \in 1..N : i < depthBegin(el, d) <=> depth(v[i]) < d
<1> DEFINE N == Len(el.edgeOffset)
           v == view(el.edgeData, el.edgeOffset)
           b == el.dirDepthBounds
           begin == depthBegin(el, d)
<1>1. EdgeView(v, N) /\ IsBounds(b, v, N)
  BY EdgesInOrder, BoundsExpected DEF EdgesSound
<1>2. /\ N \in Nat /\ \A i \in 1..N : depth(v[i]) \in Nat
      /\ \A i, j \in 1..N : i <= j => depth(v[i]) <= depth(v[j])
  BY <1>1 DEF EdgeView
<1>3. /\ b \in Seq(Nat) /\ Len(b) \in Nat
      /\ N = 0 => Len(b) = 0
      /\ N > 0 => Len(b) = depth(v[N]) + 1
      /\ \A c \in 1..Len(b) : b[c] \in 1..N
      /\ \A c \in 1..Len(b) : \A i \in 1..N : b[c] <= i <=> c - 1 <= depth(v[i])
  BY <1>1 DEF IsBounds
<1>4. begin = IF d < Len(b) THEN b[d + 1] ELSE N + 1
  BY DEF depthBegin
<1> HIDE DEF N, v, b, begin
<1>5. CASE d < Len(b)
  <2>1. d + 1 \in 1..Len(b) /\ begin = b[d + 1] /\ (d + 1) - 1 = d
    BY <1>3, <1>4, <1>5
  <2>2. begin \in 1..N /\ \A i \in 1..N : begin <= i <=> d <= depth(v[i])
    BY <1>3, <2>1
  <2>3. begin \in 1..(N + 1) /\ \A i \in 1..N : i < begin <=> depth(v[i]) < d
    BY <1>2, <2>2
  <2> QED
    BY <2>3 DEF N, v, begin
<1>6. CASE ~(d < Len(b))
  <2>1. begin = N + 1
    BY <1>4, <1>6
  <2>2. ASSUME NEW i \in 1..N PROVE i < begin /\ depth(v[i]) < d
    <3>1. N > 0 /\ N \in 1..N /\ i <= N
      BY <1>2
    <3>2. depth(v[i]) <= depth(v[N]) /\ depth(v[i]) \in Nat /\ depth(v[N]) \in Nat
      BY <1>2, <3>1
    <3>3. Len(b) = depth(v[N]) + 1
      BY <1>3, <3>1
    <3> QED
      BY <1>2, <1>6, <2>1, <3>1, <3>2, <3>3
  <2>3. begin \in 1..(N + 1)
    BY <1>2, <2>1
  <2> QED
    BY <2>2, <2>3 DEF N, v, begin
<1> QED
  BY <1>5, <1>6

\* Searching one depth finds the place of an edge among all of them.
LEMMA EdgeIdx ==
    ASSUME NEW el, EdgesSound(el), NEW e \in EdgeRecords
    PROVE  EdgePlace(view(el.edgeData, el.edgeOffset), e, edgeIdx(el, e), Len(el.edgeOffset))
<1> DEFINE N == Len(el.edgeOffset)
           v == view(el.edgeData, el.edgeOffset)
           d == depth(e)
           b == depthBegin(el, d)
           c == depthBegin(el, d + 1)
           S == {i \in b..(c - 1) : ~edgeBefore(v[i], e)}
           idx == edgeIdx(el, e)
<1>0. d \in Nat /\ d + 1 \in Nat
  BY EdgeFields DEF depth
<1>1. EdgeView(v, N) /\ DOMAIN el.edgeOffset = 1..N
  BY EdgesInOrder DEF EdgesSound
<1>2. /\ N \in Nat
      /\ \A i \in 1..N : v[i] \in EdgeRecords /\ depth(v[i]) \in Nat
      /\ \A i, j \in 1..N : i < j => sortedBefore(v[i], v[j])
  BY <1>1 DEF EdgeView
<1>3. b \in 1..(N + 1) /\ \A i \in 1..N : i < b <=> depth(v[i]) < d
  BY <1>0, DepthBegin
<1>4. c \in 1..(N + 1) /\ \A i \in 1..N : i < c <=> depth(v[i]) < d + 1
  BY <1>0, DepthBegin
<1>5. idx = firstOf(S, c)
  <2>1. \A i \in 1..N : v[i] = el.edgeData[el.edgeOffset[i]]
    BY <1>1 DEF view
  <2>2. b..(c - 1) \in SUBSET (1..N)
    <3> HIDE DEF N, b, c
    <3> QED
      BY <1>2, <1>3, <1>4
  <2>3. {i \in b..(c - 1) : ~edgeBefore(el.edgeData[el.edgeOffset[i]], e)} = S
    BY <2>1, <2>2
  <2> QED
    BY <2>3 DEF edgeIdx, depthEnd, getDirDepth, depth
<1> HIDE DEF N, v, b, c, d, idx
<1>6. b \in Nat /\ c \in Nat /\ b <= c /\ 1 <= b /\ c <= N + 1
  <2>1. b \in Nat /\ c \in Nat /\ 1 <= b /\ b <= N + 1 /\ 1 <= c /\ c <= N + 1
    BY <1>2, <1>3, <1>4
  <2>2. ASSUME c < b PROVE FALSE
    <3>1. c \in 1..N
      BY <1>2, <2>1, <2>2
    <3>2. depth(v[c]) < d /\ ~(depth(v[c]) < d + 1) /\ depth(v[c]) \in Nat
      BY <1>2, <1>3, <1>4, <2>1, <2>2, <3>1
    <3> QED
      BY <1>0, <3>2
  <2> QED
    BY <2>1, <2>2
<1>7. S \in SUBSET Nat
  BY <1>6
<1>8. idx \in S \cup {c} /\ idx \in Nat /\ idx <= c /\ \A s \in S : idx <= s
  BY <1>5, <1>6, <1>7, FirstOf
<1>9. b <= idx /\ idx \in 1..(N + 1)
  BY <1>2, <1>6, <1>8
<1>10. \A i \in 1..N : /\ depth(v[i]) < d => sortedBefore(v[i], e)
                       /\ depth(v[i]) = d => (sortedBefore(v[i], e) <=> edgeBefore(v[i], e))
                       /\ d < depth(v[i]) => ~sortedBefore(v[i], e)
  BY <1>0, <1>2 DEF sortedBefore, getDirDepth, depth, d
<1>11. ASSUME NEW i \in 1..N PROVE i < idx <=> sortedBefore(v[i], e)
  <2>0. i \in Nat /\ depth(v[i]) \in Nat
    BY <1>2
  <2>1. CASE i < b
    BY <1>3, <1>6, <1>9, <1>10, <1>8, <2>0, <2>1
  <2>2. CASE ~(i < c)
    <3>1. d < depth(v[i])
      BY <1>0, <1>4, <2>0, <2>2
    <3> QED
      BY <1>6, <1>8, <1>10, <2>0, <2>2, <3>1
  <2>3. CASE ~(i < b) /\ i < c
    <3>1. depth(v[i]) = d /\ i \in b..(c - 1)
      BY <1>0, <1>3, <1>4, <1>6, <2>0, <2>3
    <3>2. ASSUME i < idx PROVE sortedBefore(v[i], e)
      <4>1. i \notin S
        BY <1>8, <2>0, <3>2
      <4> QED
        BY <1>10, <3>1, <4>1
    <3>3. ASSUME ~(i < idx) PROVE ~sortedBefore(v[i], e)
      <4>1. idx \in S /\ idx \in 1..N
        BY <1>2, <1>6, <1>8, <1>9, <2>0, <2>3, <3>3
      <4>2. ~edgeBefore(v[idx], e) /\ idx \in b..(c - 1)
        BY <4>1
      <4>3. depth(v[idx]) = d
        BY <1>0, <1>2, <1>3, <1>4, <1>6, <4>1, <4>2
      <4>4. ~sortedBefore(v[idx], e)
        BY <1>10, <4>1, <4>2, <4>3
      <4>5. CASE i = idx
        BY <4>4, <4>5
      <4>6. CASE idx < i
        <5>1. sortedBefore(v[idx], v[i])
          BY <1>2, <4>1, <4>6
        <5> QED
          BY <1>2, <4>1, <4>4, <5>1, SortedTransitive
      <4> QED
        BY <1>8, <2>0, <3>3, <4>5, <4>6
    <3> QED
      BY <3>2, <3>3
  <2> QED
    BY <2>1, <2>2, <2>3
<1> QED
  BY <1>9, <1>11 DEF EdgePlace, N, v, idx

\* Looking at this place tells whether the edge is in the array.
LEMMA EdgeFound ==
    ASSUME NEW v, NEW N, EdgeView(v, N), NEW e \in EdgeRecords, NEW idx, EdgePlace(v, e, idx, N)
    PROVE  /\ \A i \in 1..N : sameEdge(e, v[i]) => i = idx
           /\ \A i \in 1..N : (idx <= N => ~sameEdge(e, v[idx])) /\ idx <= i => sortedBefore(e, v[i])
<1>1. /\ N \in Nat
      /\ \A i \in 1..N : v[i] \in EdgeRecords
      /\ \A i, j \in 1..N : i < j => sortedBefore(v[i], v[j])
  BY DEF EdgeView
<1>2. idx \in 1..(N + 1) /\ idx \in Nat /\ \A i \in 1..N : i < idx <=> sortedBefore(v[i], e)
  BY <1>1 DEF EdgePlace
<1>3. ASSUME NEW i \in 1..N, sameEdge(e, v[i]) PROVE i = idx
  <2>0. i \in Nat
    BY <1>1
  <2>1. /\ v[i] \in EdgeRecords
        /\ e.targetKey = v[i].targetKey /\ e.isPrefix = v[i].isPrefix
        /\ e.sourceNode = v[i].sourceNode /\ e.label = v[i].label
    BY <1>1, <1>3, SameEdge
  <2>2. ~sortedBefore(v[i], v[i])
    BY <2>1, SortedIrreflexive
  <2>3. \A x \in EdgeRecords : sortedBefore(x, e) <=> sortedBefore(x, v[i])
    BY <2>1, SortedFields
  <2>4. ~(i < idx)
    BY <1>2, <2>1, <2>2, <2>3
  <2>5. CASE idx < i
    <3>1. idx \in 1..N
      BY <1>1, <1>2, <2>0, <2>5
    <3>2. sortedBefore(v[idx], e)
      BY <1>1, <2>3, <2>5, <3>1
    <3>3. idx < idx
      BY <1>2, <3>1, <3>2
    <3> QED
      BY <1>2, <3>3
  <2> QED
    BY <1>2, <2>0, <2>4, <2>5
<1>4. ASSUME NEW i \in 1..N, idx <= N => ~sameEdge(e, v[idx]), idx <= i
      PROVE  sortedBefore(e, v[i])
  <2>0. i \in Nat /\ idx <= N
    BY <1>1, <1>2, <1>4
  <2>1. ~sortedBefore(v[i], e)
    BY <1>2, <1>4, <2>0
  <2>2. ~sameEdge(e, v[i])
    BY <1>3, <1>4, <2>0
  <2> QED
    BY <1>1, <2>1, <2>2, SortedTotal
<1> QED
  BY <1>3, <1>4

insertedBounds(b, D, N) ==
    [d \in 1..Max({Len(b), D + 1}) |->
        IF d > Len(b) THEN N + 1 ELSE IF d > D + 1 THEN b[d] + 1 ELSE b[d]]

\* The bounds after an insertion.
LEMMA BoundsInsert ==
    ASSUME NEW v, NEW N, EdgeView(v, N), NEW b, IsBounds(b, v, N),
           NEW e \in EdgeRecords, NEW idx, EdgePlace(v, e, idx, N),
           NEW v1, Inserted(v1, v, idx, e), Len(v) = N
    PROVE  IsBounds(insertedBounds(b, depth(e), N), v1, N + 1)
<1> DEFINE D == depth(e)
           L == Len(b)
           M == Max({L, D + 1})
           b1 == insertedBounds(b, depth(e), N)
<1>1. /\ N \in Nat
      /\ \A i \in 1..N : v[i] \in EdgeRecords /\ depth(v[i]) \in Nat
      /\ \A i, j \in 1..N : i <= j => depth(v[i]) <= depth(v[j])
  BY DEF EdgeView
<1>2. /\ b \in Seq(Nat) /\ L \in Nat
      /\ N = 0 => L = 0
      /\ N > 0 => L = depth(v[N]) + 1
      /\ \A d \in 1..L : b[d] \in 1..N
      /\ \A d \in 1..L : \A i \in 1..N : b[d] <= i <=> d - 1 <= depth(v[i])
  BY DEF IsBounds
<1>3. idx \in 1..(N + 1) /\ idx \in Nat /\ 1 <= idx /\ idx <= N + 1
  BY <1>1 DEF EdgePlace
<1>4. D \in Nat
  BY EdgeFields DEF depth
<1>5. /\ \A j \in 1..N : j < idx => v1[j] = v[j]
      /\ \A j \in 1..N : idx <= j => v1[j + 1] = v[j]
      /\ v1[idx] = e
  BY DEF Inserted
<1>6. \A i \in 1..N : /\ i < idx => depth(v[i]) <= D
                      /\ idx <= i => D <= depth(v[i])
  <2> SUFFICES ASSUME NEW i \in 1..N
               PROVE  (i < idx => depth(v[i]) <= D) /\ (idx <= i => D <= depth(v[i]))
    OBVIOUS
  <2>0. i \in Nat /\ depth(v[i]) \in Nat
    BY <1>1
  <2>1. i < idx <=> sortedBefore(v[i], e)
    BY DEF EdgePlace
  <2>2. /\ sortedBefore(v[i], e) => depth(v[i]) < D \/ depth(v[i]) = D
        /\ depth(v[i]) < D => sortedBefore(v[i], e)
    BY DEF sortedBefore, getDirDepth, depth
  <2> HIDE DEF D
  <2> QED
    BY <1>3, <1>4, <2>0, <2>1, <2>2
<1>7. M \in Nat /\ M >= L /\ M >= D + 1 /\ (M = L \/ M = D + 1)
  <2>1. \E x \in {L, D + 1} : \A y \in {L, D + 1} : x >= y
    <3> HIDE DEF L, D
    <3> QED
      BY <1>2, <1>4
  <2>2. M \in {L, D + 1} /\ \A y \in {L, D + 1} : M >= y
    BY <2>1 DEF Max
  <2> HIDE DEF L, D, M
  <2> QED
    BY <1>2, <1>4, <2>2
<1>8. b1 = [d \in 1..M |-> IF d > L THEN N + 1 ELSE IF d > D + 1 THEN b[d] + 1 ELSE b[d]]
  BY DEF insertedBounds
<1> HIDE DEF D, L, M, b1
<1>9. M = depth(v1[N + 1]) + 1
  <2>1. CASE idx = N + 1
    <3>1. depth(v1[N + 1]) = D
      BY <1>5, <2>1 DEF D
    <3>2. L <= D + 1
      <4>1. CASE N = 0
        BY <1>2, <1>4, <4>1
      <4>2. CASE N > 0
        <5>1. N \in 1..N /\ N < idx
          BY <1>1, <2>1, <4>2
        <5>2. depth(v[N]) <= D /\ depth(v[N]) \in Nat
          BY <1>1, <1>6, <5>1
        <5> QED
          BY <1>2, <1>4, <4>2, <5>2
      <4> QED
        BY <1>1, <4>1, <4>2
    <3> QED
      BY <1>2, <1>4, <1>7, <3>1, <3>2
  <2>2. CASE idx <= N
    <3>1. N \in 1..N /\ N > 0
      BY <1>1, <1>3, <2>2
    <3>2. v1[N + 1] = v[N] /\ D <= depth(v[N]) /\ depth(v[N]) \in Nat
      BY <1>1, <1>5, <1>6, <2>2, <3>1
    <3> QED
      BY <1>2, <1>4, <1>7, <3>1, <3>2
  <2> QED
    BY <1>1, <1>3, <2>1, <2>2
<1>10. ASSUME NEW d \in 1..M
       PROVE  b1[d] \in 1..(N + 1) /\ \A i \in 1..(N + 1) : b1[d] <= i <=> d - 1 <= depth(v1[i])
  <2>0. d \in Nat /\ 1 <= d /\ d <= M
    BY <1>7
  <2>1. CASE d > L
    <3>1. d <= D + 1 /\ b1[d] = N + 1
      BY <1>2, <1>4, <1>7, <1>8, <2>0, <2>1
    <3>2. idx = N + 1
      <4>1. ASSUME idx <= N PROVE FALSE
        <5>1. N \in 1..N /\ N > 0 /\ D <= depth(v[N]) /\ depth(v[N]) \in Nat
          BY <1>1, <1>3, <1>6, <4>1
        <5> QED
          BY <1>2, <1>4, <2>0, <2>1, <3>1, <5>1
      <4> QED
        BY <1>1, <1>3, <4>1
    <3>3. ASSUME NEW i \in 1..(N + 1) PROVE b1[d] <= i <=> d - 1 <= depth(v1[i])
      <4>1. CASE i = N + 1
        <5>1. v1[i] = e
          BY <1>5, <3>2, <4>1
        <5> QED
          BY <1>1, <1>4, <2>0, <3>1, <4>1, <5>1 DEF D
      <4>2. CASE i # N + 1
        <5>1. i \in 1..N /\ N \in 1..N /\ N > 0 /\ i <= N /\ i < idx
          BY <1>1, <3>2, <4>2
        <5>2. v1[i] = v[i] /\ depth(v[i]) <= depth(v[N]) /\ depth(v[i]) \in Nat /\ depth(v[N]) \in Nat
          BY <1>1, <1>5, <5>1
        <5>3. L = depth(v[N]) + 1
          BY <1>2, <5>1
        <5> QED
          BY <1>1, <2>0, <2>1, <3>1, <5>1, <5>2, <5>3
      <4> QED
        BY <4>1, <4>2
    <3>4. b1[d] \in 1..(N + 1)
      BY <1>1, <3>1
    <3> QED
      BY <3>3, <3>4
  <2>2. CASE d <= L /\ d > D + 1
    <3>1. /\ d \in 1..L /\ b[d] \in 1..N /\ b[d] \in Nat /\ b1[d] = b[d] + 1
          /\ \A i \in 1..N : b[d] <= i <=> d - 1 <= depth(v[i])
      BY <1>1, <1>2, <1>4, <1>8, <2>0, <2>2
    <3>2. b1[d] \in 1..(N + 1)
      BY <1>1, <3>1
    <3>3. ASSUME NEW i \in 1..(N + 1) PROVE b1[d] <= i <=> d - 1 <= depth(v1[i])
      <4>0. i \in Nat /\ 1 <= i /\ i <= N + 1
        BY <1>1
      <4>1. CASE i < idx
        <5>1. i \in 1..N /\ v1[i] = v[i] /\ depth(v[i]) <= D /\ depth(v[i]) \in Nat
          BY <1>1, <1>3, <1>5, <1>6, <4>0, <4>1
        <5> QED
          BY <1>4, <2>0, <2>2, <3>1, <4>0, <5>1
      <4>2. CASE i = idx
        <5>1. ASSUME b[d] < idx PROVE FALSE
          <6>1. depth(v[b[d]]) <= D /\ depth(v[b[d]]) \in Nat /\ d - 1 <= depth(v[b[d]])
            BY <1>1, <1>6, <3>1, <5>1
          <6> QED
            BY <1>4, <2>0, <2>2, <6>1
        <5>2. depth(v1[i]) = D
          BY <1>5, <4>2 DEF D
        <5> QED
          BY <1>3, <1>4, <2>0, <2>2, <3>1, <4>2, <5>1, <5>2
      <4>3. CASE i > idx
        <5>1. i - 1 \in 1..N /\ idx <= i - 1 /\ (i - 1) + 1 = i
          BY <1>1, <1>3, <4>0, <4>3
        <5>2. v1[i] = v[i - 1] /\ (b[d] <= i - 1 <=> d - 1 <= depth(v[i - 1]))
          BY <1>5, <3>1, <5>1
        <5> QED
          BY <3>1, <4>0, <5>2
      <4> QED
        BY <1>3, <4>0, <4>1, <4>2, <4>3
    <3> QED
      BY <3>2, <3>3
  <2>3. CASE d <= L /\ d <= D + 1
    <3>1. /\ d \in 1..L /\ b[d] \in 1..N /\ b[d] \in Nat /\ b[d] <= N /\ b1[d] = b[d]
          /\ \A i \in 1..N : b[d] <= i <=> d - 1 <= depth(v[i])
      BY <1>1, <1>2, <1>4, <1>8, <2>0, <2>3
    <3>2. b1[d] \in 1..(N + 1)
      BY <1>1, <3>1
    <3>3. ASSUME NEW i \in 1..(N + 1) PROVE b1[d] <= i <=> d - 1 <= depth(v1[i])
      <4>0. i \in Nat /\ 1 <= i /\ i <= N + 1
        BY <1>1
      <4>1. CASE i < idx
        <5>1. i \in 1..N /\ v1[i] = v[i]
          BY <1>1, <1>3, <1>5, <4>0, <4>1
        <5> QED
          BY <3>1, <5>1
      <4>2. CASE i = idx
        <5>1. b[d] <= idx
          <6>1. CASE idx = N + 1
            BY <1>1, <3>1, <6>1
          <6>2. CASE idx <= N
            <7>1. idx \in 1..N /\ D <= depth(v[idx]) /\ depth(v[idx]) \in Nat
              BY <1>1, <1>3, <1>6, <6>2
            <7>2. d - 1 <= depth(v[idx])
              BY <1>4, <2>0, <2>3, <7>1
            <7> QED
              BY <3>1, <7>1, <7>2
          <6> QED
            BY <1>1, <1>3, <6>1, <6>2
        <5>2. depth(v1[i]) = D
          BY <1>5, <4>2 DEF D
        <5> QED
          BY <1>4, <2>0, <2>3, <3>1, <4>2, <5>1, <5>2
      <4>3. CASE i > idx
        <5>1. i - 1 \in 1..N /\ idx <= i - 1 /\ (i - 1) + 1 = i
          BY <1>1, <1>3, <4>0, <4>3
        <5>2. /\ v1[i] = v[i - 1] /\ (b[d] <= i - 1 <=> d - 1 <= depth(v[i - 1]))
              /\ D <= depth(v[i - 1]) /\ depth(v[i - 1]) \in Nat
          BY <1>1, <1>5, <1>6, <3>1, <5>1
        <5> QED
          BY <1>4, <2>0, <2>3, <3>1, <4>0, <5>2
      <4> QED
        BY <1>3, <4>0, <4>1, <4>2, <4>3
    <3> QED
      BY <3>2, <3>3
  <2> QED
    BY <1>2, <1>4, <2>0, <2>1, <2>2, <2>3
<1>11. b1 \in Seq(Nat) /\ Len(b1) = M
  <2>1. \A d \in 1..M : b1[d] \in Nat
    BY <1>1, <1>10
  <2>2. b1 \in [1..M -> Nat]
    BY <1>8, <2>1
  <2> QED
    BY <1>7, <2>2, FunctionIsSeq
<1>12. N + 1 # 0
  BY <1>1
<1> QED
  BY <1>9, <1>10, <1>11, <1>12 DEF IsBounds, b1

keptBound(b, K, d) == 1 + rank(K, b[d] - 1)
keptDepths(b, K) == {d \in DOMAIN b : keptBound(b, K, d) <= Cardinality(K)}
keptBounds(b, K) == [d \in 1..Max(keptDepths(b, K) \cup {0}) |-> keptBound(b, K, d)]

\* The bounds after the positions in K were kept.
LEMMA BoundsCompact ==
    ASSUME NEW v, NEW N, EdgeView(v, N), NEW b, IsBounds(b, v, N), NEW K \in SUBSET (1..N),
           NEW v1, \A n \in 1..Cardinality(K) : v1[n] = v[nth(K, n)]
    PROVE  IsBounds(keptBounds(b, K), v1, Cardinality(K))
<1> DEFINE C == Cardinality(K)
           L == Len(b)
           T == keptDepths(b, K)
           M == Max(T \cup {0})
           b1 == keptBounds(b, K)
<1>1. N \in Nat /\ \A i \in 1..N : depth(v[i]) \in Nat
  BY DEF EdgeView
<1>2. /\ b \in Seq(Nat) /\ L \in Nat /\ DOMAIN b = 1..L
      /\ N > 0 => L = depth(v[N]) + 1
      /\ \A d \in 1..L : b[d] \in 1..N
      /\ \A d \in 1..L : \A i \in 1..N : b[d] <= i <=> d - 1 <= depth(v[i])
  BY LenProperties DEF IsBounds
<1>3. IsFiniteSet(K) /\ K \in SUBSET Nat
  <2>1. IsFiniteSet(1..N) /\ 1..N \in SUBSET Nat
    BY <1>1, FS_Interval
  <2> QED
    BY <2>1, FS_Subset
<1>4. /\ C \in Nat
      /\ \A n \in 1..C : nth(K, n) \in K /\ rank(K, nth(K, n)) = n
  BY <1>3, RankNumbers
<1>5. b1 = [d \in 1..M |-> keptBound(b, K, d)]
  BY DEF keptBounds
<1>6. T = {d \in 1..L : keptBound(b, K, d) <= C}
  BY <1>2 DEF keptDepths
<1>7. \A n \in 1..C : v1[n] = v[nth(K, n)]
  OBVIOUS
<1> HIDE DEF C, L, T, b1, M
<1>8. ASSUME NEW d \in 1..L
      PROVE  /\ keptBound(b, K, d) \in Nat /\ 1 <= keptBound(b, K, d)
             /\ \A n \in 1..C : keptBound(b, K, d) <= n <=> d - 1 <= depth(v1[n])
  <2> DEFINE r == rank(K, b[d] - 1)
  <2>1. b[d] \in 1..N /\ b[d] \in Nat /\ b[d] - 1 \in Nat /\ b[d] - 1 \in Int
    <3>1. b[d] \in 1..N
      BY <1>2
    <3> QED
      BY <1>1, <3>1
  <2>2. r \in Nat
    <3>1. IsFiniteSet({y \in K : y <= b[d] - 1})
      BY <1>3, FS_Subset
    <3> QED
      BY <3>1, FS_CardinalityType DEF rank
  <2>3. ASSUME NEW n \in 1..C PROVE 1 + r <= n <=> d - 1 <= depth(v1[n])
    <3> DEFINE x == nth(K, n)
    <3>1. x \in K /\ rank(K, x) = n /\ x \in 1..N /\ x \in Nat /\ n \in Nat
      <4>1. x \in K /\ rank(K, x) = n
        BY <1>4
      <4>2. n \in Nat
        BY <1>4
      <4>3. x \in 1..N /\ x \in Nat
        BY <1>3, <4>1
      <4> QED
        BY <4>1, <4>2, <4>3
    <3> HIDE DEF x, r
    <3>2. x <= b[d] - 1 <=> n <= r
      <4>1. x <= b[d] - 1 <=> rank(K, x) <= rank(K, b[d] - 1)
        BY <1>3, <2>1, <3>1, RankBelow
      <4> QED
        BY <3>1, <4>1 DEF r
    <3>3. b[d] <= x <=> 1 + r <= n
      BY <2>1, <2>2, <3>1, <3>2
    <3>4. b[d] <= x <=> d - 1 <= depth(v[x])
      BY <1>2, <3>1
    <3>5. v1[n] = v[x]
      BY <1>7 DEF x
    <3> QED
      BY <3>3, <3>4, <3>5
  <2>4. keptBound(b, K, d) = 1 + r
    BY DEF keptBound
  <2> HIDE DEF r
  <2> QED
    BY <2>2, <2>3, <2>4
<1>9. CASE C = 0
  <2>1. T = {}
    <3> SUFFICES ASSUME NEW d \in T PROVE FALSE
      OBVIOUS
    <3>1. d \in 1..L /\ keptBound(b, K, d) <= 0
      BY <1>6, <1>9
    <3> QED
      BY <1>8, <3>1
  <2>2. M = 0
    <3>1. M = Max({0})
      BY <2>1 DEF M
    <3> QED
      BY <3>1 DEF Max
  <2>3. b1 \in [1..0 -> Nat]
    BY <1>5, <2>2
  <2>4. b1 \in Seq(Nat) /\ Len(b1) = 0
    BY <2>3, FunctionIsSeq
  <2>5. ~(C > 0) /\ \A d : d \notin 1..0
    BY <1>9
  <2> QED
    BY <1>9, <2>4, <2>5 DEF IsBounds, b1, C
<1>10. CASE C > 0
  <2> DEFINE D == depth(v1[C])
  <2>1. C \in 1..C
    BY <1>4, <1>10
  <2>2. nth(K, C) \in 1..N /\ v1[C] = v[nth(K, C)] /\ D \in Nat
    BY <1>1, <1>4, <1>7, <2>1
  <2>3. N > 0 /\ N \in 1..N /\ nth(K, C) <= N
    BY <1>1, <2>2
  <2>4. D + 1 <= L
    <3>1. depth(v[nth(K, C)]) <= depth(v[N]) /\ depth(v[N]) \in Nat
      BY <1>1, <2>2, <2>3 DEF EdgeView
    <3> QED
      BY <1>2, <2>2, <2>3, <3>1
  <2>5. \A d \in 1..L : d \in T <=> d <= D + 1
    <3> SUFFICES ASSUME NEW d \in 1..L PROVE d \in T <=> d <= D + 1
      OBVIOUS
    <3>1. keptBound(b, K, d) <= C <=> d - 1 <= D
      BY <1>8, <2>1
    <3> HIDE DEF D
    <3> QED
      BY <1>2, <1>6, <2>2, <3>1
  <2> HIDE DEF D
  <2>6. M = D + 1
    <3>1. D + 1 \in T \cup {0}
      BY <1>2, <2>2, <2>4, <2>5
    <3>2. \A y \in T \cup {0} : D + 1 >= y
      BY <1>2, <1>6, <2>2, <2>5
    <3>3. M \in T \cup {0} /\ \A y \in T \cup {0} : M >= y
      BY <3>1, <3>2 DEF Max, M
    <3>4. T \cup {0} \in SUBSET Nat
      BY <1>2, <1>6
    <3>5. M >= D + 1 /\ D + 1 >= M /\ M \in Nat
      BY <3>1, <3>2, <3>3, <3>4
    <3> QED
      BY <2>2, <3>5
  <2>7. \A d \in 1..M : d \in 1..L /\ b1[d] = keptBound(b, K, d)
    BY <1>2, <1>5, <2>2, <2>4, <2>6
  <2>8. \A d \in 1..M : /\ b1[d] \in Nat /\ 1 <= b1[d]
                        /\ \A n \in 1..C : b1[d] <= n <=> d - 1 <= depth(v1[n])
    BY <1>8, <2>7
  <2>9. \A d \in 1..M : b1[d] <= C
    <3> SUFFICES ASSUME NEW d \in 1..M PROVE b1[d] <= C
      OBVIOUS
    <3>1. d - 1 <= D
      BY <2>2, <2>6
    <3> QED
      BY <2>1, <2>8, <3>1 DEF D
  <2>10. \A d \in 1..M : b1[d] \in 1..C
    BY <1>4, <2>8, <2>9
  <2>11. b1 \in Seq(Nat) /\ Len(b1) = M
    <3>1. b1 \in [1..M -> Nat]
      BY <1>5, <2>8
    <3>2. M \in Nat
      BY <2>2, <2>6
    <3> QED
      BY <3>1, <3>2, FunctionIsSeq
  <2>12. C # 0
    BY <1>10
  <2> QED
    BY <2>6, <2>8, <2>10, <2>11, <2>12 DEF IsBounds, b1, C, D
<1> QED
  BY <1>4, <1>9, <1>10

\* el1 is a sound lookup that differs from el in its edges only
EdgeStep(el1, el, edges) ==
    /\ Sound(el1) /\ LiveEdges(el1) = edges /\ SameKeys(el1, el)
    /\ el1.nodeKeyMap = el.nodeKeyMap /\ el1.overlay = el.overlay

\* el1 is el with other edges
Reedged(el1, el, data, offset, bounds, removed) ==
    /\ el1 = [el EXCEPT !.edgeData = data, !.edgeOffset = offset, !.dirDepthBounds = bounds,
                        !.removedEdges = removed]
    /\ [data |-> data, offset |-> offset] \in Arrays(EdgeRecords, EdgeOrder)
    /\ IsBounds(bounds, view(data, offset), Len(offset))
    /\ removed = Cardinality(garbage(data))

LEMMA EdgeArrays ==
    ASSUME NEW el, Sound(el), NEW el1, NEW data, NEW offset, NEW bounds, NEW removed,
           Reedged(el1, el, data, offset, bounds, removed)
    PROVE  EdgeStep(el1, el, items(data))
<1>0. /\ data \in Seq(EdgeRecords) /\ offset \in Seq(Nat) /\ bounds \in Seq(Nat)
      /\ [data |-> data, offset |-> offset] \in Arrays(EdgeRecords, EdgeOrder)
      /\ removed = Cardinality(garbage(data))
      /\ el1 = [el EXCEPT !.edgeData = data, !.edgeOffset = offset, !.dirDepthBounds = bounds,
                          !.removedEdges = removed]
  BY DEF Reedged, Arrays, IsBounds
<1>6. removed \in Nat
  BY <1>0, GarbageFinite
<1>1. el \in Lookups
  BY DEF Sound
<1>2. /\ el1 \in Lookups /\ el1.nodeKeyMap = el.nodeKeyMap /\ el1.edgeData = data
      /\ el1.edgeOffset = offset /\ el1.dirDepthBounds = bounds
      /\ el1.removedEdges = removed /\ el1.overlay = el.overlay
  BY <1>0, <1>1, <1>6 DEF Lookups
<1>3. SameKeys(el1, el)
  BY <1>0, <1>1 DEF Lookups, SameKeys
<1>4. KeysSound(el1)
  BY <1>3, SameKeysSound DEF Sound
<1>7. bounds = expectedBounds(el1)
  <2>1. [data |-> el1.edgeData, offset |-> el1.edgeOffset] \in Arrays(EdgeRecords, EdgeOrder)
    BY <1>0, <1>2
  <2>2. IsBounds(bounds, view(el1.edgeData, el1.edgeOffset), Len(el1.edgeOffset))
    BY <1>2 DEF Reedged
  <2> QED
    BY <2>1, <2>2, BoundsExpected
<1>5. EdgesSound(el1)
  BY <1>0, <1>2, <1>7 DEF EdgesSound
<1>8. LiveEdges(el1) = items(data)
  BY <1>2 DEF LiveEdges
<1> QED
  BY <1>2, <1>3, <1>4, <1>5, <1>8 DEF EdgeStep, Sound

\* A mark does not move an edge to another depth.
LEMMA BoundsMark ==
    ASSUME NEW data, NEW offset, [data |-> data, offset |-> offset] \in Arrays(EdgeRecords, EdgeOrder),
           NEW o \in DOMAIN data, NEW r \in BOOLEAN,
           NEW b, IsBounds(b, view(data, offset), Len(offset))
    PROVE  IsBounds(b, view(marked(data, o, r), offset), Len(offset))
<1> DEFINE N == Len(offset)
           v == view(data, offset)
           data1 == marked(data, o, r)
           v1 == view(data1, offset)
<1>1. /\ EdgeView(v, N) /\ DOMAIN offset = 1..N /\ DOMAIN data = 1..N
      /\ \A i \in 1..N : offset[i] \in 1..N
  BY EdgesInOrder
<1>2. N \in Nat /\ \A i \in 1..N : v[i] \in EdgeRecords
  BY <1>1 DEF EdgeView
<1>3. Marks(data1, data, o, r)
  BY EdgeFlagged, ArrayMark
<1>4. ASSUME NEW i \in 1..N PROVE depth(v1[i]) = depth(v[i])
  <2>1. v[i] = data[offset[i]] /\ v1[i] = data1[offset[i]]
    BY <1>1 DEF view
  <2>2. v[i] \in EdgeRecords
    BY <1>2
  <2> HIDE DEF v, v1, data1, N
  <2>3. CASE offset[i] = o
    <3>1. v1[i] = [v[i] EXCEPT !.removed = r]
      BY <1>3, <2>1, <2>3 DEF Marks
    <3> QED
      BY <2>2, <3>1, EdgeMark DEF depth
  <2>4. CASE offset[i] # o
    <3>1. v1[i] = v[i]
      BY <1>1, <1>3, <2>1, <2>4 DEF Marks
    <3> QED
      BY <3>1
  <2> QED
    BY <2>3, <2>4
<1> HIDE DEF N, v, v1
<1>5. /\ b \in Seq(Nat)
      /\ N = 0 => Len(b) = 0
      /\ N > 0 => Len(b) = depth(v[N]) + 1
      /\ \A d \in 1..Len(b) : b[d] \in 1..N
      /\ \A d \in 1..Len(b) : \A i \in 1..N : b[d] <= i <=> d - 1 <= depth(v[i])
  BY DEF IsBounds, N, v
<1>6. N > 0 => depth(v1[N]) = depth(v[N])
  BY <1>2, <1>4
<1>7. IsBounds(b, v1, N)
  BY <1>4, <1>5, <1>6 DEF IsBounds
<1> QED
  BY <1>7 DEF v1, N

\* what the operations know about the array of edges
LEMMA EdgesKnown ==
    ASSUME NEW el, Sound(el)
    PROVE  /\ el \in Lookups /\ EdgesSound(el) /\ el.removedEdges \in Nat
           /\ [data |-> el.edgeData, offset |-> el.edgeOffset] \in Arrays(EdgeRecords, EdgeOrder)
           /\ el.edgeData \in Seq(EdgeRecords)
           /\ el.removedEdges = Cardinality(garbage(el.edgeData))
           /\ IsBounds(el.dirDepthBounds, view(el.edgeData, el.edgeOffset), Len(el.edgeOffset))
           /\ EdgeView(view(el.edgeData, el.edgeOffset), Len(el.edgeOffset))
<1>1. /\ el \in Lookups /\ EdgesSound(el) /\ el.removedEdges \in Nat
      /\ el.edgeData \in Seq(EdgeRecords)
      /\ [data |-> el.edgeData, offset |-> el.edgeOffset] \in Arrays(EdgeRecords, EdgeOrder)
      /\ el.removedEdges = Cardinality(garbage(el.edgeData))
      /\ el.dirDepthBounds = expectedBounds(el)
  BY DEF Sound, EdgesSound, Lookups
<1>2. IsBounds(el.dirDepthBounds, view(el.edgeData, el.edgeOffset), Len(el.edgeOffset))
  BY <1>1, BoundsExpected
<1>3. EdgeView(view(el.edgeData, el.edgeOffset), Len(el.edgeOffset))
  BY <1>1, EdgesInOrder
<1> QED
  BY <1>1, <1>2, <1>3

\* An edge that is added is found, and so are all the others.
LEMMA AddEdge ==
    ASSUME NEW el, Sound(el), NEW e \in EdgeRecords, e.removed = FALSE
    PROVE  EdgeStep(addEdge(el, e), el, LiveEdges(el) \cup {e})
<1> DEFINE N == Len(el.edgeOffset)
           data == el.edgeData
           offset == el.edgeOffset
           v == view(data, offset)
           b == el.dirDepthBounds
           idx == edgeIdx(el, e)
           el1 == addEdge(el, e)
           found == idx \in DOMAIN offset /\ sameEdge(e, data[offset[idx]])
<1>1. /\ el \in Lookups /\ EdgesSound(el) /\ el.removedEdges \in Nat
      /\ [data |-> data, offset |-> offset] \in Arrays(EdgeRecords, EdgeOrder)
      /\ data \in Seq(EdgeRecords)
      /\ el.removedEdges = Cardinality(garbage(data))
      /\ IsBounds(b, v, N) /\ EdgeView(v, N)
  BY EdgesKnown
<1>2. /\ Len(data) = N /\ DOMAIN offset = 1..N /\ DOMAIN data = 1..N
      /\ \A i \in 1..N : offset[i] \in 1..N
  BY <1>1, EdgesInOrder
<1>3. N \in Nat /\ \A i \in 1..N : v[i] \in EdgeRecords
  BY <1>1 DEF EdgeView
<1>4. EdgePlace(v, e, idx, N)
  BY <1>1, EdgeIdx
<1>5. idx \in 1..(N + 1) /\ \A i \in 1..N : i < idx <=> sortedBefore(v[i], e)
  BY <1>4 DEF EdgePlace
<1>6. \A i \in 1..N : v[i] = data[offset[i]]
  BY <1>2 DEF view
<1>7. CASE ~found
  <2> DEFINE data1 == Append(data, e)
             offset1 == InsertAt(offset, idx, Len(data) + 1)
             v1 == view(data1, offset1)
             b1 == insertedBounds(b, depth(e), N)
  <2>1. idx <= N => ~sameEdge(e, v[idx])
    <3>1. idx <= N => idx \in 1..N
      <4> HIDE DEF N, idx
      <4> QED
        BY <1>3, <1>5
    <3> QED
      BY <1>2, <1>6, <1>7, <3>1
  <2>2. \A i \in 1..N : idx <= i => sortedBefore(e, v[i])
    BY <1>1, <1>4, <2>1, EdgeFound
  <2>3. fits(data, offset, e, idx, EdgeOrder)
    <3>1. \A i \in 1..N : /\ i < idx => e \in EdgeOrder[v[i]]
                          /\ idx <= i => v[i] \in EdgeOrder[e]
      BY <1>3, <1>5, <2>2 DEF EdgeOrder
    <3> QED
      BY <1>2, <1>6, <3>1 DEF fits
  <2>4. /\ [data |-> data1, offset |-> offset1] \in Arrays(EdgeRecords, EdgeOrder)
        /\ Inserted(v1, v, idx, e)
    <3>1. idx \in 1..(Len(data) + 1)
      BY <1>2, <1>5
    <3> QED
      BY <1>1, <2>3, <3>1, EdgeFlagged, ArrayInsert
  <2>5. items(data1) = items(data) \cup {e} /\ garbage(data1) = garbage(data)
    BY <1>1, AppendItems
  <2>6. Len(v) = N
    <3>1. v \in [1..N -> EdgeRecords]
      BY <1>2, <1>3, <1>6 DEF view
    <3> QED
      BY <1>3, <3>1, FunctionIsSeq
  <2>7. IsBounds(b1, v1, N + 1)
    BY <1>1, <1>4, <2>4, <2>6, BoundsInsert
  <2>8. Len(offset1) = N + 1
    <3>1. offset \in Seq(Nat) /\ Len(data) + 1 \in Nat /\ idx \in 1..(Len(offset) + 1)
      BY <1>1, <1>2, <1>3, <1>5 DEF Lookups
    <3>2. Inserted(offset1, offset, idx, Len(data) + 1)
      BY <3>1, InsertAtProperties
    <3> QED
      BY <3>2 DEF Inserted
  <2>9. boundsWith(el, getDirDepth(e.targetKey)) = b1
    BY DEF boundsWith, insertedBounds, getDirDepth, depth
  <2> HIDE DEF data1, offset1, b1, v1
  <2>10. el1 = [el EXCEPT !.edgeData = data1, !.edgeOffset = offset1, !.dirDepthBounds = b1]
    BY <1>1, <1>7, <2>9 DEF addEdge, Lookups, data1, offset1
  <2>11. el1 = [el EXCEPT !.edgeData = data1, !.edgeOffset = offset1, !.dirDepthBounds = b1,
                          !.removedEdges = el.removedEdges]
    BY <1>1, <2>10 DEF Lookups
  <2> HIDE DEF el1
  <2>12. Reedged(el1, el, data1, offset1, b1, el.removedEdges)
    BY <1>1, <2>4, <2>5, <2>7, <2>8, <2>11 DEF Reedged, v1
  <2>13. EdgeStep(el1, el, items(data1))
    BY <2>12, EdgeArrays
  <2> QED
    BY <2>5, <2>13 DEF LiveEdges, el1
<1>8. ASSUME found
      PROVE  /\ offset[idx] \in DOMAIN data /\ data[offset[idx]] \in EdgeRecords
             /\ [data[offset[idx]] EXCEPT !.removed = FALSE] = e
             /\ data[offset[idx]].removed = FALSE => data[offset[idx]] = e
  <2>1. offset[idx] \in DOMAIN data /\ data[offset[idx]] \in EdgeRecords
    BY <1>2, <1>3, <1>6, <1>8
  <2>2. \A x \in EdgeRecords : sameEdge(e, x) => /\ [x EXCEPT !.removed = FALSE] = e
                                                 /\ x.removed = FALSE => x = e
    <3> SUFFICES ASSUME NEW x \in EdgeRecords, sameEdge(e, x)
                 PROVE  [x EXCEPT !.removed = FALSE] = e /\ (x.removed = FALSE => x = e)
      OBVIOUS
    <3>1. x.removed = FALSE => x = e
      BY SameEdge
    <3>2. [x EXCEPT !.removed = FALSE] \in EdgeRecords /\ [x EXCEPT !.removed = FALSE].removed = FALSE
      BY EdgeMark
    <3>5. /\ e.targetKey = x.targetKey /\ e.isPrefix = x.isPrefix
          /\ e.sourceNode = x.sourceNode /\ e.label = x.label
      BY SameEdge
    <3>6. /\ [x EXCEPT !.removed = FALSE].targetKey = x.targetKey
          /\ [x EXCEPT !.removed = FALSE].isPrefix = x.isPrefix
          /\ [x EXCEPT !.removed = FALSE].sourceNode = x.sourceNode
          /\ [x EXCEPT !.removed = FALSE].label = x.label
      BY EdgeMark
    <3>3. sameEdge(e, [x EXCEPT !.removed = FALSE])
      BY <3>2, <3>5, <3>6, SameEdge
    <3>7. ASSUME NEW y \in EdgeRecords, sameEdge(e, y), y.removed = FALSE
          PROVE  e = y
      BY <3>7, SameEdge
    <3> DEFINE y == [x EXCEPT !.removed = FALSE]
    <3>8. y \in EdgeRecords /\ y.removed = FALSE /\ sameEdge(e, y)
      BY <3>2, <3>3
    <3> HIDE DEF y
    <3>9. y = e
      BY <3>7, <3>8
    <3>4. [x EXCEPT !.removed = FALSE] = e
      BY <3>9 DEF y
    <3> QED
      BY <3>1, <3>4
  <2> QED
    BY <1>8, <2>1, <2>2
<1>9. CASE found /\ data[offset[idx]].removed
  <2> DEFINE o == offset[idx]
             data1 == marked(data, o, FALSE)
  <2>1. o \in garbage(data) /\ o \in DOMAIN data
    BY <1>8, <1>9 DEF garbage, live
  <2>2. [data |-> data1, offset |-> offset] \in Arrays(EdgeRecords, EdgeOrder)
    BY <1>1, <2>1, EdgeFlagged, ArrayMark
  <2>3. IsBounds(b, view(data1, offset), Len(offset))
    BY <1>1, <2>1, BoundsMark
  <2>4. /\ items(data1) = items(data) \cup {e}
        /\ Cardinality(garbage(data1)) = el.removedEdges - 1
    <3>1. /\ items(data1) = items(data) \cup {[data[o] EXCEPT !.removed = FALSE]}
          /\ Cardinality(garbage(data1)) = Cardinality(garbage(data)) - 1
      BY <1>1, <2>1, EdgeFlagged, RestoreItems
    <3> QED
      BY <1>1, <1>8, <1>9, <3>1
  <2> HIDE DEF data1, o
  <2>5. el1 = [el EXCEPT !.edgeData = data1, !.removedEdges = el.removedEdges - 1]
    BY <1>1, <1>9 DEF addEdge, Lookups, data1, o
  <2>6. el1 = [el EXCEPT !.edgeData = data1, !.edgeOffset = offset, !.dirDepthBounds = b,
                         !.removedEdges = el.removedEdges - 1]
    BY <1>1, <2>5 DEF Lookups
  <2> HIDE DEF el1
  <2>7. Reedged(el1, el, data1, offset, b, el.removedEdges - 1)
    BY <2>2, <2>3, <2>4, <2>6 DEF Reedged
  <2>8. EdgeStep(el1, el, items(data1))
    BY <2>7, EdgeArrays
  <2> QED
    BY <2>4, <2>8 DEF LiveEdges, el1
<1>10. CASE found /\ ~data[offset[idx]].removed
  <2>1. e \in items(data)
    <3>1. data[offset[idx]].removed \in BOOLEAN
      BY <1>8, <1>10, EdgeFields
    <3>2. offset[idx] \in live(data) /\ data[offset[idx]].removed = FALSE
      BY <1>8, <1>10, <3>1 DEF live
    <3> QED
      BY <1>8, <1>10, <3>2 DEF items
  <2>2. el1 = el
    BY <1>10 DEF addEdge
  <2> QED
    BY <2>1, <2>2 DEF EdgeStep, SameKeys, LiveEdges
<1> QED
  BY <1>7, <1>9, <1>10

\* An edge that is deleted is not found any more; all the others are.
LEMMA DelEdge ==
    ASSUME NEW el, Sound(el), NEW e \in EdgeRecords, e.removed = FALSE
    PROVE  EdgeStep(delEdge(el, e), el, LiveEdges(el) \ {e})
<1> DEFINE N == Len(el.edgeOffset)
           data == el.edgeData
           offset == el.edgeOffset
           v == view(data, offset)
           b == el.dirDepthBounds
           idx == edgeIdx(el, e)
           el1 == delEdge(el, e)
           found == idx \in DOMAIN offset /\ e = data[offset[idx]]
<1>1. /\ el \in Lookups /\ EdgesSound(el) /\ el.removedEdges \in Nat
      /\ [data |-> data, offset |-> offset] \in Arrays(EdgeRecords, EdgeOrder)
      /\ data \in Seq(EdgeRecords)
      /\ el.removedEdges = Cardinality(garbage(data))
      /\ IsBounds(b, v, N) /\ EdgeView(v, N)
  BY EdgesKnown
<1>2. /\ Len(data) = N /\ DOMAIN offset = 1..N /\ DOMAIN data = 1..N
      /\ \A i \in 1..N : offset[i] \in 1..N
  BY <1>1, EdgesInOrder
<1>9. \A o \in 1..N : \E i \in 1..N : offset[i] = o
  <2>1. Indexed(data, offset, EdgeRecords, EdgeOrder, Len(data))
    BY <1>1, EdgeFlagged, ArrayOffsets
  <2> QED
    BY <1>2, <2>1 DEF Indexed
<1>3. N \in Nat
  BY <1>1 DEF EdgeView
<1>4. EdgePlace(v, e, idx, N)
  BY <1>1, EdgeIdx
<1>5. \A i \in 1..N : v[i] = data[offset[i]]
  BY <1>2 DEF view
<1>6. \A i \in 1..N : sameEdge(e, v[i]) => i = idx
  BY <1>1, <1>4, EdgeFound
<1>7. CASE ~found
  <2>1. e \notin items(data)
    <3> SUFFICES ASSUME NEW o \in live(data), data[o] = e PROVE FALSE
      BY DEF items
    <3>1. PICK i \in 1..N : offset[i] = o
      BY <1>2, <1>9 DEF live
    <3>2. sameEdge(e, v[i])
      BY <1>5, <3>1 DEF sameEdge
    <3>3. i = idx
      BY <1>6, <3>2
    <3> QED
      BY <1>2, <1>7, <3>1, <3>3
  <2>2. el1 = el
    BY <1>7 DEF delEdge
  <2> QED
    BY <2>1, <2>2 DEF EdgeStep, SameKeys, LiveEdges
<1>8. CASE found
  <2> DEFINE o == offset[idx]
             data1 == marked(data, o, TRUE)
             n == el.removedEdges + 1
             el2 == [el EXCEPT !.edgeData = data1, !.removedEdges = n]
  <2>1. o \in live(data) /\ o \in DOMAIN data /\ data[o] = e
    BY <1>2, <1>8 DEF live
  <2>2. [data |-> data1, offset |-> offset] \in Arrays(EdgeRecords, EdgeOrder)
    BY <1>1, <2>1, EdgeFlagged, ArrayMark
  <2>3. IsBounds(b, view(data1, offset), Len(offset))
    BY <1>1, <2>1, BoundsMark
  <2>4. /\ items(data1) = items(data) \ {e}
        /\ Cardinality(garbage(data1)) = n
    <3>1. /\ items(data1) = items(data) \ {data[o]}
          /\ Cardinality(garbage(data1)) = Cardinality(garbage(data)) + 1
      BY <1>1, <2>1, EdgeFlagged, RemoveItems
    <3> QED
      BY <1>1, <2>1, <3>1
  <2> HIDE DEF data1, o, n
  <2>5. el1 = IF el2.removedEdges > Len(el2.edgeData) \div 2 THEN gcEdges(el2) ELSE el2
    BY <1>1, <1>8 DEF delEdge, Lookups, data1, o, n
  <2>6. el2 = [el EXCEPT !.edgeData = data1, !.edgeOffset = offset, !.dirDepthBounds = b,
                         !.removedEdges = n]
    BY <1>1 DEF Lookups
  <2> HIDE DEF el2, el1
  <2>7. CASE ~(el2.removedEdges > Len(el2.edgeData) \div 2)
    <3>1. el1 = el2
      BY <2>5, <2>7
    <3>2. Reedged(el1, el, data1, offset, b, n)
      BY <2>2, <2>3, <2>4, <2>6, <3>1 DEF Reedged
    <3>3. EdgeStep(el1, el, items(data1))
      BY <3>2, EdgeArrays
    <3> QED
      BY <2>4, <3>3 DEF LiveEdges, el1
  <2>8. CASE el2.removedEdges > Len(el2.edgeData) \div 2
    <3> DEFINE data2 == compacted(data1)
               offset2 == compactedOffsets(data1, offset)
               K == kept(data1, offset)
               C == Cardinality(K)
               b2 == keptBounds(b, K)
               v2 == view(data2, offset2)
    <3>1. /\ [data |-> data2, offset |-> offset2] \in Arrays(EdgeRecords, EdgeOrder)
          /\ C = Cardinality(live(data1)) /\ Len(offset2) = C
          /\ \A m \in 1..C : v2[m] = view(data1, offset)[nth(K, m)]
          /\ items(data2) = items(data1) /\ garbage(data2) = {}
      BY <2>2, EdgeFlagged, ArrayCompact
    <3>2. K \in SUBSET (1..N)
      BY <1>2 DEF kept
    <3>3. EdgeView(view(data1, offset), N)
      BY <2>2, EdgesInOrder
    <3>4. IsBounds(b2, v2, C)
      BY <2>3, <3>1, <3>2, <3>3, BoundsCompact
    <3>5. /\ el2.edgeData = data1 /\ el2.edgeOffset = offset /\ el2.dirDepthBounds = b
      BY <1>1, <2>6 DEF Lookups
    <3>6. compactedBounds(el2) = b2
      BY <3>1, <3>5 DEF compactedBounds, keptBounds, keptDepths, keptBound
    <3> HIDE DEF b2, data2, offset2
    <3>7. el1 = [el2 EXCEPT !.edgeOffset = offset2, !.edgeData = data2, !.dirDepthBounds = b2,
                            !.removedEdges = 0]
      BY <2>5, <2>8, <3>5, <3>6 DEF gcEdges, data2, offset2
    <3>8. el1 = [el EXCEPT !.edgeData = data2, !.edgeOffset = offset2, !.dirDepthBounds = b2,
                           !.removedEdges = 0]
      BY <1>1, <2>6, <3>7 DEF Lookups
    <3>9. Reedged(el1, el, data2, offset2, b2, 0)
      BY <3>1, <3>4, <3>8, FS_EmptySet DEF Reedged
    <3>10. EdgeStep(el1, el, items(data2))
      BY <3>9, EdgeArrays
    <3> QED
      BY <2>4, <3>1, <3>10 DEF LiveEdges, el1
  <2> QED
    BY <2>7, <2>8
<1> QED
  BY <1>7, <1>8

-----------------------------------------------------------------------------
(* Sources of a key *)

\* the edge is for the key, or for a directory above it
reaches(e, key) == e.targetKey = key \/ (e.isPrefix /\ IsStrictPrefix(e.targetKey, key))

\* the positions that iterSources visits for one path
visited(el, path) ==
    LET idx == edgeIdx(el, Edge(path, FALSE, <<>>, 0))
        end == firstOf({i \in idx..(depthEnd(el, Len(path)) - 1) : edgeAt(el, i).targetKey # path},
                       depthEnd(el, Len(path)))
    IN  idx..(end - 1)

\* They are the edges of that path.
LEMMA PathEdges ==
    ASSUME NEW el, Sound(el), NEW path \in Paths
    PROVE  visited(el, path) = {i \in 1..Len(el.edgeOffset) : edgeAt(el, i).targetKey = path}
<1> DEFINE N == Len(el.edgeOffset)
           v == view(el.edgeData, el.edgeOffset)
           d == Len(path)
           c == depthEnd(el, d)
           e == Edge(path, FALSE, <<>>, 0)
           idx == edgeIdx(el, e)
           ends == {i \in idx..(c - 1) : v[i].targetKey # path}
           end == firstOf(ends, c)
<1>0. /\ d \in Nat /\ d + 1 \in Nat /\ <<>> \in Paths
      /\ e \in EdgeRecords /\ e.targetKey = path /\ e.isPrefix = FALSE /\ e.sourceNode = <<>> /\ e.label = 0
  BY DEF Paths, Edge, EdgeRecords
<1>1. EdgesSound(el) /\ EdgeView(v, N)
  BY EdgesKnown
<1>2. /\ N \in Nat
      /\ \A i \in 1..N : v[i] \in EdgeRecords /\ depth(v[i]) \in Nat
      /\ \A i, j \in 1..N : i < j => sortedBefore(v[i], v[j])
  BY <1>1 DEF EdgeView
<1>3. EdgePlace(v, e, idx, N)
  BY <1>0, <1>1, EdgeIdx
<1>4. c \in 1..(N + 1) /\ \A i \in 1..N : i < c <=> depth(v[i]) < d + 1
  BY <1>0, <1>1, DepthBegin DEF depthEnd
<1> HIDE DEF N, v, d, c, e, idx, end
<1>5. idx \in 1..(N + 1) /\ \A i \in 1..N : i < idx <=> sortedBefore(v[i], e)
  BY <1>3 DEF EdgePlace
<1>6. idx \in Nat /\ 1 <= idx /\ c \in Nat /\ c <= N + 1
  BY <1>2, <1>4, <1>5
<1>7. ends \in SUBSET Nat
  BY <1>6
<1>8. end \in ends \cup {c} /\ end \in Nat /\ end <= c /\ \A s \in ends : end <= s
  BY <1>6, <1>7, FirstOf DEF end
<1>9. ASSUME NEW i \in 1..N, v[i].targetKey = path PROVE i \in idx..(end - 1)
  <2>0. i \in Nat /\ v[i] \in EdgeRecords /\ depth(v[i]) = d
    BY <1>2, <1>9 DEF depth, d
  <2>1. ~sortedBefore(v[i], e)
    <3>1. /\ ~Before(v[i].targetKey, e.targetKey)
          /\ ~Before(v[i].sourceNode, e.sourceNode)
      BY <1>0, <1>9, BeforeIrreflexive DEF Before
    <3>2. ~(Len(v[i].targetKey) < Len(e.targetKey)) /\ ~(v[i].label < e.label) /\ ~e.isPrefix
      BY <1>0, <1>9, <2>0, EdgeFields DEF d
    <3> QED
      BY <1>0, <2>0, <3>1, <3>2, SortedFields
  <2>2. idx <= i
    BY <1>5, <1>6, <2>0, <2>1
  <2>3. i < c
    BY <1>0, <1>4, <2>0
  <2>4. ASSUME end <= i PROVE FALSE
    <3>1. end \in ends
      BY <1>6, <1>8, <2>0, <2>3, <2>4
    <3>2. end \in 1..N /\ idx <= end /\ v[end].targetKey # path
      BY <1>2, <1>6, <1>8, <2>0, <2>4, <3>1
    <3>3. end < i
      <4>1. end # i
        BY <1>9, <3>2
      <4> QED
        BY <1>8, <2>0, <2>4, <4>1
    <3>4. sortedBefore(v[end], v[i]) /\ ~sortedBefore(v[end], e) /\ v[end] \in EdgeRecords
      BY <1>2, <1>5, <1>6, <1>8, <3>2, <3>3
    <3>5. /\ e.targetKey = v[i].targetKey
          /\ Len(v[end].targetKey) \in Nat /\ Len(v[i].targetKey) \in Nat
      BY <1>0, <1>9, <2>0, <3>4, EdgeFields
    <3>6. \/ Len(v[end].targetKey) < Len(e.targetKey)
          \/ Len(v[end].targetKey) = Len(e.targetKey) /\ Before(v[end].targetKey, e.targetKey)
          \/ v[end].targetKey = e.targetKey
      BY <2>0, <3>4, <3>5, SortedFields
    <3>7. sortedBefore(v[end], e)
      BY <1>0, <3>2, <3>4, <3>6, SortedFields
    <3> QED
      BY <3>4, <3>7
  <2> QED
    BY <1>6, <1>8, <2>0, <2>2, <2>4
<1>10. ASSUME NEW i \in idx..(end - 1) PROVE i \in 1..N /\ v[i].targetKey = path
  <2>1. i \in 1..N /\ i \in idx..(c - 1) /\ i < end /\ i \in Nat
    BY <1>2, <1>6, <1>8
  <2>2. i \notin ends
    BY <1>8, <2>1
  <2> QED
    BY <2>1, <2>2
<1>11. idx..(end - 1) = {i \in 1..N : v[i].targetKey = path}
  BY <1>9, <1>10
<1>12. \A i \in 1..N : v[i] = edgeAt(el, i)
  <2>1. DOMAIN el.edgeOffset = 1..N
    BY <1>1, EdgesInOrder DEF N, EdgesSound
  <2> QED
    BY <2>1 DEF v, view, edgeAt
<1>13. idx..(c - 1) \in SUBSET (1..N)
  BY <1>2, <1>6
<1>14. ends = {i \in idx..(c - 1) : edgeAt(el, i).targetKey # path}
  BY <1>12, <1>13
<1> HIDE DEF ends
<1>15. visited(el, path) = idx..(end - 1)
  BY <1>14 DEF visited, idx, end, c, d, e
<1> QED
  BY <1>11, <1>12, <1>15 DEF N

LEMMA LiveEdgeAt ==
    ASSUME NEW el, Sound(el)
    PROVE  /\ LiveEdges(el) = {edgeAt(el, i) : i \in {i \in 1..Len(el.edgeOffset) : ~edgeAt(el, i).removed}}
           /\ \A i \in 1..Len(el.edgeOffset) : edgeAt(el, i) \in EdgeRecords
<1> DEFINE N == Len(el.edgeOffset)
<1>1. [data |-> el.edgeData, offset |-> el.edgeOffset] \in Arrays(EdgeRecords, EdgeOrder)
  BY EdgesKnown
<1>2. Indexed(el.edgeData, el.edgeOffset, EdgeRecords, EdgeOrder, Len(el.edgeData))
  BY <1>1, EdgeFlagged, ArrayOffsets
<1>3. /\ DOMAIN el.edgeData = 1..N
      /\ \A i \in 1..N : el.edgeOffset[i] \in 1..N /\ el.edgeData[i] \in EdgeRecords
      /\ \A o \in 1..N : \E i \in 1..N : el.edgeOffset[i] = o
  BY <1>2 DEF Indexed
<1> HIDE DEF N
<1>4. ASSUME NEW i \in 1..N, ~edgeAt(el, i).removed PROVE edgeAt(el, i) \in LiveEdges(el)
  BY <1>3, <1>4 DEF LiveEdges, items, live, edgeAt
<1>5. ASSUME NEW e \in LiveEdges(el) PROVE \E i \in 1..N : ~edgeAt(el, i).removed /\ edgeAt(el, i) = e
  <2>1. PICK o \in 1..N : ~el.edgeData[o].removed /\ el.edgeData[o] = e
    BY <1>3 DEF LiveEdges, items, live
  <2>2. PICK i \in 1..N : el.edgeOffset[i] = o
    BY <1>3
  <2> QED
    BY <2>1, <2>2 DEF edgeAt
<1>6. \A i \in 1..N : edgeAt(el, i) \in EdgeRecords
  BY <1>3 DEF edgeAt
<1> QED
  BY <1>4, <1>5, <1>6 DEF N

\* the directories above a key are its strict prefixes
LEMMA Directories ==
    ASSUME NEW path \in Paths, NEW key \in Paths
    PROVE  /\ \A n \in 0..Len(key) : SubSeq(key, 1, n) \in Paths
           /\ (\E n \in 0..Len(key) : path = SubSeq(key, 1, n)) <=> path = key \/ IsStrictPrefix(path, key)
<1>0. Len(key) \in Nat /\ Len(path) \in Nat /\ \A j \in 1..Len(key) : key[j] \in Nat
  BY DEF Paths
<1>1. ASSUME NEW n \in 0..Len(key)
      PROVE  /\ SubSeq(key, 1, n) \in Paths /\ Len(SubSeq(key, 1, n)) = n
             /\ \A j \in 1..n : SubSeq(key, 1, n)[j] = key[j]
  <2> DEFINE t == SubSeq(key, 1, n)
  <2>1. \A j \in 1..n : key[j] \in Nat
    BY <1>0
  <2>2. /\ t \in Seq(Nat)
        /\ Len(t) = IF 1 <= n THEN n - 1 + 1 ELSE 0
        /\ \A j \in 1..(n - 1 + 1) : t[j] = key[1 + j - 1]
    BY <1>0, <2>1, SubSeqProperties
  <2> HIDE DEF t
  <2>3. Len(t) = n /\ n - 1 + 1 = n /\ \A j \in 1..n : 1 + j - 1 = j
    BY <1>0, <2>2
  <2> QED
    BY <2>2, <2>3 DEF Paths, t
<1>2. SubSeq(key, 1, Len(key)) = key
  BY SubSeqFull DEF Paths
<1>3. ASSUME NEW n \in 0..Len(key), path = SubSeq(key, 1, n)
      PROVE  path = key \/ IsStrictPrefix(path, key)
  <2>1. CASE n = Len(key)
    BY <1>2, <1>3, <2>1
  <2>2. CASE n # Len(key)
    <3>1. Len(path) < Len(key) /\ \A j \in 1..Len(path) : path[j] = key[j]
      BY <1>0, <1>1, <1>3, <2>2
    <3> QED
      BY <3>1, StrictPrefix
  <2> QED
    BY <2>1, <2>2
<1>4. ASSUME path = key PROVE \E n \in 0..Len(key) : path = SubSeq(key, 1, n)
  <2>1. Len(key) \in 0..Len(key)
    BY <1>0
  <2> QED
    BY <1>2, <1>4, <2>1
<1>5. ASSUME IsStrictPrefix(path, key) PROVE \E n \in 0..Len(key) : path = SubSeq(key, 1, n)
  <2>1. Len(path) < Len(key) /\ \A j \in 1..Len(path) : path[j] = key[j]
    BY <1>5, StrictPrefix
  <2>2. Len(path) \in 0..Len(key)
    BY <1>0, <2>1
  <2>3. path = SubSeq(key, 1, Len(path))
    <3>1. /\ SubSeq(key, 1, Len(path)) \in Paths /\ Len(SubSeq(key, 1, Len(path))) = Len(path)
          /\ \A j \in 1..Len(path) : SubSeq(key, 1, Len(path))[j] = path[j]
      BY <1>1, <2>1, <2>2
    <3> QED
      BY <3>1, SeqEqual DEF Paths
  <2> QED
    BY <2>2, <2>3
<1> QED
  BY <1>1, <1>3, <1>4, <1>5

\* iterSources finds the edges that reach the key.
LEMMA IterSources ==
    ASSUME NEW el, Sound(el), NEW key \in Paths
    PROVE  iterSources(el, key) =
             {[sourceNode |-> e.sourceNode, label |-> e.label] : e \in {e \in LiveEdges(el) : reaches(e, key)}}
<1> DEFINE N == Len(el.edgeOffset)
           found(path) == {i \in visited(el, path) :
                              ~edgeAt(el, i).removed /\ (path = key \/ edgeAt(el, i).isPrefix)}
           U == UNION {found(SubSeq(key, 1, n)) : n \in 0..Len(key)}
<1>1. iterSources(el, key) = {[sourceNode |-> edgeAt(el, i).sourceNode, label |-> edgeAt(el, i).label] : i \in U}
  BY DEF iterSources, visited, edgeAt
<1>2. /\ LiveEdges(el) = {edgeAt(el, i) : i \in {i \in 1..N : ~edgeAt(el, i).removed}}
      /\ \A i \in 1..N : edgeAt(el, i) \in EdgeRecords
  BY LiveEdgeAt
<1>3. \A n \in 0..Len(key) : SubSeq(key, 1, n) \in Paths
  BY Directories
<1>4. \A path \in Paths : visited(el, path) = {i \in 1..N : edgeAt(el, i).targetKey = path}
  BY PathEdges
<1> HIDE DEF N
<1>5. ASSUME NEW i \in U PROVE i \in 1..N /\ ~edgeAt(el, i).removed /\ reaches(edgeAt(el, i), key)
  <2>1. PICK n \in 0..Len(key) : i \in found(SubSeq(key, 1, n))
    OBVIOUS
  <2> DEFINE path == SubSeq(key, 1, n)
  <2>2. path \in Paths
    BY <1>3
  <2> HIDE DEF path
  <2>3. /\ i \in 1..N /\ edgeAt(el, i).targetKey = path /\ ~edgeAt(el, i).removed
        /\ (path = key \/ edgeAt(el, i).isPrefix)
    BY <1>4, <2>1, <2>2 DEF path
  <2>4. path = key \/ IsStrictPrefix(path, key)
    BY <2>2, Directories DEF path
  <2> QED
    BY <2>3, <2>4 DEF reaches
<1>6. ASSUME NEW i \in 1..N, ~edgeAt(el, i).removed, reaches(edgeAt(el, i), key) PROVE i \in U
  <2> DEFINE path == edgeAt(el, i).targetKey
  <2>1. path \in Paths
    BY <1>2, EdgeFields
  <2>2. path = key \/ (edgeAt(el, i).isPrefix /\ IsStrictPrefix(path, key))
    BY <1>6 DEF reaches
  <2>3. PICK n \in 0..Len(key) : path = SubSeq(key, 1, n)
    BY <2>1, <2>2, Directories
  <2>4. i \in visited(el, path)
    BY <1>4, <2>1
  <2>5. i \in found(path)
    BY <1>6, <2>2, <2>4
  <2> HIDE DEF found, path
  <2> QED
    BY <2>3, <2>5
<1> HIDE DEF U
<1> QED
  BY <1>1, <1>2, <1>5, <1>6

-----------------------------------------------------------------------------
(* The lookup as a whole *)

LEMMA NewLookup ==
    /\ Sound(newEdgeLookup) /\ LiveKeys(newEdgeLookup) = {} /\ LiveEdges(newEdgeLookup) = {}
    /\ newEdgeLookup.nodeKeyMap = NoKeys /\ newEdgeLookup.overlay = FALSE
<1> DEFINE el == newEdgeLookup
<1>1. /\ el.nodeKeyData = <<>> /\ el.nodeKeyOffset = <<>> /\ el.edgeData = <<>> /\ el.edgeOffset = <<>>
      /\ el.nodeKeyMap = NoKeys /\ el.removedNodes = 0 /\ el.removedEdges = 0
      /\ el.dirDepthBounds = <<>> /\ el.overlay = FALSE
  BY DEF newEdgeLookup
<1>2. NoKeys \in KeyMaps
  <2>1. NoKeys \in [{} -> BOOLEAN] /\ {} \in SUBSET Paths
    BY DEF NoKeys
  <2> QED
    BY <2>1 DEF KeyMaps
<1>3. \A S : <<>> \in Seq(S)
  OBVIOUS
<1>4. el \in Lookups
  <2>1. /\ <<>> \in Seq(NodeKeys) /\ <<>> \in Seq(EdgeRecords) /\ <<>> \in Seq(Nat)
    BY <1>3
  <2> QED
    BY <1>2, <2>1 DEF newEdgeLookup, Lookups
<1>5. live(<<>>) = {} /\ garbage(<<>>) = {} /\ items(<<>>) = {}
  BY DEF live, garbage, items
<1>6. \A D, R : [data |-> <<>>, offset |-> <<>>] \in Arrays(D, R)
  <2>1. isOrder(<<>>, <<>>) /\ DOMAIN <<>> = {}
    BY DEF isOrder
  <2> QED
    BY <1>3, <2>1 DEF Arrays
<1>7. Cardinality({}) = 0
  BY FS_EmptySet
<1>8. KeysSound(el)
  BY <1>1, <1>5, <1>6, <1>7 DEF KeysSound
<1>9. expectedBounds(el) = <<>>
  BY <1>1 DEF expectedBounds
<1>10. EdgesSound(el)
  BY <1>1, <1>5, <1>6, <1>7, <1>9 DEF EdgesSound
<1> QED
  BY <1>1, <1>4, <1>5, <1>8, <1>10 DEF Sound, LiveKeys, LiveEdges

Overlaid(el1, el, map, overlay) == el1 = [el EXCEPT !.nodeKeyMap = map, !.overlay = overlay]

\* Making and saving an overlay changes only what is remembered of the keys.
LEMMA OverlaySound ==
    ASSUME NEW el, Sound(el), NEW map \in KeyMaps, NEW overlay \in BOOLEAN,
           NEW el1, Overlaid(el1, el, map, overlay)
    PROVE  /\ Sound(el1) /\ LiveKeys(el1) = LiveKeys(el) /\ LiveEdges(el1) = LiveEdges(el)
           /\ el1.nodeKeyMap = map /\ el1.overlay = overlay
<1>1. el \in Lookups
  BY DEF Sound
<1>2. el1 \in Lookups /\ el1.nodeKeyMap = map /\ el1.overlay = overlay
  BY <1>1 DEF Lookups, Overlaid
<1>3. SameKeys(el1, el) /\ SameEdges(el1, el)
  BY <1>1 DEF Lookups, Overlaid, SameKeys, SameEdges
<1>4. /\ KeysSound(el1) /\ LiveKeys(el1) = LiveKeys(el)
  BY <1>3, SameKeysSound DEF Sound
<1>5. /\ EdgesSound(el1) /\ LiveEdges(el1) = LiveEdges(el)
  BY <1>3, SameEdgesSound DEF Sound
<1> QED
  BY <1>2, <1>4, <1>5 DEF Sound

\* What verifyDirDepthBounds checks, and more.
LEMMA SoundIsWellFormed ==
    ASSUME NEW el, Sound(el)
    PROVE  wellFormed(el)
<1>1. /\ KeysSound(el) /\ EdgesSound(el)
      /\ [data |-> el.nodeKeyData, offset |-> el.nodeKeyOffset] \in Arrays(NodeKeys, KeyOrder)
      /\ [data |-> el.edgeData, offset |-> el.edgeOffset] \in Arrays(EdgeRecords, EdgeOrder)
  BY DEF Sound, KeysSound, EdgesSound
<1>2. isOrder(el.nodeKeyOffset, el.nodeKeyData) /\ isOrder(el.edgeOffset, el.edgeData)
  BY <1>1 DEF Arrays
<1>3. \A i, j \in DOMAIN el.nodeKeyOffset : i < j =>
          Before(el.nodeKeyData[el.nodeKeyOffset[i]].key, el.nodeKeyData[el.nodeKeyOffset[j]].key)
  BY <1>1, KeysInOrder DEF KeyView, keyAt
<1>4. \A i, j \in DOMAIN el.edgeOffset : i < j =>
          sortedBefore(el.edgeData[el.edgeOffset[i]], el.edgeData[el.edgeOffset[j]])
  <2>1. EdgeView(view(el.edgeData, el.edgeOffset), Len(el.edgeOffset))
        /\ DOMAIN el.edgeOffset = 1..Len(el.edgeOffset)
    BY <1>1, EdgesInOrder
  <2>2. \A i \in DOMAIN el.edgeOffset :
            view(el.edgeData, el.edgeOffset)[i] = el.edgeData[el.edgeOffset[i]]
    BY DEF view
  <2>3. \A i, j \in DOMAIN el.edgeOffset : i < j =>
            sortedBefore(view(el.edgeData, el.edgeOffset)[i], view(el.edgeData, el.edgeOffset)[j])
    BY <2>1 DEF EdgeView
  <2> QED
    BY <2>2, <2>3
<1>5. /\ el.dirDepthBounds = expectedBounds(el)
      /\ el.removedNodes = Cardinality(DOMAIN el.nodeKeyData \ live(el.nodeKeyData))
      /\ el.removedEdges = Cardinality(DOMAIN el.edgeData \ live(el.edgeData))
  BY <1>1 DEF KeysSound, EdgesSound, garbage
<1> QED
  BY <1>2, <1>3, <1>4, <1>5 DEF wellFormed
=============================================================================
