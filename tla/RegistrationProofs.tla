------------------------- MODULE RegistrationProofs -------------------------
(***************************************************************************)
(* Proofs about the registration of descriptors while the scheduler runs,  *)
(* for any descriptors, keys and number of transactions.                   *)
(***************************************************************************)
EXTENDS Registration, OrderLemmas, SequenceTheorems

-----------------------------------------------------------------------------
(* The order of Retrieve *)

\* The candidate that goes next exists, is one of those that remain, and its
\* Retrieve depends on none of them.
LEMMA SelectedProperties ==
    ASSUME NEW r \in SUBSET Descriptors, r # {}
    PROVE  selected(r) \in r /\ RetrieveDependencies[selected(r)] \cap r = {}
<1> DEFINE C == candidates(r)
<1>1. C # {} /\ C \in SUBSET Nat /\ C \subseteq r
  BY RegistrationAssumption DEF candidates
<1> HIDE DEF C
<1>2. \E d \in C : \A e \in C : d <= e
  BY <1>1, Least
<1>3. selected(r) \in C
  BY <1>2 DEF selected, C
<1> QED
  BY <1>1, <1>3 DEF C, candidates

\* f is what the algorithm computes from each part of N that may remain
Kahn(f, N) ==
    f = [remains \in SUBSET N |->
            IF remains = {} THEN <<>>
            ELSE <<selected(remains)>> \o f[remains \ {selected(remains)}]]

\* The algorithm has one result.
LEMMA KahnUnique ==
    ASSUME NEW A \in SUBSET Descriptors, NEW B \in SUBSET Descriptors, NEW f, NEW g,
           Kahn(f, A), Kahn(g, B), NEW r \in SUBSET (A \cap B)
    PROVE  f[r] = g[r]
<1> DEFINE T == {x \in SUBSET (A \cap B) : f[x] # g[x]}
<1> SUFFICES ASSUME T # {} PROVE FALSE
  OBVIOUS
<1>1. T \in SUBSET SUBSET Descriptors /\ IsFiniteSet(Descriptors)
  BY RegistrationAssumption
<1>2. PICK x \in T : \A y \in T : y \subseteq x => y = x
  <2> HIDE DEF T
  <2> QED
    BY <1>1, MinimalSubset
<1>3. x \in SUBSET A /\ x \in SUBSET B /\ x \in SUBSET Descriptors /\ f[x] # g[x]
  BY <1>2
<1>4. CASE x = {}
  BY <1>3, <1>4 DEF Kahn
<1>5. CASE x # {}
  <2> DEFINE p == x \ {selected(x)}
  <2>1. selected(x) \in x
    BY <1>3, <1>5, SelectedProperties
  <2>2. f[p] = g[p]
    BY <1>2, <1>3, <2>1
  <2>3. f[x] = <<selected(x)>> \o f[p] /\ g[x] = <<selected(x)>> \o g[p]
    BY <1>3, <1>5 DEF Kahn
  <2> QED
    BY <1>3, <2>2, <2>3
<1> QED
  BY <1>4, <1>5

\* The algorithm has a result for every set of descriptors: for a least set
\* without one, it could be put together from the results for its subsets.
LEMMA KahnExists ==
    ASSUME NEW N \in SUBSET Descriptors
    PROVE  \E f : Kahn(f, N)
<1> DEFINE T == {X \in SUBSET Descriptors : ~\E f : Kahn(f, X)}
<1> SUFFICES ASSUME T # {} PROVE FALSE
  OBVIOUS
<1>1. T \in SUBSET SUBSET Descriptors /\ IsFiniteSet(Descriptors)
  BY RegistrationAssumption
<1>2. PICK X \in T : \A Y \in T : Y \subseteq X => Y = X
  <2> HIDE DEF T
  <2> QED
    BY <1>1, MinimalSubset
<1>3. X \in SUBSET Descriptors /\ \A Y \in SUBSET X : Y # X => \E f : Kahn(f, Y)
  BY <1>2
<1> DEFINE F(Y) == CHOOSE f : Kahn(f, Y)
           rest(r) == r \ {selected(r)}
           h == [r \in SUBSET X |->
                    IF r = {} THEN <<>> ELSE <<selected(r)>> \o F(rest(r))[rest(r)]]
<1>4. \A Y \in SUBSET X : Y # X => Kahn(F(Y), Y)
  BY <1>3
<1>5. \A r \in SUBSET X : r # {} => rest(r) \in SUBSET X /\ rest(r) # X /\ rest(r) \subseteq r
  <2> TAKE r \in SUBSET X
  <2> HAVE r # {}
  <2>1. selected(r) \in r
    BY <1>3, SelectedProperties
  <2> QED
    BY <2>1
<1> HIDE DEF F, rest
<1>6. ASSUME NEW p \in SUBSET X, p # X PROVE h[p] = F(p)[p]
  <2>1. Kahn(F(p), p)
    BY <1>4, <1>6
  <2>2. CASE p = {}
    BY <2>1, <2>2 DEF Kahn
  <2>3. CASE p # {}
    <3>1. rest(p) \in SUBSET X /\ rest(p) # X /\ rest(p) \subseteq p
      BY <1>5, <2>3
    <3>2. Kahn(F(rest(p)), rest(p))
      BY <1>4, <3>1
    <3>3. F(p)[rest(p)] = F(rest(p))[rest(p)]
      <4>1. rest(p) \in SUBSET (p \cap rest(p))
        BY <3>1
      <4> QED
        BY <1>3, <2>1, <3>1, <3>2, <4>1, KahnUnique
    <3>4. F(p)[p] = <<selected(p)>> \o F(p)[rest(p)]
      BY <2>1, <2>3 DEF Kahn, rest
    <3> QED
      BY <2>3, <3>3, <3>4
  <2> QED
    BY <2>2, <2>3
<1>7. \A r \in SUBSET X : h[r] = IF r = {} THEN <<>> ELSE <<selected(r)>> \o h[rest(r)]
  <2> TAKE r \in SUBSET X
  <2>1. CASE r = {}
    BY <2>1
  <2>2. CASE r # {}
    <3>1. h[rest(r)] = F(rest(r))[rest(r)]
      BY <1>5, <1>6, <2>2
    <3> QED
      BY <2>2, <3>1
  <2> QED
    BY <2>1, <2>2
<1>8. DOMAIN h = SUBSET X /\ h = [r \in SUBSET X |-> h[r]]
  OBVIOUS
<1> HIDE DEF h
<1>9. h = [r \in SUBSET X |-> IF r = {} THEN <<>> ELSE <<selected(r)>> \o h[rest(r)]]
  BY <1>7, <1>8
<1>10. Kahn(h, X)
  BY <1>9 DEF Kahn, rest
<1> QED
  BY <1>2, <1>10

\* what the list of descriptors has to be: every descriptor once, and after
\* the ones its Retrieve depends on
Ordered(s, N) ==
    /\ s \in Seq(N) /\ Len(s) = Cardinality(N)
    /\ \A d \in N : \E i \in DOMAIN s : s[i] = d
    /\ \A i, j \in DOMAIN s : s[j] \in RetrieveDependencies[s[i]] => j < i

\* TopologicalOrder returns such a list, whatever is registered.
LEMMA TopologicalOrderCorrect ==
    ASSUME NEW N \in SUBSET Descriptors
    PROVE  Ordered(TopologicalOrder(N), N)
<1> DEFINE order == CHOOSE f : Kahn(f, N)
<1>1. Kahn(order, N)
  BY KahnExists
<1>2. TopologicalOrder(N) = order[N]
  BY DEF TopologicalOrder, Kahn
<1> HIDE DEF order
<1> DEFINE T == {r \in SUBSET N : ~Ordered(order[r], r)}
<1> SUFFICES ASSUME T # {} PROVE FALSE
  BY <1>2
<1>3. T \in SUBSET SUBSET Descriptors /\ IsFiniteSet(Descriptors)
  BY RegistrationAssumption
<1>4. PICK r \in T : \A y \in T : y \subseteq r => y = r
  <2> HIDE DEF T
  <2> QED
    BY <1>3, MinimalSubset
<1>5. r \in SUBSET N /\ r \in SUBSET Descriptors /\ ~Ordered(order[r], r)
  BY <1>4
<1>6. CASE r = {}
  <2>1. order[r] = <<>>
    BY <1>1, <1>5, <1>6 DEF Kahn
  <2>2. Cardinality({}) = 0
    BY FS_EmptySet
  <2> QED
    BY <1>5, <1>6, <2>1, <2>2 DEF Ordered
<1>7. CASE r # {}
  <2> DEFINE d == selected(r)
             p == r \ {d}
             t == order[p]
             s == <<d>> \o t
  <2>1. d \in r /\ RetrieveDependencies[d] \cap r = {}
    BY <1>5, <1>7, SelectedProperties
  <2>2. order[r] = s
    BY <1>1, <1>5, <1>7 DEF Kahn
  <2>3. Ordered(t, p)
    BY <1>4, <1>5, <2>1
  <2>4. IsFiniteSet(r) /\ Cardinality(p) = Cardinality(r) - 1
    BY <1>3, <1>5, <2>1, FS_Subset, FS_RemoveElement
  <2>5. Cardinality(r) \in Nat
    BY <2>4, FS_CardinalityType
  <2> HIDE DEF d, p, t
  <2>6. t \in Seq(r) /\ t \in Seq(p) /\ Len(t) = Cardinality(r) - 1
    BY <2>3, <2>4, SeqMonotonic DEF Ordered, p
  <2>7. /\ s \in Seq(r) /\ Len(s) = Len(t) + 1 /\ s[1] = d
        /\ \A i \in 1..Len(t) : s[i + 1] = t[i]
    BY <2>1, <2>6
  <2>8. DOMAIN s = 1..(Len(t) + 1) /\ DOMAIN t = 1..Len(t) /\ Len(t) \in Nat
    BY <2>6, <2>7
  <2> HIDE DEF s
  <2>9. \A i \in DOMAIN s \ {1} : i - 1 \in DOMAIN t /\ s[i] = t[i - 1]
    BY <2>7, <2>8
  <2>10. \A e \in r : \E i \in DOMAIN s : s[i] = e
    <3> TAKE e \in r
    <3>1. CASE e = d
      BY <2>7, <2>8, <3>1
    <3>2. CASE e # d
      <4>1. PICK i \in DOMAIN t : t[i] = e
        BY <2>3, <3>2 DEF Ordered, p
      <4>2. i + 1 \in DOMAIN s /\ s[i + 1] = e
        BY <2>7, <2>8, <4>1
      <4> QED
        BY <4>2
    <3> QED
      BY <3>1, <3>2
  <2>11. ASSUME NEW i \in DOMAIN s, NEW j \in DOMAIN s, s[j] \in RetrieveDependencies[s[i]]
         PROVE  j < i
    <3>1. s[j] \in r
      BY <2>7
    <3>2. i # 1
      BY <2>1, <2>7, <2>11, <3>1
    <3>3. CASE j = 1
      BY <2>8, <3>2, <3>3
    <3>4. CASE j # 1
      <4>1. j - 1 < i - 1
        BY <2>3, <2>9, <2>11, <3>2, <3>4 DEF Ordered
      <4> QED
        BY <2>8, <4>1
    <3> QED
      BY <3>3, <3>4
  <2>12. Ordered(s, r)
    BY <2>5, <2>6, <2>7, <2>10, <2>11 DEF Ordered
  <2> QED
    BY <1>5, <2>2, <2>12
<1> QED
  BY <1>6, <1>7

-----------------------------------------------------------------------------
(* The cache of the registry *)

\* every entry of c is right, no key has two, and there are not too many
Sound(c) ==
    /\ c \in Seq(CacheEntries) /\ Len(c) <= MaxKeyCacheSize
    /\ \A i, j \in 1..Len(c) : c[i].key = c[j].key => i = j
    /\ \A i \in 1..Len(c) : /\ c[i].descriptor \in descriptors
                            /\ c[i].descriptor = SelectedBy[c[i].key]

\* An entry that moves to the front stays the only one of its key.
LEMMA SoundMoved ==
    ASSUME NEW c, Sound(c), NEW n \in 1..Len(c)
    PROVE  Sound(<<c[n]>> \o RemoveAt(c, n))
<1> DEFINE a == SubSeq(c, 1, n - 1)
           b == SubSeq(c, n + 1, Len(c))
           m == <<c[n]>> \o (a \o b)
           from(i) == IF i = 1 THEN n ELSE IF i <= n THEN i - 1 ELSE i
<1>1. c \in Seq(CacheEntries) /\ Len(c) \in Nat /\ n \in Nat /\ 1 <= n /\ n <= Len(c)
  BY DEF Sound
<1>2. /\ a \in Seq(CacheEntries) /\ Len(a) = n - 1 /\ \A i \in 1..(n - 1) : a[i] = c[i]
  BY <1>1
<1>3. /\ b \in Seq(CacheEntries) /\ Len(b) = Len(c) - n
      /\ \A i \in 1..(Len(c) - n) : b[i] = c[n + i]
  BY <1>1
<1> HIDE DEF a, b
<1>4. /\ m \in Seq(CacheEntries) /\ Len(m) = Len(c) /\ m[1] = c[n]
      /\ \A i \in 2..n : m[i] = c[i - 1]
      /\ \A i \in (n + 1)..Len(c) : m[i] = c[i]
  <2>1. c[n] \in CacheEntries
    BY <1>1
  <2>2. /\ a \o b \in Seq(CacheEntries) /\ Len(a \o b) = Len(c) - 1
        /\ \A i \in 1..(n - 1) : (a \o b)[i] = c[i]
        /\ \A i \in n..(Len(c) - 1) : (a \o b)[i] = c[i + 1]
    <3>1. /\ a \o b \in Seq(CacheEntries) /\ Len(a \o b) = Len(a) + Len(b)
          /\ \A i \in 1..(Len(a) + Len(b)) :
                (a \o b)[i] = IF i <= Len(a) THEN a[i] ELSE b[i - Len(a)]
      BY <1>2, <1>3, ConcatProperties
    <3>2. Len(a) + Len(b) = Len(c) - 1
      BY <1>1, <1>2, <1>3
    <3>3. \A i \in 1..(n - 1) : (a \o b)[i] = c[i]
      BY <1>1, <1>2, <3>1, <3>2
    <3>4. \A i \in n..(Len(c) - 1) : (a \o b)[i] = c[i + 1]
      <4> TAKE i \in n..(Len(c) - 1)
      <4>1. i \in 1..(Len(a) + Len(b)) /\ ~(i <= Len(a)) /\ i - Len(a) = i - (n - 1)
        BY <1>1, <1>2, <3>2
      <4>2. i - (n - 1) \in 1..(Len(c) - n) /\ n + (i - (n - 1)) = i + 1
        BY <1>1
      <4> QED
        BY <1>3, <3>1, <4>1, <4>2
    <3> QED
      BY <3>1, <3>2, <3>3, <3>4
  <2> DEFINE ab == a \o b
  <2> HIDE DEF ab
  <2>3. ab \in Seq(CacheEntries) /\ Len(ab) = Len(c) - 1
    BY <2>2 DEF ab
  <2>4. /\ <<c[n]>> \o ab \in Seq(CacheEntries) /\ Len(<<c[n]>> \o ab) = Len(c)
        /\ (<<c[n]>> \o ab)[1] = c[n]
        /\ \A i \in 2..Len(c) : (<<c[n]>> \o ab)[i] = ab[i - 1]
    BY <1>1, <2>1, <2>3
  <2>5. \A i \in 2..n : i - 1 \in 1..(n - 1) /\ i \in 2..Len(c)
    BY <1>1
  <2>6. \A i \in (n + 1)..Len(c) : i - 1 \in n..(Len(c) - 1) /\ i \in 2..Len(c) /\ (i - 1) + 1 = i
    BY <1>1
  <2> QED
    BY <2>2, <2>4, <2>5, <2>6 DEF ab
<1> HIDE DEF m
<1>5. /\ \A i \in 1..Len(c) : from(i) \in 1..Len(c) /\ m[i] = c[from(i)]
      /\ \A i, j \in 1..Len(c) : from(i) = from(j) => i = j
  <2>1. \A i \in 1..Len(c) : i = 1 \/ i \in 2..n \/ i \in (n + 1)..Len(c)
    BY <1>1
  <2> QED
    BY <1>1, <1>4, <2>1
<1> HIDE DEF from
<1>6. \A i, j \in 1..Len(m) : m[i].key = m[j].key => i = j
  <2>1. \A i, j \in 1..Len(c) : c[i].key = c[j].key => i = j
    BY DEF Sound
  <2> SUFFICES ASSUME NEW i \in 1..Len(c), NEW j \in 1..Len(c), m[i].key = m[j].key
               PROVE  i = j
    BY <1>4
  <2>2. from(i) \in 1..Len(c) /\ from(j) \in 1..Len(c) /\ m[i] = c[from(i)] /\ m[j] = c[from(j)]
    BY <1>5
  <2>3. from(i) = from(j)
    BY <2>1, <2>2
  <2> QED
    BY <1>5, <2>3
<1>7. \A i \in 1..Len(m) : m[i].descriptor \in descriptors /\ m[i].descriptor = SelectedBy[m[i].key]
  BY <1>4, <1>5 DEF Sound
<1>8. Sound(m)
  BY <1>4, <1>6, <1>7 DEF Sound
<1> QED
  BY <1>8 DEF m, RemoveAt, a, b

\* Leaving the last entries out changes nothing for the others.
LEMMA SoundFront ==
    ASSUME NEW c, Sound(c), Len(c) # 0
    PROVE  Sound(Front(c)) /\ Len(Front(c)) = Len(c) - 1
           /\ \A i \in 1..Len(Front(c)) : Front(c)[i] = c[i]
<1> DEFINE f == SubSeq(c, 1, Len(c) - 1)
<1>1. c \in Seq(CacheEntries) /\ Len(c) \in Nat /\ Len(c) <= MaxKeyCacheSize /\ MaxKeyCacheSize \in Nat
  BY RegistrationAssumption DEF Sound
<1>2. /\ f \in Seq(CacheEntries) /\ Len(f) = Len(c) - 1
      /\ \A i \in 1..(Len(c) - 1) : f[i] = c[i]
  <2>1. 1 \in Int /\ Len(c) - 1 \in Int /\ \A i \in 1..(Len(c) - 1) : c[i] \in CacheEntries
    BY <1>1
  <2>2. /\ f \in Seq(CacheEntries)
        /\ Len(f) = IF 1 <= Len(c) - 1 THEN (Len(c) - 1) - 1 + 1 ELSE 0
        /\ \A i \in 1..((Len(c) - 1) - 1 + 1) : f[i] = c[1 + i - 1]
    BY <2>1, SubSeqProperties
  <2>3. Len(f) = Len(c) - 1 /\ (Len(c) - 1) - 1 + 1 = Len(c) - 1
    <3> DEFINE n == Len(c)
               l == Len(f)
    <3>1. n \in Nat /\ n # 0 /\ l = IF 1 <= n - 1 THEN (n - 1) - 1 + 1 ELSE 0
      BY <1>1, <2>2
    <3> HIDE DEF n, l
    <3>2. l = n - 1 /\ (n - 1) - 1 + 1 = n - 1
      BY <3>1
    <3> QED
      BY <3>2 DEF n, l
  <2> HIDE DEF f
  <2>4. \A i \in 1..(Len(c) - 1) : 1 + i - 1 = i
    BY <1>1
  <2> QED
    BY <2>2, <2>3, <2>4
<1>3. Front(c) = f
  BY DEF Front
<1> HIDE DEF f
<1>4. \A i \in 1..Len(f) : i \in 1..Len(c) /\ f[i] = c[i]
  BY <1>1, <1>2
<1>5. Sound(f)
  BY <1>1, <1>2, <1>4 DEF Sound
<1> QED
  BY <1>2, <1>3, <1>5

\* A lookup keeps the cache sound and returns what a search would have found.
LEMMA LookupSound ==
    ASSUME Sound(keyCache), descriptors \subseteq Descriptors, NEW key \in Keys
    PROVE  /\ Sound(cacheAfter(key))
           /\ GetDescriptorForKey(key) =
                 IF SelectedBy[key] \in descriptors THEN SelectedBy[key] ELSE NoDescriptor
<1>0. keyCache \in Seq(CacheEntries) /\ Len(keyCache) <= MaxKeyCacheSize
  BY DEF Sound
<1>a. DOMAIN keyCache = 1..Len(keyCache) /\ Len(keyCache) \in Nat
  BY <1>0
<1>b. SelectedBy[key] \in Descriptors /\ NoDescriptor \notin Descriptors
  BY RegistrationAssumption
<1>c. MaxKeyCacheSize \in Nat /\ MaxKeyCacheSize # 0
  BY RegistrationAssumption
<1>1. CASE cached(key)
  <2>1. position(key) \in 1..Len(keyCache) /\ keyCache[position(key)].key = key
    BY <1>a, <1>1 DEF cached, position
  <2>2. Sound(cacheAfter(key))
    BY <1>1, <2>1, SoundMoved DEF cacheAfter
  <2> QED
    BY <1>1, <2>1, <2>2 DEF GetDescriptorForKey, Sound
<1>2. CASE ~cached(key)
  <2>1. Sound(evicted) /\ Len(evicted) < MaxKeyCacheSize
        /\ \A i \in 1..Len(evicted) : i \in 1..Len(keyCache) /\ evicted[i] = keyCache[i]
    <3>1. CASE Len(keyCache) = MaxKeyCacheSize
      <4>1. Len(keyCache) # 0 /\ evicted = Front(keyCache)
        BY <1>c, <3>1 DEF evicted
      <4>2. Sound(Front(keyCache)) /\ Len(Front(keyCache)) = Len(keyCache) - 1
            /\ \A i \in 1..Len(Front(keyCache)) : Front(keyCache)[i] = keyCache[i]
        BY <4>1, SoundFront
      <4>3. Len(evicted) < MaxKeyCacheSize
        BY <1>c, <3>1, <4>1, <4>2
      <4>4. \A i \in 1..Len(evicted) : i \in 1..Len(keyCache)
        BY <1>a, <4>1, <4>2
      <4> QED
        BY <4>1, <4>2, <4>3, <4>4
    <3>2. CASE Len(keyCache) # MaxKeyCacheSize
      <4>1. evicted = keyCache
        BY <3>2 DEF evicted
      <4>2. Len(keyCache) < MaxKeyCacheSize
        <5> DEFINE n == Len(keyCache)
        <5>1. n \in Nat /\ n <= MaxKeyCacheSize /\ n # MaxKeyCacheSize
          BY <1>0, <1>a, <3>2
        <5> HIDE DEF n
        <5>2. n < MaxKeyCacheSize
          BY <1>c, <5>1
        <5> QED
          BY <5>2 DEF n
      <4> QED
        BY <4>1, <4>2
    <3> QED
      BY <3>1, <3>2
  <2>2. CASE SelectedBy[key] \notin descriptors
    BY <1>b, <1>2, <2>1, <2>2 DEF cacheAfter, GetDescriptorForKey
  <2>3. CASE SelectedBy[key] \in descriptors
    <3> DEFINE e == [key |-> key, descriptor |-> SelectedBy[key]]
               m == <<e>> \o evicted
    <3>1. e \in CacheEntries /\ e.key = key /\ e.descriptor = SelectedBy[key]
      BY <1>b DEF CacheEntries
    <3>2. cacheAfter(key) = m
      BY <1>b, <1>2, <2>3 DEF cacheAfter, GetDescriptorForKey
    <3>3. evicted \in Seq(CacheEntries) /\ Len(evicted) \in Nat
      BY <2>1 DEF Sound
    <3> HIDE DEF e
    <3>4. /\ m \in Seq(CacheEntries) /\ Len(m) = Len(evicted) + 1 /\ m[1] = e
          /\ \A i \in 2..Len(m) : i - 1 \in 1..Len(evicted) /\ m[i] = evicted[i - 1]
      <4> DEFINE v == evicted
      <4>1. v \in Seq(CacheEntries) /\ Len(v) \in Nat
        BY <3>3
      <4> HIDE DEF v
      <4>2. /\ <<e>> \o v \in Seq(CacheEntries) /\ Len(<<e>> \o v) = Len(v) + 1
            /\ (<<e>> \o v)[1] = e
            /\ \A i \in 2..(Len(v) + 1) : i - 1 \in 1..Len(v) /\ (<<e>> \o v)[i] = v[i - 1]
        BY <3>1, <4>1
      <4> QED
        BY <4>2 DEF v
    <3> HIDE DEF m
    <3>5. \A i \in 1..Len(evicted) : evicted[i].key # key
      BY <1>a, <1>2, <2>1 DEF cached
    <3>6. \A i, j \in 1..Len(m) : m[i].key = m[j].key => i = j
      <4> TAKE i, j \in 1..Len(m)
      <4>1. /\ i = 1 \/ i \in 2..Len(m)
            /\ j = 1 \/ j \in 2..Len(m)
        BY <3>3, <3>4
      <4>2. i \in 2..Len(m) /\ j \in 2..Len(m) /\ m[i].key = m[j].key => i - 1 = j - 1
        BY <2>1, <3>4 DEF Sound
      <4> QED
        BY <3>1, <3>4, <3>5, <4>1, <4>2
    <3>7. \A i \in 1..Len(m) : m[i].descriptor \in descriptors /\ m[i].descriptor = SelectedBy[m[i].key]
      <4> TAKE i \in 1..Len(m)
      <4>1. CASE i = 1
        BY <2>3, <3>1, <3>4, <4>1
      <4>2. CASE i # 1
        <5>1. i \in 2..Len(m)
          BY <3>3, <3>4, <4>2
        <5>2. i - 1 \in 1..Len(evicted) /\ m[i] = evicted[i - 1]
          BY <3>4, <5>1
        <5> QED
          BY <2>1, <5>2 DEF Sound
      <4> QED
        BY <4>1, <4>2
    <3>8. Len(m) <= MaxKeyCacheSize
      BY <1>c, <2>1, <3>3, <3>4
    <3>9. Sound(m)
      BY <3>4, <3>6, <3>7, <3>8 DEF Sound
    <3> QED
      BY <1>b, <1>2, <2>3, <3>2, <3>9 DEF GetDescriptorForKey
  <2> QED
    BY <2>2, <2>3
<1> QED
  BY <1>1, <1>2

-----------------------------------------------------------------------------
(* Types *)

\* what a step of a broadcast leaves of the others
updated(b, e) == broadcasts' = [broadcasts EXCEPT ![b] = e]

\* A step of one broadcast keeps the types of all.
LEMMA BroadcastUpdate ==
    ASSUME broadcasts \in Seq(Broadcasts), NEW b \in DOMAIN broadcasts, NEW e \in Broadcasts,
           updated(b, e)
    PROVE  /\ broadcasts' \in Seq(Broadcasts) /\ Len(broadcasts') = Len(broadcasts)
           /\ DOMAIN broadcasts' = DOMAIN broadcasts /\ broadcasts'[b] = e
           /\ \A c \in DOMAIN broadcasts \ {b} : broadcasts'[c] = broadcasts[c]
<1>1. b \in 1..Len(broadcasts)
  OBVIOUS
<1>2. broadcasts' \in Seq(Broadcasts) /\ Len(broadcasts') = Len(broadcasts)
  BY <1>1, ExceptSeq DEF updated
<1> QED
  BY <1>2 DEF updated

\* the type invariant in parts
RegistryType ==
    /\ descriptors \subseteq Descriptors /\ upToDateDescList \in BOOLEAN
    /\ descriptorList \in Seq(Descriptors) /\ keyCache \in Seq(CacheEntries)
    /\ keyPrefixes \subseteq descriptors
BroadcastType ==
    /\ subs \in [Descriptors -> 0..Len(broadcasts)]
    /\ broadcasts \in Seq(Broadcasts) /\ waits \in Seq(Waits)
RegType ==
    /\ reg \in [pc : {"idle", "prefix", "metadata", "subs", "send", "close", "delete"},
                d : descriptors \cup {NoDescriptor}, sbc : 0..Len(broadcasts)]
    /\ reg.pc # "idle" => reg.d # NoDescriptor
    /\ reg.pc \in {"send", "close", "delete"} => reg.sbc # 0
ConsType ==
    /\ cons \in [pc : {"idle", "exec", "post", "prefix", "subs", "load", "subscribe"},
                 txn : Transactions, todo : SUBSET Keys, toImpl : SUBSET Keys,
                 b : 0..Len(broadcasts)]
    /\ cons.pc # "idle" => cons.todo # {} /\ txnSeqNumber > 0
    /\ cons.pc = "subscribe" /\ ~crashed => cons.b # 0
ValueType ==
    /\ mappings \subseteq Descriptors /\ metadata \subseteq Keys
    /\ value \in [Keys -> [state : {"none", "unimplemented", "configured"}, rev : Nat]]
    /\ txnSeqNumber \in Nat /\ queue \in Seq(Transactions)
    /\ nb \subseteq Keys /\ commits \in 0..MaxTxns /\ crashed \in BOOLEAN

LEMMA TypeParts ==
    TypeOK <=> RegistryType /\ BroadcastType /\ RegType /\ ConsType /\ ValueType
  BY DEF TypeOK, RegistryType, BroadcastType, RegType, ConsType, ValueType

\* What leaves the variables of a part alone keeps it.
LEMMA TypeFrame ==
    /\ RegistryType /\ UNCHANGED <<registry, keyPrefixes>> => RegistryType'
    /\ BroadcastType /\ UNCHANGED <<subs, broadcasts, waits>> => BroadcastType'
    /\ RegType /\ UNCHANGED <<descriptors, reg>> /\ Len(broadcasts') = Len(broadcasts) => RegType'
    /\ ConsType /\ UNCHANGED <<cons, txnSeqNumber, crashed>> /\ Len(broadcasts') = Len(broadcasts)
          => ConsType'
    /\ ValueType /\ UNCHANGED <<graph, txnSeqNumber, queue, north, crashed>> => ValueType'
    /\ RegistryType' /\ BroadcastType' /\ RegType' /\ ConsType' /\ ValueType' => TypeOK'
<1>1. RegistryType /\ UNCHANGED <<registry, keyPrefixes>> => RegistryType'
  BY DEF RegistryType, registry
<1>2. BroadcastType /\ UNCHANGED <<subs, broadcasts, waits>> => BroadcastType'
  BY DEF BroadcastType
<1>3. RegType /\ UNCHANGED <<descriptors, reg>> /\ Len(broadcasts') = Len(broadcasts) => RegType'
  BY DEF RegType
<1>4. ConsType /\ UNCHANGED <<cons, txnSeqNumber, crashed>> /\ Len(broadcasts') = Len(broadcasts)
      => ConsType'
  BY DEF ConsType
<1>5. ValueType /\ UNCHANGED <<graph, txnSeqNumber, queue, north, crashed>> => ValueType'
  BY DEF ValueType, graph, north
<1>6. RegistryType' /\ BroadcastType' /\ RegType' /\ ConsType' /\ ValueType' => TypeOK'
  BY DEF TypeOK, RegistryType, BroadcastType, RegType, ConsType, ValueType
<1> QED
  BY <1>1, <1>2, <1>3, <1>4, <1>5, <1>6

\* The initial state is well typed.
LEMMA TypeInit == Init => TypeOK
<1> SUFFICES ASSUME Init PROVE TypeOK
  OBVIOUS
<1>1. NoTxn \in Transactions
  BY DEF NoTxn, Transactions
<1>2. RegistryType
  <2>1. <<>> \in Seq(Descriptors) /\ <<>> \in Seq(CacheEntries)
    OBVIOUS
  <2> QED
    BY <2>1 DEF Init, RegistryType
<1>3. BroadcastType
  BY DEF Init, BroadcastType
<1>4. RegType
  BY DEF Init, RegType, RegIdle
<1>5. ConsType
  BY <1>1 DEF Init, ConsType, ConsIdle
<1>6. ValueType
  <2>1. <<>> \in Seq(Transactions) /\ 0 \in 0..MaxTxns
    BY RegistrationAssumption
  <2>2. value \in [Keys -> [state : {"none", "unimplemented", "configured"}, rev : Nat]]
    BY DEF Init, Absent
  <2> QED
    BY <2>1, <2>2 DEF Init, ValueType
<1> QED
  BY <1>2, <1>3, <1>4, <1>5, <1>6, TypeParts

\* A step of the registration keeps the types.
LEMMA TypeRegister ==
    ASSUME TypeOK, ~crashed, Register \/ \E d \in Descriptors : RegisterDescriptor(d)
    PROVE  TypeOK'
<1>0. RegistryType /\ BroadcastType /\ RegType /\ ConsType /\ ValueType
  BY TypeParts
<1>1. ASSUME NEW d \in Descriptors, RegisterDescriptor(d) PROVE TypeOK'
  <2>1. RegistryType'
    BY <1>0, <1>1 DEF RegisterDescriptor, RegistryType, maps
  <2>2. RegType'
    BY <1>0, <1>1, RegistrationAssumption DEF RegisterDescriptor, RegType
  <2> QED
    BY <1>0, <1>1, <2>1, <2>2, TypeFrame DEF RegisterDescriptor, maps
<1>2. CASE RegisterPrefix
  <2>1. RegistryType'
    BY <1>0, <1>2 DEF RegisterPrefix, RegistryType, RegType, registry
  <2>2. RegType'
    BY <1>0, <1>2 DEF RegisterPrefix, RegType, registry
  <2> QED
    BY <1>0, <1>2, <2>1, <2>2, TypeFrame DEF RegisterPrefix
<1>3. CASE RegisterMetadataMap
  <2>1. RegType'
    BY <1>0, <1>3 DEF RegisterMetadataMap, RegType, registry
  <2>2. ValueType'
    <3>1. reg.d \in Descriptors
      BY <1>0, <1>3 DEF RegisterMetadataMap, RegType, RegistryType
    <3> QED
      BY <1>0, <1>3, <3>1 DEF RegisterMetadataMap, ValueType, north
  <2> QED
    BY <1>0, <1>3, <2>1, <2>2, TypeFrame DEF RegisterMetadataMap, maps
<1>4. CASE FindSubscribers
  <2>1. RegType'
    BY <1>0, <1>4 DEF FindSubscribers, RegType, RegistryType, BroadcastType, RegIdle, registry
  <2> QED
    BY <1>0, <1>4, <2>1, TypeFrame DEF FindSubscribers, maps
<1>5. CASE SendToSource \/ CloseSource
  <2>1. reg.sbc \in DOMAIN broadcasts /\ reg.pc \in {"send", "close"}
    BY <1>0, <1>5 DEF SendToSource, CloseSource, BroadcastType, RegType
  <2>2. broadcasts[reg.sbc] \in Broadcasts
    BY <1>0, <2>1 DEF BroadcastType
  <2>3. \E e \in Broadcasts : updated(reg.sbc, e)
    <3>1. CASE SendToSource
      <4>1. [broadcasts[reg.sbc] EXCEPT !.serve = "received"] \in Broadcasts
        BY <2>2 DEF Broadcasts
      <4> QED
        BY <3>1, <4>1 DEF SendToSource, updated
    <3>2. CASE CloseSource
      <4>1. [broadcasts[reg.sbc] EXCEPT !.closed = TRUE] \in Broadcasts
        BY <2>2 DEF Broadcasts
      <4> QED
        BY <3>2, <4>1 DEF CloseSource, updated
    <3> QED
      BY <1>5, <3>1, <3>2
  <2>4. broadcasts' \in Seq(Broadcasts) /\ Len(broadcasts') = Len(broadcasts)
    BY <1>0, <2>1, <2>3, BroadcastUpdate DEF BroadcastType
  <2>5. /\ UNCHANGED <<registry, maps, graph, waits, cons, txnSeqNumber, queue, north, crashed>>
        /\ reg' = [reg EXCEPT !.pc = "close"] \/ reg' = [reg EXCEPT !.pc = "delete"]
    BY <1>5 DEF SendToSource, CloseSource
  <2>6. RegType'
    BY <1>0, <2>1, <2>4, <2>5 DEF RegType, registry
  <2>7. BroadcastType' /\ ConsType'
    BY <1>0, <2>4, <2>5 DEF BroadcastType, ConsType, maps
  <2> QED
    BY <1>0, <2>5, <2>6, <2>7, TypeFrame DEF maps
<1>6. CASE DeleteSubscription
  <2>1. RegType'
    BY <1>0, <1>6 DEF DeleteSubscription, RegType, BroadcastType, RegIdle, registry
  <2>2. BroadcastType'
    <3>1. subs \in [Descriptors -> 0..Len(broadcasts)] /\ 0 \in 0..Len(broadcasts)
      BY <1>0 DEF BroadcastType
    <3>2. subs' \in [Descriptors -> 0..Len(broadcasts)] /\ UNCHANGED <<broadcasts, waits>>
      BY <1>6, <3>1 DEF DeleteSubscription
    <3> QED
      BY <1>0, <3>2 DEF BroadcastType
  <2> QED
    BY <1>0, <1>6, <2>1, <2>2, TypeFrame DEF DeleteSubscription
<1> QED
  BY <1>1, <1>2, <1>3, <1>4, <1>5, <1>6 DEF Register

\* A step of a broadcast keeps the types.
LEMMA TypeServe ==
    ASSUME TypeOK, ~crashed, NEW b \in DOMAIN broadcasts, Serve(b)
    PROVE  TypeOK'
<1>0. RegistryType /\ BroadcastType /\ RegType /\ ConsType /\ ValueType
  BY TypeParts
<1>1. broadcasts[b] \in Broadcasts
  BY <1>0 DEF BroadcastType
<1>2. UNCHANGED <<registry, maps, graph, reg, cons, txnSeqNumber, queue, north, crashed>>
  BY DEF Serve, BroadcastLock, BroadcastSend, BroadcastUnlock, BroadcastClose
<1>3. ASSUME NEW e \in Broadcasts, updated(b, e), waits' \in Seq(Waits) PROVE TypeOK'
  <2>1. broadcasts' \in Seq(Broadcasts) /\ Len(broadcasts') = Len(broadcasts)
    BY <1>0, <1>3, BroadcastUpdate DEF BroadcastType
  <2>2. BroadcastType' /\ ConsType' /\ RegType'
    BY <1>0, <1>2, <1>3, <2>1 DEF BroadcastType, ConsType, RegType, maps, registry
  <2> QED
    BY <1>0, <1>2, <2>2, TypeFrame DEF maps
<1>4. CASE BroadcastLock(b)
  <2>1. [broadcasts[b] EXCEPT !.serve = "broadcast", !.todo = @ \cup broadcasts[b].subscribers]
            \in Broadcasts
    BY <1>1 DEF Broadcasts
  <2> QED
    BY <1>0, <1>3, <1>4, <2>1 DEF BroadcastLock, updated, BroadcastType
<1>5. ASSUME NEW w \in DOMAIN waits, BroadcastSend(b, w) PROVE TypeOK'
  <2>1. [broadcasts[b] EXCEPT !.todo = @ \ {w}] \in Broadcasts
    BY <1>1 DEF Broadcasts
  <2>2. waits \in Seq(Waits) /\ waits[w] \in Waits /\ w \in 1..Len(waits)
    BY <1>0 DEF BroadcastType
  <2>3. [waits[w] EXCEPT !.ch = "ready"] \in Waits
    BY <2>2 DEF Waits
  <2>4. waits' = [waits EXCEPT ![w] = [waits[w] EXCEPT !.ch = "ready"]]
    BY <1>5 DEF BroadcastSend
  <2>5. waits' \in Seq(Waits)
    BY <2>2, <2>3, <2>4, ExceptSeq
  <2> QED
    BY <1>3, <1>5, <2>1, <2>5 DEF BroadcastSend, updated
<1>6. CASE BroadcastUnlock(b)
  <2>1. [broadcasts[b] EXCEPT !.serve = "range"] \in Broadcasts
    BY <1>1 DEF Broadcasts
  <2> QED
    BY <1>0, <1>3, <1>6, <2>1 DEF BroadcastUnlock, updated, BroadcastType
<1>7. CASE BroadcastClose(b)
  <2>1. [broadcasts[b] EXCEPT !.serve = "end"] \in Broadcasts
    BY <1>1 DEF Broadcasts
  <2>2. waits \in Seq(Waits) /\ DOMAIN waits = 1..Len(waits) /\ Len(waits) \in Nat
    BY <1>0 DEF BroadcastType
  <2>3. \A w \in 1..Len(waits) : [waits[w] EXCEPT !.ch = "ready"] \in Waits /\ waits[w] \in Waits
    <3>1. \A w \in 1..Len(waits) : waits[w] \in Waits
      BY <2>2
    <3> QED
      BY <3>1 DEF Waits
  <2>4. waits' = [w \in 1..Len(waits) |-> IF w \in broadcasts[b].subscribers
                                          THEN [waits[w] EXCEPT !.ch = "ready"] ELSE waits[w]]
    BY <1>7, <2>2 DEF BroadcastClose
  <2>5. waits' \in [1..Len(waits) -> Waits]
    BY <2>3, <2>4
  <2>6. waits' \in Seq(Waits)
    BY <2>2, <2>5
  <2> QED
    BY <1>3, <1>7, <2>1, <2>6 DEF BroadcastClose, updated
<1> QED
  BY <1>4, <1>5, <1>6, <1>7 DEF Serve

\* what the registry promises, with the types it needs
RegistryInv ==
    /\ Sound(keyCache)
    /\ upToDateDescList => Ordered(descriptorList, descriptors)

\* the key scheduleUnimpl works on
LEMMA UnimplKey ==
    ASSUME ConsType, cons.pc # "idle"
    PROVE  unimplKey \in cons.todo /\ unimplKey \in Keys /\ unimplPrefix \in Descriptors
<1>1. cons.todo # {} /\ cons.todo \subseteq Keys
  BY DEF ConsType
<1>2. unimplKey \in cons.todo
  BY <1>1 DEF unimplKey
<1> QED
  BY <1>1, <1>2, RegistrationAssumption DEF unimplPrefix

\* The idle consumer is well typed.
LEMMA ConsIdleType ==
    ASSUME NEW n \in Nat
    PROVE  /\ ConsIdle.pc = "idle"
           /\ ConsIdle \in [pc : {"idle", "exec", "post", "prefix", "subs", "load", "subscribe"},
                            txn : Transactions, todo : SUBSET Keys, toImpl : SUBSET Keys,
                            b : 0..n]
<1>1. NoTxn \in Transactions
  BY DEF NoTxn, Transactions
<1> QED
  BY <1>1 DEF ConsIdle

\* The next transaction is typed, and without the keys that are not current.
LEMMA RemainingType ==
    ASSUME NEW txn \in Transactions
    PROVE  remaining(txn) \in Transactions
  BY DEF remaining, Transactions

\* A wait that is scheduled keeps the types.
LEMMA TypeScheduled ==
    ASSUME BroadcastType, ConsType, ValueType, cons.pc # "idle", NEW ch \in {"empty", "ready"},
           implScheduled(ch), UNCHANGED <<subs, txnSeqNumber, crashed>>,
           broadcasts' \in Seq(Broadcasts), Len(broadcasts') = Len(broadcasts)
    PROVE  BroadcastType' /\ ConsType'
<1>1. unimplKey \in Keys
  BY UnimplKey
<1>2. value[unimplKey].rev \in Nat
  BY <1>1 DEF ValueType
<1>3. [key |-> unimplKey, rev |-> value[unimplKey].rev, ch |-> ch, pc |-> "waiting"] \in Waits
  BY <1>1, <1>2 DEF Waits
<1>4. waits' \in Seq(Waits)
  BY <1>3 DEF implScheduled, BroadcastType
<1>5. BroadcastType'
  BY <1>4 DEF BroadcastType
<1>6. CASE cons.todo = {unimplKey}
  <2>1. cons' = ConsIdle
    BY <1>6 DEF implScheduled
  <2>2. Len(broadcasts') \in Nat
    OBVIOUS
  <2> QED
    BY <1>5, <2>1, <2>2, ConsIdleType DEF ConsType
<1>7. CASE cons.todo # {unimplKey}
  <2>1. cons' = [cons EXCEPT !.pc = "prefix", !.todo = @ \ {unimplKey}]
    BY <1>7 DEF implScheduled
  <2>2. cons.todo \ {unimplKey} # {}
    BY <1>7 DEF ConsType
  <2> QED
    BY <1>5, <2>1, <2>2 DEF ConsType
<1> QED
  BY <1>5, <1>6, <1>7

\* A step of the consumer keeps the types, and the registry right.
LEMMA TypeConsume ==
    ASSUME TypeOK, RegistryInv, ~crashed, Consume
    PROVE  TypeOK' /\ RegistryInv'
<1>0. RegistryType /\ BroadcastType /\ RegType /\ ConsType /\ ValueType
  BY TypeParts
<1>a. UNCHANGED registry => RegistryInv'
  BY DEF RegistryInv, Sound, registry
<1>b. Len(broadcasts) \in Nat
  BY <1>0 DEF BroadcastType
<1>1. CASE TakeTransaction
  <2> DEFINE txn == remaining(Head(queue))
             keys == txn.put \cup txn.del
  <2>1. Head(queue) \in Transactions /\ Tail(queue) \in Seq(Transactions)
    BY <1>0, <1>1 DEF TakeTransaction, ValueType
  <2>2. txn \in Transactions
    BY <2>1, RemainingType
  <2>3. keys \subseteq Keys
    BY <2>2 DEF Transactions
  <2>4. cons' = IF keys = {} THEN ConsIdle
                ELSE [ConsIdle EXCEPT !.pc = "exec", !.txn = txn, !.todo = keys]
    BY <1>1 DEF TakeTransaction
  <2> HIDE DEF txn, keys
  <2>5. txnSeqNumber' = txnSeqNumber + 1 /\ txnSeqNumber \in Nat
    BY <1>0, <1>1 DEF TakeTransaction, ValueType
  <2>6. ConsType'
    <3>1. CASE keys = {}
      BY <1>0, <1>1, <1>b, <2>4, <3>1, ConsIdleType DEF ConsType, TakeTransaction
    <3>2. CASE keys # {}
      <4>1. UNCHANGED <<broadcasts, crashed>>
        BY <1>1 DEF TakeTransaction
      <4>2. /\ cons' \in [pc : {"idle", "exec", "post", "prefix", "subs", "load", "subscribe"},
                          txn : Transactions, todo : SUBSET Keys, toImpl : SUBSET Keys,
                          b : 0..Len(broadcasts)]
            /\ cons'.pc = "exec" /\ cons'.todo = keys
        <5> DEFINE bs == 0..Len(broadcasts)
        <5>1. 0 \in bs
          BY <1>b
        <5> HIDE DEF bs
        <5>2. cons' = [pc |-> "exec", txn |-> txn, todo |-> keys, toImpl |-> {}, b |-> 0]
          BY <2>4, <3>2 DEF ConsIdle
        <5>3. cons' \in [pc : {"idle", "exec", "post", "prefix", "subs", "load", "subscribe"},
                         txn : Transactions, todo : SUBSET Keys, toImpl : SUBSET Keys, b : bs]
          BY <2>2, <2>3, <5>1, <5>2
        <5> QED
          BY <5>2, <5>3 DEF bs
      <4>3. txnSeqNumber' > 0
        BY <2>5
      <4> QED
        BY <3>2, <4>1, <4>2, <4>3 DEF ConsType
    <3> QED
      BY <3>1, <3>2
  <2>7. ValueType'
    BY <1>0, <1>1, <2>1, <2>5 DEF ValueType, TakeTransaction, graph, north
  <2> QED
    BY <1>0, <1>a, <1>1, <2>6, <2>7, TypeFrame DEF TakeTransaction, maps, registry
<1>2. ASSUME NEW k \in Keys, ExecuteValue(k) PROVE TypeOK' /\ RegistryInv'
  <2> DEFINE d == GetDescriptorForKey(k)
             new == executed(k, d)
             toImpl == IF new.state = "unimplemented" /\ value[k].state # "unimplemented"
                       THEN {k} ELSE {}
  <2>1. Sound(cacheAfter(k)) /\ cacheAfter(k) \in Seq(CacheEntries)
    BY <1>0, LookupSound DEF RegistryInv, RegistryType, Sound
  <2>2. RegistryInv' /\ RegistryType'
    BY <1>0, <1>2, <2>1 DEF RegistryInv, RegistryType, ExecuteValue, Sound, maps
  <2>3. new \in [state : {"none", "unimplemented", "configured"}, rev : Nat]
    <3>1. txnSeqNumber - 1 \in Nat /\ value[k].rev \in Nat
      BY <1>0, <1>2 DEF ExecuteValue, ConsType, ValueType
    <3> QED
      BY <3>1 DEF executed, Absent
  <2>4. /\ value' = [value EXCEPT ![k] = new]
        /\ cons' = endExec(cons.todo \ {k}, cons.toImpl \cup toImpl)
        /\ metadata' \subseteq metadata \cup {k}
    BY <1>2 DEF ExecuteValue
  <2>5. toImpl \subseteq Keys
    OBVIOUS
  <2> HIDE DEF d, new, toImpl
  <2>6. ValueType'
    BY <1>0, <1>2, <2>3, <2>4 DEF ValueType, ExecuteValue, north
  <2>7. cons' \in [pc : {"idle", "exec", "post", "prefix", "subs", "load", "subscribe"},
                   txn : Transactions, todo : SUBSET Keys, toImpl : SUBSET Keys,
                   b : 0..Len(broadcasts)]
        /\ (cons'.pc # "idle" => cons'.todo # {} /\ cons'.pc \in {"exec", "post"})
    <3>1. /\ cons \in [pc : {"idle", "exec", "post", "prefix", "subs", "load", "subscribe"},
                       txn : Transactions, todo : SUBSET Keys, toImpl : SUBSET Keys,
                       b : 0..Len(broadcasts)]
          /\ cons.pc = "exec"
      BY <1>0, <1>2 DEF ConsType, ExecuteValue
    <3>2. CASE cons.todo \ {k} # {}
      <4>1. cons' = [cons EXCEPT !.todo = cons.todo \ {k}, !.toImpl = cons.toImpl \cup toImpl]
        BY <2>4, <3>2 DEF endExec
      <4> QED
        BY <2>5, <3>1, <3>2, <4>1
    <3>3. CASE cons.todo \ {k} = {} /\ cons.toImpl \cup toImpl = {}
      <4>1. cons' = ConsIdle
        BY <2>4, <3>3 DEF endExec
      <4> QED
        BY <1>b, <4>1, ConsIdleType
    <3>4. CASE cons.todo \ {k} = {} /\ cons.toImpl \cup toImpl # {}
      <4>1. cons' = [cons EXCEPT !.pc = "post", !.todo = cons.toImpl \cup toImpl,
                                 !.toImpl = cons.toImpl \cup toImpl]
        BY <2>4, <3>4 DEF endExec
      <4> QED
        BY <2>5, <3>1, <3>4, <4>1
    <3> QED
      BY <3>2, <3>3, <3>4
  <2>8. ConsType'
    BY <1>0, <1>2, <2>7 DEF ConsType, ExecuteValue
  <2> QED
    BY <1>0, <1>2, <2>2, <2>6, <2>8, TypeFrame DEF ExecuteValue, maps
<1>3. CASE RefreshUnimplemented
  <2>1. RegistryInv' /\ RegistryType'
    <3>1. UNCHANGED <<descriptors, keyCache, keyPrefixes>> /\ upToDateDescList' = TRUE
      BY <1>3 DEF RefreshUnimplemented, GetAllDescriptors, maps
    <3>2. Ordered(descriptorList', descriptors)
      <4>1. CASE upToDateDescList
        BY <1>3, <4>1 DEF RefreshUnimplemented, GetAllDescriptors, RegistryInv
      <4>2. CASE ~upToDateDescList
        BY <1>0, <1>3, <4>2, TopologicalOrderCorrect DEF RefreshUnimplemented, GetAllDescriptors,
           RegistryType
      <4> QED
        BY <4>1, <4>2
    <3>3. descriptorList' \in Seq(Descriptors)
      <4>1. descriptorList' \in Seq(descriptors)
        BY <3>2 DEF Ordered
      <4> QED
        BY <1>0, <4>1, SeqMonotonic DEF RegistryType
    <3>4. RegistryType'
      BY <1>0, <3>1, <3>3 DEF RegistryType
    <3> QED
      BY <3>1, <3>2, <3>4 DEF RegistryInv, Sound, Ordered
  <2>2. ConsType'
    BY <1>0, <1>b, <1>3, ConsIdleType DEF ConsType, RefreshUnimplemented
  <2> QED
    BY <1>0, <1>3, <2>1, <2>2, TypeFrame DEF RefreshUnimplemented, maps
<1>4. CASE WatchPrefix
  <2>1. /\ UNCHANGED <<registry, maps, graph, broadcasts, reg, txnSeqNumber, queue, north, crashed>>
        /\ cons.pc = "prefix"
    BY <1>4 DEF WatchPrefix
  <2>2. BroadcastType' /\ ConsType'
    <3>1. CASE implScheduled("ready")
      BY <1>0, <2>1, <3>1, TypeScheduled DEF maps, BroadcastType
    <3>2. CASE cons' = [cons EXCEPT !.pc = "subs"] /\ UNCHANGED waits
      BY <1>0, <2>1, <3>2 DEF BroadcastType, ConsType, maps
    <3> QED
      BY <1>4, <3>1, <3>2 DEF WatchPrefix
  <2> QED
    BY <1>0, <1>a, <2>1, <2>2, TypeFrame DEF maps, registry
<1>5. CASE WatchSubs
  <2>1. /\ UNCHANGED <<registry, keyPrefixes, graph, waits, reg, txnSeqNumber, queue, north, crashed>>
        /\ cons.pc = "subs" /\ cons' = [cons EXCEPT !.pc = "load"]
    BY <1>5 DEF WatchSubs
  <2>2. CASE UNCHANGED <<subs, broadcasts>>
    <3>1. ConsType'
      BY <1>0, <2>1, <2>2 DEF ConsType
    <3> QED
      BY <1>0, <1>a, <2>1, <2>2, <3>1, TypeFrame DEF registry
  <2>3. CASE /\ broadcasts' = Append(broadcasts, [serve |-> "range", closed |-> FALSE,
                                                  subscribers |-> {}, todo |-> {}])
             /\ subs' = [subs EXCEPT ![unimplPrefix] = Len(broadcasts) + 1]
    <3> DEFINE e == [serve |-> "range", closed |-> FALSE, subscribers |-> {}, todo |-> {}]
               n == Len(broadcasts)
    <3>1. e \in Broadcasts
      BY DEF Broadcasts
    <3> HIDE DEF e
    <3>2. broadcasts' \in Seq(Broadcasts) /\ Len(broadcasts') = n + 1
      BY <1>0, <2>3, <3>1 DEF BroadcastType, e
    <3> HIDE DEF n
    <3>3. n \in Nat /\ n + 1 \in 0..(n + 1) /\ \A i \in 0..n : i \in 0..(n + 1)
      BY <1>b DEF n
    <3>4. BroadcastType'
      BY <1>0, <2>1, <2>3, <3>2, <3>3 DEF BroadcastType, n
    <3>5. ConsType' /\ RegType'
      BY <1>0, <2>1, <3>2, <3>3 DEF ConsType, RegType, n, registry
    <3> QED
      BY <1>0, <1>a, <2>1, <3>4, <3>5, TypeFrame DEF registry
  <2> QED
    BY <1>5, <2>2, <2>3 DEF WatchSubs
<1>6. CASE LoadBroadcast
  <2>1. unimplPrefix \in Descriptors
    BY <1>0, <1>6, UnimplKey DEF LoadBroadcast
  <2>2. subs[unimplPrefix] \in 0..Len(broadcasts)
    BY <1>0, <2>1 DEF BroadcastType
  <2>3. ConsType'
    BY <1>0, <1>6, <2>2 DEF LoadBroadcast, ConsType
  <2>4. ValueType'
    BY <1>0, <1>6 DEF LoadBroadcast, ValueType, graph, north
  <2> QED
    BY <1>0, <1>a, <1>6, <2>3, <2>4, TypeFrame DEF LoadBroadcast, maps, registry
<1>7. CASE Subscribe
  <2>1. /\ UNCHANGED <<registry, maps, graph, reg, txnSeqNumber, queue, north, crashed>>
        /\ cons.pc = "subscribe" /\ implScheduled("empty")
    BY <1>7 DEF Subscribe
  <2>2. cons.b \in DOMAIN broadcasts /\ Len(waits) + 1 \in Nat
    BY <1>0, <2>1 DEF ConsType, BroadcastType
  <2>3. broadcasts[cons.b] \in Broadcasts
    BY <1>0, <2>2 DEF BroadcastType
  <2>4. [broadcasts[cons.b] EXCEPT !.subscribers = @ \cup {Len(waits) + 1}] \in Broadcasts
    BY <2>2, <2>3 DEF Broadcasts
  <2>5. updated(cons.b, [broadcasts[cons.b] EXCEPT !.subscribers = @ \cup {Len(waits) + 1}])
    BY <1>7 DEF Subscribe, updated
  <2>6. broadcasts' \in Seq(Broadcasts) /\ Len(broadcasts') = Len(broadcasts)
    BY <1>0, <2>2, <2>4, <2>5, BroadcastUpdate DEF BroadcastType
  <2>7. BroadcastType' /\ ConsType'
    BY <1>0, <2>1, <2>6, TypeScheduled DEF maps
  <2> QED
    BY <1>0, <1>a, <2>1, <2>6, <2>7, TypeFrame DEF maps, registry
<1> QED
  BY <1>1, <1>2, <1>3, <1>4, <1>5, <1>6, <1>7 DEF Consume

\* Every step keeps the types and the registry.
LEMMA TypeNext == TypeOK /\ RegistryInv /\ [Next]_vars => TypeOK' /\ RegistryInv'
<1> SUFFICES ASSUME TypeOK, RegistryInv, [Next]_vars PROVE TypeOK' /\ RegistryInv'
  OBVIOUS
<1>0. RegistryType /\ BroadcastType /\ RegType /\ ConsType /\ ValueType
  BY TypeParts
<1>a. UNCHANGED registry => RegistryInv'
  BY DEF RegistryInv, Sound, registry
<1>1. CASE ~crashed /\ (Register \/ \E d \in Descriptors : RegisterDescriptor(d))
  <2>1. CASE Register
    BY <1>1, <1>a, <2>1, TypeRegister DEF Register, RegisterPrefix, RegisterMetadataMap,
       FindSubscribers, SendToSource, CloseSource, DeleteSubscription
  <2>2. ASSUME NEW d \in Descriptors, RegisterDescriptor(d) PROVE RegistryInv'
    BY <2>2 DEF RegistryInv, Sound, RegisterDescriptor
  <2> QED
    BY <1>1, <2>1, <2>2, TypeRegister
<1>2. ASSUME NEW b \in DOMAIN broadcasts, Serve(b), ~crashed PROVE TypeOK' /\ RegistryInv'
  BY <1>2, <1>a, TypeServe DEF Serve, BroadcastLock, BroadcastSend, BroadcastUnlock, BroadcastClose
<1>3. CASE ~crashed /\ Consume
  BY <1>3, TypeConsume
<1>4. ASSUME NEW w \in DOMAIN waits, WaitOver(w) PROVE TypeOK' /\ RegistryInv'
  <2>1. waits \in Seq(Waits) /\ waits[w] \in Waits /\ w \in 1..Len(waits)
    BY <1>0 DEF BroadcastType
  <2>2. [waits[w] EXCEPT !.pc = "done"] \in Waits
    BY <2>1 DEF Waits
  <2>3. waits' = [waits EXCEPT ![w] = [waits[w] EXCEPT !.pc = "done"]]
    BY <1>4 DEF WaitOver
  <2>4. waits' \in Seq(Waits)
    BY <2>1, <2>2, <2>3, ExceptSeq
  <2>5. [type |-> "RetryUnimplOps", put |-> {waits[w].key}, del |-> {}, rev |-> waits[w].rev]
            \in Transactions
    BY <2>1 DEF Waits, Transactions
  <2>6. queue' \in Seq(Transactions)
    BY <1>0, <1>4, <2>5 DEF WaitOver, ValueType
  <2>7. BroadcastType'
    BY <1>0, <1>4, <2>4 DEF WaitOver, BroadcastType, maps
  <2>8. ValueType'
    BY <1>0, <1>4, <2>6 DEF WaitOver, ValueType, graph, north
  <2> QED
    BY <1>0, <1>a, <1>4, <2>7, <2>8, TypeFrame DEF WaitOver, maps, registry
<1>5. ASSUME NEW k \in Keys, Lookup(k) PROVE TypeOK' /\ RegistryInv'
  <2>1. Sound(cacheAfter(k)) /\ cacheAfter(k) \in Seq(CacheEntries)
    BY <1>0, LookupSound DEF RegistryInv, RegistryType, Sound
  <2>2. RegistryInv' /\ RegistryType'
    BY <1>0, <1>5, <2>1 DEF RegistryInv, RegistryType, Lookup, Sound, maps
  <2> QED
    BY <1>0, <1>5, <2>2, TypeFrame DEF Lookup, maps, registry
<1>6. ASSUME NEW put \in SUBSET Keys, NEW del \in SUBSET Keys, Commit(put, del)
      PROVE  TypeOK' /\ RegistryInv'
  <2>1. [NoTxn EXCEPT !.put = put, !.del = del] \in Transactions
    BY DEF NoTxn, Transactions
  <2>2. queue' \in Seq(Transactions)
    BY <1>0, <1>6, <2>1 DEF Commit, ValueType
  <2>3. commits' \in 0..MaxTxns
    BY <1>0, <1>6, RegistrationAssumption DEF Commit, ValueType
  <2>4. ValueType'
    BY <1>0, <1>6, <2>2, <2>3 DEF Commit, ValueType, graph
  <2> QED
    BY <1>0, <1>a, <1>6, <2>4, TypeFrame DEF Commit, maps, registry
<1>7. CASE ConcurrentMapAccess
  <2>1. ValueType' /\ ConsType'
    BY <1>0, <1>7 DEF ConcurrentMapAccess, ValueType, ConsType, graph, north
  <2> QED
    BY <1>0, <1>a, <1>7, <2>1, TypeFrame DEF ConcurrentMapAccess, maps, registry
<1>8. CASE UNCHANGED vars
  BY <1>0, <1>a, <1>8, TypeFrame DEF vars, maps, registry
<1> QED
  BY <1>1, <1>2, <1>3, <1>4, <1>5, <1>6, <1>7, <1>8 DEF Next

\* Initially nothing is registered and nothing cached.
LEMMA RegistryInit == Init => RegistryInv
<1>1. <<>> \in Seq(CacheEntries) /\ Len(<<>>) = 0
  OBVIOUS
<1>2. MaxKeyCacheSize \in Nat
  BY RegistrationAssumption
<1> QED
  BY <1>1, <1>2 DEF Init, RegistryInv, Sound

\* The state of registration and of waiting keeps its types.
THEOREM RegistrationTypes == Spec => []TypeOK
  BY TypeInit, RegistryInit, TypeNext, PTL DEF Spec

\* At any moment the cache answers as a search of all descriptors would, and
\* the list by which values are retrieved, while it counts as up to date, has
\* every registered descriptor once and after the ones its Retrieve depends on
\* (RegistrySound): for any descriptors, keys and size of the cache.
THEOREM RegistryIsSound == Spec => []RegistrySound
<1>1. TypeOK /\ RegistryInv => RegistrySound
  <2> SUFFICES ASSUME TypeOK, RegistryInv PROVE RegistrySound
    OBVIOUS
  <2>1. CacheSound
    <3>1. keyCache \in Seq(CacheEntries)
      BY DEF RegistryInv, Sound
    <3>2. DOMAIN keyCache = 1..Len(keyCache)
      BY <3>1
    <3> QED
      BY <3>2 DEF RegistryInv, Sound, CacheSound
  <2>2. ListOrdered
    <3> SUFFICES ASSUME upToDateDescList PROVE ListOrdered
      BY DEF ListOrdered
    <3>1. Ordered(descriptorList, descriptors)
      BY DEF RegistryInv
    <3>2. descriptorList \in Seq(descriptors)
      BY <3>1 DEF Ordered
    <3>3. \A i \in DOMAIN descriptorList : descriptorList[i] \in descriptors
      BY <3>2
    <3>4. ToSet(descriptorList) = descriptors
      BY <3>1, <3>3 DEF Ordered, ToSet
    <3> QED
      BY <3>1, <3>4 DEF Ordered, ListOrdered
  <2> QED
    BY <2>1, <2>2 DEF RegistrySound
<1> QED
  BY <1>1, TypeInit, RegistryInit, TypeNext, PTL DEF Spec

-----------------------------------------------------------------------------
(* Waits for a registration *)

\* the registration of d has not looked for subscribers yet
before(d) == d \notin keyPrefixes \/ (reg.d = d /\ reg.pc \in {"metadata", "subs"})

\* the wait w is one for the registration of d, and nobody has told it yet
waitsFor(w, d) == SelectedBy[waits[w].key] = d /\ waits[w].ch = "empty"

\* The registration goes on from its prefix to the broadcast of its descriptor.
RegInv ==
    /\ reg.pc = "prefix" => reg.d \notin keyPrefixes
    /\ reg.pc \notin {"idle", "prefix"} => reg.d \in keyPrefixes
    /\ reg.pc = "metadata" => reg.d \in WithMetadata
    /\ reg.pc \in {"send", "close", "delete"} => reg.sbc = subs[reg.d]

\* A broadcast belongs to one descriptor; it receives what one registration
\* sends, and nothing before.
BroadcastInv ==
    /\ \A d, e \in Descriptors : subs[d] = subs[e] /\ subs[d] # 0 => d = e
    /\ \A d \in Descriptors : before(d) /\ subs[d] # 0 =>
          broadcasts[subs[d]].serve = "range" /\ ~broadcasts[subs[d]].closed
    /\ \A b \in DOMAIN broadcasts : broadcasts[b].serve \in {"received", "broadcast"} =>
          broadcasts[b].closed \/ (reg.pc = "close" /\ reg.sbc = b)

\* While the consumer subscribes it holds the lock of the graph, and so keeps
\* the registration of a descriptor with metadata from going on.
ConsumerInv ==
    cons.pc \in {"subs", "load", "subscribe"} =>
        /\ unimplPrefix \in WithMetadata =>
              unimplPrefix \notin keyPrefixes \/ (reg.d = unimplPrefix /\ reg.pc = "metadata")
        /\ cons.pc = "load" /\ before(unimplPrefix) => subs[unimplPrefix] # 0
        /\ cons.pc = "subscribe" /\ before(unimplPrefix) =>
              cons.b = subs[unimplPrefix] /\ cons.b # 0

\* Whoever waits is subscribed to the broadcast of the descriptor before its
\* registration looks for it, and to one that is certain to come afterwards.
WaitInv ==
    \A w \in DOMAIN waits : \A d \in Descriptors : waitsFor(w, d) =>
        /\ before(d) => subs[d] # 0 /\ w \in broadcasts[subs[d]].subscribers
        /\ ~before(d) /\ d \in WithMetadata =>
              \E b \in DOMAIN broadcasts : /\ w \in broadcasts[b].subscribers
                                           /\ broadcasts[b].serve # "end" /\ willServe(b)

SubscribeInv == RegInv /\ BroadcastInv /\ ConsumerInv /\ WaitInv

\* Nothing is registered and nobody waits initially.
LEMMA SubscribeInit == Init => SubscribeInv
  BY DEF Init, SubscribeInv, RegInv, BroadcastInv, ConsumerInv, WaitInv, RegIdle, ConsIdle

\* What changes neither the registration nor subscriptions nor broadcasts, and
\* nothing about who waits without having been told, keeps the invariant, but
\* for the consumer.
LEMMA SubscribeFrame ==
    ASSUME SubscribeInv, UNCHANGED <<reg, keyPrefixes, subs, broadcasts>>,
           \A w \in DOMAIN waits' : \A d \in Descriptors :
              waitsFor(w, d)' => w \in DOMAIN waits /\ waitsFor(w, d)
    PROVE  RegInv' /\ BroadcastInv' /\ WaitInv'
<1>1. RegInv'
  BY DEF SubscribeInv, RegInv
<1>2. BroadcastInv'
  BY DEF SubscribeInv, BroadcastInv, before
<1>3. WaitInv'
  BY DEF SubscribeInv, WaitInv, before, willServe
<1> QED
  BY <1>1, <1>2, <1>3

\* A registration looks for subscribers only while nobody is about to subscribe,
\* and what it finds is everybody who waits.
LEMMA SubscribeRegister ==
    ASSUME TypeOK, SubscribeInv, ~crashed, Register \/ \E d \in Descriptors : RegisterDescriptor(d)
    PROVE  SubscribeInv'
<1>0. RegistryType /\ BroadcastType /\ RegType /\ ConsType /\ ValueType
  BY TypeParts
<1>t. /\ reg \in [pc : {"idle", "prefix", "metadata", "subs", "send", "close", "delete"},
                  d : descriptors \cup {NoDescriptor}, sbc : 0..Len(broadcasts)]
      /\ reg.pc # "idle" => reg.d \in Descriptors
      /\ subs \in [Descriptors -> 0..Len(broadcasts)] /\ broadcasts \in Seq(Broadcasts)
      /\ NoDescriptor \notin Descriptors /\ DOMAIN broadcasts = 1..Len(broadcasts)
  <2>1. reg \in [pc : {"idle", "prefix", "metadata", "subs", "send", "close", "delete"},
                 d : descriptors \cup {NoDescriptor}, sbc : 0..Len(broadcasts)]
    BY <1>0 DEF RegType
  <2>2. reg.pc # "idle" => reg.d \in Descriptors
    BY <1>0 DEF RegType, RegistryType
  <2>3. subs \in [Descriptors -> 0..Len(broadcasts)] /\ broadcasts \in Seq(Broadcasts)
    BY <1>0 DEF BroadcastType
  <2>4. NoDescriptor \notin Descriptors
    BY RegistrationAssumption
  <2>5. DOMAIN broadcasts = 1..Len(broadcasts)
    BY <2>3
  <2> QED
    BY <2>1, <2>2, <2>3, <2>4, <2>5
<1>i. RegInv /\ BroadcastInv /\ ConsumerInv /\ WaitInv
  BY DEF SubscribeInv
<1>1. ASSUME NEW d0 \in Descriptors, RegisterDescriptor(d0) PROVE SubscribeInv'
  <2>1. /\ reg.pc = "idle" /\ reg'.pc = "prefix" /\ reg'.d = d0 /\ reg'.sbc = reg.sbc
        /\ UNCHANGED <<keyPrefixes, subs, broadcasts, waits, cons>> /\ d0 \notin keyPrefixes
    BY <1>0, <1>t, <1>1 DEF RegisterDescriptor, maps, RegistryType
  <2>2. \A d \in Descriptors : before(d)' <=> before(d)
    BY <2>1 DEF before
  <2>3. RegInv'
    BY <2>1 DEF RegInv
  <2>4. BroadcastInv'
    BY <1>i, <2>1, <2>2 DEF BroadcastInv
  <2>5. ConsumerInv'
    BY <1>i, <2>1 DEF ConsumerInv, unimplPrefix, unimplKey, before
  <2>6. WaitInv'
    BY <1>i, <2>1, <2>2 DEF WaitInv, waitsFor, willServe
  <2> QED
    BY <2>3, <2>4, <2>5, <2>6 DEF SubscribeInv
<1>2. CASE RegisterPrefix
  <2>1. /\ reg.pc = "prefix" /\ reg'.pc = (IF reg.d \in WithMetadata THEN "metadata" ELSE "subs")
        /\ reg'.d = reg.d /\ reg'.sbc = reg.sbc /\ keyPrefixes' = keyPrefixes \cup {reg.d}
        /\ UNCHANGED <<subs, broadcasts, waits, cons>> /\ reg.d \notin keyPrefixes
    BY <1>t, <1>i, <1>2 DEF RegisterPrefix, RegInv
  <2>2. \A d \in Descriptors : before(d)' <=> before(d)
    BY <2>1 DEF before
  <2>3. RegInv'
    BY <2>1 DEF RegInv
  <2>4. BroadcastInv'
    BY <1>i, <2>1, <2>2 DEF BroadcastInv
  <2>5. ConsumerInv'
    BY <1>i, <2>1 DEF ConsumerInv, unimplPrefix, unimplKey, before
  <2>6. WaitInv'
    BY <1>i, <2>1, <2>2 DEF WaitInv, waitsFor, willServe
  <2> QED
    BY <2>3, <2>4, <2>5, <2>6 DEF SubscribeInv
<1>3. CASE RegisterMetadataMap
  <2>1. /\ reg.pc = "metadata" /\ reg'.pc = "subs" /\ reg'.d = reg.d /\ reg'.sbc = reg.sbc
        /\ UNCHANGED <<keyPrefixes, subs, broadcasts, waits, cons>> /\ ~graphLocked
    BY <1>t, <1>3 DEF RegisterMetadataMap, maps
  <2>2. \A d \in Descriptors : before(d)' <=> before(d)
    BY <2>1 DEF before
  <2>3. RegInv'
    BY <1>i, <2>1 DEF RegInv
  <2>4. BroadcastInv'
    BY <1>i, <2>1, <2>2 DEF BroadcastInv
  <2>5. ConsumerInv'
    BY <2>1 DEF ConsumerInv, graphLocked
  <2>6. WaitInv'
    BY <1>i, <2>1, <2>2 DEF WaitInv, waitsFor, willServe
  <2> QED
    BY <2>3, <2>4, <2>5, <2>6 DEF SubscribeInv
<1>4. CASE FindSubscribers
  <2>1. /\ reg.pc = "subs" /\ reg.d \in keyPrefixes /\ reg.d \in Descriptors
        /\ UNCHANGED <<keyPrefixes, subs, broadcasts, waits, cons>>
    BY <1>t, <1>i, <1>4 DEF FindSubscribers, RegInv, maps
  <2>2. IF subs[reg.d] = 0 THEN reg'.pc = "idle" /\ reg'.d = NoDescriptor
        ELSE reg'.pc = "send" /\ reg'.d = reg.d /\ reg'.sbc = subs[reg.d]
    BY <1>t, <1>4 DEF FindSubscribers, RegIdle
  <2>3. \A d \in Descriptors : before(d)' <=> before(d) /\ d # reg.d
    BY <1>t, <2>1, <2>2 DEF before
  <2>4. RegInv'
    BY <2>1, <2>2 DEF RegInv
  <2>5. BroadcastInv'
    BY <1>i, <2>1, <2>3 DEF BroadcastInv
  <2>6. ConsumerInv'
    <3>1. unimplPrefix' = unimplPrefix
      BY <2>1 DEF unimplPrefix, unimplKey
    <3>2. before(unimplPrefix)' => before(unimplPrefix)
      BY <1>t, <2>1, <2>2, <3>1 DEF before
    <3> QED
      BY <1>i, <2>1, <3>1, <3>2 DEF ConsumerInv
  <2>7. WaitInv'
    <3> SUFFICES ASSUME NEW w \in DOMAIN waits, NEW d \in Descriptors, waitsFor(w, d)
                 PROVE  /\ before(d)' => subs[d] # 0 /\ w \in broadcasts[subs[d]].subscribers
                        /\ ~before(d)' /\ d \in WithMetadata =>
                              \E b \in DOMAIN broadcasts : /\ w \in broadcasts[b].subscribers
                                                           /\ broadcasts[b].serve # "end" /\ willServe(b)'
      BY <2>1 DEF WaitInv, waitsFor
    <3>1. CASE d # reg.d
      <4>1. \A b : willServe(b) => willServe(b)'
        BY <2>1 DEF willServe
      <4> QED
        BY <1>i, <2>3, <3>1, <4>1 DEF WaitInv
    <3>2. CASE d = reg.d
      <4>1. before(d) /\ ~before(d)'
        BY <2>1, <2>3, <3>2 DEF before
      <4>2. subs[d] # 0 /\ w \in broadcasts[subs[d]].subscribers /\ broadcasts[subs[d]].serve = "range"
        BY <1>i, <4>1 DEF WaitInv, BroadcastInv
      <4>3. subs[d] \in DOMAIN broadcasts
        BY <1>t, <4>2
      <4>4. PICK b \in DOMAIN broadcasts : b = subs[d]
        BY <4>3
      <4>5. willServe(b)'
        BY <2>2, <3>2, <4>2, <4>4 DEF willServe
      <4> QED
        BY <4>1, <4>2, <4>4, <4>5
    <3> QED
      BY <3>1, <3>2
  <2> QED
    BY <2>4, <2>5, <2>6, <2>7 DEF SubscribeInv
<1>5. CASE SendToSource \/ CloseSource
  <2> DEFINE b0 == reg.sbc
             e == IF reg.pc = "send" THEN [broadcasts[b0] EXCEPT !.serve = "received"]
                  ELSE [broadcasts[b0] EXCEPT !.closed = TRUE]
  <2>1. /\ reg.pc \in {"send", "close"} /\ reg'.pc = (IF reg.pc = "send" THEN "close" ELSE "delete")
        /\ reg'.d = reg.d /\ reg'.sbc = b0
        /\ UNCHANGED <<keyPrefixes, subs, waits, cons>> /\ reg.d \in keyPrefixes
        /\ b0 = subs[reg.d] /\ b0 # 0 /\ reg.d \in Descriptors
    BY <1>0, <1>t, <1>i, <1>5 DEF SendToSource, CloseSource, RegInv, RegType, maps
  <2>2. b0 \in DOMAIN broadcasts /\ broadcasts[b0] \in Broadcasts
    BY <1>t, <2>1
  <2>3. e \in Broadcasts /\ updated(b0, e)
    BY <1>5, <2>2 DEF SendToSource, CloseSource, updated, Broadcasts
  <2>4. e.subscribers = broadcasts[b0].subscribers
    BY <2>2 DEF Broadcasts
  <2>5. IF reg.pc = "send" THEN e.serve = "received" /\ e.closed = broadcasts[b0].closed
        ELSE e.serve = broadcasts[b0].serve /\ e.closed = TRUE
    BY <2>1, <2>2 DEF Broadcasts
  <2>6. reg.pc = "send" => broadcasts[b0].serve = "range"
    BY <1>5 DEF SendToSource, CloseSource
  <2> HIDE DEF e
  <2>7. /\ DOMAIN broadcasts' = DOMAIN broadcasts /\ broadcasts'[b0] = e
        /\ \A c \in DOMAIN broadcasts \ {b0} : broadcasts'[c] = broadcasts[c]
    BY <1>t, <2>2, <2>3, BroadcastUpdate
  <2>8. \A d \in Descriptors : before(d)' <=> before(d)
    BY <2>1 DEF before
  <2>9. \A d \in Descriptors : before(d) => subs[d] # b0
    BY <1>i, <2>1 DEF before, BroadcastInv
  <2>10. RegInv'
    BY <1>i, <2>1 DEF RegInv
  <2>11. BroadcastInv'
    <3>1. \A d \in Descriptors : before(d)' /\ subs'[d] # 0 =>
              broadcasts'[subs'[d]].serve = "range" /\ ~broadcasts'[subs'[d]].closed
      BY <1>t, <1>i, <2>1, <2>7, <2>8, <2>9 DEF BroadcastInv
    <3>2. \A b \in DOMAIN broadcasts' : broadcasts'[b].serve \in {"received", "broadcast"} =>
              broadcasts'[b].closed \/ (reg'.pc = "close" /\ reg'.sbc = b)
      BY <1>i, <2>1, <2>5, <2>7 DEF BroadcastInv
    <3> QED
      BY <1>i, <2>1, <3>1, <3>2 DEF BroadcastInv
  <2>12. ConsumerInv'
    <3>1. unimplPrefix' = unimplPrefix
      BY <2>1 DEF unimplPrefix, unimplKey
    <3>2. before(unimplPrefix)' => before(unimplPrefix)
      BY <2>1, <3>1 DEF before
    <3> QED
      BY <1>i, <2>1, <3>1, <3>2 DEF ConsumerInv
  <2>13. \A b \in DOMAIN broadcasts : willServe(b) => willServe(b)'
    BY <1>i, <2>1, <2>5, <2>6, <2>7 DEF willServe, BroadcastInv
  <2>14. \A b \in DOMAIN broadcasts : /\ broadcasts'[b].subscribers = broadcasts[b].subscribers
                                      /\ broadcasts[b].serve # "end" => broadcasts'[b].serve # "end"
    BY <2>4, <2>5, <2>7
  <2>15. WaitInv'
    <3> SUFFICES ASSUME NEW w \in DOMAIN waits, NEW d \in Descriptors, waitsFor(w, d)
                 PROVE  /\ before(d) => subs[d] # 0 /\ w \in broadcasts'[subs[d]].subscribers
                        /\ ~before(d) /\ d \in WithMetadata =>
                              \E b \in DOMAIN broadcasts' : /\ w \in broadcasts'[b].subscribers
                                                            /\ broadcasts'[b].serve # "end" /\ willServe(b)'
      BY <2>1, <2>8 DEF WaitInv, waitsFor
    <3> QED
      BY <1>t, <1>i, <2>7, <2>13, <2>14 DEF WaitInv
  <2> QED
    BY <2>10, <2>11, <2>12, <2>15 DEF SubscribeInv
<1>6. CASE DeleteSubscription
  <2>1. /\ reg.pc = "delete" /\ reg'.pc = "idle" /\ reg'.d = NoDescriptor
        /\ UNCHANGED <<keyPrefixes, broadcasts, waits, cons>> /\ reg.d \in keyPrefixes
        /\ reg.d \in Descriptors /\ subs'[reg.d] = 0
        /\ \A d \in Descriptors \ {reg.d} : subs'[d] = subs[d]
    BY <1>t, <1>i, <1>6 DEF DeleteSubscription, RegInv, RegIdle
  <2>2. \A d \in Descriptors : before(d)' <=> before(d)
    BY <1>t, <2>1 DEF before
  <2>3. \A d \in Descriptors : before(d) => d # reg.d
    BY <2>1 DEF before
  <2>4. RegInv'
    BY <2>1 DEF RegInv
  <2>5. BroadcastInv'
    BY <1>i, <2>1, <2>2, <2>3 DEF BroadcastInv
  <2>6. ConsumerInv'
    <3>1. unimplPrefix' = unimplPrefix
      BY <2>1 DEF unimplPrefix, unimplKey
    <3>2. cons.pc # "idle" => unimplPrefix \in Descriptors
      BY <1>0, UnimplKey
    <3> QED
      BY <1>i, <2>1, <2>2, <2>3, <3>1, <3>2 DEF ConsumerInv
  <2>7. WaitInv'
    BY <1>i, <2>1, <2>2, <2>3 DEF WaitInv, waitsFor, willServe
  <2> QED
    BY <2>4, <2>5, <2>6, <2>7 DEF SubscribeInv
<1> QED
  BY <1>1, <1>2, <1>3, <1>4, <1>5, <1>6 DEF Register

\* A broadcast reaches everybody who is subscribed to it.
LEMMA SubscribeServe ==
    ASSUME TypeOK, SubscribeInv, ~crashed, NEW b \in DOMAIN broadcasts, Serve(b)
    PROVE  SubscribeInv'
<1>0. BroadcastType /\ ConsType
  BY TypeParts
<1>t. /\ broadcasts \in Seq(Broadcasts) /\ broadcasts[b] \in Broadcasts
      /\ subs \in [Descriptors -> 0..Len(broadcasts)]
      /\ waits \in Seq(Waits) /\ \A w \in DOMAIN waits : waits[w] \in Waits
  BY <1>0 DEF BroadcastType
<1>d. DOMAIN broadcasts = 1..Len(broadcasts)
  BY <1>t
<1>i. RegInv /\ BroadcastInv /\ ConsumerInv /\ WaitInv
  BY DEF SubscribeInv
<1>u. UNCHANGED <<reg, keyPrefixes, subs, cons>>
  BY DEF Serve, BroadcastLock, BroadcastSend, BroadcastUnlock, BroadcastClose, maps
<1>1. RegInv' /\ ConsumerInv' /\ \A d \in Descriptors : before(d)' <=> before(d)
  BY <1>i, <1>u DEF RegInv, ConsumerInv, before, unimplPrefix, unimplKey
<1>2. \E e \in Broadcasts :
         /\ updated(b, e)
         /\ e.subscribers = broadcasts[b].subscribers /\ e.closed = broadcasts[b].closed
         /\ broadcasts[b].serve # "range" \/ broadcasts[b].closed
         /\ \/ e.serve \in {"received", "broadcast"}
            \/ e.serve = "range" /\ broadcasts[b].serve = "broadcast"
            \/ e.serve = "end" /\ e.closed
               /\ \A w \in DOMAIN waits \cap broadcasts[b].subscribers : waits'[w].ch = "ready"
         /\ e.serve \in {"received", "broadcast"} =>
               broadcasts[b].serve \in {"received", "broadcast"}
  <2>1. CASE BroadcastLock(b)
    <3> DEFINE e == [broadcasts[b] EXCEPT !.serve = "broadcast",
                                          !.todo = @ \cup broadcasts[b].subscribers]
    <3>1. /\ e \in Broadcasts /\ e.serve = "broadcast"
          /\ e.subscribers = broadcasts[b].subscribers /\ e.closed = broadcasts[b].closed
      BY <1>t DEF Broadcasts
    <3>2. updated(b, e) /\ broadcasts[b].serve = "received"
      BY <2>1 DEF BroadcastLock, updated
    <3> HIDE DEF e
    <3> QED
      BY <3>1, <3>2
  <2>2. CASE \E w \in DOMAIN waits : BroadcastSend(b, w)
    <3>0. PICK w \in DOMAIN waits : BroadcastSend(b, w)
      BY <2>2
    <3> DEFINE e == [broadcasts[b] EXCEPT !.todo = @ \ {w}]
    <3>1. /\ e \in Broadcasts /\ e.serve = broadcasts[b].serve
          /\ e.subscribers = broadcasts[b].subscribers /\ e.closed = broadcasts[b].closed
      BY <1>t DEF Broadcasts
    <3>2. updated(b, e) /\ broadcasts[b].serve = "broadcast"
      BY <3>0 DEF BroadcastSend, updated
    <3> HIDE DEF e
    <3> QED
      BY <3>1, <3>2
  <2>3. CASE BroadcastUnlock(b)
    <3> DEFINE e == [broadcasts[b] EXCEPT !.serve = "range"]
    <3>1. /\ e \in Broadcasts /\ e.serve = "range"
          /\ e.subscribers = broadcasts[b].subscribers /\ e.closed = broadcasts[b].closed
      BY <1>t DEF Broadcasts
    <3>2. updated(b, e) /\ broadcasts[b].serve = "broadcast"
      BY <2>3 DEF BroadcastUnlock, updated
    <3> HIDE DEF e
    <3> QED
      BY <3>1, <3>2
  <2>4. CASE BroadcastClose(b)
    <3> DEFINE e == [broadcasts[b] EXCEPT !.serve = "end"]
    <3>1. /\ e \in Broadcasts /\ e.serve = "end"
          /\ e.subscribers = broadcasts[b].subscribers /\ e.closed = broadcasts[b].closed
      BY <1>t DEF Broadcasts
    <3>2. updated(b, e) /\ broadcasts[b].serve = "range" /\ broadcasts[b].closed
      BY <2>4 DEF BroadcastClose, updated
    <3>3. \A w \in DOMAIN waits \cap broadcasts[b].subscribers : waits'[w].ch = "ready"
      BY <1>t, <2>4 DEF BroadcastClose, Waits
    <3> HIDE DEF e
    <3> QED
      BY <3>1, <3>2, <3>3
  <2> QED
    BY <2>1, <2>2, <2>3, <2>4 DEF Serve
<1>3. PICK e \in Broadcasts :
         /\ updated(b, e)
         /\ e.subscribers = broadcasts[b].subscribers /\ e.closed = broadcasts[b].closed
         /\ broadcasts[b].serve # "range" \/ broadcasts[b].closed
         /\ \/ e.serve \in {"received", "broadcast"}
            \/ e.serve = "range" /\ broadcasts[b].serve = "broadcast"
            \/ e.serve = "end" /\ e.closed
               /\ \A w \in DOMAIN waits \cap broadcasts[b].subscribers : waits'[w].ch = "ready"
         /\ e.serve \in {"received", "broadcast"} =>
               broadcasts[b].serve \in {"received", "broadcast"}
  BY <1>2
<1>4. /\ DOMAIN broadcasts' = DOMAIN broadcasts /\ broadcasts'[b] = e
      /\ \A c \in DOMAIN broadcasts \ {b} : broadcasts'[c] = broadcasts[c]
  BY <1>t, <1>3, BroadcastUpdate
\* a wait that has been told stays told
<1>5. \A w \in DOMAIN waits' : \A d \in Descriptors :
         waitsFor(w, d)' => w \in DOMAIN waits /\ waitsFor(w, d)
  <2>1. CASE UNCHANGED waits
    BY <2>1 DEF waitsFor
  <2>2. CASE \E w \in DOMAIN waits : BroadcastSend(b, w)
    <3>0. PICK v \in DOMAIN waits : BroadcastSend(b, v)
      BY <2>2
    <3>1. DOMAIN waits' = DOMAIN waits
          /\ \A w \in DOMAIN waits : waits'[w] = IF w = v THEN [waits[w] EXCEPT !.ch = "ready"]
                                                          ELSE waits[w]
      BY <1>t, <3>0 DEF BroadcastSend
    <3>2. \A w \in DOMAIN waits : waits'[w].key = waits[w].key
                                  /\ (waits'[w].ch = "empty" => waits[w].ch = "empty")
      BY <1>t, <3>1 DEF Waits
    <3> QED
      BY <3>1, <3>2 DEF waitsFor
  <2>3. CASE BroadcastClose(b)
    <3>1. DOMAIN waits' = DOMAIN waits
          /\ \A w \in DOMAIN waits : waits'[w] = IF w \in broadcasts[b].subscribers
                                                 THEN [waits[w] EXCEPT !.ch = "ready"] ELSE waits[w]
      BY <2>3 DEF BroadcastClose
    <3>2. \A w \in DOMAIN waits : waits'[w].key = waits[w].key
                                  /\ (waits'[w].ch = "empty" => waits[w].ch = "empty")
      BY <1>t, <3>1 DEF Waits
    <3> QED
      BY <3>1, <3>2 DEF waitsFor
  <2> QED
    BY <2>1, <2>2, <2>3 DEF Serve, BroadcastLock, BroadcastUnlock
\* the broadcast of a registration that is still to come is left alone
<1>6. \A d \in Descriptors : before(d) /\ subs[d] # 0 => subs[d] # b /\ subs[d] \in DOMAIN broadcasts
  BY <1>t, <1>d, <1>i, <1>3 DEF BroadcastInv
<1>7. BroadcastInv'
  <2>1. \A d \in Descriptors : before(d) /\ subs[d] # 0 =>
           broadcasts'[subs[d]].serve = "range" /\ ~broadcasts'[subs[d]].closed
    BY <1>i, <1>4, <1>6 DEF BroadcastInv
  <2>2. \A c \in DOMAIN broadcasts : broadcasts'[c].serve \in {"received", "broadcast"} =>
           broadcasts'[c].closed \/ (reg.pc = "close" /\ reg.sbc = c)
    BY <1>i, <1>3, <1>4 DEF BroadcastInv
  <2> QED
    BY <1>i, <1>u, <1>1, <1>4, <2>1, <2>2 DEF BroadcastInv
<1>8. \A c \in DOMAIN broadcasts : willServe(c) => willServe(c)'
  <2>1. \A c \in DOMAIN broadcasts \ {b} : willServe(c) => willServe(c)'
    BY <1>u, <1>4 DEF willServe
  <2>2. CASE e.serve \in {"received", "broadcast"}
    BY <1>4, <2>1, <2>2 DEF willServe
  <2>3. CASE e.serve = "range" /\ broadcasts[b].serve = "broadcast"
    BY <1>i, <1>u, <1>3, <1>4, <2>1, <2>3 DEF willServe, BroadcastInv
  <2>4. CASE e.serve = "end"
    BY <1>u, <1>3, <1>4, <2>1, <2>4 DEF willServe
  <2> QED
    BY <1>3, <2>1, <2>2, <2>3, <2>4
<1>9. WaitInv'
  <2> SUFFICES ASSUME NEW w \in DOMAIN waits', NEW d \in Descriptors, waitsFor(w, d)'
               PROVE  /\ before(d) => subs[d] # 0 /\ w \in broadcasts'[subs[d]].subscribers
                      /\ ~before(d) /\ d \in WithMetadata =>
                            \E c \in DOMAIN broadcasts' : /\ w \in broadcasts'[c].subscribers
                                                          /\ broadcasts'[c].serve # "end"
                                                          /\ willServe(c)'
    BY <1>u, <1>1 DEF WaitInv
  <2>1. w \in DOMAIN waits /\ waitsFor(w, d) /\ waits'[w].ch = "empty"
    BY <1>5 DEF waitsFor
  <2>2. before(d) => subs[d] # 0 /\ w \in broadcasts'[subs[d]].subscribers
    BY <1>i, <1>4, <1>6, <2>1 DEF WaitInv
  <2>3. ASSUME ~before(d), d \in WithMetadata
        PROVE  \E c \in DOMAIN broadcasts' : /\ w \in broadcasts'[c].subscribers
                                             /\ broadcasts'[c].serve # "end" /\ willServe(c)'
    <3>1. PICK c \in DOMAIN broadcasts : /\ w \in broadcasts[c].subscribers
                                         /\ broadcasts[c].serve # "end" /\ willServe(c)
      BY <1>i, <2>1, <2>3 DEF WaitInv
    <3>2. w \in broadcasts'[c].subscribers /\ broadcasts'[c].serve # "end"
      BY <1>3, <1>4, <2>1, <3>1
    <3> QED
      BY <1>4, <1>8, <3>1, <3>2
  <2> QED
    BY <2>2, <2>3
<1> QED
  BY <1>1, <1>7, <1>9 DEF SubscribeInv

\* A consumer that subscribes to a descriptor with metadata does so before its
\* registration looks for subscribers.
LEMMA SubscribeConsume ==
    ASSUME TypeOK, SubscribeInv, ~crashed, Consume
    PROVE  SubscribeInv'
<1>0. BroadcastType /\ ConsType /\ RegType /\ RegistryType
  BY TypeParts
<1>t. /\ broadcasts \in Seq(Broadcasts) /\ waits \in Seq(Waits)
      /\ subs \in [Descriptors -> 0..Len(broadcasts)]
      /\ cons \in [pc : {"idle", "exec", "post", "prefix", "subs", "load", "subscribe"},
                   txn : Transactions, todo : SUBSET Keys, toImpl : SUBSET Keys,
                   b : 0..Len(broadcasts)]
  BY <1>0 DEF BroadcastType, ConsType
<1>d. DOMAIN broadcasts = 1..Len(broadcasts) /\ DOMAIN waits = 1..Len(waits)
  BY <1>t
<1>i. RegInv /\ BroadcastInv /\ ConsumerInv /\ WaitInv
  BY DEF SubscribeInv
<1>1. ASSUME UNCHANGED <<reg, keyPrefixes, subs, broadcasts, waits>>,
             cons'.pc \notin {"subs", "load", "subscribe"}
      PROVE  SubscribeInv'
  <2>1. RegInv' /\ BroadcastInv' /\ WaitInv'
    BY <1>1, SubscribeFrame DEF waitsFor
  <2> QED
    BY <1>1, <2>1 DEF SubscribeInv, ConsumerInv
<1>2. CASE TakeTransaction
  <2>1. cons'.pc \in {"idle", "exec"}
    BY <1>2 DEF TakeTransaction, ConsIdle
  <2> QED
    BY <1>1, <1>2, <2>1 DEF TakeTransaction, maps
<1>3. CASE \E k \in Keys : ExecuteValue(k)
  <2>1. PICK k \in Keys : ExecuteValue(k)
    BY <1>3
  <2>2. PICK todo, toImpl : cons' = endExec(todo, toImpl)
    BY <2>1 DEF ExecuteValue
  <2>3. cons'.pc \in {"idle", "exec", "post"}
    BY <1>t, <2>1, <2>2 DEF ExecuteValue, endExec, ConsIdle
  <2> QED
    BY <1>1, <2>1, <2>3 DEF ExecuteValue, maps
<1>4. CASE RefreshUnimplemented
  <2>1. cons'.pc \in {"idle", "prefix"}
    BY <1>t, <1>4 DEF RefreshUnimplemented, ConsIdle
  <2> QED
    BY <1>1, <1>4, <2>1 DEF RefreshUnimplemented, maps
<1>p. cons.pc # "idle" => unimplPrefix \in Descriptors /\ unimplKey \in Keys
  BY <1>0, UnimplKey
<1>e. ASSUME NEW ch \in {"empty", "ready"}, implScheduled(ch)
      PROVE  /\ cons'.pc \in {"idle", "prefix"}
             /\ DOMAIN waits' = 1..(Len(waits) + 1)
             /\ waits'[Len(waits) + 1].key = unimplKey /\ waits'[Len(waits) + 1].ch = ch
             /\ \A w \in DOMAIN waits : waits'[w] = waits[w]
  <2>1. cons'.pc \in {"idle", "prefix"}
    BY <1>t, <1>e DEF implScheduled, ConsIdle
  <2> DEFINE x == [key |-> unimplKey, rev |-> value[unimplKey].rev, ch |-> ch, pc |-> "waiting"]
  <2>2. waits' = Append(waits, x) /\ x.key = unimplKey /\ x.ch = ch
    BY <1>e DEF implScheduled
  <2> HIDE DEF x
  <2> QED
    BY <1>t, <1>d, <2>1, <2>2
<1>5. CASE WatchPrefix
  <2>1. UNCHANGED <<reg, keyPrefixes, subs, broadcasts>> /\ cons.pc = "prefix"
    BY <1>5 DEF WatchPrefix, maps
  <2>2. CASE unimplPrefix \in keyPrefixes
    <3>1. implScheduled("ready")
      BY <1>5, <2>2 DEF WatchPrefix
    <3>2. /\ cons'.pc \in {"idle", "prefix"} /\ DOMAIN waits' = 1..(Len(waits) + 1)
          /\ waits'[Len(waits) + 1].ch = "ready"
          /\ \A w \in DOMAIN waits : waits'[w] = waits[w]
      BY <1>e, <3>1
    <3>3. \A w \in DOMAIN waits' : w \in DOMAIN waits \/ w = Len(waits) + 1
      BY <1>t, <1>d, <3>2
    <3>4. RegInv' /\ BroadcastInv' /\ WaitInv'
      BY <2>1, <3>2, <3>3, SubscribeFrame DEF waitsFor
    <3> QED
      BY <3>2, <3>4 DEF SubscribeInv, ConsumerInv
  <2>3. CASE unimplPrefix \notin keyPrefixes
    <3>1. cons' = [cons EXCEPT !.pc = "subs"] /\ UNCHANGED waits
      BY <1>5, <2>3 DEF WatchPrefix
    <3>2. cons'.pc = "subs" /\ unimplPrefix' = unimplPrefix
      BY <1>t, <3>1 DEF unimplPrefix, unimplKey
    <3>3. RegInv' /\ BroadcastInv' /\ WaitInv'
      BY <2>1, <3>1, SubscribeFrame DEF waitsFor
    <3> QED
      BY <2>1, <2>3, <3>2, <3>3 DEF SubscribeInv, ConsumerInv
  <2> QED
    BY <2>2, <2>3
<1>6. CASE WatchSubs
  <2>1. /\ UNCHANGED <<reg, keyPrefixes, waits>> /\ cons.pc = "subs" /\ cons'.pc = "load"
        /\ unimplPrefix' = unimplPrefix /\ unimplPrefix \in Descriptors
    BY <1>t, <1>p, <1>6 DEF WatchSubs, unimplPrefix, unimplKey
  <2>2. CASE subs[unimplPrefix] # 0
    <3>1. UNCHANGED <<subs, broadcasts>>
      BY <1>6, <2>2 DEF WatchSubs
    <3>2. RegInv' /\ BroadcastInv' /\ WaitInv'
      BY <2>1, <3>1, SubscribeFrame DEF waitsFor
    <3>3. ConsumerInv'
      BY <1>i, <2>1, <2>2, <3>1 DEF ConsumerInv
    <3> QED
      BY <3>2, <3>3 DEF SubscribeInv
  <2>3. CASE subs[unimplPrefix] = 0
    <3> DEFINE n == Len(broadcasts)
               x == [serve |-> "range", closed |-> FALSE, subscribers |-> {}, todo |-> {}]
    <3>1. n \in Nat /\ n + 1 # 0 /\ n + 1 \notin 0..n
      BY <1>t
    <3>2. /\ broadcasts' = Append(broadcasts, x) /\ x.serve = "range" /\ x.closed = FALSE
          /\ subs' = [subs EXCEPT ![unimplPrefix] = n + 1]
      BY <1>6, <2>3 DEF WatchSubs
    <3> HIDE DEF x
    <3>3. /\ DOMAIN broadcasts' = 1..(n + 1) /\ broadcasts'[n + 1] = x
          /\ \A c \in DOMAIN broadcasts : c \in DOMAIN broadcasts' /\ broadcasts'[c] = broadcasts[c]
      BY <1>t, <1>d, <3>2
    <3>4. \A c \in DOMAIN broadcasts' : c \in DOMAIN broadcasts \/ c = n + 1
      BY <1>d, <3>1, <3>3
    <3>5. /\ subs'[unimplPrefix] = n + 1
          /\ \A d \in Descriptors \ {unimplPrefix} : subs'[d] = subs[d]
          /\ \A d \in Descriptors : subs[d] # n + 1 /\ (subs[d] # 0 => subs[d] \in DOMAIN broadcasts)
      BY <1>t, <1>d, <2>1, <3>1, <3>2
    <3> HIDE DEF n
    <3>6. \A d \in Descriptors : before(d)' <=> before(d)
      BY <2>1 DEF before
    <3>7. RegInv'
      <4>1. reg.pc \in {"send", "close", "delete"} => reg.d # unimplPrefix /\ reg.d \in Descriptors
        BY <1>0, <1>i, <2>3 DEF RegInv, RegType, RegistryType
      <4> QED
        BY <1>i, <2>1, <3>5, <4>1 DEF RegInv
    <3>8. BroadcastInv'
      <4>1. \A d, e \in Descriptors : subs'[d] = subs'[e] /\ subs'[d] # 0 => d = e
        BY <1>i, <3>5 DEF BroadcastInv
      <4>2. \A d \in Descriptors : before(d) /\ subs'[d] # 0 =>
               broadcasts'[subs'[d]].serve = "range" /\ ~broadcasts'[subs'[d]].closed
        <5>1. \A d \in Descriptors \ {unimplPrefix} : before(d) /\ subs'[d] # 0 =>
                 broadcasts'[subs'[d]].serve = "range" /\ ~broadcasts'[subs'[d]].closed
          BY <1>i, <3>3, <3>5 DEF BroadcastInv
        <5>2. broadcasts'[subs'[unimplPrefix]] = x
          BY <3>3, <3>5
        <5>3. broadcasts'[subs'[unimplPrefix]].serve = "range" /\ ~broadcasts'[subs'[unimplPrefix]].closed
          BY <3>2, <5>2
        <5> QED
          BY <5>1, <5>3
      <4>3. \A c \in DOMAIN broadcasts' : broadcasts'[c].serve \in {"received", "broadcast"} =>
               broadcasts'[c].closed \/ (reg.pc = "close" /\ reg.sbc = c)
        BY <1>i, <3>2, <3>3, <3>4 DEF BroadcastInv
      <4> QED
        BY <2>1, <3>6, <4>1, <4>2, <4>3 DEF BroadcastInv
    <3>9. ConsumerInv'
      BY <1>i, <2>1, <3>1, <3>5 DEF ConsumerInv
    <3>10. WaitInv'
      <4> SUFFICES ASSUME NEW w \in DOMAIN waits, NEW d \in Descriptors, waitsFor(w, d)
                   PROVE  /\ before(d) => subs'[d] # 0 /\ w \in broadcasts'[subs'[d]].subscribers
                          /\ ~before(d) /\ d \in WithMetadata =>
                                \E c \in DOMAIN broadcasts' : /\ w \in broadcasts'[c].subscribers
                                                              /\ broadcasts'[c].serve # "end"
                                                              /\ willServe(c)'
        BY <2>1, <3>6 DEF WaitInv, waitsFor
      <4>1. before(d) => subs'[d] # 0 /\ w \in broadcasts'[subs'[d]].subscribers
        BY <1>i, <2>3, <3>3, <3>5 DEF WaitInv
      <4>2. \A c \in DOMAIN broadcasts : willServe(c) => willServe(c)'
        BY <2>1, <3>3 DEF willServe
      <4> QED
        BY <1>i, <3>3, <4>1, <4>2 DEF WaitInv
    <3> QED
      BY <3>7, <3>8, <3>9, <3>10 DEF SubscribeInv
  <2> QED
    BY <2>2, <2>3
<1>7. CASE LoadBroadcast
  <2>1. /\ UNCHANGED <<reg, keyPrefixes, subs, broadcasts, waits>> /\ cons.pc = "load"
        /\ cons'.pc = "subscribe" /\ cons'.b = subs[unimplPrefix] /\ unimplPrefix' = unimplPrefix
    BY <1>t, <1>7 DEF LoadBroadcast, maps, unimplPrefix, unimplKey
  <2>2. RegInv' /\ BroadcastInv' /\ WaitInv'
    BY <2>1, SubscribeFrame DEF waitsFor
  <2>3. before(unimplPrefix)' <=> before(unimplPrefix)
    BY <2>1 DEF before
  <2>4. ConsumerInv'
    BY <1>i, <2>1, <2>3 DEF ConsumerInv
  <2> QED
    BY <2>2, <2>4 DEF SubscribeInv
<1>8. CASE Subscribe
  <2>1. UNCHANGED <<reg, keyPrefixes, subs>> /\ cons.pc = "subscribe" /\ implScheduled("empty")
    BY <1>8 DEF Subscribe, maps
  <2> DEFINE n == Len(waits) + 1
             b0 == cons.b
             e == [broadcasts[b0] EXCEPT !.subscribers = @ \cup {n}]
  <2>2. /\ cons'.pc \in {"idle", "prefix"} /\ DOMAIN waits' = 1..n
        /\ waits'[n].key = unimplKey /\ \A w \in DOMAIN waits : waits'[w] = waits[w]
    BY <1>e, <2>1
  <2>3. \A w \in DOMAIN waits' : w \in DOMAIN waits \/ w = n
    BY <1>t, <1>d, <2>2
  <2>4. b0 \in DOMAIN broadcasts /\ n \in Nat
    BY <1>0, <1>t, <1>d, <2>1 DEF ConsType
  <2>5. broadcasts[b0] \in Broadcasts
    BY <1>t, <2>4
  <2>6. /\ e \in Broadcasts /\ e.subscribers = broadcasts[b0].subscribers \cup {n}
        /\ e.serve = broadcasts[b0].serve /\ e.closed = broadcasts[b0].closed
    BY <2>4, <2>5 DEF Broadcasts
  <2>7. updated(b0, e)
    BY <1>8 DEF Subscribe, updated
  <2> HIDE DEF e, n
  <2>8. /\ DOMAIN broadcasts' = DOMAIN broadcasts /\ broadcasts'[b0] = e
        /\ \A c \in DOMAIN broadcasts \ {b0} : broadcasts'[c] = broadcasts[c]
    BY <1>t, <2>4, <2>6, <2>7, BroadcastUpdate
  <2>9. \A c \in DOMAIN broadcasts :
           /\ broadcasts'[c].serve = broadcasts[c].serve /\ broadcasts'[c].closed = broadcasts[c].closed
           /\ broadcasts[c].subscribers \subseteq broadcasts'[c].subscribers
    BY <2>6, <2>8
  <2>10. \A d \in Descriptors : before(d)' <=> before(d)
    BY <2>1 DEF before
  <2>11. RegInv' /\ ConsumerInv'
    BY <1>i, <2>1, <2>2 DEF RegInv, ConsumerInv
  <2>12. \A d \in Descriptors : subs[d] # 0 => subs[d] \in DOMAIN broadcasts
    BY <1>t, <1>d
  <2>13. BroadcastInv'
    <3>1. \A d \in Descriptors : before(d) /\ subs[d] # 0 =>
             broadcasts'[subs[d]].serve = "range" /\ ~broadcasts'[subs[d]].closed
      BY <1>i, <2>9, <2>12 DEF BroadcastInv
    <3>2. \A c \in DOMAIN broadcasts : broadcasts'[c].serve \in {"received", "broadcast"} =>
             broadcasts'[c].closed \/ (reg.pc = "close" /\ reg.sbc = c)
      BY <1>i, <2>9 DEF BroadcastInv
    <3> QED
      BY <1>i, <2>1, <2>8, <2>10, <3>1, <3>2 DEF BroadcastInv
  <2>14. \A c \in DOMAIN broadcasts : willServe(c) => willServe(c)'
    BY <2>1, <2>9 DEF willServe
  <2>15. WaitInv'
    <3> SUFFICES ASSUME NEW w \in DOMAIN waits', NEW d \in Descriptors, waitsFor(w, d)'
                 PROVE  /\ before(d) => subs[d] # 0 /\ w \in broadcasts'[subs[d]].subscribers
                        /\ ~before(d) /\ d \in WithMetadata =>
                              \E c \in DOMAIN broadcasts' : /\ w \in broadcasts'[c].subscribers
                                                            /\ broadcasts'[c].serve # "end"
                                                            /\ willServe(c)'
      BY <2>1, <2>10 DEF WaitInv
    <3>1. CASE w \in DOMAIN waits
      <4>1. waitsFor(w, d)
        BY <2>2, <3>1 DEF waitsFor
      <4>2. before(d) => subs[d] # 0 /\ w \in broadcasts'[subs[d]].subscribers
        BY <1>i, <2>9, <2>12, <3>1, <4>1 DEF WaitInv
      <4> QED
        BY <1>i, <2>8, <2>9, <2>14, <3>1, <4>1, <4>2 DEF WaitInv
    <3>2. CASE w = n
      <4>1. d = unimplPrefix
        BY <2>2, <3>2 DEF waitsFor, unimplPrefix
      <4>2. before(d) => b0 = subs[d] /\ b0 # 0
        BY <1>i, <2>1, <4>1 DEF ConsumerInv
      <4>3. d \in WithMetadata => before(d)
        BY <1>i, <2>1, <4>1 DEF ConsumerInv, before
      <4> QED
        BY <2>6, <2>8, <3>2, <4>2, <4>3
    <3> QED
      BY <2>3, <3>1, <3>2
  <2> QED
    BY <2>11, <2>13, <2>15 DEF SubscribeInv
<1> QED
  BY <1>2, <1>3, <1>4, <1>5, <1>6, <1>7, <1>8 DEF Consume

\* Every step keeps the invariant of the waits.
LEMMA SubscribeNext == TypeOK /\ SubscribeInv /\ [Next]_vars => SubscribeInv'
<1> SUFFICES ASSUME TypeOK, SubscribeInv, [Next]_vars PROVE SubscribeInv'
  OBVIOUS
<1>0. BroadcastType
  BY TypeParts
<1>f. ASSUME UNCHANGED <<reg, keyPrefixes, subs, broadcasts, cons>>,
             \A w \in DOMAIN waits' : \A d \in Descriptors :
                waitsFor(w, d)' => w \in DOMAIN waits /\ waitsFor(w, d)
      PROVE  SubscribeInv'
  <2>1. RegInv' /\ BroadcastInv' /\ WaitInv'
    BY <1>f, SubscribeFrame
  <2>2. ConsumerInv'
    BY <1>f DEF SubscribeInv, ConsumerInv, before, unimplPrefix, unimplKey
  <2> QED
    BY <2>1, <2>2 DEF SubscribeInv
<1>g. ASSUME UNCHANGED <<reg, keyPrefixes, subs, broadcasts, cons, waits>> PROVE SubscribeInv'
  BY <1>f, <1>g DEF waitsFor
<1>1. ASSUME NEW w \in DOMAIN waits, WaitOver(w) PROVE SubscribeInv'
  <2>1. waits \in Seq(Waits) /\ waits[w] \in Waits
    BY <1>0 DEF BroadcastType
  <2>2. DOMAIN waits' = DOMAIN waits
        /\ \A v \in DOMAIN waits : waits'[v] = IF v = w THEN [waits[v] EXCEPT !.pc = "done"]
                                                        ELSE waits[v]
    BY <1>1, <2>1 DEF WaitOver
  <2>3. \A v \in DOMAIN waits : waits'[v].key = waits[v].key /\ waits'[v].ch = waits[v].ch
    BY <2>1, <2>2 DEF Waits
  <2> QED
    BY <1>f, <1>1, <2>2, <2>3 DEF WaitOver, maps, waitsFor
<1>2. ASSUME NEW k \in Keys, Lookup(k) PROVE SubscribeInv'
  BY <1>g, <1>2 DEF Lookup, maps
<1>3. ASSUME NEW put, NEW del, Commit(put, del) PROVE SubscribeInv'
  BY <1>g, <1>3 DEF Commit, maps
<1>4. CASE ConcurrentMapAccess
  BY <1>g, <1>4 DEF ConcurrentMapAccess, maps
<1>5. CASE UNCHANGED vars
  BY <1>g, <1>5 DEF vars, maps
<1> QED
  BY <1>1, <1>2, <1>3, <1>4, <1>5, SubscribeRegister, SubscribeServe, SubscribeConsume DEF Next

\* No wait for a descriptor with metadata is forgotten (NoneForgotten), however
\* its registration meets the subscriptions of the consumer, and whatever is
\* registered and committed meanwhile: the lock of the graph is enough.
THEOREM NobodyForgotten == Spec => []NoneForgotten
<1>1. TypeOK /\ SubscribeInv => NoneForgotten
  <2> SUFFICES ASSUME TypeOK, SubscribeInv, NEW w \in DOMAIN waits,
                      SelectedBy[waits[w].key] \in WithMetadata \cap keyPrefixes,
                      waits[w].ch = "empty"
               PROVE  \E b \in DOMAIN broadcasts :
                         /\ w \in broadcasts[b].subscribers
                         /\ broadcasts[b].serve # "end"
                         /\ \/ willServe(b)
                            \/ /\ subs[SelectedBy[waits[w].key]] = b
                               /\ reg.d = SelectedBy[waits[w].key]
                               /\ reg.pc \in {"metadata", "subs"}
    BY DEF NoneForgotten
  <2> DEFINE d == SelectedBy[waits[w].key]
  <2>1. BroadcastType
    BY TypeParts
  <2>2. d \in Descriptors /\ waitsFor(w, d)
    BY RegistrationAssumption DEF waitsFor
  <2>3. CASE before(d)
    <3>1. subs[d] # 0 /\ w \in broadcasts[subs[d]].subscribers /\ broadcasts[subs[d]].serve = "range"
      BY <2>2, <2>3 DEF SubscribeInv, WaitInv, BroadcastInv
    <3>2. subs[d] \in 0..Len(broadcasts) /\ DOMAIN broadcasts = 1..Len(broadcasts)
      BY <2>1, <2>2 DEF BroadcastType
    <3>3. subs[d] \in DOMAIN broadcasts
      BY <3>1, <3>2
    <3>4. reg.d = d /\ reg.pc \in {"metadata", "subs"}
      BY <2>3 DEF before
    <3> QED
      BY <3>1, <3>3, <3>4
  <2>4. CASE ~before(d)
    BY <2>2, <2>4 DEF SubscribeInv, WaitInv
  <2> QED
    BY <2>3, <2>4
<1> QED
  BY <1>1, TypeInit, RegistryInit, TypeNext, SubscribeInit, SubscribeNext, PTL DEF Spec
=============================================================================
