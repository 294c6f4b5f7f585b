-------------------------- MODULE AscendingProofs --------------------------
(***************************************************************************)
(* A set of numbers up to n has exactly one increasing enumeration, and a  *)
(* finite set can be put in the order of any key.                          *)
(* Induction goes by the least counterexample.                             *)
(***************************************************************************)
EXTENDS Ascending, FiniteSetTheorems, WellFoundedInduction, SequenceTheorems, TLAPS

Less == {p \in Nat \X Nat : p[1] < p[2]}

\* A set of natural numbers that is not empty has a least element.
LEMMA LeastNatural ==
  ASSUME NEW T \in SUBSET Nat, T # {}
  PROVE  \E x \in T : \A y \in T : x <= y
<1>1. IsWellFoundedOn(Less, Nat)
  BY NatLessThanWellFounded DEF OpToRel, Less
<1>2. PICK x \in T : \A y \in T : ~(<<y, x>> \in Less)
  BY <1>1, WFMin
<1>3. \A y \in T : ~(y < x)
  BY <1>2 DEF Less
<1> QED
  BY <1>3

\* Any set of numbers from 1 to n can be enumerated.
Enumerates(s, S) ==
  /\ s \in [1 .. Cardinality(S) -> S]
  /\ IsAscending(s) /\ S \subseteq ToSet(s)

LEMMA EnumerateOneMore ==
  ASSUME NEW n \in Nat \ {0}, NEW S \in SUBSET (1 .. n), n \in S,
         NEW s, Enumerates(s, S \ {n})
  PROVE  \E t : Enumerates(t, S)
<1> DEFINE m == Cardinality(S)
           R == S \ {n}
           t == [k \in 1 .. m |-> IF k = m THEN n ELSE s[k]]
<1>1. IsFiniteSet(S) /\ m \in Nat /\ m # 0
  <2>1. IsFiniteSet(1 .. n)
    BY FS_Interval
  <2>2. IsFiniteSet(S)
    BY <2>1, FS_Subset
  <2> QED
    BY <2>2, FS_CardinalityType, FS_EmptySet
<1>2. Cardinality(R) = m - 1
  BY <1>1, FS_RemoveElement
<1>3. s \in [1 .. m - 1 -> R]
  BY <1>2 DEF Enumerates
<1>4. R \subseteq 1 .. n - 1 /\ R = S \ {n}
  OBVIOUS
<1>5. \A k \in 1 .. m - 1 : t[k] = s[k] /\ s[k] \in R
  BY <1>1, <1>3
<1>6. t[m] = n
  BY <1>1
<1>7. t \in [1 .. m -> S]
  BY <1>3, <1>1
<1> HIDE DEF t, R
<1>8. IsAscending(t)
  <2> SUFFICES ASSUME NEW j \in 1 .. m, NEW k \in 1 .. m, j < k
               PROVE  t[j] < t[k]
    BY <1>7 DEF IsAscending
  <2>1. j \in 1 .. m - 1
    BY <1>1
  <2>2. CASE k = m
    <3>1. t[j] \in 1 .. n - 1
      BY <2>1, <1>4, <1>5
    <3>2. t[k] = n
      BY <2>2, <1>6
    <3> QED
      BY <3>1, <3>2
  <2>3. CASE k # m
    <3>1. k \in 1 .. m - 1
      BY <2>3, <1>1
    <3>2. s[j] < s[k]
      BY <2>1, <3>1, <1>3 DEF Enumerates, IsAscending
    <3> QED
      BY <2>1, <3>1, <3>2, <1>5
  <2> QED
    BY <2>2, <2>3
<1>9. S \subseteq ToSet(t)
  <2> SUFFICES ASSUME NEW x \in S
               PROVE  \E k \in 1 .. m : t[k] = x
    BY <1>7 DEF ToSet
  <2>1. CASE x = n
    BY <2>1, <1>6, <1>1
  <2>2. CASE x # n
    <3>1. PICK k \in 1 .. m - 1 : s[k] = x
      BY <2>2, <1>3, <1>4 DEF Enumerates, ToSet
    <3> QED
      BY <3>1, <1>5, <1>1
  <2> QED
    BY <2>1, <2>2
<1> QED
  BY <1>7, <1>8, <1>9 DEF Enumerates

LEMMA EnumerationExists ==
  ASSUME NEW n \in Nat, NEW S \in SUBSET (1 .. n)
  PROVE  \E s : Enumerates(s, S)
<1> DEFINE Bad == {i \in Nat : \E R \in SUBSET (1 .. i) : \A s : ~Enumerates(s, R)}
<1>1. CASE Bad = {}
  BY <1>1
<1>2. CASE Bad # {}
  <2>1. PICK i \in Bad : \A j \in Bad : i <= j
    BY <1>2, LeastNatural
  <2>0. i \in Nat
    BY <2>1
  <2>2. PICK R \in SUBSET (1 .. i) : \A s : ~Enumerates(s, R)
    BY <2>1
  <2>3. CASE i = 0
    <3>1. R = {}
      BY <2>2, <2>3
    <3>0. Cardinality(R) = 0
      BY <3>1, FS_EmptySet
    <3>2. Enumerates(<<>>, R)
      BY <3>0, <3>1 DEF Enumerates, IsAscending
    <3> QED
      BY <3>2, <2>2
  <2>4. CASE i # 0
    <3>1. i - 1 \in Nat /\ i - 1 \notin Bad
      <4>1. i - 1 \in Nat /\ i - 1 < i
        BY <2>0, <2>4
      <4> QED
        BY <4>1, <2>0, <2>1
    <3>2. R \ {i} \in SUBSET (1 .. i - 1)
      OBVIOUS
    <3>3. PICK s : Enumerates(s, R \ {i})
      BY <3>1, <3>2
    <3>4. CASE i \in R
      BY <2>1, <2>2, <2>4, <3>3, <3>4, EnumerateOneMore
    <3>5. CASE i \notin R
      <4>1. R \ {i} = R
        BY <3>5
      <4> QED
        BY <4>1, <3>3, <2>2
    <3> QED
      BY <3>4, <3>5
  <2> QED
    BY <2>3, <2>4
<1> QED
  BY <1>1, <1>2

\* What Ascending() returns: a sequence of the elements of the set, each once, in order.
LEMMA AscendingEnumerates ==
  ASSUME NEW n \in Nat, NEW S \in SUBSET (1 .. n)
  PROVE  /\ Ascending(S) \in Seq(S)
         /\ Len(Ascending(S)) = Cardinality(S)
         /\ IsAscending(Ascending(S))
         /\ ToSet(Ascending(S)) = S
<1> DEFINE s == Ascending(S)
<1>1. Enumerates(s, S)
  <2>1. PICK r : Enumerates(r, S)
    BY EnumerationExists
  <2> QED
    BY <2>1 DEF Enumerates, Ascending
<1>2. Cardinality(S) \in Nat
  <2>1. IsFiniteSet(1 .. n)
    BY FS_Interval
  <2> QED
    BY <2>1, FS_Subset, FS_CardinalityType
<1>3. s \in [1 .. Cardinality(S) -> S]
  BY <1>1 DEF Enumerates
<1>4. s \in Seq(S) /\ Len(s) = Cardinality(S)
  BY <1>2, <1>3
<1>5. ToSet(s) = S
  BY <1>1, <1>3 DEF Enumerates, ToSet
<1> QED
  BY <1>1, <1>4, <1>5 DEF Enumerates

\* Increasing sequences with the same elements do not differ at a first place.
LEMMA NotBelow ==
  ASSUME NEW s \in Seq(Nat), NEW t \in Seq(Nat), IsAscending(s), IsAscending(t),
         ToSet(s) \subseteq ToSet(t),
         NEW k \in DOMAIN s, k \in DOMAIN t,
         \A j \in 1 .. k - 1 : s[j] = t[j]
  PROVE  ~(s[k] < t[k])
<1> SUFFICES ASSUME s[k] < t[k] PROVE FALSE
  OBVIOUS
<1>1. PICK j \in DOMAIN t : t[j] = s[k]
  BY DEF ToSet
<1>2. j < k
  <2>1. j \in Nat /\ k \in Nat
    OBVIOUS
  <2>2. ~(k < j) /\ k # j
    <3>1. k < j => t[k] < t[j]
      BY DEF IsAscending
    <3> QED
      BY <1>1, <3>1
  <2> QED
    BY <2>1, <2>2
<1>3. s[j] = s[k] /\ j \in DOMAIN s
  <2>1. j \in 1 .. k - 1 /\ j \in DOMAIN s
    BY <1>2
  <2> QED
    BY <2>1, <1>1
<1>4. s[j] < s[k] /\ s[k] \in Nat
  BY <1>2, <1>3 DEF IsAscending
<1> QED
  BY <1>3, <1>4

LEMMA SamePrefix ==
  ASSUME NEW s \in Seq(Nat), NEW t \in Seq(Nat), IsAscending(s), IsAscending(t),
         ToSet(s) = ToSet(t)
  PROVE  \A k \in DOMAIN s \cap DOMAIN t : s[k] = t[k]
<1> DEFINE Bad == {k \in DOMAIN s \cap DOMAIN t : s[k] # t[k]}
<1> SUFFICES ASSUME Bad # {} PROVE FALSE
  OBVIOUS
<1>1. Bad \in SUBSET Nat
  OBVIOUS
<1>2. PICK k \in Bad : \A j \in Bad : k <= j
  BY <1>1, LeastNatural
<1>3. \A j \in 1 .. k - 1 : s[j] = t[j]
  <2> SUFFICES ASSUME NEW j \in 1 .. k - 1 PROVE s[j] = t[j]
    OBVIOUS
  <2>0. k \in DOMAIN s /\ k \in DOMAIN t
    OBVIOUS
  <2>3. DOMAIN s = 1 .. Len(s) /\ DOMAIN t = 1 .. Len(t) /\ Len(s) \in Nat /\ Len(t) \in Nat
    OBVIOUS
  <2> HIDE DEF Bad
  <2>1. k \in Nat /\ k <= Len(s) /\ k <= Len(t)
    BY <2>0, <2>3
  <2>2. j \in DOMAIN s \cap DOMAIN t /\ j < k
    BY <2>1, <2>3
  <2> QED
    BY <1>2, <2>1, <2>2 DEF Bad
<1>4. ~(s[k] < t[k]) /\ ~(t[k] < s[k])
  BY <1>2, <1>3, NotBelow
<1> QED
  BY <1>2, <1>4

LEMMA NotLonger ==
  ASSUME NEW s \in Seq(Nat), NEW t \in Seq(Nat), IsAscending(s), IsAscending(t),
         ToSet(s) = ToSet(t)
  PROVE  Len(t) <= Len(s)
<1> SUFFICES ASSUME Len(t) > Len(s) PROVE FALSE
  OBVIOUS
<1> DEFINE k == Len(s) + 1
<1>1. k \in DOMAIN t
  OBVIOUS
<1>2. PICK j \in DOMAIN s : s[j] = t[k]
  BY <1>1 DEF ToSet
<1>3. t[j] = t[k] /\ j < k /\ j \in DOMAIN t
  BY <1>2, SamePrefix
<1> QED
  BY <1>1, <1>3 DEF IsAscending

\* There is no other.
LEMMA AscendingUnique ==
  ASSUME NEW n \in Nat, NEW s \in Seq(1 .. n), IsAscending(s)
  PROVE  s = Ascending(ToSet(s))
<1> DEFINE t == Ascending(ToSet(s))
<1>1. ToSet(s) \in SUBSET (1 .. n)
  BY DEF ToSet
<1>2. t \in Seq(ToSet(s)) /\ IsAscending(t) /\ ToSet(t) = ToSet(s)
  BY <1>1, AscendingEnumerates
<1>3. s \in Seq(Nat) /\ t \in Seq(Nat)
  BY <1>1, <1>2
<1>4. Len(s) = Len(t)
  <2>1. Len(s) <= Len(t) /\ Len(t) <= Len(s)
    BY <1>2, <1>3, NotLonger
  <2> QED
    BY <1>3, <2>1
<1>5. \A k \in 1 .. Len(s) : s[k] = t[k]
  BY <1>2, <1>3, <1>4, SamePrefix
<1> QED
  BY <1>3, <1>4, <1>5, SeqEqual

-----------------------------------------------------------------------------
(* Sets and sequences by a key, which need not be unique.                  *)

Keys(P, key)  == \A x \in P : key[x] \in Int
InOrder(p, key) == \A i, j \in DOMAIN p : i < j => key[p[i]] <= key[p[j]]

\* A finite set that is not empty has a member with the largest key.
LEMMA LastByKey ==
  ASSUME NEW P, IsFiniteSet(P), P # {}, NEW key, Keys(P, key)
  PROVE  \E x \in P : \A y \in P : key[y] <= key[x]
<1> DEFINE Has(Q) == \E x \in Q : \A y \in Q : key[y] <= key[x]
           Bad == {n \in Nat : \E Q \in SUBSET P : Cardinality(Q) = n /\ Q # {} /\ ~Has(Q)}
<1>1. SUFFICES ASSUME Bad # {} PROVE FALSE
  <2>1. Cardinality(P) \in Nat /\ P \in SUBSET P
    BY FS_CardinalityType
  <2> QED
    BY <1>1, <2>1
<1>2. PICK n \in Bad : \A k \in Bad : n <= k
  BY <1>1, LeastNatural
<1>3. PICK Q \in SUBSET P : Cardinality(Q) = n /\ Q # {} /\ ~Has(Q)
  BY <1>2
<1>4. PICK m \in Q : TRUE
  BY <1>3
<1>5. IsFiniteSet(Q) /\ Cardinality(Q \ {m}) = n - 1 /\ n \in Nat /\ n # 0
  BY <1>3, <1>4, FS_Subset, FS_RemoveElement, FS_EmptySet
<1>6. CASE Q \ {m} = {}
  <2>1. Q = {m} /\ key[m] \in Int
    BY <1>4, <1>6 DEF Keys
  <2> QED
    BY <1>3, <2>1
<1>7. CASE Q \ {m} # {}
  <2>1. n - 1 \notin Bad
    BY <1>2, <1>5
  <2>2. Has(Q \ {m})
    <3>1. n - 1 \in Nat /\ Q \ {m} \in SUBSET P
      BY <1>5
    <3> HIDE DEF Has
    <3> QED
      BY <1>5, <1>7, <2>1, <3>1
  <2>3. PICK x \in Q \ {m} : \A y \in Q \ {m} : key[y] <= key[x]
    BY <2>2
  <2>4. key[x] \in Int /\ key[m] \in Int /\ \A y \in Q : key[y] \in Int
    BY <1>4 DEF Keys
  <2>5. CASE key[m] <= key[x]
    <3>1. \A y \in Q : key[y] <= key[x]
      BY <2>3, <2>5
    <3> QED
      BY <1>3, <3>1
  <2>6. CASE key[x] <= key[m]
    <3>1. \A y \in Q : key[y] <= key[m]
      BY <2>3, <2>4, <2>6
    <3> QED
      BY <1>3, <1>4, <3>1
  <2> QED
    BY <2>4, <2>5, <2>6
<1> QED
  BY <1>6, <1>7

\* A finite set can be put in the order of its keys.
LEMMA OrderExists ==
  ASSUME NEW P, IsFiniteSet(P), NEW key, Keys(P, key)
  PROVE  \E p \in Bijection(1 .. Cardinality(P), P) : InOrder(p, key)
<1> DEFINE Has(Q) == \E p \in Bijection(1 .. Cardinality(Q), Q) : InOrder(p, key)
           Bad == {n \in Nat : \E Q \in SUBSET P : Cardinality(Q) = n /\ ~Has(Q)}
<1>1. SUFFICES ASSUME Bad # {} PROVE FALSE
  <2>1. Cardinality(P) \in Nat /\ P \in SUBSET P
    BY FS_CardinalityType
  <2> QED
    BY <1>1, <2>1
<1>2. PICK n \in Bad : \A k \in Bad : n <= k
  BY <1>1, LeastNatural
<1>3. PICK Q \in SUBSET P : Cardinality(Q) = n /\ ~Has(Q)
  BY <1>2
<1>4. IsFiniteSet(Q) /\ n \in Nat
  BY <1>3, FS_Subset
<1>5. CASE Q = {}
  <2>1. n = 0 /\ 1 .. 0 = {}
    BY <1>3, <1>5, FS_EmptySet
  <2>2. <<>> \in Bijection(1 .. 0, {}) /\ InOrder(<<>>, key)
    BY <2>1 DEF Bijection, Injection, Surjection, IsInjective, InOrder
  <2> QED
    BY <1>3, <1>5, <2>1, <2>2
<1>6. CASE Q # {}
  <2>1. PICK m \in Q : \A y \in Q : key[y] <= key[m]
    BY <1>4, <1>6, LastByKey DEF Keys
  <2>2. Cardinality(Q \ {m}) = n - 1 /\ n # 0
    BY <1>3, <1>4, <1>6, FS_RemoveElement, FS_EmptySet
  <2>3. n - 1 \notin Bad /\ n - 1 \in Nat
    BY <1>2, <1>4, <2>2
  <2>4. PICK p \in Bijection(1 .. n - 1, Q \ {m}) : InOrder(p, key)
    BY <2>2, <2>3
  <2> DEFINE q == [i \in 1 .. n |-> IF i = n THEN m ELSE p[i]]
  <2>5. q \in [1 .. n -> Q]
    BY <2>4, <1>4 DEF Bijection, Injection
  <2>6. \A i, j \in 1 .. n : q[i] = q[j] => i = j
    <3> SUFFICES ASSUME NEW i \in 1 .. n, NEW j \in 1 .. n, q[i] = q[j] PROVE i = j
      OBVIOUS
    <3>1. \A k \in 1 .. n : k # n => k \in 1 .. n - 1
      BY <1>4
    <3>2. \A k \in 1 .. n : k # n => q[k] = p[k] /\ p[k] \in Q \ {m}
      BY <2>4, <3>1 DEF Bijection, Injection
    <3>3. q[n] = m
      BY <1>4, <2>2
    <3> HIDE DEF q
    <3>4. \A k, l \in 1 .. n - 1 : p[k] = p[l] => k = l
      BY <2>4 DEF Bijection, Injection, IsInjective
    <3> QED
      BY <3>1, <3>2, <3>3, <3>4
  <2>7. \A t \in Q : \E i \in 1 .. n : q[i] = t
    <3> SUFFICES ASSUME NEW t \in Q PROVE \E i \in 1 .. n : q[i] = t
      OBVIOUS
    <3>1. CASE t = m
      BY <3>1, <1>4, <2>2
    <3>2. CASE t # m
      <4>1. PICK i \in 1 .. n - 1 : p[i] = t
        BY <3>2, <2>4 DEF Bijection, Surjection
      <4>2. i \in 1 .. n /\ i # n
        BY <1>4
      <4> QED
        BY <4>1, <4>2
    <3> QED
      BY <3>1, <3>2
  <2>8. InOrder(q, key)
    <3> SUFFICES ASSUME NEW i \in 1 .. n, NEW j \in 1 .. n, i < j PROVE key[q[i]] <= key[q[j]]
      BY DEF InOrder
    <3>1. i \in 1 .. n - 1 /\ q[i] = p[i] /\ q[i] \in Q
      BY <1>4, <2>5
    <3>2. CASE j = n
      <4>1. q[j] = m
        BY <3>2
      <4> QED
        BY <2>1, <3>1, <4>1
    <3>3. CASE j # n
      <4>1. j \in 1 .. n - 1 /\ q[j] = p[j]
        BY <1>4, <3>3
      <4>2. DOMAIN p = 1 .. n - 1
        BY <2>4 DEF Bijection, Injection
      <4> QED
        BY <2>4, <3>1, <4>1, <4>2 DEF InOrder
    <3> QED
      BY <3>2, <3>3
  <2>9. q \in Bijection(1 .. n, Q)
    <3> HIDE DEF q
    <3> QED
      BY <2>5, <2>6, <2>7 DEF Bijection, Injection, Surjection, IsInjective
  <2> QED
    BY <1>3, <2>8, <2>9
<1> QED
  BY <1>5, <1>6

LEMMA ByKeyIs ==
  ASSUME NEW P, IsFiniteSet(P), NEW key, Keys(P, key)
  PROVE  ByKey(P, key) \in Bijection(1 .. Cardinality(P), P) /\ InOrder(ByKey(P, key), key)
<1>1. \E p \in Bijection(1 .. Cardinality(P), P) : InOrder(p, key)
  BY OrderExists
<1> QED
  BY <1>1 DEF ByKey, InOrder

\* The k-th in order: k members are not after it, and fewer are below it.
LEMMA RankByKey ==
  ASSUME NEW P, IsFiniteSet(P), NEW key, Keys(P, key),
         NEW k \in 1 .. Cardinality(P)
  PROVE  LET v == key[ByKey(P, key)[k]] IN
         /\ Cardinality({x \in P : key[x] <= v}) >= k
         /\ \A w \in Int : w < v => Cardinality({x \in P : key[x] <= w}) < k
<1> DEFINE n == Cardinality(P)
           p == ByKey(P, key)
           v == key[p[k]]
           Low(w) == {x \in P : key[x] <= w}
<1>1. p \in Bijection(1 .. n, P) /\ InOrder(p, key) /\ n \in Nat
  BY ByKeyIs, FS_CardinalityType
<1> HIDE DEF n, p
<1>2. /\ p \in [1 .. n -> P]
      /\ \A i, j \in 1 .. n : p[i] = p[j] => i = j
      /\ \A x \in P : \E i \in 1 .. n : p[i] = x
      /\ \A i, j \in 1 .. n : i < j => key[p[i]] <= key[p[j]]
  BY <1>1 DEF Bijection, Injection, Surjection, IsInjective, InOrder
<1>3. k \in 1 .. n
  BY DEF n
<1>4. v \in Int
  BY <1>2, <1>3 DEF Keys
<1>5. ASSUME NEW w PROVE IsFiniteSet(Low(w))
  BY FS_Subset
<1>6. Cardinality(Low(v)) >= k
  <2> DEFINE f == [i \in 1 .. k |-> p[i]]
  <2>1. \A i \in 1 .. k : i \in 1 .. n /\ key[p[i]] <= v
    <3> SUFFICES ASSUME NEW i \in 1 .. k PROVE i \in 1 .. n /\ key[p[i]] <= v
      OBVIOUS
    <3>1. i \in 1 .. n /\ (i < k \/ i = k)
      BY <1>3, <1>1
    <3> QED
      BY <1>2, <1>3, <1>4, <3>1
  <2>2. f \in Injection(1 .. k, Low(v))
    <3>1. f \in [1 .. k -> Low(v)]
      BY <1>2, <2>1
    <3>2. \A i, j \in 1 .. k : f[i] = f[j] => i = j
      BY <1>2, <2>1
    <3> QED
      BY <3>1, <3>2 DEF Injection, IsInjective
  <2>3. Cardinality(1 .. k) = k /\ k \in Nat
    BY FS_Interval
  <2>4. Cardinality(1 .. k) <= Cardinality(Low(v))
    BY <1>5, <2>2, FS_Injection
  <2> QED
    BY <2>3, <2>4
<1>7. ASSUME NEW w \in Int, w < v
      PROVE  Cardinality(Low(w)) < k
  <2> DEFINE Q == {i \in 1 .. n : key[p[i]] <= w}
             f == [i \in Q |-> p[i]]
  <2>1. Q \subseteq 1 .. k - 1
    <3> SUFFICES ASSUME NEW i \in 1 .. n, key[p[i]] <= w PROVE i \in 1 .. k - 1
      OBVIOUS
    <3>1. key[p[i]] \in Int
      BY <1>2 DEF Keys
    <3>2. ~(k < i) /\ i # k
      <4>1. k < i => v <= key[p[i]]
        BY <1>2, <1>3
      <4> QED
        BY <1>4, <1>7, <3>1, <4>1
    <3> QED
      BY <1>3, <1>1, <3>2
  <2>2. IsFiniteSet(Q) /\ Cardinality(Q) <= k - 1 /\ Cardinality(Q) \in Nat
    <3>1. IsFiniteSet(1 .. k - 1) /\ Cardinality(1 .. k - 1) = k - 1
      BY <1>3, <1>1, FS_Interval
    <3> QED
      BY <2>1, <3>1, FS_Subset, FS_CardinalityType
  <2>3. f \in Surjection(Q, Low(w))
    <3>1. f \in [Q -> Low(w)]
      BY <1>2
    <3>2. \A x \in Low(w) : \E i \in Q : f[i] = x
      BY <1>2
    <3> QED
      BY <3>1, <3>2 DEF Surjection
  <2>4. Cardinality(Low(w)) <= Cardinality(Q)
    BY <2>2, <2>3, FS_Surjection
  <2>5. Cardinality(Low(w)) \in Nat
    BY <1>5, FS_CardinalityType
  <2> QED
    BY <1>1, <1>3, <2>2, <2>4, <2>5
<1> QED
  BY <1>6, <1>7 DEF n, p

\* What is kept of a sequence.
LEMMA FilteredIs ==
  ASSUME NEW T, NEW s \in Seq(T), NEW S
  PROVE  /\ Filtered(s, S) \in Seq(T)
         /\ ToSet(Filtered(s, S)) = ToSet(s) \cap S
         /\ IsInjective(s) => IsInjective(Filtered(s, S))
<1> DEFINE D == {i \in DOMAIN s : s[i] \in S}
           p == Ascending(D)
           r == [k \in DOMAIN p |-> s[p[k]]]
<1>0. Filtered(s, S) = r
  BY DEF Filtered
<1>1. DOMAIN s = 1 .. Len(s) /\ Len(s) \in Nat
  OBVIOUS
<1>2. D \in SUBSET (1 .. Len(s))
  BY <1>1
<1> HIDE DEF D
<1>3. p \in Seq(D) /\ IsAscending(p) /\ ToSet(p) = D
  BY <1>1, <1>2, AscendingEnumerates
<1> HIDE DEF p
<1>4. DOMAIN p = 1 .. Len(p) /\ Len(p) \in Nat /\ \A k \in DOMAIN p : p[k] \in D
  BY <1>3
<1>5. \A k \in DOMAIN p : p[k] \in DOMAIN s /\ s[p[k]] \in S /\ s[p[k]] \in T
  BY <1>1, <1>4 DEF D
<1>6. r \in Seq(T)
  <2>1. r \in [1 .. Len(p) -> T]
    BY <1>4, <1>5
  <2> QED
    BY <1>4, <2>1
<1>7. ToSet(r) = ToSet(s) \cap S
  <2>1. ASSUME NEW x \in ToSet(r) PROVE x \in ToSet(s) \cap S
    BY <1>5 DEF ToSet
  <2>2. ASSUME NEW x \in ToSet(s) \cap S PROVE x \in ToSet(r)
    <3>1. PICK i \in DOMAIN s : s[i] = x
      BY DEF ToSet
    <3>2. i \in D
      BY <3>1 DEF D
    <3>3. PICK k \in DOMAIN p : p[k] = i
      BY <1>3, <3>2 DEF ToSet
    <3> QED
      BY <3>1, <3>3 DEF ToSet
  <2> QED
    BY <2>1, <2>2
<1>8. ASSUME IsInjective(s) PROVE IsInjective(r)
  <2>1. \A i, j \in DOMAIN p : p[i] = p[j] => i = j
    <3> SUFFICES ASSUME NEW i \in DOMAIN p, NEW j \in DOMAIN p, p[i] = p[j] PROVE i = j
      OBVIOUS
    <3>1. p[i] \in D /\ i \in Nat /\ j \in Nat
      BY <1>4
    <3>4. p[i] \in 1 .. Len(s)
      BY <1>2, <3>1
    <3>3. p[i] \in Nat
      BY <1>1, <3>4
    <3>2. (i < j => p[i] < p[j]) /\ (j < i => p[j] < p[i])
      BY <1>3 DEF IsAscending
    <3> QED
      BY <3>1, <3>2, <3>3
  <2>2. \A i, j \in DOMAIN s : s[i] = s[j] => i = j
    BY <1>8 DEF IsInjective
  <2> QED
    BY <1>5, <2>1, <2>2 DEF IsInjective
<1> QED
  BY <1>0, <1>6, <1>7, <1>8

\* Where keys are unique, the k-th in order is the one that k members are not after.
UniqueKeys(P, key)   == \A x, y \in P : key[x] = key[y] => x = y
UpTo(P, key, w)  == {x \in P : key[x] <= w}

LEMMA UniqueRank ==
  ASSUME NEW P, IsFiniteSet(P), NEW key, Keys(P, key), UniqueKeys(P, key),
         NEW k \in 1 .. Cardinality(P)
  PROVE  /\ ByKey(P, key)[k] \in P
         /\ Cardinality(UpTo(P, key, key[ByKey(P, key)[k]])) = k
<1> DEFINE x == ByKey(P, key)[k]
           v == key[x]
<1>1. x \in P
  BY ByKeyIs DEF Bijection, Injection
<1>2. /\ Cardinality(UpTo(P, key, v)) >= k
      /\ \A w \in Int : w < v => Cardinality(UpTo(P, key, w)) < k
  BY RankByKey DEF UpTo
<1> HIDE DEF x
<1>3. v \in Int /\ v - 1 \in Int /\ v - 1 < v
  BY <1>1 DEF Keys
<1>4. UpTo(P, key, v) \ {x} \subseteq UpTo(P, key, v - 1)
  <2> SUFFICES ASSUME NEW y \in P, key[y] <= v, y # x PROVE key[y] <= v - 1
    BY DEF UpTo
  <2>1. key[y] \in Int /\ key[y] # v
    BY <1>1 DEF Keys, UniqueKeys
  <2> QED
    BY <1>3, <2>1
<1>5. \A w : IsFiniteSet(UpTo(P, key, w))
  BY FS_Subset DEF UpTo
<1>6. Cardinality(UpTo(P, key, v) \ {x}) <= Cardinality(UpTo(P, key, v - 1))
  BY <1>4, <1>5, FS_Subset
<1>7. Cardinality(UpTo(P, key, v) \ {x}) = Cardinality(UpTo(P, key, v)) - 1
  <2>1. x \in UpTo(P, key, v)
    BY <1>1, <1>3 DEF UpTo
  <2> QED
    BY <2>1, <1>5, FS_RemoveElement
<1>8. Cardinality(UpTo(P, key, v)) \in Nat /\ Cardinality(UpTo(P, key, v - 1)) \in Nat
  BY <1>5, FS_CardinalityType
<1>9. Cardinality(UpTo(P, key, v - 1)) < k
  BY <1>2, <1>3
<1> QED
  BY <1>1, <1>2, <1>6, <1>7, <1>8, <1>9 DEF x

LEMMA EqualRank ==
  ASSUME NEW P, IsFiniteSet(P), NEW key, Keys(P, key), UniqueKeys(P, key),
         NEW x \in P, NEW y \in P,
         Cardinality(UpTo(P, key, key[x])) = Cardinality(UpTo(P, key, key[y]))
  PROVE  x = y
<1>1. key[x] \in Int /\ key[y] \in Int /\ \A z \in P : key[z] \in Int
  BY DEF Keys
<1>2. \A w : IsFiniteSet(UpTo(P, key, w))
  BY FS_Subset DEF UpTo
<1>3. ASSUME NEW a \in P, NEW b \in P, key[a] < key[b],
             Cardinality(UpTo(P, key, key[a])) = Cardinality(UpTo(P, key, key[b]))
      PROVE  FALSE
  <2>1. UpTo(P, key, key[a]) \subseteq UpTo(P, key, key[b])
    BY <1>1, <1>3 DEF UpTo
  <2>2. UpTo(P, key, key[a]) = UpTo(P, key, key[b])
    BY <1>2, <1>3, <2>1, FS_Subset
  <2>3. b \in UpTo(P, key, key[b]) /\ b \notin UpTo(P, key, key[a])
    BY <1>1, <1>3 DEF UpTo
  <2> QED
    BY <2>2, <2>3
<1>4. ~(key[x] < key[y]) /\ ~(key[y] < key[x])
  BY <1>3
<1>5. key[x] = key[y]
  BY <1>1, <1>4
<1> QED
  BY <1>5 DEF UniqueKeys

\* A sequence of members of P, each at most once, that leaves out only members which come after
\* all of its own: sorted by the key, it is the beginning of P in order.
Downward(E, P, key) == \A x \in P, e \in E : key[x] <= key[e] => x \in E

LEMMA SortedBeginning ==
  ASSUME NEW P, IsFiniteSet(P), NEW key, Keys(P, key), UniqueKeys(P, key),
         NEW s \in Seq(P), IsInjective(s), Downward(ToSet(s), P, key)
  PROVE  LET a == SortedBy(s, [i \in DOMAIN s |-> key[s[i]]]) IN
         /\ a \in Seq(P) /\ Len(a) = Cardinality(ToSet(s))
         /\ Len(a) <= Cardinality(P)
         /\ \A k \in 1 .. Len(a) : a[k] = ByKey(P, key)[k]
<1> DEFINE D == DOMAIN s
           E == ToSet(s)
           at == [i \in D |-> key[s[i]]]
           p == ByKey(D, at)
           a == [k \in DOMAIN p |-> s[p[k]]]
           n == Len(s)
<1>0. D = 1 .. n /\ n \in Nat /\ \A i \in D : s[i] \in P
  OBVIOUS
<1>1. IsFiniteSet(D) /\ Cardinality(D) = n
  BY <1>0, FS_Interval
<1>2. Keys(D, at) /\ UniqueKeys(D, at)
  BY <1>0 DEF Keys, UniqueKeys, IsInjective
<1>3. p \in Bijection(1 .. n, D)
  BY <1>1, <1>2, ByKeyIs
<1>4. E \subseteq P /\ IsFiniteSet(E) /\ Cardinality(E) <= Cardinality(P)
  <2>1. E \subseteq P
    BY <1>0 DEF ToSet
  <2> QED
    BY <2>1, FS_Subset
<1>5. Cardinality(E) = n
  <2>1. s \in Bijection(D, E)
    BY <1>0 DEF Bijection, Injection, Surjection, ToSet
  <2> QED
    BY <1>1, <2>1, FS_Bijection DEF ExistsBijection
<1>6. SortedBy(s, at) = a
  BY DEF SortedBy
<1> HIDE DEF p
<1>7. DOMAIN p = 1 .. n /\ \A k \in 1 .. n : p[k] \in D
  BY <1>3 DEF Bijection, Injection
<1>8. a \in Seq(P) /\ Len(a) = n /\ \A k \in 1 .. n : a[k] = s[p[k]]
  <2>1. a \in [1 .. n -> P]
    BY <1>0, <1>7
  <2> QED
    BY <1>0, <2>1, <1>7
<1>9. ASSUME NEW k \in 1 .. n PROVE a[k] = ByKey(P, key)[k]
  <2> DEFINE e == s[p[k]]
             y == ByKey(P, key)[k]
             I == UpTo(D, at, at[p[k]])
             U == UpTo(E, key, key[e])
  <2>1. Cardinality(I) = k
    BY <1>1, <1>2, UniqueRank DEF p
  <2>2. e \in P /\ e \in E /\ at[p[k]] = key[e]
    BY <1>0, <1>7 DEF ToSet
  <2>3. Cardinality(U) = k
    <3> DEFINE f == [i \in I |-> s[i]]
    <3>1. f \in [I -> U]
      BY <2>2 DEF UpTo, ToSet
    <3>2. \A i, j \in I : f[i] = f[j] => i = j
      BY DEF IsInjective, UpTo
    <3>3. \A x \in U : \E i \in I : f[i] = x
      <4> SUFFICES ASSUME NEW x \in U PROVE \E i \in I : f[i] = x
        OBVIOUS
      <4>1. PICK i \in D : s[i] = x
        BY DEF UpTo, ToSet
      <4>2. at[i] = key[x]
        BY <4>1
      <4>3. i \in I
        BY <2>2, <4>1, <4>2 DEF UpTo
      <4> QED
        BY <4>1, <4>3
    <3>4. f \in Bijection(I, U)
      <4> HIDE DEF f, I, U
      <4> QED
        BY <3>1, <3>2, <3>3 DEF Bijection, Injection, Surjection, IsInjective
    <3>5. IsFiniteSet(I)
      BY <1>1, FS_Subset DEF UpTo
    <3> QED
      BY <2>1, <3>4, <3>5, FS_Bijection DEF ExistsBijection
  <2>4. UpTo(P, key, key[e]) = U
    BY <1>4, <2>2 DEF UpTo, Downward
  <2>5. k \in 1 .. Cardinality(P)
    <3>1. Cardinality(P) \in Nat
      BY FS_CardinalityType
    <3> QED
      BY <1>0, <1>4, <1>5, <3>1
  <2>6. y \in P /\ Cardinality(UpTo(P, key, key[y])) = k
    BY <2>5, UniqueRank
  <2>7. e = y
    <3> HIDE DEF e, y, U
    <3> QED
      BY <2>2, <2>3, <2>4, <2>6, EqualRank
  <2> QED
    BY <1>8, <2>7
<1> HIDE DEF a, at
<1>10. SortedBy(s, at) \in Seq(P) /\ Len(SortedBy(s, at)) = Cardinality(E) /\ Len(SortedBy(s, at)) <= Cardinality(P)
  BY <1>4, <1>5, <1>6, <1>8
<1>11. \A k \in 1 .. Len(SortedBy(s, at)) : SortedBy(s, at)[k] = ByKey(P, key)[k]
  BY <1>6, <1>8, <1>9
<1> QED
  BY <1>10, <1>11 DEF at

LEMMA SortedByIs ==
  ASSUME NEW T, NEW s \in Seq(T), NEW key, Keys(DOMAIN s, key)
  PROVE  SortedBy(s, key) \in Seq(T) /\ Len(SortedBy(s, key)) = Len(s)
<1> DEFINE p == ByKey(DOMAIN s, key)
           n == Len(s)
<1>1. n \in Nat /\ DOMAIN s = 1 .. n /\ \A i \in 1 .. n : s[i] \in T
  OBVIOUS
<1>2. IsFiniteSet(1 .. n) /\ Cardinality(1 .. n) = n
  <2> HIDE DEF n
  <2> QED
    BY <1>1, FS_Interval
<1>3. p \in [1 .. n -> 1 .. n]
  BY <1>1, <1>2, ByKeyIs DEF Bijection, Injection
<1> HIDE DEF p
<1>4. [k \in DOMAIN p |-> s[p[k]]] \in [1 .. n -> T]
  BY <1>1, <1>3
<1>5. SortedBy(s, key) = [k \in DOMAIN p |-> s[p[k]]]
  BY DEF SortedBy, p
<1> QED
  BY <1>1, <1>4, <1>5

\* The elements of a sequence are finitely many.
LEMMA ElementsAreFinite ==
  ASSUME NEW T, NEW s \in Seq(T)
  PROVE  IsFiniteSet(ToSet(s))
<1>1. s \in Surjection(1 .. Len(s), ToSet(s))
  BY DEF Surjection, ToSet
<1> QED
  BY <1>1, FS_Interval, FS_Surjection
=============================================================================
