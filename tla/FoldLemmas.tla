----------------------------- MODULE FoldLemmas -----------------------------
(***************************************************************************)
(* What FoldLeft computes, for any operator.  The provers can instantiate  *)
(* no theorem that has an operator as a parameter, but a module can be     *)
(* instantiated: INSTANCE FoldLemmas WITH op <- ... gives these facts for  *)
(* one operator.                                                           *)
(***************************************************************************)
EXTENDS Integers, WellFoundedInduction, TLAPS

CONSTANT op(_, _)

Largest(s) == CHOOSE x \in s : \A y \in s : x >= y

\* FoldLeft(op, base, seq), written out.
Fold(base, seq) ==
  LET iter[s \in SUBSET DOMAIN seq] ==
        IF s = {} THEN base ELSE op(iter[s \ {Largest(s)}], seq[Largest(s)])
  IN  iter[DOMAIN seq]

\* The values on the way: f[k] is that of the first k elements.
Steps(base, seq, n, f) ==
  f = [k \in 0 .. n |-> IF k = 0 THEN base ELSE op(f[k - 1], seq[k])]

\* Induction, in the form the provers can use.
LEMMA Induction ==
  ASSUME NEW T, 0 \in T, \A k \in Nat : k \in T => k + 1 \in T
  PROVE  Nat \subseteq T
<1> DEFINE Less == {p \in Nat \X Nat : p[1] < p[2]}
           Out  == Nat \ T
<1>1. SUFFICES ASSUME Out # {} PROVE FALSE
  OBVIOUS
<1>2. IsWellFoundedOn(Less, Nat)
  BY NatLessThanWellFounded DEF OpToRel
<1>3. PICK x \in Out : \A y \in Out : ~(<<y, x>> \in Less)
  BY <1>1, <1>2, WFMin
<1>4. x - 1 \in Nat /\ x - 1 \notin Out
  <2>1. x \in Nat /\ x # 0
    BY <1>3
  <2>2. x - 1 \in Nat /\ x - 1 < x
    BY <2>1
  <2> QED
    BY <1>3, <2>1, <2>2
<1>5. (x - 1) + 1 \in T
  BY <1>4
<1> QED
  BY <1>3, <1>5

\* The recursion over sets of positions by which FoldLeft is defined.
Iterates(base, seq, D, f) ==
  f = [s \in SUBSET D |-> IF s = {} THEN base ELSE op(f[s \ {Largest(s)}], seq[Largest(s)])]

LEMMA MaxIsLast ==
  ASSUME NEW k \in Nat, NEW s \in SUBSET (1 .. k + 1), k + 1 \in s
  PROVE  Largest(s) = k + 1
<1>1. \A x \in s : (\A y \in s : x >= y) <=> x = k + 1
  OBVIOUS
<1> QED
  BY <1>1 DEF Largest

LEMMA IterationExists ==
  ASSUME NEW base, NEW seq, NEW n \in Nat
  PROVE  \E f : Iterates(base, seq, 1 .. n, f)
<1> DEFINE T == {k \in Nat : \E f : Iterates(base, seq, 1 .. k, f)}
<1>1. 0 \in T
  <2>1. Iterates(base, seq, 1 .. 0, [s \in SUBSET (1 .. 0) |-> base])
    BY DEF Iterates
  <2> QED
    BY <2>1
<1>2. ASSUME NEW k \in Nat, k \in T
      PROVE  k + 1 \in T
  <2>1. PICK f : Iterates(base, seq, 1 .. k, f)
    BY <1>2
  <2> DEFINE g == [s \in SUBSET (1 .. k + 1) |->
                     IF k + 1 \in s THEN op(f[s \ {k + 1}], seq[k + 1]) ELSE f[s]]
  <2>2. ASSUME NEW s \in SUBSET (1 .. k + 1)
        PROVE  g[s] = IF s = {} THEN base ELSE op(g[s \ {Largest(s)}], seq[Largest(s)])
    <3>1. CASE k + 1 \in s
      <4>1. Largest(s) = k + 1
        BY <3>1, MaxIsLast
      <4>2. g[s \ {k + 1}] = f[s \ {k + 1}]
        OBVIOUS
      <4> QED
        BY <3>1, <4>1, <4>2
    <3>2. CASE k + 1 \notin s
      <4>1. s \in SUBSET (1 .. k)
        BY <3>2
      <4>2. g[s] = f[s] /\ g[s \ {Largest(s)}] = f[s \ {Largest(s)}]
        BY <3>2
      <4> HIDE DEF g
      <4>3. f[s] = IF s = {} THEN base ELSE op(f[s \ {Largest(s)}], seq[Largest(s)])
        BY <2>1, <4>1 DEF Iterates
      <4> QED
        BY <4>2, <4>3
    <3> QED
      BY <3>1, <3>2
  <2>3. DOMAIN g = SUBSET (1 .. k + 1) /\ g = [s \in DOMAIN g |-> g[s]]
    OBVIOUS
  <2> HIDE DEF g
  <2>4. Iterates(base, seq, 1 .. k + 1, g)
    BY <2>2, <2>3 DEF Iterates
  <2> QED
    BY <2>4
<1> HIDE DEF T
<1>3. Nat \subseteq T
  BY <1>1, <1>2, Induction
<1> QED
  BY <1>3 DEF T

\* A fold goes through its steps.
LEMMA FoldHasSteps ==
  ASSUME NEW base, NEW n \in Nat, NEW seq, DOMAIN seq = 1 .. n
  PROVE  \E f : Steps(base, seq, n, f) /\ f[n] = Fold(base, seq)
<1> DEFINE iter == CHOOSE g : Iterates(base, seq, 1 .. n, g)
           f == [k \in 0 .. n |-> iter[1 .. k]]
<1>1. Fold(base, seq) = iter[1 .. n]
  BY DEF Fold, Iterates
<1>2. Iterates(base, seq, 1 .. n, iter)
  BY IterationExists
<1> HIDE DEF iter
<1>3. iter[{}] = base
  BY <1>2 DEF Iterates
<1>4. ASSUME NEW k \in 1 .. n
      PROVE  iter[1 .. k] = op(iter[1 .. k - 1], seq[k])
  <2>0. k \in 1 .. k
    OBVIOUS
  <2>1. 1 .. k \in SUBSET (1 .. n)
    OBVIOUS
  <2>2. Largest(1 .. k) = k
    <3>1. k - 1 \in Nat /\ (k - 1) + 1 = k
      OBVIOUS
    <3>2. k \in 1 .. k
      OBVIOUS
    <3> QED
      BY <3>1, <3>2, MaxIsLast
  <2>3. (1 .. k) \ {k} = 1 .. k - 1
    OBVIOUS
  <2> QED
    BY <1>2, <2>0, <2>1, <2>2, <2>3 DEF Iterates
<1>5. 1 .. 0 = {}
  OBVIOUS
<1>6. Steps(base, seq, n, f)
  <2>1. \A k \in 0 .. n : f[k] = IF k = 0 THEN base ELSE op(f[k - 1], seq[k])
    BY <1>3, <1>4, <1>5
  <2> HIDE DEF f
  <2>2. f = [k \in 0 .. n |-> f[k]]
    BY DEF f
  <2> QED
    BY <2>1, <2>2 DEF Steps
<1> QED
  BY <1>1, <1>6

Extends(longer, seq, n) == \A k \in 1 .. n : longer[k] = seq[k]

\* There is one way to go.
LEMMA StepsAreUnique ==
  ASSUME NEW base, NEW n \in Nat, NEW seq, NEW seq2, Extends(seq2, seq, n),
         NEW m \in Nat, m >= n,
         NEW f, NEW g, Steps(base, seq, n, f), Steps(base, seq2, m, g)
  PROVE  \A k \in 0 .. n : f[k] = g[k]
<1> DEFINE T == {k \in Nat : k <= n => f[k] = g[k]}
<1>1. 0 \in T
  BY DEF Steps
<1>2. ASSUME NEW k \in Nat, k \in T
      PROVE  k + 1 \in T
  <2>1. SUFFICES ASSUME k + 1 <= n PROVE f[k + 1] = g[k + 1]
    OBVIOUS
  <2>2. k + 1 \in 0 .. n /\ k + 1 \in 0 .. m /\ k + 1 # 0 /\ (k + 1) - 1 = k /\ k + 1 \in 1 .. n
    BY <2>1
  <2>3. f[k] = g[k]
    BY <1>2, <2>1
  <2>4. f[k + 1] = op(f[k], seq[k + 1])
    BY <2>2 DEF Steps
  <2>5. g[k + 1] = op(g[k], seq2[k + 1])
    BY <2>2 DEF Steps, Extends
  <2> QED
    BY <2>2, <2>3, <2>4, <2>5 DEF Extends
<1> HIDE DEF T
<1>3. Nat \subseteq T
  BY <1>1, <1>2, Induction
<1> QED
  BY <1>3 DEF T

LEMMA FoldGoesBySteps ==
  ASSUME NEW base, NEW n \in Nat, NEW seq, DOMAIN seq = 1 .. n,
         NEW f, Steps(base, seq, n, f)
  PROVE  Fold(base, seq) = f[n]
<1>1. PICK g : Steps(base, seq, n, g) /\ g[n] = Fold(base, seq)
  BY FoldHasSteps
<1>2. Extends(seq, seq, n)
  BY DEF Extends
<1>3. \A k \in 0 .. n : f[k] = g[k]
  BY <1>1, <1>2, StepsAreUnique
<1> QED
  BY <1>1, <1>3

LEMMA FoldEmpty ==
  ASSUME NEW base, NEW seq, DOMAIN seq = {}
  PROVE  Fold(base, seq) = base
<1>1. DOMAIN seq = 1 .. 0 /\ 0 \in Nat
  OBVIOUS
<1>2. PICK f : Steps(base, seq, 0, f) /\ f[0] = Fold(base, seq)
  BY <1>1, FoldHasSteps
<1> QED
  BY <1>2 DEF Steps

\* The fold of a beginning is met on the way.
LEMMA FoldOfPrefix ==
  ASSUME NEW base, NEW n \in Nat, NEW seq, DOMAIN seq = 1 .. n,
         NEW m \in Nat, m >= n, NEW longer, Extends(longer, seq, n),
         NEW g, Steps(base, longer, m, g)
  PROVE  g[n] = Fold(base, seq)
<1>1. PICK f : Steps(base, seq, n, f) /\ f[n] = Fold(base, seq)
  BY FoldHasSteps
<1>2. \A k \in 0 .. n : f[k] = g[k]
  BY <1>1, StepsAreUnique
<1> QED
  BY <1>1, <1>2

\* One element more at the end.
LEMMA FoldLast ==
  ASSUME NEW base, NEW n \in Nat,
         NEW seq, DOMAIN seq = 1 .. n,
         NEW longer, DOMAIN longer = 1 .. n + 1, \A k \in 1 .. n : longer[k] = seq[k]
  PROVE  Fold(base, longer) = op(Fold(base, seq), longer[n + 1])
<1> DEFINE m == n + 1
<1>1. m \in Nat /\ m >= n /\ m - 1 = n /\ m \in 0 .. m /\ m # 0 /\ DOMAIN longer = 1 .. m
  OBVIOUS
<1>2. Extends(longer, seq, n)
  BY DEF Extends
<1> HIDE DEF m
<1>3. PICK g : Steps(base, longer, m, g) /\ g[m] = Fold(base, longer)
  BY <1>1, FoldHasSteps
<1>4. g[n] = Fold(base, seq)
  BY <1>1, <1>2, <1>3, FoldOfPrefix
<1>5. g[m] = op(g[n], longer[m])
  BY <1>1, <1>3 DEF Steps
<1> QED
  BY <1>3, <1>4, <1>5 DEF m

\* One part after the other.
Joined(first, m, second, n, all) ==
  /\ DOMAIN first = 1 .. m /\ DOMAIN second = 1 .. n /\ DOMAIN all = 1 .. m + n
  /\ \A k \in 1 .. m : all[k] = first[k]
  /\ \A k \in 1 .. n : all[m + k] = second[k]

LEMMA FoldParts ==
  ASSUME NEW base, NEW m \in Nat, NEW n \in Nat, NEW first, NEW second, NEW all,
         Joined(first, m, second, n, all)
  PROVE  Fold(base, all) = Fold(Fold(base, first), second)
<1> USE DEF Joined
<1>1. PICK f : Steps(base, first, m, f) /\ f[m] = Fold(base, first)
  BY FoldHasSteps
<1>2. PICK g : Steps(base, all, m + n, g) /\ g[m + n] = Fold(base, all)
  BY FoldHasSteps, m + n \in Nat
<1> DEFINE h == [k \in 0 .. n |-> g[m + k]]
<1>3. f[m] = g[m]
  <2> DEFINE p == m + n
  <2>1. p \in Nat /\ p >= m /\ Steps(base, all, p, g)
    BY <1>2
  <2>2. Extends(all, first, m)
    BY DEF Extends
  <2> HIDE DEF p
  <2> QED
    BY <1>1, <2>1, <2>2, FoldOfPrefix
<1>4. Steps(Fold(base, first), second, n, h)
  <2>1. ASSUME NEW k \in 0 .. n
        PROVE  h[k] = IF k = 0 THEN Fold(base, first) ELSE op(h[k - 1], second[k])
    <3>1. CASE k = 0
      BY <3>1, <1>1, <1>3
    <3>2. CASE k # 0
      <4>1. k \in 1 .. n /\ m + k \in 0 .. m + n /\ m + k # 0 /\ (m + k) - 1 = m + (k - 1) /\ k - 1 \in 0 .. n
        BY <3>2
      <4>2. g[m + k] = op(g[m + (k - 1)], all[m + k])
        BY <1>2, <4>1 DEF Steps
      <4> QED
        BY <3>2, <4>1, <4>2
    <3> QED
      BY <3>1, <3>2
  <2>2. h = [k \in 0 .. n |-> h[k]]
    OBVIOUS
  <2> HIDE DEF h
  <2> QED
    BY <2>1, <2>2 DEF Steps
<1>5. Fold(Fold(base, first), second) = h[n]
  BY <1>4, FoldGoesBySteps
<1> QED
  BY <1>2, <1>5

\* If each step leads from one set to the next, the fold is in the last.
LEMMA FoldPasses ==
  ASSUME NEW n \in Nat, NEW S, NEW base \in S[0], NEW seq, DOMAIN seq = 1 .. n,
         \A k \in 1 .. n : \A x \in S[k - 1] : op(x, seq[k]) \in S[k]
  PROVE  Fold(base, seq) \in S[n]
<1>1. PICK f : Steps(base, seq, n, f) /\ f[n] = Fold(base, seq)
  BY FoldHasSteps
<1> DEFINE T == {k \in Nat : k <= n => f[k] \in S[k]}
<1>2. 0 \in T
  BY <1>1 DEF Steps
<1>3. ASSUME NEW k \in Nat, k \in T
      PROVE  k + 1 \in T
  <2>1. SUFFICES ASSUME k + 1 <= n PROVE f[k + 1] \in S[k + 1]
    OBVIOUS
  <2>2. k + 1 \in 0 .. n /\ k + 1 # 0 /\ (k + 1) - 1 = k /\ k + 1 \in 1 .. n /\ f[k] \in S[k]
    BY <2>1, <1>3
  <2>3. f[k + 1] = op(f[k], seq[k + 1])
    BY <1>1, <2>2 DEF Steps
  <2> QED
    BY <2>2, <2>3
<1> HIDE DEF T
<1>4. Nat \subseteq T
  BY <1>2, <1>3, Induction
<1> QED
  BY <1>1, <1>4 DEF T

\* What every step keeps, the fold keeps.
LEMMA FoldKeeps ==
  ASSUME NEW S, NEW base \in S, NEW n \in Nat, NEW seq, DOMAIN seq = 1 .. n,
         \A k \in 1 .. n : \A x \in S : op(x, seq[k]) \in S
  PROVE  Fold(base, seq) \in S
<1> DEFINE R == [k \in 0 .. n |-> S]
<1>1. R[0] = S /\ R[n] = S /\ \A k \in 1 .. n : R[k - 1] = S /\ R[k] = S
  OBVIOUS
<1> HIDE DEF R
<1>2. base \in R[0] /\ \A k \in 1 .. n : \A x \in R[k - 1] : op(x, seq[k]) \in R[k]
  BY <1>1
<1>3. Fold(base, seq) \in R[n]
  BY <1>2, FoldPasses
<1> QED
  BY <1>1, <1>3
=============================================================================
