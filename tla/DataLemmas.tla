----------------------------- MODULE DataLemmas -----------------------------
(***************************************************************************)
(* Facts about numbers and sequences that the proofs of several components *)
(* need and the library does not state.                                    *)
(***************************************************************************)
EXTENDS Integers, FiniteSetTheorems, SequenceTheorems, SequencesExt, TLAPS

\* A set of natural numbers that is not empty has a least element: of the
\* intervals 1 .. n there is a smallest.  This is induction, for sets
LEMMA LeastNatural ==
  ASSUME NEW T \in SUBSET Nat, T # {}
  PROVE  \E m \in T : \A n \in T : m <= n
<1> DEFINE F == {1 .. n : n \in T}
<1>1. F \subseteq FiniteSubsetsOf(Nat)
  <2>1. SUFFICES ASSUME NEW n \in T PROVE 1 .. n \in FiniteSubsetsOf(Nat)
    OBVIOUS
  <2>2. IsFiniteSet(1 .. n)
    BY FS_Interval
  <2>3. 1 .. n \in SUBSET Nat
    OBVIOUS
  <2> QED
    BY <2>2, <2>3 DEF FiniteSubsetsOf
<1>2. F # {}
  OBVIOUS
<1> HIDE DEF F
<1>3. \E X \in F : \A Y \in F : ~(<<Y, X>> \in StrictSubsetOrdering(Nat))
  BY <1>1, <1>2, FS_StrictSubsetOrderingWellFounded, WFMin
<1>4. PICK m \in T : \A Y \in F : ~(<<Y, 1 .. m>> \in StrictSubsetOrdering(Nat))
  BY <1>3 DEF F
<1>5. ASSUME NEW n \in T, n < m PROVE FALSE
  <2>1. 1 .. n \in F
    BY DEF F
  <2>2. 1 .. n \subseteq 1 .. m /\ m \in 1 .. m /\ m \notin 1 .. n
    BY <1>5
  <2>3. 1 .. n # 1 .. m
    BY <2>2
  <2>4. 1 .. n \in SUBSET Nat /\ 1 .. m \in SUBSET Nat
    OBVIOUS
  <2> QED
    BY <1>4, <2>1, <2>2, <2>3, <2>4 DEF StrictSubsetOrdering
<1> QED
  BY <1>5

\* A set that holds 0, and the successor of what it holds, holds every number
LEMMA InductionOnSets ==
  ASSUME NEW S, 0 \in S, \A n \in Nat : n \in S => n + 1 \in S
  PROVE  Nat \subseteq S
<1> SUFFICES ASSUME Nat \ S # {} PROVE FALSE
  OBVIOUS
<1>1. PICK m \in Nat \ S : \A n \in Nat \ S : m <= n
  BY LeastNatural
<1>2. m - 1 \in Nat /\ m - 1 \in S
  BY <1>1
<1> QED
  BY <1>2

\* Min, a choice, is what its name says for naturals
LEMMA MinOfNaturals ==
  ASSUME NEW T \in SUBSET Nat, T # {}
  PROVE  Min(T) \in T /\ \A n \in T : Min(T) <= n
BY LeastNatural DEF Min

\* A set of natural numbers that none of them exceeds m has a largest one
LEMMA LargestNatural ==
  ASSUME NEW m \in Nat, NEW T \in SUBSET (0 .. m), T # {}
  PROVE  \E l \in T : \A n \in T : n <= l
<1> DEFINE D == {m - n : n \in T}
<1>1. D \in SUBSET Nat /\ D # {}
  <2>1. \A n \in T : n \in 0 .. m /\ m - n \in Nat
    OBVIOUS
  <2> QED
    BY <2>1
<1> HIDE DEF D
<1>2. PICK d \in D : \A c \in D : d <= c
  BY <1>1, LeastNatural
<1>3. PICK l \in T : d = m - l
  BY DEF D
<1>4. ASSUME NEW n \in T PROVE n <= l
  <2>1. m - n \in D
    BY DEF D
  <2> QED
    BY <1>2, <1>3, <2>1
<1> QED
  BY <1>4

\* g is what F makes of base, step by step
Steps(g, base, F, m) == g[0] = base /\ \A i \in 1 .. m : g[i] = F[i][g[i - 1]]

\* A recursion over 1 .. m that stays in S is a function: what lets a
\* recursive function be unfolded
LEMMA RecursiveSequence ==
  ASSUME NEW m \in Nat, NEW S, NEW base \in S, NEW F \in [1 .. m -> [S -> S]]
  PROVE  \E g \in [0 .. m -> S] : Steps(g, base, F, m)
<1> DEFINE T == { n \in Nat : n <= m => \E g \in [0 .. n -> S] : Steps(g, base, F, n) }
<1> USE DEF Steps
<1>1. 0 \in T
  <2>1. Steps([i \in 0 .. 0 |-> base], base, F, 0)
    OBVIOUS
  <2> QED
    BY <2>1
<1>2. ASSUME NEW n \in Nat, n \in T PROVE n + 1 \in T
  <2>1. SUFFICES ASSUME n + 1 <= m
                 PROVE  \E g \in [0 .. n + 1 -> S] : Steps(g, base, F, n + 1)
    OBVIOUS
  <2>2. PICK g \in [0 .. n -> S] : Steps(g, base, F, n)
    BY <1>2, <2>1
  <2>3. n + 1 \in 1 .. m /\ g[n] \in S /\ F[n + 1][g[n]] \in S
    BY <2>1
  <2> DEFINE h == [i \in 0 .. n + 1 |-> IF i = n + 1 THEN F[n + 1][g[n]] ELSE g[i]]
  <2>4. h \in [0 .. n + 1 -> S]
    BY <2>3
  <2>5. h[0] = base /\ h[n + 1] = F[n + 1][g[n]] /\ \A i \in 0 .. n : h[i] = g[i]
    BY <2>2
  <2> HIDE DEF h
  <2>6. ASSUME NEW i \in 1 .. n + 1 PROVE h[i] = F[i][h[i - 1]]
    <3>1. CASE i = n + 1
      <4>1. i - 1 = n /\ n \in 0 .. n
        BY <3>1
      <4> QED
        BY <2>5, <3>1, <4>1
    <3>2. CASE i # n + 1
      <4>1. i \in 1 .. n /\ i \in 0 .. n /\ i - 1 \in 0 .. n
        BY <3>2
      <4> QED
        BY <2>2, <2>5, <4>1
    <3> QED
      BY <3>1, <3>2
  <2> QED
    BY <2>4, <2>5, <2>6
<1> HIDE DEF T
<1>3. m \in T
  BY <1>1, <1>2, InductionOnSets
<1> QED
  BY <1>3 DEF T

\* RemoveAt takes one element out and keeps the others
LEMMA RemoveAtFacts ==
  ASSUME NEW S, NEW seq \in Seq(S), NEW i \in 1 .. Len(seq)
  PROVE  /\ RemoveAt(seq, i) \in Seq(S)
         /\ Len(RemoveAt(seq, i)) = Len(seq) - 1
         /\ \A j \in 1 .. Len(seq) - 1 :
              RemoveAt(seq, i)[j] = IF j < i THEN seq[j] ELSE seq[j + 1]
<1> DEFINE s == SubSeq(seq, 1, i - 1)
           t == SubSeq(seq, i + 1, Len(seq))
<1>0. /\ Len(seq) \in Nat
      /\ \A j \in 1 .. Len(seq) : seq[j] \in S
      /\ \A j \in 1 .. i - 1 : seq[j] \in S
      /\ \A j \in i + 1 .. Len(seq) : seq[j] \in S
  BY ElementOfSeq, LenProperties
<1>1. /\ s \in Seq(S)
      /\ Len(s) = i - 1
      /\ \A j \in 1 .. i - 1 : s[j] = seq[j]
  <2>1. i - 1 \in Int /\ 1 \in Int
    OBVIOUS
  <2> HIDE DEF s
  <2>2. /\ s \in Seq(S)
        /\ Len(s) = IF 1 <= i - 1 THEN i - 1 - 1 + 1 ELSE 0
        /\ \A j \in 1 .. i - 1 - 1 + 1 : s[j] = seq[1 + j - 1]
    BY <1>0, <2>1, SubSeqProperties DEF s
  <2> QED
    BY <2>2
<1>2. /\ t \in Seq(S)
      /\ Len(t) = Len(seq) - i
      /\ \A j \in 1 .. Len(seq) - i : t[j] = seq[i + j]
  <2>1. i + 1 \in Int /\ Len(seq) \in Int
    BY <1>0
  <2> HIDE DEF t
  <2>2. /\ t \in Seq(S)
        /\ Len(t) = IF i + 1 <= Len(seq) THEN Len(seq) - (i + 1) + 1 ELSE 0
        /\ \A j \in 1 .. Len(seq) - (i + 1) + 1 : t[j] = seq[(i + 1) + j - 1]
    BY <1>0, <2>1, SubSeqProperties DEF t
  <2> QED
    BY <2>2, <1>0
<1> HIDE DEF s, t
<1>3. /\ s \o t \in Seq(S)
      /\ Len(s \o t) = Len(s) + Len(t)
      /\ \A j \in 1 .. Len(s) + Len(t) :
           (s \o t)[j] = IF j <= Len(s) THEN s[j] ELSE t[j - Len(s)]
  BY <1>1, <1>2, ConcatProperties
<1>4. RemoveAt(seq, i) = s \o t
  BY DEF RemoveAt, s, t
<1>5. ASSUME NEW j \in 1 .. Len(seq) - 1
      PROVE  RemoveAt(seq, i)[j] = IF j < i THEN seq[j] ELSE seq[j + 1]
  <2>1. CASE j < i
    BY <1>0, <1>1, <1>2, <1>3, <1>4, <2>1
  <2>2. CASE j >= i
    <3>1. (s \o t)[j] = t[j - (i - 1)]
      BY <1>0, <1>1, <1>2, <1>3, <2>2
    <3>2. j - (i - 1) \in 1 .. Len(seq) - i
      BY <1>0, <2>2
    <3>3. t[j - (i - 1)] = seq[i + (j - (i - 1))]
      BY <1>2, <3>2
    <3>4. i + (j - (i - 1)) = j + 1
      BY <1>0
    <3> QED
      BY <1>4, <2>2, <3>1, <3>3, <3>4
  <2> QED
    BY <1>0, <2>1, <2>2
<1>6. Len(RemoveAt(seq, i)) = Len(seq) - 1
  <2>1. Len(RemoveAt(seq, i)) = (i - 1) + (Len(seq) - i)
    BY <1>1, <1>2, <1>3, <1>4, Zenon
  <2>2. (i - 1) + (Len(seq) - i) = Len(seq) - 1
    BY <1>0
  <2> QED
    BY <2>1, <2>2
<1> QED
  BY <1>3, <1>4, <1>5, <1>6

\* A number is its quotient and its remainder
LEMMA Division ==
  ASSUME NEW x \in Nat, NEW m \in Nat \ {0}
  PROVE  /\ x = m * (x \div m) + (x % m)
         /\ x \div m \in Nat /\ x % m \in 0 .. m - 1
<1>1. m > 0
  OBVIOUS
<1>2. x = m * (x \div m) + (x % m)
  BY <1>1
<1> QED
 BY <1>1, <1>2

\* There is one quotient and one remainder
LEMMA DivisionUnique ==
  ASSUME NEW m \in Nat \ {0}, NEW q \in Nat, NEW r \in 0 .. m - 1
  PROVE  (m * q + r) % m = r /\ (m * q + r) \div m = q
<1> DEFINE x == m * q + r
<1>1. x \in Nat
  OBVIOUS
<1>2. x = m * q + r
  OBVIOUS
<1> HIDE DEF x
<1>3. x % m = r
  BY <1>1, <1>2
<1>4. x \div m = q
  BY <1>1, <1>2
<1> QED
  BY <1>2, <1>3, <1>4

\* The remainder by twice m: that by m, with m more when the quotient is odd
LEMMA DoubleRemainder ==
  ASSUME NEW x \in Nat, NEW m \in Nat \ {0}
  PROVE  /\ (x % (2 * m)) % m = x % m
         /\ x % (2 * m) \in {x % m, (x % m) + m}
         /\ (x \div m) % 2 = 1 <=> x % (2 * m) # x % m
<1> DEFINE k == 2 * m
           q == x \div k
           r == x % k
<1>1. k \in Nat \ {0}
  OBVIOUS
<1> HIDE DEF k
<1>2. x = k * q + r /\ q \in Nat /\ r \in 0 .. k - 1
  BY <1>1, Division
<1> HIDE DEF q, r
<1>3. x = (2 * m) * q + r /\ r \in 0 .. 2 * m - 1
  BY <1>2 DEF k
<1>4. (2 * m) * q = m * (2 * q) /\ m * (2 * q + 1) = m * (2 * q) + m
  BY <1>2
<1>5. 2 * q \in Nat /\ 2 * q + 1 \in Nat /\ (2 * q) % 2 = 0 /\ (2 * q + 1) % 2 = 1
  BY <1>2
<1>6. CASE r < m
  <2>1. x = m * (2 * q) + r /\ r \in 0 .. m - 1
    BY <1>2, <1>3, <1>4, <1>6
  <2>2. x % m = r /\ x \div m = 2 * q
    BY <2>1, <1>5, DivisionUnique
  <2>3. r % m = r
    BY <2>1
  <2> QED
    BY <2>2, <2>3, <1>5 DEF r, k
<1>7. CASE r >= m
  <2> DEFINE e == r - m
             o == 2 * q + 1
  <2>1. x = m * o + e /\ e \in 0 .. m - 1 /\ r = e + m /\ r = m * 1 + e
    BY <1>2, <1>3, <1>4, <1>7
  <2>2. o \in Nat /\ o % 2 = 1
    BY <1>5
  <2> HIDE DEF e, o
  <2>3. x % m = e /\ x \div m = o /\ r % m = e
    BY <2>1, <2>2, DivisionUnique
  <2>4. r # e
    BY <2>1
  <2> QED
    BY <2>1, <2>2, <2>3, <2>4 DEF r, k
<1> QED
  BY <1>2, <1>6, <1>7

\* The powers of two
Doubling(P) == P[0] = 1 /\ \A n \in Nat : P[n] \in Nat \ {0} /\ P[n + 1] = 2 * P[n]

\* The recursion that defines the powers of two is a function
LEMMA DoublingFunction ==
  LET P == CHOOSE f : f = [n \in Nat |-> IF n = 0 THEN 1 ELSE 2 * f[n - 1]]
  IN  Doubling(P)
<1> DEFINE S       == Nat \ {0}
           Step    == [i \in Nat |-> [x \in S |-> 2 * x]]
           Upto(n) == [i \in 1 .. n |-> [x \in S |-> 2 * x]]
           Is(g, n) == g \in [0 .. n -> S] /\ Steps(g, 1, Upto(n), n)
           pick(n) == CHOOSE g : Is(g, n)
           F       == [n \in Nat |-> pick(n)[n]]
<1>1. ASSUME NEW n \in Nat PROVE \E g : Is(g, n)
  <2>1. 1 \in S /\ Upto(n) \in [1 .. n -> [S -> S]]
    OBVIOUS
  <2> HIDE DEF S, Upto
  <2>2. \E g \in [0 .. n -> S] : Steps(g, 1, Upto(n), n)
    BY <2>1, RecursiveSequence
  <2> QED
    BY <2>2
<1>2. ASSUME NEW n \in Nat, NEW g, Is(g, n)
      PROVE  g[0] = 1 /\ \A i \in 1 .. n : g[i] = 2 * g[i - 1] /\ g[i - 1] \in S
  <2>1. g \in [0 .. n -> S] /\ g[0] = 1 /\ \A i \in 1 .. n : g[i] = Upto(n)[i][g[i - 1]]
    BY <1>2 DEF Steps
  <2>2. SUFFICES ASSUME NEW i \in 1 .. n PROVE g[i] = 2 * g[i - 1] /\ g[i - 1] \in S
    BY <2>1
  <2>3. i - 1 \in 0 .. n /\ g[i - 1] \in S
    BY <2>1
  <2>4. Upto(n)[i] = [x \in S |-> 2 * x]
    OBVIOUS
  <2> QED
    BY <2>1, <2>3, <2>4
<1>3. ASSUME NEW n \in Nat PROVE Is(pick(n), n)
  <2> HIDE DEF Is
  <2> QED
    BY <1>1
<1> HIDE DEF Is, pick
<1>4. ASSUME NEW n \in Nat PROVE \A i \in Nat : i <= n => pick(n)[i] = pick(i)[i]
  <2> DEFINE T == {i \in Nat : i <= n => \A k \in i .. n : pick(k)[i] = pick(i)[i]}
  <2>1. 0 \in T
    <3>1. \A k \in 0 .. n : k \in Nat /\ pick(k)[0] = 1
      BY <1>2, <1>3
    <3> QED
      BY <3>1
  <2>2. ASSUME NEW i \in Nat, i \in T PROVE i + 1 \in T
    <3>1. SUFFICES ASSUME i + 1 <= n, NEW k \in i + 1 .. n
                   PROVE  pick(k)[i + 1] = pick(i + 1)[i + 1]
      OBVIOUS
    <3>2. /\ k \in Nat /\ i + 1 \in Nat /\ i + 1 \in 1 .. k /\ i + 1 \in 1 .. i + 1
          /\ (i + 1) - 1 = i /\ k \in i .. n /\ i + 1 \in i .. n /\ i <= n
      BY <3>1
    <3>3. pick(k)[i + 1] = 2 * pick(k)[i] /\ pick(i + 1)[i + 1] = 2 * pick(i + 1)[i]
      <4>1. Is(pick(k), k) /\ Is(pick(i + 1), i + 1)
        BY <3>2, <1>3
      <4> QED
        BY <4>1, <3>2, <1>2
    <3>4. pick(k)[i] = pick(i)[i] /\ pick(i + 1)[i] = pick(i)[i]
      BY <2>2, <3>2
    <3> QED
      BY <3>3, <3>4
  <2> HIDE DEF T
  <2>3. Nat \subseteq T
    BY <2>1, <2>2, InductionOnSets
  <2> QED
    BY <2>3 DEF T
<1>5. ASSUME NEW n \in Nat
      PROVE  F[0] = 1 /\ F[n] \in S /\ F[n + 1] = 2 * F[n]
  <2>1. F[0] = 1
    BY <1>2, <1>3
  <2>2. n + 1 \in Nat /\ n + 1 \in 1 .. n + 1 /\ (n + 1) - 1 = n /\ n <= n + 1
    OBVIOUS
  <2>3. pick(n + 1)[n + 1] = 2 * pick(n + 1)[n] /\ pick(n + 1)[n] \in S
    <3>1. Is(pick(n + 1), n + 1)
      BY <2>2, <1>3
    <3> QED
      BY <3>1, <2>2, <1>2
  <2>4. pick(n + 1)[n] = pick(n)[n]
    BY <2>2, <1>4
  <2> HIDE DEF S
  <2> QED
    BY <2>1, <2>2, <2>3, <2>4
<1>6. F = [n \in Nat |-> IF n = 0 THEN 1 ELSE 2 * F[n - 1]]
  <2>1. ASSUME NEW n \in Nat PROVE F[n] = IF n = 0 THEN 1 ELSE 2 * F[n - 1]
    <3>1. CASE n = 0
      BY <3>1, <1>5
    <3>2. CASE n # 0
      <4>1. n - 1 \in Nat /\ (n - 1) + 1 = n
        BY <3>2
      <4> QED
        BY <3>2, <4>1, <1>5
    <3> QED
      BY <3>1, <3>2
  <2>2. F = [n \in Nat |-> F[n]]
    OBVIOUS
  <2> HIDE DEF F
  <2> QED
    BY <2>1, <2>2
<1> HIDE DEF F
<1> DEFINE P == CHOOSE f : f = [n \in Nat |-> IF n = 0 THEN 1 ELSE 2 * f[n - 1]]
<1>7. P = [n \in Nat |-> IF n = 0 THEN 1 ELSE 2 * P[n - 1]]
  BY <1>6
<1> HIDE DEF P
<1>8. P[0] = 1 /\ \A n \in Nat : P[n + 1] = 2 * P[n]
  <2>1. P[0] = 1
    BY <1>7
  <2>2. ASSUME NEW n \in Nat PROVE P[n + 1] = 2 * P[n]
    <3>1. n + 1 \in Nat /\ n + 1 # 0 /\ (n + 1) - 1 = n
      OBVIOUS
    <3> QED
      BY <1>7, <3>1
  <2> QED
    BY <2>1, <2>2
<1>9. \A n \in Nat : P[n] \in Nat \ {0}
  <2> DEFINE T == {n \in Nat : P[n] \in Nat \ {0}}
  <2>1. 0 \in T /\ \A n \in Nat : n \in T => n + 1 \in T
    BY <1>8
  <2> HIDE DEF T
  <2>2. Nat \subseteq T
    BY <2>1, InductionOnSets
  <2> QED
    BY <2>2 DEF T
<1>10. Doubling(P)
  BY <1>8, <1>9 DEF Doubling
<1> QED
  BY <1>10 DEF P

\* The powers of two do not decrease
LEMMA DoublingGrows ==
  ASSUME NEW P, Doubling(P), NEW d \in Nat, NEW g \in Nat, d <= g
  PROVE  P[d] <= P[g]
<1> DEFINE T == {e \in Nat : P[d] <= P[d + e]}
<1>1. 0 \in T
  BY DEF Doubling
<1>2. ASSUME NEW e \in Nat, e \in T PROVE e + 1 \in T
  <2>1. d + e \in Nat /\ d + (e + 1) = (d + e) + 1
    OBVIOUS
  <2>2. P[d] \in Nat /\ P[d + e] \in Nat /\ P[(d + e) + 1] = 2 * P[d + e] /\ P[d] <= P[d + e]
    BY <2>1, <1>2 DEF Doubling
  <2> QED
    BY <2>1, <2>2
<1> HIDE DEF T
<1>3. g - d \in Nat /\ d + (g - d) = g
  OBVIOUS
<1>4. g - d \in T
  BY <1>1, <1>2, <1>3, InductionOnSets
<1> QED
  BY <1>3, <1>4 DEF T

\* The low d bits of a number: what is left of the low g bits, for g >= d; one
\* bit more; and bit d, which is what the two differ in
LEMMA LowBits ==
  ASSUME NEW P, Doubling(P), NEW x \in Nat, NEW d \in Nat
  PROVE  /\ x % P[d] \in 0 .. P[d] - 1
         /\ x < P[d] => x % P[d] = x
         /\ x % P[d + 1] \in {x % P[d], (x % P[d]) + P[d]}
         /\ (x \div P[d]) % 2 = 1 <=> x % P[d + 1] # x % P[d]
         /\ (x % P[d + 1]) % P[d] = x % P[d]
<1> DEFINE m == P[d]
<1>1. m \in Nat \ {0} /\ P[d + 1] = 2 * m
  BY DEF Doubling
<1> HIDE DEF m
<1>2. x % m \in 0 .. m - 1
  BY <1>1, Division
<1>3. x < m => x % m = x
  BY <1>1
<1>4. /\ (x % (2 * m)) % m = x % m
      /\ x % (2 * m) \in {x % m, (x % m) + m}
      /\ (x \div m) % 2 = 1 <=> x % (2 * m) # x % m
  BY <1>1, DoubleRemainder
<1> QED
  BY <1>1, <1>2, <1>3, <1>4, Zenon DEF m

\* The low bits of the low bits
LEMMA LowBitsOfLowBits ==
  ASSUME NEW P, Doubling(P), NEW x \in Nat, NEW d \in Nat, NEW g \in Nat, d <= g
  PROVE  (x % P[g]) % P[d] = x % P[d]
<1> DEFINE T == {e \in Nat : \A y \in Nat : (y % P[d + e]) % P[d] = y % P[d]}
<1>1. 0 \in T
  <2>1. SUFFICES ASSUME NEW y \in Nat PROVE (y % P[d]) % P[d] = y % P[d]
    OBVIOUS
  <2>2. y % P[d] \in 0 .. P[d] - 1 /\ P[d] \in Nat
    BY LowBits DEF Doubling
  <2> DEFINE z == y % P[d]
  <2>3. z \in Nat /\ z < P[d]
    BY <2>2
  <2> HIDE DEF z
  <2>4. z % P[d] = z
    BY <2>3, LowBits
  <2> QED
    BY <2>4 DEF z
<1>2. ASSUME NEW e \in Nat, e \in T PROVE e + 1 \in T
  <2>1. SUFFICES ASSUME NEW y \in Nat PROVE (y % P[d + (e + 1)]) % P[d] = y % P[d]
    OBVIOUS
  <2> DEFINE k == d + e
             z == y % P[k + 1]
  <2>2. k \in Nat /\ k + 1 \in Nat /\ d + (e + 1) = k + 1
    OBVIOUS
  <2>3. z \in Nat /\ z % P[k] = y % P[k]
    <3>1. P[k + 1] \in Nat
      BY <2>2 DEF Doubling
    <3>2. z \in 0 .. P[k + 1] - 1
      BY <2>2, LowBits
    <3> QED
      BY <2>2, <3>1, <3>2, LowBits
  <2> HIDE DEF z
  <2>4. (z % P[k]) % P[d] = z % P[d] /\ (y % P[k]) % P[d] = y % P[d]
    BY <1>2, <2>3
  <2>5. z % P[d] = y % P[d]
    BY <2>3, <2>4, Zenon
  <2> QED
    BY <2>2, <2>5, Zenon DEF z
<1> HIDE DEF T
<1>3. g - d \in Nat /\ d + (g - d) = g
  OBVIOUS
<1>4. g - d \in T
  BY <1>1, <1>2, <1>3, InductionOnSets
<1> QED
  BY <1>3, <1>4 DEF T

\* pick takes an element of each subset of D that has one
Chooser(pick, D) == \A s \in SUBSET D : s # {} => pick[s] \in s

\* g folds the steps over each subset of D, in the order pick takes its elements
IsFold(g, D, V, base, pick, step) ==
    /\ g \in [SUBSET D -> V]
    /\ \A s \in SUBSET D : g[s] = IF s = {} THEN base ELSE step[pick[s]][g[s \ {pick[s]}]]

\* A recursion over the subsets of a finite set, which takes an element of
\* each, is a function: what lets a fold be unfolded
LEMMA FoldRecursion ==
  ASSUME NEW D, IsFiniteSet(D), NEW V, NEW base \in V,
         NEW pick, Chooser(pick, D), NEW step \in [D -> [V -> V]]
  PROVE  \E g : IsFold(g, D, V, base, pick, step)
<1> DEFINE Card(s)  == Cardinality(s)
           Upto(n)  == {s \in SUBSET D : Card(s) <= n}
           Is(g, n) == /\ g \in [Upto(n) -> V]
                       /\ \A s \in Upto(n) :
                            g[s] = IF s = {} THEN base ELSE step[pick[s]][g[s \ {pick[s]}]]
           T        == {n \in Nat : \E g : Is(g, n)}
<1>1. \A s \in SUBSET D : IsFiniteSet(s) /\ Card(s) \in Nat /\ Card(s) <= Card(D)
  BY FS_Subset, FS_CardinalityType
<1>0. \A s \in SUBSET D : s # {} => pick[s] \in s
  BY DEF Chooser
<1>2. \A s \in SUBSET D : s # {} =>
         s \ {pick[s]} \in SUBSET D /\ Card(s \ {pick[s]}) = Card(s) - 1 /\ pick[s] \in D
  BY <1>0, <1>1, FS_RemoveElement
<1>3. \A s \in SUBSET D : Card(s) = 0 <=> s = {}
  BY <1>1, FS_EmptySet
<1> HIDE DEF Card
<1>4. 0 \in T
  <2> DEFINE g == [s \in Upto(0) |-> base]
  <2>1. \A s \in Upto(0) : s = {}
    BY <1>1, <1>3
  <2>2. Is(g, 0)
    BY <2>1
  <2> HIDE DEF Is
  <2> QED
    BY <2>2
<1>5. ASSUME NEW n \in Nat, n \in T PROVE n + 1 \in T
  <2>1. PICK g : Is(g, n)
    BY <1>5
  <2> DEFINE Next(s) == IF s = {} THEN base ELSE step[pick[s]][g[s \ {pick[s]}]]
             h == [s \in Upto(n + 1) |-> Next(s)]
  <2>2. \A s \in Upto(n + 1) : s # {} => s \ {pick[s]} \in Upto(n) /\ pick[s] \in D
    BY <1>1, <1>2
  <2>3. \A s \in Upto(n + 1) : Next(s) \in V
    BY <2>1, <2>2
  <2>4. \A s \in Upto(n) : g[s] = Next(s) /\ s \in Upto(n + 1)
    <3>1. \A s \in Upto(n) : g[s] = Next(s)
      BY <2>1
    <3>2. \A s \in Upto(n) : s \in SUBSET D /\ Card(s) \in Nat /\ Card(s) <= n
      BY <1>1
    <3>3. \A s \in Upto(n) : s \in Upto(n + 1)
      BY <3>2
    <3> QED
      BY <3>1, <3>3
  <2> HIDE DEF Next, Upto
  <2>5. h \in [Upto(n + 1) -> V]
    BY <2>3
  <2>6. \A s \in Upto(n) : h[s] = g[s]
    BY <2>4
  <2>7. \A s \in Upto(n + 1) : h[s] = Next(s)
    OBVIOUS
  <2> HIDE DEF h
  <2>8. \A s \in Upto(n + 1) :
           h[s] = IF s = {} THEN base ELSE step[pick[s]][h[s \ {pick[s]}]]
    BY <2>2, <2>6, <2>7 DEF Next
  <2>9. Is(h, n + 1)
    BY <2>5, <2>8
  <2> HIDE DEF Is
  <2> QED
    BY <2>9
<1> HIDE DEF T
<1>6. Card(D) \in Nat
  BY <1>1
<1>7. Card(D) \in T
  BY <1>4, <1>5, <1>6, InductionOnSets
<1>8. PICK g : Is(g, Card(D))
  BY <1>7 DEF T
<1>9. Upto(Card(D)) = SUBSET D
  BY <1>1
<1>10. g \in [SUBSET D -> V]
  BY <1>8, <1>9
<1>11. \A s \in SUBSET D : g[s] = IF s = {} THEN base ELSE step[pick[s]][g[s \ {pick[s]}]]
  BY <1>8, <1>9
<1> QED
  BY <1>10, <1>11 DEF IsFold

\* Max, a choice, of a set of places, and of the first i places
LEMMA MaxOfPlaces ==
  ASSUME NEW n \in Nat
  PROVE  /\ \A s \in SUBSET (1 .. n) : s # {} => Max(s) \in s
         /\ \A i \in 1 .. n : /\ 1 .. i \in SUBSET (1 .. n) /\ 1 .. i # {}
                              /\ Max(1 .. i) = i /\ (1 .. i) \ {i} = 1 .. i - 1
<1>1. ASSUME NEW s \in SUBSET (1 .. n), s # {} PROVE Max(s) \in s
  <2>1. s \in SUBSET (0 .. n)
    OBVIOUS
  <2>2. \E l \in s : \A k \in s : k <= l
    BY <2>1, <1>1, LargestNatural
  <2>3. \E l \in s : \A k \in s : l >= k
    BY <2>2
  <2> QED
    BY <2>3 DEF Max
<1>2. ASSUME NEW i \in 1 .. n
      PROVE  /\ 1 .. i \in SUBSET (1 .. n) /\ 1 .. i # {}
             /\ Max(1 .. i) = i /\ (1 .. i) \ {i} = 1 .. i - 1
  <2>1. i \in 1 .. i /\ \A k \in 1 .. i : i >= k
    OBVIOUS
  <2>2. \A x \in 1 .. i : (\A k \in 1 .. i : x >= k) => x = i
    OBVIOUS
  <2>3. Max(1 .. i) = i
    BY <2>1, <2>2 DEF Max
  <2> QED
    BY <2>3
<1> QED
  BY <1>1, <1>2

\* The same over the places of a sequence, the last place taken first
IsFoldLeft(g, n, V, base, step) ==
    /\ g \in [SUBSET (1 .. n) -> V]
    /\ \A s \in SUBSET (1 .. n) : g[s] = IF s = {} THEN base ELSE step[Max(s)][g[s \ {Max(s)}]]
    /\ \A s \in SUBSET (1 .. n) : s # {} => Max(s) \in 1 .. n /\ g[s \ {Max(s)}] \in V

\* A recursion over the places of a sequence is a function
LEMMA FoldLeftRecursion ==
  ASSUME NEW n \in Nat, NEW V, NEW base \in V, NEW step \in [1 .. n -> [V -> V]]
  PROVE  \E g : IsFoldLeft(g, n, V, base, step)
<1> DEFINE D == 1 .. n
           pick == [s \in SUBSET D |-> Max(s)]
<1>1. IsFiniteSet(D)
  BY FS_Interval
<1>2. \A s \in SUBSET D : pick[s] = Max(s)
  OBVIOUS
<1>3. \A s \in SUBSET D : s # {} => Max(s) \in s
  BY MaxOfPlaces
<1> HIDE DEF D, pick
<1>4. Chooser(pick, D)
  BY <1>2, <1>3 DEF Chooser
<1>5. step \in [D -> [V -> V]]
  BY DEF D
<1>6. PICK g : IsFold(g, D, V, base, pick, step)
  BY <1>1, <1>4, <1>5, FoldRecursion
<1>7. \A s \in SUBSET D : s # {} => Max(s) \in D /\ g[s \ {Max(s)}] \in V
  BY <1>3, <1>6 DEF IsFold
<1>8. \A s \in SUBSET D : g[s] = IF s = {} THEN base ELSE step[Max(s)][g[s \ {Max(s)}]]
  BY <1>2, <1>6 DEF IsFold
<1> QED
  BY <1>6, <1>7, <1>8 DEF D, IsFold, IsFoldLeft

\* The sequence has each element of the set once, and nothing else
Lists(seq, S) ==
    /\ seq \in Seq(S) /\ ToSet(seq) = S /\ Len(seq) = Cardinality(S) /\ IsFiniteSet(S)
    /\ \A i, j \in DOMAIN seq : seq[i] = seq[j] => i = j

\* The empty sequence lists the empty set
LEMMA ListsNothing == Lists(<<>>, {})
<1>1. IsFiniteSet({}) /\ Cardinality({}) = 0
  BY FS_EmptySet
<1>2. <<>> \in Seq({}) /\ Len(<<>>) = 0 /\ DOMAIN <<>> = {} /\ ToSet(<<>>) = {}
  BY DEF ToSet
<1> QED
  BY <1>1, <1>2 DEF Lists

\* Appending a new element
LEMMA ListsOneMore ==
  ASSUME NEW seq, NEW S, Lists(seq, S), NEW x, x \notin S
  PROVE  Lists(Append(seq, x), S \cup {x})
<1> DEFINE more == Append(seq, x)
           n    == Len(seq)
<1>1. seq \in Seq(S) /\ ToSet(seq) = S /\ n = Cardinality(S) /\ IsFiniteSet(S)
  BY DEF Lists
<1>2. n \in Nat /\ DOMAIN seq = 1 .. n /\ \A i \in 1 .. n : seq[i] \in S
  BY <1>1, ElementOfSeq, LenProperties
<1>3. /\ more \in Seq(S \cup {x}) /\ Len(more) = n + 1
      /\ \A i \in 1 .. n : more[i] = seq[i] /\ more[n + 1] = x
      /\ more[n + 1] = x /\ DOMAIN more = 1 .. n + 1
  <2>1. seq \in Seq(S \cup {x}) /\ x \in S \cup {x}
    BY <1>1, <1>2
  <2> QED
    BY <2>1, <1>2, AppendProperties
<1> HIDE DEF more, n
<1>4. ToSet(more) = S \cup {x}
  <2>1. S = {seq[i] : i \in 1 .. n}
    BY <1>1, <1>2 DEF ToSet
  <2>2. {more[i] : i \in 1 .. n + 1} = {seq[i] : i \in 1 .. n} \cup {x}
    <3>1. \A i \in 1 .. n + 1 : i \in 1 .. n \/ i = n + 1
      BY <1>2
    <3>2. \A i \in 1 .. n : i \in 1 .. n + 1
      BY <1>2
    <3>3. n + 1 \in 1 .. n + 1
      BY <1>2
    <3> QED
      BY <1>3, <3>1, <3>2, <3>3
  <2> QED
    BY <1>3, <2>1, <2>2 DEF ToSet
<1>5. IsFiniteSet(S \cup {x}) /\ Cardinality(S \cup {x}) = n + 1
  BY <1>1, FS_AddElement
<1>6. ASSUME NEW i \in DOMAIN more, NEW j \in DOMAIN more, more[i] = more[j] PROVE i = j
  <2>1. i \in 1 .. n \/ i = n + 1
    BY <1>2, <1>3
  <2>2. j \in 1 .. n \/ j = n + 1
    BY <1>2, <1>3
  <2>3. i \in 1 .. n /\ j \in 1 .. n => i = j
    BY <1>2, <1>3, <1>6 DEF Lists
  <2> QED
    BY <1>2, <1>3, <1>6, <2>1, <2>2, <2>3
<1> QED
  BY <1>3, <1>4, <1>5, <1>6 DEF Lists, more

\* A set of numbers from 1 that with a number has those under it: it has the
\* first ones
LEMMA InitialNumbers ==
  ASSUME NEW m \in Nat, NEW S \in SUBSET (1 .. m), \A i \in S : 1 .. i \subseteq S
  PROVE  IsFiniteSet(S) /\ Cardinality(S) \in Nat /\ S = 1 .. Cardinality(S)
<1>1. IsFiniteSet(1 .. m)
  BY FS_Interval
<1>2. IsFiniteSet(S) /\ Cardinality(S) \in Nat
  BY <1>1, FS_Subset, FS_CardinalityType
<1>3. CASE S = {}
  <2>1. Cardinality(S) = 0
    BY <1>3, FS_EmptySet
  <2>2. S = 1 .. Cardinality(S)
    BY <1>3, <2>1
  <2> QED
    BY <1>2, <2>2
<1>4. CASE S # {}
  <2>1. S \in SUBSET (0 .. m)
    OBVIOUS
  <2>2. PICK l \in S : \A i \in S : i <= l
    BY <1>4, <2>1, LargestNatural
  <2>3. S = 1 .. l /\ l \in Nat
    <3>1. 1 .. l \subseteq S
      BY <2>2
    <3>2. l \in Nat /\ \A i \in S : i \in Nat /\ 1 <= i
      OBVIOUS
    <3>3. \A i \in S : i \in 1 .. l
      BY <2>2, <3>2
    <3> QED
      BY <3>1, <3>2, <3>3
  <2>4. Cardinality(1 .. l) = l
    BY <2>3, FS_Interval
  <2>5. Cardinality(S) = l
    BY <2>3, <2>4
  <2> QED
    BY <1>2, <2>3, <2>5
<1> QED
  BY <1>3, <1>4

\* A fold that appends the elements of a set one after the other lists them
Appended(S) == FoldSet(LAMBDA x, found : Append(found, x), <<>>, S)

\* Appending the elements of a finite set one by one lists it
LEMMA AppendedLists ==
  ASSUME NEW S, IsFiniteSet(S)
  PROVE  Lists(Appended(S), S)
<1> DEFINE V    == Seq(S)
           D    == SUBSET S
           pick == [s \in D |-> CHOOSE x \in s : TRUE]
           step == [x \in S |-> [v \in V |-> Append(v, x)]]
           Body(f) == [s \in D |-> IF s = {} THEN <<>>
                                   ELSE Append(f[s \ {CHOOSE x \in s : TRUE}], CHOOSE x \in s : TRUE)]
           iter == CHOOSE f : f = Body(f)
<1>1. Appended(S) = iter[S]
  BY DEF Appended, FoldSet, MapThenFoldSet
<1>2. \A s \in D : s # {} => pick[s] \in s /\ pick[s] \in S /\ pick[s] = CHOOSE x \in s : TRUE
  OBVIOUS
<1>3. <<>> \in V /\ step \in [S -> [V -> V]] /\ Chooser(pick, S)
  <2>1. \A x \in S, v \in V : Append(v, x) \in V
    OBVIOUS
  <2> QED
    BY <1>2, <2>1 DEF Chooser
<1> HIDE DEF V
<1>4. PICK g : IsFold(g, S, V, <<>>, pick, step)
  <2> HIDE DEF pick, step
  <2> QED
    BY <1>3, FoldRecursion
<1>5. g = Body(g)
  <2>1. g = [s \in D |-> g[s]] /\ \A s \in D : g[s] \in V
    BY <1>4 DEF IsFold
  <2>2. \A s \in D : g[s] = IF s = {} THEN <<>> ELSE step[pick[s]][g[s \ {pick[s]}]]
    BY <1>4 DEF IsFold
  <2>3. ASSUME NEW s \in D, s # {}
        PROVE  g[s] = Append(g[s \ {CHOOSE x \in s : TRUE}], CHOOSE x \in s : TRUE)
    <3>1. s \ {pick[s]} \in D /\ pick[s] \in S
      BY <1>2, <2>3
    <3> DEFINE p == pick[s]
               r == g[s \ {p}]
    <3>2. r \in V
      BY <2>1, <3>1
    <3>3. g[s] = step[p][r]
      BY <2>2, <2>3
    <3> HIDE DEF p, r
    <3>4. g[s] = Append(r, p)
      BY <3>1, <3>2, <3>3 DEF p
    <3> QED
      BY <1>2, <2>3, <3>4 DEF p, r
  <2>4. \A s \in D : g[s] = IF s = {} THEN <<>>
                            ELSE Append(g[s \ {CHOOSE x \in s : TRUE}], CHOOSE x \in s : TRUE)
    BY <2>2, <2>3
  <2> HIDE DEF D
  <2> QED
    BY <2>1, <2>4
<1>6. iter = Body(iter)
  BY <1>5
<1> HIDE DEF iter
<1>7. /\ iter[{}] = <<>>
      /\ \A s \in D : s # {} => \E x \in s : iter[s] = Append(iter[s \ {x}], x)
  <2>1. \A s \in D : iter[s] = IF s = {} THEN <<>>
                               ELSE Append(iter[s \ {CHOOSE x \in s : TRUE}], CHOOSE x \in s : TRUE)
    <3> HIDE DEF D
    <3> QED
      BY <1>6
  <2>2. {} \in D
    OBVIOUS
  <2>3. ASSUME NEW s \in D, s # {} PROVE \E x \in s : iter[s] = Append(iter[s \ {x}], x)
    <3> DEFINE x == CHOOSE x \in s : TRUE
    <3>1. x \in s
      BY <2>3
    <3>2. iter[s] = Append(iter[s \ {x}], x)
      BY <2>1, <2>3
    <3> HIDE DEF x
    <3> QED
      BY <3>1, <3>2
  <2> QED
    BY <2>1, <2>2, <2>3
<1> DEFINE T == {n \in Nat : \A s \in D : Cardinality(s) = n => Lists(iter[s], s)}
<1>8. \A s \in D : IsFiniteSet(s) /\ Cardinality(s) \in Nat
  BY FS_Subset, FS_CardinalityType
<1>9. 0 \in T
  <2>1. ASSUME NEW s \in D, Cardinality(s) = 0 PROVE Lists(iter[s], s)
    <3>1. s = {}
      BY <1>8, <2>1, FS_EmptySet
    <3> QED
      BY <1>7, <3>1, ListsNothing
  <2> QED
    BY <2>1
<1>10. ASSUME NEW n \in Nat, n \in T PROVE n + 1 \in T
  <2>1. SUFFICES ASSUME NEW s \in D, Cardinality(s) = n + 1 PROVE Lists(iter[s], s)
    OBVIOUS
  <2>2. s # {}
    BY <2>1, FS_EmptySet
  <2>3. PICK x \in s : iter[s] = Append(iter[s \ {x}], x)
    BY <1>7, <2>2
  <2> DEFINE z == s \ {x}
  <2>4. z \in D /\ Cardinality(z) = n
    BY <1>8, <2>1, FS_RemoveElement
  <2>5. z \cup {x} = s /\ x \notin z
    OBVIOUS
  <2> HIDE DEF z
  <2>6. Lists(iter[z], z)
    BY <1>10, <2>4
  <2>7. Lists(Append(iter[z], x), z \cup {x})
    BY <2>5, <2>6, ListsOneMore
  <2> QED
    BY <2>3, <2>5, <2>7 DEF z
<1> HIDE DEF T
<1>11. Cardinality(S) \in T
  BY <1>8, <1>9, <1>10, InductionOnSets
<1> QED
  BY <1>1, <1>11 DEF T

\* One list after another
LEMMA ListsConcat ==
  ASSUME NEW s, NEW S, Lists(s, S), NEW q, NEW Q, Lists(q, Q), S \cap Q = {}
  PROVE  Lists(s \o q, S \cup Q)
<1> DEFINE n    == Len(s)
           m    == Len(q)
           both == s \o q
<1>1. /\ s \in Seq(S) /\ ToSet(s) = S /\ n = Cardinality(S) /\ IsFiniteSet(S)
      /\ q \in Seq(Q) /\ ToSet(q) = Q /\ m = Cardinality(Q) /\ IsFiniteSet(Q)
  BY DEF Lists
<1>2. /\ n \in Nat /\ DOMAIN s = 1 .. n /\ (\A i \in 1 .. n : s[i] \in S)
      /\ m \in Nat /\ DOMAIN q = 1 .. m /\ (\A i \in 1 .. m : q[i] \in Q)
  BY <1>1, ElementOfSeq, LenProperties
<1>3. /\ both \in Seq(S \cup Q) /\ Len(both) = n + m
      /\ DOMAIN both = 1 .. n + m
      /\ \A i \in 1 .. n : both[i] = s[i]
      /\ \A i \in 1 .. m : both[n + i] = q[i]
  <2>1. s \in Seq(S \cup Q) /\ q \in Seq(S \cup Q)
    BY <1>1, <1>2
  <2>2. /\ both \in Seq(S \cup Q) /\ Len(both) = n + m
        /\ \A i \in 1 .. n + m : both[i] = IF i <= n THEN s[i] ELSE q[i - n]
    BY <2>1, ConcatProperties
  <2>3. \A i \in 1 .. n : i \in 1 .. n + m /\ i <= n
    BY <1>2
  <2>4. \A i \in 1 .. m : n + i \in 1 .. n + m /\ ~(n + i <= n) /\ (n + i) - n = i
    BY <1>2
  <2>5. DOMAIN both = 1 .. n + m
    BY <1>2, <2>2, LenProperties
  <2> HIDE DEF both, n, m
  <2> QED
    BY <2>2, <2>3, <2>4, <2>5
<1> HIDE DEF both, n, m
<1>4. ASSUME NEW i \in 1 .. n + m
      PROVE  i \in 1 .. n \/ \E j \in 1 .. m : i = n + j
  <2>1. i \in 1 .. n \/ (i - n \in 1 .. m /\ i = n + (i - n))
    BY <1>2
  <2> QED
    BY <2>1
<1>5. (\A i \in 1 .. n : i \in 1 .. n + m) /\ \A j \in 1 .. m : n + j \in 1 .. n + m
  BY <1>2
<1>6. ToSet(both) = S \cup Q
  <2>1. S = {s[i] : i \in 1 .. n} /\ Q = {q[i] : i \in 1 .. m}
    BY <1>1, <1>2 DEF ToSet
  <2>2. ASSUME NEW i \in 1 .. n + m PROVE both[i] \in S \cup Q
    BY <1>2, <1>3, <1>4
  <2>3. ASSUME NEW x \in S \cup Q PROVE \E i \in 1 .. n + m : both[i] = x
    <3>1. CASE x \in S
      <4>1. PICK i \in 1 .. n : s[i] = x
        BY <2>1, <3>1
      <4> QED
        BY <1>3, <1>5, <4>1
    <3>2. CASE x \in Q
      <4>1. PICK i \in 1 .. m : q[i] = x
        BY <2>1, <3>2
      <4> QED
        BY <1>3, <1>5, <4>1
    <3> QED
      BY <3>1, <3>2
  <2> QED
    BY <1>3, <2>2, <2>3 DEF ToSet
<1>7. IsFiniteSet(S \cup Q) /\ Cardinality(S \cup Q) = n + m
  <2>1. Cardinality(S \cap Q) = 0
    BY FS_EmptySet
  <2>2. Cardinality(S \cup Q) = Cardinality(S) + Cardinality(Q) - Cardinality(S \cap Q)
    BY <1>1, FS_Union
  <2> QED
    BY <1>1, <1>2, <2>1, <2>2, FS_Union DEF n, m
<1>8. ASSUME NEW i \in DOMAIN both, NEW j \in DOMAIN both, both[i] = both[j] PROVE i = j
  <2>1. i \in 1 .. n + m /\ j \in 1 .. n + m
    BY <1>3
  <2>2. \A a, b \in 1 .. n : s[a] = s[b] => a = b
    BY <1>2 DEF Lists
  <2>3. \A a, b \in 1 .. m : q[a] = q[b] => a = b
    BY <1>2 DEF Lists
  <2>4. \A a \in 1 .. n, b \in 1 .. m : s[a] # q[b]
    BY <1>2
  <2>5. CASE i \in 1 .. n /\ j \in 1 .. n
    BY <1>3, <1>8, <2>2, <2>5
  <2>6. CASE i \notin 1 .. n /\ j \notin 1 .. n
    <3>1. PICK a \in 1 .. m : i = n + a
      BY <1>4, <2>1, <2>6
    <3>2. PICK b \in 1 .. m : j = n + b
      BY <1>4, <2>1, <2>6
    <3>3. q[a] = q[b]
      BY <1>3, <1>8, <3>1, <3>2
    <3> QED
      BY <2>3, <3>1, <3>2, <3>3
  <2>7. CASE i \in 1 .. n /\ j \notin 1 .. n
    <3>1. PICK b \in 1 .. m : j = n + b
      BY <1>4, <2>1, <2>7
    <3> QED
      BY <1>3, <1>8, <2>4, <2>7, <3>1
  <2>8. CASE i \notin 1 .. n /\ j \in 1 .. n
    <3>1. PICK a \in 1 .. m : i = n + a
      BY <1>4, <2>1, <2>8
    <3> QED
      BY <1>3, <1>8, <2>4, <2>8, <3>1
  <2> QED
    BY <2>5, <2>6, <2>7, <2>8
<1> QED
  BY <1>3, <1>6, <1>7, <1>8 DEF Lists, both

\* Each list is of its part, and no element is in two parts
Parts(D, lists, part) ==
    /\ \A x \in D : Lists(lists[x], part[x])
    /\ \A x, y \in D : x # y => part[x] \cap part[y] = {}

AllOf(D, part) == UNION {part[x] : x \in D}

\* all takes the lists of a set one after the other, in some order
Joins(all, D, lists) ==
    /\ all[{}] = <<>>
    /\ \A s \in SUBSET D : s # {} => \E x \in s : all[s] = all[s \ {x}] \o lists[x]

\* A list of a union, from lists of its parts
LEMMA ListsOfParts ==
  ASSUME NEW D, IsFiniteSet(D), NEW lists, NEW part, Parts(D, lists, part),
         NEW all, Joins(all, D, lists)
  PROVE  Lists(all[D], AllOf(D, part))
<1> DEFINE Of(s) == AllOf(s, part)
           T == {n \in Nat : \A s \in SUBSET D : Cardinality(s) = n => Lists(all[s], Of(s))}
<1>1. \A s \in SUBSET D : IsFiniteSet(s) /\ Cardinality(s) \in Nat
  BY FS_Subset, FS_CardinalityType
<1>2. 0 \in T
  <2>1. ASSUME NEW s \in SUBSET D, Cardinality(s) = 0 PROVE Lists(all[s], Of(s))
    <3>1. s = {}
      BY <1>1, <2>1, FS_EmptySet
    <3>2. Of(s) = {}
      BY <3>1 DEF AllOf
    <3> QED
      BY <3>1, <3>2, ListsNothing DEF Joins
  <2> HIDE DEF Of
  <2> QED
    BY <2>1
<1> HIDE DEF Of
<1>3. ASSUME NEW n \in Nat, n \in T PROVE n + 1 \in T
  <2>1. SUFFICES ASSUME NEW s \in SUBSET D, Cardinality(s) = n + 1 PROVE Lists(all[s], Of(s))
    OBVIOUS
  <2>2. s # {}
    BY <2>1, FS_EmptySet
  <2>3. PICK x \in s : all[s] = all[s \ {x}] \o lists[x]
    BY <2>2 DEF Joins
  <2> DEFINE z == s \ {x}
  <2>4. z \in SUBSET D /\ Cardinality(z) = n
    <3>1. IsFiniteSet(s)
      BY <1>1
    <3>2. Cardinality(z) = Cardinality(s) - 1
      BY <3>1, FS_RemoveElement
    <3> HIDE DEF z
    <3>3. Cardinality(z) = n
      BY <2>1, <3>2
    <3> QED
      BY <3>3 DEF z
  <2>5. Lists(all[z], Of(z))
    BY <1>3, <2>4
  <2>6. Lists(lists[x], part[x]) /\ Of(z) \cap part[x] = {}
    BY DEF Parts, Of, AllOf
  <2>7. Of(s) = Of(z) \cup part[x]
    BY DEF Of, AllOf
  <2> HIDE DEF Of, z
  <2>8. Lists(all[z] \o lists[x], Of(z) \cup part[x])
    BY <2>5, <2>6, ListsConcat
  <2> QED
    BY <2>3, <2>7, <2>8 DEF z
<1> HIDE DEF T
<1>4. Cardinality(D) \in T
  BY <1>1, <1>2, <1>3, InductionOnSets
<1> QED
  BY <1>4 DEF T, Of

\* t is s with one more element
OneMore(t, s, V, i, e) ==
    /\ t \in Seq(V) /\ Len(t) = Len(s) + 1 /\ DOMAIN t = 1 .. Len(s) + 1
    /\ \A j \in 1 .. Len(s) + 1 :
         t[j] = IF j < i THEN s[j] ELSE IF j = i THEN e ELSE s[j - 1]

\* What InsertAt does, element by element
LEMMA InsertAtFacts ==
  ASSUME NEW V, NEW s \in Seq(V), NEW i \in 1 .. Len(s) + 1, NEW e \in V
  PROVE  OneMore(InsertAt(s, i, e), s, V, i, e)
<1> DEFINE n == Len(s)
           a == SubSeq(s, 1, i - 1)
           c == SubSeq(s, i, n)
           b == a \o <<e>>
           t == b \o c
<1>1. n \in Nat /\ \A j \in 1 .. n : s[j] \in V
  BY ElementOfSeq, LenProperties
<1>2. i \in 1 .. n + 1
  OBVIOUS
<1> HIDE DEF n
<1>3. i \in Int /\ i - 1 \in Int /\ n \in Int
  BY <1>1, <1>2
<1>4. \A j \in 1 .. i - 1 : s[j] \in V
  BY <1>1, <1>2
<1>5. \A j \in i .. n : s[j] \in V
  BY <1>1, <1>2
<1>6. /\ a \in Seq(V) /\ Len(a) = IF 1 <= i - 1 THEN (i - 1) - 1 + 1 ELSE 0
      /\ \A j \in 1 .. (i - 1) - 1 + 1 : a[j] = s[1 + j - 1]
  BY <1>3, <1>4, SubSeqProperties
<1>7. /\ c \in Seq(V) /\ Len(c) = IF i <= n THEN n - i + 1 ELSE 0
      /\ \A j \in 1 .. n - i + 1 : c[j] = s[i + j - 1]
  BY <1>3, <1>5, SubSeqProperties
<1>8. Len(a) = i - 1 /\ \A j \in 1 .. i - 1 : a[j] = s[j]
  BY <1>1, <1>2, <1>6
<1>9. Len(c) = n - i + 1
  BY <1>1, <1>2, <1>7
<1>10. <<e>> \in Seq(V) /\ Len(<<e>>) = 1 /\ <<e>>[1] = e
  OBVIOUS
<1>11. /\ b \in Seq(V) /\ Len(b) = Len(a) + 1
       /\ \A j \in 1 .. Len(a) + 1 : b[j] = IF j <= Len(a) THEN a[j] ELSE <<e>>[j - Len(a)]
  BY <1>6, <1>10, ConcatProperties
<1>12. Len(b) = i /\ b[i] = e /\ \A j \in 1 .. i - 1 : b[j] = s[j]
  <2> HIDE DEF b, a
  <2>1. Len(b) = i
    BY <1>2, <1>8, <1>11
  <2>2. i \in 1 .. Len(a) + 1 /\ ~(i <= Len(a)) /\ i - Len(a) = 1
    BY <1>2, <1>8
  <2>3. b[i] = e
    BY <1>10, <1>11, <2>2
  <2>4. \A j \in 1 .. i - 1 : j \in 1 .. Len(a) + 1 /\ j <= Len(a)
    BY <1>2, <1>8
  <2> QED
    BY <1>8, <1>11, <2>1, <2>3, <2>4
<1>13. /\ t \in Seq(V) /\ Len(t) = Len(b) + Len(c)
       /\ \A j \in 1 .. Len(b) + Len(c) : t[j] = IF j <= Len(b) THEN b[j] ELSE c[j - Len(b)]
  <2> HIDE DEF b, c
  <2> QED
    BY <1>7, <1>11, ConcatProperties
<1> HIDE DEF a, b, c, t
<1>14. Len(t) = n + 1
  BY <1>1, <1>2, <1>9, <1>12, <1>13
<1>15. ASSUME NEW j \in 1 .. n + 1
       PROVE  t[j] = IF j < i THEN s[j] ELSE IF j = i THEN e ELSE s[j - 1]
  <2>1. j \in 1 .. Len(b) + Len(c)
    BY <1>13, <1>14
  <2>2. CASE j < i
    BY <1>2, <1>12, <1>13, <2>1, <2>2
  <2>3. CASE j = i
    BY <1>2, <1>12, <1>13, <2>1, <2>3
  <2>4. CASE j > i
    <3>1. ~(j <= Len(b)) /\ j - Len(b) = j - i /\ j - i \in 1 .. n - i + 1
          /\ i + (j - i) - 1 = j - 1
      BY <1>1, <1>2, <1>12, <2>4
    <3>2. t[j] = c[j - i]
      BY <1>13, <2>1, <3>1
    <3>3. c[j - i] = s[i + (j - i) - 1]
      BY <1>7, <3>1
    <3> QED
      BY <1>2, <2>4, <3>1, <3>2, <3>3
  <2> QED
    BY <1>2, <2>2, <2>3, <2>4
<1>16. DOMAIN t = 1 .. n + 1
  BY <1>13, <1>14, LenProperties
<1>17. t = InsertAt(s, i, e)
  BY DEF InsertAt, t, a, b, c, n
<1> QED
  BY <1>13, <1>14, <1>15, <1>16, <1>17 DEF n, OneMore

\* Inserting a new element anywhere
LEMMA ListsInserted ==
  ASSUME NEW s, NEW S, Lists(s, S), NEW x, x \notin S, NEW i \in 1 .. Len(s) + 1
  PROVE  Lists(InsertAt(s, i, x), S \cup {x})
<1> DEFINE n == Len(s)
           t == InsertAt(s, i, x)
<1>1. s \in Seq(S) /\ ToSet(s) = S /\ n = Cardinality(S) /\ IsFiniteSet(S)
  BY DEF Lists
<1>2. n \in Nat /\ DOMAIN s = 1 .. n /\ \A j \in 1 .. n : s[j] \in S
  BY <1>1, ElementOfSeq, LenProperties
<1>3. /\ t \in Seq(S \cup {x}) /\ Len(t) = n + 1 /\ DOMAIN t = 1 .. n + 1
      /\ \A j \in 1 .. n + 1 : t[j] = IF j < i THEN s[j] ELSE IF j = i THEN x ELSE s[j - 1]
  <2>1. s \in Seq(S \cup {x}) /\ x \in S \cup {x}
    BY <1>1, <1>2
  <2> QED
    BY <2>1, InsertAtFacts DEF OneMore
<1>4. i \in 1 .. n + 1
  OBVIOUS
<1> HIDE DEF t, n
<1> DEFINE from(j) == IF j < i THEN j ELSE j - 1
<1>5. \A j \in 1 .. n + 1 : j # i => from(j) \in 1 .. n /\ t[j] = s[from(j)]
  BY <1>2, <1>3, <1>4
<1>6. \A j, k \in 1 .. n + 1 : j # i /\ k # i /\ from(j) = from(k) => j = k
  BY <1>2, <1>4
<1>7. \A k \in 1 .. n : \E j \in 1 .. n + 1 : j # i /\ from(j) = k
  <2>1. SUFFICES ASSUME NEW k \in 1 .. n PROVE \E j \in 1 .. n + 1 : j # i /\ from(j) = k
    OBVIOUS
  <2>2. CASE k < i
    <3>1. k \in 1 .. n + 1 /\ k # i /\ from(k) = k
      BY <1>2, <1>4, <2>2
    <3> QED
      BY <3>1
  <2>3. CASE k >= i
    <3>1. k + 1 \in 1 .. n + 1 /\ k + 1 # i /\ from(k + 1) = k
      BY <1>2, <1>4, <2>3
    <3> QED
      BY <3>1
  <2> QED
    BY <1>2, <1>4, <2>2, <2>3
<1> HIDE DEF from
<1>8. t[i] = x
  BY <1>3, <1>4
<1>9. ToSet(t) = S \cup {x}
  <2>1. ASSUME NEW j \in 1 .. n + 1 PROVE t[j] \in S \cup {x}
    BY <1>2, <1>5, <1>8
  <2>2. ASSUME NEW y \in S \cup {x} PROVE \E j \in 1 .. n + 1 : t[j] = y
    <3>1. CASE y \in S
      <4>1. PICK k \in 1 .. n : s[k] = y
        BY <1>1, <1>2, <3>1 DEF ToSet
      <4>2. PICK j \in 1 .. n + 1 : j # i /\ from(j) = k
        BY <1>7
      <4> QED
        BY <1>5, <4>1, <4>2
    <3>2. CASE y = x
      BY <1>4, <1>8, <3>2
    <3> QED
      BY <3>1, <3>2
  <2>3. ToSet(t) = {t[j] : j \in 1 .. n + 1}
    BY <1>3 DEF ToSet
  <2>4. {t[j] : j \in 1 .. n + 1} = S \cup {x}
    BY <2>1, <2>2
  <2> QED
    BY <2>3, <2>4
<1>10. IsFiniteSet(S \cup {x}) /\ Cardinality(S \cup {x}) = n + 1
  BY <1>1, FS_AddElement
<1>11. ASSUME NEW j \in DOMAIN t, NEW k \in DOMAIN t, t[j] = t[k] PROVE j = k
  <2>1. j \in 1 .. n + 1 /\ k \in 1 .. n + 1
    BY <1>3
  <2>2. \A a, b \in 1 .. n : s[a] = s[b] => a = b
    BY <1>2 DEF Lists
  <2>3. CASE j # i /\ k # i
    BY <1>5, <1>6, <1>11, <2>1, <2>2, <2>3
  <2>4. \A a \in 1 .. n : s[a] # x
    BY <1>2
  <2> QED
    BY <1>5, <1>8, <1>11, <2>1, <2>3, <2>4
<1> QED
  BY <1>3, <1>9, <1>10, <1>11 DEF Lists, t

\* Each number leads to a greater one, or to none
Forward(L, link) == \A n \in 1 .. L : link[n] = 0 \/ link[n] \in n + 1 .. L

\* c follows the links from each number
IsChain(c, L, link) ==
    /\ c \in [0 .. L -> Seq(1 .. L)] /\ c[0] = <<>>
    /\ \A n \in 1 .. L : c[n] = <<n>> \o c[link[n]]

\* The same for none and the last m numbers
LastOnes(L, m) == {n \in 0 .. L : n = 0 \/ n > L - m}
IsPartOfChain(c, L, link, m) ==
    /\ c \in [LastOnes(L, m) -> Seq(1 .. L)] /\ c[0] = <<>>
    /\ \A n \in LastOnes(L, m) : n # 0 => c[n] = <<n>> \o c[link[n]]
HasPart(L, link, m) == \E c : IsPartOfChain(c, L, link, m)

\* The links of numbers that lead on can be followed
LEMMA ChainExists ==
  ASSUME NEW L \in Nat, NEW link, Forward(L, link)
  PROVE  \E c : IsChain(c, L, link)
<1> DEFINE S    == Seq(1 .. L)
           D(m) == LastOnes(L, m)
           T    == {m \in Nat : m <= L => HasPart(L, link, m)}
<1>1. 0 \in T
  <2> DEFINE c == [n \in D(0) |-> <<>>]
  <2>1. \A n \in D(0) : n = 0
    BY DEF LastOnes
  <2>2. 0 \in D(0) /\ <<>> \in S
    BY DEF LastOnes
  <2> HIDE DEF S, D
  <2>3. c \in [D(0) -> S] /\ c[0] = <<>> /\ \A n \in D(0) : n # 0 => c[n] = <<n>> \o c[link[n]]
    BY <2>1, <2>2
  <2> HIDE DEF c
  <2>4. IsPartOfChain(c, L, link, 0)
    BY <2>3 DEF IsPartOfChain, D, S
  <2> QED
    BY <2>4 DEF HasPart
<1>2. ASSUME NEW m \in Nat, m \in T PROVE m + 1 \in T
  <2>1. ASSUME m + 1 <= L PROVE HasPart(L, link, m + 1)
    <3>1. PICK c : IsPartOfChain(c, L, link, m)
      <4>1. HasPart(L, link, m)
        BY <1>2, <2>1
      <4> QED
        BY <4>1 DEF HasPart
    <3>2. c \in [D(m) -> S] /\ c[0] = <<>> /\ \A n \in D(m) : n # 0 => c[n] = <<n>> \o c[link[n]]
      BY <3>1 DEF IsPartOfChain
    <3> DEFINE new == L - m
               d == [n \in D(m + 1) |-> IF n = new THEN <<n>> \o c[link[n]] ELSE c[n]]
    <3>3. new \in 1 .. L /\ new \in D(m + 1) /\ new \notin D(m) /\ 0 \in D(m)
      BY <2>1 DEF LastOnes
    <3>4. \A n \in D(m + 1) : n = new \/ n \in D(m)
      BY <2>1 DEF LastOnes
    <3>5. ASSUME NEW n \in D(m + 1), n # 0 PROVE link[n] \in D(m)
      <4>2. n \in 1 .. L /\ n >= L - m
        BY <2>1, <3>5 DEF LastOnes
      <4>3. link[n] = 0 \/ link[n] \in n + 1 .. L
        BY <4>2 DEF Forward
      <4> QED
        BY <2>1, <4>2, <4>3 DEF LastOnes
    <3>6. \A n \in D(m) : n \in D(m + 1) /\ n # new
      BY <2>1, <3>3 DEF LastOnes
    <3>7. <<new>> \in S /\ 0 # new
      BY <3>3
    <3> HIDE DEF D, new
    <3>8. \A n \in D(m + 1) : d[n] \in S
      <4>1. \A n \in D(m) : c[n] \in S
        BY <3>2
      <4>2. c[link[new]] \in S
        BY <3>3, <3>5, <3>7, <4>1
      <4>3. <<new>> \o c[link[new]] \in S
        BY <3>7, <4>2, ConcatProperties
      <4> HIDE DEF S
      <4> QED
        BY <3>4, <4>1, <4>3
    <3>9. d[0] = <<>> /\ d \in [D(m + 1) -> S]
      BY <3>2, <3>3, <3>6, <3>7, <3>8
    <3>10. ASSUME NEW n \in D(m + 1), n # 0 PROVE d[n] = <<n>> \o d[link[n]]
      <4>1. d[link[n]] = c[link[n]]
        BY <3>5, <3>6, <3>10
      <4>2. CASE n = new
        BY <4>1, <4>2
      <4>3. CASE n # new
        BY <3>2, <3>4, <3>10, <4>1, <4>3
      <4> QED
        BY <4>2, <4>3
    <3> HIDE DEF d
    <3>11. IsPartOfChain(d, L, link, m + 1)
      BY <3>9, <3>10 DEF IsPartOfChain, D
    <3> QED
      BY <3>11 DEF HasPart
  <2> QED
    BY <2>1
<1>3. L \in T
  <2> HIDE DEF T
  <2> QED
    BY <1>1, <1>2, InductionOnSets
<1>4. PICK c : IsPartOfChain(c, L, link, L)
  <2>1. HasPart(L, link, L)
    BY <1>3
  <2> QED
    BY <2>1 DEF HasPart
<1>5. D(L) = 0 .. L
  BY DEF LastOnes
<1>6. IsChain(c, L, link)
  <2>1. c \in [0 .. L -> S] /\ c[0] = <<>> /\ \A n \in 0 .. L : n # 0 => c[n] = <<n>> \o c[link[n]]
    BY <1>4, <1>5 DEF IsPartOfChain
  <2>2. \A n \in 1 .. L : n \in 0 .. L /\ n # 0
    OBVIOUS
  <2> QED
    BY <2>1, <2>2 DEF IsChain
<1> QED
  BY <1>6

\* What is in a chain: it goes up from its first number, and ends at a number
\* that leads to none
ChainFine(c, L, link, m) ==
    /\ c[m] \in Seq(1 .. L) /\ c[m] # <<>> /\ Len(c[m]) \in Nat \ {0}
    /\ Last(c[m]) \in 1 .. L /\ link[Last(c[m])] = 0
    /\ link[m] = 0 => c[m] = <<m>> /\ Last(c[m]) = m
    /\ link[m] # 0 => Last(c[m]) = Last(c[link[m]]) /\ c[m] = <<m>> \o c[link[m]]
                      /\ link[m] \in 1 .. L

\* Every chain that follows the links is so
LEMMA ChainFacts ==
  ASSUME NEW L \in Nat, NEW link, Forward(L, link), NEW c, IsChain(c, L, link), NEW n \in 1 .. L
  PROVE  ChainFine(c, L, link, n)
<1> DEFINE Fine(m) == ChainFine(c, L, link, m)
           T == {k \in Nat : \A m \in 1 .. L : L - m < k => Fine(m)}
<1>1. 0 \in T
  OBVIOUS
<1>2. ASSUME NEW k \in Nat, k \in T PROVE k + 1 \in T
  <2>1. SUFFICES ASSUME NEW m \in 1 .. L, L - m < k + 1 PROVE Fine(m)
    OBVIOUS
  <2>2. c[m] = <<m>> \o c[link[m]] /\ c[m] \in Seq(1 .. L)
    <3>1. m \in 0 .. L
      OBVIOUS
    <3>2. c[m] \in Seq(1 .. L)
      BY <3>1 DEF IsChain
    <3>3. c[m] = <<m>> \o c[link[m]]
      BY DEF IsChain
    <3> QED
      BY <3>2, <3>3
  <2>3. CASE link[m] = 0
    <3>1. c[m] = <<m>>
      <4>1. c[m] = <<m>> \o <<>>
        BY <2>2, <2>3 DEF IsChain
      <4>2. <<m>> \in Seq(1 .. L)
        OBVIOUS
      <4> QED
        BY <4>1, <4>2, ConcatEmptySeq
    <3>2. Len(<<m>>) = 1 /\ <<m>>[1] = m /\ <<m>> # <<>>
      OBVIOUS
    <3>3. Last(c[m]) = m
      BY <3>1, <3>2 DEF Last
    <3>4. c[m] # <<>> /\ Len(c[m]) \in Nat \ {0}
      BY <3>1, <3>2
    <3>5. Last(c[m]) \in 1 .. L /\ link[Last(c[m])] = 0
      BY <2>3, <3>3
    <3>6. c[m] \in Seq(1 .. L) /\ link[m] = 0
      BY <2>2, <2>3
    <3> QED
      BY <3>1, <3>3, <3>4, <3>5, <3>6 DEF ChainFine
  <2>4. CASE link[m] # 0
    <3> DEFINE o == link[m]
    <3>1. o \in m + 1 .. L
      BY <2>4 DEF Forward
    <3>2. o \in 1 .. L /\ L - o < k
      BY <2>1, <3>1
    <3>3. Fine(o)
      BY <1>2, <3>2
    <3> DEFINE q == c[o]
    <3>4. q \in Seq(1 .. L) /\ Len(q) \in Nat \ {0}
      BY <3>3 DEF ChainFine
    <3>5. /\ Len(c[m]) = 1 + Len(q)
          /\ \A i \in 1 .. 1 + Len(q) : c[m][i] = IF i <= 1 THEN <<m>>[i] ELSE q[i - 1]
      <4>1. <<m>> \in Seq(1 .. L) /\ Len(<<m>>) = 1
        OBVIOUS
      <4> HIDE DEF q
      <4>2. /\ Len(<<m>> \o q) = 1 + Len(q)
            /\ \A i \in 1 .. 1 + Len(q) : (<<m>> \o q)[i] = IF i <= 1 THEN <<m>>[i] ELSE q[i - 1]
        BY <3>4, <4>1, ConcatProperties
      <4> QED
        BY <2>2, <4>2 DEF q
    <3>6. c[m][Len(c[m])] = q[Len(q)]
      <4> HIDE DEF q
      <4>1. 1 + Len(q) \in 1 .. 1 + Len(q) /\ ~(1 + Len(q) <= 1) /\ (1 + Len(q)) - 1 = Len(q)
        BY <3>4
      <4> QED
        BY <3>5, <4>1
    <3>7. Last(c[m]) = Last(q)
      BY <3>6 DEF Last
    <3>8. c[m] # <<>> /\ Len(c[m]) \in Nat \ {0}
      <4> HIDE DEF q
      <4>1. Len(c[m]) \in Nat \ {0}
        BY <3>4, <3>5
      <4>2. Len(<<>>) = 0
        OBVIOUS
      <4> QED
        BY <4>1, <4>2
    <3>9. Last(q) \in 1 .. L /\ link[Last(q)] = 0
      BY <3>3 DEF ChainFine
    <3> HIDE DEF q
    <3>10. Last(c[m]) \in 1 .. L /\ link[Last(c[m])] = 0
      BY <3>7, <3>9
    <3> QED
      BY <2>2, <2>4, <3>2, <3>7, <3>8, <3>10 DEF ChainFine, q
  <2> QED
    BY <2>3, <2>4
<1> HIDE DEF T
<1>3. L + 1 \in T
  BY <1>1, <1>2, InductionOnSets
<1>4. L - n < L + 1
  OBVIOUS
<1> HIDE DEF Fine
<1> QED
  BY <1>3, <1>4 DEF T, Fine

\* Two functions that follow the same links are the same
LEMMA ChainUnique ==
  ASSUME NEW L \in Nat, NEW link, Forward(L, link), NEW c, IsChain(c, L, link),
         NEW d, IsChain(d, L, link)
  PROVE  c = d
<1> DEFINE T == {k \in Nat : \A m \in 1 .. L : L - m < k => c[m] = d[m]}
<1>1. 0 \in T
  OBVIOUS
<1>2. ASSUME NEW k \in Nat, k \in T PROVE k + 1 \in T
  <2>1. SUFFICES ASSUME NEW m \in 1 .. L, L - m < k + 1 PROVE c[m] = d[m]
    OBVIOUS
  <2>2. c[m] = <<m>> \o c[link[m]] /\ d[m] = <<m>> \o d[link[m]] /\ c[0] = d[0]
    BY DEF IsChain
  <2>3. CASE link[m] = 0
    BY <2>2, <2>3
  <2>4. CASE link[m] # 0
    <3>1. link[m] \in m + 1 .. L
      BY <2>4 DEF Forward
    <3>2. link[m] \in 1 .. L /\ L - link[m] < k
      BY <2>1, <3>1
    <3> QED
      BY <1>2, <2>2, <3>2
  <2> QED
    BY <2>3, <2>4
<1> HIDE DEF T
<1>3. L + 1 \in T
  BY <1>1, <1>2, InductionOnSets
<1>4. \A m \in 1 .. L : L - m < L + 1
  OBVIOUS
<1>5. \A m \in 1 .. L : c[m] = d[m]
  BY <1>3, <1>4 DEF T
<1>6. \A m \in 0 .. L : c[m] = d[m]
  BY <1>5 DEF IsChain
<1> QED
  BY <1>6 DEF IsChain

\* One more number, hung after the end of a chain
LEMMA ChainExtended ==
  ASSUME NEW L \in Nat, NEW link, Forward(L, link), NEW c, IsChain(c, L, link),
         NEW end \in 1 .. L, link[end] = 0,
         NEW more, Forward(L + 1, more), more[L + 1] = 0, more[end] = L + 1,
         \A n \in 1 .. L : n # end => more[n] = link[n],
         NEW d, IsChain(d, L + 1, more)
  PROVE  \A n \in 1 .. L : d[n] = IF Last(c[n]) = end THEN c[n] \o <<L + 1>> ELSE c[n]
<1> DEFINE Fine(n) == d[n] = IF Last(c[n]) = end THEN c[n] \o <<L + 1>> ELSE c[n]
           T == {k \in Nat : \A m \in 1 .. L : L - m < k => Fine(m)}
<1>1. 0 \in T
  OBVIOUS
<1>2. ASSUME NEW k \in Nat, k \in T PROVE k + 1 \in T
  <2>1. SUFFICES ASSUME NEW m \in 1 .. L, L - m < k + 1 PROVE Fine(m)
    OBVIOUS
  <2>2. m \in 1 .. L + 1 /\ L + 1 \in 1 .. L + 1
    OBVIOUS
  <2>3. d[m] = <<m>> \o d[more[m]] /\ d[L + 1] = <<L + 1>> \o d[0] /\ d[0] = <<>>
    BY <2>2 DEF IsChain
  <2>4. d[L + 1] = <<L + 1>>
    <3>1. <<L + 1>> \in Seq(Nat)
      OBVIOUS
    <3> QED
      BY <2>3, <3>1, ConcatEmptySeq
  <2>8. ChainFine(c, L, link, m)
    BY ChainFacts
  <2>5. CASE m = end
    <3>1. c[m] = <<m>> /\ Last(c[m]) = end
      BY <2>5, <2>8 DEF ChainFine
    <3> QED
      BY <2>3, <2>4, <2>5, <3>1
  <2>6. CASE m # end /\ link[m] = 0
    <3>1. c[m] = <<m>> /\ Last(c[m]) = m
      BY <2>6, <2>8 DEF ChainFine
    <3>2. d[m] = <<m>> \o <<>>
      BY <2>3, <2>6
    <3>3. <<m>> \in Seq(Nat)
      OBVIOUS
    <3>4. d[m] = <<m>>
      BY <3>2, <3>3, ConcatEmptySeq
    <3> QED
      BY <2>6, <3>1, <3>4
  <2>7. CASE m # end /\ link[m] # 0
    <3> DEFINE o == link[m]
    <3>1. o \in m + 1 .. L
      BY <2>7 DEF Forward
    <3>2. o \in 1 .. L /\ L - o < k
      BY <2>1, <3>1
    <3>3. Fine(o)
      BY <1>2, <3>2
    <3>4. d[m] = <<m>> \o d[o] /\ c[m] = <<m>> \o c[o] /\ Last(c[m]) = Last(c[o])
      BY <2>3, <2>7, <2>8 DEF ChainFine
    <3>5. CASE Last(c[o]) = end
      <4>1. c[o] \in Seq(Nat) /\ <<m>> \in Seq(Nat) /\ <<L + 1>> \in Seq(Nat)
        <5>1. c[o] \in Seq(1 .. L)
          BY <3>2, ChainFacts DEF ChainFine
        <5>2. c[o] \in Seq(Nat)
          <6>1. 1 .. L \subseteq Nat
            OBVIOUS
          <6> HIDE DEF o
          <6> QED
            BY <5>1, <6>1, SeqMonotonic
        <5> QED
          BY <5>2
      <4> DEFINE x == <<m>>
                 y == c[o]
                 z == <<L + 1>>
      <4>3. x \in Seq(Nat) /\ y \in Seq(Nat) /\ z \in Seq(Nat)
        BY <4>1
      <4> HIDE DEF x, y, z
      <4>4. (x \o y) \o z = x \o (y \o z)
        <5> DEFINE N == Nat
        <5>1. x \in Seq(N) /\ y \in Seq(N) /\ z \in Seq(N)
          BY <4>3
        <5> HIDE DEF N
        <5> QED
          BY <5>1, SMT
      <4>2. (<<m>> \o c[o]) \o <<L + 1>> = <<m>> \o (c[o] \o <<L + 1>>)
        BY <4>4 DEF x, y, z
      <4> QED
        BY <3>3, <3>4, <3>5, <4>2
    <3>6. CASE Last(c[o]) # end
      BY <3>3, <3>4, <3>6
    <3> QED
      BY <3>5, <3>6
  <2> QED
    BY <2>5, <2>6, <2>7
<1> HIDE DEF T
<1>3. L + 1 \in T
  BY <1>1, <1>2, InductionOnSets
<1>4. \A m \in 1 .. L : L - m < L + 1
  OBVIOUS
<1> HIDE DEF Fine
<1>5. \A m \in 1 .. L : Fine(m)
  BY <1>3, <1>4 DEF T
<1> QED
  BY <1>5 DEF Fine

\* The list of one element
LEMMA ListsOne == ASSUME NEW x PROVE Lists(<<x>>, {x})
<1> DEFINE none == {}
<1>1. Lists(Append(<<>>, x), none \cup {x})
  <2>1. Lists(<<>>, none) /\ x \notin none
    BY ListsNothing
  <2> HIDE DEF none
  <2> QED
    BY <2>1, ListsOneMore
<1>2. Append(<<>>, x) = <<x>> /\ none \cup {x} = {x}
  OBVIOUS
<1> QED
  BY <1>1, <1>2

\* A chain meets each of its numbers once, none under the first
ChainListed(c, L, m) ==
    /\ Lists(c[m], ToSet(c[m])) /\ ToSet(c[m]) \subseteq 1 .. L
    /\ \A x \in ToSet(c[m]) : x >= m

\* A chain goes up, so it lists its numbers
LEMMA ChainLists ==
  ASSUME NEW L \in Nat, NEW link, Forward(L, link), NEW c, IsChain(c, L, link), NEW n \in 0 .. L
  PROVE  ChainListed(c, L, n)
<1> DEFINE T == {k \in Nat : \A m \in 1 .. L : L - m < k => ChainListed(c, L, m)}
<1>0. ChainListed(c, L, 0)
  <2>1. c[0] = <<>> /\ ToSet(<<>>) = {}
    BY DEF IsChain, ToSet
  <2> QED
    BY <2>1, ListsNothing DEF ChainListed
<1>1. 0 \in T
  OBVIOUS
<1>2. ASSUME NEW k \in Nat, k \in T PROVE k + 1 \in T
  <2>1. SUFFICES ASSUME NEW m \in 1 .. L, L - m < k + 1 PROVE ChainListed(c, L, m)
    OBVIOUS
  <2> DEFINE o == link[m]
             Q == ToSet(c[o])
  <2>2. c[m] = <<m>> \o c[o]
    BY DEF IsChain
  <2>3. o = 0 \/ (o \in m + 1 .. L /\ o \in 1 .. L /\ L - o < k)
    BY <2>1 DEF Forward
  <2>4. ChainListed(c, L, o)
    BY <1>0, <1>2, <2>3
  <2>5. Lists(c[o], Q) /\ Q \subseteq 1 .. L /\ \A x \in Q : x >= o
    BY <2>4 DEF ChainListed
  <2>6. \A x \in Q : x > m
    <3>1. CASE o = 0
      <4>1. Q = {}
        BY <3>1 DEF IsChain, ToSet
      <4> QED
        BY <4>1
    <3>2. CASE o \in m + 1 .. L
      <4> HIDE DEF Q
      <4>1. ASSUME NEW x \in Q PROVE x > m
        <5>1. x >= o /\ x \in Int /\ o \in Int /\ o >= m + 1
          BY <2>5, <3>2
        <5> HIDE DEF o
        <5> QED
          BY <5>1
      <4> QED
        BY <4>1
    <3> QED
      BY <2>3, <3>1, <3>2
  <2> HIDE DEF Q, o
  <2>7. Lists(<<m>> \o c[o], {m} \cup Q)
    <3>1. {m} \cap Q = {}
      BY <2>6
    <3> QED
      BY <2>5, <3>1, ListsOne, ListsConcat
  <2>8. ToSet(c[m]) = {m} \cup Q
    BY <2>2, <2>7 DEF Lists
  <2>9. \A x \in {m} \cup Q : x >= m /\ x \in 1 .. L
    <3>1. \A x \in Q : x \in Int /\ x > m /\ x \in 1 .. L
      BY <2>5, <2>6
    <3> QED
      BY <3>1
  <2> QED
    BY <2>2, <2>7, <2>8, <2>9 DEF ChainListed
<1> HIDE DEF T
<1>3. L + 1 \in T
  BY <1>1, <1>2, InductionOnSets
<1>4. \A m \in 1 .. L : L - m < L + 1
  OBVIOUS
<1>5. \A m \in 1 .. L : ChainListed(c, L, m)
  BY <1>3, <1>4 DEF T
<1> QED
  BY <1>0, <1>5

\* A chain whose links stay, when there is one more number
LEMMA ChainKept ==
  ASSUME NEW L \in Nat, NEW link, Forward(L, link), NEW c, IsChain(c, L, link),
         NEW more, \A n \in 1 .. L : more[n] = link[n],
         NEW d, IsChain(d, L + 1, more)
  PROVE  \A n \in 1 .. L : d[n] = c[n]
<1> DEFINE T == {k \in Nat : \A m \in 1 .. L : L - m < k => d[m] = c[m]}
<1>1. 0 \in T
  OBVIOUS
<1>2. ASSUME NEW k \in Nat, k \in T PROVE k + 1 \in T
  <2>1. SUFFICES ASSUME NEW m \in 1 .. L, L - m < k + 1 PROVE d[m] = c[m]
    OBVIOUS
  <2>2. m \in 1 .. L + 1 /\ more[m] = link[m]
    OBVIOUS
  <2>3. c[m] = <<m>> \o c[link[m]] /\ d[m] = <<m>> \o d[link[m]] /\ c[0] = d[0]
    BY <2>2 DEF IsChain
  <2>4. link[m] = 0 \/ (link[m] \in 1 .. L /\ L - link[m] < k)
    BY <2>1 DEF Forward
  <2> QED
    BY <1>2, <2>3, <2>4
<1> HIDE DEF T
<1>3. L + 1 \in T
  BY <1>1, <1>2, InductionOnSets
<1>4. \A m \in 1 .. L : L - m < L + 1
  OBVIOUS
<1> QED
  BY <1>3, <1>4 DEF T

FirstOnes(seq, i) == {seq[j] : j \in 1 .. i}

\* A list of a set as a function, and how it grows place by place
LEMMA PlacesOf ==
  ASSUME NEW seq, NEW S, Lists(seq, S)
  PROVE  /\ Len(seq) \in Nat /\ DOMAIN seq = 1 .. Len(seq) /\ seq \in [1 .. Len(seq) -> S]
         /\ FirstOnes(seq, 0) = {} /\ FirstOnes(seq, Len(seq)) = S
         /\ \A i \in 1 .. Len(seq) : /\ seq[i] \in S /\ seq[i] \notin FirstOnes(seq, i - 1)
                                     /\ FirstOnes(seq, i) = FirstOnes(seq, i - 1) \cup {seq[i]}
<1> DEFINE n == Len(seq)
<1>1. n \in Nat /\ DOMAIN seq = 1 .. n /\ seq \in [1 .. n -> S]
  BY LenProperties DEF Lists
<1>2. FirstOnes(seq, 0) = {}
  BY DEF FirstOnes
<1>3. FirstOnes(seq, n) = S
  BY <1>1 DEF FirstOnes, Lists, ToSet
<1> HIDE DEF n
<1>4. ASSUME NEW i \in 1 .. n
      PROVE  /\ seq[i] \in S /\ seq[i] \notin FirstOnes(seq, i - 1)
             /\ FirstOnes(seq, i) = FirstOnes(seq, i - 1) \cup {seq[i]}
  <2>1. \A j \in 1 .. i - 1 : j \in 1 .. n /\ j # i
    BY <1>1
  <2>2. seq[i] \notin FirstOnes(seq, i - 1)
    BY <1>1, <2>1 DEF FirstOnes, Lists
  <2>3. \A j \in 1 .. i : j \in 1 .. i - 1 \/ j = i
    BY <1>1
  <2>4. 1 .. i - 1 \subseteq 1 .. i /\ i \in 1 .. i
    BY <1>1
  <2>5. FirstOnes(seq, i) = FirstOnes(seq, i - 1) \cup {seq[i]}
    BY <2>3, <2>4 DEF FirstOnes
  <2> QED
    BY <1>1, <2>2, <2>5
<1> QED
  BY <1>1, <1>2, <1>3, <1>4 DEF n

\* FlattenSeq joins the lists of a sequence
LEMMA FlattenLists ==
  ASSUME NEW n \in Nat, NEW V, NEW lists \in [1 .. n -> Seq(V)],
         NEW part, Parts(1 .. n, lists, part)
  PROVE  Lists(FlattenSeq(lists), AllOf(1 .. n, part))
<1>1. Len(lists) = n /\ lists \in Seq(Seq(V))
  OBVIOUS
<1>2. CASE n = 0
  <2>1. lists = <<>> /\ FlattenSeq(lists) = lists
    BY <1>1, <1>2 DEF FlattenSeq
  <2>2. AllOf(1 .. n, part) = {}
    BY <1>2 DEF AllOf
  <2> QED
    BY <2>1, <2>2, ListsNothing
<1>3. CASE n > 0
  <2> DEFINE W    == Seq(V)
             step == [i \in 1 .. n |-> [v \in W |-> v \o lists[i]]]
             Body(f) == [i \in 1 .. n |-> IF i = 1 THEN lists[i] ELSE f[i - 1] \o lists[i]]
             flat == CHOOSE f : f = Body(f)
  <2>1. FlattenSeq(lists) = flat[n]
    <3>1. FlattenSeq(lists) =
            (CHOOSE f : f = [i \in 1 .. Len(lists) |->
                IF i = 1 THEN lists[i] ELSE f[i - 1] \o lists[i]])[Len(lists)]
      BY <1>1, <1>3 DEF FlattenSeq
    <3> QED
      BY <1>1, <3>1
  <2>2. <<>> \in W /\ step \in [1 .. n -> [W -> W]]
    <3>1. \A i \in 1 .. n, v \in W : v \o lists[i] \in W
      BY ConcatProperties
    <3> QED
      BY <3>1
  <2>0. \A i \in 1 .. n : lists[i] \in W /\ <<>> \o lists[i] = lists[i]
    BY ConcatEmptySeq
  <2> HIDE DEF W
  <2>3. PICK g \in [0 .. n -> W] : Steps(g, <<>>, step, n)
    <3> HIDE DEF step
    <3> QED
      BY <2>2, RecursiveSequence
  <2>4. \A i \in 1 .. n : g[i] = g[i - 1] \o lists[i] /\ g[i - 1] \in W
    <3>1. \A i \in 1 .. n : i - 1 \in 0 .. n
      OBVIOUS
    <3> QED
      BY <2>3, <3>1 DEF Steps
  <2> DEFINE h == [i \in 1 .. n |-> g[i]]
  <2>5. h = Body(h)
    <3>1. ASSUME NEW i \in 1 .. n PROVE h[i] = IF i = 1 THEN lists[i] ELSE h[i - 1] \o lists[i]
      <4>1. CASE i = 1
        <5>1. g[i - 1] = <<>>
          BY <2>3, <4>1 DEF Steps
        <5> QED
          BY <2>0, <2>4, <4>1, <5>1
      <4>2. CASE i # 1
        <5>1. i - 1 \in 1 .. n
          BY <4>2
        <5> QED
          BY <2>4, <4>2, <5>1
      <4> QED
        BY <4>1, <4>2
    <3> QED
      BY <3>1
  <2>6. flat = Body(flat)
    <3> HIDE DEF h
    <3> QED
      BY <2>5
  <2> HIDE DEF flat
  <2>7. \A i \in 1 .. n : flat[i] = IF i = 1 THEN lists[i] ELSE flat[i - 1] \o lists[i]
    BY <2>6
  <2> DEFINE T == {i \in Nat : i + 1 <= n => Lists(flat[i + 1], AllOf(1 .. i + 1, part))}
  <2>8. 0 \in T
    <3>1. flat[0 + 1] = lists[1] /\ 1 \in 1 .. n
      BY <1>3, <2>7
    <3>2. AllOf(1 .. 0 + 1, part) = part[1]
      BY DEF AllOf
    <3> QED
      BY <3>1, <3>2 DEF Parts
  <2>9. ASSUME NEW i \in Nat, i \in T PROVE i + 1 \in T
    <3>1. SUFFICES ASSUME i + 1 + 1 <= n PROVE Lists(flat[i + 1 + 1], AllOf(1 .. i + 1 + 1, part))
      OBVIOUS
    <3> DEFINE j == i + 1
               m == i + 1 + 1
    <3>2. j \in 1 .. n /\ m \in 1 .. n /\ m # 1 /\ m - 1 = j /\ Lists(flat[j], AllOf(1 .. j, part))
      BY <2>9, <3>1
    <3>3. flat[m] = flat[j] \o lists[m]
      <4> HIDE DEF j, m
      <4> QED
        BY <2>7, <3>2
    <3>4. AllOf(1 .. m, part) = AllOf(1 .. j, part) \cup part[m]
      <4>1. \A k \in 1 .. m : k \in 1 .. j \/ k = m
        OBVIOUS
      <4>2. 1 .. j \subseteq 1 .. m /\ m \in 1 .. m
        OBVIOUS
      <4> HIDE DEF j, m
      <4> QED
        BY <4>1, <4>2 DEF AllOf
    <3>5. Lists(lists[m], part[m]) /\ AllOf(1 .. j, part) \cap part[m] = {}
      <4>1. \A k \in 1 .. j : k \in 1 .. n /\ k # m
        BY <3>1
      <4> HIDE DEF j, m
      <4>2. Lists(lists[m], part[m])
        BY <3>2 DEF Parts
      <4>3. \A k \in 1 .. j : part[k] \cap part[m] = {}
        BY <3>2, <4>1 DEF Parts
      <4>4. AllOf(1 .. j, part) \cap part[m] = {}
        BY <4>3 DEF AllOf
      <4> QED
        BY <4>2, <4>4
    <3> HIDE DEF j, m
    <3>6. Lists(flat[j] \o lists[m], AllOf(1 .. j, part) \cup part[m])
      BY <3>2, <3>5, ListsConcat
    <3> QED
      BY <3>3, <3>4, <3>6 DEF m
  <2> HIDE DEF T
  <2>10. n - 1 \in T
    <3>1. n - 1 \in Nat
      BY <1>3
    <3> QED
      BY <2>8, <2>9, <3>1, InductionOnSets
  <2>11. (n - 1) + 1 = n
    BY <1>3
  <2> QED
    BY <2>1, <2>10, <2>11 DEF T
<1> QED
  BY <1>2, <1>3

\* An order in which some elements may come as early as others: never both
\* before each other, and an element between two that are not before it in
\* turn is not needed to compare them
WeakOrder(earlier, U) ==
    /\ \A x, y \in U : <<x, y>> \in earlier => <<y, x>> \notin earlier
    /\ \A x, y, z \in U :
          <<x, y>> \notin earlier /\ <<y, z>> \notin earlier => <<x, z>> \notin earlier

Arranged(seq, earlier) == \A i, j \in DOMAIN seq : i < j => <<seq[j], seq[i]>> \notin earlier

\* The place of an element in a list so arranged, after those it is not before
PlaceBy(seq, x, earlier) == Cardinality({i \in DOMAIN seq : <<x, seq[i]>> \notin earlier})
PutBy(seq, x, earlier)   == InsertAt(seq, PlaceBy(seq, x, earlier) + 1, x)

\* It is a place of the list or its end
LEMMA PlaceByRange ==
  ASSUME NEW U, NEW earlier, NEW s \in Seq(U), NEW x
  PROVE  PlaceBy(s, x, earlier) \in 0 .. Len(s)
<1> DEFINE n == Len(s)
           T == {i \in 1 .. n : <<x, s[i]>> \notin earlier}
<1>1. n \in Nat /\ DOMAIN s = 1 .. n
  BY LenProperties
<1>2. PlaceBy(s, x, earlier) = Cardinality(T)
  BY <1>1 DEF PlaceBy
<1>3. T \subseteq 1 .. n
  OBVIOUS
<1> HIDE DEF T, n
<1>4. IsFiniteSet(1 .. n) /\ Cardinality(1 .. n) = n
  <2>1. IsFiniteSet(1 .. n) /\ Cardinality(1 .. n) = IF 1 > n THEN 0 ELSE n - 1 + 1
    BY <1>1, FS_Interval
  <2> QED
    BY <1>1, <2>1
<1>5. Cardinality(T) \in Nat /\ Cardinality(T) <= n
  <2> DEFINE all == 1 .. n
  <2>1. IsFiniteSet(all) /\ Cardinality(all) = n /\ T \subseteq all
    BY <1>3, <1>4
  <2> HIDE DEF all
  <2> QED
    BY <2>1, FS_Subset, FS_CardinalityType
<1> QED
  BY <1>1, <1>2, <1>5 DEF n

\* There it keeps the order
LEMMA PutByOrder ==
  ASSUME NEW U, NEW earlier, WeakOrder(earlier, U),
         NEW s \in Seq(U), Arranged(s, earlier), NEW x \in U
  PROVE  PutBy(s, x, earlier) \in Seq(U) /\ Arranged(PutBy(s, x, earlier), earlier)
<1> DEFINE n == Len(s)
           before == {i \in 1 .. n : <<x, s[i]>> \notin earlier}
           b == PlaceBy(s, x, earlier)
           t == PutBy(s, x, earlier)
<1>1. n \in Nat /\ DOMAIN s = 1 .. n /\ \A i \in 1 .. n : s[i] \in U
  BY ElementOfSeq, LenProperties
<1>2. b = Cardinality(before)
  BY <1>1 DEF PlaceBy
<1>3. before = 1 .. b /\ b \in Nat
  <2>1. ASSUME NEW i \in before, NEW j \in 1 .. i PROVE j \in before
    <3>1. i \in 1 .. n /\ j \in 1 .. n /\ <<x, s[i]>> \notin earlier
      BY <1>1
    <3>2. CASE j < i
      <4>1. <<s[i], s[j]>> \notin earlier
        BY <1>1, <3>1, <3>2 DEF Arranged
      <4> QED
        BY <1>1, <3>1, <4>1 DEF WeakOrder
    <3> QED
      BY <3>1, <3>2
  <2>2. before \in SUBSET (1 .. n)
    OBVIOUS
  <2> HIDE DEF before, n, b
  <2>3. \A i \in before : 1 .. i \subseteq before
    BY <2>1
  <2> QED
    BY <1>1, <1>2, <2>2, <2>3, InitialNumbers
<1>4. b \in 0 .. n
  BY PlaceByRange
<1>5. \A i \in 1 .. n : i <= b <=> <<x, s[i]>> \notin earlier
  <2>1. \A i \in 1 .. n : i \in before <=> <<x, s[i]>> \notin earlier
    OBVIOUS
  <2> HIDE DEF before
  <2> QED
    BY <1>1, <1>3, <2>1
<1>6. OneMore(t, s, U, b + 1, x)
  <2> DEFINE c == b + 1
  <2>1. c \in 1 .. Len(s) + 1
    BY <1>1, <1>4
  <2> HIDE DEF c
  <2>2. OneMore(InsertAt(s, c, x), s, U, c, x)
    BY <2>1, InsertAtFacts
  <2> QED
    BY <2>2 DEF c, PutBy
<1> HIDE DEF b, t, before
<1>7. /\ t \in Seq(U) /\ DOMAIN t = 1 .. n + 1
      /\ \A j \in 1 .. n + 1 : t[j] = IF j < b + 1 THEN s[j] ELSE IF j = b + 1 THEN x ELSE s[j - 1]
  BY <1>6 DEF OneMore
<1> HIDE DEF n
<1>8. \A j \in 1 .. n + 1 : j < b + 1 => j \in 1 .. n /\ t[j] = s[j] /\ <<x, s[j]>> \notin earlier
  BY <1>1, <1>4, <1>5, <1>7
<1>9. \A j \in 1 .. n + 1 : j > b + 1 =>
         j - 1 \in 1 .. n /\ t[j] = s[j - 1] /\ <<x, s[j - 1]>> \in earlier
  <2>1. SUFFICES ASSUME NEW j \in 1 .. n + 1, j > b + 1
                 PROVE  j - 1 \in 1 .. n /\ t[j] = s[j - 1] /\ <<x, s[j - 1]>> \in earlier
    OBVIOUS
  <2>2. j - 1 \in 1 .. n /\ ~(j - 1 <= b) /\ ~(j < b + 1) /\ j # b + 1
    BY <1>1, <1>4, <2>1
  <2> QED
    BY <1>5, <1>7, <2>2
<1>10. b + 1 \in 1 .. n + 1 /\ t[b + 1] = x
  BY <1>1, <1>4, <1>7
<1>11. ASSUME NEW i \in 1 .. n + 1, NEW j \in 1 .. n + 1, i < j PROVE <<t[j], t[i]>> \notin earlier
  <2>1. \A k, l \in 1 .. n : k < l => <<s[l], s[k]>> \notin earlier
    BY <1>1 DEF Arranged
  <2>0. i \in Int /\ j \in Int /\ b \in Int
    BY <1>4
  <2>2. CASE j < b + 1
    <3>1. i < b + 1
      BY <1>4, <1>11, <2>2
    <3> QED
      BY <1>8, <1>11, <2>1, <2>2, <3>1
  <2>3. CASE j = b + 1
    BY <1>8, <1>10, <1>11, <2>3
  <2>4. CASE j > b + 1
    <3>1. CASE i < b + 1
      <4>1. i \in 1 .. n /\ j - 1 \in 1 .. n
        BY <1>8, <1>9, <2>4, <3>1
      <4>2. i < j - 1
        BY <2>0, <2>4, <3>1
      <4> QED
        BY <1>8, <1>9, <2>1, <2>4, <3>1, <4>1, <4>2
    <3>2. CASE i = b + 1
      BY <1>1, <1>9, <1>10, <2>4, <3>2 DEF WeakOrder
    <3>3. CASE i > b + 1
      <4>1. i - 1 \in 1 .. n /\ t[i] = s[i - 1] /\ j - 1 \in 1 .. n /\ t[j] = s[j - 1]
        BY <1>9, <2>4, <3>3
      <4>2. i - 1 < j - 1
        BY <1>11, <2>0
      <4> QED
        BY <2>1, <4>1, <4>2
    <3> QED
      BY <1>4, <3>1, <3>2, <3>3
  <2> QED
    BY <1>4, <2>2, <2>3, <2>4
<1>12. Arranged(t, earlier)
  BY <1>7, <1>11 DEF Arranged
<1> QED
  BY <1>7, <1>12 DEF t

\* And the list has one element more
LEMMA PutByLists ==
  ASSUME NEW s, NEW S, Lists(s, S), NEW x, x \notin S, NEW earlier
  PROVE  Lists(PutBy(s, x, earlier), S \cup {x})
<1> DEFINE c == PlaceBy(s, x, earlier) + 1
<1>1. s \in Seq(S) /\ Len(s) \in Nat
  BY LenProperties DEF Lists
<1>2. PlaceBy(s, x, earlier) \in 0 .. Len(s)
  BY <1>1, PlaceByRange
<1>3. c \in 1 .. Len(s) + 1
  BY <1>1, <1>2
<1> HIDE DEF c
<1>4. Lists(InsertAt(s, c, x), S \cup {x})
  BY <1>3, ListsInserted
<1> QED
  BY <1>4 DEF PutBy, c

\* A list of the values of a function at the elements of a list
LEMMA MappedLists ==
  ASSUME NEW seq, NEW D, Lists(seq, D), NEW f,
         \A a, b \in D : f[a] = f[b] => a = b
  PROVE  Lists([i \in DOMAIN seq |-> f[seq[i]]], {f[d] : d \in D})
<1> DEFINE n == Len(seq)
           t == [i \in DOMAIN seq |-> f[seq[i]]]
           S == {f[d] : d \in D}
<1>1. /\ n \in Nat /\ DOMAIN seq = 1 .. n /\ seq \in [1 .. n -> D]
      /\ \A i \in 1 .. n : seq[i] \in D
  BY PlacesOf
<1>2. \A d \in D : \E i \in 1 .. n : seq[i] = d
  <2>1. ToSet(seq) = D
    BY DEF Lists
  <2> QED
    BY <1>1, <2>1 DEF ToSet
<1>3. t \in [1 .. n -> S] /\ \A i \in 1 .. n : t[i] = f[seq[i]] /\ t[i] \in S
  BY <1>1
<1>4. t \in Seq(S) /\ Len(t) = n /\ DOMAIN t = 1 .. n
  <2> HIDE DEF t, S, n
  <2>1. DOMAIN t = 1 .. n
    BY <1>3
  <2>2. t \in Seq(S)
    BY <1>1, <1>3
  <2>3. Len(t) = n
    BY <1>1, <2>1, <2>2, LenProperties
  <2> QED
    BY <2>1, <2>2, <2>3
<1> HIDE DEF t, n
<1>5. ToSet(t) = S
  <2>1. ToSet(t) = {t[i] : i \in 1 .. n}
    BY <1>4 DEF ToSet
  <2>2. {t[i] : i \in 1 .. n} = S
    <3>1. \A x \in S : \E d \in D : x = f[d]
      OBVIOUS
    <3> HIDE DEF S
    <3>2. \A x \in S : \E i \in 1 .. n : t[i] = x
      BY <1>2, <1>3, <3>1
    <3> QED
      BY <1>3, <3>2
  <2> QED
    BY <2>1, <2>2
<1>6. IsFiniteSet(S) /\ Cardinality(S) = n
  <2> DEFINE g == [d \in D |-> f[d]]
  <2>1. IsFiniteSet(D) /\ Cardinality(D) = n
    BY DEF Lists, n
  <2>2. g \in Bijection(D, S)
    <3>1. g \in [D -> S] /\ \A a, b \in D : g[a] = g[b] => a = b
      OBVIOUS
    <3>2. \A s \in S : \E d \in D : g[d] = s
      OBVIOUS
    <3> HIDE DEF g, S
    <3> QED
      BY <3>1, <3>2 DEF Bijection, Injection, Surjection, IsInjective
  <2>3. ExistsBijection(D, S)
    BY <2>2 DEF ExistsBijection
  <2> HIDE DEF S
  <2> QED
    BY <2>1, <2>3, FS_Bijection
<1>7. \A i, j \in 1 .. n : t[i] = t[j] => i = j
  <2>1. \A i, j \in 1 .. n : seq[i] = seq[j] => i = j
    BY <1>1 DEF Lists
  <2> QED
    BY <1>1, <1>3, <2>1
<1> QED
  BY <1>4, <1>5, <1>6, <1>7 DEF Lists, t
=============================================================================
