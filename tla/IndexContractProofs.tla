------------------------ MODULE IndexContractProofs ------------------------
(***************************************************************************)
(* What holds of IndexContract for any column, any number of rows and any  *)
(* capacities: lists and the filter the ordered indexes share, then one    *)
(* index after the other, its invariant, that its operations keep it, and  *)
(* the properties the run checks on a small instance.                      *)
(***************************************************************************)
EXTENDS IndexContract, DataLemmas, TLAPS

\* bisect returns a place in the list or its end
LEMMA BisectRange ==
  ASSUME NEW n \in Nat, NEW keys, DOMAIN keys = 1 .. n, NEW key
  PROVE  BisectLeft(keys, key) \in 0 .. n /\ BisectRight(keys, key) \in 0 .. n
<1>1. IsFiniteSet(1 .. n) /\ Cardinality(1 .. n) = n
  BY FS_Interval
<1>2. ASSUME NEW T \in SUBSET (1 .. n) PROVE Cardinality(T) \in 0 .. n
  <2>1. IsFiniteSet(T) /\ Cardinality(T) <= n
    <3> DEFINE all == 1 .. n
    <3>1. IsFiniteSet(all) /\ Cardinality(all) = n /\ T \in SUBSET all
      BY <1>1
    <3> HIDE DEF all
    <3> QED
      BY <3>1, FS_Subset
  <2>2. Cardinality(T) \in Nat
    BY <2>1, FS_CardinalityType
  <2> QED
    BY <2>1, <2>2
<1> QED
  BY <1>2 DEF BisectLeft, BisectRight

Increasing(keys) == \A i, j \in DOMAIN keys : i < j => keys[i] <= keys[j]

\* In a list in order the keys under one, or up to it, are the first ones
LEMMA Bisects ==
  ASSUME NEW n \in Nat, NEW keys \in [1 .. n -> Int], Increasing(keys), NEW key \in Int
  PROVE  /\ \A i \in 1 .. n : i <= BisectLeft(keys, key) <=> keys[i] < key
         /\ \A i \in 1 .. n : i <= BisectRight(keys, key) <=> keys[i] <= key
<1> DEFINE under == {i \in 1 .. n : keys[i] < key}
           upto  == {i \in 1 .. n : keys[i] <= key}
<1>0. \A i, j \in 1 .. n : j <= i => keys[j] <= keys[i] /\ keys[i] \in Int /\ keys[j] \in Int
  BY DEF Increasing
<1>1. \A i \in under : 1 .. i \subseteq under
  <2>1. SUFFICES ASSUME NEW i \in under, NEW j \in 1 .. i PROVE j \in under
    OBVIOUS
  <2>2. i \in 1 .. n /\ keys[i] < key /\ j \in 1 .. n /\ j <= i
    OBVIOUS
  <2>3. keys[j] < key
    BY <1>0, <2>2
  <2> QED
    BY <2>2, <2>3
<1>2. \A i \in upto : 1 .. i \subseteq upto
  <2>1. SUFFICES ASSUME NEW i \in upto, NEW j \in 1 .. i PROVE j \in upto
    OBVIOUS
  <2>2. i \in 1 .. n /\ keys[i] <= key /\ j \in 1 .. n /\ j <= i
    OBVIOUS
  <2>3. keys[j] <= key
    BY <1>0, <2>2
  <2> QED
    BY <2>2, <2>3
<1>3. under \in SUBSET (1 .. n) /\ upto \in SUBSET (1 .. n)
  OBVIOUS
<1>4. /\ BisectLeft(keys, key) = Cardinality(under)
      /\ BisectRight(keys, key) = Cardinality(upto)
  BY DEF BisectLeft, BisectRight
<1>5. /\ \A i \in 1 .. n : i \in under <=> keys[i] < key
      /\ \A i \in 1 .. n : i \in upto <=> keys[i] <= key
  OBVIOUS
<1> HIDE DEF under, upto
<1>6. under = 1 .. Cardinality(under) /\ Cardinality(under) \in Nat
  BY <1>1, <1>3, InitialNumbers
<1>7. upto = 1 .. Cardinality(upto) /\ Cardinality(upto) \in Nat
  BY <1>2, <1>3, InitialNumbers
<1>8. \A c \in Nat, i \in 1 .. n : i \in 1 .. c <=> i <= c
  OBVIOUS
<1> QED
  BY <1>4, <1>5, <1>6, <1>7, <1>8

\* A record put in its place among others
LEMMA InsertSortedLists ==
  ASSUME NEW s, NEW S, Lists(s, S), NEW r, r \notin S
  PROVE  Lists(InsertSorted(s, r), S \cup {r})
<1>1. Len(s) \in Nat /\ DOMAIN KeysOf(s) = 1 .. Len(s)
  BY LenProperties DEF Lists, KeysOf
<1>2. BisectRight(KeysOf(s), r.key) \in 0 .. Len(s)
  BY <1>1, BisectRange
<1>3. BisectRight(KeysOf(s), r.key) + 1 \in 1 .. Len(s) + 1
  BY <1>1, <1>2
<1> QED
  BY <1>3, ListsInserted DEF InsertSorted, Insert

\* It keeps the order of the keys
LEMMA InsertSortedOrder ==
  ASSUME NEW V, \A v \in V : v.key \in Int, NEW s \in Seq(V), InKeyOrder(s), NEW r \in V
  PROVE  InsertSorted(s, r) \in Seq(V) /\ InKeyOrder(InsertSorted(s, r))
<1> DEFINE n == Len(s)
           keys == KeysOf(s)
           b == BisectRight(keys, r.key)
           t == InsertSorted(s, r)
<1>1. n \in Nat /\ DOMAIN s = 1 .. n /\ (\A i \in 1 .. n : s[i] \in V) /\ r.key \in Int
  BY ElementOfSeq, LenProperties
<1>2. keys \in [1 .. n -> Int] /\ \A i \in 1 .. n : keys[i] = s[i].key
  BY <1>1 DEF KeysOf
<1>3. Increasing(keys)
  BY <1>1, <1>2 DEF InKeyOrder, Increasing
<1> HIDE DEF keys, n
<1>4. b \in 0 .. n /\ \A i \in 1 .. n : i <= b <=> keys[i] <= r.key
  BY <1>1, <1>2, <1>3, Bisects, BisectRange
<1> HIDE DEF b
<1>5. /\ t \in Seq(V) /\ DOMAIN t = 1 .. n + 1
      /\ \A j \in 1 .. n + 1 : t[j] = IF j < b + 1 THEN s[j] ELSE IF j = b + 1 THEN r ELSE s[j - 1]
  <2>1. t = InsertAt(s, b + 1, r)
    BY DEF InsertSorted, Insert, b, keys
  <2>2. b + 1 \in 1 .. n + 1
    BY <1>1, <1>4
  <2>3. /\ InsertAt(s, b + 1, r) \in Seq(V) /\ DOMAIN InsertAt(s, b + 1, r) = 1 .. n + 1
        /\ \A j \in 1 .. n + 1 : InsertAt(s, b + 1, r)[j] =
             IF j < b + 1 THEN s[j] ELSE IF j = b + 1 THEN r ELSE s[j - 1]
    <3> DEFINE c == b + 1
    <3>1. c \in 1 .. Len(s) + 1
      BY <2>2 DEF n
    <3> HIDE DEF c
    <3>2. OneMore(InsertAt(s, c, r), s, V, c, r)
      BY <3>1, InsertAtFacts
    <3> QED
      BY <3>2 DEF c, n, OneMore
  <2> HIDE DEF t
  <2> QED
    BY <2>1, <2>3
<1> HIDE DEF t
<1> DEFINE key(j) == t[j].key
<1>6. /\ \A j \in 1 .. n + 1 : j < b + 1 => j \in 1 .. n /\ key(j) = keys[j] /\ keys[j] <= r.key
      /\ \A j \in 1 .. n + 1 : j = b + 1 => key(j) = r.key
      /\ \A j \in 1 .. n + 1 : j > b + 1 =>
            j - 1 \in 1 .. n /\ key(j) = keys[j - 1] /\ ~(keys[j - 1] <= r.key)
  <2>1. ASSUME NEW j \in 1 .. n + 1, j < b + 1
        PROVE  j \in 1 .. n /\ key(j) = keys[j] /\ keys[j] <= r.key
    <3>1. j \in 1 .. n /\ j <= b
      BY <1>1, <1>4, <2>1
    <3> QED
      BY <1>2, <1>4, <1>5, <2>1, <3>1
  <2>2. ASSUME NEW j \in 1 .. n + 1, j > b + 1
        PROVE  j - 1 \in 1 .. n /\ key(j) = keys[j - 1] /\ ~(keys[j - 1] <= r.key)
    <3>1. j - 1 \in 1 .. n /\ ~(j - 1 <= b) /\ ~(j < b + 1) /\ j # b + 1
      BY <1>1, <1>4, <2>2
    <3> QED
      BY <1>2, <1>4, <1>5, <3>1
  <2>3. ASSUME NEW j \in 1 .. n + 1, j = b + 1 PROVE key(j) = r.key
    <3>1. ~(j < b + 1)
      BY <1>4, <2>3
    <3> QED
      BY <1>5, <2>3, <3>1
  <2> QED
    BY <2>1, <2>2, <2>3
<1>7. \A i, j \in 1 .. n : i < j => keys[i] <= keys[j]
  BY <1>2, <1>3 DEF Increasing
<1>8. \A i \in 1 .. n : keys[i] \in Int
  BY <1>2
<1> HIDE DEF key
<1>9. ASSUME NEW i \in 1 .. n + 1, NEW j \in 1 .. n + 1, i < j PROVE key(i) <= key(j)
  <2>1. CASE j < b + 1
    <3>1. i < b + 1
      BY <1>4, <1>9, <2>1
    <3> QED
      BY <1>6, <1>7, <1>9, <2>1, <3>1
  <2>2. CASE j = b + 1
    <3>1. i < b + 1
      BY <1>9, <2>2
    <3> QED
      BY <1>6, <2>2, <3>1
  <2>3. CASE j > b + 1
    <3>1. keys[j - 1] > r.key /\ key(j) = keys[j - 1] /\ j - 1 \in 1 .. n
      BY <1>1, <1>6, <1>8, <2>3
    <3>2. CASE i < b + 1
      BY <1>1, <1>6, <1>8, <3>1, <3>2
    <3>3. CASE i = b + 1
      BY <1>1, <1>6, <1>8, <3>1, <3>3
    <3>4. CASE i > b + 1
      <4>1. i - 1 \in 1 .. n /\ key(i) = keys[i - 1] /\ i - 1 < j - 1
        BY <1>4, <1>6, <1>9, <3>4
      <4> QED
        BY <1>7, <3>1, <4>1
    <3> QED
      BY <1>4, <3>2, <3>3, <3>4
  <2> QED
    BY <1>4, <2>1, <2>2, <2>3
<1>10. InKeyOrder(t)
  BY <1>5, <1>9 DEF InKeyOrder, key
<1> QED
  BY <1>5, <1>10 DEF t

\* Sorting a list keeps its elements
LEMMA SortedLists ==
  ASSUME NEW seq, NEW S, Lists(seq, S), \A r \in S : r.key \in Int
  PROVE  Lists(Sorted(seq), S) /\ InKeyOrder(Sorted(seq))
<1> DEFINE n          == Len(seq)
           V          == {v \in Seq(S) : InKeyOrder(v)}
           Then(v, i) == InsertSorted(v, seq[i])
           step       == [i \in 1 .. n |-> [v \in V |-> Then(v, i)]]
           D          == SUBSET (1 .. n)
           t          == <<>>
<1>0. /\ n \in Nat /\ DOMAIN seq = 1 .. n /\ \A i \in 1 .. n : seq[i] \in S
      /\ FirstOnes(seq, 0) = {} /\ FirstOnes(seq, n) = S
      /\ \A i \in 1 .. n : /\ seq[i] \notin FirstOnes(seq, i - 1)
                           /\ FirstOnes(seq, i) = FirstOnes(seq, i - 1) \cup {seq[i]}
  BY PlacesOf
<1>1. ASSUME NEW v \in V, NEW i \in 1 .. n PROVE Then(v, i) \in V
  BY <1>0, InsertSortedOrder
<1>2. t \in V
  BY DEF InKeyOrder
<1> HIDE DEF V, Then, t, n
<1>3. step \in [1 .. n -> [V -> V]]
  BY <1>1
<1>4. PICK g : IsFoldLeft(g, n, V, t, step)
  <2> HIDE DEF step
  <2> QED
    BY <1>0, <1>2, <1>3, FoldLeftRecursion
<1> DEFINE Body(f) == [s \in D |-> IF s = {} THEN t ELSE Then(f[s \ {Max(s)}], Max(s))]
           iter == CHOOSE f : f = Body(f)
<1>5. g = Body(g)
  <2>1. \A s \in D : g[s] = IF s = {} THEN t ELSE step[Max(s)][g[s \ {Max(s)}]]
    BY <1>4 DEF IsFoldLeft
  <2>2. g = [s \in D |-> g[s]] /\ \A s \in D : g[s] \in V
    BY <1>4 DEF IsFoldLeft
  <2>3. \A s \in D : s # {} => Max(s) \in 1 .. n /\ s \ {Max(s)} \in D
    BY <1>0, MaxOfPlaces
  <2>4. \A s \in D : g[s] = IF s = {} THEN t ELSE Then(g[s \ {Max(s)}], Max(s))
    BY <2>1, <2>2, <2>3
  <2> HIDE DEF D
  <2> QED
    BY <2>2, <2>4
<1>6. iter = Body(iter)
  BY <1>5
<1>7. Sorted(seq) = iter[1 .. n]
  <2>1. Sorted(seq) =
          (CHOOSE f : f = [s \in SUBSET DOMAIN seq |->
                             IF s = {} THEN t ELSE Then(f[s \ {Max(s)}], Max(s))])[DOMAIN seq]
    BY DEF Sorted, FoldLeft, MapThenFoldSet, Then, t
  <2> QED
    BY <1>0, <2>1
<1> HIDE DEF iter
<1> DEFINE w == [i \in 0 .. n |-> iter[1 .. i]]
<1>8. w[0] = t /\ \A i \in 1 .. n : w[i] = Then(w[i - 1], i)
  <2>1. w[0] = t
    <3>1. 1 .. 0 = {} /\ {} \in D
      OBVIOUS
    <3> QED
      BY <1>0, <1>6, <3>1
  <2>2. ASSUME NEW i \in 1 .. n PROVE w[i] = Then(w[i - 1], i)
    <3>0. i \in 0 .. n /\ i - 1 \in 0 .. n
      BY <1>0
    <3>1. /\ 1 .. i \in D /\ 1 .. i # {} /\ Max(1 .. i) = i /\ (1 .. i) \ {i} = 1 .. i - 1
          /\ i \in 0 .. n /\ i - 1 \in 0 .. n
      BY <1>0, <3>0, MaxOfPlaces
    <3>2. iter[1 .. i] = Then(iter[(1 .. i) \ {Max(1 .. i)}], Max(1 .. i))
      <4> HIDE DEF D
      <4> QED
        BY <1>6, <3>1
    <3> QED
      BY <3>1, <3>2
  <2> QED
    BY <2>1, <2>2
<1>9. Sorted(seq) = w[n]
  BY <1>0, <1>7
<1> HIDE DEF w
<1> DEFINE Fine(v, i) == v \in V /\ Lists(v, FirstOnes(seq, i))
           T == {i \in Nat : i <= n => Fine(w[i], i)}
<1>10. 0 \in T
  BY <1>0, <1>2, <1>8, ListsNothing DEF t
<1>11. ASSUME NEW i \in Nat, i \in T PROVE i + 1 \in T
  <2>1. SUFFICES ASSUME i + 1 <= n PROVE Fine(w[i + 1], i + 1)
    OBVIOUS
  <2>2. Fine(w[i], i) /\ i + 1 \in 1 .. n /\ (i + 1) - 1 = i
    BY <1>0, <1>11, <2>1
  <2>3. w[i + 1] = InsertSorted(w[i], seq[i + 1])
    BY <1>8, <2>2 DEF Then
  <2>4. w[i + 1] \in V
    BY <1>1, <1>8, <2>2
  <2>5. /\ seq[i + 1] \notin FirstOnes(seq, i)
        /\ FirstOnes(seq, i + 1) = FirstOnes(seq, i) \cup {seq[i + 1]}
    BY <1>0, <2>2
  <2> QED
    BY <2>2, <2>3, <2>4, <2>5, InsertSortedLists
<1> HIDE DEF T
<1>12. n \in T
  BY <1>0, <1>10, <1>11, InductionOnSets
<1> QED
  BY <1>0, <1>9, <1>12 DEF T, V

\* Selecting from a list
LEMMA SelectedLists ==
  ASSUME NEW seq, NEW S, Lists(seq, S), NEW wanted
  PROVE  Lists(Selected(seq, wanted), S \cap wanted)
<1> DEFINE n          == Len(seq)
           V          == Seq(S)
           Then(v, i) == IF seq[i] \in wanted THEN Append(v, seq[i]) ELSE v
           step       == [i \in 1 .. n |-> [v \in V |-> Then(v, i)]]
           D          == SUBSET (1 .. n)
           t          == <<>>
<1>0. /\ n \in Nat /\ DOMAIN seq = 1 .. n /\ \A i \in 1 .. n : seq[i] \in S
      /\ FirstOnes(seq, 0) = {} /\ FirstOnes(seq, n) = S
      /\ \A i \in 1 .. n : /\ seq[i] \notin FirstOnes(seq, i - 1)
                           /\ FirstOnes(seq, i) = FirstOnes(seq, i - 1) \cup {seq[i]}
  BY PlacesOf
<1>1. ASSUME NEW v \in V, NEW i \in 1 .. n PROVE Then(v, i) \in V
  BY <1>0
<1>2. t \in V
  OBVIOUS
<1> HIDE DEF V, Then, t, n
<1>3. step \in [1 .. n -> [V -> V]]
  BY <1>1
<1>4. PICK g : IsFoldLeft(g, n, V, t, step)
  <2> HIDE DEF step
  <2> QED
    BY <1>0, <1>2, <1>3, FoldLeftRecursion
<1> DEFINE Body(f) == [s \in D |-> IF s = {} THEN t ELSE Then(f[s \ {Max(s)}], Max(s))]
           iter == CHOOSE f : f = Body(f)
<1>5. g = Body(g)
  <2>1. \A s \in D : g[s] = IF s = {} THEN t ELSE step[Max(s)][g[s \ {Max(s)}]]
    BY <1>4 DEF IsFoldLeft
  <2>2. g = [s \in D |-> g[s]] /\ \A s \in D : g[s] \in V
    BY <1>4 DEF IsFoldLeft
  <2>3. \A s \in D : s # {} => Max(s) \in 1 .. n /\ s \ {Max(s)} \in D
    BY <1>0, MaxOfPlaces
  <2>4. \A s \in D : g[s] = IF s = {} THEN t ELSE Then(g[s \ {Max(s)}], Max(s))
    BY <2>1, <2>2, <2>3
  <2> HIDE DEF D
  <2> QED
    BY <2>2, <2>4
<1>6. iter = Body(iter)
  BY <1>5
<1>7. Selected(seq, wanted) = iter[1 .. n]
  <2>1. Selected(seq, wanted) =
          (CHOOSE f : f = [s \in SUBSET DOMAIN seq |->
                             IF s = {} THEN t ELSE Then(f[s \ {Max(s)}], Max(s))])[DOMAIN seq]
    BY DEF Selected, FoldLeft, MapThenFoldSet, Then, t
  <2> QED
    BY <1>0, <2>1
<1> HIDE DEF iter
<1> DEFINE w == [i \in 0 .. n |-> iter[1 .. i]]
<1>8. w[0] = t /\ \A i \in 1 .. n : w[i] = Then(w[i - 1], i)
  <2>1. w[0] = t
    <3>1. 1 .. 0 = {} /\ {} \in D
      OBVIOUS
    <3> QED
      BY <1>0, <1>6, <3>1
  <2>2. ASSUME NEW i \in 1 .. n PROVE w[i] = Then(w[i - 1], i)
    <3>1. /\ 1 .. i \in D /\ 1 .. i # {} /\ Max(1 .. i) = i /\ (1 .. i) \ {i} = 1 .. i - 1
          /\ i \in 0 .. n /\ i - 1 \in 0 .. n
      BY <1>0, MaxOfPlaces
    <3>2. iter[1 .. i] = Then(iter[(1 .. i) \ {Max(1 .. i)}], Max(1 .. i))
      <4> HIDE DEF D
      <4> QED
        BY <1>6, <3>1
    <3> QED
      BY <3>1, <3>2
  <2> QED
    BY <2>1, <2>2
<1>9. Selected(seq, wanted) = w[n]
  BY <1>0, <1>7
<1> HIDE DEF w
<1> DEFINE Fine(v, i) == Lists(v, FirstOnes(seq, i) \cap wanted)
           T == {i \in Nat : i <= n => Fine(w[i], i)}
<1>10. 0 \in T
  <2>1. FirstOnes(seq, 0) \cap wanted = {}
    BY <1>0
  <2> QED
    BY <1>8, <2>1, ListsNothing DEF t
<1>11. ASSUME NEW i \in Nat, i \in T PROVE i + 1 \in T
  <2>1. SUFFICES ASSUME i + 1 <= n PROVE Fine(w[i + 1], i + 1)
    OBVIOUS
  <2>2. Fine(w[i], i) /\ i + 1 \in 1 .. n /\ (i + 1) - 1 = i
    BY <1>0, <1>11, <2>1
  <2> DEFINE r == seq[i + 1]
             F == FirstOnes(seq, i) \cap wanted
  <2>3. w[i + 1] = IF r \in wanted THEN Append(w[i], r) ELSE w[i]
    BY <1>8, <2>2 DEF Then
  <2>4. r \notin FirstOnes(seq, i) /\ FirstOnes(seq, i + 1) = FirstOnes(seq, i) \cup {r}
    BY <1>0, <2>2
  <2>5. FirstOnes(seq, i + 1) \cap wanted = IF r \in wanted THEN F \cup {r} ELSE F
    BY <2>4
  <2>6. r \notin F /\ Lists(w[i], F)
    BY <2>2, <2>4
  <2> HIDE DEF F, r
  <2>7. r \in wanted => Lists(Append(w[i], r), F \cup {r})
    BY <2>6, ListsOneMore
  <2> QED
    BY <2>3, <2>5, <2>6, <2>7
<1> HIDE DEF T
<1>12. n \in T
  BY <1>0, <1>10, <1>11, InductionOnSets
<1> QED
  BY <1>0, <1>9, <1>12 DEF T

\* The lists of a dictionary, one after the other, list the union of their sets
LEMMA JoinedLists ==
  ASSUME NEW S, IsFiniteSet(S), NEW V, NEW dict \in [S -> Seq(V)], NEW part, Parts(S, dict, part)
  PROVE  Lists(Joined(dict), AllOf(S, part))
<1> DEFINE D    == SUBSET S
           W    == Seq(V)
           pick == [s \in D |-> CHOOSE x \in s : TRUE]
           step == [x \in S |-> [v \in W |-> v \o dict[x]]]
           Body(f) == [s \in D |-> IF s = {} THEN <<>>
                                   ELSE f[s \ {CHOOSE x \in s : TRUE}] \o dict[CHOOSE x \in s : TRUE]]
           iter == CHOOSE f : f = Body(f)
<1>1. Joined(dict) = iter[S]
  <2>1. DOMAIN dict = S
    OBVIOUS
  <2>2. Joined(dict) =
          (CHOOSE f : f = [s \in SUBSET DOMAIN dict |->
              IF s = {} THEN <<>>
              ELSE f[s \ {CHOOSE x \in s : TRUE}] \o dict[CHOOSE x \in s : TRUE]])[DOMAIN dict]
    BY DEF Joined, FoldSet, MapThenFoldSet
  <2> QED
    BY <2>1, <2>2
<1>2. \A s \in D : s # {} => pick[s] \in s /\ pick[s] \in S /\ pick[s] = CHOOSE x \in s : TRUE
  OBVIOUS
<1>3. <<>> \in W /\ step \in [S -> [W -> W]] /\ Chooser(pick, S)
  <2>1. \A x \in S, v \in W : v \o dict[x] \in W
    BY ConcatProperties
  <2> QED
    BY <1>2, <2>1 DEF Chooser
<1> HIDE DEF W
<1>4. PICK g : IsFold(g, S, W, <<>>, pick, step)
  <2> HIDE DEF pick, step
  <2> QED
    BY <1>3, FoldRecursion
<1>5. g = Body(g)
  <2>1. g = [s \in D |-> g[s]] /\ \A s \in D : g[s] \in W
    BY <1>4 DEF IsFold
  <2>2. \A s \in D : g[s] = IF s = {} THEN <<>> ELSE step[pick[s]][g[s \ {pick[s]}]]
    BY <1>4 DEF IsFold
  <2>3. ASSUME NEW s \in D, s # {}
        PROVE  g[s] = g[s \ {CHOOSE x \in s : TRUE}] \o dict[CHOOSE x \in s : TRUE]
    <3>1. s \ {pick[s]} \in D /\ pick[s] \in S
      BY <1>2, <2>3
    <3> DEFINE p == pick[s]
               r == g[s \ {p}]
    <3>2. r \in W
      BY <2>1, <3>1
    <3>3. g[s] = step[p][r]
      BY <2>2, <2>3
    <3> HIDE DEF p, r
    <3>4. g[s] = r \o dict[p]
      BY <3>1, <3>2, <3>3 DEF p
    <3> QED
      BY <1>2, <2>3, <3>4 DEF p, r
  <2>4. \A s \in D : g[s] = IF s = {} THEN <<>>
                            ELSE g[s \ {CHOOSE x \in s : TRUE}] \o dict[CHOOSE x \in s : TRUE]
    BY <2>2, <2>3
  <2> HIDE DEF D
  <2> QED
    BY <2>1, <2>4
<1>6. iter = Body(iter)
  BY <1>5
<1> HIDE DEF iter
<1>7. Joins(iter, S, dict)
  <2>1. \A s \in D : iter[s] = IF s = {} THEN <<>>
                               ELSE iter[s \ {CHOOSE x \in s : TRUE}] \o dict[CHOOSE x \in s : TRUE]
    <3> HIDE DEF D
    <3> QED
      BY <1>6
  <2>2. {} \in D
    OBVIOUS
  <2>3. ASSUME NEW s \in D, s # {} PROVE \E x \in s : iter[s] = iter[s \ {x}] \o dict[x]
    <3> DEFINE x == CHOOSE x \in s : TRUE
    <3>1. x \in s
      BY <2>3
    <3>2. iter[s] = iter[s \ {x}] \o dict[x]
      BY <2>1, <2>3
    <3> HIDE DEF x
    <3> QED
      BY <3>1, <3>2
  <2> QED
    BY <2>1, <2>2, <2>3 DEF Joins
<1>8. Lists(iter[S], AllOf(S, part))
  <2> HIDE DEF D
  <2> QED
    BY <1>7, ListsOfParts
<1> QED
  BY <1>1, <1>8

\* Sorting by an order keeps the elements of a list
LEMMA SortedByLists ==
  ASSUME NEW seq, NEW S, Lists(seq, S), NEW earlier, WeakOrder(earlier, S)
  PROVE  Lists(SortedBy(seq, earlier), S) /\ Arranged(SortedBy(seq, earlier), earlier)
<1> DEFINE n          == Len(seq)
           V          == {v \in Seq(S) : Arranged(v, earlier)}
           Then(v, i) == PutBy(v, seq[i], earlier)
           step       == [i \in 1 .. n |-> [v \in V |-> Then(v, i)]]
           D          == SUBSET (1 .. n)
           t          == <<>>
<1>0. /\ n \in Nat /\ DOMAIN seq = 1 .. n /\ \A i \in 1 .. n : seq[i] \in S
      /\ FirstOnes(seq, 0) = {} /\ FirstOnes(seq, n) = S
      /\ \A i \in 1 .. n : /\ seq[i] \notin FirstOnes(seq, i - 1)
                           /\ FirstOnes(seq, i) = FirstOnes(seq, i - 1) \cup {seq[i]}
  BY PlacesOf
<1>1. ASSUME NEW v \in V, NEW i \in 1 .. n PROVE Then(v, i) \in V
  BY <1>0, PutByOrder
<1>2. t \in V
  BY DEF Arranged
<1> HIDE DEF V, Then, t, n
<1>3. step \in [1 .. n -> [V -> V]]
  BY <1>1
<1>4. PICK g : IsFoldLeft(g, n, V, t, step)
  <2> HIDE DEF step
  <2> QED
    BY <1>0, <1>2, <1>3, FoldLeftRecursion
<1> DEFINE Body(f) == [s \in D |-> IF s = {} THEN t ELSE Then(f[s \ {Max(s)}], Max(s))]
           iter == CHOOSE f : f = Body(f)
<1>5. g = Body(g)
  <2>1. \A s \in D : g[s] = IF s = {} THEN t ELSE step[Max(s)][g[s \ {Max(s)}]]
    BY <1>4 DEF IsFoldLeft
  <2>2. g = [s \in D |-> g[s]] /\ \A s \in D : g[s] \in V
    BY <1>4 DEF IsFoldLeft
  <2>3. \A s \in D : s # {} => Max(s) \in 1 .. n /\ s \ {Max(s)} \in D
    BY <1>0, MaxOfPlaces
  <2>4. \A s \in D : g[s] = IF s = {} THEN t ELSE Then(g[s \ {Max(s)}], Max(s))
    BY <2>1, <2>2, <2>3
  <2> HIDE DEF D
  <2> QED
    BY <2>2, <2>4
<1>6. iter = Body(iter)
  BY <1>5
<1>7. SortedBy(seq, earlier) = iter[1 .. n]
  <2>1. SortedBy(seq, earlier) =
          (CHOOSE f : f = [s \in SUBSET DOMAIN seq |->
                             IF s = {} THEN t ELSE Then(f[s \ {Max(s)}], Max(s))])[DOMAIN seq]
    BY DEF SortedBy, Insert, PutBy, PlaceBy, FoldLeft, MapThenFoldSet, Then, t
  <2> QED
    BY <1>0, <2>1
<1> HIDE DEF iter
<1> DEFINE w == [i \in 0 .. n |-> iter[1 .. i]]
<1>8. w[0] = t /\ \A i \in 1 .. n : w[i] = Then(w[i - 1], i)
  <2>1. w[0] = t
    <3>1. 1 .. 0 = {} /\ {} \in D
      OBVIOUS
    <3> QED
      BY <1>0, <1>6, <3>1
  <2>2. ASSUME NEW i \in 1 .. n PROVE w[i] = Then(w[i - 1], i)
    <3>0. i \in 0 .. n /\ i - 1 \in 0 .. n
      BY <1>0
    <3>1. /\ 1 .. i \in D /\ 1 .. i # {} /\ Max(1 .. i) = i /\ (1 .. i) \ {i} = 1 .. i - 1
          /\ i \in 0 .. n /\ i - 1 \in 0 .. n
      BY <1>0, <3>0, MaxOfPlaces
    <3>2. iter[1 .. i] = Then(iter[(1 .. i) \ {Max(1 .. i)}], Max(1 .. i))
      <4> HIDE DEF D
      <4> QED
        BY <1>6, <3>1
    <3> QED
      BY <3>1, <3>2
  <2> QED
    BY <2>1, <2>2
<1>9. SortedBy(seq, earlier) = w[n]
  BY <1>0, <1>7
<1> HIDE DEF w
<1> DEFINE Fine(v, i) == v \in V /\ Lists(v, FirstOnes(seq, i))
           T == {i \in Nat : i <= n => Fine(w[i], i)}
<1>10. 0 \in T
  BY <1>0, <1>2, <1>8, ListsNothing DEF t
<1>11. ASSUME NEW i \in Nat, i \in T PROVE i + 1 \in T
  <2>1. SUFFICES ASSUME i + 1 <= n PROVE Fine(w[i + 1], i + 1)
    OBVIOUS
  <2>2. Fine(w[i], i) /\ i + 1 \in 1 .. n /\ (i + 1) - 1 = i
    BY <1>0, <1>11, <2>1
  <2>3. w[i + 1] = PutBy(w[i], seq[i + 1], earlier)
    BY <1>8, <2>2 DEF Then
  <2>4. w[i + 1] \in V
    BY <1>1, <1>8, <2>2
  <2>5. /\ seq[i + 1] \notin FirstOnes(seq, i)
        /\ FirstOnes(seq, i + 1) = FirstOnes(seq, i) \cup {seq[i + 1]}
    BY <1>0, <2>2
  <2> QED
    BY <2>2, <2>3, <2>4, <2>5, PutByLists
<1> HIDE DEF T
<1>12. n \in T
  BY <1>0, <1>10, <1>11, InductionOnSets
<1> QED
  BY <1>0, <1>9, <1>12 DEF T, V

\* A number put in its place among others
PutNumber(v, x) == InsertAt(v, BisectLeft(v, x) + 1, x)

\* The same for numbers
LEMMA PutNumberLists ==
  ASSUME NEW U, NEW v \in Seq(U), NEW x \in U
  PROVE  /\ PutNumber(v, x) \in Seq(U)
         /\ \A S : Lists(v, S) /\ x \notin S => Lists(PutNumber(v, x), S \cup {x})
<1> DEFINE c == BisectLeft(v, x) + 1
<1>1. Len(v) \in Nat /\ DOMAIN v = 1 .. Len(v)
  BY LenProperties
<1>2. BisectLeft(v, x) \in 0 .. Len(v)
  BY <1>1, BisectRange
<1>3. c \in 1 .. Len(v) + 1
  BY <1>1, <1>2
<1> HIDE DEF c
<1>4. OneMore(InsertAt(v, c, x), v, U, c, x)
  BY <1>3, InsertAtFacts
<1>5. ASSUME NEW S, Lists(v, S), x \notin S PROVE Lists(InsertAt(v, c, x), S \cup {x})
  BY <1>3, <1>5, ListsInserted
<1> QED
  BY <1>4, <1>5 DEF OneMore, PutNumber, c

\* A set of numbers in order lists them
LEMMA AscendingLists ==
  ASSUME NEW S, IsFiniteSet(S)
  PROVE  Lists(Ascending(S), S)
<1> DEFINE V    == Seq(S)
           D    == SUBSET S
           pick == [s \in D |-> CHOOSE x \in s : TRUE]
           step == [x \in S |-> [v \in V |-> PutNumber(v, x)]]
           Body(f) == [s \in D |-> IF s = {} THEN <<>>
                                   ELSE PutNumber(f[s \ {CHOOSE x \in s : TRUE}], CHOOSE x \in s : TRUE)]
           iter == CHOOSE f : f = Body(f)
<1>1. Ascending(S) = iter[S]
  BY DEF Ascending, Insert, PutNumber, FoldSet, MapThenFoldSet
<1>2. \A s \in D : s # {} => pick[s] \in s /\ pick[s] \in S /\ pick[s] = CHOOSE x \in s : TRUE
  OBVIOUS
<1>3. <<>> \in V /\ step \in [S -> [V -> V]] /\ Chooser(pick, S)
  <2>1. \A x \in S, v \in V : PutNumber(v, x) \in V
    BY PutNumberLists
  <2> QED
    BY <1>2, <2>1 DEF Chooser
<1> HIDE DEF V
<1>4. PICK g : IsFold(g, S, V, <<>>, pick, step)
  <2> HIDE DEF pick, step
  <2> QED
    BY <1>3, FoldRecursion
<1>5. g = Body(g)
  <2>1. g = [s \in D |-> g[s]] /\ \A s \in D : g[s] \in V
    BY <1>4 DEF IsFold
  <2>2. \A s \in D : g[s] = IF s = {} THEN <<>> ELSE step[pick[s]][g[s \ {pick[s]}]]
    BY <1>4 DEF IsFold
  <2>3. ASSUME NEW s \in D, s # {}
        PROVE  g[s] = PutNumber(g[s \ {CHOOSE x \in s : TRUE}], CHOOSE x \in s : TRUE)
    <3>1. s \ {pick[s]} \in D /\ pick[s] \in S
      BY <1>2, <2>3
    <3> DEFINE p == pick[s]
               r == g[s \ {p}]
    <3>2. r \in V
      BY <2>1, <3>1
    <3>3. g[s] = step[p][r]
      BY <2>2, <2>3
    <3> HIDE DEF p, r
    <3>4. g[s] = PutNumber(r, p)
      BY <3>1, <3>2, <3>3 DEF p
    <3> QED
      BY <1>2, <2>3, <3>4 DEF p, r
  <2>4. \A s \in D : g[s] = IF s = {} THEN <<>>
                            ELSE PutNumber(g[s \ {CHOOSE x \in s : TRUE}], CHOOSE x \in s : TRUE)
    BY <2>2, <2>3
  <2> HIDE DEF D
  <2> QED
    BY <2>1, <2>4
<1>6. iter = Body(iter)
  BY <1>5
<1> HIDE DEF iter
<1>7. /\ iter[{}] = <<>>
      /\ \A s \in D : s # {} => \E x \in s : iter[s] = PutNumber(iter[s \ {x}], x)
  <2>1. \A s \in D : iter[s] = IF s = {} THEN <<>>
                               ELSE PutNumber(iter[s \ {CHOOSE x \in s : TRUE}], CHOOSE x \in s : TRUE)
    <3> HIDE DEF D
    <3> QED
      BY <1>6
  <2>2. {} \in D
    OBVIOUS
  <2>3. ASSUME NEW s \in D, s # {} PROVE \E x \in s : iter[s] = PutNumber(iter[s \ {x}], x)
    <3> DEFINE x == CHOOSE x \in s : TRUE
    <3>1. x \in s
      BY <2>3
    <3>2. iter[s] = PutNumber(iter[s \ {x}], x)
      BY <2>1, <2>3
    <3> HIDE DEF x
    <3> QED
      BY <3>1, <3>2
  <2> QED
    BY <2>1, <2>2, <2>3
<1> DEFINE T == {n \in Nat : \A s \in D : Cardinality(s) = n => Lists(iter[s], s)}
<1>8. \A s \in D : IsFiniteSet(s) /\ Cardinality(s) \in Nat
  BY FS_Subset, FS_CardinalityType
<1>9. 0 \in T
  <2>1. ASSUME NEW s \in D, Cardinality(s) = 0 PROVE Lists(iter[s], s)
    <3>1. s = {}
      BY <1>8, <2>1, FS_EmptySet
    <3> QED
      BY <1>7, <3>1, ListsNothing
  <2> QED
    BY <2>1
<1>10. ASSUME NEW n \in Nat, n \in T PROVE n + 1 \in T
  <2>1. SUFFICES ASSUME NEW s \in D, Cardinality(s) = n + 1 PROVE Lists(iter[s], s)
    OBVIOUS
  <2>2. s # {}
    BY <2>1, FS_EmptySet
  <2>3. PICK x \in s : iter[s] = PutNumber(iter[s \ {x}], x)
    BY <1>7, <2>2
  <2> DEFINE z == s \ {x}
  <2>4. z \in D /\ Cardinality(z) = n
    BY <1>8, <2>1, FS_RemoveElement
  <2>5. z \cup {x} = s /\ x \notin z
    OBVIOUS
  <2> HIDE DEF z
  <2>6. Lists(iter[z], z)
    BY <1>10, <2>4
  <2>7. Lists(PutNumber(iter[z], x), z \cup {x})
    <3> DEFINE y == iter[z]
               U == z \cup {x}
    <3>1. y \in Seq(z) /\ z \subseteq U /\ x \in U
      BY <2>6 DEF Lists
    <3> HIDE DEF y, U
    <3>2. y \in Seq(U)
      BY <3>1, SeqMonotonic
    <3>3. \A Z : Lists(y, Z) /\ x \notin Z => Lists(PutNumber(y, x), Z \cup {x})
      BY <3>1, <3>2, PutNumberLists
    <3> QED
      BY <2>5, <2>6, <3>3 DEF y
  <2> QED
    BY <2>3, <2>5, <2>7 DEF z
<1> HIDE DEF T
<1>11. Cardinality(S) \in T
  BY <1>8, <1>9, <1>10, InductionOnSets
<1> QED
  BY <1>1, <1>11 DEF T

-----------------------------------------------------------------------------
(* The extendible hash *)

HashKeys    == DOMAIN MaxCopies["hash"]
HashRecords == [key : HashKeys, id : Nat \ {0}]

HashBuckets == [local_depth : Nat,
                entries     : UNION {[keys -> Seq(HashRecords)] : keys \in SUBSET HashKeys}]
HashTables  == [global_depth : Nat,
                directory    : UNION {[0 .. n -> Nat] : n \in Nat},
                buckets      : UNION {[0 .. n -> HashBuckets] : n \in Nat}]

Slots(t)    == 0 .. H!Pow2[t.global_depth] - 1
Depth(t, b) == t.buckets[b].local_depth
Held(t, b)  == DOMAIN t.buckets[b].entries

\* The directory has a slot for each pattern of global_depth bits, and reaches
\* every bucket
DirectoryWhole(t) ==
    /\ t.global_depth >= 1
    /\ DOMAIN t.directory = Slots(t)
    /\ \A s \in Slots(t) : t.directory[s] \in DOMAIN t.buckets
    /\ \A b \in DOMAIN t.buckets : \E s \in Slots(t) : t.directory[s] = b

\* A bucket is reached by the slots that agree with it on its own bits
DirectoryAgrees(t) ==
    \A s, o \in Slots(t) :
        LET d == Depth(t, t.directory[s])
        IN  t.directory[s] = t.directory[o] <=> s % H!Pow2[d] = o % H!Pow2[d]

DepthsBound(t) ==
    /\ \A b \in DOMAIN t.buckets : Depth(t, b) \in 1 .. t.global_depth
    /\ \E b \in DOMAIN t.buckets : Depth(t, b) = t.global_depth

\* A bucket holds keys that lead to it, within its capacity
KeysPlaced(t) ==
    \A b \in DOMAIN t.buckets :
        /\ \A k \in Held(t, b) : H!BucketIndex(t, k) = b
        /\ IsFiniteSet(Held(t, b)) /\ Cardinality(Held(t, b)) <= BucketCapacity

GoodTable(t) ==
    /\ t \in HashTables
    /\ DirectoryWhole(t) /\ DirectoryAgrees(t) /\ DepthsBound(t) /\ KeysPlaced(t)

\* The library, as the module of the hash has it
LEMMA SameOfSets ==
  ASSUME NEW S
  PROVE  /\ H!Cardinality(S) = Cardinality(S) /\ H!IsFiniteSet(S) = IsFiniteSet(S)
         /\ H!Max(S) = Max(S) /\ H!Range(S) = Range(S)
<1>1. H!Cardinality(S) = Cardinality(S)
  BY DEF H!Cardinality, Cardinality
<1>2. H!IsFiniteSet(S) = IsFiniteSet(S)
  BY DEF H!IsFiniteSet, IsFiniteSet
<1>3. H!Max(S) = Max(S) /\ H!Range(S) = Range(S)
  BY DEF H!Max, Max, H!Range, Range
<1> QED
  BY <1>1, <1>2, <1>3

\* The powers of two of the hash
LEMMA PowersOfTwo == Doubling(H!Pow2)
BY DoublingFunction DEF H!Pow2

\* What the proofs about the directory need of the low bits of a number
LEMMA Bits ==
  ASSUME NEW x \in Nat, NEW d \in Nat
  PROVE  /\ x % H!Pow2[d] \in 0 .. H!Pow2[d] - 1
         /\ x % H!Pow2[d] \in Nat
         /\ x < H!Pow2[d] => x % H!Pow2[d] = x
         /\ x % H!Pow2[d + 1] \in {x % H!Pow2[d], (x % H!Pow2[d]) + H!Pow2[d]}
         /\ H!BitSet(x, d) <=> x % H!Pow2[d + 1] # x % H!Pow2[d]
         /\ H!Pow2[d] \in Nat \ {0}
         /\ H!Pow2[d + 1] = 2 * H!Pow2[d]
<1>1. H!Pow2[d] \in Nat \ {0} /\ H!Pow2[d + 1] = 2 * H!Pow2[d]
  BY PowersOfTwo DEF Doubling
<1> DEFINE P == H!Pow2
<1>2. Doubling(P)
  BY PowersOfTwo
<1> HIDE DEF P
<1>3. /\ x % P[d] \in 0 .. P[d] - 1
      /\ x < P[d] => x % P[d] = x
      /\ x % P[d + 1] \in {x % P[d], (x % P[d]) + P[d]}
      /\ (x \div P[d]) % 2 = 1 <=> x % P[d + 1] # x % P[d]
  BY <1>2, LowBits
<1>4. x % P[d] \in Nat
  BY <1>1, <1>3 DEF P
<1> QED
  BY <1>1, <1>3, <1>4 DEF P, H!BitSet

\* The low bits of the low bits of a slot
LEMMA BitsOfBits ==
  ASSUME NEW x \in Nat, NEW d \in Nat, NEW g \in Nat, d <= g
  PROVE  (x % H!Pow2[g]) % H!Pow2[d] = x % H!Pow2[d] /\ H!Pow2[d] <= H!Pow2[g]
BY PowersOfTwo, LowBitsOfLowBits, DoublingGrows

\* The first bits of a hash are a slot, and say where a key's bucket is
LEMMA SlotOfKey ==
  ASSUME NEW t, t \in HashTables, DirectoryWhole(t), NEW k \in HashKeys
  PROVE  /\ Hash[k] \in Nat
         /\ H!DirectoryPosition(t, k) \in Slots(t)
         /\ H!BucketIndex(t, k) \in DOMAIN t.buckets
<1>1. Hash[k] \in Nat /\ t.global_depth \in Nat
  <2>1. Hash \in [HashKeys -> 0 .. H!Pow2[HashBits] - 1] /\ HashBits \in Nat
    BY HashAssumption DEF HashKeys
  <2>2. H!Pow2[HashBits] \in Nat
    BY <2>1, Bits
  <2>3. Hash[k] \in Nat
    BY <2>1, <2>2
  <2> QED
    BY <2>3 DEF HashTables
<1>2. H!DirectoryPosition(t, k) \in Slots(t)
  BY <1>1, Bits DEF H!DirectoryPosition, Slots
<1> QED
  BY <1>1, <1>2 DEF H!BucketIndex, DirectoryWhole

\* What a split leaves, of a good table t, when u is the table afterwards: b the
\* bucket that was split, n the new one, d its depth before
SplitOf(t, u, b, n, d) ==
    /\ b \in DOMAIN t.buckets /\ d = Depth(t, b) /\ n \in Nat
    /\ DOMAIN t.buckets = 0 .. n - 1 /\ DOMAIN u.buckets = 0 .. n
    /\ u.global_depth = IF d = t.global_depth THEN t.global_depth + 1 ELSE t.global_depth
    /\ DOMAIN u.directory = Slots(u)
    /\ \A s \in Slots(u) :
          u.directory[s] =
            LET old == t.directory[s % H!Pow2[t.global_depth]]
            IN  IF old = b /\ H!BitSet(s, d) THEN n ELSE old
    /\ \A i \in 0 .. n : Depth(u, i) = IF i \in {b, n} THEN d + 1 ELSE Depth(t, i)
    /\ \A i \in 0 .. n :
          LET home == {k \in Held(t, b) : H!BucketIndex(u, k) = i}
          IN  IF i \in {b, n}
              THEN /\ Held(u, i) = home
                   /\ \A k \in home : u.buckets[i].entries[k] = t.buckets[b].entries[k]
              ELSE /\ Held(u, i) = home \cup Held(t, i)
                   /\ home = {} => u.buckets[i].entries = t.buckets[i].entries
    /\ u \in HashTables

\* A table has at least one bucket, numbered from zero
LEMMA BucketNumbers ==
  ASSUME NEW t, t \in HashTables
  PROVE  /\ H!BucketCount(t) \in Nat \ {0}
         /\ DOMAIN t.buckets = 0 .. H!BucketCount(t) - 1
<1>1. PICK m \in Nat : t.buckets \in [0 .. m -> HashBuckets]
  BY DEF HashTables
<1>2. DOMAIN t.buckets = 0 .. m
  BY <1>1
<1>3. Cardinality(0 .. m) = m + 1
  BY FS_Interval
<1>4. H!BucketCount(t) = m + 1
  BY <1>2, <1>3, SameOfSets DEF H!BucketCount
<1> QED
  BY <1>2, <1>4

\* What is known of a bucket of a good table
LEMMA BucketTyped ==
  ASSUME NEW t, t \in HashTables, NEW b \in DOMAIN t.buckets
  PROVE  /\ t.buckets[b] \in HashBuckets /\ Depth(t, b) \in Nat
         /\ Held(t, b) \in SUBSET HashKeys
         /\ t.buckets[b].entries \in [Held(t, b) -> Seq(HashRecords)]
<1>1. PICK m \in Nat : t.buckets \in [0 .. m -> HashBuckets]
  BY DEF HashTables
<1>2. t.buckets[b] \in HashBuckets
  BY <1>1
<1> DEFINE e == t.buckets[b].entries
<1>3. /\ t.buckets[b].local_depth \in Nat
      /\ e \in UNION {[keys -> Seq(HashRecords)] : keys \in SUBSET HashKeys}
  BY <1>2 DEF HashBuckets
<1>4. PICK keys \in SUBSET HashKeys : e \in [keys -> Seq(HashRecords)]
  BY <1>3
<1>5. DOMAIN e = keys
  BY <1>4
<1> QED
  BY <1>2, <1>3, <1>4, <1>5 DEF Depth, Held

\* SplitBucket does what the definition of a split says
LEMMA SplitIsSplit ==
  ASSUME NEW t, GoodTable(t), NEW key \in HashKeys
  PROVE  SplitOf(t, H!SplitBucket(t, key), H!BucketIndex(t, key), H!BucketCount(t),
                 Depth(t, H!BucketIndex(t, key)))
<1> DEFINE b       == H!BucketIndex(t, key)
           n       == H!BucketCount(t)
           d       == Depth(t, b)
           g       == t.global_depth
           old     == t.buckets[b].entries
           doubled == IF d = g THEN g + 1 ELSE g
           slot(pos) == t.directory[pos % H!Pow2[g]]
           dir     == [pos \in 0 .. H!Pow2[doubled] - 1 |->
                         IF slot(pos) = b /\ H!BitSet(pos, d) THEN n ELSE slot(pos)]
           homes(i)  == {k \in DOMAIN old : dir[Hash[k] % H!Pow2[doubled]] = i}
           rest(i)   == IF i \in {b, n} THEN H!NoEntries ELSE t.buckets[i].entries
           depths(i) == IF i \in {b, n} THEN d + 1 ELSE t.buckets[i].local_depth
           entries(i) == H!Updated(rest(i), [k \in homes(i) |-> old[k]])
           bucket(i) == [local_depth |-> depths(i), entries |-> entries(i)]
           buckets == [i \in 0 .. n |-> bucket(i)]
           u       == H!SplitBucket(t, key)
<1>1. u = [global_depth |-> doubled, directory |-> dir, buckets |-> buckets]
  BY DEF H!SplitBucket, Depth
<1> HIDE DEF u
<1>2. t \in HashTables /\ g \in Nat
  BY DEF GoodTable, HashTables
<1>3. b \in DOMAIN t.buckets
  BY <1>2, SlotOfKey DEF GoodTable
<1>4. n \in Nat /\ n # 0 /\ DOMAIN t.buckets = 0 .. n - 1
  BY <1>2, BucketNumbers
<1>5. b \in 0 .. n /\ b \in Nat
  BY <1>3, <1>4
<1>6. d \in Nat /\ doubled \in Nat
  BY <1>2, <1>3 DEF HashTables, HashBuckets, Depth
<1>7. /\ u.global_depth = doubled /\ u.directory = dir /\ u.buckets = buckets
      /\ DOMAIN u.buckets = 0 .. n
  BY <1>1
<1>8. DOMAIN u.directory = Slots(u)
  BY <1>7 DEF Slots
<1> HIDE DEF doubled
<1>9. ASSUME NEW s \in Slots(u)
      PROVE  u.directory[s] = IF slot(s) = b /\ H!BitSet(s, d) THEN n ELSE slot(s)
  BY <1>7 DEF Slots
<1>10. \A i \in 0 .. n : u.buckets[i] = bucket(i)
  BY <1>7
<1>13. ASSUME NEW i \in 0 .. n
       PROVE  u.buckets[i].entries = entries(i) /\ u.buckets[i].local_depth = depths(i)
  <2>1. u.buckets[i] = bucket(i)
    BY <1>10
  <2> HIDE DEF entries, depths
  <2> QED
    BY <2>1
<1>11. \A i \in 0 .. n : Depth(u, i) = IF i \in {b, n} THEN d + 1 ELSE Depth(t, i)
  BY <1>13 DEF Depth
<1>12. ASSUME NEW i \in 0 .. n
       PROVE  homes(i) = {k \in Held(t, b) : H!BucketIndex(u, k) = i}
  <2>1. \A k : H!BucketIndex(u, k) = dir[Hash[k] % H!Pow2[doubled]]
    BY <1>7 DEF H!BucketIndex, H!DirectoryPosition
  <2> HIDE DEF dir
  <2> QED
    BY <2>1 DEF Held
<1> HIDE DEF dir, homes, buckets
<1>14. ASSUME NEW i \in 0 .. n, i \in {b, n}
       PROVE  entries(i) = [k \in homes(i) |-> old[k]]
  BY <1>14 DEF H!Updated, H!NoEntries
<1>15. ASSUME NEW i \in 0 .. n, i \notin {b, n}
       PROVE  /\ i \in DOMAIN t.buckets
              /\ DOMAIN entries(i) = homes(i) \cup Held(t, i)
              /\ homes(i) = {} => entries(i) = t.buckets[i].entries
              /\ \A k \in DOMAIN entries(i) :
                    entries(i)[k] = IF k \in homes(i) THEN old[k] ELSE t.buckets[i].entries[k]
  <2>1. i \in DOMAIN t.buckets
    BY <1>4, <1>15
  <2> DEFINE here == t.buckets[i].entries
  <2>2. here \in [Held(t, i) -> Seq(HashRecords)]
    BY <1>2, <2>1, BucketTyped
  <2>3. entries(i) = [k \in DOMAIN here \cup homes(i) |->
                        IF k \in homes(i) THEN old[k] ELSE here[k]]
    BY <1>15 DEF H!Updated
  <2>4. ASSUME homes(i) = {} PROVE entries(i) = here
    <3>1. entries(i) = [k \in DOMAIN here |-> here[k]]
      BY <2>3, <2>4
    <3> HIDE DEF entries, here
    <3> QED
      BY <2>2, <3>1
  <2> HIDE DEF entries, here
  <2>5. /\ DOMAIN entries(i) = homes(i) \cup DOMAIN here
        /\ \A k \in DOMAIN entries(i) : entries(i)[k] = IF k \in homes(i) THEN old[k] ELSE here[k]
    BY <2>3
  <2> QED
    BY <2>1, <2>4, <2>5 DEF here, Held
<1>16. ASSUME NEW i \in 0 .. n PROVE u.buckets[i] \in HashBuckets
  <2> DEFINE keys == Held(t, b)
  <2>1. keys \in SUBSET HashKeys /\ old \in [keys -> Seq(HashRecords)]
    BY <1>2, <1>3, BucketTyped
  <2>2. homes(i) \subseteq keys
    BY <2>1 DEF homes
  <2> HIDE DEF old
  <2>3. entries(i) \in UNION {[set -> Seq(HashRecords)] : set \in SUBSET HashKeys}
    <3>1. CASE i \in {b, n}
      <4>1. entries(i) = [k \in homes(i) |-> old[k]]
        BY <1>14, <3>1
      <4>2. entries(i) \in [homes(i) -> Seq(HashRecords)] /\ homes(i) \in SUBSET HashKeys
        BY <2>1, <2>2, <4>1
      <4> QED
        BY <4>2
    <3>2. CASE i \notin {b, n}
      <4>1. /\ i \in DOMAIN t.buckets
            /\ DOMAIN entries(i) = homes(i) \cup Held(t, i)
            /\ \A k \in DOMAIN entries(i) :
                  entries(i)[k] = IF k \in homes(i) THEN old[k] ELSE t.buckets[i].entries[k]
        BY <1>15, <3>2
      <4> DEFINE more == Held(t, i)
      <4>2. more \in SUBSET HashKeys /\ t.buckets[i].entries \in [more -> Seq(HashRecords)]
        BY <1>2, <4>1, BucketTyped
      <4>3. Held(t, i) = more
        OBVIOUS
      <4>4. entries(i) = [k \in DOMAIN entries(i) |-> entries(i)[k]]
        BY DEF entries, H!Updated
      <4> DEFINE set == homes(i) \cup more
      <4>5. \A k \in set : entries(i)[k] \in Seq(HashRecords)
        <5> HIDE DEF entries
        <5> QED
          BY <2>1, <2>2, <4>1, <4>2, <4>3
      <4> HIDE DEF entries
      <4>6. DOMAIN entries(i) = set
        BY <4>1, <4>3
      <4>7. set \in SUBSET HashKeys
        BY <2>1, <2>2, <4>2
      <4> HIDE DEF set
      <4>8. entries(i) \in [set -> Seq(HashRecords)]
        BY <4>4, <4>5, <4>6
      <4> QED
        BY <4>7, <4>8
    <3> QED
      BY <3>1, <3>2
  <2>4. depths(i) \in Nat
    <3>1. i \notin {b, n} => i \in DOMAIN t.buckets
      BY <1>4
    <3> QED
      BY <1>2, <1>6, <3>1 DEF HashTables, HashBuckets
  <2>5. u.buckets[i] = bucket(i)
    BY <1>10 DEF old
  <2> HIDE DEF entries, depths
  <2> QED
    BY <2>3, <2>4, <2>5 DEF HashBuckets
<1>17. u \in HashTables
  <2>1. buckets \in [0 .. n -> HashBuckets]
    <3>1. u.buckets = [i \in 0 .. n |-> u.buckets[i]]
      BY <1>7 DEF buckets
    <3> QED
      BY <1>7, <1>16, <3>1
  <2>2. dir \in [0 .. H!Pow2[doubled] - 1 -> Nat]
    <3>1. ASSUME NEW pos \in 0 .. H!Pow2[doubled] - 1
          PROVE  slot(pos) \in Nat
      <4>1. pos \in Nat
        BY <1>6, Bits
      <4>2. pos % H!Pow2[g] \in Slots(t)
        BY <1>2, <4>1, Bits DEF Slots
      <4>3. slot(pos) \in DOMAIN t.buckets
        BY <4>2 DEF GoodTable, DirectoryWhole
      <4> QED
        BY <1>4, <4>3
    <3> QED
      BY <1>4, <3>1 DEF dir
  <2>3. H!Pow2[doubled] - 1 \in Nat
    <3>1. H!Pow2[doubled] \in Nat \ {0}
      BY <1>6, Bits
    <3> QED
      BY <3>1
  <2>4. dir \in UNION {[0 .. m -> Nat] : m \in Nat}
    BY <2>2, <2>3
  <2>5. buckets \in UNION {[0 .. m -> HashBuckets] : m \in Nat}
    BY <1>4, <2>1
  <2> QED
    BY <1>1, <1>6, <2>4, <2>5 DEF HashTables
<1>18. ASSUME NEW i \in 0 .. n
       PROVE  LET home == {k \in Held(t, b) : H!BucketIndex(u, k) = i}
              IN  IF i \in {b, n}
                  THEN /\ Held(u, i) = home
                       /\ \A k \in home : u.buckets[i].entries[k] = t.buckets[b].entries[k]
                  ELSE /\ Held(u, i) = home \cup Held(t, i)
                       /\ home = {} => u.buckets[i].entries = t.buckets[i].entries
  <2>1. u.buckets[i].entries = entries(i) /\ Held(u, i) = DOMAIN entries(i)
    BY <1>13 DEF Held
  <2>2. homes(i) = {k \in Held(t, b) : H!BucketIndex(u, k) = i}
    BY <1>12
  <2>3. CASE i \in {b, n}
    <3>1. entries(i) = [k \in homes(i) |-> old[k]]
      BY <1>14, <2>3
    <3> HIDE DEF entries
    <3> QED
      BY <2>1, <2>2, <2>3, <3>1
  <2>4. CASE i \notin {b, n}
    <3>1. /\ DOMAIN entries(i) = homes(i) \cup Held(t, i)
          /\ homes(i) = {} => entries(i) = t.buckets[i].entries
      BY <1>15, <2>4
    <3> HIDE DEF entries
    <3> QED
      BY <2>1, <2>2, <2>4, <3>1
  <2> QED
    BY <2>3, <2>4
<1>19. \A s \in Slots(u) : u.directory[s] =
            LET was == t.directory[s % H!Pow2[t.global_depth]]
            IN  IF was = b /\ H!BitSet(s, d) THEN n ELSE was
  BY <1>9
<1>20. u.global_depth = IF d = t.global_depth THEN t.global_depth + 1 ELSE t.global_depth
  BY <1>7 DEF doubled
<1> HIDE DEF b, n, d
<1> QED
  BY <1>3, <1>4, <1>7, <1>8, <1>11, <1>17, <1>18, <1>19, <1>20 DEF SplitOf, u, b, n, d

\* After a split, the bucket a slot leads to: the one it led to, or one of the
\* two halves
LEMMA SplitSlots ==
  ASSUME NEW t, GoodTable(t), NEW u, NEW b, NEW n, NEW d, SplitOf(t, u, b, n, d)
  PROVE  /\ t.global_depth \in Nat /\ u.global_depth \in Nat /\ d \in Nat
         /\ d <= t.global_depth /\ d + 1 <= u.global_depth
         /\ t.global_depth <= u.global_depth /\ 1 <= d
         /\ \A s \in Slots(u) :
              LET was == s % H!Pow2[t.global_depth]
              IN  /\ s \in Nat /\ was \in Slots(t)
                  /\ t.directory[was] \in DOMAIN t.buckets
                  /\ t.directory[was] # n
                  /\ u.directory[s] = IF t.directory[was] = b /\ H!BitSet(s, d) THEN n
                                      ELSE t.directory[was]
                  /\ u.directory[s] \in {b, n} <=> t.directory[was] = b
                  /\ t.directory[was] # b =>
                        /\ u.directory[s] = t.directory[was]
                        /\ Depth(u, u.directory[s]) = Depth(t, t.directory[was])
                  /\ t.directory[was] = b => Depth(u, u.directory[s]) = d + 1
<1>1. t.global_depth \in Nat /\ u.global_depth \in Nat
  BY DEF SplitOf, GoodTable, HashTables
<1>2. d \in 1 .. t.global_depth /\ b \in DOMAIN t.buckets
  BY DEF SplitOf, GoodTable, DepthsBound
<1>3. d + 1 <= u.global_depth /\ t.global_depth <= u.global_depth
  BY <1>1, <1>2 DEF SplitOf
<1>4. ASSUME NEW s \in Slots(u)
      PROVE  LET was == s % H!Pow2[t.global_depth]
             IN  /\ s \in Nat /\ was \in Slots(t)
                 /\ t.directory[was] \in DOMAIN t.buckets
                 /\ t.directory[was] # n
                 /\ u.directory[s] = IF t.directory[was] = b /\ H!BitSet(s, d) THEN n
                                     ELSE t.directory[was]
                 /\ u.directory[s] \in {b, n} <=> t.directory[was] = b
                 /\ t.directory[was] # b =>
                       /\ u.directory[s] = t.directory[was]
                       /\ Depth(u, u.directory[s]) = Depth(t, t.directory[was])
                 /\ t.directory[was] = b => Depth(u, u.directory[s]) = d + 1
  <2> DEFINE was == s % H!Pow2[t.global_depth]
             c   == t.directory[was]
  <2>1. s \in Nat
    <3>1. H!Pow2[u.global_depth] \in Nat
      BY <1>1, Bits
    <3> QED
      BY <3>1 DEF Slots
  <2>2. was \in Slots(t)
    BY <1>1, <2>1, Bits DEF Slots
  <2>3. c \in DOMAIN t.buckets
    BY <2>2 DEF GoodTable, DirectoryWhole
  <2>4. n \in Nat /\ DOMAIN t.buckets = 0 .. n - 1 /\ n \notin DOMAIN t.buckets
    BY DEF SplitOf
  <2>5. u.directory[s] = IF c = b /\ H!BitSet(s, d) THEN n ELSE c
    BY DEF SplitOf
  <2>6. b \in 0 .. n /\ c \in 0 .. n /\ n \in 0 .. n
    BY <1>2, <2>3, <2>4
  <2>7. \A i \in 0 .. n : Depth(u, i) = IF i \in {b, n} THEN d + 1 ELSE Depth(t, i)
    BY DEF SplitOf
  <2> HIDE DEF was, c
  <2>8. c # n
    BY <2>3, <2>4
  <2>9. u.directory[s] \in {b, n} <=> c = b
    BY <2>5, <2>8
  <2>10. c # b => u.directory[s] = c /\ Depth(u, u.directory[s]) = Depth(t, c)
    BY <2>5, <2>6, <2>7, <2>8
  <2>11. c = b => Depth(u, u.directory[s]) = d + 1
    BY <2>5, <2>6, <2>7
  <2> QED
    BY <2>1, <2>2, <2>3, <2>5, <2>8, <2>9, <2>10, <2>11 DEF was, c
<1> QED
  BY <1>1, <1>2, <1>3, <1>4

\* After a split the slots of a bucket still agree on its bits
LEMMA SplitAgrees ==
  ASSUME NEW t, GoodTable(t), NEW u, NEW b, NEW n, NEW d, SplitOf(t, u, b, n, d)
  PROVE  DirectoryAgrees(u)
<1> DEFINE P == H!Pow2
           g == t.global_depth
<1>1. SUFFICES ASSUME NEW s \in Slots(u), NEW o \in Slots(u)
               PROVE  LET e == Depth(u, u.directory[s])
                      IN  u.directory[s] = u.directory[o] <=> s % P[e] = o % P[e]
  BY DEF DirectoryAgrees
<1> DEFINE v == s % P[g]
           w == o % P[g]
<1>2. /\ g \in Nat /\ d \in Nat /\ d <= g /\ s \in Nat /\ o \in Nat
      /\ v \in Slots(t) /\ w \in Slots(t) /\ t.directory[v] # n /\ t.directory[w] # n
      /\ u.directory[s] \in {b, n} <=> t.directory[v] = b
      /\ u.directory[o] \in {b, n} <=> t.directory[w] = b
      /\ t.directory[v] # b => /\ u.directory[s] = t.directory[v]
                               /\ Depth(u, u.directory[s]) = Depth(t, t.directory[v])
      /\ t.directory[w] # b => u.directory[o] = t.directory[w]
      /\ t.directory[v] = b => Depth(u, u.directory[s]) = d + 1
  BY SplitSlots
<1>3. /\ u.directory[s] = IF t.directory[v] = b /\ H!BitSet(s, d) THEN n ELSE t.directory[v]
      /\ u.directory[o] = IF t.directory[w] = b /\ H!BitSet(o, d) THEN n ELSE t.directory[w]
  BY SplitSlots
<1>4. LET e == Depth(t, t.directory[v])
      IN  t.directory[v] = t.directory[w] <=> v % P[e] = w % P[e]
  BY <1>2 DEF GoodTable, DirectoryAgrees
<1>5. \A e \in Nat : e <= g => v % P[e] = s % P[e] /\ w % P[e] = o % P[e]
  BY <1>2, BitsOfBits
<1>6. d = Depth(t, b)
  BY DEF SplitOf
<1> HIDE DEF v, w
<1>7. CASE t.directory[v] # b
  <2> DEFINE e == Depth(t, t.directory[v])
  <2>1. e \in Nat /\ e <= g
    <3>1. t.directory[v] \in DOMAIN t.buckets
      BY <1>2 DEF GoodTable, DirectoryWhole
    <3>2. e \in 1 .. g
      BY <3>1 DEF GoodTable, DepthsBound
    <3> QED
      BY <1>2, <3>2
  <2>2. Depth(u, u.directory[s]) = e
    BY <1>2, <1>7
  <2>3. u.directory[s] = u.directory[o] <=> t.directory[v] = t.directory[w]
    BY <1>2, <1>7
  <2> HIDE DEF e
  <2>4. t.directory[v] = t.directory[w] <=> v % P[e] = w % P[e]
    BY <1>4 DEF e
  <2>5. v % P[e] = s % P[e] /\ w % P[e] = o % P[e]
    BY <1>5, <2>1
  <2> QED
    BY <2>2, <2>3, <2>4, <2>5
<1>8. CASE t.directory[v] = b
  <2>1. Depth(u, u.directory[s]) = d + 1
    BY <1>2, <1>8
  <2>2. t.directory[w] = b <=> s % P[d] = o % P[d]
    <3>1. v % P[d] = s % P[d] /\ w % P[d] = o % P[d]
      BY <1>2, <1>5
    <3>2. t.directory[v] = t.directory[w] <=> v % P[d] = w % P[d]
      BY <1>4, <1>6, <1>8
    <3> QED
      BY <1>8, <3>1, <3>2
  <2>3. u.directory[s] = u.directory[o]
          <=> t.directory[w] = b /\ (H!BitSet(s, d) <=> H!BitSet(o, d))
    <3>1. b # n
      BY <1>2, <1>8
    <3> QED
      BY <1>2, <1>3, <1>8, <3>1
  <2>4. /\ s % P[d + 1] \in {s % P[d], (s % P[d]) + P[d]}
        /\ o % P[d + 1] \in {o % P[d], (o % P[d]) + P[d]}
        /\ H!BitSet(s, d) <=> s % P[d + 1] # s % P[d]
        /\ H!BitSet(o, d) <=> o % P[d + 1] # o % P[d]
        /\ P[d] \in Nat \ {0} /\ s % P[d] \in Nat /\ o % P[d] \in Nat
    BY <1>2, Bits
  <2>5. s % P[d + 1] = o % P[d + 1] => s % P[d] = o % P[d]
    <3>1. (s % P[d + 1]) % P[d] = s % P[d] /\ (o % P[d + 1]) % P[d] = o % P[d]
      BY <1>2, BitsOfBits
    <3> QED
      BY <3>1
  <2> DEFINE sd == s % P[d]
             od == o % P[d]
             se == s % P[d + 1]
             oe == o % P[d + 1]
             pd == P[d]
  <2> HIDE DEF sd, od, se, oe, pd
  <2>6. /\ se \in {sd, sd + pd} /\ oe \in {od, od + pd}
        /\ H!BitSet(s, d) <=> se # sd
        /\ H!BitSet(o, d) <=> oe # od
        /\ pd \in Nat \ {0} /\ sd \in Nat /\ od \in Nat /\ (se = oe => sd = od)
    BY <2>4, <2>5 DEF sd, od, se, oe, pd
  <2>7. (sd = od /\ (H!BitSet(s, d) <=> H!BitSet(o, d))) <=> se = oe
    <3>1. (sd = od /\ ((se # sd) <=> (oe # od))) <=> se = oe
      BY <2>6
    <3> QED
      BY <2>6, <3>1, Zenon
  <2>8. u.directory[s] = u.directory[o] <=> se = oe
    BY <2>2, <2>3, <2>7 DEF sd, od
  <2> QED
    BY <2>1, <2>8 DEF se, oe
<1> QED
  BY <1>7, <1>8

\* Both halves of a bucket have a slot
LEMMA SplitReaches ==
  ASSUME NEW t, GoodTable(t), NEW u, NEW b, NEW n, NEW d, SplitOf(t, u, b, n, d)
  PROVE  DirectoryWhole(u)
<1> DEFINE P == H!Pow2
           g == t.global_depth
           h == u.global_depth
<1>1. /\ g \in Nat /\ h \in Nat /\ d \in Nat /\ d <= g /\ d + 1 <= h /\ g <= h /\ 1 <= d
      /\ \A s \in Slots(u) :
           LET was == s % P[g]
           IN  /\ s \in Nat /\ was \in Slots(t)
               /\ t.directory[was] \in DOMAIN t.buckets
               /\ u.directory[s] = IF t.directory[was] = b /\ H!BitSet(s, d) THEN n
                                   ELSE t.directory[was]
  BY SplitSlots
<1>2. /\ DOMAIN u.directory = Slots(u) /\ n \in Nat /\ b \in DOMAIN t.buckets
      /\ DOMAIN t.buckets = 0 .. n - 1 /\ DOMAIN u.buckets = 0 .. n /\ d = Depth(t, b)
  BY DEF SplitOf
<1>3. ASSUME NEW s \in Slots(u) PROVE u.directory[s] \in DOMAIN u.buckets
  <2> DEFINE c == t.directory[s % P[g]]
  <2>1. c \in 0 .. n - 1 /\ u.directory[s] \in {n, c}
    BY <1>1, <1>2
  <2> HIDE DEF c
  <2>2. c \in 0 .. n /\ n \in 0 .. n
    BY <2>1, <1>2
  <2> QED
    BY <2>1, <2>2, <1>2
<1>4. P[g] \in Nat \ {0} /\ P[h] \in Nat \ {0} /\ P[g] <= P[h]
  BY <1>1, Bits, BitsOfBits
<1>5. ASSUME NEW c \in DOMAIN u.buckets, c \notin {b, n}
      PROVE  \E s \in Slots(u) : u.directory[s] = c
  <2>1. c \in DOMAIN t.buckets
    BY <1>2, <1>5
  <2>2. PICK s \in Slots(t) : t.directory[s] = c
    BY <2>1 DEF GoodTable, DirectoryWhole
  <2>3. s \in Nat /\ s < P[g] /\ s \in Slots(u)
    BY <1>4 DEF Slots
  <2>4. s % P[g] = s
    BY <1>1, <2>3, Bits
  <2>5. u.directory[s] = c
    BY <1>1, <1>5, <2>2, <2>3, <2>4
  <2> QED
    BY <2>3, <2>5
<1>6. PICK s \in Slots(t) : t.directory[s] = b
  BY <1>2 DEF GoodTable, DirectoryWhole
<1> DEFINE low  == s % P[d]
           high == low + P[d]
<1>7. /\ s \in Nat /\ low \in Nat /\ low < P[d] /\ P[d] \in Nat \ {0} /\ P[d + 1] = 2 * P[d]
      /\ P[d + 1] <= P[h]
  <2>1. s \in Nat
    BY <1>4 DEF Slots
  <2>2. low \in 0 .. P[d] - 1 /\ low \in Nat /\ P[d] \in Nat \ {0} /\ P[d + 1] = 2 * P[d]
    BY <1>1, <2>1, Bits
  <2>3. P[d + 1] <= P[h]
    BY <1>1, BitsOfBits
  <2> QED
    BY <2>1, <2>2, <2>3
<1> HIDE DEF low
<1>8. /\ high \in Nat /\ high < P[d + 1] /\ low < P[d + 1]
      /\ low \in Slots(u) /\ high \in Slots(u)
  BY <1>4, <1>7 DEF Slots
<1> HIDE DEF high
<1>9. /\ low % P[d] = low /\ low % P[d + 1] = low
      /\ high % P[d] = low /\ high % P[d + 1] = high /\ high # low
  <2>0. d + 1 \in Nat
    BY <1>1
  <2>1. low % P[d] = low /\ low % P[d + 1] = low
    <3>1. low % P[d] = low
      BY <1>1, <1>7, Bits
    <3>2. low % P[d + 1] = low
      BY <2>0, <1>7, <1>8, Bits
    <3> QED
      BY <3>1, <3>2
  <2>2. /\ high % P[d + 1] = high /\ high % P[d] \in 0 .. P[d] - 1
        /\ high % P[d + 1] \in {high % P[d], (high % P[d]) + P[d]}
    <3>1. /\ high % P[d] \in 0 .. P[d] - 1
          /\ high % P[d + 1] \in {high % P[d], (high % P[d]) + P[d]}
      BY <1>1, <1>8, Bits
    <3>2. high % P[d + 1] = high
      BY <2>0, <1>8, Bits
    <3> QED
      BY <3>1, <3>2
  <2> DEFINE r == high % P[d]
  <2>3. high = low + P[d] /\ r \in 0 .. P[d] - 1 /\ high \in {r, r + P[d]}
    BY <2>2 DEF high
  <2> HIDE DEF r
  <2>4. r = low /\ high # low
    BY <1>7, <2>3
  <2> QED
    BY <2>1, <2>2, <2>4 DEF r
<1>10. ~H!BitSet(low, d) /\ H!BitSet(high, d)
  <2>1. H!BitSet(low, d) <=> low % P[d + 1] # low % P[d]
    BY <1>1, <1>7, Bits
  <2>2. H!BitSet(high, d) <=> high % P[d + 1] # high % P[d]
    BY <1>1, <1>8, Bits
  <2> QED
    BY <1>9, <2>1, <2>2
<1>11. ASSUME NEW x \in Slots(u), x % P[d] = low
       PROVE  t.directory[x % P[g]] = b
  <2>1. x \in Nat /\ x % P[g] \in Slots(t)
    BY <1>1
  <2>2. (x % P[g]) % P[d] = x % P[d]
    BY <1>1, <2>1, BitsOfBits
  <2>3. t.directory[s] = t.directory[x % P[g]] <=> s % P[d] = (x % P[g]) % P[d]
    BY <1>2, <1>6, <2>1 DEF GoodTable, DirectoryAgrees
  <2> QED
    BY <1>6, <1>11, <2>2, <2>3 DEF low
<1>12. u.directory[low] = b /\ u.directory[high] = n
  BY <1>1, <1>8, <1>9, <1>10, <1>11
<1>13. \A c \in DOMAIN u.buckets : \E x \in Slots(u) : u.directory[x] = c
  BY <1>5, <1>8, <1>12
<1>14. u.global_depth >= 1
  BY <1>1
<1> QED
  BY <1>2, <1>3, <1>13, <1>14 DEF DirectoryWhole

\* A split moves the keys of the bucket to the halves the directory now gives
\* them, with their records, and no other key
LEMMA SplitKeys ==
  ASSUME NEW t, GoodTable(t), NEW u, NEW b, NEW n, NEW d, SplitOf(t, u, b, n, d)
  PROVE  /\ KeysPlaced(u)
         /\ \A k \in HashKeys :
               /\ H!SearchKey(u, k) = H!SearchKey(t, k)
               /\ H!BucketIndex(t, k) = b => Depth(u, H!BucketIndex(u, k)) = d + 1
<1> DEFINE g == t.global_depth
           h == u.global_depth
<1>1. /\ DOMAIN u.buckets = 0 .. n /\ n \in Nat /\ DOMAIN t.buckets = 0 .. n - 1
      /\ b \in DOMAIN t.buckets /\ u \in HashTables /\ t \in HashTables
      /\ g \in Nat /\ h \in Nat /\ g <= h
  <2>1. g \in Nat /\ h \in Nat /\ g <= h
    BY SplitSlots
  <2> QED
    BY <2>1 DEF SplitOf, GoodTable
<1>2. \A i \in 0 .. n :
          LET home == {k \in Held(t, b) : H!BucketIndex(u, k) = i}
          IN  IF i \in {b, n}
              THEN /\ Held(u, i) = home
                   /\ \A k \in home : u.buckets[i].entries[k] = t.buckets[b].entries[k]
              ELSE /\ Held(u, i) = home \cup Held(t, i)
                   /\ home = {} => u.buckets[i].entries = t.buckets[i].entries
  BY DEF SplitOf
<1>3. DirectoryWhole(u)
  BY SplitReaches
<1>4. ASSUME NEW k \in HashKeys
      PROVE  /\ H!BucketIndex(t, k) \in DOMAIN t.buckets
             /\ H!BucketIndex(u, k) \in DOMAIN u.buckets
             /\ H!BucketIndex(u, k) \in {b, n} <=> H!BucketIndex(t, k) = b
             /\ H!BucketIndex(t, k) # b => H!BucketIndex(u, k) = H!BucketIndex(t, k)
             /\ H!BucketIndex(t, k) = b => Depth(u, H!BucketIndex(u, k)) = d + 1
  <2> DEFINE s == H!DirectoryPosition(u, k)
  <2>1. Hash[k] \in Nat /\ s \in Slots(u) /\ H!BucketIndex(u, k) \in DOMAIN u.buckets
    BY <1>1, <1>3, SlotOfKey
  <2>2. s = Hash[k] % H!Pow2[h] /\ H!DirectoryPosition(t, k) = Hash[k] % H!Pow2[g]
    BY DEF H!DirectoryPosition
  <2>3. s % H!Pow2[g] = H!DirectoryPosition(t, k)
    BY <1>1, <2>1, <2>2, BitsOfBits
  <2> HIDE DEF s
  <2>4. H!BucketIndex(u, k) = u.directory[s]
    BY DEF H!BucketIndex, s
  <2>5. H!BucketIndex(t, k) = t.directory[s % H!Pow2[g]]
    BY <2>3 DEF H!BucketIndex
  <2> QED
    BY <2>1, <2>4, <2>5, SplitSlots
<1>5. ASSUME NEW i \in DOMAIN t.buckets
      PROVE  /\ Held(t, i) \in SUBSET HashKeys /\ IsFiniteSet(Held(t, i))
             /\ Cardinality(Held(t, i)) <= BucketCapacity
             /\ \A k \in Held(t, i) : H!BucketIndex(t, k) = i
  BY <1>1, BucketTyped DEF GoodTable, KeysPlaced
<1>6. ASSUME NEW i \in 0 .. n, i \notin {b, n}
      PROVE  /\ i \in DOMAIN t.buckets /\ Held(u, i) = Held(t, i)
             /\ u.buckets[i].entries = t.buckets[i].entries
  <2>1. i \in DOMAIN t.buckets
    BY <1>1, <1>6
  <2>2. {k \in Held(t, b) : H!BucketIndex(u, k) = i} = {}
    BY <1>1, <1>4, <1>5, <1>6
  <2>3. u.buckets[i].entries = t.buckets[i].entries
    BY <1>2, <1>6, <2>2
  <2> QED
    BY <2>1, <2>3 DEF Held
<1>7. ASSUME NEW i \in DOMAIN u.buckets
      PROVE  /\ \A k \in Held(u, i) : H!BucketIndex(u, k) = i
             /\ IsFiniteSet(Held(u, i)) /\ Cardinality(Held(u, i)) <= BucketCapacity
  <2>1. CASE i \in {b, n}
    <3>1. Held(u, i) = {k \in Held(t, b) : H!BucketIndex(u, k) = i}
      BY <1>1, <1>2, <2>1
    <3>2. Held(u, i) \subseteq Held(t, b)
      BY <3>1
    <3>3. IsFiniteSet(Held(u, i)) /\ Cardinality(Held(u, i)) <= Cardinality(Held(t, b))
      BY <1>1, <1>5, <3>2, FS_Subset
    <3>4. Cardinality(Held(u, i)) \in Nat /\ Cardinality(Held(t, b)) \in Nat /\ BucketCapacity \in Nat
      BY <1>1, <1>5, <3>3, FS_CardinalityType, CapacityAssumption
    <3> QED
      BY <1>1, <1>5, <3>1, <3>3, <3>4
  <2>2. CASE i \notin {b, n}
    BY <1>1, <1>4, <1>5, <1>6, <2>2
  <2> QED
    BY <2>1, <2>2
<1>8. ASSUME NEW k \in HashKeys PROVE H!SearchKey(u, k) = H!SearchKey(t, k)
  <2> DEFINE i == H!BucketIndex(u, k)
             j == H!BucketIndex(t, k)
  <2>1. i \in DOMAIN u.buckets /\ j \in DOMAIN t.buckets
    BY <1>4
  <2>2. /\ H!SearchKey(u, k) = IF k \in Held(u, i) THEN u.buckets[i].entries[k] ELSE <<>>
        /\ H!SearchKey(t, k) = IF k \in Held(t, j) THEN t.buckets[j].entries[k] ELSE <<>>
    BY DEF H!SearchKey, H!BucketForKey, Held
  <2>3. CASE j = b
    <3>1. i \in {b, n} /\ i \in 0 .. n
      BY <1>1, <1>4, <2>1, <2>3
    <3>2. /\ Held(u, i) = {x \in Held(t, b) : H!BucketIndex(u, x) = i}
          /\ \A x \in Held(u, i) : u.buckets[i].entries[x] = t.buckets[b].entries[x]
      BY <1>2, <3>1
    <3>3. k \in Held(u, i) <=> k \in Held(t, b)
      BY <3>2
    <3> HIDE DEF i, j
    <3> QED
      BY <2>2, <2>3, <3>2, <3>3
  <2>4. CASE j # b
    <3>1. i = j /\ i \notin {b, n} /\ i \in 0 .. n
      BY <1>1, <1>4, <2>1, <2>4
    <3>2. Held(u, i) = Held(t, i) /\ u.buckets[i].entries = t.buckets[i].entries
      BY <1>6, <3>1
    <3> HIDE DEF i, j
    <3> QED
      BY <2>2, <3>1, <3>2
  <2> QED
    BY <2>3, <2>4
<1> QED
  BY <1>4, <1>7, <1>8 DEF KeysPlaced

\* Splitting a bucket of a good table makes a good table that finds the same
\* records, where the key's bucket has one bit more
LEMMA SplitGood ==
  ASSUME NEW t, GoodTable(t), NEW key \in HashKeys
  PROVE  LET u == H!SplitBucket(t, key)
         IN  /\ GoodTable(u)
             /\ \A k \in HashKeys : H!SearchKey(u, k) = H!SearchKey(t, k)
             /\ Depth(u, H!BucketIndex(u, key)) = Depth(t, H!BucketIndex(t, key)) + 1
<1> DEFINE u == H!SplitBucket(t, key)
           b == H!BucketIndex(t, key)
           n == H!BucketCount(t)
           d == Depth(t, b)
<1>1. SplitOf(t, u, b, n, d)
  BY SplitIsSplit
<1> HIDE DEF u, b, n, d
<1>2. u \in HashTables
  BY <1>1 DEF SplitOf
<1>3. DirectoryAgrees(u) /\ DirectoryWhole(u)
  BY <1>1, SplitAgrees, SplitReaches
<1>4. /\ KeysPlaced(u)
      /\ \A k \in HashKeys :
               /\ H!SearchKey(u, k) = H!SearchKey(t, k)
               /\ H!BucketIndex(t, k) = b => Depth(u, H!BucketIndex(u, k)) = d + 1
  BY <1>1, SplitKeys
<1>5. DepthsBound(u)
  <2>1. /\ t.global_depth \in Nat /\ u.global_depth \in Nat /\ d \in Nat
        /\ d <= t.global_depth /\ d + 1 <= u.global_depth /\ t.global_depth <= u.global_depth
    BY <1>1, SplitSlots
  <2>2. /\ DOMAIN u.buckets = 0 .. n /\ n \in Nat /\ DOMAIN t.buckets = 0 .. n - 1
        /\ b \in DOMAIN t.buckets /\ d = Depth(t, b)
        /\ u.global_depth = IF d = t.global_depth THEN t.global_depth + 1 ELSE t.global_depth
        /\ \A i \in 0 .. n : Depth(u, i) = IF i \in {b, n} THEN d + 1 ELSE Depth(t, i)
    BY <1>1 DEF SplitOf
  <2>3. ASSUME NEW i \in DOMAIN u.buckets PROVE Depth(u, i) \in 1 .. u.global_depth
    <3>1. CASE i \in {b, n}
      <4>1. Depth(u, i) = d + 1
        BY <2>2, <3>1
      <4> QED
        BY <2>1, <4>1
    <3>2. CASE i \notin {b, n}
      <4>1. Depth(u, i) = Depth(t, i) /\ i \in DOMAIN t.buckets
        BY <2>2, <3>2
      <4>2. Depth(t, i) \in 1 .. t.global_depth
        BY <4>1 DEF GoodTable, DepthsBound
      <4> QED
        BY <2>1, <4>1, <4>2
    <3> QED
      BY <3>1, <3>2
  <2>4. \E i \in DOMAIN u.buckets : Depth(u, i) = u.global_depth
    <3>1. CASE d = t.global_depth
      <4>1. b \in DOMAIN u.buckets
        BY <2>2
      <4> QED
        BY <2>2, <3>1, <4>1
    <3>2. CASE d # t.global_depth
      <4>1. PICK i \in DOMAIN t.buckets : Depth(t, i) = t.global_depth
        BY DEF GoodTable, DepthsBound
      <4>2. i # b /\ i # n /\ i \in DOMAIN u.buckets
        BY <2>2, <3>2, <4>1
      <4> QED
        BY <2>2, <3>2, <4>1, <4>2
    <3> QED
      BY <3>1, <3>2
  <2> QED
    BY <2>3, <2>4 DEF DepthsBound
<1>6. GoodTable(u)
  BY <1>2, <1>3, <1>4, <1>5 DEF GoodTable
<1>7. Depth(u, H!BucketIndex(u, key)) = d + 1
  BY <1>4 DEF b
<1> QED
  BY <1>4, <1>6, <1>7 DEF u, b, d

\* A table stays good when the entries of one bucket change and those are within
\* its capacity and belong there
LEMMA EntriesChanged ==
  ASSUME NEW t, GoodTable(t), NEW b \in DOMAIN t.buckets, NEW e,
         NEW keys \in SUBSET HashKeys, e \in [keys -> Seq(HashRecords)],
         IsFiniteSet(keys), Cardinality(keys) <= BucketCapacity,
         \A k \in keys : H!BucketIndex(t, k) = b,
         NEW u, u.global_depth = t.global_depth, u.directory = t.directory,
         u = [global_depth |-> u.global_depth, directory |-> u.directory, buckets |-> u.buckets],
         u.buckets = [i \in DOMAIN t.buckets |->
                        IF i = b THEN [local_depth |-> Depth(t, b), entries |-> e]
                        ELSE t.buckets[i]]
  PROVE  /\ GoodTable(u)
         /\ \A k \in HashKeys :
              H!SearchKey(u, k) = IF H!BucketIndex(t, k) # b THEN H!SearchKey(t, k)
                                  ELSE IF k \in keys THEN e[k] ELSE <<>>
<1>1. t \in HashTables
  BY DEF GoodTable
<1>2. \A k : H!BucketIndex(u, k) = H!BucketIndex(t, k)
  BY DEF H!BucketIndex, H!DirectoryPosition
<1>3. Slots(u) = Slots(t)
  BY DEF Slots
<1>4. ASSUME NEW i \in DOMAIN t.buckets
      PROVE  /\ Depth(u, i) = Depth(t, i) /\ Held(u, i) = IF i = b THEN keys ELSE Held(t, i)
             /\ u.buckets[i].entries = IF i = b THEN e ELSE t.buckets[i].entries
             /\ u.buckets[i] \in HashBuckets
  <2>1. t.buckets[i] \in HashBuckets /\ Depth(t, i) \in Nat
    BY <1>1, BucketTyped
  <2>2. CASE i = b
    <3> DEFINE d == Depth(t, b)
    <3>1. u.buckets[i] = [local_depth |-> d, entries |-> e] /\ d \in Nat /\ DOMAIN e = keys
      BY <2>1, <2>2
    <3>2. e \in UNION {[set -> Seq(HashRecords)] : set \in SUBSET HashKeys}
      OBVIOUS
    <3>3. u.buckets[i].local_depth = d /\ u.buckets[i].entries = e
      BY <3>1
    <3>4. d = Depth(t, i)
      BY <2>2
    <3> HIDE DEF d
    <3>5. u.buckets[i] \in HashBuckets
      BY <3>1, <3>2 DEF HashBuckets
    <3> QED
      BY <2>2, <3>1, <3>3, <3>4, <3>5 DEF Depth, Held
  <2>3. CASE i # b
    BY <2>1, <2>3 DEF Depth, Held
  <2> QED
    BY <2>2, <2>3
<1>5. DOMAIN u.buckets = DOMAIN t.buckets
  OBVIOUS
<1>6. u \in HashTables
  <2>1. PICK m \in Nat : t.buckets \in [0 .. m -> HashBuckets]
    BY <1>1 DEF HashTables
  <2>2. u.buckets \in [0 .. m -> HashBuckets]
    <3>1. DOMAIN t.buckets = 0 .. m
      BY <2>1
    <3>2. u.buckets = [i \in 0 .. m |-> u.buckets[i]]
      BY <3>1
    <3> QED
      BY <1>4, <3>1, <3>2
  <2>3. u.buckets \in UNION {[0 .. k -> HashBuckets] : k \in Nat}
    BY <2>2
  <2>4. u.global_depth \in Nat /\ u.directory \in UNION {[0 .. k -> Nat] : k \in Nat}
    BY <1>1 DEF HashTables
  <2> QED
    BY <2>3, <2>4 DEF HashTables
<1>7. DirectoryWhole(u)
  BY <1>3, <1>5 DEF GoodTable, DirectoryWhole
<1>8. DirectoryAgrees(u)
  <2>1. \A s \in Slots(t) : u.directory[s] = t.directory[s] /\ t.directory[s] \in DOMAIN t.buckets
    BY DEF GoodTable, DirectoryWhole
  <2>2. \A s \in Slots(t) : Depth(u, u.directory[s]) = Depth(t, t.directory[s])
    BY <1>4, <2>1
  <2> QED
    BY <1>3, <2>1, <2>2 DEF GoodTable, DirectoryAgrees
<1>9. DepthsBound(u)
  BY <1>4, <1>5 DEF GoodTable, DepthsBound
<1>10. KeysPlaced(u)
  BY <1>2, <1>4, <1>5 DEF GoodTable, KeysPlaced
<1>11. ASSUME NEW k \in HashKeys
       PROVE  H!SearchKey(u, k) = IF H!BucketIndex(t, k) # b THEN H!SearchKey(t, k)
                                  ELSE IF k \in keys THEN e[k] ELSE <<>>
  <2> DEFINE i == H!BucketIndex(t, k)
  <2>1. i \in DOMAIN t.buckets
    BY <1>1, SlotOfKey DEF GoodTable
  <2>2. /\ H!SearchKey(u, k) = IF k \in Held(u, i) THEN u.buckets[i].entries[k] ELSE <<>>
        /\ H!SearchKey(t, k) = IF k \in Held(t, i) THEN t.buckets[i].entries[k] ELSE <<>>
    BY <1>2 DEF H!SearchKey, H!BucketForKey, Held
  <2> HIDE DEF i
  <2>3. H!SearchKey(u, k) = IF i # b THEN H!SearchKey(t, k)
                            ELSE IF k \in keys THEN e[k] ELSE <<>>
    BY <1>4, <2>1, <2>2
  <2> QED
    BY <2>3 DEF i
<1> QED
  BY <1>6, <1>7, <1>8, <1>9, <1>10, <1>11 DEF GoodTable

\* A bucket as deep as the hashes are long holds no two keys
LEMMA DeepBucketHasRoom ==
  ASSUME NEW t, GoodTable(t), NEW key \in HashKeys,
         Depth(t, H!BucketIndex(t, key)) >= HashBits
  PROVE  H!HasRoom(t, key)
<1> DEFINE b == H!BucketIndex(t, key)
           d == Depth(t, b)
           P == H!Pow2
<1>1. t \in HashTables /\ b \in DOMAIN t.buckets /\ t.global_depth \in Nat
  BY SlotOfKey DEF GoodTable, HashTables
<1>2. d \in Nat /\ d <= t.global_depth /\ HashBits \in Nat /\ HashBits <= d
  <2>1. d \in 1 .. t.global_depth
    BY <1>1 DEF GoodTable, DepthsBound
  <2> QED
    BY <1>1, <2>1, HashAssumption
<1>3. /\ Held(t, b) \in SUBSET HashKeys /\ \A k \in Held(t, b) : H!BucketIndex(t, k) = b
      /\ IsFiniteSet(Held(t, b))
  BY <1>1, BucketTyped DEF GoodTable, KeysPlaced
<1>4. ASSUME NEW k \in HashKeys PROVE Hash[k] \in Nat /\ Hash[k] < P[d]
  <2>1. Hash[k] \in 0 .. P[HashBits] - 1 /\ P[HashBits] <= P[d]
    BY <1>2, BitsOfBits, HashAssumption DEF HashKeys
  <2>2. P[HashBits] \in Nat /\ P[d] \in Nat
    BY <1>2, Bits
  <2> QED
    BY <2>1, <2>2
<1>5. ASSUME NEW k \in Held(t, b) PROVE k = key
  <2> DEFINE s == H!DirectoryPosition(t, key)
             o == H!DirectoryPosition(t, k)
  <2>1. k \in HashKeys /\ s \in Slots(t) /\ o \in Slots(t)
    BY <1>1, <1>3, SlotOfKey DEF GoodTable
  <2>2. t.directory[s] = b /\ t.directory[o] = b
    BY <1>3 DEF H!BucketIndex
  <2>3. s % P[d] = o % P[d]
    BY <2>1, <2>2 DEF GoodTable, DirectoryAgrees
  <2>4. s = Hash[key] % P[t.global_depth] /\ o = Hash[k] % P[t.global_depth]
    BY DEF H!DirectoryPosition
  <2>5. Hash[key] \in Nat /\ Hash[k] \in Nat
    BY <1>4, <2>1
  <2>6. s % P[d] = Hash[key] % P[d] /\ o % P[d] = Hash[k] % P[d]
    BY <1>1, <1>2, <2>4, <2>5, BitsOfBits
  <2>7. Hash[key] % P[d] = Hash[key] /\ Hash[k] % P[d] = Hash[k]
    <3>1. ASSUME NEW x \in Nat, x < P[d] PROVE x % P[d] = x
      BY <1>2, <3>1, Bits
    <3> QED
      BY <1>4, <2>1, <3>1
  <2>8. Hash[key] = Hash[k]
    BY <2>3, <2>6, <2>7
  <2> QED
    BY <2>1, <2>8, HashAssumption DEF HashKeys
<1>6. CASE key \in Held(t, b)
  BY <1>6 DEF H!HasRoom, H!BucketForKey, Held
<1>7. CASE key \notin Held(t, b)
  <2>1. Held(t, b) = {}
    BY <1>5, <1>7
  <2>2. Cardinality(Held(t, b)) = 0
    BY <2>1, FS_EmptySet
  <2>3. H!Cardinality(Held(t, b)) < BucketCapacity
    BY <2>2, SameOfSets, CapacityAssumption
  <2> QED
    BY <2>3 DEF H!HasRoom, H!BucketForKey, Held
<1> QED
  BY <1>6, <1>7

\* The table the loop of an insert leaves
MadeRoom(t, key) ==
    H!FoldLeft(LAMBDA u, i : IF H!HasRoom(u, key) THEN u ELSE H!SplitBucket(u, key),
               t, [i \in 1 .. HashBits |-> i])

\* The loop ends with room for the key, in a good table that finds what the
\* table before did
LEMMA RoomIsMade ==
  ASSUME NEW t, GoodTable(t), NEW key \in HashKeys
  PROVE  LET u == MadeRoom(t, key)
         IN  /\ GoodTable(u) /\ H!HasRoom(u, key)
             /\ \A k \in HashKeys : H!SearchKey(u, k) = H!SearchKey(t, k)
<1> DEFINE n       == HashBits
           V       == {v \in HashTables : GoodTable(v)}
           Then(v) == IF H!HasRoom(v, key) THEN v ELSE H!SplitBucket(v, key)
           step    == [i \in 1 .. n |-> [v \in V |-> Then(v)]]
           D       == SUBSET (1 .. n)
<1>1. n \in Nat \ {0}
  BY HashAssumption
<1>2. ASSUME NEW v, GoodTable(v)
      PROVE  /\ GoodTable(Then(v))
             /\ \A k \in HashKeys : H!SearchKey(Then(v), k) = H!SearchKey(v, k)
             /\ H!HasRoom(v, key) => H!HasRoom(Then(v), key)
             /\ ~H!HasRoom(v, key) => Depth(Then(v), H!BucketIndex(Then(v), key))
                                        = Depth(v, H!BucketIndex(v, key)) + 1
  <2>1. CASE H!HasRoom(v, key)
    BY <1>2, <2>1
  <2>2. CASE ~H!HasRoom(v, key)
    BY <1>2, <2>2, SplitGood
  <2> QED
    BY <2>1, <2>2
<1>3. \A v \in V : Then(v) \in V
  BY <1>2 DEF GoodTable
<1>4. t \in V
  BY DEF GoodTable
<1> HIDE DEF V, Then
<1>5. step \in [1 .. n -> [V -> V]]
  BY <1>3
<1>6. PICK g : IsFoldLeft(g, n, V, t, step)
  <2> HIDE DEF n, step
  <2>1. n \in Nat
    BY <1>1
  <2> QED
    BY <2>1, <1>4, <1>5, FoldLeftRecursion
<1> DEFINE Body(f) == [s \in D |-> IF s = {} THEN t ELSE Then(f[s \ {H!Max(s)}])]
           iter == CHOOSE f : f = Body(f)
<1>7. g = Body(g)
  <2>1. \A s \in D : g[s] = IF s = {} THEN t ELSE Then(g[s \ {Max(s)}])
    BY <1>6 DEF IsFoldLeft
  <2>2. \A s \in D : g[s] = IF s = {} THEN t ELSE Then(g[s \ {H!Max(s)}])
    BY <2>1, SameOfSets
  <2>3. g = [s \in D |-> g[s]]
    BY <1>6 DEF IsFoldLeft
  <2> HIDE DEF D
  <2> QED
    BY <2>2, <2>3
<1>8. iter = Body(iter)
  BY <1>7
<1>9. MadeRoom(t, key) = iter[1 .. n]
  <2> DEFINE seq == [i \in 1 .. n |-> i]
  <2>1. MadeRoom(t, key) =
          (CHOOSE f : f = [s \in SUBSET DOMAIN seq |->
                             IF s = {} THEN t ELSE Then(f[s \ {H!Max(s)}])])[DOMAIN seq]
    BY DEF MadeRoom, H!FoldLeft, H!MapThenFoldSet, Then
  <2>2. DOMAIN seq = 1 .. n
    OBVIOUS
  <2> HIDE DEF seq
  <2> QED
    BY <2>1, <2>2
<1> HIDE DEF iter
<1> DEFINE w == [i \in 0 .. n |-> iter[1 .. i]]
<1>10. w[0] = t /\ \A i \in 1 .. n : w[i] = Then(w[i - 1])
  <2>1. w[0] = t
    <3>1. 1 .. 0 = {} /\ {} \in D
      OBVIOUS
    <3> QED
      BY <1>1, <1>8, <3>1
  <2>2. ASSUME NEW i \in 1 .. n PROVE w[i] = Then(w[i - 1])
    <3>1. /\ 1 .. i \in D /\ 1 .. i # {} /\ H!Max(1 .. i) = i /\ (1 .. i) \ {i} = 1 .. i - 1
          /\ i \in 0 .. n /\ i - 1 \in 0 .. n
      BY <1>1, MaxOfPlaces, SameOfSets
    <3>2. iter[1 .. i] = Then(iter[(1 .. i) \ {H!Max(1 .. i)}])
      <4> HIDE DEF D
      <4> QED
        BY <1>8, <3>1
    <3> QED
      BY <3>1, <3>2
  <2> QED
    BY <2>1, <2>2
<1>11. MadeRoom(t, key) = w[n]
  BY <1>1, <1>9
<1> HIDE DEF w
<1> DEFINE Fine(v, i) ==
             /\ GoodTable(v) /\ \A k \in HashKeys : H!SearchKey(v, k) = H!SearchKey(t, k)
             /\ H!HasRoom(v, key) \/ Depth(v, H!BucketIndex(v, key)) >= i
           T == {i \in Nat : i <= n => Fine(w[i], i)}
<1>12. ASSUME NEW v, GoodTable(v) PROVE Depth(v, H!BucketIndex(v, key)) \in Nat
  BY <1>12, SlotOfKey, BucketTyped DEF GoodTable
<1>13. 0 \in T
  <2>1. Depth(t, H!BucketIndex(t, key)) >= 0
    BY <1>12
  <2> QED
    BY <1>10, <2>1
<1>14. ASSUME NEW i \in Nat, i \in T PROVE i + 1 \in T
  <2>1. SUFFICES ASSUME i + 1 <= n PROVE Fine(w[i + 1], i + 1)
    OBVIOUS
  <2>2. Fine(w[i], i)
    BY <1>1, <1>14, <2>1
  <2>3. w[i + 1] = Then(w[i])
    <3>1. i + 1 \in 1 .. n /\ (i + 1) - 1 = i
      BY <1>1, <2>1
    <3> QED
      BY <1>10, <3>1
  <2>4. CASE H!HasRoom(w[i], key)
    BY <1>2, <2>2, <2>3, <2>4
  <2>5. CASE ~H!HasRoom(w[i], key)
    <3>1. Depth(w[i + 1], H!BucketIndex(w[i + 1], key)) >= i + 1
      <4>1. /\ Depth(w[i], H!BucketIndex(w[i], key)) \in Nat
            /\ Depth(w[i], H!BucketIndex(w[i], key)) >= i
        BY <1>12, <2>2, <2>5
      <4>2. Depth(w[i + 1], H!BucketIndex(w[i + 1], key))
              = Depth(w[i], H!BucketIndex(w[i], key)) + 1
        BY <1>2, <2>2, <2>3, <2>5
      <4> QED
        BY <4>1, <4>2
    <3> QED
      BY <1>2, <2>2, <2>3, <3>1
  <2> QED
    BY <2>4, <2>5
<1> HIDE DEF T
<1>15. n \in T
  BY <1>1, <1>13, <1>14, InductionOnSets
<1>16. Fine(w[n], n)
  BY <1>1, <1>15 DEF T
<1>17. H!HasRoom(w[n], key)
  BY <1>16, DeepBucketHasRoom
<1> QED
  BY <1>11, <1>16, <1>17

\* A new row is found after the rows of its key, and the other keys' rows as
\* before
LEMMA InsertGood ==
  ASSUME NEW t, GoodTable(t), NEW key \in HashKeys, NEW r \in HashRecords
  PROVE  LET u == H!InsertRecord(t, key, r)
         IN  /\ GoodTable(u)
             /\ \A k \in HashKeys :
                  H!SearchKey(u, k) = IF k = key THEN Append(H!SearchKey(t, key), r)
                                      ELSE H!SearchKey(t, k)
<1> DEFINE m    == MadeRoom(t, key)
           b    == H!BucketIndex(m, key)
           old  == m.buckets[b].entries
           more == Append(H!SearchKey(m, key), r)
           e    == H!SetItem(old, key, more)
           keys == DOMAIN old \cup {key}
           u    == H!InsertRecord(t, key, r)
<1>1. GoodTable(m) /\ H!HasRoom(m, key) /\ \A k \in HashKeys : H!SearchKey(m, k) = H!SearchKey(t, k)
  BY RoomIsMade
<1>2. u = [m EXCEPT !.buckets = H!SetItem(@, b, [m.buckets[b] EXCEPT !.entries = e])]
  BY DEF H!InsertRecord, MadeRoom, H!BucketForKey
<1> HIDE DEF u, m
<1>3. m \in HashTables /\ b \in DOMAIN m.buckets
  BY <1>1, SlotOfKey DEF GoodTable
<1>4. /\ m.buckets[b] \in HashBuckets /\ Held(m, b) \in SUBSET HashKeys
      /\ old \in [Held(m, b) -> Seq(HashRecords)]
  BY <1>3, BucketTyped
<1>5. /\ \A k \in Held(m, b) : H!BucketIndex(m, k) = b
      /\ IsFiniteSet(Held(m, b)) /\ Cardinality(Held(m, b)) <= BucketCapacity
  BY <1>1, <1>3 DEF GoodTable, KeysPlaced
<1>6. keys = Held(m, b) \cup {key} /\ keys \in SUBSET HashKeys /\ IsFiniteSet(keys)
      /\ \A k \in keys : H!BucketIndex(m, k) = b
  BY <1>4, <1>5, FS_AddElement DEF Held
<1>7. Cardinality(keys) <= BucketCapacity
  <2>1. CASE key \in Held(m, b)
    <3>1. keys = Held(m, b)
      BY <1>6, <2>1
    <3> HIDE DEF keys
    <3> QED
      BY <1>5, <3>1
  <2>2. CASE key \notin Held(m, b)
    <3>1. H!Cardinality(Held(m, b)) < BucketCapacity
      BY <1>1, <2>2 DEF H!HasRoom, H!BucketForKey, Held
    <3>2. Cardinality(Held(m, b) \cup {key}) = Cardinality(Held(m, b)) + 1
      BY <1>5, <2>2, FS_AddElement
    <3>3. Cardinality(Held(m, b)) < BucketCapacity
      BY <3>1, SameOfSets
    <3>4. Cardinality(Held(m, b)) \in Nat /\ BucketCapacity \in Nat
      BY <1>5, FS_CardinalityType, CapacityAssumption
    <3>5. Cardinality(keys) = Cardinality(Held(m, b)) + 1
      BY <1>6, <3>2
    <3> QED
      BY <3>3, <3>4, <3>5
  <2> QED
    BY <2>1, <2>2
<1>8. H!SearchKey(m, key) = IF key \in Held(m, b) THEN old[key] ELSE <<>>
  BY DEF H!SearchKey, H!BucketForKey, Held
<1>9. more \in Seq(HashRecords)
  <2>1. H!SearchKey(m, key) \in Seq(HashRecords)
    BY <1>4, <1>8
  <2> QED
    BY <2>1
<1>10. e = [k \in keys |-> IF k = key THEN more ELSE old[k]]
  BY DEF H!SetItem
<1> HIDE DEF more
<1>11. e \in [keys -> Seq(HashRecords)]
  BY <1>4, <1>6, <1>9, <1>10
<1> HIDE DEF e, keys
<1>12. [m.buckets[b] EXCEPT !.entries = e] = [local_depth |-> Depth(m, b), entries |-> e]
  BY <1>4 DEF HashBuckets, Depth
<1>13. m = [global_depth |-> m.global_depth, directory |-> m.directory, buckets |-> m.buckets]
  BY <1>3 DEF HashTables
<1> DEFINE full == [local_depth |-> Depth(m, b), entries |-> e]
           bks  == [i \in DOMAIN m.buckets |-> IF i = b THEN full ELSE m.buckets[i]]
<1>14. H!SetItem(m.buckets, b, full) = bks
  <2>1. DOMAIN m.buckets \cup {b} = DOMAIN m.buckets
    BY <1>3
  <2> HIDE DEF full
  <2> QED
    BY <2>1 DEF H!SetItem
<1>15. u = [m EXCEPT !.buckets = bks]
  <2>1. u = [m EXCEPT !.buckets = H!SetItem(@, b, full)]
    BY <1>2, <1>12
  <2> HIDE DEF full, bks
  <2> QED
    BY <1>14, <2>1
<1>16. /\ u.global_depth = m.global_depth /\ u.directory = m.directory /\ u.buckets = bks
       /\ u = [global_depth |-> u.global_depth, directory |-> u.directory, buckets |-> u.buckets]
  <2> HIDE DEF bks
  <2> QED
    BY <1>13, <1>15
<1>17. /\ GoodTable(u)
       /\ \A k \in HashKeys :
            H!SearchKey(u, k) = IF H!BucketIndex(m, k) # b THEN H!SearchKey(m, k)
                                ELSE IF k \in keys THEN e[k] ELSE <<>>
  <2> HIDE DEF b
  <2> QED
    BY <1>1, <1>3, <1>6, <1>7, <1>11, <1>16, EntriesChanged
<1>18. ASSUME NEW k \in HashKeys
       PROVE  H!SearchKey(u, k) = IF k = key THEN Append(H!SearchKey(t, key), r)
                                  ELSE H!SearchKey(t, k)
  <2>1. H!SearchKey(m, k) = H!SearchKey(t, k) /\ H!SearchKey(m, key) = H!SearchKey(t, key)
    BY <1>1
  <2>2. CASE k = key
    <3>1. H!SearchKey(u, k) = e[key] /\ e[key] = more
      BY <1>6, <1>10, <1>17, <2>2
    <3> QED
      BY <2>1, <2>2, <3>1 DEF more
  <2>3. CASE k # key
    <3>1. CASE H!BucketIndex(m, k) # b
      BY <1>17, <2>1, <2>3, <3>1
    <3>2. CASE H!BucketIndex(m, k) = b
      <4>1. H!SearchKey(m, k) = IF k \in Held(m, b) THEN old[k] ELSE <<>>
        BY <3>2 DEF H!SearchKey, H!BucketForKey, Held
      <4>2. H!SearchKey(u, k) = IF k \in keys THEN e[k] ELSE <<>>
        BY <1>17, <3>2
      <4>3. k \in keys <=> k \in Held(m, b)
        BY <1>6, <2>3
      <4>4. k \in keys => e[k] = old[k]
        BY <1>10, <2>3
      <4> QED
        BY <2>1, <2>3, <4>1, <4>2, <4>3, <4>4
    <3> QED
      BY <3>1, <3>2
  <2> QED
    BY <2>2, <2>3
<1> QED
  BY <1>17, <1>18 DEF u

\* A delete takes out the rows of its key and no other
LEMMA DeleteGood ==
  ASSUME NEW t, GoodTable(t), NEW key \in HashKeys
  PROVE  LET u == H!Delete(t, key)
         IN  /\ GoodTable(u)
             /\ \A k \in HashKeys :
                  H!SearchKey(u, k) = IF k = key THEN <<>> ELSE H!SearchKey(t, k)
<1> DEFINE b    == H!BucketIndex(t, key)
           old  == t.buckets[b].entries
           keys == DOMAIN old \ {key}
           e    == [k \in keys |-> old[k]]
           full == [local_depth |-> Depth(t, b), entries |-> e]
           bks  == [i \in DOMAIN t.buckets |-> IF i = b THEN full ELSE t.buckets[i]]
           u    == H!Delete(t, key)
<1>1. t \in HashTables /\ b \in DOMAIN t.buckets
  BY SlotOfKey DEF GoodTable
<1>2. /\ t.buckets[b] \in HashBuckets /\ Held(t, b) \in SUBSET HashKeys
      /\ old \in [Held(t, b) -> Seq(HashRecords)]
  BY <1>1, BucketTyped
<1>3. /\ \A k \in Held(t, b) : H!BucketIndex(t, k) = b
      /\ IsFiniteSet(Held(t, b)) /\ Cardinality(Held(t, b)) <= BucketCapacity
  BY <1>1 DEF GoodTable, KeysPlaced
<1>4. keys = Held(t, b) \ {key}
  BY DEF Held
<1>5. keys \in SUBSET HashKeys /\ \A k \in keys : H!BucketIndex(t, k) = b
  BY <1>2, <1>3, <1>4
<1>6. IsFiniteSet(keys) /\ Cardinality(keys) <= BucketCapacity
  <2>1. keys \subseteq Held(t, b)
    BY <1>4
  <2> HIDE DEF keys
  <2>2. IsFiniteSet(keys) /\ Cardinality(keys) <= Cardinality(Held(t, b))
    BY <1>3, <2>1, FS_Subset
  <2>3. Cardinality(keys) \in Nat /\ Cardinality(Held(t, b)) \in Nat /\ BucketCapacity \in Nat
    BY <1>3, <2>2, FS_CardinalityType, CapacityAssumption
  <2> QED
    BY <1>3, <2>2, <2>3
<1>7. e \in [keys -> Seq(HashRecords)]
  BY <1>2, <1>4
<1>8. u = [t EXCEPT !.buckets = [t.buckets EXCEPT ![b] = [t.buckets[b] EXCEPT !.entries = e]]]
  BY DEF H!Delete
<1> HIDE DEF e, u, keys
<1>9. [t.buckets[b] EXCEPT !.entries = e] = full
  BY <1>2 DEF HashBuckets, Depth
<1>10. [t.buckets EXCEPT ![b] = [t.buckets[b] EXCEPT !.entries = e]] = bks
  <2>1. PICK m \in Nat : t.buckets \in [0 .. m -> HashBuckets]
    BY <1>1 DEF HashTables
  <2> HIDE DEF full
  <2>3. [t.buckets EXCEPT ![b] = full] = bks
    BY <2>1
  <2> QED
    BY <1>9, <2>3
<1>11. u = [t EXCEPT !.buckets = bks]
  <2> HIDE DEF bks
  <2> QED
    BY <1>8, <1>10
<1>12. /\ u.global_depth = t.global_depth /\ u.directory = t.directory /\ u.buckets = bks
       /\ u = [global_depth |-> u.global_depth, directory |-> u.directory, buckets |-> u.buckets]
  <2>1. t = [global_depth |-> t.global_depth, directory |-> t.directory, buckets |-> t.buckets]
    BY <1>1 DEF HashTables
  <2> HIDE DEF bks
  <2> QED
    BY <1>11, <2>1
<1>13. /\ GoodTable(u)
       /\ \A k \in HashKeys :
            H!SearchKey(u, k) = IF H!BucketIndex(t, k) # b THEN H!SearchKey(t, k)
                                ELSE IF k \in keys THEN e[k] ELSE <<>>
  <2> HIDE DEF b
  <2> QED
    BY <1>1, <1>5, <1>6, <1>7, <1>12, EntriesChanged
<1>14. ASSUME NEW k \in HashKeys
       PROVE  H!SearchKey(u, k) = IF k = key THEN <<>> ELSE H!SearchKey(t, k)
  <2>1. CASE k = key
    <3>1. k \notin keys /\ H!BucketIndex(t, k) = b
      BY <1>4, <2>1
    <3> QED
      BY <1>13, <2>1, <3>1
  <2>2. CASE k # key
    <3>1. CASE H!BucketIndex(t, k) # b
      BY <1>13, <2>2, <3>1
    <3>2. CASE H!BucketIndex(t, k) = b
      <4>1. H!SearchKey(t, k) = IF k \in Held(t, b) THEN old[k] ELSE <<>>
        BY <3>2 DEF H!SearchKey, H!BucketForKey, Held
      <4>2. H!SearchKey(u, k) = IF k \in keys THEN e[k] ELSE <<>>
        BY <1>13, <3>2
      <4>3. k \in keys <=> k \in Held(t, b)
        BY <1>4, <2>2
      <4>4. k \in keys => e[k] = old[k]
        BY DEF e
      <4> QED
        BY <2>2, <4>1, <4>2, <4>3, <4>4
    <3> QED
      BY <3>1, <3>2
  <2> QED
    BY <2>1, <2>2
<1> QED
  BY <1>13, <1>14 DEF u

\* The table build starts from
LEMMA EmptyGood ==
  GoodTable(H!Empty) /\ \A k \in HashKeys : H!SearchKey(H!Empty, k) = <<>>
<1> DEFINE t == H!Empty
           bk == H!Bucket(1)
<1>1. /\ t.global_depth = 1 /\ t.directory = [s \in 0 .. 1 |-> s]
      /\ t.buckets = [b \in 0 .. 1 |-> bk]
      /\ t = [global_depth |-> 1, directory |-> [s \in 0 .. 1 |-> s],
              buckets |-> [b \in 0 .. 1 |-> bk]]
  BY DEF H!Empty
<1>2. bk.local_depth = 1 /\ bk.entries = H!NoEntries /\ DOMAIN H!NoEntries = {}
  BY DEF H!Bucket, H!NoEntries
<1>3. bk \in HashBuckets
  <2>1. H!NoEntries \in [{} -> Seq(HashRecords)]
    BY DEF H!NoEntries
  <2>2. H!NoEntries \in UNION {[keys -> Seq(HashRecords)] : keys \in SUBSET HashKeys}
    BY <2>1
  <2> QED
    BY <2>2 DEF H!Bucket, HashBuckets
<1> HIDE DEF t, bk
<1>4. t \in HashTables
  <2>1. [s \in 0 .. 1 |-> s] \in [0 .. 1 -> Nat] /\ [b \in 0 .. 1 |-> bk] \in [0 .. 1 -> HashBuckets]
    BY <1>3
  <2>2. /\ [s \in 0 .. 1 |-> s] \in UNION {[0 .. n -> Nat] : n \in Nat}
        /\ [b \in 0 .. 1 |-> bk] \in UNION {[0 .. n -> HashBuckets] : n \in Nat}
    BY <2>1
  <2> QED
    BY <1>1, <2>2 DEF HashTables
<1>5. H!Pow2[1] = 2
  <2>1. H!Pow2[0] = 1 /\ H!Pow2[0 + 1] = 2 * H!Pow2[0]
    BY PowersOfTwo DEF Doubling
  <2> QED
    BY <2>1
<1>6. Slots(t) = 0 .. 1
  BY <1>1, <1>5 DEF Slots
<1>7. \A b \in 0 .. 1 : Depth(t, b) = 1 /\ Held(t, b) = {} /\ t.directory[b] = b
  BY <1>1, <1>2 DEF Depth, Held
<1>8. DirectoryWhole(t)
  BY <1>1, <1>6 DEF DirectoryWhole
<1>9. DirectoryAgrees(t)
  <2>1. \A s \in 0 .. 1 : s % 2 = s
    OBVIOUS
  <2>2. SUFFICES ASSUME NEW s \in 0 .. 1, NEW o \in 0 .. 1
                 PROVE  s = o <=> s % H!Pow2[1] = o % H!Pow2[1]
    BY <1>6, <1>7 DEF DirectoryAgrees
  <2> QED
    BY <1>5, <2>1
<1>10. DepthsBound(t)
  BY <1>1, <1>7 DEF DepthsBound
<1>11. KeysPlaced(t)
  <2>1. IsFiniteSet({}) /\ Cardinality({}) = 0
    BY FS_EmptySet
  <2> QED
    BY <1>1, <1>7, <2>1, CapacityAssumption DEF KeysPlaced
<1>12. GoodTable(t)
  BY <1>4, <1>8, <1>9, <1>10, <1>11 DEF GoodTable
<1>13. \A k \in HashKeys : H!SearchKey(t, k) = <<>>
  <2>1. \A k \in HashKeys : H!BucketIndex(t, k) \in 0 .. 1
    BY <1>1, <1>4, <1>8, SlotOfKey
  <2> QED
    BY <1>7, <2>1 DEF H!SearchKey, H!BucketForKey, Held
<1> QED
  BY <1>12, <1>13 DEF t

RowsOf(S, k) == {r \in S : r.key = k}

\* A search for a key finds the rows of the key, each once
Finds(t, S) == \A k \in HashKeys : Lists(H!SearchKey(t, k), RowsOf(S, k))

\* An insert adds its row to what the table finds
LEMMA InsertFinds ==
  ASSUME NEW t, GoodTable(t), NEW S, Finds(t, S), NEW r \in HashRecords, r \notin S
  PROVE  LET u == H!InsertRecord(t, r.key, r)
         IN  GoodTable(u) /\ Finds(u, S \cup {r})
<1> DEFINE u == H!InsertRecord(t, r.key, r)
<1>1. r.key \in HashKeys
  BY DEF HashRecords
<1>2. /\ GoodTable(u)
      /\ \A k \in HashKeys :
           H!SearchKey(u, k) = IF k = r.key THEN Append(H!SearchKey(t, r.key), r)
                               ELSE H!SearchKey(t, k)
  BY <1>1, InsertGood
<1> HIDE DEF u
<1>3. ASSUME NEW k \in HashKeys
      PROVE  Lists(H!SearchKey(u, k), RowsOf(S \cup {r}, k))
  <2>1. CASE k = r.key
    <3>1. RowsOf(S \cup {r}, k) = RowsOf(S, k) \cup {r} /\ r \notin RowsOf(S, k)
      BY <2>1 DEF RowsOf
    <3>2. Lists(H!SearchKey(t, k), RowsOf(S, k))
      BY DEF Finds
    <3>3. Lists(Append(H!SearchKey(t, k), r), RowsOf(S, k) \cup {r})
      BY <3>1, <3>2, ListsOneMore
    <3> QED
      BY <1>2, <2>1, <3>1, <3>3
  <2>2. CASE k # r.key
    <3>1. RowsOf(S \cup {r}, k) = RowsOf(S, k)
      BY <2>2 DEF RowsOf
    <3>2. H!SearchKey(u, k) = H!SearchKey(t, k)
      BY <1>2, <2>2
    <3> QED
      BY <3>1, <3>2 DEF Finds
  <2> QED
    BY <2>1, <2>2
<1> QED
  BY <1>2, <1>3 DEF u, Finds

\* A delete takes the rows of its key away
LEMMA DeleteFinds ==
  ASSUME NEW t, GoodTable(t), NEW S, Finds(t, S), NEW key \in HashKeys
  PROVE  LET u == H!Delete(t, key)
         IN  GoodTable(u) /\ Finds(u, {r \in S : r.key # key})
<1> DEFINE u == H!Delete(t, key)
           left == {r \in S : r.key # key}
<1>1. /\ GoodTable(u)
      /\ \A k \in HashKeys :
           H!SearchKey(u, k) = IF k = key THEN <<>> ELSE H!SearchKey(t, k)
  BY DeleteGood
<1> HIDE DEF u
<1>2. ASSUME NEW k \in HashKeys
      PROVE  Lists(H!SearchKey(u, k), RowsOf(left, k))
  <2>1. CASE k = key
    <3>1. RowsOf(left, k) = {}
      BY <2>1 DEF RowsOf
    <3> QED
      BY <1>1, <2>1, <3>1, ListsNothing
  <2>2. CASE k # key
    <3>1. RowsOf(left, k) = RowsOf(S, k)
      BY <2>2 DEF RowsOf
    <3>2. H!SearchKey(u, k) = H!SearchKey(t, k)
      BY <1>1, <2>2
    <3> QED
      BY <3>1, <3>2 DEF Finds
  <2> QED
    BY <2>1, <2>2
<1> QED
  BY <1>1, <1>2 DEF u, Finds

\* build leaves a good table that finds what it was given
LEMMA BuildGood ==
  ASSUME NEW n \in Nat, NEW seq \in [1 .. n -> HashRecords],
         \A i, j \in 1 .. n : seq[i] = seq[j] => i = j
  PROVE  GoodTable(H!Build(seq)) /\ Finds(H!Build(seq), {seq[i] : i \in 1 .. n})
<1> DEFINE V          == {v \in HashTables : GoodTable(v)}
           Then(v, i) == H!InsertRecord(v, seq[i].key, seq[i])
           step       == [i \in 1 .. n |-> [v \in V |-> Then(v, i)]]
           D          == SUBSET (1 .. n)
           t          == H!Empty
<1>1. ASSUME NEW v \in V, NEW i \in 1 .. n PROVE Then(v, i) \in V
  <2>1. seq[i] \in HashRecords /\ seq[i].key \in HashKeys
    BY DEF HashRecords
  <2>2. GoodTable(Then(v, i))
    BY <2>1, InsertGood
  <2> QED
    BY <2>2 DEF GoodTable
<1>2. t \in V
  BY EmptyGood DEF GoodTable
<1> HIDE DEF V, Then, t
<1>3. step \in [1 .. n -> [V -> V]]
  BY <1>1
<1>4. PICK g : IsFoldLeft(g, n, V, t, step)
  <2> HIDE DEF step
  <2> QED
    BY <1>2, <1>3, FoldLeftRecursion
<1> DEFINE Body(f) == [s \in D |-> IF s = {} THEN t ELSE Then(f[s \ {H!Max(s)}], H!Max(s))]
           iter == CHOOSE f : f = Body(f)
<1>5. g = Body(g)
  <2>1. \A s \in D : g[s] = IF s = {} THEN t ELSE step[Max(s)][g[s \ {Max(s)}]]
    BY <1>4 DEF IsFoldLeft
  <2>2. g = [s \in D |-> g[s]] /\ \A s \in D : g[s] \in V
    BY <1>4 DEF IsFoldLeft
  <2>3. \A s \in D : s # {} => Max(s) \in 1 .. n /\ s \ {Max(s)} \in D
    BY MaxOfPlaces
  <2>4. \A s \in D : g[s] = IF s = {} THEN t ELSE Then(g[s \ {Max(s)}], Max(s))
    BY <2>1, <2>2, <2>3
  <2>5. \A s \in D : g[s] = IF s = {} THEN t ELSE Then(g[s \ {H!Max(s)}], H!Max(s))
    BY <2>4, SameOfSets
  <2> HIDE DEF D
  <2> QED
    BY <2>2, <2>5
<1>6. iter = Body(iter)
  BY <1>5
<1>7. H!Build(seq) = iter[1 .. n]
  <2>1. H!Build(seq) =
          (CHOOSE f : f = [s \in SUBSET DOMAIN seq |->
                             IF s = {} THEN t ELSE Then(f[s \ {H!Max(s)}], H!Max(s))])[DOMAIN seq]
    BY DEF H!Build, H!FoldLeft, H!MapThenFoldSet, Then, t
  <2>2. DOMAIN seq = 1 .. n
    OBVIOUS
  <2> QED
    BY <2>1, <2>2
<1> HIDE DEF iter
<1> DEFINE w == [i \in 0 .. n |-> iter[1 .. i]]
<1>8. w[0] = t /\ \A i \in 1 .. n : w[i] = Then(w[i - 1], i)
  <2>1. w[0] = t
    <3>1. 1 .. 0 = {} /\ {} \in D
      OBVIOUS
    <3> QED
      BY <1>6, <3>1
  <2>2. ASSUME NEW i \in 1 .. n PROVE w[i] = Then(w[i - 1], i)
    <3>1. /\ 1 .. i \in D /\ 1 .. i # {} /\ H!Max(1 .. i) = i /\ (1 .. i) \ {i} = 1 .. i - 1
          /\ i \in 0 .. n /\ i - 1 \in 0 .. n
      BY MaxOfPlaces, SameOfSets
    <3>2. iter[1 .. i] = Then(iter[(1 .. i) \ {H!Max(1 .. i)}], H!Max(1 .. i))
      <4> HIDE DEF D
      <4> QED
        BY <1>6, <3>1
    <3> QED
      BY <3>1, <3>2
  <2> QED
    BY <2>1, <2>2
<1>9. H!Build(seq) = w[n]
  BY <1>7
<1> HIDE DEF w
<1> DEFINE Given(i) == {seq[j] : j \in 1 .. i}
           Fine(v, i) == GoodTable(v) /\ Finds(v, Given(i))
           T == {i \in Nat : i <= n => Fine(w[i], i)}
<1>10. 0 \in T
  <2>1. \A k : RowsOf(Given(0), k) = {}
    BY DEF RowsOf
  <2>2. Fine(t, 0)
    BY <2>1, EmptyGood, ListsNothing DEF Finds, t
  <2> HIDE DEF Fine
  <2> QED
    BY <1>8, <2>2
<1>11. ASSUME NEW i \in Nat, i \in T PROVE i + 1 \in T
  <2>1. SUFFICES ASSUME i + 1 <= n PROVE Fine(w[i + 1], i + 1)
    OBVIOUS
  <2> DEFINE r == seq[i + 1]
  <2>2. Fine(w[i], i) /\ i + 1 \in 1 .. n /\ (i + 1) - 1 = i
    BY <1>11, <2>1
  <2>3. w[i + 1] = H!InsertRecord(w[i], r.key, r)
    BY <1>8, <2>2 DEF Then
  <2>4. Given(i + 1) = Given(i) \cup {r}
    <3>1. \A j \in 1 .. i + 1 : j \in 1 .. i \/ j = i + 1
      OBVIOUS
    <3>2. 1 .. i \subseteq 1 .. i + 1 /\ i + 1 \in 1 .. i + 1
      OBVIOUS
    <3> QED
      BY <3>1, <3>2
  <2>5. r \notin Given(i)
    <3>1. \A j \in 1 .. i : j \in 1 .. n /\ j # i + 1
      BY <2>1
    <3> QED
      BY <2>2, <3>1
  <2>6. r \in HashRecords
    BY <2>2
  <2> HIDE DEF r, Given
  <2> QED
    BY <2>2, <2>3, <2>4, <2>5, <2>6, InsertFinds
<1> HIDE DEF T
<1>12. n \in T
  BY <1>10, <1>11, InductionOnSets
<1> QED
  BY <1>9, <1>12 DEF T

-----------------------------------------------------------------------------
(* The rows of the caller *)

\* The records of a key are numbered from 1, without a gap
RowsClosed == rows \subseteq Record /\ \A r \in rows : \A n \in 1 .. r.id : [r EXCEPT !.id = n] \in rows

\* A value of the column has a natural number of rows at most
LEMMA KeysOfKinds ==
  ASSUME kind \in Kinds, NEW k \in Key
  PROVE  MaxCopies[kind][k] \in Nat
<1>1. CASE kind \in Ordered
  BY <1>1, KeysAssumption DEF Key
<1>2. CASE kind = "rtree"
  BY <1>2, PointsAssumption DEF Key
<1>3. CASE kind = "inverted"
  <2>1. TextOf[k] \in Seq(Seq(Seq(Nat))) /\ Len(TextOf[k]) = MaxCopies[kind][k]
    BY <1>3, TextAssumption DEF Key
  <2> QED
    BY <2>1, LenProperties
<1>4. CASE kind = "knn"
  <2>1. VectorOf[k] \in Seq(Seq(Nat)) /\ Len(VectorOf[k]) = MaxCopies[kind][k]
    BY <1>4, VectorAssumption DEF Key
  <2> QED
    BY <2>1, LenProperties
<1> QED
  BY <1>1, <1>2, <1>3, <1>4 DEF Kinds

\* The rows of a key are those numbered up to how many there are
LEMMA RowsOfKey ==
  ASSUME RowsClosed, kind \in Kinds, NEW k \in Key
  PROVE  /\ Copies(k) \in 0 .. MaxCopies[kind][k]
         /\ RowsOf(rows, k) = {[key |-> k, id |-> n] : n \in 1 .. Copies(k)}
         /\ IsFiniteSet(RowsOf(rows, k))
<1> DEFINE m   == MaxCopies[kind][k]
           ids == {n \in 1 .. m : [key |-> k, id |-> n] \in rows}
           S   == RowsOf(rows, k)
<1>1. m \in Nat
  BY KeysOfKinds
<1>2. \A r \in Record : r = [key |-> r.key, id |-> r.id] /\ r.key \in Key /\ r.id \in 1 .. MaxCopies[kind][r.key]
  BY DEF Record
<1>3. S = {[key |-> k, id |-> n] : n \in ids}
  <2>1. ASSUME NEW r \in S PROVE r \in {[key |-> k, id |-> n] : n \in ids}
    <3>1. r \in Record /\ r \in rows /\ r.key = k
      BY DEF RowsClosed, RowsOf
    <3>2. r.id \in ids /\ r = [key |-> k, id |-> r.id]
      BY <1>2, <3>1
    <3> QED
      BY <3>2
  <2>2. ASSUME NEW n \in ids PROVE [key |-> k, id |-> n] \in S
    BY DEF RowsOf
  <2> HIDE DEF ids, S
  <2> QED
    BY <2>1, <2>2
<1>4. \A n \in ids : 1 .. n \subseteq ids
  <2>1. SUFFICES ASSUME NEW n \in ids, NEW i \in 1 .. n PROVE i \in ids
    OBVIOUS
  <2>2. i \in 1 .. m
    BY <1>1
  <2>3. [[key |-> k, id |-> n] EXCEPT !.id = i] \in rows
    BY DEF RowsClosed
  <2> QED
    BY <2>2, <2>3
<1>5. ids \in SUBSET (1 .. m)
  OBVIOUS
<1> HIDE DEF ids
<1>6. IsFiniteSet(ids) /\ Cardinality(ids) \in Nat /\ ids = 1 .. Cardinality(ids)
  <2> HIDE DEF m
  <2> QED
    BY <1>1, <1>4, <1>5, InitialNumbers
<1>7. IsFiniteSet(S) /\ Cardinality(S) = Cardinality(ids)
  <2> DEFINE f == [n \in ids |-> [key |-> k, id |-> n]]
  <2>1. f \in Bijection(ids, S)
    <3>1. f \in [ids -> S] /\ \A a, b \in ids : f[a] = f[b] => a = b
      <4>1. \A a, b : [key |-> k, id |-> a] = [key |-> k, id |-> b] => a = b
        <5>1. ASSUME NEW a, NEW b, [key |-> k, id |-> a] = [key |-> k, id |-> b]
              PROVE  a = b
          <6>1. [key |-> k, id |-> a].id = [key |-> k, id |-> b].id
            BY <5>1
          <6> QED
            BY <6>1
        <5> QED
          BY <5>1
      <4>2. \A n \in ids : [key |-> k, id |-> n] \in S
        BY <1>3
      <4> HIDE DEF S
      <4> QED
        BY <4>1, <4>2
    <3>2. \A s \in S : \E n \in ids : f[n] = s
      BY <1>3
    <3> QED
      BY <3>1, <3>2 DEF Bijection, Injection, Surjection, IsInjective
  <2>2. ExistsBijection(ids, S)
    BY <2>1 DEF ExistsBijection
  <2> HIDE DEF S
  <2> QED
    BY <1>6, <2>2, FS_Bijection
<1>8. Copies(k) = Cardinality(ids)
  BY <1>7 DEF Copies, RowsOf
<1>9. Cardinality(ids) <= m
  <2>1. CASE Cardinality(ids) = 0
    BY <1>1, <2>1
  <2>2. CASE Cardinality(ids) # 0
    <3>1. Cardinality(ids) \in ids
      BY <1>6, <2>2
    <3>2. Cardinality(ids) \in 1 .. m
      BY <1>5, <3>1
    <3> HIDE DEF m
    <3> QED
      BY <1>1, <3>2
  <2> QED
    BY <2>1, <2>2
<1>10. Cardinality(ids) \in 0 .. m
  BY <1>1, <1>6, <1>9
<1> QED
  BY <1>3, <1>6, <1>7, <1>8, <1>10

\* The column has finitely many values
LEMMA FiniteRows ==
  ASSUME kind \in Ordered \cup {"rtree"}, rows \subseteq Record
  PROVE  IsFiniteSet(rows)
<1> DEFINE f == [k \in Key |-> {[key |-> k, id |-> n] : n \in 1 .. MaxCopies[kind][k]}]
           F == {f[k] : k \in Key}
<1>1. kind \in Kinds /\ IsFiniteSet(Key)
  BY KeysAssumption, PointsAssumption DEF Key, Kinds, Ordered
<1>2. IsFiniteSet(F)
  <2>1. f \in Surjection(Key, F)
    BY DEF Surjection
  <2> QED
    BY <1>1, <2>1, FS_Surjection
<1>3. ASSUME NEW k \in Key PROVE IsFiniteSet(f[k])
  <2> DEFINE m == MaxCopies[kind][k]
             g == [n \in 1 .. m |-> [key |-> k, id |-> n]]
  <2>1. IsFiniteSet(1 .. m)
    BY <1>1, KeysOfKinds, FS_Interval
  <2>2. f[k] = {g[n] : n \in 1 .. m}
    OBVIOUS
  <2>3. g \in Surjection(1 .. m, {g[n] : n \in 1 .. m})
    BY DEF Surjection
  <2> HIDE DEF g, f, m
  <2> QED
    BY <2>1, <2>2, <2>3, FS_Surjection
<1>4. \A T \in F : IsFiniteSet(T)
  BY <1>3
<1>5. IsFiniteSet(UNION F)
  <2> HIDE DEF F
  <2> QED
    BY <1>2, <1>4, FS_UNION
<1>6. Record \subseteq UNION F
  <2>1. ASSUME NEW k \in Key, NEW r \in [key : {k}, id : 1 .. MaxCopies[kind][k]]
        PROVE  r \in f[k]
    OBVIOUS
  <2>2. \A k \in Key : f[k] \in F
    OBVIOUS
  <2> HIDE DEF f, F
  <2> QED
    BY <2>1, <2>2 DEF Record
<1> QED
  BY <1>5, <1>6, FS_Subset

\* Stored lists the rows
LEMMA StoredLists ==
  ASSUME kind \in Ordered \cup {"rtree"}, rows \subseteq Record
  PROVE  Lists(Stored, rows)
<1>1. Stored = Appended(rows)
  BY DEF Stored, Appended
<1> QED
  BY <1>1, FiniteRows, AppendedLists

\* Every kind of index is given the rows of a key in the same way
RowsInv == kind \in Kinds /\ RowsClosed

\* The rows are closed at first
LEMMA RowsInit == Init => RowsInv
BY DEF Init, RowsInv, RowsClosed

\* An insert gives a new row, of the next number
LEMMA NewRow ==
  ASSUME RowsInv, NEW k \in Key, InsertRow(k)
  PROVE  LET r == [key |-> k, id |-> Copies(k) + 1]
         IN  /\ r \in Record /\ r \notin rows /\ rows' = rows \cup {r}
             /\ RowsInv' /\ Copies(k) \in Nat
<1> DEFINE r == [key |-> k, id |-> Copies(k) + 1]
<1>1. /\ Copies(k) \in 0 .. MaxCopies[kind][k] /\ MaxCopies[kind][k] \in Nat
      /\ RowsOf(rows, k) = {[key |-> k, id |-> n] : n \in 1 .. Copies(k)}
  BY RowsOfKey, KeysOfKinds DEF RowsInv
<1>2. Copies(k) < MaxCopies[kind][k] /\ rows' = rows \cup {r} /\ kind' = kind
  BY DEF InsertRow
<1>3. Copies(k) \in Nat /\ Copies(k) + 1 \in 1 .. MaxCopies[kind][k]
  BY <1>1, <1>2
<1>4. r \in Record
  BY <1>3 DEF Record
<1>5. r \notin rows
  <2>1. SUFFICES ASSUME r \in RowsOf(rows, k) PROVE FALSE
    BY DEF RowsOf
  <2>2. PICK n \in 1 .. Copies(k) : r = [key |-> k, id |-> n]
    BY <1>1, <2>1
  <2>3. r.id = n /\ r.id = Copies(k) + 1
    BY <2>2
  <2> HIDE DEF r
  <2> QED
    BY <1>3, <2>3
<1>6. Record' = Record
  BY <1>2 DEF Record, Key
<1>7. ASSUME NEW s \in rows', NEW n \in 1 .. s.id PROVE [s EXCEPT !.id = n] \in rows'
  <2>1. CASE s \in rows
    BY <1>2, <2>1 DEF RowsInv, RowsClosed
  <2>2. CASE s = r
    <3>1. [s EXCEPT !.id = n] = [key |-> k, id |-> n]
      BY <2>2
    <3>2. n \in 1 .. Copies(k) \/ n = Copies(k) + 1
      BY <1>3, <2>2
    <3>3. CASE n \in 1 .. Copies(k)
      <4>1. [key |-> k, id |-> n] \in RowsOf(rows, k)
        BY <1>1, <3>3
      <4> QED
        BY <1>2, <3>1, <4>1 DEF RowsOf
    <3>4. CASE n = Copies(k) + 1
      BY <1>2, <3>1, <3>4
    <3> QED
      BY <3>2, <3>3, <3>4
  <2> QED
    BY <1>2, <2>1, <2>2
<1>8. RowsInv'
  BY <1>2, <1>4, <1>6, <1>7 DEF RowsInv, RowsClosed
<1> QED
  BY <1>2, <1>3, <1>4, <1>5, <1>8

\* A delete leaves the numbers of the other keys without a gap
LEMMA RowsGone ==
  ASSUME RowsInv, NEW k \in Key, DeleteKey(k)
  PROVE  RowsInv' /\ rows' = {r \in rows : r.key # k}
<1>1. rows' = {r \in rows : r.key # k} /\ kind' = kind
  BY DEF DeleteKey
<1>2. Record' = Record
  BY <1>1 DEF Record, Key
<1>3. ASSUME NEW s \in rows', NEW n \in 1 .. s.id PROVE [s EXCEPT !.id = n] \in rows'
  <2>1. s \in rows /\ s.key # k /\ s \in Record
    BY <1>1 DEF RowsInv, RowsClosed
  <2>2. [s EXCEPT !.id = n] \in rows
    BY <2>1 DEF RowsInv, RowsClosed
  <2>3. [s EXCEPT !.id = n].key = s.key
    BY <2>1 DEF Record
  <2> QED
    BY <1>1, <2>1, <2>2, <2>3
<1> QED
  BY <1>1, <1>2, <1>3 DEF RowsInv, RowsClosed

\* Every step keeps the rows closed
LEMMA RowsNext == RowsInv /\ [Next]_vars => RowsInv'
<1> SUFFICES ASSUME RowsInv, [Next]_vars PROVE RowsInv'
  OBVIOUS
<1>1. ASSUME NEW k \in Key, InsertRow(k) PROVE RowsInv'
  BY <1>1, NewRow
<1>2. ASSUME NEW k \in Key, DeleteKey(k) PROVE RowsInv'
  BY <1>2, RowsGone
<1>3. CASE kind' = kind /\ rows' = rows
  BY <1>3 DEF RowsInv, RowsClosed, Record, Key
<1> QED
  BY <1>1, <1>2, <1>3 DEF Next, Reload, SearchVectors, vars

-----------------------------------------------------------------------------
HashInv == kind = "hash" => GoodTable(index) /\ Finds(index, rows)

\* The rows of a column under a hash
LEMMA RecordOfHash ==
  ASSUME kind = "hash"
  PROVE  Key = HashKeys /\ Record \subseteq HashRecords
<1>1. Key = HashKeys
  BY DEF Key, HashKeys
<1>2. ASSUME NEW k \in Key, NEW r \in [key : {k}, id : 1 .. MaxCopies[kind][k]]
      PROVE  r \in HashRecords
  <2>1. MaxCopies[kind][k] \in Nat
    BY KeysOfKinds DEF Kinds, Ordered
  <2>2. r.id \in Nat \ {0} /\ r.key \in HashKeys /\ r = [key |-> r.key, id |-> r.id]
    BY <1>1, <2>1
  <2> QED
    BY <2>2 DEF HashRecords
<1> QED
  BY <1>1, <1>2 DEF Record

\* build gives a good table
LEMMA HashInit == Init => HashInv
<1> SUFFICES ASSUME Init, kind = "hash" PROVE GoodTable(index) /\ Finds(index, rows)
  BY DEF HashInv
<1>1. index = H!Build(Stored) /\ rows \subseteq Record
  BY DEF Init
<1>2. Lists(Stored, rows)
  BY <1>1, StoredLists DEF Ordered
<1> DEFINE n == Len(Stored)
<1>3. n \in Nat /\ DOMAIN Stored = 1 .. n /\ Stored \in [1 .. n -> HashRecords]
  <2>1. Stored \in Seq(rows) /\ rows \subseteq HashRecords
    BY <1>1, <1>2, RecordOfHash DEF Lists
  <2>2. n \in Nat /\ DOMAIN Stored = 1 .. n /\ Stored \in [1 .. n -> rows]
    BY <2>1, LenProperties
  <2> HIDE DEF n
  <2> QED
    BY <2>1, <2>2
<1>4. Stored \in [1 .. n -> HashRecords] /\ \A i, j \in 1 .. n : Stored[i] = Stored[j] => i = j
  BY <1>2, <1>3 DEF Lists
<1>5. {Stored[i] : i \in 1 .. n} = rows
  BY <1>2, <1>3 DEF Lists, ToSet
<1> HIDE DEF n
<1> QED
  BY <1>1, <1>3, <1>4, <1>5, BuildGood

\* Every step keeps the table good
LEMMA HashNext == RowsInv /\ HashInv /\ [Next]_vars => HashInv'
<1> SUFFICES ASSUME RowsInv, HashInv, [Next]_vars, kind' = "hash"
             PROVE  GoodTable(index') /\ Finds(index', rows')
  BY DEF HashInv, GoodTable, Finds, DirectoryWhole, DirectoryAgrees, DepthsBound, KeysPlaced
<1>1. kind = "hash"
  BY DEF Next, InsertRow, DeleteKey, Reload, SearchVectors, vars
<1>2. GoodTable(index) /\ Finds(index, rows)
  BY <1>1 DEF HashInv
<1>3. ASSUME NEW k \in Key, InsertRow(k) PROVE GoodTable(index') /\ Finds(index', rows')
  <2> DEFINE r == [key |-> k, id |-> Copies(k) + 1]
  <2>1. r \in Record /\ r \notin rows /\ rows' = rows \cup {r}
    BY <1>3, NewRow
  <2>2. index' = H!InsertRecord(index, r.key, r) /\ r \in HashRecords
    BY <1>1, <1>3, <2>1, RecordOfHash DEF InsertRow
  <2> HIDE DEF r
  <2> QED
    BY <1>2, <2>1, <2>2, InsertFinds
<1>4. ASSUME NEW k \in Key, DeleteKey(k) PROVE GoodTable(index') /\ Finds(index', rows')
  <2>1. index' = H!Delete(index, k) /\ rows' = {r \in rows : r.key # k} /\ k \in HashKeys
    BY <1>1, <1>4, RecordOfHash DEF DeleteKey
  <2> QED
    BY <1>2, <2>1, DeleteFinds
<1>5. CASE UNCHANGED vars
  BY <1>2, <1>5 DEF vars
<1>6. ~Reload /\ ~SearchVectors
  BY <1>1 DEF Reload, SearchVectors
<1> QED
  BY <1>3, <1>4, <1>5, <1>6 DEF Next

\* A good table is consistent
LEMMA GoodIsConsistent ==
  ASSUME kind = "hash", GoodTable(index)
  PROVE  DirectoryConsistent
<1> DEFINE t == index
           depths == {t.buckets[b].local_depth : b \in DOMAIN t.buckets}
<1>1. t \in HashTables /\ DirectoryWhole(t) /\ DirectoryAgrees(t) /\ DepthsBound(t) /\ KeysPlaced(t)
  BY DEF GoodTable
<1>2. \A s, o \in DOMAIN t.directory :
         LET depth == t.buckets[t.directory[s]].local_depth
         IN  t.directory[s] = t.directory[o] <=> s % H!Pow2[depth] = o % H!Pow2[depth]
  BY <1>1 DEF DirectoryWhole, DirectoryAgrees, Depth
<1>3. t.global_depth = Max(depths)
  <2>1. t.global_depth \in Nat
    BY <1>1 DEF HashTables
  <2>2. t.global_depth \in depths /\ \A d \in depths : d \in Nat /\ t.global_depth >= d
    BY <1>1, <2>1 DEF DepthsBound, Depth
  <2> HIDE DEF depths
  <2>3. ASSUME NEW x \in depths, \A d \in depths : x >= d PROVE x = t.global_depth
    <3>1. x \in Nat /\ t.global_depth >= x /\ x >= t.global_depth
      BY <2>2, <2>3
    <3> QED
      BY <2>1, <3>1
  <2> QED
    BY <2>2, <2>3 DEF Max
<1>4. H!UniqueBuckets(t) = DOMAIN t.buckets
  <2>1. H!UniqueBuckets(t) = {t.directory[s] : s \in DOMAIN t.directory}
    BY DEF H!UniqueBuckets, H!Range
  <2> QED
    BY <1>1, <2>1 DEF DirectoryWhole
<1>5. ASSUME NEW b \in DOMAIN t.buckets
      PROVE  LET held == DOMAIN t.buckets[b].entries
             IN  Cardinality(held) <= BucketCapacity /\ \A k \in held : H!BucketIndex(t, k) = b
  BY <1>1 DEF KeysPlaced, Held
<1> QED
  BY <1>2, <1>3, <1>4, <1>5 DEF DirectoryConsistent

\* A table that finds its rows answers equality searches
LEMMA FindsIsAnswers ==
  ASSUME kind = "hash", Finds(index, rows)
  PROVE  EqualityAnswers
<1>1. ASSUME NEW k \in Key PROVE Exactly(SearchKey(k), {r \in rows : r.key = k})
  <2>1. SearchKey(k) = H!SearchKey(index, k) /\ k \in HashKeys
    BY RecordOfHash DEF SearchKey
  <2>2. Lists(H!SearchKey(index, k), RowsOf(rows, k))
    BY <2>1 DEF Finds
  <2> QED
    BY <2>1, <2>2 DEF Lists, RowsOf, Exactly
<1> QED
  BY <1>1 DEF EqualityAnswers

\* A good table is well typed
LEMMA GoodIsTyped ==
  ASSUME kind = "hash", RowsInv, GoodTable(index)
  PROVE  TypeOK
<1>1. DOMAIN index.directory = 0 .. H!Pow2[index.global_depth] - 1
  BY DEF GoodTable, DirectoryWhole, Slots
<1>2. H!UniqueBuckets(index) \subseteq DOMAIN index.buckets
  <2>1. H!UniqueBuckets(index) = {index.directory[s] : s \in DOMAIN index.directory}
    BY DEF H!UniqueBuckets, H!Range
  <2> QED
    BY <2>1 DEF GoodTable, DirectoryWhole
<1> QED
  BY <1>1, <1>2 DEF TypeOK, RowsInv, RowsClosed

\* The hash answers an equality search with the rows of the key, whatever
\* splits, doublings and deletes came before
THEOREM HashEquality == Spec => [](kind = "hash" => EqualityAnswers)
<1>1. Init => RowsInv /\ HashInv
  BY RowsInit, HashInit
<1>2. RowsInv /\ HashInv /\ [Next]_vars => (RowsInv /\ HashInv)'
  BY RowsNext, HashNext
<1>3. RowsInv /\ HashInv => (kind = "hash" => EqualityAnswers)
  BY FindsIsAnswers DEF HashInv
<1> QED
  BY <1>1, <1>2, <1>3, PTL DEF Spec

\* The directory and the buckets' depths always agree, buckets stay within
\* capacity and keys in the bucket their digest leads to
THEOREM DirectoryAlways == Spec => []DirectoryConsistent
<1>1. Init => RowsInv /\ HashInv
  BY RowsInit, HashInit
<1>2. RowsInv /\ HashInv /\ [Next]_vars => (RowsInv /\ HashInv)'
  BY RowsNext, HashNext
<1>3. RowsInv /\ HashInv => DirectoryConsistent
  BY GoodIsConsistent DEF HashInv, DirectoryConsistent
<1> QED
  BY <1>1, <1>2, <1>3, PTL DEF Spec

\* The lists of indices/ports.py, as the module of the hash has them
LEMMA SameOfLists ==
  ASSUME NEW x, NEW y
  PROVE  H!Sorted(x) = Sorted(x) /\ H!Joined(x) = Joined(x) /\ H!Selected(x, y) = Selected(x, y)
<1>1. H!Selected(x, y) = Selected(x, y)
  BY DEF H!Selected, Selected, H!FoldLeft, FoldLeft, H!MapThenFoldSet, MapThenFoldSet, H!Max, Max
<1>2. H!Joined(x) = Joined(x)
  BY DEF H!Joined, Joined, H!FoldSet, FoldSet, H!MapThenFoldSet, MapThenFoldSet
<1>3. H!Sorted(x) = Sorted(x)
  BY DEF H!Sorted, Sorted, H!FoldLeft, FoldLeft, H!MapThenFoldSet, MapThenFoldSet, H!Max, Max,
         H!InsertSorted, InsertSorted, H!Insert, Insert, H!InsertAt, InsertAt,
         H!BisectRight, BisectRight, H!KeysOf, KeysOf, H!Cardinality, Cardinality
<1> QED
  BY <1>1, <1>2, <1>3

\* The filter, as the module of the hash has it
LEMMA SameOfFilter == ASSUME NEW p, NEW x PROVE H!Filter(p, x) = Filter(p, x)
<1>1. H!Sorted(H!Selected(x, {r \in ToSet(x) : ~TooLow(p, r.key) /\ ~TooHigh(p, r.key)}))
        = Sorted(Selected(x, {r \in ToSet(x) : ~TooLow(p, r.key) /\ ~TooHigh(p, r.key)}))
  BY SameOfLists
<1> QED
  BY <1>1 DEF H!Filter, Filter, H!TooLow, TooLow, H!TooHigh, TooHigh, H!TypeError, TypeError,
         H!Answer, Answer, H!ToSet, ToSet

\* The filter answers a range with two bounds
LEMMA FilterAnswers ==
  ASSUME kind \in Ordered, rows \subseteq Record, NEW records,
         NEW low \in Key, NEW high \in Key, NEW includeLow, NEW includeHigh,
         NEW S, Lists(records, S), S \subseteq rows,
         {r \in rows : /\ ~TooLow(RangePredicate(low, high, includeLow, includeHigh), r.key)
                       /\ ~TooHigh(RangePredicate(low, high, includeLow, includeHigh), r.key)}
           \subseteq S
  PROVE  LET p      == RangePredicate(low, high, includeLow, includeHigh)
             answer == Filter(p, records)
         IN  /\ ~answer.raised
             /\ Exactly(answer.records, {r \in rows : ~TooLow(p, r.key) /\ ~TooHigh(p, r.key)})
             /\ InKeyOrder(answer.records)
<1> DEFINE p      == RangePredicate(low, high, includeLow, includeHigh)
           wanted == {r \in ToSet(records) : ~TooLow(p, r.key) /\ ~TooHigh(p, r.key)}
           found  == {r \in rows : ~TooLow(p, r.key) /\ ~TooHigh(p, r.key)}
           sorted == Sorted(Selected(records, wanted))
<1>1. /\ Key \subseteq Int /\ None \notin Key
      /\ \A r \in rows : r.key \in Key
  BY KeysAssumption DEF Key, Record
<1>2. p.low = low /\ p.high = high
  BY DEF RangePredicate
<1>3. Filter(p, records) = Answer(sorted)
  BY <1>1, <1>2 DEF Filter
<1>4. found = S \cap wanted
  <2>1. ToSet(records) = S
    BY DEF Lists
  <2> QED
    BY <2>1
<1>5. \A r \in found : r.key \in Int
  BY <1>1
<1> HIDE DEF wanted, found
<1>6. Lists(Selected(records, wanted), found)
  BY <1>4, SelectedLists
<1>7. Lists(sorted, found) /\ InKeyOrder(sorted)
  BY <1>5, <1>6, SortedLists
<1>8. ~Answer(sorted).raised /\ Answer(sorted).records = sorted
  BY DEF Answer
<1> HIDE DEF sorted, p
<1>9. Exactly(sorted, found)
  BY <1>7 DEF Lists, Exactly
<1>10. /\ ~Filter(p, records).raised /\ Exactly(Filter(p, records).records, found)
       /\ InKeyOrder(Filter(p, records).records)
  BY <1>3, <1>7, <1>8, <1>9
<1> QED
  BY <1>10 DEF p, found

\* The buckets together hold every row once
LEMMA HashScan ==
  ASSUME NEW t, GoodTable(t), NEW S \in SUBSET HashRecords, Finds(t, S)
  PROVE  Lists(H!AllRecords(t), S)
<1> DEFINE U    == DOMAIN t.buckets
           of   == [k \in HashKeys |-> RowsOf(S, k)]
           part == [b \in U |-> AllOf(Held(t, b), of)]
           dict == [b \in U |-> Joined(t.buckets[b].entries)]
<1>1. t \in HashTables
  BY DEF GoodTable
<1>2. IsFiniteSet(U)
  <2>1. PICK m \in Nat : U = 0 .. m
    BY <1>1 DEF HashTables
  <2> QED
    BY <2>1, FS_Interval
<1>3. \A k \in HashKeys : of[k] \subseteq S /\ \A r \in of[k] : r.key = k
  BY DEF RowsOf
<1>4. ASSUME NEW b \in U
      PROVE  /\ Held(t, b) \in SUBSET HashKeys /\ IsFiniteSet(Held(t, b))
             /\ t.buckets[b].entries \in [Held(t, b) -> Seq(HashRecords)]
             /\ \A k \in Held(t, b) : H!BucketIndex(t, k) = b
  BY <1>1, BucketTyped DEF GoodTable, KeysPlaced
<1>5. ASSUME NEW b \in U PROVE Lists(dict[b], part[b])
  <2> DEFINE e == t.buckets[b].entries
             h == Held(t, b)
  <2>1. ASSUME NEW k \in h PROVE Lists(e[k], of[k])
    <3>1. H!BucketIndex(t, k) = b /\ k \in HashKeys
      BY <1>4
    <3>2. H!SearchKey(t, k) = e[k]
      BY <3>1 DEF H!SearchKey, H!BucketForKey, Held
    <3> QED
      BY <3>1, <3>2 DEF Finds
  <2>2. \A k, l \in h : k # l => of[k] \cap of[l] = {}
    <3>1. \A k \in h : k \in HashKeys
      BY <1>4
    <3> QED
      BY <1>3, <3>1
  <2>3. h \in SUBSET HashKeys /\ IsFiniteSet(h) /\ e \in [h -> Seq(HashRecords)]
    BY <1>4
  <2> HIDE DEF e, h, of
  <2>4. Parts(h, e, of)
    BY <2>1, <2>2 DEF Parts
  <2>5. Lists(Joined(e), AllOf(h, of))
    BY <2>3, <2>4, JoinedLists
  <2> QED
    BY <2>5 DEF e, h
<1>6. ASSUME NEW b \in U, NEW c \in U, b # c PROVE part[b] \cap part[c] = {}
  <2>1. SUFFICES ASSUME NEW r \in part[b], r \in part[c] PROVE FALSE
    OBVIOUS
  <2>2. PICK k \in Held(t, b) : r \in of[k]
    BY DEF AllOf
  <2>3. PICK l \in Held(t, c) : r \in of[l]
    BY <2>1 DEF AllOf
  <2>4. k \in HashKeys /\ l \in HashKeys
    BY <1>4
  <2>5. k = l
    BY <1>3, <2>2, <2>3, <2>4
  <2> QED
    BY <1>4, <1>6, <2>5
<1>7. \A b \in U : part[b] \subseteq S
  <2>1. SUFFICES ASSUME NEW b \in U, NEW r \in part[b] PROVE r \in S
    OBVIOUS
  <2>2. PICK k \in Held(t, b) : r \in of[k]
    BY DEF AllOf
  <2> QED
    BY <1>3, <1>4, <2>2
<1>8. AllOf(U, part) = S
  <2>1. ASSUME NEW r \in S PROVE \E b \in U : r \in part[b]
    <3> DEFINE k == r.key
               b == H!BucketIndex(t, k)
    <3>1. k \in HashKeys /\ r \in of[k]
      BY DEF HashRecords, RowsOf
    <3>2. b \in U
      BY <1>1, <3>1, SlotOfKey DEF GoodTable
    <3>3. k \in Held(t, b)
      <4>1. Lists(H!SearchKey(t, k), of[k])
        BY <3>1 DEF Finds
      <4>2. H!SearchKey(t, k) # <<>>
        <5>1. ToSet(<<>>) = {}
          BY DEF ToSet
        <5>2. ToSet(H!SearchKey(t, k)) = of[k]
          BY <4>1 DEF Lists
        <5> QED
          BY <3>1, <5>1, <5>2
      <4> QED
        BY <4>2 DEF H!SearchKey, H!BucketForKey, Held
    <3> HIDE DEF b, of
    <3>4. r \in part[b]
      BY <3>1, <3>2, <3>3 DEF AllOf
    <3> QED
      BY <3>2, <3>4
  <2> HIDE DEF part
  <2> QED
    BY <1>7, <2>1 DEF AllOf
<1>9. dict \in [U -> Seq(HashRecords)]
  <2>1. ASSUME NEW b \in U PROVE dict[b] \in Seq(HashRecords)
    <3>1. dict[b] \in Seq(part[b]) /\ part[b] \subseteq HashRecords
      BY <1>5, <1>7 DEF Lists
    <3> HIDE DEF dict, part
    <3> QED
      BY <3>1, SeqMonotonic
  <2> QED
    BY <2>1
<1>10. H!AllRecords(t) = Joined(dict)
  <2>1. H!UniqueBuckets(t) = U
    <3>1. H!UniqueBuckets(t) = {t.directory[s] : s \in DOMAIN t.directory}
      BY DEF H!UniqueBuckets, H!Range
    <3> QED
      BY <3>1 DEF GoodTable, DirectoryWhole
  <2>2. H!AllRecords(t) = H!Joined([b \in U |-> H!Joined(t.buckets[b].entries)])
    BY <2>1 DEF H!AllRecords
  <2>3. [b \in U |-> H!Joined(t.buckets[b].entries)] = dict
    BY SameOfLists
  <2> HIDE DEF dict
  <2> QED
    BY <2>2, <2>3, SameOfLists
<1> HIDE DEF dict, part, U
<1>11. Parts(U, dict, part)
  BY <1>5, <1>6 DEF Parts
<1>12. Lists(Joined(dict), AllOf(U, part))
  BY <1>2, <1>9, <1>11, JoinedLists
<1> QED
  BY <1>8, <1>10, <1>12

\* A table that finds its rows answers ranges and scans
LEMMA HashRanges ==
  ASSUME kind = "hash", RowsInv, GoodTable(index), Finds(index, rows)
  PROVE  RangeAnswers
<1>1. rows \subseteq Record /\ Record \subseteq HashRecords /\ kind \in Ordered
  BY RecordOfHash DEF RowsInv, RowsClosed, Ordered
<1>2. Lists(H!AllRecords(index), rows)
  BY <1>1, HashScan
<1>3. \A r \in rows : r.key \in Int
  BY <1>1, KeysAssumption DEF HashRecords, HashKeys
<1>4. Lists(SearchAll, rows) /\ InKeyOrder(SearchAll)
  <2>1. SearchAll = Sorted(H!AllRecords(index))
    BY SameOfLists DEF SearchAll, H!SearchAll
  <2> QED
    BY <1>2, <1>3, <2>1, SortedLists
<1>5. ASSUME NEW low \in Key, NEW high \in Key, NEW includeLow \in BOOLEAN, NEW includeHigh \in BOOLEAN
      PROVE  LET p      == RangePredicate(low, high, includeLow, includeHigh)
                 answer == SearchRange(p)
             IN  /\ ~answer.raised
                 /\ Exactly(answer.records, {r \in rows : ~TooLow(p, r.key) /\ ~TooHigh(p, r.key)})
                 /\ InKeyOrder(answer.records)
  <2> DEFINE p == RangePredicate(low, high, includeLow, includeHigh)
  <2>1. SearchRange(p) = Filter(p, H!AllRecords(index))
    BY SameOfFilter DEF SearchRange, H!SearchRange
  <2>2. {r \in rows : ~TooLow(p, r.key) /\ ~TooHigh(p, r.key)} \subseteq rows
    OBVIOUS
  <2>3. LET answer == Filter(p, H!AllRecords(index))
        IN  /\ ~answer.raised
            /\ Exactly(answer.records, {r \in rows : ~TooLow(p, r.key) /\ ~TooHigh(p, r.key)})
            /\ InKeyOrder(answer.records)
    BY <1>1, <1>2, <2>2, FilterAnswers
  <2> QED
    BY <2>1, <2>3
<1>6. Exactly(SearchAll, rows)
  BY <1>4 DEF Lists, Exactly
<1> QED
  BY <1>4, <1>5, <1>6 DEF RangeAnswers

\* A range over the hash, which scans every bucket, finds each row once and in
\* key order
THEOREM HashRange == Spec => [](kind = "hash" => RangeAnswers)
<1>1. Init => RowsInv /\ HashInv
  BY RowsInit, HashInit
<1>2. RowsInv /\ HashInv /\ [Next]_vars => (RowsInv /\ HashInv)'
  BY RowsNext, HashNext
<1>3. RowsInv /\ HashInv => (kind = "hash" => RangeAnswers)
  BY HashRanges DEF HashInv
<1> QED
  BY <1>1, <1>2, <1>3, PTL DEF Spec

\* The directory has a slot for each pattern of bits and leads to buckets there are
THEOREM HashTyped == Spec => [](kind = "hash" => TypeOK)
<1>1. Init => RowsInv /\ HashInv
  BY RowsInit, HashInit
<1>2. RowsInv /\ HashInv /\ [Next]_vars => (RowsInv /\ HashInv)'
  BY RowsNext, HashNext
<1>3. RowsInv /\ HashInv => (kind = "hash" => TypeOK)
  BY GoodIsTyped DEF HashInv
<1> QED
  BY <1>1, <1>2, <1>3, PTL DEF Spec

-----------------------------------------------------------------------------
(* The R-tree *)

Points      == Int \X Int
SpatialRows == [key : Points, id : Nat \ {0}]
Dicts(V)    == UNION {[ids -> V] : ids \in SUBSET Nat}
RTrees      == [records : Dicts(SpatialRows),
                points  : Dicts(Points),
                tree    : Dicts(Points),
                next_id : Nat \ {0}]

\* Each row of S has one number, given before, and the tree has its point
\* under that number
Numbered(ix, S) ==
    /\ ix \in RTrees
    /\ DOMAIN ix.records \subseteq 1 .. ix.next_id - 1
    /\ DOMAIN ix.points = DOMAIN ix.records /\ ix.tree = ix.points
    /\ \A id \in DOMAIN ix.records : ix.points[id] = ix.records[id].key
    /\ \A a, b \in DOMAIN ix.records : ix.records[a] = ix.records[b] => a = b
    /\ S = {ix.records[id] : id \in DOMAIN ix.records}

\* One more number, or fewer
LEMMA SetItemTyped ==
  ASSUME NEW V, NEW dict \in Dicts(V), NEW id \in Nat, NEW v \in V
  PROVE  R!SetItem(dict, id, v) \in Dicts(V)
<1>1. DOMAIN dict \in SUBSET Nat /\ \A i \in DOMAIN dict : dict[i] \in V
  BY DEF Dicts
<1>2. R!SetItem(dict, id, v) \in [DOMAIN dict \cup {id} -> V]
  BY <1>1 DEF R!SetItem
<1>3. DOMAIN dict \cup {id} \in SUBSET Nat
  BY <1>1
<1> QED
  BY <1>2, <1>3 DEF Dicts

\* And without some of them
LEMMA WithoutTyped ==
  ASSUME NEW V, NEW dict \in Dicts(V), NEW gone
  PROVE  R!Without(dict, gone) \in Dicts(V)
<1>1. DOMAIN dict \in SUBSET Nat /\ \A i \in DOMAIN dict : dict[i] \in V
  BY DEF Dicts
<1>2. R!Without(dict, gone) \in [DOMAIN dict \ gone -> V]
  BY <1>1 DEF R!Without
<1>3. DOMAIN dict \ gone \in SUBSET Nat
  BY <1>1
<1> QED
  BY <1>2, <1>3 DEF Dicts

\* An insert gives the next number to the row
LEMMA NumberedInsert ==
  ASSUME NEW ix, NEW S, Numbered(ix, S), NEW r \in SpatialRows, r \notin S
  PROVE  Numbered(R!InsertRecord(ix, r), S \cup {r})
<1> DEFINE n   == ix.next_id
           u   == R!InsertRecord(ix, r)
           ids == DOMAIN ix.records
<1>1. /\ ix \in RTrees /\ n \in Nat \ {0} /\ ids \subseteq 1 .. n - 1
      /\ DOMAIN ix.points = ids /\ ix.tree = ix.points /\ r.key \in Points
  BY DEF Numbered, RTrees, SpatialRows
<1>2. /\ u.records = R!SetItem(ix.records, n, r)
      /\ u.points = R!SetItem(ix.points, n, r.key)
      /\ u.tree = R!SetItem(ix.tree, n, r.key)
      /\ u.next_id = n + 1
      /\ u = [records |-> u.records, points |-> u.points, tree |-> u.tree, next_id |-> u.next_id]
  BY DEF R!InsertRecord
<1>3. n \notin ids
  BY <1>1
<1>4. /\ DOMAIN u.records = ids \cup {n} /\ u.records[n] = r
      /\ \A id \in ids : u.records[id] = ix.records[id]
  BY <1>2, <1>3 DEF R!SetItem
<1>5. /\ DOMAIN u.points = ids \cup {n} /\ u.points[n] = r.key
      /\ \A id \in ids : u.points[id] = ix.points[id]
  BY <1>1, <1>2, <1>3 DEF R!SetItem
<1>6. u.tree = u.points
  BY <1>1, <1>2
<1>7. u \in RTrees
  <2>1. /\ ix.records \in Dicts(SpatialRows)
        /\ ix.points \in Dicts(Points)
        /\ n \in Nat
    BY <1>1 DEF RTrees
  <2>2. u.records \in Dicts(SpatialRows)
    BY <1>2, <2>1, SetItemTyped
  <2>3. u.points \in Dicts(Points)
    BY <1>1, <1>2, <2>1, SetItemTyped
  <2>4. u.next_id \in Nat \ {0}
    BY <1>1, <1>2
  <2> HIDE DEF u
  <2> QED
    BY <1>2, <1>6, <2>2, <2>3, <2>4 DEF RTrees
<1>8. DOMAIN u.records \subseteq 1 .. u.next_id - 1
  BY <1>1, <1>2, <1>4
<1>9. S = {ix.records[id] : id \in ids}
  BY DEF Numbered
<1> HIDE DEF u, ids, n
<1>10. \A id \in DOMAIN u.records : u.points[id] = u.records[id].key
  BY <1>4, <1>5 DEF Numbered, ids
<1>11. \A a, b \in DOMAIN u.records : u.records[a] = u.records[b] => a = b
  <2>1. \A a, b \in ids : ix.records[a] = ix.records[b] => a = b
    BY DEF Numbered, ids
  <2>2. \A a \in ids : ix.records[a] # r
    BY <1>9
  <2> QED
    BY <1>4, <2>1, <2>2
<1>12. S \cup {r} = {u.records[id] : id \in DOMAIN u.records}
  BY <1>4, <1>9
<1> QED
  BY <1>4, <1>5, <1>6, <1>7, <1>8, <1>10, <1>11, <1>12 DEF Numbered, u

\* A box of one point has that point
LEMMA BoxOfPoint ==
  ASSUME NEW p \in Points, NEW q \in Points
  PROVE  R!InsideBounds(p, q, q) <=> p = q
<1>1. /\ p = <<p[1], p[2]>> /\ q = <<q[1], q[2]>> /\ DOMAIN p = 1 .. 2 /\ DOMAIN q = 1 .. 2
      /\ p[1] \in Int /\ p[2] \in Int /\ q[1] \in Int /\ q[2] \in Int
  BY DEF Points
<1>2. R!InsideBounds(p, q, q) <=> (\A i \in 1 .. 2 : q[i] <= p[i]) /\ (\A i \in 1 .. 2 : p[i] <= q[i])
  BY <1>1 DEF R!InsideBounds, R!Below
<1>3. \A i : i \in 1 .. 2 <=> i = 1 \/ i = 2
  OBVIOUS
<1>4. R!InsideBounds(p, q, q) <=> p[1] = q[1] /\ p[2] = q[2]
  BY <1>1, <1>2, <1>3
<1> QED
  BY <1>1, <1>4

\* The numbers a point search and a delete find
LEMMA NumbersOfPoint ==
  ASSUME NEW ix, NEW S, Numbered(ix, S), NEW p \in Points
  PROVE  {id \in R!Intersection(ix, p, p) : ix.points[id] = p}
           = {id \in DOMAIN ix.records : ix.records[id].key = p}
<1>1. /\ DOMAIN ix.tree = DOMAIN ix.records /\ ix.tree = ix.points
      /\ \A id \in DOMAIN ix.records : ix.tree[id] \in Points /\ ix.points[id] = ix.records[id].key
  BY DEF Numbered, RTrees, Dicts
<1>2. \A id \in DOMAIN ix.records : R!InsideBounds(ix.tree[id], p, p) <=> ix.records[id].key = p
  BY <1>1, BoxOfPoint
<1> QED
  BY <1>1, <1>2 DEF R!Intersection

\* A delete takes the numbers at the point away
LEMMA NumberedDelete ==
  ASSUME NEW ix, NEW S, Numbered(ix, S), NEW p \in Points
  PROVE  Numbered(R!Delete(ix, p), {r \in S : r.key # p})
<1> DEFINE ids  == DOMAIN ix.records
           gone == {id \in ids : ix.records[id].key = p}
           u    == R!Delete(ix, p)
<1>1. /\ ix \in RTrees /\ ids \subseteq 1 .. ix.next_id - 1
      /\ DOMAIN ix.points = ids /\ ix.tree = ix.points
  BY DEF Numbered
<1>2. /\ u.records = R!Without(ix.records, gone) /\ u.points = R!Without(ix.points, gone)
      /\ u.tree = R!Without(ix.tree, gone) /\ u.next_id = ix.next_id
      /\ u = [records |-> u.records, points |-> u.points, tree |-> u.tree, next_id |-> u.next_id]
  <2>1. {id \in R!Intersection(ix, p, p) : ix.points[id] = p} = gone
    BY NumbersOfPoint
  <2> HIDE DEF gone
  <2>2. u = [ix EXCEPT !.tree = R!Without(ix.tree, gone), !.records = R!Without(ix.records, gone),
                       !.points = R!Without(ix.points, gone)]
    BY <2>1 DEF R!Delete
  <2> HIDE DEF u
  <2> QED
    BY <1>1, <2>2 DEF RTrees
<1>3. u \in RTrees
  <2>1. /\ ix.records \in Dicts(SpatialRows)
        /\ ix.points \in Dicts(Points)
        /\ ix.next_id \in Nat \ {0}
    BY <1>1 DEF RTrees
  <2>2. u.records \in Dicts(SpatialRows)
    BY <1>2, <2>1, WithoutTyped
  <2>3. u.points \in Dicts(Points)
    BY <1>2, <2>1, WithoutTyped
  <2> HIDE DEF u
  <2> QED
    BY <1>1, <1>2, <2>1, <2>2, <2>3 DEF RTrees
<1>4. /\ DOMAIN u.records = ids \ gone /\ \A id \in ids \ gone : u.records[id] = ix.records[id]
  BY <1>2 DEF R!Without
<1>5. /\ DOMAIN u.points = ids \ gone /\ \A id \in ids \ gone : u.points[id] = ix.points[id]
  BY <1>1, <1>2 DEF R!Without
<1>6. u.tree = u.points
  BY <1>1, <1>2
<1>7. {r \in S : r.key # p} = {u.records[id] : id \in DOMAIN u.records}
  <2>1. S = {ix.records[id] : id \in ids}
    BY DEF Numbered
  <2>2. \A id \in ids : id \in gone <=> ix.records[id].key = p
    OBVIOUS
  <2> HIDE DEF u, ids, gone
  <2> QED
    BY <1>4, <2>1, <2>2
<1> HIDE DEF u, gone
<1>8. \A id \in DOMAIN u.records : u.points[id] = u.records[id].key
  BY <1>4, <1>5 DEF Numbered
<1>9. \A a, b \in DOMAIN u.records : u.records[a] = u.records[b] => a = b
  BY <1>4 DEF Numbered
<1> HIDE DEF ids
<1>10. DOMAIN u.records \subseteq 1 .. u.next_id - 1 /\ DOMAIN u.points = DOMAIN u.records
  BY <1>1, <1>2, <1>4, <1>5
<1> QED
  BY <1>3, <1>6, <1>7, <1>8, <1>9, <1>10 DEF Numbered, u

\* Max as the module of the R-tree has it
LEMMA SameOfMax == \A S : R!Max(S) = Max(S)
BY DEF R!Max, Max

\* The empty R-tree has no rows
LEMMA EmptyTyped == R!Empty \in RTrees /\ Numbered(R!Empty, {})
<1> DEFINE none == <<>>
<1>1. DOMAIN none = {} /\ \A V : none \in [{} -> V]
  OBVIOUS
<1>2. \A V : none \in Dicts(V)
  BY <1>1 DEF Dicts
<1>3. R!Empty = [records |-> none, points |-> none, tree |-> none, next_id |-> 1]
  BY DEF R!Empty
<1> HIDE DEF none
<1>4. R!Empty \in RTrees
  BY <1>2, <1>3 DEF RTrees
<1> QED
  BY <1>1, <1>3, <1>4 DEF Numbered

\* An insert keeps the types
LEMMA InsertTyped ==
  ASSUME NEW ix \in RTrees, NEW r \in SpatialRows
  PROVE  R!InsertRecord(ix, r) \in RTrees
<1> DEFINE n == ix.next_id
           u == R!InsertRecord(ix, r)
<1>1. /\ n \in Nat \ {0} /\ r.key \in Points
      /\ ix.records \in Dicts(SpatialRows) /\ ix.points \in Dicts(Points) /\ ix.tree \in Dicts(Points)
  BY DEF RTrees, SpatialRows
<1>2. u = [records |-> R!SetItem(ix.records, n, r), points |-> R!SetItem(ix.points, n, r.key),
           tree |-> R!SetItem(ix.tree, n, r.key), next_id |-> n + 1]
  BY DEF R!InsertRecord
<1>3. /\ R!SetItem(ix.records, n, r) \in Dicts(SpatialRows)
      /\ R!SetItem(ix.points, n, r.key) \in Dicts(Points)
      /\ R!SetItem(ix.tree, n, r.key) \in Dicts(Points)
      /\ n + 1 \in Nat \ {0}
  BY <1>1, SetItemTyped
<1> HIDE DEF u, n
<1> QED
  BY <1>2, <1>3 DEF RTrees, u

\* build, and a reload, number the rows they are given
LEMMA NumberedBuild ==
  ASSUME NEW n \in Nat, NEW seq \in [1 .. n -> SpatialRows],
         \A i, j \in 1 .. n : seq[i] = seq[j] => i = j
  PROVE  Numbered(R!Build(seq), {seq[i] : i \in 1 .. n})
<1> DEFINE V          == RTrees
           Then(v, i) == R!InsertRecord(v, seq[i])
           step       == [i \in 1 .. n |-> [v \in V |-> Then(v, i)]]
           D          == SUBSET (1 .. n)
           t          == R!Empty
<1>1. ASSUME NEW v \in V, NEW i \in 1 .. n PROVE Then(v, i) \in V
  <2>1. seq[i] \in SpatialRows
    OBVIOUS
  <2> QED
    BY <2>1, InsertTyped
<1>2. t \in V
  BY EmptyTyped
<1> HIDE DEF V, Then, t
<1>3. step \in [1 .. n -> [V -> V]]
  BY <1>1
<1>4. PICK g : IsFoldLeft(g, n, V, t, step)
  <2> HIDE DEF step
  <2> QED
    BY <1>2, <1>3, FoldLeftRecursion
<1> DEFINE Body(f) == [s \in D |-> IF s = {} THEN t ELSE Then(f[s \ {R!Max(s)}], R!Max(s))]
           iter == CHOOSE f : f = Body(f)
<1>5. g = Body(g)
  <2>1. \A s \in D : g[s] = IF s = {} THEN t ELSE step[Max(s)][g[s \ {Max(s)}]]
    BY <1>4 DEF IsFoldLeft
  <2>2. g = [s \in D |-> g[s]] /\ \A s \in D : g[s] \in V
    BY <1>4 DEF IsFoldLeft
  <2>3. \A s \in D : s # {} => Max(s) \in 1 .. n /\ s \ {Max(s)} \in D
    BY MaxOfPlaces
  <2>4. \A s \in D : g[s] = IF s = {} THEN t ELSE Then(g[s \ {Max(s)}], Max(s))
    BY <2>1, <2>2, <2>3
  <2>5. \A s \in D : g[s] = IF s = {} THEN t ELSE Then(g[s \ {R!Max(s)}], R!Max(s))
    BY <2>4, SameOfMax
  <2> HIDE DEF D
  <2> QED
    BY <2>2, <2>5
<1>6. iter = Body(iter)
  BY <1>5
<1>7. R!Build(seq) = iter[1 .. n]
  <2>1. R!Build(seq) =
          (CHOOSE f : f = [s \in SUBSET DOMAIN seq |->
                             IF s = {} THEN t ELSE Then(f[s \ {R!Max(s)}], R!Max(s))])[DOMAIN seq]
    BY DEF R!Build, R!FoldLeft, R!MapThenFoldSet, Then, t
  <2>2. DOMAIN seq = 1 .. n
    OBVIOUS
  <2> QED
    BY <2>1, <2>2
<1> HIDE DEF iter
<1> DEFINE w == [i \in 0 .. n |-> iter[1 .. i]]
<1>8. w[0] = t /\ \A i \in 1 .. n : w[i] = Then(w[i - 1], i)
  <2>1. w[0] = t
    <3>1. 1 .. 0 = {} /\ {} \in D
      OBVIOUS
    <3> QED
      BY <1>6, <3>1
  <2>2. ASSUME NEW i \in 1 .. n PROVE w[i] = Then(w[i - 1], i)
    <3>1. /\ 1 .. i \in D /\ 1 .. i # {} /\ R!Max(1 .. i) = i /\ (1 .. i) \ {i} = 1 .. i - 1
          /\ i \in 0 .. n /\ i - 1 \in 0 .. n
      BY MaxOfPlaces, SameOfMax
    <3>2. iter[1 .. i] = Then(iter[(1 .. i) \ {R!Max(1 .. i)}], R!Max(1 .. i))
      <4> HIDE DEF D
      <4> QED
        BY <1>6, <3>1
    <3> QED
      BY <3>1, <3>2
  <2> QED
    BY <2>1, <2>2
<1>9. R!Build(seq) = w[n]
  BY <1>7
<1> HIDE DEF w
<1> DEFINE Given(i) == {seq[j] : j \in 1 .. i}
           Fine(v, i) == Numbered(v, Given(i))
           T == {i \in Nat : i <= n => Fine(w[i], i)}
<1>10. 0 \in T
  <2>1. Given(0) = {}
    OBVIOUS
  <2>2. Fine(t, 0)
    BY <2>1, EmptyTyped DEF t
  <2> HIDE DEF Fine
  <2> QED
    BY <1>8, <2>2
<1>11. ASSUME NEW i \in Nat, i \in T PROVE i + 1 \in T
  <2>1. SUFFICES ASSUME i + 1 <= n PROVE Fine(w[i + 1], i + 1)
    OBVIOUS
  <2> DEFINE r == seq[i + 1]
  <2>2. Fine(w[i], i) /\ i + 1 \in 1 .. n /\ (i + 1) - 1 = i
    BY <1>11, <2>1
  <2>3. w[i + 1] = R!InsertRecord(w[i], r)
    BY <1>8, <2>2 DEF Then
  <2>4. Given(i + 1) = Given(i) \cup {r}
    <3>1. \A j \in 1 .. i + 1 : j \in 1 .. i \/ j = i + 1
      OBVIOUS
    <3>2. 1 .. i \subseteq 1 .. i + 1 /\ i + 1 \in 1 .. i + 1
      OBVIOUS
    <3> QED
      BY <3>1, <3>2
  <2>5. r \notin Given(i)
    <3>1. \A j \in 1 .. i : j \in 1 .. n /\ j # i + 1
      BY <2>1
    <3> QED
      BY <2>2, <3>1
  <2>6. r \in SpatialRows
    BY <2>2
  <2> HIDE DEF r, Given
  <2> QED
    BY <2>2, <2>3, <2>4, <2>5, <2>6, NumberedInsert
<1> HIDE DEF T
<1>12. n \in T
  BY <1>10, <1>11, InductionOnSets
<1> QED
  BY <1>9, <1>12 DEF T

\* Ascending as the module of the R-tree has it
LEMMA SameOfAscending == \A S : R!Ascending(S) = Ascending(S)
BY DEF R!Ascending, Ascending, R!FoldSet, FoldSet, R!MapThenFoldSet, MapThenFoldSet,
       R!Insert, Insert, R!BisectLeft, BisectLeft, R!InsertAt, InsertAt, R!Cardinality, Cardinality

\* The records of some numbers
LEMMA RecordsListed ==
  ASSUME NEW ix, NEW S, Numbered(ix, S), NEW ids \in SUBSET DOMAIN ix.records
  PROVE  Lists(R!RecordsOf(ix, ids), {ix.records[id] : id \in ids})
<1>1. IsFiniteSet(ids)
  <2>1. ids \subseteq 1 .. ix.next_id - 1 /\ ix.next_id - 1 \in Int
    BY DEF Numbered, RTrees
  <2>2. IsFiniteSet(1 .. ix.next_id - 1)
    BY <2>1, FS_Interval
  <2> QED
    BY <2>1, <2>2, FS_Subset
<1> DEFINE seq == Ascending(ids)
           f   == ix.records
<1>2. Lists(seq, ids)
  BY <1>1, AscendingLists
<1>3. \A a, b \in ids : f[a] = f[b] => a = b
  BY DEF Numbered
<1>4. R!RecordsOf(ix, ids) = [i \in DOMAIN seq |-> f[seq[i]]]
  BY SameOfAscending DEF R!RecordsOf
<1> HIDE DEF seq, f
<1>5. Lists([i \in DOMAIN seq |-> f[seq[i]]], {f[id] : id \in ids})
  BY <1>2, <1>3, MappedLists
<1> QED
  BY <1>4, <1>5 DEF f

\* records.values() lists the rows
LEMMA ValuesListed ==
  ASSUME NEW ix, NEW S, Numbered(ix, S)
  PROVE  Lists(R!Values(ix), S)
<1>1. R!Values(ix) = R!RecordsOf(ix, DOMAIN ix.records)
  BY DEF R!Values, R!RecordsOf
<1>2. S = {ix.records[id] : id \in DOMAIN ix.records}
  BY DEF Numbered
<1> QED
  BY <1>1, <1>2, RecordsListed

\* Building from a list of rows
LEMMA NumberedList ==
  ASSUME NEW S \in SUBSET SpatialRows, NEW seq, Lists(seq, S)
  PROVE  Numbered(R!Build(seq), S)
<1> DEFINE n == Len(seq)
<1>1. n \in Nat /\ DOMAIN seq = 1 .. n /\ seq \in [1 .. n -> S]
  BY PlacesOf
<1>2. {seq[i] : i \in 1 .. n} = S
  BY <1>1 DEF Lists, ToSet
<1>3. seq \in [1 .. n -> SpatialRows] /\ \A i, j \in 1 .. n : seq[i] = seq[j] => i = j
  BY <1>1 DEF Lists
<1> HIDE DEF n
<1> QED
  BY <1>1, <1>2, <1>3, NumberedBuild

\* A restart numbers the same rows again
LEMMA NumberedReload ==
  ASSUME NEW ix, NEW S, Numbered(ix, S)
  PROVE  Numbered(R!Reload(ix), S)
<1>1. S \in SUBSET SpatialRows
  BY DEF Numbered, RTrees, Dicts
<1> QED
  BY <1>1, ValuesListed, NumberedList DEF R!Reload

-----------------------------------------------------------------------------
RTreeInv == kind = "rtree" => Numbered(index, rows)

\* The rows of a column of points
LEMMA RecordOfRTree ==
  ASSUME kind = "rtree"
  PROVE  Key \subseteq Points /\ Record \subseteq SpatialRows
<1>1. Key \subseteq Points
  BY PointsAssumption DEF Key, Points
<1>2. ASSUME NEW k \in Key, NEW r \in [key : {k}, id : 1 .. MaxCopies[kind][k]]
      PROVE  r \in SpatialRows
  <2>1. MaxCopies[kind][k] \in Nat
    BY KeysOfKinds DEF Kinds
  <2>2. r.id \in Nat \ {0} /\ r.key \in Points /\ r = [key |-> r.key, id |-> r.id]
    BY <1>1, <2>1
  <2> QED
    BY <2>2 DEF SpatialRows
<1> QED
  BY <1>1, <1>2 DEF Record

\* build numbers the rows
LEMMA RTreeInit == Init => RTreeInv
<1> SUFFICES ASSUME Init, kind = "rtree" PROVE Numbered(index, rows)
  BY DEF RTreeInv
<1>1. index = R!Build(Stored) /\ rows \subseteq Record
  BY DEF Init, Ordered
<1>2. Lists(Stored, rows) /\ rows \in SUBSET SpatialRows
  BY <1>1, StoredLists, RecordOfRTree
<1> QED
  BY <1>1, <1>2, NumberedList

\* Every step keeps the rows numbered
LEMMA RTreeNext == RowsInv /\ RTreeInv /\ [Next]_vars => RTreeInv'
<1> SUFFICES ASSUME RowsInv, RTreeInv, [Next]_vars, kind' = "rtree" PROVE Numbered(index', rows')
  BY DEF RTreeInv, Numbered
<1>1. kind = "rtree"
  BY DEF Next, InsertRow, DeleteKey, Reload, SearchVectors, vars
<1>2. Numbered(index, rows)
  BY <1>1 DEF RTreeInv
<1>3. ASSUME NEW k \in Key, InsertRow(k) PROVE Numbered(index', rows')
  <2> DEFINE r == [key |-> k, id |-> Copies(k) + 1]
  <2>1. r \in Record /\ r \notin rows /\ rows' = rows \cup {r}
    BY <1>3, NewRow
  <2>2. index' = R!InsertRecord(index, r) /\ r \in SpatialRows
    BY <1>1, <1>3, <2>1, RecordOfRTree DEF InsertRow
  <2> HIDE DEF r
  <2> QED
    BY <1>2, <2>1, <2>2, NumberedInsert
<1>4. ASSUME NEW k \in Key, DeleteKey(k) PROVE Numbered(index', rows')
  <2>1. index' = R!Delete(index, k) /\ rows' = {r \in rows : r.key # k} /\ k \in Points
    BY <1>1, <1>4, RecordOfRTree DEF DeleteKey
  <2> QED
    BY <1>2, <2>1, NumberedDelete
<1>5. CASE Reload
  <2>1. index' = R!Reload(index) /\ rows' = rows
    BY <1>1, <1>5 DEF Reload
  <2> QED
    BY <1>2, <2>1, NumberedReload
<1>6. CASE UNCHANGED vars
  BY <1>2, <1>6 DEF vars
<1>7. ~SearchVectors
  BY <1>1 DEF SearchVectors
<1> QED
  BY <1>3, <1>4, <1>5, <1>6, <1>7 DEF Next

\* A search for a point finds its rows
LEMMA NumberedAnswers ==
  ASSUME kind = "rtree", Numbered(index, rows)
  PROVE  EqualityAnswers
<1>1. ASSUME NEW k \in Key PROVE Exactly(SearchKey(k), {r \in rows : r.key = k})
  <2> DEFINE ids == {id \in DOMAIN index.records : index.records[id].key = k}
  <2>1. k \in Points
    BY RecordOfRTree
  <2>2. SearchKey(k) = R!RecordsOf(index, ids)
    BY <2>1, NumbersOfPoint DEF SearchKey, R!SearchKey
  <2>3. {index.records[id] : id \in ids} = {r \in rows : r.key = k}
    <3>1. rows = {index.records[id] : id \in DOMAIN index.records}
      BY DEF Numbered
    <3> QED
      BY <3>1
  <2>4. ids \in SUBSET DOMAIN index.records
    OBVIOUS
  <2> HIDE DEF ids
  <2>5. Lists(R!RecordsOf(index, ids), {index.records[id] : id \in ids})
    BY <2>4, RecordsListed
  <2> QED
    BY <2>2, <2>3, <2>5 DEF Lists, Exactly
<1> QED
  BY <1>1 DEF EqualityAnswers

\* A numbered R-tree is well typed
LEMMA NumberedTyped ==
  ASSUME kind = "rtree", RowsInv, Numbered(index, rows)
  PROVE  TypeOK
BY DEF TypeOK, RowsInv, RowsClosed, Numbered

\* The R-tree answers equality searches with the rows of the point, points
\* deleted and put back and numbers given again by a restart included
THEOREM RTreeEquality == Spec => [](kind = "rtree" => EqualityAnswers)
<1>1. Init => RowsInv /\ RTreeInv
  BY RowsInit, RTreeInit
<1>2. RowsInv /\ RTreeInv /\ [Next]_vars => (RowsInv /\ RTreeInv)'
  BY RowsNext, RTreeNext
<1>3. RowsInv /\ RTreeInv => (kind = "rtree" => EqualityAnswers)
  BY NumberedAnswers DEF RTreeInv
<1> QED
  BY <1>1, <1>2, <1>3, PTL DEF Spec

\* Its three dictionaries have the same numbers, all given before
THEOREM RTreeTyped == Spec => [](kind = "rtree" => TypeOK)
<1>1. Init => RowsInv /\ RTreeInv
  BY RowsInit, RTreeInit
<1>2. RowsInv /\ RTreeInv /\ [Next]_vars => (RowsInv /\ RTreeInv)'
  BY RowsNext, RTreeNext
<1>3. RowsInv /\ RTreeInv => (kind = "rtree" => TypeOK)
  BY NumberedTyped DEF RTreeInv
<1> QED
  BY <1>1, <1>2, <1>3, PTL DEF Spec

\* SortedBy as the module of the R-tree has it
LEMMA SameOfSortedBy == ASSUME NEW seq, NEW earlier PROVE R!SortedBy(seq, earlier) = SortedBy(seq, earlier)
BY DEF R!SortedBy, SortedBy, R!FoldLeft, FoldLeft, R!MapThenFoldSet, MapThenFoldSet, R!Max, Max,
       R!Insert, Insert, R!InsertAt, InsertAt, R!Cardinality, Cardinality

\* Points in the order of their first different coordinate
LEMMA PointOrder ==
  ASSUME NEW p \in Points, NEW q \in Points
  PROVE  R!Before(p, q) <=> p[1] < q[1] \/ (p[1] = q[1] /\ p[2] < q[2])
<1>1. DOMAIN p = 1 .. 2 /\ p[1] \in Int /\ p[2] \in Int /\ q[1] \in Int /\ q[2] \in Int
  BY DEF Points
<1>2. \A i : i \in 1 .. 2 <=> i = 1 \/ i = 2
  OBVIOUS
<1>3. R!Before(p, q) <=> \E i \in 1 .. 2 : p[i] < q[i] /\ \A j \in 1 .. i - 1 : p[j] = q[j]
  BY <1>1 DEF R!Before
<1>4. (\A j \in 1 .. 1 - 1 : p[j] = q[j]) /\ ((\A j \in 1 .. 2 - 1 : p[j] = q[j]) <=> p[1] = q[1])
  <2>1. 1 .. 1 - 1 = {} /\ 1 .. 2 - 1 = {1}
    OBVIOUS
  <2> QED
    BY <2>1
<1> QED
  BY <1>2, <1>3, <1>4

\* Rows are ordered by their points
LEMMA PointWeakOrder ==
  ASSUME NEW S \in SUBSET SpatialRows, NEW all, S \subseteq all
  PROVE  WeakOrder({p \in all \X all : R!Before(p[1].key, p[2].key)}, S)
<1> DEFINE e == {p \in all \X all : R!Before(p[1].key, p[2].key)}
           Less(p, q) == p[1] < q[1] \/ (p[1] = q[1] /\ p[2] < q[2])
<1>1. ASSUME NEW x \in S, NEW y \in S PROVE <<x, y>> \in e <=> Less(x.key, y.key)
  <2>1. <<x, y>> \in e <=> R!Before(x.key, y.key)
    OBVIOUS
  <2>2. x.key \in Points /\ y.key \in Points
    BY DEF SpatialRows
  <2> QED
    BY <2>1, <2>2, PointOrder
<1>2. \A x \in S : x.key[1] \in Int /\ x.key[2] \in Int
  BY DEF SpatialRows, Points
<1> HIDE DEF e
<1>3. \A x, y \in S : <<x, y>> \in e => <<y, x>> \notin e
  BY <1>1, <1>2
<1>4. ASSUME NEW x \in S, NEW y \in S, NEW z \in S, <<x, y>> \notin e, <<y, z>> \notin e
      PROVE  <<x, z>> \notin e
  <2>1. ~Less(x.key, y.key) /\ ~Less(y.key, z.key)
    BY <1>1, <1>4
  <2>2. ~Less(x.key, z.key)
    BY <1>2, <2>1
  <2> QED
    BY <1>1, <2>2
<1> QED
  BY <1>3, <1>4 DEF WeakOrder, e

\* Sorting rows by their points
LEMMA ByPointLists ==
  ASSUME NEW seq, NEW S \in SUBSET SpatialRows, Lists(seq, S)
  PROVE  /\ Lists(R!ByPoint(seq), S)
         /\ \A i, j \in DOMAIN R!ByPoint(seq) :
              i < j => ~R!Before(R!ByPoint(seq)[j].key, R!ByPoint(seq)[i].key)
<1> DEFINE all == R!ToSet(seq)
           e   == {p \in all \X all : R!Before(p[1].key, p[2].key)}
           t   == R!ByPoint(seq)
<1>1. all = S
  BY DEF R!ToSet, ToSet, Lists
<1>2. WeakOrder(e, S)
  BY <1>1, PointWeakOrder
<1>3. t = SortedBy(seq, e)
  BY SameOfSortedBy DEF R!ByPoint
<1> HIDE DEF t, e
<1>4. Lists(t, S) /\ Arranged(t, e)
  BY <1>2, <1>3, SortedByLists
<1>5. ASSUME NEW i \in DOMAIN t, NEW j \in DOMAIN t, i < j PROVE ~R!Before(t[j].key, t[i].key)
  <2>1. <<t[j], t[i]>> \notin e
    BY <1>4, <1>5 DEF Arranged
  <2>2. t[j] \in S /\ t[i] \in S
    BY <1>4, PlacesOf
  <2>3. <<t[j], t[i]>> \in S \X S
    BY <2>2
  <2> QED
    BY <1>1, <2>1, <2>3 DEF e
<1> QED
  BY <1>4, <1>5 DEF t

\* A distance is a natural number
LEMMA DistanceNat ==
  ASSUME NEW p \in Points, NEW q \in Points
  PROVE  R!Distance(p, q) \in Nat
<1> DEFINE D    == 1 .. 2
           sq   == [i \in D |-> (p[i] - q[i]) * (p[i] - q[i])]
           pick == [s \in SUBSET D |-> CHOOSE x \in s : TRUE]
           step == [x \in D |-> [v \in Nat |-> sq[x] + v]]
           Body(f) == [s \in SUBSET D |-> IF s = {} THEN 0
                          ELSE sq[CHOOSE x \in s : TRUE] + f[s \ {CHOOSE x \in s : TRUE}]]
           iter == CHOOSE f : f = Body(f)
<1>1. DOMAIN p = D /\ \A i \in D : p[i] \in Int /\ q[i] \in Int
  <2>1. \A i \in 1 .. 2 : i = 1 \/ i = 2
    OBVIOUS
  <2> QED
    BY <2>1 DEF Points
<1>2. \A i \in D : sq[i] \in Nat
  <2>1. \A x \in Int : x * x \in Nat
    <3>1. ASSUME NEW x \in Int PROVE x * x >= 0 /\ x * x \in Int
      <4>1. CASE x >= 0
        BY <4>1, Z3
      <4>2. CASE x < 0
        BY <4>2, Z3
      <4> QED
        BY <4>1, <4>2
    <3> QED
      BY <3>1
  <2> HIDE DEF D
  <2>2. \A i \in D : p[i] - q[i] \in Int
    BY <1>1
  <2> QED
    BY <2>1, <2>2
<1>3. R!Distance(p, q) = iter[D]
  <2>1. R!Distance(p, q) = R!FoldFunction(+, 0, sq)
    BY <1>1 DEF R!Distance
  <2>2. DOMAIN sq = D
    OBVIOUS
  <2> HIDE DEF sq, D
  <2> QED
    BY <2>1, <2>2 DEF R!FoldFunction, R!FoldFunctionOnSet, R!MapThenFoldSet
<1>4. \A s \in SUBSET D : s # {} => pick[s] \in s /\ pick[s] \in D /\ pick[s] = CHOOSE x \in s : TRUE
  OBVIOUS
<1>5. /\ IsFiniteSet(D) /\ 0 \in Nat /\ Chooser(pick, D)
      /\ step \in [D -> [Nat -> Nat]] /\ \A x \in D, v \in Nat : step[x][v] = sq[x] + v
  <2>1. IsFiniteSet(D)
    <3> DEFINE two == 2
    <3>1. two \in Int
      OBVIOUS
    <3> HIDE DEF sq, step, pick, two
    <3>2. IsFiniteSet(1 .. two)
      BY <3>1, FS_Interval
    <3> QED
      BY <3>2 DEF two
  <2>2. \A x \in D, v \in Nat : sq[x] + v \in Nat
    BY <1>2
  <2> HIDE DEF sq, D
  <2> QED
    BY <1>4, <2>1, <2>2 DEF Chooser
<1> HIDE DEF sq, step, D
<1>6. PICK g : IsFold(g, D, Nat, 0, pick, step)
  <2> HIDE DEF pick
  <2> QED
    BY <1>5, FoldRecursion
<1>7. g = Body(g)
  <2>1. g = [s \in SUBSET D |-> g[s]] /\ \A s \in SUBSET D : g[s] \in Nat
    BY <1>6 DEF IsFold
  <2>2. \A s \in SUBSET D : g[s] = IF s = {} THEN 0 ELSE step[pick[s]][g[s \ {pick[s]}]]
    BY <1>6 DEF IsFold
  <2>3. ASSUME NEW s \in SUBSET D, s # {}
        PROVE  g[s] = sq[CHOOSE x \in s : TRUE] + g[s \ {CHOOSE x \in s : TRUE}]
    <3>1. s \ {pick[s]} \in SUBSET D /\ pick[s] \in D
      BY <1>4, <2>3
    <3> DEFINE c == pick[s]
               v == g[s \ {c}]
    <3>2. v \in Nat
      BY <2>1, <3>1
    <3>3. g[s] = step[c][v]
      BY <2>2, <2>3
    <3> HIDE DEF c, v
    <3>4. g[s] = sq[c] + v
      BY <1>5, <3>1, <3>2, <3>3 DEF c
    <3> QED
      BY <1>4, <2>3, <3>4 DEF c, v
  <2>4. \A s \in SUBSET D :
          g[s] = IF s = {} THEN 0 ELSE sq[CHOOSE x \in s : TRUE] + g[s \ {CHOOSE x \in s : TRUE}]
    BY <2>2, <2>3
  <2> QED
    BY <2>1, <2>4
<1>8. iter = Body(iter)
  BY <1>7
<1> HIDE DEF iter
<1>9. iter[{}] = 0 /\ \A s \in SUBSET D : s # {} => \E x \in s : iter[s] = sq[x] + iter[s \ {x}]
  <2>1. \A s \in SUBSET D :
          iter[s] = IF s = {} THEN 0 ELSE sq[CHOOSE x \in s : TRUE] + iter[s \ {CHOOSE x \in s : TRUE}]
    BY <1>8
  <2>2. ASSUME NEW s \in SUBSET D, s # {} PROVE \E x \in s : iter[s] = sq[x] + iter[s \ {x}]
    <3> DEFINE x == CHOOSE x \in s : TRUE
    <3>1. x \in s
      BY <2>2
    <3>2. iter[s] = sq[x] + iter[s \ {x}]
      BY <2>1, <2>2
    <3> HIDE DEF x
    <3> QED
      BY <3>1, <3>2
  <2>3. {} \in SUBSET D
    OBVIOUS
  <2> QED
    BY <2>1, <2>2, <2>3
<1>10. \A x \in D : iter[{x}] \in Nat
  <2>1. SUFFICES ASSUME NEW x \in D PROVE iter[{x}] \in Nat
    OBVIOUS
  <2>2. {x} \in SUBSET D /\ {x} # {} /\ {x} \ {x} = {}
    OBVIOUS
  <2>3. iter[{x}] = sq[x] + iter[{x} \ {x}]
    BY <1>9, <2>2
  <2> QED
    BY <1>2, <1>9, <2>2, <2>3
<1>11. PICK x \in D : iter[D] = sq[x] + iter[D \ {x}]
  <2>1. D \in SUBSET D /\ D # {}
    BY DEF D
  <2> QED
    BY <1>9, <2>1
<1>12. \E y \in D : D \ {x} = {y}
  <2>1. (x = 1 \/ x = 2) /\ \A i : i \in D <=> i = 1 \/ i = 2
    BY DEF D
  <2>2. 1 \in D /\ 2 \in D /\ (x = 1 => D \ {x} = {2}) /\ (x = 2 => D \ {x} = {1})
    BY <2>1
  <2> QED
    BY <2>1, <2>2
<1>13. iter[D] \in Nat
  BY <1>2, <1>10, <1>11, <1>12
<1> QED
  BY <1>3, <1>13

\* Those that fewer than k are nearer than
NearOnes(D, far, k) == {d \in D : Cardinality({o \in D : far[o] < far[d]}) < k}

\* They are at least k, or all, and no other one is nearer
LEMMA NearOnesFacts ==
  ASSUME NEW D, IsFiniteSet(D), NEW far \in [D -> Nat], NEW k \in Nat
  PROVE  /\ \A r \in D \ NearOnes(D, far, k), s \in NearOnes(D, far, k) : far[s] <= far[r]
         /\ NearOnes(D, far, k) = D \/ Cardinality(NearOnes(D, far, k)) >= k
         /\ IsFiniteSet(NearOnes(D, far, k))
<1> DEFINE N        == NearOnes(D, far, k)
           Under(d) == {o \in D : far[o] < far[d]}
<1>1. \A d \in D : IsFiniteSet(Under(d)) /\ Cardinality(Under(d)) \in Nat
  BY FS_Subset, FS_CardinalityType
<1>2. \A d \in D : d \in N <=> Cardinality(Under(d)) < k
  BY DEF NearOnes
<1>3. IsFiniteSet(N) /\ Cardinality(N) \in Nat /\ N \subseteq D
  <2>1. N \subseteq D
    BY DEF NearOnes
  <2> HIDE DEF N
  <2> QED
    BY <2>1, FS_Subset, FS_CardinalityType
<1> HIDE DEF N
<1>4. ASSUME NEW r \in D \ N, NEW s \in N PROVE far[s] <= far[r]
  <2>1. SUFFICES ASSUME far[r] < far[s] PROVE FALSE
    BY <1>3
  <2>2. Under(r) \subseteq Under(s)
    BY <1>3, <2>1
  <2>3. Cardinality(Under(r)) <= Cardinality(Under(s)) /\ Cardinality(Under(s)) < k
    BY <1>1, <1>2, <1>3, <2>2, FS_Subset
  <2>4. Cardinality(Under(r)) \in Nat /\ Cardinality(Under(s)) \in Nat
        /\ ~(Cardinality(Under(r)) < k)
    BY <1>1, <1>2, <1>3
  <2> QED
    BY <2>3, <2>4
<1>5. ASSUME N # D PROVE Cardinality(N) >= k
  <2> DEFINE T == {far[d] : d \in D \ N}
  <2>1. T \in SUBSET Nat /\ T # {}
    BY <1>3, <1>5
  <2>2. \E m \in T : \A n \in T : m <= n
    <3> HIDE DEF T
    <3> QED
      BY <2>1, LeastNatural
  <2>3. PICK d \in D \ N : \A e \in D \ N : far[d] <= far[e]
    BY <2>2
  <2>4. Under(d) \subseteq N
    <3>1. SUFFICES ASSUME NEW o \in Under(d), o \notin N PROVE FALSE
      OBVIOUS
    <3>2. far[d] <= far[o] /\ far[o] < far[d] /\ far[o] \in Nat /\ far[d] \in Nat
      BY <2>3, <3>1
    <3> QED
      BY <3>2
  <2>5. Cardinality(Under(d)) <= Cardinality(N)
    BY <1>3, <2>4, FS_Subset
  <2>6. Cardinality(Under(d)) \in Nat /\ ~(Cardinality(Under(d)) < k)
    BY <1>1, <1>2
  <2> QED
    BY <1>3, <2>5, <2>6
<1> QED
  BY <1>3, <1>4, <1>5 DEF N

\* The distances of some numbers order them
LEMMA FarWeakOrder ==
  ASSUME NEW D, NEW far \in [D -> Nat], NEW ids \in SUBSET D
  PROVE  WeakOrder({p \in ids \X ids : far[p[1]] < far[p[2]]}, ids)
<1> DEFINE e == {p \in ids \X ids : far[p[1]] < far[p[2]]}
<1>1. \A x, y \in ids : <<x, y>> \in e <=> far[x] < far[y]
  OBVIOUS
<1>2. \A x \in ids : far[x] \in Nat
  OBVIOUS
<1> HIDE DEF e
<1>3. \A x, y, z \in ids : <<x, y>> \notin e /\ <<y, z>> \notin e => <<x, z>> \notin e
  BY <1>1, <1>2
<1>4. \A x, y \in ids : <<x, y>> \in e => <<y, x>> \notin e
  BY <1>1, <1>2
<1> QED
  BY <1>3, <1>4 DEF WeakOrder, e

\* The first ones of those, nearest first
NearestFirst(seq, D, far, k) ==
    LET m == IF Len(seq) < k THEN Len(seq) ELSE k
    IN  /\ Lists(seq, NearOnes(D, far, k))
        /\ m \in Nat /\ m = Min({k, Cardinality(D)})
        /\ \A i \in 1 .. m : i \in DOMAIN seq /\ seq[i] \in D
        /\ \A i, j \in 1 .. m : i < j => far[seq[i]] <= far[seq[j]]
        /\ \A i, j \in 1 .. m : seq[i] = seq[j] => i = j
        /\ \A r \in D : (\A i \in 1 .. m : seq[i] # r) =>
              \A i \in 1 .. m : far[seq[i]] <= far[r]

\* Sorted by distance, the first k of them are the k nearest
LEMMA NearestFirstFacts ==
  ASSUME NEW D, IsFiniteSet(D), NEW far \in [D -> Nat], NEW k \in Nat,
         NEW seq, Lists(seq, NearOnes(D, far, k)),
         Arranged(seq, {p \in NearOnes(D, far, k) \X NearOnes(D, far, k) : far[p[1]] < far[p[2]]})
  PROVE  NearestFirst(seq, D, far, k)
<1> DEFINE N == NearOnes(D, far, k)
           n == Len(seq)
           m == IF n < k THEN n ELSE k
<1>1. N \subseteq D
  BY DEF NearOnes
<1>2. /\ \A r \in D \ N, s \in N : far[s] <= far[r]
      /\ N = D \/ Cardinality(N) >= k
      /\ IsFiniteSet(N)
  BY NearOnesFacts
<1>3. /\ n \in Nat /\ DOMAIN seq = 1 .. n /\ n = Cardinality(N)
      /\ \A i \in 1 .. n : seq[i] \in N
      /\ \A d \in N : \E i \in 1 .. n : seq[i] = d
      /\ \A i, j \in 1 .. n : seq[i] = seq[j] => i = j
  <2>1. n \in Nat /\ DOMAIN seq = 1 .. n /\ \A i \in 1 .. n : seq[i] \in N
    BY PlacesOf
  <2>2. ToSet(seq) = N /\ n = Cardinality(N) /\ \A i, j \in DOMAIN seq : seq[i] = seq[j] => i = j
    BY DEF Lists
  <2> HIDE DEF N, n
  <2>3. \A d \in N : \E i \in 1 .. n : seq[i] = d
    BY <2>1, <2>2 DEF ToSet
  <2> QED
    BY <2>1, <2>2, <2>3
<1>4. \A i, j \in 1 .. n : i < j => far[seq[i]] <= far[seq[j]]
  <2>1. SUFFICES ASSUME NEW i \in 1 .. n, NEW j \in 1 .. n, i < j PROVE far[seq[i]] <= far[seq[j]]
    OBVIOUS
  <2>2. seq[i] \in N /\ seq[j] \in N /\ far[seq[i]] \in Nat /\ far[seq[j]] \in Nat
    BY <1>1, <1>3
  <2>3. <<seq[j], seq[i]>> \notin {p \in N \X N : far[p[1]] < far[p[2]]}
    BY <1>3, <2>1 DEF Arranged
  <2>4. ~(far[seq[j]] < far[seq[i]])
    BY <2>2, <2>3
  <2> QED
    BY <2>2, <2>4
<1>5. m \in Nat /\ m = Min({k, Cardinality(D)}) /\ m <= n
  <2> DEFINE c == Cardinality(D)
  <2>1. c \in Nat /\ n <= c
    BY <1>1, <1>3, FS_Subset, FS_CardinalityType
  <2>2. N = D => n = c
    BY <1>3
  <2> HIDE DEF N, n, c
  <2>3. m \in Nat /\ m <= n
    BY <1>3
  <2>4. m \in {k, c} /\ m <= k /\ m <= c
    BY <1>2, <1>3, <2>1, <2>2
  <2> HIDE DEF m
  <2>5. \A x \in {k, c} : (\A y \in {k, c} : x <= y) => x = m
    <3>1. SUFFICES ASSUME NEW x \in {k, c}, \A y \in {k, c} : x <= y PROVE x = m
      OBVIOUS
    <3>2. x <= m /\ m <= x /\ x \in Nat
      BY <2>1, <2>4, <3>1
    <3> QED
      BY <2>3, <3>2
  <2>6. \A y \in {k, c} : m <= y
    BY <2>4
  <2>7. Min({k, c}) = m
    BY <2>4, <2>5, <2>6 DEF Min
  <2> QED
    BY <2>3, <2>7 DEF c
<1>6. 1 .. m \subseteq 1 .. n
  <2> HIDE DEF m, n
  <2> QED
    BY <1>3, <1>5
<1> HIDE DEF m
<1>7. ASSUME NEW r \in D, \A i \in 1 .. m : seq[i] # r, NEW i \in 1 .. m
      PROVE  far[seq[i]] <= far[r]
  <2>1. CASE r \notin N
    BY <1>2, <1>3, <1>6, <2>1
  <2>2. CASE r \in N
    <3>1. PICK j \in 1 .. n : seq[j] = r
      BY <1>3, <2>2
    <3>2. j \notin 1 .. m
      BY <1>7, <3>1
    <3>3. i < j
      BY <1>3, <1>5, <3>2
    <3> HIDE DEF n
    <3> QED
      BY <1>4, <1>6, <3>1, <3>3
  <2> QED
    BY <2>1, <2>2
<1> HIDE DEF n, N
<1>8. \A i \in 1 .. m : i \in DOMAIN seq /\ seq[i] \in D
  BY <1>1, <1>3, <1>6
<1>9. \A i, j \in 1 .. m : i < j => far[seq[i]] <= far[seq[j]]
  BY <1>4, <1>6
<1>10. \A i, j \in 1 .. m : seq[i] = seq[j] => i = j
  BY <1>3, <1>6
<1> QED
  BY <1>5, <1>7, <1>8, <1>9, <1>10 DEF NearestFirst, m, n

\* The search for the nearest, as the list of numbers it is made from
LEMMA NearestAnswer ==
  ASSUME NEW ix, NEW S, Numbered(ix, S), NEW point \in Points, NEW k \in Nat
  PROVE  LET D   == DOMAIN ix.records
             far == [id \in D |-> R!Distance(ix.records[id].key, point)]
         IN  \E seq : /\ NearestFirst(seq, D, far, k)
                      /\ R!SearchNearest(ix, point, k) =
                           [i \in 1 .. (IF Len(seq) < k THEN Len(seq) ELSE k) |-> ix.records[seq[i]]]
                      /\ IsFiniteSet(D) /\ far \in [D -> Nat]
<1> DEFINE D   == DOMAIN ix.records
           far == [id \in D |-> R!Distance(ix.records[id].key, point)]
           N   == NearOnes(D, far, k)
           e   == {p \in N \X N : far[p[1]] < far[p[2]]}
           seq == SortedBy(Ascending(N), e)
<1>1. /\ DOMAIN ix.tree = D /\ DOMAIN ix.points = D
      /\ \A id \in D : ix.tree[id] = ix.records[id].key /\ ix.points[id] = ix.records[id].key
      /\ \A id \in D : ix.records[id].key \in Points
  BY DEF Numbered, RTrees, Dicts, SpatialRows
<1>2. far \in [D -> Nat]
  BY <1>1, DistanceNat
<1>3. IsFiniteSet(D)
  <2>1. D \subseteq 1 .. ix.next_id - 1 /\ ix.next_id - 1 \in Int
    BY DEF Numbered, RTrees
  <2>2. IsFiniteSet(1 .. ix.next_id - 1)
    BY <2>1, FS_Interval
  <2> QED
    BY <2>1, <2>2, FS_Subset
<1>4. R!Nearest(ix, point, k) = N
  <2>1. \A id \in D : R!Distance(ix.tree[id], point) = far[id]
    BY <1>1
  <2> DEFINE near(id) == {o \in D : R!Distance(ix.tree[o], point) < R!Distance(ix.tree[id], point)}
  <2>2. \A id \in D : near(id) = {o \in D : far[o] < far[id]}
    BY <2>1
  <2>3. R!Nearest(ix, point, k) = {id \in D : Cardinality(near(id)) < k}
    BY <1>1 DEF R!Nearest, R!Cardinality, Cardinality
  <2> HIDE DEF near, far, D
  <2>4. {id \in D : Cardinality(near(id)) < k} = {id \in D : Cardinality({o \in D : far[o] < far[id]}) < k}
    BY <2>2
  <2> QED
    BY <2>3, <2>4 DEF NearOnes
<1>5. N \subseteq D
  BY DEF NearOnes
<1>6. {p \in N \X N : R!Distance(ix.points[p[1]], point) < R!Distance(ix.points[p[2]], point)} = e
  <2>1. \A id \in N : R!Distance(ix.points[id], point) = far[id]
    BY <1>1, <1>5
  <2>2. \A p \in N \X N : p[1] \in N /\ p[2] \in N
    OBVIOUS
  <2> HIDE DEF N, far
  <2> QED
    BY <2>1, <2>2
<1>7. R!SearchNearest(ix, point, k) =
        [i \in 1 .. (IF Len(seq) < k THEN Len(seq) ELSE k) |-> ix.records[seq[i]]]
  <2> HIDE DEF N
  <2>1. R!SortedBy(R!Ascending(N), e) = seq
    BY SameOfSortedBy, SameOfAscending
  <2> HIDE DEF e, seq
  <2> QED
    BY <1>4, <1>6, <2>1 DEF R!SearchNearest
<1>8. Lists(Ascending(N), N) /\ WeakOrder(e, N)
  <2>1. IsFiniteSet(N)
    BY <1>3, <1>5, FS_Subset
  <2> HIDE DEF N, far, D
  <2> QED
    BY <1>2, <1>5, <2>1, AscendingLists, FarWeakOrder
<1>9. Lists(seq, N) /\ Arranged(seq, e)
  <2> HIDE DEF N, e
  <2> QED
    BY <1>8, SortedByLists
<1>10. NearestFirst(seq, D, far, k)
  <2> HIDE DEF seq, far, D
  <2> QED
    BY <1>2, <1>3, <1>9, NearestFirstFacts
<1> HIDE DEF seq, far, D
<1> QED
  BY <1>2, <1>3, <1>7, <1>10 DEF D, far

\* What the specification asks of an answer
NearestHolds(answer, S, point, k) ==
    /\ Len(answer) = Min({k, Cardinality(S)})
    /\ IsInjective(answer) /\ ToSet(answer) \subseteq S
    /\ \A i, j \in DOMAIN answer :
         i < j => R!Distance(answer[i].key, point) <= R!Distance(answer[j].key, point)
    /\ \A r \in S \ ToSet(answer), s \in ToSet(answer) :
         R!Distance(s.key, point) <= R!Distance(r.key, point)

\* The search for the nearest keeps what the specification asks
LEMMA NearestIsNearest ==
  ASSUME NEW ix, NEW S, Numbered(ix, S), NEW point \in Points, NEW k \in Nat
  PROVE  NearestHolds(R!SearchNearest(ix, point, k), S, point, k)
<1> DEFINE D      == DOMAIN ix.records
           far    == [id \in D |-> R!Distance(ix.records[id].key, point)]
           answer == R!SearchNearest(ix, point, k)
<1>1. PICK seq : /\ NearestFirst(seq, D, far, k)
                 /\ answer = [i \in 1 .. (IF Len(seq) < k THEN Len(seq) ELSE k) |-> ix.records[seq[i]]]
                 /\ IsFiniteSet(D) /\ far \in [D -> Nat]
  BY NearestAnswer
<1> DEFINE m == IF Len(seq) < k THEN Len(seq) ELSE k
<1>2. /\ m \in Nat /\ m = Min({k, Cardinality(D)})
      /\ \A i \in 1 .. m : i \in DOMAIN seq /\ seq[i] \in D
      /\ \A i, j \in 1 .. m : i < j => far[seq[i]] <= far[seq[j]]
      /\ \A i, j \in 1 .. m : seq[i] = seq[j] => i = j
      /\ \A r \in D : (\A i \in 1 .. m : seq[i] # r) => \A i \in 1 .. m : far[seq[i]] <= far[r]
  BY <1>1 DEF NearestFirst
<1>3. DOMAIN answer = 1 .. m /\ \A i \in 1 .. m : answer[i] = ix.records[seq[i]]
  BY <1>1
<1>4. /\ S = {ix.records[id] : id \in D}
      /\ \A a, b \in D : ix.records[a] = ix.records[b] => a = b
  BY DEF Numbered
<1>5. \A id \in D : far[id] = R!Distance(ix.records[id].key, point)
  OBVIOUS
<1> HIDE DEF m, answer, far
<1>6. Cardinality(S) = Cardinality(D)
  <2> DEFINE g == [id \in D |-> ix.records[id]]
  <2>1. g \in Bijection(D, S)
    <3>1. g \in [D -> S] /\ (\A a, b \in D : g[a] = g[b] => a = b) /\ \A s \in S : \E d \in D : g[d] = s
      BY <1>4
    <3> HIDE DEF g, D
    <3> QED
      BY <3>1 DEF Bijection, Injection, Surjection, IsInjective
  <2>2. ExistsBijection(D, S)
    BY <2>1 DEF ExistsBijection
  <2> HIDE DEF D
  <2> QED
    BY <1>1, <2>2, FS_Bijection
<1> HIDE DEF D
<1>7. \A i \in 1 .. m : answer[i] \in S
  BY <1>2, <1>3, <1>4
<1>8. answer \in Seq(S) /\ Len(answer) = m
  <2>1. answer \in [1 .. m -> S]
    <3>1. answer = [i \in 1 .. m |-> ix.records[seq[i]]]
      BY <1>1 DEF m
    <3>2. \A i \in 1 .. m : ix.records[seq[i]] \in S
      BY <1>3, <1>7
    <3> QED
      BY <3>1, <3>2
  <2>2. answer \in Seq(S)
    <3>1. m \in Nat
      BY <1>2
    <3> QED
      BY <2>1, <3>1
  <2> QED
    BY <1>2, <1>3, <2>2, LenProperties
<1>9. ToSet(answer) = {answer[i] : i \in 1 .. m}
  BY <1>3 DEF ToSet
<1>10. IsInjective(answer)
  <2>1. ASSUME NEW i \in 1 .. m, NEW j \in 1 .. m, answer[i] = answer[j] PROVE i = j
    <3>1. seq[i] \in D /\ seq[j] \in D /\ ix.records[seq[i]] = ix.records[seq[j]]
      BY <1>2, <1>3, <2>1
    <3>2. seq[i] = seq[j]
      BY <1>4, <3>1
    <3> QED
      BY <1>2, <3>2
  <2> QED
    BY <1>3, <2>1 DEF IsInjective
<1> DEFINE away(r) == R!Distance(r.key, point)
<1>15. \A id \in D : far[id] = away(ix.records[id])
  BY <1>5
<1> HIDE DEF away
<1>11. \A i \in 1 .. m : away(answer[i]) = far[seq[i]]
  BY <1>2, <1>3, <1>15
<1>12. \A i, j \in DOMAIN answer : i < j => away(answer[i]) <= away(answer[j])
  <2>1. \A i, j \in 1 .. m : i < j => away(answer[i]) <= away(answer[j])
    BY <1>2, <1>11
  <2> QED
    BY <1>3, <2>1
<1>13. ASSUME NEW r \in S \ ToSet(answer), NEW s \in ToSet(answer)
       PROVE  away(s) <= away(r)
  <2>1. PICK d \in D : r = ix.records[d]
    BY <1>4
  <2>2. PICK i \in 1 .. m : s = answer[i]
    BY <1>9
  <2>3. \A j \in 1 .. m : seq[j] # d
    BY <1>3, <1>9, <2>1
  <2>4. far[seq[i]] <= far[d]
    BY <1>2, <2>3
  <2> QED
    BY <1>11, <1>15, <2>1, <2>2, <2>4
<1>14. ToSet(answer) \subseteq S
  BY <1>7, <1>9
<1> QED
  BY <1>2, <1>6, <1>8, <1>10, <1>12, <1>13, <1>14 DEF NearestHolds, answer, away

\* A box finds its points
LEMMA BoxAnswer ==
  ASSUME NEW ix, NEW S, Numbered(ix, S), NEW low, NEW high
  PROVE  /\ Lists(R!SearchBox(ix, low, high), {r \in S : R!InsideBounds(r.key, low, high)})
         /\ \A i, j \in DOMAIN R!SearchBox(ix, low, high) :
              i < j => ~R!Before(R!SearchBox(ix, low, high)[j].key, R!SearchBox(ix, low, high)[i].key)
<1> DEFINE ids   == {id \in R!Intersection(ix, low, high) : R!InsideBounds(ix.points[id], low, high)}
           inside == {r \in S : R!InsideBounds(r.key, low, high)}
<1>1. /\ DOMAIN ix.tree = DOMAIN ix.records /\ ix.tree = ix.points
      /\ \A id \in DOMAIN ix.records : ix.points[id] = ix.records[id].key
      /\ S = {ix.records[id] : id \in DOMAIN ix.records} /\ S \in SUBSET SpatialRows
  BY DEF Numbered, RTrees, Dicts
<1>2. ids = {id \in DOMAIN ix.records : R!InsideBounds(ix.records[id].key, low, high)}
  BY <1>1 DEF R!Intersection
<1>3. ids \in SUBSET DOMAIN ix.records
  BY <1>2
<1>4. inside = {ix.records[id] : id \in ids}
  BY <1>1, <1>2
<1>5. R!SearchBox(ix, low, high) = R!ByPoint(R!RecordsOf(ix, ids))
  BY DEF R!SearchBox
<1>6. inside \in SUBSET SpatialRows
  BY <1>1
<1> HIDE DEF ids, inside
<1>7. Lists(R!RecordsOf(ix, ids), inside)
  BY <1>3, <1>4, RecordsListed
<1>8. /\ Lists(R!ByPoint(R!RecordsOf(ix, ids)), inside)
      /\ \A i, j \in DOMAIN R!ByPoint(R!RecordsOf(ix, ids)) :
           i < j => ~R!Before(R!ByPoint(R!RecordsOf(ix, ids))[j].key, R!ByPoint(R!RecordsOf(ix, ids))[i].key)
  BY <1>6, <1>7, ByPointLists
<1> QED
  BY <1>5, <1>8 DEF inside

\* A numbered R-tree answers boxes, scans and searches for the nearest
LEMMA NumberedSpatial ==
  ASSUME kind = "rtree", RowsInv, Numbered(index, rows)
  PROVE  SpatialAnswers
<1>1. Exactly(SearchAll, rows)
  <2>1. Lists(R!Values(index), rows) /\ rows \in SUBSET SpatialRows
    BY ValuesListed DEF Numbered, RTrees, Dicts
  <2>2. Lists(R!ByPoint(R!Values(index)), rows)
    BY <2>1, ByPointLists
  <2>3. SearchAll = R!ByPoint(R!Values(index))
    BY DEF SearchAll, R!SearchAll
  <2> QED
    BY <2>2, <2>3 DEF Lists, Exactly
<1>2. ASSUME NEW low \in Key, NEW high \in Key
      PROVE  LET answer == R!SearchBox(index, low, high)
             IN  /\ Exactly(answer, {r \in rows : R!InsideBounds(r.key, low, high)})
                 /\ \A i, j \in DOMAIN answer : i < j => ~R!Before(answer[j].key, answer[i].key)
  <2> DEFINE answer == R!SearchBox(index, low, high)
  <2>1. /\ Lists(answer, {r \in rows : R!InsideBounds(r.key, low, high)})
        /\ \A i, j \in DOMAIN answer : i < j => ~R!Before(answer[j].key, answer[i].key)
    BY BoxAnswer
  <2> QED
    BY <2>1 DEF Lists, Exactly
<1>3. ASSUME NEW point \in Key, NEW k \in 1 .. Cardinality(Record)
      PROVE  LET answer == R!SearchNearest(index, point, k)
                 far(r) == R!Distance(r.key, point)
             IN  /\ Len(answer) = Min({k, Cardinality(rows)})
                 /\ IsInjective(answer) /\ ToSet(answer) \subseteq rows
                 /\ \A i, j \in DOMAIN answer : i < j => far(answer[i]) <= far(answer[j])
                 /\ \A r \in rows \ ToSet(answer), s \in ToSet(answer) : far(s) <= far(r)
  <2>1. point \in Points /\ k \in Nat
    BY RecordOfRTree
  <2>2. NearestHolds(R!SearchNearest(index, point, k), rows, point, k)
    BY <2>1, NearestIsNearest
  <2> QED
    BY <2>2 DEF NearestHolds
<1> QED
  BY <1>1, <1>2, <1>3 DEF SpatialAnswers

\* Boxes and nearest neighbours, ties and all: a box finds its points in order,
\* the k nearest are k, nearest first, with none nearer left out
THEOREM SpatialAlways == Spec => []SpatialAnswers
<1>1. Init => RowsInv /\ RTreeInv
  BY RowsInit, RTreeInit
<1>2. RowsInv /\ RTreeInv /\ [Next]_vars => (RowsInv /\ RTreeInv)'
  BY RowsNext, RTreeNext
<1>3. RowsInv /\ RTreeInv => SpatialAnswers
  BY NumberedSpatial DEF RTreeInv, SpatialAnswers
<1> QED
  BY <1>1, <1>2, <1>3, PTL DEF Spec
=============================================================================
