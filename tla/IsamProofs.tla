------------------------------ MODULE IsamProofs ------------------------------
(***************************************************************************)
(* What holds of IndexContract when the index is ISAM: every row has a     *)
(* place, in a primary page or in the chain of one, between the fences of  *)
(* its page, and build, insert and delete keep it so.                      *)
(***************************************************************************)
EXTENDS IndexContractProofs

-----------------------------------------------------------------------------
(* ISAM *)

IsamRecords == [key : DOMAIN MaxCopies["isam"], id : Nat \ {0}]
IsamTables  ==
    [primary  : Seq([high_key : Int, records : Seq(IsamRecords), overflow_head : Nat]),
     overflow : Seq([records : Seq(IsamRecords), next : Nat])]

Links(t)    == [n \in 1 .. Len(t.overflow) |-> t.overflow[n].next]
Chain(t, i) == I!OverflowChain(t, t.primary[i])
Fence(t, i) == t.primary[i].high_key

\* Every overflow page is in one chain, that of its owner, which starts at the
\* owner's head
GoodChains(t, own) ==
    /\ Forward(Len(t.overflow), Links(t))
    /\ \A i \in 1 .. Len(t.primary) : t.primary[i].overflow_head \in 0 .. Len(t.overflow)
    /\ own \in [1 .. Len(t.overflow) -> 1 .. Len(t.primary)]
    /\ \A i \in 1 .. Len(t.primary) :
          /\ Lists(Chain(t, i), {n \in 1 .. Len(t.overflow) : own[n] = i})
          /\ t.primary[i].overflow_head = 0 => Chain(t, i) = <<>>
          /\ t.primary[i].overflow_head # 0 =>
                 Chain(t, i) # <<>> /\ t.overflow[Last(Chain(t, i))].next = 0

\* The lengths of a table are numbers
LEMMA IsamTyped ==
  ASSUME NEW t \in IsamTables
  PROVE  /\ Len(t.primary) \in Nat /\ Len(t.overflow) \in Nat
         /\ DOMAIN t.primary = 1 .. Len(t.primary) /\ DOMAIN t.overflow = 1 .. Len(t.overflow)
         /\ \A i \in 1 .. Len(t.primary) :
               t.primary[i] \in [high_key : Int, records : Seq(IsamRecords), overflow_head : Nat]
         /\ \A n \in 1 .. Len(t.overflow) :
               t.overflow[n] \in [records : Seq(IsamRecords), next : Nat]
<1>1. /\ t.primary \in Seq([high_key : Int, records : Seq(IsamRecords), overflow_head : Nat])
      /\ t.overflow \in Seq([records : Seq(IsamRecords), next : Nat])
  BY DEF IsamTables
<1> QED
  BY <1>1, ElementOfSeq, LenProperties

\* The chain of a page follows the links from its head
LEMMA ChainOfPage ==
  ASSUME NEW t, Len(t.overflow) \in Nat, Forward(Len(t.overflow), Links(t)),
         NEW c, IsChain(c, Len(t.overflow), Links(t)), NEW page
  PROVE  I!OverflowChain(t, page) = c[page.overflow_head]
<1> DEFINE L       == Len(t.overflow)
           Body(f) == [n \in 0 .. L |-> IF n = 0 THEN <<>> ELSE <<n>> \o f[t.overflow[n].next]]
           chain   == CHOOSE f : f = Body(f)
<1>1. I!OverflowChain(t, page) = chain[page.overflow_head]
  BY DEF I!OverflowChain, I!NoPage
<1>2. c = Body(c)
  <2>1. \A n \in 1 .. L : c[n] = <<n>> \o c[t.overflow[n].next]
    BY DEF IsChain, Links
  <2>2. c[0] = <<>> /\ c = [n \in 0 .. L |-> c[n]]
    BY DEF IsChain
  <2>3. ASSUME NEW n \in 0 .. L
        PROVE  c[n] = IF n = 0 THEN <<>> ELSE <<n>> \o c[t.overflow[n].next]
    <3>1. n = 0 \/ n \in 1 .. L
      OBVIOUS
    <3> QED
      BY <2>1, <2>2, <3>1
  <2> QED
    BY <2>2, <2>3
<1>3. chain = Body(chain)
  BY <1>2
<1> HIDE DEF chain
<1>4. \A n \in 0 .. L : chain[n] = IF n = 0 THEN <<>> ELSE <<n>> \o chain[t.overflow[n].next]
  BY <1>3
<1>5. /\ chain = [n \in 0 .. L |-> chain[n]] /\ chain[0] = <<>>
      /\ \A n \in 1 .. L : chain[n] = <<n>> \o chain[Links(t)[n]]
  <2>1. chain = [n \in 0 .. L |-> chain[n]]
    BY <1>3
  <2>2. chain[0] = <<>>
    <3>1. 0 \in 0 .. L
      OBVIOUS
    <3> HIDE DEF L
    <3> QED
      BY <1>4, <3>1
  <2>3. \A n \in 1 .. L : n \in 0 .. L /\ n # 0 /\ Links(t)[n] = t.overflow[n].next
    BY DEF Links
  <2> QED
    BY <1>4, <2>1, <2>2, <2>3
<1>6. chain \in [0 .. L -> Seq(1 .. L)]
  <2> DEFINE T == {k \in Nat : \A m \in 1 .. L : L - m < k => chain[m] = c[m]}
  <2>1. 0 \in T
    OBVIOUS
  <2>2. ASSUME NEW k \in Nat, k \in T PROVE k + 1 \in T
    <3>1. SUFFICES ASSUME NEW m \in 1 .. L, L - m < k + 1 PROVE chain[m] = c[m]
      OBVIOUS
    <3>2. chain[m] = <<m>> \o chain[Links(t)[m]] /\ c[m] = <<m>> \o c[Links(t)[m]] /\ c[0] = chain[0]
      BY <1>5 DEF IsChain
    <3>3. Links(t)[m] = 0 \/ (Links(t)[m] \in 1 .. L /\ L - Links(t)[m] < k)
      BY <3>1 DEF Forward
    <3> QED
      BY <2>2, <3>2, <3>3
  <2> HIDE DEF T
  <2>3. L + 1 \in T
    BY <2>1, <2>2, InductionOnSets
  <2>4. \A m \in 1 .. L : L - m < L + 1
    OBVIOUS
  <2>5. \A m \in 1 .. L : chain[m] = c[m]
    BY <2>3, <2>4 DEF T
  <2>6. \A n \in 0 .. L : chain[n] = c[n]
    <3>1. \A n \in 0 .. L : n = 0 \/ n \in 1 .. L
      OBVIOUS
    <3>2. chain[0] = c[0]
      BY <1>5 DEF IsChain
    <3> QED
      BY <2>5, <3>1, <3>2
  <2> QED
    BY <1>5, <2>6 DEF IsChain
<1>7. IsChain(chain, L, Links(t))
  BY <1>5, <1>6 DEF IsChain
<1> QED
  BY <1>1, <1>7, ChainUnique

\* Tables with the same links have the same chains
LEMMA SameChains ==
  ASSUME NEW t, Len(t.overflow) \in Nat, Forward(Len(t.overflow), Links(t)),
         NEW u, Len(u.overflow) = Len(t.overflow), Links(u) = Links(t), NEW page,
         NEW other, other.overflow_head = page.overflow_head
  PROVE  I!OverflowChain(u, other) = I!OverflowChain(t, page)
<1>1. PICK c : IsChain(c, Len(t.overflow), Links(t))
  BY ChainExists
<1>2. I!OverflowChain(t, page) = c[page.overflow_head]
  BY <1>1, ChainOfPage
<1>3. I!OverflowChain(u, other) = c[other.overflow_head]
  BY <1>1, ChainOfPage
<1> QED
  BY <1>2, <1>3

\* The rows S are each on one page: in the primary page page[r] itself, or in
\* the overflow page spot[r] of its chain
Homes(t, S, own, page, spot) ==
    /\ page \in [S -> 1 .. Len(t.primary)] /\ spot \in [S -> 0 .. Len(t.overflow)]
    /\ \A r \in S : spot[r] # 0 => own[spot[r]] = page[r]

Primaries(S, page, spot, i) == {r \in S : page[r] = i /\ spot[r] = 0}
Overflows(S, spot, n)       == {r \in S : spot[r] = n}
OnPage(S, page, i)          == {r \in S : page[r] = i}
OnPages(S, page, pages)     == {r \in S : page[r] \in pages}

RowsHeld(t, S, page, spot) ==
    /\ \A i \in 1 .. Len(t.primary) :
          /\ Lists(t.primary[i].records, Primaries(S, page, spot, i))
          /\ Len(t.primary[i].records) <= PageCapacity
    /\ \A n \in 1 .. Len(t.overflow) :
          /\ Lists(t.overflow[n].records, Overflows(S, spot, n))
          /\ Len(t.overflow[n].records) <= OverflowCapacity

\* The key of a row is between the fence before its page and its page's
FencesFit(t, S, page) ==
    /\ \A r \in S : /\ r.key <= Fence(t, page[r])
                    /\ page[r] > 1 => Fence(t, page[r] - 1) <= r.key
    /\ \A i, j \in 1 .. Len(t.primary) : i <= j => Fence(t, i) <= Fence(t, j)

Placed(t, S, own, page, spot) ==
    /\ t \in IsamTables /\ GoodChains(t, own)
    /\ Homes(t, S, own, page, spot) /\ RowsHeld(t, S, page, spot) /\ FencesFit(t, S, page)

IsPlaced(t, S) == \E own, page, spot : Placed(t, S, own, page, spot)

\* The library, as the module of ISAM has it
LEMMA SameOfIsam ==
  ASSUME NEW x, NEW y
  PROVE  /\ I!Sorted(x) = Sorted(x) /\ I!Selected(x, y) = Selected(x, y)
         /\ I!InsertSorted(x, y) = InsertSorted(x, y) /\ I!FlattenSeq(x) = FlattenSeq(x)
         /\ I!ToSet(x) = ToSet(x) /\ I!Last(x) = Last(x) /\ I!BisectLeft(x, y) = BisectLeft(x, y)
<1>1. I!Selected(x, y) = Selected(x, y)
  BY DEF I!Selected, Selected, I!FoldLeft, FoldLeft, I!MapThenFoldSet, MapThenFoldSet, I!Max, Max
<1>2. I!Sorted(x) = Sorted(x)
  BY DEF I!Sorted, Sorted, I!FoldLeft, FoldLeft, I!MapThenFoldSet, MapThenFoldSet, I!Max, Max,
         I!InsertSorted, InsertSorted, I!Insert, Insert, I!InsertAt, InsertAt,
         I!BisectRight, BisectRight, I!KeysOf, KeysOf, I!Cardinality, Cardinality
<1>3. I!InsertSorted(x, y) = InsertSorted(x, y)
  BY DEF I!InsertSorted, InsertSorted, I!Insert, Insert, I!InsertAt, InsertAt,
         I!BisectRight, BisectRight, I!KeysOf, KeysOf, I!Cardinality, Cardinality
<1>4. I!FlattenSeq(x) = FlattenSeq(x)
  BY DEF I!FlattenSeq, FlattenSeq
<1>5. I!ToSet(x) = ToSet(x) /\ I!Last(x) = Last(x) /\ I!BisectLeft(x, y) = BisectLeft(x, y)
  BY DEF I!ToSet, ToSet, I!Last, Last, I!BisectLeft, BisectLeft, I!Cardinality, Cardinality
<1> QED
  BY <1>1, <1>2, <1>3, <1>4, <1>5

\* The records of a page and its chain are the rows at home there
LEMMA PageLists ==
  ASSUME NEW t, NEW S \in SUBSET IsamRecords, NEW own, NEW page, NEW spot,
         Placed(t, S, own, page, spot), NEW i \in 1 .. Len(t.primary)
  PROVE  Lists(I!PageRecords(t, t.primary[i]), OnPage(S, page, i))
<1> DEFINE L     == Len(t.overflow)
           chain == Chain(t, i)
           m     == Len(chain)
           mine  == {n \in 1 .. L : own[n] = i}
           lists == [j \in 1 .. m |-> t.overflow[chain[j]].records]
           part  == [j \in 1 .. m |-> Overflows(S, spot, chain[j])]
           first == Primaries(S, page, spot, i)
           rest  == {r \in S : page[r] = i /\ spot[r] # 0}
<1>1. t \in IsamTables /\ L \in Nat
  BY IsamTyped DEF Placed
<1>2. Lists(chain, mine)
  BY DEF Placed, GoodChains
<1>3. /\ m \in Nat /\ DOMAIN chain = 1 .. m /\ \A j \in 1 .. m : chain[j] \in mine
      /\ \A j, k \in 1 .. m : chain[j] = chain[k] => j = k
      /\ \A n \in mine : \E j \in 1 .. m : chain[j] = n
  <2> HIDE DEF chain, mine
  <2>1. chain \in Seq(mine) /\ ToSet(chain) = mine
        /\ \A j, k \in DOMAIN chain : chain[j] = chain[k] => j = k
    BY <1>2 DEF Lists
  <2>2. m \in Nat /\ DOMAIN chain = 1 .. m /\ \A j \in 1 .. m : chain[j] \in mine
    BY <2>1, ElementOfSeq, LenProperties
  <2> QED
    BY <2>1, <2>2 DEF ToSet
<1> HIDE DEF chain, m
<1>4. lists \in [1 .. m -> Seq(IsamRecords)]
  <2>1. \A j \in 1 .. m : chain[j] \in 1 .. L
    BY <1>3
  <2>2. \A n \in 1 .. L : t.overflow[n].records \in Seq(IsamRecords)
    BY <1>1, IsamTyped
  <2> QED
    BY <2>1, <2>2
<1>5. Parts(1 .. m, lists, part)
  <2>1. \A j \in 1 .. m : Lists(lists[j], part[j])
    <3>1. \A n \in 1 .. L : Lists(t.overflow[n].records, Overflows(S, spot, n))
      BY DEF Placed, RowsHeld
    <3> QED
      BY <1>3, <3>1
  <2>2. \A j, k \in 1 .. m : j # k => part[j] \cap part[k] = {}
    <3>1. ASSUME NEW j \in 1 .. m, NEW k \in 1 .. m, j # k, NEW r \in part[j], r \in part[k] PROVE FALSE
      <4>1. spot[r] = chain[j] /\ spot[r] = chain[k]
        BY <3>1 DEF Overflows
      <4> QED
        BY <1>3, <3>1, <4>1
    <3> QED
      BY <3>1
  <2> HIDE DEF lists, part
  <2> QED
    BY <2>1, <2>2 DEF Parts
<1>6. Lists(FlattenSeq(lists), AllOf(1 .. m, part))
  <2> HIDE DEF lists, part
  <2> QED
    BY <1>3, <1>4, <1>5, FlattenLists
<1>7. AllOf(1 .. m, part) = rest
  <2>1. ASSUME NEW r \in rest PROVE \E j \in 1 .. m : r \in part[j]
    <3>1. spot[r] \in mine
      BY DEF Placed, Homes
    <3>2. PICK j \in 1 .. m : chain[j] = spot[r]
      BY <1>3, <3>1
    <3>3. r \in part[j]
      BY <3>2 DEF Overflows
    <3> QED
      BY <3>3
  <2>2. ASSUME NEW j \in 1 .. m, NEW r \in part[j] PROVE r \in rest
    <3>1. r \in S /\ spot[r] = chain[j] /\ chain[j] \in 1 .. L /\ own[chain[j]] = i
      BY <1>3 DEF Overflows
    <3> QED
      BY <3>1 DEF Placed, Homes
  <2> HIDE DEF part, rest
  <2> QED
    BY <2>1, <2>2 DEF AllOf
<1>8. Lists(t.primary[i].records, first)
  BY DEF Placed, RowsHeld
<1>9. first \cap rest = {} /\ first \cup rest = OnPage(S, page, i)
  BY DEF Primaries, OnPage
<1>10. I!PageRecords(t, t.primary[i]) = t.primary[i].records \o FlattenSeq(lists)
  <2>1. I!PageRecords(t, t.primary[i]) =
          t.primary[i].records
            \o I!FlattenSeq([j \in DOMAIN chain |-> t.overflow[chain[j]].records])
    BY DEF I!PageRecords, Chain, chain
  <2>2. [j \in DOMAIN chain |-> t.overflow[chain[j]].records] = lists
    BY <1>3
  <2> HIDE DEF lists
  <2> QED
    BY <2>1, <2>2, SameOfIsam
<1> HIDE DEF lists, part, rest, first
<1> QED
  BY <1>6, <1>7, <1>8, <1>9, <1>10, ListsConcat

\* A key goes to the first page whose fence it does not pass, or the last page
LEMMA FoundPage ==
  ASSUME NEW t \in IsamTables, Len(t.primary) > 0, NEW S, NEW page, FencesFit(t, S, page), NEW key \in Int
  PROVE  /\ I!FindPage(t, key) \in 1 .. Len(t.primary)
         /\ \A j \in 1 .. Len(t.primary) : j < I!FindPage(t, key) => Fence(t, j) < key
         /\ I!FindPage(t, key) < Len(t.primary) => key <= Fence(t, I!FindPage(t, key))
<1> DEFINE N      == Len(t.primary)
           fences == [i \in 1 .. N |-> Fence(t, i)]
           b      == BisectLeft(fences, key)
           n      == I!FindPage(t, key)
<1>1. N \in Nat /\ N > 0 /\ DOMAIN t.primary = 1 .. N /\ \A i \in 1 .. N : Fence(t, i) \in Int
  BY IsamTyped DEF Fence
<1>2. Increasing(fences)
  BY <1>1 DEF Increasing, FencesFit
<1>3. fences \in [1 .. N -> Int] /\ DOMAIN fences = 1 .. N /\ Len(fences) = N
  BY <1>1
<1>4. n = I!Min({b + 1, N})
  <2>1. [i \in DOMAIN t.primary |-> t.primary[i].high_key] = fences
    BY <1>1 DEF Fence
  <2>2. n = I!Min({I!BisectLeft(fences, key) + 1, Len(fences)})
    BY <2>1 DEF I!FindPage
  <2> HIDE DEF fences, n
  <2> QED
    BY <1>3, <2>2, SameOfIsam
<1>5. b \in 0 .. N /\ \A i \in 1 .. N : i <= b <=> fences[i] < key
  <2> HIDE DEF fences
  <2> QED
    BY <1>1, <1>2, <1>3, BisectRange, Bisects
<1> HIDE DEF b, n
<1>6. n = IF b + 1 <= N THEN b + 1 ELSE N
  BY <1>1, <1>4, <1>5 DEF I!Min
<1>7. n \in 1 .. N /\ (\A j \in 1 .. N : j < n => j <= b) /\ (n < N => n = b + 1)
  BY <1>1, <1>5, <1>6
<1>8. \A j \in 1 .. N : j < n => Fence(t, j) < key
  BY <1>5, <1>7
<1>9. n < N => key <= Fence(t, n)
  <2>1. ASSUME n < N PROVE key <= Fence(t, n)
    <3>1. ~(n <= b)
      BY <1>5, <1>7, <2>1
    <3>2. ~(fences[n] < key)
      <4> HIDE DEF fences
      <4> QED
        BY <1>5, <1>7, <3>1
    <3> QED
      BY <1>1, <1>7, <3>2
  <2> QED
    BY <2>1
<1> QED
  BY <1>7, <1>8, <1>9 DEF n

\* The candidate pages of a key have all its rows
LEMMA CandidatesHold ==
  ASSUME NEW t, NEW S \in SUBSET IsamRecords, NEW own, NEW page, NEW spot,
         Placed(t, S, own, page, spot), NEW key \in Int
  PROVE  /\ I!CandidatePages(t, key) \subseteq 1 .. Len(t.primary)
         /\ \A r \in S : r.key = key => page[r] \in I!CandidatePages(t, key)
<1> DEFINE N     == Len(t.primary)
           first == I!FindPage(t, key)
           pages == I!CandidatePages(t, key)
<1>1. /\ t \in IsamTables /\ N \in Nat /\ DOMAIN t.primary = 1 .. N
      /\ \A i \in 1 .. N : Fence(t, i) \in Int
  BY IsamTyped DEF Placed, Fence
<1>2. page \in [S -> 1 .. N] /\ FencesFit(t, S, page)
  BY DEF Placed, Homes
<1>3. CASE N = 0
  <2>1. t.primary = <<>>
    BY <1>1, <1>3, EmptySeq DEF IsamTables
  <2> QED
    BY <1>2, <1>3, <2>1 DEF I!CandidatePages
<1>4. CASE N > 0
  <2>1. t.primary # <<>>
    BY <1>1, <1>4
  <2>2. /\ first \in 1 .. N /\ \A j \in 1 .. N : j < first => Fence(t, j) < key
        /\ first < N => key <= Fence(t, first)
    BY <1>1, <1>2, <1>4, FoundPage
  <2>3. pages = {i \in first .. N : \A j \in first .. i - 1 : t.primary[j].high_key = key}
    BY <2>1 DEF I!CandidatePages
  <2> HIDE DEF first, pages
  <2>4. pages \subseteq 1 .. N
    BY <1>1, <2>2, <2>3
  <2>5. ASSUME NEW r \in S, r.key = key PROVE page[r] \in pages
    <3> DEFINE i == page[r]
    <3>1. i \in 1 .. N /\ key <= Fence(t, i) /\ (i > 1 => Fence(t, i - 1) <= key)
      BY <1>2, <2>5 DEF FencesFit
    <3> HIDE DEF i
    <3>2. i >= first
      BY <1>1, <2>2, <3>1
    <3>3. ASSUME NEW j \in first .. i - 1 PROVE Fence(t, j) = key
      <4>1. j \in 1 .. N /\ i - 1 \in 1 .. N /\ j <= i - 1 /\ first <= j /\ first < N /\ i > 1
        BY <1>1, <2>2, <3>1
      <4>2. Fence(t, first) <= Fence(t, j) /\ Fence(t, j) <= Fence(t, i - 1)
        BY <1>2, <2>2, <4>1 DEF FencesFit
      <4>3. key <= Fence(t, first) /\ Fence(t, i - 1) <= key
        BY <2>2, <3>1, <4>1
      <4>4. Fence(t, first) \in Int /\ Fence(t, j) \in Int /\ Fence(t, i - 1) \in Int
        BY <1>1, <2>2, <4>1
      <4> QED
        BY <4>2, <4>3, <4>4
    <3>4. i \in first .. N
      BY <1>1, <2>2, <3>1, <3>2
    <3> QED
      BY <2>3, <3>3, <3>4 DEF i, Fence
  <2> QED
    BY <2>4, <2>5 DEF pages
<1> QED
  BY <1>1, <1>3, <1>4

\* What some pages hold, one page after the other
RecordsOn(t, pages) ==
    FlattenSeq([i \in DOMAIN t.primary |->
                   IF i \in pages THEN I!PageRecords(t, t.primary[i]) ELSE <<>>])

\* The records of some pages, one page after the other
LEMMA PagesJoined ==
  ASSUME NEW t, NEW S \in SUBSET IsamRecords, NEW own, NEW page, NEW spot,
         Placed(t, S, own, page, spot), NEW pages \in SUBSET (1 .. Len(t.primary))
  PROVE  Lists(RecordsOn(t, pages), OnPages(S, page, pages))
<1> DEFINE N     == Len(t.primary)
           found == [i \in 1 .. N |-> IF i \in pages THEN I!PageRecords(t, t.primary[i]) ELSE <<>>]
           part  == [i \in 1 .. N |-> IF i \in pages THEN OnPage(S, page, i) ELSE {}]
<1>1. t \in IsamTables /\ N \in Nat /\ DOMAIN t.primary = 1 .. N /\ page \in [S -> 1 .. N]
  BY IsamTyped DEF Placed, Homes
<1>2. \A i \in 1 .. N : Lists(found[i], part[i])
  <2>1. ASSUME NEW i \in 1 .. N PROVE Lists(found[i], part[i])
    <3>1. CASE i \in pages
      <4>1. Lists(I!PageRecords(t, t.primary[i]), OnPage(S, page, i))
        BY PageLists
      <4> QED
        BY <3>1, <4>1
    <3>2. CASE i \notin pages
      BY <3>2, ListsNothing
    <3> QED
      BY <3>1, <3>2
  <2> QED
    BY <2>1
<1>3. \A i, j \in 1 .. N : i # j => part[i] \cap part[j] = {}
  BY DEF OnPage
<1>4. \A i \in 1 .. N : part[i] \subseteq IsamRecords
  BY DEF OnPage
<1>5. AllOf(1 .. N, part) = OnPages(S, page, pages)
  <2>1. ASSUME NEW r \in S, page[r] \in pages PROVE \E i \in 1 .. N : r \in part[i]
    BY <1>1, <2>1 DEF OnPage
  <2>2. ASSUME NEW i \in 1 .. N, NEW r \in part[i] PROVE r \in S /\ page[r] \in pages
    BY DEF OnPage
  <2> HIDE DEF part
  <2> QED
    BY <2>1, <2>2 DEF AllOf, OnPages
<1> HIDE DEF found, part
<1>6. found \in [1 .. N -> Seq(IsamRecords)]
  <2>1. ASSUME NEW i \in 1 .. N PROVE found[i] \in Seq(IsamRecords)
    <3>1. found[i] \in Seq(part[i]) /\ part[i] \subseteq IsamRecords
      BY <1>2, <1>4 DEF Lists
    <3> QED
      BY <3>1, SeqMonotonic
  <2>2. found = [i \in 1 .. N |-> found[i]]
    BY DEF found
  <2> QED
    BY <2>1, <2>2
<1>7. Parts(1 .. N, found, part)
  BY <1>2, <1>3 DEF Parts
<1>8. Lists(FlattenSeq(found), AllOf(1 .. N, part))
  BY <1>1, <1>6, <1>7, FlattenLists
<1> QED
  BY <1>1, <1>5, <1>8 DEF found, RecordsOn

\* A search by key finds its rows
LEMMA IsamKeyFound ==
  ASSUME NEW t, NEW S \in SUBSET IsamRecords, NEW own, NEW page, NEW spot,
         Placed(t, S, own, page, spot), NEW key \in Int
  PROVE  Lists(I!SearchKey(t, key), {r \in S : r.key = key})
<1> DEFINE pages   == I!CandidatePages(t, key)
           records == RecordsOn(t, pages)
           near    == OnPages(S, page, pages)
           wanted  == {r \in ToSet(records) : r.key = key}
<1>1. pages \subseteq 1 .. Len(t.primary) /\ \A r \in S : r.key = key => page[r] \in pages
  BY CandidatesHold
<1>2. Lists(records, near)
  <2>1. pages \in SUBSET (1 .. Len(t.primary))
    BY <1>1
  <2> HIDE DEF pages
  <2> QED
    BY <2>1, PagesJoined
<1>3. I!SearchKey(t, key) = Selected(records, wanted)
  <2>1. I!SearchKey(t, key) =
          I!Selected(I!FlattenSeq([i \in DOMAIN t.primary |->
                         IF i \in pages THEN I!PageRecords(t, t.primary[i]) ELSE <<>>]),
                     {r \in I!ToSet(I!FlattenSeq([i \in DOMAIN t.primary |->
                         IF i \in pages THEN I!PageRecords(t, t.primary[i]) ELSE <<>>])) : r.key = key})
    BY DEF I!SearchKey
  <2> QED
    BY <2>1, SameOfIsam DEF RecordsOn
<1> HIDE DEF records, pages
<1>4. near \cap wanted = {r \in S : r.key = key}
  <2>1. ToSet(records) = near
    BY <1>2 DEF Lists
  <2> QED
    BY <1>1, <2>1 DEF OnPages
<1> HIDE DEF near, wanted
<1> QED
  BY <1>2, <1>3, <1>4, SelectedLists

\* A scan finds every row
LEMMA IsamScan ==
  ASSUME NEW t, NEW S \in SUBSET IsamRecords, NEW own, NEW page, NEW spot,
         Placed(t, S, own, page, spot)
  PROVE  Lists(I!SearchAll(t), S)
<1> DEFINE N == Len(t.primary)
<1>1. DOMAIN t.primary = 1 .. N /\ page \in [S -> 1 .. N]
  BY IsamTyped DEF Placed, Homes
<1>2. Lists(RecordsOn(t, 1 .. N), OnPages(S, page, 1 .. N))
  <2> DEFINE all == 1 .. N
  <2>1. all \in SUBSET (1 .. Len(t.primary))
    OBVIOUS
  <2> HIDE DEF all
  <2>2. Lists(RecordsOn(t, all), OnPages(S, page, all))
    BY <2>1, PagesJoined
  <2> QED
    BY <2>2 DEF all
<1>3. OnPages(S, page, 1 .. N) = S
  BY <1>1 DEF OnPages
<1>4. [i \in DOMAIN t.primary |-> IF i \in 1 .. N THEN I!PageRecords(t, t.primary[i]) ELSE <<>>]
        = [i \in DOMAIN t.primary |-> I!PageRecords(t, t.primary[i])]
  BY <1>1
<1>5. I!SearchAll(t) = FlattenSeq([i \in DOMAIN t.primary |-> I!PageRecords(t, t.primary[i])])
  BY SameOfIsam DEF I!SearchAll, I!AllRecords
<1> QED
  BY <1>2, <1>3, <1>4, <1>5 DEF RecordsOn

\* The filter, as the module of ISAM has it
LEMMA SameOfIsamFilter == ASSUME NEW p, NEW x PROVE I!Filter(p, x) = Filter(p, x)
<1>1. I!Sorted(I!Selected(x, {r \in ToSet(x) : ~TooLow(p, r.key) /\ ~TooHigh(p, r.key)}))
        = Sorted(Selected(x, {r \in ToSet(x) : ~TooLow(p, r.key) /\ ~TooHigh(p, r.key)}))
  BY SameOfIsam
<1> QED
  BY <1>1 DEF I!Filter, Filter, I!TooLow, TooLow, I!TooHigh, TooHigh, I!TypeError, TypeError,
         I!Answer, Answer, I!ToSet, ToSet

\* Ranges skip pages that have no row within
LEMMA IsamRanges ==
  ASSUME kind = "isam", rows \subseteq Record, rows \subseteq IsamRecords, IsPlaced(index, rows)
  PROVE  RangeAnswers
<1> DEFINE N == Len(index.primary)
<1>1. PICK own, page, spot : Placed(index, rows, own, page, spot)
  BY DEF IsPlaced
<1>2. Exactly(SearchAll, rows)
  <2>1. Lists(I!SearchAll(index), rows) /\ SearchAll = I!SearchAll(index)
    BY <1>1, IsamScan DEF SearchAll
  <2> QED
    BY <2>1 DEF Lists, Exactly
<1>3. /\ index \in IsamTables /\ N \in Nat /\ DOMAIN index.primary = 1 .. N
      /\ page \in [rows -> 1 .. N] /\ FencesFit(index, rows, page)
      /\ \A i \in 1 .. N : Fence(index, i) \in Int
  BY <1>1, IsamTyped DEF Placed, Homes, Fence
<1>4. Key \subseteq Int /\ None \notin Key /\ kind \in Ordered /\ \A r \in rows : r.key \in Key
  BY KeysAssumption DEF Key, Record, Ordered
<1>5. ASSUME NEW low \in Key, NEW high \in Key, NEW includeLow \in BOOLEAN, NEW includeHigh \in BOOLEAN
      PROVE  LET p      == RangePredicate(low, high, includeLow, includeHigh)
                 answer == SearchRange(p)
             IN  /\ ~answer.raised
                 /\ Exactly(answer.records, {r \in rows : ~TooLow(p, r.key) /\ ~TooHigh(p, r.key)})
                 /\ InKeyOrder(answer.records)
  <2> DEFINE p       == RangePredicate(low, high, includeLow, includeHigh)
             within  == {r \in rows : ~TooLow(p, r.key) /\ ~TooHigh(p, r.key)}
             pages   == {i \in 1 .. N : Fence(index, i) >= low}
             records == RecordsOn(index, pages)
             near    == OnPages(rows, page, pages)
  <2>1. p.low = low /\ p.high = high /\ p.low # None /\ low \in Int
    BY <1>4 DEF RangePredicate
  <2>2. Lists(records, near)
    <3>1. pages \in SUBSET (1 .. Len(index.primary)) /\ rows \in SUBSET IsamRecords
      OBVIOUS
    <3> HIDE DEF pages
    <3> QED
      BY <1>1, <3>1, PagesJoined
  <2>3. within \subseteq near
    <3>1. ASSUME NEW r \in within PROVE page[r] \in pages
      <4>1. ~(r.key < low) /\ r.key \in Int
        BY <1>4, <2>1 DEF TooLow
      <4>2. page[r] \in 1 .. N /\ r.key <= Fence(index, page[r])
        BY <1>3 DEF FencesFit
      <4> QED
        BY <1>3, <2>1, <4>1, <4>2
    <3> QED
      BY <3>1 DEF OnPages
  <2>4. CASE index.primary = <<>>
    <3>1. SearchRange(p) = Answer(<<>>)
      BY <2>4 DEF SearchRange, I!SearchRange, I!Answer, Answer
    <3>2. within = {}
      BY <1>3, <2>4
    <3>3. ~Answer(<<>>).raised /\ Answer(<<>>).records = <<>>
      BY DEF Answer
    <3> HIDE DEF within, p
    <3>4. Exactly(<<>>, within) /\ InKeyOrder(<<>>)
      <4>1. Lists(<<>>, within)
        BY <3>2, ListsNothing
      <4> QED
        BY <4>1 DEF Lists, Exactly, InKeyOrder
    <3>5. /\ ~SearchRange(p).raised /\ Exactly(SearchRange(p).records, within)
          /\ InKeyOrder(SearchRange(p).records)
      BY <3>1, <3>3, <3>4
    <3> QED
      BY <3>5 DEF within, p
  <2>5. CASE index.primary # <<>>
    <3>1. SearchRange(p) = Filter(p, records)
      <4>1. [i \in DOMAIN index.primary |->
               IF index.primary[i].high_key >= p.low THEN I!PageRecords(index, index.primary[i]) ELSE <<>>]
            = [i \in DOMAIN index.primary |->
                 IF i \in pages THEN I!PageRecords(index, index.primary[i]) ELSE <<>>]
        BY <1>3, <2>1 DEF Fence
      <4>2. I!SearchRange(index, p) = I!Filter(p, I!FlattenSeq(
               [i \in DOMAIN index.primary |->
                  IF index.primary[i].high_key >= p.low THEN I!PageRecords(index, index.primary[i]) ELSE <<>>]))
        BY <2>1, <2>5 DEF I!SearchRange
      <4> HIDE DEF p
      <4>3. I!SearchRange(index, p) = Filter(p, records)
        BY <4>1, <4>2, SameOfIsam, SameOfIsamFilter DEF RecordsOn
      <4> QED
        BY <4>3 DEF SearchRange
    <3> HIDE DEF records
    <3>2. LET answer == Filter(p, records)
          IN  /\ ~answer.raised /\ Exactly(answer.records, within) /\ InKeyOrder(answer.records)
      <4>1. near \subseteq rows
        BY DEF OnPages
      <4> HIDE DEF near
      <4> QED
        BY <1>4, <2>2, <2>3, <4>1, FilterAnswers
    <3> QED
      BY <3>1, <3>2
  <2> QED
    BY <2>4, <2>5
<1> QED
  BY <1>2, <1>5 DEF RangeAnswers

\* A record of one list that stays on a page is on it as before
Leaving(S, key) == {r \in S : r.key # key}

\* The records of a page that stay when a key is deleted
LEMMA KeptLists ==
  ASSUME NEW seq, NEW Q, Lists(seq, Q), NEW key
  PROVE  /\ Lists(I!Selected(seq, {r \in I!ToSet(seq) : r.key # key}), Leaving(Q, key))
         /\ Len(I!Selected(seq, {r \in I!ToSet(seq) : r.key # key})) <= Len(seq)
<1> DEFINE wanted == {r \in ToSet(seq) : r.key # key}
           kept   == Selected(seq, wanted)
<1>1. I!Selected(seq, {r \in I!ToSet(seq) : r.key # key}) = kept
  BY SameOfIsam
<1>2. Q \cap wanted = Leaving(Q, key)
  BY DEF Lists, Leaving
<1> HIDE DEF wanted
<1>3. Lists(kept, Leaving(Q, key))
  BY <1>2, SelectedLists
<1>4. Len(kept) <= Len(seq)
  <2> HIDE DEF kept
  <2>1. Len(kept) = Cardinality(Leaving(Q, key)) /\ Len(seq) = Cardinality(Q) /\ IsFiniteSet(Q)
    BY <1>3 DEF Lists
  <2>2. Leaving(Q, key) \in SUBSET Q
    BY DEF Leaving
  <2>3. Cardinality(Leaving(Q, key)) <= Cardinality(Q)
    BY <2>1, <2>2, FS_Subset
  <2> QED
    BY <2>1, <2>3
<1> QED
  BY <1>1, <1>3, <1>4

\* A sequence changed place by place
LEMMA MappedSeq ==
  ASSUME NEW V, NEW s \in Seq(V), NEW q, q = [i \in DOMAIN s |-> q[i]], \A i \in DOMAIN s : q[i] \in V
  PROVE  q \in Seq(V) /\ Len(q) = Len(s)
<1>1. Len(s) \in Nat /\ DOMAIN s = 1 .. Len(s)
  OBVIOUS
<1> QED
  BY <1>1

\* A delete takes the rows of its key from their pages; chains and fences stay
LEMMA IsamDeleted ==
  ASSUME NEW t, NEW S \in SUBSET IsamRecords, NEW own, NEW page, NEW spot,
         Placed(t, S, own, page, spot), NEW key \in Int
  PROVE  IsPlaced(I!Delete(t, key), Leaving(S, key))
<1> DEFINE N      == Len(t.primary)
           L      == Len(t.overflow)
           pages  == I!CandidatePages(t, key)
           chains == UNION {I!ToSet(I!OverflowChain(t, t.primary[i])) : i \in pages}
           kept(records) == I!Selected(records, {r \in I!ToSet(records) : r.key # key})
           u      == I!Delete(t, key)
           Q      == Leaving(S, key)
           home   == [r \in Q |-> page[r]]
           place  == [r \in Q |-> spot[r]]
<1>1. /\ t \in IsamTables /\ N \in Nat /\ L \in Nat
      /\ DOMAIN t.primary = 1 .. N /\ DOMAIN t.overflow = 1 .. L
      /\ GoodChains(t, own) /\ Homes(t, S, own, page, spot)
      /\ RowsHeld(t, S, page, spot) /\ FencesFit(t, S, page)
  BY IsamTyped DEF Placed
<1>2. pages \subseteq 1 .. N /\ \A r \in S : r.key = key => page[r] \in pages
  BY CandidatesHold
<1>3. u = [primary  |-> [i \in 1 .. N |-> IF i \in pages THEN [t.primary[i] EXCEPT !.records = kept(@)]
                                                         ELSE t.primary[i]],
           overflow |-> [n \in 1 .. L |-> IF n \in chains THEN [t.overflow[n] EXCEPT !.records = kept(@)]
                                                          ELSE t.overflow[n]]]
  BY <1>1 DEF I!Delete
<1> HIDE DEF pages
<1>4. \A n \in 1 .. L : n \in chains <=> own[n] \in pages
  <2>1. \A i \in pages : I!ToSet(I!OverflowChain(t, t.primary[i])) = {n \in 1 .. L : own[n] = i}
    <3>1. \A i \in 1 .. N : Lists(Chain(t, i), {n \in 1 .. L : own[n] = i})
      BY <1>1 DEF GoodChains
    <3>2. \A i \in 1 .. N : ToSet(Chain(t, i)) = {n \in 1 .. L : own[n] = i}
      BY <3>1 DEF Lists
    <3> QED
      BY <1>2, <3>2, SameOfIsam DEF Chain
  <2> QED
    BY <2>1
<1>5. \A seq, R2 : Lists(seq, R2) => Lists(kept(seq), Leaving(R2, key)) /\ Len(kept(seq)) <= Len(seq)
  BY KeptLists
<1> HIDE DEF chains, kept, u
<1>6. ASSUME NEW i \in 1 .. N
      PROVE  /\ u.primary[i] = [t.primary[i] EXCEPT !.records = u.primary[i].records]
             /\ u.primary[i].high_key = t.primary[i].high_key
             /\ u.primary[i].overflow_head = t.primary[i].overflow_head
             /\ Lists(u.primary[i].records, Leaving(Primaries(S, page, spot, i), key))
             /\ Len(u.primary[i].records) <= PageCapacity
  <2>1. Lists(t.primary[i].records, Primaries(S, page, spot, i)) /\ Len(t.primary[i].records) <= PageCapacity
    BY <1>1 DEF RowsHeld
  <2>2. t.primary[i] \in [high_key : Int, records : Seq(IsamRecords), overflow_head : Nat]
    BY <1>1, IsamTyped
  <2>3. CASE i \in pages
    <3>1. u.primary[i] = [t.primary[i] EXCEPT !.records = kept(t.primary[i].records)]
      BY <1>3, <2>3
    <3>2. /\ Lists(kept(t.primary[i].records), Leaving(Primaries(S, page, spot, i), key))
          /\ Len(kept(t.primary[i].records)) <= Len(t.primary[i].records)
      BY <1>5, <2>1
    <3>3. Len(kept(t.primary[i].records)) <= PageCapacity
      <4>1. Len(kept(t.primary[i].records)) \in Nat /\ Len(t.primary[i].records) \in Nat
        BY <2>1, <3>2, LenProperties DEF Lists
      <4> QED
        BY <2>1, <3>2, <4>1, CapacityAssumption
    <3> QED
      BY <2>2, <3>1, <3>2, <3>3
  <2>4. CASE i \notin pages
    <3>1. u.primary[i] = t.primary[i]
      BY <1>3, <2>4
    <3>2. Leaving(Primaries(S, page, spot, i), key) = Primaries(S, page, spot, i)
      BY <1>2, <2>4 DEF Leaving, Primaries
    <3> QED
      BY <2>1, <2>2, <3>1, <3>2
  <2> QED
    BY <2>3, <2>4
<1>7. ASSUME NEW n \in 1 .. L
      PROVE  /\ u.overflow[n] = [t.overflow[n] EXCEPT !.records = u.overflow[n].records]
             /\ u.overflow[n].next = t.overflow[n].next
             /\ Lists(u.overflow[n].records, Leaving(Overflows(S, spot, n), key))
             /\ Len(u.overflow[n].records) <= OverflowCapacity
  <2>1. Lists(t.overflow[n].records, Overflows(S, spot, n)) /\ Len(t.overflow[n].records) <= OverflowCapacity
    BY <1>1 DEF RowsHeld
  <2>2. t.overflow[n] \in [records : Seq(IsamRecords), next : Nat]
    BY <1>1, IsamTyped
  <2>3. CASE n \in chains
    <3>1. u.overflow[n] = [t.overflow[n] EXCEPT !.records = kept(t.overflow[n].records)]
      BY <1>3, <2>3
    <3>2. /\ Lists(kept(t.overflow[n].records), Leaving(Overflows(S, spot, n), key))
          /\ Len(kept(t.overflow[n].records)) <= Len(t.overflow[n].records)
      BY <1>5, <2>1
    <3>3. Len(kept(t.overflow[n].records)) <= OverflowCapacity
      <4>1. Len(kept(t.overflow[n].records)) \in Nat /\ Len(t.overflow[n].records) \in Nat
        BY <2>1, <3>2, LenProperties DEF Lists
      <4> QED
        BY <2>1, <3>2, <4>1, CapacityAssumption
    <3> QED
      BY <2>2, <3>1, <3>2, <3>3
  <2>4. CASE n \notin chains
    <3>1. u.overflow[n] = t.overflow[n]
      BY <1>3, <2>4
    <3>2. Leaving(Overflows(S, spot, n), key) = Overflows(S, spot, n)
      <4>1. ASSUME NEW r \in S, spot[r] = n PROVE r.key # key
        <5>1. own[n] \notin pages /\ n # 0
          BY <1>4, <2>4
        <5>2. page[r] = own[n]
          BY <1>1, <4>1, <5>1 DEF Homes
        <5> QED
          BY <1>2, <5>1, <5>2
      <4> QED
        BY <4>1 DEF Leaving, Overflows
    <3> QED
      BY <2>1, <2>2, <3>1, <3>2
  <2> QED
    BY <2>3, <2>4
<1>8. Q \subseteq S /\ Q \subseteq IsamRecords
  BY DEF Leaving
<1>9. /\ \A i \in 1 .. N : Leaving(Primaries(S, page, spot, i), key) = Primaries(Q, home, place, i)
      /\ \A n \in 1 .. L : Leaving(Overflows(S, spot, n), key) = Overflows(Q, place, n)
  BY DEF Leaving, Primaries, Overflows
<1>10. /\ DOMAIN u.primary = 1 .. N /\ DOMAIN u.overflow = 1 .. L
       /\ u.primary = [i \in DOMAIN t.primary |-> u.primary[i]]
       /\ u.overflow = [n \in DOMAIN t.overflow |-> u.overflow[n]]
       /\ u = [primary |-> u.primary, overflow |-> u.overflow]
  BY <1>1, <1>3
<1>11. u \in IsamTables /\ Len(u.primary) = N /\ Len(u.overflow) = L
  <2> DEFINE PV == [high_key : Int, records : Seq(IsamRecords), overflow_head : Nat]
             OV == [records : Seq(IsamRecords), next : Nat]
  <2>1. t.primary \in Seq(PV) /\ t.overflow \in Seq(OV)
    BY <1>1 DEF IsamTables
  <2>2. \A i \in DOMAIN t.primary : u.primary[i] \in PV
    <3>1. ASSUME NEW i \in 1 .. N PROVE u.primary[i] \in PV
      <4>1. u.primary[i].records \in Seq(IsamRecords)
        <5>1. u.primary[i].records \in Seq(Leaving(Primaries(S, page, spot, i), key))
          BY <1>6 DEF Lists
        <5>2. Leaving(Primaries(S, page, spot, i), key) \subseteq IsamRecords
          BY DEF Leaving, Primaries
        <5> QED
          BY <5>1, <5>2, SeqMonotonic
      <4>2. t.primary[i] \in PV
        BY <1>1, IsamTyped
      <4> QED
        BY <1>6, <4>1, <4>2
    <3> QED
      BY <1>1, <3>1
  <2>3. \A n \in DOMAIN t.overflow : u.overflow[n] \in OV
    <3>1. ASSUME NEW n \in 1 .. L PROVE u.overflow[n] \in OV
      <4>1. u.overflow[n].records \in Seq(IsamRecords)
        <5>1. u.overflow[n].records \in Seq(Leaving(Overflows(S, spot, n), key))
          BY <1>7 DEF Lists
        <5>2. Leaving(Overflows(S, spot, n), key) \subseteq IsamRecords
          BY DEF Leaving, Overflows
        <5> QED
          BY <5>1, <5>2, SeqMonotonic
      <4>2. t.overflow[n] \in OV
        BY <1>1, IsamTyped
      <4> QED
        BY <1>7, <4>1, <4>2
    <3> QED
      BY <1>1, <3>1
  <2> HIDE DEF PV, OV
  <2>4. u.primary \in Seq(PV) /\ Len(u.primary) = N
    BY <1>10, <2>1, <2>2, MappedSeq
  <2>5. u.overflow \in Seq(OV) /\ Len(u.overflow) = L
    BY <1>10, <2>1, <2>3, MappedSeq
  <2> QED
    BY <1>10, <2>4, <2>5 DEF IsamTables, PV, OV
<1>12. GoodChains(u, own)
  <2>1. Links(u) = Links(t)
    BY <1>7, <1>11 DEF Links
  <2>2. \A i \in 1 .. N : Chain(u, i) = Chain(t, i)
    <3>1. ASSUME NEW i \in 1 .. N PROVE Chain(u, i) = Chain(t, i)
      <4> DEFINE old == t.primary[i]
                 new == u.primary[i]
      <4>1. L \in Nat /\ Forward(L, Links(t)) /\ Len(u.overflow) = L
        BY <1>1, <1>11 DEF GoodChains
      <4>2. new.overflow_head = old.overflow_head
        BY <1>6
      <4> HIDE DEF old, new
      <4>3. I!OverflowChain(u, new) = I!OverflowChain(t, old)
        BY <2>1, <4>1, <4>2, SameChains
      <4> QED
        BY <4>3 DEF Chain, old, new
    <3> QED
      BY <3>1
  <2>3. \A i \in 1 .. N : Chain(t, i) # <<>> => Last(Chain(t, i)) \in 1 .. L
    <3>1. ASSUME NEW i \in 1 .. N, Chain(t, i) # <<>> PROVE Last(Chain(t, i)) \in 1 .. L
      <4> DEFINE c == Chain(t, i)
      <4>1. c \in Seq({n \in 1 .. L : own[n] = i})
        BY <1>1 DEF GoodChains, Lists
      <4>2. c \in Seq(1 .. L)
        BY <4>1, SeqMonotonic
      <4> HIDE DEF c
      <4>3. c[Len(c)] \in 1 .. L
        BY <3>1, <4>2 DEF c
      <4> QED
        BY <4>3 DEF Last, c
    <3> QED
      BY <3>1
  <2>4. Forward(L, Links(t)) /\ own \in [1 .. L -> 1 .. N]
    BY <1>1 DEF GoodChains
  <2>5. ASSUME NEW i \in 1 .. N
        PROVE  /\ u.primary[i].overflow_head \in 0 .. L
               /\ Lists(Chain(u, i), {n \in 1 .. L : own[n] = i})
               /\ u.primary[i].overflow_head = 0 => Chain(u, i) = <<>>
               /\ u.primary[i].overflow_head # 0 =>
                      Chain(u, i) # <<>> /\ u.overflow[Last(Chain(u, i))].next = 0
    <3>1. /\ t.primary[i].overflow_head \in 0 .. L
          /\ Lists(Chain(t, i), {n \in 1 .. L : own[n] = i})
          /\ t.primary[i].overflow_head = 0 => Chain(t, i) = <<>>
          /\ t.primary[i].overflow_head # 0 =>
                 Chain(t, i) # <<>> /\ t.overflow[Last(Chain(t, i))].next = 0
      BY <1>1 DEF GoodChains
    <3>2. Chain(u, i) = Chain(t, i) /\ u.primary[i].overflow_head = t.primary[i].overflow_head
      BY <1>6, <2>2
    <3>3. Chain(t, i) # <<>> => u.overflow[Last(Chain(t, i))].next = t.overflow[Last(Chain(t, i))].next
      BY <1>7, <2>3
    <3> QED
      BY <3>1, <3>2, <3>3
  <2> HIDE DEF N, L
  <2> QED
    BY <1>11, <2>1, <2>4, <2>5 DEF GoodChains
<1> HIDE DEF home, place
<1>13. Homes(u, Q, own, home, place) /\ RowsHeld(u, Q, home, place)
  <2>1. home \in [Q -> 1 .. N] /\ place \in [Q -> 0 .. L] /\ \A r \in Q : place[r] # 0 => own[place[r]] = home[r]
    BY <1>1, <1>8 DEF Homes, home, place
  <2>2. Homes(u, Q, own, home, place)
    BY <1>11, <2>1 DEF Homes
  <2>3. \A i \in 1 .. N : /\ Lists(u.primary[i].records, Primaries(Q, home, place, i))
                           /\ Len(u.primary[i].records) <= PageCapacity
    BY <1>6, <1>9
  <2>4. \A n \in 1 .. L : /\ Lists(u.overflow[n].records, Overflows(Q, place, n))
                           /\ Len(u.overflow[n].records) <= OverflowCapacity
    BY <1>7, <1>9
  <2> HIDE DEF Q, N, L
  <2>5. RowsHeld(u, Q, home, place)
    BY <1>11, <2>3, <2>4 DEF RowsHeld
  <2> QED
    BY <2>2, <2>5
<1>14. FencesFit(u, Q, home)
  <2>1. \A i \in 1 .. N : Fence(u, i) = Fence(t, i)
    BY <1>6 DEF Fence
  <2>2. ASSUME NEW r \in Q PROVE r.key <= Fence(u, home[r]) /\ (home[r] > 1 => Fence(u, home[r] - 1) <= r.key)
    <3>1. r \in S /\ home[r] = page[r] /\ page[r] \in 1 .. N
      BY <1>1, <1>8 DEF home, Homes
    <3>2. page[r] > 1 => page[r] - 1 \in 1 .. N
      BY <3>1
    <3> QED
      BY <1>1, <2>1, <3>1, <3>2 DEF FencesFit
  <2> QED
    BY <1>1, <1>11, <2>1, <2>2 DEF FencesFit
<1>15. Placed(u, Q, own, home, place)
  BY <1>11, <1>12, <1>13, <1>14 DEF Placed
<1> QED
  BY <1>15 DEF IsPlaced, u

\* The row r, which comes to the page n, in its primary page or in an overflow page
Coming(S, page, n, r) == [q \in S \cup {r} |-> IF q = r THEN n ELSE page[q]]
With(S, is, r)        == IF is THEN S \cup {r} ELSE S

\* One more row at home, if the lists of records have one more
LEMMA OneMorePlaced ==
  ASSUME NEW t, NEW S \in SUBSET IsamRecords, NEW own, NEW page, NEW spot,
         Placed(t, S, own, page, spot), NEW r \in IsamRecords, r \notin S,
         NEW n \in 1 .. Len(t.primary), NEW u \in IsamTables, NEW owner, GoodChains(u, owner),
         Len(u.primary) = Len(t.primary), Len(t.overflow) <= Len(u.overflow),
         \A m \in 1 .. Len(t.overflow) : owner[m] = own[m],
         NEW p \in 0 .. Len(u.overflow), p # 0 => owner[p] = n,
         \A i \in 1 .. Len(t.primary) : Fence(u, i) = Fence(t, i),
         r.key <= Fence(t, n), n > 1 => Fence(t, n - 1) <= r.key,
         \A i \in 1 .. Len(t.primary) :
            /\ Lists(u.primary[i].records, With(Primaries(S, page, spot, i), i = n /\ p = 0, r))
            /\ Len(u.primary[i].records) <= PageCapacity,
         \A m \in 1 .. Len(u.overflow) :
            /\ Lists(u.overflow[m].records, With(Overflows(S, spot, m), m = p, r))
            /\ Len(u.overflow[m].records) <= OverflowCapacity
  PROVE  Placed(u, S \cup {r}, owner, Coming(S, page, n, r), Coming(S, spot, p, r))
<1> DEFINE N     == Len(t.primary)
           L     == Len(t.overflow)
           M     == Len(u.overflow)
           Q     == S \cup {r}
           home  == Coming(S, page, n, r)
           place == Coming(S, spot, p, r)
<1>1. /\ t \in IsamTables /\ N \in Nat /\ L \in Nat /\ M \in Nat
      /\ Homes(t, S, own, page, spot) /\ FencesFit(t, S, page)
  BY IsamTyped DEF Placed
<1>2. /\ home = [q \in Q |-> home[q]] /\ place = [q \in Q |-> place[q]]
      /\ home[r] = n /\ place[r] = p
      /\ \A q \in S : home[q] = page[q] /\ place[q] = spot[q] /\ q # r
  BY DEF Coming
<1>3. \A q \in S : page[q] \in 1 .. N /\ spot[q] \in 0 .. L /\ (spot[q] # 0 => own[spot[q]] = page[q])
  BY <1>1 DEF Homes
<1> HIDE DEF home, place
<1>4. Homes(u, Q, owner, home, place)
  <2>1. ASSUME NEW q \in Q
        PROVE  /\ home[q] \in 1 .. N /\ place[q] \in 0 .. M
               /\ place[q] # 0 => owner[place[q]] = home[q]
    <3>1. CASE q = r
      BY <1>2, <3>1
    <3>2. CASE q \in S
      <4>1. spot[q] \in 0 .. L /\ spot[q] \in 0 .. M
        BY <1>1, <1>3, <3>2
      <4>2. spot[q] # 0 => spot[q] \in 1 .. L
        BY <4>1
      <4> QED
        BY <1>2, <1>3, <3>2, <4>1, <4>2
    <3> QED
      BY <3>1, <3>2
  <2>2. home \in [Q -> 1 .. N]
    BY <1>2, <2>1
  <2>3. place \in [Q -> 0 .. M]
    BY <1>2, <2>1
  <2> HIDE DEF N, M
  <2> QED
    BY <2>1, <2>2, <2>3 DEF Homes, N, M
<1>5. RowsHeld(u, Q, home, place)
  <2>1. ASSUME NEW i \in 1 .. N
        PROVE  Primaries(Q, home, place, i) = With(Primaries(S, page, spot, i), i = n /\ p = 0, r)
    <3>1. Primaries(Q, home, place, i) \subseteq With(Primaries(S, page, spot, i), i = n /\ p = 0, r)
      BY <1>2 DEF Primaries, With
    <3>2. With(Primaries(S, page, spot, i), i = n /\ p = 0, r) \subseteq Primaries(Q, home, place, i)
      BY <1>2 DEF Primaries, With
    <3> QED
      BY <3>1, <3>2
  <2>2. ASSUME NEW m \in 1 .. M
        PROVE  Overflows(Q, place, m) = With(Overflows(S, spot, m), m = p, r)
    <3>1. Overflows(Q, place, m) \subseteq With(Overflows(S, spot, m), m = p, r)
      BY <1>2 DEF Overflows, With
    <3>2. With(Overflows(S, spot, m), m = p, r) \subseteq Overflows(Q, place, m)
      BY <1>2 DEF Overflows, With
    <3> QED
      BY <3>1, <3>2
  <2>3. \A i \in 1 .. N : /\ Lists(u.primary[i].records, Primaries(Q, home, place, i))
                          /\ Len(u.primary[i].records) <= PageCapacity
    BY <2>1
  <2>4. \A m \in 1 .. M : /\ Lists(u.overflow[m].records, Overflows(Q, place, m))
                          /\ Len(u.overflow[m].records) <= OverflowCapacity
    BY <2>2
  <2> HIDE DEF Q, M
  <2> QED
    BY <2>3, <2>4 DEF RowsHeld, M
<1>6. FencesFit(u, Q, home)
  <2>1. ASSUME NEW q \in Q
        PROVE  q.key <= Fence(u, home[q]) /\ (home[q] > 1 => Fence(u, home[q] - 1) <= q.key)
    <3> DEFINE h == home[q]
    <3>1. h \in 1 .. N /\ (h > 1 => h - 1 \in 1 .. N)
      BY <1>2, <1>3
    <3>2. q.key <= Fence(t, h) /\ (h > 1 => Fence(t, h - 1) <= q.key)
      BY <1>1, <1>2 DEF FencesFit
    <3> HIDE DEF h
    <3>3. q.key <= Fence(u, h) /\ (h > 1 => Fence(u, h - 1) <= q.key)
      BY <3>1, <3>2
    <3> QED
      BY <3>3 DEF h
  <2>2. \A i, j \in 1 .. N : i <= j => Fence(u, i) <= Fence(u, j)
    BY <1>1 DEF FencesFit
  <2> HIDE DEF Q
  <2> QED
    BY <2>1, <2>2 DEF FencesFit
<1> QED
  BY <1>4, <1>5, <1>6 DEF Placed, home, place

\* Raising the fence of the page a key goes to: the key is then between fences
LEMMA FenceRaised ==
  ASSUME NEW t, NEW S \in SUBSET IsamRecords, NEW own, NEW page, NEW spot,
         Placed(t, S, own, page, spot), NEW key \in Int, Len(t.primary) > 0
  PROVE  LET n == I!FindPage(t, key)
             f == I!RaiseFence(t, n, key)
         IN  /\ n \in 1 .. Len(t.primary) /\ Placed(f, S, own, page, spot)
             /\ Len(f.primary) = Len(t.primary)
             /\ key <= Fence(f, n) /\ (n > 1 => Fence(f, n - 1) <= key)
             /\ f.primary[n].records = t.primary[n].records
<1> DEFINE N   == Len(t.primary)
           n   == I!FindPage(t, key)
           top == I!Max({Fence(t, n), key})
           f   == I!RaiseFence(t, n, key)
           PV  == [high_key : Int, records : Seq(IsamRecords), overflow_head : Nat]
<1>0. N \in Nat /\ \A i \in 1 .. N : Fence(t, i) \in Int
  BY IsamTyped DEF Placed, Fence
<1>1. /\ t \in IsamTables /\ N \in Nat /\ Len(t.overflow) \in Nat /\ DOMAIN t.primary = 1 .. N
      /\ t.primary \in Seq(PV) /\ (\A i \in 1 .. N : t.primary[i] \in PV)
      /\ \A i \in 1 .. N : Fence(t, i) \in Int
      /\ GoodChains(t, own) /\ Homes(t, S, own, page, spot)
      /\ RowsHeld(t, S, page, spot) /\ FencesFit(t, S, page)
  BY IsamTyped DEF Placed, Fence, IsamTables
<1>2. /\ n \in 1 .. N /\ (\A j \in 1 .. N : j < n => Fence(t, j) < key)
      /\ n < N => key <= Fence(t, n)
  BY <1>1, FoundPage
<1>3. f = [t EXCEPT !.primary = [t.primary EXCEPT ![n] = [t.primary[n] EXCEPT !.high_key = top]]]
  BY <1>1, <1>2 DEF I!RaiseFence, Fence, IsamTables
<1> HIDE DEF n, f
<1>4. top = (IF key <= Fence(t, n) THEN Fence(t, n) ELSE key) /\ top \in Int
  <2> DEFINE x == Fence(t, n)
             y == I!Max({x, key})
  <2>1. x \in Int
    BY <1>1, <1>2
  <2> HIDE DEF x
  <2>2. CASE key <= x
    <3>1. /\ x \in {x, key} /\ (\A z \in {x, key} : x >= z)
          /\ \A w \in {x, key} : (\A z \in {x, key} : w >= z) => w = x
      BY <2>1, <2>2
    <3>2. y = x
      BY <3>1 DEF I!Max
    <3> QED
      BY <2>1, <2>2, <3>2 DEF x
  <2>3. CASE ~(key <= x)
    <3>1. /\ key \in {x, key} /\ (\A z \in {x, key} : key >= z)
          /\ \A w \in {x, key} : (\A z \in {x, key} : w >= z) => w = key
      BY <2>1, <2>3
    <3>2. y = key
      BY <3>1 DEF I!Max
    <3> QED
      BY <2>1, <2>3, <3>2 DEF x
  <2> QED
    BY <2>2, <2>3
<1> HIDE DEF top
<1>5. /\ DOMAIN f.primary = 1 .. N /\ f.primary = [i \in 1 .. N |-> f.primary[i]]
      /\ f.primary[n] = [t.primary[n] EXCEPT !.high_key = top]
      /\ \A i \in 1 .. N : i # n => f.primary[i] = t.primary[i]
      /\ f.overflow = t.overflow /\ f = [primary |-> f.primary, overflow |-> f.overflow]
  BY <1>1, <1>2, <1>3 DEF IsamTables
<1>6. /\ Fence(f, n) = top /\ (\A i \in 1 .. N : i # n => Fence(f, i) = Fence(t, i))
      /\ \A i \in 1 .. N : /\ f.primary[i].records = t.primary[i].records
                           /\ f.primary[i].overflow_head = t.primary[i].overflow_head
                           /\ f.primary[i] \in PV
  <2>1. ASSUME NEW i \in 1 .. N
        PROVE  /\ f.primary[i].records = t.primary[i].records
               /\ f.primary[i].overflow_head = t.primary[i].overflow_head
               /\ f.primary[i] \in PV
               /\ i # n => Fence(f, i) = Fence(t, i)
    <3>1. t.primary[i] \in PV
      BY <1>1
    <3>2. CASE i = n
      BY <1>4, <1>5, <3>1, <3>2
    <3>3. CASE i # n
      BY <1>5, <3>1, <3>3 DEF Fence
    <3> QED
      BY <3>2, <3>3
  <2>2. Fence(f, n) = top
    <3>1. t.primary[n] \in PV
      BY <1>1, <1>2
    <3> QED
      BY <1>5, <3>1 DEF Fence
  <2> QED
    BY <2>1, <2>2
<1>7. f \in IsamTables /\ Len(f.primary) = N
  <2> HIDE DEF PV
  <2>1. f.primary \in Seq(PV) /\ Len(f.primary) = N
    <3>1. t.primary \in Seq(PV) /\ DOMAIN t.primary = 1 .. N
      BY <1>1
    <3> DEFINE old == t.primary
               new == f.primary
    <3>2. new = [i \in DOMAIN old |-> new[i]] /\ \A i \in DOMAIN old : new[i] \in PV
      BY <1>5, <1>6, <3>1
    <3>3. old \in Seq(PV) /\ Len(old) = N
      BY <3>1
    <3> HIDE DEF old, new, N
    <3>4. new \in Seq(PV) /\ Len(new) = Len(old)
      BY <3>2, <3>3, MappedSeq
    <3> QED
      BY <3>3, <3>4 DEF new
  <2>2. t.overflow \in Seq([records : Seq(IsamRecords), next : Nat])
    BY <1>1 DEF IsamTables
  <2> QED
    BY <1>5, <2>1, <2>2 DEF IsamTables, PV
<1>8. GoodChains(f, own)
  <2>1. Links(f) = Links(t)
    BY <1>5 DEF Links
  <2>2. ASSUME NEW i \in 1 .. N PROVE Chain(f, i) = Chain(t, i)
    <3> DEFINE old == t.primary[i]
               new == f.primary[i]
    <3>1. Forward(Len(t.overflow), Links(t)) /\ Len(f.overflow) = Len(t.overflow)
      BY <1>1, <1>5 DEF GoodChains
    <3>2. new.overflow_head = old.overflow_head
      BY <1>6
    <3> HIDE DEF old, new
    <3>3. I!OverflowChain(f, new) = I!OverflowChain(t, old)
      BY <1>1, <2>1, <3>1, <3>2, SameChains
    <3> QED
      BY <3>3 DEF Chain, old, new
  <2> HIDE DEF N
  <2> QED
    BY <1>1, <1>5, <1>6, <1>7, <2>1, <2>2 DEF GoodChains, N
<1>9. Homes(f, S, own, page, spot) /\ RowsHeld(f, S, page, spot)
  BY <1>1, <1>5, <1>6, <1>7 DEF Homes, RowsHeld
<1>10. FencesFit(f, S, page)
  <2>1. \A i \in 1 .. N : Fence(f, i) \in Int /\ Fence(t, i) <= Fence(f, i) /\ (i < N => Fence(f, i) = Fence(t, i))
    <3> HIDE DEF N
    <3>1. ASSUME NEW i \in 1 .. N, i # n PROVE Fence(f, i) = Fence(t, i) /\ Fence(t, i) \in Int
      BY <1>0, <1>6, <3>1
    <3>2. Fence(f, n) \in Int /\ Fence(t, n) <= Fence(f, n) /\ (n < N => Fence(f, n) = Fence(t, n))
      BY <1>0, <1>2, <1>4, <1>6
    <3> QED
      BY <3>1, <3>2
  <2>2. ASSUME NEW r \in S
        PROVE  r.key <= Fence(f, page[r]) /\ (page[r] > 1 => Fence(f, page[r] - 1) <= r.key)
    <3> DEFINE i == page[r]
    <3>0. i \in 1 .. N
      BY <1>1 DEF Homes
    <3>1. i \in 1 .. N /\ (i > 1 => i - 1 \in 1 .. N /\ i - 1 < N)
      <4> HIDE DEF N, i
      <4> QED
        BY <1>0, <3>0
    <3>2. r.key <= Fence(t, i) /\ (i > 1 => Fence(t, i - 1) <= r.key) /\ r.key \in Int
      BY <1>1, KeysAssumption DEF FencesFit, IsamRecords, Ordered
    <3> HIDE DEF i
    <3>3. r.key <= Fence(f, i) /\ (i > 1 => Fence(f, i - 1) <= r.key)
      BY <1>0, <2>1, <3>1, <3>2
    <3> QED
      BY <3>3 DEF i
  <2>3. ASSUME NEW i \in 1 .. N, NEW j \in 1 .. N, i <= j PROVE Fence(f, i) <= Fence(f, j)
    <3>1. CASE i = j
      BY <2>1, <3>1
    <3>2. CASE i < j
      <4>1. Fence(t, i) <= Fence(t, j) /\ i < N
        BY <1>1, <2>3, <3>2 DEF FencesFit
      <4> QED
        BY <1>1, <2>1, <4>1
    <3> QED
      BY <2>3, <3>1, <3>2
  <2> QED
    BY <1>7, <2>2, <2>3 DEF FencesFit
<1>11. Placed(f, S, own, page, spot)
  BY <1>7, <1>8, <1>9, <1>10 DEF Placed
<1>12. key <= Fence(f, n) /\ (n > 1 => Fence(f, n - 1) <= key)
  <2>1. key <= Fence(f, n)
    BY <1>1, <1>2, <1>4, <1>6
  <2>2. ASSUME n > 1 PROVE Fence(f, n - 1) <= key
    <3>1. n - 1 \in 1 .. N /\ n - 1 < n /\ n - 1 # n
      <4> HIDE DEF N
      <4> QED
        BY <1>0, <1>2, <2>2
    <3> QED
      BY <1>0, <1>2, <1>6, <3>1
  <2> QED
    BY <2>1, <2>2
<1> QED
  BY <1>2, <1>6, <1>7, <1>11, <1>12 DEF n, f

\* A list of one more
LEMMA OneMoreLen ==
  ASSUME NEW s, NEW S, Lists(s, S), NEW r, r \notin S, NEW q, Lists(q, S \cup {r})
  PROVE  Len(q) = Len(s) + 1 /\ Len(s) \in Nat
<1>1. Cardinality(S \cup {r}) = Cardinality(S) + 1 /\ Cardinality(S) \in Nat
  BY FS_AddElement, FS_CardinalityType DEF Lists
<1> QED
  BY <1>1 DEF Lists

\* The owners of the overflow pages and of a new one, that of page n
WithOwner(own, L, n) == [m \in 1 .. L + 1 |-> IF m = L + 1 THEN n ELSE own[m]]

\* A new overflow page hung after the chain of page n
Hung(t, n, u) ==
    /\ Len(u.primary) = Len(t.primary) /\ Len(u.overflow) = Len(t.overflow) + 1
    /\ u.overflow[Len(t.overflow) + 1].next = 0
    /\ \A i \in 1 .. Len(t.primary) :
          i # n => u.primary[i].overflow_head = t.primary[i].overflow_head
    /\ t.primary[n].overflow_head = 0 =>
          /\ u.primary[n].overflow_head = Len(t.overflow) + 1
          /\ \A m \in 1 .. Len(t.overflow) : u.overflow[m].next = t.overflow[m].next
    /\ t.primary[n].overflow_head # 0 =>
          /\ u.primary[n].overflow_head = t.primary[n].overflow_head
          /\ u.overflow[Last(Chain(t, n))].next = Len(t.overflow) + 1
          /\ \A m \in 1 .. Len(t.overflow) :
                m # Last(Chain(t, n)) => u.overflow[m].next = t.overflow[m].next

\* The overflow pages of a primary page
Owned(own, L, i) == {m \in 1 .. L : own[m] = i}

\* The end of a chain is a page of its owner
LEMMA ChainEnd ==
  ASSUME NEW L \in Nat, NEW own, NEW i, NEW q, Lists(q, Owned(own, L, i)), q # <<>>
  PROVE  Last(q) \in 1 .. L /\ own[Last(q)] = i
<1> DEFINE Q == Owned(own, L, i)
<1>1. q \in Seq(Q) /\ q # <<>>
  BY DEF Lists
<1> HIDE DEF Q
<1>2. Len(q) \in 1 .. Len(q) /\ \A j \in 1 .. Len(q) : q[j] \in Q
  BY <1>1
<1>3. Last(q) \in Q
  BY <1>2 DEF Last
<1> QED
  BY <1>3 DEF Q, Owned

\* Hanging a page after one chain leaves the others
LEMMA ChainsGrow ==
  ASSUME NEW t \in IsamTables, NEW own, GoodChains(t, own), NEW n \in 1 .. Len(t.primary),
         NEW u, Hung(t, n, u)
  PROVE  GoodChains(u, WithOwner(own, Len(t.overflow), n))
<1> DEFINE N     == Len(t.primary)
           L     == Len(t.overflow)
           owner == WithOwner(own, L, n)
           end   == Last(Chain(t, n))
           mine(i) == {m \in 1 .. L : own[m] = i}
           ours(i) == {m \in 1 .. L + 1 : owner[m] = i}
<1>1. N \in Nat /\ L \in Nat
  BY IsamTyped
<1>2. /\ Forward(L, Links(t)) /\ own \in [1 .. L -> 1 .. N]
      /\ \A i \in 1 .. N : t.primary[i].overflow_head \in 0 .. L
  BY DEF GoodChains
<1>3. ASSUME NEW i \in 1 .. N
      PROVE  /\ Lists(Chain(t, i), mine(i))
             /\ t.primary[i].overflow_head = 0 => Chain(t, i) = <<>>
             /\ t.primary[i].overflow_head # 0 =>
                    /\ Chain(t, i) # <<>> /\ t.overflow[Last(Chain(t, i))].next = 0
                    /\ Last(Chain(t, i)) \in 1 .. L /\ own[Last(Chain(t, i))] = i
  <2>1. /\ Lists(Chain(t, i), mine(i))
        /\ t.primary[i].overflow_head = 0 => Chain(t, i) = <<>>
        /\ t.primary[i].overflow_head # 0 =>
               Chain(t, i) # <<>> /\ t.overflow[Last(Chain(t, i))].next = 0
    BY DEF GoodChains
  <2>2. ASSUME t.primary[i].overflow_head # 0
        PROVE  Last(Chain(t, i)) \in 1 .. L /\ own[Last(Chain(t, i))] = i
    <3> DEFINE q == Chain(t, i)
    <3>1. Lists(q, Owned(own, L, i)) /\ q # <<>>
      BY <2>1, <2>2 DEF Owned
    <3> HIDE DEF q, L
    <3>2. Last(q) \in 1 .. L /\ own[Last(q)] = i
      BY <1>1, <3>1, ChainEnd
    <3> QED
      BY <3>2 DEF q
  <2> HIDE DEF mine
  <2> QED
    BY <2>1, <2>2
<1>4. owner \in [1 .. L + 1 -> 1 .. N] /\ owner[L + 1] = n /\ \A m \in 1 .. L : owner[m] = own[m] /\ m # L + 1
  BY <1>1, <1>2 DEF WithOwner
<1>5. \A m \in 1 .. L + 1 : m = L + 1 \/ m \in 1 .. L
  BY <1>1
<1>6. /\ \A i \in 1 .. N : i # n => ours(i) = mine(i)
      /\ ours(n) = mine(n) \cup {L + 1} /\ mine(n) \cap {L + 1} = {}
  <2>1. L + 1 \in 1 .. L + 1 /\ 1 .. L \subseteq 1 .. L + 1
    BY <1>1
  <2> HIDE DEF owner
  <2> QED
    BY <1>4, <1>5, <2>1
<1> HIDE DEF owner, end
<1>7. /\ Len(u.primary) = N /\ Len(u.overflow) = L + 1 /\ Links(u)[L + 1] = 0 /\ L + 1 \in Nat
      /\ \A i \in 1 .. N : i # n => u.primary[i].overflow_head = t.primary[i].overflow_head
      /\ u.overflow[L + 1].next = 0
  BY <1>1 DEF Hung, Links
<1>8. \A m \in 1 .. L : /\ Links(t)[m] = t.overflow[m].next /\ Links(u)[m] = u.overflow[m].next
                        /\ m \in 1 .. L + 1
  BY <1>1, <1>7 DEF Links
<1>9. ASSUME t.primary[n].overflow_head = 0
      PROVE  u.primary[n].overflow_head = L + 1 /\ \A m \in 1 .. L : Links(u)[m] = Links(t)[m]
  BY <1>8, <1>9 DEF Hung
<1>10. ASSUME t.primary[n].overflow_head # 0
       PROVE  /\ u.primary[n].overflow_head = t.primary[n].overflow_head
              /\ end \in 1 .. L /\ own[end] = n /\ Links(t)[end] = 0 /\ Links(u)[end] = L + 1
              /\ \A m \in 1 .. L : m # end => Links(u)[m] = Links(t)[m]
  BY <1>3, <1>8, <1>10 DEF Hung, end
<1>11. Forward(L + 1, Links(u))
  <2>1. ASSUME NEW m \in 1 .. L + 1 PROVE Links(u)[m] = 0 \/ Links(u)[m] \in m + 1 .. L + 1
    <3>1. CASE m = L + 1
      BY <1>7, <3>1
    <3>2. CASE m \in 1 .. L
      <4>1. Links(t)[m] = 0 \/ Links(t)[m] \in m + 1 .. L
        BY <1>2, <3>2 DEF Forward
      <4>2. Links(u)[m] = Links(t)[m] \/ Links(u)[m] = L + 1
        BY <1>9, <1>10, <3>2
      <4> HIDE DEF L
      <4> QED
        BY <1>1, <3>2, <4>1, <4>2
    <3> QED
      BY <1>5, <3>1, <3>2
  <2> QED
    BY <2>1 DEF Forward
<1>12. PICK c : IsChain(c, L, Links(t))
  BY <1>1, <1>2, ChainExists
<1>13. PICK d : IsChain(d, L + 1, Links(u))
  BY <1>7, <1>11, ChainExists
<1>14. \A page : I!OverflowChain(t, page) = c[page.overflow_head]
  BY <1>1, <1>2, <1>12, ChainOfPage
<1>15. \A page : I!OverflowChain(u, page) = d[page.overflow_head]
  BY <1>7, <1>11, <1>13, ChainOfPage
<1>16. c[0] = <<>> /\ d[0] = <<>> /\ d[L + 1] = <<L + 1>>
  <2>1. c[0] = <<>> /\ d[0] = <<>>
    BY <1>12, <1>13 DEF IsChain
  <2>2. L + 1 \in 1 .. L + 1
    BY <1>1
  <2>3. d[L + 1] = <<L + 1>> \o d[Links(u)[L + 1]]
    BY <1>13, <2>2 DEF IsChain
  <2>4. d[L + 1] = <<L + 1>> \o <<>>
    BY <1>7, <2>1, <2>3
  <2> HIDE DEF L
  <2>5. <<L + 1>> \o <<>> = <<L + 1>>
    <3>1. <<L + 1>> \in Seq({L + 1})
      OBVIOUS
    <3> QED
      BY <3>1, ConcatEmptySeq
  <2> QED
    BY <2>1, <2>4, <2>5
<1>17. ASSUME NEW i \in 1 .. N, i # n PROVE Chain(u, i) = Chain(t, i)
  <2> DEFINE h == t.primary[i].overflow_head
  <2>1. Chain(u, i) = d[h] /\ Chain(t, i) = c[h] /\ h \in 0 .. L
    BY <1>2, <1>7, <1>14, <1>15, <1>17 DEF Chain
  <2>2. CASE h = 0
    BY <1>16, <2>1, <2>2
  <2>3. CASE h # 0
    <3>1. h \in 1 .. L
      BY <2>1, <2>3
    <3>2. CASE t.primary[n].overflow_head = 0
      <4>1. \A m \in 1 .. L : Links(u)[m] = Links(t)[m]
        BY <1>9, <3>2
      <4> DEFINE link == Links(t)
                 more == Links(u)
      <4>2. /\ Forward(L, link) /\ IsChain(c, L, link) /\ IsChain(d, L + 1, more)
            /\ \A m \in 1 .. L : more[m] = link[m]
        BY <1>2, <1>12, <1>13, <4>1
      <4> HIDE DEF link, more, L
      <4>3. \A m \in 1 .. L : d[m] = c[m]
        BY <1>1, <4>2, ChainKept
      <4> QED
        BY <2>1, <3>1, <4>3 DEF L
    <3>3. CASE t.primary[n].overflow_head # 0
      <4> DEFINE link == Links(t)
                 more == Links(u)
      <4>1. /\ end \in 1 .. L /\ own[end] = n /\ link[end] = 0 /\ more[end] = L + 1
            /\ \A m \in 1 .. L : m # end => more[m] = link[m]
        BY <1>10, <3>3
      <4>2. /\ Forward(L, link) /\ IsChain(c, L, link) /\ IsChain(d, L + 1, more)
            /\ Forward(L + 1, more) /\ more[L + 1] = 0
        BY <1>2, <1>7, <1>11, <1>12, <1>13
      <4> HIDE DEF link, more, L, h
      <4>3. \A m \in 1 .. L : d[m] = IF Last(c[m]) = end THEN c[m] \o <<L + 1>> ELSE c[m]
        BY <1>1, <4>1, <4>2, ChainExtended
      <4>4. Last(c[h]) # end
        BY <1>3, <1>17, <2>1, <2>3, <4>1 DEF L, h
      <4> QED
        BY <2>1, <3>1, <4>3, <4>4 DEF L
    <3> QED
      BY <3>2, <3>3
  <2> QED
    BY <2>2, <2>3
<1>18. Chain(u, n) = Chain(t, n) \o <<L + 1>>
  <2> DEFINE h == t.primary[n].overflow_head
             q == Chain(t, n)
  <2>1. q = c[h] /\ h \in 0 .. L /\ Chain(u, n) = d[u.primary[n].overflow_head]
    BY <1>2, <1>14, <1>15 DEF Chain
  <2>2. CASE h = 0
    <3>1. Chain(u, n) = <<L + 1>> /\ q = <<>>
      BY <1>9, <1>16, <2>1, <2>2
    <3>2. <<>> \o <<L + 1>> = <<L + 1>>
      <4> HIDE DEF L
      <4>1. <<L + 1>> \in Seq({L + 1})
        OBVIOUS
      <4> QED
        BY <4>1, ConcatEmptySeq
    <3> HIDE DEF q, L
    <3> QED
      BY <3>1, <3>2 DEF q
  <2>3. CASE h # 0
    <3> DEFINE link == Links(t)
               more == Links(u)
    <3>1. /\ end \in 1 .. L /\ link[end] = 0 /\ more[end] = L + 1
          /\ \A m \in 1 .. L : m # end => more[m] = link[m]
          /\ u.primary[n].overflow_head = h
      BY <1>10, <2>3
    <3>2. /\ Forward(L, link) /\ IsChain(c, L, link) /\ IsChain(d, L + 1, more)
          /\ Forward(L + 1, more) /\ more[L + 1] = 0 /\ h \in 1 .. L /\ Last(c[h]) = end
      BY <1>2, <1>7, <1>11, <1>12, <1>13, <2>1, <2>3 DEF end
    <3> HIDE DEF link, more, L, h
    <3>3. \A m \in 1 .. L : d[m] = IF Last(c[m]) = end THEN c[m] \o <<L + 1>> ELSE c[m]
      <4>1. L \in Nat /\ Forward(L, link) /\ IsChain(c, L, link)
        BY <1>1, <3>2
      <4>2. Forward(L + 1, more) /\ IsChain(d, L + 1, more)
        BY <3>2
      <4>3. /\ end \in 1 .. L /\ link[end] = 0 /\ more[end] = L + 1 /\ more[L + 1] = 0
            /\ \A m \in 1 .. L : m # end => more[m] = link[m]
        BY <3>1, <3>2
      <4> QED
        BY <4>1, <4>2, <4>3, ChainExtended
    <3>4. d[h] = c[h] \o <<L + 1>>
      BY <3>2, <3>3
    <3> QED
      BY <2>1, <3>1, <3>4
  <2> QED
    BY <2>2, <2>3
<1>19. /\ Lists(Chain(u, n), ours(n)) /\ Chain(u, n) # <<>> /\ Last(Chain(u, n)) = L + 1
  <2> DEFINE q == Chain(t, n)
  <2>1. Lists(q, mine(n))
    BY <1>3
  <2> HIDE DEF q, mine, L
  <2>2. Lists(q \o <<L + 1>>, mine(n) \cup {L + 1})
    BY <1>6, <2>1, ListsOne, ListsConcat
  <2>3. q \o <<L + 1>> # <<>> /\ Last(q \o <<L + 1>>) = L + 1
    <3> DEFINE V == mine(n) \cup {L + 1}
    <3>1. q \in Seq(V) /\ <<L + 1>> \in Seq(V) /\ Len(<<L + 1>>) = 1
      <4>1. q \in Seq(mine(n)) /\ mine(n) \subseteq V
        BY <2>1 DEF Lists
      <4> QED
        BY <4>1, SeqMonotonic
    <3> HIDE DEF V
    <3>2. Len(q) \in Nat
      BY <3>1, LenProperties
    <3>3. /\ Len(q \o <<L + 1>>) = Len(q) + 1
          /\ (q \o <<L + 1>>)[Len(q) + 1] = <<L + 1>>[1]
      BY <3>1, <3>2
    <3> QED
      BY <3>2, <3>3 DEF Last
  <2> QED
    BY <1>6, <1>18, <2>2, <2>3 DEF q
<1>20. u.primary[n].overflow_head \in 1 .. L + 1
  <2>1. t.primary[n].overflow_head \in 0 .. L
    BY <1>2
  <2> HIDE DEF L
  <2> QED
    BY <1>1, <1>9, <1>10, <2>1
<1>21. ASSUME NEW i \in 1 .. N
       PROVE  /\ u.primary[i].overflow_head \in 0 .. L + 1
              /\ Lists(Chain(u, i), ours(i))
              /\ u.primary[i].overflow_head = 0 => Chain(u, i) = <<>>
              /\ u.primary[i].overflow_head # 0 =>
                     Chain(u, i) # <<>> /\ u.overflow[Last(Chain(u, i))].next = 0
  <2>1. CASE i = n
    <3>1. u.primary[n].overflow_head \in 0 .. L + 1 /\ u.primary[n].overflow_head # 0
      BY <1>1, <1>20
    <3> HIDE DEF ours
    <3> QED
      BY <1>7, <1>19, <2>1, <3>1
  <2>2. CASE i # n
    <3>1. /\ u.primary[i].overflow_head = t.primary[i].overflow_head
          /\ Chain(u, i) = Chain(t, i) /\ ours(i) = mine(i)
      BY <1>6, <1>7, <1>17, <2>2
    <3>2. t.primary[i].overflow_head \in 0 .. L + 1
      BY <1>1, <1>2
    <3>3. ASSUME t.primary[i].overflow_head # 0 PROVE u.overflow[Last(Chain(t, i))].next = 0
      <4> DEFINE m == Last(Chain(t, i))
      <4>1. m \in 1 .. L /\ own[m] = i /\ t.overflow[m].next = 0
        BY <1>3, <3>3
      <4>2. Links(u)[m] = Links(t)[m]
        BY <1>9, <1>10, <2>2, <4>1
      <4> QED
        BY <1>8, <4>1, <4>2
    <3> HIDE DEF ours, mine
    <3> QED
      BY <1>3, <3>1, <3>2, <3>3
  <2> QED
    BY <2>1, <2>2
<1> HIDE DEF N
<1> QED
  BY <1>4, <1>7, <1>11, <1>21 DEF GoodChains, owner

\* A record that can go to page n: it is new, and between the fences of n
Fits(t, S, own, page, spot, r, n) ==
    /\ Placed(t, S, own, page, spot) /\ r \in IsamRecords /\ r \notin S
    /\ n \in 1 .. Len(t.primary)
    /\ r.key <= Fence(t, n) /\ (n > 1 => Fence(t, n - 1) <= r.key)

\* A record put in a page that has room
LEMMA PutInPage ==
  ASSUME NEW s, NEW Q \in SUBSET IsamRecords, Lists(s, Q), NEW r \in IsamRecords, r \notin Q,
         NEW C \in Nat, Len(s) < C
  PROVE  /\ Lists(I!InsertSorted(s, r), Q \cup {r}) /\ Len(I!InsertSorted(s, r)) <= C
         /\ I!InsertSorted(s, r) \in Seq(IsamRecords)
<1> DEFINE new == InsertSorted(s, r)
<1>1. I!InsertSorted(s, r) = new
  BY SameOfIsam
<1>2. Lists(new, Q \cup {r})
  BY InsertSortedLists
<1> HIDE DEF new
<1>3. Len(new) = Len(s) + 1 /\ Len(s) \in Nat
  BY <1>2, OneMoreLen
<1>4. new \in Seq(IsamRecords)
  <2>1. new \in Seq(Q \cup {r}) /\ Q \cup {r} \subseteq IsamRecords
    BY <1>2 DEF Lists
  <2> QED
    BY <2>1, SeqMonotonic
<1> QED
  BY <1>1, <1>2, <1>3, <1>4

\* What the module says of capacities, one by one
LEMMA IsamCapacities ==
  PageCapacity \in Nat \ {0} /\ OverflowCapacity \in Nat \ {0}
BY CapacityAssumption

\* A record in its primary page
LEMMA AddedPrimary ==
  ASSUME NEW t, NEW S \in SUBSET IsamRecords, NEW own, NEW page, NEW spot, NEW r, NEW n,
         Fits(t, S, own, page, spot, r, n), Len(t.primary[n].records) < PageCapacity
  PROVE  IsPlaced([t EXCEPT !.primary[n].records = I!InsertSorted(@, r)], S \cup {r})
<1> DEFINE N    == Len(t.primary)
           L    == Len(t.overflow)
           old  == t.primary[n]
           new  == I!InsertSorted(old.records, r)
           u    == [t EXCEPT !.primary[n].records = I!InsertSorted(@, r)]
           held(i) == Primaries(S, page, spot, i)
           PV   == [high_key : Int, records : Seq(IsamRecords), overflow_head : Nat]
<1>1. /\ t \in IsamTables /\ N \in Nat /\ L \in Nat /\ DOMAIN t.primary = 1 .. N /\ n \in 1 .. N
      /\ t.primary \in Seq(PV) /\ (\A i \in 1 .. N : t.primary[i] \in PV)
      /\ GoodChains(t, own) /\ Homes(t, S, own, page, spot) /\ RowsHeld(t, S, page, spot)
      /\ Placed(t, S, own, page, spot) /\ r \in IsamRecords /\ r \notin S
  BY IsamTyped DEF Fits, Placed, IsamTables
<1>2. u = [t EXCEPT !.primary = [t.primary EXCEPT ![n] = [old EXCEPT !.records = new]]]
  BY <1>1 DEF IsamTables
<1>3. /\ DOMAIN u.primary = 1 .. N /\ u.primary = [i \in 1 .. N |-> u.primary[i]]
      /\ u.primary[n] = [old EXCEPT !.records = new]
      /\ \A i \in 1 .. N : i # n => u.primary[i] = t.primary[i]
      /\ u.overflow = t.overflow /\ u = [primary |-> u.primary, overflow |-> u.overflow]
  <2> HIDE DEF new, u
  <2> QED
    BY <1>1, <1>2 DEF IsamTables
<1>4. /\ \A i \in 1 .. N : Lists(t.primary[i].records, held(i)) /\ Len(t.primary[i].records) <= PageCapacity
      /\ \A m \in 1 .. L : /\ Lists(t.overflow[m].records, Overflows(S, spot, m))
                           /\ Len(t.overflow[m].records) <= OverflowCapacity
  BY <1>1 DEF RowsHeld
<1> HIDE DEF u
<1>5. /\ Lists(new, held(n) \cup {r}) /\ Len(new) <= PageCapacity /\ new \in Seq(IsamRecords)
  <2> DEFINE s == old.records
             Q == held(n)
  <2>1. Lists(s, Q) /\ Len(s) < PageCapacity
    BY <1>1, <1>4
  <2>2. Q \in SUBSET IsamRecords /\ r \notin Q
    BY <1>1 DEF Primaries
  <2> HIDE DEF s, Q
  <2>3. /\ Lists(I!InsertSorted(s, r), Q \cup {r}) /\ Len(I!InsertSorted(s, r)) <= PageCapacity
        /\ I!InsertSorted(s, r) \in Seq(IsamRecords)
    BY <1>1, <2>1, <2>2, IsamCapacities, PutInPage
  <2> QED
    BY <2>3 DEF s, Q
<1> HIDE DEF new
<1>6. /\ u.primary[n].records = new /\ u.primary[n].overflow_head = old.overflow_head
      /\ u.primary[n].high_key = old.high_key /\ u.primary[n] \in PV
  <2>1. old \in PV
    BY <1>1
  <2> HIDE DEF old
  <2> QED
    BY <1>3, <1>5, <2>1
<1>7. \A i \in 1 .. N : /\ u.primary[i].overflow_head = t.primary[i].overflow_head
                        /\ Fence(u, i) = Fence(t, i) /\ u.primary[i] \in PV
  BY <1>1, <1>3, <1>6 DEF Fence
<1>8. u \in IsamTables /\ Len(u.primary) = N
  <2> DEFINE before == t.primary
             after  == u.primary
  <2>1. after = [i \in DOMAIN before |-> after[i]] /\ (\A i \in DOMAIN before : after[i] \in PV) /\ before \in Seq(PV)
    BY <1>1, <1>3, <1>7
  <2>2. t.overflow \in Seq([records : Seq(IsamRecords), next : Nat])
    BY <1>1 DEF IsamTables
  <2> HIDE DEF before, after, PV
  <2>3. after \in Seq(PV) /\ Len(after) = Len(before)
    BY <2>1, MappedSeq
  <2> QED
    BY <1>3, <2>2, <2>3 DEF IsamTables, PV, before, after
<1>9. GoodChains(u, own)
  <2>1. Links(u) = Links(t) /\ Len(u.overflow) = L
    BY <1>3 DEF Links
  <2>2. ASSUME NEW i \in 1 .. N PROVE Chain(u, i) = Chain(t, i)
    <3> DEFINE from == t.primary[i]
               to   == u.primary[i]
    <3>1. Forward(Len(t.overflow), Links(t))
      BY <1>1 DEF GoodChains
    <3>2. to.overflow_head = from.overflow_head
      BY <1>7
    <3> HIDE DEF from, to
    <3>3. I!OverflowChain(u, to) = I!OverflowChain(t, from)
      BY <1>1, <2>1, <3>1, <3>2, SameChains
    <3> QED
      BY <3>3 DEF Chain, from, to
  <2>3. u.overflow = t.overflow /\ \A i \in 1 .. N : u.primary[i].overflow_head = t.primary[i].overflow_head
    BY <1>3, <1>7
  <2>4. GoodChains(t, own) /\ Len(u.primary) = N
    BY <1>1, <1>8
  <2> HIDE DEF N
  <2> QED
    BY <2>1, <2>2, <2>3, <2>4 DEF GoodChains, N
<1>10. \A i \in 1 .. N : /\ Lists(u.primary[i].records, With(held(i), i = n /\ 0 = 0, r))
                         /\ Len(u.primary[i].records) <= PageCapacity
  <2> HIDE DEF held
  <2>1. ASSUME NEW i \in 1 .. N
        PROVE  /\ Lists(u.primary[i].records, With(held(i), i = n /\ 0 = 0, r))
               /\ Len(u.primary[i].records) <= PageCapacity
    <3>1. CASE i = n
      BY <1>5, <1>6, <3>1 DEF With
    <3>2. CASE i # n
      BY <1>3, <1>4, <3>2 DEF With
    <3> QED
      BY <3>1, <3>2
  <2> QED
    BY <2>1
<1>11. \A m \in 1 .. Len(u.overflow) :
          /\ Lists(u.overflow[m].records, With(Overflows(S, spot, m), m = 0, r))
          /\ Len(u.overflow[m].records) <= OverflowCapacity
  <2>1. ASSUME NEW m \in 1 .. L PROVE With(Overflows(S, spot, m), m = 0, r) = Overflows(S, spot, m)
    BY <1>1 DEF With
  <2> QED
    BY <1>3, <1>4, <2>1
<1>12. /\ r.key <= Fence(t, n) /\ (n > 1 => Fence(t, n - 1) <= r.key) /\ n \in 1 .. N
       /\ 0 \in 0 .. Len(u.overflow) /\ Len(t.overflow) <= Len(u.overflow)
  BY <1>1, <1>3 DEF Fits
<1>13. Placed(u, S \cup {r}, own, Coming(S, page, n, r), Coming(S, spot, 0, r))
  <2>1. /\ \A i \in 1 .. Len(t.primary) :
              /\ Lists(u.primary[i].records, With(Primaries(S, page, spot, i), i = n /\ 0 = 0, r))
              /\ Len(u.primary[i].records) <= PageCapacity
        /\ \A i \in 1 .. Len(t.primary) : Fence(u, i) = Fence(t, i)
        /\ 0 # 0 => own[0] = n
        /\ \A m \in 1 .. Len(t.overflow) : own[m] = own[m]
    BY <1>7, <1>10
  <2> QED
    BY <1>1, <1>8, <1>9, <1>11, <1>12, <2>1, OneMorePlaced
<1> QED
  BY <1>13 DEF IsPlaced, u

\* A record in an overflow page of its page's chain
LEMMA AddedOverflow ==
  ASSUME NEW t, NEW S \in SUBSET IsamRecords, NEW own, NEW page, NEW spot, NEW r, NEW n,
         Fits(t, S, own, page, spot, r, n),
         NEW p \in 1 .. Len(t.overflow), own[p] = n, Len(t.overflow[p].records) < OverflowCapacity
  PROVE  IsPlaced([t EXCEPT !.overflow[p].records = I!InsertSorted(@, r)], S \cup {r})
<1> DEFINE N    == Len(t.primary)
           L    == Len(t.overflow)
           old  == t.overflow[p]
           new  == I!InsertSorted(old.records, r)
           u    == [t EXCEPT !.overflow[p].records = I!InsertSorted(@, r)]
           held(m) == Overflows(S, spot, m)
           OV   == [records : Seq(IsamRecords), next : Nat]
<1>1. /\ t \in IsamTables /\ N \in Nat /\ L \in Nat /\ DOMAIN t.overflow = 1 .. L /\ p \in 1 .. L
      /\ t.overflow \in Seq(OV) /\ (\A m \in 1 .. L : t.overflow[m] \in OV)
      /\ GoodChains(t, own) /\ Homes(t, S, own, page, spot) /\ RowsHeld(t, S, page, spot)
      /\ Placed(t, S, own, page, spot) /\ r \in IsamRecords /\ r \notin S
  BY IsamTyped DEF Fits, Placed, IsamTables
<1>2. u = [t EXCEPT !.overflow = [t.overflow EXCEPT ![p] = [old EXCEPT !.records = new]]]
  BY <1>1 DEF IsamTables
<1>3. /\ DOMAIN u.overflow = 1 .. L /\ u.overflow = [m \in 1 .. L |-> u.overflow[m]]
      /\ u.overflow[p] = [old EXCEPT !.records = new]
      /\ \A m \in 1 .. L : m # p => u.overflow[m] = t.overflow[m]
      /\ u.primary = t.primary /\ u = [primary |-> u.primary, overflow |-> u.overflow]
  <2> HIDE DEF new, u
  <2> QED
    BY <1>1, <1>2 DEF IsamTables
<1>4. /\ \A i \in 1 .. N : /\ Lists(t.primary[i].records, Primaries(S, page, spot, i))
                           /\ Len(t.primary[i].records) <= PageCapacity
      /\ \A m \in 1 .. L : Lists(t.overflow[m].records, held(m)) /\ Len(t.overflow[m].records) <= OverflowCapacity
  BY <1>1 DEF RowsHeld
<1> HIDE DEF u
<1>5. /\ Lists(new, held(p) \cup {r}) /\ Len(new) <= OverflowCapacity /\ new \in Seq(IsamRecords)
  <2> DEFINE s == old.records
             Q == held(p)
  <2>1. Lists(s, Q) /\ Len(s) < OverflowCapacity
    BY <1>1, <1>4
  <2>2. Q \in SUBSET IsamRecords /\ r \notin Q
    BY <1>1 DEF Overflows
  <2> HIDE DEF s, Q
  <2>3. /\ Lists(I!InsertSorted(s, r), Q \cup {r}) /\ Len(I!InsertSorted(s, r)) <= OverflowCapacity
        /\ I!InsertSorted(s, r) \in Seq(IsamRecords)
    BY <1>1, <2>1, <2>2, IsamCapacities, PutInPage
  <2> QED
    BY <2>3 DEF s, Q
<1> HIDE DEF new
<1>6. u.overflow[p].records = new /\ u.overflow[p].next = old.next /\ u.overflow[p] \in OV
  <2>1. old \in OV
    BY <1>1
  <2> HIDE DEF old
  <2> QED
    BY <1>3, <1>5, <2>1
<1>7. \A m \in 1 .. L : u.overflow[m].next = t.overflow[m].next /\ u.overflow[m] \in OV
  BY <1>1, <1>3, <1>6
<1>8. u \in IsamTables /\ Len(u.overflow) = L
  <2> DEFINE before == t.overflow
             after  == u.overflow
  <2>1. after = [m \in DOMAIN before |-> after[m]] /\ (\A m \in DOMAIN before : after[m] \in OV) /\ before \in Seq(OV)
    BY <1>1, <1>3, <1>7
  <2>2. t.primary \in Seq([high_key : Int, records : Seq(IsamRecords), overflow_head : Nat])
    BY <1>1 DEF IsamTables
  <2> HIDE DEF before, after, OV
  <2>3. after \in Seq(OV) /\ Len(after) = Len(before)
    BY <2>1, MappedSeq
  <2> QED
    BY <1>3, <2>2, <2>3 DEF IsamTables, OV, before, after
<1>9. GoodChains(u, own)
  <2>1. Links(u) = Links(t)
    BY <1>7, <1>8 DEF Links
  <2>2. ASSUME NEW i \in 1 .. N PROVE Chain(u, i) = Chain(t, i)
    <3> DEFINE from == t.primary[i]
               to   == u.primary[i]
    <3>1. Forward(Len(t.overflow), Links(t))
      BY <1>1 DEF GoodChains
    <3>2. to.overflow_head = from.overflow_head
      BY <1>3
    <3> HIDE DEF from, to
    <3>3. I!OverflowChain(u, to) = I!OverflowChain(t, from)
      BY <1>1, <1>8, <2>1, <3>1, <3>2, SameChains
    <3> QED
      BY <3>3 DEF Chain, from, to
  <2>3. u.primary = t.primary /\ \A m \in 1 .. L : u.overflow[m].next = t.overflow[m].next
    BY <1>3, <1>7
  <2>4. GoodChains(t, own) /\ Len(u.overflow) = L
    BY <1>1, <1>8
  <2>5. ASSUME NEW i \in 1 .. N, t.primary[i].overflow_head # 0
        PROVE  u.overflow[Last(Chain(t, i))].next = 0
    <3> DEFINE q == Chain(t, i)
    <3>1. Lists(q, Owned(own, L, i)) /\ q # <<>> /\ t.overflow[Last(q)].next = 0
      BY <1>1, <2>5 DEF GoodChains, Owned
    <3> HIDE DEF q, L
    <3>2. Last(q) \in 1 .. L
      BY <1>1, <3>1, ChainEnd
    <3> QED
      BY <2>3, <3>1, <3>2 DEF q
  <2> HIDE DEF L
  <2> QED
    BY <2>1, <2>2, <2>3, <2>4, <2>5 DEF GoodChains, L
<1>10. \A i \in 1 .. N : /\ Lists(u.primary[i].records, With(Primaries(S, page, spot, i), i = n /\ p = 0, r))
                         /\ Len(u.primary[i].records) <= PageCapacity
  <2>1. ASSUME NEW i \in 1 .. N
        PROVE  With(Primaries(S, page, spot, i), i = n /\ p = 0, r) = Primaries(S, page, spot, i)
    BY <1>1 DEF With
  <2> QED
    BY <1>3, <1>4, <2>1
<1>11. \A m \in 1 .. Len(u.overflow) :
          /\ Lists(u.overflow[m].records, With(held(m), m = p, r))
          /\ Len(u.overflow[m].records) <= OverflowCapacity
  <2> HIDE DEF held
  <2>1. ASSUME NEW m \in 1 .. L
        PROVE  /\ Lists(u.overflow[m].records, With(held(m), m = p, r))
               /\ Len(u.overflow[m].records) <= OverflowCapacity
    <3>1. CASE m = p
      BY <1>5, <1>6, <3>1 DEF With
    <3>2. CASE m # p
      BY <1>3, <1>4, <3>2 DEF With
    <3> QED
      BY <3>1, <3>2
  <2> QED
    BY <1>8, <2>1
<1>12. /\ r.key <= Fence(t, n) /\ (n > 1 => Fence(t, n - 1) <= r.key) /\ n \in 1 .. N
       /\ p \in 0 .. Len(u.overflow) /\ Len(t.overflow) <= Len(u.overflow)
  BY <1>1, <1>8 DEF Fits
<1>13. Placed(u, S \cup {r}, own, Coming(S, page, n, r), Coming(S, spot, p, r))
  <2>1. /\ \A i \in 1 .. Len(t.primary) :
              /\ Lists(u.primary[i].records, With(Primaries(S, page, spot, i), i = n /\ p = 0, r))
              /\ Len(u.primary[i].records) <= PageCapacity
        /\ \A i \in 1 .. Len(t.primary) : Fence(u, i) = Fence(t, i)
        /\ p # 0 => own[p] = n
        /\ \A m \in 1 .. Len(t.overflow) : own[m] = own[m]
        /\ Len(u.primary) = Len(t.primary)
    BY <1>3, <1>10 DEF Fence
  <2> QED
    BY <1>1, <1>8, <1>9, <1>11, <1>12, <2>1, OneMorePlaced
<1> QED
  BY <1>13 DEF IsPlaced, u

\* A record in a new overflow page, at the end of its page's chain
LEMMA AddedNew ==
  ASSUME NEW t, NEW S \in SUBSET IsamRecords, NEW own, NEW page, NEW spot, NEW r, NEW n,
         Fits(t, S, own, page, spot, r, n), NEW u \in IsamTables, Hung(t, n, u),
         \A i \in 1 .. Len(t.primary) : /\ u.primary[i].high_key = t.primary[i].high_key
                                        /\ u.primary[i].records = t.primary[i].records,
         u.overflow[Len(t.overflow) + 1].records = <<r>>,
         \A m \in 1 .. Len(t.overflow) : u.overflow[m].records = t.overflow[m].records
  PROVE  IsPlaced(u, S \cup {r})
<1> DEFINE N     == Len(t.primary)
           L     == Len(t.overflow)
           owner == WithOwner(own, L, n)
           p     == L + 1
<1>1. /\ t \in IsamTables /\ N \in Nat /\ L \in Nat /\ n \in 1 .. N
      /\ GoodChains(t, own) /\ Homes(t, S, own, page, spot) /\ RowsHeld(t, S, page, spot)
      /\ Placed(t, S, own, page, spot) /\ r \in IsamRecords /\ r \notin S
      /\ r.key <= Fence(t, n) /\ (n > 1 => Fence(t, n - 1) <= r.key)
  BY IsamTyped DEF Fits, Placed
<1>2. /\ \A i \in 1 .. N : /\ Lists(t.primary[i].records, Primaries(S, page, spot, i))
                           /\ Len(t.primary[i].records) <= PageCapacity
      /\ \A m \in 1 .. L : /\ Lists(t.overflow[m].records, Overflows(S, spot, m))
                           /\ Len(t.overflow[m].records) <= OverflowCapacity
  BY <1>1 DEF RowsHeld
<1>3. GoodChains(u, owner)
  BY <1>1, ChainsGrow
<1>4. Len(u.primary) = N /\ Len(u.overflow) = L + 1
  BY DEF Hung
<1>5. p \in 0 .. L + 1 /\ p # 0 /\ p \in 1 .. L + 1 /\ L <= L + 1 /\ \A m \in 1 .. L : m # p /\ m \in 1 .. L + 1
  BY <1>1
<1>6. owner[p] = n /\ \A m \in 1 .. L : owner[m] = own[m]
  BY <1>5 DEF WithOwner
<1>7. \A i \in 1 .. N : Fence(u, i) = Fence(t, i)
  BY DEF Fence
<1>8. \A i \in 1 .. N : /\ Lists(u.primary[i].records, With(Primaries(S, page, spot, i), i = n /\ p = 0, r))
                        /\ Len(u.primary[i].records) <= PageCapacity
  BY <1>2, <1>5 DEF With
<1>9. \A m \in 1 .. L + 1 :
         /\ Lists(u.overflow[m].records, With(Overflows(S, spot, m), m = p, r))
         /\ Len(u.overflow[m].records) <= OverflowCapacity
  <2>1. ASSUME NEW m \in 1 .. L + 1, m # p
        PROVE  /\ Lists(u.overflow[m].records, With(Overflows(S, spot, m), m = p, r))
               /\ Len(u.overflow[m].records) <= OverflowCapacity
    <3>1. m \in 1 .. L
      BY <1>1, <2>1
    <3> QED
      BY <1>2, <2>1, <3>1 DEF With
  <2>2. With(Overflows(S, spot, p), p = p, r) = {r}
    <3>1. Overflows(S, spot, p) = {}
      <4>1. \A q \in S : spot[q] \in 0 .. L /\ p \notin 0 .. L
        BY <1>1 DEF Homes
      <4> HIDE DEF p
      <4> QED
        BY <4>1 DEF Overflows
    <3> QED
      BY <3>1 DEF With
  <2>3. /\ Lists(u.overflow[p].records, With(Overflows(S, spot, p), p = p, r))
        /\ Len(u.overflow[p].records) <= OverflowCapacity
    <3>1. u.overflow[p].records = <<r>>
      OBVIOUS
    <3>2. Lists(<<r>>, {r}) /\ Len(<<r>>) = 1 /\ 1 <= OverflowCapacity
      BY ListsOne, IsamCapacities
    <3> HIDE DEF p
    <3> QED
      BY <2>2, <3>1, <3>2
  <2> HIDE DEF p
  <2> QED
    BY <2>1, <2>3
<1> HIDE DEF owner, p
<1>10. Placed(u, S \cup {r}, owner, Coming(S, page, n, r), Coming(S, spot, p, r))
  <2>1. /\ p \in 0 .. Len(u.overflow) /\ (p # 0 => owner[p] = n)
        /\ Len(t.overflow) <= Len(u.overflow) /\ Len(u.primary) = Len(t.primary)
    BY <1>4, <1>5, <1>6
  <2>2. \A m \in 1 .. Len(u.overflow) :
           /\ Lists(u.overflow[m].records, With(Overflows(S, spot, m), m = p, r))
           /\ Len(u.overflow[m].records) <= OverflowCapacity
    BY <1>4, <1>9
  <2> QED
    BY <1>1, <1>3, <1>6, <1>7, <1>8, <2>1, <2>2, OneMorePlaced
<1> QED
  BY <1>10 DEF IsPlaced

\* A page of the chain with room, if the code finds one
LEMMA RoomFound ==
  ASSUME NEW t \in IsamTables, NEW chain, Len(chain) \in Nat,
         NEW room, room = I!SelectInSeq(chain, LAMBDA q : Len(t.overflow[q].records) < OverflowCapacity),
         room # 0
  PROVE  room \in 1 .. Len(chain) /\ Len(t.overflow[chain[room]].records) < OverflowCapacity
<1> DEFINE Rooms == {i \in 1 .. Len(chain) : Len(t.overflow[chain[i]].records) < OverflowCapacity}
<1>1. room = IF Rooms # {} THEN I!Min(Rooms) ELSE 0
  BY DEF I!SelectInSeq
<1>2. Rooms # {} /\ room = I!Min(Rooms)
  BY <1>1
<1>3. Rooms \in SUBSET Nat
  OBVIOUS
<1> HIDE DEF Rooms
<1>4. \E i \in Rooms : \A j \in Rooms : i <= j
  BY <1>2, <1>3, LeastNatural
<1>5. room \in Rooms
  BY <1>2, <1>4 DEF I!Min
<1> QED
  BY <1>5 DEF Rooms

\* The sequence of pages, with a new one
LEMMA PageAppended ==
  ASSUME NEW V, NEW s \in Seq(V), NEW x \in V
  PROVE  /\ Append(s, x) \in Seq(V) /\ Len(Append(s, x)) = Len(s) + 1
         /\ Append(s, x)[Len(s) + 1] = x /\ \A m \in 1 .. Len(s) : Append(s, x)[m] = s[m]
OBVIOUS

\* A page that leads to another one
LEMMA HeadGiven ==
  ASSUME NEW x \in [high_key : Int, records : Seq(IsamRecords), overflow_head : Nat], NEW k \in Nat
  PROVE  LET one == [x EXCEPT !.overflow_head = k]
         IN  /\ one \in [high_key : Int, records : Seq(IsamRecords), overflow_head : Nat]
             /\ one.high_key = x.high_key /\ one.records = x.records /\ one.overflow_head = k
OBVIOUS

\* The same for an overflow page
LEMMA NextGiven ==
  ASSUME NEW x \in [records : Seq(IsamRecords), next : Nat], NEW k \in Nat
  PROVE  LET one == [x EXCEPT !.next = k]
         IN  /\ one \in [records : Seq(IsamRecords), next : Nat]
             /\ one.records = x.records /\ one.next = k
OBVIOUS

\* A record goes to the first overflow page with room, or to a new page
LEMMA AppendedOverflow ==
  ASSUME NEW t, NEW S \in SUBSET IsamRecords, NEW own, NEW page, NEW spot, NEW r, NEW n,
         Fits(t, S, own, page, spot, r, n)
  PROVE  IsPlaced(I!AppendOverflowRecord(t, n, r), S \cup {r})
<1> DEFINE N     == Len(t.primary)
           L     == Len(t.overflow)
           chain == Chain(t, n)
           room  == I!SelectInSeq(chain, LAMBDA q : Len(t.overflow[q].records) < OverflowCapacity)
           end   == Last(chain)
           PV    == [high_key : Int, records : Seq(IsamRecords), overflow_head : Nat]
           OV    == [records : Seq(IsamRecords), next : Nat]
           fresh == I!OverflowPage(r)
           firsts == IF chain = <<>> THEN [t.primary EXCEPT ![n].overflow_head = L + 1] ELSE t.primary
           others == IF chain = <<>> THEN t.overflow ELSE [t.overflow EXCEPT ![end].next = L + 1]
           u     == I!AppendOverflowRecord(t, n, r)
<1>1. /\ t \in IsamTables /\ N \in Nat /\ L \in Nat /\ n \in 1 .. N
      /\ DOMAIN t.primary = 1 .. N /\ DOMAIN t.overflow = 1 .. L
      /\ t.primary \in Seq(PV) /\ (\A i \in 1 .. N : t.primary[i] \in PV)
      /\ t.overflow \in Seq(OV) /\ (\A m \in 1 .. L : t.overflow[m] \in OV)
      /\ GoodChains(t, own) /\ r \in IsamRecords
  BY IsamTyped DEF Fits, Placed, IsamTables
<1>2. u = IF room # 0
          THEN [t EXCEPT !.overflow[chain[room]].records = I!InsertSorted(@, r)]
          ELSE [primary |-> firsts, overflow |-> Append(others, fresh)]
  BY SameOfIsam DEF I!AppendOverflowRecord, Chain
<1>3. /\ Lists(chain, Owned(own, L, n))
      /\ t.primary[n].overflow_head = 0 <=> chain = <<>>
  BY <1>1 DEF GoodChains, Owned
<1> HIDE DEF chain, u, room
<1>4. Len(chain) \in Nat /\ \A j \in 1 .. Len(chain) : chain[j] \in 1 .. L /\ own[chain[j]] = n
  <2>1. chain \in Seq(Owned(own, L, n))
    BY <1>3 DEF Lists
  <2>2. Len(chain) \in Nat /\ \A j \in 1 .. Len(chain) : chain[j] \in Owned(own, L, n)
    BY <2>1
  <2> QED
    BY <2>2 DEF Owned
<1>5. CASE room # 0
  <2> DEFINE p == chain[room]
  <2>1. room \in 1 .. Len(chain) /\ Len(t.overflow[p].records) < OverflowCapacity
    BY <1>1, <1>4, <1>5, RoomFound DEF room
  <2>2. p \in 1 .. L /\ own[p] = n
    BY <1>4, <2>1
  <2>3. u = [t EXCEPT !.overflow[p].records = I!InsertSorted(@, r)]
    BY <1>2, <1>5
  <2> HIDE DEF p
  <2>4. IsPlaced([t EXCEPT !.overflow[p].records = I!InsertSorted(@, r)], S \cup {r})
    BY <2>1, <2>2, AddedOverflow
  <2> QED
    BY <2>3, <2>4 DEF u
<1>6. CASE room = 0
  <2>1. u = [primary |-> firsts, overflow |-> Append(others, fresh)]
    BY <1>2, <1>6
  <2>2. fresh \in OV /\ fresh.records = <<r>> /\ fresh.next = 0
    <3>1. fresh = [records |-> <<r>>, next |-> 0]
      BY DEF I!OverflowPage, I!NoPage
    <3>2. <<r>> \in Seq(IsamRecords)
      BY <1>1
    <3> HIDE DEF fresh
    <3> QED
      BY <3>1, <3>2
  <2> HIDE DEF fresh
  <2>3. /\ firsts \in Seq(PV) /\ Len(firsts) = N
        /\ \A i \in 1 .. N : /\ firsts[i].high_key = t.primary[i].high_key
                             /\ firsts[i].records = t.primary[i].records
                             /\ i # n \/ chain # <<>> => firsts[i].overflow_head = t.primary[i].overflow_head
        /\ chain = <<>> => firsts[n].overflow_head = L + 1
    <3>1. CASE chain = <<>>
      <4> DEFINE old == t.primary
                 one == [old[n] EXCEPT !.overflow_head = L + 1]
      <4>1. firsts = [old EXCEPT ![n] = one]
        BY <3>1
      <4>2. /\ one \in PV /\ one.high_key = old[n].high_key /\ one.records = old[n].records
            /\ one.overflow_head = L + 1
        <5>1. old[n] \in PV /\ L + 1 \in Nat
          BY <1>1
        <5> HIDE DEF L, old
        <5> QED
          BY <5>1, HeadGiven
      <4>3. old \in Seq(PV) /\ Len(old) = N /\ n \in 1 .. N
        BY <1>1
      <4> HIDE DEF old, one, PV, N, firsts
      <4>4. firsts \in Seq(PV) /\ Len(firsts) = N /\ \A i \in 1 .. N : firsts[i] = IF i = n THEN one ELSE old[i]
        BY <4>1, <4>2, <4>3
      <4> QED
        BY <3>1, <4>2, <4>3, <4>4 DEF old
    <3>2. CASE chain # <<>>
      BY <1>1, <3>2
    <3> QED
      BY <3>1, <3>2
  <2>4. chain # <<>> => end \in 1 .. L
    <3> HIDE DEF L
    <3> QED
      BY <1>1, <1>3, ChainEnd DEF L
  <2>5. /\ others \in Seq(OV) /\ Len(others) = L
        /\ \A m \in 1 .. L : /\ others[m].records = t.overflow[m].records
                             /\ m # end \/ chain = <<>> => others[m].next = t.overflow[m].next
        /\ chain # <<>> => others[end].next = L + 1
    <3>1. CASE chain # <<>>
      <4> DEFINE old == t.overflow
                 one == [old[end] EXCEPT !.next = L + 1]
      <4>1. others = [old EXCEPT ![end] = one]
        BY <3>1
      <4>2. end \in 1 .. L
        BY <2>4, <3>1
      <4>3. one \in OV /\ one.records = old[end].records /\ one.next = L + 1
        <5>1. L + 1 \in Nat
          BY <1>1
        <5> HIDE DEF L, end
        <5>2. old[end] \in OV
          BY <1>1, <4>2
        <5> HIDE DEF old
        <5> QED
          BY <5>1, <5>2, NextGiven
      <4>4. old \in Seq(OV) /\ Len(old) = L
        BY <1>1
      <4> HIDE DEF old, one, OV, L, others, end
      <4>5. others \in Seq(OV) /\ Len(others) = L /\ \A m \in 1 .. L : others[m] = IF m = end THEN one ELSE old[m]
        BY <4>1, <4>2, <4>3, <4>4
      <4> QED
        BY <3>1, <4>2, <4>3, <4>4, <4>5 DEF old
    <3>2. CASE chain = <<>>
      BY <1>1, <3>2
    <3> QED
      BY <3>1, <3>2
  <2> HIDE DEF firsts, others, PV, OV, end
  <2> DEFINE all == Append(others, fresh)
  <2>6. /\ all \in Seq(OV) /\ Len(all) = L + 1 /\ all[L + 1] = fresh
        /\ \A m \in 1 .. L : all[m] = others[m]
    <3> HIDE DEF L
    <3>1. Len(others) = L /\ others \in Seq(OV) /\ fresh \in OV
      BY <2>2, <2>5
    <3> QED
      BY <3>1, PageAppended
  <2> HIDE DEF all
  <2>7. u \in IsamTables /\ u.primary = firsts /\ u.overflow = all
    BY <2>1, <2>3, <2>6 DEF IsamTables, PV, OV, all
  <2>8. Hung(t, n, u)
    <3>1. /\ Len(u.primary) = N /\ Len(u.overflow) = L + 1 /\ u.overflow[L + 1].next = 0
          /\ \A i \in 1 .. N : i # n => u.primary[i].overflow_head = t.primary[i].overflow_head
      BY <2>2, <2>3, <2>6, <2>7
    <3>2. ASSUME t.primary[n].overflow_head = 0
          PROVE  /\ u.primary[n].overflow_head = L + 1
                 /\ \A m \in 1 .. L : u.overflow[m].next = t.overflow[m].next
      BY <1>3, <2>3, <2>5, <2>6, <2>7, <3>2
    <3>3. ASSUME t.primary[n].overflow_head # 0
          PROVE  /\ u.primary[n].overflow_head = t.primary[n].overflow_head
                 /\ u.overflow[end].next = L + 1
                 /\ \A m \in 1 .. L : m # end => u.overflow[m].next = t.overflow[m].next
      BY <1>1, <1>3, <2>3, <2>4, <2>5, <2>6, <2>7, <3>3
    <3> QED
      BY <3>1, <3>2, <3>3 DEF Hung, end, chain
  <2>9. /\ \A i \in 1 .. Len(t.primary) : /\ u.primary[i].high_key = t.primary[i].high_key
                                          /\ u.primary[i].records = t.primary[i].records
        /\ u.overflow[Len(t.overflow) + 1].records = <<r>>
        /\ \A m \in 1 .. Len(t.overflow) : u.overflow[m].records = t.overflow[m].records
    BY <2>2, <2>3, <2>5, <2>6, <2>7
  <2>10. IsPlaced(u, S \cup {r})
    BY <2>7, <2>8, <2>9, AddedNew
  <2> QED
    BY <2>10 DEF u
<1> QED
  BY <1>5, <1>6

\* Pages without overflow
LEMMA FreshPlaced ==
  ASSUME NEW S \in SUBSET IsamRecords,
         NEW pages \in Seq([high_key : Int, records : Seq(IsamRecords), overflow_head : Nat]),
         NEW t, t = [primary |-> pages, overflow |-> <<>>], NEW page \in [S -> 1 .. Len(pages)],
         \A i \in 1 .. Len(pages) : /\ pages[i].overflow_head = 0
                                    /\ Lists(pages[i].records, OnPage(S, page, i))
                                    /\ Len(pages[i].records) <= PageCapacity,
         FencesFit(t, S, page)
  PROVE  IsPlaced(t, S)
<1> DEFINE N    == Len(pages)
           own  == [m \in 1 .. 0 |-> 1]
           spot == [r \in S |-> 0]
<1>1. /\ t.primary = pages /\ t.overflow = <<>> /\ Len(t.overflow) = 0 /\ N \in Nat
      /\ 1 .. 0 = {} /\ 0 \in 0 .. 0
  OBVIOUS
<1>2. t \in IsamTables
  <2>1. <<>> \in Seq([records : Seq(IsamRecords), next : Nat])
    OBVIOUS
  <2> QED
    BY <2>1 DEF IsamTables
<1>3. \A i \in 1 .. N : Chain(t, i) = <<>>
  <2>1. Forward(0, Links(t))
    BY <1>1 DEF Forward
  <2>2. PICK c : IsChain(c, 0, Links(t))
    BY <2>1, ChainExists
  <2>3. c[0] = <<>>
    BY <2>2 DEF IsChain
  <2>4. ASSUME NEW i \in 1 .. N PROVE Chain(t, i) = <<>>
    <3>1. Chain(t, i) = c[pages[i].overflow_head]
      <4>1. Len(t.overflow) \in Nat /\ Forward(Len(t.overflow), Links(t)) /\ IsChain(c, Len(t.overflow), Links(t))
        BY <1>1, <2>1, <2>2
      <4>2. \A one : I!OverflowChain(t, one) = c[one.overflow_head]
        BY <4>1, ChainOfPage
      <4> QED
        BY <1>1, <4>2 DEF Chain
    <3>2. pages[i].overflow_head = 0
      OBVIOUS
    <3> QED
      BY <2>3, <3>1, <3>2
  <2> QED
    BY <2>4
<1>4. GoodChains(t, own)
  <2>1. Forward(0, Links(t)) /\ own \in [1 .. 0 -> 1 .. N]
    BY <1>1 DEF Forward
  <2>2. \A i \in 1 .. N : {m \in 1 .. 0 : own[m] = i} = {}
    BY <1>1
  <2> HIDE DEF own, N
  <2> QED
    BY <1>1, <1>3, <2>1, <2>2, ListsNothing DEF GoodChains, N
<1>5. Homes(t, S, own, page, spot)
  BY <1>1 DEF Homes
<1>6. RowsHeld(t, S, page, spot)
  <2>1. ASSUME NEW i \in 1 .. N PROVE Primaries(S, page, spot, i) = OnPage(S, page, i)
    BY DEF Primaries, OnPage
  <2> HIDE DEF spot
  <2> QED
    BY <1>1, <2>1 DEF RowsHeld
<1>7. Placed(t, S, own, page, spot)
  BY <1>2, <1>4, <1>5, <1>6 DEF Placed
<1> QED
  BY <1>7 DEF IsPlaced

\* A page of its own for the first record
LEMMA FirstPage ==
  ASSUME NEW r \in IsamRecords
  PROVE  IsPlaced([primary |-> <<I!PrimaryPage(<<r>>)>>, overflow |-> <<>>], {r})
<1> DEFINE one   == I!PrimaryPage(<<r>>)
           pages == <<one>>
           page  == [q \in {r} |-> 1]
           t     == [primary |-> pages, overflow |-> <<>>]
<1>1. r.key \in Int
  BY KeysAssumption DEF IsamRecords, Ordered
<1>2. one = [high_key |-> r.key, records |-> <<r>>, overflow_head |-> 0]
  <2>1. I!Last(<<r>>) = r
    BY DEF I!Last
  <2> QED
    BY <2>1 DEF I!PrimaryPage, I!NoPage
<1>3. /\ one \in [high_key : Int, records : Seq(IsamRecords), overflow_head : Nat]
      /\ one.high_key = r.key /\ one.records = <<r>> /\ one.overflow_head = 0
  <2>1. <<r>> \in Seq(IsamRecords)
    OBVIOUS
  <2> HIDE DEF one
  <2> QED
    BY <1>1, <1>2, <2>1
<1> HIDE DEF one
<1>4. /\ pages \in Seq([high_key : Int, records : Seq(IsamRecords), overflow_head : Nat])
      /\ Len(pages) = 1 /\ pages[1] = one
  BY <1>3
<1>5. page \in [{r} -> 1 .. 1] /\ page[r] = 1
  OBVIOUS
<1>6. OnPage({r}, page, 1) = {r}
  BY <1>5 DEF OnPage
<1>7. Lists(<<r>>, {r}) /\ Len(<<r>>) = 1 /\ 1 <= PageCapacity
  BY ListsOne, IsamCapacities
<1>8. t.primary = pages
  OBVIOUS
<1> HIDE DEF pages, page, t
<1>9. FencesFit(t, {r}, page)
  <2>1. Fence(t, 1) = r.key
    BY <1>3, <1>4, <1>8 DEF Fence
  <2>2. \A i \in 1 .. Len(t.primary) : i = 1
    <3>1. Len(t.primary) = 1 /\ \A i \in 1 .. 1 : i = 1
      BY <1>4, <1>8
    <3> QED
      BY <3>1
  <2> QED
    BY <1>1, <1>5, <2>1, <2>2 DEF FencesFit
<1>10. \A i \in 1 .. Len(pages) : /\ pages[i].overflow_head = 0
                                  /\ Lists(pages[i].records, OnPage({r}, page, i))
                                  /\ Len(pages[i].records) <= PageCapacity
  <2>1. \A i \in 1 .. 1 : i = 1
    OBVIOUS
  <2> QED
    BY <1>3, <1>4, <1>6, <1>7, <2>1
<1>11. {r} \in SUBSET IsamRecords /\ page \in [{r} -> 1 .. Len(pages)]
  BY <1>4, <1>5
<1>12. IsPlaced(t, {r})
  BY <1>4, <1>9, <1>10, <1>11, FreshPlaced DEF t
<1> QED
  BY <1>12 DEF t, pages, one

\* An insert finds the new row a place
LEMMA IsamInserted ==
  ASSUME NEW t, NEW S \in SUBSET IsamRecords, IsPlaced(t, S), NEW r \in IsamRecords, r \notin S
  PROVE  IsPlaced(I!InsertRecord(t, r.key, r), S \cup {r})
<1>1. PICK own, page, spot : Placed(t, S, own, page, spot)
  BY DEF IsPlaced
<1> DEFINE N == Len(t.primary)
           n == I!FindPage(t, r.key)
           f == I!RaiseFence(t, n, r.key)
<1>2. t \in IsamTables /\ N \in Nat /\ r.key \in Int
  BY <1>1, IsamTyped, KeysAssumption DEF Placed, IsamRecords, Ordered
<1>3. CASE t.primary = <<>>
  <2>1. N = 0
    BY <1>3
  <2>2. S = {}
    <3>1. \A q \in S : page[q] \in 1 .. 0
      BY <1>1, <2>1 DEF Placed, Homes
    <3> QED
      BY <3>1
  <2>3. t.overflow = <<>>
    <3>1. t.overflow \in Seq([records : Seq(IsamRecords), next : Nat]) /\ Len(t.overflow) \in Nat
      BY <1>2, IsamTyped DEF IsamTables
    <3>2. \A m \in 1 .. Len(t.overflow) : own[m] \in 1 .. 0
      BY <1>1, <2>1 DEF Placed, GoodChains
    <3>3. Len(t.overflow) = 0
      <4>1. \A m \in 1 .. Len(t.overflow) : FALSE
        BY <3>2
      <4>2. 1 \notin 1 .. Len(t.overflow)
        BY <4>1
      <4> QED
        BY <3>1, <4>2
    <3> QED
      BY <3>1, <3>3, EmptySeq
  <2>4. I!InsertRecord(t, r.key, r) = [t EXCEPT !.primary = <<I!PrimaryPage(<<r>>)>>]
    BY <1>3 DEF I!InsertRecord
  <2>5. [t EXCEPT !.primary = <<I!PrimaryPage(<<r>>)>>]
          = [primary |-> <<I!PrimaryPage(<<r>>)>>, overflow |-> <<>>]
    <3> DEFINE one == <<I!PrimaryPage(<<r>>)>>
    <3>1. t = [primary |-> t.primary, overflow |-> <<>>]
      BY <1>2, <2>3 DEF IsamTables
    <3> HIDE DEF one
    <3>2. [t EXCEPT !.primary = one] = [primary |-> one, overflow |-> <<>>]
      BY <3>1
    <3> QED
      BY <3>2 DEF one
  <2>6. S \cup {r} = {r}
    BY <2>2
  <2> QED
    BY <2>4, <2>5, <2>6, FirstPage
<1>4. CASE t.primary # <<>>
  <2>1. N > 0
    <3>1. t.primary \in Seq([high_key : Int, records : Seq(IsamRecords), overflow_head : Nat])
      BY <1>2 DEF IsamTables
    <3> QED
      BY <1>2, <1>4, <3>1, EmptySeq
  <2>2. /\ n \in 1 .. N /\ Placed(f, S, own, page, spot) /\ Len(f.primary) = N
        /\ r.key <= Fence(f, n) /\ (n > 1 => Fence(f, n - 1) <= r.key)
        /\ f.primary[n].records = t.primary[n].records
    BY <1>1, <1>2, <2>1, FenceRaised
  <2>3. I!InsertRecord(t, r.key, r) =
          IF Len(t.primary[n].records) < PageCapacity
          THEN [f EXCEPT !.primary[n].records = I!InsertSorted(@, r)]
          ELSE I!AppendOverflowRecord(f, n, r)
    BY <1>4 DEF I!InsertRecord
  <2> HIDE DEF n, f
  <2>4. Fits(f, S, own, page, spot, r, n)
    BY <2>2 DEF Fits
  <2>5. CASE Len(t.primary[n].records) < PageCapacity
    BY <2>2, <2>3, <2>4, <2>5, AddedPrimary
  <2>6. CASE ~(Len(t.primary[n].records) < PageCapacity)
    BY <2>3, <2>4, <2>6, AppendedOverflow
  <2> QED
    BY <2>5, <2>6
<1> QED
  BY <1>3, <1>4

\* A multiple of a greater number is greater
LEMMA MultiplesGrow ==
  ASSUME NEW m \in Nat, NEW a \in Nat, NEW b \in Nat, a <= b
  PROVE  a * m <= b * m /\ a * m \in Nat /\ b * m \in Nat
<1>1. b - a \in Nat /\ b = a + (b - a)
  OBVIOUS
<1>2. (b - a) * m \in Nat
  BY <1>1
<1>3. b * m = a * m + (b - a) * m
  BY <1>1
<1> QED
  BY <1>2, <1>3

\* How build cuts the sorted rows into pages: from one place to another
PageCount(n)   == (n + PageCapacity - 1) \div PageCapacity
PageStart(i)   == (i - 1) * PageCapacity
PageStop(n, i) == IF PageStart(i) + PageCapacity <= n THEN PageStart(i) + PageCapacity ELSE n
PageOfPlace(j) == (j - 1) \div PageCapacity + 1

\* The last page has what is left
LEMMA PageCounted ==
  ASSUME NEW n \in Nat
  PROVE  /\ PageCount(n) \in Nat /\ n <= PageCount(n) * PageCapacity
         /\ PageCount(n) > 0 => (PageCount(n) - 1) * PageCapacity < n
<1> DEFINE C == PageCapacity
           x == n + C - 1
           k == PageCount(n)
           o == x % C
<1>1. C \in Nat \ {0}
  BY IsamCapacities
<1> HIDE DEF C
<1>2. x \in Nat /\ x = n + C - 1
  BY <1>1
<1> HIDE DEF x
<1>3. x = C * (x \div C) + o /\ x \div C \in Nat /\ o \in 0 .. C - 1
  BY <1>1, <1>2, Division
<1>4. k = x \div C
  BY DEF PageCount, C, x
<1> HIDE DEF k, o
<1>5. x = C * k + o /\ k \in Nat
  BY <1>3, <1>4
<1> DEFINE y == k * C
<1>6. x = y + o /\ y \in Int
  BY <1>1, <1>5
<1>7. (k - 1) * C = y - C
  BY <1>1, <1>5
<1> HIDE DEF y
<1>8. n <= y /\ y - C < n
  BY <1>1, <1>2, <1>3, <1>6
<1> QED
  BY <1>5, <1>7, <1>8 DEF k, C, y

\* Where a page starts and stops, from its number
LEMMA PageBounds ==
  ASSUME NEW n \in Nat, NEW i \in 1 .. PageCount(n)
  PROVE  /\ PageStart(i) \in 0 .. n - 1 /\ PageStop(n, i) \in 1 .. n
         /\ PageStart(i) < PageStop(n, i) /\ PageStop(n, i) - PageStart(i) <= PageCapacity
         /\ \A k \in 1 .. PageCount(n) : i < k =>
               PageStart(i) + PageCapacity <= PageStart(k) /\ PageStop(n, i) <= PageStart(k)
<1> DEFINE C == PageCapacity
           N == PageCount(n)
<1>1. C \in Nat \ {0} /\ N \in Nat /\ (N > 0 => (N - 1) * C < n)
  BY IsamCapacities, PageCounted
<1>2. i \in 1 .. N
  OBVIOUS
<1> HIDE DEF C, N
<1>3. i - 1 \in Nat /\ N - 1 \in Nat /\ i - 1 <= N - 1 /\ N > 0
  BY <1>1, <1>2
<1>4. (i - 1) * C <= (N - 1) * C /\ (i - 1) * C \in Nat /\ (N - 1) * C \in Nat
  BY <1>1, <1>3, MultiplesGrow
<1> DEFINE s == (i - 1) * C
           e == PageStop(n, i)
<1>5. s \in Nat /\ s < n
  BY <1>1, <1>3, <1>4
<1>6. PageStart(i) = s /\ e = IF s + C <= n THEN s + C ELSE n
  BY DEF PageStart, PageStop, C
<1> HIDE DEF s, e
<1>7. s \in 0 .. n - 1 /\ e \in 1 .. n /\ s < e /\ e - s <= C /\ e <= s + C
  BY <1>1, <1>5, <1>6
<1>8. ASSUME NEW k \in 1 .. N, i < k PROVE s + C <= PageStart(k)
  <2>1. i \in Nat /\ k - 1 \in Nat /\ i <= k - 1
    BY <1>1, <1>2, <1>8
  <2>2. i * C <= (k - 1) * C /\ i * C \in Nat /\ (k - 1) * C \in Nat
    BY <1>1, <2>1, MultiplesGrow
  <2>3. i * C = (i - 1) * C + C
    BY <1>1, <2>1
  <2> QED
    BY <2>2, <2>3 DEF PageStart, C, s
<1>9. ASSUME NEW k \in 1 .. N, i < k PROVE PageStart(k) \in Int
  <2>1. k - 1 \in Nat
    BY <1>1, <1>9
  <2> QED
    BY <1>1, <2>1 DEF PageStart, C
<1>10. ASSUME NEW k \in 1 .. N, i < k PROVE s + C <= PageStart(k) /\ e <= PageStart(k)
  BY <1>1, <1>5, <1>7, <1>8, <1>9, <1>10
<1> QED
  BY <1>6, <1>7, <1>10 DEF N, C, e

\* The page of a place is the one it is between the start and the stop of
LEMMA PageOfPlaces ==
  ASSUME NEW n \in Nat, NEW j \in 1 .. n
  PROVE  /\ PageOfPlace(j) \in 1 .. PageCount(n)
         /\ \A i \in 1 .. PageCount(n) :
               PageOfPlace(j) = i <=> j \in PageStart(i) + 1 .. PageStop(n, i)
<1> DEFINE C == PageCapacity
           N == PageCount(n)
           x == j - 1
           q == x \div C
           o == x % C
           p == PageOfPlace(j)
<1>1. C \in Nat \ {0} /\ N \in Nat /\ n <= N * C
  BY IsamCapacities, PageCounted
<1> HIDE DEF C, N
<1>2. x \in Nat /\ x < n /\ x = j - 1
  OBVIOUS
<1> HIDE DEF x
<1>3. x = C * q + o /\ q \in Nat /\ o \in 0 .. C - 1
  BY <1>1, <1>2, Division
<1>4. p = q + 1
  BY DEF PageOfPlace, C, x
<1> HIDE DEF q, o, p
<1>5. q * C = C * q /\ q * C \in Nat
  BY <1>1, <1>3
<1>6. q < N
  <2>1. SUFFICES ASSUME N <= q PROVE FALSE
    BY <1>1, <1>3
  <2>2. N * C <= q * C /\ N * C \in Nat
    BY <1>1, <1>3, <2>1, MultiplesGrow
  <2> DEFINE y == q * C
             z == N * C
  <2>3. x = y + o /\ z <= y /\ n <= z /\ y \in Nat /\ z \in Nat
    BY <1>1, <1>3, <1>5, <2>2
  <2> HIDE DEF y, z
  <2> QED
    BY <1>1, <1>2, <1>3, <2>3
<1>7. p \in 1 .. N
  BY <1>1, <1>3, <1>4, <1>6
<1>8. j \in PageStart(p) + 1 .. PageStop(n, p)
  <2> DEFINE y == q * C
  <2>1. PageStart(p) = y
    <3>1. p - 1 = q
      BY <1>3, <1>4
    <3> QED
      BY <3>1 DEF PageStart, C
  <2>2. PageStop(n, p) = IF y + C <= n THEN y + C ELSE n
    BY <2>1 DEF PageStop, C
  <2>3. x = y + o /\ y \in Nat
    BY <1>3, <1>5
  <2> HIDE DEF y
  <2> QED
    BY <1>1, <1>2, <1>3, <2>1, <2>2, <2>3
<1>9. ASSUME NEW i \in 1 .. N, j \in PageStart(i) + 1 .. PageStop(n, i) PROVE i = p
  <2> DEFINE s == PageStart(i)
             e == PageStop(n, i)
             u == PageStart(p)
             v == PageStop(n, p)
  <2>1. s \in Int /\ e \in Int /\ u \in Int /\ v \in Int
    BY <1>7, PageBounds DEF N
  <2>2. (i < p => e <= u) /\ (p < i => v <= s)
    BY <1>7, PageBounds DEF N
  <2>3. j \in s + 1 .. e /\ j \in u + 1 .. v
    BY <1>8, <1>9
  <2> HIDE DEF s, e, u, v
  <2>4. ~(i < p) /\ ~(p < i)
    BY <2>1, <2>2, <2>3
  <2> QED
    BY <1>1, <1>7, <2>4
<1> QED
  BY <1>7, <1>8, <1>9 DEF p, N

\* The elements from one place to another
Between(seq, a, b) == {seq[j] : j \in a + 1 .. b}

\* A part of a list lists its part of the set
LEMMA SliceLists ==
  ASSUME NEW seq, NEW S, Lists(seq, S), NEW a \in 0 .. Len(seq), NEW b \in a .. Len(seq)
  PROVE  /\ Lists(SubSeq(seq, a + 1, b), Between(seq, a, b)) /\ Len(SubSeq(seq, a + 1, b)) = b - a
         /\ b > a => Last(SubSeq(seq, a + 1, b)) = seq[b]
<1> DEFINE n    == Len(seq)
           part == SubSeq(seq, a + 1, b)
           Q    == Between(seq, a, b)
           m    == b - a
<1>1. /\ n \in Nat /\ DOMAIN seq = 1 .. n /\ (\A j \in 1 .. n : seq[j] \in S)
      /\ \A j, k \in 1 .. n : seq[j] = seq[k] => j = k
  BY PlacesOf DEF Lists
<1>2. a \in 0 .. n /\ b \in a .. n
  OBVIOUS
<1> HIDE DEF n
<1>3. /\ m \in Nat /\ a \in Nat /\ b \in Nat /\ a + 1 \in Int /\ b = a + m
      /\ (a + 1 <= b => b - (a + 1) + 1 = m) /\ (~(a + 1 <= b) => m = 0) /\ b - (a + 1) + 1 = m
      /\ \A j \in a + 1 .. b : j \in 1 .. n
      /\ \A j \in 1 .. m : a + j \in a + 1 .. b /\ a + 1 + j - 1 = a + j
      /\ \A j \in a + 1 .. b : j - a \in 1 .. m /\ a + (j - a) = j
      /\ \A j, k \in 1 .. m : a + j = a + k => j = k
  BY <1>1, <1>2
<1> HIDE DEF m
<1>4. \A j \in a + 1 .. b : seq[j] \in Q
  BY DEF Between
<1>5. part \in Seq(Q) /\ Len(part) = m /\ \A j \in 1 .. m : part[j] = seq[a + j]
  <2>1. /\ part \in Seq(Q) /\ Len(part) = IF a + 1 <= b THEN b - (a + 1) + 1 ELSE 0
        /\ \A j \in 1 .. b - (a + 1) + 1 : part[j] = seq[a + 1 + j - 1]
    BY <1>3, <1>4, SubSeqProperties
  <2> HIDE DEF part
  <2> QED
    BY <1>3, <2>1
<1> HIDE DEF part
<1>6. DOMAIN part = 1 .. m
  BY <1>5
<1>7. \A j, k \in 1 .. m : part[j] = part[k] => j = k
  BY <1>1, <1>3, <1>5
<1>8. Q = {part[j] : j \in 1 .. m}
  <2>1. ASSUME NEW x \in Q PROVE \E j \in 1 .. m : part[j] = x
    <3>1. PICK j \in a + 1 .. b : x = seq[j]
      BY DEF Between
    <3>2. j - a \in 1 .. m /\ part[j - a] = x
      BY <1>3, <1>5, <3>1
    <3> QED
      BY <3>2
  <2>2. \A j \in 1 .. m : part[j] \in Q
    BY <1>3, <1>4, <1>5
  <2> HIDE DEF Q
  <2> QED
    BY <2>1, <2>2
<1>9. ToSet(part) = Q
  BY <1>6, <1>8 DEF ToSet
<1> HIDE DEF Q
<1>10. IsFiniteSet(Q) /\ Cardinality(Q) = m
  <2> DEFINE f == [j \in 1 .. m |-> part[j]]
  <2>1. f \in Bijection(1 .. m, Q)
    BY <1>7, <1>8 DEF Bijection, Injection, Surjection, IsInjective
  <2>2. IsFiniteSet(1 .. m) /\ Cardinality(1 .. m) = m
    <3>1. m \in Nat
      BY <1>3
    <3> QED
      BY <3>1, FS_Interval
  <2>3. ExistsBijection(1 .. m, Q)
    BY <2>1 DEF ExistsBijection
  <2> HIDE DEF f
  <2> QED
    BY <2>2, <2>3, FS_Bijection
<1>11. Lists(part, Q)
  BY <1>5, <1>6, <1>7, <1>9, <1>10 DEF Lists
<1>12. ASSUME b > a PROVE Last(part) = seq[b]
  <2>1. m \in 1 .. m /\ b = a + m
    BY <1>3, <1>12 DEF m
  <2> QED
    BY <1>5, <2>1 DEF Last
<1> QED
  BY <1>5, <1>11, <1>12 DEF m, part, Q

\* build gives the rows, in their order, to as many pages as they fill
LEMMA IsamBuilt ==
  ASSUME NEW seq, NEW S \in SUBSET IsamRecords, Lists(seq, S)
  PROVE  IsPlaced(I!Build(seq), S)
<1> DEFINE sorted == Sorted(seq)
           n      == Len(sorted)
           N      == PageCount(n)
           from(i) == PageStart(i)
           to(i)   == PageStop(n, i)
           slice(i) == SubSeq(sorted, from(i) + 1, to(i))
           one(i)   == [high_key |-> sorted[to(i)].key, records |-> slice(i), overflow_head |-> 0]
           pages    == [i \in 1 .. N |-> one(i)]
           t        == [primary |-> pages, overflow |-> <<>>]
           place    == [r \in S |-> CHOOSE j \in 1 .. n : sorted[j] = r]
           page     == [r \in S |-> PageOfPlace(place[r])]
<1>1. \A r \in S : r.key \in Int /\ r \in IsamRecords
  BY KeysAssumption DEF IsamRecords, Ordered
<1>2. Lists(sorted, S) /\ InKeyOrder(sorted)
  BY <1>1, SortedLists
<1>3. I!Sorted(seq) = sorted
  BY SameOfIsam
<1> HIDE DEF sorted
<1>4. /\ n \in Nat /\ DOMAIN sorted = 1 .. n /\ (\A j \in 1 .. n : sorted[j] \in S)
      /\ \A j, k \in 1 .. n : sorted[j] = sorted[k] => j = k
  BY <1>2, PlacesOf DEF Lists
<1>5. \A r \in S : \E j \in 1 .. n : sorted[j] = r
  <2>1. S = {sorted[j] : j \in 1 .. n}
    BY <1>2, <1>4 DEF Lists, ToSet
  <2> HIDE DEF n
  <2> QED
    BY <2>1
<1>6. \A j, k \in 1 .. n : j <= k => sorted[j].key <= sorted[k].key
  BY <1>1, <1>2, <1>4 DEF InKeyOrder
<1> HIDE DEF n
<1>7. N \in Nat
  BY <1>4, PageCounted
<1>8. \A i \in 1 .. N :
         /\ from(i) \in 0 .. n - 1 /\ to(i) \in 1 .. n /\ from(i) < to(i) /\ to(i) - from(i) <= PageCapacity
         /\ \A k \in 1 .. N : i < k => from(i) + PageCapacity <= from(k) /\ to(i) <= from(k)
  BY <1>4, PageBounds
<1>9. \A j \in 1 .. n : PageOfPlace(j) \in 1 .. N /\ \A i \in 1 .. N : PageOfPlace(j) = i <=> j \in from(i) + 1 .. to(i)
  BY <1>4, PageOfPlaces
<1>10. \A r \in S : place[r] \in 1 .. n /\ sorted[place[r]] = r
  BY <1>5
<1>11. \A r \in S : /\ page[r] \in 1 .. N
                    /\ \A i \in 1 .. N : page[r] = i <=> place[r] \in from(i) + 1 .. to(i)
  <2>1. \A r \in S : page[r] = PageOfPlace(place[r])
    OBVIOUS
  <2> HIDE DEF place, page
  <2> QED
    BY <1>9, <1>10, <2>1
<1>12. page \in [S -> 1 .. N]
  <2>1. page = [r \in S |-> page[r]]
    OBVIOUS
  <2> HIDE DEF page
  <2> QED
    BY <1>11, <2>1
<1> HIDE DEF place, page
<1>13. ASSUME NEW i \in 1 .. N
       PROVE  /\ Lists(slice(i), OnPage(S, page, i)) /\ Len(slice(i)) <= PageCapacity
              /\ Last(slice(i)) = sorted[to(i)]
  <2> DEFINE a == from(i)
             b == to(i)
  <2>1. a \in 0 .. n /\ b \in a .. n /\ b > a /\ b - a <= PageCapacity
    BY <1>4, <1>8
  <2>2. OnPage(S, page, i) = Between(sorted, a, b)
    <3>1. ASSUME NEW r \in OnPage(S, page, i) PROVE r \in Between(sorted, a, b)
      <4>1. r \in S /\ page[r] = i
        BY DEF OnPage
      <4>2. place[r] \in a + 1 .. b /\ sorted[place[r]] = r
        BY <1>10, <1>11, <4>1
      <4> HIDE DEF a, b
      <4> QED
        BY <4>2 DEF Between
    <3>2. ASSUME NEW j \in a + 1 .. b PROVE sorted[j] \in OnPage(S, page, i)
      <4>1. j \in 1 .. n
        <5> HIDE DEF a, b
        <5> QED
          BY <1>4, <2>1
      <4>2. sorted[j] \in S /\ place[sorted[j]] = j
        BY <1>4, <1>10, <4>1
      <4>3. page[sorted[j]] = i
        BY <1>11, <4>2
      <4> QED
        BY <4>2, <4>3 DEF OnPage
    <3> HIDE DEF a, b
    <3>3. Between(sorted, a, b) \subseteq OnPage(S, page, i)
      BY <3>2 DEF Between
    <3> QED
      BY <3>1, <3>3
  <2> HIDE DEF a, b
  <2>3. a \in 0 .. Len(sorted) /\ b \in a .. Len(sorted)
    BY <2>1 DEF n
  <2>4. /\ Lists(SubSeq(sorted, a + 1, b), Between(sorted, a, b)) /\ Len(SubSeq(sorted, a + 1, b)) = b - a
        /\ b > a => Last(SubSeq(sorted, a + 1, b)) = sorted[b]
    BY <1>2, <2>3, SliceLists
  <2> QED
    BY <2>1, <2>2, <2>4 DEF a, b
<1>14. ASSUME NEW i \in 1 .. N
       PROVE  /\ one(i) \in [high_key : Int, records : Seq(IsamRecords), overflow_head : Nat]
              /\ one(i).high_key = sorted[to(i)].key /\ one(i).records = slice(i) /\ one(i).overflow_head = 0
  <2>1. slice(i) \in Seq(IsamRecords)
    <3>1. slice(i) \in Seq(OnPage(S, page, i)) /\ OnPage(S, page, i) \subseteq IsamRecords
      BY <1>13 DEF Lists, OnPage
    <3> HIDE DEF slice
    <3> QED
      BY <3>1, SeqMonotonic
  <2>2. sorted[to(i)].key \in Int
    BY <1>1, <1>4, <1>8
  <2> HIDE DEF slice, to
  <2> QED
    BY <2>1, <2>2
<1>15. I!Build(seq) = t
  <2>1. ASSUME NEW i \in 1 .. N
        PROVE  I!PrimaryPage(I!Slice(sorted, from(i), I!Min({from(i) + PageCapacity, n}))) = one(i)
    <3>1. I!Min({from(i) + PageCapacity, n}) = to(i)
      <4> DEFINE x == from(i) + PageCapacity
      <4>1. x \in Int /\ n \in Int
        BY <1>4, <1>8, IsamCapacities
      <4>2. to(i) = IF x <= n THEN x ELSE n
        BY DEF PageStop
      <4> HIDE DEF x
      <4> QED
        BY <4>1, <4>2 DEF I!Min, x
    <3>2. I!Slice(sorted, from(i), to(i)) = slice(i)
      BY DEF I!Slice
    <3>3. I!Last(slice(i)) = sorted[to(i)]
      BY <1>13, SameOfIsam
    <3> HIDE DEF slice, to
    <3> QED
      BY <3>1, <3>2, <3>3 DEF I!PrimaryPage, I!NoPage
  <2>2. I!Build(seq) = [primary  |-> [i \in 1 .. N |-> I!PrimaryPage(I!Slice(sorted, from(i), I!Min({from(i) + PageCapacity, n})))],
                        overflow |-> <<>>]
    BY <1>3 DEF I!Build, PageCount, PageStart, n
  <2> HIDE DEF one, from, N
  <2> QED
    BY <2>1, <2>2
<1> HIDE DEF one
<1>16. /\ pages \in Seq([high_key : Int, records : Seq(IsamRecords), overflow_head : Nat])
       /\ Len(pages) = N /\ \A i \in 1 .. N : pages[i] = one(i)
  <2> DEFINE PV == [high_key : Int, records : Seq(IsamRecords), overflow_head : Nat]
  <2>1. pages \in [1 .. N -> PV]
    BY <1>14
  <2> HIDE DEF PV, N
  <2> QED
    BY <1>7, <2>1 DEF PV
<1> HIDE DEF pages
<1>17. FencesFit(t, S, page)
  <2>1. t.primary = pages /\ \A i \in 1 .. N : Fence(t, i) = sorted[to(i)].key
    BY <1>14, <1>16 DEF Fence
  <2>2. ASSUME NEW r \in S
        PROVE  /\ r.key <= Fence(t, page[r]) /\ (page[r] > 1 => Fence(t, page[r] - 1) <= r.key)
    <3> DEFINE i == page[r]
               j == place[r]
    <3>1. i \in 1 .. N /\ j \in 1 .. n /\ sorted[j] = r /\ j \in from(i) + 1 .. to(i)
      BY <1>10, <1>11
    <3> HIDE DEF i, j
    <3>2. r.key <= sorted[to(i)].key
      <4>1. j <= to(i) /\ to(i) \in 1 .. n
        BY <1>8, <3>1
      <4> QED
        BY <1>6, <3>1, <4>1
    <3>3. ASSUME i > 1 PROVE sorted[to(i - 1)].key <= r.key /\ i - 1 \in 1 .. N
      <4>1. i - 1 \in 1 .. N /\ i - 1 < i
        BY <1>7, <3>1, <3>3
      <4>2. to(i - 1) <= from(i) /\ to(i - 1) \in 1 .. n /\ from(i) \in 0 .. n - 1
        BY <1>8, <3>1, <4>1
      <4>3. to(i - 1) <= j
        BY <1>4, <3>1, <4>2
      <4> QED
        BY <1>6, <3>1, <4>1, <4>2, <4>3
    <3> QED
      BY <2>1, <3>1, <3>2, <3>3 DEF i
  <2>3. ASSUME NEW i \in 1 .. N, NEW k \in 1 .. N, i <= k PROVE Fence(t, i) <= Fence(t, k)
    <3>1. to(i) <= to(k) /\ to(i) \in 1 .. n /\ to(k) \in 1 .. n
      <4>1. CASE i = k
        BY <1>4, <1>8, <4>1
      <4>2. CASE i < k
        BY <1>4, <1>8, <4>2
      <4> QED
        BY <1>7, <2>3, <4>1, <4>2
    <3> QED
      BY <1>6, <2>1, <3>1
  <2> HIDE DEF t
  <2> QED
    BY <1>16, <2>1, <2>2, <2>3 DEF FencesFit
<1>18. \A i \in 1 .. Len(pages) : /\ pages[i].overflow_head = 0
                                  /\ Lists(pages[i].records, OnPage(S, page, i))
                                  /\ Len(pages[i].records) <= PageCapacity
  BY <1>13, <1>14, <1>16
<1>19. page \in [S -> 1 .. Len(pages)]
  BY <1>12, <1>16
<1>20. IsPlaced(t, S)
  BY <1>16, <1>17, <1>18, <1>19, FreshPlaced
<1> QED
  BY <1>15, <1>20

IsamInv == kind = "isam" => IsPlaced(index, rows)

\* The rows of a column under ISAM
LEMMA RecordOfIsam ==
  ASSUME kind = "isam"
  PROVE  Key = DOMAIN MaxCopies["isam"] /\ Key \subseteq Int /\ Record \subseteq IsamRecords
<1>1. Key = DOMAIN MaxCopies["isam"]
  BY DEF Key
<1>2. ASSUME NEW k \in Key, NEW r \in [key : {k}, id : 1 .. MaxCopies[kind][k]]
      PROVE  r \in IsamRecords
  <2>1. MaxCopies[kind][k] \in Nat
    BY KeysOfKinds DEF Kinds, Ordered
  <2>2. r.id \in Nat \ {0} /\ r.key \in Key /\ r = [key |-> r.key, id |-> r.id]
    BY <1>1, <2>1
  <2> QED
    BY <1>1, <2>2 DEF IsamRecords
<1> QED
  BY <1>1, <1>2, KeysAssumption DEF Record, Ordered

\* build places the rows
LEMMA IsamInit == Init => IsamInv
<1> SUFFICES ASSUME Init, kind = "isam" PROVE IsPlaced(index, rows)
  BY DEF IsamInv
<1>1. index = I!Build(Stored) /\ rows \subseteq Record
  BY DEF Init
<1>2. Lists(Stored, rows)
  BY <1>1, StoredLists DEF Ordered
<1>3. rows \in SUBSET IsamRecords
  BY <1>1, RecordOfIsam
<1> QED
  BY <1>1, <1>2, <1>3, IsamBuilt

\* Every step keeps the rows in their places
LEMMA IsamNext == RowsInv /\ IsamInv /\ [Next]_vars => IsamInv'
<1> SUFFICES ASSUME RowsInv, IsamInv, [Next]_vars, kind' = "isam" PROVE IsPlaced(index', rows')
  BY DEF IsamInv, IsPlaced
<1>1. kind = "isam"
  BY DEF Next, InsertRow, DeleteKey, Reload, SearchVectors, vars
<1>2. IsPlaced(index, rows) /\ rows \in SUBSET IsamRecords
  BY <1>1, RecordOfIsam DEF IsamInv, RowsInv, RowsClosed
<1>3. ASSUME NEW k \in Key, InsertRow(k) PROVE IsPlaced(index', rows')
  <2> DEFINE r == [key |-> k, id |-> Copies(k) + 1]
  <2>1. r \in Record /\ r \notin rows /\ rows' = rows \cup {r}
    BY <1>3, NewRow
  <2>2. index' = I!InsertRecord(index, r.key, r) /\ r \in IsamRecords
    BY <1>1, <1>3, <2>1, RecordOfIsam DEF InsertRow
  <2> HIDE DEF r
  <2> QED
    BY <1>2, <2>1, <2>2, IsamInserted
<1>4. ASSUME NEW k \in Key, DeleteKey(k) PROVE IsPlaced(index', rows')
  <2>1. index' = I!Delete(index, k) /\ rows' = {r \in rows : r.key # k} /\ k \in Int
    BY <1>1, <1>4, RecordOfIsam DEF DeleteKey
  <2>2. PICK own, page, spot : Placed(index, rows, own, page, spot)
    BY <1>2 DEF IsPlaced
  <2>3. IsPlaced(I!Delete(index, k), Leaving(rows, k))
    BY <1>2, <2>1, <2>2, IsamDeleted
  <2> QED
    BY <2>1, <2>3 DEF Leaving
<1>5. CASE UNCHANGED vars
  BY <1>2, <1>5 DEF vars
<1>6. ~Reload /\ ~SearchVectors
  BY <1>1 DEF Reload, SearchVectors
<1> QED
  BY <1>3, <1>4, <1>5, <1>6 DEF Next

\* Rows in their places are found by their key
LEMMA PlacedIsAnswers ==
  ASSUME kind = "isam", RowsInv, IsPlaced(index, rows)
  PROVE  EqualityAnswers
<1>1. PICK own, page, spot : Placed(index, rows, own, page, spot)
  BY DEF IsPlaced
<1>2. rows \in SUBSET IsamRecords
  BY RecordOfIsam DEF RowsInv, RowsClosed
<1>3. ASSUME NEW k \in Key PROVE Exactly(SearchKey(k), {r \in rows : r.key = k})
  <2>1. SearchKey(k) = I!SearchKey(index, k) /\ k \in Int
    BY RecordOfIsam DEF SearchKey
  <2>2. Lists(I!SearchKey(index, k), {r \in rows : r.key = k})
    BY <1>1, <1>2, <2>1, IsamKeyFound
  <2> QED
    BY <2>1, <2>2 DEF Lists, Exactly
<1> QED
  BY <1>3 DEF EqualityAnswers

\* The heads of chains are pages there are
LEMMA PlacedIsTyped ==
  ASSUME kind = "isam", RowsInv, IsPlaced(index, rows)
  PROVE  TypeOK
<1>1. PICK own, page, spot : Placed(index, rows, own, page, spot)
  BY DEF IsPlaced
<1>2. /\ DOMAIN index.primary = 1 .. Len(index.primary) /\ DOMAIN index.overflow = 1 .. Len(index.overflow)
      /\ Len(index.overflow) \in Nat
      /\ \A i \in 1 .. Len(index.primary) : index.primary[i].overflow_head \in 0 .. Len(index.overflow)
  BY <1>1, IsamTyped DEF Placed, GoodChains
<1>3. ASSUME NEW one \in ToSet(index.primary)
      PROVE  one.overflow_head \in {I!NoPage} \cup DOMAIN index.overflow
  <2>1. PICK i \in 1 .. Len(index.primary) : one = index.primary[i]
    BY <1>2 DEF ToSet
  <2>2. \A h \in 0 .. Len(index.overflow) : h \in {0} \cup 1 .. Len(index.overflow)
    BY <1>2
  <2> QED
    BY <1>2, <2>1, <2>2 DEF I!NoPage
<1> QED
  BY <1>3 DEF TypeOK, RowsInv, RowsClosed

\* Rows in their places are between the fences, and every overflow page is in
\* the chain of its owner only
LEMMA PlacedIsBound ==
  ASSUME kind = "isam", RowsInv, IsPlaced(index, rows)
  PROVE  FencesBound
<1> DEFINE pages    == index.primary
           chain(i) == I!OverflowChain(index, pages[i])
           N        == Len(pages)
           L        == Len(index.overflow)
<1>1. PICK own, page, spot : Placed(index, rows, own, page, spot)
  BY DEF IsPlaced
<1>2. rows \in SUBSET IsamRecords
  BY RecordOfIsam DEF RowsInv, RowsClosed
<1>3. /\ DOMAIN pages = 1 .. N /\ DOMAIN index.overflow = 1 .. L /\ N \in Nat /\ L \in Nat
      /\ GoodChains(index, own) /\ RowsHeld(index, rows, page, spot) /\ FencesFit(index, rows, page)
  BY <1>1, IsamTyped DEF Placed
<1>4. ASSUME NEW i \in 1 .. N
      PROVE  /\ Len(pages[i].records) <= PageCapacity
             /\ \A r \in ToSet(I!PageRecords(index, pages[i])) :
                   /\ r.key <= pages[i].high_key
                   /\ i > 1 => pages[i - 1].high_key <= r.key
  <2>1. Lists(I!PageRecords(index, index.primary[i]), OnPage(rows, page, i))
    BY <1>1, <1>2, PageLists
  <2>2. ASSUME NEW r \in ToSet(I!PageRecords(index, pages[i]))
        PROVE  r.key <= pages[i].high_key /\ (i > 1 => pages[i - 1].high_key <= r.key)
    <3>1. r \in rows /\ page[r] = i
      BY <2>1 DEF Lists, OnPage
    <3> QED
      BY <1>3, <3>1 DEF FencesFit, Fence
  <2>3. Len(pages[i].records) <= PageCapacity
    BY <1>3 DEF RowsHeld
  <2> QED
    BY <2>2, <2>3
<1>5. ASSUME NEW i \in 2 .. N PROVE pages[i - 1].high_key <= pages[i].high_key
  <2>1. i \in 1 .. N /\ i - 1 \in 1 .. N /\ i - 1 <= i
    BY <1>3
  <2> QED
    BY <1>3, <2>1 DEF FencesFit, Fence
<1>6. ASSUME NEW n \in 1 .. L
      PROVE  /\ Len(index.overflow[n].records) <= OverflowCapacity
             /\ Cardinality({i \in 1 .. N : n \in ToSet(chain(i))}) = 1
  <2>1. \A i \in 1 .. N : ToSet(chain(i)) = Owned(own, L, i)
    BY <1>3 DEF GoodChains, Lists, Chain, Owned
  <2>2. own[n] \in 1 .. N
    BY <1>3 DEF GoodChains
  <2>3. \A i \in 1 .. N : n \in ToSet(chain(i)) <=> own[n] = i
    BY <2>1 DEF Owned
  <2> HIDE DEF chain, N
  <2>4. {i \in 1 .. N : n \in ToSet(chain(i))} = {own[n]}
    BY <2>2, <2>3
  <2>5. Cardinality({own[n]}) = 1
    BY FS_Singleton
  <2>6. Len(index.overflow[n].records) <= OverflowCapacity
    BY <1>3 DEF RowsHeld
  <2> QED
    BY <2>4, <2>5, <2>6
<1> HIDE DEF N, L
<1> QED
  BY <1>3, <1>4, <1>5, <1>6 DEF FencesBound, N

\* ISAM answers an equality search with the rows of the key, in overflow pages
\* and beyond fences too
THEOREM IsamEquality == Spec => [](kind = "isam" => EqualityAnswers)
<1>1. Init => RowsInv /\ IsamInv
  BY RowsInit, IsamInit
<1>2. RowsInv /\ IsamInv /\ [Next]_vars => (RowsInv /\ IsamInv)'
  BY RowsNext, IsamNext
<1>3. RowsInv /\ IsamInv => (kind = "isam" => EqualityAnswers)
  BY PlacedIsAnswers DEF IsamInv
<1> QED
  BY <1>1, <1>2, <1>3, PTL DEF Spec

\* A range over ISAM, which skips the pages under its low bound, finds each row
\* once and in key order; a scan finds every row
THEOREM IsamRange == Spec => [](kind = "isam" => RangeAnswers)
<1>1. Init => RowsInv /\ IsamInv
  BY RowsInit, IsamInit
<1>2. RowsInv /\ IsamInv /\ [Next]_vars => (RowsInv /\ IsamInv)'
  BY RowsNext, IsamNext
<1>3. RowsInv /\ IsamInv => (kind = "isam" => RangeAnswers)
  BY IsamRanges, RecordOfIsam DEF IsamInv, RowsInv, RowsClosed
<1> QED
  BY <1>1, <1>2, <1>3, PTL DEF Spec

\* A page's chain starts at an overflow page there is
THEOREM IsamHeads == Spec => [](kind = "isam" => TypeOK)
<1>1. Init => RowsInv /\ IsamInv
  BY RowsInit, IsamInit
<1>2. RowsInv /\ IsamInv /\ [Next]_vars => (RowsInv /\ IsamInv)'
  BY RowsNext, IsamNext
<1>3. RowsInv /\ IsamInv => (kind = "isam" => TypeOK)
  BY PlacedIsTyped DEF IsamInv
<1> QED
  BY <1>1, <1>2, <1>3, PTL DEF Spec

\* The fences hold the rows between them, no page is over its capacity and
\* every overflow page is in one chain
THEOREM FencesAlways == Spec => []FencesBound
<1>1. Init => RowsInv /\ IsamInv
  BY RowsInit, IsamInit
<1>2. RowsInv /\ IsamInv /\ [Next]_vars => (RowsInv /\ IsamInv)'
  BY RowsNext, IsamNext
<1>3. RowsInv /\ IsamInv => FencesBound
  BY PlacedIsBound DEF IsamInv, FencesBound
<1> QED
  BY <1>1, <1>2, <1>3, PTL DEF Spec
=============================================================================
