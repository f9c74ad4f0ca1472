------------------------- MODULE SharedBufferProofs -------------------------
(***************************************************************************)
(* What holds of SharedBuffer for any number of threads and pages and any  *)
(* capacity.  However the threads are interleaved the cache and its order  *)
(* stay whole: the invariant Whole.  When they work apart, and as long as  *)
(* no _make_room took out more than was too much (excess), IInv holds too, *)
(* and with it the safety properties the run checks on a small instance.   *)
(***************************************************************************)
EXTENDS SharedBuffer, DataLemmas, TLAPS

Pcs == {"idle", "get", "hit", "read", "insert", "room", "open", "scan", "write", "clean",
        "del", "got", "mark", "flush", "list"}

Pages == [key : Key \cup {None}, data : Contents \cup {Blank}, dirty : BOOLEAN]
Calls == [pc : Pcs, op : {"load", "save"}, key : Key \cup {None}, val : Contents \cup {Blank},
          obj : Objs \cup {None}, over : Nat, todo : SUBSET Objs, dels : SUBSET Key]

Typed ==
    /\ disk \in [Key -> Contents \cup {Blank}]
    /\ cache \in [Key -> Objs \cup {None}]
    /\ order \in Seq(Key)
    /\ page \in [Objs -> Pages]
    /\ th \in [Threads -> Calls]
    /\ stale \subseteq Threads

\* Each cached page is once in the order, and is the page it is under
Placed ==
    /\ \A i, j \in 1 .. Len(order) : order[i] = order[j] => i = j
    /\ ToSet(order) = { k \in Key : cache[k] # None }
    /\ \A k \in Key : cache[k] # None => page[cache[k]].key = k

Inside == {"room", "open", "scan", "write", "clean", "del", "got", "mark", "flush", "list"}

\* A call has the page it is about, and writes back one object of a page
Held(t) ==
    /\ th[t].pc # "idle" => th[t].key \in Key
    /\ th[t].pc \in Inside \cup {"insert"} => th[t].obj # None
    /\ th[t].pc = "insert" => page[th[t].obj].key = th[t].key
    /\ \A o, p \in th[t].todo : page[o].key \in Key /\ (page[o].key = page[p].key => o = p)

\* Inductive, whatever the threads do
Whole == Typed /\ excess \in BOOLEAN /\ Placed /\ \A t \in Threads : Held(t)

\* No key twice, and what earlier requests left in the cache before all that
\* the threads use
InOrder(seq) ==
    /\ \A i, j \in 1 .. Len(seq) : seq[i] = seq[j] => i = j
    /\ \A i \in 1 .. Len(seq) : seq[i] \in Cold \cup Works
    /\ \A i, j \in 1 .. Len(seq) : i < j /\ seq[j] \in Cold => seq[i] \in Cold

Ordered == InOrder(order) /\ ToSet(order) = { k \in Key : cache[k] # None }

\* The object of a page that was in the cache at the start
First0(k) == Index(SetToSeq(Cold), k)

\* The only objects of page k that the buffer or a thread may still use
Cached ==
    /\ \A k \in Key : cache[k] # None => page[cache[k]].key = k
    /\ \A k \in Cold : cache[k] \in {None, First0(k)}

\* Where a call is, what it has
Holding(t) ==
    /\ th[t].pc # "idle" => th[t].key \in Work[t]
    /\ th[t].pc \in {"idle", "get", "hit", "read"} => th[t].obj = None
    /\ th[t].pc = "hit" => cache[th[t].key] # None
    /\ th[t].pc \in {"read", "insert"} => cache[th[t].key] = None
    /\ th[t].pc = "insert" =>
         /\ th[t].obj # None
         /\ page[th[t].obj] = [key |-> th[t].key, data |-> disk[th[t].key], dirty |-> FALSE]
    /\ th[t].pc \in Inside => th[t].obj # None /\ cache[th[t].key] = th[t].obj

\* Victims are pages left by earlier requests
Evicting(t) ==
    /\ th[t].pc \in {"open", "scan"} => th[t].over > 0
    /\ th[t].dels \subseteq Cold
    /\ th[t].pc \notin {"write", "clean", "del"} => th[t].dels = {}
    /\ th[t].pc \notin {"write", "clean"} => th[t].todo = {}
    /\ \A o \in th[t].todo :
         \/ page[o].key \in Cold /\ o = First0(page[o].key)
         \/ page[o].key \in Work[t] /\ cache[page[o].key] = o

\* A page whose flag is off equals the engine's copy
Clear(o, k) == page[o].dirty \/ page[o].data = disk[k]

ColdClear == \A k \in Cold : cache[k] # None => Clear(cache[k], k)

Flagged(t) ==
    /\ \A k \in Work[t] :
         cache[k] # None => Clear(cache[k], k) \/ (th[t].pc = "mark" /\ th[t].obj = cache[k])
    /\ \A o \in th[t].todo : Clear(o, page[o].key)
    /\ th[t].pc = "clean" =>
         \A o \in th[t].todo : First(t, o) => page[o].data = disk[page[o].key]

\* A save that goes on has its bytes in its page, and then on the disk
Saving(t) ==
    th[t].op = "save" =>
        /\ th[t].pc \in {"mark", "flush", "list"} => page[th[t].obj].data = th[t].val
        /\ th[t].pc \in {"flush", "list"} => page[th[t].obj].dirty
        /\ th[t].pc \in {"write", "clean"} /\ th[t].dels = {} =>
             /\ page[th[t].obj].data = th[t].val
             /\ th[t].obj \in th[t].todo \/ disk[th[t].key] = th[t].val
             /\ th[t].obj \in th[t].todo => page[th[t].obj].dirty \/ disk[th[t].key] = th[t].val

Fine(t) == Holding(t) /\ Evicting(t) /\ Flagged(t) /\ Saving(t)

\* Inductive, while no _make_room took out more than was too much
IInv == Typed /\ Ordered /\ Cached /\ ColdClear /\ \A t \in Threads : Fine(t)
-----------------------------------------------------------------------------
(* Sequences of keys *)

\* A sequence without one of its elements, which it has once
LEMMA WithoutFacts ==
  ASSUME NEW S, NEW seq \in Seq(S), \A i, j \in 1 .. Len(seq) : seq[i] = seq[j] => i = j,
         NEW k \in ToSet(seq)
  PROVE  /\ Without(seq, k) \in Seq(S) /\ Len(Without(seq, k)) = Len(seq) - 1
         /\ \E p \in 1 .. Len(seq) :
              /\ seq[p] = k
              /\ \A j \in 1 .. Len(seq) - 1 :
                   Without(seq, k)[j] = IF j < p THEN seq[j] ELSE seq[j + 1]
<1> DEFINE p == Index(seq, k)
<1>1. DOMAIN seq = 1 .. Len(seq)
  OBVIOUS
<1>2. p \in 1 .. Len(seq) /\ seq[p] = k
  <2>1. \E i \in DOMAIN seq : seq[i] = k
    BY DEF ToSet
  <2> QED
    BY <1>1, <2>1 DEF Index
<1>3. Without(seq, k) = RemoveAt(seq, p)
  BY DEF Without
<1> HIDE DEF p
<1>4. /\ RemoveAt(seq, p) \in Seq(S)
      /\ Len(RemoveAt(seq, p)) = Len(seq) - 1
      /\ \A j \in 1 .. Len(seq) - 1 : RemoveAt(seq, p)[j] = IF j < p THEN seq[j] ELSE seq[j + 1]
  BY <1>2, RemoveAtFacts
<1> QED
  BY <1>2, <1>3, <1>4

\* Taking a key out leaves no key twice, and only it goes
LEMMA WithoutKey ==
  ASSUME NEW seq \in Seq(Key), NEW k \in ToSet(seq),
         \A i, j \in 1 .. Len(seq) : seq[i] = seq[j] => i = j
  PROVE  /\ Without(seq, k) \in Seq(Key)
         /\ \A i, j \in 1 .. Len(Without(seq, k)) :
              Without(seq, k)[i] = Without(seq, k)[j] => i = j
         /\ ToSet(Without(seq, k)) = ToSet(seq) \ {k}
<1> DEFINE w == Without(seq, k)
           n == Len(seq)
<1>1. \A i, j \in 1 .. Len(seq) : seq[i] = seq[j] => i = j
  OBVIOUS
<1>2. w \in Seq(Key) /\ Len(w) = n - 1
  BY <1>1, WithoutFacts
<1>3. PICK p \in 1 .. n : seq[p] = k /\ \A j \in 1 .. n - 1 : w[j] = IF j < p THEN seq[j] ELSE seq[j + 1]
  BY <1>1, WithoutFacts
<1>4. n \in Nat /\ DOMAIN seq = 1 .. n /\ DOMAIN w = 1 .. n - 1
  BY <1>2
<1> HIDE DEF w, n
<1>5. ASSUME NEW i \in 1 .. n - 1, NEW j \in 1 .. n - 1, w[i] = w[j] PROVE i = j
  <2>1. \A l \in 1 .. n - 1 : l \in 1 .. n /\ l + 1 \in 1 .. n
    BY <1>4
  <2> QED
    BY <1>1, <1>3, <1>4, <1>5, <2>1 DEF n
<1>6. ASSUME NEW x \in ToSet(w) PROVE x \in ToSet(seq) \ {k}
  <2>1. PICK j \in 1 .. n - 1 : x = w[j]
    BY <1>4 DEF ToSet
  <2>2. PICK i \in 1 .. n : x = seq[i] /\ i # p
    BY <1>3, <1>4, <2>1
  <2> QED
    BY <1>1, <1>3, <1>4, <2>2 DEF ToSet, n
<1>7. ASSUME NEW x \in ToSet(seq), x # k PROVE x \in ToSet(w)
  <2>1. PICK i \in 1 .. n : x = seq[i]
    BY <1>4 DEF ToSet
  <2>2. i # p
    BY <1>3, <1>7, <2>1
  <2>3. CASE i < p
    <3>1. i \in 1 .. n - 1 /\ w[i] = x
      BY <1>3, <1>4, <2>1, <2>3
    <3> QED
      BY <1>4, <3>1 DEF ToSet
  <2>4. CASE i > p
    <3>1. i - 1 \in 1 .. n - 1 /\ ~(i - 1 < p) /\ (i - 1) + 1 = i
      BY <1>3, <1>4, <2>4
    <3>2. w[i - 1] = x
      BY <1>3, <2>1, <3>1
    <3> QED
      BY <1>4, <3>1, <3>2 DEF ToSet
  <2> QED
    BY <1>3, <1>4, <2>2, <2>3, <2>4
<1> QED
  BY <1>2, <1>5, <1>6, <1>7 DEF w

\* Taking a key out keeps the order of the others
LEMMA WithoutInOrder ==
  ASSUME NEW seq \in Seq(Key), InOrder(seq), NEW k \in ToSet(seq)
  PROVE  /\ Without(seq, k) \in Seq(Key) /\ InOrder(Without(seq, k))
         /\ ToSet(Without(seq, k)) = ToSet(seq) \ {k}
<1> DEFINE w == Without(seq, k)
           n == Len(seq)
<1>1. \A i, j \in 1 .. Len(seq) : seq[i] = seq[j] => i = j
  BY DEF InOrder
<1>2. /\ w \in Seq(Key) /\ Len(w) = n - 1 /\ ToSet(w) = ToSet(seq) \ {k}
      /\ \A i, j \in 1 .. Len(w) : w[i] = w[j] => i = j
  BY <1>1, WithoutFacts, WithoutKey
<1>3. PICK p \in 1 .. n : seq[p] = k /\ \A j \in 1 .. n - 1 : w[j] = IF j < p THEN seq[j] ELSE seq[j + 1]
  BY <1>1, WithoutFacts
<1>4. n \in Nat /\ \A j \in 1 .. n - 1 : j \in 1 .. n /\ j + 1 \in 1 .. n
  OBVIOUS
<1> HIDE DEF w, n
<1>5. \A i \in 1 .. n - 1 : w[i] \in Cold \cup Works
  BY <1>3, <1>4 DEF InOrder, n
<1>6. ASSUME NEW i \in 1 .. n - 1, NEW j \in 1 .. n - 1, i < j, w[j] \in Cold PROVE w[i] \in Cold
  <2>1. PICK a, c \in 1 .. n : w[i] = seq[a] /\ w[j] = seq[c] /\ a < c
    <3>1. i < p /\ j < p => w[i] = seq[i] /\ w[j] = seq[j]
      BY <1>3
    <3>2. i < p /\ ~(j < p) => w[i] = seq[i] /\ w[j] = seq[j + 1] /\ i < j + 1
      BY <1>3, <1>4, <1>6
    <3>3. ~(i < p) => w[i] = seq[i + 1] /\ w[j] = seq[j + 1] /\ i + 1 < j + 1
      BY <1>3, <1>4, <1>6
    <3> QED
      BY <1>4, <1>6, <3>1, <3>2, <3>3
  <2> QED
    BY <1>6, <2>1 DEF InOrder, n
<1> QED
  BY <1>2, <1>5, <1>6 DEF InOrder, w

\* A key that goes to the end is there once
LEMMA AppendKey ==
  ASSUME NEW seq \in Seq(Key), NEW k \in Key, k \notin ToSet(seq),
         \A i, j \in 1 .. Len(seq) : seq[i] = seq[j] => i = j
  PROVE  /\ Append(seq, k) \in Seq(Key)
         /\ \A i, j \in 1 .. Len(Append(seq, k)) :
              Append(seq, k)[i] = Append(seq, k)[j] => i = j
         /\ ToSet(Append(seq, k)) = ToSet(seq) \cup {k}
<1> DEFINE a == Append(seq, k)
           n == Len(seq)
<1>1. /\ a \in Seq(Key) /\ Len(a) = n + 1 /\ n \in Nat /\ a[n + 1] = k
      /\ \A i \in 1 .. n : a[i] = seq[i]
      /\ DOMAIN seq = 1 .. n /\ DOMAIN a = 1 .. n + 1
  BY AppendProperties
<1> HIDE DEF a, n
<1>2. \A i \in 1 .. n : a[i] # k
  BY <1>1 DEF ToSet
<1>3. \A i \in 1 .. n + 1 : i \in 1 .. n \/ i = n + 1
  BY <1>1
<1>4. ASSUME NEW i \in 1 .. n + 1, NEW j \in 1 .. n + 1, a[i] = a[j] PROVE i = j
  BY <1>1, <1>2, <1>3, <1>4 DEF n
<1>5. ToSet(a) = ToSet(seq) \cup {k}
  BY <1>1, <1>3 DEF ToSet
<1> QED
  BY <1>1, <1>4, <1>5 DEF a

\* A page that a thread uses goes to the end
LEMMA AppendInOrder ==
  ASSUME Apart, NEW seq \in Seq(Key), InOrder(seq), NEW k \in Key, k \in Works, k \notin ToSet(seq)
  PROVE  /\ Append(seq, k) \in Seq(Key) /\ InOrder(Append(seq, k))
         /\ ToSet(Append(seq, k)) = ToSet(seq) \cup {k}
<1> DEFINE a == Append(seq, k)
           n == Len(seq)
<1>1. /\ a \in Seq(Key) /\ Len(a) = n + 1 /\ n \in Nat /\ a[n + 1] = k
      /\ \A i \in 1 .. n : a[i] = seq[i]
      /\ DOMAIN seq = 1 .. n /\ DOMAIN a = 1 .. n + 1
  BY AppendProperties
<1> HIDE DEF a, n
<1>2. /\ \A i, j \in 1 .. n + 1 : a[i] = a[j] => i = j
      /\ ToSet(a) = ToSet(seq) \cup {k}
  BY <1>1, AppendKey DEF InOrder, a
<1>3. k \notin Cold
  BY DEF Apart
<1>4. \A i \in 1 .. n + 1 : i \in 1 .. n \/ i = n + 1
  BY <1>1
<1>5. \A i \in 1 .. n + 1 : a[i] \in Cold \cup Works
  BY <1>1, <1>4 DEF InOrder, n
<1>6. ASSUME NEW i \in 1 .. n + 1, NEW j \in 1 .. n + 1, i < j, a[j] \in Cold PROVE a[i] \in Cold
  BY <1>1, <1>3, <1>4, <1>6 DEF InOrder, n
<1> QED
  BY <1>1, <1>2, <1>5, <1>6 DEF InOrder, a

\* The first elements of a sequence are elements of it
LEMMA PrefixSet ==
  ASSUME NEW seq \in Seq(Key), NEW n \in Nat, n <= Len(seq)
  PROVE  /\ DOMAIN SubSeq(seq, 1, n) = 1 .. n
         /\ \A i \in 1 .. n : SubSeq(seq, 1, n)[i] = seq[i]
         /\ ToSet(SubSeq(seq, 1, n)) \subseteq ToSet(seq)
<1> DEFINE s == SubSeq(seq, 1, n)
<1>1. DOMAIN seq = 1 .. Len(seq) /\ Len(seq) \in Nat
  OBVIOUS
<1>2. \A i \in 1 .. n : i \in 1 .. Len(seq) /\ seq[i] \in Key
  <2>1. \A i \in 1 .. n : i \in 1 .. Len(seq)
    BY <1>1
  <2> QED
    BY <2>1, ElementOfSeq
<1>3. /\ s \in Seq(Key) /\ Len(s) = (IF 1 <= n THEN n - 1 + 1 ELSE 0)
      /\ \A i \in 1 .. n - 1 + 1 : s[i] = seq[1 + i - 1]
  BY <1>2, SubSeqProperties
<1> HIDE DEF s
<1>4. n - 1 + 1 = n /\ (\A i \in 1 .. n : 1 + i - 1 = i) /\ (~(1 <= n) => n = 0)
  OBVIOUS
<1>5. s \in Seq(Key) /\ Len(s) = n
  BY <1>3, <1>4
<1>6. DOMAIN s = 1 .. n /\ \A i \in 1 .. n : s[i] = seq[i]
  BY <1>3, <1>4, <1>5
<1>7. ToSet(s) \subseteq ToSet(seq)
  BY <1>1, <1>2, <1>6 DEF ToSet
<1> QED
  BY <1>6, <1>7 DEF s

\* What is in use fits, so the pages that must go are pages nobody uses
LEMMA Victims ==
  ASSUME Apart, NEW seq \in Seq(Key), InOrder(seq), NEW k \in Works, k \in ToSet(seq),
         NEW over \in Nat, over > 0, Len(seq) >= Capacity + over, over <= Len(Without(seq, k))
  PROVE  LET out == ToSet(SubSeq(Without(seq, k), 1, over))
         IN  out \subseteq Cold /\ out \subseteq ToSet(seq) /\ out # {}
<1> DEFINE w == Without(seq, k)
           n == Len(seq) - 1
           s == SubSeq(w, 1, over)
<1>1. /\ w \in Seq(Key) /\ InOrder(w) /\ ToSet(w) = ToSet(seq) \ {k}
  BY WithoutInOrder
<1>2. Len(w) = n
  BY WithoutFacts DEF InOrder
<1>3. Len(seq) \in Nat /\ Len(w) \in Nat /\ n \in Nat /\ DOMAIN w = 1 .. n /\ Capacity \in Nat
  BY <1>1, <1>2, BoundsAssumption
<1> HIDE DEF w
<1>4. over <= n /\ n >= Capacity + over - 1
  BY <1>2, <1>3 DEF w
<1> HIDE DEF n
<1>5. \A i \in 1 .. over : i \in 1 .. n /\ w[i] \in ToSet(w)
  <2>1. \A i \in 1 .. over : i \in 1 .. n
    BY <1>3, <1>4
  <2>2. \A i \in 1 .. n : w[i] \in ToSet(w)
    BY <1>3 DEF ToSet
  <2> QED
    BY <2>1, <2>2
<1>6. DOMAIN s = 1 .. over /\ \A i \in 1 .. over : s[i] = w[i]
  BY <1>1, <1>2, <1>4, PrefixSet
<1> HIDE DEF s
<1>7. ASSUME NEW i \in 1 .. over, w[i] \notin Cold PROVE FALSE
  <2> DEFINE T == 0 .. n - i + 1
             f == [j \in T |-> IF j = 0 THEN k ELSE w[i + j - 1]]
  <2>0. IsFiniteSet(Works) /\ Works \subseteq Key
    <3>1. Works \subseteq Key
      BY WorkAssumption DEF Works
    <3> QED
      BY <3>1, KeyAssumption, FS_Subset
  <2>1. \A j \in i .. n : j \in 1 .. n /\ w[j] \in Works /\ w[j] # k
    <3>1. SUFFICES ASSUME NEW j \in i .. n PROVE j \in 1 .. n /\ w[j] \in Works /\ w[j] # k
      OBVIOUS
    <3>2. j \in 1 .. n /\ i \in 1 .. n /\ i <= j
      BY <1>3, <1>4
    <3>3. w[j] \notin Cold
      BY <1>1, <1>2, <1>7, <3>2 DEF InOrder
    <3>4. w[j] \in Works
      BY <1>1, <1>2, <3>2, <3>3 DEF InOrder
    <3>5. w[j] \in ToSet(w)
      BY <1>3, <3>2 DEF ToSet
    <3> QED
      BY <1>1, <3>2, <3>4, <3>5
  <2>2. \A j \in T : j = 0 \/ (i + j - 1 \in i .. n /\ i + j - 1 \in 1 .. n)
    BY <1>3, <1>4
  <2>3. f \in [T -> Works]
    <3>1. \A j \in T : (IF j = 0 THEN k ELSE w[i + j - 1]) \in Works
      BY <2>1, <2>2
    <3> QED
      BY <3>1
  <2>4. \A j, l \in T : f[j] = f[l] => j = l
    <3>1. SUFFICES ASSUME NEW j \in T, NEW l \in T, f[j] = f[l] PROVE j = l
      OBVIOUS
    <3>2. CASE j = 0 \/ l = 0
      BY <2>1, <2>2, <3>1, <3>2
    <3>3. CASE j # 0 /\ l # 0
      <4>1. w[i + j - 1] = w[i + l - 1]
        BY <3>1, <3>3
      <4>2. i + j - 1 = i + l - 1
        BY <1>1, <1>2, <2>2, <3>3, <4>1 DEF InOrder
      <4> QED
        BY <1>3, <4>2
    <3> QED
      BY <3>2, <3>3
  <2>5. f \in Injection(T, Works)
    BY <2>3, <2>4 DEF Injection, IsInjective
  <2>6. Cardinality(T) <= Cardinality(Works)
    <3> HIDE DEF f, T
    <3> QED
      BY <2>0, <2>5, FS_Injection
  <2>7. Cardinality(T) = n - i + 2
    <3>1. 0 \in Int /\ n - i + 1 \in Int /\ 0 <= n - i + 1
      BY <1>3, <1>4
    <3>2. Cardinality(0 .. n - i + 1) = (n - i + 1) - 0 + 1
      <4> DEFINE e == n - i + 1
      <4> HIDE DEF e
      <4>1. e \in Int /\ 0 <= e
        BY <3>1 DEF e
      <4>2. Cardinality(0 .. e) = e - 0 + 1
        BY <4>1, FS_Interval
      <4> QED
        BY <4>2 DEF e
    <3> QED
      BY <1>3, <3>2
  <2>8. Cardinality(Works) \in Nat
    BY <2>0, FS_CardinalityType
  <2> HIDE DEF T, f
  <2> QED
    BY <1>3, <1>4, <2>6, <2>7, <2>8 DEF Apart
<1>8. ToSet(s) = { w[i] : i \in 1 .. over }
  BY <1>6 DEF ToSet
<1>9. 1 \in 1 .. over
  OBVIOUS
<1> QED
  BY <1>1, <1>5, <1>7, <1>8, <1>9 DEF s, w
-----------------------------------------------------------------------------
(* Steps of a call *)

\* Thread t goes on, with the key and the bytes it has
Becomes(t, pc, obj, over, todo, dels) ==
    /\ th' \in [Threads -> Calls]
    /\ \A u \in Threads : u # t => th'[u] = th[u]
    /\ th'[t].pc = pc /\ th'[t].obj = obj /\ th'[t].over = over
    /\ th'[t].todo = todo /\ th'[t].dels = dels
    /\ th'[t].key = th[t].key /\ th'[t].op = th[t].op /\ th'[t].val = th[t].val

\* Its call is over
Ended(t) ==
    /\ th' \in [Threads -> Calls]
    /\ \A u \in Threads : u # t => th'[u] = th[u]
    /\ th'[t].pc = "idle" /\ th'[t].obj = None /\ th'[t].todo = {} /\ th'[t].dels = {}

\* A call is made of its eight fields
LEMMA CallParts ==
  ASSUME NEW r \in Calls
  PROVE  /\ r.pc \in Pcs /\ r.op \in {"load", "save"} /\ r.key \in Key \cup {None}
         /\ r.val \in Contents \cup {Blank} /\ r.obj \in Objs \cup {None} /\ r.over \in Nat
         /\ r.todo \in SUBSET Objs /\ r.dels \in SUBSET Key
         /\ r = [pc |-> r.pc, op |-> r.op, key |-> r.key, val |-> r.val, obj |-> r.obj,
                 over |-> r.over, todo |-> r.todo, dels |-> r.dels]
BY DEF Calls

\* Replacing the call of a thread
LEMMA GoFacts ==
  ASSUME Typed, NEW t \in Threads, NEW new \in Calls, Go(t, new)
  PROVE  /\ th' \in [Threads -> Calls] /\ th'[t] = new
         /\ \A u \in Threads : u # t => th'[u] = th[u]
BY DEF Typed, Go

\* Call r, with five of its fields replaced
With(r, pc, obj, over, todo, dels) ==
    [pc |-> pc, op |-> r.op, key |-> r.key, val |-> r.val, obj |-> obj,
     over |-> over, todo |-> todo, dels |-> dels]

\* Replacing none of them changes nothing
LEMMA WithNothing ==
  ASSUME NEW r \in Calls
  PROVE  r = With(r, r.pc, r.obj, r.over, r.todo, r.dels)
BY CallParts DEF With

\* The ways a step replaces fields of a call, one lemma for each
LEMMA UpdatePc ==
  ASSUME NEW r \in Calls, NEW pc
  PROVE  [r EXCEPT !.pc = pc]
           = With(r, pc, r.obj, r.over, r.todo, r.dels)
BY WithNothing DEF With

LEMMA UpdateTodo ==
  ASSUME NEW r \in Calls, NEW todo
  PROVE  [r EXCEPT !.todo = todo]
           = With(r, r.pc, r.obj, r.over, todo, r.dels)
BY WithNothing DEF With

LEMMA UpdateObj ==
  ASSUME NEW r \in Calls, NEW pc, NEW obj
  PROVE  [r EXCEPT !.pc = pc, !.obj = obj]
           = With(r, pc, obj, r.over, r.todo, r.dels)
<1> DEFINE q == [r EXCEPT !.pc = pc]
<1>1. q = With(r, pc, r.obj, r.over, r.todo, r.dels)
  BY WithNothing DEF With
<1> HIDE DEF q
<1>2. [q EXCEPT !.obj = obj] = With(r, pc, obj, r.over, r.todo, r.dels)
  BY <1>1 DEF With
<1>3. [r EXCEPT !.pc = pc, !.obj = obj] = [q EXCEPT !.obj = obj]
  BY DEF q
<1> QED
  BY <1>2, <1>3, Zenon

LEMMA UpdateOver ==
  ASSUME NEW r \in Calls, NEW pc, NEW over
  PROVE  [r EXCEPT !.pc = pc, !.over = over]
           = With(r, pc, r.obj, over, r.todo, r.dels)
<1> DEFINE q == [r EXCEPT !.pc = pc]
<1>1. q = With(r, pc, r.obj, r.over, r.todo, r.dels)
  BY WithNothing DEF With
<1> HIDE DEF q
<1>2. [q EXCEPT !.over = over] = With(r, pc, r.obj, over, r.todo, r.dels)
  BY <1>1 DEF With
<1>3. [r EXCEPT !.pc = pc, !.over = over] = [q EXCEPT !.over = over]
  BY DEF q
<1> QED
  BY <1>2, <1>3, Zenon

LEMMA UpdatePcTodo ==
  ASSUME NEW r \in Calls, NEW pc, NEW todo
  PROVE  [r EXCEPT !.pc = pc, !.todo = todo]
           = With(r, pc, r.obj, r.over, todo, r.dels)
<1> DEFINE q == [r EXCEPT !.pc = pc]
<1>1. q = With(r, pc, r.obj, r.over, r.todo, r.dels)
  BY WithNothing DEF With
<1> HIDE DEF q
<1>2. [q EXCEPT !.todo = todo] = With(r, pc, r.obj, r.over, todo, r.dels)
  BY <1>1 DEF With
<1>3. [r EXCEPT !.pc = pc, !.todo = todo] = [q EXCEPT !.todo = todo]
  BY DEF q
<1> QED
  BY <1>2, <1>3, Zenon

LEMMA UpdateDels ==
  ASSUME NEW r \in Calls, NEW dels, NEW pc
  PROVE  [r EXCEPT !.dels = dels, !.pc = pc]
           = With(r, pc, r.obj, r.over, r.todo, dels)
<1> DEFINE q == [r EXCEPT !.dels = dels]
<1>1. q = With(r, r.pc, r.obj, r.over, r.todo, dels)
  BY WithNothing DEF With
<1> HIDE DEF q
<1>2. [q EXCEPT !.pc = pc] = With(r, pc, r.obj, r.over, r.todo, dels)
  BY <1>1 DEF With
<1>3. [r EXCEPT !.dels = dels, !.pc = pc] = [q EXCEPT !.pc = pc]
  BY DEF q
<1> QED
  BY <1>2, <1>3, Zenon

LEMMA UpdateThree ==
  ASSUME NEW r \in Calls, NEW pc, NEW dels, NEW todo
  PROVE  [r EXCEPT !.pc = pc, !.dels = dels, !.todo = todo]
           = With(r, pc, r.obj, r.over, todo, dels)
<1> DEFINE q == [r EXCEPT !.pc = pc]
<1>1. q = With(r, pc, r.obj, r.over, r.todo, r.dels)
  BY WithNothing DEF With
<1> HIDE DEF q
<1> DEFINE p == [q EXCEPT !.dels = dels]
<1>2. p = With(r, pc, r.obj, r.over, r.todo, dels)
  BY <1>1 DEF With
<1> HIDE DEF p
<1>3. [p EXCEPT !.todo = todo] = With(r, pc, r.obj, r.over, todo, dels)
  BY <1>2 DEF With
<1>4. [r EXCEPT !.pc = pc, !.dels = dels, !.todo = todo] = [p EXCEPT !.todo = todo]
  BY DEF q, p
<1> QED
  BY <1>3, <1>4, Zenon

\* A step that replaces fields leaves the others
LEMMA Moves ==
  ASSUME Typed, NEW t \in Threads
  PROVE  /\ \A pc \in Pcs :
              Go(t, [th[t] EXCEPT !.pc = pc])
                => Becomes(t, pc, th[t].obj, th[t].over, th[t].todo, th[t].dels)
         /\ \A pc \in Pcs, obj \in Objs :
              Go(t, [th[t] EXCEPT !.pc = pc, !.obj = obj])
                => Becomes(t, pc, obj, th[t].over, th[t].todo, th[t].dels)
         /\ \A pc \in Pcs, over \in Nat :
              Go(t, [th[t] EXCEPT !.pc = pc, !.over = over])
                => Becomes(t, pc, th[t].obj, over, th[t].todo, th[t].dels)
         /\ \A todo \in SUBSET Objs :
              Go(t, [th[t] EXCEPT !.todo = todo])
                => Becomes(t, th[t].pc, th[t].obj, th[t].over, todo, th[t].dels)
         /\ \A pc \in Pcs, todo \in SUBSET Objs :
              Go(t, [th[t] EXCEPT !.pc = pc, !.todo = todo])
                => Becomes(t, pc, th[t].obj, th[t].over, todo, th[t].dels)
         /\ \A dels \in SUBSET Key, pc \in Pcs :
              Go(t, [th[t] EXCEPT !.dels = dels, !.pc = pc])
                => Becomes(t, pc, th[t].obj, th[t].over, th[t].todo, dels)
         /\ \A pc \in Pcs, dels \in SUBSET Key, todo \in SUBSET Objs :
              Go(t, [th[t] EXCEPT !.pc = pc, !.dels = dels, !.todo = todo])
                => Becomes(t, pc, th[t].obj, th[t].over, todo, dels)
         /\ End(t) => Ended(t)
<1>1. th[t] \in Calls
  BY DEF Typed
<1>2. \A pc \in Pcs, obj \in Objs \cup {None}, over \in Nat, todo \in SUBSET Objs, dels \in SUBSET Key :
        With(th[t], pc, obj, over, todo, dels) \in Calls
  BY <1>1, CallParts DEF Calls, With
<1>3. ASSUME NEW pc \in Pcs, NEW obj \in Objs \cup {None}, NEW over \in Nat,
             NEW todo \in SUBSET Objs, NEW dels \in SUBSET Key,
             Go(t, With(th[t], pc, obj, over, todo, dels))
      PROVE  Becomes(t, pc, obj, over, todo, dels)
  <2> DEFINE new == With(th[t], pc, obj, over, todo, dels)
  <2>1. new \in Calls
    BY <1>2
  <2>2. Go(t, new)
    BY <1>3
  <2>3. /\ new.pc = pc /\ new.obj = obj /\ new.over = over /\ new.todo = todo /\ new.dels = dels
        /\ new.key = th[t].key /\ new.op = th[t].op /\ new.val = th[t].val
    BY DEF With
  <2> HIDE DEF new
  <2>4. /\ th' \in [Threads -> Calls] /\ th'[t] = new
        /\ \A u \in Threads : u # t => th'[u] = th[u]
    BY <2>1, <2>2, GoFacts
  <2> QED
    BY <2>3, <2>4 DEF Becomes
<1>4. /\ th[t].pc \in Pcs /\ th[t].obj \in Objs \cup {None} /\ th[t].over \in Nat
      /\ th[t].todo \in SUBSET Objs /\ th[t].dels \in SUBSET Key
  BY <1>1, CallParts
<1>5. ASSUME NEW pc \in Pcs,
             Go(t, [th[t] EXCEPT !.pc = pc])
      PROVE  Becomes(t, pc, th[t].obj, th[t].over, th[t].todo, th[t].dels)
  <2>1. [th[t] EXCEPT !.pc = pc]
          = With(th[t], pc, th[t].obj, th[t].over, th[t].todo, th[t].dels)
    BY <1>1, UpdatePc, Zenon
  <2>2. Go(t, With(th[t], pc, th[t].obj, th[t].over, th[t].todo, th[t].dels))
    BY <1>5, <2>1, Zenon
  <2> QED
    BY <1>3, <1>4, <2>2
<1>6. ASSUME NEW pc \in Pcs, NEW obj \in Objs,
             Go(t, [th[t] EXCEPT !.pc = pc, !.obj = obj])
      PROVE  Becomes(t, pc, obj, th[t].over, th[t].todo, th[t].dels)
  <2>1. [th[t] EXCEPT !.pc = pc, !.obj = obj]
          = With(th[t], pc, obj, th[t].over, th[t].todo, th[t].dels)
    BY <1>1, UpdateObj, Zenon
  <2>2. Go(t, With(th[t], pc, obj, th[t].over, th[t].todo, th[t].dels))
    BY <1>6, <2>1, Zenon
  <2> QED
    BY <1>3, <1>4, <2>2
<1>7. ASSUME NEW pc \in Pcs, NEW over \in Nat,
             Go(t, [th[t] EXCEPT !.pc = pc, !.over = over])
      PROVE  Becomes(t, pc, th[t].obj, over, th[t].todo, th[t].dels)
  <2>1. [th[t] EXCEPT !.pc = pc, !.over = over]
          = With(th[t], pc, th[t].obj, over, th[t].todo, th[t].dels)
    BY <1>1, UpdateOver, Zenon
  <2>2. Go(t, With(th[t], pc, th[t].obj, over, th[t].todo, th[t].dels))
    BY <1>7, <2>1, Zenon
  <2> QED
    BY <1>3, <1>4, <2>2
<1>8. ASSUME NEW todo \in SUBSET Objs,
             Go(t, [th[t] EXCEPT !.todo = todo])
      PROVE  Becomes(t, th[t].pc, th[t].obj, th[t].over, todo, th[t].dels)
  <2>1. [th[t] EXCEPT !.todo = todo]
          = With(th[t], th[t].pc, th[t].obj, th[t].over, todo, th[t].dels)
    BY <1>1, UpdateTodo, Zenon
  <2>2. Go(t, With(th[t], th[t].pc, th[t].obj, th[t].over, todo, th[t].dels))
    BY <1>8, <2>1, Zenon
  <2> QED
    BY <1>3, <1>4, <2>2
<1>9. ASSUME NEW pc \in Pcs, NEW todo \in SUBSET Objs,
             Go(t, [th[t] EXCEPT !.pc = pc, !.todo = todo])
      PROVE  Becomes(t, pc, th[t].obj, th[t].over, todo, th[t].dels)
  <2>1. [th[t] EXCEPT !.pc = pc, !.todo = todo]
          = With(th[t], pc, th[t].obj, th[t].over, todo, th[t].dels)
    BY <1>1, UpdatePcTodo, Zenon
  <2>2. Go(t, With(th[t], pc, th[t].obj, th[t].over, todo, th[t].dels))
    BY <1>9, <2>1, Zenon
  <2> QED
    BY <1>3, <1>4, <2>2
<1>10. ASSUME NEW dels \in SUBSET Key, NEW pc \in Pcs,
             Go(t, [th[t] EXCEPT !.dels = dels, !.pc = pc])
      PROVE  Becomes(t, pc, th[t].obj, th[t].over, th[t].todo, dels)
  <2>1. [th[t] EXCEPT !.dels = dels, !.pc = pc]
          = With(th[t], pc, th[t].obj, th[t].over, th[t].todo, dels)
    BY <1>1, UpdateDels, Zenon
  <2>2. Go(t, With(th[t], pc, th[t].obj, th[t].over, th[t].todo, dels))
    BY <1>10, <2>1, Zenon
  <2> QED
    BY <1>3, <1>4, <2>2
<1>11. ASSUME NEW pc \in Pcs, NEW dels \in SUBSET Key, NEW todo \in SUBSET Objs,
             Go(t, [th[t] EXCEPT !.pc = pc, !.dels = dels, !.todo = todo])
      PROVE  Becomes(t, pc, th[t].obj, th[t].over, todo, dels)
  <2>1. [th[t] EXCEPT !.pc = pc, !.dels = dels, !.todo = todo]
          = With(th[t], pc, th[t].obj, th[t].over, todo, dels)
    BY <1>1, UpdateThree, Zenon
  <2>2. Go(t, With(th[t], pc, th[t].obj, th[t].over, todo, dels))
    BY <1>11, <2>1, Zenon
  <2> QED
    BY <1>3, <1>4, <2>2
<1>12. ASSUME End(t) PROVE Ended(t)
  <2>1. Idle \in Calls
    BY DEF Idle, Calls, Pcs
  <2>2. Idle.pc = "idle" /\ Idle.obj = None /\ Idle.todo = {} /\ Idle.dels = {}
    BY DEF Idle
  <2>3. /\ th' \in [Threads -> Calls] /\ th'[t] = Idle
        /\ \A u \in Threads : u # t => th'[u] = th[u]
    BY <1>12, <2>1, GoFacts DEF End
  <2> QED
    BY <2>2, <2>3 DEF Ended
<1> QED
  BY <1>5, <1>6, <1>7, <1>8, <1>9, <1>10, <1>11, <1>12, Zenon
-----------------------------------------------------------------------------
(* Whatever the threads do, the cache stays whole *)

\* Setting the bytes or the flag of a page
LEMMA PageWrites ==
  ASSUME Typed, NEW o \in Objs
  PROVE  /\ \A v \in Contents \cup {Blank} :
              page' = [page EXCEPT ![o].data = v] =>
                /\ page' \in [Objs -> Pages] /\ \A p \in Objs : p # o => page'[p] = page[p]
                /\ page'[o].key = page[o].key /\ page'[o].dirty = page[o].dirty
                /\ page'[o].data = v
         /\ \A f \in BOOLEAN :
              page' = [page EXCEPT ![o].dirty = f] =>
                /\ page' \in [Objs -> Pages] /\ \A p \in Objs : p # o => page'[p] = page[p]
                /\ page'[o].key = page[o].key /\ page'[o].data = page[o].data
                /\ page'[o].dirty = f
<1>1. page \in [Objs -> Pages]
  BY DEF Typed
<1> QED
  BY <1>1 DEF Pages

\* A change of the order breaks iterations of threads
LEMMA ReorderType ==
  ASSUME Typed, NEW t \in Threads, NEW new, Reorder(t, new)
  PROVE  order' = new /\ stale' \subseteq Threads
BY DEF Typed, Reorder

\* An object in use is not garbage
LEMMA InUse ==
  ASSUME NEW o \in Objs, (\E k \in Key : cache[k] = o) \/ \E t \in Threads : th[t].obj = o \/ o \in th[t].todo
  PROVE  o \notin Garbage
BY DEF Garbage

\* There is an object that nobody refers to: the cache has one object of a
\* page, a write-back one of each, and a thread holds one more
LEMMA SomeGarbage ==
  ASSUME Whole
  PROVE  Garbage # {}
<1>1. Typed /\ \A u \in Threads : Held(u)
  BY DEF Whole
<1>2. PICK b : b \notin Threads
  BY NoSetContainsEverything
<1> DEFINE A == Threads \cup {b}
           B == Key \cup {None}
           of(u, k) == { o \in th[u].todo : page[o].key = k }
           h(u, k) == IF u = b THEN IF k \in Key THEN cache[k] ELSE None
                      ELSE IF k = None THEN th[u].obj
                      ELSE IF of(u, k) = {} THEN None ELSE CHOOSE o \in of(u, k) : TRUE
           H == [s \in A \X B |-> h(s[1], s[2])]
<1>3. /\ IsFiniteSet(A) /\ Cardinality(A) = Cardinality(Threads) + 1
      /\ IsFiniteSet(B) /\ Cardinality(B) = Cardinality(Key) + 1
  BY <1>2, KeyAssumption, NoneAssumption, FS_AddElement
<1>4. Cardinality(Threads) \in Nat /\ Cardinality(Key) \in Nat
  BY KeyAssumption, FS_CardinalityType
<1>5. /\ IsFiniteSet(A \X B)
      /\ Cardinality(A \X B) = (Cardinality(Threads) + 1) * (Cardinality(Key) + 1)
  <2>1. IsFiniteSet(A \X B) /\ Cardinality(A \X B) = Cardinality(A) * Cardinality(B)
    BY <1>3, FS_Product
  <2> QED
    BY <1>3, <2>1
<1>6. /\ IsFiniteSet(Objs) /\ Cardinality(Objs) = Cardinality(A \X B)
      /\ Cardinality(Objs) \in Nat
  <2> DEFINE n == (Cardinality(Threads) + 1) * (Cardinality(Key) + 1)
  <2>1. n \in Nat
    BY <1>4
  <2> HIDE DEF n
  <2>2. IsFiniteSet(1 .. n) /\ Cardinality(1 .. n) = n
    BY <2>1, FS_Interval
  <2> QED
    BY <1>5, <2>1, <2>2 DEF n, Objs
<1>7. ASSUME Garbage = {} PROVE FALSE
  <2>1. \A u \in A, k \in B : h(u, k) \in Objs \cup {None}
    <3>1. \A u \in Threads : th[u].obj \in Objs \cup {None} /\ th[u].todo \subseteq Objs
      BY <1>1, CallParts DEF Typed
    <3> QED
      BY <1>1, <3>1 DEF Typed
  <2>2. ASSUME NEW o \in Objs \cup {None} PROVE \E u \in A, k \in B : h(u, k) = o
    <3>1. CASE o = None
      BY <3>1, NoneAssumption
    <3>2. CASE \E k \in Key : cache[k] = o
      BY <3>2
    <3>3. CASE \E u \in Threads : th[u].obj = o
      BY <1>2, <3>3
    <3>4. CASE \E u \in Threads : o \in th[u].todo
      <4>1. PICK u \in Threads : o \in th[u].todo
        BY <3>4
      <4>2. page[o].key \in Key /\ page[o].key # None /\ u # b
        BY <1>1, <1>2, <4>1, NoneAssumption DEF Held
      <4>3. of(u, page[o].key) = {o}
        BY <1>1, <4>1 DEF Held
      <4>4. h(u, page[o].key) = o
        BY <4>2, <4>3
      <4> QED
        BY <4>2, <4>4
    <3>5. o \in Objs => o \notin Garbage
      BY <1>7
    <3> QED
      BY <3>1, <3>2, <3>3, <3>4, <3>5 DEF Garbage
  <2> HIDE DEF h
  <2>3. H \in [A \X B -> Objs \cup {None}]
    BY <2>1
  <2>4. ASSUME NEW o \in Objs \cup {None} PROVE \E s \in A \X B : H[s] = o
    <3>1. PICK u \in A, k \in B : h(u, k) = o
      BY <2>2
    <3> HIDE DEF A, B
    <3>2. <<u, k>> \in A \X B /\ <<u, k>>[1] = u /\ <<u, k>>[2] = k
      OBVIOUS
    <3>3. H[<<u, k>>] = o
      BY <3>1, <3>2
    <3> QED
      BY <3>2, <3>3
  <2> HIDE DEF H
  <2>5. H \in Surjection(A \X B, Objs \cup {None})
    BY <2>3, <2>4 DEF Surjection
  <2>6. Cardinality(Objs \cup {None}) <= Cardinality(A \X B)
    <3> HIDE DEF A, B
    <3> QED
      BY <1>5, <2>5, FS_Surjection
  <2>7. Cardinality(Objs \cup {None}) = Cardinality(Objs) + 1
    BY <1>6, NoneAssumption, FS_AddElement
  <2> QED
    BY <1>6, <2>6, <2>7
<1> QED
  BY <1>7

\* A step of thread t that moves no page of the cache
LEMMA Steady ==
  ASSUME Whole, NEW t \in Threads, Typed', excess' \in BOOLEAN, UNCHANGED <<cache, order>>,
         \A u \in Threads : u # t => th'[u] = th[u],
         \A o \in Objs \ Garbage : page'[o].key = page[o].key, Held(t)'
  PROVE  Whole'
<1>1. Typed /\ Placed /\ \A u \in Threads : Held(u)
  BY DEF Whole
<1>2. Placed'
  <2>1. \A k \in Key : cache[k] # None => cache[k] \in Objs \ Garbage
    BY <1>1, InUse DEF Typed
  <2> QED
    BY <1>1, <2>1 DEF Placed
<1>3. ASSUME NEW u \in Threads, u # t PROVE Held(u)'
  <2>1. th[u].todo \subseteq Objs \ Garbage
    <3>1. th[u].todo \subseteq Objs
      BY <1>1, CallParts DEF Typed
    <3> QED
      BY <3>1, InUse
  <2>2. th[u].obj # None => th[u].obj \in Objs \ Garbage
    BY <1>1, CallParts, InUse DEF Typed
  <2> QED
    BY <1>1, <1>3, <2>1, <2>2 DEF Held
<1> QED
  BY <1>2, <1>3 DEF Whole

\* The cache, when thread t changes its order and what is under key k
LEMMA Moved ==
  ASSUME Whole, NEW t \in Threads, th' \in [Threads -> Calls], excess' \in BOOLEAN,
         UNCHANGED <<disk, page>>, stale' \subseteq Threads,
         \A u \in Threads : u # t => th'[u] = th[u], Held(t)',
         cache' \in [Key -> Objs \cup {None}], NEW k \in Key,
         \A j \in Key : j # k => cache'[j] = cache[j],
         cache'[k] # None => page[cache'[k]].key = k,
         order' \in Seq(Key), \A i, j \in 1 .. Len(order') : order'[i] = order'[j] => i = j,
         ToSet(order') = { j \in Key : cache'[j] # None }
  PROVE  Whole'
<1>1. Typed /\ Placed /\ \A u \in Threads : Held(u)
  BY DEF Whole
<1>2. Typed' /\ Placed'
  BY <1>1 DEF Typed, Placed
<1>3. ASSUME NEW u \in Threads, u # t PROVE Held(u)'
  BY <1>1, <1>3 DEF Held
<1> QED
  BY <1>2, <1>3 DEF Whole

\* A call that is over
LEMMA EndWhole ==
  ASSUME Whole, NEW t \in Threads, End(t), UNCHANGED <<disk, cache, order, page, stale, excess>>
  PROVE  Whole'
<1>1. Typed /\ Ended(t) /\ excess' \in BOOLEAN
  BY Moves, Zenon DEF Whole
<1>2. Typed' /\ Held(t)'
  BY <1>1 DEF Ended, Typed, Held, Inside
<1> QED
  BY <1>1, <1>2, Steady DEF Ended

\* A call starts
LEMMA StartCall ==
  ASSUME Typed, NEW t \in Threads, Start(t)
  PROVE  /\ UNCHANGED <<disk, cache, order, page, stale, excess>> /\ th[t].pc = "idle"
         /\ th' \in [Threads -> Calls] /\ \A u \in Threads : u # t => th'[u] = th[u]
         /\ th'[t].pc = "get" /\ th'[t].key \in Work[t] /\ th'[t].key \in Key
         /\ th'[t].obj = None /\ th'[t].todo = {} /\ th'[t].dels = {}
<1>1. UNCHANGED <<disk, cache, order, page, stale, excess>> /\ th[t].pc = "idle"
  BY Zenon DEF Start, At
<1>2. PICK k \in Work[t] :
        \/ Go(t, [Idle EXCEPT !.pc = "get", !.key = k])
        \/ \E c \in Contents : Go(t, [Idle EXCEPT !.pc = "get", !.key = k, !.op = "save", !.val = c])
  BY Zenon DEF Start
<1>3. k \in Key
  BY WorkAssumption
<1>4. \E new \in Calls :
        /\ Go(t, new)
        /\ new.pc = "get" /\ new.key = k /\ new.obj = None /\ new.todo = {} /\ new.dels = {}
  <2>1. CASE Go(t, [Idle EXCEPT !.pc = "get", !.key = k])
    <3> DEFINE new == [Idle EXCEPT !.pc = "get", !.key = k]
    <3>1. new = [pc |-> "get", op |-> "load", key |-> k, val |-> Blank, obj |-> None,
                 over |-> 0, todo |-> {}, dels |-> {}]
      <4> DEFINE q1 == [Idle EXCEPT !.pc = "get"]
      <4>1. q1 = [pc |-> "get", op |-> "load", key |-> None, val |-> Blank, obj |-> None,
                 over |-> 0, todo |-> {}, dels |-> {}]
        BY DEF Idle
      <4> HIDE DEF q1
      <4> DEFINE q2 == [q1 EXCEPT !.key = k]
      <4>2. q2 = [pc |-> "get", op |-> "load", key |-> k, val |-> Blank, obj |-> None,
                 over |-> 0, todo |-> {}, dels |-> {}]
        BY <4>1
      <4> HIDE DEF q2
      <4>3. new = q2
        BY DEF q1, q2
      <4> QED
        BY <4>2, <4>3
    <3> HIDE DEF new
    <3>2. /\ new \in Calls
          /\ new.pc = "get" /\ new.key = k /\ new.obj = None /\ new.todo = {} /\ new.dels = {}
      BY <1>3, <3>1 DEF Calls, Pcs
    <3>3. Go(t, new)
      BY <2>1 DEF new
    <3> QED
      BY <3>2, <3>3
  <2>2. ASSUME NEW c \in Contents,
               Go(t, [Idle EXCEPT !.pc = "get", !.key = k, !.op = "save", !.val = c])
        PROVE  \E new \in Calls :
                 /\ Go(t, new)
                 /\ new.pc = "get" /\ new.key = k /\ new.obj = None /\ new.todo = {} /\ new.dels = {}
    <3> DEFINE new == [Idle EXCEPT !.pc = "get", !.key = k, !.op = "save", !.val = c]
    <3>1. new = [pc |-> "get", op |-> "save", key |-> k, val |-> c, obj |-> None,
                 over |-> 0, todo |-> {}, dels |-> {}]
      <4> DEFINE q1 == [Idle EXCEPT !.pc = "get"]
      <4>1. q1 = [pc |-> "get", op |-> "load", key |-> None, val |-> Blank, obj |-> None,
                 over |-> 0, todo |-> {}, dels |-> {}]
        BY DEF Idle
      <4> HIDE DEF q1
      <4> DEFINE q2 == [q1 EXCEPT !.key = k]
      <4>2. q2 = [pc |-> "get", op |-> "load", key |-> k, val |-> Blank, obj |-> None,
                 over |-> 0, todo |-> {}, dels |-> {}]
        BY <4>1
      <4> HIDE DEF q2
      <4> DEFINE q3 == [q2 EXCEPT !.op = "save"]
      <4>3. q3 = [pc |-> "get", op |-> "save", key |-> k, val |-> Blank, obj |-> None,
                 over |-> 0, todo |-> {}, dels |-> {}]
        BY <4>2
      <4> HIDE DEF q3
      <4> DEFINE q4 == [q3 EXCEPT !.val = c]
      <4>4. q4 = [pc |-> "get", op |-> "save", key |-> k, val |-> c, obj |-> None,
                 over |-> 0, todo |-> {}, dels |-> {}]
        BY <4>3
      <4> HIDE DEF q4
      <4>5. new = q4
        BY DEF q1, q2, q3, q4
      <4> QED
        BY <4>4, <4>5
    <3> HIDE DEF new
    <3>2. /\ new \in Calls
          /\ new.pc = "get" /\ new.key = k /\ new.obj = None /\ new.todo = {} /\ new.dels = {}
      BY <1>3, <3>1 DEF Calls, Pcs
    <3>3. Go(t, new)
      BY <2>2 DEF new
    <3> QED
      BY <3>2, <3>3
  <2> QED
    BY <1>2, <2>1, <2>2, Zenon
<1>5. /\ th' \in [Threads -> Calls] /\ \A u \in Threads : u # t => th'[u] = th[u]
      /\ th'[t].pc = "get" /\ th'[t].key = k /\ th'[t].obj = None
      /\ th'[t].todo = {} /\ th'[t].dels = {}
  BY <1>4, GoFacts
<1> QED
  BY <1>1, <1>3, <1>5

\* The calls that get a page that is cached, and put one that was read there
LEMMA ReorderWhole ==
  ASSUME Whole, NEW t \in Threads, Hit(t) \/ Insert(t) \/ Delete(t)
  PROVE  Whole'
<1>1. Typed /\ Placed /\ Held(t)
  BY DEF Whole
<1>2. excess' \in BOOLEAN /\ UNCHANGED <<disk, page>>
  BY Zenon DEF Whole, Hit, Insert, Delete
<1> DEFINE k == th[t].key
           w(j) == Without(order, j)
<1>3. order \in Seq(Key) /\ \A i, j \in 1 .. Len(order) : order[i] = order[j] => i = j
  BY <1>1 DEF Typed, Placed
<1>4. ASSUME NEW j \in Key, cache[j] # None
      PROVE  /\ w(j) \in Seq(Key) /\ ToSet(w(j)) = ToSet(order) \ {j} /\ j \in ToSet(order)
             /\ \A i, l \in 1 .. Len(w(j)) : w(j)[i] = w(j)[l] => i = l
  <2>1. j \in ToSet(order)
    BY <1>1, <1>4 DEF Placed
  <2> QED
    BY <1>3, <2>1, WithoutKey
<1> HIDE DEF w
<1>5. CASE Hit(t)
  <2>1. th[t].pc = "hit" /\ k \in Key
    BY <1>1, <1>5 DEF Hit, At, Held
  <2>2. CASE cache[k] = None
    BY <1>5, <2>2, EndWhole DEF Hit
  <2>3. CASE cache[k] # None
    <3>1. /\ order' = Append(w(k), k) /\ stale' \subseteq Threads /\ UNCHANGED cache
          /\ Go(t, [th[t] EXCEPT !.pc = "got", !.obj = cache[k]])
      BY <1>1, <1>5, <2>3, ReorderType DEF Hit, w
    <3>2. "got" \in Pcs /\ cache[k] \in Objs
      BY <1>1, <2>1, <2>3 DEF Pcs, Typed
    <3>3. Becomes(t, "got", cache[k], th[t].over, th[t].todo, th[t].dels)
      BY <1>1, <3>1, <3>2, Moves, Zenon
    <3>4. /\ order' \in Seq(Key) /\ \A i, j \in 1 .. Len(order') : order'[i] = order'[j] => i = j
          /\ ToSet(order') = ToSet(order)
      <4>1. /\ k \notin ToSet(w(k)) /\ ToSet(w(k)) \cup {k} = ToSet(order) /\ w(k) \in Seq(Key)
            /\ \A i, l \in 1 .. Len(w(k)) : w(k)[i] = w(k)[l] => i = l
        BY <1>4, <2>1, <2>3
      <4> QED
        BY <2>1, <3>1, <4>1, AppendKey
    <3>5. Held(t)'
      BY <1>1, <1>2, <2>1, <3>2, <3>3, NoneAssumption DEF Becomes, Held, Inside
    <3>6. /\ cache' \in [Key -> Objs \cup {None}] /\ page[cache'[k]].key = k
          /\ (\A j \in Key : j # k => cache'[j] = cache[j])
          /\ ToSet(order') = { j \in Key : cache'[j] # None }
      BY <1>1, <2>1, <2>3, <3>1, <3>4 DEF Typed, Placed
    <3> QED
      BY <1>2, <2>1, <3>1, <3>3, <3>4, <3>5, <3>6, Moved DEF Becomes
  <2> QED
    BY <2>2, <2>3
<1>6. CASE Insert(t)
  <2>1. th[t].pc = "insert" /\ k \in Key /\ th[t].obj # None /\ page[th[t].obj].key = k
    BY <1>1, <1>6 DEF Insert, At, Held
  <2>2. th[t].obj \in Objs /\ "room" \in Pcs
    BY <1>1, <2>1, CallParts DEF Typed, Pcs
  <2>3. Becomes(t, "room", th[t].obj, th[t].over, th[t].todo, th[t].dels)
    BY <1>1, <1>6, <2>2, Moves, Zenon DEF Insert
  <2>4. /\ cache' \in [Key -> Objs \cup {None}] /\ cache'[k] = th[t].obj
        /\ \A j \in Key : j # k => cache'[j] = cache[j]
    BY <1>1, <1>6, <2>1, <2>2 DEF Insert, Typed
  <2>5. /\ order' \in Seq(Key) /\ \A i, j \in 1 .. Len(order') : order'[i] = order'[j] => i = j
        /\ ToSet(order') = ToSet(order) \cup {k} /\ stale' \subseteq Threads
    <3>1. CASE cache[k] = None
      <4>1. order' = Append(order, k) /\ stale' \subseteq Threads
        BY <1>1, <1>6, <3>1, ReorderType DEF Insert
      <4>2. k \notin ToSet(order)
        BY <1>1, <3>1 DEF Placed
      <4> QED
        BY <1>3, <2>1, <4>1, <4>2, AppendKey
    <3>2. CASE cache[k] # None
      BY <1>1, <1>3, <1>6, <2>1, <3>2 DEF Insert, Placed, Typed
    <3> QED
      BY <3>1, <3>2
  <2>6. ToSet(order') = { j \in Key : cache'[j] # None }
    BY <1>1, <2>1, <2>4, <2>5 DEF Placed
  <2>7. Held(t)'
    BY <1>1, <1>2, <2>1, <2>3 DEF Becomes, Held, Inside
  <2> QED
    BY <1>2, <2>1, <2>3, <2>4, <2>5, <2>6, <2>7, Moved DEF Becomes
<1>7. CASE Delete(t)
  <2>1. th[t].pc = "del"
    BY <1>7 DEF Delete, At
  <2>2. PICK j \in th[t].dels :
          \/ cache[j] = None /\ End(t) /\ UNCHANGED <<cache, order, stale>>
          \/ /\ cache[j] # None /\ cache' = [cache EXCEPT ![j] = None]
             /\ Reorder(t, Without(order, j))
             /\ Go(t, [th[t] EXCEPT !.dels = th[t].dels \ {j},
                       !.pc = IF th[t].dels = {j} THEN "got" ELSE "del"])
    BY <1>7, Zenon DEF Delete
  <2>3. th[t].dels \in SUBSET Key /\ j \in Key
    BY <1>1, CallParts DEF Typed
  <2>4. CASE cache[j] = None /\ End(t) /\ UNCHANGED <<cache, order, stale>>
    BY <1>2, <1>7, <2>4, EndWhole DEF Delete
  <2>5. CASE /\ cache[j] # None /\ cache' = [cache EXCEPT ![j] = None]
             /\ Reorder(t, Without(order, j))
             /\ Go(t, [th[t] EXCEPT !.dels = th[t].dels \ {j},
                       !.pc = IF th[t].dels = {j} THEN "got" ELSE "del"])
    <3> DEFINE pc == IF th[t].dels = {j} THEN "got" ELSE "del"
    <3>1. pc \in Pcs /\ th[t].dels \ {j} \in SUBSET Key /\ pc \in {"got", "del"}
      BY <2>3 DEF Pcs
    <3>2. Go(t, [th[t] EXCEPT !.dels = th[t].dels \ {j}, !.pc = pc])
      BY <2>5
    <3> HIDE DEF pc
    <3>3. Becomes(t, pc, th[t].obj, th[t].over, th[t].todo, th[t].dels \ {j})
      BY <1>1, <3>1, <3>2, Moves, Zenon
    <3>4. /\ cache' \in [Key -> Objs \cup {None}] /\ cache'[j] = None
          /\ \A i \in Key : i # j => cache'[i] = cache[i]
      BY <1>1, <2>3, <2>5 DEF Typed
    <3>5. order' = w(j) /\ stale' \subseteq Threads
      BY <1>1, <2>5, ReorderType DEF w
    <3>6. /\ order' \in Seq(Key) /\ \A i, l \in 1 .. Len(order') : order'[i] = order'[l] => i = l
          /\ ToSet(order') = ToSet(order) \ {j}
      BY <1>4, <2>3, <2>5, <3>5
    <3>7. ToSet(order') = { i \in Key : cache'[i] # None }
      BY <1>1, <2>3, <3>4, <3>6 DEF Placed
    <3>8. Held(t)'
      BY <1>1, <1>2, <2>1, <3>1, <3>3 DEF Becomes, Held, Inside
    <3> QED
      BY <1>2, <2>3, <3>3, <3>4, <3>5, <3>6, <3>7, <3>8, Moved DEF Becomes
  <2> QED
    BY <2>2, <2>4, <2>5
<1> QED
  BY <1>5, <1>6, <1>7

\* The calls that give page objects their bytes and their flag
LEMMA PageWhole ==
  ASSUME Whole, NEW t \in Threads, Read(t) \/ Use(t) \/ Mark(t) \/ Clean(t)
  PROVE  Whole'
<1>1. Typed /\ Held(t)
  BY DEF Whole
<1>2. excess' \in BOOLEAN /\ UNCHANGED <<disk, cache, order, stale>>
  BY Zenon DEF Whole, Read, Use, Mark, Clean
<1> DEFINE k == th[t].key
           o == th[t].obj
<1>3. CASE Read(t)
  <2> DEFINE q == CHOOSE q \in Garbage : \A p \in Garbage : q <= p
             new == [key |-> k, data |-> disk[k], dirty |-> FALSE]
  <2>1. th[t].pc = "read" /\ k \in Key
    BY <1>1, <1>3 DEF Read, At, Held
  <2>2. q \in Garbage
    <3>1. Garbage # {} /\ Garbage \in SUBSET Nat
      BY SomeGarbage DEF Garbage, Objs
    <3>2. \E m \in Garbage : \A p \in Garbage : m <= p
      BY <3>1, LeastNatural
    <3> QED
      BY <3>2
  <2>3. page' = [page EXCEPT ![q] = new] /\ Go(t, [th[t] EXCEPT !.pc = "insert", !.obj = q])
    BY <1>3 DEF Read
  <2> HIDE DEF q
  <2>4. q \in Objs /\ q # None /\ q \notin th[t].todo /\ "insert" \in Pcs
    BY <2>2, NoneAssumption DEF Garbage, Pcs
  <2>5. Becomes(t, "insert", q, th[t].over, th[t].todo, th[t].dels)
    BY <1>1, <2>3, <2>4, Moves, Zenon
  <2>6. new \in Pages /\ new.key = k
    BY <1>1, <2>1 DEF Typed, Pages
  <2> HIDE DEF new
  <2>7. /\ page' \in [Objs -> Pages] /\ page'[q].key = k
        /\ \A p \in Objs : p # q => page'[p] = page[p]
    BY <1>1, <2>3, <2>4, <2>6 DEF Typed
  <2>8. th[t].todo \subseteq Objs
    BY <1>1, CallParts DEF Typed
  <2>9. Held(t)'
    BY <1>1, <2>1, <2>4, <2>5, <2>7, <2>8 DEF Becomes, Held, Inside
  <2>10. Typed'
    BY <1>1, <1>2, <2>5, <2>7 DEF Becomes, Typed
  <2> QED
    BY <1>2, <2>2, <2>5, <2>7, <2>9, <2>10, Steady DEF Becomes
<1>4. CASE Use(t) /\ th[t].op = "load"
  BY <1>2, <1>4, EndWhole DEF Use
<1>5. CASE (Use(t) /\ th[t].op # "load") \/ Mark(t)
  <2>1. th[t].pc \in {"got", "mark"} /\ k \in Key /\ o # None
    BY <1>1, <1>5 DEF Use, Mark, At, Held, Inside
  <2>2. o \in Objs /\ th[t].todo \subseteq Objs /\ th[t].val \in Contents \cup {Blank}
    BY <1>1, <2>1, CallParts DEF Typed
  <2>3. "mark" \in Pcs /\ "flush" \in Pcs
    BY DEF Pcs
  <2>4. \/ /\ page' = [page EXCEPT ![o].data = th[t].val] /\ Go(t, [th[t] EXCEPT !.pc = "mark"])
        \/ /\ page' = [page EXCEPT ![o].dirty = TRUE] /\ Go(t, [th[t] EXCEPT !.pc = "flush"])
    BY <1>5, Zenon DEF Use, Mark
  <2>5. \/ Becomes(t, "mark", o, th[t].over, th[t].todo, th[t].dels)
        \/ Becomes(t, "flush", o, th[t].over, th[t].todo, th[t].dels)
    BY <1>1, <2>3, <2>4, Moves, Zenon
  <2>6. page' \in [Objs -> Pages] /\ \A p \in Objs : page'[p].key = page[p].key
    <3>1. /\ page' \in [Objs -> Pages] /\ page'[o].key = page[o].key
          /\ \A p \in Objs : p # o => page'[p] = page[p]
      BY <1>1, <2>2, <2>4, PageWrites, Zenon
    <3> QED
      BY <3>1
  <2> HIDE DEF o
  <2>7. Typed' /\ Held(t)'
    BY <1>1, <1>2, <2>1, <2>2, <2>5, <2>6 DEF Becomes, Typed, Held, Inside
  <2> QED
    BY <1>2, <2>5, <2>6, <2>7, Steady DEF Becomes
<1>6. CASE Clean(t)
  <2>1. th[t].pc = "clean"
    BY <1>6 DEF Clean, At
  <2>2. PICK q \in th[t].todo :
          /\ page' = [page EXCEPT ![q].dirty = FALSE]
          /\ Go(t, [th[t] EXCEPT !.pc = "write", !.todo = th[t].todo \ {q}])
    BY <1>6, Zenon DEF Clean
  <2>3. th[t].todo \subseteq Objs /\ th[t].todo \ {q} \in SUBSET Objs /\ "write" \in Pcs
    BY <1>1, CallParts DEF Typed, Pcs
  <2>4. Becomes(t, "write", o, th[t].over, th[t].todo \ {q}, th[t].dels)
    BY <1>1, <2>2, <2>3, Moves, Zenon
  <2>5. page' \in [Objs -> Pages] /\ \A p \in Objs : page'[p].key = page[p].key
    <3>1. /\ page' \in [Objs -> Pages] /\ page'[q].key = page[q].key
          /\ \A p \in Objs : p # q => page'[p] = page[p]
      BY <1>1, <2>2, <2>3, PageWrites
    <3> QED
      BY <3>1
  <2>6. Typed' /\ Held(t)'
    BY <1>1, <1>2, <2>1, <2>3, <2>4, <2>5 DEF Becomes, Typed, Held, Inside
  <2> QED
    BY <1>2, <2>4, <2>5, <2>6, Steady DEF Becomes
<1> QED
  BY <1>3, <1>4, <1>5, <1>6

\* The calls that move no page and give none its bytes: they choose and list
\* pages of the cache, each one object
LEMMA CallWhole ==
  ASSUME Whole, NEW t \in Threads,
         \/ Start(t) \/ LookUp(t) \/ Room(t) \/ Open(t, "open", "scan") \/ Choose(t)
         \/ Write(t) \/ WriteEnd(t) \/ Open(t, "flush", "list") \/ ListPages(t)
  PROVE  Whole'
<1>1. Typed /\ Placed /\ Held(t)
  BY DEF Whole
<1>2. excess' \in BOOLEAN /\ UNCHANGED <<cache, order, page>> /\ stale' \subseteq Threads
  BY <1>1 DEF Whole, Typed, Start, LookUp, Room, Open, Choose, Write, WriteEnd, ListPages
<1>3. \A k \in ToSet(order) : k \in Key /\ cache[k] \in Objs /\ page[cache[k]].key = k
  BY <1>1 DEF Typed, Placed
<1>4. ASSUME disk' \in [Key -> Contents \cup {Blank}], NEW pc \in Pcs, NEW over \in Nat,
             NEW todo, NEW dels, Becomes(t, pc, th[t].obj, over, todo, dels),
             th[t].pc # "idle", pc # "insert", pc \in Inside => th[t].pc \in Inside,
             \A o, p \in todo : page[o].key \in Key /\ (page[o].key = page[p].key => o = p)
      PROVE  Whole'
  <2>1. Typed' /\ Held(t)'
    BY <1>1, <1>2, <1>4 DEF Becomes, Typed, Held, Inside
  <2> QED
    BY <1>2, <1>4, <2>1, Steady DEF Becomes
<1>5. /\ th[t].over \in Nat /\ th[t].todo \in SUBSET Objs
      /\ \A o, p \in th[t].todo : page[o].key \in Key /\ (page[o].key = page[p].key => o = p)
      /\ disk \in [Key -> Contents \cup {Blank}]
  BY <1>1, CallParts DEF Typed, Held
<1>6. {"hit", "read", "got", "open", "scan", "clean", "list", "write", "del"} \subseteq Pcs
  BY DEF Pcs
<1>7. ASSUME NEW pc \in Pcs, Go(t, [th[t] EXCEPT !.pc = pc]), th[t].pc # "idle", pc # "insert",
             disk' \in [Key -> Contents \cup {Blank}], pc \in Inside => th[t].pc \in Inside
      PROVE  Whole'
  <2>1. Becomes(t, pc, th[t].obj, th[t].over, th[t].todo, th[t].dels)
    BY <1>1, <1>7, Moves, Zenon
  <2> QED
    BY <1>4, <1>5, <1>7, <2>1
<1>8. CASE Start(t)
  <2>1. /\ disk' = disk /\ th' \in [Threads -> Calls] /\ \A u \in Threads : u # t => th'[u] = th[u]
        /\ th'[t].pc = "get" /\ th'[t].key \in Key /\ th'[t].todo = {}
    BY <1>1, <1>8, StartCall
  <2>2. Typed' /\ Held(t)'
    BY <1>1, <1>2, <2>1 DEF Typed, Held, Inside
  <2> QED
    BY <1>2, <2>1, <2>2, Steady
<1>9. CASE LookUp(t)
  <2> DEFINE pc == IF cache[th[t].key] # None THEN "hit" ELSE "read"
  <2>1. pc \in {"hit", "read"} /\ th[t].pc = "get" /\ UNCHANGED disk
        /\ Go(t, [th[t] EXCEPT !.pc = pc])
    BY <1>9 DEF LookUp, At
  <2> HIDE DEF pc
  <2> QED
    BY <1>5, <1>6, <1>7, <2>1 DEF Inside
<1>10. CASE Room(t)
  <2> DEFINE over == Len(order) - Capacity
  <2>1. th[t].pc = "room" /\ UNCHANGED disk
    BY <1>10 DEF Room, At
  <2>2. CASE over <= 0
    BY <1>5, <1>6, <1>7, <1>10, <2>1, <2>2 DEF Room, Inside
  <2>3. CASE ~(over <= 0)
    <3>1. Go(t, [th[t] EXCEPT !.pc = "open", !.over = over])
      BY <1>10, <2>3 DEF Room
    <3>2. over \in Nat
      <4>1. Len(order) \in Nat
        BY <1>1 DEF Typed
      <4> QED
        BY <2>3, <4>1, BoundsAssumption
    <3> HIDE DEF over
    <3>3. Becomes(t, "open", th[t].obj, over, th[t].todo, th[t].dels)
      BY <1>1, <1>6, <3>1, <3>2, Moves, Zenon
    <3> QED
      BY <1>4, <1>5, <1>6, <2>1, <3>2, <3>3 DEF Inside
  <2> QED
    BY <2>2, <2>3
<1>11. CASE Open(t, "open", "scan") \/ Open(t, "flush", "list")
  BY <1>5, <1>6, <1>7, <1>11 DEF Open, At, Inside
<1>12. CASE Choose(t)
  <2> DEFINE others == Without(order, th[t].key)
             out == ToSet(SubSeq(others, 1, th[t].over))
             todo == { cache[k] : k \in out }
  <2>1. th[t].pc = "scan" /\ UNCHANGED <<disk, stale>>
    BY <1>12 DEF Choose, At
  <2>2. CASE t \in stale \/ Len(others) < th[t].over
    BY <1>2, <1>12, <2>1, <2>2, EndWhole DEF Choose
  <2>3. CASE ~(t \in stale \/ Len(others) < th[t].over)
    <3>1. Go(t, [th[t] EXCEPT !.pc = "write", !.dels = out, !.todo = todo])
      BY <1>12, <2>3 DEF Choose
    <3>2. others \in Seq(Key) /\ ToSet(others) \subseteq ToSet(order)
      <4>1. CASE th[t].key \in ToSet(order)
        BY <1>1, <4>1, WithoutKey DEF Typed, Placed
      <4>2. CASE th[t].key \notin ToSet(order)
        BY <1>1, <4>2 DEF Without, Typed
      <4> QED
        BY <4>1, <4>2
    <3>3. out \subseteq ToSet(order)
      <4>1. Len(others) \in Nat /\ th[t].over <= Len(others) /\ DOMAIN others = 1 .. Len(others)
        BY <1>5, <2>3, <3>2
      <4> HIDE DEF others
      <4>2. \A i \in 1 .. th[t].over : i \in 1 .. Len(others) /\ others[i] \in ToSet(others)
        <5>1. \A i \in 1 .. th[t].over : i \in 1 .. Len(others)
          BY <1>5, <4>1
        <5>2. \A i \in 1 .. Len(others) : others[i] \in ToSet(others)
          BY <4>1 DEF ToSet
        <5> QED
          BY <5>1, <5>2
      <4>3. ToSet(SubSeq(others, 1, th[t].over)) \subseteq ToSet(others)
        BY <1>5, <3>2, <4>1, <4>2, PrefixSet
      <4> QED
        BY <3>2, <4>3
    <3> HIDE DEF out, others
    <3>4. /\ todo \in SUBSET Objs /\ out \in SUBSET Key
          /\ \A o, p \in todo : page[o].key \in Key /\ (page[o].key = page[p].key => o = p)
      BY <1>3, <3>3
    <3> HIDE DEF todo
    <3>5. Becomes(t, "write", th[t].obj, th[t].over, todo, out)
      BY <1>1, <1>6, <3>1, <3>4, Moves, Zenon
    <3> QED
      BY <1>4, <1>5, <1>6, <2>1, <3>4, <3>5 DEF Inside
  <2> QED
    BY <2>2, <2>3
<1>13. CASE Write(t)
  <2>1. th[t].pc = "write"
    BY <1>13 DEF Write, At
  <2>2. PICK o \in th[t].todo :
          \/ /\ disk' = [disk EXCEPT ![page[o].key] = page[o].data]
             /\ Go(t, [th[t] EXCEPT !.pc = "clean"])
          \/ UNCHANGED disk /\ Go(t, [th[t] EXCEPT !.todo = th[t].todo \ {o}])
    BY <1>13 DEF Write
  <2>3. o \in Objs /\ page[o].data \in Contents \cup {Blank}
    BY <1>1, <1>5 DEF Typed, Pages
  <2>4. disk' \in [Key -> Contents \cup {Blank}]
    BY <1>5, <2>2, <2>3
  <2>5. CASE Go(t, [th[t] EXCEPT !.pc = "clean"])
    BY <1>6, <1>7, <2>1, <2>4, <2>5 DEF Inside
  <2>6. CASE Go(t, [th[t] EXCEPT !.todo = th[t].todo \ {o}])
    <3>1. th[t].todo \ {o} \in SUBSET Objs
      BY <1>5
    <3>2. Becomes(t, th[t].pc, th[t].obj, th[t].over, th[t].todo \ {o}, th[t].dels)
      BY <1>1, <2>6, <3>1, Moves, Zenon
    <3> QED
      BY <1>4, <1>5, <1>6, <2>1, <2>4, <3>2 DEF Inside
  <2> QED
    BY <2>2, <2>5, <2>6
<1>14. CASE WriteEnd(t)
  <2>1. th[t].pc = "write" /\ UNCHANGED <<disk, stale>>
    BY <1>14 DEF WriteEnd, At
  <2>2. CASE End(t)
    BY <1>2, <1>14, <2>1, <2>2, EndWhole DEF WriteEnd
  <2>3. CASE Go(t, [th[t] EXCEPT !.pc = "del"])
    BY <1>5, <1>6, <1>7, <2>1, <2>3 DEF Inside
  <2> QED
    BY <1>14, <2>2, <2>3 DEF WriteEnd
<1>15. CASE ListPages(t)
  <2> DEFINE todo == { cache[k] : k \in { j \in ToSet(order) : j[1] = th[t].key[1] } }
  <2>1. th[t].pc = "list" /\ UNCHANGED <<disk, stale>>
    BY <1>15 DEF ListPages, At
  <2>2. CASE t \in stale
    BY <1>2, <1>15, <2>1, <2>2, EndWhole DEF ListPages
  <2>3. CASE t \notin stale
    <3>1. Go(t, [th[t] EXCEPT !.pc = "write", !.todo = todo])
      BY <1>15, <2>3 DEF ListPages
    <3>2. /\ todo \in SUBSET Objs
          /\ \A o, p \in todo : page[o].key \in Key /\ (page[o].key = page[p].key => o = p)
      BY <1>3
    <3> HIDE DEF todo
    <3>3. Becomes(t, "write", th[t].obj, th[t].over, todo, th[t].dels)
      BY <1>1, <1>6, <3>1, <3>2, Moves, Zenon
    <3> QED
      BY <1>4, <1>5, <1>6, <2>1, <3>2, <3>3 DEF Inside
  <2> QED
    BY <2>2, <2>3
<1> QED
  BY <1>8, <1>9, <1>10, <1>11, <1>12, <1>13, <1>14, <1>15

-----------------------------------------------------------------------------
(* What a thread relies on *)

\* What a step of another thread leaves as it was for thread u
Spares(u) ==
    /\ th'[u] = th[u]
    /\ \A k \in Work[u] : cache'[k] = cache[k] /\ disk'[k] = disk[k]
    /\ \A o \in Objs \ Garbage : page[o].key \in Work[u] => page'[o] = page[o]
    /\ \A o \in th[u].todo :
         page[o].key \in Cold =>
           /\ page'[o].key = page[o].key
           /\ Clear(o, page[o].key) => page'[o].dirty \/ page'[o].data = disk'[page[o].key]
           /\ page[o].data = disk[page[o].key] => page'[o].data = disk'[page[o].key]

\* The page of a call in progress is among the pages of its thread
LEMMA OwnKey ==
  ASSUME NEW t \in Threads, Typed, Cached, Holding(t), th[t].obj # None
  PROVE  /\ th[t].obj \in Objs /\ th[t].key \in Work[t] /\ page[th[t].obj].key = th[t].key
         /\ th[t].key \in Key
         /\ th[t].pc # "insert" => th[t].pc \in Inside /\ cache[th[t].key] = th[t].obj
<1>1. th[t].pc \in Pcs /\ th[t].obj \in Objs \cup {None}
  BY CallParts DEF Typed
<1>2. th[t].pc \in Inside \cup {"insert"}
  BY <1>1 DEF Holding, Pcs, Inside
<1>3. th[t].key \in Work[t] /\ Work[t] \subseteq Key
  BY <1>2, WorkAssumption DEF Holding, Inside
<1>4. CASE th[t].pc = "insert"
  BY <1>1, <1>3, <1>4 DEF Holding
<1>5. CASE th[t].pc \in Inside
  BY <1>1, <1>3, <1>5 DEF Holding, Cached
<1> QED
  BY <1>1, <1>2, <1>3, <1>4, <1>5

\* The objects a write-back has yet to look at
LEMMA Waiting ==
  ASSUME NEW t \in Threads, Typed, Evicting(t)
  PROVE  \A o \in th[t].todo :
           /\ o \in Objs /\ page[o].key \in Key
           /\ page[o].key \in Cold \/ page[o].key \in Work[t]
<1>1. th[t].todo \subseteq Objs
  BY CallParts DEF Typed
<1>2. Cold \subseteq Key /\ Work[t] \subseteq Key
  BY WorkAssumption, ColdAssumption
<1> QED
  BY <1>1, <1>2 DEF Evicting

\* What a thread uses is not what earlier requests left
LEMMA ColdAway ==
  ASSUME Apart, NEW t \in Threads, NEW k \in Work[t]
  PROVE  k \notin Cold
<1>1. k \in Works
  BY DEF Works
<1> QED
  BY <1>1 DEF Apart

\* A page has one owner
LEMMA Owners ==
  ASSUME Apart, NEW t \in Threads, NEW u \in Threads, u # t, NEW k \in Work[t]
  PROVE  k \notin Work[u] /\ k \notin Cold
<1>1. k \notin Cold
  BY ColdAway
<1>2. k \notin Work[u]
  BY DEF Apart
<1> QED
  BY <1>1, <1>2

\* A thread that is spared keeps all it relies on
LEMMA Undisturbed ==
  ASSUME Apart, Typed, Cached, NEW u \in Threads, Fine(u), Spares(u)
  PROVE  Fine(u)'
<1>1. Work[u] \subseteq Key /\ \A k \in Work[u] : k \notin Cold
  BY WorkAssumption DEF Apart, Works
<1>2. \A o \in th[u].todo :
        /\ o \in Objs \ Garbage /\ page[o].key \in Key
        /\ page[o].key \in Cold \/ page[o].key \in Work[u]
  BY Waiting, InUse DEF Fine
<1>3. th[u].obj # None =>
        /\ th[u].obj \in Objs \ Garbage /\ th[u].key \in Work[u]
        /\ page[th[u].obj].key = th[u].key /\ page'[th[u].obj] = page[th[u].obj]
  BY OwnKey, InUse DEF Fine, Spares
<1>4. \A k \in Work[u] : cache[k] # None =>
        /\ cache[k] \in Objs \ Garbage /\ page[cache[k]].key = k /\ page'[cache[k]] = page[cache[k]]
  <2>1. \A k \in Key : cache[k] # None => cache[k] \in Objs \ Garbage
    BY InUse DEF Typed
  <2> QED
    BY <1>1, <2>1 DEF Cached, Spares
<1>5. \A o \in th[u].todo : page'[o].key = page[o].key
  BY <1>2 DEF Spares
<1>6. Holding(u)'
  BY <1>1, <1>3 DEF Holding, Spares, Fine, Inside
<1>7. Evicting(u)'
  BY <1>1, <1>2, <1>5 DEF Evicting, Spares, Fine
<1>8. Flagged(u)'
  <2>1. \A k \in Work[u] : cache'[k] # None =>
          (page'[cache'[k]].dirty \/ page'[cache'[k]].data = disk'[k])
            \/ (th'[u].pc = "mark" /\ th'[u].obj = cache'[k])
    BY <1>4 DEF Fine, Flagged, Clear, Spares
  <2>2. \A o \in th[u].todo : page'[o].dirty \/ page'[o].data = disk'[page'[o].key]
    BY <1>2, <1>5 DEF Fine, Flagged, Clear, Spares
  <2>3. ASSUME th[u].pc = "clean", NEW o \in th[u].todo, First(u, o)'
        PROVE  page'[o].data = disk'[page'[o].key]
    <3>1. First(u, o)
      BY <1>5, <2>3 DEF First, Spares
    <3>2. page[o].data = disk[page[o].key]
      BY <2>3, <3>1 DEF Fine, Flagged
    <3> QED
      BY <1>2, <1>5, <3>2 DEF Spares
  <2> QED
    BY <2>1, <2>2, <2>3 DEF Flagged, Clear, Spares
<1>9. Saving(u)'
  <2>1. th[u].op = "save" /\ th[u].pc \in {"mark", "flush", "list", "write", "clean"}
          => th[u].obj # None /\ disk'[th[u].key] = disk[th[u].key]
    BY <1>3 DEF Holding, Inside, Fine, Spares
  <2> QED
    BY <1>3, <2>1 DEF Saving, Fine, Spares
<1> QED
  BY <1>6, <1>7, <1>8, <1>9 DEF Fine

\* A step of thread t that spares the others
LEMMA OneThread ==
  ASSUME Apart, IInv, NEW t \in Threads, Typed', Ordered', Cached', ColdClear', Fine(t)',
         \A u \in Threads \ {t} : Spares(u)
  PROVE  IInv'
<1>1. ASSUME NEW u \in Threads PROVE Fine(u)'
  <2>1. CASE u = t
    BY <2>1
  <2>2. CASE u # t
    BY <2>2, Undisturbed DEF IInv
  <2> QED
    BY <2>1, <2>2
<1> QED
  BY <1>1 DEF IInv

\* A step that changes only what thread t holds
LEMMA Private ==
  ASSUME Apart, IInv, NEW t \in Threads, UNCHANGED <<disk, cache, order, page>>,
         th' \in [Threads -> Calls], \A u \in Threads : u # t => th'[u] = th[u],
         stale' \in SUBSET Threads, Fine(t)'
  PROVE  IInv'
<1>1. Typed'
  BY DEF IInv, Typed
<1>2. Ordered' /\ Cached' /\ ColdClear'
  BY DEF IInv, Ordered, Cached, ColdClear, Clear
<1>3. ASSUME NEW u \in Threads \ {t} PROVE Spares(u)
  BY DEF Spares, Clear
<1> QED
  BY <1>1, <1>2, <1>3, OneThread
-----------------------------------------------------------------------------
(* The steps of get and of the write-back that change nothing shared *)

\* A call that is over holds nothing
LEMMA EndKeeps ==
  ASSUME Apart, IInv, NEW t \in Threads, th[t].pc # "mark", End(t),
         UNCHANGED <<disk, cache, order, page, stale>>
  PROVE  IInv'
<1>1. Typed /\ Fine(t)
  BY DEF IInv
<1>2. Ended(t)
  BY <1>1, Moves, Zenon
<1>3. Holding(t)'
  BY <1>2 DEF Ended, Holding, Inside
<1>4. Evicting(t)' /\ Saving(t)'
  BY <1>2 DEF Ended, Evicting, Saving
<1>5. Flagged(t)'
  BY <1>1, <1>2 DEF Ended, Fine, Flagged, Clear
<1> QED
  BY <1>2, <1>3, <1>4, <1>5, Private DEF Fine, Ended, IInv, Typed

\* A call is looked up
LEMMA LookUpKeeps ==
  ASSUME Apart, IInv, NEW t \in Threads, LookUp(t)
  PROVE  IInv'
<1> DEFINE pc == IF cache[th[t].key] # None THEN "hit" ELSE "read"
<1>1. Typed /\ Fine(t) /\ th[t].pc = "get"
  BY DEF IInv, LookUp, At
<1>2. Go(t, [th[t] EXCEPT !.pc = pc])
  BY DEF LookUp
<1>3. pc \in Pcs /\ pc \in {"hit", "read"}
  BY DEF Pcs
<1>4. pc = "hit" => cache[th[t].key] # None
  OBVIOUS
<1>5. pc = "read" => cache[th[t].key] = None
  OBVIOUS
<1> HIDE DEF pc
<1>6. Becomes(t, pc, th[t].obj, th[t].over, th[t].todo, th[t].dels)
  BY <1>1, <1>2, <1>3, Moves, Zenon
<1>7. UNCHANGED <<disk, cache, order, page, stale>>
  BY DEF LookUp
<1>8. Holding(t)'
  BY <1>1, <1>3, <1>4, <1>5, <1>6, <1>7 DEF Fine, Holding, Becomes, Inside
<1>9. Evicting(t)' /\ Saving(t)'
  BY <1>1, <1>3, <1>6, <1>7 DEF Fine, Evicting, Saving, Becomes
<1>10. Flagged(t)'
  BY <1>1, <1>3, <1>6, <1>7 DEF Fine, Flagged, Evicting, Becomes, Clear
<1> QED
  BY <1>6, <1>7, <1>8, <1>9, <1>10, Private DEF Fine, Becomes, IInv, Typed

\* A call starts
LEMMA StartKeeps ==
  ASSUME Apart, IInv, NEW t \in Threads, Start(t)
  PROVE  IInv'
<1>1. Typed /\ Fine(t)
  BY DEF IInv
<1>2. /\ UNCHANGED <<disk, cache, order, page, stale>> /\ th[t].pc = "idle"
      /\ th' \in [Threads -> Calls] /\ \A u \in Threads : u # t => th'[u] = th[u]
      /\ th'[t].pc = "get" /\ th'[t].key \in Work[t]
      /\ th'[t].obj = None /\ th'[t].todo = {} /\ th'[t].dels = {}
  BY <1>1, StartCall
<1>3. Holding(t)'
  BY <1>2 DEF Holding, Inside
<1>4. Evicting(t)' /\ Saving(t)'
  BY <1>2 DEF Evicting, Saving
<1>5. Flagged(t)'
  BY <1>1, <1>2 DEF Fine, Flagged, Clear
<1> QED
  BY <1>1, <1>2, <1>3, <1>4, <1>5, Private DEF Fine, Typed

\* The first lines of _make_room
LEMMA RoomKeeps ==
  ASSUME Apart, IInv, NEW t \in Threads, Room(t)
  PROVE  IInv'
<1> DEFINE over == Len(order) - Capacity
<1>1. Typed /\ Fine(t) /\ th[t].pc = "room"
  BY DEF IInv, Room, At
<1>2. /\ UNCHANGED <<disk, cache, order, page, stale>>
      /\ over <= 0 => Go(t, [th[t] EXCEPT !.pc = "got"])
      /\ ~(over <= 0) => Go(t, [th[t] EXCEPT !.pc = "open", !.over = over])
  BY DEF Room
<1>3. over \in Int
  <2>1. Len(order) \in Nat
    BY <1>1 DEF Typed
  <2> QED
    BY <2>1, BoundsAssumption
<1> HIDE DEF over
<1>4. \/ Becomes(t, "got", th[t].obj, th[t].over, th[t].todo, th[t].dels)
      \/ over > 0 /\ Becomes(t, "open", th[t].obj, over, th[t].todo, th[t].dels)
  <2>1. "got" \in Pcs /\ "open" \in Pcs
    BY DEF Pcs
  <2>2. CASE over <= 0
    BY <1>1, <1>2, <2>1, <2>2, Moves, Zenon
  <2>3. CASE ~(over <= 0)
    <3>1. over \in Nat /\ over > 0
      BY <1>3, <2>3
    <3> QED
      BY <1>1, <1>2, <2>1, <2>3, <3>1, Moves, Zenon
  <2> QED
    BY <2>2, <2>3
<1>5. Holding(t)'
  BY <1>1, <1>2, <1>4 DEF Fine, Holding, Becomes, Inside
<1>6. Evicting(t)'
  BY <1>1, <1>2, <1>4 DEF Fine, Evicting, Becomes
<1>7. Saving(t)'
  BY <1>1, <1>2, <1>4 DEF Fine, Saving, Becomes
<1>8. Flagged(t)'
  BY <1>1, <1>2, <1>4 DEF Fine, Flagged, Becomes, Evicting, Clear
<1> QED
  BY <1>1, <1>2, <1>4, <1>5, <1>6, <1>7, <1>8, Private DEF Fine, Becomes, Typed

\* An iteration begins, in _make_room or in flush
LEMMA OpenKeeps ==
  ASSUME Apart, IInv, NEW t \in Threads,
         Open(t, "open", "scan") \/ Open(t, "flush", "list")
  PROVE  IInv'
<1>1. Typed /\ Fine(t) /\ UNCHANGED <<disk, cache, order, page>> /\ stale' \in SUBSET Threads
  BY DEF IInv, Open, Typed
<1>2. "scan" \in Pcs /\ "list" \in Pcs
  BY DEF Pcs
<1>3. \/ th[t].pc = "open" /\ Go(t, [th[t] EXCEPT !.pc = "scan"])
      \/ th[t].pc = "flush" /\ Go(t, [th[t] EXCEPT !.pc = "list"])
  BY DEF Open, At
<1>4. \/ th[t].pc = "open" /\ Becomes(t, "scan", th[t].obj, th[t].over, th[t].todo, th[t].dels)
      \/ th[t].pc = "flush" /\ Becomes(t, "list", th[t].obj, th[t].over, th[t].todo, th[t].dels)
  BY <1>1, <1>2, <1>3, Moves, Zenon
<1>5. Holding(t)'
  BY <1>1, <1>4 DEF Fine, Holding, Becomes, Inside
<1>6. Evicting(t)' /\ Saving(t)'
  BY <1>1, <1>4 DEF Fine, Evicting, Saving, Becomes
<1>7. Flagged(t)'
  BY <1>1, <1>4 DEF Fine, Flagged, Becomes, Evicting, Clear
<1> QED
  BY <1>1, <1>4, <1>5, <1>6, <1>7, Private DEF Fine, Becomes

\* The loop that chooses the victims, when what it takes out is over
LEMMA ChooseKeeps ==
  ASSUME Apart, IInv, NEW t \in Threads, Choose(t), ~excess'
  PROVE  IInv'
<1> DEFINE others == Without(order, th[t].key)
           out == ToSet(SubSeq(others, 1, th[t].over))
           todo == { cache[k] : k \in out }
<1>1. /\ Typed /\ Ordered /\ Cached /\ ColdClear /\ Fine(t) /\ th[t].pc = "scan"
      /\ UNCHANGED <<disk, cache, order, page, stale>>
  BY DEF IInv, Choose, At
<1>2. CASE t \in stale \/ Len(others) < th[t].over
  <2>1. End(t)
    BY <1>2 DEF Choose
  <2> QED
    BY <1>1, <2>1, EndKeeps
<1>3. CASE ~(t \in stale \/ Len(others) < th[t].over)
  <2>1. Go(t, [th[t] EXCEPT !.pc = "write", !.dels = out, !.todo = todo])
    BY <1>3 DEF Choose
  <2>2. th[t].obj # None /\ cache[th[t].key] = th[t].obj
    BY <1>1 DEF Fine, Holding, Inside
  <2>3. th[t].key \in Work[t] /\ th[t].key \in Key
    BY <1>1, <2>2, OwnKey DEF Fine
  <2>4. th[t].key \in Works /\ th[t].key \in ToSet(order)
    BY <1>1, <2>2, <2>3 DEF Ordered, Works
  <2>5. order \in Seq(Key) /\ InOrder(order) /\ th[t].over \in Nat
    BY <1>1, CallParts DEF Typed, Ordered
  <2>6. th[t].over > 0 /\ Len(order) >= Capacity + th[t].over
    <3>1. ~(Len(order) < Capacity + th[t].over)
      BY <1>3 DEF Choose
    <3>2. Len(order) \in Nat
      BY <1>1 DEF Typed
    <3> QED
      BY <1>1, <2>5, <3>1, <3>2, BoundsAssumption DEF Fine, Evicting
  <2>7. Len(others) \in Nat
    BY <2>4, <2>5, WithoutInOrder
  <2>8. th[t].over <= Len(others)
    BY <1>3, <2>5, <2>7
  <2>9. out \subseteq Cold /\ out \subseteq ToSet(order) /\ out # {}
    BY <2>4, <2>5, <2>6, <2>8, Victims
  <2> HIDE DEF out
  <2>10. out \subseteq Key /\ \A k \in out : cache[k] # None /\ k \in Cold
    BY <1>1, <2>9, ColdAssumption DEF Ordered
  <2>11. \A k \in out :
           cache[k] \in Objs /\ page[cache[k]].key = k /\ cache[k] = First0(k) /\ Clear(cache[k], k)
    BY <1>1, <2>10 DEF Typed, Cached, ColdClear
  <2>12. todo \in SUBSET Objs /\ out \in SUBSET Key
    BY <2>10, <2>11
  <2>13. \A o \in todo : page[o].key \in Cold /\ o = First0(page[o].key) /\ Clear(o, page[o].key)
    BY <2>10, <2>11
  <2> HIDE DEF todo
  <2>14. Becomes(t, "write", th[t].obj, th[t].over, todo, out)
    <3>1. "write" \in Pcs
      BY DEF Pcs
    <3> QED
      BY <1>1, <2>1, <2>12, <3>1, Moves, Zenon
  <2>15. Holding(t)'
    BY <1>1, <2>14 DEF Fine, Holding, Becomes, Inside
  <2>16. Evicting(t)'
    BY <1>1, <2>9, <2>13, <2>14 DEF Evicting, Becomes
  <2>17. Saving(t)'
    BY <2>9, <2>14 DEF Saving, Becomes
  <2>18. Flagged(t)'
    BY <1>1, <2>13, <2>14 DEF Fine, Flagged, Becomes, Clear
  <2> QED
    BY <1>1, <2>14, <2>15, <2>16, <2>17, <2>18, Private DEF Fine, Becomes, Typed
<1> QED
  BY <1>2, <1>3

\* A write-back is over
LEMMA WriteEndKeeps ==
  ASSUME Apart, IInv, NEW t \in Threads, WriteEnd(t)
  PROVE  IInv'
<1>1. /\ Typed /\ Fine(t) /\ th[t].pc = "write" /\ th[t].todo = {}
      /\ UNCHANGED <<disk, cache, order, page, stale>>
  BY DEF IInv, WriteEnd, At
<1>2. CASE th[t].dels = {}
  <2>1. End(t)
    BY <1>2 DEF WriteEnd
  <2> QED
    BY <1>1, <2>1, EndKeeps
<1>3. CASE th[t].dels # {}
  <2>1. Go(t, [th[t] EXCEPT !.pc = "del"])
    BY <1>3 DEF WriteEnd
  <2>2. Becomes(t, "del", th[t].obj, th[t].over, th[t].todo, th[t].dels)
    <3>1. "del" \in Pcs
      BY DEF Pcs
    <3> QED
      BY <1>1, <2>1, <3>1, Moves, Zenon
  <2>3. Holding(t)'
    BY <1>1, <2>2 DEF Fine, Holding, Becomes, Inside
  <2>4. Evicting(t)' /\ Saving(t)'
    BY <1>1, <2>2 DEF Fine, Evicting, Saving, Becomes
  <2>5. Flagged(t)'
    BY <1>1, <2>2 DEF Fine, Flagged, Becomes, Clear
  <2> QED
    BY <1>1, <2>2, <2>3, <2>4, <2>5, Private DEF Fine, Becomes, Typed
<1> QED
  BY <1>2, <1>3

\* The pages of the file are listed
LEMMA ListPagesKeeps ==
  ASSUME Apart, IInv, NEW t \in Threads, ListPages(t)
  PROVE  IInv'
<1> DEFINE todo == { cache[k] : k \in { j \in ToSet(order) : j[1] = th[t].key[1] } }
<1>1. /\ Typed /\ Ordered /\ Cached /\ ColdClear /\ Fine(t) /\ th[t].pc = "list"
      /\ UNCHANGED <<disk, cache, order, page, stale>>
  BY DEF IInv, ListPages, At
<1>2. CASE t \in stale
  <2>1. End(t)
    BY <1>2 DEF ListPages
  <2> QED
    BY <1>1, <2>1, EndKeeps
<1>3. CASE t \notin stale
  <2>1. Go(t, [th[t] EXCEPT !.pc = "write", !.todo = todo])
    BY <1>3 DEF ListPages
  <2>2. th[t].obj # None /\ cache[th[t].key] = th[t].obj
    BY <1>1 DEF Fine, Holding, Inside
  <2>3. th[t].key \in Work[t] /\ th[t].key \in Key /\ th[t].key \in ToSet(order)
    BY <1>1, <2>2, OwnKey DEF Fine, Ordered
  <2>4. \A k \in ToSet(order) : k \in Key /\ cache[k] # None /\ cache[k] \in Objs /\ page[cache[k]].key = k
    BY <1>1 DEF Ordered, Cached, Typed
  <2>5. \A k \in ToSet(order) : k \in Cold \/ k \in Works
    BY <1>1 DEF Ordered, InOrder, Typed, ToSet
  <2>6. ASSUME NEW k \in ToSet(order), k[1] = th[t].key[1]
        PROVE  /\ (k \in Cold /\ cache[k] = First0(k)) \/ k \in Work[t]
               /\ Clear(cache[k], k)
    <3>1. CASE k \in Cold
      BY <1>1, <2>4, <3>1 DEF Cached, ColdClear
    <3>2. CASE k \notin Cold
      <4>1. PICK u \in Threads : k \in Work[u]
        BY <2>5, <3>2 DEF Works
      <4>2. u = t
        BY <2>3, <2>6, <4>1 DEF Apart
      <4> QED
        BY <1>1, <2>4, <4>1, <4>2 DEF Fine, Flagged
    <3> QED
      BY <3>1, <3>2
  <2>7. todo \in SUBSET Objs /\ th[t].obj \in todo
    BY <2>2, <2>3, <2>4
  <2>8. \A o \in todo :
          /\ Clear(o, page[o].key)
          /\ \/ page[o].key \in Cold /\ o = First0(page[o].key)
             \/ page[o].key \in Work[t] /\ cache[page[o].key] = o
    BY <2>4, <2>6
  <2> HIDE DEF todo
  <2>9. Becomes(t, "write", th[t].obj, th[t].over, todo, th[t].dels)
    <3>1. "write" \in Pcs
      BY DEF Pcs
    <3> QED
      BY <1>1, <2>1, <2>7, <3>1, Moves, Zenon
  <2>10. Holding(t)'
    BY <1>1, <2>9 DEF Fine, Holding, Becomes, Inside
  <2>11. Evicting(t)'
    BY <1>1, <2>8, <2>9 DEF Fine, Evicting, Becomes
  <2>12. Saving(t)'
    BY <1>1, <2>7, <2>9 DEF Fine, Saving, Becomes
  <2>13. Flagged(t)'
    BY <1>1, <2>8, <2>9 DEF Fine, Flagged, Becomes, Clear
  <2> QED
    BY <1>1, <2>9, <2>10, <2>11, <2>12, <2>13, Private DEF Fine, Becomes, Typed
<1> QED
  BY <1>2, <1>3
-----------------------------------------------------------------------------
(* The steps that change a page *)

\* An object of a thread is not one of another thread, nor an old one
LEMMA OwnObject ==
  ASSUME Apart, Typed, Cached, NEW t \in Threads, Holding(t), th[t].obj # None,
         UNCHANGED <<disk, cache, order>>,
         \A p \in Objs : p # th[t].obj => page'[p] = page[p],
         page'[th[t].obj].key = page[th[t].obj].key,
         \A u \in Threads : u # t => th'[u] = th[u]
  PROVE  \A u \in Threads \ {t} : Spares(u)
<1>1. SUFFICES ASSUME NEW u \in Threads, u # t PROVE Spares(u)
  OBVIOUS
<1>2. th[t].obj \in Objs /\ page[th[t].obj].key \in Work[t]
  BY OwnKey
<1>3. \A k \in Work[t] : k \notin Work[u] /\ k \notin Cold
  BY <1>1, Owners
<1>4. th[u].todo \subseteq Objs
  BY CallParts DEF Typed
<1> QED
  BY <1>1, <1>2, <1>3, <1>4 DEF Spares, Clear

\* A load is over; a save sets the bytes
LEMMA UseKeeps ==
  ASSUME Apart, IInv, NEW t \in Threads, Use(t)
  PROVE  IInv'
<1> DEFINE o == th[t].obj
<1>1. /\ Typed /\ Ordered /\ Cached /\ ColdClear /\ Fine(t) /\ th[t].pc = "got"
      /\ UNCHANGED <<disk, cache, order, stale>>
  BY DEF IInv, Use, At
<1>2. CASE th[t].op = "load"
  <2>1. End(t) /\ UNCHANGED page
    BY <1>2 DEF Use
  <2> QED
    BY <1>1, <2>1, EndKeeps
<1>3. CASE th[t].op # "load"
  <2>1. page' = [page EXCEPT ![o].data = th[t].val] /\ Go(t, [th[t] EXCEPT !.pc = "mark"])
    BY <1>3 DEF Use
  <2>2. o # None /\ cache[th[t].key] = o /\ th[t].todo = {} /\ th[t].dels = {}
    BY <1>1 DEF Fine, Holding, Evicting, Inside
  <2>3. o \in Objs /\ th[t].key \in Work[t] /\ th[t].key \in Key /\ page[o].key = th[t].key
    BY <1>1, <2>2, OwnKey DEF Fine
  <2>4. Becomes(t, "mark", o, th[t].over, th[t].todo, th[t].dels)
    <3>1. "mark" \in Pcs
      BY DEF Pcs
    <3> QED
      BY <1>1, <2>1, <3>1, Moves, Zenon
  <2>5. /\ page' \in [Objs -> Pages] /\ \A p \in Objs : p # o => page'[p] = page[p]
        /\ page'[o].key = page[o].key /\ page'[o].data = th[t].val
    <3>1. th[t].val \in Contents \cup {Blank}
      BY <1>1, CallParts DEF Typed
    <3> QED
      BY <1>1, <2>1, <2>3, <3>1, PageWrites, Zenon
  <2>6. \A k \in Key : cache[k] # None => cache[k] \in Objs /\ page[cache[k]].key = k
    BY <1>1 DEF Typed, Cached
  <2>7. th[t].key \notin Cold /\ Cold \subseteq Key /\ Work[t] \subseteq Key
    BY <2>3, ColdAssumption, WorkAssumption DEF Apart, Works
  <2> HIDE DEF o
  <2>8. Holding(t)'
    BY <1>1, <2>2, <2>3, <2>4 DEF Holding, Becomes, Inside
  <2>9. Evicting(t)' /\ Saving(t)'
    BY <2>2, <2>4, <2>5 DEF Evicting, Saving, Becomes
  <2>10. Flagged(t)'
    <3>1. \A k \in Work[t] : cache[k] # None /\ k # th[t].key => cache[k] # o
      BY <2>3, <2>6, <2>7
    <3> QED
      BY <1>1, <2>2, <2>4, <2>5, <2>6, <2>7, <3>1 DEF Fine, Flagged, Becomes, Clear
  <2>11. Typed' /\ Ordered' /\ Cached'
    BY <1>1, <2>4, <2>5, <2>6 DEF Typed, Ordered, Cached, Becomes
  <2>12. ColdClear'
    <3>1. \A k \in Cold : cache[k] # None => cache[k] # o
      BY <2>3, <2>6, <2>7
    <3> QED
      BY <1>1, <2>5, <2>6, <2>7, <3>1 DEF ColdClear, Clear
  <2>13. \A u \in Threads \ {t} : Spares(u)
    BY <1>1, <2>2, <2>4, <2>5, OwnObject DEF Becomes, IInv, Fine, o
  <2> QED
    BY <2>8, <2>9, <2>10, <2>11, <2>12, <2>13, OneThread DEF Fine
<1> QED
  BY <1>2, <1>3

\* The flag follows
LEMMA MarkKeeps ==
  ASSUME Apart, IInv, NEW t \in Threads, Mark(t)
  PROVE  IInv'
<1> DEFINE o == th[t].obj
<1>1. /\ Typed /\ Ordered /\ Cached /\ ColdClear /\ Fine(t) /\ th[t].pc = "mark"
      /\ UNCHANGED <<disk, cache, order, stale>>
  BY DEF IInv, Mark, At
<1>2. page' = [page EXCEPT ![o].dirty = TRUE] /\ Go(t, [th[t] EXCEPT !.pc = "flush"])
  BY DEF Mark
<1>3. o # None /\ cache[th[t].key] = o /\ th[t].todo = {} /\ th[t].dels = {}
  BY <1>1 DEF Fine, Holding, Evicting, Inside
<1>4. o \in Objs /\ page[o].key = th[t].key /\ th[t].key \in Work[t]
  BY <1>1, <1>3, OwnKey DEF Fine
<1>5. Becomes(t, "flush", o, th[t].over, th[t].todo, th[t].dels)
  <2>1. "flush" \in Pcs
    BY DEF Pcs
  <2> QED
    BY <1>1, <1>2, <2>1, Moves, Zenon
<1>6. /\ page' \in [Objs -> Pages] /\ \A p \in Objs : p # o => page'[p] = page[p]
      /\ page'[o].key = page[o].key /\ page'[o].data = page[o].data /\ page'[o].dirty = TRUE
  BY <1>1, <1>2, <1>4, PageWrites, Zenon
<1>7. \A k \in Key : cache[k] # None => cache[k] \in Objs /\ page[cache[k]].key = k
  BY <1>1 DEF Typed, Cached
<1>8. Cold \subseteq Key /\ Work[t] \subseteq Key
  BY ColdAssumption, WorkAssumption
<1> HIDE DEF o
<1>9. Holding(t)'
  BY <1>1, <1>3, <1>4, <1>5 DEF Holding, Becomes, Inside
<1>10. Evicting(t)'
  BY <1>3, <1>5 DEF Evicting, Becomes
<1>11. Saving(t)'
  BY <1>1, <1>5, <1>6 DEF Saving, Becomes, Fine, o
<1>12. Flagged(t)'
  BY <1>1, <1>3, <1>5, <1>6, <1>7, <1>8 DEF Fine, Flagged, Becomes, Clear, o
<1>13. Typed' /\ Ordered' /\ Cached'
  BY <1>1, <1>5, <1>6, <1>7 DEF Typed, Ordered, Cached, Becomes
<1>14. ColdClear'
  BY <1>1, <1>6, <1>7, <1>8 DEF ColdClear, Clear
<1>15. \A u \in Threads \ {t} : Spares(u)
  BY <1>1, <1>3, <1>5, <1>6, OwnObject DEF Becomes, IInv, Fine, o
<1> QED
  BY <1>9, <1>10, <1>11, <1>12, <1>13, <1>14, <1>15, OneThread DEF Fine

\* The object that a write-back takes next is the only one
LEMMA FirstUnique ==
  ASSUME Apart, NEW t \in Threads, Typed, Evicting(t), NEW o \in th[t].todo, NEW p \in th[t].todo
  PROVE  /\ page[o].key = page[p].key => o = p
         /\ First(t, o) /\ First(t, p) => o = p
<1> DEFINE j == page[o].key
           k == page[p].key
<1>1. page[o].key = page[p].key => o = p
  BY ColdAway DEF Evicting
<1>2. ASSUME First(t, o), First(t, p) PROVE o = p
  <2>1. j \in Nat \X Nat /\ k \in Nat \X Nat
    BY Waiting, KeyAssumption
  <2>2. ~Before(j, k) /\ ~Before(k, j)
    BY <1>2 DEF First
  <2> HIDE DEF j, k
  <2>3. j[1] = k[1] /\ j[2] = k[2]
    BY <2>1, <2>2 DEF Before
  <2>4. j = k
    BY <2>1, <2>3
  <2> QED
    BY <1>1, <2>4 DEF j, k
<1> QED
  BY <1>1, <1>2

\* The flag of a page that is on the disk goes
LEMMA CleanKeeps ==
  ASSUME Apart, IInv, NEW t \in Threads, Clean(t)
  PROVE  IInv'
<1>1. /\ Typed /\ Ordered /\ Cached /\ ColdClear /\ Fine(t) /\ th[t].pc = "clean"
      /\ UNCHANGED <<disk, cache, order, stale>>
  BY DEF IInv, Clean, At
<1>2. PICK o \in th[t].todo :
        /\ First(t, o) /\ page' = [page EXCEPT ![o].dirty = FALSE]
        /\ Go(t, [th[t] EXCEPT !.pc = "write", !.todo = th[t].todo \ {o}])
  BY Zenon DEF Clean
<1>3. th[t].todo \in SUBSET Objs /\ o \in Objs
  BY <1>1, CallParts DEF Typed
<1>4. page[o].key \in Key /\ page[o].data = disk[page[o].key]
  BY <1>1, <1>2, Waiting DEF Fine, Flagged
<1>5. Becomes(t, "write", th[t].obj, th[t].over, th[t].todo \ {o}, th[t].dels)
  <2>1. "write" \in Pcs /\ th[t].todo \ {o} \in SUBSET Objs
    BY <1>3 DEF Pcs
  <2> QED
    BY <1>1, <1>2, <2>1, Moves, Zenon
<1>6. /\ page' \in [Objs -> Pages] /\ \A p \in Objs : p # o => page'[p] = page[p]
      /\ page'[o].key = page[o].key /\ page'[o].data = page[o].data /\ page'[o].dirty = FALSE
  BY <1>1, <1>2, <1>3, PageWrites
<1>7. \A k \in Key : cache[k] # None => cache[k] \in Objs /\ page[cache[k]].key = k
  BY <1>1 DEF Typed, Cached
<1>8. Cold \subseteq Key /\ Work[t] \subseteq Key
  BY ColdAssumption, WorkAssumption
<1>9. th[t].obj # None /\ th[t].key \in Work[t] /\ cache[th[t].key] = th[t].obj /\ th[t].obj \in Objs
      /\ page[th[t].obj].key = th[t].key
  <2>1. th[t].obj # None
    BY <1>1 DEF Fine, Holding, Inside
  <2> QED
    BY <1>1, <2>1, OwnKey DEF Fine
<1>10. Holding(t)'
  BY <1>1, <1>5, <1>9 DEF Fine, Holding, Becomes, Inside
<1>11. Evicting(t)'
  BY <1>1, <1>3, <1>5, <1>6 DEF Fine, Evicting, Becomes
<1>12. Saving(t)'
  <2>1. o = th[t].obj => page[o].data = disk[th[t].key]
    BY <1>4, <1>9
  <2> QED
    BY <1>1, <1>3, <1>5, <1>6, <1>9, <2>1 DEF Fine, Saving, Becomes
<1>13. \A k \in Key : cache[k] # None /\ Clear(cache[k], k) => Clear(cache[k], k)'
  <2>1. ASSUME NEW k \in Key, cache[k] # None, Clear(cache[k], k)
        PROVE  page'[cache[k]].dirty \/ page'[cache[k]].data = disk[k]
    <3>1. CASE cache[k] = o
      BY <1>4, <1>6, <1>7, <2>1, <3>1
    <3>2. CASE cache[k] # o
      BY <1>6, <1>7, <2>1, <3>2 DEF Clear
    <3> QED
      BY <3>1, <3>2
  <2> QED
    BY <1>1, <2>1 DEF Clear
<1>14. Flagged(t)'
  <2>1. \A k \in Work[t] : cache[k] # None => Clear(cache[k], k)'
    BY <1>1, <1>8, <1>13 DEF Fine, Flagged
  <2>2. \A p \in th[t].todo \ {o} : page'[p] = page[p] /\ Clear(p, page[p].key)
    BY <1>1, <1>3, <1>6 DEF Fine, Flagged
  <2> QED
    BY <1>1, <1>5, <2>1, <2>2 DEF Flagged, Becomes, Clear
<1>15. Typed' /\ Ordered' /\ Cached'
  BY <1>1, <1>5, <1>6, <1>7 DEF Typed, Ordered, Cached, Becomes
<1>16. ColdClear'
  BY <1>1, <1>8, <1>13 DEF ColdClear
<1>17. ASSUME NEW u \in Threads \ {t} PROVE Spares(u)
  <2>1. page[o].key \notin Work[u]
    BY <1>1, <1>3, Waiting, Owners, ColdAway DEF Fine
  <2>2. th[u].todo \subseteq Objs
    BY <1>1, CallParts DEF Typed
  <2>3. th'[u] = th[u]
    BY <1>5 DEF Becomes
  <2>4. \A p \in Objs : page[p].key \in Work[u] => page'[p] = page[p]
    BY <1>6, <2>1
  <2>5. ASSUME NEW p \in th[u].todo
        PROVE  /\ page'[p].key = page[p].key
               /\ Clear(p, page[p].key) => page'[p].dirty \/ page'[p].data = disk[page[p].key]
               /\ page[p].data = disk[page[p].key] => page'[p].data = disk[page[p].key]
    <3>1. CASE p = o
      BY <1>4, <1>6, <3>1
    <3>2. CASE p # o
      BY <1>6, <2>2, <3>2 DEF Clear
    <3> QED
      BY <3>1, <3>2
  <2> QED
    BY <1>1, <2>3, <2>4, <2>5 DEF Spares
<1> QED
  BY <1>10, <1>11, <1>12, <1>14, <1>15, <1>16, <1>17, OneThread DEF Fine
-----------------------------------------------------------------------------
(* The step that changes the engine *)

\* A page that is dirty is written; another one is done
LEMMA WriteKeeps ==
  ASSUME Apart, IInv, NEW t \in Threads, Write(t)
  PROVE  IInv'
<1>1. /\ Typed /\ Ordered /\ Cached /\ ColdClear /\ Fine(t) /\ th[t].pc = "write"
      /\ UNCHANGED <<cache, order, page, stale>>
  BY DEF IInv, Write, At
<1>2. PICK o \in th[t].todo :
        /\ First(t, o)
        /\ \/ /\ page[o].dirty /\ disk' = [disk EXCEPT ![page[o].key] = page[o].data]
              /\ Go(t, [th[t] EXCEPT !.pc = "clean"])
           \/ /\ ~page[o].dirty /\ UNCHANGED disk
              /\ Go(t, [th[t] EXCEPT !.todo = th[t].todo \ {o}])
  BY DEF Write
<1>3. th[t].todo \in SUBSET Objs /\ o \in Objs
  BY <1>1, CallParts DEF Typed
<1>4. th[t].obj # None /\ th[t].key \in Work[t] /\ cache[th[t].key] = th[t].obj /\ th[t].obj \in Objs
      /\ page[th[t].obj].key = th[t].key
  <2>1. th[t].obj # None
    BY <1>1 DEF Fine, Holding, Inside
  <2> QED
    BY <1>1, <2>1, OwnKey DEF Fine
<1>5. CASE /\ ~page[o].dirty /\ UNCHANGED disk
           /\ Go(t, [th[t] EXCEPT !.todo = th[t].todo \ {o}])
  <2>1. Becomes(t, th[t].pc, th[t].obj, th[t].over, th[t].todo \ {o}, th[t].dels)
    <3>1. th[t].todo \ {o} \in SUBSET Objs
      BY <1>3
    <3> QED
      BY <1>1, <1>5, <3>1, Moves, Zenon
  <2>2. Holding(t)'
    BY <1>1, <1>4, <1>5, <2>1 DEF Fine, Holding, Becomes, Inside
  <2>3. Evicting(t)'
    BY <1>1, <2>1 DEF Fine, Evicting, Becomes
  <2>4. Saving(t)'
    BY <1>1, <1>5, <2>1 DEF Fine, Saving, Becomes
  <2>5. Flagged(t)'
    BY <1>1, <1>5, <2>1 DEF Fine, Flagged, Becomes, Clear
  <2> QED
    BY <1>1, <1>5, <2>1, <2>2, <2>3, <2>4, <2>5, Private DEF Fine, Becomes, Typed
<1>6. CASE /\ page[o].dirty /\ disk' = [disk EXCEPT ![page[o].key] = page[o].data]
           /\ Go(t, [th[t] EXCEPT !.pc = "clean"])
  <2> DEFINE j == page[o].key
  <2>1. Becomes(t, "clean", th[t].obj, th[t].over, th[t].todo, th[t].dels)
    <3>1. "clean" \in Pcs
      BY DEF Pcs
    <3> QED
      BY <1>1, <1>6, <3>1, Moves, Zenon
  <2>2. j \in Key /\ ((j \in Cold /\ o = First0(j)) \/ (j \in Work[t] /\ cache[j] = o))
    BY <1>1, Waiting DEF Fine, Evicting
  <2>3. /\ disk' \in [Key -> Contents \cup {Blank}] /\ disk'[j] = page[o].data
        /\ \A k \in Key : k # j => disk'[k] = disk[k]
    <3>1. page[o].data \in Contents \cup {Blank}
      BY <1>1, <1>3 DEF Typed, Pages
    <3> QED
      BY <1>1, <1>6, <2>2, <3>1 DEF Typed
  <2>4. \A k \in Key : cache[k] # None => cache[k] \in Objs /\ page[cache[k]].key = k
    BY <1>1 DEF Typed, Cached
  <2>5. Cold \subseteq Key /\ Work[t] \subseteq Key /\ \A k \in Work[t] : k \notin Cold
    BY ColdAssumption, WorkAssumption, ColdAway
  <2> HIDE DEF j
  <2>6. cache[j] # None => cache[j] = o
    BY <1>1, <2>2 DEF Cached
  <2>7. \A k \in Key : cache[k] # None /\ Clear(cache[k], k) => Clear(cache[k], k)'
    BY <1>1, <2>3, <2>6 DEF Clear
  <2>8. Holding(t)'
    BY <1>1, <1>4, <2>1 DEF Fine, Holding, Becomes, Inside
  <2>9. Evicting(t)'
    BY <1>1, <2>1 DEF Fine, Evicting, Becomes
  <2>10. Saving(t)'
    <3>1. th[t].key = j => o = th[t].obj
      BY <1>4, <2>5, <2>6
    <3>2. th[t].key \in Key
      BY <1>4, <2>5
    <3> QED
      BY <1>1, <2>1, <2>3, <3>1, <3>2 DEF Fine, Saving, Becomes
  <2>11. Flagged(t)'
    <3>1. \A k \in Work[t] : cache[k] # None => Clear(cache[k], k)'
      BY <1>1, <2>5, <2>7 DEF Fine, Flagged
    <3>2. ASSUME NEW p \in th[t].todo PROVE page[p].dirty \/ page[p].data = disk'[page[p].key]
      <4>1. page[p].key \in Key
        BY <1>1, Waiting DEF Fine
      <4>2. page[p].key = j => p = o
        BY <1>1, FirstUnique DEF Fine, j
      <4> QED
        BY <1>1, <2>3, <4>1, <4>2 DEF Fine, Flagged, Clear
    <3>3. ASSUME NEW p \in th[t].todo, First(t, p) PROVE page[p].data = disk'[page[p].key]
      <4>1. p = o
        BY <1>1, <1>2, <3>3, FirstUnique DEF Fine
      <4> QED
        BY <2>3, <4>1 DEF j
    <3> QED
      BY <1>1, <2>1, <3>1, <3>2, <3>3 DEF Flagged, Becomes, Clear, First
  <2>12. Typed' /\ Ordered' /\ Cached'
    BY <1>1, <2>1, <2>3, <2>4 DEF Typed, Ordered, Cached, Becomes
  <2>13. ColdClear'
    BY <1>1, <2>5, <2>7 DEF ColdClear
  <2>14. ASSUME NEW u \in Threads \ {t} PROVE Spares(u)
    <3>1. j \notin Work[u]
      BY <2>2, Owners, ColdAway
    <3>2. Work[u] \subseteq Key
      BY WorkAssumption
    <3>3. th'[u] = th[u]
      BY <2>1 DEF Becomes
    <3>4. \A k \in Work[u] : disk'[k] = disk[k]
      BY <2>3, <3>1, <3>2
    <3>5. ASSUME NEW p \in th[u].todo, page[p].key \in Cold
          PROVE  /\ Clear(p, page[p].key) => page[p].dirty \/ page[p].data = disk'[page[p].key]
                 /\ page[p].data = disk[page[p].key] => page[p].data = disk'[page[p].key]
      <4>1. Fine(u)
        BY DEF IInv
      <4>2. p = First0(page[p].key)
        BY <3>5, <4>1, ColdAway DEF Fine, Evicting
      <4>3. CASE page[p].key = j
        <5>1. p = o
          BY <2>2, <2>5, <3>5, <4>2, <4>3
        <5> QED
          BY <2>3, <5>1 DEF j
      <4>4. CASE page[p].key # j
        BY <2>3, <2>5, <3>5, <4>4 DEF Clear
      <4> QED
        BY <4>3, <4>4
    <3> QED
      BY <1>1, <3>3, <3>4, <3>5 DEF Spares
  <2> QED
    BY <2>8, <2>9, <2>10, <2>11, <2>12, <2>13, <2>14, OneThread DEF Fine
<1> QED
  BY <1>2, <1>5, <1>6

-----------------------------------------------------------------------------
(* The steps that change what is cached *)

\* The objects of a thread are not touched by another one that changes the
\* cache at a page of its own, or at an old one
LEMMA OtherPages ==
  ASSUME Apart, Typed, NEW t \in Threads, NEW k \in Key, k \in Cold \/ k \in Work[t],
         \A j \in Key : j # k => cache'[j] = cache[j], UNCHANGED <<disk, page>>,
         \A u \in Threads : u # t => th'[u] = th[u]
  PROVE  \A u \in Threads \ {t} : Spares(u)
<1>1. SUFFICES ASSUME NEW u \in Threads \ {t} PROVE Spares(u)
  OBVIOUS
<1>2. k \notin Work[u] /\ Work[u] \subseteq Key
  BY Owners, ColdAway, WorkAssumption
<1> QED
  BY <1>2 DEF Spares, Clear

\* A page that is in the cache is the most recent one
LEMMA HitKeeps ==
  ASSUME Apart, IInv, NEW t \in Threads, Hit(t)
  PROVE  IInv'
<1> DEFINE k == th[t].key
           w == Without(order, k)
<1>1. /\ Typed /\ Ordered /\ Cached /\ ColdClear /\ Fine(t) /\ th[t].pc = "hit"
      /\ UNCHANGED <<disk, cache, page>>
  BY DEF IInv, Hit, At
<1>2. cache[k] # None /\ k \in Work[t] /\ k \in Key
  <2>1. cache[k] # None /\ k \in Work[t]
    BY <1>1 DEF Fine, Holding
  <2> QED
    BY <2>1, WorkAssumption
<1>3. /\ order' = Append(w, k) /\ stale' \subseteq Threads
      /\ Go(t, [th[t] EXCEPT !.pc = "got", !.obj = cache[k]])
  BY <1>1, <1>2, ReorderType DEF Hit
<1>4. cache[k] \in Objs
  BY <1>1, <1>2 DEF Typed
<1>5. Becomes(t, "got", cache[k], th[t].over, th[t].todo, th[t].dels)
  <2>1. "got" \in Pcs
    BY DEF Pcs
  <2> QED
    BY <1>1, <1>3, <1>4, <2>1, Moves, Zenon
<1>6. k \in ToSet(order) /\ k \in Works
  BY <1>1, <1>2 DEF Ordered, Works
<1>7. w \in Seq(Key) /\ InOrder(w) /\ ToSet(w) = ToSet(order) \ {k}
  BY <1>1, <1>6, WithoutInOrder DEF Typed, Ordered
<1> HIDE DEF w
<1>8. /\ order' \in Seq(Key) /\ InOrder(order') /\ ToSet(order') = ToSet(order)
  <2>1. k \notin ToSet(w)
    BY <1>7
  <2>2. /\ Append(w, k) \in Seq(Key) /\ InOrder(Append(w, k))
        /\ ToSet(Append(w, k)) = ToSet(w) \cup {k}
    BY <1>2, <1>6, <1>7, <2>1, AppendInOrder
  <2>3. ToSet(w) \cup {k} = ToSet(order)
    BY <1>6, <1>7
  <2> QED
    BY <1>3, <2>2, <2>3
<1>9. Holding(t)'
  BY <1>1, <1>2, <1>4, <1>5, NoneAssumption DEF Fine, Holding, Becomes, Inside
<1>10. Evicting(t)'
  BY <1>1, <1>5 DEF Fine, Evicting, Becomes
<1>11. Saving(t)'
  BY <1>5 DEF Saving, Becomes
<1>12. Flagged(t)'
  BY <1>1, <1>5 DEF Fine, Flagged, Becomes, Clear
<1>13. Typed' /\ Ordered' /\ Cached' /\ ColdClear'
  BY <1>1, <1>3, <1>5, <1>8 DEF Typed, Ordered, Cached, ColdClear, Clear, Becomes
<1>14. \A u \in Threads \ {t} : Spares(u)
  BY <1>1, <1>2, <1>3, <1>5, OtherPages DEF Becomes
<1> QED
  BY <1>9, <1>10, <1>11, <1>12, <1>13, <1>14, OneThread DEF Fine

\* A page that was read goes into the cache
LEMMA InsertKeeps ==
  ASSUME Apart, IInv, NEW t \in Threads, Insert(t)
  PROVE  IInv'
<1> DEFINE k == th[t].key
           o == th[t].obj
<1>1. /\ Typed /\ Ordered /\ Cached /\ ColdClear /\ Fine(t) /\ th[t].pc = "insert"
      /\ UNCHANGED <<disk, page>>
  BY DEF IInv, Insert, At
<1>2. /\ cache[k] = None /\ k \in Work[t] /\ k \in Key /\ o # None /\ o \in Objs
      /\ page[o] = [key |-> k, data |-> disk[k], dirty |-> FALSE]
  <2>1. cache[k] = None /\ o # None /\ page[o] = [key |-> k, data |-> disk[k], dirty |-> FALSE]
    BY <1>1 DEF Fine, Holding
  <2> QED
    BY <1>1, <2>1, OwnKey DEF Fine
<1>3. /\ cache' = [cache EXCEPT ![k] = o] /\ order' = Append(order, k) /\ stale' \subseteq Threads
      /\ Go(t, [th[t] EXCEPT !.pc = "room"])
  BY <1>1, <1>2, ReorderType DEF Insert
<1>4. Becomes(t, "room", o, th[t].over, th[t].todo, th[t].dels)
  <2>1. "room" \in Pcs
    BY DEF Pcs
  <2> QED
    BY <1>1, <1>3, <2>1, Moves, Zenon
<1>5. /\ cache' \in [Key -> Objs \cup {None}] /\ cache'[k] = o
      /\ \A j \in Key : j # k => cache'[j] = cache[j]
  BY <1>1, <1>2, <1>3 DEF Typed
<1>6. k \notin ToSet(order) /\ k \in Works /\ k \notin Cold
  BY <1>1, <1>2, ColdAway DEF Ordered, Works
<1>7. /\ order' \in Seq(Key) /\ InOrder(order') /\ ToSet(order') = ToSet(order) \cup {k}
  BY <1>1, <1>2, <1>3, <1>6, AppendInOrder DEF Typed, Ordered
<1>8. Cold \subseteq Key /\ Work[t] \subseteq Key
  BY ColdAssumption, WorkAssumption
<1>9. page[o].key = k /\ page[o].data = disk[k]
  BY <1>2
<1> HIDE DEF k, o
<1>10. Holding(t)'
  BY <1>1, <1>2, <1>4, <1>5 DEF Holding, Becomes, Inside, k
<1>11. Evicting(t)'
  BY <1>1, <1>4 DEF Fine, Evicting, Becomes
<1>12. Saving(t)'
  BY <1>4 DEF Saving, Becomes
<1>13. Flagged(t)'
  <2>1. th[t].todo = {}
    BY <1>1 DEF Fine, Evicting
  <2> QED
    BY <1>1, <1>4, <1>5, <1>8, <1>9, <2>1 DEF Fine, Flagged, Becomes, Clear
<1>14. Typed'
  BY <1>1, <1>3, <1>4, <1>5, <1>7 DEF Typed, Becomes
<1>15. Ordered'
  BY <1>1, <1>2, <1>5, <1>7 DEF Ordered
<1>16. Cached' /\ ColdClear'
  BY <1>1, <1>5, <1>6, <1>8, <1>9 DEF Cached, ColdClear, Clear
<1>17. \A u \in Threads \ {t} : Spares(u)
  BY <1>1, <1>2, <1>3, <1>4, <1>5, OtherPages DEF Becomes
<1> QED
  BY <1>10, <1>11, <1>12, <1>13, <1>14, <1>15, <1>16, <1>17, OneThread DEF Fine

\* A victim leaves the cache, unless another thread took it out before
LEMMA DeleteKeeps ==
  ASSUME Apart, IInv, NEW t \in Threads, Delete(t)
  PROVE  IInv'
<1>1. /\ Typed /\ Ordered /\ Cached /\ ColdClear /\ Fine(t) /\ th[t].pc = "del"
      /\ UNCHANGED <<disk, page>>
  BY DEF IInv, Delete, At
<1>2. PICK k \in th[t].dels :
        \/ /\ cache[k] = None /\ End(t) /\ UNCHANGED <<cache, order, stale>>
        \/ /\ cache[k] # None /\ cache' = [cache EXCEPT ![k] = None]
           /\ Reorder(t, Without(order, k))
           /\ Go(t, [th[t] EXCEPT !.dels = th[t].dels \ {k},
                     !.pc = IF th[t].dels = {k} THEN "got" ELSE "del"])
  BY Zenon DEF Delete
<1>3. CASE cache[k] = None /\ End(t) /\ UNCHANGED <<cache, order, stale>>
  BY <1>1, <1>3, EndKeeps
<1>4. CASE /\ cache[k] # None /\ cache' = [cache EXCEPT ![k] = None]
           /\ Reorder(t, Without(order, k))
           /\ Go(t, [th[t] EXCEPT !.dels = th[t].dels \ {k},
                     !.pc = IF th[t].dels = {k} THEN "got" ELSE "del"])
  <2> DEFINE pc == IF th[t].dels = {k} THEN "got" ELSE "del"
  <2>1. k \in Cold /\ k \in Key /\ k \in ToSet(order) /\ th[t].dels \in SUBSET Key
    <3>1. k \in Cold /\ th[t].dels \subseteq Cold
      BY <1>1 DEF Fine, Evicting
    <3> QED
      BY <1>1, <1>4, <3>1, ColdAssumption DEF Ordered
  <2>2. pc \in {"got", "del"} /\ (pc = "got" => th[t].dels = {k})
    OBVIOUS
  <2>3. Go(t, [th[t] EXCEPT !.dels = th[t].dels \ {k}, !.pc = pc])
    BY <1>4
  <2> HIDE DEF pc
  <2>4. Becomes(t, pc, th[t].obj, th[t].over, th[t].todo, th[t].dels \ {k})
    <3>1. pc \in Pcs /\ th[t].dels \ {k} \in SUBSET Key
      BY <2>1, <2>2 DEF Pcs
    <3> QED
      BY <1>1, <2>3, <3>1, Moves, Zenon
  <2>5. /\ cache' \in [Key -> Objs \cup {None}] /\ cache'[k] = None
        /\ \A j \in Key : j # k => cache'[j] = cache[j]
    BY <1>1, <1>4, <2>1 DEF Typed
  <2>6. /\ order' \in Seq(Key) /\ InOrder(order') /\ ToSet(order') = ToSet(order) \ {k}
        /\ stale' \subseteq Threads
    <3>1. order' = Without(order, k) /\ stale' \subseteq Threads
      BY <1>1, <1>4, ReorderType
    <3> QED
      BY <1>1, <2>1, <3>1, WithoutInOrder DEF Typed, Ordered
  <2>7. Cold \subseteq Key /\ Work[t] \subseteq Key /\ \A j \in Work[t] : j # k
    BY <2>1, ColdAssumption, WorkAssumption, ColdAway
  <2>8. th[t].key \in Work[t] /\ th[t].todo = {} /\ th[t].dels \subseteq Cold
    BY <1>1 DEF Fine, Holding, Evicting
  <2>9. Holding(t)'
    BY <1>1, <2>2, <2>4, <2>5, <2>7, <2>8 DEF Fine, Holding, Becomes, Inside
  <2>10. Evicting(t)' /\ Saving(t)'
    BY <2>2, <2>4, <2>8 DEF Evicting, Saving, Becomes
  <2>11. Flagged(t)'
    BY <1>1, <2>2, <2>4, <2>5, <2>7, <2>8 DEF Fine, Flagged, Becomes, Clear
  <2>12. Typed'
    BY <1>1, <1>4, <2>4, <2>5, <2>6 DEF Typed, Becomes
  <2>13. Ordered'
    BY <1>1, <2>1, <2>5, <2>6 DEF Ordered
  <2>14. Cached' /\ ColdClear'
    BY <1>1, <2>5, <2>7 DEF Cached, ColdClear, Clear
  <2>15. \A u \in Threads \ {t} : Spares(u)
    BY <1>1, <1>4, <2>1, <2>4, <2>5, OtherPages DEF Becomes
  <2> QED
    BY <2>9, <2>10, <2>11, <2>12, <2>13, <2>14, <2>15, OneThread DEF Fine
<1> QED
  BY <1>2, <1>3, <1>4

-----------------------------------------------------------------------------
(* The step that makes a page object *)

\* A page is read into an object that nobody refers to
LEMMA ReadKeeps ==
  ASSUME Apart, Whole, IInv, NEW t \in Threads, Read(t)
  PROVE  IInv'
<1> DEFINE o == CHOOSE o \in Garbage : \A p \in Garbage : o <= p
           k == th[t].key
<1>1. /\ Typed /\ Ordered /\ Cached /\ ColdClear /\ Fine(t) /\ th[t].pc = "read"
      /\ UNCHANGED <<disk, cache, order, stale>>
  BY DEF IInv, Read, At
<1>2. /\ page' = [page EXCEPT ![o] = [key |-> k, data |-> disk[k], dirty |-> FALSE]]
      /\ Go(t, [th[t] EXCEPT !.pc = "insert", !.obj = o])
  BY DEF Read
<1>3. o \in Garbage
  <2>1. Garbage # {} /\ Garbage \in SUBSET Nat
    BY SomeGarbage DEF Garbage, Objs
  <2>2. \E m \in Garbage : \A p \in Garbage : m <= p
    BY <2>1, LeastNatural
  <2> QED
    BY <2>2
<1> HIDE DEF o
<1>4. o \in Objs /\ o # None /\ (\A j \in Key : cache[j] # o) /\ \A u \in Threads : th[u].obj # o /\ o \notin th[u].todo
  BY <1>3, NoneAssumption DEF Garbage
<1>5. k \in Work[t] /\ k \in Key /\ cache[k] = None
  <2>1. k \in Work[t] /\ cache[k] = None
    BY <1>1 DEF Fine, Holding
  <2> QED
    BY <2>1, WorkAssumption
<1>6. Becomes(t, "insert", o, th[t].over, th[t].todo, th[t].dels)
  <2>1. "insert" \in Pcs
    BY DEF Pcs
  <2> QED
    BY <1>1, <1>2, <1>4, <2>1, Moves, Zenon
<1>7. /\ page' \in [Objs -> Pages] /\ \A p \in Objs : p # o => page'[p] = page[p]
      /\ page'[o] = [key |-> k, data |-> disk[k], dirty |-> FALSE]
  <2> DEFINE new == [key |-> k, data |-> disk[k], dirty |-> FALSE]
  <2>1. new \in Pages
    BY <1>1, <1>5 DEF Typed, Pages
  <2> HIDE DEF new
  <2>2. page' \in [Objs -> Pages] /\ (\A p \in Objs : p # o => page'[p] = page[p]) /\ page'[o] = new
    BY <1>1, <1>2, <1>4, <2>1 DEF Typed, new
  <2> QED
    BY <2>2 DEF new
<1>8. \A j \in Key : cache[j] # None => cache[j] \in Objs /\ page'[cache[j]] = page[cache[j]]
  BY <1>1, <1>4, <1>7 DEF Typed
<1>9. Cold \subseteq Key /\ Work[t] \subseteq Key
  BY ColdAssumption, WorkAssumption
<1>10. th[t].todo = {} /\ th[t].dels = {}
  BY <1>1 DEF Fine, Evicting
<1>11. Holding(t)'
  BY <1>1, <1>4, <1>5, <1>6, <1>7 DEF Holding, Becomes, Inside
<1>12. Evicting(t)' /\ Saving(t)'
  BY <1>6, <1>10 DEF Evicting, Saving, Becomes
<1>13. Flagged(t)'
  BY <1>1, <1>6, <1>8, <1>9, <1>10 DEF Fine, Flagged, Becomes, Clear
<1>14. Typed' /\ Ordered' /\ Cached'
  BY <1>1, <1>6, <1>7, <1>8 DEF Typed, Ordered, Cached, Becomes
<1>15. ColdClear'
  BY <1>1, <1>8, <1>9 DEF ColdClear, Clear
<1>16. ASSUME NEW u \in Threads \ {t} PROVE Spares(u)
  <2>1. \A p \in Objs \ Garbage : page'[p] = page[p]
    BY <1>3, <1>7
  <2>2. th[u].todo \subseteq Objs \ Garbage
    <3>1. th[u].todo \subseteq Objs
      BY <1>1, CallParts DEF Typed
    <3> QED
      BY <3>1, InUse
  <2>3. th'[u] = th[u]
    BY <1>6 DEF Becomes
  <2> QED
    BY <1>1, <2>1, <2>2, <2>3 DEF Spares, Clear
<1> QED
  BY <1>11, <1>12, <1>13, <1>14, <1>15, <1>16, OneThread DEF Fine

-----------------------------------------------------------------------------
(* The invariant *)

\* The pages that earlier requests left, in some order
LEMMA ColdOrder ==
  ASSUME NEW seq, seq = SetToSeq(Cold)
  PROVE  /\ seq \in Seq(Cold) /\ Len(seq) = Cardinality(Cold) /\ Cardinality(Cold) \in Nat
         /\ Cardinality(Cold) <= Cardinality(Key)
         /\ \A i, j \in 1 .. Len(seq) : seq[i] = seq[j] => i = j
         /\ ToSet(seq) = Cold
<1> DEFINE n == Cardinality(Cold)
<1>1. IsFiniteSet(Cold) /\ Cardinality(Cold) <= Cardinality(Key)
  BY ColdAssumption, KeyAssumption, FS_Subset
<1>2. n \in Nat /\ ExistsBijection(1 .. n, Cold)
  BY <1>1, FS_CardinalityType
<1>3. \E f \in [1 .. n -> Cold] : IsInjective(f)
  BY <1>2 DEF ExistsBijection, Bijection, Injection
<1>4. seq \in [1 .. n -> Cold] /\ IsInjective(seq)
  BY <1>3 DEF SetToSeq
<1>5. seq \in Injection(1 .. n, Cold)
  BY <1>4 DEF Injection
<1>6. Cardinality(1 .. n) = n
  BY <1>2, FS_Interval
<1>7. seq \in Surjection(1 .. n, Cold)
  BY <1>1, <1>5, <1>6, FS_Injection
<1> HIDE DEF n
<1>8. seq \in Seq(Cold) /\ Len(seq) = n /\ DOMAIN seq = 1 .. n
  BY <1>2, <1>4
<1>9. \A i, j \in 1 .. n : seq[i] = seq[j] => i = j
  BY <1>4, <1>8 DEF IsInjective
<1>10. ToSet(seq) = Cold
  BY <1>4, <1>7, <1>8 DEF ToSet, Surjection
<1> QED
  BY <1>1, <1>2, <1>8, <1>9, <1>10 DEF n

\* A server that starts, with what earlier requests left in the cache
LEMMA InitPages ==
  ASSUME Init
  PROVE  /\ Typed /\ order \in Seq(Cold) /\ ToSet(order) = Cold
         /\ \A i, j \in 1 .. Len(order) : order[i] = order[j] => i = j
         /\ \A k \in Key : k \in Cold <=> cache[k] # None
         /\ \A k \in Key : cache[k] # None =>
              cache[k] = First0(k) /\ page[cache[k]].key = k /\ page[cache[k]].dirty
         /\ \A t \in Threads : /\ th[t].pc = "idle" /\ th[t].obj = None
                               /\ th[t].todo = {} /\ th[t].dels = {}
<1>1. /\ disk = [k \in Key |-> Blank] /\ order = SetToSeq(Cold)
      /\ cache = [k \in Key |-> IF k \in Cold THEN Index(order, k) ELSE None]
      /\ th = [t \in Threads |-> Idle] /\ stale = {}
  BY DEF Init
<1>2. PICK c \in Contents :
        page = [o \in Objs |-> IF o <= Len(order)
                               THEN [key |-> order[o], data |-> c, dirty |-> TRUE] ELSE NoPage]
  BY DEF Init
<1> DEFINE n == Len(order)
<1>3. /\ order \in Seq(Cold) /\ n \in Nat /\ n <= Cardinality(Key)
      /\ \A i, j \in 1 .. n : order[i] = order[j] => i = j
      /\ ToSet(order) = Cold
  BY <1>1, ColdOrder
<1>4. DOMAIN order = 1 .. n /\ \A i \in 1 .. n : order[i] \in Cold
  BY <1>3
<1>5. 1 .. n \subseteq Objs
  <2> DEFINE b == Cardinality(Threads)
             m == Cardinality(Key)
  <2>1. m \in Nat /\ b \in Nat
    BY KeyAssumption, FS_CardinalityType
  <2> HIDE DEF b, m
  <2>2. b * (m + 1) \in Nat /\ (b + 1) * (m + 1) = b * (m + 1) + m + 1
    BY <2>1
  <2>3. n <= (b + 1) * (m + 1)
    BY <1>3, <2>1, <2>2 DEF m
  <2> QED
    BY <1>3, <2>1, <2>2, <2>3 DEF Objs, b, m
<1>6. ASSUME NEW k \in Cold
      PROVE  Index(order, k) \in 1 .. n /\ order[Index(order, k)] = k
  <2>1. \E i \in DOMAIN order : order[i] = k
    BY <1>3, <1>4 DEF ToSet
  <2> QED
    BY <1>4, <2>1 DEF Index
<1>7. \A k \in Cold : First0(k) = Index(order, k)
  BY <1>1 DEF First0
<1>8. Cold \subseteq Key /\ \A i \in Objs : i \in Nat
  BY ColdAssumption DEF Objs
<1> HIDE DEF n
<1>9. \A k \in Key : (k \in Cold => cache[k] = Index(order, k)) /\ (k \notin Cold => cache[k] = None)
  BY <1>1
<1>10. \A o \in 1 .. n : page[o].key = order[o] /\ page[o].dirty
  BY <1>2, <1>5 DEF n
<1>11. Typed
  <2>1. cache \in [Key -> Objs \cup {None}]
    BY <1>1, <1>5, <1>6
  <2>2. order \in Seq(Key)
    BY <1>3, <1>8
  <2>3. page \in [Objs -> Pages]
    <3>1. NoPage \in Pages
      BY DEF NoPage, Pages
    <3>2. \A o \in Objs : o <= n => [key |-> order[o], data |-> c, dirty |-> TRUE] \in Pages
      <4>1. \A o \in Objs : o <= n => o \in 1 .. n
        BY <1>3 DEF Objs
      <4> QED
        BY <1>4, <1>8, <4>1 DEF Pages
    <3> QED
      BY <1>2, <3>1, <3>2 DEF n
  <2>4. th \in [Threads -> Calls]
    <3>1. Idle \in Calls
      BY DEF Idle, Calls, Pcs
    <3> QED
      BY <1>1, <3>1
  <2> QED
    BY <1>1, <2>1, <2>2, <2>3, <2>4 DEF Typed
<1>12. ASSUME NEW k \in Key PROVE k \in Cold <=> cache[k] # None
  <2>1. k \in Cold => cache[k] \in Objs
    BY <1>5, <1>6, <1>9
  <2> QED
    BY <1>9, <2>1, NoneAssumption
<1>13. ASSUME NEW k \in Key, cache[k] # None
       PROVE  cache[k] = First0(k) /\ page[cache[k]].key = k /\ page[cache[k]].dirty
  BY <1>6, <1>7, <1>9, <1>10, <1>13
<1>14. \A t \in Threads : /\ th[t].pc = "idle" /\ th[t].obj = None
                          /\ th[t].todo = {} /\ th[t].dels = {}
  BY <1>1 DEF Idle
<1> QED
  BY <1>3, <1>11, <1>12, <1>13, <1>14 DEF n

\* A server starts with a cache that is whole
LEMMA InitWhole ==
  ASSUME Init
  PROVE  Whole
<1>1. Typed /\ Placed
  BY InitPages, ColdAssumption DEF Placed
<1>2. \A t \in Threads : Held(t)
  BY InitPages DEF Held, Inside
<1>3. excess \in BOOLEAN
  BY DEF Init
<1> QED
  BY <1>1, <1>2, <1>3 DEF Whole

\* It starts consistent
LEMMA InitIInv ==
  ASSUME Apart, Init
  PROVE  IInv
<1>1. Typed
  BY InitPages
<1>2. Ordered
  <2>1. DOMAIN order = 1 .. Len(order) /\ \A i \in 1 .. Len(order) : order[i] \in Cold
    BY InitPages
  <2>2. InOrder(order)
    BY <2>1, InitPages DEF InOrder
  <2> QED
    BY <2>2, InitPages, ColdAssumption DEF Ordered
<1>3. Cached /\ ColdClear
  BY InitPages, ColdAssumption DEF Cached, ColdClear, Clear
<1>4. ASSUME NEW t \in Threads PROVE Fine(t)
  <2>1. th[t].pc = "idle" /\ th[t].obj = None /\ th[t].todo = {} /\ th[t].dels = {}
    BY InitPages
  <2>2. \A k \in Work[t] : cache[k] = None
    <3>1. Work[t] \subseteq Key /\ \A k \in Work[t] : k \notin Cold
      BY WorkAssumption, ColdAway
    <3> QED
      BY <3>1, InitPages
  <2>3. Holding(t)
    BY <2>1 DEF Holding, Inside
  <2>4. Evicting(t) /\ Saving(t)
    BY <2>1 DEF Evicting, Saving
  <2>5. Flagged(t)
    BY <2>1, <2>2 DEF Flagged
  <2> QED
    BY <2>3, <2>4, <2>5 DEF Fine
<1> QED
  BY <1>1, <1>2, <1>3, <1>4 DEF IInv

\* Every step keeps the cache whole
LEMMA NextWhole ==
  ASSUME Whole, [Next]_vars
  PROVE  Whole'
<1>1. CASE UNCHANGED vars
  <2>1. UNCHANGED <<disk, cache, order, page, th, stale, excess>>
    BY <1>1 DEF vars
  <2> QED
    BY <2>1 DEF Whole, Typed, Placed, Held
<1>2. ASSUME NEW t \in Threads, Start(t) \/ Step(t) PROVE Whole'
  BY <1>2, CallWhole, ReorderWhole, PageWhole DEF Step
<1>3. Done => UNCHANGED vars
  BY DEF Done
<1> QED
  BY <1>1, <1>2, <1>3 DEF Next

\* Every step preserves the invariant, as long as what it takes out is over
LEMMA NextIInv ==
  ASSUME Apart, Whole, IInv, [Next]_vars, ~excess'
  PROVE  IInv'
<1>1. CASE UNCHANGED vars
  <2>1. UNCHANGED <<disk, cache, order, page, th, stale>>
    BY <1>1 DEF vars
  <2> QED
    BY <2>1 DEF IInv, Typed, Ordered, Cached, ColdClear, Clear, Fine, Holding, Evicting, Flagged,
                Saving, First
<1>2. ASSUME NEW t \in Threads, Start(t) PROVE IInv'
  BY <1>2, StartKeeps
<1>3. ASSUME NEW t \in Threads, Step(t) PROVE IInv'
  BY <1>3, LookUpKeeps, HitKeeps, ReadKeeps, InsertKeeps, RoomKeeps, OpenKeeps, ChooseKeeps,
     WriteKeeps, CleanKeeps, WriteEndKeeps, DeleteKeeps, UseKeeps, MarkKeeps, ListPagesKeeps DEF Step
<1>4. Done => UNCHANGED vars
  BY DEF Done
<1> QED
  BY <1>1, <1>2, <1>3, <1>4 DEF Next

\* A _make_room that took out too much is not forgotten
LEMMA ExcessStays ==
  ASSUME [Next]_vars, excess
  PROVE  excess'
<1>1. CASE UNCHANGED vars
  BY <1>1 DEF vars
<1>2. ASSUME NEW t \in Threads, Start(t) \/ Step(t) PROVE excess'
  BY <1>2, Zenon DEF Start, Step, LookUp, Hit, Read, Insert, Room, Open, Choose, Write, Clean,
                     WriteEnd, Delete, Use, Mark, ListPages
<1>3. Done => UNCHANGED vars
  BY DEF Done
<1> QED
  BY <1>1, <1>2, <1>3 DEF Next, vars

\* Whole holds in every state
LEMMA WholeInvariance == Spec => []Whole
<1>1. Init => Whole
  BY InitWhole
<1>2. Whole /\ [Next]_vars => Whole'
  BY NextWhole
<1> QED
  BY <1>1, <1>2, PTL DEF Spec

\* IInv holds in every state before a _make_room takes out too much
LEMMA Invariance ==
  ASSUME Apart
  PROVE  Spec => [](Whole /\ (~excess => IInv))
<1>1. Init => Whole /\ (~excess => IInv)
  BY InitIInv, InitWhole
<1>2. Whole /\ (~excess => IInv) /\ [Next]_vars => (Whole /\ (~excess => IInv))'
  BY NextIInv, NextWhole, ExcessStays
<1> QED
  BY <1>1, <1>2, PTL DEF Spec
-----------------------------------------------------------------------------
(* What the threads may rely on *)

\* The order of the OrderedDict holds the cached pages, each once, and each
\* object of the cache is the page it is under: however the threads are
\* interleaved, on whatever pages, and even after a _make_room that evicts a
\* page in use, get, _make_room and flush leave _cache whole
THEOREM TypeCorrect == Spec => []TypeOK
<1>1. Whole => TypeOK
  <2>1. SUFFICES ASSUME Whole PROVE TypeOK
    OBVIOUS
  <2>2. Typed /\ Placed
    BY <2>1 DEF Whole
  <2>3. IsInjective(order)
    BY <2>2 DEF Typed, Placed, IsInjective
  <2>4. \A k \in ToSet(order) : page[cache[k]].key = k
    BY <2>2 DEF Placed
  <2>5. \A t \in Threads :
          /\ th[t].todo \subseteq Objs /\ th[t].dels \subseteq Key
          /\ th[t].over >= 0 /\ th[t].obj \in Objs \cup {None}
    BY <2>2, CallParts DEF Typed
  <2>6. excess \in BOOLEAN
    BY <2>1 DEF Whole
  <2> QED
    BY <2>2, <2>3, <2>4, <2>5, <2>6 DEF TypeOK, Typed, Placed
<1> QED
  BY <1>1, WholeInvariance, PTL

\* A thread that is about to write to a page it got has the object of the
\* cache: no write is lost with an object that was evicted or replaced, when
\* threads work apart and until a _make_room goes by an overflow that has
\* become too large
THEOREM WritesAreNotLost ==
  ASSUME Apart
  PROVE  Spec => []WritesReachCache
<1>1. (~excess => IInv) => WritesReachCache
  BY DEF IInv, Fine, Holding, Inside, WritesReachCache
<1> QED
  BY <1>1, Invariance, PTL

\* A cached page whose flag is off equals the engine's copy, except while a
\* thread is between setting the bytes and the flag: under the same conditions
THEOREM TheFlagIsRight ==
  ASSUME Apart
  PROVE  Spec => []DirtyMarksDifference
<1>1. ASSUME IInv, NEW k \in ToSet(order), ~page[cache[k]].dirty,
             \A t \in Threads : ~(At(t, "mark") /\ th[t].obj = cache[k])
      PROVE  page[cache[k]].data = disk[k]
  <2>1. k \in Key /\ cache[k] # None
    BY <1>1 DEF IInv, Ordered
  <2>2. k \in Cold \/ k \in Works
    BY <1>1 DEF IInv, Ordered, InOrder, Typed, ToSet
  <2>3. CASE k \in Cold
    BY <1>1, <2>1, <2>3 DEF IInv, ColdClear, Clear
  <2>4. CASE k \in Works
    <3>1. PICK t \in Threads : k \in Work[t]
      BY <2>4 DEF Works
    <3> QED
      BY <1>1, <2>1, <3>1 DEF IInv, Fine, Flagged, Clear, At
  <2> QED
    BY <2>2, <2>3, <2>4
<1>2. (~excess => IInv) => DirtyMarksDifference
  BY <1>1 DEF DirtyMarksDifference, FlagsAreRight
<1> QED
  BY <1>2, Invariance, PTL

\* When the save of a page returns normally, the engine has what was saved:
\* under the same conditions
THEOREM SavesAreDurable ==
  ASSUME Apart
  PROVE  Spec => SaveReachesDisk
<1>1. ASSUME IInv, Next PROVE SaveReturnsDurable
  <2>1. SUFFICES ASSUME NEW t \in Threads, th[t].pc = "write", th[t].op = "save",
                        th[t].dels = {}, th'[t].pc = "idle"
                 PROVE  disk[th[t].key] = th[t].val
    BY DEF SaveReturnsDurable, At
  <2>2. Typed /\ Fine(t)
    BY <1>1 DEF IInv
  <2>3. CASE WriteEnd(t)
    BY <2>1, <2>2, <2>3 DEF WriteEnd, Fine, Saving
  <2>4. CASE Write(t)
    <3>1. PICK o \in th[t].todo :
            \/ Go(t, [th[t] EXCEPT !.pc = "clean"])
            \/ Go(t, [th[t] EXCEPT !.todo = th[t].todo \ {o}])
      BY <2>4 DEF Write
    <3>2. th[t].todo \ {o} \in SUBSET Objs /\ "clean" \in Pcs
      BY <2>2, CallParts DEF Typed, Pcs
    <3>3. th'[t].pc = "clean" \/ th'[t].pc = th[t].pc
      BY <2>2, <3>1, <3>2, Moves, ZenonT(30) DEF Becomes
    <3> QED
      BY <2>1, <3>3
  <2>5. ASSUME NEW u \in Threads, u # t, Start(u) \/ Step(u) PROVE FALSE
    <3>1. \E new : Go(u, new)
      BY <2>5, Zenon DEF Start, Step, LookUp, Hit, Read, Insert, Room, Open, Choose, Write, Clean,
                  WriteEnd, Delete, Use, Mark, ListPages, End
    <3>2. th'[t] = th[t]
      BY <2>2, <2>5, <3>1 DEF Go, Typed
    <3> QED
      BY <2>1, <3>2
  <2>6. CASE Done
    BY <2>1, <2>6 DEF Done, At
  <2>7. \A u \in Threads : Start(u) \/ Step(u) => u = t
    BY <2>5
  <2>8. ~Start(t) /\ (Step(t) => Write(t) \/ WriteEnd(t))
    BY <2>1 DEF Start, Step, LookUp, Hit, Read, Insert, Room, Open, Choose, Clean, Delete, Use, Mark,
                ListPages, At
  <2> QED
    BY <1>1, <2>3, <2>4, <2>6, <2>7, <2>8 DEF Next
<1>2. (~excess => IInv) /\ [Next]_vars => [~excess => SaveReturnsDurable]_vars
  BY <1>1
<1> QED
  BY <1>2, Invariance, PTL DEF Spec, SaveReachesDisk
=============================================================================
