------------------------- MODULE QueryEngineProofs -------------------------
(***************************************************************************)
(* What holds of QueryEngine for any tables, columns, values, types and    *)
(* bounds: the invariant IInv, its preservation, and the properties the    *)
(* run checks on a small instance.                                         *)
(***************************************************************************)
EXTENDS QueryEngine, DataLemmas, TLAPS

\* A column has one index at most
Unique(ixs) == \A i, j \in DOMAIN ixs : ixs[i].col = ixs[j].col => i = j

\* The registrations that no later one of their column follows
Lasts(ix) == { i \in DOMAIN ix : \A j \in i + 1 .. Len(ix) : ix[j].col # ix[i].col }

\* There is a live index of the column and the type that are registered
InUse(ixs, e) == \E x \in Range(ixs) : x.col = e.col /\ x.type = e.type

Pendings == {NoInsert} \cup [going : {TRUE}, at : Nat, size : Nat, overlap : 0 .. MaxOverlap]
Registry == [cols : SUBSET Cols, ix : Seq(Entry)]

\* TypeOK, with a catalog that lists no index of a column it does not know,
\* and a table the executor knows if the catalog does
Typed ==
    /\ tables \in [Tables -> SUBSET Cols]
    /\ indexes \in [Tables -> Seq(Live)]
    /\ \A t \in Tables : Unique(indexes[t])
    /\ catalog \in [Tables -> Registry] /\ saved \in [Tables -> Registry]
    /\ tableRows \in [Tables -> SUBSET Ids]
    /\ buffered \in [Files -> Snapshot] /\ disk \in [Files -> Snapshot]
    /\ unsaved \in SUBSET Files /\ failures \in 0 .. MaxFailures
    /\ inserted \in Seq([table : Tables, record : Records]) /\ Len(inserted) <= MaxRows
    /\ pending \in Pendings
    /\ pending # NoInsert => inserted # <<>>

\* A catalog lists no index of a column it does not know
Sane(c) == \A t \in Tables : \A i \in DOMAIN c[t].ix : c[t].ix[i].col \in c[t].cols

Known ==
    /\ \A t \in Tables : tables[t] = {} <=> catalog[t].cols = {}
    /\ Sane(catalog) /\ Sane(saved)

LastInUse == \A t \in Tables : \A i \in Lasts(catalog[t].ix) : InUse(indexes[t], catalog[t].ix[i])

\* Row n, which has been inserted into table t, has a value in the column
Holds(ins, n, t, col) == n \in DOMAIN ins /\ ins[n].table = t /\ col \in DOMAIN ins[n].record

\* An index whose file is its own, and was saved after the last save of it that
\* raised, is what a new process would load
Current ==
    /\ \A f \in Files \ unsaved : buffered[f] = disk[f]
    /\ \A t \in Tables : \A x \in Range(indexes[t]) :
         File(x.type, t, x.col) \notin unsaved /\ Alone(t, x.col) => Loaded(disk, t, x) = x

\* What a snapshot holds that an index may take for its own
Mine(s, t, col) == { x[2] : x \in { y \in s : y[1] = col \/ Alone(t, col) } }

\* The rows are of the table and the column of the index: said of the types that
\* label their snapshot, and of the others if the file is their own
Right(ins, type, t, col, rows) ==
    type \notin Unlabelled \/ Alone(t, col) => \A n \in rows : Holds(ins, n, t, col)

\* The snapshots outlive the indexes and the tables: what they hold must be
\* right for the next index that starts from them
Owned ==
    /\ \A t \in Tables : \A n \in tableRows[t] : n \in DOMAIN inserted /\ inserted[n].table = t
    /\ \A type \in Types, t \in Tables, col \in Cols : \A d \in {buffered, disk} :
         Right(inserted, type, t, col, Mine(d[File(type, t, col)], t, col))
    /\ \A t \in Tables : \A x \in Range(indexes[t]) : Right(inserted, x.type, t, x.col, x.rows)

\* The inductive invariant
IInv == Typed /\ Known /\ LastInUse /\ Current /\ Owned
-----------------------------------------------------------------------------
(* Names of files *)

\* Two names with the same words after them have the same words
LEMMA SameStart ==
  ASSUME NEW t \in Seq(Words), NEW u \in Seq(Words), NEW c \in Seq(Words), t \o c = u \o c
  PROVE  t = u
<1>1. Len(t \o c) = Len(t) + Len(c) /\ Len(u \o c) = Len(u) + Len(c)
  BY ConcatProperties
<1>2. Len(t) = Len(u) /\ Len(t) \in Nat
  BY <1>1
<1>3. ASSUME NEW i \in 1 .. Len(t) PROVE t[i] = u[i]
  <2>1. (t \o c)[i] = t[i] /\ (u \o c)[i] = u[i]
    BY <1>2, ConcatProperties
  <2> QED
    BY <2>1
<1> QED
  BY <1>2, <1>3

\* Indexes that share a file have the same type, and if they also have the same
\* column, or one is alone, the same table
LEMMA FileFacts ==
  ASSUME NEW type \in Types, NEW t \in Tables, NEW col \in Cols,
         NEW other \in Types, NEW u \in Tables, NEW c \in Cols
  PROVE  /\ File(type, t, col) \in Files
         /\ File(type, t, col) = File(other, u, c) =>
              /\ type = other
              /\ col = c => t = u
              /\ Alone(t, col) => t = u /\ col = c
<1>1. File(type, t, col) \in Files
  BY DEF Files
<1>2. ASSUME File(type, t, col) = File(other, u, c) PROVE type = other /\ u \o c = t \o col
  BY <1>2 DEF File
<1>3. t \in Seq(Words) /\ u \in Seq(Words) /\ col \in Seq(Words)
  BY NamesAssumption
<1> QED
  BY <1>1, <1>2, <1>3, SameStart DEF Alone
-----------------------------------------------------------------------------
(* Dictionaries of indexes *)

\* Put leaves one index of the new column, the new one, and every index of
\* another column; the first place stays with its column
LEMMA PutFacts ==
  ASSUME NEW ixs \in Seq(Live), Unique(ixs), NEW new \in Live
  PROVE  /\ Put(ixs, new) \in Seq(Live) /\ Unique(Put(ixs, new))
         /\ Range(Put(ixs, new)) = {new} \cup { x \in Range(ixs) : x.col # new.col }
         /\ Put(ixs, new) # <<>>
         /\ Put(ixs, new)[1].col = IF ixs = <<>> THEN new.col ELSE ixs[1].col
<1> DEFINE I == { k \in 1 .. Len(ixs) : ixs[k].col = new.col }
           p == Put(ixs, new)
<1>1. /\ Len(ixs) \in Nat /\ DOMAIN ixs = 1 .. Len(ixs)
      /\ \A k \in 1 .. Len(ixs) : ixs[k] \in Live
  OBVIOUS
<1>2. CASE I = {}
  <2>1. p = Append(ixs, new)
    BY <1>2 DEF Put, SelectInSeq
  <2> HIDE DEF p
  <2>2. /\ p \in Seq(Live) /\ Len(p) = Len(ixs) + 1
        /\ \A k \in 1 .. Len(ixs) : p[k] = ixs[k]
        /\ p[Len(ixs) + 1] = new
    BY <2>1, AppendProperties
  <2>3. \A k \in 1 .. Len(ixs) : ixs[k].col # new.col
    BY <1>2
  <2> HIDE DEF I
  <2>4. DOMAIN p = 1 .. Len(ixs) + 1
    BY <2>2
  <2>5. Unique(p)
    BY <1>1, <2>2, <2>3, <2>4 DEF Unique
  <2>6. Range(p) = {new} \cup { x \in Range(ixs) : x.col # new.col }
    <3>1. ASSUME NEW x \in Range(p)
          PROVE  x \in {new} \cup { y \in Range(ixs) : y.col # new.col }
      BY <1>1, <2>2, <2>3, <2>4, <3>1 DEF Range
    <3>2. new \in Range(p)
      BY <1>1, <2>2, <2>4 DEF Range
    <3>3. ASSUME NEW x \in Range(ixs) PROVE x \in Range(p)
      BY <1>1, <2>2, <2>4, <3>3 DEF Range
    <3> QED
      BY <3>1, <3>2, <3>3
  <2>7. p # <<>> /\ p[1].col = IF ixs = <<>> THEN new.col ELSE ixs[1].col
    <3>1. CASE ixs = <<>>
      <4>1. Len(ixs) = 0
        BY <3>1
      <4> QED
        BY <2>2, <3>1, <4>1
    <3>2. CASE ixs # <<>>
      <4>1. 1 \in 1 .. Len(ixs)
        BY <1>1, <3>2
      <4> QED
        BY <2>2, <3>2, <4>1
    <3> QED
      BY <3>1, <3>2
  <2> QED
    BY <2>2, <2>5, <2>6, <2>7 DEF p
<1>3. CASE I # {}
  <2> DEFINE m == Min(I)
  <2>1. m \in I /\ m \in 1 .. Len(ixs) /\ ixs[m].col = new.col
    <3>1. I \in SUBSET Nat
      BY <1>1
    <3>2. m \in I
      BY <1>3, <3>1, MinOfNaturals
    <3> QED
      BY <3>2
  <2>2. p = [ixs EXCEPT ![m] = new]
    <3>1. SelectInSeq(ixs, LAMBDA x : x.col = new.col) = m
      BY <1>3 DEF SelectInSeq
    <3>2. m # 0
      BY <2>1
    <3> HIDE DEF I, m
    <3> QED
      BY <3>1, <3>2 DEF Put
  <2> HIDE DEF m, p, I
  <2>3. /\ p \in Seq(Live) /\ Len(p) = Len(ixs) /\ DOMAIN p = DOMAIN ixs
        /\ \A k \in 1 .. Len(ixs) : p[k] = IF k = m THEN new ELSE ixs[k]
    BY <1>1, <2>1, <2>2, ExceptSeq
  <2>4. \A k \in 1 .. Len(ixs) : p[k].col = ixs[k].col
    BY <2>1, <2>3
  <2>5. Unique(p)
    BY <1>1, <2>3, <2>4 DEF Unique
  <2>6. Range(p) = {new} \cup { x \in Range(ixs) : x.col # new.col }
    <3>1. ASSUME NEW x \in Range(p)
          PROVE  x \in {new} \cup { y \in Range(ixs) : y.col # new.col }
      <4>1. PICK k \in 1 .. Len(ixs) : x = p[k]
        BY <1>1, <2>3, <3>1 DEF Range
      <4>2. CASE k = m
        BY <2>3, <4>1, <4>2
      <4>3. CASE k # m
        <5>1. x = ixs[k] /\ ixs[k].col # new.col
          BY <1>1, <2>1, <2>3, <4>1, <4>3 DEF Unique
        <5> QED
          BY <1>1, <5>1 DEF Range
      <4> QED
        BY <4>2, <4>3
    <3>2. new \in Range(p)
      BY <1>1, <2>1, <2>3 DEF Range
    <3>3. ASSUME NEW x \in Range(ixs), x.col # new.col PROVE x \in Range(p)
      BY <1>1, <2>1, <2>3, <3>3 DEF Range
    <3> QED
      BY <3>1, <3>2, <3>3
  <2>7. p # <<>> /\ p[1].col = IF ixs = <<>> THEN new.col ELSE ixs[1].col
    <3>1. 1 \in 1 .. Len(ixs) /\ ixs # <<>>
      BY <1>1, <2>1
    <3> QED
      BY <2>3, <2>4, <3>1
  <2> QED
    BY <2>3, <2>5, <2>6, <2>7 DEF p
<1> QED
  BY <1>2, <1>3

\* What an index is loaded as
LEMMA LoadedFacts ==
  ASSUME NEW d \in [Files -> Snapshot], NEW t \in Tables, NEW e, e.col \in Cols, e.type \in Types
  PROVE  /\ Loaded(d, t, e) \in Live
         /\ Loaded(d, t, e).col = e.col /\ Loaded(d, t, e).type = e.type
         /\ e.type \notin Unlabelled \/ Alone(t, e.col) =>
              Loaded(d, t, e).rows \subseteq Mine(d[File(e.type, t, e.col)], t, e.col)
<1> DEFINE s == d[File(e.type, t, e.col)]
           own == { x \in s : x[1] = e.col \/ e.type \in Unlabelled }
<1>1. s \in SUBSET (Cols \X Ids)
  BY FileFacts DEF Snapshot
<1>2. { x[2] : x \in own } \subseteq Ids
  BY <1>1
<1>3. Loaded(d, t, e) = [col |-> e.col, type |-> e.type, rows |-> { x[2] : x \in own }]
  BY DEF Loaded
<1>4. e.type \notin Unlabelled \/ Alone(t, e.col) => { x[2] : x \in own } \subseteq Mine(s, t, e.col)
  BY DEF Mine
<1> HIDE DEF own, s
<1> QED
  BY <1>2, <1>3, <1>4 DEF Live, s

\* After the first n registrations: the index of the last one of each column,
\* loaded from its snapshot, and that of the column registered first in front
Restored(d, t, ix, n, ixs) ==
    /\ ixs \in Seq(Live) /\ Unique(ixs)
    /\ Range(ixs) = { Loaded(d, t, ix[i]) :
                           i \in { j \in 1 .. n : \A k \in j + 1 .. n : ix[k].col # ix[j].col } }
    /\ n > 0 => ixs # <<>> /\ ixs[1].col = ix[1].col

\* One more registration
LEMMA RestoreOne ==
  ASSUME NEW d \in [Files -> Snapshot], NEW t \in Tables, NEW ix \in Seq(Entry),
         NEW n \in 1 .. Len(ix), NEW ixs, Restored(d, t, ix, n - 1, ixs)
  PROVE  Restored(d, t, ix, n, Put(ixs, Loaded(d, t, ix[n])))
<1> DEFINE new == Loaded(d, t, ix[n])
           p == Put(ixs, new)
           Old == { j \in 1 .. n - 1 : \A k \in j + 1 .. n - 1 : ix[k].col # ix[j].col }
           Now == { j \in 1 .. n : \A k \in j + 1 .. n : ix[k].col # ix[j].col }
<1>1. Len(ix) \in Nat /\ \A i \in 1 .. Len(ix) : ix[i] \in Entry
  OBVIOUS
<1>2. \A i \in 1 .. n : Loaded(d, t, ix[i]) \in Live /\ Loaded(d, t, ix[i]).col = ix[i].col
  BY <1>1, LoadedFacts DEF Entry
<1>3. ixs \in Seq(Live) /\ Unique(ixs) /\ Range(ixs) = { Loaded(d, t, ix[i]) : i \in Old }
      /\ (n - 1 > 0 => ixs # <<>> /\ ixs[1].col = ix[1].col)
  BY DEF Restored
<1>4. new \in Live /\ new.col = ix[n].col
  BY <1>2
<1>5. Now = {n} \cup { j \in Old : ix[j].col # ix[n].col }
  <2>1. ASSUME NEW j \in Now PROVE j \in {n} \cup { i \in Old : ix[i].col # ix[n].col }
    BY <2>1
  <2>2. n \in Now
    OBVIOUS
  <2>3. ASSUME NEW j \in Old, ix[j].col # ix[n].col PROVE j \in Now
    <3>1. \A k \in j + 1 .. n : k \in j + 1 .. n - 1 \/ k = n
      OBVIOUS
    <3> QED
      BY <2>3, <3>1
  <2> QED
    BY <2>1, <2>2, <2>3
<1> HIDE DEF new, p, Old, Now
<1>6. /\ p \in Seq(Live) /\ Unique(p)
      /\ Range(p) = {new} \cup { x \in Range(ixs) : x.col # new.col }
      /\ p # <<>> /\ p[1].col = IF ixs = <<>> THEN new.col ELSE ixs[1].col
  BY <1>3, <1>4, PutFacts DEF p
<1>7. Old \subseteq 1 .. n /\ Now \subseteq 1 .. n
  BY DEF Old, Now
<1>8. Range(p) = { Loaded(d, t, ix[i]) : i \in Now }
  <2>1. ASSUME NEW x \in Range(p) PROVE x \in { Loaded(d, t, ix[i]) : i \in Now }
    BY <1>2, <1>3, <1>4, <1>5, <1>6, <1>7, <2>1 DEF new
  <2>2. ASSUME NEW i \in Now PROVE Loaded(d, t, ix[i]) \in Range(p)
    <3>1. CASE i = n
      BY <1>6, <3>1 DEF new
    <3>2. CASE i # n
      <4>1. i \in Old /\ ix[i].col # ix[n].col
        BY <1>5, <2>2, <3>2
      <4> QED
        BY <1>2, <1>3, <1>4, <1>6, <1>7, <4>1
    <3> QED
      BY <3>1, <3>2
  <2> QED
    BY <2>1, <2>2
<1>9. p[1].col = ix[1].col
  <2>1. CASE n = 1
    <3>1. Old = {}
      BY <2>1 DEF Old
    <3>2. Range(ixs) = {}
      BY <1>3, <3>1
    <3>3. DOMAIN ixs = {}
      BY <3>2 DEF Range
    <3>4. DOMAIN ixs = 1 .. Len(ixs) /\ Len(ixs) \in Nat
      BY <1>3
    <3>5. Len(ixs) = 0
      BY <3>3, <3>4
    <3>6. ixs = <<>>
      BY <1>3, <3>5
    <3> QED
      BY <1>4, <1>6, <2>1, <3>6
  <2>2. CASE n # 1
    BY <1>3, <1>6, <2>2
  <2> QED
    BY <2>1, <2>2
<1> QED
  BY <1>6, <1>8, <1>9 DEF Restored, p, new, Now

\* What a new process starts with
LEMMA RehydratedFacts ==
  ASSUME NEW d \in [Files -> Snapshot], NEW c, NEW t \in Tables, c[t].ix \in Seq(Entry)
  PROVE  /\ Rehydrated(d, c, t) \in Seq(Live) /\ Unique(Rehydrated(d, c, t))
         /\ Range(Rehydrated(d, c, t)) = { Loaded(d, t, c[t].ix[i]) : i \in Lasts(c[t].ix) }
         /\ c[t].ix # <<>> => /\ Rehydrated(d, c, t) # <<>>
                              /\ Rehydrated(d, c, t)[1].col = c[t].ix[1].col
<1> DEFINE ix == c[t].ix
           m == Len(ix)
           Step(n, ixs) == Put(ixs, Loaded(d, t, ix[n]))
           Body(f) == [n \in 0 .. m |-> IF n = 0 THEN <<>> ELSE Step(n, f[n - 1])]
           S == { ixs \in Seq(Live) : Unique(ixs) }
           F == [n \in 1 .. m |-> [ixs \in S |-> Step(n, ixs)]]
<1>1. /\ ix \in Seq(Entry) /\ m \in Nat
      /\ \A i \in 1 .. m : ix[i] \in Entry
      /\ \A i \in 1 .. m : Loaded(d, t, ix[i]) \in Live
  <2>1. ix \in Seq(Entry) /\ m \in Nat /\ \A i \in 1 .. m : ix[i] \in Entry
    OBVIOUS
  <2>2. \A i \in 1 .. m : ix[i].col \in Cols /\ ix[i].type \in Types
    BY <2>1 DEF Entry
  <2> HIDE DEF ix, m
  <2> QED
    BY <2>1, <2>2, LoadedFacts
<1> HIDE DEF ix, m
<1>2. \A n \in 1 .. m, ixs \in S : Step(n, ixs) \in S
  BY <1>1, PutFacts
<1>3. F \in [1 .. m -> [S -> S]]
  <2> HIDE DEF S, Step
  <2> QED
    BY <1>2
<1>4. <<>> \in S
  BY DEF Unique
<1>5. \A n \in 1 .. m, ixs \in S : F[n][ixs] = Step(n, ixs)
  <2> HIDE DEF S, Step
  <2> QED
    OBVIOUS
<1> HIDE DEF F, S
<1>6. PICK g \in [0 .. m -> S] : Steps(g, <<>>, F, m)
  BY <1>1, <1>3, <1>4, RecursiveSequence
<1>7. \A i \in 1 .. m : g[i] = Step(i, g[i - 1])
  <2> HIDE DEF Step
  <2>1. \A i \in 1 .. m : i - 1 \in 0 .. m
    BY <1>1
  <2>2. \A i \in 1 .. m : g[i - 1] \in S
    BY <1>1, <2>1
  <2> QED
    BY <1>5, <1>6, <2>2 DEF Steps
<1>8. g = Body(g)
  <2> HIDE DEF Step
  <2>1. g[0] = <<>>
    BY <1>6 DEF Steps
  <2>2. ASSUME NEW n \in 0 .. m PROVE g[n] = IF n = 0 THEN <<>> ELSE Step(n, g[n - 1])
    <3>1. n = 0 \/ n \in 1 .. m
      BY <1>1
    <3> QED
      BY <1>7, <2>1, <3>1
  <2>3. g = [n \in 0 .. m |-> g[n]]
    BY <1>6
  <2> HIDE DEF m
  <2>4. [n \in 0 .. m |-> g[n]] = [n \in 0 .. m |-> IF n = 0 THEN <<>> ELSE Step(n, g[n - 1])]
    BY <2>2
  <2> QED
    BY <2>3, <2>4
<1> DEFINE after == CHOOSE f : f = Body(f)
<1>9. after = Body(after)
  <2> HIDE DEF Body
  <2> QED
    BY <1>8
<1>10. Rehydrated(d, c, t) = after[m]
  BY DEF Rehydrated, ix, m
<1> HIDE DEF after
<1>11. after[0] = <<>> /\ \A n \in 1 .. m : after[n] = Step(n, after[n - 1])
  <2> HIDE DEF Step
  <2>1. after = [n \in 0 .. m |-> IF n = 0 THEN <<>> ELSE Step(n, after[n - 1])]
    BY <1>9
  <2> HIDE DEF Body
  <2> QED
    BY <1>1, <2>1
<1> DEFINE T == { n \in Nat : n <= m => Restored(d, t, ix, n, after[n]) }
<1>12. 0 \in T
  <2>1. Restored(d, t, ix, 0, <<>>)
    BY DEF Restored, Unique, Range
  <2>2. Restored(d, t, ix, 0, after[0])
    BY <1>11, <2>1
  <2> QED
    BY <2>2
<1>13. ASSUME NEW n \in Nat, n \in T PROVE n + 1 \in T
  <2>1. SUFFICES ASSUME n + 1 <= m PROVE Restored(d, t, ix, n + 1, after[n + 1])
    OBVIOUS
  <2>2. n + 1 \in 1 .. m /\ (n + 1) - 1 = n
    BY <1>1, <2>1
  <2>3. Restored(d, t, ix, (n + 1) - 1, after[n])
    BY <1>1, <1>13, <2>1, <2>2
  <2>4. n + 1 \in 1 .. Len(ix)
    BY <2>2 DEF m
  <2>5. after[n + 1] = Put(after[n], Loaded(d, t, ix[n + 1]))
    BY <1>11, <2>2
  <2> HIDE DEF T
  <2> QED
    BY <1>1, <2>3, <2>4, <2>5, RestoreOne
<1> HIDE DEF T
<1>14. m \in T
  BY <1>1, <1>12, <1>13, InductionOnSets
<1>15. Restored(d, t, ix, m, Rehydrated(d, c, t))
  BY <1>1, <1>10, <1>14 DEF T
<1>16. Lasts(ix) = { j \in 1 .. m : \A k \in j + 1 .. m : ix[k].col # ix[j].col }
  BY <1>1 DEF Lasts, m
<1>17. ix # <<>> => m > 0
  BY <1>1 DEF m
<1> QED
  BY <1>15, <1>16, <1>17 DEF Restored, ix
-----------------------------------------------------------------------------
(* What a step does to one index, and to the INSERT *)

\* An index that changes its rows keeps its place, column and type
LEMMA ChangeFacts ==
  ASSUME Typed, NEW t \in Tables, NEW i \in DOMAIN indexes[t], NEW rows \in SUBSET Ids,
         Change(t, i, rows)
  PROVE  /\ indexes' \in [Tables -> Seq(Live)]
         /\ \A u \in Tables :
              /\ DOMAIN indexes'[u] = DOMAIN indexes[u]
              /\ \A k \in DOMAIN indexes[u] :
                   indexes'[u][k] = IF u = t /\ k = i
                                    THEN [col |-> indexes[t][i].col, type |-> indexes[t][i].type,
                                          rows |-> rows]
                                    ELSE indexes[u][k]
<1> DEFINE x == indexes[t][i]
           y == [col |-> x.col, type |-> x.type, rows |-> rows]
<1>1. /\ indexes \in [Tables -> Seq(Live)]
      /\ \A u \in Tables : indexes[u] \in Seq(Live)
      /\ \A u \in Tables : \A k \in DOMAIN indexes[u] : indexes[u][k] \in Live
  BY DEF Typed
<1>2. x \in Live
  BY <1>1
<1>3. [x EXCEPT !.rows = rows] = y /\ y \in Live
  BY <1>2 DEF Live
<1> HIDE DEF y
<1>4. indexes' = [indexes EXCEPT ![t] = [indexes[t] EXCEPT ![i] = y]]
  BY <1>1, <1>3 DEF Change
<1> HIDE DEF x
<1> DEFINE new == [indexes[t] EXCEPT ![i] = y]
<1>5. /\ new \in Seq(Live) /\ DOMAIN new = DOMAIN indexes[t]
      /\ \A k \in DOMAIN indexes[t] : new[k] = IF k = i THEN y ELSE indexes[t][k]
  <2>1. i \in 1 .. Len(indexes[t])
    BY <1>1
  <2>2. /\ new \in Seq(Live) /\ Len(new) = Len(indexes[t])
        /\ \A k \in 1 .. Len(indexes[t]) : new[k] = IF k = i THEN y ELSE indexes[t][k]
    BY <1>1, <1>3, <2>1, ExceptSeq
  <2> HIDE DEF new
  <2> QED
    BY <1>1, <2>2
<1>6. indexes'[t] = new /\ \A u \in Tables : u # t => indexes'[u] = indexes[u]
  <2> HIDE DEF new
  <2>1. indexes' = [indexes EXCEPT ![t] = new]
    BY <1>4 DEF new
  <2> QED
    BY <1>1, <2>1
<1> HIDE DEF new
<1>7. indexes' \in [Tables -> Seq(Live)]
  BY <1>1, <1>4, <1>5 DEF new
<1>8. ASSUME NEW u \in Tables
      PROVE  /\ DOMAIN indexes'[u] = DOMAIN indexes[u]
             /\ \A k \in DOMAIN indexes[u] :
                  indexes'[u][k] = IF u = t /\ k = i THEN y ELSE indexes[u][k]
  BY <1>5, <1>6
<1> QED
  BY <1>7, <1>8 DEF y, x

\* The file of an index
FileOf(t, x) == File(x.type, t, x.col)

\* What an index saves of the rows
Labelled(x, rows) == {x.col} \X rows

\* A save reaches the file of its index only; whether the page was not touched,
\* not written or saved, no other snapshot is read, and only in the last case is
\* it off the list
LEMMA SaveFacts ==
  ASSUME Typed, NEW t \in Tables, NEW i \in DOMAIN indexes[t], NEW rows \in SUBSET Ids,
         Saved(t, i, rows) \/ NotSaved(t, i, rows),
         NEW f, f = FileOf(t, indexes[t][i]), NEW s, s = Labelled(indexes[t][i], rows)
  PROVE  /\ buffered' \in [Files -> Snapshot] /\ disk' \in [Files -> Snapshot]
         /\ unsaved' \in SUBSET Files /\ failures' \in 0 .. MaxFailures
         /\ f \in Files /\ s \in Snapshot
         /\ \A g \in Files \ {f} : /\ buffered'[g] = buffered[g] /\ disk'[g] = disk[g]
                                   /\ g \in unsaved' <=> g \in unsaved
         /\ f \notin unsaved' => buffered'[f] = s /\ disk'[f] = s
         /\ buffered'[f] \in {buffered[f], s} /\ disk'[f] \in {disk[f], s}
<1>1. /\ buffered \in [Files -> Snapshot] /\ disk \in [Files -> Snapshot]
      /\ unsaved \in SUBSET Files /\ failures \in 0 .. MaxFailures
      /\ indexes[t][i] \in Live
  BY DEF Typed
<1>2. f \in Files
  BY <1>1, FileFacts DEF FileOf, Live
<1>3. s \in Snapshot
  BY <1>1 DEF Labelled, Snapshot, Live
<1>4. Save(f, s) \/ SaveRaises(f, s)
  BY DEF Saved, NotSaved, FileOf, Labelled
<1>5. CASE Save(f, s)
  BY <1>1, <1>2, <1>3, <1>5 DEF Save
<1>6. CASE SaveRaises(f, s)
  <2>1. failures' \in 0 .. MaxFailures
    BY <1>1, <1>6, TablesAssumption DEF SaveRaises, Fails
  <2>2. unsaved' = unsaved \cup {f} /\ disk' = disk
        /\ buffered' \in {buffered, [buffered EXCEPT ![f] = s]}
    BY <1>6 DEF SaveRaises
  <2> QED
    BY <1>1, <1>2, <1>3, <2>1, <2>2
<1> QED
  BY <1>2, <1>3, <1>4, <1>5, <1>6

\* A catalog that is saved, half saved or not saved
LEMMA SaveCatalogFacts ==
  ASSUME Typed, SaveCatalog, catalog' \in [Tables -> Registry]
  PROVE  /\ saved' \in [Tables -> Registry] /\ failures' \in 0 .. MaxFailures
         /\ Sane(saved) /\ Sane(catalog') => Sane(saved')
<1>1. NoTable \in Registry /\ NoTable.ix = <<>>
  BY DEF NoTable, Registry
<1>2. NoTables \in [Tables -> Registry] /\ Sane(NoTables)
  BY <1>1 DEF NoTables, Sane
<1>3. saved' \in {saved, catalog', NoTables} /\ failures' \in 0 .. MaxFailures
  BY TablesAssumption DEF SaveCatalog, Fails, Typed
<1> QED
  BY <1>2, <1>3 DEF Typed

\* A statement served between two indexes of an INSERT does not end it
LEMMA ServedFacts ==
  ASSUME Typed, Served
  PROVE  pending' \in Pendings /\ (pending' # NoInsert => pending # NoInsert)
<1>1. CASE pending = NoInsert /\ UNCHANGED pending
  BY <1>1 DEF Typed
<1>2. CASE pending # NoInsert /\ pending.overlap < MaxOverlap
           /\ pending' = [pending EXCEPT !.overlap = @ + 1]
  <2>1. pending \in [going : {TRUE}, at : Nat, size : Nat, overlap : 0 .. MaxOverlap]
    BY <1>2 DEF Typed, Pendings
  <2>2. pending.overlap + 1 \in 0 .. MaxOverlap
    BY <1>2, <2>1, OverlapAssumption
  <2> QED
    BY <1>2, <2>1, <2>2 DEF Pendings
<1> QED
  BY <1>1, <1>2 DEF Served

\* How many indexes there are is a number
LEMMA CountType ==
  ASSUME NEW ixs, \A t \in Tables : ixs[t] \in Seq(Live)
  PROVE  Count(ixs) \in Nat
<1> DEFINE Places == { {t} \X DOMAIN ixs[t] : t \in Tables }
<1>1. IsFiniteSet(Places)
  <2> DEFINE f == [t \in Tables |-> {t} \X DOMAIN ixs[t]]
  <2>1. f \in Surjection(Tables, Places)
    BY DEF Surjection
  <2> QED
    BY <2>1, TablesAssumption, FS_Surjection
<1>2. \A x \in Places : IsFiniteSet(x)
  <2>1. SUFFICES ASSUME NEW t \in Tables PROVE IsFiniteSet({t} \X DOMAIN ixs[t])
    OBVIOUS
  <2>2. DOMAIN ixs[t] = 1 .. Len(ixs[t]) /\ Len(ixs[t]) \in Nat
    OBVIOUS
  <2>3. IsFiniteSet({t}) /\ IsFiniteSet(DOMAIN ixs[t])
    <3>1. IsFiniteSet(1 .. Len(ixs[t]))
      BY <2>2, FS_Interval
    <3> QED
      BY <2>2, <3>1, FS_Singleton
  <2> QED
    BY <2>3, FS_Product
<1>3. IsFiniteSet(UNION Places)
  BY <1>1, <1>2, FS_UNION
<1> QED
  BY <1>3, FS_CardinalityType DEF Count

\* The row being inserted
LEMMA RowFacts ==
  ASSUME Typed, Going
  PROVE  /\ Row \in Ids /\ Row \in DOMAIN inserted
         /\ inserted[Row].table \in Tables
         /\ pending \in [going : {TRUE}, at : Nat, size : Nat, overlap : 0 .. MaxOverlap]
<1>1. inserted \in Seq([table : Tables, record : Records]) /\ inserted # <<>> /\ Len(inserted) <= MaxRows
  BY DEF Typed, Going
<1>2. Len(inserted) \in Nat /\ Len(inserted) # 0 /\ DOMAIN inserted = 1 .. Len(inserted)
  BY <1>1
<1>3. Row \in Ids /\ Row \in DOMAIN inserted
  BY <1>1, <1>2, TablesAssumption DEF Row, Ids
<1>4. inserted[Row] \in [table : Tables, record : Records]
  <2>1. Row \in 1 .. Len(inserted)
    BY <1>2, <1>3
  <2> QED
    BY <1>1, <2>1, ElementOfSeq
<1> QED
  BY <1>3, <1>4 DEF Typed, Going, Pendings

\* A registration that is added follows all of its column
LEMMA LastsAppend ==
  ASSUME NEW ix \in Seq(Entry), NEW e \in Entry
  PROVE  /\ Append(ix, e) \in Seq(Entry)
         /\ \A i \in Lasts(Append(ix, e)) :
              \/ Append(ix, e)[i] = e
              \/ i \in Lasts(ix) /\ Append(ix, e)[i] = ix[i] /\ ix[i].col # e.col
<1> DEFINE a == Append(ix, e)
           n == Len(ix)
<1>1. /\ a \in Seq(Entry) /\ Len(a) = n + 1 /\ n \in Nat
      /\ DOMAIN a = 1 .. n + 1 /\ DOMAIN ix = 1 .. n
      /\ \A i \in 1 .. n : a[i] = ix[i]
      /\ a[n + 1] = e
  BY AppendProperties
<1> HIDE DEF a, n
<1>2. ASSUME NEW i \in Lasts(a), i # n + 1
      PROVE  i \in Lasts(ix) /\ a[i] = ix[i] /\ ix[i].col # e.col
  <2>1. i \in 1 .. n /\ \A j \in i + 1 .. n + 1 : a[j].col # a[i].col
    BY <1>1, <1>2 DEF Lasts
  <2>2. a[i] = ix[i] /\ n + 1 \in i + 1 .. n + 1 /\ e.col # a[i].col
    BY <1>1, <2>1
  <2>3. ASSUME NEW j \in i + 1 .. n PROVE ix[j].col # ix[i].col
    <3>1. j \in 1 .. n /\ j \in i + 1 .. n + 1
      BY <1>1, <2>1
    <3> QED
      BY <1>1, <2>1, <2>2, <3>1
  <2>4. i \in Lasts(ix)
    BY <1>1, <2>1, <2>3 DEF Lasts, n
  <2> QED
    BY <2>2, <2>4
<1> QED
  BY <1>1, <1>2 DEF a

\* A new index in the dictionary, and its registration
LEMMA CreateIndexFacts ==
  ASSUME Typed, NEW t \in Tables, NEW e \in Entry, CreateIndex(t, e)
  PROVE  /\ indexes' \in [Tables -> Seq(Live)]
         /\ \A u \in Tables : Unique(indexes'[u])
         /\ \A u \in Tables : u # t => indexes'[u] = indexes[u]
         /\ Range(indexes'[t]) = {Loaded(buffered, t, e)} \cup { x \in Range(indexes[t]) : x.col # e.col }
         /\ catalog' \in [Tables -> Registry]
         /\ \A u \in Tables :
              /\ catalog'[u].cols = catalog[u].cols
              /\ ~(u = t /\ e.col \in catalog[t].cols) => catalog'[u].ix = catalog[u].ix
         /\ e.col \in catalog[t].cols => catalog'[t].ix = Append(catalog[t].ix, e)
         /\ Loaded(buffered, t, e) \in Live
<1>1. /\ indexes \in [Tables -> Seq(Live)] /\ \A u \in Tables : Unique(indexes[u])
      /\ catalog \in [Tables -> Registry] /\ buffered \in [Files -> Snapshot]
      /\ indexes[t] \in Seq(Live)
  BY DEF Typed
<1> DEFINE new == Loaded(buffered, t, e)
           p == Put(indexes[t], new)
<1>2. new \in Live /\ new.col = e.col
  BY <1>1, LoadedFacts DEF Entry
<1>3. indexes' = [indexes EXCEPT ![t] = p]
  BY DEF CreateIndex
<1> HIDE DEF new
<1>4. /\ p \in Seq(Live) /\ Unique(p)
      /\ Range(p) = {new} \cup { x \in Range(indexes[t]) : x.col # new.col }
  BY <1>1, <1>2, PutFacts
<1> HIDE DEF p
<1>5. /\ indexes' \in [Tables -> Seq(Live)] /\ indexes'[t] = p
      /\ \A u \in Tables : u # t => indexes'[u] = indexes[u]
  BY <1>1, <1>3, <1>4
<1>6. \A u \in Tables : Unique(indexes'[u])
  BY <1>1, <1>4, <1>5
<1> DEFINE ix == Append(catalog[t].ix, e)
<1>7. catalog[t] \in Registry /\ catalog[t].ix \in Seq(Entry)
  BY <1>1 DEF Registry
<1>8. ix \in Seq(Entry)
  BY <1>7, AppendProperties
<1>9. catalog' = IF e.col \in catalog[t].cols THEN [catalog EXCEPT ![t].ix = ix] ELSE catalog
  BY DEF CreateIndex, Registered
<1> HIDE DEF ix
<1>10. CASE e.col \in catalog[t].cols
  <2>1. [catalog[t] EXCEPT !.ix = ix] \in Registry
    BY <1>7, <1>8 DEF Registry
  <2>2. /\ [catalog[t] EXCEPT !.ix = ix].ix = ix
        /\ [catalog[t] EXCEPT !.ix = ix].cols = catalog[t].cols
    BY <1>7 DEF Registry
  <2>3. catalog' = [catalog EXCEPT ![t] = [catalog[t] EXCEPT !.ix = ix]]
    BY <1>9, <1>10
  <2>4. /\ catalog' \in [Tables -> Registry]
        /\ catalog'[t] = [catalog[t] EXCEPT !.ix = ix]
        /\ \A u \in Tables : u # t => catalog'[u] = catalog[u]
    BY <1>1, <2>1, <2>3
  <2> QED
    BY <1>2, <1>4, <1>5, <1>6, <1>10, <2>2, <2>4 DEF new, ix
<1>11. CASE e.col \notin catalog[t].cols
  BY <1>1, <1>2, <1>4, <1>5, <1>6, <1>9, <1>11 DEF new
<1> QED
  BY <1>10, <1>11

\* What a process starts with
LEMMA RestartFacts ==
  ASSUME Typed, Restart
  PROVE  /\ indexes' \in [Tables -> Seq(Live)]
         /\ \A t \in Tables :
              /\ Unique(indexes'[t])
              /\ Range(indexes'[t]) = { Loaded(disk, t, saved[t].ix[i]) : i \in Lasts(saved[t].ix) }
              /\ saved[t].ix # <<>> => indexes'[t] # <<>> /\ indexes'[t][1].col = saved[t].ix[1].col
<1>1. disk \in [Files -> Snapshot] /\ \A t \in Tables : saved[t].ix \in Seq(Entry)
  BY DEF Typed, Registry
<1>2. indexes' = [t \in Tables |-> Rehydrated(disk, saved, t)]
  BY DEF Restart
<1>3. \A t \in Tables :
        /\ Rehydrated(disk, saved, t) \in Seq(Live) /\ Unique(Rehydrated(disk, saved, t))
        /\ Range(Rehydrated(disk, saved, t)) = { Loaded(disk, t, saved[t].ix[i]) : i \in Lasts(saved[t].ix) }
        /\ saved[t].ix # <<>> => /\ Rehydrated(disk, saved, t) # <<>>
                                 /\ Rehydrated(disk, saved, t)[1].col = saved[t].ix[1].col
  BY <1>1, RehydratedFacts
<1> QED
  BY <1>2, <1>3
-----------------------------------------------------------------------------
(* The kinds of steps *)

\* One index changes its rows, losing some or taking the row being inserted, and
\* is saved or not
Changing ==
    \E t \in Tables : \E i \in DOMAIN indexes[t] : \E rows \in SUBSET Ids :
        /\ Change(t, i, rows)
        /\ Saved(t, i, rows) \/ NotSaved(t, i, rows)
        /\ \/ rows \subseteq indexes[t][i].rows
           \/ /\ Going /\ t = inserted[Row].table
              /\ indexes[t][i].col \in DOMAIN inserted[Row].record
              /\ rows = indexes[t][i].rows \cup {Row}
        /\ UNCHANGED <<tables, tableRows, catalog, saved, inserted>>

Still == UNCHANGED <<tables, indexes, tableRows, catalog, storage, inserted>>

\* Between two indexes of an INSERT: the next takes the row or is passed
LEMMA InsertNextFacts ==
  ASSUME Typed, InsertNext
  PROVE  /\ Changing \/ Still
         /\ pending' \in Pendings /\ inserted' = inserted /\ Going
<1> DEFINE t == inserted[Row].table
           i == pending.at + 1
           x == indexes[t][i]
<1>1. Going /\ i <= Len(indexes[t]) /\ UNCHANGED <<tables, tableRows, catalog, inserted>>
  BY DEF InsertNext
<1>2. Row \in Ids /\ t \in Tables
      /\ pending \in [going : {TRUE}, at : Nat, size : Nat, overlap : 0 .. MaxOverlap]
  BY <1>1, RowFacts
<1>3. indexes[t] \in Seq(Live)
  BY <1>2 DEF Typed
<1>4. i \in DOMAIN indexes[t] /\ i \in 1 .. Len(indexes[t])
  BY <1>1, <1>2, <1>3
<1>5. x \in Live /\ x.rows \in SUBSET Ids
  <2>1. x \in Live
    BY <1>3, <1>4, ElementOfSeq
  <2> QED
    BY <2>1 DEF Live
<1>6. pending' \in Pendings
  <2>1. CASE Advance
    <3>1. pending.at + 1 \in Nat
      BY <1>2
    <3>2. [pending EXCEPT !.at = @ + 1] \in [going : {TRUE}, at : Nat, size : Nat, overlap : 0 .. MaxOverlap]
      BY <1>2, <3>1
    <3> QED
      BY <2>1, <3>2 DEF Advance, Pendings
  <2>2. CASE Return
    BY <2>2 DEF Return, Pendings
  <2> QED
    BY <2>1, <2>2 DEF InsertNext
<1> DEFINE rows == x.rows \cup {Row}
<1>7. CASE /\ x.col \in DOMAIN inserted[Row].record /\ Change(t, i, rows)
           /\ Saved(t, i, rows) \/ NotSaved(t, i, rows)
  <2>1. rows \in SUBSET Ids
    BY <1>2, <1>5
  <2>2. saved' = saved
    BY DEF InsertNext
  <2> HIDE DEF t, i, rows
  <2>3. /\ Going /\ t = inserted[Row].table
        /\ indexes[t][i].col \in DOMAIN inserted[Row].record
        /\ rows = indexes[t][i].rows \cup {Row}
    BY <1>1, <1>7 DEF t, rows
  <2>4. Changing
    BY <1>1, <1>2, <1>4, <1>7, <2>1, <2>2, <2>3 DEF Changing
  <2> QED
    BY <1>1, <1>6, <2>4
<1>8. CASE UNCHANGED <<indexes, snapshots, failures>>
  <2>1. saved' = saved
    BY DEF InsertNext
  <2> QED
    BY <1>1, <1>6, <1>8, <2>1 DEF Still, storage
<1> QED
  BY <1>7, <1>8 DEF InsertNext

\* A DELETE takes rows out of one index
LEMMA DeleteFacts ==
  ASSUME Typed, NEW t \in Tables, NEW col \in Cols, NEW v \in Values, Delete(t, col, v)
  PROVE  Changing
<1>1. PICK i \in DOMAIN indexes[t] :
        LET rows == Without(indexes[t][i].rows, t, col, v) IN
        Change(t, i, rows) /\ (Saved(t, i, rows) \/ NotSaved(t, i, rows))
  BY DEF Delete
<1>2. indexes[t][i] \in Live
  BY DEF Typed
<1> DEFINE rows == Without(indexes[t][i].rows, t, col, v)
<1>3. rows \subseteq indexes[t][i].rows /\ rows \in SUBSET Ids
  BY <1>2 DEF Without, Live
<1> QED
  BY <1>1, <1>3 DEF Changing, Delete

\* All steps, by what they do to the indexes
LEMMA Kinds ==
  ASSUME Typed, [Next]_vars
  PROVE  \/ \E t \in Tables : \E cs \in (SUBSET Cols) \ {{}} : CreateTable(t, cs)
         \/ \E t \in Tables : DropTable(t)
         \/ \E t \in Tables : \E e \in Entry : CreateIndex(t, e)
         \/ \E t \in Tables : \E r \in Records : Insert(t, r)
         \/ Changing
         \/ Still
         \/ WriteBack
         \/ Restart
<1>1. CASE \E t \in Tables : \E col \in Cols, v \in Values : Delete(t, col, v)
  BY <1>1, DeleteFacts
<1>2. CASE InsertNext
  BY <1>2, InsertNextFacts
<1>3. CASE InsertReturns
  BY <1>3 DEF InsertReturns, Still
<1>4. CASE UNCHANGED vars
  BY <1>4 DEF vars, Still, storage
<1> QED
  BY <1>1, <1>2, <1>3, <1>4 DEF Next

-----------------------------------------------------------------------------
(* The steps preserve the invariant *)

\* The INSERT that goes on
LEMMA NextPending ==
  ASSUME Typed, [Next]_vars
  PROVE  pending' \in Pendings /\ (pending' # NoInsert => inserted' # <<>>)
<1>0. /\ pending \in Pendings /\ (pending # NoInsert => inserted # <<>>)
      /\ inserted \in Seq([table : Tables, record : Records])
      /\ \A t \in Tables : indexes[t] \in Seq(Live)
  BY DEF Typed
<1>1. CASE Served /\ inserted' = inserted
  BY <1>0, <1>1, ServedFacts
<1>2. CASE \E t \in Tables : \E r \in Records : Insert(t, r)
  <2>1. PICK t \in Tables, r \in Records : Insert(t, r)
    BY <1>2
  <2>2. pending' = [going |-> TRUE, at |-> 0, size |-> Count(indexes), overlap |-> 0]
        /\ inserted' = Append(inserted, [table |-> t, record |-> r])
    BY <2>1 DEF Insert
  <2>3. Count(indexes) \in Nat /\ 0 \in 0 .. MaxOverlap
    BY <1>0, CountType, OverlapAssumption
  <2>4. [table |-> t, record |-> r] \in [table : Tables, record : Records]
    OBVIOUS
  <2>5. Len(inserted') = Len(inserted) + 1 /\ inserted' \in Seq([table : Tables, record : Records])
    BY <1>0, <2>2, <2>4, AppendProperties
  <2>6. inserted' # <<>>
    BY <1>0, <2>5
  <2> QED
    BY <2>2, <2>3, <2>6 DEF Pendings
<1>3. CASE InsertNext
  BY <1>0, <1>3, InsertNextFacts DEF Going
<1>4. CASE pending' = NoInsert
  BY <1>4 DEF Pendings
<1>5. CASE UNCHANGED vars
  BY <1>0, <1>5 DEF vars
<1>6. (\E t \in Tables : \E cs \in (SUBSET Cols) \ {{}} : CreateTable(t, cs)) => Served /\ inserted' = inserted
  BY DEF CreateTable
<1>7. (\E t \in Tables : DropTable(t)) => Served /\ inserted' = inserted
  BY DEF DropTable
<1>8. (\E t \in Tables : \E e \in Entry : CreateIndex(t, e)) => Served /\ inserted' = inserted
  BY DEF CreateIndex
<1>9. (\E t \in Tables : \E col \in Cols, v \in Values : Delete(t, col, v)) => Served /\ inserted' = inserted
  BY DEF Delete
<1>10. InsertReturns \/ Restart => pending' = NoInsert
  BY DEF InsertReturns, Return, Restart
<1>11. WriteBack => UNCHANGED <<pending, inserted>>
  BY DEF WriteBack
<1> QED
  BY <1>0, <1>1, <1>2, <1>3, <1>4, <1>5, <1>6, <1>7, <1>8, <1>9, <1>10, <1>11 DEF Next

\* A table without columns has no registered index: it is no table
LEMMA NoTableFacts ==
  ASSUME Typed, Known, NEW t \in Tables
  PROVE  catalog[t] = NoTable <=> catalog[t].cols = {}
<1>1. catalog[t] \in Registry /\ catalog[t].ix \in Seq(Entry)
  BY DEF Typed, Registry
<1>2. ASSUME catalog[t].cols = {} PROVE catalog[t] = NoTable
  <2>1. DOMAIN catalog[t].ix = {}
    BY <1>2 DEF Known, Sane
  <2>2. catalog[t].ix = <<>>
    BY <1>1, <2>1
  <2> QED
    BY <1>1, <1>2, <2>2 DEF Registry, NoTable
<1> QED
  BY <1>2 DEF NoTable

\* The row that is inserted
LEMMA InsertFacts ==
  ASSUME Typed, NEW t \in Tables, NEW r \in Records, Insert(t, r)
  PROVE  /\ inserted' \in Seq([table : Tables, record : Records]) /\ Len(inserted') <= MaxRows
         /\ tableRows' \in [Tables -> SUBSET Ids]
         /\ DOMAIN inserted \subseteq DOMAIN inserted'
         /\ \A n \in DOMAIN inserted : inserted'[n] = inserted[n]
         /\ \A u \in Tables : \A n \in tableRows'[u] :
              n \in tableRows[u] \/ (u = t /\ n \in DOMAIN inserted' /\ inserted'[n].table = t)
<1> DEFINE row == [table |-> t, record |-> r]
           n == Len(inserted)
<1>1. /\ inserted \in Seq([table : Tables, record : Records]) /\ n \in Nat
      /\ row \in [table : Tables, record : Records] /\ row.table = t
      /\ tableRows \in [Tables -> SUBSET Ids]
  BY DEF Typed
<1>2. n < MaxRows /\ inserted' = Append(inserted, row)
      /\ tableRows' = [tableRows EXCEPT ![t] = @ \cup {n + 1}]
  BY DEF Insert, Remember
<1> HIDE DEF row
<1>3. /\ inserted' \in Seq([table : Tables, record : Records]) /\ Len(inserted') = n + 1
      /\ \A k \in 1 .. n : inserted'[k] = inserted[k]
      /\ inserted'[n + 1] = row
  BY <1>1, <1>2, AppendProperties
<1>4. DOMAIN inserted = 1 .. n /\ DOMAIN inserted' = 1 .. n + 1
  BY <1>1, <1>3
<1>5. n + 1 \in Ids
  BY <1>1, <1>2, TablesAssumption DEF Ids
<1>6. tableRows' \in [Tables -> SUBSET Ids]
  BY <1>1, <1>2, <1>5
<1>7. Len(inserted') <= MaxRows
  BY <1>1, <1>2, <1>3, TablesAssumption
<1>8. \A u \in Tables : \A k \in tableRows'[u] : k \in tableRows[u] \/ (u = t /\ k = n + 1)
  BY <1>1, <1>2
<1>9. n + 1 \in DOMAIN inserted' /\ \A k \in DOMAIN inserted : k \in DOMAIN inserted' /\ inserted'[k] = inserted[k]
  BY <1>1, <1>3, <1>4
<1> HIDE DEF n
<1> QED
  BY <1>1, <1>3, <1>6, <1>7, <1>8, <1>9

\* No statement leaves the types, however it is interleaved or fails.
LEMMA NextTyped ==
  ASSUME Typed, Known, [Next]_vars
  PROVE  Typed'
<1> DEFINE Data == /\ tables \in [Tables -> SUBSET Cols]
                   /\ indexes \in [Tables -> Seq(Live)]
                   /\ \A t \in Tables : Unique(indexes[t])
                   /\ catalog \in [Tables -> Registry] /\ saved \in [Tables -> Registry]
                   /\ tableRows \in [Tables -> SUBSET Ids]
                   /\ buffered \in [Files -> Snapshot] /\ disk \in [Files -> Snapshot]
                   /\ unsaved \in SUBSET Files /\ failures \in 0 .. MaxFailures
                   /\ inserted \in Seq([table : Tables, record : Records]) /\ Len(inserted) <= MaxRows
<1>0. Data
  BY DEF Typed
<1> SUFFICES Data'
  BY NextPending DEF Typed
<1>1. CASE \E t \in Tables : \E cs \in (SUBSET Cols) \ {{}} : CreateTable(t, cs)
  <2>1. PICK t \in Tables, cs \in (SUBSET Cols) \ {{}} : CreateTable(t, cs)
    BY <1>1
  <2>2. tables' \in [Tables -> SUBSET Cols] /\ UNCHANGED <<indexes, tableRows, snapshots, inserted>>
    BY <1>0, <2>1 DEF CreateTable
  <2>3. [cols |-> cs, ix |-> <<>>] \in Registry
    BY DEF Registry
  <2>4. catalog' \in [Tables -> Registry]
    BY <1>0, <2>1, <2>3 DEF CreateTable
  <2>5. saved' \in [Tables -> Registry] /\ failures' \in 0 .. MaxFailures
    BY <2>1, <2>4, SaveCatalogFacts DEF CreateTable
  <2> QED
    BY <1>0, <2>2, <2>4, <2>5 DEF snapshots
<1>2. CASE \E t \in Tables : DropTable(t)
  <2>1. PICK t \in Tables : DropTable(t)
    BY <1>2
  <2>2. /\ tables' \in [Tables -> SUBSET Cols] /\ tableRows' \in [Tables -> SUBSET Ids]
        /\ UNCHANGED <<snapshots, inserted>>
    BY <1>0, <2>1 DEF DropTable
  <2>3. NoTable \in Registry /\ <<>> \in Seq(Live) /\ Unique(<<>>)
    BY DEF NoTable, Registry, Unique
  <2>4. catalog' \in [Tables -> Registry] /\ indexes' \in [Tables -> Seq(Live)]
    BY <1>0, <2>1, <2>3 DEF DropTable
  <2>5. \A u \in Tables : Unique(indexes'[u])
    BY <1>0, <2>1, <2>3 DEF DropTable
  <2>6. saved' \in [Tables -> Registry] /\ failures' \in 0 .. MaxFailures
    BY <2>1, <2>4, SaveCatalogFacts DEF DropTable
  <2> QED
    BY <1>0, <2>2, <2>4, <2>5, <2>6 DEF snapshots
<1>3. CASE \E t \in Tables : \E e \in Entry : CreateIndex(t, e)
  <2>1. PICK t \in Tables, e \in Entry : CreateIndex(t, e)
    BY <1>3
  <2>2. UNCHANGED <<tables, tableRows, snapshots, inserted>>
    BY <2>1 DEF CreateIndex
  <2>3. catalog' \in [Tables -> Registry] /\ indexes' \in [Tables -> Seq(Live)]
        /\ \A u \in Tables : Unique(indexes'[u])
    BY <2>1, CreateIndexFacts
  <2>4. saved' \in [Tables -> Registry] /\ failures' \in 0 .. MaxFailures
    BY <2>1, <2>3, SaveCatalogFacts DEF CreateIndex
  <2> QED
    BY <1>0, <2>2, <2>3, <2>4 DEF snapshots
<1>4. CASE \E t \in Tables : \E r \in Records : Insert(t, r)
  <2>1. PICK t \in Tables, r \in Records : Insert(t, r)
    BY <1>4
  <2>2. UNCHANGED <<tables, indexes, catalog, storage>>
    BY <2>1 DEF Insert
  <2> QED
    BY <1>0, <2>1, <2>2, InsertFacts DEF storage, snapshots
<1>5. CASE Changing
  <2>1. PICK t \in Tables : \E i \in DOMAIN indexes[t] : \E rows \in SUBSET Ids :
          Change(t, i, rows) /\ (Saved(t, i, rows) \/ NotSaved(t, i, rows))
    BY <1>5 DEF Changing
  <2>2. PICK i \in DOMAIN indexes[t], rows \in SUBSET Ids :
          Change(t, i, rows) /\ (Saved(t, i, rows) \/ NotSaved(t, i, rows))
    BY <2>1
  <2>3. UNCHANGED <<tables, tableRows, catalog, saved, inserted>>
    BY <1>5 DEF Changing
  <2>4. /\ indexes' \in [Tables -> Seq(Live)]
        /\ \A u \in Tables : DOMAIN indexes'[u] = DOMAIN indexes[u]
        /\ \A u \in Tables : \A k \in DOMAIN indexes[u] : indexes'[u][k].col = indexes[u][k].col
    <3>1. /\ indexes' \in [Tables -> Seq(Live)]
          /\ \A u \in Tables :
               /\ DOMAIN indexes'[u] = DOMAIN indexes[u]
               /\ \A k \in DOMAIN indexes[u] :
                    indexes'[u][k] = IF u = t /\ k = i
                                     THEN [col |-> indexes[t][i].col, type |-> indexes[t][i].type,
                                           rows |-> rows]
                                     ELSE indexes[u][k]
      BY <2>2, ChangeFacts
    <3>2. ASSUME NEW u \in Tables, NEW k \in DOMAIN indexes[u]
          PROVE  indexes'[u][k].col = indexes[u][k].col
      <4>1. CASE u = t /\ k = i
        BY <3>1, <4>1
      <4>2. CASE ~(u = t /\ k = i)
        BY <3>1, <4>2
      <4> QED
        BY <4>1, <4>2
    <3> QED
      BY <3>1, <3>2
  <2>5. \A u \in Tables : Unique(indexes'[u])
    BY <1>0, <2>4 DEF Unique
  <2>6. /\ buffered' \in [Files -> Snapshot] /\ disk' \in [Files -> Snapshot]
        /\ unsaved' \in SUBSET Files /\ failures' \in 0 .. MaxFailures
    BY <2>2, SaveFacts
  <2> QED
    BY <1>0, <2>3, <2>4, <2>5, <2>6
<1>6. CASE Still
  BY <1>0, <1>6 DEF Still, storage, snapshots
<1>7. CASE WriteBack
  <2>1. NoTables \in [Tables -> Registry]
    BY DEF NoTables, NoTable, Registry
  <2>2. saved' \in [Tables -> Registry]
    BY <1>0, <1>7, <2>1 DEF WriteBack
  <2>3. disk' \in [Files -> Snapshot]
    BY <1>0, <1>7 DEF WriteBack
  <2>4. UNCHANGED <<tables, indexes, tableRows, catalog, buffered, unsaved, failures, inserted>>
    BY <1>7 DEF WriteBack
  <2> QED
    BY <1>0, <2>2, <2>3, <2>4
<1>8. CASE Restart
  <2>1. tables' \in [Tables -> SUBSET Cols] /\ tableRows' \in [Tables -> SUBSET Ids]
        /\ catalog' = saved /\ buffered' = disk /\ unsaved' = {} /\ failures' = 0
        /\ UNCHANGED <<saved, disk, inserted>>
    BY <1>0, <1>8 DEF Restart, Registry
  <2>2. indexes' \in [Tables -> Seq(Live)] /\ \A t \in Tables : Unique(indexes'[t])
    BY <1>8, RestartFacts
  <2> QED
    BY <1>0, <2>1, <2>2, TablesAssumption
<1> QED
  BY <1>1, <1>2, <1>3, <1>4, <1>5, <1>6, <1>7, <1>8, Kinds

\* The executor and the catalog go on knowing the same tables, and the catalog
\* registers no index of a column it does not know.
LEMMA NextKnown ==
  ASSUME Typed, Known, [Next]_vars
  PROVE  Known'
<1> DEFINE Same == \A t \in Tables : tables[t] = {} <=> catalog[t].cols = {}
<1> SUFFICES Same' /\ Sane(catalog') /\ Sane(saved')
  BY DEF Known, Sane
<1> USE DEF Known, Sane
<1>0. tables \in [Tables -> SUBSET Cols] /\ catalog \in [Tables -> Registry]
  BY DEF Typed
<1>1. CASE \E t \in Tables : \E cs \in (SUBSET Cols) \ {{}} : CreateTable(t, cs)
  <2>1. PICK t \in Tables, cs \in (SUBSET Cols) \ {{}} : CreateTable(t, cs)
    BY <1>1
  <2>2. tables' = [tables EXCEPT ![t] = cs] /\ cs # {}
    BY <2>1 DEF CreateTable
  <2>3. CASE catalog[t] = NoTable
    <3>1. catalog' = [catalog EXCEPT ![t] = [cols |-> cs, ix |-> <<>>]]
      BY <2>1, <2>3 DEF CreateTable
    <3>2. Same' /\ Sane(catalog')
      BY <1>0, <2>2, <3>1
    <3>3. catalog' \in [Tables -> Registry] /\ SaveCatalog
      BY <1>0, <2>1, <3>1 DEF Registry, CreateTable
    <3> QED
      BY <3>2, <3>3, SaveCatalogFacts
  <2>4. CASE catalog[t] # NoTable
    <3>1. catalog' = catalog /\ catalog[t].cols # {}
      BY <2>1, <2>4, NoTableFacts DEF CreateTable
    <3>2. saved' = saved
      BY <2>1, <3>1 DEF CreateTable, SaveCatalog
    <3> QED
      BY <1>0, <2>2, <3>1, <3>2
  <2> QED
    BY <2>3, <2>4
<1>2. CASE \E t \in Tables : DropTable(t)
  <2>1. PICK t \in Tables : DropTable(t)
    BY <1>2
  <2>2. tables' = [tables EXCEPT ![t] = {}] /\ catalog' = [catalog EXCEPT ![t] = NoTable]
    BY <2>1 DEF DropTable
  <2>3. NoTable.cols = {} /\ NoTable.ix = <<>>
    BY DEF NoTable
  <2>4. Same' /\ Sane(catalog')
    BY <1>0, <2>2, <2>3
  <2>5. catalog' \in [Tables -> Registry] /\ SaveCatalog
    BY <1>0, <2>1, <2>2 DEF NoTable, Registry, DropTable
  <2> QED
    BY <2>4, <2>5, SaveCatalogFacts
<1>3. CASE \E t \in Tables : \E e \in Entry : CreateIndex(t, e)
  <2>1. PICK t \in Tables, e \in Entry : CreateIndex(t, e)
    BY <1>3
  <2>2. tables' = tables
    BY <2>1 DEF CreateIndex
  <2>3. \A u \in Tables :
              /\ catalog'[u].cols = catalog[u].cols
              /\ ~(u = t /\ e.col \in catalog[t].cols) => catalog'[u].ix = catalog[u].ix
    BY <2>1, CreateIndexFacts
  <2>4. ASSUME e.col \in catalog[t].cols, NEW i \in DOMAIN catalog'[t].ix
        PROVE  catalog'[t].ix[i].col \in catalog[t].cols
    <3>1. catalog[t].ix \in Seq(Entry)
      BY <1>0 DEF Registry
    <3>2. catalog'[t].ix = Append(catalog[t].ix, e)
      BY <2>1, <2>4, CreateIndexFacts
    <3> DEFINE ix == catalog[t].ix
               a == catalog'[t].ix
    <3> HIDE DEF ix, a
    <3>3. a = Append(ix, e) /\ ix \in Seq(Entry) /\ i \in DOMAIN a
          /\ \A j \in DOMAIN ix : ix[j].col \in catalog[t].cols
      BY <2>4, <3>1, <3>2 DEF ix, a
    <3>4. a[i].col \in catalog[t].cols
      <4>1. /\ a \in Seq(Entry) /\ Len(a) = Len(ix) + 1 /\ a[Len(ix) + 1] = e
            /\ \A j \in 1 .. Len(ix) : a[j] = ix[j]
        BY <3>3, AppendProperties
      <4>2. i \in 1 .. Len(ix) + 1 /\ DOMAIN ix = 1 .. Len(ix) /\ Len(ix) \in Nat
        BY <3>3, <4>1
      <4>3. CASE i = Len(ix) + 1
        BY <2>4, <4>1, <4>3
      <4>4. CASE i # Len(ix) + 1
        BY <3>3, <4>1, <4>2, <4>4
      <4> QED
        BY <4>3, <4>4
    <3> QED
      BY <3>4 DEF a
  <2>5. Same' /\ Sane(catalog')
    BY <2>2, <2>3, <2>4
  <2>6. catalog' \in [Tables -> Registry] /\ SaveCatalog
    BY <2>1, CreateIndexFacts DEF CreateIndex
  <2> QED
    BY <2>5, <2>6, SaveCatalogFacts
<1>4. CASE (\E t \in Tables : \E r \in Records : Insert(t, r)) \/ Changing \/ Still
  <2>1. UNCHANGED <<tables, catalog, saved>>
    BY <1>4 DEF Insert, Changing, Still, storage
  <2> QED
    BY <2>1
<1>5. CASE WriteBack
  <2>1. Sane(NoTables)
    BY DEF NoTables, NoTable
  <2>2. UNCHANGED <<tables, catalog>> /\ saved' \in {saved, NoTables, catalog}
    BY <1>5 DEF WriteBack
  <2> QED
    BY <2>1, <2>2
<1>6. CASE Restart
  BY <1>6 DEF Restart
<1> QED
  BY <1>1, <1>2, <1>3, <1>4, <1>5, <1>6, Kinds

\* The last registration of a column stays that of the index in use.
LEMMA NextLastInUse ==
  ASSUME Typed, Known, LastInUse, [Next]_vars
  PROVE  LastInUse'
<1>0. catalog \in [Tables -> Registry] /\ indexes \in [Tables -> Seq(Live)]
      /\ \A t \in Tables : catalog[t].ix \in Seq(Entry)
  BY DEF Typed, Registry
<1>1. CASE \E t \in Tables : \E cs \in (SUBSET Cols) \ {{}} : CreateTable(t, cs)
  <2>1. PICK t \in Tables, cs \in (SUBSET Cols) \ {{}} : CreateTable(t, cs)
    BY <1>1
  <2>2. indexes' = indexes /\ \A u \in Tables : catalog'[u].ix = catalog[u].ix \/ catalog'[u].ix = <<>>
    BY <1>0, <2>1 DEF CreateTable
  <2>3. Lasts(<<>>) = {}
    BY DEF Lasts
  <2> QED
    BY <2>2, <2>3 DEF LastInUse
<1>2. CASE \E t \in Tables : DropTable(t)
  <2>1. PICK t \in Tables : DropTable(t)
    BY <1>2
  <2>2. \A u \in Tables : catalog'[u].ix = <<>> \/ (catalog'[u].ix = catalog[u].ix /\ indexes'[u] = indexes[u])
    BY <1>0, <2>1 DEF DropTable, NoTable
  <2>3. Lasts(<<>>) = {}
    BY DEF Lasts
  <2> QED
    BY <2>2, <2>3 DEF LastInUse
<1>3. CASE \E t \in Tables : \E e \in Entry : CreateIndex(t, e)
  <2>1. PICK t \in Tables, e \in Entry : CreateIndex(t, e)
    BY <1>3
  <2>2. /\ \A u \in Tables : u # t => indexes'[u] = indexes[u] /\ catalog'[u].ix = catalog[u].ix
        /\ Range(indexes'[t]) = {Loaded(buffered, t, e)} \cup { x \in Range(indexes[t]) : x.col # e.col }
        /\ e.col \notin catalog[t].cols => catalog'[t].ix = catalog[t].ix
        /\ e.col \in catalog[t].cols => catalog'[t].ix = Append(catalog[t].ix, e)
    BY <2>1, CreateIndexFacts
  <2>3. InUse(indexes'[t], e)
    <3>1. e.col \in Cols /\ e.type \in Types /\ buffered \in [Files -> Snapshot]
      BY DEF Typed, Entry
    <3>2. Loaded(buffered, t, e).col = e.col /\ Loaded(buffered, t, e).type = e.type
      BY <3>1, LoadedFacts
    <3> QED
      BY <2>2, <3>2 DEF InUse
  <2>4. ASSUME NEW i \in Lasts(catalog[t].ix), catalog[t].ix[i].col # e.col
        PROVE  InUse(indexes'[t], catalog[t].ix[i])
    BY <2>2, <2>4 DEF InUse, LastInUse
  <2>5. ASSUME NEW i \in Lasts(catalog'[t].ix) PROVE InUse(indexes'[t], catalog'[t].ix[i])
    <3>1. CASE e.col \in catalog[t].cols
      <4>1. \/ catalog'[t].ix[i] = e
            \/ /\ i \in Lasts(catalog[t].ix) /\ catalog'[t].ix[i] = catalog[t].ix[i]
               /\ catalog[t].ix[i].col # e.col
        <5> DEFINE ix == catalog[t].ix
                   now == catalog'[t].ix
        <5>1. ix \in Seq(Entry) /\ now = Append(ix, e) /\ i \in Lasts(now)
          BY <1>0, <2>2, <2>5, <3>1
        <5> HIDE DEF ix, now
        <5>2. \/ now[i] = e
              \/ i \in Lasts(ix) /\ now[i] = ix[i] /\ ix[i].col # e.col
          <6>1. \A j \in Lasts(Append(ix, e)) :
                  \/ Append(ix, e)[j] = e
                  \/ j \in Lasts(ix) /\ Append(ix, e)[j] = ix[j] /\ ix[j].col # e.col
            BY <5>1, LastsAppend
          <6> QED
            BY <5>1, <6>1
        <5> QED
          BY <5>2 DEF ix, now
      <4> QED
        BY <2>3, <2>4, <4>1
    <3>2. CASE e.col \notin catalog[t].cols
      <4>1. catalog'[t].ix = catalog[t].ix /\ i \in Lasts(catalog[t].ix) /\ i \in DOMAIN catalog[t].ix
        BY <2>2, <2>5, <3>2 DEF Lasts
      <4>2. catalog[t].ix[i].col # e.col
        BY <3>2, <4>1 DEF Known, Sane
      <4> QED
        BY <2>4, <4>1, <4>2
    <3> QED
      BY <3>1, <3>2
  <2> QED
    BY <2>2, <2>5 DEF LastInUse
<1>4. CASE Changing
  <2>1. PICK t \in Tables : \E i \in DOMAIN indexes[t] : \E rows \in SUBSET Ids : Change(t, i, rows)
    BY <1>4 DEF Changing
  <2>2. PICK i \in DOMAIN indexes[t], rows \in SUBSET Ids : Change(t, i, rows)
    BY <2>1
  <2>3. catalog' = catalog
    BY <1>4 DEF Changing
  <2>4. \A u \in Tables :
          /\ DOMAIN indexes'[u] = DOMAIN indexes[u]
          /\ \A k \in DOMAIN indexes[u] :
               indexes'[u][k].col = indexes[u][k].col /\ indexes'[u][k].type = indexes[u][k].type
    <3>1. \A u \in Tables :
            /\ DOMAIN indexes'[u] = DOMAIN indexes[u]
            /\ \A k \in DOMAIN indexes[u] :
                 indexes'[u][k] = IF u = t /\ k = i
                                  THEN [col |-> indexes[t][i].col, type |-> indexes[t][i].type,
                                        rows |-> rows]
                                  ELSE indexes[u][k]
      BY <2>2, ChangeFacts
    <3> QED
      BY <3>1
  <2>5. ASSUME NEW u \in Tables, NEW e, InUse(indexes[u], e) PROVE InUse(indexes'[u], e)
    BY <2>4, <2>5 DEF InUse, Range
  <2> QED
    BY <2>3, <2>5 DEF LastInUse
<1>5. CASE (\E t \in Tables : \E r \in Records : Insert(t, r)) \/ Still \/ WriteBack
  <2>1. UNCHANGED <<indexes, catalog>>
    BY <1>5 DEF Insert, Still, WriteBack
  <2> QED
    BY <2>1 DEF LastInUse
<1>6. CASE Restart
  <2>1. catalog' = saved
    BY <1>6 DEF Restart
  <2>2. \A t \in Tables :
          Range(indexes'[t]) = { Loaded(disk, t, saved[t].ix[i]) : i \in Lasts(saved[t].ix) }
    BY <1>6, RestartFacts
  <2>3. ASSUME NEW t \in Tables, NEW i \in Lasts(saved[t].ix) PROVE InUse(indexes'[t], saved[t].ix[i])
    <3>1. saved[t].ix \in Seq(Entry) /\ i \in DOMAIN saved[t].ix
      BY DEF Registry, Lasts, Typed
    <3>2. saved[t].ix[i] \in Entry
      BY <3>1
    <3>3. Loaded(disk, t, saved[t].ix[i]) \in Range(indexes'[t])
      BY <2>2
    <3>4. saved[t].ix[i].col \in Cols /\ saved[t].ix[i].type \in Types /\ disk \in [Files -> Snapshot]
      BY <3>2 DEF Typed, Entry
    <3>5. /\ Loaded(disk, t, saved[t].ix[i]).col = saved[t].ix[i].col
          /\ Loaded(disk, t, saved[t].ix[i]).type = saved[t].ix[i].type
      BY <3>4, LoadedFacts
    <3> QED
      BY <3>3, <3>5 DEF InUse
  <2> QED
    BY <2>1, <2>3 DEF LastInUse
<1> QED
  BY <1>1, <1>2, <1>3, <1>4, <1>5, <1>6, Kinds

\* An index is loaded as what is saved of it
LEMMA LoadedSaved ==
  ASSUME NEW d, NEW t \in Tables, NEW x \in Live, d[FileOf(t, x)] = Labelled(x, x.rows)
  PROVE  Loaded(d, t, x) = x
<1> DEFINE own == { y \in {x.col} \X x.rows : y[1] = x.col \/ x.type \in Unlabelled }
<1>1. { y[2] : y \in own } = x.rows
  <2>1. \A n \in x.rows : <<x.col, n>> \in own
    OBVIOUS
  <2>2. \A y \in own : y[2] \in x.rows
    OBVIOUS
  <2> HIDE DEF own
  <2>3. \A n \in x.rows : \E y \in own : n = y[2]
    BY <2>1
  <2> QED
    BY <2>2, <2>3
<1>2. Loaded(d, t, x) = [col |-> x.col, type |-> x.type, rows |-> { y[2] : y \in own }]
  BY DEF Loaded, FileOf, Labelled
<1> HIDE DEF own
<1> QED
  BY <1>1, <1>2 DEF Live

\* A save reaches no other index whose file is its own: an index stays what a new
\* process would load until a save of it raises
LEMMA NextCurrent ==
  ASSUME Typed, Current, [Next]_vars
  PROVE  Current'
<1> DEFINE Clean(b, d, un) == \A f \in Files \ un : b[f] = d[f]
           Saves(ixs, d, un) ==
             \A t \in Tables : \A x \in Range(ixs[t]) :
               FileOf(t, x) \notin un /\ Alone(t, x.col) => Loaded(d, t, x) = x
<1>0. Clean(buffered, disk, unsaved) /\ Saves(indexes, disk, unsaved)
  BY DEF Current, FileOf
<1> SUFFICES Clean(buffered', disk', unsaved') /\ Saves(indexes', disk', unsaved')
  BY DEF Current, FileOf, Alone
<1>a. /\ buffered \in [Files -> Snapshot] /\ disk \in [Files -> Snapshot]
      /\ \A t \in Tables : \A k \in DOMAIN indexes[t] : indexes[t][k] \in Live
      /\ \A t \in Tables : \A x \in Range(indexes[t]) : x \in Live /\ FileOf(t, x) \in Files
      /\ \A t \in Tables : Unique(indexes[t])
  <2>1. \A t \in Tables : \A k \in DOMAIN indexes[t] : indexes[t][k] \in Live
    BY DEF Typed
  <2>2. ASSUME NEW t \in Tables, NEW x \in Range(indexes[t]) PROVE x \in Live /\ FileOf(t, x) \in Files
    <3>1. x \in Live
      BY <2>1 DEF Range
    <3> QED
      BY <3>1, FileFacts DEF Live, FileOf
  <2> QED
    BY <2>1, <2>2 DEF Typed
\* what is loaded is loaded again alike
<1>b. ASSUME NEW d, NEW t, NEW e PROVE Loaded(d, t, Loaded(d, t, e)) = Loaded(d, t, e)
  BY DEF Loaded
<1>c. ASSUME NEW d, NEW c, NEW t, NEW x, d[FileOf(t, x)] = c[FileOf(t, x)]
      PROVE  Loaded(d, t, x) = Loaded(c, t, x)
  BY <1>c DEF Loaded, FileOf
<1>1. CASE \E t \in Tables : DropTable(t)
  <2>1. PICK t \in Tables : DropTable(t)
    BY <1>1
  <2>2. UNCHANGED snapshots /\ \A u \in Tables : indexes'[u] = <<>> \/ indexes'[u] = indexes[u]
    BY <2>1 DEF DropTable, Typed
  <2>3. Range(<<>>) = {}
    BY DEF Range
  <2> QED
    BY <1>0, <2>2, <2>3 DEF snapshots
<1>2. CASE \E t \in Tables : \E e \in Entry : CreateIndex(t, e)
  <2>1. PICK t \in Tables, e \in Entry : CreateIndex(t, e)
    BY <1>2
  <2> DEFINE new == Loaded(buffered, t, e)
  <2>2. /\ \A u \in Tables : u # t => indexes'[u] = indexes[u]
        /\ Range(indexes'[t]) = {new} \cup { x \in Range(indexes[t]) : x.col # e.col }
    BY <2>1, CreateIndexFacts
  <2>3. UNCHANGED snapshots
    BY <2>1 DEF CreateIndex
  <2>4. ASSUME FileOf(t, new) \notin unsaved PROVE Loaded(disk, t, new) = new
    <3>1. FileOf(t, new) \in Files
      BY <1>a, FileFacts, LoadedFacts DEF Entry, FileOf
    <3>2. disk[FileOf(t, new)] = buffered[FileOf(t, new)]
      BY <1>0, <2>4, <3>1
    <3>3. Loaded(disk, t, new) = Loaded(buffered, t, new)
      BY <1>c, <3>2
    <3> QED
      BY <1>b, <3>3
  <2> HIDE DEF new
  <2> QED
    BY <1>0, <2>2, <2>3, <2>4 DEF snapshots
<1>3. CASE Changing
  <2>1. PICK t \in Tables : \E i \in DOMAIN indexes[t] : \E rows \in SUBSET Ids :
          Change(t, i, rows) /\ (Saved(t, i, rows) \/ NotSaved(t, i, rows))
    BY <1>3 DEF Changing
  <2>2. PICK i \in DOMAIN indexes[t], rows \in SUBSET Ids :
          Change(t, i, rows) /\ (Saved(t, i, rows) \/ NotSaved(t, i, rows))
    BY <2>1
  <2> DEFINE x == indexes[t][i]
             f == FileOf(t, x)
             s == Labelled(x, rows)
             y == [col |-> x.col, type |-> x.type, rows |-> rows]
  <2>3. \A u \in Tables :
          /\ DOMAIN indexes'[u] = DOMAIN indexes[u]
          /\ \A k \in DOMAIN indexes[u] : indexes'[u][k] = IF u = t /\ k = i THEN y ELSE indexes[u][k]
    BY <2>2, ChangeFacts
  <2>4. /\ \A g \in Files \ {f} : /\ buffered'[g] = buffered[g] /\ disk'[g] = disk[g]
                                  /\ g \in unsaved' <=> g \in unsaved
        /\ f \notin unsaved' => buffered'[f] = s /\ disk'[f] = s
    BY <2>2, SaveFacts
  <2>5. x \in Live
    BY <1>a
  <2>6. y \in Live /\ y.col = x.col /\ y.type = x.type /\ FileOf(t, y) = f /\ Labelled(y, y.rows) = s
    BY <2>5 DEF Live, FileOf, Labelled
  <2> HIDE DEF x, f, s, y
  <2>7. Clean(buffered', disk', unsaved')
    BY <1>0, <2>4
  <2>8. ASSUME NEW u \in Tables, NEW k \in DOMAIN indexes[u],
               FileOf(u, indexes'[u][k]) \notin unsaved', Alone(u, indexes'[u][k].col)
        PROVE  Loaded(disk', u, indexes'[u][k]) = indexes'[u][k]
    <3>1. CASE u = t /\ k = i
      BY <2>3, <2>4, <2>6, <2>8, <3>1, LoadedSaved
    <3>2. CASE ~(u = t /\ k = i)
      <4> DEFINE z == indexes[u][k]
      <4>1. indexes'[u][k] = z /\ z \in Live /\ z \in Range(indexes[u]) /\ FileOf(u, z) \in Files
        BY <1>a, <2>3, <3>2 DEF Range
      <4>2. FileOf(u, z) # f
        <5>1. SUFFICES ASSUME FileOf(u, z) = f PROVE FALSE
          OBVIOUS
        <5>2. u = t /\ z.col = x.col
          BY <2>5, <2>8, <4>1, <5>1, FileFacts DEF f, FileOf, Live
        <5> QED
          BY <1>a, <3>2, <5>2 DEF Unique, x
      <4>3. disk'[FileOf(u, z)] = disk[FileOf(u, z)] /\ FileOf(u, z) \notin unsaved
        BY <2>4, <2>8, <4>1, <4>2
      <4>4. Loaded(disk, u, z) = z
        BY <1>0, <2>8, <4>1, <4>3
      <4> HIDE DEF z
      <4> QED
        BY <1>c, <4>1, <4>3, <4>4
    <3> QED
      BY <3>1, <3>2
  <2> QED
    BY <2>3, <2>7, <2>8 DEF Range
<1>4. CASE \/ \E t \in Tables : \E cs \in (SUBSET Cols) \ {{}} : CreateTable(t, cs)
           \/ \E t \in Tables : \E r \in Records : Insert(t, r)
           \/ Still
  <2>1. UNCHANGED <<indexes, snapshots>>
    BY <1>4 DEF CreateTable, Insert, Still, storage
  <2> QED
    BY <1>0, <2>1 DEF snapshots
<1>5. CASE WriteBack
  <2>1. UNCHANGED <<indexes, buffered, unsaved>>
    BY <1>5 DEF WriteBack
  <2>2. \A g \in Files \ unsaved : disk'[g] = disk[g]
    BY <1>a, <1>5 DEF WriteBack
  <2>3. ASSUME NEW t \in Tables, NEW x \in Range(indexes[t]), FileOf(t, x) \notin unsaved, Alone(t, x.col)
        PROVE  Loaded(disk', t, x) = x
    BY <1>0, <1>a, <1>c, <2>2, <2>3
  <2> QED
    BY <1>0, <2>1, <2>2, <2>3
<1>6. CASE Restart
  <2>1. buffered' = disk /\ disk' = disk
    BY <1>6 DEF Restart
  <2>2. \A t \in Tables :
          Range(indexes'[t]) = { Loaded(disk, t, saved[t].ix[i]) : i \in Lasts(saved[t].ix) }
    BY <1>6, RestartFacts
  <2> QED
    BY <1>b, <2>1, <2>2
<1> QED
  BY <1>1, <1>2, <1>3, <1>4, <1>5, <1>6, Kinds

\* No statement puts a row in an index or a snapshot of another table.
LEMMA NextOwned ==
  ASSUME Typed, Owned, [Next]_vars
  PROVE  Owned'
<1>0. /\ tableRows \in [Tables -> SUBSET Ids]
      /\ buffered \in [Files -> Snapshot] /\ disk \in [Files -> Snapshot]
      /\ \A t \in Tables : \A k \in DOMAIN indexes[t] : indexes[t][k] \in Live
  BY DEF Typed
\* what is true of a row stays true
<1>1. /\ DOMAIN inserted \subseteq DOMAIN inserted'
      /\ \A n \in DOMAIN inserted : inserted'[n] = inserted[n]
      /\ \A t \in Tables : \A n \in tableRows'[t] :
           n \in tableRows[t] \/ (n \in DOMAIN inserted' /\ inserted'[n].table = t)
  <2>1. CASE \E t \in Tables : \E r \in Records : Insert(t, r)
    <3>1. PICK t \in Tables, r \in Records : Insert(t, r)
      BY <2>1
    <3> QED
      BY <3>1, InsertFacts
  <2>2. CASE \E t \in Tables : DropTable(t)
    BY <1>0, <2>2 DEF DropTable
  <2>3. CASE Restart
    <3>1. inserted' = inserted /\ \A t \in Tables : tableRows'[t] = {}
      BY <2>3 DEF Restart
    <3> QED
      BY <3>1
  <2>4. CASE \/ \E t \in Tables : \E cs \in (SUBSET Cols) \ {{}} : CreateTable(t, cs)
             \/ \E t \in Tables : \E e \in Entry : CreateIndex(t, e)
             \/ Changing
             \/ Still
             \/ WriteBack
    <3>1. UNCHANGED <<tableRows, inserted>>
      BY <2>4 DEF CreateTable, CreateIndex, Changing, Still, WriteBack
    <3> QED
      BY <3>1
  <2> QED
    BY <2>1, <2>2, <2>3, <2>4, Kinds
<1>2. ASSUME NEW t \in Tables, NEW n \in tableRows'[t] PROVE n \in DOMAIN inserted' /\ inserted'[n].table = t
  BY <1>1, <1>2 DEF Owned
<1>3. ASSUME NEW type, NEW t, NEW col, NEW rows, Right(inserted, type, t, col, rows)
      PROVE  Right(inserted', type, t, col, rows)
  BY <1>1, <1>3 DEF Right, Holds
<1> DEFINE Kept(d) == \A type \in Types, t \in Tables, col \in Cols :
                        Right(inserted', type, t, col, Mine(d[File(type, t, col)], t, col))
           Own(ixs) == \A t \in Tables : \A x \in Range(ixs[t]) :
                         Right(inserted', x.type, t, x.col, x.rows)
<1>4. Kept(buffered) /\ Kept(disk) /\ Own(indexes)
  BY <1>3 DEF Owned
<1>5. SUFFICES Kept(buffered') /\ Kept(disk') /\ Own(indexes')
  <2>1. ASSUME Kept(buffered'), Kept(disk'), Own(indexes') PROVE Owned'
    <3>1. \A d \in {buffered', disk'} : Kept(d)
      BY <2>1
    <3>2. \A t \in Tables : \A n \in tableRows'[t] : n \in DOMAIN inserted' /\ inserted'[n].table = t
      BY <1>2
    <3> QED
      BY <2>1, <3>1, <3>2 DEF Owned
  <2> QED
    BY <2>1
\* what is loaded is right if the snapshot is
<1>6. ASSUME NEW d \in [Files -> Snapshot], Kept(d), NEW t \in Tables, NEW e \in Entry
      PROVE  LET x == Loaded(d, t, e) IN Right(inserted', x.type, t, x.col, x.rows)
  <2>1. e.col \in Cols /\ e.type \in Types
    BY DEF Entry
  <2> DEFINE x == Loaded(d, t, e)
             m == Mine(d[File(e.type, t, e.col)], t, e.col)
  <2>2. x.col = e.col /\ x.type = e.type
        /\ (e.type \notin Unlabelled \/ Alone(t, e.col) => x.rows \subseteq m)
    BY <2>1, LoadedFacts
  <2>3. Right(inserted', e.type, t, e.col, m)
    BY <1>6, <2>1
  <2> HIDE DEF x, m
  <2>4. Right(inserted', x.type, t, x.col, x.rows)
    BY <2>2, <2>3 DEF Right
  <2> QED
    BY <2>4 DEF x
<1>7. CASE \E t \in Tables : DropTable(t)
  <2>1. PICK t \in Tables : DropTable(t)
    BY <1>7
  <2>2. UNCHANGED snapshots /\ \A u \in Tables : indexes'[u] = <<>> \/ indexes'[u] = indexes[u]
    BY <2>1 DEF DropTable, Typed
  <2>3. Range(<<>>) = {}
    BY DEF Range
  <2> HIDE DEF Kept
  <2> QED
    BY <1>4, <2>2, <2>3 DEF snapshots
<1>8. CASE \E t \in Tables : \E e \in Entry : CreateIndex(t, e)
  <2>1. PICK t \in Tables, e \in Entry : CreateIndex(t, e)
    BY <1>8
  <2> DEFINE new == Loaded(buffered, t, e)
  <2>2. /\ \A u \in Tables : u # t => indexes'[u] = indexes[u]
        /\ Range(indexes'[t]) = {new} \cup { x \in Range(indexes[t]) : x.col # e.col }
    BY <2>1, CreateIndexFacts
  <2>3. UNCHANGED snapshots
    BY <2>1 DEF CreateIndex
  <2>4. Right(inserted', new.type, t, new.col, new.rows)
    <3> HIDE DEF Kept
    <3> QED
      BY <1>0, <1>4, <1>6
  <2> HIDE DEF new, Kept
  <2> QED
    BY <1>4, <2>2, <2>3, <2>4 DEF snapshots
<1>9. CASE Changing
  <2>1. PICK t \in Tables : \E i \in DOMAIN indexes[t] : \E rows \in SUBSET Ids :
          /\ Change(t, i, rows)
          /\ Saved(t, i, rows) \/ NotSaved(t, i, rows)
          /\ \/ rows \subseteq indexes[t][i].rows
             \/ /\ Going /\ t = inserted[Row].table
                /\ indexes[t][i].col \in DOMAIN inserted[Row].record
                /\ rows = indexes[t][i].rows \cup {Row}
    BY <1>9 DEF Changing
  <2>2. PICK i \in DOMAIN indexes[t], rows \in SUBSET Ids :
          /\ Change(t, i, rows)
          /\ Saved(t, i, rows) \/ NotSaved(t, i, rows)
          /\ \/ rows \subseteq indexes[t][i].rows
             \/ /\ Going /\ t = inserted[Row].table
                /\ indexes[t][i].col \in DOMAIN inserted[Row].record
                /\ rows = indexes[t][i].rows \cup {Row}
    BY <2>1
  <2> DEFINE x == indexes[t][i]
             f == FileOf(t, x)
             s == Labelled(x, rows)
             y == [col |-> x.col, type |-> x.type, rows |-> rows]
  <2>3. \A u \in Tables :
          /\ DOMAIN indexes'[u] = DOMAIN indexes[u]
          /\ \A k \in DOMAIN indexes[u] : indexes'[u][k] = IF u = t /\ k = i THEN y ELSE indexes[u][k]
    BY <2>2, ChangeFacts
  <2>4. /\ \A g \in Files \ {f} : buffered'[g] = buffered[g] /\ disk'[g] = disk[g]
        /\ buffered'[f] \in {buffered[f], s} /\ disk'[f] \in {disk[f], s}
    BY <2>2, SaveFacts
  <2>5. x \in Live /\ x.type \in Types /\ x.col \in Cols
    BY <1>0 DEF Live
  \* the rows it has now are right: those it had, and the row being inserted
  <2>6. Right(inserted', x.type, t, x.col, rows)
    <3>1. Right(inserted', x.type, t, x.col, x.rows)
      BY <1>4 DEF Range
    <3>2. CASE rows \subseteq x.rows
      BY <3>1, <3>2 DEF Right
    <3>3. CASE /\ Going /\ t = inserted[Row].table /\ x.col \in DOMAIN inserted[Row].record
               /\ rows = x.rows \cup {Row}
      <4>1. Row \in DOMAIN inserted
        BY <3>3, RowFacts
      <4>2. Holds(inserted', Row, t, x.col)
        BY <1>1, <3>3, <4>1 DEF Holds
      <4> QED
        BY <3>1, <3>3, <4>2 DEF Right
    <3> QED
      BY <2>2, <3>2, <3>3
  <2> HIDE DEF x, s
  <2>7. ASSUME NEW type \in Types, NEW u \in Tables, NEW col \in Cols, File(type, u, col) = f
        PROVE  Right(inserted', type, u, col, Mine(s, u, col))
    <3>1. x.type = type /\ (x.col = col => t = u) /\ (Alone(u, col) => t = u /\ x.col = col)
      BY <2>5, <2>7, FileFacts DEF FileOf
    <3>2. \A n \in Mine(s, u, col) : n \in rows /\ t = u /\ x.col = col
      BY <3>1 DEF Mine, s, Labelled
    <3> QED
      BY <2>6, <3>1, <3>2 DEF Right
  <2> HIDE DEF f, y
  <2>8. ASSUME NEW d, NEW new, Kept(d), \A g \in Files \ {f} : new[g] = d[g], new[f] \in {d[f], s}
        PROVE  Kept(new)
    <3>1. SUFFICES ASSUME NEW type \in Types, NEW u \in Tables, NEW col \in Cols
                   PROVE  Right(inserted', type, u, col, Mine(new[File(type, u, col)], u, col))
      OBVIOUS
    <3>2. File(type, u, col) \in Files
      BY FileFacts
    <3>3. CASE new[File(type, u, col)] = d[File(type, u, col)]
      BY <2>8, <3>3
    <3>4. CASE new[File(type, u, col)] # d[File(type, u, col)]
      <4>1. File(type, u, col) = f /\ new[f] = s
        BY <2>8, <3>2, <3>4
      <4> QED
        BY <2>7, <4>1
    <3> QED
      BY <3>3, <3>4
  <2>9. Kept(buffered') /\ Kept(disk')
    <3> HIDE DEF Kept
    <3> QED
      BY <1>4, <2>4, <2>8
  <2>10. Own(indexes')
    <3>1. SUFFICES ASSUME NEW u \in Tables, NEW k \in DOMAIN indexes[u]
                   PROVE  LET z == indexes'[u][k] IN Right(inserted', z.type, u, z.col, z.rows)
      BY <2>3 DEF Range
    <3>2. CASE u = t /\ k = i
      BY <2>3, <2>6, <3>2 DEF y
    <3>3. CASE ~(u = t /\ k = i)
      BY <1>4, <2>3, <3>3 DEF Range
    <3> QED
      BY <3>2, <3>3
  <2> HIDE DEF Kept, Own
  <2> QED
    BY <2>9, <2>10
<1>10. CASE \/ \E t \in Tables : \E cs \in (SUBSET Cols) \ {{}} : CreateTable(t, cs)
            \/ \E t \in Tables : \E r \in Records : Insert(t, r)
            \/ Still
  <2>1. UNCHANGED <<indexes, snapshots>>
    BY <1>10 DEF CreateTable, Insert, Still, storage
  <2> HIDE DEF Kept
  <2> QED
    BY <1>4, <2>1 DEF snapshots
<1>11. CASE WriteBack
  <2>1. UNCHANGED <<indexes, buffered>>
    BY <1>11 DEF WriteBack
  <2>2. ASSUME NEW g \in Files PROVE disk'[g] \in {disk[g], buffered[g]}
    BY <1>0, <1>11 DEF WriteBack
  <2>3. Kept(disk')
    <3>1. SUFFICES ASSUME NEW type \in Types, NEW t \in Tables, NEW col \in Cols
                   PROVE  Right(inserted', type, t, col, Mine(disk'[File(type, t, col)], t, col))
      OBVIOUS
    <3>2. File(type, t, col) \in Files
      BY FileFacts
    <3> QED
      BY <1>4, <2>2, <3>2
  <2> HIDE DEF Kept
  <2> QED
    BY <1>4, <2>1, <2>3
<1>12. CASE Restart
  <2>1. buffered' = disk /\ disk' = disk
    BY <1>12 DEF Restart
  <2>2. \A t \in Tables :
          Range(indexes'[t]) = { Loaded(disk, t, saved[t].ix[i]) : i \in Lasts(saved[t].ix) }
    BY <1>12, RestartFacts
  <2>3. \A t \in Tables : \A i \in Lasts(saved[t].ix) : saved[t].ix[i] \in Entry
    BY DEF Typed, Registry, Lasts
  <2> HIDE DEF Kept
  <2>4. ASSUME NEW t \in Tables, NEW x \in Range(indexes'[t])
        PROVE  Right(inserted', x.type, t, x.col, x.rows)
    <3>1. PICK i \in Lasts(saved[t].ix) : x = Loaded(disk, t, saved[t].ix[i])
      BY <2>2
    <3> QED
      BY <1>0, <1>4, <1>6, <2>3, <3>1
  <2> QED
    BY <1>4, <2>1, <2>4
<1> QED
  BY <1>7, <1>8, <1>9, <1>10, <1>11, <1>12, Kinds

\* The engine starts with no table, no index and an empty catalog.
LEMMA InitIInv == Init => IInv
<1> SUFFICES ASSUME Init PROVE IInv
  OBVIOUS
<1>1. /\ tables = [t \in Tables |-> {}] /\ indexes = [t \in Tables |-> <<>>]
      /\ tableRows = [t \in Tables |-> {}] /\ catalog = NoTables /\ saved = NoTables
      /\ buffered = [f \in Files |-> {}] /\ disk = [f \in Files |-> {}]
      /\ unsaved = {} /\ failures = 0 /\ inserted = <<>> /\ pending = NoInsert
  BY DEF Init
<1>2. NoTable \in Registry /\ NoTable.cols = {} /\ NoTable.ix = <<>>
  BY DEF NoTable, Registry
<1>3. Unique(<<>>) /\ Lasts(<<>>) = {} /\ DOMAIN <<>> = {} /\ Len(<<>>) = 0 /\ Range(<<>>) = {}
  BY DEF Unique, Lasts, Range
<1>4. /\ NoTables \in [Tables -> Registry] /\ {} \in Snapshot
      /\ \A t \in Tables : NoTables[t] = NoTable
  BY <1>2 DEF NoTables, Snapshot
<1>5. Typed
  BY <1>1, <1>3, <1>4, TablesAssumption DEF Typed, Pendings
<1>6. Known /\ LastInUse
  BY <1>1, <1>2, <1>3, <1>4 DEF Known, Sane, LastInUse
<1>7. Current
  BY <1>1, <1>3 DEF Current
<1>8. Owned
  <2>1. \A type \in Types, t \in Tables, col \in Cols : \A d \in {buffered, disk} :
          Mine(d[File(type, t, col)], t, col) = {}
    BY <1>1, FileFacts DEF Mine
  <2> QED
    BY <1>1, <1>3, <2>1 DEF Owned, Right
<1> QED
  BY <1>5, <1>6, <1>7, <1>8 DEF IInv

\* Hence the invariant holds in every reachable state
LEMMA Invariant == Spec => []IInv
<1>1. IInv /\ [Next]_vars => IInv'
  BY NextTyped, NextKnown, NextLastInUse, NextCurrent, NextOwned DEF IInv
<1> QED
  BY InitIInv, <1>1, PTL DEF Spec

-----------------------------------------------------------------------------
(* What follows *)

\* The types of the variables, and one index of a column at most, whatever
\* statements overtake an INSERT
THEOREM TypeCorrect == Spec => []TypeOK
<1>1. IInv => TypeOK
  BY DEF IInv, Typed, TypeOK, Unique, Registry, Pendings
<1> QED
  BY Invariant, <1>1, PTL

\* RowsInOwnTable, of indexes that start from what the file of their name
\* holds: dropping and creating tables, columns and types again, whatever saves
\* raise and however the names meet, a row never turns up in a table it was not
\* inserted into, unless the index does not label its snapshot and shares its file
THEOREM RowsStayInTheirTable == Spec => []RowsInOwnTable
<1>1. IInv => RowsInOwnTable
  BY DEF IInv, Owned, Right, Holds, RowsInOwnTable
<1> QED
  BY Invariant, <1>1, PTL

\* The first registration of a column, when there is only one
LEMMA OneRegistration ==
  ASSUME Typed, LastInUse, NEW t \in Tables, NEW k \in DOMAIN indexes[t],
         Cardinality({ i \in DOMAIN catalog[t].ix : catalog[t].ix[i].col = indexes[t][k].col }) = 1
  PROVE  RegisteredIndex(t, indexes[t][k].col) = {indexes[t][k].type}
<1> DEFINE ix == catalog[t].ix
           col == indexes[t][k].col
           I == { i \in DOMAIN ix : ix[i].col = col }
<1>1. ix \in Seq(Entry) /\ DOMAIN ix = 1 .. Len(ix) /\ Len(ix) \in Nat
  BY DEF Typed, Registry
<1>2. IsFiniteSet(I)
  <2>1. IsFiniteSet(1 .. Len(ix))
    BY <1>1, FS_Interval
  <2>2. I \subseteq 1 .. Len(ix)
    BY <1>1
  <2> QED
    BY <2>1, <2>2, FS_Subset
<1>3. PICK i : I = {i}
  <2>1. Cardinality(I) = 1
    OBVIOUS
  <2> HIDE DEF I
  <2> QED
    BY <1>2, <2>1, FS_Singleton
<1>4. i \in DOMAIN ix /\ ix[i].col = col /\ \A j \in DOMAIN ix : ix[j].col = col => j = i
  BY <1>3
<1>5. i \in Lasts(ix)
  <2>1. \A j \in i + 1 .. Len(ix) : j \in DOMAIN ix /\ j # i
    BY <1>1, <1>4
  <2> QED
    BY <1>4, <2>1 DEF Lasts
<1>6. ix[i].type = indexes[t][k].type
  <2>1. PICK n \in DOMAIN indexes[t] : indexes[t][n].col = ix[i].col /\ indexes[t][n].type = ix[i].type
    BY <1>5 DEF LastInUse, InUse, Range
  <2>2. n = k
    BY <1>4, <2>1 DEF Typed, Unique
  <2> QED
    BY <2>1, <2>2
<1>7. SelectInSeq(ix, LAMBDA e : e.col = col) = i
  <2>1. { j \in 1 .. Len(ix) : ix[j].col = col } = {i} /\ i \in Nat
    BY <1>1, <1>3, <1>4
  <2>2. Min({i}) = i
    BY <2>1, MinOfNaturals
  <2> HIDE DEF ix, col
  <2> QED
    BY <2>1, <2>2 DEF SelectInSeq
<1>8. i # 0
  BY <1>1, <1>4
<1> QED
  BY <1>6, <1>7, <1>8 DEF RegisteredIndex

\* RegisteredIsLive, of _register_ddl: the index that a restart would bring
\* back for a column is, by its type, the one in use
THEOREM CatalogAgrees == Spec => []RegisteredIsLive
<1>1. IInv => RegisteredIsLive
  <2> SUFFICES ASSUME IInv, NEW t \in Tables
               PROVE  /\ tables[t] = {} <=> catalog[t] = NoTable
                      /\ \A i \in DOMAIN catalog[t].ix :
                           (\A j \in i + 1 .. Len(catalog[t].ix) : catalog[t].ix[j].col # catalog[t].ix[i].col)
                             => \E k \in DOMAIN indexes[t] :
                                  /\ indexes[t][k].col = catalog[t].ix[i].col
                                  /\ indexes[t][k].type = catalog[t].ix[i].type
                      /\ \A k \in DOMAIN indexes[t] :
                           Cardinality({ i \in DOMAIN catalog[t].ix :
                                           catalog[t].ix[i].col = indexes[t][k].col }) = 1
                             => RegisteredIndex(t, indexes[t][k].col) = {indexes[t][k].type}
    BY DEF RegisteredIsLive
  <2>1. Typed /\ Known /\ LastInUse
    BY DEF IInv
  <2>2. tables[t] = {} <=> catalog[t] = NoTable
    BY <2>1, NoTableFacts DEF Known
  <2>3. ASSUME NEW i \in DOMAIN catalog[t].ix,
               \A j \in i + 1 .. Len(catalog[t].ix) : catalog[t].ix[j].col # catalog[t].ix[i].col
        PROVE  \E k \in DOMAIN indexes[t] :
                 indexes[t][k].col = catalog[t].ix[i].col /\ indexes[t][k].type = catalog[t].ix[i].type
    <3>1. i \in Lasts(catalog[t].ix)
      BY <2>3 DEF Lasts
    <3> QED
      BY <2>1, <3>1 DEF LastInUse, InUse, Range
  <2> QED
    BY <2>1, <2>2, <2>3, OneRegistration
<1> QED
  BY Invariant, <1>1, PTL

\* What a restart brings back of a table: an index of each column and type that
\* is registered and in use, and of those whose snapshot is current, the same rows
LEMMA RestartKeeps ==
  ASSUME IInv, Restart, saved = catalog, NEW t \in Tables
  PROVE  /\ \A y \in Range(indexes'[t]) : \E x \in Range(indexes[t]) :
              x.col \in RegisteredCols(t) /\ x.col = y.col /\ x.type = y.type
         /\ \A x \in Range(indexes[t]) : x.col \in RegisteredCols(t) =>
              \E y \in Range(indexes'[t]) :
                 /\ y.col = x.col /\ y.type = x.type
                 /\ File(x.type, t, x.col) \notin unsaved /\ Alone(t, x.col) => y = x
<1> DEFINE ix == catalog[t].ix
<1>1. /\ Typed /\ LastInUse /\ Current
      /\ disk \in [Files -> Snapshot]
      /\ ix \in Seq(Entry) /\ DOMAIN ix = 1 .. Len(ix) /\ Len(ix) \in Nat
      /\ Unique(indexes[t])
  BY DEF IInv, Typed, Registry
<1>2. Range(indexes'[t]) = { Loaded(disk, t, ix[i]) : i \in Lasts(ix) }
  BY <1>1, RestartFacts
<1>3. ASSUME NEW i \in Lasts(ix)
      PROVE  /\ \E x \in Range(indexes[t]) : x.col = ix[i].col /\ x.type = ix[i].type
             /\ Loaded(disk, t, ix[i]).col = ix[i].col /\ Loaded(disk, t, ix[i]).type = ix[i].type
             /\ ix[i].col \in RegisteredCols(t)
  <2>1. i \in DOMAIN ix /\ ix[i] \in Entry
    BY <1>1 DEF Lasts
  <2> QED
    BY <1>1, <2>1, LoadedFacts DEF LastInUse, InUse, Entry, RegisteredCols
<1>4. ASSUME NEW x \in Range(indexes[t]), x.col \in RegisteredCols(t)
      PROVE  \E y \in Range(indexes'[t]) :
               /\ y.col = x.col /\ y.type = x.type
               /\ File(x.type, t, x.col) \notin unsaved /\ Alone(t, x.col) => y = x
  <2> DEFINE I == { i \in DOMAIN ix : ix[i].col = x.col }
  <2>1. I \in SUBSET (0 .. Len(ix)) /\ I # {}
    BY <1>1, <1>4 DEF RegisteredCols
  <2>2. PICK l \in I : \A i \in I : i <= l
    BY <1>1, <2>1, LargestNatural
  <2>3. l \in Lasts(ix) /\ ix[l].col = x.col
    <3>1. ASSUME NEW j \in l + 1 .. Len(ix) PROVE ix[j].col # ix[l].col
      <4>1. j \in DOMAIN ix /\ ~(j <= l) /\ ix[l].col = x.col
        BY <1>1, <2>2
      <4> QED
        BY <2>2, <4>1
    <3> QED
      BY <2>2, <3>1 DEF Lasts
  <2>4. ix[l].type = x.type
    <3>1. PICK z \in Range(indexes[t]) : z.col = ix[l].col /\ z.type = ix[l].type
      BY <1>3, <2>3
    <3>2. z = x
      BY <1>1, <2>3, <3>1 DEF Unique, Range
    <3> QED
      BY <3>1, <3>2
  <2>5. Loaded(disk, t, ix[l]) = Loaded(disk, t, x)
    BY <2>3, <2>4 DEF Loaded
  <2>6. File(x.type, t, x.col) \notin unsaved /\ Alone(t, x.col) => Loaded(disk, t, x) = x
    BY <1>1 DEF Current
  <2> HIDE DEF ix, I
  <2> QED
    BY <1>2, <1>3, <2>3, <2>4, <2>5, <2>6
<1> HIDE DEF ix
<1> QED
  BY <1>2, <1>3, <1>4

\* RestartKeepsAnswers, of rehydrate_executor: a restart at any moment keeps the
\* registered indexes, the one in front, and all the rows of those whose last
\* save did not raise and whose file is their own
THEOREM RestartIsInvisible == Spec => RestartKeepsAnswers
<1>1. IInv /\ IInv' /\ [Next]_vars => RestartAnswersAlike
  <2> SUFFICES ASSUME IInv, IInv', Restart, saved = catalog, NEW t \in Tables
               PROVE  /\ KindsOf(LiveOn(t, Cols)') = KindsOf(LiveOn(t, RegisteredCols(t)))
                      /\ \A x \in LiveOn(t, RegisteredCols(t)) :
                           File(x.type, t, x.col) \notin unsaved /\ Alone(t, x.col)
                             => x \in LiveOn(t, Cols)'
                      /\ FirstIsRegistered(t) => KindsOf(AnyIndex(t)') = KindsOf(AnyIndex(t))
    BY DEF RestartAnswersAlike
  <2>1. /\ \A x \in Range(indexes'[t]) : x \in Live
        /\ indexes[t] \in Seq(Live) /\ Unique(indexes[t])
        /\ indexes'[t] \in Seq(Live) /\ catalog[t].ix \in Seq(Entry)
    <3>1. indexes[t] \in Seq(Live) /\ Unique(indexes[t])
      BY DEF IInv, Typed
    <3>2. indexes'[t] \in Seq(Live)
      BY DEF IInv, Typed
    <3>3. catalog[t] \in Registry
      BY DEF IInv, Typed
    <3> QED
      BY <3>1, <3>2, <3>3 DEF Range, Registry
  <2>2. LiveOn(t, Cols)' = Range(indexes'[t])
    BY <2>1 DEF LiveOn, Live
  <2>3. LiveOn(t, RegisteredCols(t)) = { x \in Range(indexes[t]) : x.col \in RegisteredCols(t) }
    BY DEF LiveOn
  <2>4. KindsOf(LiveOn(t, Cols)') = KindsOf(LiveOn(t, RegisteredCols(t)))
    BY <2>2, <2>3, RestartKeeps DEF KindsOf
  <2>5. ASSUME NEW x \in LiveOn(t, RegisteredCols(t)),
               File(x.type, t, x.col) \notin unsaved, Alone(t, x.col)
        PROVE  x \in LiveOn(t, Cols)'
    BY <2>2, <2>3, <2>5, RestartKeeps
  <2>6. ASSUME FirstIsRegistered(t) PROVE KindsOf(AnyIndex(t)') = KindsOf(AnyIndex(t))
    <3>1. /\ indexes[t] # <<>> /\ catalog[t].ix # <<>>
          /\ indexes[t][1].col = catalog[t].ix[1].col
      BY <2>1, <2>6 DEF FirstIsRegistered
    <3>2. indexes'[t] # <<>> /\ indexes'[t][1].col = catalog[t].ix[1].col
      BY <3>1, RestartFacts DEF IInv
    <3>3. 1 \in DOMAIN indexes[t] /\ 1 \in DOMAIN indexes'[t]
      BY <2>1, <3>1, <3>2
    <3>4. PICK x \in Range(indexes[t]) : x.col = indexes'[t][1].col /\ x.type = indexes'[t][1].type
      BY <3>3, RestartKeeps DEF Range
    <3>5. x = indexes[t][1]
      BY <2>1, <3>1, <3>2, <3>3, <3>4 DEF Range, Unique
    <3>6. Head(indexes[t]) = indexes[t][1] /\ Head(indexes'[t]) = indexes'[t][1]
      BY <2>1, <3>1, <3>2
    <3>7. AnyIndex(t) = {indexes[t][1]} /\ AnyIndex(t)' = {indexes'[t][1]}
      BY <3>1, <3>2, <3>6 DEF AnyIndex
    <3> QED
      BY <3>4, <3>5, <3>7 DEF KindsOf
  <2> QED
    BY <2>4, <2>5, <2>6
<1>2. IInv /\ IInv' /\ [Next]_vars => [RestartAnswersAlike]_vars
  BY <1>1
<1> QED
  BY <1>2, Invariant, PTL DEF Spec, RestartKeepsAnswers
=============================================================================
