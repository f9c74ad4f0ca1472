--------------------------- MODULE HeapFileProofs ---------------------------
(***************************************************************************)
(* What holds of HeapFile for any pages, contents and file size: the       *)
(* invariant IInv, its preservation part by part, and the properties the   *)
(* runs check on a small instance.                                         *)
(***************************************************************************)
EXTENDS HeapFile, DataLemmas, TLAPS

\* Two extents without a common byte
Disjoint(x, y) ==
    \/ x.cap = 0 \/ y.cap = 0
    \/ x.off + x.cap <= y.off \/ y.off + y.cap <= x.off

\* TypeOK, the request that is being written, and pages numbered as in the table
Typed ==
    /\ TypeOK
    /\ job \in [page : Pages \cup {0}, new : Contents \cup {None}, to : Extent, reused : BOOLEAN]
    /\ pc # "idle" => job.page \in Pages /\ job.new \in Contents
    /\ \A i \in DOMAIN dir : i - 1 \in Pages

\* An extent or an entry that ends within .heap
InHeap(x) == x.off + x.cap <= Len(heap)

\* The entries and the holes end within .heap, an entry claims no more bytes
\* than its place has, and the place chosen for new bytes is large enough
Bounded ==
    /\ \A i \in DOMAIN dir : InHeap(dir[i]) /\ dir[i].len <= dir[i].cap
    /\ \A i \in DOMAIN free : InHeap(free[i])
    /\ \A i \in DOMAIN freeFile : InHeap(freeFile[i])
    /\ pc \in {"length", "entry"} => job.page < PageCount
    /\ pc = "length" => Size[job.new] <= Entry(job.page).cap
    /\ pc = "entry" => InHeap(job.to) /\ Size[job.new] <= job.to.cap

\* Between operations and until a place is chosen, .free says what free says
Saved == pc \in {"idle", "write", "length"} => freeFile = free

\* No two of the places of the pages, of the holes in memory, of the holes in
\* .free share a byte, except that the page that moves owns its old place, now
\* a hole, until its entry is written, and that .free offers the hole just
\* taken until it is saved.  The place the bytes went to is nobody's yet
Owned ==
    /\ \A i, j \in DOMAIN dir : i # j => Disjoint(dir[i], dir[j])
    /\ \A i, j \in DOMAIN free : i # j => Disjoint(free[i], free[j])
    /\ \A i, j \in DOMAIN freeFile : i # j => Disjoint(freeFile[i], freeFile[j])
    /\ \A i \in DOMAIN dir, j \in DOMAIN free :
         (pc = "entry" => i # job.page + 1) => Disjoint(dir[i], free[j])
    /\ (pc = "truncate" => ~job.reused) =>
         \A i \in DOMAIN dir, j \in DOMAIN freeFile : Disjoint(dir[i], freeFile[j])
    /\ pc = "entry" =>
         /\ \A i \in DOMAIN dir : Disjoint(dir[i], job.to)
         /\ \A j \in DOMAIN free : Disjoint(free[j], job.to)
         /\ ~job.reused => \A j \in DOMAIN freeFile : Disjoint(freeFile[j], job.to)

\* Bytes from an offset on are content c of page p
Filled(bytes, off, p, c) == \A o \in off + 1 .. off + Size[c] : bytes[o] = <<p, c>>

\* An entry reads as content c of page p
Holds(bytes, e, p, c) ==
    IF c = None THEN e.len = 0 ELSE e.len = Size[c] /\ Filled(bytes, e.off, p, c)

\* Every entry reads as its page should, except the one whose length is about
\* to be written; the bytes of a write under way are where they should be
Read ==
    /\ \A i \in DOMAIN dir : (pc = "length" => i # job.page + 1) => Holds(heap, dir[i], i - 1, content[i - 1])
    /\ pc = "length" => Filled(heap, Entry(job.page).off, job.page, job.new)
    /\ pc = "entry" => Filled(heap, job.to.off, job.page, job.new)

\* What has no entry was never written
Unwritten == \A p \in Pages : p >= PageCount => content[p] = None

\* Until a crash every byte is in a page, in a hole or in the place being
\* filled; the old place of the page that moves is among the holes
Kept ==
    /\ ~crashed => \A o \in Offsets :
         \/ \E i \in DOMAIN dir : Covers(dir[i], o)
         \/ \E i \in DOMAIN free : Covers(free[i], o)
         \/ pc = "entry" /\ Covers(job.to, o)
    /\ pc = "entry" => \A o \in Offsets :
         Covers(Entry(job.page), o) => \E i \in DOMAIN free : Covers(free[i], o)

\* The inductive invariant.  Ownership and content are promised until a crash
\* at one of the two places where it does damage
IInv == Typed /\ Bounded /\ Saved /\ (~torn => Owned /\ Read) /\ Unwritten /\ Kept

-----------------------------------------------------------------------------
(* The operations on the bytes and on the holes *)

\* _write_at puts the content at the offset and leaves the other bytes alone
LEMMA WriteAtFacts ==
  ASSUME TypeOK, NEW off \in Nat, off <= Len(heap), NEW p \in Pages, NEW c \in Contents,
         off + Size[c] <= MaxFile, WriteAt(off, p, c)
  PROVE  /\ heap' \in Seq(Pages \X Contents)
         /\ Len(heap') <= MaxFile
         /\ Len(heap') = IF off + Size[c] > Len(heap) THEN off + Size[c] ELSE Len(heap)
         /\ \A o \in 1 .. Len(heap') : o \notin off + 1 .. off + Size[c] => o <= Len(heap) /\ heap'[o] = heap[o]
         /\ \A o \in off + 1 .. off + Size[c] : heap'[o] = <<p, c>>
<1> DEFINE end == off + Size[c]
           n == IF end > Len(heap) THEN end ELSE Len(heap)
<1>1. Size[c] \in Nat /\ Size[c] > 0 /\ Len(heap) \in Nat /\ end \in Nat /\ n \in Nat /\ n <= MaxFile
  BY SizeAssumption DEF TypeOK
<1>2. heap' = [i \in 1 .. n |-> IF i \in off + 1 .. end THEN <<p, c>> ELSE heap[i]]
  BY DEF WriteAt
<1>3. \A i \in 1 .. n : i \notin off + 1 .. end => i \in 1 .. Len(heap)
  BY <1>1
<1> HIDE DEF n
<1>4. heap' \in [1 .. n -> Pages \X Contents]
  BY <1>2, <1>3, ElementOfSeq DEF TypeOK
<1>5. heap' \in Seq(Pages \X Contents)
  BY <1>1, <1>4, SeqDef
<1>6. Len(heap') = n
  <2>1. DOMAIN heap' = 1 .. n /\ DOMAIN heap' = 1 .. Len(heap') /\ Len(heap') \in Nat
    BY <1>4, <1>5, LenProperties
  <2> QED
    BY <2>1, <1>1
<1> QED
  BY <1>1, <1>2, <1>3, <1>5, <1>6, SMTT(30) DEF n

\* _place gives no hole, or one that is large enough
LEMMA BestFitFacts ==
  ASSUME NEW holes \in Seq(Extent), NEW size \in Nat
  PROVE  LET i == BestFit(holes, size)
         IN  i = 0 \/ (i \in 1 .. Len(holes) /\ holes[i].cap >= size)
<1> DEFINE Fits(h) == h.cap >= size /\ \A g \in ToSet(holes) : g.cap >= size => h.cap <= g.cap
           I == {i \in 1 .. Len(holes) : Fits(holes[i])}
<1>1. BestFit(holes, size) = IF I # {} THEN Min(I) ELSE 0
  BY DEF BestFit, SelectInSeq
<1>2. I \in SUBSET Nat
  OBVIOUS
<1>3. I # {} => Min(I) \in I
  BY <1>2, MinOfNaturals
<1>4. I # {} => Min(I) \in 1 .. Len(holes) /\ Fits(holes[Min(I)])
  BY <1>3
<1> QED
  BY <1>1, <1>4

\* Where the hole at place j was before hole i was taken; i is 0 for none
From(i, j) == IF i = 0 \/ j < i THEN j ELSE j + 1

\* The holes that are left when hole i is taken
Left(holes, i) == IF i = 0 THEN holes ELSE RemoveAt(holes, i)

\* The holes left are the others, each at a place of its own
LEMMA HolesLeft ==
  ASSUME NEW holes \in Seq(Extent), NEW i \in 0 .. Len(holes)
  PROVE  /\ Left(holes, i) \in Seq(Extent)
         /\ \A j \in 1 .. Len(Left(holes, i)) :
              From(i, j) \in 1 .. Len(holes) /\ From(i, j) # i /\ Left(holes, i)[j] = holes[From(i, j)]
         /\ \A k \in 1 .. Len(holes) : k # i => \E j \in 1 .. Len(Left(holes, i)) : Left(holes, i)[j] = holes[k]
<1> DEFINE rest == Left(holes, i)
<1>0. Len(holes) \in Nat
  OBVIOUS
<1> USE DEF From
<1>1. CASE i = 0
  BY <1>1 DEF Left
<1>2. CASE i # 0
  <2>1. i \in 1 .. Len(holes) /\ rest = RemoveAt(holes, i)
    BY <1>2 DEF Left
  <2> HIDE DEF rest
  <2>2. /\ rest \in Seq(Extent)
        /\ Len(rest) = Len(holes) - 1
        /\ \A j \in 1 .. Len(holes) - 1 : rest[j] = IF j < i THEN holes[j] ELSE holes[j + 1]
    BY <2>1, RemoveAtFacts
  <2>3. ASSUME NEW k \in 1 .. Len(holes), k # i
        PROVE  \E j \in 1 .. Len(rest) : rest[j] = holes[k]
    <3>1. CASE k < i
      <4>1. k \in 1 .. Len(holes) - 1 /\ rest[k] = holes[k]
        BY <1>0, <2>1, <2>2, <3>1
      <4> QED
        BY <2>2, <4>1
    <3>2. CASE k > i
      <4>1. k - 1 \in 1 .. Len(holes) - 1 /\ rest[k - 1] = holes[k]
        BY <1>0, <2>1, <2>2, <3>2
      <4> QED
        BY <2>2, <4>1
    <3> QED
      BY <1>0, <2>1, <2>3, <3>1, <3>2
  <2> QED
    BY <1>0, <2>1, <2>2, <2>3 DEF rest
<1> QED
  BY <1>1, <1>2

\* The holes once the place of the page that moves is one of them
HolesNow ==
    LET e == Entry(job.page)
    IN  IF e.cap > 0 THEN Append(free, [off |-> e.off, cap |-> e.cap]) ELSE free

\* They are the holes in memory and, last, the place of the page if it has one
LEMMA HolesNowFacts ==
  ASSUME Typed, Bounded, pc = "write", PageCount > job.page
  PROVE  /\ job.page + 1 \in 1 .. Len(dir)
         /\ HolesNow \in Seq(Extent)
         /\ \A i \in 1 .. Len(HolesNow) : InHeap(HolesNow[i])
         /\ \A i \in 1 .. Len(HolesNow) :
              \/ i \in 1 .. Len(free) /\ HolesNow[i] = free[i]
              \/ /\ i = Len(free) + 1
                 /\ HolesNow[i].off = Entry(job.page).off /\ HolesNow[i].cap = Entry(job.page).cap
         /\ \A i \in 1 .. Len(free) : i \in 1 .. Len(HolesNow) /\ HolesNow[i] = free[i]
         /\ Entry(job.page).cap > 0 => Len(free) + 1 \in 1 .. Len(HolesNow)
<1>0. job.page \in Nat /\ Len(dir) \in Nat /\ DOMAIN dir = 1 .. Len(dir)
  BY PagesAssumption, LenProperties DEF Typed, TypeOK
<1>1. job.page + 1 \in 1 .. Len(dir)
  BY <1>0 DEF PageCount
<1> DEFINE e == Entry(job.page)
           old == [off |-> e.off, cap |-> e.cap]
<1>2. e \in [off : 0 .. MaxFile, cap : 0 .. MaxFile, len : 0 .. MaxFile] /\ InHeap(e)
  BY <1>0, <1>1, ElementOfSeq DEF Typed, TypeOK, Bounded, Entry, Slot
<1>3. old \in Extent /\ InHeap(old) /\ free \in Seq(Extent)
  BY <1>2 DEF Extent, InHeap, Typed, TypeOK
<1>4. HolesNow = IF e.cap > 0 THEN Append(free, old) ELSE free
  BY DEF HolesNow
<1>5. /\ Append(free, old) \in Seq(Extent)
      /\ Len(Append(free, old)) = Len(free) + 1
      /\ \A i \in 1 .. Len(free) : Append(free, old)[i] = free[i]
      /\ Append(free, old)[Len(free) + 1] = old
      /\ Len(free) \in Nat
  BY <1>3, AppendProperties, LenProperties
<1>6. \A i \in 1 .. Len(free) : InHeap(free[i])
  BY <1>3 DEF Bounded
<1> HIDE DEF e
<1>7. CASE e.cap > 0
  <2>1. HolesNow = Append(free, old)
    BY <1>4, <1>7
  <2>2. \A i \in 1 .. Len(HolesNow) : i \in 1 .. Len(free) \/ i = Len(free) + 1
    BY <1>5, <2>1
  <2>3. \A i \in 1 .. Len(HolesNow) : InHeap(HolesNow[i])
    BY <1>3, <1>5, <1>6, <2>1, <2>2
  <2> QED
    BY <1>1, <1>5, <2>1, <2>2, <2>3 DEF e
<1>8. CASE ~(e.cap > 0)
  BY <1>1, <1>3, <1>4, <1>6, <1>8 DEF e
<1> QED
  BY <1>7, <1>8

\* Relocate takes hole i, or the end of the file if i is 0
LEMMA RelocateFacts ==
  ASSUME Typed, Bounded, Relocate
  PROVE  /\ PageCount > job.page /\ Size[job.new] > Entry(job.page).cap
         /\ job' \in [page : {job.page}, new : {job.new}, to : Extent, reused : BOOLEAN]
         /\ Size[job.new] <= job'.to.cap
         /\ job'.to.off <= Len(heap) /\ job'.to.off + Size[job.new] <= MaxFile
         /\ WriteAt(job'.to.off, job.page, job.new)
         /\ \E i \in 0 .. Len(HolesNow) :
              /\ job'.reused = (i # 0)
              /\ job'.to = IF i = 0 THEN [off |-> Len(heap), cap |-> Size[job.new]] ELSE HolesNow[i]
              /\ free' = Left(HolesNow, i)
<1> DEFINE size == Size[job.new]
           i == BestFit(HolesNow, size)
           to == IF i = 0 THEN [off |-> Len(heap), cap |-> size] ELSE HolesNow[i]
<1>1. pc = "write" /\ PageCount > job.page
  BY SMTT(30) DEF Relocate
<1>2. size \in Nat /\ size > 0
  BY <1>1, SizeAssumption DEF Typed
<1>3. i = 0 \/ (i \in 1 .. Len(HolesNow) /\ HolesNow[i].cap >= size)
  BY <1>1, <1>2, HolesNowFacts, BestFitFacts
<1>4. /\ size > Entry(job.page).cap
      /\ to.off + size <= MaxFile
      /\ free' = Left(HolesNow, i)
      /\ WriteAt(to.off, job.page, job.new)
      /\ job' = [job EXCEPT !.to = to, !.reused = i # 0]
  BY Zenon DEF Relocate, HolesNow, Left
<1>5. Len(heap) \in 0 .. MaxFile
  BY DEF Typed, TypeOK
<1> HIDE DEF i
<1>6. /\ to \in Extent
      /\ to.off <= Len(heap) /\ size <= to.cap
  <2>1. CASE i = 0
    <3>1. to = [off |-> Len(heap), cap |-> size]
      BY <2>1
    <3>2. to.off = Len(heap) /\ to.cap = size /\ Len(heap) + size <= MaxFile
      BY <1>4, <3>1
    <3>3. Len(heap) \in 0 .. MaxFile /\ size \in 0 .. MaxFile
      BY <1>2, <1>5, <3>2, FileAssumption
    <3> QED
      BY <1>5, <3>1, <3>2, <3>3 DEF Extent
  <2>2. CASE i # 0
    <3>1. HolesNow[i] \in Extent /\ InHeap(HolesNow[i]) /\ HolesNow[i].cap >= size
      BY <1>1, <1>3, <2>2, HolesNowFacts
    <3> QED
      BY <1>5, <2>2, <3>1 DEF Extent, InHeap
  <2> QED
    BY <2>1, <2>2
<1>7. /\ job'.to = to /\ job'.reused = (i # 0) /\ job'.page = job.page /\ job'.new = job.new
      /\ job' \in [page : {job.page}, new : {job.new}, to : Extent, reused : BOOLEAN]
  BY <1>4, <1>6 DEF Typed
<1>8. i \in 0 .. Len(HolesNow)
  BY <1>1, <1>3, HolesNowFacts
<1> QED
  BY <1>1, <1>4, <1>6, <1>7, <1>8

\* What Typed says of the elements
LEMMA Elements ==
  ASSUME Typed
  PROVE  /\ Len(heap) \in 0 .. MaxFile
         /\ Len(dir) \in Nat /\ DOMAIN dir = 1 .. Len(dir) /\ \A i \in 1 .. Len(dir) : dir[i] \in Slot
         /\ Len(free) \in Nat /\ DOMAIN free = 1 .. Len(free)
         /\ \A i \in 1 .. Len(free) : free[i] \in Extent
         /\ Len(freeFile) \in Nat /\ DOMAIN freeFile = 1 .. Len(freeFile)
         /\ \A i \in 1 .. Len(freeFile) : freeFile[i] \in Extent
         /\ pc # "idle" => job.page \in Nat /\ job.new # None /\ Size[job.new] \in Nat \ {0}
         /\ job.to \in Extent
<1>1. /\ Len(heap) \in Nat /\ Len(heap) <= MaxFile
      /\ dir \in Seq(Slot) /\ free \in Seq(Extent) /\ freeFile \in Seq(Extent)
  BY LenProperties DEF Typed, TypeOK
<1>2. job.to \in Extent /\ (pc # "idle" => job.page \in Nat /\ job.new # None /\ Size[job.new] \in Nat \ {0})
  BY PagesAssumption, SizeAssumption, NoneAssumption DEF Typed
<1> QED
  BY <1>1, <1>2, LenProperties, ElementOfSeq, FileAssumption

\* The same, element by element
LEMMA HolesTaken ==
  ASSUME Typed, Bounded, Relocate
  PROVE  /\ HolesNow \in Seq(Extent) /\ Len(HolesNow) \in Nat
         /\ \A k \in 1 .. Len(HolesNow) : HolesNow[k] \in Extent /\ InHeap(HolesNow[k])
         /\ free' \in Seq(Extent) /\ Len(free') \in Nat /\ DOMAIN free' = 1 .. Len(free')
         /\ \E i \in 0 .. Len(HolesNow) :
              /\ job'.reused = (i # 0)
              /\ i = 0 => job'.to.off = Len(heap) /\ job'.to.cap = Size[job.new]
              /\ i # 0 => job'.to = HolesNow[i] /\ i \in 1 .. Len(free) /\ HolesNow[i] = free[i]
              /\ \A j \in 1 .. Len(free') :
                   From(i, j) \in 1 .. Len(HolesNow) /\ From(i, j) # i /\ free'[j] = HolesNow[From(i, j)]
              /\ \A k \in 1 .. Len(HolesNow) : k # i => \E j \in 1 .. Len(free') : free'[j] = HolesNow[k]
<1>1. HolesNow \in Seq(Extent) /\ \A k \in 1 .. Len(HolesNow) : InHeap(HolesNow[k])
  BY HolesNowFacts, RelocateFacts, Zenon DEF Relocate
<1>2. PICK i \in 0 .. Len(HolesNow) :
        /\ job'.reused = (i # 0)
        /\ job'.to = IF i = 0 THEN [off |-> Len(heap), cap |-> Size[job.new]] ELSE HolesNow[i]
        /\ free' = Left(HolesNow, i)
  BY RelocateFacts
<1>3. /\ free' \in Seq(Extent)
      /\ \A j \in 1 .. Len(free') :
           From(i, j) \in 1 .. Len(HolesNow) /\ From(i, j) # i /\ free'[j] = HolesNow[From(i, j)]
      /\ \A k \in 1 .. Len(HolesNow) : k # i => \E j \in 1 .. Len(free') : free'[j] = HolesNow[k]
  BY <1>1, <1>2, HolesLeft
<1>4. i = 0 => job'.to.off = Len(heap) /\ job'.to.cap = Size[job.new]
  BY <1>2
<1>5. i # 0 => job'.to = HolesNow[i]
  BY <1>2
<1>7. ASSUME i # 0 PROVE i \in 1 .. Len(free) /\ HolesNow[i] = free[i]
  \* The place the page leaves is too small for it
  <2>1. pc = "write" /\ PageCount > job.page /\ Size[job.new] > Entry(job.page).cap
    BY RelocateFacts, Zenon DEF Relocate
  <2>2. Size[job.new] <= HolesNow[i].cap
    BY <1>5, <1>7, RelocateFacts
  <2>3. Size[job.new] \in Nat /\ Entry(job.page).cap \in Nat
    <3>1. Entry(job.page) \in Slot
      BY <2>1, HolesNowFacts, Elements DEF Entry
    <3> QED
      BY <2>1, <3>1, Elements, FileAssumption DEF Slot
  <2>4. \/ i \in 1 .. Len(free) /\ HolesNow[i] = free[i]
        \/ HolesNow[i].cap = Entry(job.page).cap
    BY <1>7, <2>1, HolesNowFacts
  <2> QED
    BY <2>1, <2>2, <2>3, <2>4
<1>6. Len(HolesNow) \in Nat /\ Len(free') \in Nat /\ DOMAIN free' = 1 .. Len(free')
      /\ \A k \in 1 .. Len(HolesNow) : HolesNow[k] \in Extent
  BY <1>1, <1>3, LenProperties, ElementOfSeq
<1> QED
  BY <1>1, <1>2, <1>3, <1>4, <1>5, <1>6, <1>7

\* A page of the table gets a new entry; the others keep theirs
LEMMA EntryChanges ==
  ASSUME Typed, PageCount > job.page, pc # "idle", NEW e \in Slot, dir' = [dir EXCEPT ![job.page + 1] = e]
  PROVE  /\ dir' \in Seq(Slot) /\ Len(dir') = Len(dir) /\ job.page + 1 \in 1 .. Len(dir)
         /\ dir'[job.page + 1] = e
         /\ \A i \in 1 .. Len(dir) : i # job.page + 1 => dir'[i] = dir[i]
<1>1. job.page + 1 \in 1 .. Len(dir) /\ dir \in Seq(Slot)
  BY Elements DEF PageCount, Typed, TypeOK
<1> QED
  BY <1>1, ExceptSeq

\* _write_entry of a page that stays where it is replaces its entry by one
\* with the new length
LEMMA LengthChanges ==
  ASSUME Typed, Bounded, WriteLength
  PROVE  LET e == dir[job.page + 1]
             new == [off |-> e.off, cap |-> e.cap, len |-> Size[job.new]]
         IN  new \in Slot /\ dir' = [dir EXCEPT ![job.page + 1] = new] /\ PageCount > job.page
<1>1. PageCount > job.page /\ job.page + 1 \in 1 .. Len(dir)
  BY Elements DEF WriteLength, Bounded, PageCount
<1>2. dir[job.page + 1] \in Slot /\ Size[job.new] <= dir[job.page + 1].cap /\ Size[job.new] \in Nat
  BY <1>1, Elements DEF WriteLength, Bounded, Entry
<1> DEFINE e == dir[job.page + 1]
           new == [off |-> e.off, cap |-> e.cap, len |-> Size[job.new]]
<1>3. new \in Slot
  BY <1>2, FileAssumption DEF Slot
<1>4. [e EXCEPT !.len = Size[job.new]] = new
  BY <1>2 DEF Slot
<1>5. dir' = [dir EXCEPT ![job.page + 1] = [@ EXCEPT !.len = Size[job.new]]]
  BY DEF WriteLength
<1>6. dir' = [dir EXCEPT ![job.page + 1] = new]
  BY <1>4, <1>5, <1>1, Elements
<1> QED
  BY <1>1, <1>3, <1>6

\* _write_entry of a page that moved replaces its entry by the new place
LEMMA EntryWritten ==
  ASSUME Typed, Bounded, WriteEntry
  PROVE  LET new == [off |-> job.to.off, cap |-> job.to.cap, len |-> Size[job.new]]
         IN  new \in Slot /\ dir' = [dir EXCEPT ![job.page + 1] = new] /\ PageCount > job.page
<1>1. PageCount > job.page
  BY Elements DEF WriteEntry, Bounded, PageCount
<1>2. job.to \in Extent /\ Size[job.new] <= job.to.cap /\ Size[job.new] \in Nat
  BY Elements DEF WriteEntry, Bounded
<1> QED
  BY <1>1, <1>2, FileAssumption DEF Extent, Slot, WriteEntry

\* _ensure_slot and allocate_page add one entry and keep the others
LEMMA EntryAdded ==
  ASSUME Typed, AddEntry
  PROVE  LET e == [off |-> Len(heap), cap |-> 0, len |-> 0]
         IN  /\ e \in Slot /\ dir' \in Seq(Slot) /\ Len(dir') = Len(dir) + 1
             /\ dir'[Len(dir) + 1] = e /\ \A i \in 1 .. Len(dir) : dir'[i] = dir[i]
<1> DEFINE e == [off |-> Len(heap), cap |-> 0, len |-> 0]
<1>1. e \in Slot /\ dir \in Seq(Slot) /\ dir' = Append(dir, e)
  BY FileAssumption, Elements DEF Slot, AddEntry, Typed, TypeOK
<1> QED
  BY <1>1, AppendProperties, LenProperties

\* Where the two steps that write bytes write them
LEMMA OverwriteFacts ==
  ASSUME Typed, Bounded, Overwrite
  PROVE  /\ job.page \in Pages /\ job.new \in Contents
         /\ job.page + 1 \in 1 .. Len(dir) /\ Size[job.new] <= Entry(job.page).cap
         /\ Entry(job.page).off \in Nat /\ Entry(job.page).off <= Len(heap)
         /\ Entry(job.page).off + Size[job.new] <= MaxFile
         /\ WriteAt(Entry(job.page).off, job.page, job.new)
         /\ Len(heap') = Len(heap)
<1>1. /\ job.page + 1 \in 1 .. Len(dir)
      /\ job.page \in Pages /\ job.new \in Contents
      /\ Size[job.new] \in Nat /\ Len(heap) \in 0 .. MaxFile
  BY Elements DEF Overwrite, PageCount, Typed
<1>2. Entry(job.page) \in Slot /\ InHeap(Entry(job.page)) /\ Size[job.new] <= Entry(job.page).cap
  BY <1>1, Elements DEF Overwrite, Bounded, Entry
<1>3. /\ Entry(job.page).off \in Nat /\ Entry(job.page).off <= Len(heap)
      /\ Entry(job.page).off + Size[job.new] <= Len(heap)
      /\ Entry(job.page).off + Size[job.new] <= MaxFile
  <2>1. Entry(job.page).off \in 0 .. MaxFile /\ Entry(job.page).cap \in 0 .. MaxFile
    BY <1>2 DEF Slot
  <2> QED
    BY <1>1, <1>2, <2>1, FileAssumption, SMTT(30) DEF InHeap
<1>4. WriteAt(Entry(job.page).off, job.page, job.new)
  BY DEF Overwrite
<1>5. Len(heap') = IF Entry(job.page).off + Size[job.new] > Len(heap)
                   THEN Entry(job.page).off + Size[job.new] ELSE Len(heap)
  BY <1>1, <1>3, <1>4, WriteAtFacts DEF Typed
<1> QED
  BY <1>1, <1>2, <1>3, <1>4, <1>5

\* A page that moves is written in its new place, up to the bound of .heap
LEMMA RelocateWrites ==
  ASSUME Typed, Bounded, Relocate
  PROVE  /\ job.page \in Pages /\ job.new \in Contents
         /\ job'.to \in Extent /\ Size[job.new] <= job'.to.cap
         /\ job'.to.off \in Nat /\ job'.to.off <= Len(heap)
         /\ job'.to.off + Size[job.new] <= MaxFile
         /\ WriteAt(job'.to.off, job.page, job.new)
         /\ Len(heap') = IF job'.to.off + Size[job.new] > Len(heap)
                         THEN job'.to.off + Size[job.new] ELSE Len(heap)
<1>1. job.page \in Pages /\ job.new \in Contents
  BY SMTT(30) DEF Relocate, Typed
<1>2. job'.to \in Extent /\ Size[job.new] <= job'.to.cap /\ job'.to.off <= Len(heap)
      /\ job'.to.off + Size[job.new] <= MaxFile /\ WriteAt(job'.to.off, job.page, job.new)
  BY RelocateFacts
<1>3. job'.to.off \in Nat
  BY <1>2, FileAssumption DEF Extent
<1> QED
  BY <1>1, <1>2, <1>3, WriteAtFacts DEF Typed

-----------------------------------------------------------------------------
(* The invariant, part by part *)

\* The value of job between operations is a job
LEMMA NoJobTyped ==
  NoJob \in [page : Pages \cup {0}, new : Contents \cup {None}, to : Extent, reused : BOOLEAN]
<1>1. [off |-> 0, cap |-> 0] \in Extent
  BY FileAssumption DEF Extent
<1> QED
  BY <1>1 DEF NoJob

\* Empty files satisfy the invariant
LEMMA InitTyped == Init => IInv
<1> SUFFICES ASSUME Init PROVE IInv
  OBVIOUS
<1>1. DOMAIN dir = {} /\ DOMAIN free = {} /\ DOMAIN freeFile = {}  /\ Len(heap) = 0 /\ Len(dir) = 0
  BY DEF Init
<1>2. Typed
  <2>1. job \in [page : Pages \cup {0}, new : Contents \cup {None}, to : Extent, reused : BOOLEAN]
    BY NoJobTyped DEF Init
  <2> QED
    <3>1. heap \in Seq(Pages \X Contents) /\ dir \in Seq(Slot) /\ free \in Seq(Extent) /\ freeFile \in Seq(Extent)
      BY EmptySeq DEF Init
    <3>2. content \in [Pages -> Contents \cup {None}]
      BY DEF Init
    <3>3. pc = "idle" /\ crashed \in BOOLEAN /\ torn \in BOOLEAN
      BY DEF Init
    <3>4. Len(heap) <= MaxFile /\ \A i \in DOMAIN dir : i - 1 \in Pages
      BY <1>1, FileAssumption
    <3> QED
      BY <1>1, <2>1, <3>1, <3>2, <3>3, <3>4 DEF Typed, TypeOK
<1> QED
  BY <1>1, <1>2 DEF Init, IInv, Bounded, Saved, Owned, Read, Unwritten, Kept, Offsets

\* The types, one step per write and per operation
LEMMA NextTyped == Typed /\ Bounded /\ [Next]_vars => Typed'
<1> SUFFICES ASSUME Typed, Bounded, [Next]_vars PROVE Typed'
  OBVIOUS
<1> USE DEF Typed, TypeOK
<1>1. ASSUME NEW p \in Pages, NEW c \in Contents, WritePage(p, c) PROVE Typed'
  <2>1. job' = [NoJob EXCEPT !.page = p, !.new = c]
    BY <1>1 DEF WritePage
  <2>2. /\ job' \in [page : Pages \cup {0}, new : Contents \cup {None}, to : Extent, reused : BOOLEAN]
        /\ job'.page = p /\ job'.new = c
    BY <2>1, NoJobTyped
  <2> QED
    BY <1>1, <2>2 DEF WritePage
<1>2. ASSUME AddEntry, PageCount \in Pages PROVE Typed'
  <2>1. /\ dir' \in Seq(Slot) /\ Len(dir') = Len(dir) + 1
        /\ DOMAIN dir' = 1 .. Len(dir) + 1
    BY <1>2, EntryAdded, LenProperties
  <2>2. \A i \in DOMAIN dir' : i - 1 \in Pages
    BY <1>2, <2>1, Elements, PagesAssumption DEF PageCount
  <2> QED
    BY <1>2, <2>1, <2>2 DEF AddEntry, Slot
<1>3. ASSUME EnsureSlot PROVE Typed'
  <2>1. PageCount \in Pages
    BY <1>3, PagesAssumption, Elements DEF EnsureSlot, PageCount
  <2> QED
    BY <1>2, <1>3, <2>1 DEF EnsureSlot
<1>4. ASSUME Overwrite PROVE Typed'
  <2>4. heap' \in Seq(Pages \X Contents) /\ Len(heap') <= MaxFile
    BY <1>4, OverwriteFacts, WriteAtFacts
  <2> QED
    BY <1>4, <2>4 DEF Overwrite
<1>5. ASSUME WriteLength PROVE Typed'
  <2>1. dir' \in Seq(Slot) /\ Len(dir') = Len(dir)
    BY <1>5, LengthChanges, EntryChanges DEF WriteLength
  <2>2. \A i \in DOMAIN dir' : i - 1 \in Pages
    BY <2>1, LenProperties, Elements
  <2>3. content' \in [Pages -> Contents \cup {None}]
    BY <1>5 DEF WriteLength
  <2> QED
    BY <1>5, <2>1, <2>2, <2>3, NoJobTyped DEF WriteLength
<1>6. ASSUME Relocate PROVE Typed'
  <2>2. heap' \in Seq(Pages \X Contents) /\ Len(heap') <= MaxFile
    BY <1>6, RelocateWrites, WriteAtFacts
  <2>3. free' \in Seq(Extent)
    BY <1>6, HolesTaken
  <2>4. job' \in [page : Pages \cup {0}, new : Contents \cup {None}, to : Extent, reused : BOOLEAN]
        /\ job'.page \in Pages /\ job'.new \in Contents
    BY <1>6, RelocateFacts, Zenon DEF Relocate
  <2> QED
    BY <1>6, <2>2, <2>3, <2>4, Zenon DEF Relocate
<1>7. ASSUME WriteEntry PROVE Typed'
  <2>1. dir' \in Seq(Slot) /\ Len(dir') = Len(dir)
    BY <1>7, EntryWritten, EntryChanges DEF WriteEntry
  <2>2. \A i \in DOMAIN dir' : i - 1 \in Pages
    BY <2>1, LenProperties, Elements
  <2>3. content' \in [Pages -> Contents \cup {None}]
    BY <1>7 DEF WriteEntry
  <2> QED
    BY <1>7, <2>1, <2>2, <2>3 DEF WriteEntry
<1>8. ASSUME Truncate PROVE Typed'
  BY <1>8 DEF Truncate
<1>9. ASSUME SaveFree PROVE Typed'
  BY <1>9, NoJobTyped DEF SaveFree
<1>10. ASSUME AllocatePage PROVE Typed'
  BY <1>2, <1>10 DEF AllocatePage
<1>11. ASSUME Restart PROVE Typed'
  BY <1>11 DEF Restart
<1>12. ASSUME Crash PROVE Typed'
  BY <1>12, NoJobTyped DEF Crash
<1>13. ASSUME UNCHANGED vars PROVE Typed'
  BY <1>13 DEF vars
<1> QED
  BY <1>1, <1>3, <1>4, <1>5, <1>6, <1>7, <1>8, <1>9, <1>10, <1>11, <1>12, <1>13 DEF Next

\* .heap never shrinks
LEMMA HeapGrows ==
  ASSUME Typed, Bounded, [Next]_vars
  PROVE  Len(heap') \in Nat /\ Len(heap) <= Len(heap')
<1>0. Len(heap) \in Nat
  BY Elements
<1>1. CASE Overwrite
  BY <1>0, <1>1, OverwriteFacts
<1>2. CASE Relocate
  <2>1. Size[job.new] \in Nat
    BY <1>2, Elements, Zenon DEF Relocate
  <2> QED
    BY <1>0, <1>2, <2>1, RelocateWrites
<1>3. CASE UNCHANGED heap
  BY <1>0, <1>3
<1> QED
  BY <1>1, <1>2, <1>3, Zenon DEF Next, vars, WritePage, EnsureSlot, AddEntry, WriteLength, WriteEntry, Truncate,
                          SaveFree, AllocatePage, Restart, Crash

\* The bounds: only Relocate, WriteEntry and WriteLength can move an extent,
\* and each moves it within .heap
LEMMA NextBounded == Typed /\ Bounded /\ [Next]_vars => Bounded'
<1> SUFFICES ASSUME Typed, Bounded, [Next]_vars PROVE Bounded'
  OBVIOUS
<1>0. /\ Len(heap) \in Nat /\ Len(heap') \in Nat /\ Len(heap) <= Len(heap')
      /\ \A x \in Slot \cup Extent : InHeap(x) => x.off + x.cap <= Len(heap')
  BY HeapGrows, Elements, FileAssumption DEF InHeap, Slot, Extent
<1> DEFINE Dirs  == \A i \in DOMAIN dir : InHeap(dir[i]) /\ dir[i].len <= dir[i].cap
           Frees == \A i \in DOMAIN free : InHeap(free[i])
           Files == \A i \in DOMAIN freeFile : InHeap(freeFile[i])
<1>d. dir' = dir => Dirs'
  BY <1>0, Elements DEF Bounded, InHeap
<1>f. free' = free => Frees'
  BY <1>0, Elements DEF Bounded, InHeap
<1>g. freeFile' = freeFile => Files'
  BY <1>0, Elements DEF Bounded, InHeap
<1>h. free' = freeFile => Frees'
  BY <1>0, Elements DEF Bounded, InHeap
<1> HIDE DEF Dirs, Frees, Files
<1>1. ASSUME NEW p \in Pages, NEW c \in Contents, WritePage(p, c) PROVE Bounded'
  BY <1>1, <1>d, <1>f, <1>g DEF WritePage, Bounded, Dirs, Frees, Files
<1>2. ASSUME AddEntry, pc \in {"idle", "write"} PROVE Bounded'
  <2>1. Dirs'
    <3>1. Len(dir) \in Nat /\ DOMAIN dir' = 1 .. Len(dir) + 1
      BY <1>2, Elements, EntryAdded, LenProperties
    <3>2. heap' = heap
      BY <1>2 DEF AddEntry
    <3> QED
      BY <1>2, <3>1, <3>2, <1>0, Elements, EntryAdded DEF Bounded, InHeap, Dirs
  <2> QED
    BY <1>2, <2>1, <1>f, <1>g DEF AddEntry, Bounded, Dirs, Frees, Files
<1>3. ASSUME Overwrite PROVE Bounded'
  BY <1>3, <1>d, <1>f, <1>g, Elements DEF Overwrite, Bounded, Dirs, Frees, Files, PageCount, Entry
<1>4. ASSUME WriteLength PROVE Bounded'
  <2> DEFINE n == job.page + 1
             new == [off |-> dir[n].off, cap |-> dir[n].cap, len |-> Size[job.new]]
  <2>1. /\ new \in Slot /\ n \in 1 .. Len(dir) /\ DOMAIN dir' = 1 .. Len(dir)
        /\ dir'[n] = new /\ \A i \in 1 .. Len(dir) : i # n => dir'[i] = dir[i]
    BY <1>4, LengthChanges, EntryChanges, LenProperties DEF WriteLength
  <2>2. new.off = dir[n].off /\ new.cap = dir[n].cap /\ new.len = Size[job.new]
    OBVIOUS
  <2>3. InHeap(new) /\ new.len <= new.cap
    <3>1. InHeap(dir[n])
      BY <2>1, Elements DEF Bounded
    <3>2. Size[job.new] <= dir[n].cap
      BY <1>4 DEF WriteLength, Bounded, Entry
    <3> QED
      BY <2>2, <3>1, <3>2 DEF InHeap
  <2>4. Dirs'
    <3> HIDE DEF new, n
    <3>1. heap' = heap
      BY <1>4 DEF WriteLength
    <3>2. \A i \in 1 .. Len(dir) : InHeap(dir'[i]) /\ dir'[i].len <= dir'[i].cap
      BY <2>1, <2>3, Elements DEF Bounded
    <3> QED
      BY <2>1, <3>1, <3>2 DEF InHeap, Dirs
  <2> QED
    BY <1>4, <2>4, <1>f, <1>g DEF WriteLength, Bounded, Dirs, Frees, Files
<1>5. ASSUME Relocate PROVE Bounded'
  <2>1. PICK i \in 0 .. Len(HolesNow) :
              /\ i = 0 => job'.to.off = Len(heap) /\ job'.to.cap = Size[job.new]
              /\ i # 0 => job'.to = HolesNow[i]
              /\ \A j \in 1 .. Len(free') :
                   From(i, j) \in 1 .. Len(HolesNow) /\ free'[j] = HolesNow[From(i, j)]
    BY <1>5, HolesTaken
  <2>2. /\ Len(HolesNow) \in Nat /\ \A j \in 1 .. Len(HolesNow) : HolesNow[j] \in Extent /\ InHeap(HolesNow[j])
        /\ DOMAIN free' = 1 .. Len(free')
    BY <1>5, HolesTaken
  <2>3. Frees'
    BY <1>0, <2>1, <2>2 DEF Frees, InHeap
  <2>4. job'.to.off + job'.to.cap <= Len(heap')
    <3>1. CASE i = 0
      <4>1. job'.to.off = Len(heap) /\ job'.to.cap = Size[job.new]
        BY <2>1, <3>1
      <4>2. job.page \in Pages /\ job.new \in Contents /\ Size[job.new] \in Nat
        BY <1>5, Elements, Zenon DEF Relocate, Typed
      <4>3. Len(heap') = IF Len(heap) + Size[job.new] > Len(heap) THEN Len(heap) + Size[job.new] ELSE Len(heap)
        BY <1>5, <1>0, <4>1, <4>2, RelocateFacts, WriteAtFacts DEF Typed
      <4> QED
        BY <1>0, <4>1, <4>2, <4>3
    <3>2. CASE i # 0
      BY <1>0, <2>1, <2>2, <3>2
    <3> QED
      BY <3>1, <3>2
  <2> QED
    BY <1>5, <2>3, <2>4, <1>d, <1>g, RelocateFacts, Zenon
       DEF Relocate, Bounded, Dirs, Frees, Files, PageCount, InHeap
<1>6. ASSUME WriteEntry PROVE Bounded'
  <2> DEFINE n == job.page + 1
             new == [off |-> job.to.off, cap |-> job.to.cap, len |-> Size[job.new]]
  <2>1. /\ new \in Slot /\ n \in 1 .. Len(dir) /\ DOMAIN dir' = 1 .. Len(dir)
        /\ dir'[n] = new /\ \A i \in 1 .. Len(dir) : i # n => dir'[i] = dir[i]
    BY <1>6, EntryWritten, EntryChanges, LenProperties DEF WriteEntry
  <2>2. InHeap(new) /\ new.len <= new.cap
    BY <1>6 DEF WriteEntry, Bounded, InHeap
  <2>3. Dirs'
    <3> HIDE DEF new, n
    <3>1. heap' = heap
      BY <1>6 DEF WriteEntry
    <3>2. \A i \in 1 .. Len(dir) : InHeap(dir'[i]) /\ dir'[i].len <= dir'[i].cap
      BY <2>1, <2>2, Elements DEF Bounded
    <3> QED
      BY <2>1, <3>1, <3>2 DEF InHeap, Dirs
  <2> QED
    BY <1>6, <2>3, <1>f, <1>g DEF WriteEntry, Bounded, Dirs, Frees, Files
<1>7. ASSUME Truncate PROVE Bounded'
  BY <1>7, <1>d, <1>f DEF Truncate, Bounded, Dirs, Frees
<1>8. ASSUME SaveFree PROVE Bounded'
  BY <1>8, <1>d, <1>f DEF SaveFree, Bounded, Dirs, Frees
<1>9. ASSUME Restart \/ Crash PROVE Bounded'
  BY <1>9, <1>d, <1>g, <1>h DEF Restart, Crash, Bounded, Dirs, Frees, Files
<1>10. ASSUME UNCHANGED vars PROVE Bounded'
  BY <1>10 DEF vars, Bounded, InHeap, PageCount, Entry
<1> QED
  BY <1>1, <1>2, <1>3, <1>4, <1>5, <1>6, <1>7, <1>8, <1>9, <1>10 DEF Next, EnsureSlot, AllocatePage

\* The free list on disk changes only while write_page is past its choice
LEMMA NextSaved == Typed /\ Saved /\ [Next]_vars => Saved'
<1> SUFFICES ASSUME Typed, Saved, [Next]_vars PROVE Saved'
  OBVIOUS
<1> USE DEF Saved
<1>1. ASSUME NEW p \in Pages, NEW c \in Contents, WritePage(p, c) PROVE Saved'
  BY <1>1 DEF WritePage
<1>2. CASE EnsureSlot \/ AllocatePage
  BY <1>2 DEF EnsureSlot, AllocatePage, AddEntry
<1>3. CASE Overwrite
  BY <1>3 DEF Overwrite
<1>4. CASE WriteLength
  BY <1>4 DEF WriteLength
<1>5. CASE Relocate
  BY <1>5, Zenon DEF Relocate
<1>6. CASE WriteEntry \/ Truncate
  BY <1>6 DEF WriteEntry, Truncate
<1>7. CASE SaveFree
  BY <1>7 DEF SaveFree
<1>8. CASE Restart \/ Crash
  BY <1>8 DEF Restart, Crash
<1>9. CASE UNCHANGED vars
  BY <1>9 DEF vars
<1> QED
  BY <1>1, <1>2, <1>3, <1>4, <1>5, <1>6, <1>7, <1>8, <1>9 DEF Next

\* Two extents that share a byte do so whatever the order, the entry of a
\* page shares what its place shares, and an empty one shares nothing
LEMMA DisjointFacts ==
  /\ \A x, y : Disjoint(x, y) <=> Disjoint(y, x)
  /\ \A x, y, z : x.off = z.off /\ x.cap = z.cap => (Disjoint(x, y) <=> Disjoint(z, y))
  /\ \A x, y : x.cap = 0 => Disjoint(x, y)
BY DEF Disjoint

\* Ownership: Relocate turns the old place of the page into a hole and takes
\* another one; a crash before .free is saved is harmless unless it took one
LEMMA NextOwned == IInv /\ [Next]_vars /\ ~torn' => Owned'
<1> SUFFICES ASSUME IInv, [Next]_vars, ~torn' PROVE Owned'
  OBVIOUS
<1>0. Typed /\ Bounded /\ Saved /\ Owned
  BY Zenon DEF IInv, Next, vars, WritePage, EnsureSlot, AddEntry, Overwrite, WriteLength, Relocate, WriteEntry,
         Truncate, SaveFree, AllocatePage, Restart, Crash
<1> HIDE DEF IInv
<1> USE DEF Owned
<1>1. ASSUME NEW p \in Pages, NEW c \in Contents, WritePage(p, c) PROVE Owned'
  BY <1>0, <1>1 DEF WritePage
<1>2. ASSUME AddEntry, pc \in {"idle", "write"} PROVE Owned'
  <2>1. /\ DOMAIN dir' = DOMAIN dir \cup {Len(dir) + 1} /\ dir'[Len(dir) + 1].cap = 0
        /\ \A i \in DOMAIN dir : dir'[i] = dir[i]
    <3>1. dir' \in Seq(Slot) /\ Len(dir') = Len(dir) + 1 /\ DOMAIN dir' = 1 .. Len(dir) + 1
          /\ Len(dir) \in Nat /\ DOMAIN dir = 1 .. Len(dir)
      BY <1>0, <1>2, EntryAdded, LenProperties, Elements
    <3>2. \A i \in 1 .. Len(dir) : dir'[i] = dir[i]
      BY <1>0, <1>2, EntryAdded
    <3>3. dir'[Len(dir) + 1].cap = 0
      BY <1>0, <1>2, EntryAdded
    <3> QED
      BY <3>1, <3>2, <3>3
  <2> QED
    BY <1>0, <1>2, <2>1, DisjointFacts DEF AddEntry
<1>3. CASE Overwrite
  BY <1>0, <1>3 DEF Overwrite
<1>4. CASE WriteLength
  <2>1. /\ DOMAIN dir' = DOMAIN dir
        /\ \A i \in DOMAIN dir : dir'[i].off = dir[i].off /\ dir'[i].cap = dir[i].cap
    BY <1>0, <1>4, LengthChanges, EntryChanges, LenProperties, Elements DEF WriteLength
  <2>2. \A i \in DOMAIN dir : \A y : Disjoint(dir'[i], y) <=> Disjoint(dir[i], y)
    BY <2>1, DisjointFacts
  <2>3. \A i, j \in DOMAIN dir : Disjoint(dir'[i], dir'[j]) <=> Disjoint(dir[i], dir[j])
    BY <2>2, DisjointFacts
  <2> QED
    BY <1>0, <1>4, <2>1, <2>2, <2>3 DEF WriteLength
<1>5. CASE Relocate
  <2> DEFINE n == job.page + 1
  <2>1. /\ n \in DOMAIN dir
        /\ \A k \in 1 .. Len(HolesNow) :
              \/ k \in DOMAIN free /\ HolesNow[k] = free[k]
              \/ k = Len(free) + 1 /\ HolesNow[k].off = dir[n].off /\ HolesNow[k].cap = dir[n].cap
        /\ Len(free) + 1 \notin DOMAIN free
    <3>1. pc = "write" /\ PageCount > job.page
      BY <1>5, SMTT(30) DEF Relocate
    <3>2. DOMAIN dir = 1 .. Len(dir) /\ DOMAIN free = 1 .. Len(free) /\ Len(free) \in Nat
      BY <1>0, Elements
    <3>3. Entry(job.page) = dir[n]
      BY DEF Entry
    <3>4. n \in 1 .. Len(dir)
          /\ \A k \in 1 .. Len(HolesNow) :
              \/ k \in 1 .. Len(free) /\ HolesNow[k] = free[k]
              \/ k = Len(free) + 1 /\ HolesNow[k].off = Entry(job.page).off /\ HolesNow[k].cap = Entry(job.page).cap
      BY <1>0, <3>1, HolesNowFacts
    <3> QED
      BY <3>2, <3>3, <3>4
  <2>2. \A k, l \in 1 .. Len(HolesNow) : k # l => Disjoint(HolesNow[k], HolesNow[l])
    BY <1>0, <1>5, <2>1, DisjointFacts, SMTT(30) DEF Relocate
  <2>3. \A i \in DOMAIN dir, k \in 1 .. Len(HolesNow) : i # n => Disjoint(dir[i], HolesNow[k])
    <3>1. pc = "write"
      BY <1>5, Zenon DEF Relocate
    <3>2. \A i \in DOMAIN dir, k \in DOMAIN free : Disjoint(dir[i], free[k])
      BY <1>0, <3>1 DEF Owned
    <3>3. \A i \in DOMAIN dir : i # n => Disjoint(dir[i], dir[n])
      BY <1>0, <2>1 DEF Owned
    <3> HIDE DEF n
    <3> QED
      BY <2>1, <3>2, <3>3, DisjointFacts
  <2>4. PICK i \in 0 .. Len(HolesNow) :
              /\ job'.reused = (i # 0)
              /\ i = 0 => job'.to.off = Len(heap) /\ job'.to.cap = Size[job.new]
              /\ i # 0 => job'.to = HolesNow[i] /\ i \in 1 .. Len(free) /\ HolesNow[i] = free[i]
              /\ \A j \in 1 .. Len(free') :
                   From(i, j) \in 1 .. Len(HolesNow) /\ From(i, j) # i /\ free'[j] = HolesNow[From(i, j)]
    BY <1>0, <1>5, HolesTaken
  <2>5. DOMAIN free' = 1 .. Len(free') /\ Len(free') \in Nat
    BY <1>0, <1>5, HolesTaken
  <2>6. \A j, k \in DOMAIN free' : j # k => Disjoint(free'[j], free'[k])
    <3>1. \A j, k \in DOMAIN free' : j # k => From(i, j) # From(i, k)
      BY <2>5 DEF From
    <3> QED
      BY <2>2, <2>4, <2>5, <3>1
  <2>7. \A j \in DOMAIN dir, k \in DOMAIN free' : j # n => Disjoint(dir[j], free'[k])
    BY <2>3, <2>4, <2>5
  <2>8. ASSUME i = 0
        PROVE  /\ \A j \in DOMAIN dir : Disjoint(dir[j], job'.to)
               /\ \A j \in DOMAIN free' : Disjoint(free'[j], job'.to)
               /\ \A j \in DOMAIN freeFile : Disjoint(freeFile[j], job'.to)
    <3>1. \A x : InHeap(x) => Disjoint(x, job'.to)
      BY <2>4, <2>8 DEF InHeap, Disjoint
    <3>2. \A k \in 1 .. Len(HolesNow) : InHeap(HolesNow[k])
      BY <1>0, <1>5, HolesTaken
    <3> QED
      BY <1>0, <2>4, <2>5, <3>1, <3>2 DEF Bounded
  <2>9. ASSUME i # 0
        PROVE  /\ \A j \in DOMAIN dir : Disjoint(dir[j], job'.to)
               /\ \A j \in DOMAIN free' : Disjoint(free'[j], job'.to)
    <3>1. i \in 1 .. Len(HolesNow) /\ job'.to = HolesNow[i]
      BY <2>4, <2>9
    <3>2. i \in DOMAIN free /\ HolesNow[i] = free[i]
      BY <1>0, <2>4, <2>9, Elements
    <3>3. \A j \in DOMAIN dir : Disjoint(dir[j], free[i])
      BY <1>0, <1>5, <3>2, SMTT(30) DEF Relocate
    <3>4. \A j \in DOMAIN free' : Disjoint(free'[j], HolesNow[i])
      BY <2>2, <2>4, <2>5, <3>1
    <3> QED
      BY <3>1, <3>2, <3>3, <3>4
  <2>10. pc' = "entry" /\ dir' = dir /\ freeFile' = freeFile /\ job'.page = job.page /\ pc = "write"
    BY <1>0, <1>5, RelocateFacts, Zenon DEF Relocate
  <2> QED
    BY <1>0, <2>4, <2>6, <2>7, <2>8, <2>9, <2>10
<1>6. CASE WriteEntry
  <2> DEFINE n == job.page + 1
  <2>1. /\ DOMAIN dir' = DOMAIN dir /\ n \in DOMAIN dir
        /\ dir'[n].off = job.to.off /\ dir'[n].cap = job.to.cap
        /\ \A i \in DOMAIN dir : i # n => dir'[i] = dir[i]
    BY <1>0, <1>6, EntryWritten, EntryChanges, LenProperties, Elements DEF WriteEntry
  <2>2. pc = "entry" /\ pc' = "truncate" /\ free' = free /\ freeFile' = freeFile /\ job' = job
    BY <1>6 DEF WriteEntry
  <2> QED
    BY <1>0, <2>1, <2>2, DisjointFacts
<1>7. CASE Truncate
  BY <1>0, <1>7 DEF Truncate
<1>8. CASE SaveFree
  BY <1>0, <1>8 DEF SaveFree
<1>9. CASE Restart
  BY <1>0, <1>9 DEF Restart
<1>10. CASE Crash
  BY <1>0, <1>10 DEF Crash
<1>11. CASE UNCHANGED vars
  BY <1>0, <1>11 DEF vars
<1> QED
  BY <1>1, <1>2, <1>3, <1>4, <1>5, <1>6, <1>7, <1>8, <1>9, <1>10, <1>11 DEF Next, EnsureSlot, AllocatePage

\* A page gets its entry before it gets its content
LEMMA NextUnwritten == Typed /\ Bounded /\ Unwritten /\ [Next]_vars => Unwritten'
<1> SUFFICES ASSUME Typed, Bounded, Unwritten, [Next]_vars PROVE Unwritten'
  OBVIOUS
<1> USE DEF Unwritten
<1>0. Len(dir) \in Nat /\ (pc # "idle" => job.page \in Nat) /\ content \in [Pages -> Contents \cup {None}]
  BY Elements DEF Typed, TypeOK
<1>1. ASSUME NEW p \in Pages, NEW c \in Contents, WritePage(p, c) PROVE Unwritten'
  BY <1>1 DEF WritePage, PageCount
<1>2. ASSUME AddEntry PROVE Unwritten'
  <2>1. Len(dir') = Len(dir) + 1 /\ content' = content
    BY <1>2, EntryAdded DEF AddEntry
  <2> QED
    BY <1>0, <2>1, PagesAssumption DEF PageCount
<1>3. CASE WriteLength \/ WriteEntry
  <2>1. Len(dir') = Len(dir) /\ job.page < Len(dir)
    BY <1>3, LengthChanges, EntryWritten, EntryChanges DEF WriteLength, WriteEntry, PageCount
  <2>2. content' = [content EXCEPT ![job.page] = job.new]
    BY <1>3 DEF WriteLength, WriteEntry
  <2> QED
    BY <1>0, <2>1, <2>2 DEF PageCount
<1>4. CASE Crash
  <2>1. pc = "length" => job.page < Len(dir)
    BY DEF Bounded, PageCount
  <2>2. dir' = dir /\ content' = IF pc = "length" THEN [content EXCEPT ![job.page] = job.new] ELSE content
    BY <1>4 DEF Crash
  <2> QED
    BY <1>0, <2>1, <2>2 DEF PageCount
<1>5. CASE UNCHANGED <<dir, content>>
  BY <1>5 DEF PageCount
<1> QED
  BY <1>1, <1>2, <1>3, <1>4, <1>5 DEF Next, vars, EnsureSlot, Overwrite, Relocate, Truncate, SaveFree,
                                      AllocatePage, Restart

\* The bytes of a page survive a write into a place it shares no byte with
LEMMA WriteKeeps ==
  ASSUME Typed, NEW off \in Nat, off <= Len(heap), NEW p \in Pages, NEW c \in Contents,
         off + Size[c] <= MaxFile, WriteAt(off, p, c),
         NEW place, place.off = off, place.cap \in Nat, Size[c] <= place.cap,
         NEW e \in Slot, InHeap(e), e.len <= e.cap, Disjoint(e, place),
         NEW q \in Pages, Holds(heap, e, q, content[q]), content' = content
  PROVE  Holds(heap', e, q, content'[q])
<1>1. CASE content[q] = None
  BY <1>1 DEF Holds
<1>2. CASE content[q] # None
  <2>1. content[q] \in Contents
    BY <1>2 DEF Typed, TypeOK
  <2>2. e.len = Size[content[q]] /\ Filled(heap, e.off, q, content[q])
    BY <1>2 DEF Holds
  <2>3. Size[content[q]] \in Nat \ {0} /\ Size[c] \in Nat \ {0} /\ e.off \in Nat /\ e.cap \in Nat /\ Len(heap) \in Nat
    BY <2>1, SizeAssumption, FileAssumption, Elements DEF Slot
  <2>4. ASSUME NEW o \in e.off + 1 .. e.off + Size[content[q]] PROVE heap'[o] = heap[o]
    <3>1. o \notin off + 1 .. off + Size[c]
      <4>1. Size[content[q]] > 0 /\ Size[content[q]] <= e.cap /\ Size[c] > 0 /\ Size[c] <= place.cap
        BY <2>2, <2>3, SMTT(30)
      <4>2. e.off + e.cap <= off \/ off + place.cap <= e.off
        BY <2>3, <4>1, SMTT(30) DEF Disjoint
      <4> QED
        BY <2>3, <4>1, <4>2, SMTT(30)
    <3>2. o \in 1 .. Len(heap')
      <4>1. o \in 1 .. Len(heap)
        BY <2>2, <2>3, SMTT(30) DEF InHeap
      <4>2. Len(heap') = IF off + Size[c] > Len(heap) THEN off + Size[c] ELSE Len(heap)
        BY WriteAtFacts DEF Typed
      <4> QED
        BY <2>3, <4>1, <4>2
    <3>3. \A k \in 1 .. Len(heap') : k \notin off + 1 .. off + Size[c] => heap'[k] = heap[k]
      BY WriteAtFacts DEF Typed
    <3> QED
      BY <3>1, <3>2, <3>3
  <2>5. Filled(heap', e.off, q, content[q])
    BY <2>2, <2>4 DEF Filled
  <2> QED
    BY <1>2, <2>2, <2>5 DEF Holds
<1> QED
  BY <1>1, <1>2

\* The contents: bytes are only ever written where no other page lives
LEMMA NextRead == IInv /\ [Next]_vars /\ ~torn' => Read'
<1> SUFFICES ASSUME IInv, [Next]_vars, ~torn' PROVE Read'
  OBVIOUS
<1>0. Typed /\ Bounded /\ Owned /\ Read /\ Unwritten /\ Owned'
  <2>1. ~torn
    BY Zenon DEF IInv, Next, vars, WritePage, EnsureSlot, AddEntry, Overwrite, WriteLength, Relocate, WriteEntry,
           Truncate, SaveFree, AllocatePage, Restart, Crash
  <2> QED
    BY <2>1, NextOwned DEF IInv
<1> HIDE DEF IInv
<1>a. /\ Len(dir) \in Nat /\ DOMAIN dir = 1 .. Len(dir)
      /\ \A i \in 1 .. Len(dir) : /\ dir[i] \in Slot /\ InHeap(dir[i]) /\ dir[i].len <= dir[i].cap
                                  /\ i - 1 \in Pages
      /\ pc # "idle" => job.page \in Pages /\ job.new \in Contents /\ job.page \in Nat
      /\ content \in [Pages -> Contents \cup {None}]
  BY <1>0, Elements DEF Bounded, Typed, TypeOK
<1>b. \A off, p, c : heap' = heap => (Filled(heap', off, p, c) <=> Filled(heap, off, p, c))
  BY DEF Filled
<1>c. \A e : \A p \in Pages : heap' = heap /\ content'[p] = content[p]
        => (Holds(heap', e, p, content'[p]) <=> Holds(heap, e, p, content[p]))
  BY <1>b DEF Holds
<1>1. ASSUME NEW p \in Pages, NEW c \in Contents, WritePage(p, c) PROVE Read'
  BY <1>0, <1>a, <1>c, <1>1 DEF WritePage, Read
<1>2. ASSUME AddEntry, pc \in {"idle", "write"}, Len(dir) \in Pages PROVE Read'
  <2>1. /\ DOMAIN dir' = 1 .. Len(dir) + 1 /\ dir'[Len(dir) + 1].len = 0
        /\ \A i \in 1 .. Len(dir) : dir'[i] = dir[i]
    BY <1>0, <1>2, EntryAdded, LenProperties
  <2>2. content[Len(dir)] = None /\ content' = content /\ heap' = heap /\ pc' = pc
    BY <1>0, <1>2, <1>a DEF Unwritten, PageCount, AddEntry
  <2>3. Holds(heap', dir'[Len(dir) + 1], Len(dir), content'[Len(dir)])
    BY <2>1, <2>2 DEF Holds
  <2>4. \A i \in 1 .. Len(dir) : Holds(heap', dir'[i], i - 1, content'[i - 1])
    BY <1>0, <1>2, <1>a, <1>c, <2>1, <2>2 DEF Read
  <2>5. \A i \in 1 .. Len(dir) + 1 : Holds(heap', dir'[i], i - 1, content'[i - 1])
    <3>1. SUFFICES ASSUME NEW i \in 1 .. Len(dir) + 1 PROVE Holds(heap', dir'[i], i - 1, content'[i - 1])
      OBVIOUS
    <3>2. CASE i = Len(dir) + 1
      BY <1>a, <2>3, <3>2
    <3>3. CASE i \in 1 .. Len(dir)
      BY <2>4, <3>3
    <3> QED
      BY <1>a, <3>2, <3>3
  <2> QED
    BY <1>2, <2>1, <2>2, <2>5 DEF Read
<1>3. CASE Overwrite
  <2> DEFINE n == job.page + 1
  <2>1. /\ dir' = dir /\ content' = content /\ job' = job /\ pc = "write" /\ pc' = "length"
    BY <1>3 DEF Overwrite
  <2>2. n \in 1 .. Len(dir) /\ Entry(job.page) = dir[n] /\ dir[n].cap \in Nat
    BY <1>0, <1>3, <1>a, OverwriteFacts, FileAssumption DEF Entry, Slot
  <2>3. Filled(heap', Entry(job.page).off, job.page, job.new)
    <3>1. \A o \in dir[n].off + 1 .. dir[n].off + Size[job.new] : heap'[o] = <<job.page, job.new>>
      BY <1>0, <1>3, <2>2, OverwriteFacts, WriteAtFacts DEF Typed
    <3> QED
      BY <2>1, <2>2, <3>1 DEF Filled, Entry
  <2>4. ASSUME NEW i \in 1 .. Len(dir), i # n PROVE Holds(heap', dir[i], i - 1, content'[i - 1])
    <3>1. Disjoint(dir[i], dir[n])
      BY <1>0, <1>a, <2>2, <2>4 DEF Owned
    <3>2. Holds(heap, dir[i], i - 1, content[i - 1])
      BY <1>0, <1>a, <2>1 DEF Read
    <3> QED
      BY <1>0, <1>3, <1>a, <2>1, <2>2, <3>1, <3>2, OverwriteFacts, WriteKeeps
  <2> QED
    BY <1>a, <2>1, <2>3, <2>4 DEF Read, Entry
<1>4. CASE WriteLength
  <2> DEFINE n == job.page + 1
  <2>1. /\ DOMAIN dir' = DOMAIN dir /\ n \in 1 .. Len(dir)
        /\ dir'[n].off = dir[n].off /\ dir'[n].len = Size[job.new]
        /\ \A i \in DOMAIN dir : i # n => dir'[i] = dir[i]
    <3> DEFINE new == [off |-> dir[n].off, cap |-> dir[n].cap, len |-> Size[job.new]]
    <3>1. /\ new \in Slot /\ n \in 1 .. Len(dir) /\ DOMAIN dir' = 1 .. Len(dir)
          /\ dir'[n] = new /\ \A i \in 1 .. Len(dir) : i # n => dir'[i] = dir[i]
      BY <1>0, <1>4, LengthChanges, EntryChanges, LenProperties DEF WriteLength
    <3>2. new.off = dir[n].off /\ new.len = Size[job.new]
      OBVIOUS
    <3> HIDE DEF new
    <3> QED
      BY <1>a, <3>1, <3>2
  <2>2. heap' = heap /\ pc = "length" /\ pc' = "idle" /\ content' = [content EXCEPT ![job.page] = job.new]
    BY <1>4 DEF WriteLength
  <2>3. content'[job.page] = job.new /\ job.new # None /\ \A p \in Pages : p # job.page => content'[p] = content[p]
    BY <1>a, <2>2, NoneAssumption
  <2>4. Filled(heap', dir'[n].off, job.page, job.new)
    BY <1>0, <1>b, <2>1, <2>2 DEF Read, Entry, Filled
  <2>5. Holds(heap', dir'[n], job.page, content'[job.page])
    BY <2>1, <2>3, <2>4 DEF Holds
  <2>6. ASSUME NEW i \in 1 .. Len(dir), i # n PROVE Holds(heap', dir'[i], i - 1, content'[i - 1])
    <3>1. i - 1 \in Pages /\ i - 1 # job.page
      BY <1>a, <2>2, <2>6
    <3>2. content'[i - 1] = content[i - 1] /\ dir'[i] = dir[i] /\ Holds(heap, dir[i], i - 1, content[i - 1])
      BY <1>0, <1>a, <2>1, <2>2, <2>3, <2>6, <3>1 DEF Read
    <3> QED
      BY <1>c, <2>2, <3>1, <3>2
  <2> QED
    BY <1>a, <2>1, <2>2, <2>5, <2>6 DEF Read
<1>5. CASE Relocate
  <2>1. /\ dir' = dir /\ content' = content /\ pc = "write" /\ pc' = "entry"
        /\ job'.page = job.page /\ job'.new = job.new
    BY <1>0, <1>5, RelocateFacts, Zenon DEF Relocate
  <2>2. Filled(heap', job'.to.off, job.page, job.new)
    BY <1>0, <1>5, RelocateWrites, WriteAtFacts DEF Typed, Filled
  <2>3. ASSUME NEW i \in 1 .. Len(dir) PROVE Holds(heap', dir[i], i - 1, content'[i - 1])
    <3>1. Disjoint(dir[i], job'.to)
      BY <1>0, <1>a, <2>1 DEF Owned
    <3>2. Holds(heap, dir[i], i - 1, content[i - 1])
      BY <1>0, <1>a, <2>1 DEF Read
    <3>3. job'.to.cap \in Nat
      BY <1>0, <1>5, RelocateWrites, FileAssumption DEF Extent
    <3> QED
      BY <1>0, <1>5, <1>a, <2>1, <3>1, <3>2, <3>3, RelocateWrites, WriteKeeps
  <2> QED
    BY <1>a, <2>1, <2>2, <2>3 DEF Read
<1>6. CASE WriteEntry
  <2> DEFINE n == job.page + 1
  <2>1. /\ DOMAIN dir' = DOMAIN dir /\ n \in 1 .. Len(dir)
        /\ dir'[n].off = job.to.off /\ dir'[n].len = Size[job.new]
        /\ \A i \in DOMAIN dir : i # n => dir'[i] = dir[i]
    BY <1>0, <1>6, EntryWritten, EntryChanges, LenProperties, Elements DEF WriteEntry
  <2>2. heap' = heap /\ pc = "entry" /\ pc' = "truncate" /\ content' = [content EXCEPT ![job.page] = job.new]
    BY <1>6 DEF WriteEntry
  <2>3. content'[job.page] = job.new /\ job.new # None /\ \A p \in Pages : p # job.page => content'[p] = content[p]
    BY <1>a, <2>2, NoneAssumption
  <2>4. Filled(heap', dir'[n].off, job.page, job.new)
    BY <1>0, <1>b, <2>1, <2>2 DEF Read, Filled
  <2>5. Holds(heap', dir'[n], job.page, content'[job.page])
    BY <2>1, <2>3, <2>4 DEF Holds
  <2>6. ASSUME NEW i \in 1 .. Len(dir), i # n PROVE Holds(heap', dir'[i], i - 1, content'[i - 1])
    <3>1. i - 1 \in Pages /\ i - 1 # job.page
      BY <1>a, <2>2, <2>6
    <3>2. content'[i - 1] = content[i - 1] /\ dir'[i] = dir[i] /\ Holds(heap, dir[i], i - 1, content[i - 1])
      BY <1>0, <1>a, <2>1, <2>2, <2>3, <2>6, <3>1 DEF Read
    <3> QED
      BY <1>c, <2>2, <3>1, <3>2
  <2> QED
    BY <1>a, <2>1, <2>2, <2>5, <2>6 DEF Read
<1>7. CASE Crash
  <2> DEFINE n == job.page + 1
  <2>1. dir' = dir /\ heap' = heap /\ pc' = "idle"
        /\ content' = IF pc = "length" THEN [content EXCEPT ![job.page] = job.new] ELSE content
    BY <1>7 DEF Crash
  <2>2. CASE pc = "length"
    <3>1. n \in 1 .. Len(dir) /\ Entry(job.page) = dir[n]
      BY <1>0, <1>a, <2>2 DEF Bounded, PageCount, Entry
    <3>2. dir[n].len = Size[job.new] /\ Filled(heap, dir[n].off, job.page, job.new)
      BY <1>0, <1>7, <2>2, <3>1 DEF Crash, Read
    <3>3. content'[job.page] = job.new /\ job.new # None /\ \A p \in Pages : p # job.page => content'[p] = content[p]
      BY <1>a, <2>1, <2>2, NoneAssumption
    <3>4. Holds(heap', dir[n], job.page, content'[job.page])
      BY <1>b, <2>1, <3>1, <3>2, <3>3 DEF Holds, Filled
    <3>5. ASSUME NEW i \in 1 .. Len(dir), i # n PROVE Holds(heap', dir[i], i - 1, content'[i - 1])
      <4>1. i - 1 \in Pages /\ i - 1 # job.page
        BY <1>a, <2>2, <3>5
      <4>2. content'[i - 1] = content[i - 1] /\ Holds(heap, dir[i], i - 1, content[i - 1])
        BY <1>0, <1>a, <2>2, <3>3, <3>5, <4>1 DEF Read
      <4> QED
        BY <1>c, <2>1, <4>1, <4>2
    <3> QED
      BY <1>a, <2>1, <2>2, <3>1, <3>4, <3>5 DEF Read
  <2>3. CASE pc # "length"
    BY <1>0, <1>a, <1>c, <2>1, <2>3 DEF Read
  <2> QED
    BY <2>2, <2>3
<1>8. CASE Truncate \/ SaveFree \/ Restart
  BY <1>0, <1>8, <1>a, <1>c DEF Truncate, SaveFree, Restart, Read
<1>9. CASE UNCHANGED vars
  BY <1>0, <1>9 DEF vars, Read, Holds, Filled, Entry
<1>10. pc = "write" /\ PageCount <= job.page => Len(dir) \in Pages
  BY <1>a, PagesAssumption DEF PageCount
<1> QED
  BY <1>1, <1>2, <1>3, <1>4, <1>5, <1>6, <1>7, <1>8, <1>9, <1>10 DEF Next, EnsureSlot, AllocatePage, PageCount

\* Space: the end of .heap moves only with the place that is being filled
LEMMA NextKept == IInv /\ [Next]_vars => Kept'
<1> SUFFICES ASSUME IInv, [Next]_vars PROVE Kept'
  OBVIOUS
<1>0. Typed /\ Bounded /\ Saved /\ Kept
  BY DEF IInv
<1> HIDE DEF IInv
<1>a. /\ Len(dir) \in Nat /\ DOMAIN dir = 1 .. Len(dir) /\ Len(heap) \in Nat
      /\ Len(free) \in Nat /\ DOMAIN free = 1 .. Len(free)
  BY <1>0, Elements
<1>b. \A x, y, o : x.off = y.off /\ x.cap = y.cap => (Covers(x, o) <=> Covers(y, o))
  BY DEF Covers
<1>1. ASSUME NEW p \in Pages, NEW c \in Contents, WritePage(p, c) PROVE Kept'
  BY <1>0, <1>1 DEF WritePage, Kept, Offsets
<1>2. ASSUME AddEntry, pc \in {"idle", "write"} PROVE Kept'
  <2>1. /\ DOMAIN dir' = 1 .. Len(dir) + 1 /\ \A i \in 1 .. Len(dir) : dir'[i] = dir[i]
    BY <1>0, <1>2, EntryAdded, LenProperties
  <2>2. \A o : (\E i \in DOMAIN dir : Covers(dir[i], o)) => \E i \in DOMAIN dir' : Covers(dir'[i], o)
    BY <1>a, <2>1
  <2> QED
    BY <1>0, <1>2, <2>2 DEF AddEntry, Kept, Offsets
<1>3. CASE Overwrite
  <2>1. Len(heap') = Len(heap) /\ pc = "write" /\ pc' = "length" /\ dir' = dir /\ free' = free /\ crashed' = crashed
    BY <1>0, <1>3, OverwriteFacts DEF Overwrite
  <2> QED
    BY <1>0, <2>1 DEF Kept, Offsets
<1>4. CASE WriteLength
  <2>1. /\ DOMAIN dir' = DOMAIN dir
        /\ \A i \in DOMAIN dir : dir'[i].off = dir[i].off /\ dir'[i].cap = dir[i].cap
    BY <1>0, <1>4, LengthChanges, EntryChanges, LenProperties, Elements DEF WriteLength
  <2>2. \A o : (\E i \in DOMAIN dir : Covers(dir[i], o)) => \E i \in DOMAIN dir' : Covers(dir'[i], o)
    BY <1>b, <2>1
  <2>3. heap' = heap /\ pc = "length" /\ pc' = "idle" /\ free' = free /\ crashed' = crashed
    BY <1>4 DEF WriteLength
  <2> QED
    BY <1>0, <2>2, <2>3 DEF Kept, Offsets
<1>5. CASE Relocate
  <2>1. /\ dir' = dir /\ pc = "write" /\ pc' = "entry" /\ job'.page = job.page /\ crashed' = crashed
        /\ Size[job.new] \in Nat
    BY <1>0, <1>5, RelocateFacts, Elements, Zenon DEF Relocate
  <2>2. PICK i \in 0 .. Len(HolesNow) :
              /\ i = 0 => job'.to.off = Len(heap) /\ job'.to.cap = Size[job.new]
              /\ i # 0 => job'.to = HolesNow[i] /\ i \in 1 .. Len(free) /\ HolesNow[i] = free[i]
              /\ \A k \in 1 .. Len(HolesNow) : k # i => \E j \in 1 .. Len(free') : free'[j] = HolesNow[k]
    BY <1>0, <1>5, HolesTaken
  <2>3. DOMAIN free' = 1 .. Len(free') /\ \A k \in 1 .. Len(HolesNow) : HolesNow[k] \in Extent /\ InHeap(HolesNow[k])
    BY <1>0, <1>5, HolesTaken
  <2>4. ASSUME NEW o \in Nat, NEW k \in 1 .. Len(free), Covers(free[k], o)
        PROVE  (\E j \in DOMAIN free' : Covers(free'[j], o)) \/ Covers(job'.to, o)
    <3>1. k \in 1 .. Len(HolesNow) /\ HolesNow[k] = free[k]
      BY <1>0, <1>5, HolesNowFacts, RelocateFacts, Zenon DEF Relocate
    <3>2. CASE k = i
      BY <1>a, <2>2, <2>4, <3>1, <3>2
    <3>3. CASE k # i
      BY <2>2, <2>3, <2>4, <3>1, <3>3
    <3> QED
      BY <3>2, <3>3
  <2>5. ASSUME NEW o \in Nat, Covers(Entry(job.page), o)
        PROVE  \E j \in DOMAIN free' : Covers(free'[j], o)
    <3>1. Entry(job.page) \in Slot
      BY <1>0, <1>5, HolesNowFacts, RelocateFacts, Elements, Zenon DEF Relocate, Entry
    <3>2. Entry(job.page).cap > 0
      BY <2>5, <3>1, FileAssumption DEF Covers, Slot
    <3>3. pc = "write" /\ PageCount > job.page
      BY <1>5 DEF Relocate
    <3> DEFINE k == Len(free) + 1
    <3>4. k \in 1 .. Len(HolesNow)
      BY <1>0, <3>2, <3>3, HolesNowFacts
    <3>5. HolesNow[k].off = Entry(job.page).off /\ HolesNow[k].cap = Entry(job.page).cap
      BY <1>0, <1>a, <3>3, <3>4, HolesNowFacts
    <3>6. k # i
      BY <1>a, <2>2
    <3>7. Covers(HolesNow[k], o)
      BY <1>b, <2>5, <3>5
    <3> HIDE DEF k
    <3> QED
      BY <2>2, <2>3, <3>4, <3>6, <3>7
  <2>6. ASSUME NEW o \in Offsets', o \notin Offsets
        PROVE  Covers(job'.to, o)
    <3>1. o \in Nat /\ o >= Len(heap) /\ o < Len(heap')
      BY <1>a, <2>6, HeapGrows, <1>0 DEF Offsets
    <3>2. Len(heap') = IF job'.to.off + Size[job.new] > Len(heap) THEN job'.to.off + Size[job.new] ELSE Len(heap)
      BY <1>0, <1>5, RelocateWrites
    <3>3. job'.to \in Extent /\ Size[job.new] <= job'.to.cap
      BY <1>0, <1>5, RelocateWrites
    <3>4. job'.to.off \in Nat /\ job'.to.cap \in Nat
      BY <3>3, FileAssumption DEF Extent
    <3>5. CASE i = 0
      BY <1>a, <2>1, <2>2, <3>1, <3>2, <3>5 DEF Covers
    <3>6. CASE i # 0
      <4>1. InHeap(job'.to)
        BY <2>2, <2>3, <3>6
      <4> QED
        BY <1>a, <2>1, <3>1, <3>2, <3>3, <3>4, <4>1, SMTT(30) DEF InHeap
    <3> QED
      BY <3>5, <3>6
  <2>7. Offsets' \subseteq Nat
    BY HeapGrows, <1>0 DEF Offsets
  <2>8. ASSUME ~crashed, NEW o \in Offsets'
        PROVE  \/ \E j \in DOMAIN dir : Covers(dir[j], o)
               \/ \E j \in DOMAIN free' : Covers(free'[j], o)
               \/ Covers(job'.to, o)
    <3>1. CASE o \in Offsets
      BY <1>0, <1>a, <2>1, <2>4, <2>7, <2>8, <3>1 DEF Kept
    <3> QED
      BY <2>6, <2>8, <3>1
  <2> QED
    BY <2>1, <2>5, <2>7, <2>8 DEF Kept, Entry
<1>6. CASE WriteEntry
  <2> DEFINE n == job.page + 1
  <2>1. /\ DOMAIN dir' = DOMAIN dir /\ n \in DOMAIN dir
        /\ dir'[n].off = job.to.off /\ dir'[n].cap = job.to.cap
        /\ \A i \in DOMAIN dir : i # n => dir'[i] = dir[i]
    BY <1>0, <1>6, EntryWritten, EntryChanges, LenProperties, Elements DEF WriteEntry
  <2>2. pc = "entry" /\ pc' = "truncate" /\ free' = free /\ heap' = heap /\ crashed' = crashed
    BY <1>6 DEF WriteEntry
  <2>3. Entry(job.page) = dir[n]
    BY DEF Entry
  <2>4. \A o : Covers(job.to, o) => Covers(dir'[n], o)
    BY <1>b, <2>1
  <2> QED
    BY <1>0, <2>1, <2>2, <2>3, <2>4 DEF Kept, Offsets
<1>7. CASE Truncate \/ SaveFree
  BY <1>0, <1>7 DEF Truncate, SaveFree, Kept, Offsets
<1>8. CASE Restart
  BY <1>0, <1>8 DEF Restart, Saved, Kept, Offsets
<1>9. CASE Crash
  BY <1>9 DEF Crash, Kept
<1>10. CASE UNCHANGED vars
  BY <1>0, <1>10 DEF vars, Kept, Offsets, Entry
<1> QED
  BY <1>1, <1>2, <1>3, <1>4, <1>5, <1>6, <1>7, <1>8, <1>9, <1>10 DEF Next, EnsureSlot, AllocatePage

\* Every step preserves the invariant
LEMMA Inductive == IInv /\ [Next]_vars => IInv'
<1> SUFFICES ASSUME IInv, [Next]_vars PROVE IInv'
  OBVIOUS
<1>1. Typed' /\ Bounded' /\ Saved' /\ Unwritten'
  BY NextTyped, NextBounded, NextSaved, NextUnwritten DEF IInv
<1>2. ~torn' => Owned' /\ Read'
  BY NextOwned, NextRead
<1> QED
  BY <1>1, <1>2, NextKept DEF IInv

\* Hence it holds in every reachable state
LEMMA Invariant == Spec => []IInv
BY InitTyped, Inductive, PTL DEF Spec

-----------------------------------------------------------------------------
(* What follows *)

\* The types of the variables, for any pages, contents and file size
THEOREM TypeCorrect == Spec => []TypeOK
<1>1. IInv => TypeOK
  BY DEF IInv, Typed
<1> QED
  BY Invariant, <1>1, PTL

\* FreeListSaved, of _save_free and the early return of write_page: between
\* operations a restart reads back the free list the process had
THEOREM FreeListAlwaysSaved == Spec => []FreeListSaved
<1>1. IInv => FreeListSaved
  BY DEF IInv, Saved, FreeListSaved
<1> QED
  BY Invariant, <1>1, PTL

\* ReadsLastWrite, of write_page and read_page: between operations a page
\* reads as the last content written to it, and a crash at any other place
\* than the two of torn leaves every write done or not begun
THEOREM PagesReadBack == Spec => []ReadsLastWrite
<1>1. IInv => ReadsLastWrite
  <2> SUFFICES ASSUME IInv, pc = "idle", ~torn, NEW p \in Pages
               PROVE  ReadPage(p) = Bytes(p, content[p])
    BY DEF ReadsLastWrite
  <2>1. Typed /\ Bounded /\ Read /\ Unwritten
    BY DEF IInv
  <2>2. Len(dir) \in Nat /\ DOMAIN dir = 1 .. Len(dir) /\ Len(heap) \in Nat /\ p \in Nat
        /\ heap \in Seq(Pages \X Contents)
    BY <2>1, Elements, PagesAssumption DEF Typed, TypeOK
  <2>3. CASE p >= PageCount
    BY <2>1, <2>3 DEF Unwritten, ReadPage, Bytes
  <2>4. CASE ~(p >= PageCount)
    <3> DEFINE e == dir[p + 1]
    <3>1. p + 1 \in 1 .. Len(dir)
      BY <2>2, <2>4 DEF PageCount
    <3>2. e \in Slot /\ InHeap(e) /\ e.len <= e.cap
      BY <2>1, <2>2, <3>1, Elements DEF Bounded
    <3>3. Holds(heap, e, p, content[p])
      <4>1. Holds(heap, dir[p + 1], (p + 1) - 1, content[(p + 1) - 1])
        BY <2>1, <2>2, <3>1 DEF Read
      <4> QED
        BY <2>2, <4>1
    <3>4. e.off \in Nat /\ e.len \in Nat /\ e.off + e.len <= Len(heap)
      BY <2>2, <3>2, FileAssumption, SMTT(30) DEF Slot, InHeap
    <3> HIDE DEF e
    <3> DEFINE s == SubSeq(heap, e.off + 1, e.off + e.len)
    <3>5. ReadPage(p) = s
      BY <2>4 DEF ReadPage, Entry, e
    <3>6. Len(s) = e.len /\ s \in Seq(Pages \X Contents)
          /\ \A o \in 1 .. e.len : s[o] = heap[e.off + o]
      <4> DEFINE a == e.off + 1
                 b == e.off + e.len
                 S == Pages \X Contents
      <4>1. a \in Int /\ b \in Int /\ b - a + 1 = e.len /\ (a <= b <=> e.len > 0)
        BY <3>4
      <4>2. \A o \in a .. b : heap[o] \in S
        BY <2>2, <3>4, ElementOfSeq
      <4>3. s = SubSeq(heap, a, b) /\ S = Pages \X Contents
        OBVIOUS
      <4>4. ASSUME NEW o \in 1 .. e.len PROVE a + o - 1 = e.off + o
        BY <3>4
      <4> HIDE DEF a, b, S, s
      <4>5. /\ s \in Seq(S)
            /\ Len(s) = IF a <= b THEN b - a + 1 ELSE 0
            /\ \A o \in 1 .. b - a + 1 : s[o] = heap[a + o - 1]
        BY <4>1, <4>2, <4>3, SubSeqProperties
      <4>6. Len(s) = e.len
        BY <3>4, <4>1, <4>5
      <4>7. s \in Seq(Pages \X Contents)
        BY <4>3, <4>5
      <4>8. ASSUME NEW o \in 1 .. e.len PROVE s[o] = heap[e.off + o]
        BY <4>1, <4>4, <4>5
      <4> QED
        BY <4>6, <4>7, <4>8
    <3> HIDE DEF s
    <3>7. CASE content[p] = None
      BY <3>3, <3>5, <3>6, <3>7, EmptySeq DEF Holds, Bytes
    <3>8. CASE content[p] # None
      <4> DEFINE c == content[p]
                 b == [i \in 1 .. Size[c] |-> <<p, c>>]
      <4>1. e.len = Size[c] /\ \A o \in e.off + 1 .. e.off + Size[c] : heap[o] = <<p, c>>
        BY <3>3, <3>8 DEF Holds, Filled
      <4>2. \A o \in 1 .. e.len : s[o] = <<p, c>>
        <5>1. SUFFICES ASSUME NEW o \in 1 .. e.len PROVE s[o] = <<p, c>>
          OBVIOUS
        <5>2. e.off + o \in e.off + 1 .. e.off + Size[c]
          BY <3>4, <4>1
        <5> HIDE DEF c
        <5> QED
          BY <3>6, <4>1, <5>2
      <4>3. Bytes(p, content[p]) = b
        BY <3>8 DEF Bytes
      <4>4. s \in [1 .. Len(s) -> Pages \X Contents]
        BY <3>6, LenProperties
      <4>5. s = b
        BY <3>6, <4>1, <4>2, <4>4
      <4> QED
        BY <3>5, <4>3, <4>5
    <3> QED
      BY <3>7, <3>8
  <2> QED
    BY <2>3, <2>4
<1> QED
  BY Invariant, <1>1, PTL

\* A set whose elements are all equal has at most one
LEMMA AtMostOne ==
  ASSUME NEW S, \A x, y \in S : x = y
  PROVE  IsFiniteSet(S) /\ Cardinality(S) = IF S = {} THEN 0 ELSE 1
<1>1. CASE S = {}
  BY <1>1, FS_EmptySet
<1>2. CASE S # {}
  <2>1. PICK x \in S : TRUE
    BY <1>2
  <2>2. S = {x}
    BY <2>1
  <2> QED
    BY <1>2, <2>2, FS_Singleton
<1> QED
  BY <1>1, <1>2

\* OneOwner, of _place and _write_entry: no two pages share a byte of .heap,
\* and no hole lies in a page or in another hole
THEOREM EveryByteHasOneOwner == Spec => []OneOwner
<1>1. IInv => OneOwner
  <2> SUFFICES ASSUME IInv, pc = "idle", ~torn, NEW o \in Offsets
               PROVE  Cardinality(PagesOf(o)) + Cardinality(HolesOf(o)) <= 1
    BY DEF OneOwner
  <2>1. Typed /\ Owned
    BY DEF IInv
  <2>2. Len(dir) \in Nat /\ DOMAIN dir = 1 .. Len(dir) /\ DOMAIN free = 1 .. Len(free) /\ Len(free) \in Nat
        /\ Len(heap) \in Nat
    BY <2>1, Elements
  <2>3. ASSUME NEW x \in Slot \cup Extent, NEW y \in Slot \cup Extent, Disjoint(x, y)
        PROVE  ~(Covers(x, o) /\ Covers(y, o))
    <3>1. x.off \in Nat /\ x.cap \in Nat /\ y.off \in Nat /\ y.cap \in Nat /\ o \in Nat
      BY <2>2, FileAssumption DEF Slot, Extent, Offsets
    <3> QED
      BY <2>3, <3>1 DEF Disjoint, Covers
  <2>4. ASSUME NEW p \in PagesOf(o), NEW q \in PagesOf(o) PROVE p = q
    <3>1. p \in Nat /\ q \in Nat /\ p + 1 \in DOMAIN dir /\ q + 1 \in DOMAIN dir
          /\ Covers(dir[p + 1], o) /\ Covers(dir[q + 1], o)
      BY <2>2, PagesAssumption DEF PagesOf, PageCount, Entry
    <3>2. dir[p + 1] \in Slot /\ dir[q + 1] \in Slot
      BY <2>1, <2>2, <3>1, Elements
    <3> QED
      BY <2>1, <2>3, <3>1, <3>2 DEF Owned
  <2>5. ASSUME NEW i \in HolesOf(o), NEW j \in HolesOf(o) PROVE i = j
    <3>1. i \in DOMAIN free /\ j \in DOMAIN free /\ Covers(free[i], o) /\ Covers(free[j], o)
      BY DEF HolesOf
    <3>2. free[i] \in Extent /\ free[j] \in Extent
      BY <2>1, <2>2, <3>1, Elements
    <3> QED
      BY <2>1, <2>3, <3>1, <3>2 DEF Owned
  <2>6. ASSUME NEW p \in PagesOf(o), NEW j \in HolesOf(o) PROVE FALSE
    <3>1. p \in Nat /\ p + 1 \in DOMAIN dir /\ Covers(dir[p + 1], o) /\ j \in DOMAIN free /\ Covers(free[j], o)
      BY <2>2, PagesAssumption DEF PagesOf, HolesOf, PageCount, Entry
    <3>2. dir[p + 1] \in Slot /\ free[j] \in Extent
      BY <2>1, <2>2, <3>1, Elements
    <3> QED
      BY <2>1, <2>3, <3>1, <3>2 DEF Owned
  <2>7. Cardinality(PagesOf(o)) = IF PagesOf(o) = {} THEN 0 ELSE 1
    BY <2>4, AtMostOne
  <2>8. Cardinality(HolesOf(o)) = IF HolesOf(o) = {} THEN 0 ELSE 1
    BY <2>5, AtMostOne
  <2> QED
    BY <2>6, <2>7, <2>8
<1> QED
  BY Invariant, <1>1, PTL

\* NoSpaceLost, of write_page: the place a page leaves becomes a hole, so
\* until a crash every byte of .heap is in a page or can be used again
THEOREM SpaceIsKept == Spec => []NoSpaceLost
<1>1. IInv => NoSpaceLost
  <2> SUFFICES ASSUME IInv, pc = "idle", ~crashed, NEW o \in Offsets
               PROVE  PagesOf(o) # {} \/ HolesOf(o) # {}
    BY DEF NoSpaceLost
  <2>1. Typed /\ Kept
    BY DEF IInv
  <2>2. (\E i \in DOMAIN dir : Covers(dir[i], o)) \/ (\E i \in DOMAIN free : Covers(free[i], o))
    BY <2>1 DEF Kept
  <2>3. ASSUME NEW i \in DOMAIN dir, Covers(dir[i], o) PROVE i - 1 \in PagesOf(o)
    <3>1. i \in 1 .. Len(dir) /\ Len(dir) \in Nat /\ i - 1 \in Pages
      BY <2>1, Elements DEF Typed
    <3>2. (i - 1) + 1 = i /\ i - 1 < Len(dir)
      BY <3>1
    <3> QED
      BY <2>3, <3>1, <3>2 DEF PagesOf, PageCount, Entry
  <2> QED
    BY <2>2, <2>3 DEF HolesOf
<1> QED
  BY Invariant, <1>1, PTL
=============================================================================
