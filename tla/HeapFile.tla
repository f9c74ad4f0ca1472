------------------------------ MODULE HeapFile ------------------------------
(***************************************************************************)
(* HeapFile (core/storage/heap_file.py): the pages of one file_id in three *)
(* files.  .heap holds the bytes, .dir one entry per page and .free the    *)
(* holes a page that outgrew its place left behind.  Every helper opens,   *)
(* writes and closes one file, so the process can die between any two of   *)
(* them; the steps here are those writes.                                  *)
(*                                                                         *)
(* A byte of .heap is named by what it belongs to: <<p, c>> is a byte of   *)
(* content c of page p.                                                    *)
(***************************************************************************)
EXTENDS Integers, FiniteSets, SequencesExt

CONSTANTS
    Pages,      \* 0 .. n: page numbers
    Contents,   \* what a page can be asked to hold
    Size,       \* its length in bytes
    MaxFile,    \* bound: bytes of .heap
    None

ASSUME PagesAssumption == Pages \subseteq Nat /\ \A p \in Pages : 0 .. p \subseteq Pages
ASSUME SizeAssumption  == Size \in [Contents -> Nat \ {0}]
ASSUME NoneAssumption  == None \notin Contents
ASSUME FileAssumption  == MaxFile \in Nat

VARIABLES
    heap,       \* .heap
    dir,        \* .dir; the entry of page p is dir[p + 1]
    freeFile,   \* .free
    free,       \* self._free
    pc,         \* "idle", or the next write of write_page
    job,        \* what write_page is doing
    content,    \* what each page should read as
    crashed,    \* the process died inside write_page at least once
    torn        \* ... at one of the two places where that does damage

vars == <<heap, dir, freeFile, free, pc, job, content, crashed, torn>>

Extent == [off : 0 .. MaxFile, cap : 0 .. MaxFile]
Slot   == [off : 0 .. MaxFile, cap : 0 .. MaxFile, len : 0 .. MaxFile]
NoJob  == [page |-> 0, new |-> None, to |-> [off |-> 0, cap |-> 0], reused |-> FALSE]

TypeOK ==
    /\ heap \in Seq(Pages \X Contents) /\ Len(heap) <= MaxFile
    /\ dir \in Seq(Slot)
    /\ freeFile \in Seq(Extent) /\ free \in Seq(Extent)
    /\ pc \in {"idle", "write", "length", "entry", "truncate", "save"}
    /\ content \in [Pages -> Contents \cup {None}]
    /\ crashed \in BOOLEAN /\ torn \in BOOLEAN

Init ==
    /\ heap = <<>> /\ dir = <<>> /\ freeFile = <<>> /\ free = <<>>
    /\ pc = "idle" /\ job = NoJob
    /\ content = [p \in Pages |-> None]
    /\ crashed = FALSE /\ torn = FALSE

-----------------------------------------------------------------------------
(* Definitions named Bad... are slips of the definition after them that    *)
(* some property must notice; no action uses one.                          *)

PageCount == Len(dir)
Entry(p)  == dir[p + 1]

\* _write_at: content c of page p at an offset, which may be the end
WriteAt(off, p, c) ==
    LET end == off + Size[c] IN
    heap' = [i \in 1 .. (IF end > Len(heap) THEN end ELSE Len(heap)) |->
               IF i \in off + 1 .. end THEN <<p, c>> ELSE heap[i]]

\* read_page
ReadPage(p) ==
    IF p >= PageCount THEN <<>>
    ELSE SubSeq(heap, Entry(p).off + 1, Entry(p).off + Entry(p).len)

\* _place: the tightest hole that is large enough, the first of equals, or 0
BadBestFit(holes, size) ==  \* the tightest, large enough or not
    SelectInSeq(holes, LAMBDA h : \A g \in ToSet(holes) : h.cap <= g.cap)

BestFit(holes, size) ==
    SelectInSeq(holes, LAMBDA h :
        h.cap >= size /\ \A g \in ToSet(holes) : g.cap >= size => h.cap <= g.cap)

-----------------------------------------------------------------------------
(* write_page *)

WritePage(p, c) ==
    /\ pc = "idle"
    /\ pc' = "write"
    /\ job' = [NoJob EXCEPT !.page = p, !.new = c]
    /\ UNCHANGED <<heap, dir, freeFile, free, content, crashed, torn>>

BadAddEntry ==  \* at the last byte of .heap
    /\ dir' = Append(dir, [off |-> Len(heap) - 1, cap |-> 0, len |-> 0])
    /\ UNCHANGED <<heap, freeFile, free, pc, job, content, crashed, torn>>

\* An entry without capacity at the end of .heap, as _ensure_slot and
\* allocate_page add them
AddEntry ==
    /\ dir' = Append(dir, [off |-> Len(heap), cap |-> 0, len |-> 0])
    /\ UNCHANGED <<heap, freeFile, free, pc, job, content, crashed, torn>>

EnsureSlot == pc = "write" /\ PageCount <= job.page /\ AddEntry

\* It fits where it is
Overwrite ==
    LET e == Entry(job.page) IN
    /\ pc = "write" /\ PageCount > job.page
    /\ Size[job.new] <= e.cap
    /\ WriteAt(e.off, job.page, job.new)
    /\ pc' = "length"
    /\ UNCHANGED <<dir, freeFile, free, job, content, crashed, torn>>

WriteLength ==
    /\ pc = "length"
    /\ dir' = [dir EXCEPT ![job.page + 1].len = Size[job.new]]
    /\ content' = [content EXCEPT ![job.page] = job.new]
    /\ pc' = "idle" /\ job' = NoJob
    /\ UNCHANGED <<heap, freeFile, free, crashed, torn>>

\* It has to move: its place becomes a hole, another hole or the end of the
\* file takes the bytes.  A hole is used whole, and only in memory so far
BadRelocate ==  \* the old place is forgotten
    LET size == Size[job.new]
        i == BestFit(free, size)
        to == IF i = 0 THEN [off |-> Len(heap), cap |-> size] ELSE free[i]
    IN  /\ pc = "write" /\ PageCount > job.page
        /\ size > Entry(job.page).cap
        /\ to.off + size <= MaxFile
        /\ free' = IF i = 0 THEN free ELSE RemoveAt(free, i)
        /\ WriteAt(to.off, job.page, job.new)
        /\ job' = [job EXCEPT !.to = to, !.reused = i # 0]
        /\ pc' = "entry"
        /\ UNCHANGED <<dir, freeFile, content, crashed, torn>>

Relocate ==
    LET e     == Entry(job.page)
        size  == Size[job.new]
        holes == IF e.cap > 0 THEN Append(free, [off |-> e.off, cap |-> e.cap]) ELSE free
        i     == BestFit(holes, size)
        to    == IF i = 0 THEN [off |-> Len(heap), cap |-> size] ELSE holes[i]
    IN  /\ pc = "write" /\ PageCount > job.page
        /\ size > e.cap
        /\ to.off + size <= MaxFile
        /\ free' = IF i = 0 THEN holes ELSE RemoveAt(holes, i)
        /\ WriteAt(to.off, job.page, job.new)
        /\ job' = [job EXCEPT !.to = to, !.reused = i # 0]
        /\ pc' = "entry"
        /\ UNCHANGED <<dir, freeFile, content, crashed, torn>>

\* From here on the page reads as the new content
WriteEntry ==
    /\ pc = "entry"
    /\ dir' = [dir EXCEPT ![job.page + 1] =
                 [off |-> job.to.off, cap |-> job.to.cap, len |-> Size[job.new]]]
    /\ content' = [content EXCEPT ![job.page] = job.new]
    /\ pc' = "truncate"
    /\ UNCHANGED <<heap, freeFile, free, job, crashed, torn>>

\* _save_free: opening .free to write empties it, closing it fills it
Truncate ==
    /\ pc = "truncate"
    /\ freeFile' = <<>>
    /\ pc' = "save"
    /\ UNCHANGED <<heap, dir, free, job, content, crashed, torn>>

BadSaveFree ==  \* the holes taken are written too: the list is appended to
    /\ pc = "save"
    /\ freeFile' = Append(free, job.to)
    /\ pc' = "idle" /\ job' = NoJob
    /\ UNCHANGED <<heap, dir, free, content, crashed, torn>>

SaveFree ==
    /\ pc = "save"
    /\ freeFile' = free
    /\ pc' = "idle" /\ job' = NoJob
    /\ UNCHANGED <<heap, dir, free, content, crashed, torn>>

-----------------------------------------------------------------------------

AllocatePage == pc = "idle" /\ PageCount \in Pages /\ AddEntry

\* A new process between two operations: __init__ reads the holes back
Restart ==
    /\ pc = "idle"
    /\ free' = freeFile
    /\ UNCHANGED <<heap, dir, freeFile, pc, job, content, crashed, torn>>

\* The process dies inside write_page.  Two places do damage: the bytes of
\* the page are replaced and its length is not; the page lives in a hole
\* that .free still offers
Crash ==
    /\ pc # "idle"
    /\ crashed' = TRUE
    /\ torn' = \/ torn
               \/ pc = "length" /\ Entry(job.page).len # Size[job.new]
               \/ pc = "truncate" /\ job.reused
    /\ content' = IF pc = "length" THEN [content EXCEPT ![job.page] = job.new] ELSE content
    /\ free' = freeFile
    /\ pc' = "idle" /\ job' = NoJob
    /\ UNCHANGED <<heap, dir, freeFile>>

Next ==
    \/ \E p \in Pages, c \in Contents : WritePage(p, c)
    \/ EnsureSlot \/ Overwrite \/ WriteLength
    \/ Relocate \/ WriteEntry \/ Truncate \/ SaveFree
    \/ AllocatePage \/ Restart \/ Crash

Spec == Init /\ [][Next]_vars

-----------------------------------------------------------------------------
(* Properties *)

Bytes(p, c) == IF c = None THEN <<>> ELSE [i \in 1 .. Size[c] |-> <<p, c>>]

\* Between operations every page reads as the last content written to it,
\* with no byte of another page or of an older content; a write the process
\* died in has happened or not, unless it died at one of the two places
ReadsLastWrite ==
    pc = "idle" /\ ~torn => \A p \in Pages : ReadPage(p) = Bytes(p, content[p])

\* Who owns the byte at an offset: pages by their capacity, and holes
Covers(x, o)  == x.off <= o /\ o < x.off + x.cap
PagesOf(o)    == { p \in Pages : p < PageCount /\ Covers(Entry(p), o) }
HolesOf(o)    == { i \in DOMAIN free : Covers(free[i], o) }
Offsets       == 0 .. Len(heap) - 1

\* No two pages share a byte, no hole lies in a page or in another hole
OneOwner ==
    pc = "idle" /\ ~torn =>
        \A o \in Offsets : Cardinality(PagesOf(o)) + Cardinality(HolesOf(o)) <= 1

\* Every byte of .heap is in a page or in a hole it can be reused from; only
\* a crash can lose space
NoSpaceLost ==
    pc = "idle" /\ ~crashed =>
        \A o \in Offsets : PagesOf(o) # {} \/ HolesOf(o) # {}

\* Between operations .free says what the process knows: a restart there
\* changes nothing
FreeListSaved == pc = "idle" => freeFile = free

\* .free holds "the reusable holes" (README, physical format).  False after a
\* crash between _write_entry and _save_free: it still offers the hole that
\* was just used, and the next page to grow is written over the live one
HolesAreReusable ==
    pc = "idle" => \A o \in Offsets : PagesOf(o) = {} \/ HolesOf(o) = {}
=============================================================================
