---------------------------- MODULE SharedBuffer ----------------------------
(***************************************************************************)
(* One LRUBufferManager used by the worker threads that serve queries.     *)
(* FastAPI runs the handler of POST /query in a thread pool and nothing    *)
(* locks the buffer, so a thread can be switched out between any two       *)
(* accesses.  Each thread loads a page (an index being created reads its   *)
(* snapshot) or saves one (an index that changed rewrites its page and     *)
(* flushes its file).  Page objects have an identity here: a thread can    *)
(* keep one that is no longer in the cache.  No caller in the code pins.   *)
(* A call of the storage engine is one step.                               *)
(***************************************************************************)
EXTENDS Integers, FiniteSets, SequencesExt

CONSTANTS
    Key,        \* the pages <<file, page_no>>
    Threads,
    Work,       \* the pages each thread loads and saves
    Contents,   \* what a save writes
    Blank,      \* what the engine reads for a page it never wrote
    Capacity,   \* _capacity
    Cold,       \* pages earlier requests left in the cache, dirty: a save
                \* that raises before its flush does that
    MaxOps,     \* bound: operations of each thread
    None        \* no Page object

ASSUME KeyAssumption == Key \subseteq Nat \X Nat /\ IsFiniteSet(Key) /\ IsFiniteSet(Threads)
ASSUME BoundsAssumption == Capacity \in Nat /\ MaxOps \in Nat
ASSUME WorkAssumption == Work \in [Threads -> SUBSET Key]
ASSUME ColdAssumption == Cold \subseteq Key /\ Cardinality(Cold) <= Capacity

\* The place of a key in the order
Index(seq, k) == CHOOSE i \in DOMAIN seq : seq[i] = k

\* The order when a key leaves it
Without(seq, k) == IF k \in ToSet(seq) THEN RemoveAt(seq, Index(seq, k)) ELSE seq

\* Enough Page objects: one of each page for the cache and for the write-back
\* of each thread, and the one each thread got
Objs == 1 .. (Cardinality(Threads) + 1) * (Cardinality(Key) + 1)

ASSUME NoneAssumption == None \notin Key /\ None \notin Objs

VARIABLES
    disk,       \* the pages in the engine
    cache,      \* _cache: the Page object under each key, or None
    order,      \* the keys of _cache in the order of the OrderedDict
    page,       \* the Page objects
    th,         \* each thread: where it is, what it holds
    stale,      \* threads whose iteration over _cache another one broke
    excess,     \* history: some _make_room took out more than was too much
    left        \* operations each thread may still start

vars == <<disk, cache, order, page, th, stale, excess, left>>

NoPage == [key |-> None, data |-> Blank, dirty |-> FALSE]
Idle == [pc |-> "idle", op |-> "load", key |-> None, val |-> Blank, obj |-> None,
         over |-> 0, todo |-> {}, dels |-> {}]

TypeOK ==
    /\ disk \in [Key -> Contents \cup {Blank}]
    /\ cache \in [Key -> Objs \cup {None}]
    /\ ToSet(order) = { k \in Key : cache[k] # None } /\ IsInjective(order)
    /\ \A k \in ToSet(order) : page[cache[k]].key = k
    /\ \A t \in Threads :
          /\ th[t].todo \subseteq Objs /\ th[t].dels \subseteq Key
          /\ th[t].over >= 0 /\ th[t].obj \in Objs \cup {None}
    /\ stale \subseteq Threads
    /\ excess \in BOOLEAN

Init ==
    /\ disk = [k \in Key |-> Blank]
    /\ order = SetToSeq(Cold)
    /\ cache = [k \in Key |-> IF k \in Cold THEN Index(order, k) ELSE None]
    /\ \E c \in Contents :
          page = [o \in Objs |-> IF o <= Len(order)
                                 THEN [key |-> order[o], data |-> c, dirty |-> TRUE]
                                 ELSE NoPage]
    /\ th = [t \in Threads |-> Idle]
    /\ stale = {}
    /\ excess = FALSE
    /\ left = [t \in Threads |-> MaxOps]

-----------------------------------------------------------------------------

At(t, pc) == th[t].pc = pc
Go(t, new) == th' = [th EXCEPT ![t] = new]

\* An exception reaches the handler, which answers 400; so does a result
End(t) == Go(t, Idle)

\* A thread changes the OrderedDict: that breaks every iteration of another
\* one over it that has begun.  Moving the last key to the end is no change
Reorder(t, new) ==
    /\ order' = new
    /\ stale' = IF new = order THEN stale
                ELSE stale \cup { u \in Threads \ {t} : th[u].pc \in {"scan", "list"} }

\* The objects nobody refers to
Garbage == { o \in Objs :
    /\ \A k \in Key : cache[k] # o
    /\ \A t \in Threads : th[t].obj # o /\ o \notin th[t].todo }

Before(j, k) == \/ j[1] < k[1]
                \/ j[1] = k[1] /\ j[2] < k[2]
\* The first page of a write-back in (file_id, page_no) order
First(t, o) == o \in th[t].todo /\ \A p \in th[t].todo : ~Before(page[p].key, page[o].key)

-----------------------------------------------------------------------------
(* get.  A Bad... definition is used by no action: it is a slip of the one  *)
(* after it that some property must notice.                                *)

Start(t) ==
    /\ At(t, "idle") /\ left[t] > 0
    /\ left' = [left EXCEPT ![t] = @ - 1]
    /\ \E k \in Work[t] :
          \/ Go(t, [Idle EXCEPT !.pc = "get", !.key = k])
          \/ \E c \in Contents :
                Go(t, [Idle EXCEPT !.pc = "get", !.key = k, !.op = "save", !.val = c])
    /\ UNCHANGED <<disk, cache, order, page, stale, excess>>

\* if key in self._cache
LookUp(t) ==
    /\ At(t, "get")
    /\ Go(t, [th[t] EXCEPT !.pc = IF cache[th[t].key] # None THEN "hit" ELSE "read"])
    /\ UNCHANGED <<disk, cache, order, page, stale, excess, left>>

\* move_to_end and the return; both raise KeyError if the key has gone
Hit(t) ==
    LET k == th[t].key IN
    /\ At(t, "hit")
    /\ IF cache[k] = None
       THEN /\ End(t)
            /\ UNCHANGED <<order, stale>>
       ELSE /\ Reorder(t, Append(Without(order, k), k))
            /\ Go(t, [th[t] EXCEPT !.pc = "got", !.obj = cache[k]])
    /\ UNCHANGED <<disk, cache, page, excess, left>>

Read(t) ==
    /\ At(t, "read")
    /\ LET o == CHOOSE o \in Garbage : \A p \in Garbage : o <= p IN
       /\ page' = [page EXCEPT ![o] = [key |-> th[t].key, data |-> disk[th[t].key], dirty |-> FALSE]]
       /\ Go(t, [th[t] EXCEPT !.pc = "insert", !.obj = o])
    /\ UNCHANGED <<disk, cache, order, stale, excess, left>>

\* self._cache[key] = page: a key that is there keeps its place in the order
Insert(t) ==
    LET k == th[t].key IN
    /\ At(t, "insert")
    /\ cache' = [cache EXCEPT ![k] = th[t].obj]
    /\ IF cache[k] = None
       THEN Reorder(t, Append(order, k))
       ELSE UNCHANGED <<order, stale>>
    /\ Go(t, [th[t] EXCEPT !.pc = "room"])
    /\ UNCHANGED <<disk, page, excess, left>>

\* The first lines of _make_room: the overflow is computed before the
\* iteration begins, and not again
Room(t) ==
    LET over == Len(order) - Capacity IN
    /\ At(t, "room")
    /\ IF over <= 0 THEN Go(t, [th[t] EXCEPT !.pc = "got"])
       ELSE Go(t, [th[t] EXCEPT !.pc = "open", !.over = over])
    /\ UNCHANGED <<disk, cache, order, page, stale, excess, left>>

\* An iteration over the cache begins, in _make_room or in flush
Open(t, before, within) ==
    /\ At(t, before)
    /\ Go(t, [th[t] EXCEPT !.pc = within])
    /\ stale' = stale \ {t}
    /\ UNCHANGED <<disk, cache, order, page, excess, left>>

BadChoose(t) ==  \* the most recently used pages go
    /\ At(t, "scan")
    /\ IF t \in stale \/ Len(order) < th[t].over
       THEN End(t)
       ELSE LET out == ToSet(SubSeq(order, Len(order) - th[t].over + 1, Len(order)))
            IN  Go(t, [th[t] EXCEPT !.pc = "write", !.dels = out,
                                     !.todo = { cache[k] : k \in out }])
    /\ UNCHANGED <<disk, cache, order, page, stale, excess, left>>

\* The loop that chooses the victims; with too few it raises, and so does
\* an iteration that was broken.  There may be fewer pages by now than when
\* the overflow was computed
Choose(t) ==
    LET others == Without(order, th[t].key) IN
    /\ At(t, "scan")
    /\ IF t \in stale \/ Len(others) < th[t].over
       THEN End(t) /\ UNCHANGED excess
       ELSE LET out == ToSet(SubSeq(others, 1, th[t].over))
            IN  /\ Go(t, [th[t] EXCEPT !.pc = "write", !.dels = out,
                                       !.todo = { cache[k] : k \in out }])
                /\ excess' = (excess \/ Len(order) < Capacity + th[t].over)
    /\ UNCHANGED <<disk, cache, order, page, stale, left>>

BadDelete(t) ==  \* the key stays in the order
    /\ At(t, "del")
    /\ \E k \in th[t].dels :
          /\ cache' = [cache EXCEPT ![k] = None]
          /\ Go(t, [th[t] EXCEPT !.dels = @ \ {k},
                    !.pc = IF th[t].dels = {k} THEN "got" ELSE "del"])
    /\ UNCHANGED <<disk, order, page, stale, excess, left>>

\* del self._cache[key], whatever object is there by now
Delete(t) ==
    /\ At(t, "del")
    /\ \E k \in th[t].dels :
          IF cache[k] = None
          THEN /\ End(t)
               /\ UNCHANGED <<cache, order, stale>>
          ELSE /\ cache' = [cache EXCEPT ![k] = None]
               /\ Reorder(t, Without(order, k))
               /\ Go(t, [th[t] EXCEPT !.dels = @ \ {k},
                         !.pc = IF th[t].dels = {k} THEN "got" ELSE "del"])
    /\ UNCHANGED <<disk, page, excess, left>>

-----------------------------------------------------------------------------
(* _write_back *)

Write(t) ==
    /\ At(t, "write")
    /\ \E o \in th[t].todo :
          /\ First(t, o)
          /\ IF page[o].dirty
             THEN /\ disk' = [disk EXCEPT ![page[o].key] = page[o].data]
                  /\ Go(t, [th[t] EXCEPT !.pc = "clean"])
             ELSE /\ Go(t, [th[t] EXCEPT !.todo = @ \ {o}])
                  /\ UNCHANGED disk
    /\ UNCHANGED <<cache, order, page, stale, excess, left>>

\* page.dirty = False
Clean(t) ==
    /\ At(t, "clean")
    /\ \E o \in th[t].todo :
          /\ First(t, o)
          /\ page' = [page EXCEPT ![o].dirty = FALSE]
          /\ Go(t, [th[t] EXCEPT !.pc = "write", !.todo = @ \ {o}])
    /\ UNCHANGED <<disk, cache, order, stale, excess, left>>

\* _make_room goes on to delete its victims; a flush is over, and the save
WriteEnd(t) ==
    /\ At(t, "write") /\ th[t].todo = {}
    /\ IF th[t].dels # {} THEN Go(t, [th[t] EXCEPT !.pc = "del"]) ELSE End(t)
    /\ UNCHANGED <<disk, cache, order, page, stale, excess, left>>

-----------------------------------------------------------------------------
(* What the indices do with the page *)

\* A load copies the bytes and is over; a save replaces them
Use(t) ==
    /\ At(t, "got")
    /\ IF th[t].op = "load"
       THEN End(t) /\ UNCHANGED page
       ELSE /\ page' = [page EXCEPT ![th[t].obj].data = th[t].val]
            /\ Go(t, [th[t] EXCEPT !.pc = "mark"])
    /\ UNCHANGED <<disk, cache, order, stale, excess, left>>

BadMark(t) ==  \* the flag is forgotten
    /\ At(t, "mark")
    /\ Go(t, [th[t] EXCEPT !.pc = "flush"])
    /\ UNCHANGED <<disk, cache, order, page, stale, excess, left>>

\* page.dirty = True, then flush(file_id)
Mark(t) ==
    /\ At(t, "mark")
    /\ page' = [page EXCEPT ![th[t].obj].dirty = TRUE]
    /\ Go(t, [th[t] EXCEPT !.pc = "flush"])
    /\ UNCHANGED <<disk, cache, order, stale, excess, left>>

BadListPages(t) ==  \* a save that leaves its flush to the next one
    /\ At(t, "list")
    /\ Go(t, [th[t] EXCEPT !.pc = "write"])
    /\ UNCHANGED <<disk, cache, order, page, stale, excess, left>>

\* The pages of the file, listed by iterating over the cache
ListPages(t) ==
    /\ At(t, "list")
    /\ IF t \in stale
       THEN End(t)
       ELSE Go(t, [th[t] EXCEPT !.pc = "write",
                   !.todo = { cache[k] : k \in { j \in ToSet(order) : j[1] = th[t].key[1] } }])
    /\ UNCHANGED <<disk, cache, order, page, stale, excess, left>>

Step(t) ==
    \/ LookUp(t) \/ Hit(t) \/ Read(t) \/ Insert(t)
    \/ Room(t) \/ Open(t, "open", "scan") \/ Choose(t)
    \/ Write(t) \/ Clean(t) \/ WriteEnd(t) \/ Delete(t)
    \/ Use(t) \/ Mark(t) \/ Open(t, "flush", "list") \/ ListPages(t)

Done == /\ \A t \in Threads : At(t, "idle") /\ left[t] = 0
        /\ UNCHANGED vars

Next == (\E t \in Threads : Start(t) \/ Step(t)) \/ Done

Spec == Init /\ [][Next]_vars

-----------------------------------------------------------------------------
(* Properties *)

\* The pages that threads use
Works == UNION { Work[t] : t \in Threads }

\* The threads work apart: no file is used by two of them, the pages in use
\* fit in the buffer, and those that earlier requests left there are others
Apart ==
    /\ \A t, u \in Threads : \A j \in Work[t], k \in Work[u] : j[1] = k[1] => t = u
    /\ Cardinality(Works) <= Capacity
    /\ Cold \cap Works = {}

\* A thread about to write to a page it got has the object of the cache: the
\* write is not lost with an object that was evicted or replaced, as long as
\* no _make_room went by an overflow that had become too large
WritesReachCache ==
    ~excess => \A t \in Threads :
        th[t].op = "save" /\ th[t].pc \in {"got", "mark", "flush", "list"}
        => cache[th[t].key] = th[t].obj

\* Page.dirty "marks whether the content differs from the one on disk"
\* (ports/buffer.py): a cached page whose flag is off equals the engine's
\* copy, except while a thread is between setting the bytes and the flag
FlagsAreRight ==
    \A k \in ToSet(order) :
        LET o == cache[k] IN
        ~page[o].dirty /\ (\A t \in Threads : ~(At(t, "mark") /\ th[t].obj = o))
        => page[o].data = disk[k]

\* So it is, while every _make_room takes out just what is over
DirtyMarksDifference == ~excess => FlagsAreRight

\* When the save of a page returns normally, the engine has what was saved
SaveReturnsDurable ==
    \A t \in Threads :
        At(t, "write") /\ th[t].op = "save" /\ th[t].dels = {} /\ th'[t].pc = "idle"
        => disk[th[t].key] = th[t].val

\* So it does, while every _make_room takes out just what is over
SaveReachesDisk == [][~excess => SaveReturnsDurable]_vars

\* "flush writes dirty page to storage" (tests/test_buffer_contract.py).  False
\* of threads that work apart: one that computed its overflow before another
\* one evicted goes on to evict a page in use, and the save of that page
\* flushes nothing
FlushWritesDirtyPage == [][SaveReturnsDurable]_vars
=============================================================================
