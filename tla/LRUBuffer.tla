----------------------------- MODULE LRUBuffer -----------------------------
(***************************************************************************)
(* LRUBufferManager (core/buffer/lru_buffer.py) over a StorageEngine, as   *)
(* one thread drives it.  The index code uses it in one way: get a page,   *)
(* replace its bytes, mark it dirty, and at the end of an operation flush  *)
(* the file.  Writing back is one step per page, so that the process can   *)
(* die, or the storage engine raise, between any two pages.                *)
(*                                                                         *)
(* The OrderedDict of the code is the set "cached" with the strict total   *)
(* order "older" on it: <<j, k>> \in older says that j precedes k, hence   *)
(* that j was used less recently.                                          *)
(***************************************************************************)
EXTENDS Integers, FiniteSets

CONSTANTS
    Key,        \* the pages <<file, page_no>>, files numbered by their names
    Contents,   \* page contents
    Blank,      \* b"", what the engine reads for a page it never wrote
    Capacity,   \* _capacity
    MaxPins,    \* bound: pins a page may hold
    NoKey       \* "no page": no get has returned since the last failure

Files == { k[1] : k \in Key }

ASSUME KeyAssumption      == Key \subseteq Nat \X Nat /\ IsFiniteSet(Key)
ASSUME ContentsAssumption == Blank \in Contents
ASSUME CapacityAssumption == Capacity \in Nat \ {0}
ASSUME PinsAssumption     == MaxPins \in Nat
ASSUME NoKeyAssumption    == NoKey \notin Key

VARIABLES
    disk,       \* the pages in the storage engine
    cached,     \* the keys of _cache
    older,      \* the order of _cache
    data,       \* Page.data of the cached pages (Blank for the others)
    dirty,      \* the cached pages whose Page.dirty is set
    pins,       \* Page.pin_count of the cached pages (0 for the others)
    pc,         \* "idle", or inside "evict" (_make_room) or "flush"
    target,     \* the key a get that evicts will return
    victims,    \* the pages _make_room chose
    todo,       \* the dirty pages _write_back has still to write
    scope,      \* the files of the current flush
    held,       \* the page the last get returned, or NoKey
    raised      \* whether the last operation ended in an exception or a crash

cache   == <<cached, older, data, dirty, pins>>
job     == <<pc, target, victims, todo, scope>>
vars    == <<disk, cached, older, data, dirty, pins,
             pc, target, victims, todo, scope, held, raised>>

TypeOK ==
    /\ disk \in [Key -> Contents]
    /\ cached \subseteq Key
    /\ older \subseteq Key \X Key
    /\ data \in [Key -> Contents]
    /\ dirty \subseteq Key
    /\ pins \in [Key -> Nat]
    /\ pc \in {"idle", "evict", "flush"}
    /\ target \in Key \cup {NoKey}
    /\ victims \subseteq Key
    /\ todo \subseteq Key
    /\ scope \subseteq Files
    /\ held \in Key \cup {NoKey}
    /\ raised \in BOOLEAN

Init ==
    /\ disk = [k \in Key |-> Blank]
    /\ cached = {}
    /\ older = {}
    /\ data = [k \in Key |-> Blank]
    /\ dirty = {}
    /\ pins = [k \in Key |-> 0]
    /\ pc = "idle"
    /\ target = NoKey
    /\ victims = {}
    /\ todo = {}
    /\ scope = {}
    /\ held = NoKey
    /\ raised = FALSE

-----------------------------------------------------------------------------
(* The order of the cache.  No action uses a definition named Bad...: each  *)
(* is a slip of the definition after it that some property must notice.    *)

\* OrderedDict.move_to_end(k)
MoveToEnd(k) ==
    { p \in older : k \notin {p[1], p[2]} } \cup ((cached \ {k}) \X {k})

\* del self._cache[k] for every k of S
Forget(S) == { p \in older : p[1] \notin S /\ p[2] \notin S }

\* sorted(pages, key=(file_id, page_no)): the first of S
Before(j, k) == \/ j[1] < k[1]
                \/ j[1] = k[1] /\ j[2] < k[2]
First(S, k) == k \in S /\ \A j \in S \ {k} : Before(k, j)

BadOverflow(k) == IF Cardinality(cached \cup {k}) > Capacity THEN 1 ELSE 0  \* one page goes at most

\* How far the cache is over its capacity once k is in
Overflow(k) == Cardinality(cached \cup {k}) - Capacity

BadEvictable(k) == cached \ {k}  \* pins are not looked at

\* What _make_room(protect=k) may choose, and the choices it makes: the
\* least recently used pages, as many as overflow
Evictable(k) == { j \in cached \ {k} : pins[j] = 0 }
Victims(k) ==
    { V \in SUBSET Evictable(k) :
        /\ Cardinality(V) = Overflow(k)
        /\ \A v \in V, j \in Evictable(k) : <<j, v>> \in older => j \in V }

-----------------------------------------------------------------------------
(* get *)

Hit(k) ==
    /\ pc = "idle"
    /\ k \in cached
    /\ older' = MoveToEnd(k)
    /\ held' = k
    /\ raised' = FALSE
    /\ UNCHANGED <<disk, cached, data, dirty, pins, job>>

\* read_page, then the new Page goes in at the recent end of the cache,
\* before anything is evicted
Load(k) ==
    /\ cached' = cached \cup {k}
    /\ older' = older \cup (cached \X {k})
    /\ data' = [data EXCEPT ![k] = disk[k]]
    /\ UNCHANGED <<disk, dirty, pins>>

MissWithRoom(k) ==
    /\ pc = "idle"
    /\ k \notin cached
    /\ Overflow(k) <= 0
    /\ Load(k)
    /\ held' = k
    /\ raised' = FALSE
    /\ UNCHANGED job

BadMissEvicting(k) ==  \* victims are dropped, not written back
    /\ pc = "idle"
    /\ k \notin cached
    /\ Overflow(k) > 0
    /\ Load(k)
    /\ \E V \in Victims(k) : victims' = V
    /\ todo' = {}
    /\ pc' = "evict"
    /\ target' = k
    /\ held' = NoKey
    /\ raised' = FALSE
    /\ UNCHANGED scope

MissEvicting(k) ==
    /\ pc = "idle"
    /\ k \notin cached
    /\ Overflow(k) > 0
    /\ Load(k)
    /\ \E V \in Victims(k) :
          /\ victims' = V
          /\ todo' = V \cap dirty
    /\ pc' = "evict"
    /\ target' = k
    /\ held' = NoKey
    /\ raised' = FALSE
    /\ UNCHANGED scope

\* Not enough unpinned pages: the RuntimeError leaves the new page in
MissAllPinned(k) ==
    /\ pc = "idle"
    /\ k \notin cached
    /\ Overflow(k) > Cardinality(Evictable(k))
    /\ Load(k)
    /\ held' = NoKey
    /\ raised' = TRUE
    /\ UNCHANGED job

\* All victims are written back: they leave the cache and get returns
Evicted ==
    /\ pc = "evict"
    /\ todo = {}
    /\ cached' = cached \ victims
    /\ older' = Forget(victims)
    /\ data' = [k \in Key |-> IF k \in victims THEN Blank ELSE data[k]]
    /\ pc' = "idle"
    /\ target' = NoKey
    /\ victims' = {}
    /\ held' = target
    /\ UNCHANGED <<disk, dirty, pins, todo, scope, raised>>

-----------------------------------------------------------------------------
(* _write_back, shared by _make_room and flush *)

WriteNext ==
    /\ pc \in {"evict", "flush"}
    /\ \E k \in todo :
          /\ First(todo, k)
          /\ disk' = [disk EXCEPT ![k] = data[k]]
          /\ dirty' = dirty \ {k}
          /\ todo' = todo \ {k}
    /\ UNCHANGED <<cached, older, data, pins, pc, target, victims, scope,
                   held, raised>>

BadWriteFails ==  \* the flag is cleared before the page is written
    /\ pc \in {"evict", "flush"}
    /\ todo # {}
    /\ dirty' = { k \in dirty : ~First(todo, k) }
    /\ pc' = "idle"
    /\ target' = NoKey
    /\ victims' = {}
    /\ todo' = {}
    /\ scope' = {}
    /\ raised' = TRUE
    /\ UNCHANGED <<disk, cached, older, data, pins, held>>

\* The engine raises on a page: the operation ends there, nothing is deleted
WriteFails ==
    /\ pc \in {"evict", "flush"}
    /\ todo # {}
    /\ pc' = "idle"
    /\ target' = NoKey
    /\ victims' = {}
    /\ todo' = {}
    /\ scope' = {}
    /\ raised' = TRUE
    /\ UNCHANGED <<disk, cache, held>>

-----------------------------------------------------------------------------
(* The other operations *)

BadFlush(F) ==  \* pages a client pinned are left out
    /\ pc = "idle"
    /\ pc' = "flush"
    /\ scope' = F
    /\ todo' = { k \in dirty : k[1] \in F /\ pins[k] = 0 }
    /\ raised' = FALSE
    /\ UNCHANGED <<disk, cache, target, victims, held>>

\* flush(f), or flush() with F = Files
Flush(F) ==
    /\ pc = "idle"
    /\ pc' = "flush"
    /\ scope' = F
    /\ todo' = { k \in dirty : k[1] \in F }
    /\ raised' = FALSE
    /\ UNCHANGED <<disk, cache, target, victims, held>>

Flushed ==
    /\ pc = "flush"
    /\ todo = {}
    /\ pc' = "idle"
    /\ scope' = {}
    /\ UNCHANGED <<disk, cache, target, victims, todo, held, raised>>

\* page.data[:] = c; page.dirty = True, on the page just got or a pinned one
Modify(k, c) ==
    /\ pc = "idle"
    /\ k = held \/ pins[k] > 0
    /\ k \in Key
    /\ data' = [data EXCEPT ![k] = c]
    /\ dirty' = dirty \cup {k}
    /\ UNCHANGED <<disk, cached, older, pins, job, held, raised>>

Pin ==
    /\ pc = "idle"
    /\ held # NoKey
    /\ pins[held] < MaxPins
    /\ pins' = [pins EXCEPT ![held] = @ + 1]
    /\ UNCHANGED <<disk, cached, older, data, dirty, job, held, raised>>

BadUnpin(k) ==  \* unpin does not stop at zero
    /\ pc = "idle"
    /\ k \in cached
    /\ pins' = [pins EXCEPT ![k] = @ - 1]
    /\ UNCHANGED <<disk, cached, older, data, dirty, job, held, raised>>

Unpin(k) ==
    /\ pc = "idle"
    /\ pins[k] > 0
    /\ pins' = [pins EXCEPT ![k] = @ - 1]
    /\ UNCHANGED <<disk, cached, older, data, dirty, job, held, raised>>

\* The process dies: what the engine holds is all that is left
Crash ==
    /\ cached' = {}
    /\ older' = {}
    /\ data' = [k \in Key |-> Blank]
    /\ dirty' = {}
    /\ pins' = [k \in Key |-> 0]
    /\ pc' = "idle"
    /\ target' = NoKey
    /\ victims' = {}
    /\ todo' = {}
    /\ scope' = {}
    /\ held' = NoKey
    /\ raised' = TRUE
    /\ UNCHANGED disk

Get(k) == Hit(k) \/ MissWithRoom(k) \/ MissEvicting(k) \/ MissAllPinned(k)

Next ==
    \/ \E k \in Key : Get(k)
    \/ Evicted
    \/ WriteNext
    \/ WriteFails
    \/ \E F \in {Files} \cup {{f} : f \in Files} : Flush(F)
    \/ Flushed
    \/ \E k \in Key, c \in Contents : Modify(k, c)
    \/ Pin
    \/ \E k \in Key : Unpin(k)
    \/ Crash

Spec == Init /\ [][Next]_vars

-----------------------------------------------------------------------------
(* Properties *)

\* What a get of each page would answer now
View == [k \in Key |-> IF k \in cached THEN data[k] ELSE disk[k]]

\* A cached page whose dirty flag is off equals the engine's copy: Page.dirty
\* "marks whether the content differs from the one on disk" (ports/buffer.py)
CleanMatchesDisk ==
    \A k \in cached \ dirty : data[k] = disk[k]

\* No write is forgotten and no page changes by being evicted, flushed or
\* reloaded, in whatever order gets, failures of the engine and crashes come:
\* the buffer implements a store of pages
Store == INSTANCE PageStore WITH contents <- View, durable <- disk
ImplementsPageStore == Store!Spec

\* A page a client may still write to is in the cache: the one the last get
\* returned (_make_room protects it) and every pinned one.  Its writes would
\* otherwise go to a Page object nothing will ever write back
WritableIsCached ==
    /\ held # NoKey => held \in cached
    /\ \A k \in Key : pins[k] > 0 => k \in cached

\* Whenever a get that missed returns, the cache is within capacity, however
\* far the failed calls before it had left it over
MissReturnsInBounds ==
    \/ pc = "idle" /\ held' \in cached' \ cached
    \/ pc = "evict" /\ pc' = "idle" /\ ~raised'
    => Cardinality(cached') <= Capacity
GetRestoresCapacity == [][MissReturnsInBounds]_vars

\* When flush returns normally, every page of the files it was asked for
\* reads the same before and after a restart
FlushReturnsDurable ==
    pc = "flush" /\ pc' = "idle" /\ ~raised'
    => \A k \in Key : k[1] \in scope => View[k] = disk[k]
FlushMakesDurable == [][FlushReturnsDurable]_vars

\* "The LRU buffer retains at most capacity pages" (README, section 2).  False:
\* a get that cannot make room, or whose write-back the engine refuses, raises
\* with its page already in the cache
RamBounded == pc = "idle" => Cardinality(cached) <= Capacity
=============================================================================
