# TLA+ models of the multimodal database

This directory specifies and verifies the engine in `src/multimodal-db`: a small
relational database over text, images and audio, with its own page buffer, six
kinds of index, a SQL subset, a persistent catalog and a REST API. Each module
is translated from the Python code and names it; `PROJECT.json` maps every
definition to the lines it stands for.

Run anything here with

    tlc -workers 2 -config MCHeapFile.cfg MCHeapFile
    tlapm LRUBufferProofs.tla      # LRU buffer
    tlapm SharedBufferProofs.tla   # some three minutes
    tlapm IndexContractProofs.tla  # hash and R-tree, some twenty minutes
    tlapm IsamProofs.tla           # ISAM, some sixteen minutes

## The system

Requests go down these layers; each calls only the next.

    Next.js UI -> FastAPI (api/) -> Session, Catalog (service/)
      -> parser, planner, executor, index factory, fusion (query/)
      -> indexes (indices/, multimedia/) -> LRU buffer (core/buffer)
      -> storage engine: heap files or one PostgreSQL table (core/storage)

| Component | State | Operations | What makes it correct |
|---|---|---|---|
| Storage engine (`core/storage`) | pages by file and number | read, write, allocate | a page reads as its last write; a crash leaves a whole page, old or new |
| Heap file (`heap_file.py`) | `.heap`, `.dir`, `.free`; the free list also in memory | read, write (in place, or moved to a hole or the end), allocate | no byte has two owners; no space is lost; memory and `.free` agree between operations |
| LRU buffer (`lru_buffer.py`) | ordered cache of pages, dirty flags, pins | get, pin, unpin, flush | nothing written is lost or changed by eviction; dirty means different from disk; bounded memory |
| Indexes (`indices/`, `knn_index.py`) | an in-memory structure and its snapshot in one file | build, insert, search, delete, load | all answer like a multimap from keys to records; a new process loads what was saved |
| Executor (`executor.py`) | columns, live indexes and rows of each table | create and drop table, create index, insert, delete, select | rows reach the indexes of their table only |
| Catalog, session (`service/`) | columns and registered indexes, saved on each change | register DDL, rehydrate on start | a restart brings back exactly what was in use |
| Planner, fusion (`query/`) | none | plan a statement; combine rankings | the plan matches the predicate; ranks are combined symmetrically |
| Inverted index, SPIMI (`indices/inverted`) | postings, chunks, vocabulary; sorted blocks on disk | build in blocks, merge, insert, delete, rank | postings of the merge are those of the texts |
| Codebook, resolver (`multimedia/`) | trained centroids, in memory and saved | train on first use, quantize, save, load | one codebook for all histograms of an index |
| Import, comparison, benchmarks, UI | none of their own | SQL clients | not modelled |

Components share state in two ways. All indexes share one buffer and one storage
engine (`EngineIndexFactory` makes one buffer per engine; the catalog and the
codebooks have buffers of their own over the same engine, on other files). And
all requests share one executor and one catalog: `POST /query` is a plain `def`,
so FastAPI runs it in a thread pool, and nothing in the engine takes a lock.

The hard behaviours are therefore: threads interleaving inside the buffer and the
indexes; a crash between any two of the file writes an operation makes; an
exception in the middle of an operation that changes several structures; and
long sequences of legal statements across restarts, where the executor, the
catalog and the snapshots can come to disagree. `PROJECT.json` lists them
as hazards, each at its line.

## The modules

| Module | Models | Checked by | Proofs |
|---|---|---|---|
| `PageStore` | what a buffer over an engine promises (abstract) | as a property of `LRUBuffer` | |
| `LRUBuffer` | `lru_buffer.py` driven by one thread, with failures and crashes | `MCLRUBuffer` | `LRUBufferProofs` |
| `SharedBuffer` | the same code under the threads that serve queries | `MCSharedBuffer` | `SharedBufferProofs` |
| `HeapFile` | `heap_file.py`, one file write per step, with crashes | `MCHeapFile` | `HeapFileProofs` |
| `QueryEngine` | executor, session, catalog and index snapshots under SQL statements | `MCQueryEngine` | `QueryEngineProofs` |
| `IndexPorts`, `BPlusTree`, `ISAM`, `ExtendibleHash`, `RTree` | the data structures of the ordered indexes and of points, as operators on a value | `IndexContract` | `IndexContractProofs`, `IsamProofs`; `BPlusTree` not |
| `SnapshotPages`, `Spimi`, `InvertedIndex` | lines cut into pages; postings built in blocks and merged; documents, chunks and vocabulary | `IndexContract` | |
| `KnnIndex` | vectors, the lists of their words, the cached matrix, pruned searches | `IndexContract` | |
| `IndexContract` | the six of them driven by the same calls | `MCIndexContract` | `IndexContractProofs` (hash, R-tree), `IsamProofs` |
| `HybridSearch` | hybrid queries over a KNN index, a text index and the rows in memory | `MCHybridSearch` | |
| `CodebookLifecycle` | the codebook of media files: trained, saved and loaded, under two threads and crashes | `MCCodebookLifecycle` | `CodebookLifecycleProofs` |
| `DataLemmas` | induction on finite sets, sequences defined step by step, division and low bits, folds as recursive functions, sequences that list a set, chains of links | | itself |

Definitions whose names begin with `Bad` are plausible slips of the definition
that follows them. No action uses one; substituting it for the original makes
the property it was written for fail, which shows the property depends on that
piece of code.

### PageStore and LRUBuffer

`PageStore` has two variables: what each page reads as now (`contents`) and what
would survive a crash (`durable`). A step writes a page, makes one durable, or
restarts with `contents` equal to `durable`.

`LRUBuffer` keeps the code's `OrderedDict` as a set of keys and a strict total
order on it (`older`), so that the least recently used pages can be named without
sequences. `get` is split as the code is: a hit moves the key to the end; a miss
reads the engine and inserts the page *before* room is made, then either fits,
evicts, or raises because everything else is pinned. Since a `get` that raises
leaves its page in, the next one may have to evict several. Eviction and flush
share `_write_back`, one step per page in the order of file and page number, so a
crash or an engine failure can fall between any two. A client may write to the
page its last `get` returned and to pinned pages, as the index code does
(`_write_page`). `job` is the call in progress; `held` and `raised` remember what
the last call gave its client.

### SharedBuffer

The same class at the granularity at which Python threads interleave: the lookup,
`move_to_end`, the read, the insertion, the overflow, the opening of the iteration,
the scan for victims, each engine write, each `dirty = False` and each `del` are
steps of their own, and `Page` objects have an identity, because two misses of one
page make two objects and a thread can keep one the cache no longer has. An
iteration over the cache raises if another thread changes the cache while it is
open (`stale`), as in Python; but `_make_room` computes its overflow (`Room`)
before the iteration opens (`Open`), and what changes in between raises nothing:
it then evicts by a number that may be too large. `excess` is history and says that
this has happened once. A thread loads a page or saves one the way an index does:
get, replace the bytes, set the flag, flush the file. Calls may end by raising, and
then they are over.

Threads that work apart are safe exactly until then. `shared_buffer` checks, and
`SharedBufferProofs` proves, `WritesReachCache`, `DirtyMarksDifference` and
`SaveReachesDisk` of the states before any excess; `shared_buffer_eviction` checks the
last of them without that exception (`FlushWritesDirtyPage`) and finds the save that
is lost; `shared_buffer_race` checks `FlagsAreRight` of threads on the same pages.

### HeapFile

A byte of `.heap` is named by the page and content it belongs to, which is enough
to say which write a page reads as and who owns an offset. `write_page` is the
sequence of its file writes: entries added by `_ensure_slot`; the bytes and then
the length of an overwrite in place; or the bytes at the new place, the entry,
and the free list, which is truncated when opened and filled when closed. `free`
is the list in memory. A crash can come between any two.

### QueryEngine

One action per SQL statement that changes state, plus restarts. The executor's
dictionaries (`tables`, `indexes`, `tableRows`) and the catalog in memory die with
the process; the snapshots (`disk`) and the saved catalog (`saved`) do not. An index
is abstracted to the set of rows it answers with, and rows are numbered as they are
inserted. `CREATE INDEX` loads the snapshot of its file and neither empties it nor
fills it from the table.

The file of an index is `type_table_column`. Names are sequences of the words
between their underscores and `File` joins them, so two pairs of names may share a
file. A snapshot says of each row the column it is of (the code writes the column
once), and an index loads only what says its own column; a KNN index does not look
(`Unlabelled`), and so loads the rows of another table if the names meet. Indexes of
the other types start empty then, and the next save overwrites the other's.

Every change is made in memory first (`Change`) and saved after (`Saved`). A save may
raise (`NotSaved`, `SaveRaises`): memory stays ahead, and the page was either not
touched or is left dirty in the buffer (`buffered`), which may write it back at any
later moment (`WriteBack`). `unsaved` is history: the files with no save since one that
raised. The catalog fails likewise (`SaveCatalog`), and as it takes several pages it
may be left half saved, also by the process dying; what is half saved does not
parse, and the next process starts with no table while the snapshots are all there.

`INSERT` is several steps: `Insert` remembers the row, then each `InsertNext` takes the
next index of the dictionary, which takes the row and saves itself; or raises,
having taken the row or not, which ends the statement; or returns a failure, which
the executor ignores. Between two of these the process may die, or another thread
may serve a statement (`Served`, counted in `pending`); when that changes how many
indexes there are, the dictionary raises and the `INSERT` ends half way
(`InsertReturns`). An index created again in its place is met as it then is. One
`INSERT` goes on at a time. `DELETE` reaches the index of its column only. `Restart` is
`rehydrate_executor`. `RegisteredIndex` is what the planner reports for a column and
`AnyIndex` what a `SELECT` without `WHERE` reads.

### The index structures and IndexContract

Each structure is a value and each method an operator from value to value, since
nothing can come between two of its steps while one thread drives it. The tree is a
table of nodes, so that `next` and `children` stay references: a split must
repair both, and a delete may leave an empty leaf in the chain. Inserting folds
over the path from the leaf upwards; the snapshot keeps entries, so `Reload`
inserts them again into an empty tree. An ISAM page has a fence (`high_key`) and a
chain of overflow pages; a bucket of the hash has its local depth and its
entries, and `InsertRecord` splits until there is room. A search returns records
or ends in an exception; Python's `None` cannot be compared with a key. The R-tree
is the numbers the code gives its points; the tree of the `rtree` library is
external, and its `nearest` returns ties, which the code sorts and cuts.

`SnapshotPages` says how rows of text become pages and are read back, the same in
three files: whole rows to a page, a long row over pages of its own, or a stream
cut anywhere. `Spimi` builds postings in blocks of a few documents, writes each to
pages, and merges them through a heap, one entry at a time. `InvertedIndex` adds
documents, chunks and the vocabulary: frozen by a `build` with a limit, or counted
again after every change. Of a score only whether it is zero is kept, so a ranking
is a set. `KnnIndex` keeps the lists as bags, because an insert of the same file
repeats it and a delete removes one copy, and their lengths decide which words
prune a search; a cosine is compared as a fraction of integers.

`IndexContract` is `tests/test_index_contract.py` over every sequence of calls
instead of one, for the six kinds of index: `rows` is what the index was given and
has not been told to delete. To the text and the KNN index a second row with the
same key is a new version. An inverted index with a limit is built from rows or created
empty, never built from nothing: a vocabulary frozen with no word in it would
come back from a restart unfrozen (`text_index.py:353` tests it with `if`), but no
query calls `build`, and the benchmarks and tests that do give it rows.

### HybridSearch

One table with a media column and a text column. A row goes into the rows in
memory and into the indexes that exist; the media file may not resolve, which is
a failure nobody looks at. `DELETE` reaches one index, and never the rows in memory.
A query takes three times k hits of each index, fuses them (`RRF`, over a common
denominator instead of floats) and shows every file with the record of the text
index or, failing that, the last row in memory. `log` is history: each row and the
places that hold it still. `RowsShown` says from that history alone which row a
hit must show; it includes what the code makes of two rows with one text (the
second replaces the first) and of a restart (hits by picture have no columns).
`FusedOrder` asks that a file found by both searches is not behind one found by one
only of places up to `K0 + 1`, 61 in the code: further down it is false, and two
appearances at place 63 weigh 2/123, less than one at the first place, 1/61. A query
with k = 21 reaches such places; the three rows of the run do not.

### CodebookLifecycle

A call asks for the vector of a file: if the resolver is not `_fitted` it reads the
files uploaded so far, fits, computes the weights, sets the flag and saves; then it
quantizes, and the vector is inserted or searched for. Every access of a training to
what threads share is a step another thread may interleave: `fit` reads the number of
words (`FitStart`), and when it is to shrink replaces it, the model and the weights in
three assignments (`FitShrink`, `FitModel`, `FitOnes`); a thread goes on training the
model it began with; `compute_idf` reads the number of words (`ComputeIdf`) and replaces
the weights later (`SetIdf`), by then perhaps those of a codebook of other length. The
vector of a file is one step, see the head of the module. The pickle is two pages
behind a count; a save may raise between any two (`SaveRaises`), after the flag was set;
what is left of an old codebook and a new one may be unreadable, and then the server
does not start. What k-means finds is the constant `KMeans`, of which only is assumed
that it gives at least one and at most k centroids (`KMeansAssumption`);
`MCCodebookLifecycle` gives it the centroids at the least total distance.

`mishaps` is history and records what the code does not prevent: a training that
started while another went on or was over (`together`), a save that raised (`raised`),
and a codebook lost because the process died before its save ended or after it raised
(`lost`). `OneCodebook` holds without `together` and `lost`, `SavedCodebook` without any
of the three, and model and weights are as long as there are words without
`together`. After them TLC reaches, among others: vectors of different lengths in one
index, so that every search raises; vectors of two codebooks of one length, which
compare without meaning; a saved codebook with fewer words than weights; one with the
centroids of one training and the weights of another; a process that cannot start.

## What is checked

| Run | Question | States |
|---|---|---|
| `lru_buffer` | does one thread ever lose a write, or read a page that eviction, a failure or a crash changed? does a get that returns bring the cache back to its capacity? | 2 586 192 |
| `lru_capacity` | is the cache always within its capacity? (no) | |
| `shared_buffer` | are two threads on different files safe at every interleaving, while no get evicts more than is over? | 510 790 |
| `shared_buffer_eviction` | and without that exception? (no) | |
| `shared_buffer_race` | and on the same page? (no) | |
| `heap_file` | does every page read as its last write, and does every byte have one owner? | 900 183 |
| `heap_file_crash` | are the holes in `.free` always reusable? (no) | |
| `query_engine` | do executor, catalog and snapshots stay consistent through failures, DDL, saves that raise and restarts? | 468 364 |
| `query_engine_names` | whose rows does an index answer with when files collide? | 1 202 796 |
| `index_contract` | do the six indexes answer like the rows they were given, and keep their structure? | 37 854 |
| `hybrid_search` | is the fused list in order, and every hit shown with its row? | 57 074 |
| `media_codebook` | do an index, the codebook in memory and the saved one stay together? | 3 911 121 |

The longest takes some three minutes. The four runs that end in a violation show
disagreements between the code and its own text, quoted in `PROJECT.json` under
`findings`:

- a `get` that raises leaves the cache above the capacity the README promises
  as a maximum; each further failure adds a page (`RamBounded`);
- two threads that miss the same page can leave a page marked clean with bytes
  that are not the engine's (`FlagsAreRight`);
- of two threads on different pages, one can evict the page the other was just
  given, because it computed its overflow before the other one evicted; the other's
  save then flushes nothing (`FlushWritesDirtyPage`);
- a crash between the last two writes of `write_page` leaves a hole in `.free`
  that a live page occupies, and the next page to grow is written over it
  (`HolesAreReusable`).

The models also show, without a run that says so: that `CREATE TABLE` on a table that
exists changes its columns until the next restart only (`CreateTable`); that `DELETE`
leaves the row in the indexes of the other columns (`Delete`); that two indexes whose
names meet in one file overwrite each other's snapshot (`File`); that `<`, `<=`, `>` and
`>=`, which the planner makes a range with `None` on one side, end in a `TypeError` on any
ordered index that holds a row (`SearchRange`, `Filter`); that a codebook may be trained
twice (`Check`, `FitStart`).

### Bounds, and why they are enough

- `MCLRUBuffer`: four pages in two files, two contents, capacity two, one pin to a
  page and at most two pages pinned (`TwoPins`). A third page forces eviction, two
  files make `flush(file)` leave something dirty, pinning both cached pages makes
  `get` raise, and after that the fourth page makes one evict two.
- `MCSharedBuffer`: two threads of two operations each, capacity two and a dirty
  page left by earlier requests, so that one thread evicts while the other works.
  A race needs two threads; each property speaks of one page and its objects.
- `MCHeapFile`: two pages, contents of one to three bytes, seven bytes of file
  (`MaxFile`). A page that grows leaves holes of one and two bytes, both sizes of
  hole are competed for, and three relocations fit.
- `MCQueryEngine`: two kinds of index, one that raises, one that fails in silence and
  does not label its snapshot; two live and two registered indexes (`MaxLive`,
  `MaxRegistered`), one row (`MaxRows`). No statement treats a row by what other rows
  are and every property speaks of one row at a time, so a run with more rows is
  several of these side by side. In `query_engine`, one table of two columns, in which
  two saves fail (`MaxFailures`): of two files, or of a file and the catalog, or twice
  of one. An `INSERT` is overtaken by at most one statement (`MaxOverlap`): one is enough
  to change the dictionary, to replace an index or to delete the row, and with two the
  dictionary could lose an index, gain another and be as long as it was. The columns
  are symmetric: no definition names one. In `query_engine_names`, tables `docs` and
  `docs_name` and columns `path` and `name_path`, two of whose four pairs share a file; no
  save fails there and nothing overtakes, which keeps the run small; the theorem
  `RowsStayInTheirTable` has no such bound.
- `MCIndexContract`: nodes of two keys, pages and buckets of two records. The tree
  has seven keys, which give it three levels and split an internal node below the
  root; ISAM four keys, three of them with two rows, enough for duplicates over
  a fence and a chain of two overflow pages; the hash five keys of which three
  share two bits of digest (`HashBits` is four), so one insert splits and doubles
  twice. The number of rows (`MaxCopies`) bounds these structures: all of them reuse
  what deletes leave empty. The R-tree has four points, one double, with equal
  distances among them; its numbers only grow, so `MaxNumbered` ends a process at
  six. The text index has four documents, two with two versions, of one to three
  chunks (`WindowWords` is two), in blocks of two documents (`BlockDocumentLimit`)
  cut every three bytes (`BlockPageSize`) and posting pages of two
  (`PostingPageSize`), with and without a vocabulary of two words, fewer than any
  text has. The KNN index has five files, two with two versions; with `Oversample` 1
  a search for one file prunes, as the code's 4 does from fourteen files on; the
  lists grow by a repeated insert and `MaxListed` ends that at five.
- `MCHybridSearch`: three rows (`MaxRows`) of five kinds: two files with one text, one
  file with two texts, one that does not resolve; four queries, of which one asks
  for a file without a vector and k goes from one to more than all. The cut at
  three times k never takes a hit away in this instance.
- `MCCodebookLifecycle`: two threads, since a race needs two; two files (of two looks
  and of three) and at most three words (`MaxK`), so that training on the first file
  alone shrinks the codebook; one death (`MaxRestarts`), which may cut a save; what the
  next process would load is asked of every state, so a second one would add nothing.
  Threads are symmetric.

### Fairness

No liveness property is stated, so no fairness is assumed: no operation of these
modules waits for another one. The loops of the code go over lists fixed before they
begin, or grow a bucket towards a bound (`RoomIsMade`, below), and end by that.

## What is proved

Every safety property that the runs of the buffer, the heap file, the executor with
its catalog and the codebook check is also a theorem, for every value of the
constants; so is what the run of the indexes asks of the hash, of ISAM and of the
R-tree. Each of the first five proof modules states one inductive invariant `IInv`,
shows that `Init` implies it and that every action preserves it, and reads the
properties off it. The indexes have one such invariant for each kind.

| Module | For any | Theorems | Properties |
|---|---|---|---|
| `LRUBufferProofs` | finite set of pages, contents, positive capacity, bound of pins | `TypeCorrect`, `CleanPagesMatchDisk`, `WritablePagesStayCached`, `CapacityRestored`, `FlushDurable`, `Refinement` | all of `lru_buffer` |
| `SharedBufferProofs` | finite sets of threads and pages, contents, capacity; all but `TypeCorrect` of threads that work apart | `TypeCorrect`, `WritesAreNotLost`, `TheFlagIsRight`, `SavesAreDurable` | all of `shared_buffer` |
| `HeapFileProofs` | pages, contents, sizes, length of the file | `TypeCorrect`, `FreeListAlwaysSaved`, `PagesReadBack`, `EveryByteHasOneOwner`, `SpaceIsKept` | all of `heap_file` |
| `QueryEngineProofs` | finite set of tables, columns, names, values, kinds of index, bounds | `TypeCorrect`, `RowsStayInTheirTable`, `CatalogAgrees`, `RestartIsInvisible` | all of `query_engine` and `query_engine_names` |
| `CodebookLifecycleProofs` | threads, finite set of files, looks, words, k-means | `TypeCorrect`, `VectorsOfOneCodebook`, `CodebookIsSaved` | all of `media_codebook` |
| `IndexContractProofs` | finite set of keys, digests that differ, number of bits, capacity of a bucket; finite set of points | `HashEquality`, `HashRange`, `HashTyped`, `DirectoryAlways`; `RTreeEquality`, `RTreeTyped`, `SpatialAlways` | of `index_contract`: `EqualityAnswers`, `RangeAnswers`, `TypeOK` of the hash; `EqualityAnswers`, `TypeOK` of the R-tree; `DirectoryConsistent`, `SpatialAnswers` |
| `IsamProofs` | finite set of keys, capacities of a page and of an overflow page | `IsamEquality`, `IsamRange`, `IsamHeads`, `FencesAlways` | of `index_contract`: `EqualityAnswers`, `RangeAnswers`, `TypeOK` of ISAM; `FencesBound` |

### LRUBuffer

    IInv == TypeOK /\ CacheOK /\ JobOK

`CacheOK` says what the cache holds (pages that differ from the engine's copy are
cached and dirty, the page a handler may write is cached). `JobOK` says what a call
in progress may rely on: while it evicts, the victims are cached, unpinned and not
the page being fetched, the pages still to write are the dirty victims, and enough
victims were chosen to come back to the capacity; while it flushes, the pages
still to write are the dirty ones of its scope. Without `JobOK`, the
step that deletes the victims could drop a dirty page. `Refinement`
maps every step: `Modify` to a write, `WriteNext` to a page made durable, `Crash`
to a restart, everything else to a stutter; evicting is a stutter exactly because
victims have been written.

### SharedBuffer

    Whole == Typed /\ excess \in BOOLEAN /\ Placed /\ \A t \in Threads : Held(t)
    IInv  == Typed /\ Ordered /\ Cached /\ ColdClear /\ \A t \in Threads : Fine(t)

`Whole` holds of any threads, on the same pages too: a key is once in the order and
is the page it is under (`Placed`), and a call has the page it is about and writes back
one object of a page (`Held`). It gives `TypeCorrect` without suppositions.

`IInv` holds while `excess` is false, and its theorems suppose `Apart`: no file is used by
two threads, the pages in use fit in the capacity, and what earlier requests left in
the cache are other pages. The run is an instance of it (`ApartAssumption`, which TLC
evaluates); `shared_buffer_race` shows that the first part cannot be dropped, and
`shared_buffer_eviction` that `excess` cannot. `Fine(t)` says what thread t may rely on at
each point of a call: the page it holds is the cached one, its victims are pages nobody
works on, each object of a write-back is the one object of its page, and a save that
goes on has its bytes in its page until they are on the disk. `Undisturbed` is the heart
of the argument: a step of another thread that changes only its own pages, or cleans a
page on the disk, leaves `Fine(t)` true; then each action has to be looked at for its own
thread only. Two facts need counting. The victims are never pages in use (`Victims`):
old pages stay before them in the order, and if one were reached, more than `Capacity`
pages would be in use, which holds only as long as what is taken out is what is over.
And a miss finds a `Page` object nobody refers to (`SomeGarbage`), because the objects of
the cache and the write-backs have different keys.

### HeapFile

    IInv == Typed /\ Bounded /\ Saved /\ (~torn => Owned /\ Read) /\ Unwritten /\ Kept

`Owned` says that the places of pages, the holes in memory and the holes in `.free`
are disjoint extents, with the exceptions the steps of `write_page` make: the page that
moves has its old place, already a hole, until its entry is written, and `.free` offers
the hole just taken until it is saved. Those exceptions are the two places where a
crash does damage (`torn`), so what is promised there stops. `Read` says that each entry
covers the bytes of its page; `Bounded` that everything ends within `.heap`; `Kept`, that
until a crash every byte is covered; `Unwritten`, that a page without an entry was never
written; `Saved`, when memory and `.free` agree. Neither `OneOwner` nor `ReadsLastWrite` is
inductive without the other: a write in place keeps other pages because places are
disjoint.

### QueryEngine

    IInv == Typed /\ Known /\ LastInUse /\ Current /\ Owned

`LastInUse` says that the registration of a column that no later one follows has a live
index of its type: it is what a restart needs to bring back what is in use, although
the catalog keeps older registrations. `Current` says that an index whose file is its
own, and whose last save did not raise, is what a new process would load. `Owned` speaks
of every snapshot, as this process reads it and as the next one would, those of dropped
tables and indexes included, since the next `CREATE INDEX` starts from them: what an
index may take for its own there was inserted into its table, with a value in its
column. Without it `RowsInOwnTable` is not inductive. Both rest on what names do:
`SameStart`, that two names followed by the same words are the same if what follows is,
and `FileFacts`, that indexes which share a file are of one type, and of one table if they
are of one column. `RestartKeepsAnswers` needs what rehydrating a whole catalog computes,
which is a recursive function: `RehydratedFacts` says what it leaves for a catalog of any
length.

### CodebookLifecycle

    IInv == /\ Typed /\ Trained
            /\ "together" \notin mishaps => Lone
            /\ mishaps \subseteq {"raised"} => Memory
            /\ mishaps = {} => OnDisk

`Typed` holds after any mishap, with pages of different codebooks side by side, and so
does `Trained`: the resolver is `_fitted` only if the codebook is. `Lone` is what two
trainings put an end to: one thread at most trains, and the lengths of a codebook differ
only between its three assignments, or in what that thread is about to assign. `Memory` is
what losing the codebook ends: before training there is no vector, and those in the index
and on their way to it were made by the codebook in memory, which is the one being saved.
`OnDisk` is what a save that raises ends: the pages written so far are those of that
codebook and the others are missing. `TypeCorrect` claims the equal lengths, of model,
weights and words, only where `Lone` gives them.

### IndexContract

    RowsInv  == kind \in Kinds /\ RowsClosed
    HashInv  == kind = "hash"  => GoodTable(index) /\ Finds(index, rows)
    RTreeInv == kind = "rtree" => Numbered(index, rows)
    IsamInv  == kind = "isam"  => IsPlaced(index, rows)

`EqualityAnswers`, `RangeAnswers` and `TypeOK` speak of whichever kind the behaviour
tests, so a theorem about one kind is of the form
`Spec => [](kind = "hash" => EqualityAnswers)`. `DirectoryConsistent`, `FencesBound`
and `SpatialAnswers` are about one kind each, and are proved as the run states them.
`RowsClosed` says that a row has the rows of its key with smaller numbers beside it, so
that an insert gives a new one. What a structure returns is a sequence, what it should
return a set: `Lists(seq, S)` says that the sequence has each element of the set once,
and most lemmas say what an operator does to such a list (append, join, sort, slice).

*Hash.* `GoodTable` says that each slot leads to a bucket and each bucket has a slot
(`DirectoryWhole`), that two slots share a bucket exactly when they agree on its bits
(`DirectoryAgrees`), that depths go from one to the global one, which some bucket has
(`DepthsBound`), and that keys are where their digests lead, within the capacity
(`KeysPlaced`). `Finds` says that `SearchKey` lists the rows of a key. Neither follows from
the answers: a bucket reached through a wrong slot answers until the next split.
`SplitGood` proves that one split, with the doubling it may need, keeps all of it, and
`RoomIsMade` that splitting ends: the loop of `insert` goes on while the bucket is full of
other keys, each turn makes it a bit deeper, and a bucket as deep as `HashBits` holds one
key, because digests differ. Without that assumption the claim is false, and the code
would split until the directory fills the memory.

*R-tree.* `Numbered` says that the three dictionaries have the same numbers, all below
`next_id`, that the tree has the point of each row, and that each row has one number.
`Reload` gives the numbers again from one. `SpatialAnswers` then needs what sorting and
cutting ties do: `nearest` may return more than k, and what the cut keeps is k rows with
none nearer left out, however ties fall.

*ISAM.* A row does not say where it is stored, so `IsPlaced` gives three maps: `own`,
from an overflow page to the primary page of its chain; `page`, from a row to its
primary page; `spot`, from a row to its overflow page, or zero. `GoodChains` says that links
go forward and that the chain of a page lists the pages it owns; `RowsHeld`, that each page
lists the rows the maps give it, within its capacity; `FencesFit`, that a row's key is at
most the fence of its page and at least the fence before. `FencesBound` is not inductive without the
maps: a page emptied by deletes keeps its fence, and what may be put in it depends on
the page before. A build cuts the sorted rows into pages (`IsamBuilt`); an insert may
raise the last fence (`FenceRaised`) and puts its row in the primary page, in an overflow
page with room, or in a new one at the end of the chain (`AddedPrimary`,
`AddedOverflow`, `AddedNew`). Duplicates of a key may lie on both sides of a fence:
`CandidatesHold` proves that `_candidate_pages`, which goes on over the pages whose fence
is the key, misses none of them.

The model's sort is the stable insertion sort `SortedBy`, since the definition of the library's
`SortSeq` has no value when two elements are neither before the other.

### Assumptions

The named `ASSUME`s of the modules, as weak as the code allows; TLC evaluates them in
the runs.

- `LRUBuffer`, `SharedBuffer`: pages are pairs of naturals, finitely many; capacities and
  bounds are naturals (positive in `LRUBuffer`); `None` is neither a page nor an object.
- `HeapFile`: page numbers start at zero, sizes are positive, `MaxFile` is a natural.
- `QueryEngine`: the tables are finitely many, `MaxRows` and `MaxFailures` are naturals
  (`TablesAssumption`); names are sequences of words (`NamesAssumption`), two of which may
  join to one file; the kinds of index that may raise, fail or leave their snapshot
  without a label are kinds of index (`TypesAssumption`); at most one statement is served
  while an `INSERT` goes on (`OverlapAssumption`), which is a bound of the model and not of
  the code: with two, a dictionary could lose an index, gain another and be as long as it
  was.
- `IndexContract`: keys are integers and points pairs of integers, finitely many, each with
  a positive number of rows (`KeysAssumption`, `PointsAssumption`); capacities are positive
  (`CapacityAssumption`); the digests of distinct keys are distinct and have `HashBits`
  bits (`HashAssumption`), as those of a good hash of many bits are. What
  `TextAssumption` and `VectorAssumption` say no theorem uses but for the number of rows of
  a key.
- `CodebookLifecycle`: looks are integers, finitely many to a file; k-means as above; a
  missing page is not a page.

The library's induction principles take an operator as a parameter, which the provers
cannot use. `DataLemmas` gets what these proofs need of induction from facts about
finite sets: `InductionOnSets`, that a set which contains zero and the successor of
each natural in it contains every natural, and `RecursiveSequence` for a function defined by
steps. `FoldRecursion` and `FoldLeftRecursion` turn a fold of the library into such a function,
whose values can then be unfolded one element at a time.

### Only model-checked, and why

- `IndexContract`, the B+ tree: `TreeShape`, and `EqualityAnswers`, `RangeAnswers` and
  `TypeOK` of that kind. A split goes up a path in a table of nodes that refer to one
  another, so the invariant is about a tree of any height and each step changes a path of
  any length: an induction over data that no lemma here covers.
- `IndexContract`, the text and the KNN index: `TextAnswers`, `KnnAnswers`, `VocabularyKept`,
  and `TypeOK` of those kinds. Their answers go through postings merged from blocks, and through
  cosines summed over the words of a query.
- `HybridSearch`: `TypeOK`, `FusedOrder` and `RowsShown` are about those two indexes together,
  and about sums over their rankings.

## What is not modelled, and why

- The parser, stemming, feature extraction and k-means: conversions by libraries,
  without state of their own. What `CodebookLifecycle` asks of k-means is external
  and deterministic, as `random_state` makes it.
- The structure of the R-tree, which belongs to the `rtree` library.
- The order in which the text index ranks: scores are floats, and only whether one
  is zero decides what is found.
- `WeightedSumFusion` and `pipeline.py`, which no query reaches, and the routing of
  files between two modalities.
- The UI, the importer, the benchmarks and the comparison scripts: clients of the
  engine. The record codec: no component calls it.
- The PostgreSQL engine: one statement for each operation, so `PageStore` as it is.
- In `QueryEngine`, two `INSERT`s at once, a statement between the executor's part
  of another and the catalog's, and one between the moment an `INSERT` takes an
  index from the dictionary and the end of that index's insert: a `CREATE INDEX`
  of the same column would then leave the old object, which nobody reads any
  more, to save the row. A snapshot there is one page, saved or not: a save cut
  between its pages is not modelled. Nor is a value that JSON cannot encode: the
  save is skipped and nobody is told, but no SQL literal is such a value.
  Threads inside an index or a heap file are recorded as hazards.
- A text index whose save is cut: see its hazard.
- Undetected disk corruption, and writes the operating system reorders.

## Plan

Done: every module above; the safety properties of `LRUBuffer`, `SharedBuffer`,
`HeapFile`, `QueryEngine` and `CodebookLifecycle` proved, and those of the hash, of ISAM
and of the R-tree in `IndexContract`. What is left, in this order:

1. The B+ tree: the keys under each node of the table lie between its separators, by
   the same kind of map from rows to leaves as for ISAM.
2. `SharedBuffer` on the same pages: `TypeCorrect` holds there already; which saves reach
   the disk when two threads never save one page at once.
3. That what `SnapshotPages` writes it reads back, and that `HeapFile`, between operations,
   implements the durable half of `PageStore`.

Then, if a run can be spared: two threads in one heap file, and a text index whose
save is cut.
