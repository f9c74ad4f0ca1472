---------------------------- MODULE QueryEngine ----------------------------
(***************************************************************************)
(* What SQL statements do to the three places that describe the database:  *)
(* the executor's dictionaries (query/executor.py), which die with the     *)
(* process; the catalog (service/catalog.py), saved on every change; and   *)
(* the snapshot every index keeps in the file its type, table and column   *)
(* name (query/index_factory.py).  service/session.py runs a statement in  *)
(* the executor and then registers it in the catalog; rehydrate_executor   *)
(* rebuilds the first from the other two when the process starts.          *)
(*                                                                         *)
(* An index is the set of the rows it answers with; a snapshot, the set it *)
(* was saved with, each with the column the snapshot says it is of.  Rows  *)
(* are numbered in the order they are inserted.                            *)
(*                                                                         *)
(* Every change is made in memory first and saved after, through the       *)
(* buffer (LRUBuffer), where the storage may raise: the statement ends     *)
(* with memory ahead of what is saved.  A snapshot is one page here, so it *)
(* is saved or not; the catalog may also be left half saved, also by the   *)
(* process dying, and then loads as no table at all.                       *)
(*                                                                         *)
(* An INSERT goes from index to index over the executor's dictionary, one  *)
(* at a time, and takes no lock: another thread may serve a statement      *)
(* between two of them, and the process may die there.  The grain is one   *)
(* index, from the dictionary's next entry to the return of its insert;    *)
(* every other statement is one step.                                      *)
(***************************************************************************)
EXTENDS Integers, FiniteSets, FiniteSetsExt, SequencesExt

CONSTANTS
    Words,
    Tables, Cols,   \* names: sequences of the words between their underscores
    Values,
    Types,          \* of indexes
    Unlabelled,     \* the types whose snapshot does not say its column
    Raising,        \* the types whose insert may raise, having done nothing
    Failing,        \* those whose insert may return a failure
    MaxRows,        \* bound: rows ever inserted
    MaxLive,        \* bound: indexes in the executor
    MaxRegistered,  \* bound: indexes in the catalog
    MaxOverlap,     \* bound: statements served while an INSERT goes on
    MaxFailures     \* bound: saves that raise or are cut, in one process

ASSUME TablesAssumption == IsFiniteSet(Tables) /\ MaxRows \in Nat /\ MaxFailures \in Nat
ASSUME NamesAssumption == Tables \subseteq Seq(Words) /\ Cols \subseteq Seq(Words)
ASSUME TypesAssumption == Unlabelled \cup Raising \cup Failing \subseteq Types
\* With two, a dictionary could lose an index, gain one and be as long as it was.
ASSUME OverlapAssumption == MaxOverlap \in {0, 1}

VARIABLES
    tables,     \* executor: columns of a table, none if it does not exist
    indexes,    \* executor: the indexes of a table in dictionary order
    tableRows,  \* executor: rows inserted into a table
    catalog,    \* columns of a table, none likewise, and its registered indexes
    saved,      \* the catalog that a new process would load
    buffered,   \* snapshot of each index file, as this process reads it
    disk,       \* and as a new process would
    unsaved,    \* history: files with no save since one that raised
    failures,   \* history: how many saves have failed
    inserted,   \* every row there has been
    pending     \* the INSERT of the last of them, if it has not returned

snapshots == <<buffered, disk, unsaved>>
storage == <<saved, snapshots, failures>>
vars == <<tables, indexes, tableRows, catalog, storage, inserted, pending>>

\* "{type}_{table}_{column}": two pairs of names may share a file
File(type, t, col) == <<type, t \o col>>

Files   == { File(type, t, col) : type \in Types, t \in Tables, col \in Cols }
Ids     == 1 .. MaxRows
Records == UNION { [cs -> Values] : cs \in (SUBSET Cols) \ {{}} }
Live    == [col : Cols, type : Types, rows : SUBSET Ids]
Entry   == [col : Cols, type : Types]
NoTable == [cols |-> {}, ix |-> <<>>]
NoTables == [t \in Tables |-> NoTable]
Snapshot == SUBSET (Cols \X Ids)
NoInsert == [going |-> FALSE]

\* _indexes is a dictionary: a column has one index at most
TypeOK ==
    /\ tables \in [Tables -> SUBSET Cols]
    /\ \A t \in Tables :
         /\ indexes[t] \in Seq(Live)
         /\ \A i, j \in DOMAIN indexes[t] :
              indexes[t][i].col = indexes[t][j].col => i = j
         /\ \A c \in {catalog[t], saved[t]} : c.cols \in SUBSET Cols /\ c.ix \in Seq(Entry)
    /\ tableRows \in [Tables -> SUBSET Ids]
    /\ buffered \in [Files -> Snapshot] /\ disk \in [Files -> Snapshot]
    /\ unsaved \subseteq Files /\ failures \in 0 .. MaxFailures
    /\ inserted \in Seq([table : Tables, record : Records]) /\ Len(inserted) <= MaxRows
    /\ pending \in {NoInsert} \cup [going : {TRUE}, at : Nat, size : Nat, overlap : 0 .. MaxOverlap]
    /\ pending # NoInsert => inserted # <<>>

Init ==
    /\ tables = [t \in Tables |-> {}]
    /\ indexes = [t \in Tables |-> <<>>]
    /\ tableRows = [t \in Tables |-> {}]
    /\ catalog = NoTables /\ saved = NoTables
    /\ buffered = [f \in Files |-> {}] /\ disk = buffered
    /\ unsaved = {} /\ failures = 0
    /\ inserted = <<>>
    /\ pending = NoInsert

-----------------------------------------------------------------------------
(* Definitions named Bad... are slips of the definition after them that    *)
(* some property must notice; no action uses one.                          *)

\* A new index starts from the snapshot of its file, whatever is in the table,
\* unless the snapshot says another column
BadLoaded(d, t, e) ==
    [col |-> e.col, type |-> e.type, rows |-> { x[2] : x \in d[File(e.type, t, e.col)] }]
Loaded(d, t, e) ==
    LET own == { x \in d[File(e.type, t, e.col)] : x[1] = e.col \/ e.type \in Unlabelled }
    IN  [col |-> e.col, type |-> e.type, rows |-> { x[2] : x \in own }]

\* Assignment to a dictionary: an old key keeps its place
BadPut(ixs, new) == Append(ixs, new)
Put(ixs, new) ==
    LET i == SelectInSeq(ixs, LAMBDA x : x.col = new.col)
    IN  IF i = 0 THEN Append(ixs, new) ELSE [ixs EXCEPT ![i] = new]

-----------------------------------------------------------------------------
(* Saves *)

Fails == failures < MaxFailures /\ failures' = failures + 1

\* _persist_snapshot of the index that owns file f.  If it raises, either the
\* page was not touched, or it was and its write did not reach the storage
Save(f, s) ==
    /\ buffered' = [buffered EXCEPT ![f] = s] /\ disk' = [disk EXCEPT ![f] = s]
    /\ unsaved' = unsaved \ {f} /\ UNCHANGED failures
SaveRaises(f, s) ==
    /\ Fails /\ unsaved' = unsaved \cup {f}
    /\ buffered' \in {buffered, [buffered EXCEPT ![f] = s]} /\ UNCHANGED disk

\* The catalog saves itself if it changed; or the storage raises, or the process
\* dies, at the first of its pages or between two of them
SaveCatalog ==
    \/ saved' = (IF catalog' = catalog THEN saved ELSE catalog') /\ UNCHANGED failures
    \/ catalog' # catalog /\ Fails /\ saved' \in {saved, NoTables}

\* The buffer writes a page that a save left dirty
WriteBack ==
    /\ \/ /\ \E f \in unsaved : disk' = [disk EXCEPT ![f] = buffered[f]]
          /\ UNCHANGED saved
       \/ saved # catalog /\ saved' \in {NoTables, catalog} /\ UNCHANGED disk
    /\ UNCHANGED <<tables, indexes, tableRows, catalog, buffered, unsaved, failures, inserted, pending>>

-----------------------------------------------------------------------------
(* Statements *)

\* Between two indexes of an INSERT, a few statements at most
Served ==
    \/ pending = NoInsert /\ UNCHANGED pending
    \/ /\ pending # NoInsert /\ pending.overlap < MaxOverlap
       /\ pending' = [pending EXCEPT !.overlap = @ + 1]

\* The executor takes the new columns of a table that exists, the catalog
\* does not
CreateTable(t, cs) ==
    /\ Served
    /\ tables' = [tables EXCEPT ![t] = cs]
    /\ catalog' = IF catalog[t] # NoTable THEN catalog
                  ELSE [catalog EXCEPT ![t] = [cols |-> cs, ix |-> <<>>]]
    /\ SaveCatalog
    /\ UNCHANGED <<indexes, tableRows, snapshots, inserted>>

\* The snapshots stay
DropTable(t) ==
    /\ Served
    /\ tables' = [tables EXCEPT ![t] = {}]
    /\ indexes' = [indexes EXCEPT ![t] = <<>>]
    /\ tableRows' = [tableRows EXCEPT ![t] = {}]
    /\ catalog' = [catalog EXCEPT ![t] = NoTable]
    /\ SaveCatalog
    /\ UNCHANGED <<snapshots, inserted>>

\* _register_ddl: the catalog lists an index of a column it knows, once more
\* if it was there
BadRegistered(t, e) ==  \* once
    IF e.col \in { catalog[t].ix[i].col : i \in DOMAIN catalog[t].ix }
    THEN catalog[t].ix ELSE Append(catalog[t].ix, e)
Registered(t, e) == Append(catalog[t].ix, e)

Count(ixs) == Cardinality(UNION { {t} \X DOMAIN ixs[t] : t \in Tables })

CreateIndex(t, e) ==
    LET known == e.col \in catalog[t].cols IN
    /\ Served
    /\ indexes' = [indexes EXCEPT ![t] = Put(@, Loaded(buffered, t, e))]
    /\ catalog' = IF known THEN [catalog EXCEPT ![t].ix = Registered(t, e)] ELSE catalog
    /\ Count(indexes') <= MaxLive /\ Count([u \in Tables |-> catalog'[u].ix]) <= MaxRegistered
    /\ SaveCatalog
    /\ UNCHANGED <<tables, tableRows, snapshots, inserted>>

\* Index i of the table has new rows, and then saves itself or does not
Change(t, i, rows) == indexes' = [indexes EXCEPT ![t][i].rows = rows]

BadSaved(t, i, rows) ==  \* the indexes are saved with the last one
    LET x == indexes[t][i]
    IN  IF i = Len(indexes[t]) THEN Save(File(x.type, t, x.col), {x.col} \X rows)
        ELSE UNCHANGED <<snapshots, failures>>
Saved(t, i, rows) ==
    LET x == indexes[t][i] IN Save(File(x.type, t, x.col), {x.col} \X rows)
NotSaved(t, i, rows) ==
    LET x == indexes[t][i] IN SaveRaises(File(x.type, t, x.col), {x.col} \X rows)

\* DELETE WHERE col = v: only the index of that column hears of it, if there
\* is one, and saves itself if it lost a row.  It compares the value the row was
\* indexed under, in a row of another table that of the column sharing the file
Indexed(n, t, col) ==
    inserted[n].record[CHOOSE c \in DOMAIN inserted[n].record : inserted[n].table \o c = t \o col]
Without(rows, t, col, v) == { n \in rows : Indexed(n, t, col) # v }

Delete(t, col, v) ==
    /\ Served
    /\ \E i \in DOMAIN indexes[t] :
          LET rows == Without(indexes[t][i].rows, t, col, v) IN
          /\ indexes[t][i].col = col /\ rows # indexes[t][i].rows
          /\ Change(t, i, rows) /\ (Saved(t, i, rows) \/ NotSaved(t, i, rows))
    /\ UNCHANGED <<tables, tableRows, catalog, saved, inserted>>

-----------------------------------------------------------------------------
(* INSERT of one row; one of many is a sequence of these.  The table need  *)
(* not exist.  It goes over the dictionary of all indexes, whose order     *)
(* within a table is all that matters: those of other tables are passed.   *)

Remember(t) == tableRows' = [tableRows EXCEPT ![t] = @ \cup {Len(inserted) + 1}]

Insert(t, r) ==
    /\ pending = NoInsert /\ Len(inserted) < MaxRows
    /\ inserted' = Append(inserted, [table |-> t, record |-> r])
    /\ Remember(t)
    /\ pending' = [going |-> TRUE, at |-> 0, size |-> Count(indexes), overlap |-> 0]
    /\ UNCHANGED <<tables, indexes, catalog, storage>>

Row == Len(inserted)
Going == pending # NoInsert
Undisturbed == Count(indexes) = pending.size

Advance == pending' = [pending EXCEPT !.at = @ + 1]
Return == pending' = NoInsert

\* The next index of the table: it takes the row, if the row has its column, and
\* raises if it cannot save it; or returns a failure that nobody looks at, or
\* raises before it takes the row
InsertNext ==
    LET t == inserted[Row].table
        i == pending.at + 1
        x == indexes[t][i]
        rows == x.rows \cup {Row}
        has == x.col \in DOMAIN inserted[Row].record
    IN  /\ Going /\ Undisturbed /\ i <= Len(indexes[t])
        /\ \/ has /\ Change(t, i, rows) /\ Saved(t, i, rows) /\ Advance
           \/ has /\ Change(t, i, rows) /\ NotSaved(t, i, rows) /\ Return
           \/ (has => x.type \in Failing) /\ Advance /\ UNCHANGED <<indexes, snapshots, failures>>
           \/ has /\ x.type \in Raising /\ Return /\ UNCHANGED <<indexes, snapshots, failures>>
        /\ UNCHANGED <<tables, tableRows, catalog, saved, inserted>>

\* There is no index left; or another thread changed how many there are, and
\* the dictionary raises
InsertReturns ==
    /\ Going /\ (Undisturbed => pending.at = Len(indexes[inserted[Row].table]))
    /\ Return
    /\ UNCHANGED <<tables, indexes, tableRows, catalog, storage, inserted>>

-----------------------------------------------------------------------------
(* A new process: rehydrate_executor over the snapshots and the catalog c  *)

Rehydrated(d, c, t) ==
    LET ix == c[t].ix
        after[n \in 0 .. Len(ix)] ==
            IF n = 0 THEN <<>> ELSE Put(after[n - 1], Loaded(d, t, ix[n]))
    IN  after[Len(ix)]

\* At any moment, also half way through an INSERT; a catalog half of whose pages
\* are saved does not parse
Restart ==
    /\ catalog' = saved
    /\ tables' = [t \in Tables |-> saved[t].cols]
    /\ indexes' = [t \in Tables |-> Rehydrated(disk, saved, t)]
    /\ tableRows' = [t \in Tables |-> {}]
    /\ buffered' = disk /\ unsaved' = {} /\ failures' = 0
    /\ pending' = NoInsert
    /\ UNCHANGED <<saved, disk, inserted>>

Next ==
    \/ \E t \in Tables :
         \/ \E cs \in (SUBSET Cols) \ {{}} : CreateTable(t, cs)
         \/ DropTable(t)
         \/ \E e \in Entry : CreateIndex(t, e)
         \/ \E r \in Records : Insert(t, r)
         \/ \E col \in Cols, v \in Values : Delete(t, col, v)
    \/ InsertNext
    \/ InsertReturns
    \/ WriteBack
    \/ Restart

Spec == Init /\ [][Next]_vars

\* The index the planner reports for a column: the first registered
RegisteredIndex(t, col) ==
    LET i == SelectInSeq(catalog[t].ix, LAMBDA e : e.col = col)
    IN  IF i = 0 THEN {} ELSE {catalog[t].ix[i].type}

\* The index a SELECT without WHERE reads: the first of the table
AnyIndex(t) == IF indexes[t] = <<>> THEN {} ELSE {Head(indexes[t])}

-----------------------------------------------------------------------------
(* Properties *)

\* The executor and the catalog know the same tables, and a column with
\* registered indexes has a live one of the type registered last: what a
\* restart would bring back is what is in use.  It is also what the planner
\* reports, unless the column was registered twice
RegisteredIsLive ==
    \A t \in Tables :
        /\ tables[t] = {} <=> catalog[t] = NoTable
        /\ \A i \in DOMAIN catalog[t].ix :
             LET e == catalog[t].ix[i]
                 last == \A j \in i + 1 .. Len(catalog[t].ix) : catalog[t].ix[j].col # e.col
             IN  last => \E k \in DOMAIN indexes[t] :
                            indexes[t][k].col = e.col /\ indexes[t][k].type = e.type
        /\ \A k \in DOMAIN indexes[t] :
             LET col == indexes[t][k].col
                 registered == { i \in DOMAIN catalog[t].ix : catalog[t].ix[i].col = col }
             IN  Cardinality(registered) = 1 => RegisteredIndex(t, col) = {indexes[t][k].type}

\* No other table and column have file names of this pair's
Alone(t, col) ==
    \A u \in Tables, c \in Cols : u \o c = t \o col => u = t /\ c = col

\* Through any drop, recreation, change of type, failed save and restart, and
\* however the names of the files meet, a row in an index of a table was inserted
\* into that table, with a value in that column.  Of an index whose snapshot
\* does not say its column, only if the file is its own
RowsInOwnTable ==
    \A t \in Tables :
        /\ \A n \in tableRows[t] : inserted[n].table = t
        /\ \A x \in Range(indexes[t]) : x.type \notin Unlabelled \/ Alone(t, x.col) =>
             \A n \in x.rows : inserted[n].table = t /\ x.col \in DOMAIN inserted[n].record

LiveOn(t, cols) == { x \in Range(indexes[t]) : x.col \in cols }
RegisteredCols(t) == { catalog[t].ix[i].col : i \in DOMAIN catalog[t].ix }
KindsOf(ixs) == { <<x.col, x.type>> : x \in ixs }

\* The index created first is the one registered first: not so if it was
\* created before its table, or on a column the catalog does not know
FirstIsRegistered(t) ==
    /\ indexes[t] # <<>> /\ catalog[t].ix # <<>>
    /\ Head(indexes[t]).col = Head(catalog[t].ix).col

\* A restart, in the middle of an INSERT too, keeps every registered index with
\* its type, and the one that answers without a WHERE, however often its column
\* was registered; and an index keeps all its rows, unless its last save raised
\* or another one has its file.  Not so if the last save of the catalog raised
RestartAnswersAlike ==
    Restart /\ saved = catalog => \A t \in Tables :
        /\ KindsOf(LiveOn(t, Cols)') = KindsOf(LiveOn(t, RegisteredCols(t)))
        /\ \A x \in LiveOn(t, RegisteredCols(t)) :
             File(x.type, t, x.col) \notin unsaved /\ Alone(t, x.col) => x \in LiveOn(t, Cols)'
        /\ FirstIsRegistered(t) => KindsOf(AnyIndex(t)') = KindsOf(AnyIndex(t))
RestartKeepsAnswers == [][RestartAnswersAlike]_vars
=============================================================================
