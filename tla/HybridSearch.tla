---------------------------- MODULE HybridSearch ----------------------------
(***************************************************************************)
(* SELECT ... WHERE HYBRID(media column, file, text column, words, k):     *)
(* query/executor.py asks the KNN index and the text index of a table,     *)
(* query/fusion.py makes one ranking of the two, and every hit is shown    *)
(* with a row: the one the text index keeps, or one from the executor's    *)
(* memory.  The state is the two indexes, those rows, and which of the two *)
(* indexes exist; INSERT, DELETE, CREATE INDEX, a restart and the query    *)
(* itself change it.                                                       *)
(*                                                                         *)
(* Rows have a file and a text, both numbers.  The executor inserts a row  *)
(* under the value of the column: to the text index a text is the name of  *)
(* a document, so the last row with a text replaces the others.            *)
(***************************************************************************)
EXTENDS IndexPorts

CONSTANTS
    Inputs,             \* pairs of a file and a text that INSERT may be given
    WordsOf,            \* the paragraphs of each text
    VectorOf,           \* histogram of each file that has one: the others do not resolve
    Asked,              \* queries: [file, words, k]
    MaxRows,            \* bound: rows ever inserted
    StopWords, BlockDocumentLimit, BlockPageSize, WindowWords, PostingPageSize, VocabularyLimit,
    Oversample, VectorPageSize,
    K0                  \* of the rank fusion: 60 in the code

Files == {input[1] : input \in Inputs}
Texts == {input[2] : input \in Inputs}

ASSUME InputsAssumption ==
    /\ Inputs \subseteq Nat \X Nat
    /\ {MaxRows, BlockDocumentLimit, BlockPageSize, WindowWords, PostingPageSize,
        Oversample, VectorPageSize, K0} \subseteq Nat \ {0}
    /\ WordsOf \in [Texts -> Seq(Seq(Nat))]
ASSUME VectorsAssumption ==
    /\ DOMAIN VectorOf \subseteq Nat
    /\ \A file, other \in DOMAIN VectorOf :
          /\ VectorOf[file] \in Seq(Nat) /\ Len(VectorOf[file]) = Len(VectorOf[other])
          /\ \E w \in DOMAIN VectorOf[file] : VectorOf[file][w] > 0
ASSUME QueriesAssumption ==
    \A q \in Asked : q.file \in Nat /\ q.words \in Seq(Nat) /\ q.k \in Nat \ {0}

X == INSTANCE InvertedIndex WITH
        TextOf <- [t \in Texts |-> [n \in 1 .. MaxRows |-> WordsOf[t]]]
K == INSTANCE KnnIndex

VARIABLES
    created,    \* columns with an index: executor._indexes
    media,      \* the KNN index
    text,       \* the text index
    rows,       \* executor._table_rows
    log         \* history: every row inserted, and where it is held still

vars == <<created, media, text, rows, log>>

Columns == {"file", "text"}

\* The row as the text index and the executor keep it.
Row(n) == [key |-> log[n].text, id |-> n, file |-> log[n].file]

Init ==
    /\ created = {}
    /\ media = K!Empty
    /\ text = X!New(VocabularyLimit)
    /\ rows = <<>>
    /\ log = <<>>

-----------------------------------------------------------------------------
(* Statements *)

\* A new index loads what the index of the column saved last.
CreateIndex(column) ==
    /\ created' = created \cup {column}
    /\ media' = IF column = "file" THEN K!Reload(media) ELSE media
    /\ text' = IF column = "text" THEN X!Reload(text) ELSE text
    /\ UNCHANGED <<rows, log>>

\* A file without a vector makes the KNN index return a failure that nobody
\* looks at.
InsertRow(file, txt) ==
    LET resolves == "file" \in created /\ file \in DOMAIN VectorOf
        held     == {"rows"} \cup (created \ {"file"}) \cup (IF resolves THEN {"file"} ELSE {})
        new      == [key |-> txt, id |-> Len(log) + 1, file |-> file]
    IN  /\ Len(log) < MaxRows
        /\ log' = Append(log, [file |-> file, text |-> txt, held |-> held])
        /\ rows' = Append(rows, new)
        /\ media' = IF resolves THEN K!AddToIndex(media, file, VectorOf[file]) ELSE media
        /\ text' = IF "text" \in created THEN X!InsertRecord(text, txt, new) ELSE text
        /\ UNCHANGED created

\* What the history says of the rows with a value: that no place holds them.
Dropped(place, column, value) ==
    [n \in DOMAIN log |->
        IF column \in created /\ log[n][column] = value
        THEN [log[n] EXCEPT !.held = @ \ {place}] ELSE log[n]]

\* Only the index of the column is asked, if there is one.
DeleteRows(column, value) ==
    /\ media' = IF column = "file" /\ column \in created THEN K!Delete(media, value) ELSE media
    /\ text' = IF column = "text" /\ column \in created THEN X!Delete(text, value) ELSE text
    /\ log' = Dropped(column, column, value)
    /\ UNCHANGED <<created, rows>>

\* A new process: both indexes load their snapshots, the rows are gone.
BadRestart ==  \* a process that keeps the executor it had
    /\ media' = K!Reload(media)
    /\ text' = X!Reload(text)
    /\ log' = [n \in DOMAIN log |-> [log[n] EXCEPT !.held = @ \ {"rows"}]]
    /\ UNCHANGED <<created, rows>>
Restart ==
    /\ media' = K!Reload(media)
    /\ text' = X!Reload(text)
    /\ rows' = <<>>
    /\ log' = [n \in DOMAIN log |-> [log[n] EXCEPT !.held = @ \ {"rows"}]]
    /\ UNCHANGED created

-----------------------------------------------------------------------------
(* The query *)

\* 1 / (K0 + position) for each appearance, times a number that all of the
\* denominators divide; equal scores in the order of the keys.
BadRRF(rankings, k) ==  \* the last appearance instead of the sum
    LET longest == Max({Len(r) : r \in ToSet(rankings)})
        Whole   == FoldSet(LAMBDA p, product : product * (K0 + p), 1, 1 .. longest)
        keys    == UNION {ToSet(r) : r \in ToSet(rankings)}
        Share(ranking, key) ==
            FoldSet(LAMBDA p, sum : Whole \div (K0 + p), 0, {q \in DOMAIN ranking : ranking[q] = key})
        score == [key \in keys |-> Max({Share(r, key) : r \in ToSet(rankings)})]
    IN  K!FirstOf(keys, k, LAMBDA a, b : score[a] > score[b] \/ (score[a] = score[b] /\ a < b))
RRF(rankings, k) ==
    LET longest == Max({Len(r) : r \in ToSet(rankings)})
        Whole   == FoldSet(LAMBDA p, product : product * (K0 + p), 1, 1 .. longest)
        keys    == UNION {ToSet(r) : r \in ToSet(rankings)}
        Share(ranking, key) ==
            FoldSet(LAMBDA p, sum : sum + Whole \div (K0 + p), 0, {q \in DOMAIN ranking : ranking[q] = key})
        score == [key \in keys |-> FoldLeft(LAMBDA sum, r : sum + Share(r, key), 0, rankings)]
    IN  K!FirstOf(keys, k, LAMBDA a, b : score[a] > score[b] \/ (score[a] = score[b] /\ a < b))

\* Each of the two searches is asked for three times as many.
Fetch(k) == 3 * k

\* A query file that does not resolve finds nothing, and is no error.
Visual(q) ==
    IF q.file \notin DOMAIN VectorOf THEN <<>>
    ELSE LET found == K!Search(media, VectorOf[q.file], Fetch(q.k)).records
         IN  [i \in DOMAIN found |-> found[i].key]

\* The records the text index may return, in any order.
TextRankings(q) ==
    LET matches == ToSet(X!Search(text, q.words, MaxRows))
        n       == Min({Fetch(q.k), Cardinality(matches)})
    IN  {SubSeq(s, 1, n) : s \in SetToSeqs(matches)}

KeysIn(records) == [i \in DOMAIN records |-> records[i].file]

\* The last of some records with the file, if any.
RecordOf(records, file) ==
    LET i == SelectLastInSeq(records, LAMBDA r : r.file = file)
    IN  IF i = 0 THEN None ELSE records[i]

\* A hit is shown with the record the text search found or, without one, with
\* the last row of its file in memory.
BadShown(found, key) == RecordOf(found \o rows, key)  \* memory first
Shown(found, key) ==
    IF RecordOf(found, key) # None THEN RecordOf(found, key) ELSE RecordOf(rows, key)

\* The keys of the fused ranking, with their rows and the searches they come
\* from.
Hits(visual, found, fused) ==
    [i \in DOMAIN fused |->
        [key    |-> fused[i],
         record |-> Shown(found, fused[i]),
         visual |-> fused[i] \in ToSet(visual),
         text   |-> fused[i] \in ToSet(KeysIn(found))]]

\* The answer to a query whose text search found these records.
HybridSelect(q, found) ==
    Hits(Visual(q), found, RRF(<<Visual(q), KeysIn(found)>>, q.k))

\* Both columns need an index; a query leaves the matrix of the KNN index built.
Select(q) ==
    /\ created = Columns
    /\ media' = IF q.file \in DOMAIN VectorOf /\ media.vectors # <<>>
                THEN K!EnsureMatrix(media) ELSE media
    /\ UNCHANGED <<created, text, rows, log>>

Next ==
    \/ \E column \in Columns : CreateIndex(column)
    \/ \E input \in Inputs : InsertRow(input[1], input[2])
    \/ \E file \in Files : DeleteRows("file", file)
    \/ \E txt \in Texts : DeleteRows("text", txt)
    \/ \E q \in Asked : Select(q)
    \/ Restart

Spec == Init /\ [][Next]_vars

-----------------------------------------------------------------------------
(* Properties *)

\* Every variable keeps its type; no index has anything before it is created.
TypeOK ==
    /\ created \subseteq Columns
    /\ DOMAIN media.vectors \subseteq Files \cap DOMAIN VectorOf
    /\ DOMAIN text.documents \subseteq Texts
    /\ log \in Seq([file : Files, text : Texts, held : SUBSET (Columns \cup {"rows"})])
    /\ ToSet(rows) = {Row(n) : n \in {m \in DOMAIN log : "rows" \in log[m].held}}
    /\ \A n \in DOMAIN log : log[n].held \subseteq created \cup {"rows"}

\* Where a key is in a ranking, and whether another is ahead of it there: it
\* may be nowhere.
Places(ranking, key) == {p \in DOMAIN ranking : ranking[p] = key}
AheadIn(ranking, a, b) == \A p \in Places(ranking, b) : \E o \in Places(ranking, a) : o < p

InBoth(visual, words, key) == key \in ToSet(visual) /\ key \in ToSet(words)
NearTop(ranking, key) == \E p \in Places(ranking, key) : p <= K0 + 1
Better(visual, words, a, b) ==
    \/ AheadIn(visual, a, b) /\ AheadIn(words, a, b)
    \/ NearTop(visual, a) /\ NearTop(words, a) /\ ~InBoth(visual, words, b)

WellFused(k, visual, words, fused) ==
    LET keys == ToSet(visual) \cup ToSet(words)
    IN  /\ ToSet(fused) \subseteq keys /\ IsInjective(fused)
        /\ Len(fused) = Min({k, Cardinality(keys)})
        /\ \A a, b \in keys :
              a # b /\ Better(visual, words, a, b) /\ Cardinality(Places(words, b)) <= 1 =>
                 AheadIn(fused, a, b)

\* One list of two (executor.py:151-180): k files, each once.  A file that is
\* ahead of another wherever the other was found, or that both searches have
\* among their first K0 + 1 when only one found the other, is not behind it nor
\* left out for it; unless the other has several rows, each of which adds to
\* its score.  Further down being found twice is not enough: with K0 = 60 the
\* file in place 63 of both scores 2 / 123, less than the 1 / 61 of a first
\* place, and a query with k = 21 sees that far.
FusedOrder ==
    created = Columns => \A q \in Asked : \A found \in TextRankings(q) :
        WellFused(q.k, Visual(q), KeysIn(found), KeysOf(HybridSelect(q, found)))

InText(n) ==
    /\ "text" \in log[n].held
    /\ \A m \in n + 1 .. Len(log) : log[m].text = log[n].text => "text" \notin log[m].held
HasWord(n, words) == \E w \in words : \E p \in ToSet(WordsOf[log[n].text]) : w \in ToSet(p)
Matched(q)   == {n \in DOMAIN log : InText(n) /\ HasWord(n, ToSet(q.words) \ StopWords)}
InMedia      == {log[n].file : n \in {m \in DOMAIN log : "file" \in log[m].held}}
Since(file)  == {n \in DOMAIN log : log[n].file = file /\ "rows" \in log[n].held}
Expected(q)  == {log[n].file : n \in Matched(q)}
                \cup (IF q.file \in DOMAIN VectorOf THEN InMedia ELSE {})

WellShown(q, hits) ==
    /\ \A hit \in hits :
          IF hit.text THEN \E n \in Matched(q) : log[n].file = hit.key /\ hit.record = Row(n)
          ELSE /\ hit.visual /\ hit.key \in InMedia
               /\ hit.record = IF Since(hit.key) = {} THEN None ELSE Row(Max(Since(hit.key)))
    /\ q.k >= Cardinality(Expected(q)) => {hit.key : hit \in hits} = Expected(q)

\* What a hit shows (executor.py:160-176), through inserts, deletes on either
\* column, indexes created late and restarts.  Found by its text: the last row
\* inserted with that text, a row of that file that holds a word of the query.
\* Found by its picture only: the last row of the file inserted since the
\* process started, and no row at all after a restart.
RowsShown ==
    created = Columns => \A q \in Asked : \A found \in TextRankings(q) :
        WellShown(q, ToSet(HybridSelect(q, found)))
=============================================================================
