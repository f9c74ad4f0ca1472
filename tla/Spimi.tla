-------------------------------- MODULE Spimi --------------------------------
(***************************************************************************)
(* indices/inverted/spimi_builder.py: postings built in blocks of a few    *)
(* documents, each sorted by term when it is closed, and merged through a  *)
(* heap that holds the next entry of every block.  Postings are a function *)
(* from documents to frequencies.  A closed block is a line for each term, *)
(* cut into pages wherever they end.                                       *)
(***************************************************************************)
EXTENDS IndexPorts, SnapshotPages

CONSTANTS
    BlockDocumentLimit,
    BlockPageSize,
    StopWords               \* terms that tokenize drops (text_preprocessor.py)

Tokenize(words) == SelectSeq(words, LAMBDA w : w \notin StopWords)

\* The counts one text gives its terms.
TermCounts(words) ==
    LET tokens == Tokenize(words)
    IN  [t \in ToSet(tokens) |-> Cardinality({i \in DOMAIN tokens : tokens[i] = t})]

Frequency(postings, doc) == IF doc \in DOMAIN postings THEN postings[doc] ELSE 0

\* postings[doc] = postings.get(doc, 0) + frequency, for the documents of more.
Added(postings, more) ==
    [doc \in DOMAIN postings \cup DOMAIN more |-> Frequency(postings, doc) + Frequency(more, doc)]

\* A dictionary of postings with those of one document added.
AddCounts(dict, doc, counts) ==
    [t \in DOMAIN dict \cup DOMAIN counts |->
        LET old == IF t \in DOMAIN dict THEN dict[t] ELSE <<>>
        IN  IF t \in DOMAIN counts THEN Added(old, doc :> counts[t]) ELSE old]

-----------------------------------------------------------------------------
NoBlocks == [current |-> <<>>, documents |-> 0, blocks |-> <<>>]

\* A line for each term, in order.
Lines(dict) ==
    LET terms == Ascending(DOMAIN dict)
    IN  [i \in DOMAIN terms |->
            LET postings == dict[terms[i]]
            IN  [term |-> terms[i], postings |-> postings, size |-> 1 + Cardinality(DOMAIN postings)]]

\* A block goes to pages of its own, and is read from them one line at a time.
Spill(dict)      == Cut(Stream(Lines(dict)), BlockPageSize)
IterBlock(pages) == ReadRows(pages).rows

\* A block without a term is not kept.
Flush(b) ==
    [current   |-> <<>>,
     documents |-> 0,
     blocks    |-> IF DOMAIN b.current = {} THEN b.blocks
                   ELSE Append(b.blocks, Spill(b.current))]

\* document is [id |-> name, words |-> its words].
AddDocument(b, document) ==
    LET added == [b EXCEPT !.current = AddCounts(@, document.id, TermCounts(document.words)),
                           !.documents = @ + 1]
    IN  IF added.documents >= BlockDocumentLimit THEN Flush(added) ELSE added

-----------------------------------------------------------------------------
\* The heap is the set of <<term, block>> at the front of the blocks; `at` is
\* how many entries each block has given.  Blocks are popped one entry at a
\* time: the first of a term starts its postings, the others are added.
MergeBlocks(spilled) ==
    LET blocks == [b \in DOMAIN spilled |-> IterBlock(spilled[b])]
        Heap(at) == {<<blocks[b][at[b] + 1].term, b>> :
                        b \in {c \in DOMAIN blocks : at[c] < Len(blocks[c])}}
        Smallest(heap) == CHOOSE x \in heap :
            \A y \in heap : x[1] < y[1] \/ (x[1] = y[1] /\ x[2] <= y[2])
        Pop(m) ==
            LET top      == Smallest(Heap(m.at))
                postings == blocks[top[2]][m.at[top[2]] + 1].postings
            IN  [at     |-> [m.at EXCEPT ![top[2]] = @ + 1],
                 term   |-> {top[1]},
                 merged |-> top[1] :> (IF m.term = {top[1]} THEN Added(m.merged[top[1]], postings)
                                       ELSE postings) @@ m.merged]
        entries == FoldLeft(LAMBDA n, block : n + Len(block), 0, blocks)
        after[n \in 0 .. entries] ==
            IF n = 0 THEN [at |-> [b \in DOMAIN blocks |-> 0], term |-> {}, merged |-> <<>>]
            ELSE Pop(after[n - 1])
    IN  after[entries].merged

\* build, from documents in a sequence.
BlocksOf(documents)  == Flush(FoldLeft(AddDocument, NoBlocks, documents)).blocks
BuildPostings(documents) == MergeBlocks(BlocksOf(documents))
=============================================================================
