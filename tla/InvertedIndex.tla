---------------------------- MODULE InvertedIndex ----------------------------
(***************************************************************************)
(* indices/inverted/text_index.py: documents cut into chunks, postings of  *)
(* the chunks, and the terms that queries may see.  A text is a sequence   *)
(* of paragraphs and a paragraph a sequence of words, numbers in           *)
(* alphabetical order.  Of a score only its sign is kept: a chunk matches  *)
(* if its product with the query is not zero and its norm is not either.   *)
(***************************************************************************)
EXTENDS Spimi

CONSTANTS
    WindowWords,        \* of TextChunker
    PostingPageSize,
    TextOf              \* text of a record, by its key and id

RecordText(record) == TextOf[record.key][record.id]

\* limit is vocabulary_limit, 0 for None.  _vocabulary, if there is one, is
\* `terms` with scope "frozen"; _dynamic_vocabulary, with scope "dynamic".
\* normed are the chunks whose norm is not zero.
New(limit) ==
    [limit |-> limit, documents |-> <<>>, chunk_parent |-> <<>>, postings |-> <<>>,
     scope |-> "all", terms |-> {}, normed |-> {}]

-----------------------------------------------------------------------------
(* Chunks *)

\* A paragraph for each, or windows of a single one; empty paragraphs are
\* dropped, unless nothing is left.
Split(text) ==
    LET paragraphs == SelectSeq(text, LAMBDA p : p # <<>>)
    IN  CASE paragraphs = <<>>   -> << <<>> >>
          [] Len(paragraphs) > 1 -> paragraphs
          [] OTHER               -> Cut(paragraphs[1], WindowWords)

\* The only chunk of a document has its name.
ChunkEntries(doc, text) ==
    LET chunks == Split(text)
    IN  IF Len(chunks) = 1 THEN << [id |-> <<doc>>, words |-> chunks[1]] >>
        ELSE [n \in DOMAIN chunks |-> [id |-> <<doc, n - 1>>, words |-> chunks[n]]]

ChunksOf(ix, doc) == {c \in DOMAIN ix.chunk_parent : ix.chunk_parent[c] = doc}

-----------------------------------------------------------------------------
(* The terms a query sees *)

\* The limit most frequent terms of the collection, ties in alphabetical order.
TopTerms(postings, limit) ==
    LET total == [t \in DOMAIN postings |-> FoldFunction(+, 0, postings[t])]
        Ahead(t, u) == total[t] > total[u] \/ (total[t] = total[u] /\ t < u)
    IN  {t \in DOMAIN postings : Cardinality({u \in DOMAIN postings : Ahead(u, t)}) < limit}

ApplyLimit(ix) ==
    IF ix.limit = 0 THEN [ix EXCEPT !.scope = "all", !.terms = {}]
    ELSE LET top == TopTerms(ix.postings, ix.limit)
         IN  [ix EXCEPT !.scope = "frozen", !.terms = top,
                        !.postings = Without(@, DOMAIN @ \ top)]

BadRefreshDynamic(ix) ==  \* counted once, when the terms first reach the limit
    IF ix.limit = 0 \/ ix.scope = "frozen" \/ Cardinality(ix.terms) = ix.limit THEN ix
    ELSE [ix EXCEPT !.scope = "dynamic", !.terms = TopTerms(ix.postings, ix.limit)]
RefreshDynamic(ix) ==
    IF ix.limit = 0 \/ ix.scope = "frozen" THEN ix
    ELSE [ix EXCEPT !.scope = "dynamic", !.terms = TopTerms(ix.postings, ix.limit)]

Visible(ix, term) == ix.scope = "all" \/ term \in ix.terms

\* An idf is at least one: a chunk has a norm if it has a visible term.
ComputeNorms(ix) ==
    [ix EXCEPT !.normed = UNION {DOMAIN ix.postings[t] :
                                    t \in {u \in DOMAIN ix.postings : Visible(ix, u)}}]

-----------------------------------------------------------------------------
(* Operations *)

\* The name of a document is its record's, here the key.
Build(records, limit) ==
    LET entries == FlattenSeq([i \in DOMAIN records |->
                                  ChunkEntries(records[i].key, RecordText(records[i]))])
    IN  ComputeNorms(ApplyLimit(
          [New(limit) EXCEPT
             !.documents    = [doc \in {r.key : r \in ToSet(records)} |->
                                  Last(SelectSeq(records, LAMBDA r : r.key = doc))],
             !.chunk_parent = [c \in {e.id : e \in ToSet(entries)} |-> Head(c)],
             !.postings     = BuildPostings(entries)]))

\* One chunk: a frozen vocabulary takes no new term.
AddChunk(ix, entry) ==
    LET counts == TermCounts(entry.words)
        known  == {t \in DOMAIN counts : ix.scope = "frozen" => t \in ix.terms}
    IN  [ix EXCEPT !.chunk_parent = SetItem(@, entry.id, Head(entry.id)),
                   !.postings = AddCounts(@, entry.id, [t \in known |-> counts[t]])]

\* A document inserted again keeps its old chunks and postings, and adds the
\* new ones.
InsertRecord(ix, doc, record) ==
    LET stored == [ix EXCEPT !.documents = SetItem(@, doc, record)]
    IN  ComputeNorms(RefreshDynamic(
            FoldLeft(AddChunk, stored, ChunkEntries(doc, RecordText(record)))))

Delete(ix, doc) ==
    IF doc \notin DOMAIN ix.documents THEN ix
    ELSE LET gone == ChunksOf(ix, doc)
             left == [t \in DOMAIN ix.postings |-> Without(ix.postings[t], gone)]
         IN  ComputeNorms(RefreshDynamic(
               [ix EXCEPT !.documents = Without(@, {doc}), !.chunk_parent = Without(@, gone),
                          !.postings = Without(left, {t \in DOMAIN left : DOMAIN left[t] = {}})]))

-----------------------------------------------------------------------------
(* Searches *)

Rank(ix, words) ==
    LET query == {t \in ToSet(Tokenize(words)) : t \in DOMAIN ix.postings /\ Visible(ix, t)}
    IN  UNION {DOMAIN ix.postings[t] : t \in query} \cap ix.normed

\* Every document once, in the order of its chunks in the ranking, here any
\* order; at most k.
Search(ix, words, k) ==
    FoldSet(LAMBDA chunk, found :
                LET parent == ix.chunk_parent[chunk]
                IN  IF \/ parent \notin DOMAIN ix.documents \/ Len(found) >= k
                       \/ ix.documents[parent] \in ToSet(found)
                    THEN found ELSE Append(found, ix.documents[parent]),
            <<>>, Rank(ix, words))

SearchAll(ix) ==
    FoldSet(LAMBDA doc, found : Append(found, ix.documents[doc]), <<>>, DOMAIN ix.documents)

PostingsFor(ix, term) ==
    IF term \in DOMAIN ix.postings /\ Visible(ix, term) THEN ix.postings[term] ELSE <<>>

-----------------------------------------------------------------------------
(* The snapshot: one page with everything but the postings, and a line for *)
(* the postings of each term.                                              *)

PostingPages(ix) == RowPages(Lines(ix.postings), PostingPageSize)

BadReload(ix) ==  \* the vocabulary left out of the snapshot
    RefreshDynamic([ix EXCEPT !.scope = "all", !.terms = {}])

\* An empty vocabulary comes back as none.
Reload(ix) ==
    LET read   == ReadRows(PostingPages(ix)).rows
        frozen == ix.scope = "frozen" /\ ix.terms # {}
        loaded == [ix EXCEPT
                     !.scope    = IF frozen THEN "frozen" ELSE "all",
                     !.terms    = IF frozen THEN @ ELSE {},
                     !.postings = [t \in {row.term : row \in ToSet(read)} |->
                                     (CHOOSE row \in ToSet(read) : row.term = t).postings]]
    IN  RefreshDynamic(loaded)
=============================================================================
