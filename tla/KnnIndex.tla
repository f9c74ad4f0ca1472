------------------------------ MODULE KnnIndex -------------------------------
(***************************************************************************)
(* multimedia/knn_index.py: a histogram for each key, for each word the    *)
(* list of keys it is active in, and a matrix of the histograms that the   *)
(* first search after a change builds.  A vector is a sequence of natural  *)
(* numbers; lists are bags, as only their length is used.                  *)
(***************************************************************************)
EXTENDS IndexPorts, BagsExt, SnapshotPages

CONSTANTS
    Oversample,         \* candidates for each result asked for: 4 in the code
    VectorPageSize

Empty == [vectors |-> <<>>, lists |-> <<>>, cached |-> FALSE, matrix |-> <<>>]

ActiveWords(vector) == {w \in DOMAIN vector : vector[w] > 0}
List(ix, word) == IF word \in DOMAIN ix.lists THEN ix.lists[word] ELSE EmptyBag

Dot(v, q) == FoldFunction(+, 0, [w \in DOMAIN v |-> v[w] * q[w]])
IsZero(v) == ActiveWords(v) = {}

\* Cosine of the angle to the query, its norm apart, squared: a fraction.  A
\* zero vector scores zero.
Score(v, q) == IF IsZero(v) THEN <<0, 1>> ELSE <<Dot(v, q) ^ 2, Dot(v, v)>>
Higher(s, t) == s[1] * t[2] > t[1] * s[2]

-----------------------------------------------------------------------------
AddToIndex(ix, key, vector) ==
    LET active == ActiveWords(vector)
    IN  [vectors |-> SetItem(ix.vectors, key, vector),
         lists   |-> Updated(ix.lists, [w \in active |-> BagAdd(List(ix, w), key)]),
         cached  |-> FALSE,
         matrix  |-> <<>>]

\* build does not clear what is there.
Build(ix, rows) == FoldLeft(LAMBDA x, row : AddToIndex(x, row.key, row.vector), ix, rows)

\* One copy of the key leaves the lists of the words the last vector has.
Delete(ix, key) ==
    IF key \notin DOMAIN ix.vectors THEN ix
    ELSE LET active == ActiveWords(ix.vectors[key]) \cap DOMAIN ix.lists
         IN  [vectors |-> Without(ix.vectors, {key}),
              lists   |-> Updated(ix.lists, [w \in active |-> BagRemove(ix.lists[w], key)]),
              cached  |-> FALSE,
              matrix  |-> <<>>]

-----------------------------------------------------------------------------
(* Searches *)

EnsureMatrix(ix) ==
    IF ix.cached THEN ix ELSE [ix EXCEPT !.cached = TRUE, !.matrix = ix.vectors]

\* The first n of some keys when they are put in an order.
FirstOf(keys, n, Ahead(_, _)) ==
    LET sorted == SortedBy(Ascending(keys), {p \in keys \X keys : Ahead(p[1], p[2])})
    IN  SubSeq(sorted, 1, IF n < Len(sorted) THEN n ELSE Len(sorted))

\* The query's words that at most one key in twenty has.
SelectiveWords(ix, query) ==
    LET total == Cardinality(DOMAIN ix.matrix)
        cap   == IF total < 40 THEN 1 ELSE total \div 20
    IN  {w \in ActiveWords(query) : BagCardinality(List(ix, w)) \in 1 .. cap}

Limit(total, k) ==
    IF k * Oversample > total \div 100 THEN k * Oversample ELSE total \div 100

\* The keys the search compares: all, unless enough of them share a selective
\* word of the query; then those that share most.
BadCandidates(ix, query, k) ==  \* however few share a word
    LET words   == SelectiveWords(ix, query)
        keys    == DOMAIN ix.matrix
        limit   == Limit(Cardinality(keys), k)
        Overlap(key) == FoldSet(LAMBDA w, sum : sum + ix.matrix[key][w] * query[w], 0, words)
    IN  IF words = {} \/ 10 * limit >= 3 * Cardinality(keys) THEN keys
        ELSE ToSet(FirstOf(keys, limit, LAMBDA a, b : Overlap(a) > Overlap(b)))
Candidates(ix, query, k) ==
    LET words   == SelectiveWords(ix, query)
        keys    == DOMAIN ix.matrix
        limit   == Limit(Cardinality(keys), k)
        Overlap(key) == FoldSet(LAMBDA w, sum : sum + ix.matrix[key][w] * query[w], 0, words)
    IN  IF \/ words = {}
           \/ 10 * limit >= 3 * Cardinality(keys)
           \/ Cardinality({key \in keys : Overlap(key) # 0}) < limit
        THEN keys
        ELSE ToSet(FirstOf(keys, limit, LAMBDA a, b : Overlap(a) > Overlap(b)))

\* Keys and scores, best first; equal scores in the order of the keys, where
\* argpartition may choose.  Vectors of different lengths cannot be stacked,
\* nor multiplied by a query of another length.
Search(unbuilt, query, k) ==
    LET ix   == EnsureMatrix(unbuilt)
        keys == Candidates(ix, query, k)
        Cosine(key) == Score(ix.matrix[key], query)
        best == FirstOf(keys, k, LAMBDA a, b : Higher(Cosine(a), Cosine(b)))
        lengths == {Len(unbuilt.vectors[key]) : key \in DOMAIN unbuilt.vectors}
    IN  CASE lengths = {}              -> Answer(<<>>)
          [] Cardinality(lengths) > 1  -> ValueError
          [] IsZero(query) \/ \A key \in keys : IsZero(ix.matrix[key]) -> Answer(<<>>)
          [] lengths # {Len(query)}    -> ValueError
          [] OTHER -> Answer([i \in DOMAIN best |-> [key |-> best[i], score |-> Cosine(best[i])]])

SearchAll(ix) == DOMAIN ix.vectors

-----------------------------------------------------------------------------
(* The snapshot: a line for each vector.  The lists are made again. *)

VectorPages(ix) ==
    LET keys == Ascending(DOMAIN ix.vectors)
    IN  RowPages([i \in DOMAIN keys |-> [key |-> keys[i], vector |-> ix.vectors[keys[i]],
                                         size |-> Len(ix.vectors[keys[i]])]], VectorPageSize)

Reload(ix) == Build(Empty, ReadRows(VectorPages(ix)).rows)
=============================================================================
