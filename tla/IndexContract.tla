--------------------------- MODULE IndexContract ----------------------------
(***************************************************************************)
(* The six indexes over one column of one table, driven by the same calls: *)
(* the contract of core/ports/index.py that tests/test_index_contract.py   *)
(* checks on one example each.  `rows` is what the caller has put in and   *)
(* not deleted.  Under one key the ordered indexes and the R-tree keep     *)
(* every row; to the text and the KNN index a second row is a new version  *)
(* of the first.                                                           *)
(***************************************************************************)
EXTENDS IndexPorts

CONSTANTS
    MaxCopies,          \* bound: for each kind of index, the column's values
                        \* and how many rows each may have
    Order, PageCapacity, OverflowCapacity, BucketCapacity,
    Hash, HashBits,
    StopWords, BlockDocumentLimit, BlockPageSize, WindowWords, PostingPageSize,
    TextOf,             \* text of each version of a document
    VocabularyLimits,   \* 0 is none
    Oversample, VectorPageSize,
    VectorOf,           \* histogram of each version of a file
    Queries,            \* histograms to search for
    MaxListed,          \* bound: entries in a list of the KNN index
    MaxNumbered         \* bound: numbers the R-tree gives between two restarts

Ordered == {"bplus", "isam", "hash"}
Kinds   == Ordered \cup {"rtree", "inverted", "knn"}

ASSUME KeysAssumption     ==
    \A kd \in Ordered :
        LET keys == DOMAIN MaxCopies[kd]
        IN  /\ keys \subseteq Int /\ IsFiniteSet(keys) /\ None \notin keys
            /\ MaxCopies[kd] \in [keys -> Nat \ {0}]
ASSUME CapacityAssumption ==
    /\ Order \in Nat /\ Order >= 3
    /\ {PageCapacity, OverflowCapacity, BucketCapacity} \subseteq Nat \ {0}
\* A point has two coordinates.
ASSUME PointsAssumption ==
    /\ DOMAIN MaxCopies["rtree"] \subseteq Int \X Int /\ IsFiniteSet(DOMAIN MaxCopies["rtree"])
    /\ MaxCopies["rtree"] \in [DOMAIN MaxCopies["rtree"] -> Nat \ {0}]
ASSUME TextAssumption ==
    /\ {BlockDocumentLimit, BlockPageSize, WindowWords, PostingPageSize} \subseteq Nat \ {0}
    /\ VocabularyLimits \subseteq Nat
    /\ \A doc \in DOMAIN MaxCopies["inverted"] :
          TextOf[doc] \in Seq(Seq(Seq(Nat))) /\ Len(TextOf[doc]) = MaxCopies["inverted"][doc]
ASSUME VectorAssumption ==
    /\ {Oversample, VectorPageSize, MaxListed, MaxNumbered} \subseteq Nat \ {0}
    /\ \A key \in DOMAIN MaxCopies["knn"] :
          VectorOf[key] \in Seq(Seq(Nat)) /\ Len(VectorOf[key]) = MaxCopies["knn"][key]
    /\ Queries \subseteq Seq(Nat)

B == INSTANCE BPlusTree
R == INSTANCE RTree
X == INSTANCE InvertedIndex
K == INSTANCE KnnIndex
I == INSTANCE ISAM
H == INSTANCE ExtendibleHash

\* The digests of distinct keys differ.
ASSUME HashAssumption ==
    /\ HashBits \in Nat \ {0}
    /\ Hash \in [DOMAIN MaxCopies["hash"] -> 0 .. H!Pow2[HashBits] - 1]
    /\ \A k, l \in DOMAIN MaxCopies["hash"] : k # l => Hash[k] # Hash[l]

VARIABLES
    kind,       \* the case of the test
    index,      \* the index under test
    rows        \* what it was given and has not been told to delete

vars == <<kind, index, rows>>

Key    == DOMAIN MaxCopies[kind]
Record == UNION {[key : {k}, id : 1 .. MaxCopies[kind][k]] : k \in Key}

Copies(k) == Cardinality({r \in rows : r.key = k})

\* The records that build is given, in some order.
Stored == FoldSet(LAMBDA r, found : Append(found, r), <<>>, rows)

-----------------------------------------------------------------------------
Vectors(records) ==
    [i \in DOMAIN records |-> [key    |-> records[i].key,
                               vector |-> VectorOf[records[i].key][records[i].id]]]

\* build, from any records, of one version each where there are versions; or a
\* text index that is never built.
Init ==
    /\ kind \in Kinds
    /\ rows \in {set \in SUBSET Record :
                    \A r \in set : \A n \in 1 .. r.id : [r EXCEPT !.id = n] \in set}
    /\ \/ kind = "bplus" /\ index = B!Build(Stored)
       \/ kind = "isam"  /\ index = I!Build(Stored)
       \/ kind = "hash"  /\ index = H!Build(Stored)
       \/ kind = "rtree" /\ index = R!Build(Stored)
       \/ /\ kind = "inverted" /\ \A r \in rows : r.id = 1
          /\ \E limit \in VocabularyLimits :
                IF rows = {} THEN index = X!New(limit) ELSE index = X!Build(Stored, limit)
       \/ /\ kind = "knn" /\ \A r \in rows : r.id = 1
          /\ index = K!Build(K!Empty, Vectors(Stored))

InsertRow(k) ==
    /\ Copies(k) < MaxCopies[kind][k]
    /\ LET record == [key |-> k, id |-> Copies(k) + 1]
       IN  /\ rows' = rows \cup {record}
           /\ \/ kind = "bplus" /\ index' = B!InsertRecord(index, k, record)
              \/ kind = "isam"  /\ index' = I!InsertRecord(index, k, record)
              \/ kind = "hash"  /\ index' = H!InsertRecord(index, k, record)
              \/ /\ kind = "rtree" /\ index.next_id <= MaxNumbered
                 /\ index' = R!InsertRecord(index, record)
              \/ kind = "inverted" /\ index' = X!InsertRecord(index, k, record)
              \/ /\ kind = "knn" /\ index' = K!AddToIndex(index, k, VectorOf[k][record.id])
                 /\ \A w \in DOMAIN index'.lists :
                       BagCardinality(index'.lists[w]) <= MaxListed
    /\ UNCHANGED kind

DeleteKey(k) ==
    /\ rows' = {r \in rows : r.key # k}
    /\ \/ kind = "bplus" /\ index' = B!Delete(index, k)
       \/ kind = "isam"  /\ index' = I!Delete(index, k)
       \/ kind = "hash"  /\ index' = H!Delete(index, k)
       \/ kind = "rtree" /\ index' = R!Delete(index, k)
       \/ kind = "inverted" /\ index' = X!Delete(index, k)
       \/ kind = "knn" /\ index' = K!Delete(index, k)
    /\ UNCHANGED kind

\* The process starts again.  ISAM and the hash save every field they have and
\* come back as they were; the others make theirs again from what they save.
Reload ==
    /\ \/ kind = "bplus" /\ index' = B!Reload(index)
       \/ kind = "rtree" /\ index' = R!Reload(index)
       \/ kind = "inverted" /\ index' = X!Reload(index)
       \/ kind = "knn" /\ index' = K!Reload(index)
    /\ UNCHANGED <<kind, rows>>

\* The one search that changes its index.
SearchVectors ==
    /\ kind = "knn" /\ rows # {}
    /\ index' = K!EnsureMatrix(index)
    /\ UNCHANGED <<kind, rows>>

Next == (\E k \in Key : InsertRow(k) \/ DeleteKey(k)) \/ Reload \/ SearchVectors

Spec == Init /\ [][Next]_vars

-----------------------------------------------------------------------------
(* Searches *)

SearchAll ==
    CASE kind = "bplus" -> B!SearchAll(index)
      [] kind = "isam"  -> I!SearchAll(index)
      [] kind = "hash"  -> H!SearchAll(index)
      [] kind = "rtree" -> R!SearchAll(index)

SearchKey(k) ==
    CASE kind = "bplus" -> B!SearchKey(index, k)
      [] kind = "isam"  -> I!SearchKey(index, k)
      [] kind = "hash"  -> H!SearchKey(index, k)
      [] kind = "rtree" -> R!SearchKey(index, k)

SearchRange(p) ==
    CASE kind = "bplus" -> B!SearchRange(index, p)
      [] kind = "isam"  -> I!SearchRange(index, p)
      [] kind = "hash"  -> H!SearchRange(index, p)

-----------------------------------------------------------------------------
(* Properties *)

\* Each row once, and nothing else.
Exactly(answer, set) == ToSet(answer) = set /\ Len(answer) = Cardinality(set)

InKeyOrder(answer) == \A i, j \in DOMAIN answer : i < j => answer[i].key <= answer[j].key

\* The variables stay in range, and no index refers to a page, node or bucket
\* it does not have.
TypeOK ==
    /\ kind \in Kinds
    /\ rows \subseteq Record
    /\ kind = "bplus" => \A n \in DOMAIN index.nodes :
          /\ index.nodes[n].next \in {B!NoNode} \cup DOMAIN index.nodes
          /\ ToSet(index.nodes[n].children) \subseteq DOMAIN index.nodes
          /\ ToSet(index.nodes[n].keys) \subseteq Key
    /\ kind = "isam" =>
          \A page \in ToSet(index.primary) :
              page.overflow_head \in {I!NoPage} \cup DOMAIN index.overflow
    /\ kind = "hash" =>
          /\ DOMAIN index.directory = 0 .. H!Pow2[index.global_depth] - 1
          /\ H!UniqueBuckets(index) \subseteq DOMAIN index.buckets
    /\ kind = "rtree" =>
          /\ DOMAIN index.records \subseteq 1 .. index.next_id - 1
          /\ DOMAIN index.points = DOMAIN index.records /\ index.tree = index.points
    /\ kind = "inverted" =>
          /\ \A c \in DOMAIN index.chunk_parent : index.chunk_parent[c] \in DOMAIN index.documents
          /\ \A t \in DOMAIN index.postings : DOMAIN index.postings[t] \subseteq DOMAIN index.chunk_parent
    /\ kind = "knn" /\ index.cached => DOMAIN index.matrix = DOMAIN index.vectors

\* Whatever was built, inserted, deleted and reloaded before, an equality
\* search finds the rows of the key: duplicates in overflow pages or beyond a
\* fence, keys whose leaf or bucket has split, keys put back after a delete,
\* points numbered again.
EqualityAnswers ==
    kind \in Ordered \cup {"rtree"} => \A k \in Key : Exactly(SearchKey(k), {r \in rows : r.key = k})

\* A range with both bounds, open or closed, finds its rows in key order; a
\* scan finds every row (ISAM's goes page by page, so not in key order).
RangeAnswers == kind \in Ordered =>
    /\ Exactly(SearchAll, rows)
    /\ kind # "isam" => InKeyOrder(SearchAll)
    /\ \A low, high \in Key, includeLow, includeHigh \in BOOLEAN :
          LET p      == RangePredicate(low, high, includeLow, includeHigh)
              answer == SearchRange(p)
          IN  /\ ~answer.raised
              /\ Exactly(answer.records,
                         {r \in rows : ~TooLow(p, r.key) /\ ~TooHigh(p, r.key)})
              /\ InKeyOrder(answer.records)

\* B+tree: leaves are at one depth although deletes never rebalance, no node
\* is over the order or (the leaves apart) without a key, and the chain of
\* `next` is the leaves in the order the separators put them.
TreeShape ==
    kind = "bplus" =>
        LET nodes == index.nodes
            depth[n \in DOMAIN nodes] ==
                IF B!IsLeaf(nodes[n]) THEN {0}
                ELSE {d + 1 : d \in UNION {depth[c] : c \in ToSet(nodes[n].children)}}
            leaves[n \in DOMAIN nodes] ==
                IF B!IsLeaf(nodes[n]) THEN <<n>>
                ELSE FlattenSeq([i \in DOMAIN nodes[n].children |->
                                    leaves[nodes[n].children[i]]])
        IN  /\ Cardinality(depth[index.root]) = 1
            /\ B!Chain(index, B!LeftmostLeaf(index)) = leaves[index.root]
            /\ \A n \in DOMAIN nodes :
                  /\ Len(nodes[n].keys) <= B!MaxKeys
                  /\ ~B!IsLeaf(nodes[n]) =>
                        nodes[n].keys # <<>> /\ Len(nodes[n].children) = Len(nodes[n].keys) + 1

\* ISAM: fences never decrease, no record is past its page's fence or before
\* the fence to its left, no page is over its capacity, and every overflow
\* page is in one chain.
FencesBound ==
    kind = "isam" =>
        LET pages == index.primary
            chain(i) == I!OverflowChain(index, pages[i])
        IN  /\ \A i \in DOMAIN pages :
                  /\ Len(pages[i].records) <= PageCapacity
                  /\ \A r \in ToSet(I!PageRecords(index, pages[i])) :
                        /\ r.key <= pages[i].high_key
                        /\ i > 1 => pages[i - 1].high_key <= r.key
            /\ \A i \in 2 .. Len(pages) : pages[i - 1].high_key <= pages[i].high_key
            /\ \A n \in DOMAIN index.overflow :
                  /\ Len(index.overflow[n].records) <= OverflowCapacity
                  /\ Cardinality({i \in DOMAIN pages : n \in ToSet(chain(i))}) = 1

\* Hash: a bucket of local depth d is reached by all the slots that agree with
\* it on d bits and no other; some bucket is as deep as the directory, unless
\* it never split; a bucket is within capacity and holds keys that lead to it.
DirectoryConsistent ==
    kind = "hash" =>
        /\ \A slot, other \in DOMAIN index.directory :
              LET depth == index.buckets[index.directory[slot]].local_depth
              IN  index.directory[slot] = index.directory[other]
                    <=> slot % H!Pow2[depth] = other % H!Pow2[depth]
        /\ index.global_depth = Max({index.buckets[b].local_depth : b \in DOMAIN index.buckets})
        /\ H!UniqueBuckets(index) = DOMAIN index.buckets
        /\ \A b \in DOMAIN index.buckets :
              LET held == DOMAIN index.buckets[b].entries
              IN  Cardinality(held) <= BucketCapacity /\ \A k \in held : H!BucketIndex(index, k) = b

\* R-tree: a box, borders included, finds its points in their order; a search
\* for the k nearest finds k of them, nearest first, and leaves none nearer out.
SpatialAnswers ==
    kind = "rtree" =>
        /\ Exactly(SearchAll, rows)
        /\ \A low, high \in Key :
              LET answer == R!SearchBox(index, low, high)
              IN  /\ Exactly(answer, {r \in rows : R!InsideBounds(r.key, low, high)})
                  /\ \A i, j \in DOMAIN answer :
                        i < j => ~R!Before(answer[j].key, answer[i].key)
        /\ \A point \in Key, k \in 1 .. Cardinality(Record) :
              LET answer == R!SearchNearest(index, point, k)
                  far(r) == R!Distance(r.key, point)
              IN  /\ Len(answer) = Min({k, Cardinality(rows)})
                  /\ IsInjective(answer) /\ ToSet(answer) \subseteq rows
                  /\ \A i, j \in DOMAIN answer : i < j => far(answer[i]) <= far(answer[j])
                  /\ \A r \in rows \ ToSet(answer), s \in ToSet(answer) : far(s) <= far(r)

Present   == {r.key : r \in rows}
Latest(k) == [key |-> k, id |-> Copies(k)]

\* How often a word is in the versions of a document given since it was last
\* deleted.
Times(doc, word) ==
    LET In(paragraph) == Cardinality({i \in DOMAIN paragraph : paragraph[i] = word})
        Count(text)   == FoldLeft(LAMBDA n, paragraph : n + In(paragraph), 0, text)
    IN  FoldSet(LAMBDA r, n : n + Count(TextOf[doc][r.id]), 0, {r \in rows : r.key = doc})

\* Text: a query finds, once each and as it was given last, the documents with
\* one of its words, those of replaced versions included; the postings of a
\* word count it, through blocks, merges, chunks, deletes and restarts; and
\* while the vocabulary is not frozen the words queries see are the most
\* frequent ones.
TextAnswers ==
    kind = "inverted" =>
        LET words   == UNION {ToSet(p) : p \in UNION {ToSet(TextOf[r.key][r.id]) : r \in Record}}
            terms   == words \ StopWords
            times   == [doc \in Present, t \in terms |-> Times(doc, t)]
            total   == [t \in terms |-> FoldSet(LAMBDA doc, n : n + times[doc, t], 0, Present)]
            ahead(t) == {u \in terms : total[u] > total[t] \/ (total[u] = total[t] /\ u < t)}
            seen(t) == CASE index.limit = 0 -> TRUE
                         [] index.scope = "frozen" -> t \in index.terms
                         [] OTHER -> Cardinality(ahead(t)) < index.limit
            hits(query) == {doc \in Present : \E t \in query : seen(t) /\ times[doc, t] > 0}
        IN  /\ Exactly(X!SearchAll(index), {Latest(doc) : doc \in Present})
            /\ \A v, w \in words :
                  Exactly(X!Search(index, <<v, w>>, Cardinality(Record)),
                          {Latest(doc) : doc \in hits({v, w} \ StopWords)})
            /\ \A t \in terms, doc \in Present : seen(t) =>
                  LET postings == X!PostingsFor(index, t)
                      chunks   == {c \in DOMAIN postings : index.chunk_parent[c] = doc}
                  IN  times[doc, t] = FoldSet(LAMBDA c, n : n + postings[c], 0, chunks)

\* A vocabulary that build froze stays as it was, a restart included.
VocabularyKept ==
    [][kind = "inverted" /\ index.scope = "frozen" =>
          index'.scope = "frozen" /\ index'.terms = index.terms]_vars

\* KNN: a search compares the vectors as they are now, whatever matrix was
\* built before, and returns k keys, best first.  No key left out is better,
\* or the search was pruned and every key returned shares with the query a
\* word that few have; so every key is in the lists of the words it has.
KnnAnswers ==
    kind = "knn" =>
        LET vector  == [k \in Present |-> VectorOf[k][Copies(k)]]
            few     == Max({1, Cardinality(Present) \div 20})
            holders(w) == {k \in Present : vector[k][w] > 0}
            rare(q) == {w \in K!ActiveWords(q) : Cardinality(holders(w)) \in 1 .. few}
        IN  /\ K!SearchAll(index) = Present
            /\ \A k \in Present : \A w \in K!ActiveWords(vector[k]) :
                  BagIn(k, K!List(index, w))
            /\ \A q \in Queries, n \in 1 .. Cardinality(Record) :
                  LET answer == K!Search(index, q, n)
                      keys   == {r.key : r \in ToSet(answer.records)}
                      better(k, l) == K!Higher(K!Score(vector[k], q), K!Score(vector[l], q))
                  IN  /\ ~answer.raised /\ keys \subseteq Present
                      /\ Cardinality(keys) = Len(answer.records)
                      /\ Len(answer.records) = Min({n, Cardinality(Present)})
                      /\ \A i, j \in DOMAIN answer.records :
                            i < j => ~better(answer.records[j].key, answer.records[i].key)
                      /\ \/ \A k \in keys, l \in Present \ keys : ~better(l, k)
                         \/ \A k \in keys : \E w \in rare(q) : vector[k][w] > 0
=============================================================================
