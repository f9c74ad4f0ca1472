--------------------------- MODULE ExtendibleHash ---------------------------
(***************************************************************************)
(* ExtendibleHashIndex (indices/extendible_hash.py).  Directory slots and  *)
(* bucket numbers count from zero as in the code, so both lists are        *)
(* functions.  A bucket's entries are a function from its keys to their    *)
(* records: the dict is keyed by the key's JSON text, one text per key.    *)
(***************************************************************************)
EXTENDS IndexPorts

CONSTANTS
    BucketCapacity,
    Hash,           \* _hash_key: the low HashBits bits of a blake2b digest
    HashBits        \* bound: keys are told apart by so many bits (64 there)

-----------------------------------------------------------------------------
(* Definitions named Bad... are slips of the definition after them that    *)
(* some property must notice; no operation uses one.                       *)

\* `1 << n`
Pow2[n \in Nat] == IF n = 0 THEN 1 ELSE 2 * Pow2[n - 1]

NoEntries == [k \in {} |-> <<>>]
Bucket(depth) == [local_depth |-> depth, entries |-> NoEntries]

Empty ==
    [global_depth |-> 1,
     directory    |-> [slot \in 0 .. 1 |-> slot],
     buckets      |-> [b \in 0 .. 1 |-> Bucket(1)]]

DirectoryPosition(t, key) == Hash[key] % Pow2[t.global_depth]
BucketIndex(t, key)       == t.directory[DirectoryPosition(t, key)]
BucketForKey(t, key)      == t.buckets[BucketIndex(t, key)]
BucketCount(t)            == Cardinality(DOMAIN t.buckets)

\* `pos & (1 << depth)`
BadBitSet(pos, depth) == (pos \div Pow2[depth + 1]) % 2 = 1
BitSet(pos, depth) == (pos \div Pow2[depth]) % 2 = 1

-----------------------------------------------------------------------------
(* Searching: range and scan visit every bucket the directory reaches *)

UniqueBuckets(t) == Range(t.directory)

AllRecords(t) ==
    Joined([b \in UniqueBuckets(t) |-> Joined(t.buckets[b].entries)])

SearchAll(t) == Sorted(AllRecords(t))

SearchKey(t, key) ==
    LET bucket == BucketForKey(t, key)
    IN  IF key \in DOMAIN bucket.entries THEN bucket.entries[key] ELSE <<>>

SearchRange(t, p) == Filter(p, AllRecords(t))

-----------------------------------------------------------------------------
(* Inserting and deleting *)

\* Half of the bucket's slots, those with the new bit set, move to a new
\* bucket; its entries are inserted again under the new directory.
SplitBucket(t, key) ==
    LET b       == BucketIndex(t, key)
        new     == BucketCount(t)
        depth   == t.buckets[b].local_depth
        old     == t.buckets[b].entries
        doubled == IF depth = t.global_depth THEN t.global_depth + 1 ELSE t.global_depth
        slot(pos) == t.directory[pos % Pow2[t.global_depth]]
        directory == [pos \in 0 .. Pow2[doubled] - 1 |->
                         IF slot(pos) = b /\ BitSet(pos, depth) THEN new ELSE slot(pos)]
        homes(i)  == {k \in DOMAIN old : directory[Hash[k] % Pow2[doubled]] = i}
        rest(i)   == IF i \in {b, new} THEN NoEntries ELSE t.buckets[i].entries
        depths(i) == IF i \in {b, new} THEN depth + 1 ELSE t.buckets[i].local_depth
    IN  [global_depth |-> doubled,
         directory    |-> directory,
         buckets      |-> [i \in 0 .. new |->
             [local_depth |-> depths(i),
              entries     |-> Updated(rest(i), [k \in homes(i) |-> old[k]])]]]

HasRoom(t, key) ==
    \/ key \in DOMAIN BucketForKey(t, key).entries
    \/ Cardinality(DOMAIN BucketForKey(t, key).entries) < BucketCapacity

\* `while True`: split until the key's bucket has room.
InsertRecord(t, key, record) ==
    LET room   == FoldLeft(LAMBDA u, i : IF HasRoom(u, key) THEN u ELSE SplitBucket(u, key),
                           t, [i \in 1 .. HashBits |-> i])
        bucket == BucketForKey(room, key)
        filled == [bucket EXCEPT !.entries =
                      SetItem(@, key, Append(SearchKey(room, key), record))]
    IN  [room EXCEPT !.buckets = SetItem(@, BucketIndex(room, key), filled)]

Build(records) == FoldLeft(LAMBDA t, r : InsertRecord(t, r.key, r), Empty, records)

\* Buckets never merge and the directory never shrinks.
Delete(t, key) ==
    [t EXCEPT !.buckets[BucketIndex(t, key)].entries =
        [k \in DOMAIN @ \ {key} |-> @[k]]]
=============================================================================
