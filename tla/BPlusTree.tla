----------------------------- MODULE BPlusTree ------------------------------
(***************************************************************************)
(* BPlusTreeIndex (indices/bplus_tree.py).  A tree is a table of nodes and *)
(* the root's number, so that `next` and `children` are references as in   *)
(* the code.  A leaf keeps its keys and, in parallel, the records of each; *)
(* the same record shape serves both kinds of node.                        *)
(***************************************************************************)
EXTENDS IndexPorts

CONSTANT Order          \* max_keys is one less

MaxKeys  == Order - 1
NoNode   == 0

Leaf(keys, values, next) ==
    [keys |-> keys, values |-> values, next |-> next, children |-> <<>>]
Internal(keys, children) ==
    [keys |-> keys, values |-> <<>>, next |-> NoNode, children |-> children]
IsLeaf(node) == node.children = <<>>

Empty == [nodes |-> <<Leaf(<<>>, <<>>, NoNode)>>, root |-> 1]

-----------------------------------------------------------------------------
(* Definitions named Bad... are slips of the definition after them that    *)
(* some property must notice; no operation uses one.                       *)

-----------------------------------------------------------------------------
(* Reading *)

\* The nodes _find_leaf visits: an internal node sends equal keys right.
FindPath(t, key) ==
    LET path[n \in DOMAIN t.nodes] ==
            LET node == t.nodes[n]
            IN  <<n>> \o IF IsLeaf(node) THEN <<>>
                         ELSE path[node.children[BisectRight(node.keys, key) + 1]]
    IN  path[t.root]

LeafOf(t, key) == t.nodes[Last(FindPath(t, key))]

\* The leaves reached through `next`.
Chain(t, from) ==
    LET chain[n \in DOMAIN t.nodes] ==
            <<n>> \o IF t.nodes[n].next = NoNode THEN <<>> ELSE chain[t.nodes[n].next]
    IN  chain[from]

LeftmostLeaf(t) ==
    LET first[n \in DOMAIN t.nodes] ==
            IF IsLeaf(t.nodes[n]) THEN n ELSE first[t.nodes[n].children[1]]
    IN  first[t.root]

\* _iter_entries: every <<key, records>>, along the chain.
Entries(t, leaves) ==
    FlattenSeq([i \in DOMAIN leaves |->
        LET leaf == t.nodes[leaves[i]]
        IN  [j \in DOMAIN leaf.keys |-> <<leaf.keys[j], leaf.values[j]>>]])

RecordsOf(entries) == FlattenSeq([i \in DOMAIN entries |-> entries[i][2]])

SearchAll(t) == RecordsOf(Entries(t, Chain(t, LeftmostLeaf(t))))

Found(leaf, key) ==
    LET pos == BisectLeft(leaf.keys, key)
    IN  pos < Len(leaf.keys) /\ leaf.keys[pos + 1] = key

SearchKey(t, key) ==
    LET leaf == LeafOf(t, key)
    IN  IF Found(leaf, key) THEN leaf.values[BisectLeft(leaf.keys, key) + 1] ELSE <<>>

\* The scan starts inside one leaf and stops at the first key past `high`.
BadRangeEntries(t, p) ==
    LET from == Last(FindPath(t, p.low))
    IN  Slice(Entries(t, Chain(t, from)), BisectLeft(t.nodes[from].keys, p.low),
              Len(Entries(t, Chain(t, from))))
RangeEntries(t, p) ==
    LET from == Last(FindPath(t, p.low))
        leaf == t.nodes[from]
        pos  == IF p.include_low THEN BisectLeft(leaf.keys, p.low)
                                 ELSE BisectRight(leaf.keys, p.low)
    IN  Slice(Entries(t, Chain(t, from)), pos, Len(Entries(t, Chain(t, from))))

SearchRange(t, p) ==
    IF p.low = None
    THEN IF t.nodes[t.root].keys = <<>> THEN Answer(<<>>) ELSE TypeError
    ELSE LET entries == RangeEntries(t, p)
         IN  IF p.high = None
             THEN IF entries = <<>> THEN Answer(<<>>) ELSE TypeError
             ELSE LET past == SelectInSeq(entries, LAMBDA e : TooHigh(p, e[1]))
                  IN  Answer(RecordsOf(IF past = 0 THEN entries
                                       ELSE SubSeq(entries, 1, past - 1)))

-----------------------------------------------------------------------------
(* Inserting *)

\* Never between two equal keys, whichever side that favours.
LeafSplitPosition(keys) ==
    LET half   == Len(keys) \div 2
        Cut(i) == keys[i] # keys[i + 1]
        later  == {i \in half .. Len(keys) - 1 : Cut(i)}
        before == {i \in 1 .. half : i = 1 \/ Cut(i)}
    IN  IF later # {} THEN Min(later) ELSE Max(before)

\* The right half is a new node, linked after the left one.
BadSplitLeaf(t, n) ==
    LET leaf == t.nodes[n]
        mid  == LeafSplitPosition(leaf.keys)
        right == Leaf(Slice(leaf.keys, mid, Len(leaf.keys)),
                      Slice(leaf.values, mid, Len(leaf.keys)), leaf.next)
    IN  [nodes |-> Append([t.nodes EXCEPT ![n].keys   = Slice(@, 0, mid),
                                          ![n].values = Slice(@, 0, mid)], right),
         root |-> t.root]
SplitLeaf(t, n) ==
    LET leaf == t.nodes[n]
        mid  == LeafSplitPosition(leaf.keys)
        new  == Len(t.nodes) + 1
        left == Leaf(Slice(leaf.keys, 0, mid), Slice(leaf.values, 0, mid), new)
        right == Leaf(Slice(leaf.keys, mid, Len(leaf.keys)),
                      Slice(leaf.values, mid, Len(leaf.keys)), leaf.next)
    IN  [nodes |-> Append([t.nodes EXCEPT ![n] = left], right), root |-> t.root]

\* The middle key moves up: it stays in neither half.
SplitInternal(t, n) ==
    LET node  == t.nodes[n]
        mid   == Len(node.keys) \div 2
        left  == Internal(Slice(node.keys, 0, mid), Slice(node.children, 0, mid + 1))
        right == Internal(Slice(node.keys, mid + 1, Len(node.keys)),
                          Slice(node.children, mid + 1, Len(node.children)))
    IN  [nodes |-> Append([t.nodes EXCEPT ![n] = left], right), root |-> t.root]

\* Climb the path by which `key` came down until a parent has room; past the
\* root, a new root.  The node to hang is the last one made, and up.promoted is
\* empty once it hangs.
InsertInParent(t, path, key, separator) ==
    LET place(n, up) ==
            IF up.promoted = <<>> THEN up
            ELSE LET node  == up.tree.nodes[n]
                     pos   == BisectRight(node.keys, key)
                     grown == Internal(Insert(node.keys, pos, up.promoted[1]),
                                       Insert(node.children, pos + 1, Len(up.tree.nodes)))
                     tree  == [up.tree EXCEPT !.nodes[n] = grown]
                 IN  IF Len(grown.keys) <= MaxKeys
                     THEN [tree |-> tree, promoted |-> <<>>]
                     ELSE [tree |-> SplitInternal(tree, n),
                           promoted |-> <<grown.keys[Len(grown.keys) \div 2 + 1]>>]
        top == FoldRight(place, path, [tree |-> t, promoted |-> <<separator>>])
    IN  IF top.promoted = <<>> THEN top.tree
        ELSE [nodes |-> Append(top.tree.nodes,
                               Internal(top.promoted, <<t.root, Len(top.tree.nodes)>>)),
              root |-> Len(top.tree.nodes) + 1]

InsertRecord(t, key, record) ==
    LET path == FindPath(t, key)
        n    == Last(path)
        leaf == t.nodes[n]
        pos  == BisectLeft(leaf.keys, key)
    IN  IF Found(leaf, key)
        THEN [t EXCEPT !.nodes[n].values[pos + 1] = Append(@, record)]
        ELSE LET grown == Leaf(Insert(leaf.keys, pos, key),
                               Insert(leaf.values, pos, <<record>>), leaf.next)
                 tree  == [t EXCEPT !.nodes[n] = grown]
             IN  IF Len(grown.keys) <= MaxKeys THEN tree
                 ELSE LET split == SplitLeaf(tree, n)
                      IN  InsertInParent(split, Front(path), key, Last(split.nodes).keys[1])

-----------------------------------------------------------------------------
(* The other operations *)

InsertAll(records) ==
    FoldLeft(LAMBDA t, r : InsertRecord(t, r.key, r), Empty, records)

Build(records) == InsertAll(Sorted(records))

\* No rebalancing: a leaf may stay empty, its separator stays in the parent.
Delete(t, key) ==
    LET n    == Last(FindPath(t, key))
        leaf == t.nodes[n]
        pos  == BisectLeft(leaf.keys, key)
    IN  IF ~Found(leaf, key) THEN t
        ELSE [t EXCEPT !.nodes[n] = Leaf(RemoveAt(leaf.keys, pos + 1),
                                         RemoveAt(leaf.values, pos + 1), leaf.next)]

\* The snapshot holds the entries, not the nodes; loading inserts them again.
Reload(t) == InsertAll(SearchAll(t))
=============================================================================
