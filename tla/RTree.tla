-------------------------------- MODULE RTree --------------------------------
(***************************************************************************)
(* indices/rtree.py: points and records by number, beside a tree of the    *)
(* rtree library that holds the numbers by point.  A record's key is its   *)
(* point, a tuple of integers.                                             *)
(***************************************************************************)
EXTENDS IndexPorts

Empty == [records |-> <<>>, points |-> <<>>, tree |-> <<>>, next_id |-> 1]

Below(p, q)              == \A i \in DOMAIN p : p[i] <= q[i]
InsideBounds(p, low, high) == Below(low, p) /\ Below(p, high)
Distance(p, q)           == FoldFunction(+, 0, [i \in DOMAIN p |-> (p[i] - q[i]) * (p[i] - q[i])])

\* Tuples compare by the first coordinate that differs.
Before(p, q) ==
    \E i \in DOMAIN p : p[i] < q[i] /\ \A j \in 1 .. i - 1 : p[j] = q[j]

-----------------------------------------------------------------------------
(* The library: boxes are closed, and nearest returns also those as far as *)
(* the last one it was asked for.                                          *)

Intersection(ix, low, high) == {id \in DOMAIN ix.tree : InsideBounds(ix.tree[id], low, high)}

Nearest(ix, point, k) ==
    LET far(id) == Distance(ix.tree[id], point)
    IN  {id \in DOMAIN ix.tree : Cardinality({o \in DOMAIN ix.tree : far(o) < far(id)}) < k}

-----------------------------------------------------------------------------
InsertRecord(ix, record) ==
    LET id == ix.next_id
    IN  [records |-> SetItem(ix.records, id, record),
         points  |-> SetItem(ix.points, id, record.key),
         tree    |-> SetItem(ix.tree, id, record.key),
         next_id |-> id + 1]

Build(records) == FoldLeft(InsertRecord, Empty, records)

\* Of the numbers found at the point, those whose record is there.
Delete(ix, point) ==
    LET gone == {id \in Intersection(ix, point, point) : ix.points[id] = point}
    IN  [ix EXCEPT !.tree = Without(@, gone), !.records = Without(@, gone),
                   !.points = Without(@, gone)]

\* records.values(), in the order they came in.
Values(ix) ==
    LET ids == Ascending(DOMAIN ix.records) IN [i \in DOMAIN ids |-> ix.records[ids[i]]]

\* Only the records are saved: they are numbered again.
Reload(ix) == Build(Values(ix))

-----------------------------------------------------------------------------
ByPoint(records) ==
    SortedBy(records, {p \in ToSet(records) \X ToSet(records) : Before(p[1].key, p[2].key)})

RecordsOf(ix, ids) ==
    LET sorted == Ascending(ids) IN [i \in DOMAIN sorted |-> ix.records[sorted[i]]]

SearchAll(ix) == ByPoint(Values(ix))

SearchKey(ix, point) ==
    RecordsOf(ix, {id \in Intersection(ix, point, point) : ix.points[id] = point})

BadSearchBox(ix, low, high) ==  \* the border left out
    ByPoint(RecordsOf(ix, {id \in Intersection(ix, low, high) :
                              \E i \in DOMAIN low : low[i] < ix.points[id][i]}))
SearchBox(ix, low, high) ==
    ByPoint(RecordsOf(ix, {id \in Intersection(ix, low, high) :
                              InsideBounds(ix.points[id], low, high)}))

\* What the library returns, sorted by distance, and the first k of it.
SearchNearest(ix, point, k) ==
    LET ids    == Nearest(ix, point, k)
        far(id) == Distance(ix.points[id], point)
        sorted == SortedBy(Ascending(ids), {p \in ids \X ids : far(p[1]) < far(p[2])})
    IN  [i \in 1 .. (IF Len(sorted) < k THEN Len(sorted) ELSE k) |-> ix.records[sorted[i]]]
=============================================================================
