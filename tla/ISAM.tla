-------------------------------- MODULE ISAM --------------------------------
(***************************************************************************)
(* ISAMIndex (indices/isam.py): sorted primary pages, each with a fence    *)
(* (high_key) and a chain of overflow pages.  Page references count from   *)
(* one; NoPage is the code's None.                                         *)
(***************************************************************************)
EXTENDS IndexPorts

CONSTANTS PageCapacity, OverflowCapacity

NoPage == 0

PrimaryPage(records) ==
    [high_key |-> Last(records).key, records |-> records, overflow_head |-> NoPage]

Build(records) ==
    LET sorted   == Sorted(records)
        count    == (Len(sorted) + PageCapacity - 1) \div PageCapacity
        start(i) == (i - 1) * PageCapacity
        page(i)  == PrimaryPage(Slice(sorted, start(i),
                                      Min({start(i) + PageCapacity, Len(sorted)})))
    IN  [primary |-> [i \in 1 .. count |-> page(i)], overflow |-> <<>>]

-----------------------------------------------------------------------------
(* Definitions named Bad... are slips of the definition after them that    *)
(* some property must notice; no operation uses one.                       *)

-----------------------------------------------------------------------------
(* Finding pages *)

\* The overflow pages of a primary page, in order.
OverflowChain(t, page) ==
    LET chain[n \in 0 .. Len(t.overflow)] ==
            IF n = NoPage THEN <<>> ELSE <<n>> \o chain[t.overflow[n].next]
    IN  chain[page.overflow_head]

PageRecords(t, page) ==
    LET chain == OverflowChain(t, page)
    IN  page.records \o FlattenSeq([i \in DOMAIN chain |-> t.overflow[chain[i]].records])

AllRecords(t) == FlattenSeq([i \in DOMAIN t.primary |-> PageRecords(t, t.primary[i])])

\* Past the last fence, the last page.
FindPage(t, key) ==
    LET fences == [i \in DOMAIN t.primary |-> t.primary[i].high_key]
    IN  Min({BisectLeft(fences, key) + 1, Len(fences)})

\* Duplicates of a fence may go on in the next page.
BadCandidatePages(t, key) == IF t.primary = <<>> THEN {} ELSE {FindPage(t, key)}
CandidatePages(t, key) ==
    IF t.primary = <<>> THEN {}
    ELSE LET first == FindPage(t, key)
         IN  {i \in first .. Len(t.primary) :
                 \A j \in first .. i - 1 : t.primary[j].high_key = key}

-----------------------------------------------------------------------------
(* Searching *)

SearchAll(t) == AllRecords(t)

SearchKey(t, key) ==
    LET pages == CandidatePages(t, key)
        found == [i \in DOMAIN t.primary |->
                     IF i \in pages THEN PageRecords(t, t.primary[i]) ELSE <<>>]
        records == FlattenSeq(found)
    IN  Selected(records, {r \in ToSet(records) : r.key = key})

\* Pages whose fence is under `low` are skipped.
SearchRange(t, p) ==
    IF t.primary = <<>> THEN Answer(<<>>)
    ELSE IF p.low = None THEN TypeError
    ELSE LET found == [i \in DOMAIN t.primary |->
                          IF t.primary[i].high_key >= p.low
                          THEN PageRecords(t, t.primary[i]) ELSE <<>>]
         IN  Filter(p, FlattenSeq(found))

-----------------------------------------------------------------------------
(* Inserting and deleting *)

OverflowPage(record) == [records |-> <<record>>, next |-> NoPage]

\* The first page of the chain with room; a new page at the chain's end.
BadAppendOverflowRecord(t, n, record) ==
    [primary  |-> [t.primary EXCEPT ![n].overflow_head = Len(t.overflow) + 2],
     overflow |-> Append(t.overflow, OverflowPage(record))]
AppendOverflowRecord(t, n, record) ==
    LET chain == OverflowChain(t, t.primary[n])
        room  == SelectInSeq(chain, LAMBDA q : Len(t.overflow[q].records) < OverflowCapacity)
        new   == Len(t.overflow) + 1
    IN  IF room # 0
        THEN [t EXCEPT !.overflow[chain[room]].records = InsertSorted(@, record)]
        ELSE [primary  |-> IF chain = <<>> THEN [t.primary EXCEPT ![n].overflow_head = new]
                                           ELSE t.primary,
              overflow |-> Append(IF chain = <<>> THEN t.overflow
                                  ELSE [t.overflow EXCEPT ![Last(chain)].next = new],
                                  OverflowPage(record))]

\* Only the last page's fence can be passed.
BadRaiseFence(t, n, key) == t
RaiseFence(t, n, key) == [t EXCEPT !.primary[n].high_key = Max({@, key})]

InsertRecord(t, key, record) ==
    IF t.primary = <<>>
    THEN [t EXCEPT !.primary = <<PrimaryPage(<<record>>)>>]
    ELSE LET n      == FindPage(t, key)
             fenced == RaiseFence(t, n, key)
         IN  IF Len(t.primary[n].records) < PageCapacity
             THEN [fenced EXCEPT !.primary[n].records = InsertSorted(@, record)]
             ELSE AppendOverflowRecord(fenced, n, record)

\* Pages and fences stay, whatever is left in them.
Delete(t, key) ==
    LET pages  == CandidatePages(t, key)
        chains == UNION {ToSet(OverflowChain(t, t.primary[i])) : i \in pages}
        kept(records) == Selected(records, {r \in ToSet(records) : r.key # key})
    IN  [primary  |-> [i \in DOMAIN t.primary |->
                          IF i \in pages THEN [t.primary[i] EXCEPT !.records = kept(@)]
                                         ELSE t.primary[i]],
         overflow |-> [i \in DOMAIN t.overflow |->
                          IF i \in chains THEN [t.overflow[i] EXCEPT !.records = kept(@)]
                                          ELSE t.overflow[i]]]
=============================================================================
