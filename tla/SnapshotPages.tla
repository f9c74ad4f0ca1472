---------------------------- MODULE SnapshotPages ----------------------------
(***************************************************************************)
(* How rows of text become pages and pages become rows again, the same way *)
(* in text_index.py, knn_index.py and spimi_builder.py.  A row is a line   *)
(* of row.size bytes, and a byte is its place in a row: the last of a row  *)
(* is the line feed.                                                       *)
(***************************************************************************)
EXTENDS Integers, SequencesExt

Bytes(row)   == [i \in 1 .. row.size |-> [row |-> row, at |-> i]]
Stream(rows) == FlattenSeq([i \in DOMAIN rows |-> Bytes(rows[i])])

\* stream[start:start + size] for start in range(0, len(stream), size)
Cut(stream, size) ==
    [p \in 1 .. (Len(stream) + size - 1) \div size |->
        SubSeq(stream, (p - 1) * size + 1, IF p * size < Len(stream) THEN p * size ELSE Len(stream))]

\* Whole rows to a page; a row longer than a page is cut over pages of its own.
RowPages(rows, size) ==
    LET Close(b) == IF b.current = <<>> THEN b
                    ELSE [pages |-> Append(b.pages, b.current), current |-> <<>>]
        Put(b, row) ==
            LET room == IF Len(b.current) + row.size > size THEN Close(b) ELSE b
            IN  IF row.size > size THEN [room EXCEPT !.pages = @ \o Cut(Bytes(row), size)]
                ELSE [room EXCEPT !.current = @ \o Bytes(row)]
    IN  Close(FoldLeft(Put, [pages |-> <<>>, current |-> <<>>], rows)).pages

\* The lines of some pages in a row, and whether each is a whole row: one that
\* is not makes json.loads raise.
ReadRows(pages) ==
    LET Take(r, byte) ==
            LET line == Append(r.carry, byte)
            IN  IF byte.at < byte.row.size THEN [r EXCEPT !.carry = line]
                ELSE [rows   |-> Append(r.rows, byte.row),
                      carry  |-> <<>>,
                      raised |-> r.raised \/ line # Bytes(byte.row)]
        read == FoldLeft(Take, [rows |-> <<>>, carry |-> <<>>, raised |-> FALSE], FlattenSeq(pages))
    IN  [rows |-> read.rows, raised |-> read.raised \/ read.carry # <<>>]
=============================================================================
