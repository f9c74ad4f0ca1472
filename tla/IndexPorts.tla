----------------------------- MODULE IndexPorts -----------------------------
(***************************************************************************)
(* What the ordered indexes share: the range predicate of indices/ports.py *)
(* and Python's bisect and list methods.  Keys are integers; None is       *)
(* Python's, which cannot be compared with a key.  A record is             *)
(* [key |-> k, id |-> n]: two records of a key differ in id only.          *)
(***************************************************************************)
EXTENDS Integers, FiniteSets, SequencesExt

CONSTANT None

RangePredicate(low, high, includeLow, includeHigh) ==
    [low |-> low, high |-> high, include_low |-> includeLow, include_high |-> includeHigh]

\* A search that returns, and the two exceptions one can end in.
Answer(records) == [raised |-> FALSE, records |-> records]
TypeError       == [raised |-> TRUE, records |-> <<>>]
ValueError      == [raised |-> TRUE, records |-> <<>>]

\* bisect on a sorted list: how many elements go before the key.
BisectLeft(keys, key)  == Cardinality({i \in DOMAIN keys : keys[i] < key})
BisectRight(keys, key) == Cardinality({i \in DOMAIN keys : keys[i] <= key})

\* list[start:stop] and list.insert(pos, x), counting from zero.
Slice(s, start, stop) == SubSeq(s, start + 1, stop)
Insert(s, pos, x)     == InsertAt(s, pos + 1, x)

KeysOf(records) == [i \in DOMAIN records |-> records[i].key]

\* After the records of its key; and sorted(records, key=_record_key), which
\* is stable too.
InsertSorted(records, record) ==
    Insert(records, BisectRight(KeysOf(records), record.key), record)

Sorted(records) == FoldLeft(InsertSorted, <<>>, records)

\* sorted(seq, key=...), whatever the keys are: the pairs of elements whose keys
\* are in that order.  It is stable.
SortedBy(seq, earlier) ==
    FoldLeft(LAMBDA sorted, x :
                Insert(sorted, Cardinality({i \in DOMAIN sorted : <<x, sorted[i]>> \notin earlier}), x),
             <<>>, seq)

\* [r for r in records if r in wanted]
Selected(records, wanted) ==
    FoldLeft(LAMBDA kept, r : IF r \in wanted THEN Append(kept, r) ELSE kept, <<>>, records)

\* The lists of a dictionary one after the other.
Joined(dict) == FoldSet(LAMBDA k, found : found \o dict[k], <<>>, DOMAIN dict)

\* A set of numbers in order; dictionaries keyed by them, and sorted(...).
Ascending(set) ==
    FoldSet(LAMBDA x, sorted : Insert(sorted, BisectLeft(sorted, x), x), <<>>, set)

\* dict[key] = value, dict.update(more), and a dictionary without some keys.
SetItem(dict, key, value) ==
    [k \in DOMAIN dict \cup {key} |-> IF k = key THEN value ELSE dict[k]]
Updated(dict, more) ==
    [k \in DOMAIN dict \cup DOMAIN more |-> IF k \in DOMAIN more THEN more[k] ELSE dict[k]]
Without(dict, gone) == [key \in DOMAIN dict \ gone |-> dict[key]]

\* The two comparisons with which isam.py and extendible_hash.py drop a record.
TooLow(p, key)  == key < p.low \/ (key = p.low /\ ~p.include_low)
TooHigh(p, key) == key > p.high \/ (key = p.high /\ ~p.include_high)

\* Filtering records one by one: comparing any key with None raises.
Filter(p, records) ==
    IF \/ p.low = None /\ records # <<>>
       \/ p.high = None /\ \E i \in DOMAIN records : ~TooLow(p, records[i].key)
    THEN TypeError
    ELSE Answer(Sorted(Selected(records,
                   {r \in ToSet(records) : ~TooLow(p, r.key) /\ ~TooHigh(p, r.key)})))
=============================================================================
