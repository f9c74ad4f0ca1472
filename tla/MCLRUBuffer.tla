---------------------------- MODULE MCLRUBuffer ----------------------------
(***************************************************************************)
(* Two files of two pages and a buffer of two: a get of a third page       *)
(* evicts one of the others, flush(file) leaves the other file dirty, and  *)
(* pinning both cached pages fills the buffer.  With the fourth page a get *)
(* that failed leaves three, and the next one has to take out two to be    *)
(* within capacity.  No more than two pages are pinned at once: a third    *)
(* pin fills a buffer that is full already.                                *)
(***************************************************************************)
EXTENDS LRUBuffer

CONSTANTS blank, text

MCKey      == {<<1, 0>>, <<1, 1>>, <<2, 0>>}
MCMoreKeys == MCKey \cup {<<2, 1>>}
MCContents == {blank, text}
TwoPins    == Cardinality({k \in Key : pins[k] > 0}) <= 2
=============================================================================
