--------------------------- MODULE MCSharedBuffer ---------------------------
(***************************************************************************)
(* Two threads, a buffer of two pages, and a page that earlier requests    *)
(* left there.  Apart: each thread has a file of its own, so what is in    *)
(* use fits, and the old page is evicted.  Together: both use one page.    *)
(***************************************************************************)
EXTENDS SharedBuffer

CONSTANTS t1, t2

MCThreads  == {t1, t2}
MCKey      == {<<1, 0>>, <<2, 0>>, <<3, 0>>}
MCCold     == {<<3, 0>>}
MCApart    == (t1 :> {<<1, 0>>}) @@ (t2 :> {<<2, 0>>})
MCTogether == [t \in MCThreads |-> {<<1, 0>>}]

\* The first run is an instance of what the proofs suppose
ASSUME ApartAssumption == Work = MCApart => Apart
=============================================================================
