--------------------------- MODULE MCHybridSearch ---------------------------
(***************************************************************************)
(* Three files with vectors and one without; two files share a text, one   *)
(* file has two texts.  Three rows, so no place is beyond K0 + 1.          *)
(***************************************************************************)
EXTENDS HybridSearch

MCInputs  == {<<1, 1>>, <<2, 1>>, <<2, 2>>, <<3, 3>>, <<4, 2>>}
MCWords   == << << <<1, 2>> >>, << <<2>>, <<1, 3>> >>, << <<3, 2>> >> >>
MCVectors == << <<2, 1, 0>>, <<1, 1, 1>>, <<0, 1, 2>> >>
MCAsked   == {[file |-> 1, words |-> <<2>>, k |-> 2], [file |-> 3, words |-> <<1>>, k |-> 1],
              [file |-> 4, words |-> <<3>>, k |-> 3], [file |-> 2, words |-> <<2>>, k |-> 4]}
=============================================================================
