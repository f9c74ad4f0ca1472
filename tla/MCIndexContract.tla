-------------------------- MODULE MCIndexContract ---------------------------
(***************************************************************************)
(* Order 3 and seven keys: the tree reaches three levels and an internal   *)
(* node under the root splits.  Four keys in ISAM pages of two: duplicates *)
(* cross a fence, and a page gets a chain of two overflow pages.  Three    *)
(* hashes share their two low bits: one insert splits a bucket twice and   *)
(* doubles the directory twice.                                            *)
(* Four points on two lines, one of them double.  A text of two            *)
(* paragraphs and, in its second version, one of two windows, over blocks  *)
(* of two chunks and pages too short for a line.  Five files, two with two *)
(* versions, and a word that only some versions have: with Oversample 1 a  *)
(* search for one of four prunes, as the code does from fourteen files on. *)
(***************************************************************************)
EXTENDS IndexContract

MCCopies == [bplus |-> [k \in 1 .. 7 |-> IF k = 4 THEN 2 ELSE 1],
             isam  |-> [k \in 1 .. 4 |-> IF k = 4 THEN 1 ELSE 2],
             hash  |-> [k \in 1 .. 5 |-> 2],
             rtree |-> [p \in {<<0, 0>>, <<0, 2>>, <<1, 1>>, <<3, 0>>} |->
                           IF p = <<1, 1>> THEN 2 ELSE 1],
             inverted |-> [doc \in 1 .. 4 |-> IF doc < 3 THEN 2 ELSE 1],
             knn   |-> [k \in 1 .. 5 |-> IF k < 3 THEN 2 ELSE 1]]
MCHash   == <<8, 0, 3, 7, 4>>

\* 0 is a stop word.
MCTexts == << << << <<1, 0, 2>>, <<3, 1>> >>, << <<2, 2, 4>> >> >>,
              << << <<2, 3>> >>, << <<3>>, <<5, 0, 5>>, <<3>> >> >>,
              << << <<0>>, <<4, 1, 3>> >> >>,
              << << <<4, 4>>, <<5>> >> >> >>

MCVectors == << << <<1, 2, 0>>, <<0, 1, 1>> >>, << <<0, 1, 2>>, <<3, 0, 1>> >>,
                << <<0, 3, 1>> >>, << <<0, 0, 1>> >>, << <<0, 2, 2>> >> >>
MCQueries == {<<1, 1, 0>>, <<0, 1, 1>>, <<1, 0, 3>>}
=============================================================================
