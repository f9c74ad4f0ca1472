------------------------ MODULE MCCodebookLifecycle -------------------------
(***************************************************************************)
(* Two threads, a file of two looks and one of three, and a codebook of at *)
(* most three words: of two if it is trained on the first file only.       *)
(***************************************************************************)
EXTENDS CodebookLifecycle, TLC

CONSTANTS f, g

MCLooks    == f :> {1, 4} @@ g :> {1, 6, 8}
\* k centroids at a least total distance from the looks; fewer if there are
\* not k looks
MCKMeans(looks, k) ==
    LET Far(centroids) == MapThenSumSet(LAMBDA x : Min({Apart(x, c) : c \in centroids}), looks)
        choices == kSubset(Min({k, Cardinality(looks)}), looks)
    IN  CHOOSE s \in choices : \A other \in choices : Far(s) <= Far(other)
MCSymmetry == Permutations(Threads)
=============================================================================
