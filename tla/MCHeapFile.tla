----------------------------- MODULE MCHeapFile -----------------------------
(***************************************************************************)
(* Two pages and contents of one to three bytes: a page that grows leaves  *)
(* holes of one and two bytes, the other page is placed in the tightest of *)
(* them, and three relocations fill the file.                              *)
(***************************************************************************)
EXTENDS HeapFile

MCPages    == 0 .. 1
MCSize     == ("one" :> 1) @@ ("two" :> 2) @@ ("three" :> 3)
MCContents == DOMAIN MCSize
=============================================================================
