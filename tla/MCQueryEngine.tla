--------------------------- MODULE MCQueryEngine ---------------------------
(***************************************************************************)
(* Two live indexes, a type of index that raises and one that fails in     *)
(* silence and does not label its snapshot.  One row is enough: no         *)
(* statement treats a row by what another one is, and the properties speak *)
(* of one row at a time.  MCQueryEngine.cfg: one table of two columns; two *)
(* saves fail, and an INSERT is overtaken by one statement between any two *)
(* indexes.  MCQueryEngineNames.cfg: two tables and columns whose names    *)
(* meet, and no failure.                                                   *)
(***************************************************************************)
EXTENDS QueryEngine

CONSTANTS docs, imgs, name, path

\* No name holds an underscore: every index has a file of its own
OneTable == {<<docs>>}
PlainCols == {<<name>>, <<path>>}
MCSymmetry == Permutations({name, path})

\* Column name_path of table docs, path of table docs_name: docs_name_path
ClashTables == {<<docs>>, <<docs, name>>}
ClashCols == {<<path>>, <<name, path>>}
=============================================================================
