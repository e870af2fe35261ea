----------------------------- MODULE MCCatalog -----------------------------
(* Two databases with a table each that has a file, and one that has none.  *)
EXTENDS Catalog

MCLists == {<<1>>, <<1, 2>>}
=============================================================================
