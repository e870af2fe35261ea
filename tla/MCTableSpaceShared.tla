------------------------- MODULE MCTableSpaceShared -------------------------
(* Two sessions whose caches do not know of each other.  TableSpaceProofs is *)
(* extended for the inductive invariant it proves.                           *)
EXTENDS TableSpaceProofs, MCTableSpace

\* every kind of statement that writes page by page
MCShared ==
  {Stmt("insert", vs, {}, narrow) : vs \in {<<narrow>>, <<narrow, broad>>}}
    \cup {Stmt("select", <<>>, {narrow, broad}, narrow), Stmt("delete", <<>>, {broad}, narrow),
          Stmt("update", <<>>, {narrow}, broad)}
=============================================================================
