---------------------------- MODULE MCTableSpace ----------------------------
(* One session: the statements of CatDB's storage layer, one at a time.     *)
EXTENDS TableSpaceRefinement, TLC

CONSTANTS narrow, broad, wide

MCVal == {narrow, broad, wide}

\* a page holds two rows of value narrow, or one of value broad; "wide" fits in none
MCWidth == (narrow :> 2) @@ (broad :> 3) @@ (wide :> 5)

Stmt(kind, vals, filter, set) ==
  [kind |-> kind, vals |-> vals, filter |-> filter, set |-> set]

MCStatement ==
  {Stmt("insert", vs, {}, narrow) : vs \in {<<narrow>>, <<broad>>, <<narrow, narrow, broad>>, <<narrow, wide>>}}
    \cup {Stmt("select", <<>>, f, narrow) : f \in {{narrow}, {narrow, broad}}}
    \cup {Stmt("delete", <<>>, f, narrow) : f \in {{narrow}, {broad}}}
    \cup {Stmt("update", <<>>, {narrow}, v) : v \in {narrow, broad, wide}}
    \cup {Stmt("update", <<>>, {broad}, narrow), Stmt("truncate", <<>>, {}, narrow)}
=============================================================================
