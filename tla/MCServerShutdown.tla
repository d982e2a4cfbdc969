-------------------------- MODULE MCServerShutdown --------------------------
(* A server whose database is rebuilt, closed and initialised again while it *)
(* starts, serves and shuts down; two hooks, the later one of lower order.   *)
EXTENDS ServerShutdown

CONSTANTS i1, i2, c1, c2, l1, l2, o1, h1, h2

HookOrder == [h \in Hooks |-> IF h = h1 THEN 2 ELSE 1]
=============================================================================
