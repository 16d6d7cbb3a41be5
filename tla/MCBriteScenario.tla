-------------------------- MODULE MCBriteScenario ---------------------------
(* Two AS of two routers each, on a line with a leaf router in each AS, or   *)
(* as a ring with one leaf router; and a single AS, which BRITE numbers -1,  *)
(* without leaf routers.                                                     *)
EXTENDS BriteScenario

Info(as, leaf) == [as |-> as, leaf |-> leaf]

Line == {<<1, 2>>, <<2, 3>>, <<3, 4>>}

MCGraphs ==
    {[nodes |-> <<Info(0, FALSE), Info(0, TRUE), Info(1, FALSE), Info(1, TRUE)>>,
      edges |-> Line],
     [nodes |-> <<Info(0, FALSE), Info(0, FALSE), Info(1, FALSE), Info(1, TRUE)>>,
      edges |-> Line \cup {<<4, 1>>}],
     [nodes |-> <<Info(-1, FALSE), Info(-1, FALSE)>>, edges |-> {<<1, 2>>}]}
=============================================================================
