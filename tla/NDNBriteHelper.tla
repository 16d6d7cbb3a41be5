--------------------------- MODULE NDNBriteHelper ---------------------------
(* The network built from a graph of the BRITE generator (extensions/        *)
(* randnetworks/ndnbritehelper.cc).  A graph is a record                     *)
(*   nodes  one record per node, in BRITE's order: its AS (-1 when there is  *)
(*          only one) and whether it is a leaf router                        *)
(*   edges  the pairs <<source, destination>>                                *)
(* Coordinates, degrees, delays, rates and the number of the MPI instance    *)
(* are data nothing below depends on.                                        *)
EXTENDS Integers, Sequences

\* BRITE numbers the AS of a graph that has only one with -1.
asId(info) == IF info.as = -1 THEN 0 ELSE info.as

\* The AS are counted by the number of the AS of the last node of the list.
GetNAs(graph) == asId(graph.nodes[Len(graph.nodes)]) + 1

GetNodesForAs(graph, as) ==
    {n \in DOMAIN graph.nodes : asId(graph.nodes[n]) = as}

GetLeafNodesForAs(graph, as) ==
    {n \in GetNodesForAs(graph, as) : graph.nodes[n].leaf}

EdgeInfoList(graph) == {[srcId |-> e[1], destId |-> e[2]] : e \in graph.edges}

\* One channel per edge; a link is the pair of nodes it joins.
ConstructTopology(graph) == {{e.srcId, e.destId} : e \in EdgeInfoList(graph)}

-----------------------------------------------------------------------------
\* What BRITE hands over: edges between its nodes, AS numbered from 0 in the
\* order of the nodes, each with two nodes at least, and every node reachable
\* from every other one.
Joined(edges, S) ==
    \A A \in SUBSET S : A \notin {{}, S} =>
        \E e \in edges : (e[1] \in A) # (e[2] \in A)

IsBriteGraph(graph) ==
    /\ graph.nodes \in Seq([as : Int, leaf : BOOLEAN])
    /\ graph.edges \subseteq (DOMAIN graph.nodes) \X (DOMAIN graph.nodes)
    /\ \A n \in 1 .. Len(graph.nodes) - 1 :
         graph.nodes[n].as <= graph.nodes[n + 1].as
    /\ \A as \in 0 .. GetNAs(graph) - 1 :
         \E m, n \in GetNodesForAs(graph, as) : m # n
    /\ Joined(graph.edges, DOMAIN graph.nodes)
=============================================================================
