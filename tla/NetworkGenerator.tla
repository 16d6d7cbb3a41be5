-------------------------- MODULE NetworkGenerator --------------------------
(* A random network (extensions/randnetworks/networkgenerator.cc): the BRITE *)
(* graph, the connections added to it, the hosts attached to its routers and *)
(* the link failures scheduled for the simulation.  Two channels between the *)
(* same nodes count as one link: failures name the nodes, not the channel.   *)
(* A random draw is a choice.                                                *)
EXTENDS NDNBriteHelper, FiniteSets

VARIABLES graph,             \* the graph of BRITE
          links,             \* the pairs of nodes that are joined
          nodeContainerMap,  \* set name -> sequence of hosts
          schedule           \* the events of the link failures, in the order
                             \* they were scheduled

network == <<graph, links, nodeContainerMap, schedule>>

NodeIds == DOMAIN graph.nodes
getNumberOfAS == GetNAs(graph)
getAllASNodesFromAS(as) == GetNodesForAs(graph, as)

Hosts == UNION {{nodeContainerMap[s][i] : i \in DOMAIN nodeContainerMap[s]}
                  : s \in DOMAIN nodeContainerMap}

\* Nodes are numbered in the order they are created.
NodeCount == Len(graph.nodes) + Cardinality(Hosts)

Empty == [s \in {} |-> <<>>]

\* The seeds are drawn: any graph may come.
GenerateBriteTopology(graphs) == graph \in graphs

BuildBriteTopology(graphs) ==
    /\ GenerateBriteTopology(graphs)
    /\ links = ConstructTopology(graph)
    /\ nodeContainerMap = Empty
    /\ schedule = <<>>

\* randomlyAddConnectionsBetweenTwoAS, one of its rounds.  With a single AS the
\* function returns at once.
AddConnectionBetweenTwoAS ==
    /\ getNumberOfAS > 1
    /\ \E as1, as2 \in 0 .. getNumberOfAS - 1 :
         /\ as1 # as2
         /\ \E n1 \in getAllASNodesFromAS(as1), n2 \in getAllASNodesFromAS(as2) :
              links' = links \cup {{n1, n2}}
    /\ UNCHANGED <<graph, nodeContainerMap, schedule>>

\* randomlyAddConnectionsBetweenTwoNodesPerAS, one round of one AS: the second
\* node is drawn until it differs from the first one.
AddConnectionWithinAS(as) ==
    /\ \E n1, n2 \in getAllASNodesFromAS(as) :
         n1 # n2 /\ links' = links \cup {{n1, n2}}
    /\ UNCHANGED <<graph, nodeContainerMap, schedule>>

\* randomlyPlaceNodes: every host is attached to a router drawn from the
\* container, which holds all the routers or the leaf routers only.  Nothing
\* happens when there is no such router.
Places(place) ==
    UNION {IF place = "ASNode" THEN GetNodesForAs(graph, as)
                               ELSE GetLeafNodesForAs(graph, as)
             : as \in 0 .. getNumberOfAS - 1}

randomlyPlaceNodes(nodeCount, set, place) ==
    /\ IF Places(place) = {}
       THEN UNCHANGED <<links, nodeContainerMap>>
       ELSE \E at \in [1 .. nodeCount -> Places(place)] :
              /\ nodeContainerMap' = [s \in DOMAIN nodeContainerMap \cup {set} |->
                   IF s = set THEN [i \in 1 .. nodeCount |-> NodeCount + i]
                              ELSE nodeContainerMap[s]]
              /\ links' = links \cup {{NodeCount + i, at[i]} : i \in 1 .. nodeCount}
    /\ UNCHANGED <<graph, schedule>>

\* Mutant of UpTime: the duration is taken for the time of the repair.
UpAtDuration(start, duration) == duration

UpTime(start, duration) == start + duration

\* creatRandomLinkFailure: a router is drawn, then one of its devices; the
\* link of the device fails and comes back.
creatRandomLinkFailure(maxTimestamp, maxDuration) ==
    /\ \E as \in 0 .. getNumberOfAS - 1 :
       \E node \in getAllASNodesFromAS(as) :
       \E link \in {l \in links : node \in l} :
       \E start \in 0 .. maxTimestamp, duration \in 0 .. maxDuration :
         schedule' = schedule
              \o <<[op |-> "FailLink", link |-> link, at |-> start],
                   [op |-> "UpLink",   link |-> link,
                    at |-> UpTime(start, duration)]>>
    /\ UNCHANGED <<graph, links, nodeContainerMap>>
=============================================================================
