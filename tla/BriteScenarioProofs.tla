------------------------- MODULE BriteScenarioProofs -------------------------
(***************************************************************************)
(* Link failures in random networks, for every network BRITE may hand over *)
(* and any number of overlapping failures: links do not stay down, and in  *)
(* brite_dash no host is cut off.                                          *)
(***************************************************************************)
EXTENDS BriteScenario, TLAPS, FiniteSetTheorems

Events == [op : {"FailLink", "UpLink"}, link : SUBSET Nat, at : Nat]

TypeInv ==
    /\ graph \in Graphs
    /\ links \subseteq SUBSET Nat
    /\ Hosts \subseteq Nat /\ IsFiniteSet(Hosts)
    /\ schedule \in Seq(Events)
    /\ step \in Nat \ {0} /\ now \in Nat
    /\ scenario \in {"brite_dash", "brite_example"}
    /\ SettingUp => down = {} /\ now = 0

\* The queue orders events by time, and by age.
Before(e, f) == schedule[e].at < schedule[f].at \/ (schedule[e].at = schedule[f].at /\ e < f)

Repairs(l, f) ==
    f \in DOMAIN schedule /\ schedule[f].op = "UpLink" /\ schedule[f].link = l

\* Every failure still to come has its end behind it.
FailuresEnd ==
    \A e \in DOMAIN schedule :
        schedule[e].op = "FailLink" => \E f \in DOMAIN schedule :
            Repairs(schedule[e].link, f) /\ Before(e, f)

\* What brite_dash draws its failures from are links between routers.
HostsAreNoRouters == Hosts \cap NodeIds = {}

OnlyRoutersFail ==
    scenario = "brite_dash" =>
        /\ step <= 3 => links \subseteq SUBSET NodeIds
        /\ \A e \in DOMAIN schedule : schedule[e].link \subseteq NodeIds
        /\ \A l \in down : l \subseteq NodeIds

IInv ==
    /\ TypeInv
    /\ FailuresEnd /\ DownOnlyWhileFailing
    /\ HostsAreNoRouters /\ OnlyRoutersFail
-----------------------------------------------------------------------------
\* The routers of a graph are numbered from 1, and its edges join them.
LEMMA GraphNodes ==
    ASSUME graph \in Graphs
    PROVE  /\ Len(graph.nodes) \in Nat /\ NodeIds = 1 .. Len(graph.nodes)
           /\ ConstructTopology(graph) \subseteq SUBSET NodeIds
<1>1. IsBriteGraph(graph)
  BY GraphsAreBrite
<1>2. graph.nodes \in Seq([as : Int, leaf : BOOLEAN])
  BY <1>1 DEF IsBriteGraph
<1>3. Len(graph.nodes) \in Nat /\ NodeIds = 1 .. Len(graph.nodes)
  BY <1>2 DEF NodeIds
<1>4. graph.edges \subseteq NodeIds \X NodeIds
  BY <1>1 DEF IsBriteGraph, NodeIds
<1>5. ASSUME NEW e \in EdgeInfoList(graph)  PROVE e.srcId \in NodeIds /\ e.destId \in NodeIds
  <2>1. PICK d \in graph.edges : e = [srcId |-> d[1], destId |-> d[2]]
    BY DEF EdgeInfoList
  <2> QED  BY <1>4, <2>1
<1> QED  BY <1>3, <1>5 DEF ConstructTopology

LEMMA RoutersOfAs ==
    ASSUME NEW as
    PROVE  getAllASNodesFromAS(as) \subseteq NodeIds
BY DEF getAllASNodesFromAS, GetNodesForAs, NodeIds

LEMMA PlacesAreRouters == ASSUME NEW place  PROVE Places(place) \subseteq NodeIds
BY DEF Places, GetNodesForAs, GetLeafNodesForAs, NodeIds

\* A round of the loop of a setup step is one of these.
LEMMA RoundForms ==
    ASSUME SettingUp, TypeInv, Round(Steps[step])
    PROVE  \/ AddConnectionBetweenTwoAS \/ \E as : AddConnectionWithinAS(as)
           \/ /\ \E set, place : \E count \in Nat : randomlyPlaceNodes(count, set, place)
              /\ scenario = "brite_dash" => step > 3
           \/ /\ creatRandomLinkFailure(SimTime, MaxDuration)
              /\ scenario = "brite_dash" => step = 3
<1>1. Len(Steps) = 5 /\ step \in 1 .. 5
  BY DEF Steps, DashSteps, ExampleSteps, SettingUp, TypeInv
<1>2. /\ Steps[step] \in {"betweenAS", "withinAS", "servers", "clients", "failures"}
      /\ Steps[step] = "failures" /\ scenario = "brite_dash" => step = 3
      /\ Steps[step] \in {"servers", "clients"} /\ scenario = "brite_dash" => step > 3
  BY <1>1 DEF Steps, DashSteps, ExampleSteps, TypeInv
<1>3. CASE Steps[step] = "betweenAS"
  BY <1>3 DEF Round
<1>4. CASE Steps[step] = "withinAS"
  BY <1>4 DEF Round
<1>5. CASE Steps[step] = "servers"
  <2>1. randomlyPlaceNodes(ServerCount, "Server", "ASNode")
    BY <1>5 DEF Round
  <2> QED  BY <1>2, <1>5, <2>1, HostsExist
<1>6. CASE Steps[step] = "clients"
  <2>1. randomlyPlaceNodes(ClientCount, "Client", "LeafNode")
    BY <1>6 DEF Round
  <2> QED  BY <1>2, <1>6, <2>1, HostsExist
<1>7. CASE Steps[step] = "failures"
  BY <1>2, <1>7 DEF Round
<1> QED  BY <1>2, <1>3, <1>4, <1>5, <1>6, <1>7
-----------------------------------------------------------------------------
LEMMA InitInv == Init => IInv
<1> SUFFICES ASSUME Init PROVE IInv
  OBVIOUS
<1>1. /\ graph \in Graphs /\ links = ConstructTopology(graph)
      /\ nodeContainerMap = Empty /\ schedule = <<>>
  BY DEF Init, BuildBriteTopology, GenerateBriteTopology
<1>2. Hosts = {}
  BY <1>1 DEF Hosts, Empty
<1>3. links \subseteq SUBSET NodeIds /\ NodeIds \subseteq Nat
  BY <1>1, GraphNodes
<1>4. TypeInv
  <2>1. step = 1 /\ now = 0 /\ down = {} /\ scenario \in {"brite_dash", "brite_example"}
    BY DEF Init
  <2>2. schedule \in Seq(Events)
    BY <1>1
  <2>3. links \subseteq SUBSET Nat
    BY <1>3, Zenon
  <2> QED  BY <1>1, <1>2, <2>1, <2>2, <2>3, FS_EmptySet DEF TypeInv
<1>5. DOMAIN schedule = {} /\ down = {}
  BY <1>1 DEF Init
<1> QED
  BY <1>2, <1>3, <1>4, <1>5 DEF IInv, FailuresEnd, DownOnlyWhileFailing, HostsAreNoRouters,
     OnlyRoutersFail
-----------------------------------------------------------------------------
\* A connection joins two routers.
LEMMA ConnectionInv ==
    ASSUME IInv, SettingUp, UNCHANGED <<run, step, now, down>>,
           AddConnectionBetweenTwoAS \/ \E as : AddConnectionWithinAS(as)
    PROVE  IInv'
<1>1. PICK n1 \in NodeIds, n2 \in NodeIds : links' = links \cup {{n1, n2}}
  BY RoutersOfAs, Zenon DEF AddConnectionBetweenTwoAS, AddConnectionWithinAS
<1>2. UNCHANGED <<graph, nodeContainerMap, schedule, scenario, step, now, down>>
  BY DEF AddConnectionBetweenTwoAS, AddConnectionWithinAS, run
<1>3. TypeInv /\ NodeIds \subseteq Nat
  BY GraphNodes DEF IInv, TypeInv
<1>4. Hosts' = Hosts /\ NodeIds' = NodeIds
  BY <1>2 DEF Hosts, NodeIds
<1>5. TypeInv'
  BY <1>1, <1>2, <1>3, <1>4 DEF TypeInv, SettingUp, Steps
<1>6. FailuresEnd' /\ DownOnlyWhileFailing'
  BY <1>2 DEF IInv, FailuresEnd, DownOnlyWhileFailing, Repairs, Before
<1>7. HostsAreNoRouters' /\ OnlyRoutersFail'
  BY <1>1, <1>2, <1>4 DEF IInv, HostsAreNoRouters, OnlyRoutersFail
<1> QED  BY <1>5, <1>6, <1>7 DEF IInv

\* New hosts get numbers of their own.
LEMMA PlaceInv ==
    ASSUME IInv, SettingUp, UNCHANGED <<run, step, now, down>>,
           NEW count \in Nat, NEW set, NEW place,
           randomlyPlaceNodes(count, set, place),
           scenario = "brite_dash" => step > 3
    PROVE  IInv'
<1>1. UNCHANGED <<graph, schedule, scenario, step, now, down>>
  BY DEF randomlyPlaceNodes, run
<1>2. /\ TypeInv /\ Len(graph.nodes) \in Nat /\ NodeIds = 1 .. Len(graph.nodes)
      /\ HostsAreNoRouters
  BY GraphNodes DEF IInv, TypeInv
<1>3. NodeCount \in Nat /\ NodeCount >= Len(graph.nodes)
  BY <1>2, FS_CardinalityType DEF NodeCount, TypeInv
<1> DEFINE new == NodeCount + 1 .. NodeCount + count
<1>4. /\ Hosts' \subseteq Hosts \cup new
      /\ links' \subseteq SUBSET Nat
  <2>1. CASE UNCHANGED <<links, nodeContainerMap>>
    BY <1>2, <2>1 DEF Hosts, TypeInv
  <2>2. CASE \E at \in [1 .. count -> Places(place)] :
              /\ nodeContainerMap' = [s \in DOMAIN nodeContainerMap \cup {set} |->
                   IF s = set THEN [i \in 1 .. count |-> NodeCount + i]
                              ELSE nodeContainerMap[s]]
              /\ links' = links \cup {{NodeCount + i, at[i]} : i \in 1 .. count}
    <3>1. PICK at \in [1 .. count -> Places(place)] :
              /\ nodeContainerMap' = [s \in DOMAIN nodeContainerMap \cup {set} |->
                   IF s = set THEN [i \in 1 .. count |-> NodeCount + i]
                              ELSE nodeContainerMap[s]]
              /\ links' = links \cup {{NodeCount + i, at[i]} : i \in 1 .. count}
      BY <2>2
    <3>2. ASSUME NEW i \in 1 .. count  PROVE {NodeCount + i, at[i]} \in SUBSET Nat
      <4>1. at[i] \in Places(place) /\ Places(place) \subseteq NodeIds
        BY PlacesAreRouters, Zenon
      <4> QED  BY <1>2, <1>3, <4>1
    <3>3. links' \subseteq SUBSET Nat
      <4>1. links \subseteq SUBSET Nat
        BY <1>2 DEF TypeInv
      <4>2. ASSUME NEW l \in links'  PROVE l \in SUBSET Nat
        <5>1. l \in links \/ \E i \in 1 .. count : l = {NodeCount + i, at[i]}
          BY <3>1
        <5>2. CASE l \in links
          BY <4>1, <5>2
        <5>3. ASSUME NEW i \in 1 .. count, l = {NodeCount + i, at[i]}
              PROVE  l \in SUBSET Nat
          BY <3>2, <5>3, Zenon
        <5> QED  BY <5>1, <5>2, <5>3
      <4> QED  BY <4>2
    <3>4. ASSUME NEW h \in Hosts'  PROVE h \in Hosts \cup new
      <4>1. PICK s \in DOMAIN nodeContainerMap' :
              \E i \in DOMAIN nodeContainerMap'[s] : h = nodeContainerMap'[s][i]
        BY <3>4 DEF Hosts
      <4>2. CASE s = set
        <5>1. nodeContainerMap'[s] = [i \in 1 .. count |-> NodeCount + i]
          BY <3>1, <4>2
        <5> QED  BY <1>3, <4>1, <5>1
      <4>3. CASE s # set
        <5>1. s \in DOMAIN nodeContainerMap /\ nodeContainerMap'[s] = nodeContainerMap[s]
          BY <3>1, <4>1, <4>3
        <5> QED  BY <4>1, <5>1 DEF Hosts
      <4> QED  BY <4>2, <4>3
    <3> QED  BY <3>3, <3>4
  <2> QED  BY <2>1, <2>2 DEF randomlyPlaceNodes
<1>5. IsFiniteSet(Hosts') /\ Hosts' \subseteq Nat
  <2>1. IsFiniteSet(new) /\ new \subseteq Nat
    BY <1>3, FS_Interval
  <2>2. IsFiniteSet(Hosts \cup new)
    BY <1>2, <2>1, FS_Union DEF TypeInv
  <2> HIDE DEF new
  <2> QED  BY <1>2, <1>4, <2>1, <2>2, FS_Subset DEF TypeInv
<1>6. NodeIds' = NodeIds
  BY <1>1 DEF NodeIds
<1>7. HostsAreNoRouters'
  BY <1>2, <1>3, <1>4, <1>6 DEF HostsAreNoRouters
<1>8. TypeInv'
  BY <1>1, <1>2, <1>4, <1>5 DEF TypeInv, SettingUp, Steps
<1>9. FailuresEnd' /\ DownOnlyWhileFailing'
  BY <1>1 DEF IInv, FailuresEnd, DownOnlyWhileFailing, Repairs, Before
<1>10. OnlyRoutersFail'
  BY <1>1, <1>2, <1>6 DEF IInv, OnlyRoutersFail, TypeInv
<1> QED  BY <1>7, <1>8, <1>9, <1>10 DEF IInv
-----------------------------------------------------------------------------
\* A failure is scheduled together with its end, which comes no sooner.
LEMMA FailureInv ==
    ASSUME IInv, SettingUp, UNCHANGED <<run, step, now, down>>,
           creatRandomLinkFailure(SimTime, MaxDuration),
           scenario = "brite_dash" => step = 3
    PROVE  IInv'
<1> PICK link \in links, start \in 0 .. SimTime, duration \in 0 .. MaxDuration :
        schedule' = schedule
            \o <<[op |-> "FailLink", link |-> link, at |-> start],
                 [op |-> "UpLink", link |-> link, at |-> start + duration]>>
  BY Zenon DEF creatRandomLinkFailure, UpTime
<1>1. start \in Nat /\ duration \in Nat
  BY TimesAssumption
<1>2. UNCHANGED <<graph, links, nodeContainerMap, scenario, step, now, down>>
  BY DEF creatRandomLinkFailure, run
<1>3. TypeInv
  BY DEF IInv
<1>4. Hosts' = Hosts /\ NodeIds' = NodeIds
  BY <1>2 DEF Hosts, NodeIds
<1> PICK n \in Nat : n = Len(schedule)
  BY <1>3 DEF TypeInv
<1> DEFINE fail == [op |-> "FailLink", link |-> link, at |-> start]
           up == [op |-> "UpLink", link |-> link, at |-> start + duration]
<1>5. fail \in Events /\ up \in Events
  BY <1>1, <1>3 DEF TypeInv, Events
<1>6. /\ schedule \in Seq(Events) /\ DOMAIN schedule = 1 .. n
      /\ \A e \in DOMAIN schedule : schedule[e] \in Events
  BY <1>3 DEF TypeInv
<1> HIDE DEF fail, up
<1>7. /\ schedule' \in Seq(Events) /\ DOMAIN schedule' = 1 .. n + 2
      /\ \A e \in 1 .. n : schedule'[e] = schedule[e]
      /\ schedule'[n + 1] = fail /\ schedule'[n + 2] = up
  <2>1. schedule' = schedule \o <<fail, up>>
    BY DEF fail, up
  <2> QED  BY <1>5, <1>6, <2>1
<1>8. TypeInv'
  BY <1>2, <1>3, <1>4, <1>7 DEF TypeInv, SettingUp, Steps
<1>9. FailuresEnd'
  <2> SUFFICES ASSUME NEW e \in DOMAIN schedule', schedule'[e].op = "FailLink"
               PROVE  \E f \in DOMAIN schedule' :
                        Repairs(schedule[e].link, f)' /\ Before(e, f)'
    BY DEF FailuresEnd
  <2>1. CASE e \in 1 .. n
    <3>1. PICK f \in 1 .. n : Repairs(schedule[e].link, f) /\ Before(e, f)
      BY <1>6, <1>7, <2>1 DEF IInv, FailuresEnd
    <3>2. f \in DOMAIN schedule' /\ schedule'[f] = schedule[f] /\ schedule'[e] = schedule[e]
      BY <1>6, <1>7, <2>1
    <3> QED  BY <3>1, <3>2 DEF Repairs, Before
  <2>2. CASE e = n + 1
    <3>1. n + 2 \in DOMAIN schedule'
      BY <1>6, <1>7
    <3>2. schedule'[e] = fail /\ schedule'[n + 2] = up
      BY <1>7, <2>2
    <3>3. Repairs(schedule[e].link, n + 2)'
      BY <3>1, <3>2 DEF Repairs, fail, up
    <3>4. start <= start + duration /\ e < n + 2
      BY <1>1, <2>2
    <3>5. Before(e, n + 2)'
      BY <1>1, <3>2, <3>4 DEF Before, fail, up
    <3> QED  BY <3>1, <3>3, <3>5
  <2>3. e # n + 2
    BY <1>7 DEF up
  <2> QED  BY <1>6, <1>7, <2>1, <2>2, <2>3
<1>10. DownOnlyWhileFailing' /\ HostsAreNoRouters'
  BY <1>2, <1>3, <1>4 DEF IInv, TypeInv, DownOnlyWhileFailing, HostsAreNoRouters
<1>11. OnlyRoutersFail'
  <2> SUFFICES ASSUME scenario' = "brite_dash"
               PROVE  /\ links' \subseteq SUBSET NodeIds'
                      /\ \A e \in DOMAIN schedule' : schedule'[e].link \subseteq NodeIds'
                      /\ \A l \in down' : l \subseteq NodeIds'
    BY DEF OnlyRoutersFail
  <2>1. links \subseteq SUBSET NodeIds /\ \A l \in down : l \subseteq NodeIds
    BY <1>2 DEF IInv, OnlyRoutersFail
  <2>2. ASSUME NEW e \in DOMAIN schedule'  PROVE schedule'[e].link \subseteq NodeIds
    <3>1. CASE e \in 1 .. n
      BY <1>2, <1>6, <1>7, <3>1 DEF IInv, OnlyRoutersFail
    <3>2. CASE e = n + 1 \/ e = n + 2
      <4>1. schedule'[e].link = link
        BY <1>7, <3>2 DEF fail, up
      <4> QED  BY <2>1, <4>1
    <3> QED  BY <1>6, <1>7, <3>1, <3>2
  <2> QED  BY <1>2, <1>4, <2>1, <2>2
<1> QED  BY <1>8, <1>9, <1>10, <1>11 DEF IInv
-----------------------------------------------------------------------------
\* Taking the earliest event from the queue keeps the others in their order.
LEMMA EarliestTaken ==
    ASSUME TypeInv, NEW e \in DOMAIN schedule, Earliest(e),
           schedule' = [f \in 1 .. Len(schedule) - 1 |->
                           schedule[IF f < e THEN f ELSE f + 1]]
    PROVE  /\ schedule' \in Seq(Events)
           /\ \A i \in DOMAIN schedule' : \E f \in DOMAIN schedule :
                 f # e /\ i = (IF f < e THEN f ELSE f - 1) /\ schedule'[i] = schedule[f]
           /\ \A f \in DOMAIN schedule : f # e =>
                 /\ (IF f < e THEN f ELSE f - 1) \in DOMAIN schedule'
                 /\ schedule'[IF f < e THEN f ELSE f - 1] = schedule[f]
<1> PICK n \in Nat : n = Len(schedule)
  BY DEF TypeInv
<1>1. /\ schedule \in Seq(Events) /\ DOMAIN schedule = 1 .. n /\ e \in 1 .. n /\ n - 1 \in Nat
      /\ \A f \in 1 .. n : schedule[f] \in Events
  BY DEF TypeInv
<1>2. \A i \in 1 .. n - 1 : (IF i < e THEN i ELSE i + 1) \in 1 .. n
  BY <1>1
<1>3. schedule' \in [1 .. n - 1 -> Events]
  BY <1>1, <1>2
<1>4. schedule' \in Seq(Events)
  BY <1>1, <1>3
<1>5. ASSUME NEW i \in DOMAIN schedule'
      PROVE  \E f \in DOMAIN schedule :
                 f # e /\ i = (IF f < e THEN f ELSE f - 1) /\ schedule'[i] = schedule[f]
  <2>1. i \in 1 .. n - 1
    BY <1>3
  <2>2. CASE i < e
    BY <1>1, <2>1, <2>2
  <2>3. CASE ~(i < e)
    <3>1. /\ i + 1 \in DOMAIN schedule /\ i + 1 # e /\ ~(i + 1 < e) /\ i = (i + 1) - 1
          /\ schedule'[i] = schedule[i + 1]
      BY <1>1, <2>1, <2>3
    <3> QED  BY <3>1
  <2> QED  BY <2>2, <2>3
<1>6. ASSUME NEW f \in DOMAIN schedule, f # e
      PROVE  /\ (IF f < e THEN f ELSE f - 1) \in DOMAIN schedule'
             /\ schedule'[IF f < e THEN f ELSE f - 1] = schedule[f]
  BY <1>1, <1>3, <1>6
<1> QED  BY <1>4, <1>5, <1>6

\* What has to happen to a link after the earliest event is still to come.
LEMMA HappenInv ==
    ASSUME IInv, Happen
    PROVE  IInv'
<1>1. PICK e \in DOMAIN schedule :
        /\ Earliest(e)
        /\ now' = schedule[e].at
        /\ down' = IF schedule[e].op = "FailLink" THEN down \cup {schedule[e].link}
                                                  ELSE down \ {schedule[e].link}
        /\ schedule' = [f \in 1 .. Len(schedule) - 1 |->
                           schedule[IF f < e THEN f ELSE f + 1]]
  BY DEF Happen
<1>2. /\ UNCHANGED <<graph, links, nodeContainerMap, scenario, step>>
      /\ ~SettingUp
  BY DEF Happen, run, Running
<1>3. TypeInv
  BY DEF IInv
<1> DEFINE At(f) == IF f < e THEN f ELSE f - 1
<1>4. /\ schedule' \in Seq(Events)
      /\ \A i \in DOMAIN schedule' : \E f \in DOMAIN schedule :
            f # e /\ i = At(f) /\ schedule'[i] = schedule[f]
      /\ \A f \in DOMAIN schedule : f # e =>
            At(f) \in DOMAIN schedule' /\ schedule'[At(f)] = schedule[f]
  BY <1>1, <1>3, EarliestTaken
<1>5. /\ DOMAIN schedule \subseteq Nat
      /\ \A f \in DOMAIN schedule : schedule[f] \in Events /\ schedule[f].at \in Nat
  <2>1. schedule \in Seq(Events)
    BY <1>3 DEF TypeInv
  <2>2. DOMAIN schedule \subseteq Nat /\ \A f \in DOMAIN schedule : schedule[f] \in Events
    BY <2>1
  <2>3. \A v \in Events : v.at \in Nat
    BY DEF Events
  <2> QED  BY <2>2, <2>3
<1>6. Hosts' = Hosts /\ NodeIds' = NodeIds
  BY <1>2 DEF Hosts, NodeIds
<1>7. TypeInv'
  BY <1>1, <1>2, <1>3, <1>4, <1>5, <1>6 DEF TypeInv, SettingUp, Steps
\* The end of a failure is not the earliest event while the failure is to come.
<1>8. ASSUME NEW d \in DOMAIN schedule, NEW f \in DOMAIN schedule, Before(d, f)
      PROVE  f # e
  BY <1>1, <1>5, <1>8 DEF Before, Earliest
<1>9. ASSUME NEW f \in DOMAIN schedule, f # e, NEW l, Repairs(l, f)
      PROVE  Repairs(l, At(f))'
  BY <1>4, <1>9 DEF Repairs
<1>10. FailuresEnd'
  <2> SUFFICES ASSUME NEW i \in DOMAIN schedule', schedule'[i].op = "FailLink"
               PROVE  \E g \in DOMAIN schedule' :
                        Repairs(schedule[i].link, g)' /\ Before(i, g)'
    BY DEF FailuresEnd
  <2>1. PICK d \in DOMAIN schedule : d # e /\ i = At(d) /\ schedule'[i] = schedule[d]
    BY <1>4
  <2>2. PICK f \in DOMAIN schedule : Repairs(schedule[d].link, f) /\ Before(d, f)
    BY <2>1 DEF IInv, FailuresEnd
  <2>3. /\ f # e /\ At(f) \in DOMAIN schedule' /\ schedule'[At(f)] = schedule[f]
    BY <1>4, <1>8, <2>2
  <2>4. Repairs(schedule[i].link, At(f))'
    BY <2>1, <2>2, <2>3 DEF Repairs
  <2>5. Before(i, At(f))'
    BY <1>5, <2>1, <2>2, <2>3 DEF Before
  <2> QED  BY <2>3, <2>4, <2>5
<1>11. DownOnlyWhileFailing'
  <2> SUFFICES ASSUME NEW l \in down'
               PROVE  \E g \in DOMAIN schedule' :
                        /\ schedule'[g].link = l /\ schedule'[g].op = "UpLink"
                        /\ schedule'[g].at >= now'
    BY DEF DownOnlyWhileFailing
  <2>1. \E f \in DOMAIN schedule :
            /\ f # e /\ schedule[f].link = l /\ schedule[f].op = "UpLink"
            /\ schedule[f].at >= schedule[e].at
    <3>1. CASE schedule[e].op = "FailLink" /\ l = schedule[e].link
      <4>1. PICK f \in DOMAIN schedule : Repairs(schedule[e].link, f) /\ Before(e, f)
        BY <3>1 DEF IInv, FailuresEnd
      <4> QED  BY <1>5, <1>8, <3>1, <4>1 DEF Repairs, Before
    <3>2. CASE ~(schedule[e].op = "FailLink" /\ l = schedule[e].link)
      <4>1. l \in down /\ ~(schedule[e].op = "UpLink" /\ l = schedule[e].link)
        BY <1>1, <1>5, <3>2 DEF Events
      <4>2. PICK f \in DOMAIN schedule : schedule[f].link = l /\ schedule[f].op = "UpLink"
        BY <4>1 DEF IInv, DownOnlyWhileFailing
      <4>3. f # e
        BY <4>1, <4>2
      <4>4. schedule[f].at >= schedule[e].at
        BY <1>1, <1>5 DEF Earliest
      <4> QED  BY <4>2, <4>3, <4>4
    <3> QED  BY <3>1, <3>2
  <2> QED  BY <1>1, <1>4, <2>1
<1>12. HostsAreNoRouters'
  BY <1>6 DEF IInv, HostsAreNoRouters
<1>13. OnlyRoutersFail'
  <2> SUFFICES ASSUME scenario = "brite_dash"
               PROVE  /\ step <= 3 => links \subseteq SUBSET NodeIds
                      /\ \A i \in DOMAIN schedule' : schedule'[i].link \subseteq NodeIds
                      /\ \A l \in down' : l \subseteq NodeIds
    BY <1>2, <1>6 DEF OnlyRoutersFail
  <2>1. /\ step <= 3 => links \subseteq SUBSET NodeIds
        /\ \A f \in DOMAIN schedule : schedule[f].link \subseteq NodeIds
        /\ \A l \in down : l \subseteq NodeIds
    BY DEF IInv, OnlyRoutersFail
  <2>2. \A i \in DOMAIN schedule' : schedule'[i].link \subseteq NodeIds
    BY <1>4, <2>1
  <2>3. \A l \in down' : l \subseteq NodeIds
    BY <1>1, <2>1
  <2> QED  BY <2>1, <2>2, <2>3
<1> QED  BY <1>7, <1>10, <1>11, <1>12, <1>13 DEF IInv

LEMMA SetUpInv ==
    ASSUME IInv, SetUp
    PROVE  IInv'
<1>1. /\ SettingUp /\ TypeInv /\ Round(Steps[step])
      /\ UNCHANGED <<run, step, now, down>>
  BY DEF SetUp, IInv
<1> QED  BY <1>1, RoundForms, ConnectionInv, PlaceInv, FailureInv, Zenon

\* The end of a loop changes nothing of the network.
LEMMA NextStepInv ==
    ASSUME IInv, NextStep
    PROVE  IInv'
<1>1. /\ step' = step + 1 /\ SettingUp
      /\ UNCHANGED <<graph, links, nodeContainerMap, schedule, scenario, now, down>>
  BY DEF NextStep, network, run
<1>2. TypeInv
  BY DEF IInv
<1>3. Hosts' = Hosts /\ NodeIds' = NodeIds
  BY <1>1 DEF Hosts, NodeIds
<1>4. TypeInv'
  BY <1>1, <1>2, <1>3 DEF TypeInv
<1>5. FailuresEnd' /\ DownOnlyWhileFailing'
  BY <1>1 DEF IInv, FailuresEnd, DownOnlyWhileFailing, Repairs, Before
<1>6. HostsAreNoRouters' /\ OnlyRoutersFail'
  BY <1>1, <1>2, <1>3 DEF IInv, HostsAreNoRouters, OnlyRoutersFail, TypeInv
<1> QED  BY <1>4, <1>5, <1>6 DEF IInv

LEMMA StutterInv ==
    ASSUME IInv, UNCHANGED vars
    PROVE  IInv'
<1>1. UNCHANGED <<graph, links, nodeContainerMap, schedule, scenario, step, now, down>>
  BY DEF vars
<1>2. Hosts' = Hosts /\ NodeIds' = NodeIds /\ (SettingUp' <=> SettingUp)
  BY <1>1 DEF Hosts, NodeIds, SettingUp, Steps
<1> QED
  BY <1>1, <1>2 DEF IInv, TypeInv, FailuresEnd, DownOnlyWhileFailing, Repairs, Before,
     HostsAreNoRouters, OnlyRoutersFail
-----------------------------------------------------------------------------
\* The invariant both results are parts of: the queue holds the end of every
\* failure behind its beginning, and what failures name are routers.
THEOREM Invariance == Spec => []IInv
<1>1. ASSUME IInv, [Next]_vars  PROVE IInv'
  BY <1>1, SetUpInv, NextStepInv, HappenInv, StutterInv DEF Next
<1> QED  BY InitInv, <1>1, PTL DEF Spec

\* However many failures of a link overlap, its last end is still to come while
\* it is down: no link is lost for the rest of the simulation.
THEOREM LinksComeBack == Spec => []DownOnlyWhileFailing
<1>1. IInv => DownOnlyWhileFailing
  BY DEF IInv
<1> QED  BY Invariance, <1>1, PTL

\* In brite_dash no failure hits the link of a client or a server.
THEOREM HostsAreNotCutOff == Spec => []HostsStayAttached
<1>1. IInv => HostsStayAttached
  BY DEF IInv, HostsStayAttached, HostsAreNoRouters, OnlyRoutersFail
<1> QED  BY Invariance, <1>1, PTL
=============================================================================
