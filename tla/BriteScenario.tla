--------------------------- MODULE BriteScenario ----------------------------
(* The simulations on random networks: scenarios/brite_dash.cc and           *)
(* scenarios/brite_example.cc.  Both build a network, add connections, draw  *)
(* link failures and attach servers and clients, in different orders, and    *)
(* then run: events happen in the order of their times, those of one time in *)
(* the order they were scheduled in (ns-3's queue).                          *)
EXTENDS NetworkGenerator

CONSTANTS Graphs,          \* the graphs BRITE may hand over
          Connectivities,  \* values of the option: "low", "medium", "high"
          LinkFailures,    \* values of the option --linkFailures
          ServerCount, ClientCount,
          SimTime,         \* the failures start in 0 .. SimTime
          MaxDuration      \* and last at most so long

ASSUME GraphsAreBrite == \A g \in Graphs : IsBriteGraph(g)
ASSUME HostsExist == ServerCount \in Nat \ {0} /\ ClientCount \in Nat
ASSUME TimesAssumption == SimTime \in Nat /\ MaxDuration \in Nat

VARIABLES scenario,        \* which of the two programs runs
          connectivity, linkFailures,   \* its options
          step,            \* number of setup steps done
          rounds,          \* rounds left of the step's loop
          now,             \* time of the simulation
          down             \* the links that are down

run == <<scenario, connectivity, linkFailures>>
vars == <<graph, links, nodeContainerMap, schedule, scenario, connectivity,
          linkFailures, step, rounds, now, down>>

-----------------------------------------------------------------------------
\* Mutant of DashSteps: the hosts are placed before the failures are drawn.
DashStepsHostsFirst ==
    <<"betweenAS", "withinAS", "servers", "clients", "failures">>

DashSteps == <<"betweenAS", "withinAS", "failures", "servers", "clients">>

ExampleSteps == <<"betweenAS", "withinAS", "servers", "clients", "failures">>

Steps == IF scenario = "brite_dash" THEN DashSteps ELSE ExampleSteps

\* The connections added between the AS and within each AS: the second number
\* comes from the size of the first AS, whatever the sizes of the others.
additional_random_connections(c) ==
    LET nAS == getNumberOfAS
        n0 == Cardinality(getAllASNodesFromAS(0))
    IN CASE c = "low"    -> [as |-> nAS \div 2, leaf |-> n0 \div 3]
         [] c = "medium" -> [as |-> nAS,        leaf |-> n0 \div 2]
         [] c = "high"   -> [as |-> nAS * 2,    leaf |-> n0]

\* Rounds of the loop of a setup step.
RoundsOf(s) ==
    CASE s = "betweenAS" -> IF getNumberOfAS <= 1 THEN 0
                            ELSE additional_random_connections(connectivity).as
      [] s = "withinAS"  -> getNumberOfAS *
                            additional_random_connections(connectivity).leaf
      [] s = "failures"  -> linkFailures
      [] OTHER           -> 1

Init ==
    /\ BuildBriteTopology(Graphs)
    /\ scenario \in {"brite_dash", "brite_example"}
    /\ connectivity \in Connectivities
    /\ linkFailures \in LinkFailures
    /\ step = 1
    /\ rounds = RoundsOf(Steps[1])
    /\ now = 0
    /\ down = {}

SettingUp == step <= Len(Steps)

\* One round of the loop the step is made of.
Round(s) ==
    CASE s = "betweenAS" -> AddConnectionBetweenTwoAS
      [] s = "withinAS"  -> \* the AS in turn, each its share of the rounds
           AddConnectionWithinAS(getNumberOfAS - 1 - ((rounds - 1) \div
                 additional_random_connections(connectivity).leaf))
      [] s = "servers"   -> randomlyPlaceNodes(ServerCount, "Server", "ASNode")
      [] s = "clients"   -> randomlyPlaceNodes(ClientCount, "Client", "LeafNode")
      [] s = "failures"  -> creatRandomLinkFailure(SimTime, MaxDuration)

SetUp ==
    /\ SettingUp /\ rounds > 0
    /\ Round(Steps[step])
    /\ rounds' = rounds - 1
    /\ UNCHANGED <<run, step, now, down>>

NextStep ==
    /\ SettingUp /\ rounds = 0
    /\ step' = step + 1
    /\ rounds' = IF step < Len(Steps) THEN RoundsOf(Steps[step + 1]) ELSE 0
    /\ UNCHANGED <<network, run, now, down>>

-----------------------------------------------------------------------------
(* The simulation.                                                           *)
Running == ~SettingUp

Earliest(e) == \A f \in DOMAIN schedule : schedule[e].at < schedule[f].at
                  \/ (schedule[e].at = schedule[f].at /\ e <= f)

\* LinkControlHelper takes the faces of the link down, or up again; a link that
\* is down already stays down.
Happen ==
    /\ Running
    /\ \E e \in DOMAIN schedule :
         /\ Earliest(e)
         /\ schedule[e].at <= SimTime      \* Simulator::Stop
         /\ now' = schedule[e].at
         /\ down' = IF schedule[e].op = "FailLink"
                    THEN down \cup {schedule[e].link}
                    ELSE down \ {schedule[e].link}
         /\ schedule' = [f \in 1 .. Len(schedule) - 1 |->
                           schedule[IF f < e THEN f ELSE f + 1]]
    /\ UNCHANGED <<graph, links, nodeContainerMap, run, step, rounds>>

Next == SetUp \/ NextStep \/ Happen

Spec == Init /\ [][Next]_vars

-----------------------------------------------------------------------------
\* In brite_dash a client or a server is never cut off from its router: the
\* failures are drawn before the hosts are attached, and a failure names a
\* link that existed then.  (brite_example attaches the hosts first, and a
\* device of a router may lead to one of them.)
HostsStayAttached ==
    scenario = "brite_dash" => \A l \in down : l \cap Hosts = {}

\* A link is down only while a failure of it has yet to end: whatever the
\* failures are that overlap, what remains scheduled raises every link.
DownOnlyWhileFailing ==
    \A l \in down : \E e \in DOMAIN schedule :
        schedule[e].link = l /\ schedule[e].op = "UpLink" /\ schedule[e].at >= now
=============================================================================
