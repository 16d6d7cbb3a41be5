SPECIFICATION Spec
CONSTANTS
    Graphs <- MCGraphs
    Connectivities = {"low", "medium"}
    LinkFailures = {2}
    ServerCount = 1
    ClientCount = 2
    SimTime = 1
    MaxDuration = 1
INVARIANTS HostsStayAttached DownOnlyWhileFailing
CHECK_DEADLOCK FALSE
