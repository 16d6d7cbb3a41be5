--------------------------- MODULE ForwardingEntry ---------------------------
(***************************************************************************)
(* What a forwarding engine knows about one content, as operators on a     *)
(* record: the faces the FIB names for it and the others, its table, its   *)
(* statistics, and how often in a row an update saw the base layer fail on *)
(* every face.  Dynamic adding and removing of faces is disabled in the    *)
(* code.                                                                   *)
(***************************************************************************)
EXTENDS ForwardingProbabilityTable

CONSTANT FALLBACK_UPDATES   \* updates in ten seconds

ASSUME FallbackAssumption == FALLBACK_UPDATES \in Nat \ {0}

\* The active faces: all of them when no route is known.
ActiveFaces(faceIds, routed) ==
    IF routed = {} THEN faceIds ELSE {DROP_FACE_ID} \cup (faceIds \cap routed)

NewEntry(faceIds, routed) ==
    LET active == ActiveFaces(faceIds, routed)
    IN [active |-> active, standby |-> faceIds \ active,
        table |-> NewTable(faceIds, active), stats |-> NewStatistics(faceIds),
        fallbackCounter |-> 0]

\* The layer of an interest, from its level tag.
determineContentLayer(tag) == tag % 10

RouteOf(entry, tag, inFaces, blocked) ==
    OutgoingFaces(entry.table, determineContentLayer(tag), inFaces, blocked)

EntryUnsatisfied(entry, f, tag) ==
    [entry EXCEPT !.stats = logUnstatisfiedRequest(@, f, determineContentLayer(tag))]

EntrySatisfied(entry, f, tag) ==
    [entry EXCEPT !.stats = logStatisfiedRequest(@, f, determineContentLayer(tag))]

EntryDropped(entry, tag) ==
    [entry EXCEPT !.stats = logDroppingFace(@, determineContentLayer(tag))]

\* Some face delivered something of the base layer.
BaseDelivered(entry, st) ==
    \E f \in (entry.active \cup entry.standby) \ {DROP_FACE_ID} :
        st.forwarded[f] > 0 /\ st.reliability[f] > 0

\* The counter, before a fallback clears it; it rests while nothing is asked for.
EvaluateFallback(entry, stats) ==
    IF stats[0].total = 0 THEN entry.fallbackCounter
    ELSE IF ~BaseDelivered(entry, stats[0]) THEN entry.fallbackCounter + 1
    ELSE Max({entry.fallbackCounter - 1, 0})

FallsBack(entry, stats) ==
    stats[0].total # 0 /\ EvaluateFallback(entry, stats) >= FALLBACK_UPDATES

\* The table learns from the interval, or starts again from the routes.
UpdateEntry(entry) ==
    LET stats == resetStatistics(entry.stats, entry.table.curReliability)
        fallback == FallsBack(entry, stats)
        learnt == IF fallback
                  THEN NewTable(entry.active \cup entry.standby, entry.active)
                  ELSE updateColumns(entry.table, stats)
    IN [entry EXCEPT !.stats = stats,
                     !.fallbackCounter = IF fallback THEN 0 ELSE EvaluateFallback(entry, stats),
                     !.table = syncDroppingPolicy(learnt, stats)]
=============================================================================
