-------------------- MODULE PerContentBasedLayerStrategy --------------------
(***************************************************************************)
(* The forwarding strategy of a node that learns per content and layer     *)
(* where to send interests, with its ForwardingEngines: adding or removing *)
(* a face makes a new engine that knows nothing, and the old one frees     *)
(* itself at its next update.                                              *)
(*                                                                         *)
(* The parent strategy (Nacks), the PIT and the FIB are ndnSIM's and are   *)
(* modelled from what the strategy is told: an interest that is new or not *)
(* suppressed is propagated, one that cannot be is refused and its entry   *)
(* erased.  Handlers run one at a time; a propagation is split into its    *)
(* rounds so that its end is something to check.                           *)
(***************************************************************************)
EXTENDS ForwardingEntry, FaceBucketManager, Sequences

CONSTANTS
    Faces,          \* every face the node may have, numbered from 0
    AppFaces,       \* those of applications, which get no bucket
    InitialFaces,   \* those added before the first interest
    Askers,         \* those interests arrive on
    Routes,         \* faces the FIB names for the contents, {} if none
    Names,          \* names of interests
    ContentOf, TagOf,       \* the content of a name, the level tag of its interests
    UseTokenBucket,
    MaxEngines, MaxUpdates, MaxPending,     \* bounds
    MaxResults,     \* bounds the results after 0, 1, .. MaxUpdates updates
    None

ASSUME FacesAssumption ==
    /\ Faces \subseteq Nat /\ IsFiniteSet(Faces) /\ AppFaces \subseteq Faces
    /\ InitialFaces \subseteq Faces /\ Askers \subseteq Faces /\ Routes \subseteq Faces
    /\ \A n \in Names : TagOf[n] \in Nat /\ determineContentLayer(TagOf[n]) \in Layers
    /\ {MaxEngines, MaxUpdates, MaxPending} \subseteq Nat
    /\ MaxResults \in [0 .. MaxUpdates -> Nat]

VARIABLES
    faces,      \* of the strategy
    engines,    \* all the engines made so far, the last one in use
    pit,        \* pending names: faces in, out, in vain, and really sent to
    trying,     \* the propagation in progress, None between handlers
    updates     \* updates that changed an entry, to bound them

vars == <<faces, engines, pit, trying, updates>>

Contents == {ContentOf[n] : n \in Names}

DropAnd(S) == S \cup {DROP_FACE_ID}

Freed == [refs |-> 0, event |-> FALSE, faceIds |-> {}, entries |-> <<>>, buckets |-> <<>>]

\* Created with one reference, and held by the strategy's Ptr with another.
NewEngine(S) ==
    [refs |-> 2, event |-> TRUE, faceIds |-> DropAnd(S), entries |-> <<>>,
     buckets |-> [f \in S \ AppFaces |-> <<>>]]

current == Len(engines)
engine == engines[current]

TypeOK ==
    /\ faces \in SUBSET Faces
    /\ \A i \in DOMAIN engines :
        /\ engines[i].refs \in 0 .. 2 /\ engines[i].event \in BOOLEAN
        /\ engines[i].faceIds \subseteq DropAnd(Faces)
        /\ \A c \in DOMAIN engines[i].entries :
            /\ engines[i].entries[c].table.prob \in [Layers -> [engines[i].faceIds -> 0 .. UNIT]]
            /\ engines[i].entries[c].table.curReliability
                \in RELIABILITY_THRESHOLD_MIN .. RELIABILITY_THRESHOLD_MAX
        /\ \A f \in DOMAIN engines[i].buckets : \A c \in DOMAIN engines[i].buckets[f] :
            engines[i].buckets[f][c] \in 0 .. BUCKET_SIZE
    /\ DOMAIN pit \subseteq Names
    /\ \A n \in DOMAIN pit :
        pit[n] \in [in : SUBSET Faces, out : SUBSET Faces, vain : SUBSET Faces, sent : SUBSET Faces]
    /\ trying = None \/
        trying \in [name : Names, inFace : Faces, tried : SUBSET Faces, again : BOOLEAN]
    /\ updates \in 0 .. MaxUpdates

Init ==
    /\ faces = InitialFaces
    /\ engines = <<NewEngine(InitialFaces)>>
    /\ pit = <<>> /\ trying = None /\ updates = 0
-----------------------------------------------------------------------------
With(f, x, v) == [y \in DOMAIN f \cup {x} |-> IF y = x THEN v ELSE f[y]]

Without(f, x) == Restrict(f, DOMAIN f \ {x})

\* Mutant of KnowContent: without the buckets.
KnowWithoutBuckets(e, c) ==
    IF c \in DOMAIN e.entries THEN e
    ELSE [e EXCEPT !.entries = With(@, c, NewEntry(e.faceIds, Routes \cap faces))]

\* The first interest for a content makes its entry, and its bucket on each face.
KnowContent(e, c) ==
    IF c \in DOMAIN e.entries THEN e
    ELSE [e EXCEPT !.entries = With(@, c, NewEntry(e.faceIds, Routes \cap faces)),
                   !.buckets = [f \in DOMAIN @ |-> With(@[f], c, NewBucket)]]

\* A result for a content the engine has not met is ignored.
logUnstatisfied(e, n, f) ==
    IF ContentOf[n] \notin DOMAIN e.entries THEN e
    ELSE [e EXCEPT !.entries[ContentOf[n]] = EntryUnsatisfied(@, f, TagOf[n])]

logStatisfied(e, n, f) ==
    IF ContentOf[n] \notin DOMAIN e.entries THEN e
    ELSE [e EXCEPT !.entries[ContentOf[n]] = EntrySatisfied(@, f, TagOf[n])]

\* An interest is dropped only after its route was asked for.
logDropping(e, n) ==
    [e EXCEPT !.entries[ContentOf[n]] = EntryDropped(@, TagOf[n])]

FailedOn(S, n) ==
    MapThenFoldSet(LAMBDA f, e : logUnstatisfied(e, n, f),
                   engine, LAMBDA f : f, LAMBDA T : Min(T), S)

Use(e) == engines' = [engines EXCEPT ![current] = e]

\* What was logged since the last update, over all contents and layers.
Results ==
    MapThenSumSet(LAMBDA cl : LET st == engine.entries[cl[1]].stats[cl[2]]
                              IN SumFunction(st.sat) + SumFunction(st.unsat),
                  (DOMAIN engine.entries) \X Layers)

Idle == trying = None /\ Results < MaxResults[updates]
-----------------------------------------------------------------------------
(* Faces come and go.                                                       *)

\* An engine that loses a reference; nothing reads any more what it knew.
Released(e, refs) == [Freed EXCEPT !.refs = refs, !.event = e.event]

\* A new engine takes the place of the one in use, which loses a reference.
Replace(S) ==
    /\ trying = None /\ current < MaxEngines
    /\ faces' = S
    /\ engines' = Append([engines EXCEPT ![current] = Released(@, @.refs - 1)], NewEngine(S))
    /\ UNCHANGED <<trying, updates>>

AddFace(f) == f \notin faces /\ Replace(faces \cup {f}) /\ UNCHANGED pit

\* ndnSIM has removed the face from the PIT before it tells the strategy.
RemoveFace(f) ==
    /\ f \in faces
    /\ Replace(faces \ {f})
    /\ pit' = [n \in DOMAIN pit |->
                  [in |-> pit[n].in \ {f}, out |-> pit[n].out \ {f},
                   vain |-> pit[n].vain \ {f}, sent |-> pit[n].sent \ {f}]]
-----------------------------------------------------------------------------
(* Interests.                                                               *)

\* Faces the interest was tried on before, but those it also came from.
Propagate(n, f, p, again) ==
    /\ pit' = With(pit, n, p)
    /\ trying' = [name |-> n, inFace |-> f, tried |-> p.out \ p.in, again |-> again]
    /\ Use(KnowContent(engine, ContentOf[n]))
    /\ UNCHANGED <<faces, updates>>

OnInterest(n, f) ==
    /\ Idle /\ f \in faces \cap Askers
    /\ \/ /\ n \notin DOMAIN pit /\ Cardinality(DOMAIN pit) < MaxPending
          /\ Propagate(n, f, [in |-> {f}, out |-> {}, vain |-> {}, sent |-> {}], FALSE)
       \/ /\ n \in DOMAIN pit /\ f \in pit[n].in \cup pit[n].out
          /\ Propagate(n, f, [pit[n] EXCEPT !.in = @ \cup {f}], f \in pit[n].in)
       \/ /\ n \in DOMAIN pit /\ f \notin pit[n].in \cup pit[n].out    \* suppressed
          /\ pit' = [pit EXCEPT ![n].in = @ \cup {f}]
          /\ UNCHANGED <<faces, engines, trying, updates>>

\* A face of an application is not limited, and none is without the buckets.
Limited(f) == UseTokenBucket /\ f \notin AppFaces

MayPass(e, f, c) == Limited(f) => CanConsumeToken(e.buckets[f][c])

TokenTaken(e, f, c) == IF Limited(f) THEN [e EXCEPT !.buckets[f][c] = @ - TOKEN] ELSE e

determineRoute(n) ==
    RouteOf(engine.entries[ContentOf[n]], TagOf[n], pit[n].in, trying.tried)

SendOut(f) ==
    LET n == trying.name
    IN /\ MayPass(engine, f, ContentOf[n])
       /\ Use(TokenTaken(engine, f, ContentOf[n]))
       /\ pit' = [pit EXCEPT ![n].out = @ \cup {f}, ![n].sent = @ \cup {f}]
       /\ trying' = None
       /\ UNCHANGED <<faces, updates>>

\* Mutant of Blocked: the face is not noted as tried.
BlockedForgotten(f) ==
    LET n == trying.name
    IN /\ ~MayPass(engine, f, ContentOf[n])
       /\ pit' = [pit EXCEPT ![n].out = @ \cup {f}, ![n].vain = @ \cup {f}]
       /\ UNCHANGED <<faces, engines, trying, updates>>

\* Without a token the face is noted as tried, and as waiting in vain.
Blocked(f) ==
    LET n == trying.name
    IN /\ ~MayPass(engine, f, ContentOf[n])
       /\ pit' = [pit EXCEPT ![n].out = @ \cup {f}, ![n].vain = @ \cup {f}]
       /\ trying' = [trying EXCEPT !.tried = @ \cup {f}]
       /\ UNCHANGED <<faces, engines, updates>>

\* The interest is refused and erased; one that was sent again is propagated a
\* second time first, now with every other face tried.
GiveUp ==
    LET n == trying.name
        others == faces \ {trying.inFace}
        p == [pit[n] EXCEPT !.out = @ \cup others, !.vain = @ \cup others]
    IN /\ Use(logDropping(engine, n))
       /\ IF trying.again
          THEN /\ pit' = [pit EXCEPT ![n] = p]
               /\ trying' = [trying EXCEPT !.tried = p.out \ p.in, !.again = FALSE]
          ELSE pit' = Without(pit, n) /\ trying' = None
       /\ UNCHANGED <<faces, updates>>

\* One round: the table names a face, or dropping.
Try ==
    /\ trying # None
    /\ \E f \in determineRoute(trying.name) :
        IF f = DROP_FACE_ID THEN GiveUp ELSE SendOut(f) \/ Blocked(f)
-----------------------------------------------------------------------------
(* Results.                                                                 *)

WillSatisfyPendingInterest(n, f) ==
    /\ Idle /\ n \in DOMAIN pit /\ f \in pit[n].sent
    /\ Use(logStatisfied(engine, n, f))
    /\ pit' = Without(pit, n)
    /\ UNCHANGED <<faces, trying, updates>>

\* Every face of the entry has failed, those it was never sent to included.
WillEraseTimedOutPendingInterest(n) ==
    /\ Idle /\ n \in DOMAIN pit
    /\ Use(FailedOn(pit[n].out, n))
    /\ pit' = Without(pit, n)
    /\ UNCHANGED <<faces, trying, updates>>

\* The neighbour gave up: the last one to do so starts another propagation.
DidReceiveValidNack(n, f) ==
    /\ Idle /\ n \in DOMAIN pit /\ f \in pit[n].sent \ pit[n].vain
    /\ LET p == [pit[n] EXCEPT !.vain = @ \cup {f}, !.in = @ \ {f}]
           e == FailedOn({f}, n)
       IN IF p.out \subseteq p.vain
          THEN /\ pit' = [pit EXCEPT ![n] = p]
               /\ trying' = [name |-> n, inFace |-> f, tried |-> p.out \ p.in, again |-> FALSE]
               /\ Use(KnowContent(e, ContentOf[n]))
               /\ UNCHANGED <<faces, updates>>
          ELSE /\ pit' = [pit EXCEPT ![n] = p]
               /\ Use(e)
               /\ UNCHANGED <<faces, trying, updates>>
-----------------------------------------------------------------------------
(* Events of the engines.                                                   *)

NoNumbers(e) == \E c \in DOMAIN e.entries : e.entries[c].table.nan # {}

\* What an entry learns from a column without numbers is not modelled.
Update ==
    /\ trying = None /\ updates < MaxUpdates
    /\ engine.event /\ engine.refs > 1 /\ DOMAIN engine.entries # {} /\ ~NoNumbers(engine)
    /\ Use([engine EXCEPT !.entries = [c \in DOMAIN @ |-> UpdateEntry(@[c])]])
    /\ updates' = updates + 1
    /\ UNCHANGED <<faces, pit, trying>>

\* Mutant of FreeEngine: frees whatever has been replaced by reference count 2.
FreeOwned(i) ==
    /\ trying = None /\ engines[i].event /\ engines[i].refs = 2
    /\ engines' = [engines EXCEPT ![i] = Freed]
    /\ UNCHANGED <<faces, pit, trying, updates>>

\* The update of an engine nobody else holds cancels its event and frees it.
FreeEngine(i) ==
    /\ trying = None /\ engines[i].event /\ engines[i].refs = 1
    /\ engines' = [engines EXCEPT ![i] = Freed]
    /\ UNCHANGED <<faces, pit, trying, updates>>

NewTokens(f) ==
    /\ trying = None /\ UseTokenBucket /\ f \in DOMAIN engine.buckets
    /\ Use([engine EXCEPT !.buckets[f] = newToken(@)])
    /\ UNCHANGED <<faces, pit, trying, updates>>

Next ==
    \/ \E f \in Faces : AddFace(f) \/ RemoveFace(f) \/ NewTokens(f)
    \/ \E n \in Names, f \in Faces :
        OnInterest(n, f) \/ WillSatisfyPendingInterest(n, f) \/ DidReceiveValidNack(n, f)
    \/ \E n \in Names : WillEraseTimedOutPendingInterest(n)
    \/ Try \/ Update
    \/ \E i \in DOMAIN engines : FreeEngine(i)

Spec == Init /\ [][Next]_vars

\* A handler runs to its end, and a scheduled event happens.
FairSpec == Spec /\ WF_vars(Try) /\ \A i \in 1 .. MaxEngines : WF_vars(i \in DOMAIN engines /\ FreeEngine(i))
-----------------------------------------------------------------------------
(* What the tables promise.                                                 *)

Tables == {engine.entries[c].table : c \in DOMAIN engine.entries}

\* A column of every table is a distribution, up to what rounding loses: updates,
\* shifts, probes, fallbacks and the removal of faces leave nothing out and add
\* nothing.
ColumnsAreDistributions ==
    \A t \in Tables : \A l \in Layers :
        LET n == Cardinality(DOMAIN t.prob[l])
        IN SumFunction(t.prob[l]) \in UNIT - n .. UNIT

\* A layer is dropped only when every layer above it is dropped entirely: that is
\* what syncDroppingPolicy is for, and what keeps base layers flowing.
HigherLayersDropFirst ==
    \A t \in Tables : \A i, j \in Layers :
        i < j /\ t.prob[i][DROP_FACE_ID] > 0 => t.prob[j][DROP_FACE_ID] = UNIT

\* What the next update evaluates, and the tables it makes of it layer by layer.
Evaluated(c) ==
    LET entry == engine.entries[c]
    IN resetStatistics(entry.stats, entry.table.curReliability)

Updating(c) == UpdateUpTo(engine.entries[c].table, Evaluated(c))

\* What each update would make of the columns before it normalises them.
Unnormalised(c) == Updating(c)[MAX_LAYERS - 1].prob

\* The lower layers have not made the threshold lower than it was when the failures
\* of the unreliable faces were added up.
AsStrict(c, l) == Updating(c)[l - 1].curReliability >= engine.entries[c].table.curReliability

\* An update never takes more traffic from a face, or from dropping, than there
\* is, whatever was observed: normalising has a negative entry to repair only when
\* the threshold has sunk during the update.
NeverOverdrawn ==
    \A c \in DOMAIN engine.entries : \A l \in Layers :
        AsStrict(c, l) => \A f \in engine.faceIds : Unnormalised(c)[l][f] >= 0

\* Traffic of failing faces is given to others in full: where failures move traffic
\* to reliable faces, the column still sums up to one, up to what rounding changes.
MovedTrafficConserved ==
    \A c \in DOMAIN engine.entries : \A l \in Layers :
        LET st == Evaluated(c)[l]
            reliable == getReliableFaces(st, Updating(c)[l - 1].curReliability)
            n == Cardinality(engine.faceIds)
        IN /\ Part(st.utf, ALPHA) > 0 /\ SumFunctionOnSet(st.actual, reliable) > 0
           /\ AsStrict(c, l)
           => SumFunction(Unnormalised(c)[l]) \in UNIT - 2 * n .. UNIT + 3 * n

\* Dropping does not last: a layer that was dropped entirely is let through again
\* by the next update, unless failures were seen on it, a lower layer is being
\* dropped, or it was jammed for one.
DroppedLayerRecovers ==
    [][updates' > updates =>
        \A c \in DOMAIN engine.entries : \A l \in Layers :
            LET entry == engine.entries[c]
            IN (/\ entry.table.prob[l][DROP_FACE_ID] = UNIT
                /\ l \notin entry.table.jammed
                /\ SumFunction(entry.stats[l].unsat) = 0
                /\ \A k \in Layers : k < l => Unnormalised(c)[k][DROP_FACE_ID] = 0)
               => engine'.entries[c].table.prob[l][DROP_FACE_ID] < UNIT]_vars
-----------------------------------------------------------------------------
(* What the strategy promises.                                              *)

\* An interest is never sent back to a face it came from, nor twice to one face,
\* whatever duplicates, retransmissions and refusals came before.
NeverSentBack ==
    [][\A n \in DOMAIN pit \cap DOMAIN pit' : \A f \in pit'[n].sent \ pit[n].sent :
            f \notin pit[n].in /\ f \notin pit[n].out]_vars

\* The engine in use is complete: it is held, its event is pending, it knows the
\* strategy's faces, its tables have a row for each, and there is a bucket for
\* every content on every face, so no handler finds a hole.
EngineComplete ==
    /\ engine.refs = 2 /\ engine.event /\ engine.faceIds = DropAnd(faces)
    /\ \A c \in DOMAIN engine.entries : \A f \in faces \ AppFaces : c \in DOMAIN engine.buckets[f]
    /\ trying # None => ContentOf[trying.name] \in DOMAIN engine.entries

\* Every replaced engine is freed.
ReplacedEngineFreed ==
    \A i \in 1 .. MaxEngines : (i < current) ~> (i < current /\ engines[i].refs = 0)

\* The loop over the faces ends: each round takes a face out, or leaves.
PropagationEnds == (trying # None) ~> (trying = None)

\* The tokens of a face are all handed out, but for units that cannot be divided,
\* as long as some bucket has room; never more than there are.
TokensShared ==
    [][\A f \in DOMAIN engine.buckets :
        (/\ engines' # engines /\ current' = current
         /\ DOMAIN engine'.buckets[f] = DOMAIN engine.buckets[f]
         /\ \E c \in DOMAIN engine.buckets[f] : engine'.buckets[f][c] > engine.buckets[f][c])
        => LET given == SumFunction(engine'.buckets[f]) - SumFunction(engine.buckets[f])
               open == getAllNonFullBuckets(engine'.buckets[f])
           IN /\ given <= TOKEN_GEN_RATE
              /\ open = {} \/ given > TOKEN_GEN_RATE - Cardinality(open)]_vars
=============================================================================
