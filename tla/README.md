# itec-scenarios in TLA+

A model of the video streaming code of `itec-scenarios` (ns-3 / ndnSIM 1.x
extensions, `src/extensions`): TLA+ modules translated from the C++ sources, TLC
configurations that check them on small instances, and TLAPS proofs of what
matters most for every instance. Paths below are relative to `src/extensions`.

The program simulates clients that fetch layered (SVC) or DASH video over a
Named Data Network, and the routers in between that decide which layers of it
to forward. All of it runs in one thread: the simulator takes one event at a
time (a timer, a packet handed up by a face, the start or stop of an
application), and everything the event causes, observers included, runs before
the next. A step of the models is one such event; where an event walks through
several components that call each other back, a program counter keeps other
events out until the chain ends.

## 1. The system

### Client side

| component | state | operations | hard part |
|---|---|---|---|
| Congestion window (`utils/congestionwindow`, `staticcongestionwindow`) | size, threshold, receiver window | Increase, Decrease, SetWindowSize, SetThreshold | two limits applied in different operations |
| Windowed downloader (`utils/windowndndownloader`) | flags of `IDownloader`, chunk status vector, map of timeout events, download timer, packets in flight, loss flags | download, abort, reset, OnData, OnNack, OnTimeout, download timer, statistics timer | lost, late and duplicate Data; timers of an earlier download; a vector that is resized when chunk 0 arrives |
| Layered downloaders (`svc/svcwindowndndownloader`, `player/nackcountingsvcdownloader`) | counters of Data and NACKs | OnData, OnNack | a layer is given up or retried, by NACKs of different origin |
| Simple downloader (`utils/simplendndownloader`) | one interest at a time | the same interface | repeated requests |
| Downloader contract (`utils/idownloader.h`) | bussy, finished, lastDownloadSuccessful, segment | messages SoonFinished, SegmentReceived, NackReceived | flags read by the manager between two calls |
| Download manager (`utils/downloadmanager`) | queue, finished segments, NACK flag, shared window | enque, update, retriveUnfinishedSegments, stop | completions and NACKs of several downloaders in any order; the player calls back inside the notification |
| Player of layered video (`player/player`, `layeredbuffer`, `layeredadaptationlogic`, `simplebufferlogic`) | buffer per level, segment asked for, segment to be played, histories | play, streaming, consuming, update, stop | requests race the playback; streaming lives on the report about its last request |
| SVC and DASH players (`svc/svcplayer`, `dash/dashplayer`, `utils/buffer`) | seconds in the buffer, current batch, histories, pending retry | play, streaming, consuming, update, stop | the consume timer takes a batch whose completion is on the way |
| Adaptation logics (`dash/*logic`, `svc/svcsegmentextractor`) | histories of levels and of rates | getNextSegments, updateStatistics | histories aligned by position only |
| Requesters (`*requester.cc`), content provider, background traffic | none of their own worth naming | StartApplication, StopApplication, OnInterest | - |

Calls go down (requester, player, manager, downloader, face), notifications go
up through `Observable`/`Observer`, synchronously. The player starts the manager
again inside a notification of the manager, which is inside a notification of a
downloader: that is where order matters although there is one thread.

### Network side

| component | state | operations | hard part |
|---|---|---|---|
| Layer strategy per content (`utils/percontentbasedlayerstrategy.h`) | one forwarding engine | propagate, Data, NACK, timeout, add/remove face | faces are tried until one takes the interest |
| Forwarding engine, entries (`utils/forwardingengine`, `forwardingentry`) | an entry per content, an update event | determineRoute, update, fallback | an engine replaced while its event is pending |
| Probability table, statistics (`utils/forwardingprobabilitytable`, `forwardingstatistics`) | a column of probabilities per layer | updateColumns, dropping, probing | columns must stay distributions |
| Token buckets (`utils/tokenbucket`, `facebucketmanager`) | tokens per content | addTokens, consume | left-over tokens shared out |
| Counting strategies, dropping policies (`svc/svccountingstrategy.h`, `svclivecountingstrategy.h`, `droppingPolicy/*`) | counters per face and level | count, recompute | zero load, unseen levels |
| PIT threshold strategy (`svc/pitthresholdstrategy.h`) | pending interests per face and level | propagate, satisfy, timeout | counters against what is pending |
| Static and adaptive strategies (`svc/svcstaticstrategy.h`, `svcadaptivestrategy.h`) | traced traffic per face | refusals, tracing periods | NACKs that are taken for interests |
| Adaptive queue, caching strategy, tags | none in use | - | - |
| Random networks (`randnetworks/*`, `scenarios/brite_*.cc`) | topology, hosts, scheduled link failures | build, add connections, place hosts, fail, repair | overlapping failures; the order of set-up |

### What makes each part correct

- window: never below its minimum nor above what the link carries;
- downloader: every outstanding request can be freed again; a chunk that has
  arrived is not asked for again; the count of packets in flight is right; a
  download is finished only with all its chunks, and does finish;
- layered downloader: NACKs give an enhancement layer up, nothing gives a base
  layer up;
- manager: no segment of a batch is lost or counted twice; a batch reported as
  received is whole; every batch is reported;
- player: streaming goes on, in one chain; the buffer is ordered and
  has no gap in its base layer; the report can be written; the playback ends;
- SVC and DASH players: one request at a time, no second of video lost or made
  up, histories that line up;
- probability table: columns stay distributions, an update moves no more traffic
  than there is, upper layers are dropped first, and a dropped layer comes back;
- forwarding engine: the one in use has what its handlers read, the one it
  replaced is freed; an interest leaves by a face once, and its propagation ends;
- layer strategies: the policy drops exactly the excess, who waits for an answer
  is in the entry that will give it, a counter of pending interests is too low
  for late data only;
- random networks: a link that is down has a repair to come; no host of
  `brite_dash` is cut off.

The hazards that make these hard to test are listed, each at its line, in
`PROJECT.json`.

## 2. Modules

```
CongestionWindow <--- WindowNDNDownloader <--- MCWindowNDNDownloader
                            | implements
                            v
                       IDownloader
                            ^
                            | is used as promised
LayeredBuffer         DownloadManager  <--- MCDownloadManager
     ^                      . one report for every request
AdaptationLogic <------- Player
                            .
PlayoutBuffer <- RepresentationLogic <- SegmentPlayer <--- MCSegmentPlayer
                 PlayerLevelHistory  <------'    (Player extends it too)

ForwardingStatistics <- ForwardingProbabilityTable <- ForwardingEntry
                                                            ^
FaceBucketManager <--------------------- PerContentBasedLayerStrategy
                                             ^--- MCPerContentBasedLayerStrategy

DroppingPolicy <- LayerStrategy <--- MCLayerStrategy

NDNBriteHelper <- NetworkGenerator <- BriteScenario <--- MCBriteScenario

proofs: WindowNDNDownloaderProofs   BriteScenarioProofs
        DataLemmas <- DownloadManagerProofs, PlayerProofs, SegmentPlayerProofs,
                      LayerStrategyProofs, PerContentBasedLayerStrategyProofs
```

Arrows are EXTENDS, read from right to left, unless labelled; each proof module
extends the module it is named after.

### Client side

**CongestionWindow**: both window types as operators on a record. The order of
the comparisons is the code's: `SetWindowSize` lets the receiver window win over
the minimum, `DecreaseWindow` compares with the minimum alone.

**WindowNDNDownloader**: the plain downloader and its two layered subclasses,
chosen by the constant `Kind`. Actions: `download`, `Stop`
(`DownloadManager::stop`), `AbortAndReset`, `reset` for the calls of the
manager; `DownloadTimerFires`, `CheckRetrieveTimeout`, `OrphanedTimeout`,
`collectStats` for timers; `OnData`, `OnNack`, `OnLayerNack`, `DropForeignData`,
`DropForeignNack`, `Lose` for the network.

- `chunkStatus` is the memory behind the vector: cells past `numChunks` exist
  (`Cap` of them) because the code reads and writes there after the vector
  shrinks. `vector::resize` initialises what it adds and forgets nothing else.
- `registered` are the timeout events the map knows, `orphans` those the map
  has lost (cleared in `download`, overwritten by a second request) and that
  stay scheduled.
- `network` is the set of interests some node may still answer, with Data (once,
  or with `Duplication` again and again), a NACK, or not at all.
- No clock: a pending timer may fire at any moment, and "was the last loss more
  than an RTO ago" may go either way. Sizes are counted in payloads; the last,
  shorter payload and the empty chunk behind a full one (`EmptyTail`) remain.
- Names are compared exactly where the code compares them, and not where it
  does not (the NACK handler of the plain downloader).
- `tries`, `abandoned`, `overlapped` are history; `message` is what the event told
  the observer, the observer's reaction being the manager's calls.

**IDownloader**: the abstract specification: three flags, the segment they are
about, and the message sent. `WindowNDNDownloader` implements it
(`ImplementsIDownloader`), `DownloadManager` only makes steps it allows
(`DownloadersUsedAsPromised`): the two models meet in this module.

**DownloadManager**: the pool of downloaders, the queue and the flags, against
an environment of downloaders that do whatever IDownloader allows and a player
that asks for the batches of `Batches`, inside the report or later, may take a
batch half-way (`retriveUnfinishedSegments`) and may stop. `update` is split
along its notifications: `soonFinished`, `specialNACKreceived`,
`segmentReceived`, then `Report` or `ReportAndEnque`, then `resume`, with `pc`
holding other events back. `window` records which downloader's window object
each uses. The report of `SoonFinished` is a step of its own: the downloader
sends it as the last thing of its handler.

**LayeredBuffer**, **AdaptationLogic**: the buffer of `Player` and the two logics
that work on it, as operators. Which logic a player has is a variable that
`Init` chooses, so every run and every theorem covers both. `allowedPhase` of
`LayeredAdaptationLogic` is left out: it is Upswitching from the start and the
one handler that could lower it, `segmentFailed`, is empty.

**Player**: `play`, `stop`, `streaming`, `consume`, `SegmentReceived`,
`NackReceived`. The manager appears as the promise it is checked for: one report
for the segment asked for, a NACK for an enhancement layer only.
`streamingEvents` counts the pending calls of `streaming`. The first consume
event is STARTUP_DELAY away and comes after the first request. A consume that
finds no base layer only schedules itself again, which changes nothing, so it
is not a step. A requester makes a new player for every start: a player that has
stopped is not started again.
Of the histories the model keeps which segments have a record in them, and the
level on record; sizes, durations and stalls are left out.

**PlayoutBuffer**, **RepresentationLogic**, **PlayerLevelHistory**: the seconds
a buffer holds, the choice of levels from the histories, the rates and the
buffer, and the records of a playback, as operators. Rates and bandwidths are
small integers; what matters is which representation is the largest that fits.

**SegmentPlayer**: the SVC player and the DASH player with either logic, chosen
by `Init`. `StartApplication` makes a player and plays it, `StopApplication` or
the player itself stops it, and the requester deletes it. `streaming` is the
common tail of several events: it asks, waits (`retries` counts the scheduled
calls) or notices the end. `LayerFinished` is the manager's work on the batch,
`LayersNacked` its cut by a refusal, and `consume` plays a second of video per
event, or takes an unfinished batch from the manager when the SVC player has
run dry. The manager is again the promise it is checked for. Only the layers
the manager has under way (`UnderWay`) can finish.

### Network side

**ForwardingStatistics**, **ForwardingProbabilityTable**, **ForwardingEntry**:
what a node has observed about a content, per layer and face, and the table it
learns from it, as operators on records. Probabilities are doubles in the code
and permille here, rounded down, so a column loses less than one unit per face
(`ColumnsAreDistributions` states the exact bound). What a face really carried is
rounded up: a face must not be asked, for rounding alone, to give up more than it
carries, which it never is with the doubles of the code.
`UpdateEntry` is the whole update: statistics, the columns with their cases,
moving dropping to higher layers, shifting between layers, probing, fallback.
`nan` are the layers a `0/0` has reached; an update stops there.

**FaceBucketManager**: the token buckets of one face, in whole units; the
units a division leaves over stay with the face, where the code divides doubles
and has none over.

**PerContentBasedLayerStrategy**: the strategy of a node with its engines.
`engines` are all engines made, the last one in use; a propagation is split into
rounds (`Try`: `SendOut`, `Blocked` or `GiveUp`) with `trying` keeping other
handlers out. The parent strategy, PIT and FIB of ndnSIM are external: modelled
from what the strategy is told.

**DroppingPolicy**, **LayerStrategy**: the counters per face and level with the
policy that turns an overload into drop probabilities (exact rationals), and a
node with one of five strategies, chosen by `Init`: counting, live counting,
static, adaptive, PIT threshold. ndnSIM's best-route strategy around them is
external: it ranks the uplinks by their status, which data, timeouts and NACKs
change, and by their cost, so the model tries them in any order (`OneAccepts`:
some decline, then one accepts). An entry of the PIT keeps how often each uplink
was asked (`sent`) and how many retransmissions it allows (`retx`); when a
neighbour asks again and nobody accepts, all are tried once more, and counted
once more. `underWay` are the answers that may come, each with whether the entry
of its name has seen its nonce: a NACK whose nonce the entry does not know, one
that comes after the entry has gone or was replaced, is counted and judged like
an interest by the counting strategies. An uplink answers all that was sent on it
for a name with the same status of the nonce once. `stray` is a history variable,
read by a property only: data that came on an uplink for an entry that was not
sent there. A draw against a probability is a choice wherever it is neither 0 nor
1 (`MayDrop`, `MayPass`).

**NDNBriteHelper**, **NetworkGenerator**, **BriteScenario**: the network BRITE
hands over, the connections, hosts and link failures added to it, and the two
programs that run on it. `scenario` chooses the program, `step` walks through
its `main` in its order, each random draw is a choice, and `Happen` then takes
the events of the failures in the simulator's order (time, then order of
scheduling).

Definitions called "Mutant of ..." are plausible mistakes in the definition
below them. No specification uses them; with one put in the place of its
original the property it is meant for fails, which `PROJECT.json` records.

## 3. Runs

| run | instance | what it shows |
|---|---|---|
| `downloader_chunks` | plain downloader, TCP window; a segment of 1 chunk with an empty tail and one of 3, 3 chunks assumed at first | window in bounds, every request guarded by a timeout, packets in flight exact, a first download that is finished is whole - under loss, NACKs, late Data, leftover timers, aborts, stops |
| `downloader_layers` | NACK counting downloader, both segments, 2 chunks assumed at first | it implements IDownloader; the base layer is never given up |
| `downloader_finishes` | one segment, Data duplicated | the download ends when timers fire and repeated interests are answered in the end; duplicates are counted once |
| `manager_batches` | two batches of three layers, two downloaders | accounting of segments, a batch reported as received is whole, always a report, one shared window, downloaders used as promised |
| `player_plays` | 8 segments, 3 levels, both logics | one chain of streaming, ordered buffer, no gap in the base layer, enhancement layers not ahead of it, readable report, the end of the playback |
| `segment_players` | 8 segments, 3 representations, SVC and both DASH logics | one request at a time and always one, every second accounted for, histories aligned, the end of the playback |
| `forwarding_learns` | one content in two layers, three faces, three updates | columns are distributions, nothing overdrawn, moved traffic conserved, upper layers dropped first, a dropped layer recovers |
| `forwarding_faces` | three interests for two contents, token buckets, a face added or removed | the engine in use is complete, the old one freed, tokens shared out, nothing sent back, every propagation ends |
| `layer_strategies` | five strategies, two neighbours, two uplinks, two layers | the policy drops exactly the excess, nobody who waits is forgotten, an uplink is undercounted for late data only |
| `random_networks` | both programs, three graphs, two failures | hosts of `brite_dash` stay attached, every link that is down has a repair to come |
| `stale_completion`, `payload_counted_twice` | as above | each one thing the source says of itself and the code does not keep, see section 6 |

### Bounds

- Downloader: `MaxTries` 1 per segment: leftovers of one download meet the next
  one because two segments are loaded in turn; the same segment twice is
  `payload_counted_twice`. Sizes 1 and 3 against 2 or 3 chunks assumed make the
  vector shrink, keep its size or grow; `Cap` 4 is every chunk of the longest
  segment. The code assumes 10 chunks at first: what matters is which side of
  the real number that is.
  The link carries three packets: the minimum window (2) and one more, so both
  limits are reached. A link that carries fewer than two is excluded by
  assumption (`SetWindowSize` would go below the minimum).
  `NackLimit` 2 instead of 5: the first NACK that is not enough, the first that
  is, and both sides of the share of NACKs among Data.
- Manager: two downloaders as in the code, three layers: one layer is always
  queued while two load; with two batches one meets the leftovers of the other.
- Player: buffers scaled from 3, 3, 15 to 2, 2, 6 so that eight segments fill
  and drain them several times and every phase of the layered logic is reached.
  `DESIRED_BUFFER_SIZE` must be at least 3 (its third is the offset of an empty
  level); nothing else of the numbers matters to the proofs.
- Segment players: a buffer of 7 seconds for segments of 2 instead of 30 for a
  few: it holds two segments and a rest, is full one segment early, and crosses
  every threshold of the logics; histories of 2 instead of 10, filled four
  times; measured rates below, between and above the three bandwidths.
- Forwarding table: `MaxUpdates` 3 reaches the second fallback
  (`FALLBACK_UPDATES` 2 instead of the updates of ten seconds) and an update
  that builds on two others. `MaxResults` limits the results between updates to
  2, 1 and 1: shares of 0, 1/2 and 1 per face. Two layers: one to drop from, one
  to drop to.
- Forwarding faces: `MaxEngines` 2 is one change of faces; one generation of
  tokens (15) overfills buckets of 8: several rounds of sharing, with a unit
  left over. `MaxUpdates` 0: the table keeps its first probabilities and face
  changes act on these.
- Layer strategies: three interests over two names and two neighbours give a
  new entry, a repetition and an aggregation; one change of period (`MaxResets`),
  and updates within a period by the live strategy, which smooth over it; a
  maximum of 4 bits for packets of 2, so one interest is below it and three are
  above. Three interests also let data come late on an uplink while another name
  is pending there and its own entry was sent to the other uplink, and let a NACK
  meet a newer entry. Symmetry in the neighbours and in the uplinks, which the
  model treats alike.
- Random networks: two AS of two routers with and without a leaf each, and a
  single AS; two failures at times 0 and 1 that last 0 or 1: equal times,
  overlaps, and one inside another.

Deadlock is not checked anywhere: a player stops, a manager has no more batches,
a downloader has no more tries, a node has nothing pending, a simulation ends.
That the systems do not stop *before* that is what the liveness properties say.

### Fairness

- Downloader: a timer of the simulator fires (WF on the download timer and on
  each registered timeout). The network answers a chunk that is asked for again
  and again in the end (SF on `OnData`): without it nothing could finish, and
  losses and NACKs remain possible any finite number of times. The manager's
  calls are not forced.
- Manager: what runs inside an event runs to its end (WF on its steps and on the
  report); a bussy downloader completes (SF on `Complete`), which is what
  `downloader_finishes` shows of it. NACKs and the player's calls are not forced.
- Player: its timers fire (WF on `streaming`, `consume`), and the manager
  reports (WF on the two reports together), which is `BatchReported`. A level
  may be refused for ever.
- Segment players: the retry and the consume timer fire, and a layer under way
  finishes (WF on `Retry`, `consume`, `LayerFinished`). Refusals and stops are
  not forced.
- Forwarding: a handler runs to its end (WF on `Try`), and the pending update of
  an engine happens (WF on `FreeEngine`). Interests, answers and timeouts are
  not forced.

## 4. Proofs

TLAPS proves, for all values of the constants that satisfy the named assumptions
of the modules:

| module | theorem | |
|---|---|---|
| WindowNDNDownloaderProofs | `TypeInvariant`, `TypeCorrect`, `WindowStaysInBounds` | typing and the bounds of the window, every kind of downloader |
| | `RequestsStayGuarded` | a request always has a timeout |
| | `Accounts`, `InflightCounted` | the accounts add up; packets in flight are counted exactly |
| | `FirstDownloadWhole` | a first download that counts as finished has every chunk |
| | `ContractImplemented` | the downloader implements IDownloader |
| | `BaseLayerNeverGivenUp` | no NACKs give a base layer up |
| DownloadManagerProofs | `TypeCorrect`, `WindowStaysShared` | typing; one window for all downloaders in use |
| | `ContractKept` | every downloader of the pool is used as IDownloader allows |
| | `Accounting`, `BatchAccounted` | no segment of a batch is lost or counted twice |
| | `ReportedWhole` | a batch reported as received is whole |
| PlayerProofs | `TypeCorrect`, `StreamingChain` | typing; one chain of streaming |
| | `BufferStaysOrdered`, `BaseStaysWithoutGap` | each level ordered; base layer without a gap |
| | `RecordsInvariance`, `ReportStaysReadable` | histories without a gap; the report finds what it looks up |
| | `EnhancementsStayBehind` | enhancement layers are not ahead of the base layer, if `SizesGrow` |
| SegmentPlayerProofs | `Invariant`, `OneAtATime` | one request at a time, and one until the last segment has come |
| | `SecondsAddUp` | seconds played and buffered are those of the segments on record |
| | `HistoriesStayAligned` | what was asked for and what came line up |
| PerContentBasedLayerStrategyProofs | `InterestsGoOn` | no interest is sent back or twice to a face |
| | `EngineStaysComplete` | the engine in use has what every handler looks for |
| | `ColumnsStayDistributions` | the columns of its tables are distributions, but for rounding |
| | `LayersDropInOrder` | a layer drops only when those above drop everything, but for columns spread evenly |
| | `NothingIsOverdrawn` | an update takes from no face more than it has |
| | `MovedTrafficIsConserved` | what is taken from failing faces is what the reliable ones get |
| | `DroppedLayersRecover` | a layer dropped entirely is let through by the next update, unless it failed, was jammed or a lower one drops |
| | `TokensAreShared` | the token manager hands out what the buckets can take |
| | `TypeCorrect`, `ReplacedEnginesAreLetGo` | typing; a replaced engine waits for its own update, or is freed |
| LayerStrategyProofs | `NeighboursAreKept` | who waits for an answer is in the entry that will give it |
| | `UplinksCounted` | an uplink is undercounted by late data for entries sent elsewhere only |
| | `StatisticsKept`, `ExcessIsDropped` | the policy takes away exactly the bits above the maximum |
| BriteScenarioProofs | `LinksComeBack` | a link that is down has a repair to come |
| | `HostsAreNotCutOff` | no access link of `brite_dash` fails |

*Downloader.* `TypeInv` is typing, `WindowInBounds` and `IdleBeforeFirst`. The
bounds are proved along with the typing because the same steps disturb them;
`IdleBeforeFirst` (no timer before the first download) because the
timer asks for a chunk of `segment`, which must then be a segment.
`RequestsStayGuarded` is inductive with it: the chunk a step marks Requested is
registered by the same step, an entry lost from the map becomes an orphan, and
an event that fires takes the mark away. `ContractImplemented` maps each action
to the step of IDownloader it looks like; most are `Progress`.
`BaseLayerNeverGivenUp` follows from the contract: only `GiveUp` clears the flag,
and `segment` changes only with a download, which sets it again.

`AccountInv` carries the two results that count. `InSight`: whatever is marked
Requested is a chunk the vector has now, which the resize of chunk 0 has to
keep. `VectorSize` and `AskedInOrder`: before chunk 0 has come, no chunk past the
first size of the vector was ever asked for, so no Data can be stored behind it;
only a first download can say so, as a second one meets the interests of the
first. `BytesAccounting`: each chunk with payload was subtracted once. The bytes
are 0 only when the number of chunks that are here equals the size, hence when
all are (`AccountsComplete`).

*Manager.* `IInv` adds two facts to typing. `WindowInv`: besides the downloaders
that have had a segment, the one used last has the window of the first, and it
is from that one that the next takes its window over. `LoadsSegment`: who is
bussy loads something, so what a NACK drops are segments. For `ContractKept`
each action is mapped, downloader by downloader, to a step of the contract:
`Stays`, or the one call the action makes on it. With `ContractImplemented` the
two sides of IDownloader are proved: what the downloader does is what the manager
expects, and the manager calls it only when it may.

`BatchInv` follows the segments of a batch. `Accounted`: each is in one place,
queued, loading, finished or dropped by a NACK, and no action takes it elsewhere
without putting it there. `FlagsInv`: outside a notification no downloader
shows a result, so a result is taken once; this is what a free downloader that
reports destroys (`~late`). `RestInv`: when the player is told, nothing is queued
or loading. `DropsRemembered`: a report of a whole batch has dropped nothing.
That the segments of a batch differ is part of `ConstantsOK`.

*Player.* `IInv` adds three things to what is to be shown. `StartInv`: before the
first request the player is unused, so that request is segment 0 of the base
layer (`FirstSegment`), and a player that has stopped does not come back.
`RequestInv`: what is asked for is above everything its level holds
(`NextNeeded`), so appending it keeps the order, whatever has been consumed in
between. `ConsumedInv`: the logic knows the segment played last, so a base layer
that has run empty goes on where the playback is. With `BaseWithoutGap` the
segment to be played can only be the first of the base layer, and erasing it
(`BaseConsumed`) leaves the run that begins one later. `PlayableIsLevel` shows
that the loop of `consuming` always ends at a level.

`RecordInv`: what is on record is a stretch that begins with segment 0
(`Filled`), what is buffered or played is in it, and what is asked for is at
most the next; so the report, which counts the records and then looks up that
many numbers, finds each. `AheadInv` bounds a level above the base: it is ahead
of the playback by `BUFFER_MIN_SIZE` and its length at most. `FollowInv` compares
that with the base layer, which must be longer by `BUFFER_ALPHA` per level before
the next level is asked for. This needs `SizesGrow`, `BUFFER_MIN_SIZE <=
BUFFER_ALPHA + 1`, which the theorem assumes and the code's constants satisfy.

*SVC and DASH players.* `IInv` is typing, `OneRequestAtATime` and three more.
`SecondsInv`: what is on record are the segments before the current one, and
what is under way was asked for only when the buffer had room for it; nothing is
added in between, so the buffer takes every segment (`addData`
wants one second more than there is, which `MustWait` has seen to). `BatchInv`: a
layered batch has its base layer, loading or loaded, so a batch that is cut or
taken away still is a segment. `HistoryInv`: what was received is one entry
behind what was asked for exactly while a segment is current. The levels chosen
by the three logics are shown to be levels, and what the SVC extractor chooses
to contain the base layer.

*Forwarding strategy.* `NeverSentBack` is about steps; the invariant behind it
is `TryInv`: while an interest is propagated, every face its entry was tried on
is in `tried` or is one the interest came from. It has to hold when a
propagation starts, which is where the subtraction of the incoming faces and the
second propagation of a retransmission come in, and when a face is blocked.
`RoutesAvoid` then needs nothing of the probabilities: normalising a column
keeps its faces, and the faces ruled out were removed before.

`EngineInv` says what an engine looks like: its faces, the shape of its entries,
statistics and tables (`IsEntry`), a bucket per face and content, and that each
column of integers over the faces is a distribution (`IsNormal`). The proof goes
through the operators from the inside out. A column is updated in several
passes; each is shown to give a column of integers over the same faces, whatever
the numbers are (`UpdateColumnIs`, `ProbeShape`, `SyncRoundShape`), which is where a
division by zero or a face counted in two groups would show. Whatever column of
integers comes out, normalising it yields shares of 0 to `UNIT` that add up to
`UNIT` or less, by one per face at most (`NormalizedIs`). So no pass has to keep the
sum, and only the last step of an update has to be right. Loops over layers are
recursive functions; `IterationExists` and `KeptToTheEnd` unfold them once and
for all. `EngineComplete` adds `OutInv` (an
interest is pending on known faces only) and `KnownInv` (a propagation has made
its entry); results of a NACK or timeout are folded over sets of faces
(`FailFoldExists`).

`LayersDropInOrder` is about the rounds of the synchronisation. Before each of
them every layer below the first that drops lets everything through, and every
layer above the last that lets through drops everything (`WhereDropping`). A
round changes these two layers alone, and moves as much as one of them has
(`MovedShare`: the integer division is exact for that one), so the two come
closer (`RoundCloser`) and `MAX_LAYERS` rounds are enough (`SyncInOrder`). That
nothing reappears when the columns are normalised needs `IsShared`, which the
rounds keep (`GiveBackShared`): what the faces hold and what is dropped are one
at most, and the faces' shares are never of both signs, so a layer that drops
everything has no face left with a share.

`NothingIsOverdrawn` and `MovedTrafficIsConserved` look inside an update, at the
columns before they are normalised, and so need what was observed and not only
its shape. `Failures` is what the statistics say of an interval that was just
evaluated: `utf` is the failures of the unreliable faces over all results, and
each unreliable face carried at least what failed on it. `ALPHA` of what it
carried is in its weighted probability (`WeightedIs`), so these, times the
unreliabilities, add up to no less than what failed (`Accounted`); what is taken
from a face is a share in proportion to that product, and hence no more than its
weighted probability. Conservation adds that the parts given to the reliable
faces and those taken from the others each add up to what failed but for rounding
(`UpdateColumnDeals`), and that the weighted probabilities add up to one as the
old ones and the traffic did (`WeightedSum`).
Both hold layer by layer (`LayerByLayer`), and both are stated for `AsStrict`:
`utf` was computed with the threshold the update began with, and a lower layer
may have lowered it since. Then faces count as reliable that were not when
`utf` was added up. The base layer always is as strict. The code knows: it
normalises at the end "to remove the error introduced by threashold
RELIABILITY_THRESHOLD" (`utils/forwardingprobabilitytable.cc:453`).

`TokensAreShared` is about a loop. A round keeps what was given and what is left
together at `TOKEN_GEN_RATE` (`RoundIs`), and either fills a bucket or leaves less
than there are open buckets; so after as many rounds as there are buckets, all
are full or the rest cannot be divided (`HandedOn`). The theorem is about steps:
`StepGains` shows that in no other step a bucket gains a token.

`DroppedLayersRecover` is about one update as a whole, and about steps. Column by
column: the dropped layer gets, in whichever case it falls, a face with two units
or more (`DroppedLayerOpens`), which is enough to be left with a share when the
column is normalised (`OpenedFeeds`); a lower layer that drops nothing after its
update feeds some face too (`LayerFeeds`), so that normalising does not spread it
evenly and make it drop. From then on the synchronisation keeps every layer open
up to the dropped one (`OpenUpTo`): the rounds take only from layers above the
first that drops, and nothing from a face of the first (`SyncRoundFeeds`). After a
fallback every layer is open. The theorem is for nodes of up to 97 faces: what an
update gives up of the dropping, 195 of 1000 at least, has to be divided among
the faces, in permille, and one of them needs two. The doubles of the code have
no such limit.

`TypeCorrect` adds to `EngineInv` what PIT entries, propagations and replaced engines
look like (`TypeInv`); no run checks it, since what it says of probabilities and
tokens is in the properties they do check. `IsGone` says of a replaced engine
that it has forgotten everything and has one reference exactly if its update is
still to come, which is what `ReplacedEngineFreed` begins from.

*Layer strategies.* `NoneForgotten` is inductive with typing alone.
`UplinkNotUndercounted` is too, uplink by uplink (`Covered`): sending one more
name there raises the counter by one (`OneMore`, `PropagateInv`), whatever was
declined before; an entry that ends lowers it by one, and either the entry was
sent there, so that one name less is pending (`OneLess`), or the data is stray and
counts as such (`EntryGone`). That neighbours and uplinks are different faces is
an assumption (`UplinksAssumption`).
`DropsWhatIsTooMuch` is arithmetic on exact rationals: `StatsInv` says the weights
are natural numbers and the metric a part of one, and the lemmas follow the
policy from the top level down: levels that are dropped whole, at most one that is
dropped in part (`RestFits`: what is missing to the excess is no more than its
weight), and the rest, which is left alone.

*Random networks.* `DownOnlyWhileFailing` needs `FailuresEnd`: the repair of
each failure stands behind it in the queue, with a time that is not earlier.
The event taken is the earliest, so a repair is never taken before its failure,
and the failure that takes a link down leaves its repair to come.
`HostsStayAttached` needs `OnlyRoutersFail`: in `brite_dash` the failures are
drawn before there is a host, and `HostsAreNoRouters`: hosts are numbered after
the routers.

*Induction.* The induction theorems of the library take an operator as a
parameter, which the provers cannot instantiate. `DataLemmas` states what is
needed for sets instead: a set of natural numbers with 0 and all successors is
`Nat` (`SetOfNaturals`), a set of subsets of a finite set that has the empty one
and is closed under adding an element has all of them (`EachSubset`). From these
follow the largest and smallest element and everything about sums: that the fold
exists, does not depend on the order, and is additive, monotone and scales.

Only model-checked: liveness (`DownloadFinishes`, `BatchReported`, the two
`PlaybackEnds`, `PropagationEnds`, `ReplacedEngineFreed`), which is out of the
prover's reach, as is ENABLED; and `DroppedLayerRecovers` for more than 97 faces.

`HigherLayersDropFirst` is proved but for columns spread evenly: a column whose
faces hold nothing has nothing to share by when it stops dropping (0/0 in the
code, which normalising turns into an even column that drops again). The instance
checked has no such column, and neither had one with three layers; that it never
occurs is not excluded for every value of the constants.

## 5. Abstractions that limit the results

- `InflightAccounting` is not stated for a download that was given up, whose
  chunk 0 enlarges the vector and revives it, nor once a download has begun on
  top of another. That happens: late Data completes a download that was given
  up, the flag it leaves makes the manager fetch the next one unfinished, and
  the one after that starts while the timer of the unfinished one is running
  (`download` restarts the timer only when it has expired). The timer then asks
  for a chunk that is already requested, and `packets_inflight` is one too high
  for good. `overlapped` and `abandoned` tell those states apart.
- `FirstDownloadIsComplete` is stated for the first download of a segment, and
  `downloader_chunks` asks for each segment once; that the second download may
  end with a chunk missing is `payload_counted_twice`.
- The accounting of the manager's batches holds as long as no free downloader
  reports (`~late`); the contract allows such reports, and `stale_completion`
  shows what they do.
- An enhancement level of the player may be full of segments the playback has
  passed, which then count as buffered. The layered logic may therefore ask for
  a level whose next lower level is missing; only the base layer is sure to be
  there, and that is what `EnhancementsFollowBase` says.
- `WriteToFile` divides by the download time of a segment in milliseconds. The
  models have no time, so `ReportReadable` is about the keys of the histories
  and says nothing of a time that is zero.
- The players' buffer must be larger than a segment (`BufferAssumption`): else
  the retry of the SVC and DASH players would wait for ever.
- Where the code divides by a sum of shares unless it is 0 (`probeColumn`,
  giving back), the model divides unless it is 0 or less: shares rounded to
  permille may add up to less than 0 where those of the code are 0.
- Permille instead of doubles: comparisons with 0 and 1 are exact here, where
  the code compares doubles. That a loop over doubles ends is not shown.
- The forwarding table is not updated once a column holds no numbers (`nan`),
  which three layers and an empty first share produce; no property covers what
  the code computes from there.
- The counters of the counting strategies are modelled from the second period
  on: `packets_per_time` is read uninitialised before, and there are no
  probabilities to look up.
- The node of `LayerStrategy` has no content store, and the uplinks are plain
  nodes: every topology of `scenarios` has at most one node with an adaptive
  strategy, so a NACK that comes in carries the level of its interest and not the
  -1 of the strategies' own.
- The best-route strategy, the PIT and the retransmission rules of ndnSIM are
  not in the repository; the model allows any order of the uplinks, and none is
  ever ruled out.
- Links between the same two nodes count as one.

## 6. Where the code and its own words differ

Two runs expect a violation:

- `payload_counted_twice`: late Data of an earlier download of the same segment,
  for a chunk past the initial vector, is written behind the vector; the resize
  of chunk 0 initialises that cell, the chunk is loaded again and its payload
  counted twice. The download counts as finished with a chunk missing.
- `stale_completion`: `finished` survives into the next download of a downloader
  that completed while free; the manager takes the new segment for finished.

More of the kind, and behaviour worth knowing, that the models contain:

- `download` says it clears leftover timeout events; it clears the map and
  leaves the events scheduled (`utils/windowndndownloader.cc:162`).
- A level that has finished stays in the batch when the level below it is
  refused afterwards (`utils/downloadmanager.cc:112`).
- The condition of `SetPlayerLevel` is always true, so a lower level overwrites
  a higher one on record.
- An engine is made with one reference and held by the strategy with a second
  one; that is why the test for one reference in its update finds an engine
  nobody uses (`utils/forwardingengine.cc:133`).
- The sum of `getSumOfWeighted...` is doubled at each step (`sum += sum += x`).
  Only whether it is 0 matters to the shares that are computed from it, in which
  it cancels.
- A face an interest was not sent to for want of a token is recorded as outgoing,
  and a timeout charges it (`utils/forwardingengine.cc:84-88`), although the
  comment at `utils/percontentbasedlayerstrategy.h:233` says otherwise.
- A retransmission that finds every face blocked is refused although an answer
  to the first one is pending.
- The nested loops of the probing give the probe to a face once per face
  (`utils/forwardingprobabilitytable.cc:567-595`).
- The live strategy maps tag 10 to level 1 and 20 to level 2; forwarding entries
  take the tag modulo 10, which makes all of them layer 0.
- The adaptive strategy swallows the NACK of the first chunk of an enhancement
  layer when both links are full: it looks at NACKs as at interests.
- The PIT threshold strategy counts a retransmission twice and an aggregated
  interest not at all, lowers the counters of all faces of an entry, does not
  lower them on a NACK, and lowers the counter of whatever face data comes on: the
  counters drift both ways. No threshold is enforced: nothing reads them.
- The drop probability of a top level never seen is 1 whatever the load: its
  first interests are dropped although there may be no excess.
- The number of AS is the number of the last node's AS plus one;
  `getNumberOfNodesInAS` counts what is not in the AS, and the guard of
  `getAllASNodesFromAS` is off by one.
- The end of the first of two overlapping failures raises the link during the
  second, and a repair scheduled after the end of the simulation does not happen.
- `brite_example` may fail the access link of a host; `brite_dash` cannot.
- A DASH player ignores a NACK; only the SVC player can get one.
- A pending retry of `streaming` is not cancelled by `stop`; it is the requester
  that deletes the player.

## 7. Not modelled, and what is left

- *Simple downloader*: selected by no scenario, with handlers that do not retry.
- *Background traffic*: independent senders; their effect is the loss the
  networks of the models may show at any time.
- *Adaptive queue*, *caching strategy*, *tags*, *statistics consumer*: installed
  by nothing, commented out, one integer each, or output only.
- *Scenarios*, apart from the two on random networks: straight-line set-up of
  fixed topologies.
- In the forwarding plane: waking and resting single faces, which the code
  disables; two fractions of the statistics nobody reads; goodput.
- In the generator: operations no scenario calls (`getNumberOfNodesInAS`,
  `randomlyAddConnectionsBetweenAllAS`), printing, the distributed simulation.
- Reading the MPD, rate estimation from bytes and seconds, tracers, topology
  files, scripts and the BRITE bridge.

What would add most from here: the players composed with the manager instead of
with its promise; and a propagation over several nodes, so that one node's
refusal is the other's NACK.

## 8. Running

```
tlc -config DownloaderChunks.cfg MCWindowNDNDownloader     # also DownloaderLayers, DownloaderFinishes
tlc -config ManagerBatches.cfg MCDownloadManager
tlc -config PlayerPlays.cfg Player
tlc -config SegmentPlayers.cfg MCSegmentPlayer
tlc -config ForwardingLearns.cfg MCPerContentBasedLayerStrategy   # also ForwardingFaces
tlc -config LayerStrategies.cfg MCLayerStrategy
tlc -config RandomNetworks.cfg MCBriteScenario
tlapm DownloadManagerProofs.tla                            # and the other modules with proofs
```

The largest instance, `random_networks`, has 858,000 distinct states;
`forwarding_faces`, with its liveness properties, takes longest, about a minute.
