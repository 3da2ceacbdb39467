# tolo-observation in TLA+

Specifications of the observation service (the Go code under `src/`), checked by
TLC on small instances and, where noted, proved by TLAPS for every value of the
constants. `PROJECT.json` lists runs, mutants, the map from definitions to source
lines, findings, hazards and theorems.

To check: `tlc -config X.cfg M.tla` for the runs below, `tlapm M.tla` for the
modules whose names end in `Proofs` and for `FiniteLemmas`.

## The system

The service receives measurements from observation pages (browsers in kiosks),
scanned QR codes and, later, cameras, composes a snapshot of scores for the
points and routes of an event's graph, and asks Flow Control to optimise. It runs
as one stateless process, or several, over PostgreSQL. All lasting state is in
tables, and every request runs on a goroutine of its own: what can go wrong lies
between the statements of concurrent requests, in requests that die half-way and
in the order in which results are applied.

| Component | State | Operations | Hard behaviour | What makes it correct | Module |
|---|---|---|---|---|---|
| Edge device registry (`application/edge_device.go`, `domain/edge_device.go`, `infra/db/edge_device.go`, `infra/db/transaction.go`) | `edge_devices`, `observation_points`, `camera_links` | register a page or a camera, unregister with the page's cameras, change a point's settings, heartbeat | row locks and their order, a copy read before a lock or without one, a cascade over several rows, rollback | links, switches and flags agree; unregistration is final; no request undoes another's update; every request is answered | `DeviceRegistry`, `EdgeDevices` |
| Heartbeat loss hold (`*/heartbeat_loss_hold.go`) | `heartbeat_loss_holds` | `Evaluate`: find the open hold, count silent pages, end, start | evaluations of all tenants overlap, each with its own clock value; one kind runs inside a transaction that may roll back | one hold open, none rewritten; a silent page is disconnected in bounded time; a suspicion protects the pages it counted | `HoldHistory`, `HeartbeatLossHold` |
| Measurement ingest (`infra/connect/service.go`, `application/measurement_ingest.go`, `infra/db/measurement.go`) | `measurements` | `ReportMeasurements` | resent, repeated and concurrent windows; waits between inserts, deadlock; lost answers; a page unregistered meanwhile; a client that goes away | a window is recorded once and counted once; a report is recorded whole or not at all, a refused or late one not at all; sources do not mix; every report is answered | `MeasurementLedger`, `MeasurementIngest` |
| Observation cycle (`application/observation_cycle.go`, `domain/sensor_set.go`, `infra/db/snapshot.go`, `infra/db/guest_status.go`) | `anchor_sensor_sets`, `snapshots`, `optimization_results`, `guest_statuses` | `Run`: compose, track sensors, save, publish, optimise, save, deliver | any step may fail after the ones before it were committed; cycles of one event overlap | changes of sensors reach Flow; history is of one set of sensors; outcomes chain; sequences order statuses | `ObservationCycle` |
| Snapshot composition (`domain/snapshot.go`, `flowObservations` in `infra/connect/flow_client.go`) | none (pure) | `NewSnapshot` | late, resent and dated-ahead windows; ends of the window, the trend span and the hold; sensors switched while their measurements age | the confidence tells the last measurement; no mean of nothing; scores only age | `SnapshotCompose` |
| Arc history (`infra/db/snapshot.go`, `eta` in `domain/snapshot.go`, `flowHistoryDigest` in `infra/connect/flow_client.go`) | `arc_stagnation_hourly`, `arc_flow_dwell_hourly` | two upserts per route with a snapshot, two summaries | sums are added to and never recomputed; overlapping cycles lock the same rows; hours in which the sensors changed | the rows are the sums over the committed snapshots; the statistics are those of the samples after the last change of sensors; no deadlock | `ArcHistory` |
| Status queries (`application/status_query.go`) | none | reads | two statements, between which a cycle goes on | the diagnostics shown are not older than the snapshot | `ObservationCycle` |
| Settings (`*/observation_settings.go`) | `observation_settings` | a read, one upsert | none | – | – |
| RPC layer and clients (`infra/connect/*`, `tenantctx`) | none | conversion, error codes, forwarding of the token | code of an error | codes that matter are in the modules above | – |
| Lifecycle, logging, telemetry, `pubsub` set-up, generated code | none that lasts | wiring | – | not modelled | – |

How they interact. `ReportMeasurements` records measurements and then runs the
cycle synchronously, on the request's own context. The cycle reads measurements
and devices and evaluates the hold; so do the listings of devices and, inside the
transaction that saves the device, the change of a point's settings. Nothing is
called back and nothing runs on a timer: a hold ends, and a change of sensors is
reported, because some later request looks.

Time is `Now()` of whichever request asks. Requests take it at different places
(before or after they read), so a request may apply a time older than what is
stored. Where that matters, a module has a clock and a step that takes it.

## Modules

### `DeviceRegistry`, `EdgeDevices`, `EdgeDevicesProofs`

`EdgeDevices` has the columns of the three tables as variables, a lock per device
row, and for every request in progress its `step` and the copy of the device it
works on. The actions follow the statements:

| Action | Code |
|---|---|
| `RegisterPage`; `RegisterCamera`, `LockPoint`, `InsertCamera` | `RegisterEdgeDevice`, `validateCameraLink`, `Create` |
| `UnregisterEdgeDevice`, `LockDevice`, `LockLinkedCamera`, `CommitUnregister` | `UnregisterEdgeDevice`, `FindByIDForUpdate`, `Save` |
| `UpdateObservationPointConfig`, `LockOwner`, `RefuseConfig`, `SaveConfig` | the same, with `FindByObservationPointIDForUpdate`; an empty name is refused under the lock |
| `Heartbeat`, `StampHeartbeat` or `RefuseHeartbeat`, `SaveHeartbeat` | `Heartbeat` without a lock, a point that is not the page's refused, then the guarded `UPDATE` |
| `Fail` | any error, a lost client, a deadline passed, the death of the process: rollback |

A transaction's writes become visible when it commits, and until then its row locks
keep out everyone who would write them; so the writes are one step, the one that
commits. That a transaction which fails between two of its writes leaves neither is
therefore PostgreSQL's part and not shown here. A commit may go through and its
answer be lost (`Committed`): the request is answered with a code of `Failure`
although it took effect. `DeviceRegistry` says what the RPCs promise: each takes
effect at once. `EdgeDevices` implements it with the same names for the variables
(`RegistrySpec`). Mutual lock order is page first, then its cameras by ascending ID;
a camera's registration locks the page alone.

### `HoldHistory`, `HeartbeatLossHold`, `HeartbeatLossHoldProofs`

An evaluation goes through `ReadPage`/`TakeTime` (listing, settings) or
`BeginCycle`/`LoadPages` (cycle: the time is taken first), then `FindOpen`,
`Count`, `End`, `Start`, `FindStarted`. Settings (`kind = "config"`) write to
`draft`, which `Commit` publishes and `Fail` drops; while a draft exists others
that would write the table wait (`NoOtherWriter`: the row and unique index
locks). `verdict` holds what the last step concluded about the page it judged;
properties speak of it. `HoldHistory` is the promise about the table, an
append-only list of holds of which the last may be open.

### `MeasurementLedger`, `MeasurementIngest`, `MeasurementIngestProofs`

`Arrive` is the check of the sources in `service.go`: the first measurement says
which method a report is of. `Reject` and `Admit` are what the use case decides
before the transaction. Each report inserts its windows one by one; an insertion
waits for an uncommitted row of the same key (`WaitsFor`), and `Abort` is
PostgreSQL's deadlock detector, which aborts a transaction on a ring of waits. The
unique index is partial, so rows of QR codes never meet. `Cancel` is a client that
goes away, or its deadline that passes, at any time (`End`); `GiveUp` is the
statement that notices. A commit of which the answer is lost may have happened
(`RecordedOrNot`), so a report answered with one of the errors in `Doubtful` may be
recorded: `FailedReportIsAllOrNothing` says that it is then recorded whole.
`RunCycle` stands for a whole cycle, which a cancellation may cut. `late` and
`cycle` only record what happened, for the properties. `MeasurementLedger` is the
promise: a report is taken at once, and the first to bring a window keeps it.

### `ArcHistory`, `ArcHistoryProofs`, `ArcStatisticsProofs`

Overlapping cycles, each a transaction of `SaveSnapshot`: for every route in
ascending order one upsert of `arc_stagnation_hourly` and one of
`arc_flow_dwell_hourly` (`UpsertStagnation`, `UpsertFlowDwell`), then `Commit`. A row
that an open transaction has written is locked until its end (`Unlocked`); what a
transaction has written is in its `call` and becomes visible with the commit.
`Fail` drops it. `changedAt` is written by
`SaveSensorSets`, as one step before; the module has no sensors, only the times at
which they changed. `Compose` is one step from the load of the mappings to the
scores: which sensors a cycle sees does not depend on its window, because the
scores and the routes found changed are arbitrary, so a cycle whose mappings are
older than its window suggests is among them. `snapshots` keeps the committed snapshots with
their scores: from these the properties recompute every statistic.

The statistics (`ArcStat`: percentile, mean, `FlowSensitivityEta`, flow percentile,
free-flow dwell) are operators of the tables, evaluated in every state for every
possible `since`, so a read between any two steps is covered. The SQL windows
(`sum(...) OVER (ORDER BY ...)`) are `Cumulative`, the filtered minimum is
`Quantile`. Data is small and exact: buckets are linear of width `BucketWidth` where
the code's are logarithmic, ranks are fractions given as constants, a ratio is a
pair, and the tolerance of the variance (1e-9) is zero. The two summaries of one
`SummarizeArcHistory` are two statements; the model does not separate them.

`RowsAggregateSnapshots` says of every row what it should be as an aggregate of the
kept snapshots (`StagnationRowOf`, `DwellRowOf` over `Filed`, `FiledDwell`), where the
code only ever adds one. `NoDeadlock` says that among any set of cycles one waits
for no other of the set, so no circle of waits exists, of any length.
`EstablishedAfterChange` is about times: no sample in the rows behind a statistic
(`StagnationBehind`, `DwellBehind`) begins before the recorded change. It does not say
by which sensors they were measured. A cycle that loads the mappings, is overtaken
by one that records a change, and reads the clock only then, saves scores of the old
sensors in a window that begins after the change; `docs/observation_spec.md:477` lets
cycles overlap. For cycles that do not, `ArcHistoryHomogeneous` of `ObservationCycle`
is about the sensors.

### `SnapshotCompose`, `SnapshotComposeProofs`

`NewSnapshot` keeps no state, so the module keeps what it is given: the rows of
`measurements`, the `state` of each camera sensor (`ObservationPointStates`, with
`"unknown"` for a sensor missing from the map) and the clock. `Report`, `ChangeState`
and `Tick` change them; a cycle may run in any state, and the score of an anchor,
`Compose(a)`, is an operator of the state. `Reading`, `InWindow`, `Latest` and
`PeopleTrend` follow the loop over measurements, `Sensors`, `Fresh` and `Held` the
loop over mappings. A mean, a rate or a slope is the set of rows it is computed
from: enough to see what takes part and whether it is computed from nothing.
`FlowOccupancyDelta` is what `flowObservations` passes on, for the anchors among the
nodes of the graph (`Node`) only. A graph revision is
constant, and no sensor is both a camera's and a QR code's: IDs of the first are
given by this service, those of the second by Graph Authoring.

The window has a start and no end, so a measurement dated ahead counts as fresh
until the clock has passed it, and hides those measured after it. The properties
hold with such measurements counted as of the window.

`SensorSet` is what `TrackSensorSets` compares: the sensors placed at the anchor
and registered, whether they measure or not.

### `ObservationCycle`, `ObservationCycleProofs`

One action per step of `Run` that commits or reads something a concurrent cycle
may change. A score stands for the sensors it was composed from (the table of
snapshots does not store them: this is what makes a mixed history visible), and
`arcs` for the sensors behind the sums that `SummarizeArcHistory` returns.
`Compose` takes any scores, so that it covers whatever the graph, the
measurements, the device states and the hold lead to, at whichever points of the
cycle these are read: mappings before the clock, measurements and states after it.
`FindPrevious` takes any graph that has the anchors scored, and the changes of anchors
that it has not are dropped from the request (`FlowEvents`).

`SaveOutcome` takes any content: an outcome may have proposals, feedback values, both
or neither, and Operation is called for what is there (`underway`). A call arrives at
any time after that (`Arrive`), whether its cycle still waits for it, has given it up
(`GivenUp`) and been followed by other cycles, or has died. So calls that were given
up may come after those of later cycles, which nothing in the code prevents and no
document excludes; `DeliveredInOrder` says that none comes twice and that one that is
still waited for comes after all older outcomes. `Fail` after a step covers
both a failed next step and a write that was applied but reported as failed.
`OverviewSnapshot` and `OverviewOutcome` are the two statements of
`GetEventOverview`, at any time beside the cycles. The
clock counts windows: it moves on whenever a cycle has taken its time, since a
cycle lasts longer than the microsecond to which times are truncated. Two
overlapping cycles of the very same microsecond are left out. `history` is the set
of the snapshots read: they differ in their times, which is their order.

### `FiniteLemmas`

Facts about finite sets that the proofs share: a strict order has a last element,
what `Min` and `Max` of a set return and how they change when an element joins, and
the same for sums (`SumFunction`). The sums are recursive functions on subsets;
what is true of them is proved by a smallest subset that breaks it, since strict
inclusion in a finite set is well founded. On these rest the sum over a union as the
sum of the sums over its parts (`SumOfParts`, `CountOfParts`), the sum over a product
(`SumOfCross`), and the identity by which a sum over the pairs of a set is
`n * sum(x * y) - sum(x) * sum(y)` (`SumOfPairs`).

## Runs

| Run | Shows | Bounds and why they are enough |
|---|---|---|
| `edge_device_races` | `TypeOK`, `RegistrationsAgree`, `RegistrySpec`, and `EveryCallAnswered` under `FairSpec` | 2 requests of any kind, 1 page with 1 point, 2 cameras, 2 instants: two cameras compete for the point, or one for the point of a page that leaves, and every pair of RPCs that could wait for each other |
| `edge_device_cascade` | `RegistrationsAgree`, `RegistrySpec` | 2 requests, 2 points, 2 cameras of the event and 1 of another: a cascade over two cameras meets each of the other RPCs, and requests name devices of the other event |
| `edge_device_heartbeat_order` | violates `LastHeartbeatNeverGoesBack` | 2 heartbeats, 2 instants |
| `hold_alone` | `TypeOK`, `SilentPageDisconnected`, `SuspicionHolds`, `SuspectedPagesHeld` | 1 evaluation at a time, 2 pages, threshold 3/4, hold of 2, clock 5, 2 holds: a hold expires, the next one follows and expires |
| `hold_races` | `HistorySpec` | 2 evaluations of every kind, 1 page, hold of 1, clock 4, 2 holds |
| `hold_returns` | violates `HeldPagesFellSilentBeforeHold` | 1 page, hold of 4, clock 6 |
| `ingest` | `TypeOK`, `AcceptedCountIsExact`, `FailedReportIsAllOrNothing`, `LateReportsRefused`, `OneSourcePerReport`, `LedgerSpec`, and `EveryReportAnswered` under `FairSpec` | 2 reports of up to 2 measurements of any source and of 2 windows: repetition, resending, mixed sources, and a ring of waits, for which two suffice |
| `ingest_cancelled` | violates `CycleOutlivesCancellation` | 1 report |
| `arc_history` | `TypeOK`, `RowsAggregateSnapshots`, `SummaryIsOfSamples`, `FreeFlowIsOfSamples`, `EtaIsSlopeOfSamples`, `EstablishedAfterChange`, `NoDeadlock` | 2 overlapping cycles, 2 routes of which one may change its sensors, 3 maps of scores, hours of 2 windows, clock 4, and at least 2 samples for a slope and a span of 2 for a percentile: rows of two hours, a change within an hour, and statistics above and below each minimum |
| `cycle_alone` | `TypeOK`, `ChangesReported`, `HistoryHomogeneous`, `ArcHistoryHomogeneous`, `OutcomesChained`, `SequenceTellsNewer`, `DeliveredInOrder`, `OverviewNotOutdated` | 1 anchor, 2 sets of sensors, 2 procedures of Operation, 3 cycles one after another, each failing anywhere, calls that arrive up to two cycles late, history of 2, an overview at any time: a change, a failure or a change back, and a report. Every definition goes anchor by anchor, so a second one adds states and no case; the theorems have any number |
| `cycle_lost_change` | violates `ChangesReported` | 2 overlapping cycles, 3 windows |
| `scores` | `TypeOK`, `ConfidenceTellsLastMeasurement`, `ScoresHaveSubstance`, `OccupancyDeltaIsCurrent`, `OutageIsNoSensorChange`, `ScoresOnlyAge`, `LateReportDoesNotReplace` | a point with 2 cameras, a route and a point outside the graph with a QR code; 3 measurements, up to 1 ahead; window 1, trend span 2, hold 3, clock 4: two measurements of one sensor and one of the other, each passing every limit |

Deadlock checking is off where the instance comes to rest: all reports sent
(`MeasurementIngest`) or the clock at its bound with no cycle running
(`ObservationCycle`, `ArcHistory`, which has `NoDeadlock` instead). Elsewhere it is on.

Every property of a passing run has a mutant in `PROJECT.json`, an operator
beside the original that puts a plausible bug in its place; TLC finds the
property violated with it.

Fairness. `EdgeDevices!FairSpec` asks for strong fairness of a request's steps:
PostgreSQL queues those that wait for a row, so one that gets to the front
again and again proceeds, and nothing else holds up a request. Weak fairness
would not do, since other requests take the row in between.
`MeasurementIngest!FairSpec` asks for weak fairness only: a wait ends when the
transaction waited for ends, and there is nothing to overtake; it includes the
deadlock detector. Clients, ticks and failures are not fair.

## What disagrees with the documents

Four runs end in a violation, each of a sentence of `docs/observation_spec.md`;
`findings` quotes them.

1. Overlapping heartbeats can set `last_heartbeat_at` back.
2. A page that came back during a hold and fell silent again is held too.
3. A change of sensors is never reported when the cycle that recorded it fails and
   an overlapping cycle of a later window keeps its outcome. For cycles that do
   not overlap the same property holds, whatever fails.
4. The cycle runs before the answer, on the context of the request: a client that
   goes away cuts the cycle of measurements that are already recorded, where the
   document has it run detached, after the answer. Sent again, the report brings
   nothing new and starts no cycle.

Seen while modelling, without a run of its own: a heartbeat that overlaps the
unregistration of its page is answered `not_found` (the guarded `UPDATE` meets no
row), where `docs/observation_spec.md:455` has `failed_precondition`. `RegistrySpec`
covers that nothing is written; the code of the answer is in the model
(`SaveHeartbeat`) and in no property.

`SuspicionHolds` is checked for evaluations one at a time. With two evaluators
(`Evaluator = {e1, e2}`, one page) it fails: a delayed evaluation ends, by its older
time, a hold that has just started, and the one that started it goes on with none.

A report aborted in a deadlock is answered `internal` (`CodeOf`), where the comment
of `ErrTransactionAborted` asks for `aborted` and says that no RPC runs a
transaction.

An overview may show diagnostics of a later cycle than its snapshot
(`OverviewNotOutdated` is the other direction). In `ArcHistory`, a cycle of an older
window that commits late can lower the `first_start` of a row below the time of a
change; the row, with the newer samples in it, is then left out of the statistics
although they are from after the change. The properties say that what is taken is
from after it, and that a row all after it is taken.

## Proofs

`EdgeDevicesProofs` (no bound on requests, pages, cameras, points, events):

- `EdgeDevicesTypes`: `Spec => []TypeOK`.
- `EdgeDevicesAgree`: `Spec => []RegistrationsAgree`. The property is not
  inductive: whether a cascade leaves a dangling link depends on what a request
  has read and locked so far. The invariant adds, for every step between a lock
  and a commit, that the request holds the rows it relies on, that no two hold
  one row, and that its copy agrees with the tables under these locks: the
  pending and saved cameras of a cascade cover the page's links, the point of a
  camera about to be inserted is free and its page in service, and so on.
- `EdgeDevicesImplementRegistry`: `Spec => RegistrySpec`. From the same invariant,
  one commit at a time: the copy equals the row, so writing it back changes what
  the registry's operation changes and nothing else.

`HeartbeatLossHoldProofs` (no bound on evaluations, pages, times or thresholds
beyond those of `PolicyAssumption`):

- `HoldTypes`: `Spec => []TypeOK`.
- `HoldsMakeHistory`: `Spec => HistorySpec`. The invariant says that in the table
  and in the draft only the last hold may be open and that the draft is the table
  with at most its last hold ended and one appended, which is what a commit then
  does in one step.
- `SilenceDisconnects`: `Spec => []SilentPageDisconnected`, from the definition of
  `Connected` and the types.

- `SuspicionsHold`: `Alone => (Spec => []SuspicionHolds)`, and `SuspectedPagesAreHeld`
  likewise for `SuspectedPagesHeld`. What an evaluation has found is still so when
  it uses it (`Fits`): the hold it read is the open one, one that suspects a failure
  and found none has started its own, and every hold started at or before its time.

`MeasurementIngestProofs` (no bound on reports, windows, lengths of reports):

- `IngestTypes`, `CountsAreExact`, `FailureIsAllOrNothing`, `LateReportsStopped`,
  `SourcesNotMixed`: `Spec => []P` for the five invariants of the run `ingest`.
  The invariant describes a report by its step: rows it has inserted are of its
  own windows, unrecorded by others and held by no other transaction (`Apart`),
  their number is the count so far, and the windows it has passed are in its
  transaction or recorded (`Passed`). An unregistered page's report stays at the
  admission (`Stopped`).
- `IngestImplementsLedger`: `Spec => LedgerSpec`. A commit records what the ledger
  records at once, because what was inserted was unrecorded and what was passed
  over was recorded and stays so.

`ObservationCycleProofs`:

- For any number of overlapping cycles: `CycleTypes`, and `OutcomesDeliveredOnce`,
  that no outcome reaches Operation twice by one procedure, however late its call
  arrives. The sequence of guest statuses stays within its type because every status
  saved is of a window of its own; an outcome's calls are sent once, when it is
  kept, and one that has arrived is under way no more (`Deliveries`).
- For cycles one after another (`Alone`), whatever fails in each: `ChangesAreReported`,
  `HistoryIsOfCurrentSensors`, `ArcHistoryIsOfCurrentSensors`, `OutcomesAreChained`,
  `NewerStatusHasHigherSequence`, `OutcomesDeliveredInOrder`, `OverviewsNotOutdated`.
  For the order of deliveries: while a cycle waits, its outcome is the last one kept.
  The invariant orders everything kept by the time of its window (`Times`), ties the
  sets a cycle goes by to those recorded (`SetsFollowed`) and each stored score to
  the recorded set or to a time before its change (`ScoresRecorded`), and says that a
  change no later cycle would report has been reported (`Reported`).

`SnapshotComposeProofs` (any placement of sensors, spans, number of measurements):

- `ComposeTypes`, `ConfidenceIsOfLastMeasurement`, `NoEmptyMeans`, `DeltaIsOfThePresent`,
  and the action properties `LateReportsDoNotReplace`, `OutagesAreNoSensorChange`,
  `ScoresAge`. Only the types need an induction. The rest follows from `Latest` being
  well defined: measurements are finitely many and the order of end and ID is
  strict. The action properties compare the score before and after a step part by
  part: which measurements are read, which sensors are fresh or held.

`ArcHistoryProofs` (any number of cycles and routes, any scores, hours and widths):

- `ArcTypes`: `Spec => []TypeOK`.
- `RowsAggregate`: `Spec => []RowsAggregateSnapshots`. The invariant extends the
  property to rows not yet committed: each is the aggregate of the kept snapshots
  *and* the transaction's own (`UncommittedAggregate`). That another commit in between
  does not falsify this is because the keys two transactions have written differ
  (`Exclusive`), and that a snapshot is counted once because ends differ
  (`EndsDiffer`) and the keys written are those of the routes done so far
  (`Written`).
- `CyclesNeverDeadlock`: `Spec => []NoDeadlock`. A cycle that waits wants a row that
  another has written, so the other is further: the position (route, then table)
  increases along every wait. Of any finite set of cycles, one of those that are
  furthest waits for none of the set.

`ArcStatisticsProofs` (the same; the invariant is that of `ArcHistoryProofs`, since
the statistics are operators of the state):

- `SummariesAreOfSamples`: `Spec => []SummaryIsOfSamples`. The samples that a summary
  stands for are exactly those filed in the rows it reads (`UsedAreFiled`): a row is
  left out if its first start is before the change, which is so if and only if one
  of its samples is. So the samples are divided up among the rows, a sum over the
  rows is the sum over the samples (`SummedReads`), and the count of a bucket is the
  number of the samples in it (`CountsRead`). `QuantileReads` then says that the
  smallest bucket with enough counts up to it is the nearest rank of the samples,
  `SpanReads` that the span is theirs.
- `SlopesAreOfSamples`: `Spec => []EtaIsSlopeOfSamples`. Variance and covariance of
  `eta`, which are computed from five sums, are sums over the pairs of samples; a
  negative covariance has a positive variance with it, so the guard
  `variance <= 0` never hides a slope.
- `FreeFlowsAreOfSamples`: `Spec => []FreeFlowIsOfSamples`. There is one quantile
  only (`QuantileIsUnique`), so the flows between the quartiles are the same whether
  rows or samples are asked, and the free rows hold exactly the free samples
  (`FreeFlowRows`). The median over them is again `QuantileReads`.
- `EstablishedIsAfterChange`: `Spec => []EstablishedAfterChange`. The samples behind a
  statistic are those its summary stands for (`BehindIsUsed`), none of which is from
  before the change; the first start and the last end of the rows are theirs, so
  what the rows span is what the samples span.

`Alone` (`\A c, d \in Cycle : c = d`) means that no two cycles, or evaluations, overlap;
it still has any number of them one after another. It is what the code relies on
without enforcing it. The properties under it are false when two overlap: for
`ChangesReported` and `SuspicionHolds` see above, and the hazards of
`PROJECT.json` name the others.

Assumptions are the ones the modules name: finite, non-empty parameters of the
policy as `heartbeatLossHoldPolicy` in `cmd/server/main.go` demands them, owners
and events of the devices as functions, positive windows, hours and widths,
finitely many requests at a time, ranks of at most 1, and a `Null` that is no value.

Only model-checked:

- `EveryCallAnswered` and `EveryReportAnswered`: fairness and `ENABLED` are out of the
  prover's reach.
- The four violations, each a behaviour that a run finds.

## Not modelled

- `observation_settings`: one row per event, written by one upsert, read by one
  statement, never kept by another component. `GetGuestSnapshot` and
  `EarliestSnapshotStart` are single reads of the same kind.
- The resolution of an anchor and the fields of messages that are copied one by
  one (`flow_client.go`, `graph_client.go`, `service.go`): no state, no choice
  that a property here depends on.
- Names, IDs and their formats, and the tenant check of the token (`tenantctx`,
  `forward.go`): no state depends on the first, and the second refuses a request
  before anything is read or, in the queries, leaves the row alone.
- Start-up, health checks and shutdown (`cmd/server/main.go`). A request that a
  shutdown cuts off is a `Fail`, which every module allows at every step.
- Logging, telemetry, the mock server, and the broker's own redelivery.
- Generated code in `src/gen`, some 12,500 of the 19,900 lines of the
  repository: message types and RPC stubs, with no behaviour of this service. The
  share of all lines that the map covers is bounded by this; of the
  hand-written lines it is about a third.

## Plan

Done, in this order: `EdgeDevices` with its registry and proofs; `HeartbeatLossHold`
with its history and proofs; `ObservationCycle`; `MeasurementIngest` with its
ledger; `SnapshotCompose`; `ArcHistory`; the overview beside running cycles; the
cancellation of a request; the proofs of the last four components.

Every invariant, action property and refinement that a passing run checks is also
proved. Left:

1. Lemmas on which nothing rests yet but a reader would want: what `Hour` and
   `Bucket` bound, in particular how far a percentile of buckets is above that of the
   values.
2. An abstract specification of `ArcHistory`, in which a snapshot and all its rows
   appear at once, and of the deliveries of `ObservationCycle` to Operation, with
   their refinements proved from the invariants that exist.
