------------------------------ MODULE ArcHistory ------------------------------
(***************************************************************************)
(* The history of the arcs of one event (infra/db/snapshot.go, migrations  *)
(* 000001, 000003 and 000007, domain/snapshot.go, infra/connect/           *)
(* flow_client.go).                                                        *)
(*                                                                         *)
(* A snapshot is saved in one transaction, which adds the score of each    *)
(* route to two tables of hourly sums, statement by statement.             *)
(* Transactions of overlapping cycles lock each other's rows.  What Flow   *)
(* is told of an arc (a high quantile of its stagnation, the dwell time of *)
(* free flow, the sensitivity of stagnation to flow) is computed from the  *)
(* sums alone.                                                             *)
(*                                                                         *)
(* A window of length Window ends when a cycle reads the clock, which      *)
(* moves on.  The bucket of a value is linear here, not logarithmic.       *)
(***************************************************************************)
EXTENDS Integers, FiniteSetsExt

CONSTANTS
  Cycle,          \* cycles in progress at the same time
  Routes,         \* number of routes, which stand for their sorted ids
  Edge,           \* the routes that the graph given to Flow has
  Composable,     \* the scores of routes that a cycle may compose
  Changing,       \* routes whose sensors may change
  Window,         \* length of a window
  HourLength,     \* length of an hour
  BucketWidth,    \* width of a bucket of stagnation, flow or dwell time
  MinSamples,     \* minFlowSensitivitySamples
  MinSpan,        \* minArcHistorySpan
  HighRank,       \* <<9, 10>>, the high quantile of stagnation and of flow
  LowerRank,      \* <<1, 4>> and
  UpperRank,      \* <<3, 4>>, the quartiles of flow
  MaxTime,        \* bound on the clock
  Null            \* no value

Route == 1..Routes

\* A stagnation score with the flow of its window, both directions added up.
Sample == [stagnation: Nat, flow: Nat, sameSensor: BOOLEAN]

ASSUME ArcAssumption ==
  /\ {Routes, Window, HourLength, BucketWidth, MinSamples, MaxTime} \subseteq Nat \ {0}
  /\ MinSpan \in Nat /\ Window <= MaxTime /\ IsFiniteSet(Cycle)
  /\ {HighRank, LowerRank, UpperRank} \subseteq (Nat \ {0}) \X (Nat \ {0})
  /\ \A rank \in {HighRank, LowerRank, UpperRank} : rank[1] <= rank[2]
  /\ Edge \subseteq Route /\ Changing \subseteq Route
  /\ Null \notin Nat
  /\ \A scores \in Composable : \A r \in Route :
       scores[r] \in Sample \cup {Null}

VARIABLES
  snapshots,    \* rows of snapshots
  stagnation,   \* rows of arc_stagnation_hourly, by key
  dwell,        \* rows of arc_flow_dwell_hourly, by key
  changedAt,    \* anchor_sensor_sets: when the sensors of a route changed
  call,         \* what each cycle is doing
  now           \* the clock

committed == <<snapshots, stagnation, dwell>>
vars == <<committed, changedAt, call, now>>

Never == 0
Time == 0..MaxTime

Snapshot == [end: Time, scores: Composable]

StagnationKey == [hour: Time, route: Route, bucket: Nat, sameSensor: BOOLEAN]
DwellKey == [hour: Time, route: Route, flow: Nat, dwell: Nat \cup {Null}]

StagnationRow ==
  [count: Nat, stagnation: Nat, flow: Nat, flowSquare: Nat,
   flowStagnation: Nat, firstStart: Time, lastEnd: Time]
DwellRow == [count: Nat, firstStart: Time, lastEnd: Time]

NoRows == [k \in {} |-> Null]

\* A table is a function from the keys of its rows.
IsTable(t, Key, Row) == DOMAIN t \subseteq Key /\ \A k \in DOMAIN t : t[k] \in Row

IdleCall ==
  [step |-> "idle", end |-> Never, scores |-> Null, changed |-> {}, todo |-> {},
   route |-> Null, stagnation |-> NoRows, dwell |-> NoRows]

CallOK(k) ==
  /\ k.step \in {"idle", "save_sets", "upsert", "upsert_dwell"}
  /\ k.end \in Time
  /\ k.scores \in Composable \cup {Null}
  /\ k.changed \subseteq Route
  /\ k.todo \subseteq Route                 \* routes whose score is not added yet
  /\ k.route \in Route \cup {Null}          \* the one of them being added
  /\ IsTable(k.stagnation, StagnationKey, StagnationRow)   \* uncommitted rows
  /\ IsTable(k.dwell, DwellKey, DwellRow)

TypeOK ==
  /\ snapshots \subseteq Snapshot
  /\ IsTable(stagnation, StagnationKey, StagnationRow)
  /\ IsTable(dwell, DwellKey, DwellRow)
  /\ changedAt \in [Route -> Time]
  /\ DOMAIN call = Cycle /\ \A c \in Cycle : CallOK(call[c])
  /\ now \in Window..(MaxTime + 1)

Init ==
  /\ snapshots = {}
  /\ stagnation = NoRows
  /\ dwell = NoRows
  /\ changedAt = [r \in Route |-> Never]
  /\ call = [c \in Cycle |-> IdleCall]
  /\ now = Window

-----------------------------------------------------------------------------
(* Rows *)

CeilDiv(a, b) == (a + b - 1) \div b

\* arc_stagnation_bucket: the bucket that v falls in, 0 for no stagnation.
Bucket(v) == IF v <= 0 THEN 0 ELSE BucketWidth * CeilDiv(v, BucketWidth)

\* Little's law; the dwell time is unknown when nobody flows.
DwellBucket(s) ==
  IF s.flow > 0 THEN Bucket(CeilDiv(s.stagnation, s.flow)) ELSE Null

Start(end) == end - Window
Hour(end) == (Start(end) \div HourLength) * HourLength

StagnationKeyOf(r, end, s) ==
  [hour |-> Hour(end), route |-> r, bucket |-> Bucket(s.stagnation),
   sameSensor |-> s.sameSensor]

DwellKeyOf(r, end, s) ==
  [hour |-> Hour(end), route |-> r, flow |-> Bucket(s.flow), dwell |-> DwellBucket(s)]

NewDwellRow(end) == [count |-> 1, firstStart |-> Start(end), lastEnd |-> end]

NewStagnationRow(end, s) ==
  [count |-> 1, stagnation |-> s.stagnation, flow |-> s.flow,
   flowSquare |-> s.flow * s.flow, flowStagnation |-> s.flow * s.stagnation,
   firstStart |-> Start(end), lastEnd |-> end]

\* Mutant of Merged: the columns are all added up.
AllAdded(h, excluded) == [f \in DOMAIN h |-> h[f] + excluded[f]]

\* ON CONFLICT DO UPDATE: LEAST of the starts, GREATEST of the ends, else sums.
Least(m, n) == IF m <= n THEN m ELSE n
Greatest(m, n) == IF m >= n THEN m ELSE n

Merged(h, excluded) ==
  [f \in DOMAIN h |->
     CASE f = "firstStart" -> Least(h[f], excluded[f])
       [] f = "lastEnd" -> Greatest(h[f], excluded[f])
       [] OTHER -> h[f] + excluded[f]]

Upserted(table, key, row) ==
  IF key \in DOMAIN table THEN Merged(table[key], row) ELSE row

\* The table t with the rows of w in place of its own.
Overlaid(w, t) ==
  [k \in DOMAIN w \cup DOMAIN t |-> IF k \in DOMAIN w THEN w[k] ELSE t[k]]

WithRow(w, key, row) ==
  [k \in DOMAIN w \cup {key} |-> IF k = key THEN row ELSE w[k]]

-----------------------------------------------------------------------------
(* A cycle saves its snapshot *)

Continue(c, next) == call' = [call EXCEPT ![c] = next]

\* The window ends and the scores are composed; some routes have them from other
\* sensors than before.  The mappings are loaded before the clock is read and the
\* measurements after it: as scores and changed are arbitrary, a cycle may have
\* those of any mappings, older than those of a window before it or newer.
Compose(c, scores, changed) ==
  /\ call[c].step = "idle"
  /\ now <= MaxTime
  /\ now' = now + 1
  /\ Continue(c, [IdleCall EXCEPT !.step = "save_sets", !.end = now,
                                  !.scores = scores, !.changed = changed])
  /\ UNCHANGED <<committed, changedAt>>

\* The routes that have a stagnation score, in an arbitrary order so far.
Scored(scores) == {r \in Route : scores[r] # Null}

SaveSensorSets(c) ==
  LET k == call[c] IN
  /\ k.step = "save_sets"
  /\ changedAt' = [r \in Route |-> IF r \in k.changed THEN k.end ELSE changedAt[r]]
  /\ Continue(c, [k EXCEPT !.step = "upsert", !.todo = Scored(k.scores)])
  /\ UNCHANGED <<committed, now>>

\* Mutant of NextRoute: the scores come in the order of a map.
AnyRoute(todo) == todo

\* The scores of a snapshot are sorted by the ids of their routes.
NextRoute(todo) == {r \in todo : \A q \in todo : r <= q}

\* A row that a transaction has written is locked until it ends; another one
\* that writes it waits, also when the row is new (the unique index).
HasWritten(d, key) == key \in DOMAIN call[d].stagnation \cup DOMAIN call[d].dwell

\* Mutant of Unlocked: the sums are read and written back by the program.
Unguarded(c, key) == TRUE

Unlocked(c, key) == \A d \in Cycle \ {c} : ~ HasWritten(d, key)

UpsertStagnation(c) ==
  LET k == call[c] IN
  /\ k.step = "upsert"
  /\ \E r \in NextRoute(k.todo) :
       LET key == StagnationKeyOf(r, k.end, k.scores[r])
           row == Upserted(stagnation, key, NewStagnationRow(k.end, k.scores[r]))
       IN
       /\ Unlocked(c, key)
       /\ Continue(c, [k EXCEPT !.step = "upsert_dwell", !.route = r,
                                !.stagnation = WithRow(@, key, row)])
  /\ UNCHANGED <<committed, changedAt, now>>

UpsertFlowDwell(c) ==
  LET k == call[c]
      key == DwellKeyOf(k.route, k.end, k.scores[k.route])
      row == Upserted(dwell, key, NewDwellRow(k.end))
  IN
  /\ k.step = "upsert_dwell"
  /\ Unlocked(c, key)
  /\ Continue(c, [k EXCEPT !.step = "upsert", !.route = Null,
                           !.todo = @ \ {k.route}, !.dwell = WithRow(@, key, row)])
  /\ UNCHANGED <<committed, changedAt, now>>

Commit(c) ==
  LET k == call[c] IN
  /\ k.step = "upsert"
  /\ k.todo = {}
  /\ snapshots' = snapshots \cup {[end |-> k.end, scores |-> k.scores]}
  /\ stagnation' = Overlaid(k.stagnation, stagnation)
  /\ dwell' = Overlaid(k.dwell, dwell)
  /\ Continue(c, IdleCall)
  /\ UNCHANGED <<changedAt, now>>

\* A statement fails, the request is cancelled or the process dies: the
\* transaction is rolled back.
Fail(c) ==
  /\ call[c].step # "idle"
  /\ Continue(c, IdleCall)
  /\ UNCHANGED <<committed, changedAt, now>>

Save(c) ==
  \/ SaveSensorSets(c)
  \/ UpsertStagnation(c)
  \/ UpsertFlowDwell(c)
  \/ Commit(c)

Next ==
  \E c \in Cycle :
    \/ \E scores \in Composable, changed \in SUBSET Changing : Compose(c, scores, changed)
    \/ Save(c)
    \/ Fail(c)

Spec == Init /\ [][Next]_vars

-----------------------------------------------------------------------------
(* What the sums tell *)

\* sum(f) over the rows of S
Total(f(_), S) == SumFunction([x \in S |-> f(x)])

Cumulative(count, q) == Total(LAMBDA b : count[b], {b \in DOMAIN count : b <= q})

\* Mutant of Quantile: the comparison is strict.
QuantileAbove(count, rank) ==
  Min({q \in DOMAIN count :
         rank[2] * Cumulative(count, q) > rank[1] * SumFunction(count)})

\* min(q) FILTER (WHERE cumulative >= rank * total)
Quantile(count, rank) ==
  Min({q \in DOMAIN count :
         rank[2] * Cumulative(count, q) >= rank[1] * SumFunction(count)})

\* Counts of the rows, which have the sample counts n, by their buckets.
CountBy(rows, bucket(_), n(_)) ==
  [q \in {bucket(k) : k \in rows} |-> Total(n, {k \in rows : bucket(k) = q})]

\* Mutant of Current: rows that reach past the change are taken.
EndsCurrent(table, since) ==
  {k \in DOMAIN table : k.hour >= since /\ table[k].lastEnd >= changedAt[k.route]}

\* The rows of the hours since, without those with a sample from before a
\* change of sensors.
Current(table, since) ==
  {k \in DOMAIN table : k.hour >= since /\ table[k].firstStart >= changedAt[k.route]}

Summed(rows, f) == Total(LAMBDA k : stagnation[k][f], rows)

FlowRegression(rows) ==
  [count |-> Summed(rows, "count"), stagnation |-> Summed(rows, "stagnation"),
   flow |-> Summed(rows, "flow"), flowSquare |-> Summed(rows, "flowSquare"),
   flowStagnation |-> Summed(rows, "flowStagnation")]

Span(table, rows) ==
  Max({table[k].lastEnd : k \in rows}) - Min({table[k].firstStart : k \in rows})

SummarizeArcStagnation(r, since) ==
  LET rows == {k \in Current(stagnation, since) : k.route = r} IN
  IF rows = {} THEN Null ELSE
    [p90 |-> Quantile(CountBy(rows, LAMBDA k : k.bucket, LAMBDA k : stagnation[k].count),
                     HighRank),
     all |-> FlowRegression(rows),
     sameSensor |-> FlowRegression({k \in rows : k.sameSensor}),
     span |-> Span(stagnation, rows)]

\* Mutant of InFreeFlowBand: all flows but the lowest.
AllButLow(q, p25, p75) == p25 <= q

\* Free flow is neither too little nor too much flow: BETWEEN p25 AND p75.
InFreeFlowBand(q, p25, p75) == p25 <= q /\ q <= p75

SummarizeArcFlowDwell(r, since) ==
  LET rows == {k \in Current(dwell, since) : k.route = r}
      n(k) == dwell[k].count
      flows == CountBy(rows, LAMBDA k : k.flow, n)
      p25 == Quantile(flows, LowerRank)
      p75 == Quantile(flows, UpperRank)
      free == {k \in rows : k.dwell # Null /\ InFreeFlowBand(k.flow, p25, p75)}
  IN
  IF rows = {} THEN Null ELSE
    [flowP90 |-> Quantile(flows, HighRank),
     freeFlowDwell |->
       IF free = {} THEN Null ELSE Quantile(CountBy(free, LAMBDA k : k.dwell, n), <<1, 2>>),
     span |-> Span(dwell, rows)]

\* Mutant of Eta: the sign of the slope is lost.
EtaOfAnySign(g) ==
  LET variance == g.count * g.flowSquare - g.flow * g.flow
      covariance == g.count * g.flowStagnation - g.flow * g.stagnation
  IN
  IF g.count < MinSamples \/ variance <= 0 \/ covariance = 0
  THEN Null ELSE <<-covariance, variance>>

\* How much stagnation falls when flow rises, as a fraction.
Eta(g) ==
  LET variance == g.count * g.flowSquare - g.flow * g.flow
      covariance == g.count * g.flowStagnation - g.flow * g.stagnation
  IN
  IF g.count < MinSamples \/ variance <= 0 \/ -covariance <= 0
  THEN Null ELSE <<-covariance, variance>>

\* Samples of flow and stagnation by the same sensors are preferred, also when
\* they show nothing.
FlowSensitivityEta(h) ==
  IF h.sameSensor.count >= MinSamples THEN Eta(h.sameSensor) ELSE Eta(h.all)

\* What Flow is told of an arc: only what enough time has established.
ArcStat(r, since) ==
  LET h == SummarizeArcStagnation(r, since)
      d == SummarizeArcFlowDwell(r, since)
  IN
  [p90 |-> IF h.span >= MinSpan THEN h.p90 ELSE Null,
   baseline |-> IF h.span >= MinSpan THEN <<h.all.stagnation, h.all.count>> ELSE Null,
   eta |-> IF h.span >= MinSpan THEN FlowSensitivityEta(h) ELSE Null,
   flowP90 |-> IF d # Null /\ d.span >= MinSpan THEN d.flowP90 ELSE Null,
   freeFlowDwell |-> IF d # Null /\ d.span >= MinSpan THEN d.freeFlowDwell ELSE Null]

\* The arcs of the graph that have a history, and how many are established.
FlowHistoryDigest(since) ==
  LET arcs == {r \in Edge : SummarizeArcStagnation(r, since) # Null}
      stats == [r \in arcs |-> ArcStat(r, since)]
  IN  [stats |-> stats, established |-> {r \in arcs : stats[r].p90 # Null}]

-----------------------------------------------------------------------------
(* Properties *)

SamplesOf(r) == {s \in snapshots : s.scores[r] # Null}

\* The snapshots of S that a row stands for.
Filed(S, key) ==
  {s \in S : /\ s.scores[key.route] # Null
             /\ StagnationKeyOf(key.route, s.end, s.scores[key.route]) = key}

FiledDwell(S, key) ==
  {s \in S : /\ s.scores[key.route] # Null
             /\ DwellKeyOf(key.route, s.end, s.scores[key.route]) = key}

Earliest(S) == Min({s.end : s \in S}) - Window
Last(S) == Max({s.end : s \in S})

\* The row that the snapshots of S add up to.
StagnationRowOf(r, S) ==
  LET total(f(_)) == Total(LAMBDA s : f(s.scores[r]), S) IN
  [count |-> Cardinality(S),
   stagnation |-> total(LAMBDA s : s.stagnation), flow |-> total(LAMBDA s : s.flow),
   flowSquare |-> total(LAMBDA s : s.flow * s.flow),
   flowStagnation |-> total(LAMBDA s : s.flow * s.stagnation),
   firstStart |-> Earliest(S), lastEnd |-> Last(S)]

DwellRowOf(S) ==
  [count |-> Cardinality(S), firstStart |-> Earliest(S), lastEnd |-> Last(S)]

\* The keys under which a snapshot is filed for the routes of R.
Keys(R, end, scores) == {StagnationKeyOf(r, end, scores[r]) : r \in R}
DwellKeys(R, end, scores) == {DwellKeyOf(r, end, scores[r]) : r \in R}

\* Every hour's sums are those of the snapshots that are kept, each counted
\* once, over any overlap of the transactions and whatever fails in between:
\* nothing of a snapshot that was rolled back, no update lost to another cycle
\* (SaveSnapshot, snapshot.go:85 to 135).
RowsAggregateSnapshots ==
  /\ DOMAIN stagnation = UNION {Keys(Scored(s.scores), s.end, s.scores) : s \in snapshots}
  /\ DOMAIN dwell = UNION {DwellKeys(Scored(s.scores), s.end, s.scores) : s \in snapshots}
  /\ \A k \in DOMAIN stagnation :
       stagnation[k] = StagnationRowOf(k.route, Filed(snapshots, k))
  /\ \A k \in DOMAIN dwell : dwell[k] = DwellRowOf(FiledDwell(snapshots, k))

\* The samples of an arc since an hour, without those filed in one row with a
\* sample from before a change of the arc's sensors.
UsedSamples(r, since, key(_)) ==
  LET late == {s \in SamplesOf(r) : s.end - Window < changedAt[r]} IN
  {s \in SamplesOf(r) : Hour(s.end) >= since /\ key(s) \notin {key(l) : l \in late}}

\* q is the quantile of f over the samples, by nearest rank.
IsQuantile(q, samples, f(_), rank) ==
  LET n == Cardinality(samples) IN
  /\ \E s \in samples : f(s) = q
  /\ rank[2] * Cardinality({s \in samples : f(s) < q}) < rank[1] * n
  /\ rank[2] * Cardinality({s \in samples : f(s) > q}) <= (rank[2] - rank[1]) * n

StagnationSamples(r, since) ==
  UsedSamples(r, since, LAMBDA s : StagnationKeyOf(r, s.end, s.scores[r]))

DwellSamples(r, since) ==
  UsedSamples(r, since, LAMBDA s : DwellKeyOf(r, s.end, s.scores[r]))

IsFlowQuantile(q, r, samples, rank) ==
  IsQuantile(q, samples, LAMBDA s : Bucket(s.scores[r].flow), rank)

IsDwellQuantile(q, r, samples, rank) ==
  IsQuantile(q, samples, LAMBDA s : DwellBucket(s.scores[r]), rank)

\* Those of the samples with a flow between the quartiles of the flows.
FreeFlow(r, samples) ==
  LET flow(s) == Bucket(s.scores[r].flow) IN
  {s \in samples :
     /\ s.scores[r].flow > 0
     /\ \E t, u \in samples : /\ IsFlowQuantile(flow(t), r, samples, LowerRank)
                             /\ IsFlowQuantile(flow(u), r, samples, UpperRank)
                             /\ flow(s) \in flow(t)..flow(u)}

Since == {Hour(t) : t \in Window..(MaxTime + 1)}

\* The stagnation an arc is said to have comes from the samples themselves, not
\* from what the hourly buckets make of them: the 90th percentile is the nearest
\* rank of the samples' buckets, and the mean their mean (SummarizeArcHistory,
\* infra/db/snapshot.go:207).
SummaryIsOfSamples ==
  \A r \in Route, since \in Since :
    LET h == SummarizeArcStagnation(r, since)
        used == StagnationSamples(r, since)
    IN
    IF used = {} THEN h = Null ELSE
      /\ IsQuantile(h.p90, used, LAMBDA s : Bucket(s.scores[r].stagnation), HighRank)
      /\ h.all.count = Cardinality(used)
      /\ h.all.stagnation = Total(LAMBDA s : s.scores[r].stagnation, used)
      /\ h.span = Max({s.end : s \in used}) - Min({s.end : s \in used}) + Window

\* The dwell time of free flow is the median over the samples with a flow
\* between the quartiles of the arc's flows, and unknown if nobody flows in any
\* of them (summarizeArcFlowDwell).
FreeFlowIsOfSamples ==
  \A r \in Route, since \in Since :
    LET d == SummarizeArcFlowDwell(r, since)
        used == DwellSamples(r, since)
        free == FreeFlow(r, used)
    IN
    IF used = {} THEN d = Null ELSE
      /\ IsFlowQuantile(d.flowP90, r, used, HighRank)
      /\ IF free = {} THEN d.freeFlowDwell = Null
         ELSE IsDwellQuantile(d.freeFlowDwell, r, free, <<1, 2>>)

\* An arc is said to be sensitive to flow only if, pair by pair of its samples,
\* more flow goes with less stagnation, and the sensitivity is the slope of the
\* regression; samples of the same sensors come first (FlowSensitivityEta, eta).
EtaIsSlopeOfSamples ==
  \A r \in Route, since \in Since :
    LET h == SummarizeArcStagnation(r, since)
        used == StagnationSamples(r, since)
        same == {s \in used : s.scores[r].sameSensor}
        samples == IF Cardinality(same) >= MinSamples THEN same ELSE used
        x(s) == s.scores[r].flow
        y(s) == s.scores[r].stagnation
        pairs == {p \in samples \X samples : p[1].end < p[2].end}
        Sxy == Total(LAMBDA p : (x(p[1]) - x(p[2])) * (y(p[1]) - y(p[2])), pairs)
        Sxx == Total(LAMBDA p : (x(p[1]) - x(p[2])) * (x(p[1]) - x(p[2])), pairs)
    IN
    h # Null =>
      FlowSensitivityEta(h) =
        IF Cardinality(samples) >= MinSamples /\ Sxy < 0 THEN <<-Sxy, Sxx>> ELSE Null

\* The samples in the rows that the statistics of an arc are computed from.
StagnationBehind(r, since) ==
  UNION {Filed(snapshots, k) : k \in {j \in Current(stagnation, since) : j.route = r}}

DwellBehind(r, since) ==
  UNION {FiledDwell(snapshots, k) : k \in {j \in Current(dwell, since) : j.route = r}}

\* The samples are all of windows after the change of the arc's sensors, and go
\* over MinSpan.
Established(samples, r, since) ==
  /\ \A s \in samples : Start(s.end) >= changedAt[r] /\ Start(s.end) >= since
  /\ \E s, t \in samples : t.end - Start(s.end) >= MinSpan

\* What Flow is told of an arc was observed over MinSpan, and no sample behind it
\* begins before the recorded change of the arc's sensors, whatever cycles were
\* saving windows from before the change when it was recorded
\* (FlowHistoryDigest, docs/observation_spec.md:398).
EstablishedAfterChange ==
  \A since \in Since :
    LET digest == FlowHistoryDigest(since) IN
    \A r \in DOMAIN digest.stats :
      /\ r \in digest.established => Established(StagnationBehind(r, since), r, since)
      /\ digest.stats[r].flowP90 # Null => Established(DwellBehind(r, since), r, since)

\* Cycles that save their snapshots at the same time never wait for each other
\* in a circle: PostgreSQL aborts none (40P01), since all take the routes in one
\* order (SaveSnapshot, infra/db/transaction.go:17).
WaitsFor(c, d) ==
  LET k == call[c]
      wanted == IF k.step = "upsert"
                THEN {StagnationKeyOf(r, k.end, k.scores[r]) : r \in NextRoute(k.todo)}
                ELSE IF k.step = "upsert_dwell"
                THEN {DwellKeyOf(k.route, k.end, k.scores[k.route])} ELSE {}
  IN  wanted # {} /\ \A key \in wanted : HasWritten(d, key)

NoDeadlock ==
  \A D \in (SUBSET Cycle) \ {{}} : \E c \in D : \A d \in D \ {c} : ~ WaitsFor(c, d)
=============================================================================
