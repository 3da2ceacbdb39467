--------------------------- MODULE ObservationCycle ---------------------------
(***************************************************************************)
(* The observation cycle of one event (application/observation_cycle.go,   *)
(* domain/sensor_set.go, infra/db/snapshot.go, infra/db/guest_status.go),  *)
(* and the overview of it that is asked for meanwhile                      *)
(* (application/status_query.go).                                          *)
(*                                                                         *)
(* A cycle composes a snapshot of scores, records which sensors each       *)
(* anchor's score came from, publishes the guest status, asks Flow Control *)
(* to optimise, keeps what it answers and passes it on to Operation.  Each *)
(* step commits by itself and any may fail, which ends the cycle; cycles   *)
(* of concurrent reports interleave.                                       *)
(*                                                                         *)
(* A score stands for the sensors it was composed from.  A time is the end *)
(* of a window: the clock moves on whenever a cycle has read it.           *)
(***************************************************************************)
EXTENDS Integers, FiniteSets, Sequences

CONSTANTS
  Cycle,           \* cycles in progress at the same time
  Anchor,          \* points and routes of the event's graph
  Sensors,         \* sets of observation points an anchor may have
  Procedure,       \* procedures of Operation that outcomes are passed on by
  Window,          \* length of a window
  HistoryWindow,   \* how far back the history goes that Flow is given
  MaxTime,         \* bound on the clock
  Null             \* no value

ASSUME CycleAssumption ==
  /\ {Window, HistoryWindow} \subseteq Nat \ {0}
  /\ MaxTime \in Nat \ {0}
  /\ Null \notin Sensors

VARIABLES
  sets,        \* anchor_sensor_sets: the sensors of each anchor and their change
  snapshots,   \* rows of snapshots, in the order of their ids
  outcomes,    \* rows of optimization_results, in the order of their ids
  guest,       \* the event's row of guest_statuses
  published,   \* statuses that reached the guest-status topic
  underway,    \* outcomes sent to Operation that did not arrive, by procedure
  delivered,   \* outcomes that reached Operation, by procedure
  call,        \* what each cycle is doing
  seen,        \* id of the snapshot that an overview has read, 0 if none
  now          \* the clock

database == <<sets, snapshots, outcomes, guest>>
operation == <<underway, delivered>>
vars == <<database, published, operation, call, seen, now>>

Never == 0
Time == 0..MaxTime
Stamp == 1..MaxTime

SensorSet == [sensors: Sensors \cup {Null}, changedAt: Time]
Scores == [Anchor -> Sensors \cup {Null}]
Snapshot == [at: Stamp, scores: Scores]

\* For each anchor of the graph that Flow is given, the change it is told of.
Report == UNION {[graph -> Time] : graph \in SUBSET Anchor}

\* An outcome of the cycle of time at, which gave Flow the detection state of
\* the outcome before it and told it of the changes reported.
Outcome == [at: Stamp, previous: Nat, reported: Report]
GuestStatus == [sequence: Stamp, takenAt: Stamp]

Unobserved == [a \in Anchor |-> [sensors |-> Null, changedAt |-> Never]]
NoChange == [a \in Anchor |-> Never]
NoScores == [a \in Anchor |-> Null]

Call ==
  [step: {"idle", "list_sets", "save_sets", "list_history", "summarize",
          "save_snapshot", "save_guest", "publish", "find_previous", "optimize", "deliver"},
   at: Time,                          \* end of the window
   scores: Scores,                    \* what was composed
   tracked: [Anchor -> SensorSet],    \* the sensor sets with the new ones
   updated: SUBSET Anchor,            \* which of them are new
   history: SUBSET Snapshot,          \* the history that Flow is given
   arcs: [Anchor -> SUBSET Sensors],  \* the sensors behind the arc history
   sequence: Time,                    \* of the guest status saved
   previous: Nat,                     \* id of the outcome found, 0 if none
   reported: Report,
   outcome: Nat,                      \* id of the outcome saved
   pending: SUBSET Procedure]         \* calls of Operation not returned yet

IdleCall ==
  [step |-> "idle", at |-> Never, scores |-> NoScores, tracked |-> Unobserved,
   updated |-> {}, history |-> {}, arcs |-> [a \in Anchor |-> {}], sequence |-> 0,
   previous |-> 0, reported |-> NoChange, outcome |-> 0, pending |-> {}]

TypeOK ==
  /\ sets \in [Anchor -> SensorSet]
  /\ snapshots \in Seq(Snapshot)
  /\ outcomes \in Seq(Outcome)
  /\ guest \in [sequence: Time, takenAt: Time]
  /\ published \subseteq GuestStatus
  /\ underway \in [Procedure -> SUBSET DOMAIN outcomes]
  /\ delivered \in [Procedure -> SUBSET DOMAIN outcomes]
  /\ call \in [Cycle -> Call]
  /\ seen \in 0..Len(snapshots)
  /\ now \in 1..(MaxTime + 1)

Init ==
  /\ sets = Unobserved
  /\ snapshots = <<>>
  /\ outcomes = <<>>
  /\ guest = [sequence |-> 0, takenAt |-> Never]
  /\ published = {}
  /\ underway = [p \in Procedure |-> {}]
  /\ delivered = [p \in Procedure |-> {}]
  /\ call = [c \in Cycle |-> IdleCall]
  /\ seen = 0
  /\ now = 1

-----------------------------------------------------------------------------
(* Sensor sets and history *)

\* An anchor composed of other sensors than recorded has changed; one seen for
\* the first time has not, and one not composed keeps what is recorded.
HasNewSensors(recorded, scores, a) ==
  scores[a] # Null /\ scores[a] # recorded[a].sensors

TrackSensorSets(recorded, scores, t) ==
  [a \in Anchor |->
     IF HasNewSensors(recorded, scores, a)
     THEN [sensors |-> scores[a],
           changedAt |-> IF recorded[a].sensors = Null THEN Never ELSE t]
     ELSE recorded[a]]

\* Mutant of SensorSetsChangedAfter: only this cycle's own changes.
SensorSetsChangedNow(c, after) ==
  [a \in Anchor |->
     IF a \in c.updated /\ c.tracked[a].changedAt > after
     THEN c.tracked[a].changedAt ELSE Never]

\* The changes to tell Flow of, each with its time.
SensorSetsChangedAfter(c, after) ==
  [a \in Anchor |->
     IF c.tracked[a].changedAt > after THEN c.tracked[a].changedAt ELSE Never]

\* Flow is told of those of anchors of its graph.
FlowEvents(changes, graph) == [a \in graph |-> changes[a]]

\* Mutant of Predates: the operands of the comparison are swapped.
Postdates(t, set) == set.changedAt # Never /\ set.changedAt < t

Predates(t, set) == set.changedAt # Never /\ t < set.changedAt

\* The history without the scores from before a change of their sensors.
HistorySinceSensorSetChanges(history, tracked) ==
  {[s EXCEPT !.scores = [a \in Anchor |->
      IF Predates(s.at, tracked[a]) THEN Null ELSE s.scores[a]]] : s \in history}

\* ORDER BY window_end: the order of these rows is that of their ends.
SnapshotsEndingAfter(t) ==
  {snapshots[i] : i \in {j \in DOMAIN snapshots : snapshots[j].at > t}}

\* Mutant of Sampled: samples from before a change of sensors are taken.
SampledAtAnyTime(at, set) == TRUE

\* changed_at IS NULL OR first_start >= changed_at: the whole window is after
\* the change, if there was one.
Sampled(at, set) == set.changedAt = Never \/ at - Window >= set.changedAt

\* The sensors whose scores the sums of SummarizeArcHistory are of.
SensorsSummarized(a) ==
  {snapshots[i].scores[a] :
     i \in {j \in DOMAIN snapshots : /\ snapshots[j].scores[a] # Null
                                    /\ Sampled(snapshots[j].at, sets[a])}}

-----------------------------------------------------------------------------
(* A cycle *)

\* Cycle c goes on; overviews only read.
Continue(c, next) == call' = [call EXCEPT ![c] = next] /\ UNCHANGED seen

\* Graph and mappings are read, then the clock, then measurements and device
\* states, and the scores composed.  They may be any, whatever earlier and other
\* cycles composed: those of mappings read long before the clock, or so few
\* readings that there is no score.  So one step, at the clock, covers them all.
Compose(c, scores) ==
  /\ call[c].step = "idle"
  /\ now <= MaxTime
  /\ now' = now + 1
  /\ Continue(c, [IdleCall EXCEPT !.step = "list_sets", !.at = now,
                                  !.scores = scores])
  /\ UNCHANGED <<database, published, operation>>

ListSensorSets(c) ==
  LET k == call[c] IN
  /\ k.step = "list_sets"
  /\ Continue(c, [k EXCEPT
       !.step = "save_sets",
       !.tracked = TrackSensorSets(sets, k.scores, k.at),
       !.updated = {a \in Anchor : HasNewSensors(sets, k.scores, a)}])
  /\ UNCHANGED <<database, published, operation, now>>

\* One transaction writes the new sets, whatever is recorded by now.
SaveSensorSets(c) ==
  LET k == call[c] IN
  /\ k.step = "save_sets"
  /\ sets' = [a \in Anchor |-> IF a \in k.updated THEN k.tracked[a] ELSE sets[a]]
  /\ Continue(c, [k EXCEPT !.step = "list_history"])
  /\ UNCHANGED <<snapshots, outcomes, guest, published, operation, now>>

ListHistory(c) ==
  LET k == call[c] IN
  /\ k.step = "list_history"
  /\ Continue(c, [k EXCEPT
       !.step = "summarize",
       !.history = HistorySinceSensorSetChanges(
                     SnapshotsEndingAfter(k.at - HistoryWindow), k.tracked)])
  /\ UNCHANGED <<database, published, operation, now>>

SummarizeArcHistory(c) ==
  LET k == call[c] IN
  /\ k.step = "summarize"
  /\ Continue(c, [k EXCEPT !.step = "save_snapshot",
                           !.arcs = [a \in Anchor |-> SensorsSummarized(a)]])
  /\ UNCHANGED <<database, published, operation, now>>

SaveSnapshot(c) ==
  LET k == call[c] IN
  /\ k.step = "save_snapshot"
  /\ snapshots' = Append(snapshots, [at |-> k.at, scores |-> k.scores])
  /\ Continue(c, [k EXCEPT !.step = "save_guest"])
  /\ UNCHANGED <<sets, outcomes, guest, published, operation, now>>

\* Mutant of NextSequence: the row is replaced by a new one.
FirstSequence == 1

\* SET sequence = g.sequence + 1
NextSequence == guest.sequence + 1

\* Mutant of Saved: the sequence that the upsert returns is not taken.
SavedWithoutSequence(k) == [k EXCEPT !.step = "publish"]

Saved(k) == [k EXCEPT !.step = "publish", !.sequence = NextSequence]

SaveGuestStatus(c) ==
  LET k == call[c] IN
  /\ k.step = "save_guest"
  /\ guest' = [sequence |-> NextSequence, takenAt |-> k.at]
  /\ Continue(c, Saved(k))
  /\ UNCHANGED <<sets, snapshots, outcomes, published, operation, now>>

\* A status that cannot be published is logged and the cycle goes on.
Publish(c) ==
  LET k == call[c] IN
  /\ k.step = "publish"
  /\ \/ published' = published \cup {[sequence |-> k.sequence, takenAt |-> k.at]}
     \/ UNCHANGED published
  /\ Continue(c, [k EXCEPT !.step = "find_previous"])
  /\ UNCHANGED <<database, operation, now>>

\* Mutant of LatestOutcome: the oldest row.
OldestOutcome == IF outcomes = <<>> THEN 0 ELSE 1

\* The row with the highest id.
LatestOutcome == Len(outcomes)

\* The latest outcome's detection state goes back to Flow, and the changes
\* since its window are those that Flow is told of.  The graph is the one the
\* cycle began with: it has the anchors with scores, and any of the others may
\* be of an older revision.
FindPrevious(c) ==
  LET k == call[c]
      previous == LatestOutcome
      cycle == IF previous = 0 THEN Never ELSE outcomes[previous].at
  IN
  /\ k.step = "find_previous"
  /\ \E graph \in SUBSET Anchor :
       /\ {a \in Anchor : k.scores[a] # Null} \subseteq graph
       /\ Continue(c, [k EXCEPT
            !.step = "optimize",
            !.previous = previous,
            !.reported = FlowEvents(SensorSetsChangedAfter(k, cycle), graph)])
  /\ UNCHANGED <<database, published, operation, now>>

\* The calls of Operation run side by side; the cycle waits for them.
Waiting(k, pending) ==
  IF pending = {} THEN IdleCall ELSE [k EXCEPT !.step = "deliver", !.pending = pending]

\* What an answer of Flow may hold to call Operation for: proposals to deliver,
\* feedback values, both or neither.
Contents == SUBSET Procedure

\* Flow has answered, its outcome is kept, and the calls of Operation are sent.
SaveOutcome(c, content) ==
  LET k == call[c]
      id == Len(outcomes) + 1
  IN
  /\ k.step = "optimize"
  /\ outcomes' = Append(outcomes,
       [at |-> k.at, previous |-> k.previous, reported |-> k.reported])
  /\ underway' = [p \in Procedure |->
       IF p \in content THEN underway[p] \cup {id} ELSE underway[p]]
  /\ Continue(c, Waiting([k EXCEPT !.outcome = id], content))
  /\ UNCHANGED <<sets, snapshots, guest, published, delivered, now>>

\* Operation gets a call, sooner or later: its cycle may have given it up, and
\* have been followed by others, or the process may have died.
Arrive(p, outcome) ==
  /\ outcome \in underway[p]
  /\ underway' = [underway EXCEPT ![p] = @ \ {outcome}]
  /\ delivered' = [delivered EXCEPT ![p] = @ \cup {outcome}]
  /\ UNCHANGED <<database, published, call, seen, now>>

Returned(k, p) == Waiting(k, k.pending \ {p})

\* Mutant of GivenUp: a call that timed out is made again.
MadeAgain(c, p) ==
  /\ underway' = [underway EXCEPT ![p] = @ \cup {call[c].outcome}]
  /\ UNCHANGED <<call, seen>>

\* A call that failed or timed out is logged, wherever it is.
GivenUp(c, p) == Continue(c, Returned(call[c], p)) /\ UNCHANGED underway

\* A call returns: it was answered, or is given up.
Deliver(c, p) ==
  LET k == call[c] IN
  /\ k.step = "deliver"
  /\ p \in k.pending
  /\ \/ k.outcome \notin underway[p] /\ Continue(c, Returned(k, p)) /\ UNCHANGED underway
     \/ GivenUp(c, p)
  /\ UNCHANGED <<database, published, delivered, now>>

\* A statement fails, Flow fails or times out, the request is cancelled or the
\* process dies: what is committed stays.
Fail(c) ==
  /\ call[c].step # "idle"
  /\ Continue(c, IdleCall)
  /\ UNCHANGED <<database, published, operation, now>>

Run(c) ==
  \/ \E scores \in Scores : Compose(c, scores)
  \/ ListSensorSets(c)
  \/ SaveSensorSets(c)
  \/ ListHistory(c)
  \/ SummarizeArcHistory(c)
  \/ SaveSnapshot(c)
  \/ SaveGuestStatus(c)
  \/ Publish(c)
  \/ FindPrevious(c)
  \/ \E content \in Contents : SaveOutcome(c, content)
  \/ \E p \in Procedure : Deliver(c, p)
  \/ Fail(c)

-----------------------------------------------------------------------------
(* GetEventOverview *)

\* The first statement: the snapshot with the highest id.
OverviewSnapshot ==
  /\ seen = 0
  /\ seen' = Len(snapshots)
  /\ seen' # 0
  /\ UNCHANGED <<database, published, operation, call, now>>

\* The second: the diagnostics of the latest outcome, if any.
OverviewOutcome ==
  /\ seen # 0
  /\ seen' = 0
  /\ UNCHANGED <<database, published, operation, call, now>>

Next ==
  \/ \E c \in Cycle : Run(c)
  \/ \E p \in Procedure : \E outcome \in underway[p] : Arrive(p, outcome)
  \/ OverviewSnapshot
  \/ OverviewOutcome

Spec == Init /\ [][Next]_vars

-----------------------------------------------------------------------------
(* Properties *)

\* docs/observation_spec.md:398 says that Flow is told of a change of sensors.
\* A change recorded stays to be reported by later cycles when its own cycle
\* fails: with all cycles over, one that no later cycle would report, since the
\* latest outcome is not older, was reported with an outcome that was kept,
\* unless Flow's graph had no such anchor then (SensorSetsChangedAfter,
\* LatestOptimizationOutcome, flowEvents).
ChangesReported ==
  (\A c \in Cycle : call[c].step = "idle") =>
    \A a \in Anchor :
      LET changed == sets[a].changedAt IN
      (changed # Never /\ outcomes # <<>> /\ outcomes[Len(outcomes)].at >= changed)
        => \E i \in DOMAIN outcomes :
             LET told == outcomes[i].reported IN
             /\ outcomes[i].at >= changed
             /\ a \in DOMAIN told => told[a] = changed

\* And that the samples from before the change are left out: every score in the
\* history comes from the sensors that the anchor has now, whatever failed in
\* between (HistorySinceSensorSetChanges, SaveSensorSets before SaveSnapshot).
HistoryHomogeneous ==
  \A c \in Cycle : \A s \in call[c].history : \A a \in Anchor :
    s.scores[a] \in {Null, call[c].tracked[a].sensors}

\* So are the samples behind the history of an arc that Flow is given, although
\* it is the sums of whole hours that are kept and not the samples
\* (SummarizeArcHistory, docs/observation_spec.md:398).
ArcHistoryHomogeneous ==
  \A c \in Cycle : \A a \in Anchor :
    call[c].arcs[a] \subseteq {call[c].tracked[a].sensors}

\* Each outcome kept continues the detection state of the one kept before it,
\* with no fork and no return to an older state, also after cycles that failed
\* between asking Flow and keeping its answer (LatestOptimizationOutcome).
OutcomesChained ==
  \A i \in DOMAIN outcomes : outcomes[i].previous = i - 1

\* An overview reads the snapshot and the diagnostics in two statements.  The
\* diagnostics it shows are never older than the snapshot's own: they are those
\* of its cycle or of a later one, unless its cycle has kept none
\* (GetEventOverview, LatestOptimizationOutcome).
OverviewNotOutdated ==
  [][OverviewOutcome =>
       LET kept(t) == \E i \in DOMAIN outcomes : outcomes[i].at = t
           shown == outcomes[LatestOutcome].at
       IN  kept(snapshots[seen].at) => shown >= snapshots[seen].at]_vars

\* Who reads the topic can tell newer from older by the sequence alone: of two
\* statuses published, the one taken later has the higher sequence
\* (docs/observation_spec.md:284, SaveGuestStatus, PublishGuestStatus).
SequenceTellsNewer ==
  \A s, t \in published : s.takenAt < t.takenAt <=> s.sequence < t.sequence

\* A cycle waits for Operation to answer the call of this outcome.
Awaited(p, outcome) ==
  \E c \in Cycle :
    call[c].step = "deliver" /\ p \in call[c].pending /\ call[c].outcome = outcome

\* Operation gets no outcome twice by one procedure, and a call that arrives
\* while its cycle waits for it comes after those of older outcomes, over both
\* procedures' failures and timeouts.  One that its cycle has given up may come
\* after those of later cycles: nothing holds it back (deliverToOperation).
DeliveredInOrder ==
  [][\A p \in Procedure : \A o \in underway[p] :
       Arrive(p, o) =>
         /\ o \notin delivered[p]
         /\ Awaited(p, o) => \A older \in delivered[p] : older < o]_vars
=============================================================================
