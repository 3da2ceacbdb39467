----------------------- MODULE ObservationCycleProofs ------------------------
(***************************************************************************)
(* Proofs about ObservationCycle, for any anchors, sensors and times: the  *)
(* types and deliveries of any number of cycles at the same time, and what *)
(* Flow, the guests and Operation are told when one cycle runs at a time.  *)
(*                                                                         *)
(* The argument for one cycle at a time is the clock: the end of its       *)
(* window is later than that of everything kept before, so what it keeps   *)
(* comes last in every order, and the sensor sets it has compared are      *)
(* still those recorded when it uses them.                                 *)
(***************************************************************************)
EXTENDS ObservationCycle, FiniteSetTheorems, SequenceTheorems, TLAPS

\* No two cycles run at the same time: a later one is another value of the
\* same variable.
Alone == \A c, d \in Cycle : c = d

BeforeSnapshot == {"list_sets", "save_sets", "list_history", "summarize", "save_snapshot"}
BeforeGuest == BeforeSnapshot \cup {"save_guest"}
BeforeOutcome == BeforeGuest \cup {"publish", "find_previous", "optimize"}

\* The steps at which the sensor sets are recorded.
Tracked == BeforeOutcome \ {"list_sets", "save_sets"}

-----------------------------------------------------------------------------
(* The invariant of any number of cycles *)

\* The windows whose guest status is not saved yet.
Unsaved == {call[c].at : c \in {d \in Cycle : call[d].step \in BeforeGuest}}

\* Every cycle has a window of its own.
Windows ==
  /\ \A c \in Cycle : call[c].step # "idle" => call[c].at \in 1..(now - 1)
  /\ \A c, d \in Cycle :
       call[c].step # "idle" /\ call[d].step # "idle" /\ c # d =>
         call[c].at # call[d].at

\* Every status saved is of one of the windows that have ended.
Sequences ==
  /\ guest.sequence + Cardinality(Unsaved) <= now - 1
  /\ \A c \in Cycle : call[c].step = "publish" => call[c].sequence # 0

\* No call that may still arrive has arrived.
Deliveries == \A p \in Procedure : underway[p] \cap delivered[p] = {}

\* No outcome reaches Operation twice by one procedure.
DeliveredOnce ==
  [][\A p \in Procedure : \A o \in underway[p] :
       Arrive(p, o) => o \notin delivered[p]]_vars

TypeInv == TypeOK /\ Windows /\ Sequences /\ Deliveries

-----------------------------------------------------------------------------
(* The invariant of one cycle at a time *)

\* What is kept is older than the cycle that has not kept its own yet.
Times ==
  /\ \A c \in Cycle : call[c].step # "idle" => call[c].at = now - 1
  /\ \A i \in DOMAIN snapshots :
       /\ snapshots[i].at < now
       /\ \A c \in Cycle : call[c].step \in BeforeSnapshot => snapshots[i].at < call[c].at
  /\ \A i \in DOMAIN outcomes :
       /\ outcomes[i].at < now
       /\ \A c \in Cycle : call[c].step \in BeforeOutcome => outcomes[i].at < call[c].at
  /\ \A i, j \in DOMAIN outcomes : i < j => outcomes[i].at < outcomes[j].at

\* The sensor sets that a cycle goes by are those recorded.
SetsFollowed ==
  \A c \in Cycle :
    LET k == call[c] IN
    /\ k.step = "list_sets" => k.history = {} /\ k.arcs = [a \in Anchor |-> {}]
    /\ k.step = "save_sets" =>
         /\ k.tracked = TrackSensorSets(sets, k.scores, k.at)
         /\ k.updated = {a \in Anchor : HasNewSensors(sets, k.scores, a)}
    /\ k.step \in Tracked =>
         /\ k.tracked = sets
         /\ \A a \in Anchor : k.scores[a] \in {Null, sets[a].sensors}

\* Every score kept is of the sensors recorded, or from before their change.
ScoresRecorded ==
  \A i \in DOMAIN snapshots : \A a \in Anchor :
    LET s == snapshots[i] IN
    s.scores[a] # Null =>
      /\ sets[a].sensors # Null
      /\ s.scores[a] = sets[a].sensors \/ Predates(s.at, sets[a])

\* The time of the outcome with this id.
TimeOf(id) == IF id = 0 THEN Never ELSE outcomes[id].at

PreviousIsLatest ==
  \A c \in Cycle : call[c].step = "optimize" =>
    /\ call[c].previous = Len(outcomes)
    /\ \A a \in DOMAIN call[c].reported :
         call[c].reported[a] = SensorSetsChangedAfter(call[c], TimeOf(Len(outcomes)))[a]

\* An outcome from since the change told Flow of it, if its graph has the anchor.
Tells(o, a, changed) ==
  /\ o.at >= changed
  /\ a \in DOMAIN o.reported => o.reported[a] = changed

\* A change is of a window that has ended, and one that no later cycle would
\* report was reported.
Reported ==
  \A a \in Anchor :
    LET changed == sets[a].changedAt IN
    /\ changed < now
    /\ changed # Never /\ TimeOf(Len(outcomes)) >= changed =>
         \E i \in DOMAIN outcomes : Tells(outcomes[i], a, changed)

\* What is published is not newer than the status saved, and older than a
\* status that is about to be published.
Statuses ==
  /\ guest.takenAt < now
  /\ \A s \in published : s.sequence <= guest.sequence /\ s.takenAt <= guest.takenAt
  /\ \A c \in Cycle :
       /\ call[c].step \in BeforeGuest => guest.takenAt < call[c].at
       /\ call[c].step = "publish" =>
            /\ guest = [sequence |-> call[c].sequence, takenAt |-> call[c].at]
            /\ \A s \in published : s.sequence < guest.sequence /\ s.takenAt < guest.takenAt

\* The outcome that a cycle passes on is the latest.
DeliversLatest ==
  \A c \in Cycle : call[c].step = "deliver" => call[c].outcome = Len(outcomes)

AloneInv ==
  /\ TypeInv
  /\ Times
  /\ SetsFollowed /\ ScoresRecorded
  /\ HistoryHomogeneous /\ ArcHistoryHomogeneous
  /\ PreviousIsLatest /\ OutcomesChained /\ Reported
  /\ Statuses /\ SequenceTellsNewer
  /\ DeliversLatest

-----------------------------------------------------------------------------
(* Types *)

LEMMA ZeroTime == 0 \in Time
BY CycleAssumption DEF Time

LEMMA IdleCallType == IdleCall \in Call /\ IdleCall.step = "idle"
BY ZeroTime DEF IdleCall, Call, NoScores, Unobserved, NoChange, Never, Scores, SensorSet, Report

LEMMA TrackType ==
  ASSUME NEW recorded \in [Anchor -> SensorSet], NEW scores \in Scores, NEW t \in Time
  PROVE  TrackSensorSets(recorded, scores, t) \in [Anchor -> SensorSet]
<1>1. ASSUME NEW a \in Anchor
      PROVE  [sensors |-> scores[a],
              changedAt |-> IF recorded[a].sensors = Null THEN Never ELSE t] \in SensorSet
  BY ZeroTime DEF SensorSet, Scores, Never
<1> QED
  BY <1>1 DEF TrackSensorSets

LEMMA ChangesType ==
  ASSUME NEW k \in Call, NEW after
  PROVE  SensorSetsChangedAfter(k, after) \in [Anchor -> Time]
BY ZeroTime DEF SensorSetsChangedAfter, Call, SensorSet, Never

LEMMA EventsType ==
  ASSUME NEW changes \in [Anchor -> Time], NEW graph \in SUBSET Anchor
  PROVE  FlowEvents(changes, graph) \in Report
BY DEF FlowEvents, Report

LEMMA TrimmedType ==
  ASSUME NEW history \in SUBSET Snapshot, NEW tracked
  PROVE  HistorySinceSensorSetChanges(history, tracked) \in SUBSET Snapshot
<1>1. ASSUME NEW s \in history
      PROVE  [s EXCEPT !.scores = [a \in Anchor |->
                IF Predates(s.at, tracked[a]) THEN Null ELSE s.scores[a]]] \in Snapshot
  BY DEF Snapshot, Scores
<1> QED
  BY <1>1 DEF HistorySinceSensorSetChanges

LEMMA WaitingType ==
  ASSUME NEW k \in Call, NEW pending \in SUBSET Procedure
  PROVE  /\ Waiting(k, pending) \in Call
         /\ Waiting(k, pending).step \in {"idle", "deliver"}
         /\ Waiting(k, pending).step = "deliver" =>
              /\ Waiting(k, pending).at = k.at
              /\ Waiting(k, pending).outcome = k.outcome
              /\ Waiting(k, pending).pending = pending
BY IdleCallType DEF Waiting, Call

\* What a step of cycle c changes in the calls.
LEMMA Continued ==
  ASSUME TypeOK, NEW c \in Cycle, NEW next \in Call, Continue(c, next)
  PROVE  /\ call' \in [Cycle -> Call]
         /\ call'[c] = next
         /\ \A d \in Cycle : d # c => call'[d] = call[d]
         /\ seen' = seen
BY DEF TypeOK, Continue

LEMMA OutcomesGrow ==
  ASSUME TypeOK, NEW o \in Outcome, outcomes' = Append(outcomes, o)
  PROVE  /\ outcomes' \in Seq(Outcome)
         /\ Len(outcomes) \in Nat
         /\ DOMAIN outcomes = 1..Len(outcomes)
         /\ Len(outcomes') = Len(outcomes) + 1
         /\ DOMAIN outcomes' = 1..(Len(outcomes) + 1)
         /\ outcomes'[Len(outcomes) + 1] = o
         /\ \A i \in DOMAIN outcomes : outcomes'[i] = outcomes[i]
         /\ DOMAIN outcomes \subseteq DOMAIN outcomes'
<1>1. outcomes \in Seq(Outcome) /\ Len(outcomes) \in Nat
  BY DEF TypeOK
<1>2. /\ outcomes' \in Seq(Outcome)
      /\ DOMAIN outcomes = 1..Len(outcomes)
      /\ Len(outcomes') = Len(outcomes) + 1
      /\ DOMAIN outcomes' = 1..(Len(outcomes) + 1)
      /\ outcomes'[Len(outcomes) + 1] = o
      /\ \A i \in DOMAIN outcomes : outcomes'[i] = outcomes[i]
  BY <1>1
<1>3. DOMAIN outcomes \subseteq DOMAIN outcomes'
  BY <1>1, <1>2
<1> QED
  BY <1>1, <1>2, <1>3

-----------------------------------------------------------------------------
(* Windows and sequences *)

LEMMA UnsavedFinite ==
  ASSUME TypeOK, Windows
  PROVE  IsFiniteSet(Unsaved) /\ Cardinality(Unsaved) \in Nat
<1>1. Unsaved \subseteq 1..(now - 1)
  BY DEF Windows, Unsaved, BeforeGuest, BeforeSnapshot
<1>2. now \in Int
  BY CycleAssumption DEF TypeOK
<1>3. IsFiniteSet(1..(now - 1))
  BY <1>2, FS_Interval
<1> QED
  BY <1>1, <1>3, FS_Subset, FS_CardinalityType

\* There is a sequence left for every window that still waits for one.
LEMMA SequenceLeft ==
  ASSUME TypeOK, Windows, Sequences, NEW c \in Cycle, call[c].step = "save_guest"
  PROVE  /\ NextSequence \in Stamp
         /\ call[c].at \in Stamp
         /\ NextSequence + Cardinality(Unsaved \ {call[c].at}) <= now - 1
<1>1. call[c].at \in Unsaved
  BY DEF Unsaved, BeforeGuest
<1>2. /\ IsFiniteSet(Unsaved) /\ Cardinality(Unsaved) \in Nat
      /\ Cardinality(Unsaved \ {call[c].at}) = Cardinality(Unsaved) - 1
  BY <1>1, UnsavedFinite, FS_RemoveElement
<1>3. Cardinality(Unsaved \ {call[c].at}) \in Nat
  BY <1>2, FS_RemoveElement, FS_CardinalityType
<1>4. /\ now \in 1..(MaxTime + 1) /\ MaxTime \in Nat /\ guest.sequence \in 0..MaxTime
      /\ call[c].at \in 1..(now - 1)
  BY CycleAssumption DEF TypeOK, Windows, Time
<1> QED
  BY <1>2, <1>3, <1>4 DEF Sequences, NextSequence, Stamp

-----------------------------------------------------------------------------
(* Every step keeps the types *)

\* A step that changes only what cycle c is doing.
LEMMA CallTypes ==
  ASSUME TypeOK, NEW c \in Cycle, NEW next \in Call, Continue(c, next),
         UNCHANGED <<database, published, operation, now>>
  PROVE  TypeOK'
BY Continued DEF TypeOK, database, operation

LEMMA ComposeTypes ==
  ASSUME TypeOK, NEW c \in Cycle, NEW scores \in Scores, Compose(c, scores)
  PROVE  /\ TypeOK'
         /\ call'[c].step = "list_sets" /\ call'[c].at = now
<1> DEFINE n == [IdleCall EXCEPT !.step = "list_sets", !.at = now, !.scores = scores]
<1>1. now \in Time /\ now' \in 1..(MaxTime + 1)
  BY CycleAssumption DEF TypeOK, Compose, Time
<1>2. n \in Call /\ n.step = "list_sets" /\ n.at = now
  BY <1>1, IdleCallType DEF Call
<1> QED
  BY <1>1, <1>2, Continued DEF Compose, TypeOK, database, operation

LEMMA SaveSensorSetsTypes ==
  ASSUME TypeOK, NEW c \in Cycle, SaveSensorSets(c)
  PROVE  /\ TypeOK'
         /\ call'[c].step = "list_history" /\ call'[c].at = call[c].at
<1> DEFINE k == call[c]
           n == [k EXCEPT !.step = "list_history"]
<1>1. k \in Call
  BY DEF TypeOK
<1>2. n \in Call /\ k.tracked \in [Anchor -> SensorSet] /\ n.step = "list_history" /\ n.at = k.at
  BY <1>1 DEF Call
<1>3. sets' \in [Anchor -> SensorSet]
  BY <1>2 DEF TypeOK, SaveSensorSets
<1> QED
  BY <1>2, <1>3, Continued DEF SaveSensorSets, TypeOK, operation

LEMMA SaveSnapshotTypes ==
  ASSUME TypeOK, Windows, NEW c \in Cycle, SaveSnapshot(c)
  PROVE  /\ TypeOK'
         /\ call'[c].step = "save_guest" /\ call'[c].at = call[c].at
<1> DEFINE k == call[c]
           n == [k EXCEPT !.step = "save_guest"]
           s == [at |-> k.at, scores |-> k.scores]
<1>1. k \in Call /\ k.step = "save_snapshot"
  BY DEF TypeOK, SaveSnapshot
<1>2. n \in Call /\ n.step = "save_guest" /\ n.at = k.at
  BY <1>1 DEF Call
<1>3. s \in Snapshot
  <2>1. k.at \in Time /\ k.at \in 1..(now - 1) /\ k.scores \in Scores
    BY <1>1 DEF Call, Windows
  <2>2. k.at \in Stamp
    BY <2>1, CycleAssumption DEF Time, Stamp
  <2> QED
    BY <2>1, <2>2 DEF Snapshot
<1>4. /\ snapshots' \in Seq(Snapshot) /\ Len(snapshots') = Len(snapshots) + 1
      /\ Len(snapshots) \in Nat
  BY <1>3 DEF TypeOK, SaveSnapshot
<1>5. seen' \in 0..Len(snapshots')
  BY <1>4 DEF TypeOK, SaveSnapshot, Continue
<1> QED
  BY <1>2, <1>4, <1>5, Continued DEF SaveSnapshot, TypeOK, operation

LEMMA SaveGuestStatusTypes ==
  ASSUME TypeOK, Windows, Sequences, NEW c \in Cycle, SaveGuestStatus(c)
  PROVE  /\ TypeOK'
         /\ call'[c].step = "publish" /\ call'[c].at = call[c].at
         /\ call'[c].sequence = NextSequence /\ NextSequence # 0
<1> DEFINE k == call[c]
<1>1. k \in Call /\ NextSequence \in Stamp /\ k.at \in Stamp
  BY SequenceLeft DEF TypeOK, SaveGuestStatus
<1>2. NextSequence \in Time /\ k.at \in Time /\ NextSequence # 0
  BY <1>1, CycleAssumption DEF Stamp, Time
<1>3. /\ Saved(k) \in Call /\ Saved(k).sequence = NextSequence
      /\ Saved(k).step = "publish" /\ Saved(k).at = k.at
  BY <1>1, <1>2 DEF Saved, Call
<1> QED
  BY <1>2, <1>3, Continued DEF SaveGuestStatus, TypeOK, operation

LEMMA PublishTypes ==
  ASSUME TypeOK, Windows, Sequences, NEW c \in Cycle, Publish(c)
  PROVE  /\ TypeOK'
         /\ call'[c].step = "find_previous" /\ call'[c].at = call[c].at
<1> DEFINE k == call[c]
           n == [k EXCEPT !.step = "find_previous"]
<1>1. k \in Call /\ k.step = "publish"
  BY DEF TypeOK, Publish
<1>2. n \in Call /\ k.sequence \in Time /\ k.at \in Time /\ n.step = "find_previous" /\ n.at = k.at
  BY <1>1 DEF Call
<1>3. k.sequence # 0 /\ k.at # 0
  BY <1>1 DEF Windows, Sequences
<1>4. [sequence |-> k.sequence, takenAt |-> k.at] \in GuestStatus
  BY <1>2, <1>3, CycleAssumption DEF GuestStatus, Stamp, Time
<1>5. published' \subseteq GuestStatus
  BY <1>4 DEF Publish, TypeOK
<1> QED
  BY <1>2, <1>5, Continued DEF Publish, TypeOK, database, operation

OutcomeOf(k) == [at |-> k.at, previous |-> k.previous, reported |-> k.reported]

LEMMA SaveOutcomeTypes ==
  ASSUME TypeOK, Windows, NEW c \in Cycle, NEW content \in Contents, SaveOutcome(c, content)
  PROVE  /\ TypeOK'
         /\ OutcomeOf(call[c]) \in Outcome
         /\ outcomes' = Append(outcomes, OutcomeOf(call[c]))
         /\ call'[c].step \in {"idle", "deliver"}
         /\ call'[c].step = "deliver" =>
              call'[c].outcome = Len(outcomes) + 1 /\ call'[c].at = call[c].at
<1> DEFINE k == call[c]
           n == [k EXCEPT !.outcome = Len(outcomes) + 1]
<1>1. k \in Call /\ k.step = "optimize" /\ Len(outcomes) \in Nat
  BY DEF TypeOK, SaveOutcome
<1>2. n \in Call /\ n.outcome = Len(outcomes) + 1 /\ n.at = k.at
  BY <1>1 DEF Call
<1>3. OutcomeOf(k) \in Outcome
  <2>1. k.at \in Time /\ k.at \in 1..(now - 1)
    BY <1>1 DEF Call, Windows
  <2>2. k.at \in Stamp
    BY <2>1, CycleAssumption DEF Time, Stamp
  <2>3. k.previous \in Nat /\ k.reported \in Report
    BY <1>1 DEF Call
  <2> QED
    BY <2>2, <2>3 DEF Outcome, OutcomeOf
<1>4. outcomes' = Append(outcomes, OutcomeOf(k)) /\ Continue(c, Waiting(n, content))
  BY DEF SaveOutcome, OutcomeOf
<1>5. Waiting(n, content) \in Call /\ content \in SUBSET Procedure
  BY <1>2, WaitingType DEF Contents
<1>6. TypeOK'
  <2>1. /\ outcomes' \in Seq(Outcome) /\ DOMAIN outcomes \subseteq DOMAIN outcomes'
        /\ Len(outcomes) + 1 \in DOMAIN outcomes'
    BY <1>1, <1>3, <1>4, OutcomesGrow
  <2>2. /\ underway' \in [Procedure -> SUBSET DOMAIN outcomes']
        /\ delivered' \in [Procedure -> SUBSET DOMAIN outcomes']
    BY <2>1 DEF SaveOutcome, TypeOK
  <2> QED
    BY <1>4, <1>5, <2>1, <2>2, Continued DEF SaveOutcome, TypeOK
<1>7. call'[c] = Waiting(n, content)
  BY <1>4, <1>5, Continued
<1>8. /\ Waiting(n, content).step \in {"idle", "deliver"}
      /\ Waiting(n, content).step = "deliver" =>
           Waiting(n, content).outcome = n.outcome /\ Waiting(n, content).at = n.at
  BY <1>2, <1>5, WaitingType
<1> QED
  BY <1>2, <1>3, <1>4, <1>6, <1>7, <1>8

LEMMA DeliverTypes ==
  ASSUME TypeOK, NEW c \in Cycle, NEW p \in Procedure, Deliver(c, p)
  PROVE  /\ TypeOK'
         /\ call'[c].step \in {"idle", "deliver"}
         /\ call'[c].step = "deliver" =>
              /\ call'[c].outcome = call[c].outcome
              /\ call'[c].at = call[c].at
              /\ call'[c].pending = call[c].pending \ {p}
<1> DEFINE k == call[c]
<1>1. k \in Call /\ k.step = "deliver"
  BY DEF TypeOK, Deliver, GivenUp
<1>2. k.pending \ {p} \in SUBSET Procedure
  BY <1>1 DEF Call
<1>3. Continue(c, Waiting(k, k.pending \ {p}))
  BY DEF Deliver, GivenUp, Returned
<1>4. Waiting(k, k.pending \ {p}) \in Call
  BY <1>1, <1>2, WaitingType
<1>5. call'[c] = Waiting(k, k.pending \ {p})
  BY <1>3, <1>4, Continued
<1>6. underway' \in [Procedure -> SUBSET DOMAIN outcomes]
  BY DEF TypeOK, Deliver, GivenUp
<1>7. TypeOK'
  BY <1>3, <1>4, <1>6, Continued DEF Deliver, TypeOK, database
<1> QED
  BY <1>1, <1>2, <1>5, <1>7, WaitingType

\* What the steps that only read do to the call of cycle c.
LEMMA ReadTypes ==
  ASSUME TypeOK, NEW c \in Cycle
  PROVE  /\ ListSensorSets(c) => TypeOK' /\ call'[c].step = "save_sets"
         /\ ListHistory(c) => TypeOK' /\ call'[c].step = "summarize"
         /\ SummarizeArcHistory(c) => TypeOK' /\ call'[c].step = "save_snapshot"
         /\ FindPrevious(c) => TypeOK' /\ call'[c].step = "optimize"
         /\ ListSensorSets(c) \/ ListHistory(c) \/ SummarizeArcHistory(c) \/ FindPrevious(c)
              => call'[c].at = call[c].at
<1> DEFINE k == call[c]
<1>1. k \in Call /\ sets \in [Anchor -> SensorSet]
  BY DEF TypeOK
<1>2. ASSUME ListSensorSets(c)
      PROVE  TypeOK' /\ call'[c].step = "save_sets" /\ call'[c].at = k.at
  <2> DEFINE n == [k EXCEPT !.step = "save_sets",
                            !.tracked = TrackSensorSets(sets, k.scores, k.at),
                            !.updated = {a \in Anchor : HasNewSensors(sets, k.scores, a)}]
  <2>1. TrackSensorSets(sets, k.scores, k.at) \in [Anchor -> SensorSet]
    BY <1>1, TrackType DEF Call
  <2>2. n \in Call
    BY <1>1, <2>1 DEF Call
  <2>3. n.step = "save_sets" /\ n.at = k.at
    BY <1>1 DEF Call
  <2> QED
    BY <1>2, <2>2, <2>3, CallTypes, Continued DEF ListSensorSets
<1>3. ASSUME ListHistory(c)
      PROVE  TypeOK' /\ call'[c].step = "summarize" /\ call'[c].at = k.at
  <2> DEFINE history == HistorySinceSensorSetChanges(
                          SnapshotsEndingAfter(k.at - HistoryWindow), k.tracked)
             n == [k EXCEPT !.step = "summarize", !.history = history]
  <2>1. SnapshotsEndingAfter(k.at - HistoryWindow) \in SUBSET Snapshot
    BY DEF SnapshotsEndingAfter, TypeOK
  <2>2. history \in SUBSET Snapshot
    BY <2>1, TrimmedType
  <2>3. n \in Call
    BY <1>1, <2>2 DEF Call
  <2>4. n.step = "summarize" /\ n.at = k.at
    BY <1>1 DEF Call
  <2> QED
    BY <1>3, <2>3, <2>4, CallTypes, Continued DEF ListHistory
<1>4. ASSUME SummarizeArcHistory(c)
      PROVE  TypeOK' /\ call'[c].step = "save_snapshot" /\ call'[c].at = k.at
  <2> DEFINE n == [k EXCEPT !.step = "save_snapshot",
                            !.arcs = [a \in Anchor |-> SensorsSummarized(a)]]
  <2>1. ASSUME NEW a \in Anchor PROVE SensorsSummarized(a) \in SUBSET Sensors
    <3>1. ASSUME NEW i \in DOMAIN snapshots, snapshots[i].scores[a] # Null
          PROVE  snapshots[i].scores[a] \in Sensors
      <4>1. snapshots[i] \in Snapshot
        BY DEF TypeOK
      <4> QED
        BY <3>1, <4>1 DEF Snapshot, Scores
    <3> QED
      BY <3>1 DEF SensorsSummarized
  <2>2. n \in Call
    BY <1>1, <2>1 DEF Call
  <2>3. n.step = "save_snapshot" /\ n.at = k.at
    BY <1>1 DEF Call
  <2> QED
    BY <1>4, <2>2, <2>3, CallTypes, Continued DEF SummarizeArcHistory
<1>5. ASSUME FindPrevious(c)
      PROVE  TypeOK' /\ call'[c].step = "optimize" /\ call'[c].at = k.at
  <2> DEFINE cycle == IF LatestOutcome = 0 THEN Never ELSE outcomes[LatestOutcome].at
             changes == SensorSetsChangedAfter(k, cycle)
             n(graph) == [k EXCEPT !.step = "optimize", !.previous = LatestOutcome,
                                   !.reported = FlowEvents(changes, graph)]
  <2>1. LatestOutcome \in Nat
    BY DEF LatestOutcome, TypeOK
  <2>2. PICK graph \in SUBSET Anchor : Continue(c, n(graph))
    BY <1>5 DEF FindPrevious
  <2>3. changes \in [Anchor -> Time]
    BY <1>1, ChangesType
  <2>4. FlowEvents(changes, graph) \in Report
    BY <2>3, EventsType
  <2>5. n(graph) \in Call
    BY <1>1, <2>1, <2>4 DEF Call
  <2>6. n(graph).step = "optimize" /\ n(graph).at = k.at
    BY <1>1 DEF Call
  <2>7. UNCHANGED <<database, published, operation, now>>
    BY <1>5 DEF FindPrevious
  <2> QED
    BY <2>2, <2>5, <2>6, <2>7, CallTypes, Continued
<1> QED
  BY <1>2, <1>3, <1>4, <1>5

\* What every step of cycle c keeps of the others, and of its own window.
LEMMA RunTypes ==
  ASSUME TypeInv, NEW c \in Cycle, Run(c)
  PROVE  /\ TypeOK'
         /\ \A d \in Cycle : d # c => call'[d] = call[d]
         /\ \/ /\ call'[c].step = "list_sets" /\ call'[c].at = now /\ now' = now + 1
            \/ /\ call'[c].step # "idle" => call'[c].at = call[c].at
               /\ call[c].step # "idle" /\ now' = now
<1>1. TypeOK /\ Windows /\ Sequences /\ Deliveries
  BY DEF TypeInv
<1>2. \A d \in Cycle : d # c => call'[d] = call[d]
  BY <1>1 DEF Run, Compose, ListSensorSets, SaveSensorSets, ListHistory, SummarizeArcHistory,
              SaveSnapshot, SaveGuestStatus, Publish, FindPrevious, SaveOutcome, Deliver,
              GivenUp, Returned, Fail, Continue, TypeOK
<1>3. ASSUME Fail(c)
      PROVE  TypeOK' /\ call'[c].step = "idle"
  BY <1>1, <1>3, IdleCallType, CallTypes, Continued DEF Fail
<1>4. ASSUME NEW scores \in Scores, Compose(c, scores)
      PROVE  /\ TypeOK' /\ call'[c].step = "list_sets" /\ call'[c].at = now
             /\ now' = now + 1
  BY <1>1, <1>4, ComposeTypes DEF Compose
<1>5. ASSUME \/ ListSensorSets(c) \/ ListHistory(c) \/ SummarizeArcHistory(c)
             \/ FindPrevious(c)
      PROVE  /\ TypeOK' /\ call'[c].at = call[c].at
             /\ call[c].step # "idle" /\ now' = now
  BY <1>1, <1>5, ReadTypes DEF ListSensorSets, ListHistory, SummarizeArcHistory, FindPrevious
<1>6. ASSUME \/ SaveSensorSets(c) \/ SaveSnapshot(c) \/ SaveGuestStatus(c) \/ Publish(c)
      PROVE  /\ TypeOK' /\ call'[c].at = call[c].at
             /\ call[c].step # "idle" /\ now' = now
  BY <1>1, <1>6, SaveSensorSetsTypes, SaveSnapshotTypes, SaveGuestStatusTypes, PublishTypes
     DEF SaveSensorSets, SaveSnapshot, SaveGuestStatus, Publish
<1>7. ASSUME NEW content \in Contents, SaveOutcome(c, content)
      PROVE  /\ TypeOK'
             /\ call'[c].step # "idle" => call'[c].at = call[c].at
             /\ call[c].step # "idle" /\ now' = now
  BY <1>1, <1>7, SaveOutcomeTypes DEF SaveOutcome
<1>8. ASSUME NEW p \in Procedure, Deliver(c, p)
      PROVE  /\ TypeOK'
             /\ call'[c].step # "idle" => call'[c].at = call[c].at
             /\ call[c].step # "idle" /\ now' = now
  BY <1>1, <1>8, DeliverTypes DEF Deliver, GivenUp
<1>9. Fail(c) => now' = now /\ call[c].step # "idle"
  BY DEF Fail
<1> QED
  BY <1>2, <1>3, <1>4, <1>5, <1>6, <1>7, <1>8, <1>9 DEF Run

LEMMA WindowsKept ==
  ASSUME TypeInv, NEW c \in Cycle, Run(c)
  PROVE  Windows'
<1>1. now \in Int /\ now >= 1
  BY CycleAssumption DEF TypeInv, TypeOK
<1>2. \A d \in Cycle : d # c => call'[d] = call[d]
  BY RunTypes
<1>3. CASE call'[c].step = "list_sets" /\ call'[c].at = now /\ now' = now + 1
  BY <1>1, <1>2, <1>3 DEF TypeInv, Windows
<1>4. CASE /\ call'[c].step # "idle" => call'[c].at = call[c].at
           /\ call[c].step # "idle" /\ now' = now
  BY <1>2, <1>4 DEF TypeInv, Windows
<1> QED
  BY <1>3, <1>4, RunTypes

\* A step that saves no guest status and begins no window.
LEMMA SequencesQuiet ==
  ASSUME TypeInv, NEW c \in Cycle,
         UNCHANGED <<guest, now>>, \A d \in Cycle : d # c => call'[d] = call[d],
         call'[c].step \in BeforeGuest =>
           call[c].step \in BeforeGuest /\ call'[c].at = call[c].at,
         call'[c].step # "publish"
  PROVE  Sequences'
<1>1. IsFiniteSet(Unsaved) /\ Cardinality(Unsaved) \in Nat
  BY UnsavedFinite DEF TypeInv
<1>2. Unsaved' \subseteq Unsaved
  BY DEF Unsaved
<1>3. Cardinality(Unsaved') \in Nat /\ Cardinality(Unsaved') <= Cardinality(Unsaved)
  BY <1>1, <1>2, FS_Subset, FS_CardinalityType
<1>4. now \in Int /\ guest.sequence \in Int
  BY CycleAssumption DEF TypeInv, TypeOK, Time
<1> QED
  BY <1>1, <1>3, <1>4 DEF TypeInv, Sequences

LEMMA SequencesKept ==
  ASSUME TypeInv, NEW c \in Cycle, Run(c)
  PROVE  Sequences'
<1>1. TypeOK /\ Windows /\ Sequences /\ Deliveries
  BY DEF TypeInv
<1>2. now \in Int /\ guest.sequence \in Int
  BY <1>1, CycleAssumption DEF TypeOK, Time
<1>3. IsFiniteSet(Unsaved) /\ Cardinality(Unsaved) \in Nat
  BY <1>1, UnsavedFinite
<1>4. \A d \in Cycle : d # c => call'[d] = call[d]
  BY RunTypes
<1>5. ASSUME NEW scores \in Scores, Compose(c, scores) PROVE Sequences'
  <2>1. call'[c].step = "list_sets" /\ call'[c].at = now /\ now' = now + 1 /\ guest' = guest
    BY <1>1, <1>5, ComposeTypes DEF Compose, database
  <2>2. Unsaved' \subseteq Unsaved \cup {now}
    BY <1>4, <2>1 DEF Unsaved
  <2>3. /\ IsFiniteSet(Unsaved \cup {now})
        /\ Cardinality(Unsaved \cup {now}) <= Cardinality(Unsaved) + 1
    <3>1. /\ IsFiniteSet(Unsaved \cup {now})
          /\ Cardinality(Unsaved \cup {now}) =
               IF now \in Unsaved THEN Cardinality(Unsaved) ELSE Cardinality(Unsaved) + 1
      BY <1>3, FS_AddElement
    <3> QED
      BY <1>3, <3>1
  <2>4. /\ Cardinality(Unsaved') \in Nat /\ Cardinality(Unsaved \cup {now}) \in Nat
        /\ Cardinality(Unsaved') <= Cardinality(Unsaved \cup {now})
    BY <2>2, <2>3, FS_Subset, FS_CardinalityType
  <2> QED
    BY <1>1, <1>2, <1>3, <1>4, <2>1, <2>3, <2>4 DEF Sequences
<1>6. ASSUME SaveGuestStatus(c) PROVE Sequences'
  <2>1. /\ call[c].step = "save_guest" /\ call'[c].step = "publish"
        /\ call'[c].sequence # 0
        /\ guest'.sequence = NextSequence /\ now' = now
    BY <1>1, <1>6, SaveGuestStatusTypes DEF SaveGuestStatus
  <2>2. Unsaved' \subseteq Unsaved \ {call[c].at}
    <3>1. \A d \in Cycle : d # c /\ call[d].step \in BeforeGuest => call[d].at # call[c].at
      BY <1>1, <2>1 DEF Windows, BeforeGuest, BeforeSnapshot
    <3>2. call'[c].step \notin BeforeGuest
      BY <2>1 DEF BeforeGuest, BeforeSnapshot
    <3> QED
      BY <1>4, <3>1, <3>2 DEF Unsaved
  <2>3. IsFiniteSet(Unsaved \ {call[c].at})
    BY <1>3, FS_RemoveElement
  <2>4. /\ Cardinality(Unsaved') \in Nat /\ Cardinality(Unsaved \ {call[c].at}) \in Nat
        /\ Cardinality(Unsaved') <= Cardinality(Unsaved \ {call[c].at})
    BY <2>2, <2>3, FS_Subset, FS_CardinalityType
  <2>5. NextSequence + Cardinality(Unsaved \ {call[c].at}) <= now - 1 /\ NextSequence \in Int
    BY <1>1, <1>2, <2>1, SequenceLeft DEF NextSequence
  <2> QED
    BY <1>1, <1>2, <1>4, <2>1, <2>4, <2>5 DEF Sequences
<1>7. ASSUME NEW content \in Contents, SaveOutcome(c, content) PROVE Sequences'
  <2>1. call'[c].step \notin BeforeGuest \cup {"publish"}
    BY <1>1, <1>7, SaveOutcomeTypes DEF BeforeGuest, BeforeSnapshot
  <2> QED
    BY <1>4, <1>7, <2>1, SequencesQuiet DEF SaveOutcome
<1>8. ASSUME NEW p \in Procedure, Deliver(c, p) PROVE Sequences'
  <2>1. call'[c].step \notin BeforeGuest \cup {"publish"}
    BY <1>1, <1>8, DeliverTypes DEF BeforeGuest, BeforeSnapshot
  <2> QED
    BY <1>4, <1>8, <2>1, SequencesQuiet DEF Deliver, GivenUp, database
<1>9. ASSUME Fail(c) PROVE Sequences'
  <2>1. call'[c].step \notin BeforeGuest \cup {"publish"}
    BY <1>1, <1>9, IdleCallType, Continued DEF Fail, BeforeGuest, BeforeSnapshot
  <2> QED
    BY <1>4, <1>9, <2>1, SequencesQuiet DEF Fail, database
<1>10. ASSUME \/ ListSensorSets(c) \/ ListHistory(c) \/ SummarizeArcHistory(c)
              \/ FindPrevious(c)
       PROVE  Sequences'
  <2>1. /\ call'[c].step \in {"save_sets", "summarize", "save_snapshot", "optimize"}
        /\ call'[c].at = call[c].at
        /\ call'[c].step = "optimize" \/ call[c].step \in BeforeGuest
    BY <1>1, <1>10, ReadTypes DEF ListSensorSets, ListHistory, SummarizeArcHistory,
                                  FindPrevious, BeforeGuest, BeforeSnapshot
  <2>2. UNCHANGED <<guest, now>>
    BY <1>10 DEF ListSensorSets, ListHistory, SummarizeArcHistory, FindPrevious, database
  <2> QED
    BY <1>4, <2>1, <2>2, SequencesQuiet DEF BeforeGuest, BeforeSnapshot
<1>11. ASSUME SaveSensorSets(c) \/ SaveSnapshot(c) \/ Publish(c)
       PROVE  Sequences'
  <2>1. /\ call'[c].step \in {"list_history", "save_guest", "find_previous"}
        /\ call'[c].at = call[c].at
        /\ call'[c].step = "find_previous" \/ call[c].step \in BeforeGuest
    BY <1>1, <1>11, SaveSensorSetsTypes, SaveSnapshotTypes, PublishTypes
       DEF SaveSensorSets, SaveSnapshot, Publish, BeforeGuest, BeforeSnapshot
  <2>2. UNCHANGED <<guest, now>>
    BY <1>11 DEF SaveSensorSets, SaveSnapshot, Publish, database
  <2> QED
    BY <1>4, <2>1, <2>2, SequencesQuiet DEF BeforeGuest, BeforeSnapshot
<1> QED
  BY <1>5, <1>6, <1>7, <1>8, <1>9, <1>10, <1>11 DEF Run

\* Only the calls of a new outcome are sent.
LEMMA SaveOutcomeDeliveries ==
  ASSUME TypeInv, NEW c \in Cycle, NEW content \in Contents, SaveOutcome(c, content)
  PROVE  Deliveries'
<1>1. /\ outcomes \in Seq(Outcome) /\ Len(outcomes) \in Nat
      /\ DOMAIN outcomes = 1..Len(outcomes)
  BY LenProperties DEF TypeInv, TypeOK
<1>2. \A p \in Procedure :
        /\ Len(outcomes) + 1 \notin delivered[p]
        /\ delivered'[p] = delivered[p]
        /\ underway'[p] \subseteq underway[p] \cup {Len(outcomes) + 1}
  BY <1>1 DEF TypeInv, TypeOK, SaveOutcome
<1> QED
  BY <1>2 DEF TypeInv, Deliveries

LEMMA DeliveriesKept ==
  ASSUME TypeInv, NEW c \in Cycle, Run(c)
  PROVE  Deliveries'
<1>1. operation' = operation \/ \E content \in Contents : SaveOutcome(c, content)
  BY DEF Run, Compose, ListSensorSets, SaveSensorSets, ListHistory, SummarizeArcHistory,
         SaveSnapshot, SaveGuestStatus, Publish, FindPrevious, Deliver, GivenUp, Fail, operation
<1>2. CASE operation' = operation
  BY <1>2 DEF TypeInv, Deliveries, operation
<1> QED
  BY <1>1, <1>2, SaveOutcomeDeliveries

LEMMA TypeInvInit ==
  ASSUME Init
  PROVE  TypeInv
<1>1. \A c \in Cycle : call[c] \in Call /\ call[c].step = "idle"
  BY IdleCallType DEF Init
<1>2. Unobserved \in [Anchor -> SensorSet]
  BY ZeroTime DEF Unobserved, SensorSet, Never
<1>3. TypeOK
  <2>1. 1 \in 1..(MaxTime + 1) /\ 0 \in 0..0
    BY CycleAssumption
  <2>2. /\ snapshots \in Seq(Snapshot) /\ outcomes \in Seq(Outcome) /\ Len(snapshots) = 0
        /\ underway \in [Procedure -> SUBSET DOMAIN outcomes]
        /\ delivered \in [Procedure -> SUBSET DOMAIN outcomes]
    BY DEF Init
  <2>3. call \in [Cycle -> Call]
    BY <1>1 DEF Init
  <2>4. guest \in [sequence: Time, takenAt: Time]
    BY ZeroTime DEF Init, Never
  <2> QED
    BY <1>2, <2>1, <2>2, <2>3, <2>4 DEF Init, TypeOK
<1>4. Windows /\ Deliveries
  BY <1>1 DEF Init, Windows, Deliveries
<1>5. Sequences
  <2>1. Unsaved = {}
    BY <1>1 DEF Unsaved, BeforeGuest, BeforeSnapshot
  <2> QED
    BY <1>1, <2>1, FS_EmptySet DEF Init, Sequences
<1> QED
  BY <1>3, <1>4, <1>5 DEF TypeInv

\* An overview, or nothing at all.
LEMMA TypeInvReads ==
  ASSUME TypeInv,
         UNCHANGED <<database, published, operation, call, now>>,
         seen' \in {seen, 0, Len(snapshots)}
  PROVE  TypeInv'
<1>1. TypeOK'
  <2>1. Len(snapshots) \in Nat /\ seen' \in 0..Len(snapshots)
    BY DEF TypeInv, TypeOK
  <2> QED
    BY <2>1 DEF TypeInv, TypeOK, database, operation
<1>2. Windows' /\ Deliveries'
  BY DEF TypeInv, Windows, Deliveries, database, operation
<1>3. Sequences'
  BY DEF TypeInv, Sequences, Unsaved, database
<1> QED
  BY <1>1, <1>2, <1>3 DEF TypeInv

LEMMA TypeInvArrive ==
  ASSUME TypeInv, NEW p \in Procedure, NEW o \in underway[p], Arrive(p, o)
  PROVE  TypeInv'
<1>1. TypeOK'
  BY DEF TypeInv, TypeOK, Arrive, database
<1>2. Windows' /\ Deliveries'
  BY DEF TypeInv, TypeOK, Windows, Deliveries, Arrive
<1>3. Sequences'
  BY DEF TypeInv, Sequences, Unsaved, Arrive, database
<1> QED
  BY <1>1, <1>2, <1>3 DEF TypeInv

LEMMA TypeInvKept ==
  ASSUME TypeInv, [Next]_vars
  PROVE  TypeInv'
<1>1. ASSUME NEW c \in Cycle, Run(c) PROVE TypeInv'
  BY <1>1, RunTypes, WindowsKept, SequencesKept, DeliveriesKept DEF TypeInv
<1>2. CASE OverviewSnapshot \/ OverviewOutcome
  BY <1>2, TypeInvReads DEF OverviewSnapshot, OverviewOutcome
<1>3. CASE UNCHANGED vars
  BY <1>3, TypeInvReads DEF vars
<1> QED
  BY <1>1, <1>2, <1>3, TypeInvArrive DEF Next

\* However many cycles run at the same time, the rows and their calls keep their
\* types; the sequence of the guest status stays within the windows that have
\* ended, one of which every status has to itself (SaveGuestStatus).
THEOREM CycleTypes == Spec => []TypeOK
<1>1. TypeInv => TypeOK
  BY DEF TypeInv
<1> QED
  BY <1>1, TypeInvInit, TypeInvKept, PTL DEF Spec

\* However many cycles run at the same time and however late a call arrives,
\* Operation gets no outcome twice by one procedure, also when a call timed out
\* after it had arrived (deliverToOperation).
THEOREM OutcomesDeliveredOnce == Spec => DeliveredOnce
<1>1. TypeInv /\ [Next]_vars =>
        [\A p \in Procedure : \A o \in underway[p] :
           Arrive(p, o) => o \notin delivered[p]]_vars
  BY DEF TypeInv, Deliveries
<1> QED
  BY <1>1, TypeInvInit, TypeInvKept, PTL DEF Spec, DeliveredOnce

-----------------------------------------------------------------------------
(* One cycle at a time: the clock *)

\* The step after each step, failures and the end of the cycle aside.
Follows ==
  {<<"idle", "list_sets">>, <<"list_sets", "save_sets">>, <<"save_sets", "list_history">>,
   <<"list_history", "summarize">>, <<"summarize", "save_snapshot">>,
   <<"save_snapshot", "save_guest">>, <<"save_guest", "publish">>,
   <<"publish", "find_previous">>, <<"find_previous", "optimize">>,
   <<"optimize", "deliver">>, <<"deliver", "deliver">>}

LEMMA StepOrder ==
  ASSUME TypeInv, NEW c \in Cycle, Run(c)
  PROVE  call'[c].step # "idle" => <<call[c].step, call'[c].step>> \in Follows
<1>1. TypeOK /\ Windows /\ Sequences /\ Deliveries
  BY DEF TypeInv
<1>2. ASSUME NEW scores \in Scores, Compose(c, scores)
      PROVE  <<call[c].step, call'[c].step>> \in Follows
  BY <1>1, <1>2, ComposeTypes DEF Compose, Follows
<1>3. ASSUME \/ ListSensorSets(c) \/ ListHistory(c) \/ SummarizeArcHistory(c)
             \/ FindPrevious(c)
      PROVE  <<call[c].step, call'[c].step>> \in Follows
  BY <1>1, <1>3, ReadTypes
     DEF ListSensorSets, ListHistory, SummarizeArcHistory, FindPrevious, Follows
<1>4. ASSUME \/ SaveSensorSets(c) \/ SaveSnapshot(c) \/ SaveGuestStatus(c) \/ Publish(c)
      PROVE  <<call[c].step, call'[c].step>> \in Follows
  BY <1>1, <1>4, SaveSensorSetsTypes, SaveSnapshotTypes, SaveGuestStatusTypes, PublishTypes
     DEF SaveSensorSets, SaveSnapshot, SaveGuestStatus, Publish, Follows
<1>5. ASSUME NEW content \in Contents, SaveOutcome(c, content), call'[c].step # "idle"
      PROVE  <<call[c].step, call'[c].step>> \in Follows
  BY <1>1, <1>5, SaveOutcomeTypes DEF SaveOutcome, Follows
<1>6. ASSUME NEW p \in Procedure, Deliver(c, p), call'[c].step # "idle"
      PROVE  <<call[c].step, call'[c].step>> \in Follows
  BY <1>1, <1>6, DeliverTypes DEF Deliver, GivenUp, Follows
<1>7. Fail(c) => call'[c].step = "idle"
  BY <1>1, IdleCallType, Continued DEF Fail
<1> QED
  BY <1>2, <1>3, <1>4, <1>5, <1>6, <1>7 DEF Run

\* Which step keeps what.
LEMMA Kept ==
  ASSUME NEW c \in Cycle, Run(c)
  PROVE  /\ sets' = sets \/ SaveSensorSets(c)
         /\ snapshots' = snapshots \/ SaveSnapshot(c)
         /\ outcomes' = outcomes \/ \E content \in Contents : SaveOutcome(c, content)
         /\ guest' = guest \/ SaveGuestStatus(c)
         /\ published' = published \/ Publish(c)
BY DEF Run, Compose, ListSensorSets, SaveSensorSets, ListHistory, SummarizeArcHistory,
       SaveSnapshot, SaveGuestStatus, Publish, FindPrevious, SaveOutcome, Deliver, Fail,
       database

LEMMA SnapshotsGrow ==
  ASSUME TypeInv, NEW c \in Cycle, SaveSnapshot(c)
  PROVE  /\ DOMAIN snapshots = 1..Len(snapshots) /\ Len(snapshots) \in Nat
         /\ DOMAIN snapshots' = 1..(Len(snapshots) + 1)
         /\ \A i \in DOMAIN snapshots : snapshots'[i] = snapshots[i]
         /\ snapshots'[Len(snapshots) + 1].at = call[c].at
         /\ snapshots'[Len(snapshots) + 1].scores = call[c].scores
<1> DEFINE s == [at |-> call[c].at, scores |-> call[c].scores]
<1>1. snapshots \in Seq(Snapshot) /\ call[c] \in Call /\ call[c].step = "save_snapshot"
  BY DEF TypeInv, TypeOK, SaveSnapshot
<1>2. call[c].at \in Time /\ call[c].at \in 1..(now - 1) /\ call[c].scores \in Scores
  BY <1>1 DEF Call, TypeInv, Windows
<1>3. s \in Snapshot
  BY <1>2, CycleAssumption DEF Snapshot, Stamp, Time
<1>4. snapshots' = Append(snapshots, s)
  BY DEF SaveSnapshot
<1>5. /\ DOMAIN snapshots = 1..Len(snapshots) /\ Len(snapshots) \in Nat
      /\ snapshots' \in Seq(Snapshot) /\ Len(snapshots') = Len(snapshots) + 1
      /\ \A i \in 1..Len(snapshots) : snapshots'[i] = snapshots[i]
      /\ snapshots'[Len(snapshots) + 1] = s
  BY <1>1, <1>3, <1>4, LenProperties, AppendProperties
<1>6. DOMAIN snapshots' = 1..(Len(snapshots) + 1)
  BY <1>5, LenProperties
<1>7. s.at = call[c].at /\ s.scores = call[c].scores
  OBVIOUS
<1> QED
  BY <1>5, <1>6, <1>7

LEMMA RowTypes ==
  ASSUME TypeOK
  PROVE  /\ \A i \in DOMAIN snapshots : /\ snapshots[i] \in Snapshot
                                        /\ snapshots[i].at \in Int
         /\ \A i \in DOMAIN outcomes : outcomes[i] \in Outcome /\ outcomes[i].at \in Int
<1>1. \A i \in DOMAIN snapshots : snapshots[i] \in Snapshot
  BY ElementOfSeq, LenProperties DEF TypeOK
<1>2. \A i \in DOMAIN outcomes : outcomes[i] \in Outcome
  BY ElementOfSeq, LenProperties DEF TypeOK
<1>3. \A t \in Stamp : t \in Int
  BY CycleAssumption DEF Stamp
<1> QED
  BY <1>1, <1>2, <1>3 DEF Snapshot, Outcome

LEMMA TimesKept ==
  ASSUME Alone, TypeInv, Times, NEW c \in Cycle, Run(c)
  PROVE  Times'
<1>1. \A d \in Cycle : d = c
  BY DEF Alone
<1>2. now \in Int /\ now >= 1
  BY CycleAssumption DEF TypeInv, TypeOK
<1>3. \/ /\ call'[c].step = "list_sets" /\ call'[c].at = now /\ now' = now + 1
      \/ /\ call'[c].step # "idle" => call'[c].at = call[c].at
         /\ call[c].step # "idle" /\ now' = now
  BY RunTypes
<1>4. call'[c].step # "idle" => call'[c].at = now' - 1
  BY <1>2, <1>3 DEF Times
<1>5. /\ call'[c].step \in BeforeSnapshot =>
           call[c].step \in BeforeSnapshot \/ call'[c].step = "list_sets"
      /\ call'[c].step \in BeforeOutcome =>
           call[c].step \in BeforeOutcome \/ call'[c].step = "list_sets"
  BY StepOrder DEF Follows, BeforeSnapshot, BeforeOutcome, BeforeGuest
<1>6. call'[c].step = "list_sets" => call[c].step = "idle"
  BY StepOrder DEF Follows
<1>7. /\ \A i \in DOMAIN snapshots : snapshots[i].at \in Int
      /\ \A i \in DOMAIN outcomes : outcomes[i].at \in Int
  BY RowTypes DEF TypeInv
<1>8. ASSUME NEW i \in DOMAIN snapshots'
      PROVE  /\ snapshots'[i].at < now'
             /\ call'[c].step \in BeforeSnapshot => snapshots'[i].at < call'[c].at
  <2>1. CASE snapshots' = snapshots
    BY <1>2, <1>3, <1>5, <1>6, <1>7, <1>8, <2>1 DEF Times, BeforeSnapshot
  <2>2. CASE SaveSnapshot(c)
    <3>1. call'[c].step = "save_guest" /\ call[c].at = now - 1 /\ now' = now
      BY <2>2, SaveSnapshotTypes DEF TypeInv, SaveSnapshot, Times
    <3>2. /\ DOMAIN snapshots = 1..Len(snapshots) /\ Len(snapshots) \in Nat
          /\ DOMAIN snapshots' = 1..(Len(snapshots) + 1)
          /\ \A j \in DOMAIN snapshots : snapshots'[j] = snapshots[j]
          /\ snapshots'[Len(snapshots) + 1].at = call[c].at
      BY <2>2, SnapshotsGrow
    <3>3. \/ i \in DOMAIN snapshots /\ snapshots'[i] = snapshots[i]
          \/ snapshots'[i].at = call[c].at
      BY <1>8, <3>2
    <3> QED
      BY <1>2, <3>1, <3>3 DEF Times, BeforeSnapshot
  <2> QED
    BY <2>1, <2>2, Kept
<1>9. /\ \A i \in DOMAIN outcomes' :
           /\ outcomes'[i].at < now'
           /\ call'[c].step \in BeforeOutcome => outcomes'[i].at < call'[c].at
      /\ \A i, j \in DOMAIN outcomes' : i < j => outcomes'[i].at < outcomes'[j].at
  <2>1. CASE outcomes' = outcomes
    BY <1>2, <1>3, <1>5, <1>6, <1>7, <2>1 DEF Times, BeforeOutcome, BeforeGuest, BeforeSnapshot
  <2>2. CASE \E content \in Contents : SaveOutcome(c, content)
    <3>1. /\ call[c].step = "optimize" /\ call[c].at = now - 1 /\ now' = now
          /\ call'[c].step \notin BeforeOutcome
          /\ OutcomeOf(call[c]) \in Outcome
          /\ outcomes' = Append(outcomes, OutcomeOf(call[c]))
      BY <2>2, SaveOutcomeTypes
         DEF TypeInv, SaveOutcome, Times, BeforeOutcome, BeforeGuest, BeforeSnapshot
    <3>2. /\ DOMAIN outcomes = 1..Len(outcomes) /\ Len(outcomes) \in Nat
          /\ DOMAIN outcomes' = 1..(Len(outcomes) + 1)
          /\ outcomes'[Len(outcomes) + 1].at = call[c].at
          /\ \A i \in DOMAIN outcomes : outcomes'[i] = outcomes[i]
      BY <3>1, OutcomesGrow DEF TypeInv, OutcomeOf
    <3>3. \A i \in DOMAIN outcomes : outcomes[i].at < call[c].at
      BY <3>1 DEF Times, BeforeOutcome
    <3> QED
      BY <1>2, <1>7, <3>1, <3>2, <3>3 DEF Times
  <2> QED
    BY <2>1, <2>2, Kept
<1> QED
  BY <1>1, <1>4, <1>8, <1>9 DEF Times

-----------------------------------------------------------------------------
(* One cycle at a time: sensors *)

LEMMA CallOf ==
  ASSUME TypeOK, NEW c \in Cycle, NEW next, Continue(c, next)
  PROVE  call'[c] = next
BY DEF TypeOK, Continue

\* What a cycle goes by is set at two steps only, and dropped when it ends.
LEMMA SensorFields ==
  ASSUME TypeInv, NEW c \in Cycle, Run(c), call'[c].step # "idle", call'[c].step # "deliver"
  PROVE  /\ (\E scores \in Scores : Compose(c, scores)) =>
              call'[c].history = {} /\ call'[c].arcs = [a \in Anchor |-> {}]
         /\ ListSensorSets(c) =>
              /\ call'[c].tracked = TrackSensorSets(sets, call[c].scores, call[c].at)
              /\ call'[c].updated = {a \in Anchor : HasNewSensors(sets, call[c].scores, a)}
              /\ call'[c].scores = call[c].scores
              /\ call'[c].history = call[c].history /\ call'[c].arcs = call[c].arcs
         /\ ListHistory(c) =>
              call'[c].history = HistorySinceSensorSetChanges(
                SnapshotsEndingAfter(call[c].at - HistoryWindow), call[c].tracked)
         /\ ~ListHistory(c) /\ ~(\E scores \in Scores : Compose(c, scores)) =>
              call'[c].history = call[c].history
         /\ SummarizeArcHistory(c) =>
              call'[c].arcs = [a \in Anchor |-> SensorsSummarized(a)]
         /\ ~SummarizeArcHistory(c) /\ ~(\E scores \in Scores : Compose(c, scores)) =>
              call'[c].arcs = call[c].arcs
         /\ ~ListSensorSets(c) /\ ~(\E scores \in Scores : Compose(c, scores)) =>
              call'[c].tracked = call[c].tracked /\ call'[c].scores = call[c].scores
<1> DEFINE k == call[c]
<1>1. TypeOK /\ k \in Call /\ Windows /\ Sequences /\ Deliveries
  BY DEF TypeInv, TypeOK
<1>2. ASSUME NEW scores \in Scores, Compose(c, scores)
      PROVE  call'[c].history = {} /\ call'[c].arcs = [a \in Anchor |-> {}]
  <2>1. call'[c] = [IdleCall EXCEPT !.step = "list_sets", !.at = now, !.scores = scores]
    BY <1>1, <1>2, CallOf DEF Compose
  <2> QED
    BY <2>1 DEF IdleCall
<1>3. ASSUME ListSensorSets(c)
      PROVE  /\ call'[c].tracked = TrackSensorSets(sets, k.scores, k.at)
             /\ call'[c].updated = {a \in Anchor : HasNewSensors(sets, k.scores, a)}
             /\ call'[c].scores = k.scores
             /\ call'[c].history = k.history /\ call'[c].arcs = k.arcs
  <2>1. call'[c] = [k EXCEPT
                      !.step = "save_sets",
                      !.tracked = TrackSensorSets(sets, k.scores, k.at),
                      !.updated = {a \in Anchor : HasNewSensors(sets, k.scores, a)}]
    BY <1>1, <1>3, CallOf DEF ListSensorSets
  <2> QED
    BY <1>1, <2>1 DEF Call
<1>4. ASSUME ListHistory(c)
      PROVE  /\ call'[c].history = HistorySinceSensorSetChanges(
                  SnapshotsEndingAfter(k.at - HistoryWindow), k.tracked)
             /\ call'[c].tracked = k.tracked /\ call'[c].scores = k.scores
             /\ call'[c].arcs = k.arcs
  <2>1. call'[c] = [k EXCEPT
                      !.step = "summarize",
                      !.history = HistorySinceSensorSetChanges(
                        SnapshotsEndingAfter(k.at - HistoryWindow), k.tracked)]
    BY <1>1, <1>4, CallOf DEF ListHistory
  <2> QED
    BY <1>1, <2>1 DEF Call
<1>5. ASSUME SummarizeArcHistory(c)
      PROVE  /\ call'[c].arcs = [a \in Anchor |-> SensorsSummarized(a)]
             /\ call'[c].tracked = k.tracked /\ call'[c].scores = k.scores
             /\ call'[c].history = k.history
  <2>1. call'[c] = [k EXCEPT !.step = "save_snapshot",
                             !.arcs = [a \in Anchor |-> SensorsSummarized(a)]]
    BY <1>1, <1>5, CallOf DEF SummarizeArcHistory
  <2> QED
    BY <1>1, <2>1 DEF Call
<1>6. ASSUME \/ SaveSensorSets(c) \/ SaveSnapshot(c) \/ SaveGuestStatus(c)
             \/ Publish(c) \/ FindPrevious(c)
      PROVE  /\ call'[c].tracked = k.tracked /\ call'[c].scores = k.scores
             /\ call'[c].history = k.history /\ call'[c].arcs = k.arcs
  <2>1. CASE SaveSensorSets(c)
    <3>1. call'[c] = [k EXCEPT !.step = "list_history"]
      BY <1>1, <2>1, CallOf DEF SaveSensorSets
    <3> QED
      BY <1>1, <3>1 DEF Call
  <2>2. CASE SaveSnapshot(c)
    <3>1. call'[c] = [k EXCEPT !.step = "save_guest"]
      BY <1>1, <2>2, CallOf DEF SaveSnapshot
    <3> QED
      BY <1>1, <3>1 DEF Call
  <2>3. CASE SaveGuestStatus(c)
    <3>1. call'[c] = [k EXCEPT !.step = "publish", !.sequence = NextSequence]
      BY <1>1, <2>3, CallOf DEF SaveGuestStatus, Saved
    <3> QED
      BY <1>1, <3>1 DEF Call
  <2>4. CASE Publish(c)
    <3>1. call'[c] = [k EXCEPT !.step = "find_previous"]
      BY <1>1, <2>4, CallOf DEF Publish
    <3> QED
      BY <1>1, <3>1 DEF Call
  <2>5. CASE FindPrevious(c)
    <3>1. PICK previous, reported :
            call'[c] = [k EXCEPT !.step = "optimize", !.previous = previous,
                                 !.reported = reported]
      BY <1>1, <2>5, CallOf DEF FindPrevious
    <3> QED
      BY <1>1, <3>1 DEF Call
  <2> QED
    BY <1>6, <2>1, <2>2, <2>3, <2>4, <2>5
<1>7. ~(\E content \in Contents : SaveOutcome(c, content))
  BY <1>1, SaveOutcomeTypes
<1>8. ~(\E p \in Procedure : Deliver(c, p))
  BY <1>1, DeliverTypes
<1>9. ~Fail(c)
  BY <1>1, IdleCallType, Continued DEF Fail
<1>10. /\ ListSensorSets(c) => k.step = "list_sets"
       /\ ListHistory(c) => k.step = "list_history"
       /\ SummarizeArcHistory(c) => k.step = "summarize"
       /\ (\E scores \in Scores : Compose(c, scores)) => k.step = "idle"
  BY DEF ListSensorSets, ListHistory, SummarizeArcHistory, Compose
<1> QED
  BY <1>2, <1>3, <1>4, <1>5, <1>6, <1>7, <1>8, <1>9, <1>10 DEF Run

LEMMA FieldsCarried ==
  ASSUME TypeInv, NEW c \in Cycle, Run(c), call'[c].step = "deliver"
  PROVE  /\ call'[c].tracked = call[c].tracked
         /\ call'[c].history = call[c].history
         /\ call'[c].arcs = call[c].arcs
<1> DEFINE k == call[c]
<1>1. TypeOK /\ k \in Call /\ Windows /\ Sequences /\ Deliveries
  BY DEF TypeInv, TypeOK
<1>2. \/ \E content \in Contents : SaveOutcome(c, content)
      \/ \E p \in Procedure : Deliver(c, p)
  <2>1. ~Fail(c)
    BY <1>1, IdleCallType, Continued DEF Fail
  <2>2. ~(\E scores \in Scores : Compose(c, scores))
    BY <1>1, ComposeTypes
  <2>3. ~(ListSensorSets(c) \/ ListHistory(c) \/ SummarizeArcHistory(c) \/ FindPrevious(c))
    BY <1>1, ReadTypes
  <2>4. ~(SaveSensorSets(c) \/ SaveSnapshot(c) \/ SaveGuestStatus(c) \/ Publish(c))
    BY <1>1, SaveSensorSetsTypes, SaveSnapshotTypes, SaveGuestStatusTypes, PublishTypes
  <2> QED
    BY <2>1, <2>2, <2>3, <2>4 DEF Run
<1>3. PICK outcome, pending :
        call'[c] = Waiting([k EXCEPT !.outcome = outcome], pending)
  <2>1. CASE \E content \in Contents : SaveOutcome(c, content)
    BY <1>1, <2>1, CallOf DEF SaveOutcome
  <2>2. ASSUME NEW p \in Procedure, Deliver(c, p)
        PROVE  call'[c] = Waiting([k EXCEPT !.outcome = k.outcome], k.pending \ {p})
    <3>1. call'[c] = Waiting(k, k.pending \ {p})
      BY <1>1, <2>2, CallOf DEF Deliver, GivenUp, Returned
    <3>2. [k EXCEPT !.outcome = k.outcome] = k
      BY <1>1 DEF Call
    <3> QED
      BY <3>1, <3>2
  <2> QED
    BY <1>2, <2>1, <2>2
<1>4. call'[c] = [[k EXCEPT !.outcome = outcome] EXCEPT !.step = "deliver",
                                                        !.pending = pending]
  BY <1>3, IdleCallType DEF Waiting
<1> QED
  BY <1>1, <1>4 DEF Call

LEMMA SetsFollowedKept ==
  ASSUME Alone, TypeInv, SetsFollowed, NEW c \in Cycle, Run(c)
  PROVE  /\ SetsFollowed'
         /\ SaveSensorSets(c) => sets' = TrackSensorSets(sets, call[c].scores, call[c].at)
<1> DEFINE k == call[c]
<1>1. \A d \in Cycle : d = c
  BY DEF Alone
<1>2. TypeOK /\ k \in Call /\ sets \in [Anchor -> SensorSet]
  BY DEF TypeInv, TypeOK
<1>3. CASE call'[c].step \in {"idle", "deliver"}
  <2>1. ~SaveSensorSets(c)
    BY <1>2, <1>3, SaveSensorSetsTypes
  <2> QED
    BY <1>1, <1>3, <2>1 DEF SetsFollowed, Tracked, BeforeOutcome, BeforeGuest, BeforeSnapshot
<1>4. CASE \E scores \in Scores : Compose(c, scores)
  <2>1. call'[c].step = "list_sets" /\ ~SaveSensorSets(c)
    BY <1>2, <1>4, ComposeTypes, SaveSensorSetsTypes
  <2>2. call'[c].history = {} /\ call'[c].arcs = [a \in Anchor |-> {}]
    BY <1>4, <2>1, SensorFields
  <2> QED
    BY <1>1, <2>1, <2>2 DEF SetsFollowed, Tracked, BeforeOutcome, BeforeGuest, BeforeSnapshot
<1>5. CASE ListSensorSets(c)
  <2>1. call'[c].step = "save_sets" /\ call'[c].at = k.at /\ sets' = sets /\ ~SaveSensorSets(c)
    BY <1>2, <1>5, ReadTypes DEF ListSensorSets, SaveSensorSets, database
  <2>2. /\ call'[c].tracked = TrackSensorSets(sets, k.scores, k.at)
        /\ call'[c].updated = {a \in Anchor : HasNewSensors(sets, k.scores, a)}
        /\ call'[c].scores = k.scores
    BY <1>5, <2>1, SensorFields
  <2> QED
    BY <1>1, <2>1, <2>2 DEF SetsFollowed, Tracked, BeforeOutcome, BeforeGuest, BeforeSnapshot
<1>6. CASE SaveSensorSets(c)
  <2>1. call'[c].step = "list_history"
    BY <1>2, <1>6, SaveSensorSetsTypes
  <2>2. /\ k.tracked = TrackSensorSets(sets, k.scores, k.at)
        /\ k.updated = {a \in Anchor : HasNewSensors(sets, k.scores, a)}
    BY <1>6 DEF SaveSensorSets, SetsFollowed
  <2>3. sets' = k.tracked
    BY <1>2, <1>6, <2>2 DEF SaveSensorSets, TrackSensorSets
  <2>4. call'[c].tracked = k.tracked /\ call'[c].scores = k.scores
    BY <1>6, <2>1, SensorFields DEF SaveSensorSets, Compose, ListSensorSets
  <2>5. \A a \in Anchor : k.scores[a] \in {Null, sets'[a].sensors}
    BY <2>2, <2>3 DEF TrackSensorSets, HasNewSensors
  <2> QED
    BY <1>1, <2>1, <2>2, <2>3, <2>4, <2>5 DEF SetsFollowed
<1>7. CASE /\ call'[c].step \notin {"idle", "deliver"}
           /\ ~(\E scores \in Scores : Compose(c, scores))
           /\ ~ListSensorSets(c) /\ ~SaveSensorSets(c)
  <2>1. sets' = sets /\ call'[c].tracked = k.tracked /\ call'[c].scores = k.scores
    BY <1>7, SensorFields, Kept
  <2>2. call'[c].step \in Tracked /\ k.step \in Tracked
    <3>1. k.step \notin {"idle", "list_sets", "save_sets"}
      <4>1. /\ ~(k.step = "idle") /\ ~(k.step = "list_sets") /\ ~(k.step = "save_sets")
        BY <1>7, IdleCallType, Continued, <1>2
           DEF Run, Fail, ListHistory, SummarizeArcHistory, SaveSnapshot, SaveGuestStatus,
               Publish, FindPrevious, SaveOutcome, Deliver, GivenUp
      <4> QED
        BY <4>1
    <3> QED
      BY <1>7, <3>1, StepOrder
         DEF Follows, Tracked, BeforeOutcome, BeforeGuest, BeforeSnapshot
  <2> QED
    BY <1>1, <1>7, <2>1, <2>2
       DEF SetsFollowed, Tracked, BeforeOutcome, BeforeGuest, BeforeSnapshot
<1> QED
  BY <1>3, <1>4, <1>5, <1>6, <1>7

\* A change of sensors is later than every score kept, and a score kept is of
\* the sensors recorded before it.
LEMMA ScoresRecordedKept ==
  ASSUME Alone, TypeInv, Times, SetsFollowed, ScoresRecorded, NEW c \in Cycle, Run(c)
  PROVE  ScoresRecorded'
<1> DEFINE k == call[c]
<1>1. TypeOK /\ k \in Call /\ sets \in [Anchor -> SensorSet]
  BY DEF TypeInv, TypeOK
<1>2. CASE SaveSensorSets(c)
  <2>1. /\ sets' = TrackSensorSets(sets, k.scores, k.at) /\ snapshots' = snapshots
        /\ k.step = "save_sets"
    BY <1>2, SetsFollowedKept DEF SaveSensorSets
  <2>2. k.at # Never /\ \A i \in DOMAIN snapshots : snapshots[i].at < k.at
    BY <2>1 DEF Times, BeforeSnapshot, TypeInv, Windows, Never
  <2>3. ASSUME NEW i \in DOMAIN snapshots, NEW a \in Anchor, snapshots[i].scores[a] # Null
        PROVE  /\ sets'[a].sensors # Null
               /\ \/ snapshots[i].scores[a] = sets'[a].sensors
                  \/ Predates(snapshots[i].at, sets'[a])
    <3>1. /\ sets[a].sensors # Null
          /\ snapshots[i].scores[a] = sets[a].sensors \/ Predates(snapshots[i].at, sets[a])
      BY <2>3 DEF ScoresRecorded
    <3>2. CASE HasNewSensors(sets, k.scores, a)
      <4>1. sets'[a] = [sensors |-> k.scores[a], changedAt |-> k.at]
        BY <2>1, <3>1, <3>2 DEF TrackSensorSets
      <4> QED
        BY <2>2, <3>2, <4>1 DEF HasNewSensors, Predates
    <3>3. CASE ~HasNewSensors(sets, k.scores, a)
      <4>1. sets'[a] = sets[a]
        BY <2>1, <3>3 DEF TrackSensorSets
      <4> QED
        BY <3>1, <4>1
    <3> QED
      BY <3>2, <3>3
  <2> QED
    BY <2>1, <2>3 DEF ScoresRecorded
<1>3. CASE SaveSnapshot(c)
  <2>1. sets' = sets /\ k.step = "save_snapshot"
    BY <1>3 DEF SaveSnapshot
  <2>2. \A a \in Anchor : k.scores[a] \in {Null, sets[a].sensors}
    BY <2>1 DEF SetsFollowed, Tracked, BeforeOutcome, BeforeGuest, BeforeSnapshot
  <2>3. /\ DOMAIN snapshots = 1..Len(snapshots) /\ Len(snapshots) \in Nat
        /\ DOMAIN snapshots' = 1..(Len(snapshots) + 1)
        /\ \A i \in DOMAIN snapshots : snapshots'[i] = snapshots[i]
        /\ snapshots'[Len(snapshots) + 1].scores = k.scores
    BY <1>3, SnapshotsGrow
  <2>4. \A i \in DOMAIN snapshots' : i \in DOMAIN snapshots \/ snapshots'[i].scores = k.scores
    BY <2>3
  <2> QED
    BY <2>1, <2>2, <2>3, <2>4 DEF ScoresRecorded
<1>4. CASE ~SaveSensorSets(c) /\ ~SaveSnapshot(c)
  BY <1>4, Kept DEF ScoresRecorded
<1> QED
  BY <1>2, <1>3, <1>4

\* The history that is left is of the sensors recorded.
LEMMA HistoryTrimmed ==
  ASSUME ScoresRecorded,
         NEW t, NEW s \in HistorySinceSensorSetChanges(SnapshotsEndingAfter(t), sets),
         NEW a \in Anchor, TypeOK
  PROVE  s.scores[a] \in {Null, sets[a].sensors}
<1>1. PICK h \in SnapshotsEndingAfter(t) :
        s = [h EXCEPT !.scores = [b \in Anchor |->
               IF Predates(h.at, sets[b]) THEN Null ELSE h.scores[b]]]
  BY DEF HistorySinceSensorSetChanges
<1>2. PICK i \in DOMAIN snapshots : h = snapshots[i]
  BY DEF SnapshotsEndingAfter
<1>3. h \in Snapshot
  BY <1>2, RowTypes
<1>4. s.scores[a] = IF Predates(h.at, sets[a]) THEN Null ELSE h.scores[a]
  BY <1>1, <1>3 DEF Snapshot
<1> QED
  BY <1>2, <1>4 DEF ScoresRecorded

\* So are the samples behind the sums.
LEMMA SamplesOfSensors ==
  ASSUME ScoresRecorded, TypeOK, NEW a \in Anchor
  PROVE  SensorsSummarized(a) \subseteq {sets[a].sensors}
<1>1. ASSUME NEW i \in DOMAIN snapshots, snapshots[i].scores[a] # Null,
             Sampled(snapshots[i].at, sets[a])
      PROVE  snapshots[i].scores[a] = sets[a].sensors
  <2>1. snapshots[i].at \in Int /\ sets[a].changedAt \in Int
    BY RowTypes, CycleAssumption DEF TypeOK, SensorSet, Time
  <2>2. ~Predates(snapshots[i].at, sets[a])
    BY <1>1, <2>1, CycleAssumption DEF Predates, Sampled
  <2> QED
    BY <1>1, <2>2 DEF ScoresRecorded
<1> QED
  BY <1>1 DEF SensorsSummarized

LEMMA HistoriesKept ==
  ASSUME Alone, TypeInv, SetsFollowed, ScoresRecorded,
         HistoryHomogeneous, ArcHistoryHomogeneous, NEW c \in Cycle, Run(c)
  PROVE  HistoryHomogeneous' /\ ArcHistoryHomogeneous'
<1> DEFINE k == call[c]
<1> SUFFICES /\ \A s \in call'[c].history : \A a \in Anchor :
                  s.scores[a] \in {Null, call'[c].tracked[a].sensors}
             /\ \A a \in Anchor : call'[c].arcs[a] \subseteq {call'[c].tracked[a].sensors}
  BY DEF Alone, HistoryHomogeneous, ArcHistoryHomogeneous
<1>1. TypeOK /\ k \in Call
  BY DEF TypeInv, TypeOK
<1>2. CASE call'[c].step = "idle"
  <2>1. call'[c] = IdleCall
    <3>1. CASE Fail(c)
      BY <1>1, <3>1, CallOf DEF Fail
    <3>2. ASSUME NEW content \in Contents, SaveOutcome(c, content)
          PROVE  call'[c] = IdleCall
      <4>1. call'[c] = Waiting([k EXCEPT !.outcome = Len(outcomes) + 1], content)
        BY <1>1, <3>2, CallOf DEF SaveOutcome
      <4> QED
        BY <1>1, <1>2, <4>1 DEF Waiting, Call
    <3>3. ASSUME NEW p \in Procedure, Deliver(c, p)
          PROVE  call'[c] = IdleCall
      <4>1. call'[c] = Waiting(k, k.pending \ {p})
        BY <1>1, <3>3, CallOf DEF Deliver, GivenUp, Returned
      <4> QED
        BY <1>1, <1>2, <4>1 DEF Waiting, Call
    <3>4. ~(\E scores \in Scores : Compose(c, scores))
      BY <1>1, <1>2, ComposeTypes
    <3>5. ~(ListSensorSets(c) \/ ListHistory(c) \/ SummarizeArcHistory(c) \/ FindPrevious(c))
      BY <1>1, <1>2, ReadTypes
    <3>6. ~(SaveSensorSets(c) \/ SaveSnapshot(c) \/ SaveGuestStatus(c) \/ Publish(c))
      BY <1>1, <1>2, SaveSensorSetsTypes, SaveSnapshotTypes, SaveGuestStatusTypes,
         PublishTypes DEF TypeInv
    <3> QED
      BY <3>1, <3>2, <3>3, <3>4, <3>5, <3>6 DEF Run
  <2> QED
    BY <2>1 DEF IdleCall
<1>3. CASE call'[c].step = "deliver"
  BY <1>3, FieldsCarried DEF HistoryHomogeneous, ArcHistoryHomogeneous
<1>4. CASE /\ call'[c].step \notin {"idle", "deliver"}
           /\ \E scores \in Scores : Compose(c, scores)
  BY <1>4, SensorFields
<1>5. CASE call'[c].step \notin {"idle", "deliver"} /\ ListSensorSets(c)
  <2>1. k.step = "list_sets"
    BY <1>5 DEF ListSensorSets
  <2>2. k.history = {} /\ k.arcs = [a \in Anchor |-> {}]
    BY <2>1 DEF SetsFollowed
  <2> QED
    BY <1>5, <2>2, SensorFields
<1>6. CASE call'[c].step \notin {"idle", "deliver"} /\ ListHistory(c)
  <2>1. k.tracked = sets
    BY <1>6 DEF ListHistory, SetsFollowed, Tracked, BeforeOutcome, BeforeGuest, BeforeSnapshot
  <2>2. /\ call'[c].history = HistorySinceSensorSetChanges(
             SnapshotsEndingAfter(k.at - HistoryWindow), sets)
        /\ call'[c].tracked = sets /\ call'[c].arcs = k.arcs
    BY <1>6, <2>1, SensorFields DEF ListHistory, ListSensorSets, SummarizeArcHistory, Compose
  <2> QED
    BY <1>1, <2>1, <2>2, HistoryTrimmed DEF ArcHistoryHomogeneous
<1>7. CASE call'[c].step \notin {"idle", "deliver"} /\ SummarizeArcHistory(c)
  <2>1. k.tracked = sets
    BY <1>7 DEF SummarizeArcHistory, SetsFollowed, Tracked, BeforeOutcome, BeforeGuest,
                BeforeSnapshot
  <2>2. /\ call'[c].arcs = [a \in Anchor |-> SensorsSummarized(a)]
        /\ call'[c].tracked = sets /\ call'[c].history = k.history
    BY <1>7, <2>1, SensorFields DEF ListHistory, ListSensorSets, SummarizeArcHistory, Compose
  <2> QED
    BY <1>1, <2>1, <2>2, SamplesOfSensors DEF HistoryHomogeneous
<1>8. CASE /\ call'[c].step \notin {"idle", "deliver"}
           /\ ~(\E scores \in Scores : Compose(c, scores))
           /\ ~ListSensorSets(c) /\ ~ListHistory(c) /\ ~SummarizeArcHistory(c)
  BY <1>8, SensorFields DEF HistoryHomogeneous, ArcHistoryHomogeneous
<1> QED
  BY <1>2, <1>3, <1>4, <1>5, <1>6, <1>7, <1>8

-----------------------------------------------------------------------------
(* One cycle at a time: outcomes *)

LEMMA PreviousKept ==
  ASSUME Alone, TypeInv, PreviousIsLatest, NEW c \in Cycle, Run(c)
  PROVE  PreviousIsLatest'
<1> DEFINE k == call[c]
<1>1. TypeOK /\ k \in Call
  BY DEF TypeInv, TypeOK
<1>2. CASE call'[c].step # "optimize"
  BY <1>2 DEF Alone, PreviousIsLatest
<1>3. CASE call'[c].step = "optimize"
  <2>1. FindPrevious(c)
    <3>1. k.step = "find_previous"
      BY <1>3, StepOrder DEF Follows
    <3>2. ~Fail(c)
      BY <1>1, <1>3, IdleCallType, CallOf DEF Fail
    <3> QED
      BY <3>1, <3>2 DEF Run, Compose, ListSensorSets, SaveSensorSets, ListHistory,
                        SummarizeArcHistory, SaveSnapshot, SaveGuestStatus, Publish,
                        SaveOutcome, Deliver, GivenUp
  <2> DEFINE changes == SensorSetsChangedAfter(k, TimeOf(LatestOutcome))
  <2>2. PICK graph \in SUBSET Anchor :
          call'[c] = [k EXCEPT !.step = "optimize", !.previous = LatestOutcome,
                               !.reported = FlowEvents(changes, graph)]
    BY <1>1, <2>1, CallOf DEF FindPrevious, TimeOf
  <2>3. /\ call'[c].previous = Len(outcomes)
        /\ call'[c].tracked = k.tracked
        /\ call'[c].reported = FlowEvents(changes, graph)
        /\ outcomes' = outcomes
    BY <1>1, <2>1, <2>2 DEF Call, LatestOutcome, FindPrevious, database
  <2>4. \A a \in DOMAIN call'[c].reported :
          call'[c].reported[a] = SensorSetsChangedAfter(call'[c], TimeOf(Len(outcomes)))[a]
    BY <2>3 DEF SensorSetsChangedAfter, FlowEvents, LatestOutcome
  <2> QED
    BY <2>3, <2>4 DEF Alone, PreviousIsLatest, TimeOf
<1> QED
  BY <1>2, <1>3

\* The outcome kept next continues the latest.
LEMMA ChainKept ==
  ASSUME Alone, TypeInv, PreviousIsLatest, OutcomesChained, NEW c \in Cycle, Run(c)
  PROVE  OutcomesChained'
<1>1. CASE outcomes' = outcomes
  BY <1>1 DEF OutcomesChained
<1>2. CASE \E content \in Contents : SaveOutcome(c, content)
  <2>1. call[c].step = "optimize" /\ call[c].previous = Len(outcomes)
    BY <1>2 DEF SaveOutcome, PreviousIsLatest
  <2>2. /\ OutcomeOf(call[c]) \in Outcome
        /\ outcomes' = Append(outcomes, OutcomeOf(call[c]))
    BY <1>2, SaveOutcomeTypes DEF TypeInv
  <2>3. /\ Len(outcomes) \in Nat
        /\ DOMAIN outcomes = 1..Len(outcomes)
        /\ DOMAIN outcomes' = 1..(Len(outcomes) + 1)
        /\ outcomes'[Len(outcomes) + 1].previous = Len(outcomes)
        /\ \A i \in DOMAIN outcomes : outcomes'[i] = outcomes[i]
    BY <2>1, <2>2, OutcomesGrow DEF TypeInv, OutcomeOf
  <2>4. ASSUME NEW i \in DOMAIN outcomes' PROVE outcomes'[i].previous = i - 1
    BY <2>3 DEF OutcomesChained
  <2> QED
    BY <2>4 DEF OutcomesChained
<1> QED
  BY <1>1, <1>2, Kept

LEMMA TimeOfLatest ==
  ASSUME TypeInv, Times
  PROVE  /\ TimeOf(Len(outcomes)) \in Int /\ TimeOf(Len(outcomes)) >= 0
         /\ \A c \in Cycle : call[c].step \in BeforeOutcome => TimeOf(Len(outcomes)) < call[c].at
<1>1. Len(outcomes) \in Nat /\ DOMAIN outcomes = 1..Len(outcomes)
  BY LenProperties DEF TypeInv, TypeOK
<1>2. CASE Len(outcomes) = 0
  BY <1>2 DEF TimeOf, Never, TypeInv, Windows, BeforeOutcome, BeforeGuest, BeforeSnapshot
<1>3. CASE Len(outcomes) # 0
  <2>1. Len(outcomes) \in DOMAIN outcomes
    BY <1>1, <1>3
  <2>2. outcomes[Len(outcomes)] \in Outcome
    BY <2>1, RowTypes DEF TypeInv
  <2>3. outcomes[Len(outcomes)].at \in Int /\ outcomes[Len(outcomes)].at >= 0
    BY <2>2, CycleAssumption DEF Outcome, Stamp
  <2> QED
    BY <1>3, <2>1, <2>3 DEF TimeOf, Times
<1> QED
  BY <1>2, <1>3

\* A change is reported by the first outcome kept after it.
LEMMA ReportedKept ==
  ASSUME Alone, TypeInv, Times, SetsFollowed, PreviousIsLatest, Reported,
         NEW c \in Cycle, Run(c)
  PROVE  Reported'
<1> DEFINE k == call[c]
           latest == TimeOf(Len(outcomes))
<1>1. TypeOK /\ k \in Call /\ \A a \in Anchor : sets[a].changedAt \in Int
  BY CycleAssumption DEF TypeInv, TypeOK, SensorSet, Time
<1>2. CASE SaveSensorSets(c)
  <2>1. /\ sets' = TrackSensorSets(sets, k.scores, k.at) /\ outcomes' = outcomes
        /\ k.step \in BeforeOutcome /\ k.at \in Int
    BY <1>1, <1>2, SetsFollowedKept, CycleAssumption
       DEF SaveSensorSets, BeforeOutcome, BeforeGuest, BeforeSnapshot, Call, Time
  <2>2. latest < k.at /\ latest \in Int
    BY <2>1, TimeOfLatest
  <2>3. \A a \in Anchor : sets'[a].changedAt \in {sets[a].changedAt, Never, k.at}
    BY <2>1 DEF TrackSensorSets
  <2>4. ASSUME NEW a \in Anchor, sets'[a].changedAt # Never,
               latest >= sets'[a].changedAt
        PROVE  \E i \in DOMAIN outcomes : Tells(outcomes[i], a, sets'[a].changedAt)
    <3>1. sets'[a].changedAt # k.at
      BY <2>1, <2>2, <2>4
    <3>2. sets'[a].changedAt = sets[a].changedAt
      BY <2>3, <2>4, <3>1
    <3> QED
      BY <2>4, <3>2 DEF Reported
  <2>5. ASSUME NEW a \in Anchor PROVE sets'[a].changedAt < now'
    <3>1. now' = now /\ k.at = now - 1 /\ now \in Int /\ now > 0
      BY <1>2, CycleAssumption DEF SaveSensorSets, Times, TypeInv, TypeOK
    <3> QED
      BY <1>1, <2>3, <3>1 DEF Reported, Never
  <2> QED
    BY <2>1, <2>4, <2>5 DEF Reported, TimeOf
<1>3. CASE \E content \in Contents : SaveOutcome(c, content)
  <2>1. /\ k.step = "optimize" /\ sets' = sets /\ now' = now
        /\ k.reported \in Report
    BY <1>1, <1>3 DEF SaveOutcome, Call
  <2>2. k.tracked = sets
    BY <2>1 DEF SetsFollowed, Tracked, BeforeOutcome, BeforeGuest, BeforeSnapshot
  <2>3. /\ OutcomeOf(k) \in Outcome
        /\ outcomes' = Append(outcomes, OutcomeOf(k))
    BY <1>3, SaveOutcomeTypes DEF TypeInv
  <2>4. /\ Len(outcomes) \in Nat
        /\ DOMAIN outcomes = 1..Len(outcomes)
        /\ DOMAIN outcomes' = 1..(Len(outcomes) + 1)
        /\ outcomes'[Len(outcomes) + 1].reported = k.reported
        /\ outcomes'[Len(outcomes) + 1].at = k.at
        /\ \A i \in DOMAIN outcomes : outcomes'[i] = outcomes[i]
    BY <2>3, OutcomesGrow DEF TypeInv, OutcomeOf
  <2>5. \A a \in DOMAIN k.reported :
          k.reported[a] = IF sets[a].changedAt > latest THEN sets[a].changedAt ELSE Never
    BY <2>1, <2>2 DEF PreviousIsLatest, SensorSetsChangedAfter, Report
  <2>6. k.at = now - 1 /\ now \in Int
    BY <2>1, CycleAssumption DEF Times, TypeInv, TypeOK
  <2>7. ASSUME NEW a \in Anchor, sets[a].changedAt # Never
        PROVE  \E i \in DOMAIN outcomes' : Tells(outcomes'[i], a, sets[a].changedAt)
    <3>1. CASE sets[a].changedAt > latest
      <4>1. k.at >= sets[a].changedAt
        BY <1>1, <2>1, <2>6 DEF Reported
      <4> QED
        BY <2>4, <2>5, <3>1, <4>1, Len(outcomes) + 1 \in DOMAIN outcomes' DEF Tells
    <3>2. CASE ~(sets[a].changedAt > latest)
      <4>1. latest >= sets[a].changedAt
        BY <1>1, <3>2, TimeOfLatest
      <4>2. PICK i \in DOMAIN outcomes : Tells(outcomes[i], a, sets[a].changedAt)
        BY <2>7, <4>1 DEF Reported
      <4> QED
        BY <2>4, <4>2
    <3> QED
      BY <3>1, <3>2
  <2> QED
    BY <2>1, <2>7 DEF Reported
<1>4. CASE ~SaveSensorSets(c) /\ ~(\E content \in Contents : SaveOutcome(c, content))
  <2>1. sets' = sets /\ outcomes' = outcomes
    BY <1>4, Kept
  <2>2. now \in Int /\ now' \in {now, now + 1}
    BY RunTypes, CycleAssumption DEF TypeInv, TypeOK
  <2>3. \A a \in Anchor : sets'[a].changedAt < now'
    BY <1>1, <2>1, <2>2 DEF Reported
  <2> QED
    BY <2>1, <2>3 DEF Reported, TimeOf
<1> QED
  BY <1>2, <1>3, <1>4

-----------------------------------------------------------------------------
(* One cycle at a time: statuses and deliveries *)

LEMMA StatusTypes ==
  ASSUME TypeInv
  PROVE  /\ guest.sequence \in Int /\ guest.takenAt \in Int /\ now \in Int
         /\ \A c \in Cycle : call[c].at \in Int /\ call[c].sequence \in Int
         /\ \A s \in published : s.sequence \in Int /\ s.takenAt \in Int
<1>1. /\ guest \in [sequence: Time, takenAt: Time]
      /\ call \in [Cycle -> Call] /\ published \subseteq GuestStatus
      /\ now \in 1..(MaxTime + 1)
  BY DEF TypeInv, TypeOK
<1>2. /\ \A t \in Time : t \in Int
      /\ \A t \in Stamp : t \in Int
  BY CycleAssumption DEF Time, Stamp
<1>3. \A c \in Cycle : call[c].at \in Time /\ call[c].sequence \in Time
  BY <1>1 DEF Call
<1> QED
  BY <1>1, <1>2, <1>3, CycleAssumption DEF GuestStatus

\* Each status saved is newer, and comes after, all that are published.
LEMMA StatusesKept ==
  ASSUME Alone, TypeInv, Times, Statuses, SequenceTellsNewer, NEW c \in Cycle, Run(c)
  PROVE  Statuses' /\ SequenceTellsNewer'
<1> DEFINE k == call[c]
<1>1. TypeOK /\ k \in Call /\ Windows /\ Sequences
  BY DEF TypeInv, TypeOK
<1>2. CASE SaveGuestStatus(c)
  <2>1. /\ guest' = [sequence |-> guest.sequence + 1, takenAt |-> k.at]
        /\ k.step = "save_guest" /\ now' = now /\ published' = published
        /\ call'[c].step = "publish" /\ call'[c].at = k.at
        /\ call'[c].sequence = guest.sequence + 1
    BY <1>1, <1>2, SaveGuestStatusTypes DEF SaveGuestStatus, NextSequence
  <2>2. guest.takenAt < k.at /\ k.at < now
    BY <1>1, <2>1, StatusTypes DEF Statuses, BeforeGuest, Windows
  <2>3. \A s \in published : s.sequence < guest'.sequence /\ s.takenAt < guest'.takenAt
    BY <2>1, <2>2, StatusTypes DEF Statuses
  <2>4. Statuses'
    BY <2>1, <2>2, <2>3, StatusTypes DEF Statuses, Alone, BeforeGuest, BeforeSnapshot
  <2> QED
    BY <2>1, <2>4 DEF SequenceTellsNewer
<1>3. CASE Publish(c)
  <2>1. /\ k.step = "publish" /\ call'[c].step = "find_previous"
        /\ now' = now /\ guest' = guest
        /\ published' \in {published, published \cup {guest}}
    <3>1. guest = [sequence |-> k.sequence, takenAt |-> k.at]
      BY <1>3 DEF Publish, Statuses
    <3> QED
      BY <1>1, <1>3, <3>1, PublishTypes DEF Publish, database
  <2>2. \A s \in published : s.sequence < guest.sequence /\ s.takenAt < guest.takenAt
    BY <2>1 DEF Statuses
  <2>3. Statuses'
    BY <2>1, <2>2, StatusTypes DEF Statuses, Alone, BeforeGuest, BeforeSnapshot
  <2>4. SequenceTellsNewer'
    BY <2>1, <2>2, StatusTypes DEF SequenceTellsNewer
  <2> QED
    BY <2>3, <2>4
<1>4. CASE ~SaveGuestStatus(c) /\ ~Publish(c)
  <2>1. guest' = guest /\ published' = published
    BY <1>4, Kept
  <2>2. call'[c].step # "publish"
    <3>1. SUFFICES ASSUME call'[c].step = "publish" PROVE FALSE
      OBVIOUS
    <3>2. k.step = "save_guest"
      BY <3>1, StepOrder DEF Follows
    <3>3. ~Fail(c)
      BY <1>1, <3>1, IdleCallType, CallOf DEF Fail
    <3> QED
      BY <1>4, <3>2, <3>3 DEF Run, Compose, ListSensorSets, SaveSensorSets, ListHistory,
                        SummarizeArcHistory, SaveSnapshot, FindPrevious, SaveOutcome, Deliver, GivenUp
  <2>3. \/ /\ call'[c].step = "list_sets" /\ call'[c].at = now /\ now' = now + 1
        \/ /\ call'[c].step # "idle" => call'[c].at = k.at
           /\ k.step # "idle" /\ now' = now
    BY RunTypes
  <2>4. call'[c].step \in BeforeGuest => k.step \in BeforeGuest \/ call'[c].step = "list_sets"
    BY StepOrder DEF Follows, BeforeGuest, BeforeSnapshot
  <2>5. call'[c].step = "list_sets" => k.step = "idle"
    BY StepOrder DEF Follows
  <2>6. call'[c].step \in BeforeGuest => guest.takenAt < call'[c].at
    BY <2>3, <2>4, <2>5 DEF Statuses, BeforeGuest, BeforeSnapshot
  <2>7. guest.takenAt < now'
    BY <2>3, StatusTypes DEF Statuses
  <2>8. Statuses'
    BY <2>1, <2>2, <2>6, <2>7 DEF Statuses, Alone
  <2> QED
    BY <2>1, <2>8 DEF SequenceTellsNewer
<1> QED
  BY <1>2, <1>3, <1>4

\* A cycle passes on the outcome that it has kept, before a later one is kept.
LEMMA LatestKept ==
  ASSUME Alone, TypeInv, DeliversLatest, NEW c \in Cycle, Run(c)
  PROVE  DeliversLatest'
<1> DEFINE k == call[c]
<1>1. TypeOK /\ k \in Call /\ Windows
  BY DEF TypeInv, TypeOK
<1>2. CASE \E content \in Contents : SaveOutcome(c, content)
  <2>1. /\ call'[c].step = "deliver" => call'[c].outcome = Len(outcomes) + 1
        /\ OutcomeOf(k) \in Outcome
        /\ outcomes' = Append(outcomes, OutcomeOf(k))
    BY <1>1, <1>2, SaveOutcomeTypes
  <2>2. Len(outcomes') = Len(outcomes) + 1
    BY <1>1, <2>1, OutcomesGrow
  <2> QED
    BY <2>1, <2>2 DEF Alone, DeliversLatest
<1>3. ASSUME NEW p \in Procedure, Deliver(c, p)
      PROVE  DeliversLatest'
  <2>1. call'[c].step = "deliver" => call'[c].outcome = k.outcome
    BY <1>1, <1>3, DeliverTypes
  <2>2. outcomes' = outcomes /\ k.step = "deliver"
    BY <1>3 DEF Deliver, database
  <2> QED
    BY <2>1, <2>2 DEF Alone, DeliversLatest
<1>4. CASE /\ ~(\E content \in Contents : SaveOutcome(c, content))
           /\ ~(\E p \in Procedure : Deliver(c, p))
  <2>1. SUFFICES ASSUME call'[c].step = "deliver" PROVE FALSE
    BY DEF Alone, DeliversLatest
  <2>2. k.step \in {"optimize", "deliver"}
    BY <2>1, StepOrder DEF Follows
  <2>3. ~Fail(c)
    BY <1>1, <2>1, IdleCallType, CallOf DEF Fail
  <2> QED
    BY <1>4, <2>2, <2>3 DEF Run, Compose, ListSensorSets, SaveSensorSets, ListHistory,
                   SummarizeArcHistory, SaveSnapshot, SaveGuestStatus, Publish, FindPrevious
<1> QED
  BY <1>2, <1>3, <1>4

-----------------------------------------------------------------------------
(* One cycle at a time: what Flow, the guests and Operation are told *)

LEMMA AloneInvInit ==
  ASSUME Init
  PROVE  AloneInv
<1>1. TypeInv
  BY TypeInvInit
<1>2. /\ \A c \in Cycle : call[c] = IdleCall /\ call[c].step = "idle"
      /\ snapshots = <<>> /\ outcomes = <<>> /\ published = {}
      /\ \A a \in Anchor : sets[a].changedAt = Never
  BY DEF Init, IdleCall, Unobserved
<1>3. Times /\ SetsFollowed /\ ScoresRecorded /\ PreviousIsLatest
  BY <1>2 DEF Times, SetsFollowed, ScoresRecorded, PreviousIsLatest, Tracked,
              BeforeOutcome, BeforeGuest, BeforeSnapshot
<1>4. HistoryHomogeneous /\ ArcHistoryHomogeneous
  BY <1>2 DEF HistoryHomogeneous, ArcHistoryHomogeneous, IdleCall
<1>5. OutcomesChained /\ Reported
  BY <1>2, now = 1 DEF OutcomesChained, Reported, Init, Never
<1>6. Statuses /\ SequenceTellsNewer
  BY <1>2, now = 1, guest.takenAt = 0
     DEF Init, Statuses, SequenceTellsNewer, Never, BeforeGuest, BeforeSnapshot
<1>7. DeliversLatest
  BY <1>2 DEF DeliversLatest
<1> QED
  BY <1>1, <1>3, <1>4, <1>5, <1>6, <1>7 DEF AloneInv

\* An overview, a call that arrives, or nothing at all.
LEMMA AloneInvReads ==
  ASSUME AloneInv, TypeInv', UNCHANGED <<database, published, call, now>>
  PROVE  AloneInv'
<1>1. Times' /\ SetsFollowed' /\ ScoresRecorded'
  BY DEF AloneInv, Times, SetsFollowed, ScoresRecorded, database
<1>2. HistoryHomogeneous' /\ ArcHistoryHomogeneous'
  BY DEF AloneInv, HistoryHomogeneous, ArcHistoryHomogeneous, database
<1>3. PreviousIsLatest' /\ OutcomesChained' /\ Reported'
  BY DEF AloneInv, PreviousIsLatest, OutcomesChained, Reported, TimeOf, database
<1>4. Statuses' /\ SequenceTellsNewer'
  BY DEF AloneInv, Statuses, SequenceTellsNewer, database
<1>5. DeliversLatest'
  BY DEF AloneInv, DeliversLatest, database
<1> QED
  BY <1>1, <1>2, <1>3, <1>4, <1>5 DEF AloneInv

LEMMA AloneInvKept ==
  ASSUME Alone, AloneInv, [Next]_vars
  PROVE  AloneInv'
<1>1. TypeInv'
  BY TypeInvKept DEF AloneInv
<1>2. ASSUME NEW c \in Cycle, Run(c) PROVE AloneInv'
  <2>1. Times' /\ SetsFollowed' /\ ScoresRecorded'
    BY <1>2, TimesKept, SetsFollowedKept, ScoresRecordedKept DEF AloneInv
  <2>2. HistoryHomogeneous' /\ ArcHistoryHomogeneous'
    BY <1>2, HistoriesKept DEF AloneInv
  <2>3. PreviousIsLatest' /\ OutcomesChained' /\ Reported'
    BY <1>2, PreviousKept, ChainKept, ReportedKept DEF AloneInv
  <2>4. Statuses' /\ SequenceTellsNewer' /\ DeliversLatest'
    BY <1>2, StatusesKept, LatestKept DEF AloneInv
  <2> QED
    BY <1>1, <2>1, <2>2, <2>3, <2>4 DEF AloneInv
<1>3. CASE OverviewSnapshot \/ OverviewOutcome \/ UNCHANGED vars
  BY <1>1, <1>3, AloneInvReads DEF OverviewSnapshot, OverviewOutcome, vars
<1>4. ASSUME NEW p \in Procedure, NEW o \in underway[p], Arrive(p, o) PROVE AloneInv'
  BY <1>1, <1>4, AloneInvReads DEF Arrive
<1> QED
  BY <1>2, <1>3, <1>4 DEF Next

\* When one cycle runs at a time, a change of sensors that no later cycle would
\* report has been reported with an outcome that was kept, through any failures
\* in between (SensorSetsChangedAfter, LatestOptimizationOutcome).
THEOREM ChangesAreReported == ASSUME Alone PROVE Spec => []ChangesReported
<1>1. AloneInv => ChangesReported
  <2>1. TypeInv => Len(outcomes) \in Nat /\ (Len(outcomes) = 0 => outcomes = <<>>)
    BY EmptySeq DEF TypeInv, TypeOK
  <2> QED
    BY <2>1 DEF AloneInv, Reported, Tells, ChangesReported, TimeOf
<1> QED
  BY <1>1, AloneInvInit, AloneInvKept, PTL DEF Spec

\* When one cycle runs at a time, every score in the history that Flow is given
\* comes from the sensors that its anchor has now
\* (HistorySinceSensorSetChanges, SaveSensorSets before SaveSnapshot).
THEOREM HistoryIsOfCurrentSensors == ASSUME Alone PROVE Spec => []HistoryHomogeneous
<1>1. AloneInv => HistoryHomogeneous
  BY DEF AloneInv
<1> QED
  BY <1>1, AloneInvInit, AloneInvKept, PTL DEF Spec

\* So does every sample behind the history of an arc, for any length of a window
\* (SummarizeArcHistory).
THEOREM ArcHistoryIsOfCurrentSensors == ASSUME Alone PROVE Spec => []ArcHistoryHomogeneous
<1>1. AloneInv => ArcHistoryHomogeneous
  BY DEF AloneInv
<1> QED
  BY <1>1, AloneInvInit, AloneInvKept, PTL DEF Spec

\* When one cycle runs at a time, each outcome kept continues the detection
\* state of the one before it, with no fork (LatestOptimizationOutcome).
THEOREM OutcomesAreChained == ASSUME Alone PROVE Spec => []OutcomesChained
<1>1. AloneInv => OutcomesChained
  BY DEF AloneInv
<1> QED
  BY <1>1, AloneInvInit, AloneInvKept, PTL DEF Spec

\* When one cycle runs at a time, the sequence alone tells the newer of two
\* published statuses (SaveGuestStatus, PublishGuestStatus).
THEOREM NewerStatusHasHigherSequence == ASSUME Alone PROVE Spec => []SequenceTellsNewer
<1>1. AloneInv => SequenceTellsNewer
  BY DEF AloneInv
<1> QED
  BY <1>1, AloneInvInit, AloneInvKept, PTL DEF Spec

\* When one cycle runs at a time, a call of Operation that arrives while the cycle
\* waits for it comes after those of older outcomes, and none arrives twice, however
\* late those arrive that a cycle has given up (deliverToOperation).
THEOREM OutcomesDeliveredInOrder == ASSUME Alone PROVE Spec => DeliveredInOrder
<1>1. ASSUME AloneInv, NEW p \in Procedure, NEW o \in underway[p]
      PROVE  /\ o \notin delivered[p]
             /\ Awaited(p, o) => \A older \in delivered[p] : older < o
  <2>1. /\ Len(outcomes) \in Nat /\ DOMAIN outcomes = 1..Len(outcomes)
        /\ delivered[p] \subseteq 1..Len(outcomes)
    BY <1>1, LenProperties DEF AloneInv, TypeInv, TypeOK
  <2>2. o \notin delivered[p]
    BY <1>1 DEF AloneInv, TypeInv, Deliveries
  <2>3. Awaited(p, o) => o = Len(outcomes)
    BY <1>1 DEF AloneInv, DeliversLatest, Awaited
  <2> QED
    BY <2>1, <2>2, <2>3
<1>2. AloneInv /\ [Next]_vars =>
        [\A p \in Procedure : \A o \in underway[p] :
           Arrive(p, o) =>
             /\ o \notin delivered[p]
             /\ Awaited(p, o) => \A older \in delivered[p] : older < o]_vars
  BY <1>1
<1> QED
  BY <1>2, AloneInvInit, AloneInvKept, PTL DEF Spec, DeliveredInOrder

\* When one cycle runs at a time, an overview never shows diagnostics older than
\* those of its snapshot's own cycle, though it reads the two in two statements
\* (GetEventOverview).
THEOREM OverviewsNotOutdated == ASSUME Alone PROVE Spec => OverviewNotOutdated
<1>1. ASSUME AloneInv, OverviewOutcome
      PROVE  LET kept(t) == \E i \in DOMAIN outcomes : outcomes[i].at = t
                 shown == outcomes[LatestOutcome].at
             IN  kept(snapshots[seen].at) => shown >= snapshots[seen].at
  <2>1. ASSUME NEW i \in DOMAIN outcomes PROVE outcomes[LatestOutcome].at >= outcomes[i].at
    <3>1. Len(outcomes) \in Nat /\ DOMAIN outcomes = 1..Len(outcomes)
      BY <1>1, LenProperties DEF AloneInv, TypeInv, TypeOK
    <3>2. /\ Len(outcomes) \in DOMAIN outcomes
          /\ i < Len(outcomes) \/ i = Len(outcomes)
      BY <2>1, <3>1
    <3>3. outcomes[i].at \in Int /\ outcomes[Len(outcomes)].at \in Int
      BY <1>1, <2>1, <3>2, RowTypes DEF AloneInv, TypeInv
    <3> QED
      BY <1>1, <2>1, <3>2, <3>3 DEF LatestOutcome, AloneInv, Times
  <2> QED
    BY <2>1
<1> QED
  BY <1>1, AloneInvInit, AloneInvKept, PTL DEF Spec, OverviewNotOutdated
=============================================================================
