--------------------------- MODULE SnapshotCompose ---------------------------
(***************************************************************************)
(* The scores of an event's graph: NewSnapshot (domain/snapshot.go), from  *)
(* the measurements and the states of their sensors at the moment of a     *)
(* cycle, and what flowObservations (infra/connect/flow_client.go) makes   *)
(* of them for Flow Control.                                               *)
(*                                                                         *)
(* NewSnapshot keeps nothing, so its results are operators of the state:   *)
(* a cycle may run in any state.  Time is what makes them hard.  Reports   *)
(* come late, out of order, resent and dated ahead by the clock of a page, *)
(* and sensors are switched off and on while their measurements age.       *)
(*                                                                         *)
(* A mean, a rate or a slope is stood for by the measurements it is        *)
(* computed from, named by their position in the table.  A mean over no    *)
(* measurement is then an empty set, where the code would have NaN.        *)
(***************************************************************************)
EXTENDS Integers, Sequences

CONSTANTS
  Camera,              \* observation points of pages
  Qr,                  \* locations of QR codes
  Point, Route,        \* points and routes that sensors are placed at
  Node,                \* the points that the graph has
  SensorsOf,           \* the sensors placed at each anchor
  Window,              \* length of the window of a cycle
  MaxHold,             \* how long a measurement is held
  OccupancyTrendSpan,  \* measurements a trend is drawn from
  MaxAhead,            \* bound on how far the clock of a page runs ahead
  MaxMeasurements,     \* bound on the table
  MaxTime              \* bound on the clock

Sensor == Camera \cup Qr

\* Sensors are placed at points and along routes.
Anchor == Point \cup Route

ASSUME PlacementAssumption ==
  /\ Camera \cap Qr = {}
  /\ Node \subseteq Point
  /\ SensorsOf \in [Anchor -> SUBSET Sensor]

ASSUME SpanAssumption ==
  /\ {Window, OccupancyTrendSpan, MaxHold} \subseteq Nat \ {0}
  /\ OccupancyTrendSpan <= MaxHold
  /\ {MaxAhead, MaxTime, MaxMeasurements} \subseteq Nat

VARIABLES
  measurements,   \* rows of measurements, in the order of their IDs
  state,          \* state of each camera sensor; "unknown": not registered
  now             \* the clock

vars == <<measurements, state, now>>

State == {"unknown", "active", "offline", "disabled"}

Time == 0..MaxTime

\* A measurement whose window ends at end; people: some frame was examined.
Measurement == [sensor: Sensor, end: Time, people: BOOLEAN]

TypeOK ==
  /\ measurements \in Seq(Measurement)
  /\ Len(measurements) <= MaxMeasurements
  /\ state \in [Camera -> State]
  /\ now \in Time
  /\ \A i \in DOMAIN measurements : measurements[i].sensor \in Camera =>
       state[measurements[i].sensor] # "unknown"

Init ==
  /\ measurements = <<>>
  /\ state = [c \in Camera |-> "unknown"]
  /\ now = 0

-----------------------------------------------------------------------------
(* Readings: the first loop of NewSnapshot *)

\* Mutant of Usable: the sensor of a disconnected page is left out.
UsableIfConnected(m) ==
  /\ m.sensor \in Camera => state[m.sensor] = "active" /\ m.people
  /\ now - m.end <= MaxHold

\* Mutant of Usable: the limit itself is excluded.
UsableBeforeLimit(m) ==
  /\ m.sensor \in Camera =>
       state[m.sensor] \notin {"unknown", "disabled"} /\ m.people
  /\ now - m.end < MaxHold

Usable(m) ==
  /\ m.sensor \in Camera =>
       state[m.sensor] \notin {"unknown", "disabled"} /\ m.people
  /\ now - m.end <= MaxHold

\* The rows that Run reads; the query bounds them by MaxHold as well.
ListWindowEndingSince ==
  {i \in DOMAIN measurements : measurements[i].end >= now - MaxHold}

\* The measurements that count for a sensor.
Reading(s) ==
  {i \in ListWindowEndingSince :
     measurements[i].sensor = s /\ Usable(measurements[i])}

\* In the window, which has no end: a measurement dated ahead is in it.
InWindow(i) == measurements[i].end > now - Window

\* Mutant of Latest: the row that came last.
LastReceived(s) == CHOOSE i \in Reading(s) : \A j \in Reading(s) : j <= i

\* Rows are read ORDER BY window_end, id, and the first of those that end
\* last is kept.
Latest(s) ==
  LET reading == Reading(s) IN
  CHOOSE i \in reading : \A j \in reading :
    \/ measurements[j].end < measurements[i].end
    \/ measurements[j].end = measurements[i].end /\ i <= j

Trend(s) ==
  {i \in Reading(s) :
     measurements[i].people /\ now - measurements[i].end < OccupancyTrendSpan}

\* Mutant of PeopleTrend: two measurements are enough.
TrendOfTwo(s) ==
  IF \E i, j \in Trend(s) : i # j THEN Trend(s) ELSE {}

\* No slope unless the measurements lie half a span apart.
PeopleTrend(s) ==
  LET trend == Trend(s) IN
  IF \E i, j \in trend :
       2 * (measurements[j].end - measurements[i].end) >= OccupancyTrendSpan
  THEN trend ELSE {}

-----------------------------------------------------------------------------
(* Scores: the second loop of NewSnapshot, and compose *)

\* The sensors of an anchor, whether they measure or not.
Sensors(a) == {s \in SensorsOf[a] : s \in Camera => state[s] # "unknown"}

Measuring(a) == {s \in Sensors(a) \cap Camera : Reading(s) # {}}

Fresh(a) == {s \in Measuring(a) : InWindow(Latest(s))}

Held(a) == Measuring(a) \ Fresh(a)

CameraScore(s) ==
  [rate |-> Latest(s),
   people |-> IF InWindow(Latest(s))
              THEN {i \in Reading(s) : measurements[i].people /\ InWindow(i)}
              ELSE {Latest(s)},
   trend |-> PeopleTrend(s)]

QrCounts(a) ==
  UNION {{i \in Reading(s) : InWindow(i)} : s \in Sensors(a) \cap Qr}

Averaged(confidence, cameras, counts) ==
  [confidence |-> confidence,
   cameras |-> [s \in cameras |-> CameraScore(s)],
   counts |-> counts]

\* Mutant of Compose: held sensors are averaged with the fresh ones.
ComposeAll(a) ==
  IF Fresh(a) # {} THEN Averaged("ok", Measuring(a), QrCounts(a))
  ELSE IF Held(a) # {} THEN Averaged("hold", Held(a), QrCounts(a))
  ELSE IF Sensors(a) \cap Camera # {} THEN Averaged("invalid", {}, {})
  ELSE Averaged("ok", {}, QrCounts(a))

\* The score of an anchor that has sensors.
Compose(a) ==
  LET fresh == Fresh(a)
      held == Held(a)
  IN
  IF fresh # {} THEN Averaged("ok", fresh, QrCounts(a))
  ELSE IF held # {} THEN Averaged("hold", held, QrCounts(a))
  ELSE IF Sensors(a) \cap Camera # {} THEN Averaged("invalid", {}, {})
  ELSE Averaged("ok", {}, QrCounts(a))

Scored == {a \in Anchor : Sensors(a) # {}}

\* Mutant of SensorSet: only the cameras that the score is computed from.
SensorSetMeasuring(a) == Fresh(a) \cup (Sensors(a) \cap Qr)

\* The sensors recorded with a score that is "ok", to tell a change by:
\* distinctSensors.
SensorSet(a) == Sensors(a)

\* OccupancyDelta of a point as Flow Control gets it: not at all for a point that the
\* graph does not have or one with QR codes, whose scores it does not get, and not
\* while the score is held.
FlowOccupancyDelta(a) ==
  LET score == Compose(a) IN
  IF a \notin Node \/ Sensors(a) \cap Qr # {} \/ score.confidence # "ok" THEN {}
  ELSE UNION {score.cameras[s].trend : s \in DOMAIN score.cameras}

-----------------------------------------------------------------------------
(* What changes the scores *)

\* Mutant of Report: the points of the page are not looked up.
ReportOfAnySensor(s, end, people) ==
  /\ Len(measurements) < MaxMeasurements
  /\ end <= now + MaxAhead
  /\ measurements' = Append(measurements,
                            [sensor |-> s, end |-> end, people |-> people])
  /\ UNCHANGED <<state, now>>

\* ReportMeasurements records a window; a page switched off still reports,
\* one that is not registered is refused.
Report(s, end, people) ==
  /\ Len(measurements) < MaxMeasurements
  /\ end <= now + MaxAhead
  /\ s \in Camera => state[s] # "unknown"
  /\ measurements' = Append(measurements,
                            [sensor |-> s, end |-> end, people |-> people])
  /\ UNCHANGED <<state, now>>

\* A page is registered, connected or not; its heartbeats stop and return; the
\* sensor is switched off and on.
ChangeState(c, new) ==
  /\ new \notin {state[c], "unknown"}
  /\ state' = [state EXCEPT ![c] = new]
  /\ UNCHANGED <<measurements, now>>

Tick ==
  /\ now < MaxTime
  /\ now' = now + 1
  /\ UNCHANGED <<measurements, state>>

Next ==
  \/ \E s \in Sensor, end \in Time, people \in BOOLEAN : Report(s, end, people)
  \/ \E c \in Camera, new \in State : ChangeState(c, new)
  \/ Tick

Spec == Init /\ [][Next]_vars

-----------------------------------------------------------------------------
(* Properties *)

InUse(s) == s \in Camera => state[s] \in {"active", "offline"}

\* Some camera of the anchor, switched on, has a window with people in it
\* that ended less than span ago.
MeasuredWithin(a, span) ==
  \E s \in SensorsOf[a] \cap Camera, i \in DOMAIN measurements :
    /\ measurements[i].sensor = s
    /\ InUse(s)
    /\ measurements[i].people
    /\ now - measurements[i].end < span

\* Flow Control is told of each anchor with cameras how far to trust it:
\* OK if one of them measured in the window, HOLD if one did in the last
\* MaxHold, the limit included, and INVALID otherwise, in whatever order the
\* reports came and the sensors were switched (NewSnapshot, compose).
ConfidenceTellsLastMeasurement ==
  \A a \in Scored : Sensors(a) \cap Camera # {} =>
    LET confidence == Compose(a).confidence IN
    /\ confidence = "ok" <=> /\ MeasuredWithin(a, Window)
                             /\ MeasuredWithin(a, MaxHold + 1)
    /\ confidence = "invalid" <=> ~MeasuredWithin(a, MaxHold + 1)

\* Nothing is averaged over nothing, and no measurement without people, of a
\* sensor switched off or past its time takes part: a score that is not
\* invalid has cameras (unless the anchor has none), each of them a
\* measurement to take its rate from and people to take the mean of; fresh
\* cameras are never mixed with held ones (averageCameraScores, mean).
ScoresHaveSubstance ==
  \A a \in Scored :
    LET score == Compose(a) IN
    /\ score.cameras = <<>> => \/ score.confidence = "invalid"
                               \/ Sensors(a) \cap Camera = {}
    /\ \A s \in DOMAIN score.cameras :
         LET camera == score.cameras[s] IN
         /\ InUse(s)
         /\ camera.people # {}
         /\ \A i \in {camera.rate} \cup camera.people :
              /\ i \in DOMAIN measurements
              /\ measurements[i].sensor = s
              /\ measurements[i].people
              /\ now - measurements[i].end <= MaxHold
              /\ InWindow(i) <=> score.confidence = "ok"

\* The change of occupancy sent to Flow Control is a slope of the present: it
\* comes from measurements of the last OccupancyTrendSpan, at two times or
\* more, and only for an anchor with a sensor that measured in the window
\* (peopleTrend, flowObservations).
OccupancyDeltaIsCurrent ==
  \A a \in Scored \cap Point :
    LET delta == FlowOccupancyDelta(a) IN
    delta # {} =>
      /\ \E i, j \in delta : measurements[i].end < measurements[j].end
      /\ \E i \in delta : InWindow(i)
      /\ \A i \in delta : /\ InUse(measurements[i].sensor)
                          /\ now - measurements[i].end < OccupancyTrendSpan

\* docs/observation_spec.md:399: an anchor whose sensors fail, are switched off or
\* lose their page and are back has not changed its sensors.  From one snapshot
\* with a score to the next only a camera that was registered changes them
\* (NewSnapshot, sensorSet, TrackSensorSets).
OutageIsNoSensorChange ==
  [][\A a \in Scored : SensorSet(a)' # SensorSet(a) =>
       \/ \E c \in SensorsOf[a] \cap Camera : state[c] = "unknown" /\ state'[c] # "unknown"
       \/ Compose(a).confidence # "ok"
       \/ Compose(a)'.confidence # "ok"]_vars

Rank(confidence) ==
  CASE confidence = "ok" -> 2 [] confidence = "hold" -> 1 [] OTHER -> 0

\* Without a new report or a switch, the score of an anchor only ages, from OK
\* over HOLD to INVALID; and that a page disconnects or returns changes no
\* score (NewSnapshot, ObservationPointStates).
ScoresOnlyAge ==
  [][/\ measurements' = measurements
     /\ \A c \in Camera : state'[c] # state[c] =>
          {state[c], state'[c]} = {"active", "offline"}
     => \A a \in Scored :
          IF now' = now THEN Compose(a)' = Compose(a)
          ELSE Rank(Compose(a)'.confidence) <= Rank(Compose(a).confidence)]_vars

\* A window that is resent or reported late does not take the place of a later
\* one: the camera keeps the rate it had (NewSnapshot, ListWindowEndingSince).
LateReportDoesNotReplace ==
  [][Len(measurements') > Len(measurements) =>
       LET new == measurements'[Len(measurements')] IN
       \A s \in Camera :
         /\ Reading(s) # {}
         /\ new.sensor = s => new.end <= measurements[Latest(s)].end
         => Latest(s)' = Latest(s)]_vars
=============================================================================
