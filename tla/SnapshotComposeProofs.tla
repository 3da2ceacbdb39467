----------------------- MODULE SnapshotComposeProofs -----------------------
(***************************************************************************)
(* Proofs that the scores of SnapshotCompose tell what was measured, in    *)
(* every order of reports, switches and time, for any sensors, placements  *)
(* and spans.                                                              *)
(*                                                                         *)
(* The types are inductive as they stand.  What everything else rests on   *)
(* is that Latest is well defined: the measurements of a sensor are        *)
(* finitely many and the order of end and ID is strict, so one of them is  *)
(* last and no other is.                                                   *)
(***************************************************************************)
EXTENDS SnapshotCompose, FiniteLemmas, SequenceTheorems

\* The measurement i is later than j, or was recorded first of two that end
\* together.
Supersedes(i, j) ==
  \/ measurements[j].end < measurements[i].end
  \/ measurements[j].end = measurements[i].end /\ i < j

\* The measurement i is the one to take the rate of the sensor from.
IsLatest(i, s) ==
  /\ i \in Reading(s)
  /\ \A j \in Reading(s) : i = j \/ Supersedes(i, j)

-----------------------------------------------------------------------------
(* Types *)

LEMMA TypesInit == Init => TypeOK
<1> SUFFICES ASSUME Init PROVE TypeOK
  OBVIOUS
<1>1. measurements \in Seq(Measurement) /\ Len(measurements) = 0
  BY EmptySeq DEF Init
<1>2. DOMAIN measurements = {}
  BY <1>1, LenProperties
<1>3. now \in Time /\ Len(measurements) <= MaxMeasurements
  BY <1>1, SpanAssumption DEF Init, Time
<1>4. state \in [Camera -> State]
  BY DEF Init, State
<1> QED
  BY <1>1, <1>2, <1>3, <1>4 DEF TypeOK

LEMMA ReportKeepsTypes ==
  ASSUME TypeOK, NEW s \in Sensor, NEW end \in Time, NEW people \in BOOLEAN,
         Report(s, end, people)
  PROVE  TypeOK'
<1> DEFINE m == [sensor |-> s, end |-> end, people |-> people]
<1>1. m \in Measurement
  BY DEF Measurement
<1>2. measurements \in Seq(Measurement) /\ measurements' = Append(measurements, m)
  BY DEF TypeOK, Report
<1>3. /\ measurements' \in Seq(Measurement)
      /\ Len(measurements') = Len(measurements) + 1
      /\ \A i \in 1..Len(measurements) : measurements'[i] = measurements[i]
      /\ measurements'[Len(measurements) + 1] = m
  <2> HIDE DEF m
  <2> QED
    BY <1>1, <1>2, AppendProperties
<1>4. Len(measurements') <= MaxMeasurements
  BY <1>2, <1>3, LenProperties, SpanAssumption DEF Report
<1>5. /\ DOMAIN measurements' = 1..Len(measurements) + 1
      /\ DOMAIN measurements = 1..Len(measurements)
  BY <1>2, <1>3, LenProperties
<1>6. ASSUME NEW i \in DOMAIN measurements', measurements'[i].sensor \in Camera
      PROVE  state'[measurements'[i].sensor] # "unknown"
  <2>1. CASE i \in DOMAIN measurements
    BY <2>1, <1>3, <1>5, <1>6 DEF TypeOK, Report
  <2>2. CASE i = Len(measurements) + 1
    BY <2>2, <1>3, <1>6 DEF Report
  <2> QED
    BY <2>1, <2>2, <1>2, <1>5, LenProperties
<1> QED
  BY <1>3, <1>4, <1>6 DEF TypeOK, Report

LEMMA TypesKept == TypeOK /\ [Next]_vars => TypeOK'
<1> SUFFICES ASSUME TypeOK, [Next]_vars PROVE TypeOK'
  OBVIOUS
<1>1. CASE \E s \in Sensor, end \in Time, people \in BOOLEAN : Report(s, end, people)
  BY <1>1, ReportKeepsTypes
<1>2. ASSUME NEW c \in Camera, NEW new \in State, ChangeState(c, new)
      PROVE  TypeOK'
  <2>1. state' \in [Camera -> State] /\ \A d \in Camera : state[d] # "unknown" => state'[d] # "unknown"
    BY <1>2 DEF TypeOK, ChangeState
  <2> QED
    BY <1>2, <2>1 DEF TypeOK, ChangeState
<1>3. CASE Tick
  BY <1>3, SpanAssumption DEF TypeOK, Tick, Time
<1>4. CASE UNCHANGED vars
  BY <1>4 DEF TypeOK, vars
<1> QED
  BY <1>1, <1>2, <1>3, <1>4 DEF Next

\* The table, the states and the clock keep their types, and a sensor that has
\* measured has been registered (RecordAll, ReportMeasurements).
THEOREM ComposeTypes == Spec => []TypeOK
  BY TypesInit, TypesKept, PTL DEF Spec

-----------------------------------------------------------------------------
(* The latest measurement of a sensor *)

\* What a row holds.
LEMMA RowTypes ==
  ASSUME TypeOK
  PROVE  /\ Len(measurements) \in Nat
         /\ DOMAIN measurements = 1..Len(measurements)
         /\ \A i \in DOMAIN measurements : /\ measurements[i].end \in Nat
                                           /\ measurements[i].people \in BOOLEAN
<1>1. measurements \in Seq(Measurement)
  BY DEF TypeOK
<1>2. Len(measurements) \in Nat /\ DOMAIN measurements = 1..Len(measurements)
  BY <1>1, LenProperties
<1>3. \A i \in DOMAIN measurements : measurements[i] \in Measurement
  BY <1>1, <1>2, ElementOfSeq
<1> QED
  BY <1>2, <1>3, SpanAssumption DEF Measurement, Time

\* The rows that count for a sensor are finitely many.
LEMMA RowsOfReading ==
  ASSUME TypeOK, NEW s
  PROVE  /\ IsFiniteSet(Reading(s))
         /\ Reading(s) \subseteq Nat
         /\ \A i \in Reading(s) : /\ i \in DOMAIN measurements
                                  /\ measurements[i].end \in Nat
                                  /\ measurements[i].sensor = s
<1>1. Reading(s) \subseteq DOMAIN measurements
  BY DEF Reading, ListWindowEndingSince
<1>2. IsFiniteSet(DOMAIN measurements)
  BY RowTypes, FS_Interval
<1>3. IsFiniteSet(Reading(s))
  BY <1>1, <1>2, FS_Subset
<1> QED
  BY <1>1, <1>3, RowTypes DEF Reading

\* A sensor with measurements has a latest one.
LEMMA LatestExists ==
  ASSUME TypeOK, NEW s, Reading(s) # {}
  PROVE  \E i \in Reading(s) : IsLatest(i, s)
<1> DEFINE R == {p \in Reading(s) \X Reading(s) : Supersedes(p[2], p[1])}
<1>1. /\ IsFiniteSet(Reading(s))
      /\ Reading(s) \subseteq Nat
      /\ \A i \in Reading(s) : measurements[i].end \in Nat
  BY RowsOfReading
<1>2. \A i, j \in Reading(s) : <<i, j>> \in R <=> Supersedes(j, i)
  OBVIOUS
<1>3. \A i \in Reading(s) : ~ Supersedes(i, i)
  BY <1>1 DEF Supersedes
<1>4. \A i, j, k \in Reading(s) : Supersedes(j, i) /\ Supersedes(k, j) => Supersedes(k, i)
  BY <1>1 DEF Supersedes
<1>5. \A i, j \in Reading(s) : i = j \/ Supersedes(i, j) \/ Supersedes(j, i)
  BY <1>1 DEF Supersedes
<1> HIDE DEF R
<1>6. \A i \in Reading(s) : <<i, i>> \notin R
  BY <1>2, <1>3
<1>7. \A i, j, k \in Reading(s) : <<i, j>> \in R /\ <<j, k>> \in R => <<i, k>> \in R
  BY <1>2, <1>4
<1>8. PICK i \in Reading(s) : \A j \in Reading(s) : <<i, j>> \notin R
  BY <1>1, <1>6, <1>7, LastExists
<1> QED
  BY <1>2, <1>5, <1>8 DEF IsLatest

\* It has no other.
LEMMA LatestUnique ==
  ASSUME TypeOK, NEW s, NEW i, NEW j, IsLatest(i, s), IsLatest(j, s)
  PROVE  i = j
<1>1. i \in Reading(s) /\ j \in Reading(s)
  BY DEF IsLatest
<1>2. i \in Nat /\ j \in Nat /\ measurements[i].end \in Nat /\ measurements[j].end \in Nat
  BY <1>1, RowsOfReading
<1> QED
  BY <1>1, <1>2 DEF IsLatest, Supersedes

\* And it is the one that Latest chooses.
LEMMA LatestIsLatest ==
  ASSUME TypeOK, NEW s
  PROVE  /\ Reading(s) # {} => IsLatest(Latest(s), s)
         /\ \A i : IsLatest(i, s) => Latest(s) = i
<1>1. \A i \in Reading(s) :
        IsLatest(i, s) <=> \A j \in Reading(s) :
                             \/ measurements[j].end < measurements[i].end
                             \/ measurements[j].end = measurements[i].end /\ i <= j
  BY RowsOfReading DEF IsLatest, Supersedes
<1>2. ASSUME Reading(s) # {} PROVE IsLatest(Latest(s), s)
  <2>1. PICK i \in Reading(s) : IsLatest(i, s)
    BY <1>2, LatestExists
  <2> QED
    BY <2>1, <1>1 DEF Latest
<1>3. \A i : IsLatest(i, s) => Reading(s) # {}
  BY DEF IsLatest
<1> QED
  BY <1>2, <1>3, LatestUnique

\* What the latest measurement of a sensor is like.
LEMMA LatestReads ==
  ASSUME TypeOK, NEW s, Reading(s) # {}
  PROVE  /\ Latest(s) \in Reading(s)
         /\ \A j \in Reading(s) : measurements[j].end <= measurements[Latest(s)].end
<1>1. IsLatest(Latest(s), s)
  BY LatestIsLatest
<1>2. \A j \in Reading(s) : measurements[j].end \in Nat
  BY RowsOfReading
<1> QED
  BY <1>1, <1>2 DEF IsLatest, Supersedes

-----------------------------------------------------------------------------
(* Scores *)

\* The measurements that count for a camera, in terms of the window they report.
LEMMA CameraReading ==
  ASSUME TypeOK, NEW s \in Camera, NEW i
  PROVE  i \in Reading(s) <=> /\ i \in DOMAIN measurements
                              /\ measurements[i].sensor = s
                              /\ InUse(s)
                              /\ measurements[i].people
                              /\ now - measurements[i].end <= MaxHold
<1>1. state[s] \in State
  BY DEF TypeOK
<1>2. InUse(s) <=> state[s] \notin {"unknown", "disabled"}
  BY <1>1 DEF InUse, State
<1>3. i \in DOMAIN measurements => measurements[i].end \in Nat
  BY RowTypes
<1>4. now \in Nat /\ MaxHold \in Nat
  BY SpanAssumption DEF TypeOK, Time
<1> QED
  BY <1>2, <1>3, <1>4 DEF Reading, ListWindowEndingSince, Usable

\* The cameras placed at an anchor that has them registered.
LEMMA CamerasOf ==
  ASSUME TypeOK, NEW a \in Anchor, NEW s \in Camera
  PROVE  /\ s \in Sensors(a) <=> s \in SensorsOf[a] /\ state[s] # "unknown"
         /\ Reading(s) # {} => state[s] # "unknown"
  BY CameraReading DEF Sensors, InUse

\* How the confidence of a score comes about.
LEMMA ConfidenceOf ==
  ASSUME NEW a, Sensors(a) \cap Camera # {}
  PROVE  /\ Compose(a).confidence = "ok" <=> Fresh(a) # {}
         /\ Compose(a).confidence = "invalid" <=> Measuring(a) = {}
  BY DEF Compose, Averaged, Held, Fresh

LEMMA ConfidenceFits == TypeOK => ConfidenceTellsLastMeasurement
<1> SUFFICES ASSUME TypeOK, NEW a \in Scored, Sensors(a) \cap Camera # {}
             PROVE  /\ Compose(a).confidence = "ok" <=> /\ MeasuredWithin(a, Window)
                                                        /\ MeasuredWithin(a, MaxHold + 1)
                    /\ Compose(a).confidence = "invalid" <=> ~MeasuredWithin(a, MaxHold + 1)
  BY DEF ConfidenceTellsLastMeasurement
<1>1. a \in Anchor
  BY DEF Scored
<1>2. now \in Nat /\ MaxHold \in Nat /\ Window \in Nat
  BY SpanAssumption DEF TypeOK, Time
<1>3. \A i \in DOMAIN measurements : measurements[i].end \in Nat
  BY RowTypes
<1>4. \A s \in Camera : \A i : i \in Reading(s) => s \in Measuring(a) \/ s \notin SensorsOf[a]
  BY <1>1, CamerasOf DEF Measuring
<1>5. Measuring(a) # {} <=> MeasuredWithin(a, MaxHold + 1)
  <2>1. ASSUME NEW s \in Measuring(a)
        PROVE  MeasuredWithin(a, MaxHold + 1)
    <3>1. s \in Camera /\ s \in SensorsOf[a] /\ Reading(s) # {}
      BY DEF Measuring, Sensors
    <3>2. PICK i \in Reading(s) : TRUE
      BY <3>1
    <3> QED
      BY <3>1, <3>2, <1>2, <1>3, CameraReading DEF MeasuredWithin
  <2>2. ASSUME MeasuredWithin(a, MaxHold + 1)
        PROVE  Measuring(a) # {}
    <3>1. PICK s \in SensorsOf[a] \cap Camera, i \in DOMAIN measurements :
             /\ measurements[i].sensor = s
             /\ InUse(s)
             /\ measurements[i].people
             /\ now - measurements[i].end < MaxHold + 1
      BY <2>2 DEF MeasuredWithin
    <3>2. i \in Reading(s)
      BY <3>1, <1>2, <1>3, CameraReading
    <3> QED
      BY <3>2, <1>4
  <2> QED
    BY <2>1, <2>2
<1>6. Fresh(a) # {} <=> MeasuredWithin(a, Window) /\ MeasuredWithin(a, MaxHold + 1)
  <2>1. ASSUME NEW s \in Fresh(a)
        PROVE  MeasuredWithin(a, Window) /\ MeasuredWithin(a, MaxHold + 1)
    <3>1. s \in Measuring(a) /\ InWindow(Latest(s))
      BY DEF Fresh
    <3>2. s \in Camera /\ s \in SensorsOf[a] /\ Reading(s) # {}
      BY <3>1 DEF Measuring, Sensors
    <3>3. Latest(s) \in Reading(s)
      BY <3>2, LatestReads
    <3> QED
      BY <3>1, <3>2, <3>3, <1>2, <1>3, <1>5, CameraReading DEF MeasuredWithin, InWindow
  <2>2. ASSUME MeasuredWithin(a, Window), MeasuredWithin(a, MaxHold + 1)
        PROVE  Fresh(a) # {}
    <3>1. PICK s \in SensorsOf[a] \cap Camera, i \in DOMAIN measurements :
             /\ measurements[i].sensor = s
             /\ InUse(s)
             /\ measurements[i].people
             /\ now - measurements[i].end < Window
             /\ now - measurements[i].end <= MaxHold
      <4>1. CASE Window <= MaxHold
        BY <4>1, <2>2, <1>2, <1>3 DEF MeasuredWithin
      <4>2. CASE MaxHold < Window
        BY <4>2, <2>2, <1>2, <1>3 DEF MeasuredWithin
      <4> QED
        BY <4>1, <4>2, <1>2
    <3>2. i \in Reading(s) /\ s \in Measuring(a)
      BY <3>1, <1>4, CameraReading
    <3>3. /\ Latest(s) \in DOMAIN measurements
          /\ measurements[i].end <= measurements[Latest(s)].end
      BY <3>2, LatestReads, RowsOfReading
    <3>4. InWindow(Latest(s))
      BY <3>1, <3>3, <1>2, <1>3 DEF InWindow
    <3> QED
      BY <3>2, <3>4 DEF Fresh
  <2> QED
    BY <2>1, <2>2
<1> QED
  BY <1>5, <1>6, ConfidenceOf

\* Flow Control can trust the confidence it is told, however late, early, often
\* or out of order the windows arrive and however the sensors are switched
\* (NewSnapshot, compose).
THEOREM ConfidenceIsOfLastMeasurement == Spec => []ConfidenceTellsLastMeasurement
  BY ComposeTypes, ConfidenceFits, PTL

\* The cameras that a score is computed from: all fresh, or all held.
LEMMA CamerasOfScore ==
  ASSUME NEW a
  PROVE  /\ DOMAIN Compose(a).cameras \subseteq Measuring(a)
         /\ \A s \in DOMAIN Compose(a).cameras :
              /\ Compose(a).cameras[s] = CameraScore(s)
              /\ InWindow(Latest(s)) <=> Compose(a).confidence = "ok"
         /\ DOMAIN Compose(a).cameras = {} =>
              \/ Compose(a).confidence = "invalid"
              \/ Sensors(a) \cap Camera = {}
  BY DEF Compose, Averaged, Fresh, Held

LEMMA NoCameras ==
  ASSUME NEW f, f = <<>>
  PROVE  DOMAIN f = {}
<1>1. <<>> \in Seq({}) /\ Len(<<>>) = 0
  BY EmptySeq
<1> QED
  BY <1>1, LenProperties

LEMMA SubstanceFits == TypeOK => ScoresHaveSubstance
<1> SUFFICES ASSUME TypeOK, NEW a \in Scored
             PROVE  /\ Compose(a).cameras = <<>> => \/ Compose(a).confidence = "invalid"
                                                    \/ Sensors(a) \cap Camera = {}
                    /\ \A s \in DOMAIN Compose(a).cameras :
                         /\ InUse(s)
                         /\ Compose(a).cameras[s].people # {}
                         /\ \A i \in {Compose(a).cameras[s].rate} \cup Compose(a).cameras[s].people :
                              /\ i \in DOMAIN measurements
                              /\ measurements[i].sensor = s
                              /\ measurements[i].people
                              /\ now - measurements[i].end <= MaxHold
                              /\ InWindow(i) <=> Compose(a).confidence = "ok"
  BY DEF ScoresHaveSubstance
<1>1. Compose(a).cameras = <<>> => \/ Compose(a).confidence = "invalid"
                                   \/ Sensors(a) \cap Camera = {}
  BY CamerasOfScore, NoCameras
<1>2. ASSUME NEW s \in DOMAIN Compose(a).cameras
      PROVE  /\ InUse(s)
             /\ Compose(a).cameras[s].people # {}
             /\ \A i \in {Compose(a).cameras[s].rate} \cup Compose(a).cameras[s].people :
                  /\ i \in DOMAIN measurements
                  /\ measurements[i].sensor = s
                  /\ measurements[i].people
                  /\ now - measurements[i].end <= MaxHold
                  /\ InWindow(i) <=> Compose(a).confidence = "ok"
  <2>1. s \in Measuring(a) /\ Compose(a).cameras[s] = CameraScore(s)
    BY CamerasOfScore
  <2>2. InWindow(Latest(s)) <=> Compose(a).confidence = "ok"
    BY CamerasOfScore
  <2>3. s \in Camera /\ Reading(s) # {}
    BY <2>1 DEF Measuring
  <2>4. Latest(s) \in Reading(s)
    BY <2>3, LatestReads
  <2>5. \A i \in Reading(s) : /\ i \in DOMAIN measurements
                              /\ measurements[i].sensor = s
                              /\ InUse(s)
                              /\ measurements[i].people
                              /\ now - measurements[i].end <= MaxHold
    BY <2>3, CameraReading
  <2>6. /\ CameraScore(s).rate = Latest(s)
        /\ CameraScore(s).people = IF InWindow(Latest(s))
                                   THEN {i \in Reading(s) : measurements[i].people /\ InWindow(i)}
                                   ELSE {Latest(s)}
    BY DEF CameraScore
  <2>7. CASE InWindow(Latest(s))
    BY <2>1, <2>2, <2>4, <2>5, <2>6, <2>7
  <2>8. CASE ~ InWindow(Latest(s))
    BY <2>1, <2>2, <2>4, <2>5, <2>6, <2>8
  <2> QED
    BY <2>7, <2>8
<1> QED
  BY <1>1, <1>2

\* No mean is taken over nothing, and none over what should not count: windows
\* without people, of sensors switched off, or past their time
\* (averageCameraScores, mean).
THEOREM NoEmptyMeans == Spec => []ScoresHaveSubstance
  BY ComposeTypes, SubstanceFits, PTL

LEMMA DeltaFits == TypeOK => OccupancyDeltaIsCurrent
<1> SUFFICES ASSUME TypeOK, NEW a \in Scored \cap Point, FlowOccupancyDelta(a) # {}
             PROVE  /\ \E i, j \in FlowOccupancyDelta(a) :
                         measurements[i].end < measurements[j].end
                    /\ \E i \in FlowOccupancyDelta(a) : InWindow(i)
                    /\ \A i \in FlowOccupancyDelta(a) :
                         /\ InUse(measurements[i].sensor)
                         /\ now - measurements[i].end < OccupancyTrendSpan
  BY DEF OccupancyDeltaIsCurrent
<1>1. /\ Compose(a).confidence = "ok"
      /\ FlowOccupancyDelta(a) = UNION {Compose(a).cameras[s].trend : s \in DOMAIN Compose(a).cameras}
  BY DEF FlowOccupancyDelta
<1>2. ASSUME NEW s \in DOMAIN Compose(a).cameras
      PROVE  /\ s \in Camera /\ Reading(s) # {}
             /\ Compose(a).cameras[s].trend = PeopleTrend(s)
             /\ InWindow(Latest(s))
  <2>1. /\ s \in Measuring(a)
        /\ Compose(a).cameras[s] = CameraScore(s)
        /\ InWindow(Latest(s)) <=> Compose(a).confidence = "ok"
    BY CamerasOfScore
  <2> QED
    BY <1>1, <2>1 DEF Measuring, CameraScore
<1>3. \A s \in Camera : \A i \in PeopleTrend(s) :
        /\ InUse(measurements[i].sensor)
        /\ now - measurements[i].end < OccupancyTrendSpan
  BY CameraReading DEF PeopleTrend, Trend
<1>4. PICK s \in DOMAIN Compose(a).cameras : PeopleTrend(s) # {}
  BY <1>1, <1>2
<1>5. PeopleTrend(s) \subseteq FlowOccupancyDelta(a)
  BY <1>1, <1>2
<1>6. PICK i \in Trend(s), j \in Trend(s) :
        2 * (measurements[j].end - measurements[i].end) >= OccupancyTrendSpan
  BY <1>4 DEF PeopleTrend
<1>7. PeopleTrend(s) = Trend(s) /\ Trend(s) \subseteq Reading(s)
  BY <1>4 DEF PeopleTrend, Trend
<1>8. \A k \in Reading(s) : measurements[k].end \in Nat
  BY RowsOfReading
<1>9. measurements[i].end < measurements[j].end
  BY <1>6, <1>7, <1>8, SpanAssumption
<1>10. Latest(s) \in Trend(s)
  <2>1. Latest(s) \in Reading(s) /\ measurements[i].end <= measurements[Latest(s)].end
    BY <1>2, <1>6, <1>7, LatestReads
  <2>2. measurements[Latest(s)].people
    BY <1>2, <2>1, CameraReading
  <2>3. now \in Nat /\ OccupancyTrendSpan \in Nat
    BY SpanAssumption DEF TypeOK, Time
  <2>4. now - measurements[i].end < OccupancyTrendSpan
    BY <1>6 DEF Trend
  <2> QED
    BY <1>7, <1>8, <2>1, <2>2, <2>3, <2>4 DEF Trend
<1> QED
  BY <1>1, <1>2, <1>3, <1>5, <1>6, <1>7, <1>9, <1>10

\* The change of occupancy that Flow Control gets is never one of the past
\* (peopleTrend, flowObservations).
THEOREM DeltaIsOfThePresent == Spec => []OccupancyDeltaIsCurrent
  BY ComposeTypes, DeltaFits, PTL

-----------------------------------------------------------------------------
(* Steps *)

\* The same of Latest, to use it of two states.
LatestWellDefined ==
  \A s \in Sensor :
    /\ Reading(s) # {} => IsLatest(Latest(s), s)
    /\ \A i : IsLatest(i, s) => Latest(s) = i

LEMMA LatestBeforeAndAfter ==
  /\ TypeOK => LatestWellDefined
  /\ TypeOK' => LatestWellDefined'
<1>1. TypeOK => LatestWellDefined
  BY LatestIsLatest DEF LatestWellDefined
<1> QED
  BY <1>1, PTL

\* A row that is added is no earlier by its ID than those there are.
LEMMA ReadingAfterReport ==
  ASSUME TypeOK, TypeOK', NEW r \in Sensor, NEW end \in Time, NEW people \in BOOLEAN,
         Report(r, end, people), NEW s
  PROVE  /\ \A i \in DOMAIN measurements : /\ i \in DOMAIN measurements'
                                           /\ measurements'[i] = measurements[i]
         /\ Reading(s) \subseteq Reading(s)'
         /\ \A i \in Reading(s)' : /\ measurements'[i].end \in Nat
                                   /\ i \notin Reading(s) => i = Len(measurements')
         /\ \A i \in DOMAIN measurements : i < Len(measurements')
<1> DEFINE m == [sensor |-> r, end |-> end, people |-> people]
<1>1. measurements \in Seq(Measurement) /\ m \in Measurement
  BY DEF TypeOK, Measurement
<1>2. measurements' = Append(measurements, m) /\ state' = state /\ now' = now
  BY DEF Report
<1> HIDE DEF m
<1>3. /\ measurements' \in Seq(Measurement)
      /\ Len(measurements') = Len(measurements) + 1
      /\ \A i \in 1..Len(measurements) : measurements'[i] = measurements[i]
  BY <1>1, <1>2, AppendProperties
<1>4. /\ Len(measurements) \in Nat
      /\ DOMAIN measurements = 1..Len(measurements)
      /\ DOMAIN measurements' = 1..Len(measurements')
  BY <1>1, <1>3, LenProperties
<1>5. \A i \in DOMAIN measurements : /\ i \in DOMAIN measurements'
                                     /\ measurements'[i] = measurements[i]
  BY <1>3, <1>4
<1>6. \A i \in DOMAIN measurements' : i \in DOMAIN measurements \/ i = Len(measurements')
  BY <1>3, <1>4
<1>7. \A i \in DOMAIN measurements : i \in Reading(s)' <=> i \in Reading(s)
  BY <1>2, <1>5 DEF Reading, ListWindowEndingSince, Usable
<1>8. Reading(s) \subseteq DOMAIN measurements /\ Reading(s)' \subseteq DOMAIN measurements'
  BY DEF Reading, ListWindowEndingSince
<1>9. \A i \in DOMAIN measurements' : measurements'[i].end \in Nat
  <2>1. \A i \in DOMAIN measurements' : measurements'[i] \in Measurement
    BY <1>3, <1>4, ElementOfSeq
  <2> QED
    BY <2>1, SpanAssumption DEF Measurement, Time
<1>10. \A i \in DOMAIN measurements : i < Len(measurements')
  BY <1>3, <1>4
<1> QED
  BY <1>5, <1>6, <1>7, <1>8, <1>9, <1>10

\* A late or resent window takes no later one's place: of two that end together
\* the one recorded first stays (NewSnapshot, ListWindowEndingSince).
THEOREM LateReportsDoNotReplace == Spec => LateReportDoesNotReplace
<1>1. ASSUME TypeOK, TypeOK', [Next]_vars, Len(measurements') > Len(measurements)
      PROVE  LET new == measurements'[Len(measurements')] IN
             \A s \in Camera :
               /\ Reading(s) # {}
               /\ new.sensor = s => new.end <= measurements[Latest(s)].end
               => Latest(s)' = Latest(s)
  <2> SUFFICES ASSUME NEW s \in Camera, Reading(s) # {},
                      measurements'[Len(measurements')].sensor = s =>
                        measurements'[Len(measurements')].end <= measurements[Latest(s)].end
               PROVE  Latest(s)' = Latest(s)
    OBVIOUS
  <2>1. PICK r \in Sensor, end \in Time, people \in BOOLEAN : Report(r, end, people)
    <3>1. Len(measurements) \in Nat
      BY <1>1, RowTypes
    <3> QED
      BY <1>1, <3>1 DEF Next, ChangeState, Tick, vars
  <2>2. /\ \A i \in DOMAIN measurements : /\ i \in DOMAIN measurements'
                                          /\ measurements'[i] = measurements[i]
        /\ Reading(s) \subseteq Reading(s)'
        /\ \A i \in Reading(s)' : /\ measurements'[i].end \in Nat
                                  /\ i \notin Reading(s) => i = Len(measurements')
        /\ \A j \in DOMAIN measurements : j < Len(measurements')
    BY <1>1, <2>1, ReadingAfterReport
  <2>3. PICK i : i = Latest(s)
    OBVIOUS
  <2>4. IsLatest(i, s) /\ i \in Reading(s)
    BY <1>1, <2>3, LatestIsLatest DEF IsLatest
  <2>5. \A j \in Reading(s) : j \in DOMAIN measurements
    BY <1>1, RowsOfReading
  <2>6. ASSUME NEW j \in Reading(s)'
        PROVE  i = j \/ Supersedes(i, j)'
    <3>1. CASE j \in Reading(s)
      <4>1. i = j \/ Supersedes(i, j)
        BY <3>1, <2>4 DEF IsLatest
      <4>2. measurements'[i] = measurements[i] /\ measurements'[j] = measurements[j]
        BY <3>1, <2>2, <2>4, <2>5
      <4> QED
        BY <4>1, <4>2 DEF Supersedes
    <3>2. CASE j \notin Reading(s)
      <4>1. j = Len(measurements') /\ measurements'[j].sensor = s
        BY <3>2, <2>2 DEF Reading
      <4>2. measurements'[j].end <= measurements'[i].end
        BY <4>1, <2>2, <2>3, <2>4, <2>5
      <4>3. i < j
        BY <4>1, <2>2, <2>4, <2>5
      <4>4. measurements'[j].end \in Nat /\ measurements'[i].end \in Nat
        BY <2>2, <2>4
      <4> QED
        BY <4>2, <4>3, <4>4 DEF Supersedes
    <3> QED
      BY <3>1, <3>2
  <2>7. IsLatest(i, s)'
    BY <2>2, <2>4, <2>6 DEF IsLatest
  <2>8. LatestWellDefined'
    BY <1>1, LatestBeforeAndAfter
  <2>9. Latest(s)' = i
    BY <2>7, <2>8 DEF LatestWellDefined, Sensor
  <2> QED
    BY <2>3, <2>9
<1> QED
  BY <1>1, ComposeTypes, PTL DEF Spec, LateReportDoesNotReplace

\* Which sensors an anchor has changes with a registration only: the record of
\* an outage names the same ones (NewSnapshot, sensorSet, TrackSensorSets).
THEOREM OutagesAreNoSensorChange == Spec => OutageIsNoSensorChange
<1>1. ASSUME TypeOK, [Next]_vars, NEW a \in Scored, SensorSet(a)' # SensorSet(a)
      PROVE  \E c \in SensorsOf[a] \cap Camera : state[c] = "unknown" /\ state'[c] # "unknown"
  <2>1. PICK c \in SensorsOf[a] \cap Camera : (state[c] = "unknown") # (state'[c] = "unknown")
    BY <1>1 DEF SensorSet, Sensors
  <2>2. state' # state
    BY <2>1
  <2>3. PICK d \in Camera, new \in State : ChangeState(d, new)
    BY <1>1, <2>2 DEF Next, Report, Tick, vars
  <2>4. state'[c] = IF c = d THEN new ELSE state[c]
    BY <1>1, <2>3 DEF ChangeState, TypeOK
  <2> QED
    BY <2>1, <2>3, <2>4 DEF ChangeState
<1>2. TypeOK /\ [Next]_vars =>
        \A a \in Scored : SensorSet(a)' # SensorSet(a) =>
          \/ \E c \in SensorsOf[a] \cap Camera : state[c] = "unknown" /\ state'[c] # "unknown"
          \/ Compose(a).confidence # "ok"
          \/ Compose(a)'.confidence # "ok"
  BY <1>1
<1> QED
  BY <1>2, ComposeTypes, PTL DEF Spec, OutageIsNoSensorChange

\* Nothing is reported, and no page but connects or disconnects.
Ages ==
  /\ measurements' = measurements
  /\ \A c \in Camera : state'[c] # state[c] => {state[c], state'[c]} = {"active", "offline"}

LEMMA ClockAdvances ==
  ASSUME TypeOK, [Next]_vars
  PROVE  now \in Nat /\ now' \in Nat /\ now <= now'
<1>1. now \in Nat
  BY SpanAssumption DEF TypeOK, Time
<1>2. now' = now \/ now' = now + 1
  BY DEF Next, Report, ChangeState, Tick, vars
<1> QED
  BY <1>1, <1>2

\* Then measurements only drop out, and only with time.
LEMMA ReadingAges ==
  ASSUME TypeOK, TypeOK', [Next]_vars, Ages, NEW s \in Sensor
  PROVE  /\ Reading(s)' \subseteq Reading(s)
         /\ now' = now => Reading(s)' = Reading(s)
<1>1. now \in Nat /\ now' \in Nat /\ now <= now'
  BY ClockAdvances
<1>2. s \in Camera => (state'[s] \notin {"unknown", "disabled"} <=> state[s] \notin {"unknown", "disabled"})
  BY DEF Ages
<1>3. \A i \in DOMAIN measurements : measurements[i].end \in Nat
  BY RowTypes
<1>4. \A i \in DOMAIN measurements : now' - measurements[i].end <= MaxHold =>
                                       now - measurements[i].end <= MaxHold
  BY <1>1, <1>3, SpanAssumption
<1>5. \A i \in DOMAIN measurements : i \in Reading(s)' => i \in Reading(s)
  <2>1. MaxHold \in Nat
    BY SpanAssumption
  <2> QED
    BY <1>1, <1>2, <1>3, <1>4, <2>1 DEF Reading, ListWindowEndingSince, Usable, Ages
<1>6. ASSUME now' = now
      PROVE  \A i \in DOMAIN measurements : i \in Reading(s)' <=> i \in Reading(s)
  BY <1>2, <1>6 DEF Reading, ListWindowEndingSince, Usable, Ages
<1>7. Reading(s) \subseteq DOMAIN measurements /\ Reading(s)' \subseteq DOMAIN measurements
  BY DEF Reading, ListWindowEndingSince, Ages
<1> QED
  BY <1>5, <1>6, <1>7

LEMMA SensorsAge ==
  ASSUME Ages, NEW a \in Anchor
  PROVE  Sensors(a)' = Sensors(a)
<1>1. \A s \in Camera : state'[s] # "unknown" <=> state[s] # "unknown"
  BY DEF Ages
<1>2. \A s \in SensorsOf[a] : s \in Camera => (state'[s] # "unknown" <=> state[s] # "unknown")
  BY <1>1
<1> QED
  BY <1>2 DEF Sensors

\* While the clock stands still every score stays as it is.
LEMMA ScoresStay ==
  ASSUME TypeOK, TypeOK', [Next]_vars, Ages, now' = now, NEW a \in Scored
  PROVE  Compose(a)' = Compose(a)
<1>1. a \in Anchor /\ Sensors(a)' = Sensors(a)
  BY SensorsAge DEF Scored
<1>2. Sensors(a) \subseteq Sensor
  BY <1>1, PlacementAssumption DEF Sensors
<1>3. \A s \in Sensor : Reading(s)' = Reading(s)
  BY ReadingAges
<1>4. \A i : InWindow(i)' <=> InWindow(i)
  BY DEF InWindow, Ages
<1>5. measurements' = measurements
  BY DEF Ages
<1>6. ASSUME NEW s \in Sensor, Reading(s) # {}
      PROVE  Latest(s)' = Latest(s)
  <2>1. PICK i : i = Latest(s)
    OBVIOUS
  <2>2. IsLatest(i, s)
    BY <1>6, <2>1, LatestIsLatest
  <2>3. \A j : Supersedes(i, j)' <=> Supersedes(i, j)
    BY <1>5 DEF Supersedes
  <2>4. IsLatest(i, s)'
    BY <1>3, <2>2, <2>3 DEF IsLatest
  <2> QED
    BY <2>1, <2>4, LatestBeforeAndAfter DEF LatestWellDefined
<1>7. ASSUME NEW s \in Sensor
      PROVE  PeopleTrend(s)' = PeopleTrend(s)
  <2>1. Trend(s)' = Trend(s)
    BY <1>3, <1>5 DEF Trend
  <2> QED
    BY <1>5, <2>1 DEF PeopleTrend
<1>8. ASSUME NEW s \in Sensor, Reading(s) # {}
      PROVE  CameraScore(s)' = CameraScore(s)
  <2>1. /\ Latest(s)' = Latest(s)
        /\ InWindow(Latest(s))' <=> InWindow(Latest(s))
    BY <1>6, <1>8, <1>5 DEF InWindow
  <2>2. {i \in Reading(s) : measurements[i].people /\ InWindow(i)}'
        = {i \in Reading(s) : measurements[i].people /\ InWindow(i)}
    BY <1>3, <1>4, <1>5
  <2> QED
    BY <1>7, <2>1, <2>2 DEF CameraScore
<1>9. Measuring(a)' = Measuring(a)
  BY <1>1, <1>2, <1>3 DEF Measuring
<1>10. \A s \in Measuring(a) : s \in Sensor /\ Reading(s) # {}
  BY <1>2 DEF Measuring
<1>11. Fresh(a)' = Fresh(a)
  <2>1. \A s \in Measuring(a) : InWindow(Latest(s))' <=> InWindow(Latest(s))
    BY <1>5, <1>6, <1>10 DEF InWindow
  <2> QED
    BY <1>9, <2>1 DEF Fresh
<1>12. Held(a)' = Held(a)
  BY <1>9, <1>11 DEF Held
<1>13. QrCounts(a)' = QrCounts(a)
  <2>1. \A s \in Sensors(a) \cap Qr :
          {i \in Reading(s) : InWindow(i)}' = {i \in Reading(s) : InWindow(i)}
    BY <1>2, <1>3, <1>4
  <2> QED
    BY <1>1, <2>1 DEF QrCounts
<1>14. ASSUME NEW S \in SUBSET Measuring(a)
       PROVE  [s \in S |-> CameraScore(s)]' = [s \in S |-> CameraScore(s)]
  BY <1>8, <1>10
<1>15. /\ [s \in Fresh(a) |-> CameraScore(s)]' = [s \in Fresh(a) |-> CameraScore(s)]
       /\ [s \in Held(a) |-> CameraScore(s)]' = [s \in Held(a) |-> CameraScore(s)]
  BY <1>8, <1>10, <1>11, <1>12 DEF Fresh, Held
<1> QED
  BY <1>1, <1>11, <1>12, <1>13, <1>15 DEF Compose, Averaged

\* With time they only lose confidence.
LEMMA ScoresWeaken ==
  ASSUME TypeOK, TypeOK', [Next]_vars, Ages, NEW a \in Scored
  PROVE  Rank(Compose(a)'.confidence) <= Rank(Compose(a).confidence)
<1>1. a \in Anchor /\ Sensors(a)' = Sensors(a)
  BY SensorsAge DEF Scored
<1>2. Sensors(a) \subseteq Sensor
  BY <1>1, PlacementAssumption DEF Sensors
<1>3. \A s \in Sensor : Reading(s)' \subseteq Reading(s)
  BY ReadingAges
<1>4. Measuring(a)' \subseteq Measuring(a)
  BY <1>1, <1>2, <1>3 DEF Measuring
<1>5. ASSUME NEW s \in Fresh(a)'
      PROVE  s \in Fresh(a)
  <2>1. s \in Measuring(a)' /\ s \in Measuring(a) /\ InWindow(Latest(s))'
    BY <1>4 DEF Fresh
  <2>2. s \in Sensor /\ Reading(s)' # {} /\ Reading(s) # {}
    BY <1>2, <2>1 DEF Measuring
  <2>3. PICK i : i = Latest(s)'
    OBVIOUS
  <2>4. IsLatest(Latest(s), s)' /\ Latest(s)' \in Reading(s)'
    BY <2>2, LatestBeforeAndAfter DEF LatestWellDefined, IsLatest
  <2>5. i \in Reading(s)
    BY <1>3, <2>2, <2>3, <2>4
  <2>6. measurements[i].end <= measurements[Latest(s)].end
    BY <2>2, <2>5, LatestReads
  <2>7. measurements[i].end > now' - Window
    BY <2>1, <2>3 DEF InWindow, Ages
  <2>8. measurements[i].end \in Nat /\ measurements[Latest(s)].end \in Nat
    BY <2>2, <2>5, LatestReads, RowsOfReading
  <2>9. now \in Nat /\ now' \in Nat /\ now <= now' /\ Window \in Nat
    BY ClockAdvances, SpanAssumption
  <2>10. InWindow(Latest(s))
    BY <2>6, <2>7, <2>8, <2>9 DEF InWindow
  <2> QED
    BY <2>1, <2>10 DEF Fresh
<1>6. Rank("ok") = 2 /\ Rank("hold") = 1 /\ Rank("invalid") = 0
  BY DEF Rank
<1>7. CASE Sensors(a) \cap Camera = {}
  <2>1. Compose(a).confidence = "ok"
    BY <1>7 DEF Compose, Averaged, Fresh, Held, Measuring
  <2>2. Compose(a)'.confidence \in {"ok", "hold", "invalid"}
    BY DEF Compose, Averaged
  <2> QED
    BY <1>6, <2>1, <2>2
<1>8. CASE Sensors(a) \cap Camera # {}
  <2>1. /\ Compose(a).confidence \in {"ok", "hold", "invalid"}
        /\ Compose(a)'.confidence \in {"ok", "hold", "invalid"}
    BY DEF Compose, Averaged
  <2>2. /\ Compose(a).confidence = "ok" <=> Fresh(a) # {}
        /\ Compose(a).confidence = "invalid" <=> Measuring(a) = {}
    BY <1>8, ConfidenceOf
  <2>3. /\ Compose(a)'.confidence = "ok" <=> Fresh(a)' # {}
        /\ Compose(a)'.confidence = "invalid" <=> Measuring(a)' = {}
    BY <1>1, <1>8 DEF Compose, Averaged, Held, Fresh
  <2> QED
    BY <1>4, <1>5, <1>6, <2>1, <2>2, <2>3
<1> QED
  BY <1>7, <1>8

\* Without a report or a switch a score ages and nothing else, and a page that
\* disconnects or returns changes no score (NewSnapshot, ObservationPointStates).
THEOREM ScoresAge == Spec => ScoresOnlyAge
<1>1. ASSUME TypeOK, TypeOK', [Next]_vars,
             measurements' = measurements,
             \A c \in Camera : state'[c] # state[c] =>
               {state[c], state'[c]} = {"active", "offline"}
      PROVE  \A a \in Scored :
               IF now' = now THEN Compose(a)' = Compose(a)
               ELSE Rank(Compose(a)'.confidence) <= Rank(Compose(a).confidence)
  <2>1. Ages
    BY <1>1 DEF Ages
  <2> QED
    BY <1>1, <2>1, ScoresStay, ScoresWeaken
<1> QED
  BY <1>1, ComposeTypes, PTL DEF Spec, ScoresOnlyAge
=============================================================================
