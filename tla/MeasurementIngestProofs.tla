----------------------- MODULE MeasurementIngestProofs -----------------------
(***************************************************************************)
(* Proofs about MeasurementIngest, for any number of reports and windows:  *)
(* the counts answered are exact, a failed report is recorded whole or not *)
(* at all, and the transactions implement MeasurementLedger.               *)
(*                                                                         *)
(* The argument is the unique index: a window that a transaction inserted  *)
(* and did not commit is in no other transaction and not yet stored, so    *)
(* the commit stores exactly the windows that were counted.                *)
(***************************************************************************)
EXTENDS MeasurementIngest, FiniteSetTheorems, TLAPS

\* How far a report is, by its step.
Stage(r) ==
  LET k == report[r] IN
  /\ k.step # "done" => k.error = "none"
  /\ k.step = "new" => k.measurements = <<>> /\ ~k.late
  /\ k.step \in {"new", "admit"} =>
       k.next = 1 /\ k.inserted = {} /\ k.accepted = 0
  /\ k.step = "insert" => k.next <= Len(k.measurements)
  /\ k.step = "commit" => k.next = Len(k.measurements) + 1
  /\ k.step \in {"cycle", "done"} => k.inserted = {}

\* What rows a report has, in its transaction and recorded.
Rows(r) ==
  LET k == report[r] IN
  /\ OfPage(k) => scans[r] = 0
  /\ ~OfPage(k) => k.inserted = {} /\ \A w \in Window : stored[w] # r
  /\ k.step \in {"new", "admit", "insert", "commit"} => LeftNothing(r)
  /\ \A w \in k.inserted : stored[w] = Null
  /\ \A i \in DOMAIN k.measurements :
       k.measurements[i].source = IF OfPage(k) THEN "edge" ELSE "qr"

\* The windows before the one to insert next are in the transaction, or were
\* recorded by another.
Passed(k) ==
  \A i \in DOMAIN k.measurements :
    i < k.next => \/ k.measurements[i].window \in k.inserted
                  \/ stored[k.measurements[i].window] # Null

\* The rows are counted as they are inserted.
Counted(r) ==
  LET k == report[r] IN
  /\ IsFiniteSet(k.inserted)
  /\ k.step \in {"insert", "commit"} =>
       /\ k.accepted < k.next
       /\ OfPage(k) => k.accepted = Cardinality(k.inserted) /\ Passed(k)
       /\ ~OfPage(k) => k.accepted = k.next - 1
  /\ k.step \in {"cycle", "done"} /\ k.error = "none" => RecordedWhole(r)

\* A report that came too late goes no further than its admission.
Stopped(r) ==
  LET k == report[r] IN
  /\ k.late => unregistered
  /\ k.late /\ OfPage(k) =>
       /\ k.step \in {"admit", "done"}
       /\ k.step = "done" => k.error # "none"
       /\ LeftNothing(r)

Refused(r) ==
  LET k == report[r] IN
  k.step = "done" /\ k.error # "none" =>
    LeftNothing(r) \/ (k.error \in Doubtful /\ RecordedWhole(r))

Own(r) == Stage(r) /\ Rows(r) /\ Counted(r) /\ Stopped(r) /\ Refused(r)

\* No two transactions hold the same window.
Apart ==
  \A r, s \in Report : r # s => report[r].inserted \cap report[s].inserted = {}

IInv ==
  /\ TypeOK
  /\ Apart
  /\ \A r \in Report : Own(r)

-----------------------------------------------------------------------------
(* Types *)

LEMMA MeasurementsShape ==
  ASSUME NEW m \in Measurements
  PROVE  /\ m \in Seq(Measurement)
         /\ Len(m) \in 0..MaxLength
         /\ DOMAIN m = 1..Len(m)
         /\ \A i \in 1..Len(m) : m[i] \in Measurement
<1>1. PICK n \in 0..MaxLength : m \in [1..n -> Measurement]
  BY DEF Measurements
<1>2. n \in Nat
  BY <1>1, IngestAssumption
<1>3. m \in Seq(Measurement) /\ Len(m) = n
  BY <1>1, <1>2
<1> QED
  BY <1>1, <1>3

LEMMA EmptyReport == <<>> \in Measurements /\ Len(<<>>) = 0 /\ DOMAIN <<>> = {}
<1>1. <<>> \in [1..0 -> Measurement] /\ 0 \in 0..MaxLength
  BY IngestAssumption
<1> QED
  BY <1>1 DEF Measurements

LEMMA CodeType ==
  ASSUME NEW error \in Error
  PROVE  CodeOf(error) \in Code
BY DEF Error, Rejection, DeviceRejection, Doubtful, End, CodeOf, Code

LEMMA NewReportType == NewReport \in State
BY EmptyReport, IngestAssumption, 0 \in 0..MaxLength, 1 \in 1..(MaxLength + 1)
   DEF NewReport, State, Error, Rejection, DeviceRejection, Doubtful, End, Code

LEMMA AnswerType ==
  ASSUME TypeOK, NEW r \in Report, NEW error \in Error
  PROVE  [report[r] EXCEPT !.step = "done", !.inserted = {}, !.error = error,
                           !.code = CodeOf(error)] \in State
BY CodeType DEF TypeOK, State

-----------------------------------------------------------------------------
(* The inductive invariant *)

LEMMA InitInv ==
  ASSUME Init
  PROVE  IInv
<1>1. TypeOK
  BY NewReportType, IngestAssumption, 0 \in 0..MaxLength DEF Init, TypeOK
<1>2. Apart
  BY DEF Init, Apart, NewReport
<1>3. ASSUME NEW r \in Report PROVE Own(r)
  <2>1. LeftNothing(r)
    BY IngestAssumption DEF Init, LeftNothing, Brought
  <2>2. OfPage(report[r])
    BY DEF Init, NewReport, OfPage, MethodOf
  <2>3. IsFiniteSet(report[r].inserted)
    BY FS_EmptySet DEF Init, NewReport
  <2> QED
    BY <2>1, <2>2, <2>3, EmptyReport DEF Init, NewReport, Own, Stage, Rows, Counted,
                            Stopped, Refused, LeftNothing, Brought
<1> QED
  BY <1>1, <1>2, <1>3 DEF IInv

\* A step that changes only report r leaves the others as they are.
LEMMA OthersKept ==
  ASSUME IInv, NEW r \in Report, NEW k \in State, Proceed(r, k),
         UNCHANGED <<unregistered, stored, scans>>,
         Own(r)',
         \A s \in Report : s # r => k.inserted \cap report[s].inserted = {}
  PROVE  IInv'
<1>1. report' = [report EXCEPT ![r] = k] /\ report \in [Report -> State]
  BY DEF IInv, TypeOK, Proceed
<1>2. TypeOK'
  BY <1>1 DEF IInv, TypeOK
<1>3. Apart'
  BY <1>1 DEF IInv, Apart
<1>4. ASSUME NEW s \in Report, s # r PROVE Own(s)'
  <2>1. report'[s] = report[s] /\ Own(s)
    BY <1>1, <1>4 DEF IInv
  <2> QED
    BY <2>1 DEF Own, Stage, Rows, Counted, Stopped, Refused, LeftNothing, Passed,
                RecordedWhole, Brought
<1> QED
  BY <1>2, <1>3, <1>4 DEF IInv

\* A step that keeps what report r has in its transaction.
LEMMA ApartKept ==
  ASSUME IInv, NEW r \in Report, NEW k \in State, k.inserted \subseteq report[r].inserted
  PROVE  \A s \in Report : s # r => k.inserted \cap report[s].inserted = {}
BY DEF IInv, Apart

\* An answer without a record: nothing was recorded before, or the answer says
\* that the report failed.
LEMMA AnswerKept ==
  ASSUME IInv, NEW r \in Report, NEW error \in Error, Answer(r, error),
         UNCHANGED <<unregistered, stored, scans>>,
         report[r].step # "done",
         error = "none" => /\ report[r].step = "admit"
                           /\ report[r].measurements = <<>>
                           /\ ~report[r].late,
         error \notin Doubtful \cup {"none"} => report[r].step # "cycle"
  PROVE  IInv'
<1> DEFINE k == report[r]
           n == [k EXCEPT !.step = "done", !.inserted = {}, !.error = error,
                          !.code = CodeOf(error)]
<1>1. n \in State /\ Proceed(r, n)
  BY AnswerType DEF IInv, Answer
<1>2. k \in State /\ report'[r] = n /\ Own(r)
  BY <1>1 DEF IInv, TypeOK, Proceed
<1>3. OfPage(report'[r]) <=> OfPage(k)
  BY <1>2 DEF OfPage, State
<1>4. LeftNothing(r)' <=> LeftNothing(r)
  BY DEF LeftNothing, Brought
<1>5. Stage(r)'
  BY <1>2 DEF Stage, State
<1>6. Rows(r)'
  BY <1>2, <1>3 DEF Own, Rows, State
<1>7. Counted(r)'
  <2>1. IsFiniteSet(report'[r].inserted)
    BY <1>2, FS_EmptySet DEF State
  <2>2. ASSUME error = "none" PROVE RecordedWhole(r)'
    <3>1. OfPage(k) /\ k.measurements = <<>> /\ k.accepted = 0
      BY <1>2, <2>2 DEF Own, Stage, OfPage, MethodOf
    <3>2. Brought(r)' = {}
      BY <1>2, <2>2 DEF Own, Rows, LeftNothing, Brought
    <3> QED
      BY <1>2, <1>3, <3>1, <3>2, FS_EmptySet, EmptyReport DEF RecordedWhole, State
  <2> QED
    BY <1>2, <2>1, <2>2 DEF Counted, State
<1>8. Stopped(r)'
  BY <1>2, <1>3, <1>4 DEF Own, Stopped, State
<1>9. Refused(r)'
  <2>1. CASE k.step # "cycle"
    BY <1>2, <1>4, <2>1 DEF Own, Rows, Refused, State
  <2>2. CASE k.step = "cycle"
    <3>1. RecordedWhole(r) /\ error \in Doubtful \cup {"none"}
      BY <1>2, <2>2 DEF Own, Stage, Counted
    <3>2. RecordedWhole(r)'
      BY <1>2, <1>3, <3>1 DEF RecordedWhole, Brought, State
    <3> QED
      BY <1>2, <3>1, <3>2 DEF Refused, State
  <2> QED
    BY <2>1, <2>2
<1>10. \A s \in Report : s # r => n.inserted \cap report[s].inserted = {}
  BY <1>1, <1>2, ApartKept DEF State
<1> QED
  BY <1>1, <1>5, <1>6, <1>7, <1>8, <1>9, <1>10, OthersKept DEF Own

\* What report r brings when its transaction is recorded, and that the rows of
\* the others stay.
LEMMA RecordedRows ==
  ASSUME IInv, NEW r \in Report, report[r].step = "commit", Record(r)
  PROVE  /\ stored' \in [Window -> Report \cup {Null}]
         /\ scans' \in [Report -> 0..MaxLength]
         /\ Brought(r)' = report[r].inserted
         /\ scans'[r] = IF OfPage(report[r]) THEN 0 ELSE report[r].accepted
         /\ \A w \in Window : stored[w] # Null => stored'[w] = stored[w]
         /\ \A w \in report[r].inserted : stored'[w] # Null
         /\ \A s \in Report : s # r => /\ Brought(s)' = Brought(s)
                                       /\ scans'[s] = scans[s]
         /\ \A s \in Report : s # r =>
              \A w \in report[s].inserted : w \in Window /\ stored'[w] = Null
<1>1. TypeOK /\ Apart /\ report[r] \in State
  BY DEF IInv, TypeOK
<1>2. \A s \in Report : Rows(s)
  BY DEF IInv, Own
<1>3. /\ stored' = [w \in Window |-> IF w \in report[r].inserted THEN r ELSE stored[w]]
      /\ scans' = [scans EXCEPT
           ![r] = IF OfPage(report[r]) THEN scans[r] ELSE report[r].accepted]
  BY DEF Record
<1>4. /\ \A s \in Report : report[s].inserted \subseteq Window
      /\ report[r].accepted \in 0..MaxLength
  BY <1>1 DEF TypeOK, State
<1>5. /\ stored' \in [Window -> Report \cup {Null}]
      /\ scans' \in [Report -> 0..MaxLength]
  BY <1>1, <1>3, <1>4 DEF TypeOK
<1>6. LeftNothing(r) /\ \A w \in report[r].inserted : stored[w] = Null
  BY <1>2 DEF Rows
<1>7. Brought(r)' = report[r].inserted
  BY <1>3, <1>4, <1>6 DEF Brought, LeftNothing
<1>8. scans'[r] = IF OfPage(report[r]) THEN 0 ELSE report[r].accepted
  BY <1>1, <1>3, <1>6 DEF TypeOK, LeftNothing, Brought
<1>9. /\ \A w \in Window : stored[w] # Null => stored'[w] = stored[w]
      /\ \A w \in report[r].inserted : stored'[w] # Null
  BY <1>3, <1>4, <1>6, IngestAssumption
<1>10. ASSUME NEW s \in Report, s # r
       PROVE  Brought(s)' = Brought(s) /\ scans'[s] = scans[s]
  BY <1>1, <1>3, <1>6, <1>10, IngestAssumption DEF Brought, TypeOK
<1>11. ASSUME NEW s \in Report, NEW w \in report[s].inserted, s # r
       PROVE  w \in Window /\ stored'[w] = Null
  <2>1. w \in Window /\ stored[w] = Null /\ w \notin report[r].inserted
    BY <1>1, <1>2, <1>4, <1>11 DEF Rows, Apart
  <2> QED
    BY <2>1, <1>3
<1> QED
  BY <1>5, <1>7, <1>8, <1>9, <1>10, <1>11

LEMMA LeftNothingBrought ==
  ASSUME NEW r \in Report
  PROVE  LeftNothing(r) <=> scans[r] = 0 /\ Brought(r) = {}
BY DEF LeftNothing, Brought

\* A step that records report r, which goes on as k.
LEMMA RecordKept ==
  ASSUME IInv, NEW r \in Report, report[r].step = "commit", Record(r),
         NEW k \in State, Proceed(r, k), k.inserted = {},
         Own(r)'
  PROVE  IInv'
<1>1. report' = [report EXCEPT ![r] = k] /\ report \in [Report -> State]
  BY DEF IInv, TypeOK, Proceed
<1>2. TypeOK'
  BY <1>1, RecordedRows DEF IInv, TypeOK, Record
<1>3. Apart'
  BY <1>1 DEF IInv, Apart
<1>4. ASSUME NEW s \in Report, s # r PROVE Own(s)'
  <2>1. report'[s] = report[s] /\ Own(s) /\ unregistered' = unregistered
    BY <1>1, <1>4 DEF IInv, Record
  <2>2. Brought(s)' = Brought(s) /\ scans'[s] = scans[s]
    BY <1>4, RecordedRows
  <2>3. LeftNothing(s)' <=> LeftNothing(s)
    BY <2>2 DEF LeftNothing, Brought
  <2>4. Stage(s)'
    BY <2>1 DEF Own, Stage
  <2>5. Rows(s)'
    <3>1. \A w \in report[s].inserted : stored'[w] = Null
      BY <1>4, RecordedRows
    <3>2. (\A w \in Window : stored[w] # s) => \A w \in Window : stored'[w] # s
      BY <2>2 DEF Brought
    <3>3. OfPage(report'[s]) <=> OfPage(report[s])
      BY <2>1
    <3> QED
      BY <2>1, <2>2, <2>3, <3>1, <3>2, <3>3 DEF Own, Rows
  <2>6. Counted(s)'
    <3>1. report[s].measurements \in Measurements
      BY <1>1 DEF State
    <3>2. \A i \in DOMAIN report[s].measurements :
            report[s].measurements[i].window \in Window
      BY <3>1, MeasurementsShape DEF Measurement
    <3>3. \A i \in DOMAIN report[s].measurements :
            stored[report[s].measurements[i].window] # Null =>
              stored'[report[s].measurements[i].window] # Null
      BY <3>2, RecordedRows
    <3>4. /\ Passed(report[s]) => Passed(report[s])'
          /\ RecordedWhole(s) => RecordedWhole(s)'
      BY <2>1, <2>2, <3>3 DEF Passed, RecordedWhole, OfPage
    <3> QED
      BY <2>1, <3>4 DEF Own, Counted, OfPage
  <2>7. Stopped(s)' /\ Refused(s)'
    <3>1. RecordedWhole(s) => RecordedWhole(s)'
      <4>1. report[s].measurements \in Measurements
        BY <1>1 DEF State
      <4>2. \A i \in DOMAIN report[s].measurements :
              stored[report[s].measurements[i].window] # Null =>
                stored'[report[s].measurements[i].window] # Null
        BY <4>1, MeasurementsShape, RecordedRows DEF Measurement
      <4> QED
        BY <2>1, <2>2, <4>2 DEF RecordedWhole, OfPage
    <3> QED
      BY <2>1, <2>3, <3>1 DEF Own, Stopped, Refused, OfPage
  <2> QED
    BY <2>4, <2>5, <2>6, <2>7 DEF Own
<1> QED
  BY <1>2, <1>3, <1>4 DEF IInv

-----------------------------------------------------------------------------
(* One lemma per action *)

LEMMA ArriveKeeps ==
  ASSUME IInv, NEW r \in Report, NEW m \in Measurements, NEW named \in BOOLEAN,
         Arrive(r, m, named)
  PROVE  IInv'
<1> DEFINE n == [report[r] EXCEPT !.step = "admit", !.late = unregistered,
                                  !.measurements = m]
<1>1. report[r] \in State /\ Own(r) /\ unregistered \in BOOLEAN /\ report[r].step = "new"
  BY DEF IInv, TypeOK, Arrive
<1>2. CASE ~WellFormed(m, named)
  <2>1. Answer(r, "invalid")
    BY <1>2 DEF Arrive
  <2> QED
    BY <1>1, <2>1, AnswerKept DEF Arrive, Error, Rejection
<1>3. CASE WellFormed(m, named)
  <2>1. n \in State /\ Proceed(r, n)
    BY <1>1, <1>3 DEF State, Arrive
  <2>2. report'[r] = n
    BY <2>1 DEF Proceed, IInv, TypeOK
  <2>3. LeftNothing(r)'
    BY <1>1 DEF Own, Rows, LeftNothing, Brought, Arrive
  <2>4. \A i \in DOMAIN m : m[i].source = IF OfPage(n) THEN "edge" ELSE "qr"
    BY <1>1, <1>3 DEF WellFormed, OfPage, MethodOf, State
  <2>5. Own(r)'
    BY <1>1, <2>2, <2>3, <2>4
       DEF Own, Stage, Rows, Counted, Stopped, Refused, State, Arrive, LeftNothing, Brought
  <2> QED
    BY <1>1, <2>1, <2>5, OthersKept, ApartKept DEF State, Arrive
<1> QED
  BY <1>2, <1>3

LEMMA RejectKeeps ==
  ASSUME IInv, NEW r \in Report, NEW error \in Error, Reject(r, error)
  PROVE  IInv'
<1>1. report[r].step = "admit" /\ error # "none" /\ Answer(r, error)
  BY DEF Reject, Rejection, DeviceRejection
<1> QED
  BY <1>1, AnswerKept DEF Reject

LEMMA AdmitKeeps ==
  ASSUME IInv, NEW r \in Report, Admit(r)
  PROVE  IInv'
<1> DEFINE k == report[r]
           n == [k EXCEPT !.step = "insert"]
<1>1. k \in State /\ Own(r) /\ k.step = "admit"
  BY DEF IInv, TypeOK, Admit
<1>2. k.late => ~OfPage(k)
  BY <1>1 DEF Own, Stopped, Admit, Registered
<1>3. CASE k.measurements = <<>> /\ Answer(r, "none")
  <2>1. OfPage(k)
    BY <1>3 DEF OfPage, MethodOf
  <2> QED
    BY <1>1, <1>2, <1>3, <2>1, AnswerKept DEF Admit, Error
<1>4. CASE k.measurements # <<>> /\ Proceed(r, n)
  <2>1. n \in State /\ report'[r] = n
    BY <1>1, <1>4 DEF State, Proceed, IInv, TypeOK
  <2>2. Len(k.measurements) \in Nat /\ Len(k.measurements) # 0
    BY <1>1, <1>4, MeasurementsShape, IngestAssumption DEF State
  <2>3. Cardinality(k.inserted) = 0
    BY <1>1, FS_EmptySet DEF Own, Stage
  <2>4. Stage(r)' /\ Rows(r)' /\ Stopped(r)' /\ Refused(r)'
    BY <1>1, <1>2, <2>1, <2>2
       DEF Own, Stage, Rows, Stopped, Refused, State, Admit, OfPage, LeftNothing, Brought
  <2>5. Counted(r)'
    <3>1. k.next = 1 /\ k.accepted = 0
      BY <1>1 DEF Own, Stage
    <3>2. Passed(n)
      BY <1>1, <3>1, MeasurementsShape DEF Passed, State
    <3>3. IsFiniteSet(k.inserted)
      BY <1>1 DEF Own, Counted
    <3>4. Passed(report[r])'
      BY <1>1, <2>1, <3>2 DEF Passed, State, Admit
    <3>5. n.step = "insert" /\ n.next = 1 /\ n.accepted = 0 /\ n.inserted = k.inserted
          /\ (OfPage(n) <=> OfPage(k))
      BY <1>1, <3>1 DEF State, OfPage
    <3> QED
      BY <2>1, <2>3, <3>3, <3>4, <3>5 DEF Counted
  <2> QED
    BY <1>1, <1>4, <2>1, <2>4, <2>5, OthersKept, ApartKept DEF State, Own, Admit
<1> QED
  BY <1>3, <1>4 DEF Admit

\* A window that is inserted was in no other transaction, and is counted.
LEMMA InsertKeeps ==
  ASSUME IInv, NEW r \in Report, Insert(r)
  PROVE  IInv'
<1> DEFINE k == report[r]
<1>1. /\ k \in State /\ Own(r) /\ k.step = "insert" /\ ~Blocked(r)
      /\ UNCHANGED <<unregistered, stored, scans>>
  BY DEF IInv, TypeOK, Insert
<1>2. /\ k.next \in Nat /\ k.accepted \in Nat /\ k.accepted < k.next
      /\ k.next \in DOMAIN k.measurements /\ k.next <= MaxLength
      /\ Len(k.measurements) \in Nat
      /\ k.measurements \in Measurements
      /\ k.measurements[k.next].window \in Window
      /\ k.next + 1 \in 1..(MaxLength + 1)
      /\ k.accepted + 1 \in 0..MaxLength
      /\ k.error = "none"
  <2>1. Len(k.measurements) \in 0..MaxLength /\ k.measurements \in Measurements
    BY <1>1, MeasurementsShape DEF State
  <2>2. /\ k.next \in 1..Len(k.measurements)
        /\ k.accepted < k.next /\ k.accepted \in Nat /\ k.error = "none"
    BY <1>1, <2>1, IngestAssumption DEF State, Own, Stage, Counted
  <2>3. k.measurements[k.next] \in Measurement /\ k.next \in DOMAIN k.measurements
    BY <2>1, <2>2, MeasurementsShape
  <2>4. k.measurements[k.next].window \in Window
    BY <2>3 DEF Measurement
  <2>5. MaxLength \in Nat /\ Len(k.measurements) \in Nat
    BY <2>1, IngestAssumption
  <2>6. /\ k.next + 1 \in 1..(MaxLength + 1) /\ k.accepted + 1 \in 0..MaxLength
        /\ k.next <= MaxLength /\ k.next \in Nat
    BY <2>1, <2>2, <2>5
  <2> QED
    BY <2>1, <2>2, <2>3, <2>4, <2>5, <2>6
<1>3. \A s \in Report : s # r /\ OfPage(k) => NextWindow(k) \notin report[s].inserted
  BY <1>1 DEF Blocked, WaitsFor
<1>4. /\ StepAfter(k) \in {"insert", "commit"}
      /\ StepAfter(k) = "insert" => k.next + 1 <= Len(k.measurements)
      /\ StepAfter(k) = "commit" => k.next = Len(k.measurements)
  BY <1>2, MeasurementsShape DEF StepAfter
<1>5. ASSUME IsNew(k), Proceed(r, WithRow(k)) PROVE IInv'
  <2> DEFINE n == WithRow(k)
  <2>1. /\ n \in State /\ report'[r] = n
        /\ n.measurements = k.measurements /\ n.late = k.late /\ n.error = "none"
        /\ n.step = StepAfter(k) /\ n.next = k.next + 1 /\ n.accepted = k.accepted + 1
        /\ n.inserted = IF OfPage(k) THEN k.inserted \cup {NextWindow(k)} ELSE k.inserted
    <3> DEFINE windows == IF OfPage(k) THEN k.inserted \cup {NextWindow(k)}
                                       ELSE k.inserted
    <3>1. n = [k EXCEPT !.step = StepAfter(k), !.next = k.next + 1,
                        !.accepted = k.accepted + 1, !.inserted = windows]
      BY <1>1 DEF WithRow, State
    <3>2. windows \in SUBSET Window
      BY <1>1, <1>2 DEF State, NextWindow
    <3>3. n \in State
      BY <1>1, <1>2, <1>4, <3>1, <3>2 DEF State
    <3>4. report'[r] = n
      BY <1>5 DEF Proceed, IInv, TypeOK
    <3> QED
      BY <1>1, <1>2, <3>1, <3>3, <3>4 DEF State
  <2>2. OfPage(n) <=> OfPage(k)
    BY <2>1 DEF OfPage
  <2>3. Stage(r)'
    BY <1>1, <1>2, <1>4, <2>1 DEF Stage
  <2>4. Rows(r)'
    BY <1>1, <1>4, <1>5, <2>1, <2>2 DEF Own, Rows, IsNew, LeftNothing, Brought
  <2>5. Counted(r)'
    <3>1. IsFiniteSet(n.inserted)
      BY <1>1, <2>1, FS_AddElement DEF Own, Counted
    <3>2. ASSUME OfPage(k)
          PROVE  n.accepted = Cardinality(n.inserted) /\ Passed(n)
      <4>1. NextWindow(k) \notin k.inserted
        BY <1>5, <3>2 DEF IsNew
      <4>2. Cardinality(n.inserted) = Cardinality(k.inserted) + 1
        BY <1>1, <2>1, <3>2, <4>1, FS_AddElement DEF Own, Counted
      <4>3. Passed(k)
        BY <1>1, <3>2 DEF Own, Counted
      <4>4. Passed(n)
        BY <1>2, <2>1, <3>2, <4>3, MeasurementsShape DEF Passed, NextWindow
      <4> QED
        BY <1>1, <2>1, <3>2, <4>2, <4>4 DEF Own, Counted
    <3>3. ~OfPage(k) => n.accepted = n.next - 1
      BY <1>1, <1>2, <2>1 DEF Own, Counted
    <3> QED
      BY <1>1, <1>2, <1>4, <2>1, <2>2, <3>1, <3>2, <3>3 DEF Counted, Passed
  <2>6. Stopped(r)' /\ Refused(r)'
    BY <1>1, <1>4, <2>1, <2>2 DEF Own, Stopped, Refused
  <2>7. \A s \in Report : s # r => n.inserted \cap report[s].inserted = {}
    BY <1>3, <2>1 DEF IInv, Apart
  <2> QED
    BY <1>1, <1>5, <2>1, <2>3, <2>4, <2>5, <2>6, <2>7, OthersKept DEF Own
<1>6. ASSUME ~IsNew(k), Proceed(r, [k EXCEPT !.step = StepAfter(k), !.next = @ + 1])
      PROVE  IInv'
  <2> DEFINE n == [k EXCEPT !.step = StepAfter(k), !.next = k.next + 1]
  <2>1. /\ n \in State /\ report'[r] = n
        /\ n.measurements = k.measurements /\ n.late = k.late /\ n.error = "none"
        /\ n.step = StepAfter(k) /\ n.next = k.next + 1 /\ n.accepted = k.accepted
        /\ n.inserted = k.inserted
    <3>1. n \in State
      BY <1>1, <1>2, <1>4 DEF State
    <3>2. report'[r] = n
      BY <1>6 DEF Proceed, IInv, TypeOK
    <3> QED
      BY <1>1, <1>2, <3>1, <3>2 DEF State
  <2>2. OfPage(n) /\ OfPage(k)
    BY <1>6, <2>1 DEF OfPage, IsNew
  <2>3. Stage(r)'
    BY <1>1, <1>2, <1>4, <2>1 DEF Stage
  <2>4. Rows(r)'
    BY <1>1, <1>4, <2>1, <2>2 DEF Own, Rows, LeftNothing, Brought
  <2>5. Counted(r)'
    <3>1. Passed(k)
      BY <1>1, <2>2 DEF Own, Counted
    <3>2. Passed(n)
      BY <1>2, <1>6, <2>1, <3>1, MeasurementsShape DEF Passed, NextWindow, IsNew
    <3> QED
      BY <1>1, <1>2, <1>4, <2>1, <2>2, <3>2 DEF Own, Counted, Passed
  <2>6. Stopped(r)' /\ Refused(r)'
    BY <1>1, <1>4, <2>1, <2>2 DEF Own, Stopped, Refused
  <2> QED
    BY <1>1, <1>6, <2>1, <2>3, <2>4, <2>5, <2>6, OthersKept, ApartKept DEF Own
<1> QED
  BY <1>5, <1>6 DEF Insert

\* What is stored when the transaction commits is what was counted.
LEMMA CommitCounts ==
  ASSUME IInv, NEW r \in Report, report[r].step = "commit", Record(r)
  PROVE  LET k == report[r] IN
         IF OfPage(k)
         THEN /\ k.accepted = Cardinality(Brought(r)')
              /\ \A i \in DOMAIN k.measurements :
                   stored'[k.measurements[i].window] # Null
         ELSE scans'[r] = Len(k.measurements) /\ k.accepted = scans'[r]
<1> DEFINE k == report[r]
<1>1. k \in State /\ Own(r)
  BY DEF IInv, TypeOK
<1>2. /\ k.measurements \in Measurements /\ Len(k.measurements) \in Nat
      /\ k.next = Len(k.measurements) + 1
  BY <1>1, MeasurementsShape, IngestAssumption DEF State, Own, Stage
<1>3. CASE OfPage(k)
  <2>1. k.accepted = Cardinality(k.inserted) /\ Passed(k)
    BY <1>1, <1>3 DEF Own, Counted
  <2>2. ASSUME NEW i \in DOMAIN k.measurements
        PROVE  stored'[k.measurements[i].window] # Null
    <3>1. i \in 1..Len(k.measurements) /\ k.measurements[i] \in Measurement
      BY <1>2, <2>2, MeasurementsShape
    <3>2. i < k.next /\ k.measurements[i].window \in Window
      BY <1>2, <3>1 DEF Measurement
    <3>3. \/ k.measurements[i].window \in k.inserted
          \/ stored[k.measurements[i].window] # Null
      BY <2>1, <2>2, <3>2 DEF Passed
    <3> QED
      BY <3>2, <3>3, RecordedRows
  <2> QED
    BY <1>3, <2>1, <2>2, RecordedRows
<1>4. CASE ~OfPage(k)
  BY <1>1, <1>2, <1>4, RecordedRows DEF Own, Counted
<1> QED
  BY <1>3, <1>4

LEMMA CommitKeeps ==
  ASSUME IInv, NEW r \in Report, Commit(r)
  PROVE  IInv'
<1> DEFINE k == report[r]
<1>1. k \in State /\ Own(r) /\ k.step = "commit" /\ Record(r)
  BY DEF IInv, TypeOK, Commit
<1>2. PICK n \in State :
        /\ Proceed(r, n)
        /\ n.step \in {"cycle", "done"} /\ n.error = "none" /\ n.inserted = {}
        /\ n.measurements = k.measurements /\ n.late = k.late /\ n.accepted = k.accepted
  <2>1. CASE Answer(r, "none")
    <3> DEFINE n == [k EXCEPT !.step = "done", !.inserted = {}, !.error = "none",
                              !.code = CodeOf("none")]
    <3>1. n \in State /\ Proceed(r, n)
      BY <1>1, <2>1, AnswerType DEF IInv, Answer, Error
    <3> QED
      BY <1>1, <3>1 DEF State
  <2>2. CASE Proceed(r, [k EXCEPT !.step = "cycle", !.inserted = {}])
    <3> DEFINE n == [k EXCEPT !.step = "cycle", !.inserted = {}]
    <3>1. n \in State /\ n.error = "none"
      BY <1>1 DEF State, Own, Stage
    <3> QED
      BY <1>1, <2>2, <3>1 DEF State
  <2> QED
    BY <2>1, <2>2 DEF Commit
<1>3. report'[r] = n
  BY <1>2 DEF Proceed, IInv, TypeOK
<1>4. OfPage(n) <=> OfPage(k)
  BY <1>2 DEF OfPage
<1>5. Stage(r)'
  BY <1>2, <1>3 DEF Stage
<1>6. Rows(r)'
  <2>1. OfPage(k) => scans'[r] = 0
    BY <1>1, RecordedRows
  <2>2. ~OfPage(k) => \A w \in Window : stored'[w] # r
    <3>1. ~OfPage(k) => Brought(r)' = {}
      BY <1>1, RecordedRows DEF Own, Rows
    <3> QED
      BY <3>1 DEF Brought
  <2> QED
    BY <1>1, <1>2, <1>3, <1>4, <2>1, <2>2 DEF Own, Rows
<1>7. Counted(r)'
  <2>1. RecordedWhole(r)'
    BY <1>1, <1>2, <1>3, <1>4, CommitCounts DEF RecordedWhole
  <2> QED
    BY <1>2, <1>3, <2>1, FS_EmptySet DEF Counted
<1>8. Stopped(r)' /\ Refused(r)'
  BY <1>1, <1>2, <1>3, <1>4 DEF Own, Stopped, Refused, Record
<1> QED
  BY <1>1, <1>2, <1>5, <1>6, <1>7, <1>8, RecordKept DEF Own

\* An answer that was lost after the commit: all rows are there.
LEMMA LostAnswerKeeps ==
  ASSUME IInv, NEW r \in Report, NEW error \in Doubtful,
         Answer(r, error), report[r].step = "commit", Record(r)
  PROVE  IInv'
<1> DEFINE k == report[r]
           n == [k EXCEPT !.step = "done", !.inserted = {}, !.error = error,
                          !.code = CodeOf(error)]
<1>1. k \in State /\ Own(r) /\ n \in State /\ Proceed(r, n)
  BY AnswerType DEF IInv, TypeOK, Answer, Error
<1>2. /\ report'[r] = n /\ n.step = "done" /\ n.inserted = {} /\ n.error = error
      /\ n.measurements = k.measurements /\ n.late = k.late /\ n.accepted = k.accepted
      /\ n.error # "none"
  BY <1>1 DEF Proceed, IInv, TypeOK, State, Doubtful, End
<1>3. OfPage(n) <=> OfPage(k)
  BY <1>2 DEF OfPage
<1>4. Rows(r)'
  <2>1. OfPage(k) => scans'[r] = 0
    BY <1>1, RecordedRows
  <2>2. ~OfPage(k) => \A w \in Window : stored'[w] # r
    <3>1. ~OfPage(k) => Brought(r)' = {}
      BY <1>1, RecordedRows DEF Own, Rows
    <3> QED
      BY <3>1 DEF Brought
  <2> QED
    BY <1>1, <1>2, <1>3, <2>1, <2>2 DEF Own, Rows
<1>5. RecordedWhole(r)'
  BY <1>2, <1>3, CommitCounts DEF RecordedWhole
<1>6. Stage(r)' /\ Counted(r)' /\ Stopped(r)' /\ Refused(r)'
  BY <1>1, <1>2, <1>3, <1>5, FS_EmptySet
     DEF Own, Stage, Counted, Stopped, Refused, Record
<1> QED
  BY <1>1, <1>2, <1>4, <1>6, RecordKept DEF Own

LEMMA FailKeeps ==
  ASSUME IInv, NEW r \in Report, Fail(r)
  PROVE  IInv'
<1>1. CASE UNCHANGED <<unregistered, stored, scans>>
  BY <1>1, AnswerKept DEF Fail, Error, Doubtful
<1>2. CASE report[r].step = "commit" /\ Record(r)
  BY <1>2, LostAnswerKeeps DEF Fail, Doubtful
<1> QED
  BY <1>1, <1>2 DEF Fail, RecordedOrNot

LEMMA GiveUpKeeps ==
  ASSUME IInv, NEW r \in Report, GiveUp(r)
  PROVE  IInv'
<1> PICK end \in End : Answer(r, end)
  BY DEF GiveUp
<1>1. CASE UNCHANGED <<unregistered, stored, scans>>
  BY <1>1, AnswerKept DEF GiveUp, Error, Doubtful, End
<1>2. CASE report[r].step = "commit" /\ Record(r)
  BY <1>2, LostAnswerKeeps DEF GiveUp, Doubtful
<1> QED
  BY <1>1, <1>2 DEF GiveUp, RecordedOrNot

\* A transaction in a ring of waits has recorded nothing.
LEMMA AbortKeeps ==
  ASSUME IInv, NEW r \in Report, Abort(r)
  PROVE  IInv'
<1>1. report[r].step = "insert"
  BY DEF Abort, Deadlocked, WaitsFor
<1> QED
  BY <1>1, AnswerKept DEF Abort, Error

\* A step of r that changes nothing the invariant speaks of.
LEMMA CancelKeeps ==
  ASSUME IInv, NEW r \in Report, Cancel(r)
  PROVE  IInv'
<1> DEFINE n == [report[r] EXCEPT !.cancelled = TRUE]
<1>1. report[r] \in State /\ Own(r) /\ Proceed(r, n)
  BY DEF IInv, TypeOK, Cancel
<1>2. n \in State /\ report'[r] = n
  BY <1>1 DEF State, Proceed, IInv, TypeOK
<1>3. /\ n.step = report[r].step /\ n.error = report[r].error
      /\ n.measurements = report[r].measurements /\ n.late = report[r].late
      /\ n.next = report[r].next /\ n.inserted = report[r].inserted
      /\ n.accepted = report[r].accepted
  BY <1>1 DEF State
<1>4. Own(r)'
  BY <1>1, <1>2, <1>3 DEF Own, Stage, Rows, Counted, Stopped, Refused, Cancel,
                          LeftNothing, Passed, RecordedWhole, Brought, OfPage
<1> QED
  BY <1>1, <1>2, <1>3, <1>4, OthersKept, ApartKept DEF Cancel

LEMMA RunCycleKeeps ==
  ASSUME IInv, NEW r \in Report, RunCycle(r)
  PROVE  IInv'
<1>1. PICK end \in {"over", "cut"} :
        Proceed(r, [report[r] EXCEPT !.step = "done", !.cycle = end])
  BY DEF RunCycle
<1> DEFINE n == [report[r] EXCEPT !.step = "done", !.cycle = end]
<1>2. report[r] \in State /\ Own(r) /\ report[r].step = "cycle"
  BY DEF IInv, TypeOK, RunCycle
<1>3. n \in State /\ report'[r] = n
  BY <1>1, <1>2 DEF State, Proceed, IInv, TypeOK
<1>4. /\ n.step = "done" /\ n.error = "none"
      /\ n.measurements = report[r].measurements /\ n.late = report[r].late
      /\ n.next = report[r].next /\ n.inserted = report[r].inserted
      /\ n.accepted = report[r].accepted
  BY <1>2 DEF State, Own, Stage
<1>5. Own(r)'
  BY <1>2, <1>3, <1>4 DEF Own, Stage, Rows, Counted, Stopped, Refused, RunCycle,
                          LeftNothing, RecordedWhole, Brought, OfPage
<1> QED
  BY <1>1, <1>2, <1>3, <1>4, <1>5, OthersKept, ApartKept DEF RunCycle

\* The flag may be set, but never reset, beside a report.
LEMMA FlagKeeps ==
  ASSUME IInv, UNCHANGED <<stored, scans, report>>,
         unregistered' \in BOOLEAN, unregistered => unregistered'
  PROVE  IInv'
<1>1. TypeOK' /\ Apart'
  BY DEF IInv, TypeOK, Apart
<1>2. ASSUME NEW r \in Report PROVE Own(r)'
  <2>1. Own(r) /\ (LeftNothing(r)' <=> LeftNothing(r))
    BY DEF IInv, LeftNothing, Brought
  <2>2. Stage(r)' /\ Rows(r)'
    BY <2>1 DEF Own, Stage, Rows
  <2>3. Counted(r)'
    BY <2>1 DEF Own, Counted, Passed, RecordedWhole, Brought
  <2>4. RecordedWhole(r)' <=> RecordedWhole(r)
    BY DEF RecordedWhole, Brought
  <2>5. Stopped(r)' /\ Refused(r)'
    BY <2>1, <2>4 DEF Own, Stopped, Refused
  <2> QED
    BY <2>2, <2>3, <2>5 DEF Own
<1> QED
  BY <1>1, <1>2 DEF IInv

LEMMA NextInv ==
  ASSUME IInv, [Next]_vars
  PROVE  IInv'
<1>1. CASE UNCHANGED vars
  BY <1>1, FlagKeeps DEF vars, IInv, TypeOK
<1>2. ASSUME NEW r \in Report, Advance(r) PROVE IInv'
  BY <1>2, RejectKeeps, AdmitKeeps, InsertKeeps, CommitKeeps, RunCycleKeeps,
     AbortKeeps, GiveUpKeeps DEF Advance
<1>3. CASE Unregister
  BY <1>3, FlagKeeps DEF Unregister
<1> QED
  BY <1>1, <1>2, <1>3, ArriveKeeps, FailKeeps, CancelKeeps DEF Next

-----------------------------------------------------------------------------
(* What the reports may rely on *)

\* The rows, the reports and their transactions keep their types; the count and
\* the place in a report stay within its length (RecordAll, ReportMeasurements).
THEOREM IngestTypes == Spec => []TypeOK
<1>1. IInv => TypeOK
  BY DEF IInv
<1> QED
  BY <1>1, InitInv, NextInv, PTL DEF Spec

\* The count that a report is answered with is exact, however many windows it
\* names twice and however many reports of the same windows run beside it
\* (RecordAll, accepted_count).
THEOREM CountsAreExact == Spec => []AcceptedCountIsExact
<1>1. IInv => AcceptedCountIsExact
  BY DEF IInv, Own, Counted, RecordedWhole, Brought, AcceptedCountIsExact
<1> QED
  BY <1>1, InitInv, NextInv, PTL DEF Spec

\* A report answered with an error has recorded all its rows or none: until its
\* commit nothing of it can be seen, and a commit whose answer is lost has
\* recorded every row.  Refused or aborted, it has recorded none
\* (runInTransaction).
THEOREM FailureIsAllOrNothing == Spec => []FailedReportIsAllOrNothing
<1>1. IInv => FailedReportIsAllOrNothing
  BY DEF IInv, Own, Refused, FailedReportIsAllOrNothing
<1> QED
  BY <1>1, InitInv, NextInv, PTL DEF Spec

\* What a page sends after it was unregistered is never recorded, though the
\* device is read without a lock (resolveTenant).
THEOREM LateReportsStopped == Spec => []LateReportsRefused
<1>1. IInv => LateReportsRefused
  BY DEF IInv, Own, Stopped, LateReportsRefused
<1> QED
  BY <1>1, InitInv, NextInv, PTL DEF Spec

\* Rows of QR codes and of pages never come from one report
\* (measurementPointID).
THEOREM SourcesNotMixed == Spec => []OneSourcePerReport
<1>1. IInv => OneSourcePerReport
  BY IngestAssumption DEF IInv, TypeOK, Own, Rows, OneSourcePerReport
<1> QED
  BY <1>1, InitInv, NextInv, PTL DEF Spec

-----------------------------------------------------------------------------
(* The transactions implement the ledger *)

\* What a commit stores is what the ledger adds for the windows inserted.
LEMMA RecordMaps ==
  ASSUME IInv, NEW r \in Report, report[r].step = "commit", Record(r)
  PROVE  Ledger!Accept(r, report[r].inserted)
<1>1. Rows(r) /\ report[r].step = "commit"
  BY DEF IInv, Own
<1>2. ~Ledger!Brings(r) /\ \A w \in report[r].inserted : stored[w] = Null
  BY <1>1 DEF Rows, LeftNothing, Brought, Ledger!Brings
<1> QED
  BY <1>2 DEF Record, Ledger!Accept

LEMMA StepMaps ==
  ASSUME IInv, [Next]_vars
  PROVE  [Ledger!Next]_stored
<1>1. ASSUME NEW r \in Report, report[r].step = "commit", Record(r)
      PROVE  Ledger!Next
  <2>1. report[r].inserted \in SUBSET Window
    BY DEF IInv, TypeOK, State
  <2> QED
    BY <1>1, <2>1, RecordMaps DEF Ledger!Next
<1>2. ASSUME NEW r \in Report, RecordedOrNot(r)
      PROVE  [Ledger!Next]_stored
  BY <1>1, <1>2 DEF RecordedOrNot
<1>3. ASSUME NEW r \in Report, Advance(r)
      PROVE  [Ledger!Next]_stored
  BY <1>1, <1>2, <1>3 DEF Advance, Reject, Admit, Insert, Commit, RunCycle, Abort, GiveUp
<1> QED
  BY <1>2, <1>3 DEF Next, Arrive, Fail, Cancel, Unregister, vars

\* The transactions, with all their waits, aborts and lost answers, record as
\* the ledger does in one step: first come, first kept, each report at most once
\* (RecordAll, the unique index of device_measurements).
THEOREM IngestImplementsLedger == Spec => LedgerSpec
<1>1. Init => Ledger!Init
  BY DEF Init, Ledger!Init
<1> QED
  BY <1>1, InitInv, NextInv, StepMaps, PTL DEF Spec, LedgerSpec, Ledger!Spec
=============================================================================
