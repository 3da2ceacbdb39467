-------------------------- MODULE MeasurementIngest --------------------------
(***************************************************************************)
(* ReportMeasurements, from the request to the recorded rows and the cycle *)
(* (infra/connect/service.go, application/measurement_ingest.go,           *)
(* infra/db/measurement.go).                                               *)
(*                                                                         *)
(* A report of a page names windows, perhaps one several times, perhaps    *)
(* windows that were reported before.  One transaction inserts them in the *)
(* order given.  An insertion that meets another transaction's uncommitted *)
(* row waits for that transaction, and PostgreSQL aborts one of several    *)
(* that wait for each other.  A report of scanned QR codes has no such     *)
(* key, and every row of it is inserted.                                   *)
(*                                                                         *)
(* The windows are those of one page: the key holds the device, and        *)
(* reports of different devices never meet.  A report is sent once; what a *)
(* page sends again is another report.                                     *)
(***************************************************************************)
EXTENDS Naturals, FiniteSets, Sequences

CONSTANTS
  Report,      \* reports
  Window,      \* windows of one page: observation point and start
  MaxLength,   \* bound on the measurements of a report
  Null         \* no report

ASSUME IngestAssumption ==
  /\ MaxLength \in Nat \ {0}
  /\ Null \notin Report

VARIABLES
  unregistered,   \* the page's unregistered flag
  stored,         \* measurements of the page: the report each window is from
  scans,          \* number of rows of each report of QR codes
  report          \* how far each report is

vars == <<unregistered, stored, scans, report>>

Source == {"edge", "qr", "unspecified"}

Measurement == [source: Source, window: Window]

\* Errors that the report itself or the graph, and those that the device named,
\* give rise to.
Rejection == {"invalid", "foreign"}
DeviceRejection == {"unknown", "camera", "unregistered"}

\* How the context of a request ends: the client goes away, or its deadline passes.
End == {"cancelled", "expired"}

\* Errors that leave it open whether the commit went through.
Doubtful == {"failure"} \cup End

Error == Rejection \cup DeviceRejection \cup Doubtful \cup {"none", "aborted"}

Code == {"ok", "invalid_argument", "not_found", "permission_denied",
         "failed_precondition", "internal", "canceled", "deadline_exceeded"}

Measurements == UNION {[1..n -> Measurement] : n \in 0..MaxLength}

State ==
  [step: {"new", "admit", "insert", "commit", "cycle", "done"},
   measurements: Measurements,
   late: BOOLEAN,               \* it came after the page was unregistered
   cancelled: BOOLEAN,          \* the context of the request has ended
   next: 1..(MaxLength + 1),    \* the measurement to insert next
   inserted: SUBSET Window,     \* windows inserted and not committed
   accepted: 0..MaxLength,
   cycle: {"none", "over", "cut"},   \* cut: stopped by the cancellation
   error: Error,
   code: Code]

NewReport ==
  [step |-> "new", measurements |-> <<>>, late |-> FALSE,
   cancelled |-> FALSE, next |-> 1, inserted |-> {}, accepted |-> 0,
   cycle |-> "none", error |-> "none", code |-> "ok"]

TypeOK ==
  /\ unregistered \in BOOLEAN
  /\ stored \in [Window -> Report \cup {Null}]
  /\ scans \in [Report -> 0..MaxLength]
  /\ report \in [Report -> State]

Init ==
  /\ unregistered = FALSE
  /\ stored = [w \in Window |-> Null]
  /\ scans = [r \in Report |-> 0]
  /\ report = [r \in Report |-> NewReport]

-----------------------------------------------------------------------------
(* Rows, waits and answers *)

\* The first measurement says which method the report is of.
MethodOf(measurements) ==
  IF measurements # <<>> /\ measurements[1].source = "qr" THEN "qr" ELSE "camera"

\* Mutant of WellFormed: a source that differs from the first is let through.
UnmixedUnchecked(measurements, named) == MethodOf(measurements) = "camera" <=> named

\* All measurements are of one source, and only pages name themselves.
WellFormed(measurements, named) ==
  LET method == MethodOf(measurements)
      source == IF method = "qr" THEN "qr" ELSE "edge"
  IN
  /\ \A i \in DOMAIN measurements : measurements[i].source = source
  /\ method = "camera" <=> named

\* The report is a page's, which it names.
OfPage(k) == MethodOf(k.measurements) = "camera"

NextWindow(k) == k.measurements[k.next].window

\* The window that r inserts next waits for the transaction of s.
WaitsFor(r, s) ==
  /\ r # s
  /\ report[r].step = "insert"
  /\ OfPage(report[r])
  /\ NextWindow(report[r]) \in report[s].inserted

Blocked(r) == \E s \in Report : WaitsFor(r, s)

\* r is one of several transactions that wait for each other in a ring.
Deadlocked(r) ==
  \E ring \in SUBSET Report :
    /\ r \in ring
    /\ \A s \in ring : /\ \E t \in ring : WaitsFor(s, t)
                       /\ \E t \in ring : WaitsFor(t, s)

\* Mutant of CodeOf: an error not listed is returned as it is.
CodeOfListed(error) == IF error \in {"aborted", "failure"} THEN "unknown" ELSE "ok"

\* clientErrors; an error it does not list is internal or the context's end.
CodeOf(error) ==
  CASE error = "none" -> "ok"
    [] error = "invalid" -> "invalid_argument"
    [] error = "unknown" -> "not_found"
    [] error = "foreign" -> "permission_denied"
    [] error \in {"camera", "unregistered"} -> "failed_precondition"
    [] error \in {"aborted", "failure"} -> "internal"
    [] error = "cancelled" -> "canceled"
    [] error = "expired" -> "deadline_exceeded"

Proceed(r, k) == report' = [report EXCEPT ![r] = k]

\* Mutant of Answer: the transaction is left open.
AnswerWithoutRollback(r, error) ==
  Proceed(r, [report[r] EXCEPT !.step = "done", !.error = error,
                               !.code = CodeOf(error)])

\* Report r is answered.  A transaction still open is rolled back.
Answer(r, error) ==
  Proceed(r, [report[r] EXCEPT !.step = "done", !.inserted = {}, !.error = error,
                               !.code = CodeOf(error)])

-----------------------------------------------------------------------------
(* ReportMeasurements *)

\* A request whose sources do not go together is refused at once.
Arrive(r, measurements, named) ==
  /\ report[r].step = "new"
  /\ \/ /\ WellFormed(measurements, named)
        /\ Proceed(r, [report[r] EXCEPT !.step = "admit", !.late = unregistered,
                                        !.measurements = measurements])
     \/ ~WellFormed(measurements, named) /\ Answer(r, "invalid")
  /\ UNCHANGED <<unregistered, stored, scans>>

\* What a measurement holds may be invalid.  The device is read without a lock;
\* the locations of QR codes come from the graph.
Reject(r, error) ==
  LET k == report[r] IN
  /\ k.step = "admit"
  /\ \/ error \in Rejection
     \/ /\ error \in DeviceRejection
        /\ OfPage(k)
        /\ error = "unregistered" => unregistered
  /\ Answer(r, error)
  /\ UNCHANGED <<unregistered, stored, scans>>

\* Mutant of Registered: the flag of the device is not looked at.
Found(k) == TRUE

Registered(k) == OfPage(k) => ~unregistered

Admit(r) ==
  LET k == report[r] IN
  /\ k.step = "admit"
  /\ ~k.cancelled
  /\ Registered(k)
  /\ \/ k.measurements = <<>> /\ Answer(r, "none")
     \/ k.measurements # <<>> /\ Proceed(r, [k EXCEPT !.step = "insert"])
  /\ UNCHANGED <<unregistered, stored, scans>>

\* Mutant of IsNew: whether rows were affected is not looked at.
IsReported(k) == TRUE

\* ON CONFLICT DO NOTHING inserts a row: no such window is there yet.
IsNew(k) ==
  \/ ~OfPage(k)
  \/ stored[NextWindow(k)] = Null /\ NextWindow(k) \notin k.inserted

\* Whether the last measurement was inserted.
StepAfter(k) == IF k.next = Len(k.measurements) THEN "commit" ELSE "insert"

WithRow(k) ==
  [k EXCEPT !.step = StepAfter(k), !.next = @ + 1, !.accepted = @ + 1,
            !.inserted = IF OfPage(k) THEN @ \cup {NextWindow(k)} ELSE @]

\* Mutant of Insert: no index keeps the windows apart.
InsertUnchecked(r) ==
  /\ report[r].step = "insert"
  /\ Proceed(r, WithRow(report[r]))
  /\ UNCHANGED <<unregistered, stored, scans>>

\* One INSERT of RecordAll.  A window that is there is only compared.
Insert(r) ==
  LET k == report[r] IN
  /\ k.step = "insert"
  /\ ~k.cancelled
  /\ ~Blocked(r)
  /\ \/ IsNew(k) /\ Proceed(r, WithRow(k))
     \/ ~IsNew(k) /\ Proceed(r, [k EXCEPT !.step = StepAfter(k), !.next = @ + 1])
  /\ UNCHANGED <<unregistered, stored, scans>>

\* The rows of r are there for others.
Record(r) ==
  /\ stored' = [w \in Window |->
       IF w \in report[r].inserted THEN r ELSE stored[w]]
  /\ scans' = [scans EXCEPT
       ![r] = IF OfPage(report[r]) THEN @ ELSE report[r].accepted]
  /\ UNCHANGED unregistered

\* Only a report of which something was accepted starts a cycle.
Commit(r) ==
  LET k == report[r] IN
  /\ k.step = "commit"
  /\ ~k.cancelled
  /\ Record(r)
  /\ \/ k.accepted = 0 /\ Answer(r, "none")
     \/ k.accepted > 0 /\ Proceed(r, [k EXCEPT !.step = "cycle", !.inserted = {}])

\* The cycle of ObservationCycle, on the context of the request: a failure of it
\* is only logged, also one by the cancellation.
RunCycle(r) ==
  LET k == report[r] IN
  /\ k.step = "cycle"
  /\ \E end \in IF k.cancelled THEN {"over", "cut"} ELSE {"over"} :
       Proceed(r, [k EXCEPT !.step = "done", !.cycle = end])
  /\ UNCHANGED <<unregistered, stored, scans>>

\* Mutant of Abort: what the transaction inserted is kept.
AbortRecords(r) ==
  /\ Deadlocked(r)
  /\ Record(r)
  /\ Answer(r, "aborted")

\* PostgreSQL finds the ring of waits and aborts this transaction.
Abort(r) ==
  /\ Deadlocked(r)
  /\ Answer(r, "aborted")
  /\ UNCHANGED <<unregistered, stored, scans>>

\* When the answer to the commit is lost the rows are there all the same.
RecordedOrNot(r) ==
  \/ UNCHANGED <<unregistered, stored, scans>>
  \/ report[r].step = "commit" /\ Record(r)

\* A statement or the commit fails, or the process dies.
Fail(r) ==
  /\ report[r].step \in {"admit", "insert", "commit", "cycle"}
  /\ Answer(r, "failure")
  /\ RecordedOrNot(r)

\* The client goes away or its deadline passes, and the context ends.
Cancel(r) ==
  /\ report[r].step \in {"admit", "insert", "commit", "cycle"}
  /\ ~report[r].cancelled
  /\ Proceed(r, [report[r] EXCEPT !.cancelled = TRUE])
  /\ UNCHANGED <<unregistered, stored, scans>>

\* A statement ends with the context, also one that waits.
GiveUp(r) ==
  /\ report[r].step \in {"admit", "insert", "commit"}
  /\ report[r].cancelled
  /\ \E end \in End : Answer(r, end)
  /\ RecordedOrNot(r)

\* UnregisterEdgeDevice
Unregister ==
  /\ ~unregistered
  /\ unregistered' = TRUE
  /\ UNCHANGED <<stored, scans, report>>

Advance(r) ==
  \/ \E error \in Error : Reject(r, error)
  \/ Admit(r)
  \/ Insert(r)
  \/ Commit(r)
  \/ RunCycle(r)
  \/ Abort(r)
  \/ GiveUp(r)

Next ==
  \/ \E r \in Report :
       \/ \E measurements \in Measurements, named \in BOOLEAN :
            Arrive(r, measurements, named)
       \/ Advance(r)
       \/ Fail(r)
       \/ Cancel(r)
  \/ Unregister

Spec == Init /\ [][Next]_vars

\* The server goes on with a report that nothing holds up, and PostgreSQL looks
\* for rings of waits.
FairSpec == Spec /\ \A r \in Report : WF_vars(Advance(r))

-----------------------------------------------------------------------------
(* Properties *)

\* The transactions, with all their waits, aborts and lost answers, record as
\* the ledger does in one step: a window is recorded once, by the first report
\* whose transaction commits, and never changes (RecordAll).
Ledger == INSTANCE MeasurementLedger WITH ledger <- stored
LedgerSpec == Ledger!Spec

Brought(r) == {w \in Window : stored[w] = r}

LeftNothing(r) == scans[r] = 0 /\ Brought(r) = {}

\* Every row of the report is there, and accepted counts those it brought.
RecordedWhole(r) ==
  LET k == report[r] IN
  IF OfPage(k)
  THEN /\ k.accepted = Cardinality(Brought(r))
       /\ \A i \in DOMAIN k.measurements : stored[k.measurements[i].window] # Null
  ELSE scans[r] = Len(k.measurements) /\ k.accepted = scans[r]

\* A report answered with a count has all its windows stored, its own or an
\* earlier report's, and the count is that of the rows it brought itself, with
\* windows named twice and concurrent reports of the same windows
\* (accepted_count in docs/observation_spec.md:485, RecordAll).
AcceptedCountIsExact ==
  \A r \in Report :
    report[r].step = "done" /\ report[r].error = "none" => RecordedWhole(r)

\* A report answered with an error has recorded nothing, or, when the answer to
\* its commit was lost or its context ended meanwhile, everything: never a part
\* of its rows, wherever it was stopped.  A report that was refused or aborted
\* has recorded nothing (RecordAll in runInTransaction, resolveTenant).
FailedReportIsAllOrNothing ==
  \A r \in Report :
    report[r].step = "done" /\ report[r].error # "none" =>
      LeftNothing(r) \/ (report[r].error \in Doubtful /\ RecordedWhole(r))

\* Once a page is unregistered nothing that it sends is recorded any more; only
\* reports that came before are still carried through, however long they wait
\* for others (resolveTenant reads the device once, without a lock).
LateReportsRefused ==
  \A r \in Report :
    report[r].late /\ report[r].step # "new" /\ OfPage(report[r]) =>
      /\ LeftNothing(r)
      /\ report[r].error = "none" => report[r].step = "admit"

\* Rows of QR codes and of pages never come from one report, and every row is of
\* the source that it was sent as (measurementPointID).
OneSourcePerReport ==
  \A r \in Report :
    LET source(s) == \A i \in DOMAIN report[r].measurements :
                       report[r].measurements[i].source = s
    IN
    /\ scans[r] > 0 => source("qr")
    /\ (\E w \in Window : stored[w] = r) => source("edge")

\* docs/observation_spec.md:475 and 476: the answer does not wait for the cycle,
\* which goes on detached from the cancellation of the request.  The code runs
\* it before the answer, on the request's context.
CycleOutlivesCancellation ==
  \A r \in Report : report[r].cycle # "cut"

\* Every report is answered: one that waits for others that wait for it is
\* aborted in the end, and no wait outlives the transaction waited for.
EveryReportAnswered ==
  \A r \in Report : report[r].step = "admit" ~> report[r].step = "done"
=============================================================================
