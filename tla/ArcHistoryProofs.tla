-------------------------- MODULE ArcHistoryProofs --------------------------
(***************************************************************************)
(* Proofs that the hourly rows of ArcHistory are the sums of the snapshots *)
(* that are kept, for any number of cycles that save theirs at the same    *)
(* time, any routes and any scores.                                        *)
(*                                                                         *)
(* A row is read when a transaction writes it and written back when the    *)
(* transaction commits.  That nothing is lost in between is because an     *)
(* uncommitted row counts the snapshots that are kept and the              *)
(* transaction's own, and stays so whatever others commit: the keys that   *)
(* two transactions have written are different.                            *)
(***************************************************************************)
EXTENDS ArcHistory, FiniteLemmas

-----------------------------------------------------------------------------
(* The invariant *)

Active(c) == call[c].step # "idle"
Own(k) == [end |-> k.end, scores |-> k.scores]

\* The routes whose score is added to arc_flow_dwell_hourly, and those whose
\* score is added to arc_stagnation_hourly.
Done(k) == IF k.step \in {"upsert", "upsert_dwell"} THEN Scored(k.scores) \ k.todo ELSE {}
Begun(k) == IF k.step = "upsert_dwell" THEN Done(k) \cup {k.route} ELSE Done(k)

\* How far a cycle is with its snapshot.
ProgressOK(k, time) ==
  /\ DOMAIN k = DOMAIN IdleCall
  /\ k.step = "idle" => k = IdleCall
  /\ k.step # "idle" => /\ k.scores \in Composable
                        /\ k.end \in Window..MaxTime /\ k.end < time
  /\ k.todo \subseteq Route
  /\ k.step \in {"upsert", "upsert_dwell"} =>
       /\ k.todo \subseteq Scored(k.scores)
       /\ \A q \in Done(k), r \in k.todo : q < r
  /\ k.step = "upsert_dwell" => k.route \in NextRoute(k.todo)

\* A cycle has written the rows of the routes it has come to.
WrittenOK(k) ==
  /\ DOMAIN k.stagnation = Keys(Begun(k), k.end, k.scores)
  /\ DOMAIN k.dwell = DwellKeys(Done(k), k.end, k.scores)

Progress == \A c \in Cycle : ProgressOK(call[c], now)
Written == \A c \in Cycle : WrittenOK(call[c])

\* No two cycles have written one row.
Exclusive ==
  \A c, d \in Cycle : c # d =>
    /\ DOMAIN call[c].stagnation \cap DOMAIN call[d].stagnation = {}
    /\ DOMAIN call[c].dwell \cap DOMAIN call[d].dwell = {}

\* No two windows end at the same time.
EndsDiffer ==
  /\ \A s \in snapshots : s.end >= Window /\ s.end < now
  /\ \A s, t \in snapshots : s.end = t.end => s = t
  /\ \A c \in Cycle : Active(c) => \A s \in snapshots : s.end # call[c].end
  /\ \A c, d \in Cycle : c # d /\ Active(c) /\ Active(d) => call[c].end # call[d].end

\* An uncommitted row counts the kept snapshots and the cycle's own.
UncommittedOK(k, S) ==
  /\ \A key \in DOMAIN k.stagnation :
       k.stagnation[key] = StagnationRowOf(key.route, Filed(S \cup {Own(k)}, key))
  /\ \A key \in DOMAIN k.dwell :
       k.dwell[key] = DwellRowOf(FiledDwell(S \cup {Own(k)}, key))

UncommittedAggregate == \A c \in Cycle : UncommittedOK(call[c], snapshots)

TInv == TypeOK /\ Progress

IInv ==
  /\ TInv
  /\ Written
  /\ Exclusive
  /\ EndsDiffer
  /\ IsFiniteSet(snapshots)
  /\ RowsAggregateSnapshots
  /\ UncommittedAggregate

-----------------------------------------------------------------------------
(* Keys and rows *)

LEMMA DivReads ==
  ASSUME NEW a \in Nat, NEW b \in Nat \ {0}
  PROVE  /\ a \div b \in Nat
         /\ (a \div b) * b \in Nat
         /\ (a \div b) * b <= a
  OBVIOUS

LEMMA BucketType ==
  ASSUME NEW v \in Nat
  PROVE  Bucket(v) \in Nat
<1>1. BucketWidth \in Nat \ {0}
  BY ArcAssumption
<1>2. CeilDiv(v, BucketWidth) \in Nat
  BY <1>1, DivReads DEF CeilDiv
<1>3. BucketWidth * CeilDiv(v, BucketWidth) \in Nat
  BY <1>1, <1>2
<1> QED
  BY <1>3 DEF Bucket

LEMMA HourReads ==
  ASSUME NEW end \in Window..MaxTime
  PROVE  /\ end \in Time
         /\ Start(end) \in Time
         /\ Hour(end) \in Time
         /\ Hour(end) <= Start(end)
<1>1. Window \in Nat /\ MaxTime \in Nat /\ HourLength \in Nat \ {0}
  BY ArcAssumption
<1>2. end \in Time /\ Start(end) \in Nat /\ Start(end) <= MaxTime
  BY <1>1 DEF Start, Time
<1>3. Hour(end) \in Nat /\ Hour(end) <= Start(end)
  BY <1>1, <1>2, DivReads DEF Hour
<1> QED
  BY <1>1, <1>2, <1>3 DEF Time

LEMMA KeyTypes ==
  ASSUME NEW r \in Route, NEW end \in Window..MaxTime, NEW s \in Sample
  PROVE  /\ StagnationKeyOf(r, end, s) \in StagnationKey
         /\ DwellKeyOf(r, end, s) \in DwellKey
<1>1. Hour(end) \in Time
  BY HourReads
<1>2. s.stagnation \in Nat /\ s.flow \in Nat /\ s.sameSensor \in BOOLEAN
  BY DEF Sample
<1>3. Bucket(s.stagnation) \in Nat /\ Bucket(s.flow) \in Nat
  BY <1>2, BucketType
<1>4. DwellBucket(s) \in Nat \cup {Null}
  <2>1. CASE s.flow > 0
    <3>1. CeilDiv(s.stagnation, s.flow) \in Nat
      <4>1. s.stagnation + s.flow - 1 \in Nat /\ s.flow \in Nat \ {0}
        BY <1>2, <2>1
      <4> QED
        BY <4>1, DivReads DEF CeilDiv
    <3> QED
      BY <2>1, <3>1, BucketType DEF DwellBucket
  <2>2. CASE ~ (s.flow > 0)
    BY <2>2 DEF DwellBucket
  <2> QED
    BY <2>1, <2>2
<1>5. StagnationKeyOf(r, end, s) \in StagnationKey
  BY <1>1, <1>2, <1>3 DEF StagnationKeyOf, StagnationKey
<1>6. DwellKeyOf(r, end, s) \in DwellKey
  BY <1>1, <1>3, <1>4 DEF DwellKeyOf, DwellKey
<1> QED
  BY <1>5, <1>6

LEMMA NewRowTypes ==
  ASSUME NEW end \in Window..MaxTime, NEW s \in Sample
  PROVE  /\ NewStagnationRow(end, s) \in StagnationRow
         /\ NewDwellRow(end) \in DwellRow
<1>1. end \in Time /\ Start(end) \in Time
  BY HourReads
<1>2. s.stagnation \in Nat /\ s.flow \in Nat
  BY DEF Sample
<1>3. s.flow * s.flow \in Nat /\ s.flow * s.stagnation \in Nat
  BY <1>2
<1> QED
  BY <1>1, <1>2, <1>3 DEF NewStagnationRow, NewDwellRow, StagnationRow, DwellRow

\* What a conflict makes of a row, column by column.
LEMMA MergedStagnation ==
  ASSUME NEW h \in StagnationRow, NEW e \in StagnationRow
  PROVE  Merged(h, e) =
           [count |-> h.count + e.count, stagnation |-> h.stagnation + e.stagnation,
            flow |-> h.flow + e.flow, flowSquare |-> h.flowSquare + e.flowSquare,
            flowStagnation |-> h.flowStagnation + e.flowStagnation,
            firstStart |-> Least(h.firstStart, e.firstStart),
            lastEnd |-> Greatest(h.lastEnd, e.lastEnd)]
<1>1. DOMAIN h = {"count", "stagnation", "flow", "flowSquare", "flowStagnation",
                  "firstStart", "lastEnd"}
  BY DEF StagnationRow
<1> QED
  BY <1>1 DEF Merged

LEMMA MergedDwell ==
  ASSUME NEW h \in DwellRow, NEW e \in DwellRow
  PROVE  Merged(h, e) = [count |-> h.count + e.count,
                         firstStart |-> Least(h.firstStart, e.firstStart),
                         lastEnd |-> Greatest(h.lastEnd, e.lastEnd)]
<1>1. DOMAIN h = {"count", "firstStart", "lastEnd"}
  BY DEF DwellRow
<1> QED
  BY <1>1 DEF Merged

LEMMA MergedTypes ==
  /\ \A h, e \in StagnationRow : Merged(h, e) \in StagnationRow
  /\ \A h, e \in DwellRow : Merged(h, e) \in DwellRow
<1>1. ASSUME NEW h \in StagnationRow, NEW e \in StagnationRow
      PROVE  Merged(h, e) \in StagnationRow
  BY MergedStagnation DEF StagnationRow, Least, Greatest, Time
<1>2. ASSUME NEW h \in DwellRow, NEW e \in DwellRow
      PROVE  Merged(h, e) \in DwellRow
  BY MergedDwell DEF DwellRow, Least, Greatest, Time
<1> QED
  BY <1>1, <1>2

LEMMA UpsertedTypes ==
  ASSUME NEW table, NEW Key, NEW Row, IsTable(table, Key, Row), NEW key, NEW row \in Row,
         \A h, e \in Row : Merged(h, e) \in Row
  PROVE  Upserted(table, key, row) \in Row
  BY DEF IsTable, Upserted

LEMMA WithRowTypes ==
  ASSUME NEW w, NEW Key, NEW Row, IsTable(w, Key, Row), NEW key \in Key, NEW row \in Row
  PROVE  /\ IsTable(WithRow(w, key, row), Key, Row)
         /\ DOMAIN WithRow(w, key, row) = DOMAIN w \cup {key}
         /\ WithRow(w, key, row)[key] = row
         /\ \A k \in DOMAIN w \ {key} : WithRow(w, key, row)[k] = w[k]
  BY DEF IsTable, WithRow

LEMMA OverlaidTypes ==
  ASSUME NEW w, NEW t, NEW Key, NEW Row, IsTable(w, Key, Row), IsTable(t, Key, Row)
  PROVE  /\ IsTable(Overlaid(w, t), Key, Row)
         /\ DOMAIN Overlaid(w, t) = DOMAIN w \cup DOMAIN t
         /\ \A k \in DOMAIN w : Overlaid(w, t)[k] = w[k]
         /\ \A k \in DOMAIN t \ DOMAIN w : Overlaid(w, t)[k] = t[k]
  BY DEF IsTable, Overlaid

LEMMA NoRowsTypes ==
  ASSUME NEW Key, NEW Row
  PROVE  IsTable(NoRows, Key, Row) /\ DOMAIN NoRows = {}
  BY DEF IsTable, NoRows

-----------------------------------------------------------------------------
(* Types *)

LEMMA ScoredReads ==
  ASSUME NEW scores \in Composable
  PROVE  \A r \in Scored(scores) : r \in Route /\ scores[r] \in Sample
  BY ArcAssumption DEF Scored

LEMMA StepsDiffer ==
  /\ IdleCall.step = "idle" /\ IdleCall.end = Never /\ IdleCall.scores = Null
  /\ IdleCall.changed = {} /\ IdleCall.todo = {} /\ IdleCall.route = Null
  /\ IdleCall.stagnation = NoRows /\ IdleCall.dwell = NoRows
  BY DEF IdleCall

LEMMA IdleOK ==
  CallOK(IdleCall) /\ \A time : ProgressOK(IdleCall, time)
<1>1. Never \in Time
  BY ArcAssumption DEF Never, Time
<1>2. CallOK(IdleCall)
  <2>1. IsTable(NoRows, StagnationKey, StagnationRow) /\ IsTable(NoRows, DwellKey, DwellRow)
    BY NoRowsTypes
  <2> QED
    BY <1>1, <2>1, StepsDiffer DEF CallOK
<1> QED
  BY <1>2, StepsDiffer DEF ProgressOK

\* What a step of one cycle has to show for the types.
LEMMA CallContinues ==
  ASSUME TInv, NEW c \in Cycle, NEW n, Continue(c, n), CallOK(n), ProgressOK(n, now'),
         now' \in Int, now <= now'
  PROVE  /\ DOMAIN call' = Cycle
         /\ call'[c] = n
         /\ \A d \in Cycle \ {c} : call'[d] = call[d]
         /\ \A d \in Cycle : CallOK(call'[d]) /\ ProgressOK(call'[d], now')
<1>1. /\ DOMAIN call = Cycle /\ now \in Int
      /\ \A d \in Cycle : CallOK(call[d]) /\ ProgressOK(call[d], now)
  BY ArcAssumption DEF TInv, TypeOK, Progress
<1>2. /\ DOMAIN call' = Cycle /\ call'[c] = n
      /\ \A d \in Cycle \ {c} : call'[d] = call[d]
  BY <1>1 DEF Continue
<1>3. ASSUME NEW d \in Cycle
      PROVE  CallOK(call'[d]) /\ ProgressOK(call'[d], now')
  <2>1. CASE d = c
    BY <1>2, <2>1
  <2>2. CASE d # c
    <3>1. CallOK(call[d]) /\ ProgressOK(call[d], now) /\ call'[d] = call[d]
      BY <1>1, <1>2, <2>2
    <3>2. call[d].step # "idle" => call[d].end \in Int /\ call[d].end < now
      BY <3>1, ArcAssumption DEF ProgressOK
    <3>3. call[d].step # "idle" => call[d].end < now'
      BY <1>1, <3>2
    <3> QED
      BY <3>1, <3>3 DEF ProgressOK
  <2> QED
    BY <2>1, <2>2
<1> QED
  BY <1>2, <1>3

LEMMA InitTypes ==
  Init => TInv
<1> SUFFICES ASSUME Init PROVE TInv
  OBVIOUS
<1>1. Never \in Time /\ now \in Window..(MaxTime + 1)
  BY ArcAssumption DEF Init, Never, Time
<1>2. /\ IsTable(stagnation, StagnationKey, StagnationRow)
      /\ IsTable(dwell, DwellKey, DwellRow)
  BY NoRowsTypes DEF Init
<1>3. DOMAIN call = Cycle /\ \A c \in Cycle : call[c] = IdleCall
  BY DEF Init
<1>4. \A c \in Cycle : CallOK(call[c]) /\ ProgressOK(call[c], now)
  BY <1>3, IdleOK
<1>5. snapshots \subseteq Snapshot /\ changedAt \in [Route -> Time]
  BY <1>1 DEF Init
<1> QED
  BY <1>1, <1>2, <1>3, <1>4, <1>5 DEF TInv, TypeOK, Progress

LEMMA ComposeReads ==
  ASSUME TInv, NEW c \in Cycle, NEW scores \in Composable, NEW changed \in SUBSET Changing,
         Compose(c, scores, changed)
  PROVE  /\ TInv'
         /\ call[c].step = "idle" /\ call'[c].step = "save_sets"
         /\ call'[c].end = now /\ now' = now + 1
         /\ call'[c].stagnation = NoRows /\ call'[c].dwell = NoRows
         /\ \A d \in Cycle \ {c} : call'[d] = call[d]
         /\ UNCHANGED <<snapshots, stagnation, dwell>>
<1> DEFINE n == [IdleCall EXCEPT !.step = "save_sets", !.end = now,
                                 !.scores = scores, !.changed = changed]
<1>1. /\ now \in Window..MaxTime /\ now' = now + 1 /\ Continue(c, n)
      /\ call[c].step = "idle"
      /\ UNCHANGED <<committed, changedAt>>
  BY ArcAssumption DEF TInv, TypeOK, Compose
<1>2. /\ n.step = "save_sets" /\ n.end = now /\ n.scores = scores /\ n.changed = changed
      /\ n.todo = {} /\ n.route = Null /\ n.stagnation = NoRows /\ n.dwell = NoRows
  BY DEF IdleCall
<1>a. DOMAIN n = DOMAIN IdleCall
  BY DEF IdleCall
<1> HIDE DEF n
<1>3. CallOK(n)
  <2>1. IsTable(NoRows, StagnationKey, StagnationRow) /\ IsTable(NoRows, DwellKey, DwellRow)
    BY NoRowsTypes
  <2>2. now \in Time
    BY <1>1, ArcAssumption DEF Time
  <2>3. changed \subseteq Route
    BY ArcAssumption
  <2> QED
    BY <1>2, <2>1, <2>2, <2>3 DEF CallOK
<1>4. ProgressOK(n, now')
  <2>1. now \in Int /\ now < now'
    BY <1>1, ArcAssumption
  <2> QED
    BY <1>1, <1>2, <1>a, <2>1 DEF ProgressOK
<1>5. now' \in Window..(MaxTime + 1) /\ now <= now' /\ now' \in Int
  BY <1>1, ArcAssumption
<1>6. /\ DOMAIN call' = Cycle /\ call'[c] = n
      /\ \A d \in Cycle \ {c} : call'[d] = call[d]
      /\ \A d \in Cycle : CallOK(call'[d]) /\ ProgressOK(call'[d], now')
  BY <1>1, <1>3, <1>4, <1>5, CallContinues
<1>7. UNCHANGED <<snapshots, stagnation, dwell, changedAt>>
  BY <1>1 DEF committed
<1>8. TInv'
  BY <1>5, <1>6, <1>7 DEF TInv, TypeOK, Progress
<1> QED
  BY <1>1, <1>2, <1>6, <1>7, <1>8

\* The call of an active cycle, in one place.
LEMMA ActiveReads ==
  ASSUME TInv, NEW c \in Cycle, call[c].step # "idle"
  PROVE  /\ CallOK(call[c])
         /\ call[c].scores \in Composable
         /\ call[c].end \in Window..MaxTime
         /\ call[c].end < now
         /\ call[c].todo \subseteq Route
         /\ \A r \in Scored(call[c].scores) : r \in Route /\ call[c].scores[r] \in Sample
<1>1. CallOK(call[c]) /\ ProgressOK(call[c], now)
  BY DEF TInv, TypeOK, Progress
<1> QED
  BY <1>1, ScoredReads DEF ProgressOK

LEMMA NextRouteReads ==
  ASSUME NEW todo, NEW r \in NextRoute(todo)
  PROVE  r \in todo /\ \A q \in todo : r <= q
  BY DEF NextRoute

LEMMA FieldsOfCall ==
  DOMAIN IdleCall = {"step", "end", "scores", "changed", "todo", "route", "stagnation",
                     "dwell"}
  BY DEF IdleCall

LEMMA SaveSensorSetsReads ==
  ASSUME TInv, NEW c \in Cycle, SaveSensorSets(c)
  PROVE  /\ TInv'
         /\ call[c].step = "save_sets" /\ call'[c].step = "upsert"
         /\ call'[c].end = call[c].end /\ call'[c].scores = call[c].scores
         /\ call'[c].todo = Scored(call[c].scores)
         /\ call'[c].stagnation = call[c].stagnation /\ call'[c].dwell = call[c].dwell
         /\ \A d \in Cycle \ {c} : call'[d] = call[d]
         /\ UNCHANGED <<snapshots, stagnation, dwell, now>>
<1> DEFINE k == call[c]
           n == [k EXCEPT !.step = "upsert", !.todo = Scored(k.scores)]
<1>1. /\ k.step = "save_sets" /\ Continue(c, n) /\ UNCHANGED <<committed, now>>
      /\ changedAt' = [r \in Route |-> IF r \in k.changed THEN k.end ELSE changedAt[r]]
  BY DEF SaveSensorSets
<1>2. /\ CallOK(k) /\ ProgressOK(k, now) /\ k.scores \in Composable
      /\ now \in Int /\ \A r \in Scored(k.scores) : r \in Route
  BY <1>1, ActiveReads, ArcAssumption DEF TInv, TypeOK, Progress
<1>3. DOMAIN k = DOMAIN IdleCall
  BY <1>2 DEF ProgressOK
<1>4. /\ DOMAIN n = DOMAIN IdleCall
      /\ n.step = "upsert" /\ n.end = k.end /\ n.scores = k.scores /\ n.changed = k.changed
      /\ n.todo = Scored(k.scores) /\ n.route = k.route
      /\ n.stagnation = k.stagnation /\ n.dwell = k.dwell
  BY <1>3, FieldsOfCall
<1>5. changedAt' \in [Route -> Time]
  BY <1>1, <1>2 DEF CallOK, TInv, TypeOK
<1> HIDE DEF n, k
<1>6. CallOK(n)
  BY <1>2, <1>4 DEF CallOK
<1>7. ProgressOK(n, now')
  BY <1>1, <1>2, <1>4 DEF ProgressOK, Done
<1>8. /\ DOMAIN call' = Cycle /\ call'[c] = n
      /\ \A d \in Cycle \ {c} : call'[d] = call[d]
      /\ \A d \in Cycle : CallOK(call'[d]) /\ ProgressOK(call'[d], now')
  BY <1>1, <1>2, <1>6, <1>7, CallContinues
<1>9. UNCHANGED <<snapshots, stagnation, dwell, now>>
  BY <1>1 DEF committed
<1>10. TInv'
  BY <1>5, <1>8, <1>9 DEF TInv, TypeOK, Progress
<1> QED
  BY <1>1, <1>4, <1>8, <1>9, <1>10 DEF k

LEMMA UpsertStagnationReads ==
  ASSUME TInv, NEW c \in Cycle, UpsertStagnation(c)
  PROVE  /\ TInv'
         /\ call[c].step = "upsert" /\ call'[c].step = "upsert_dwell"
         /\ call'[c].end = call[c].end /\ call'[c].scores = call[c].scores
         /\ call'[c].todo = call[c].todo /\ call'[c].dwell = call[c].dwell
         /\ call'[c].route \in NextRoute(call[c].todo)
         /\ call[c].scores[call'[c].route] \in Sample
         /\ Unlocked(c, StagnationKeyOf(call'[c].route, call[c].end,
                                        call[c].scores[call'[c].route]))
         /\ call'[c].stagnation =
              WithRow(call[c].stagnation,
                      StagnationKeyOf(call'[c].route, call[c].end,
                                      call[c].scores[call'[c].route]),
                      Upserted(stagnation,
                               StagnationKeyOf(call'[c].route, call[c].end,
                                               call[c].scores[call'[c].route]),
                               NewStagnationRow(call[c].end,
                                                call[c].scores[call'[c].route])))
         /\ \A d \in Cycle \ {c} : call'[d] = call[d]
         /\ UNCHANGED <<snapshots, stagnation, dwell, now>>
<1> DEFINE k == call[c]
           key(r) == StagnationKeyOf(r, k.end, k.scores[r])
           row(r) == Upserted(stagnation, key(r), NewStagnationRow(k.end, k.scores[r]))
           n(r) == [k EXCEPT !.step = "upsert_dwell", !.route = r,
                             !.stagnation = WithRow(@, key(r), row(r))]
<1>1. PICK r \in NextRoute(k.todo) : Unlocked(c, key(r)) /\ Continue(c, n(r))
  BY DEF UpsertStagnation
<1>2. k.step = "upsert" /\ UNCHANGED <<committed, changedAt, now>>
  BY DEF UpsertStagnation
<1>3. /\ CallOK(k) /\ ProgressOK(k, now) /\ k.scores \in Composable
      /\ now \in Int /\ k.end \in Window..MaxTime
  BY <1>2, ActiveReads, ArcAssumption DEF TInv, TypeOK, Progress
<1>4. DOMAIN k = DOMAIN IdleCall /\ k.todo \subseteq Scored(k.scores)
  BY <1>2, <1>3 DEF ProgressOK
<1>5. /\ DOMAIN n(r) = DOMAIN IdleCall
      /\ n(r).step = "upsert_dwell" /\ n(r).end = k.end /\ n(r).scores = k.scores
      /\ n(r).changed = k.changed /\ n(r).todo = k.todo /\ n(r).route = r
      /\ n(r).stagnation = WithRow(k.stagnation, key(r), row(r)) /\ n(r).dwell = k.dwell
  BY <1>4, FieldsOfCall
<1>6. r \in k.todo /\ r \in Route /\ k.scores[r] \in Sample
  BY <1>3, <1>4, NextRouteReads, ScoredReads
<1>7. /\ IsTable(k.stagnation, StagnationKey, StagnationRow)
      /\ IsTable(stagnation, StagnationKey, StagnationRow)
  BY <1>3 DEF CallOK, TInv, TypeOK
<1>8. key(r) \in StagnationKey /\ row(r) \in StagnationRow
  <2>1. key(r) \in StagnationKey
    BY <1>3, <1>6, KeyTypes
  <2>2. NewStagnationRow(k.end, k.scores[r]) \in StagnationRow
    BY <1>3, <1>6, NewRowTypes
  <2> QED
    BY <1>7, <2>1, <2>2, MergedTypes, UpsertedTypes
<1>9. IsTable(WithRow(k.stagnation, key(r), row(r)), StagnationKey, StagnationRow)
  BY <1>7, <1>8, WithRowTypes
<1> HIDE DEF n, k, key, row
<1>10. CallOK(n(r))
  BY <1>3, <1>5, <1>6, <1>9 DEF CallOK
<1>11. ProgressOK(n(r), now')
  BY <1>1, <1>2, <1>3, <1>5 DEF ProgressOK, Done
<1>12. /\ DOMAIN call' = Cycle /\ call'[c] = n(r)
       /\ \A d \in Cycle \ {c} : call'[d] = call[d]
       /\ \A d \in Cycle : CallOK(call'[d]) /\ ProgressOK(call'[d], now')
  BY <1>1, <1>2, <1>3, <1>10, <1>11, CallContinues
<1>13. UNCHANGED <<snapshots, stagnation, dwell, changedAt, now>>
  BY <1>2 DEF committed
<1>14. TInv'
  BY <1>12, <1>13 DEF TInv, TypeOK, Progress
<1> QED
  BY <1>1, <1>2, <1>5, <1>6, <1>12, <1>13, <1>14 DEF k, key, row

LEMMA UpsertFlowDwellReads ==
  ASSUME TInv, NEW c \in Cycle, UpsertFlowDwell(c)
  PROVE  /\ TInv'
         /\ call[c].step = "upsert_dwell" /\ call'[c].step = "upsert"
         /\ call'[c].end = call[c].end /\ call'[c].scores = call[c].scores
         /\ call'[c].todo = call[c].todo \ {call[c].route}
         /\ call'[c].stagnation = call[c].stagnation
         /\ call[c].route \in NextRoute(call[c].todo)
         /\ call[c].scores[call[c].route] \in Sample
         /\ Unlocked(c, DwellKeyOf(call[c].route, call[c].end, call[c].scores[call[c].route]))
         /\ call'[c].dwell =
              WithRow(call[c].dwell,
                      DwellKeyOf(call[c].route, call[c].end, call[c].scores[call[c].route]),
                      Upserted(dwell,
                               DwellKeyOf(call[c].route, call[c].end,
                                          call[c].scores[call[c].route]),
                               NewDwellRow(call[c].end)))
         /\ \A d \in Cycle \ {c} : call'[d] = call[d]
         /\ UNCHANGED <<snapshots, stagnation, dwell, now>>
<1> DEFINE k == call[c]
           r == k.route
           key == DwellKeyOf(k.route, k.end, k.scores[k.route])
           row == Upserted(dwell, key, NewDwellRow(k.end))
           n == [k EXCEPT !.step = "upsert", !.route = Null, !.todo = @ \ {k.route},
                          !.dwell = WithRow(@, key, row)]
<1>1. Unlocked(c, key) /\ Continue(c, n)
  BY DEF UpsertFlowDwell
<1>2. k.step = "upsert_dwell" /\ UNCHANGED <<committed, changedAt, now>>
  BY DEF UpsertFlowDwell
<1>3. /\ CallOK(k) /\ ProgressOK(k, now) /\ k.scores \in Composable
      /\ now \in Int /\ k.end \in Window..MaxTime
  BY <1>2, ActiveReads, ArcAssumption DEF TInv, TypeOK, Progress
<1>4. /\ DOMAIN k = DOMAIN IdleCall /\ k.todo \subseteq Scored(k.scores)
      /\ k.todo \subseteq Route /\ r \in NextRoute(k.todo)
  BY <1>2, <1>3 DEF ProgressOK
<1>5. /\ DOMAIN n = DOMAIN IdleCall
      /\ n.step = "upsert" /\ n.end = k.end /\ n.scores = k.scores
      /\ n.changed = k.changed /\ n.todo = k.todo \ {r} /\ n.route = Null
      /\ n.stagnation = k.stagnation /\ n.dwell = WithRow(k.dwell, key, row)
  BY <1>4, FieldsOfCall
<1>6. r \in k.todo /\ r \in Route /\ k.scores[r] \in Sample /\ \A q \in k.todo : r <= q
  BY <1>3, <1>4, NextRouteReads, ScoredReads
<1>7. /\ IsTable(k.dwell, DwellKey, DwellRow) /\ IsTable(dwell, DwellKey, DwellRow)
  BY <1>3 DEF CallOK, TInv, TypeOK
<1>8. key \in DwellKey /\ row \in DwellRow
  <2>1. key \in DwellKey
    BY <1>3, <1>6, KeyTypes
  <2>2. NewDwellRow(k.end) \in DwellRow
    BY <1>3, <1>6, NewRowTypes
  <2> QED
    BY <1>7, <2>1, <2>2, MergedTypes, UpsertedTypes
<1>9. IsTable(WithRow(k.dwell, key, row), DwellKey, DwellRow)
  BY <1>7, <1>8, WithRowTypes
<1> HIDE DEF n, k, key, row, r
<1>10. CallOK(n)
  BY <1>3, <1>4, <1>5, <1>9 DEF CallOK
<1>11. ProgressOK(n, now')
  <2>1. Scored(n.scores) \ n.todo = (Scored(k.scores) \ k.todo) \cup {r}
    BY <1>4, <1>5, <1>6
  <2>2. \A q \in Scored(k.scores) \ k.todo, p \in k.todo : q < p
    BY <1>2, <1>3 DEF ProgressOK, Done
  <2>3. \A p \in k.todo \ {r} : r < p
    <3>1. ASSUME NEW p \in k.todo \ {r}
          PROVE  r < p
      <4>1. r \in Int /\ p \in Int /\ r <= p /\ p # r
        BY <1>4, <1>6 DEF Route
      <4> QED
        BY <4>1
    <3> QED
      BY <3>1
  <2>4. \A q \in Scored(n.scores) \ n.todo, p \in n.todo : q < p
    BY <1>5, <2>1, <2>2, <2>3
  <2> QED
    BY <1>2, <1>3, <1>4, <1>5, <2>4 DEF ProgressOK, Done
<1>12. /\ DOMAIN call' = Cycle /\ call'[c] = n
       /\ \A d \in Cycle \ {c} : call'[d] = call[d]
       /\ \A d \in Cycle : CallOK(call'[d]) /\ ProgressOK(call'[d], now')
  BY <1>1, <1>2, <1>3, <1>10, <1>11, CallContinues
<1>13. UNCHANGED <<snapshots, stagnation, dwell, changedAt, now>>
  BY <1>2 DEF committed
<1>14. TInv'
  BY <1>12, <1>13 DEF TInv, TypeOK, Progress
<1> QED
  BY <1>1, <1>2, <1>4, <1>5, <1>6, <1>12, <1>13, <1>14 DEF k, key, row, r

LEMMA CommitReads ==
  ASSUME TInv, NEW c \in Cycle, Commit(c)
  PROVE  /\ TInv'
         /\ call[c].step = "upsert" /\ call[c].todo = {} /\ call'[c] = IdleCall
         /\ snapshots' = snapshots \cup {Own(call[c])}
         /\ stagnation' = Overlaid(call[c].stagnation, stagnation)
         /\ dwell' = Overlaid(call[c].dwell, dwell)
         /\ \A d \in Cycle \ {c} : call'[d] = call[d]
         /\ now' = now
<1>1. /\ call[c].step = "upsert" /\ call[c].todo = {} /\ Continue(c, IdleCall)
      /\ snapshots' = snapshots \cup {Own(call[c])}
      /\ stagnation' = Overlaid(call[c].stagnation, stagnation)
      /\ dwell' = Overlaid(call[c].dwell, dwell)
      /\ changedAt' = changedAt /\ now' = now
  BY DEF Commit, Own
<1>2. /\ CallOK(call[c]) /\ call[c].scores \in Composable
      /\ now \in Int /\ call[c].end \in Window..MaxTime
  BY <1>1, ActiveReads, ArcAssumption DEF TInv, TypeOK
<1>3. /\ IsTable(call[c].stagnation, StagnationKey, StagnationRow)
      /\ IsTable(stagnation, StagnationKey, StagnationRow)
      /\ IsTable(call[c].dwell, DwellKey, DwellRow) /\ IsTable(dwell, DwellKey, DwellRow)
  BY <1>2 DEF CallOK, TInv, TypeOK
<1>4. /\ IsTable(stagnation', StagnationKey, StagnationRow)
      /\ IsTable(dwell', DwellKey, DwellRow)
  BY <1>1, <1>3, OverlaidTypes
<1>5. snapshots' \subseteq Snapshot
  <2>1. Own(call[c]) \in Snapshot
    BY <1>2, HourReads DEF Own, Snapshot
  <2> QED
    BY <1>1, <2>1 DEF TInv, TypeOK
<1>6. /\ DOMAIN call' = Cycle /\ call'[c] = IdleCall
      /\ \A d \in Cycle \ {c} : call'[d] = call[d]
      /\ \A d \in Cycle : CallOK(call'[d]) /\ ProgressOK(call'[d], now')
  BY <1>1, <1>2, IdleOK, CallContinues
<1>7. TInv'
  BY <1>1, <1>4, <1>5, <1>6 DEF TInv, TypeOK, Progress
<1> QED
  BY <1>1, <1>6, <1>7

LEMMA FailReads ==
  ASSUME TInv, NEW c \in Cycle, Fail(c)
  PROVE  /\ TInv'
         /\ call'[c] = IdleCall
         /\ \A d \in Cycle \ {c} : call'[d] = call[d]
         /\ UNCHANGED <<snapshots, stagnation, dwell, now>>
<1>1. Continue(c, IdleCall) /\ UNCHANGED <<committed, changedAt, now>> /\ now \in Int
  BY ArcAssumption DEF Fail, TInv, TypeOK
<1>2. /\ DOMAIN call' = Cycle /\ call'[c] = IdleCall
      /\ \A d \in Cycle \ {c} : call'[d] = call[d]
      /\ \A d \in Cycle : CallOK(call'[d]) /\ ProgressOK(call'[d], now')
  BY <1>1, IdleOK, CallContinues
<1>3. UNCHANGED <<snapshots, stagnation, dwell, changedAt, now>>
  BY <1>1 DEF committed
<1>4. TInv'
  BY <1>2, <1>3 DEF TInv, TypeOK, Progress
<1> QED
  BY <1>2, <1>3, <1>4

LEMMA StutterTypes ==
  TInv /\ UNCHANGED vars => TInv'
  BY DEF TInv, TypeOK, Progress, vars, committed

LEMMA TypesStep ==
  ASSUME TInv, [Next]_vars
  PROVE  TInv'
<1>1. CASE UNCHANGED vars
  BY <1>1, StutterTypes
<1>2. CASE Next
  <2>1. PICK c \in Cycle :
          \/ \E scores \in Composable, changed \in SUBSET Changing :
               Compose(c, scores, changed)
          \/ Save(c)
          \/ Fail(c)
    BY <1>2 DEF Next
  <2>2. CASE \E scores \in Composable, changed \in SUBSET Changing :
               Compose(c, scores, changed)
    BY <2>2, ComposeReads
  <2>3. CASE Save(c)
    BY <2>3, SaveSensorSetsReads, UpsertStagnationReads, UpsertFlowDwellReads,
       CommitReads DEF Save
  <2>4. CASE Fail(c)
    BY <2>4, FailReads
  <2> QED
    BY <2>1, <2>2, <2>3, <2>4
<1> QED
  BY <1>1, <1>2

\* The rows of both tables and the calls of the cycles have their types: no
\* hour, bucket or sum is negative, and a cycle only ever writes the rows of
\* its routes (SaveSnapshot).
THEOREM ArcTypes ==
  Spec => []TypeOK
<1>1. TInv /\ [Next]_vars => TInv'
  BY TypesStep
<1>2. TInv => TypeOK
  BY DEF TInv
<1> QED
  BY <1>1, <1>2, InitTypes, PTL DEF Spec

-----------------------------------------------------------------------------
(* What the cycles have written *)

LEMMA KeysReads ==
  ASSUME NEW R, NEW r, NEW end, NEW scores
  PROVE  /\ Keys({}, end, scores) = {} /\ DwellKeys({}, end, scores) = {}
         /\ Keys(R \cup {r}, end, scores) =
              Keys(R, end, scores) \cup {StagnationKeyOf(r, end, scores[r])}
         /\ DwellKeys(R \cup {r}, end, scores) =
              DwellKeys(R, end, scores) \cup {DwellKeyOf(r, end, scores[r])}
  BY DEF Keys, DwellKeys

\* A key tells its route.
LEMMA KeyFields ==
  ASSUME NEW r, NEW end, NEW s
  PROVE  /\ StagnationKeyOf(r, end, s).route = r
         /\ DwellKeyOf(r, end, s).route = r
         /\ StagnationKeyOf(r, end, s).hour = Hour(end)
         /\ DwellKeyOf(r, end, s).hour = Hour(end)
  BY DEF StagnationKeyOf, DwellKeyOf

\* No key belongs to both tables.
LEMMA TablesDiffer ==
  ASSUME NEW r, NEW end, NEW s, NEW q, NEW e, NEW t
  PROVE  StagnationKeyOf(r, end, s) # DwellKeyOf(q, e, t)
<1>1. "sameSensor" \in DOMAIN StagnationKeyOf(r, end, s)
  BY DEF StagnationKeyOf
<1>2. "sameSensor" \notin DOMAIN DwellKeyOf(q, e, t)
  BY DEF DwellKeyOf
<1> QED
  BY <1>1, <1>2

LEMMA NothingWritten ==
  ASSUME NEW k, k.step \notin {"upsert", "upsert_dwell"},
         k.stagnation = NoRows, k.dwell = NoRows
  PROVE  WrittenOK(k)
<1>1. Done(k) = {} /\ Begun(k) = {}
  BY DEF Done, Begun
<1> QED
  BY <1>1, KeysReads, NoRowsTypes DEF WrittenOK

LEMMA WithRowDomain ==
  ASSUME NEW w, NEW key, NEW row
  PROVE  DOMAIN WithRow(w, key, row) = DOMAIN w \cup {key}
  BY DEF WithRow

LEMMA WrittenStep ==
  ASSUME TInv, Written, [Next]_vars
  PROVE  Written'
<1>1. CASE UNCHANGED vars
  BY <1>1 DEF Written, vars
<1>2. SUFFICES ASSUME NEW c \in Cycle,
                      \/ \E scores \in Composable, changed \in SUBSET Changing :
                           Compose(c, scores, changed)
                      \/ Save(c)
                      \/ Fail(c)
               PROVE  (\A d \in Cycle \ {c} : call'[d] = call[d]) /\ WrittenOK(call'[c])
  BY <1>1, <1>2 DEF Written, Next
<1>3. CASE \E scores \in Composable, changed \in SUBSET Changing :
             Compose(c, scores, changed)
  BY <1>3, ComposeReads, NothingWritten
<1>4. CASE SaveSensorSets(c)
  <2> DEFINE k == call[c]
             n == call'[c]
  <2>1. /\ k.step = "save_sets" /\ n.step = "upsert" /\ n.scores = k.scores
        /\ n.todo = Scored(k.scores)
        /\ n.stagnation = k.stagnation /\ n.dwell = k.dwell
    BY <1>4, SaveSensorSetsReads
  <2>2. WrittenOK(k)
    BY DEF Written
  <2> HIDE DEF k, n
  <2>3. Done(k) = {} /\ Begun(k) = {} /\ Done(n) = {} /\ Begun(n) = {}
    BY <2>1 DEF Done, Begun
  <2>4. WrittenOK(n)
    BY <2>1, <2>2, <2>3, KeysReads DEF WrittenOK
  <2> QED
    BY <1>4, <2>4, SaveSensorSetsReads DEF n
<1>5. CASE UpsertStagnation(c)
  <2> DEFINE k == call[c]
             n == call'[c]
             r == n.route
             key == StagnationKeyOf(r, k.end, k.scores[r])
  <2>1. /\ k.step = "upsert" /\ n.step = "upsert_dwell" /\ n.end = k.end
        /\ n.scores = k.scores /\ n.todo = k.todo /\ n.dwell = k.dwell
    BY <1>5, UpsertStagnationReads
  <2>2. DOMAIN n.stagnation = DOMAIN k.stagnation \cup {key}
    <3>1. PICK row : n.stagnation = WithRow(k.stagnation, key, row)
      BY <1>5, UpsertStagnationReads
    <3> HIDE DEF n, k, key
    <3> QED
      BY <3>1, WithRowDomain
  <2>a. \A d \in Cycle \ {c} : call'[d] = call[d]
    BY <1>5, UpsertStagnationReads
  <2>3. WrittenOK(k)
    BY DEF Written
  <2> HIDE DEF k, n
  <2>4. Begun(k) = Done(k) /\ Done(n) = Done(k) /\ Begun(n) = Done(k) \cup {r}
    BY <2>1 DEF Done, Begun
  <2>b. Keys(Done(k) \cup {r}, k.end, k.scores) = Keys(Done(k), k.end, k.scores) \cup {key}
    BY DEF Keys
  <2> HIDE DEF key, r
  <2>5. WrittenOK(n)
    BY <2>1, <2>2, <2>3, <2>4, <2>b DEF WrittenOK
  <2> QED
    BY <2>5, <2>a DEF n
<1>6. CASE UpsertFlowDwell(c)
  <2> DEFINE k == call[c]
             n == call'[c]
             r == k.route
             key == DwellKeyOf(r, k.end, k.scores[r])
  <2>1. /\ k.step = "upsert_dwell" /\ n.step = "upsert" /\ n.end = k.end
        /\ n.scores = k.scores /\ n.todo = k.todo \ {r} /\ n.stagnation = k.stagnation
    BY <1>6, UpsertFlowDwellReads
  <2>a. \A d \in Cycle \ {c} : call'[d] = call[d]
    BY <1>6, UpsertFlowDwellReads
  <2>2. DOMAIN n.dwell = DOMAIN k.dwell \cup {key}
    <3>1. PICK row : n.dwell = WithRow(k.dwell, key, row)
      BY <1>6, UpsertFlowDwellReads
    <3> HIDE DEF n, k, key
    <3> QED
      BY <3>1, WithRowDomain
  <2>3. WrittenOK(k) /\ r \in k.todo /\ k.todo \subseteq Scored(k.scores)
    <3>1. ProgressOK(k, now) /\ WrittenOK(k)
      BY DEF Written, TInv, Progress
    <3> QED
      BY <2>1, <3>1 DEF ProgressOK, NextRoute
  <2> HIDE DEF k, n
  <2>4. Begun(k) = Done(k) \cup {r} /\ Done(n) = Done(k) \cup {r} /\ Begun(n) = Done(n)
    BY <2>1, <2>3 DEF Done, Begun
  <2>b. DwellKeys(Done(k) \cup {r}, k.end, k.scores) =
          DwellKeys(Done(k), k.end, k.scores) \cup {key}
    BY DEF DwellKeys
  <2> HIDE DEF key, r
  <2>5. WrittenOK(n)
    BY <2>1, <2>2, <2>3, <2>4, <2>b DEF WrittenOK
  <2> QED
    BY <2>5, <2>a DEF n
<1>7. CASE Commit(c) \/ Fail(c)
  <2>1. call'[c] = IdleCall /\ \A d \in Cycle \ {c} : call'[d] = call[d]
    BY <1>7, CommitReads, FailReads
  <2> QED
    BY <2>1, NothingWritten, StepsDiffer
<1> QED
  BY <1>2, <1>3, <1>4, <1>5, <1>6, <1>7 DEF Save

LEMMA ExclusiveStep ==
  ASSUME TInv, Exclusive, [Next]_vars
  PROVE  Exclusive'
<1> DEFINE Apart(c, k) ==
             \A d \in Cycle \ {c} :
               /\ DOMAIN k.stagnation \cap DOMAIN call[d].stagnation = {}
               /\ DOMAIN k.dwell \cap DOMAIN call[d].dwell = {}
<1>1. CASE UNCHANGED vars
  BY <1>1 DEF Exclusive, vars
<1>2. SUFFICES ASSUME NEW c \in Cycle,
                      \/ \E scores \in Composable, changed \in SUBSET Changing :
                           Compose(c, scores, changed)
                      \/ Save(c)
                      \/ Fail(c)
               PROVE  (\A d \in Cycle \ {c} : call'[d] = call[d]) /\ Apart(c, call'[c])
  <2> HIDE DEF Apart
  <2>1. CASE Next
    <3>1. PICK c \in Cycle : /\ \A d \in Cycle \ {c} : call'[d] = call[d]
                             /\ Apart(c, call'[c])
      BY <1>2, <2>1 DEF Next
    <3> QED
      BY <3>1 DEF Exclusive, Apart
  <2> QED
    BY <1>1, <2>1
<1>3. Apart(c, call[c])
  BY DEF Exclusive
<1>4. \A k : k.stagnation = NoRows /\ k.dwell = NoRows => Apart(c, k)
  BY NoRowsTypes
<1>5. CASE \E scores \in Composable, changed \in SUBSET Changing :
             Compose(c, scores, changed)
  <2> HIDE DEF Apart
  <2> QED
    BY <1>4, <1>5, ComposeReads
<1>6. CASE SaveSensorSets(c)
  BY <1>3, <1>6, SaveSensorSetsReads
<1>7. CASE UpsertStagnation(c)
  <2> DEFINE k == call[c]
             n == call'[c]
             key == StagnationKeyOf(n.route, k.end, k.scores[n.route])
  <2>1. /\ Unlocked(c, key) /\ n.dwell = k.dwell
        /\ \A d \in Cycle \ {c} : call'[d] = call[d]
    BY <1>7, UpsertStagnationReads
  <2>2. DOMAIN n.stagnation = DOMAIN k.stagnation \cup {key}
    <3>1. PICK row : n.stagnation = WithRow(k.stagnation, key, row)
      BY <1>7, UpsertStagnationReads
    <3> HIDE DEF n, k, key
    <3> QED
      BY <3>1, WithRowDomain
  <2>3. \A d \in Cycle \ {c} : key \notin DOMAIN call[d].stagnation
    <3> HIDE DEF key
    <3> QED
      BY <2>1 DEF Unlocked, HasWritten
  <2> HIDE DEF key, n
  <2> QED
    BY <1>3, <2>1, <2>2, <2>3 DEF n
<1>8. CASE UpsertFlowDwell(c)
  <2> DEFINE k == call[c]
             n == call'[c]
             key == DwellKeyOf(k.route, k.end, k.scores[k.route])
  <2>1. /\ Unlocked(c, key) /\ n.stagnation = k.stagnation
        /\ \A d \in Cycle \ {c} : call'[d] = call[d]
    BY <1>8, UpsertFlowDwellReads
  <2>2. DOMAIN n.dwell = DOMAIN k.dwell \cup {key}
    <3>1. PICK row : n.dwell = WithRow(k.dwell, key, row)
      BY <1>8, UpsertFlowDwellReads
    <3> HIDE DEF n, k, key
    <3> QED
      BY <3>1, WithRowDomain
  <2>3. \A d \in Cycle \ {c} : key \notin DOMAIN call[d].dwell
    <3> HIDE DEF key
    <3> QED
      BY <2>1 DEF Unlocked, HasWritten
  <2> HIDE DEF key, n
  <2> QED
    BY <1>3, <2>1, <2>2, <2>3 DEF n
<1>9. CASE Commit(c) \/ Fail(c)
  <2>1. call'[c] = IdleCall /\ \A d \in Cycle \ {c} : call'[d] = call[d]
    BY <1>9, CommitReads, FailReads
  <2> HIDE DEF Apart
  <2> QED
    BY <1>4, <2>1, StepsDiffer
<1> HIDE DEF Apart
<1> QED
  BY <1>2, <1>5, <1>6, <1>7, <1>8, <1>9 DEF Save

LEMMA EndsStep ==
  ASSUME TInv, EndsDiffer, IsFiniteSet(snapshots), [Next]_vars
  PROVE  EndsDiffer' /\ IsFiniteSet(snapshots')
<1>1. CASE UNCHANGED vars
  BY <1>1 DEF EndsDiffer, Active, vars, committed
<1>2. SUFFICES ASSUME NEW c \in Cycle,
                      \/ \E scores \in Composable, changed \in SUBSET Changing :
                           Compose(c, scores, changed)
                      \/ Save(c)
                      \/ Fail(c)
               PROVE  EndsDiffer' /\ IsFiniteSet(snapshots')
  BY <1>1, <1>2 DEF Next
<1>3. /\ \A s \in snapshots : s.end \in Int
      /\ \A d \in Cycle : Active(d) => call[d].end \in Int /\ call[d].end < now
      /\ now \in Int
  BY ActiveReads, ArcAssumption DEF TInv, TypeOK, Snapshot, Time, Active
<1>4. CASE \E scores \in Composable, changed \in SUBSET Changing :
             Compose(c, scores, changed)
  <2>1. /\ call'[c].end = now /\ now' = now + 1 /\ snapshots' = snapshots
        /\ \A d \in Cycle \ {c} : call'[d] = call[d]
    BY <1>4, ComposeReads
  <2>2. \A s \in snapshots : s.end < now' /\ s.end # now
    BY <1>3, <2>1 DEF EndsDiffer
  <2>3. \A d \in Cycle \ {c} : Active(d) => call[d].end # now
    BY <1>3
  <2>4. EndsDiffer'
    BY <2>1, <2>2, <2>3 DEF EndsDiffer, Active
  <2> QED
    BY <2>1, <2>4
<1>5. CASE SaveSensorSets(c) \/ UpsertStagnation(c) \/ UpsertFlowDwell(c)
  <2>1. /\ Active(c) /\ call'[c].end = call[c].end
        /\ \A d \in Cycle \ {c} : call'[d] = call[d]
        /\ now' = now /\ snapshots' = snapshots
    BY <1>5, SaveSensorSetsReads, UpsertStagnationReads, UpsertFlowDwellReads DEF Active
  <2> QED
    BY <2>1 DEF EndsDiffer, Active
<1>6. CASE Commit(c)
  <2>1. /\ Active(c) /\ call'[c] = IdleCall /\ now' = now
        /\ \A d \in Cycle \ {c} : call'[d] = call[d]
        /\ snapshots' = snapshots \cup {Own(call[c])}
    BY <1>6, CommitReads DEF Active
  <2>2. Own(call[c]).end = call[c].end /\ call[c].end >= Window /\ call[c].end < now
    BY <2>1, ActiveReads, ArcAssumption DEF Own, Active
  <2>3. IsFiniteSet(snapshots')
    BY <2>1, FS_AddElement
  <2>4. IdleCall.step = "idle"
    BY StepsDiffer
  <2> HIDE DEF Own
  <2>5. EndsDiffer'
    BY <2>1, <2>2, <2>4 DEF EndsDiffer, Active
  <2> QED
    BY <2>3, <2>5
<1>7. CASE Fail(c)
  <2>1. /\ call'[c] = IdleCall /\ now' = now /\ snapshots' = snapshots
        /\ \A d \in Cycle \ {c} : call'[d] = call[d]
    BY <1>7, FailReads
  <2>2. IdleCall.step = "idle"
    BY StepsDiffer
  <2> QED
    BY <2>1, <2>2 DEF EndsDiffer, Active
<1> QED
  BY <1>2, <1>4, <1>5, <1>6, <1>7 DEF Save

-----------------------------------------------------------------------------
(* No circle of waits *)

\* What a cycle adds next, as a number that grows from one statement to the
\* next.
Wants(k) ==
  \/ k.step = "upsert_dwell"
  \/ k.step = "upsert" /\ NextRoute(k.todo) # {}

Pos(k) ==
  IF k.step = "upsert_dwell" THEN 2 * k.route + 1
  ELSE 2 * (CHOOSE r \in NextRoute(k.todo) : TRUE)

LEMMA PosReads ==
  ASSUME NEW k, NEW time, ProgressOK(k, time), Wants(k)
  PROVE  \E r \in k.todo :
           /\ r \in NextRoute(k.todo) /\ r \in Nat
           /\ \A q \in NextRoute(k.todo) : q = r
           /\ \A q \in Done(k) : q \in Nat /\ q < r
           /\ k.step = "upsert_dwell" => r = k.route /\ Pos(k) = 2 * r + 1
           /\ k.step = "upsert" => Pos(k) = 2 * r
<1>1. PICK r \in NextRoute(k.todo) : k.step = "upsert_dwell" => r = k.route
  BY DEF Wants, ProgressOK
<1>2. /\ k.todo \subseteq Nat /\ r \in k.todo
      /\ Scored(k.scores) \subseteq Nat
  BY <1>1 DEF ProgressOK, Route, NextRoute, Scored
<1>3. ASSUME NEW q \in NextRoute(k.todo)
      PROVE  q = r
  <2>1. q \in Nat /\ r \in Nat /\ q <= r /\ r <= q
    BY <1>1, <1>2, NextRouteReads
  <2> QED
    BY <2>1
<1>4. \A q \in Done(k) : q \in Nat /\ q < r
  BY <1>2 DEF Wants, ProgressOK, Done
<1>5. (CHOOSE q \in NextRoute(k.todo) : TRUE) = r
  BY <1>1, <1>3
<1>6. k.step = "upsert" => Pos(k) = 2 * r
  BY <1>5 DEF Pos
<1>7. k.step = "upsert_dwell" => r = k.route /\ Pos(k) = 2 * r + 1
  BY <1>1 DEF Pos
<1> QED
  BY <1>1, <1>2, <1>3, <1>4, <1>6, <1>7

\* A cycle waits only for one that has come further.
LEMMA WaitsForward ==
  ASSUME TInv, Written, NEW c \in Cycle, NEW d \in Cycle, WaitsFor(c, d), Wants(call[d])
  PROVE  /\ Wants(call[c])
         /\ Pos(call[c]) \in Nat /\ Pos(call[d]) \in Nat
         /\ Pos(call[c]) < Pos(call[d])
<1> DEFINE k == call[c]
           l == call[d]
<1>1. ProgressOK(k, now) /\ ProgressOK(l, now) /\ WrittenOK(l)
  BY DEF TInv, Progress, Written
<1>2. Wants(k)
  BY DEF WaitsFor, Wants
<1>3. PICK q \in l.todo : /\ q \in Nat /\ \A p \in Done(l) : p \in Nat /\ p < q
                          /\ l.step = "upsert_dwell" => q = l.route /\ Pos(l) = 2 * q + 1
                          /\ l.step = "upsert" => Pos(l) = 2 * q
  BY <1>1, PosReads
<1>4. PICK r \in k.todo : /\ r \in NextRoute(k.todo) /\ r \in Nat
                          /\ \A p \in NextRoute(k.todo) : p = r
                          /\ k.step = "upsert_dwell" => r = k.route /\ Pos(k) = 2 * r + 1
                          /\ k.step = "upsert" => Pos(k) = 2 * r
  BY <1>1, <1>2, PosReads
<1>5. CASE k.step = "upsert"
  <2> DEFINE key == StagnationKeyOf(r, k.end, k.scores[r])
  <2>1. key \in DOMAIN l.stagnation \cup DOMAIN l.dwell
    BY <1>4, <1>5 DEF WaitsFor, HasWritten
  <2>2. \/ \E p \in Begun(l) : key = StagnationKeyOf(p, l.end, l.scores[p])
        \/ \E p \in Done(l) : key = DwellKeyOf(p, l.end, l.scores[p])
    <3> HIDE DEF key, l
    <3> QED
      BY <1>1, <2>1 DEF WrittenOK, Keys, DwellKeys
  <2>3. r \in Begun(l)
    <3> HIDE DEF k, l
    <3> QED
      BY <2>2, TablesDiffer, KeyFields
  <2>4. (r = q /\ l.step = "upsert_dwell") \/ r < q
    <3> HIDE DEF l
    <3> QED
      BY <1>3, <2>3 DEF Begun
  <2>5. Pos(l) = 2 * q + 1 \/ (Pos(l) = 2 * q /\ l.step = "upsert")
    BY <1>3 DEF Wants
  <2> HIDE DEF k, l
  <2> QED
    BY <1>2, <1>3, <1>4, <1>5, <2>4, <2>5 DEF k, l
<1>6. CASE k.step = "upsert_dwell"
  <2> DEFINE key == DwellKeyOf(r, k.end, k.scores[r])
  <2>1. key \in DOMAIN l.stagnation \cup DOMAIN l.dwell
    BY <1>4, <1>6 DEF WaitsFor, HasWritten
  <2>2. \/ \E p \in Begun(l) : key = StagnationKeyOf(p, l.end, l.scores[p])
        \/ \E p \in Done(l) : key = DwellKeyOf(p, l.end, l.scores[p])
    <3> HIDE DEF key, l
    <3> QED
      BY <1>1, <2>1 DEF WrittenOK, Keys, DwellKeys
  <2>3. r \in Done(l)
    <3> HIDE DEF k, l
    <3> QED
      BY <2>2, TablesDiffer, KeyFields
  <2>4. r < q
    BY <1>3, <2>3
  <2>5. Pos(l) = 2 * q + 1 \/ Pos(l) = 2 * q
    BY <1>3 DEF Wants
  <2> HIDE DEF k, l
  <2> QED
    BY <1>2, <1>3, <1>4, <1>6, <2>4, <2>5 DEF k, l
<1> QED
  BY <1>2, <1>5, <1>6 DEF Wants

LEMMA NoDeadlockHolds ==
  TInv /\ Written => NoDeadlock
<1> SUFFICES ASSUME TInv, Written, NEW D \in SUBSET Cycle, D # {},
                    \A c \in D : \E d \in D \ {c} : WaitsFor(c, d)
             PROVE  FALSE
  BY DEF NoDeadlock
<1> DEFINE R == {p \in D \X D : Pos(call[p[1]]) < Pos(call[p[2]])}
<1>1. \A c \in D : Wants(call[c]) 
  BY DEF WaitsFor, Wants
<1>2. \A c, d \in D : WaitsFor(c, d) => /\ Pos(call[c]) \in Nat /\ Pos(call[d]) \in Nat
                                        /\ Pos(call[c]) < Pos(call[d])
  BY <1>1, WaitsForward
<1>3. \A c \in D : Pos(call[c]) \in Nat
  BY <1>2
<1>4. \A c, d \in D : <<c, d>> \in R <=> Pos(call[c]) < Pos(call[d])
  OBVIOUS
<1>5. PICK c \in D : \A d \in D : <<c, d>> \notin R
  <2> HIDE DEF R
  <2>1. \A c \in D : <<c, c>> \notin R
    BY <1>3, <1>4
  <2>2. \A b, c, d \in D : <<b, c>> \in R /\ <<c, d>> \in R => <<b, d>> \in R
    BY <1>3, <1>4
  <2>3. D # {} /\ D \in SUBSET Cycle
    OBVIOUS
  <2>4. IsFiniteSet(D)
    BY <2>3, ArcAssumption, FS_Subset
  <2> QED
    BY <2>1, <2>2, <2>3, <2>4, LastExists
<1> HIDE DEF R
<1> QED
  BY <1>2, <1>4, <1>5

-----------------------------------------------------------------------------
(* What a row counts *)

\* x can be counted for the route r.
Counts(r, x) == x.scores[r] \in Sample /\ x.end \in Window..MaxTime

LEMMA EndsAdd ==
  ASSUME NEW S, IsFiniteSet(S), NEW x, \A s \in S \cup {x} : s.end \in Window..MaxTime
  PROVE  IF S = {} THEN Earliest({x}) = Start(x.end) /\ Last({x}) = x.end
         ELSE /\ Earliest(S \cup {x}) = Least(Earliest(S), Start(x.end))
              /\ Last(S \cup {x}) = Greatest(Last(S), x.end)
<1> DEFINE E == {s.end : s \in S}
           F == {s.end : s \in S \cup {x}}
<1>1. Window \in Nat /\ MaxTime \in Nat /\ x.end \in Int
  BY ArcAssumption
<1>2. F = E \cup {x.end} /\ {s.end : s \in {x}} = {x.end}
  OBVIOUS
<1>3. E \in SUBSET Int /\ IsFiniteSet(E)
  <2>1. E \in SUBSET (Window..MaxTime)
    OBVIOUS
  <2>2. IsFiniteSet(Window..MaxTime)
    BY <1>1, FS_Interval
  <2>3. E \in SUBSET Int
    BY <1>1, <2>1
  <2> HIDE DEF E
  <2>4. IsFiniteSet(E)
    BY <2>1, <2>2, FS_Subset
  <2> QED
    BY <2>3, <2>4
<1>4. CASE S = {}
  BY <1>1, <1>2, <1>4, ExtremesOfOne DEF Earliest, Last, Start
<1>5. CASE S # {}
  <2>1. E # {}
    BY <1>5
  <2>2. /\ Earliest(S \cup {x}) = Min(F) - Window /\ Last(S \cup {x}) = Max(F)
        /\ Earliest(S) = Min(E) - Window /\ Last(S) = Max(E)
    BY DEF Earliest, Last
  <2> HIDE DEF E, F
  <2>3. Min(E) \in Int /\ Max(E) \in Int
    BY <1>3, <2>1, MaxReads, MinReads
  <2>4. /\ Min(F) = IF Min(E) <= x.end THEN Min(E) ELSE x.end
        /\ Max(F) = IF Max(E) >= x.end THEN Max(E) ELSE x.end
    BY <1>1, <1>2, <1>3, <2>1, ExtremesAdd
  <2>5. Min(F) - Window = Least(Min(E) - Window, Start(x.end))
    BY <1>1, <2>3, <2>4 DEF Least, Start
  <2>6. Max(F) = Greatest(Max(E), x.end)
    BY <1>1, <2>3, <2>4 DEF Greatest
  <2> QED
    BY <1>5, <2>2, <2>5, <2>6
<1> QED
  BY <1>4, <1>5

LEMMA StagnationRowAdds ==
  ASSUME NEW r, NEW S, IsFiniteSet(S), NEW x, x \notin S,
         \A s \in S \cup {x} : Counts(r, s),
         S # {} => StagnationRowOf(r, S) \in StagnationRow
  PROVE  StagnationRowOf(r, S \cup {x}) =
           IF S = {} THEN NewStagnationRow(x.end, x.scores[r])
           ELSE Merged(StagnationRowOf(r, S), NewStagnationRow(x.end, x.scores[r]))
<1> DEFINE T == S \cup {x}
           v == x.scores[r]
           stagnationOf(A) == SumFunction([s \in A |-> s.scores[r].stagnation])
           flowOf(A) == SumFunction([s \in A |-> s.scores[r].flow])
           flowSquareOf(A) == SumFunction([s \in A |-> s.scores[r].flow * s.scores[r].flow])
           flowStagnationOf(A) ==
             SumFunction([s \in A |-> s.scores[r].flow * s.scores[r].stagnation])
<1>1. \A A : StagnationRowOf(r, A) =
        [count |-> Cardinality(A), stagnation |-> stagnationOf(A), flow |-> flowOf(A),
         flowSquare |-> flowSquareOf(A), flowStagnation |-> flowStagnationOf(A),
         firstStart |-> Earliest(A), lastEnd |-> Last(A)]
  BY DEF StagnationRowOf, Total
<1>2. \A s \in T : /\ s.scores[r].stagnation \in Nat /\ s.scores[r].flow \in Nat
                   /\ s.scores[r].flow * s.scores[r].flow \in Nat
                   /\ s.scores[r].flow * s.scores[r].stagnation \in Nat
  BY DEF Counts, Sample
<1>3. stagnationOf(S) \in Nat /\ stagnationOf(T) = stagnationOf(S) + v.stagnation
  <2> DEFINE f == [s \in S |-> s.scores[r].stagnation]
             e == [s \in T |-> s.scores[r].stagnation]
  <2>1. /\ DOMAIN f = S /\ DOMAIN e = T /\ T = S \cup {x}
        /\ \A s \in S : e[s] = f[s]
        /\ \A s \in T : e[s] \in Nat
        /\ e[x] = v.stagnation
    BY <1>2
  <2> HIDE DEF f, e, T
  <2>2. SumFunction(f) \in Nat /\ SumFunction(e) = SumFunction(f) + v.stagnation
    BY <2>1, SumWithOneMore
  <2> QED
    BY <2>2 DEF f, e, T
<1>4. flowOf(S) \in Nat /\ flowOf(T) = flowOf(S) + v.flow
  <2> DEFINE f == [s \in S |-> s.scores[r].flow]
             e == [s \in T |-> s.scores[r].flow]
  <2>1. /\ DOMAIN f = S /\ DOMAIN e = T /\ T = S \cup {x}
        /\ \A s \in S : e[s] = f[s]
        /\ \A s \in T : e[s] \in Nat
        /\ e[x] = v.flow
    BY <1>2
  <2> HIDE DEF f, e, T
  <2>2. SumFunction(f) \in Nat /\ SumFunction(e) = SumFunction(f) + v.flow
    BY <2>1, SumWithOneMore
  <2> QED
    BY <2>2 DEF f, e, T
<1>5. flowSquareOf(S) \in Nat /\ flowSquareOf(T) = flowSquareOf(S) + v.flow * v.flow
  <2> DEFINE f == [s \in S |-> s.scores[r].flow * s.scores[r].flow]
             e == [s \in T |-> s.scores[r].flow * s.scores[r].flow]
  <2>1. /\ DOMAIN f = S /\ DOMAIN e = T /\ T = S \cup {x}
        /\ \A s \in S : e[s] = f[s]
        /\ \A s \in T : e[s] \in Nat
        /\ e[x] = v.flow * v.flow
    BY <1>2
  <2> HIDE DEF f, e, T
  <2>2. SumFunction(f) \in Nat /\ SumFunction(e) = SumFunction(f) + e[x]
    BY <2>1, SumWithOneMore
  <2> QED
    BY <2>1, <2>2 DEF f, e, T
<1>6. /\ flowStagnationOf(S) \in Nat
      /\ flowStagnationOf(T) = flowStagnationOf(S) + v.flow * v.stagnation
  <2> DEFINE f == [s \in S |-> s.scores[r].flow * s.scores[r].stagnation]
             e == [s \in T |-> s.scores[r].flow * s.scores[r].stagnation]
  <2>1. /\ DOMAIN f = S /\ DOMAIN e = T /\ T = S \cup {x}
        /\ \A s \in S : e[s] = f[s]
        /\ \A s \in T : e[s] \in Nat
    BY <1>2
  <2>3. e[x] = v.flow * v.stagnation
    OBVIOUS
  <2> HIDE DEF f, e, T
  <2>2. SumFunction(f) \in Nat /\ SumFunction(e) = SumFunction(f) + e[x]
    BY <2>1, SumWithOneMore
  <2> QED
    BY <2>2, <2>3 DEF f, e
<1>7. Cardinality(S) \in Nat /\ Cardinality(T) = Cardinality(S) + 1
  BY FS_AddElement, FS_CardinalityType
<1>8. IF S = {} THEN Earliest(T) = Start(x.end) /\ Last(T) = x.end
      ELSE /\ Earliest(T) = Least(Earliest(S), Start(x.end))
           /\ Last(T) = Greatest(Last(S), x.end)
  <2>1. \A s \in S \cup {x} : s.end \in Window..MaxTime
    BY DEF Counts
  <2>2. S = {} => T = {x}
    OBVIOUS
  <2> QED
    BY <2>1, <2>2, EndsAdd
<1>9. CASE S = {}
  <2>1. \A f : DOMAIN f = {} => SumFunction(f) = 0
    BY SumOfNothing
  <2>2. /\ stagnationOf({}) = 0 /\ flowOf({}) = 0
        /\ flowSquareOf({}) = 0 /\ flowStagnationOf({}) = 0
    BY <2>1
  <2>3. Cardinality(S) = 0
    BY <1>9, FS_EmptySet
  <2>4. /\ v.stagnation \in Nat /\ v.flow \in Nat
        /\ v.flow * v.flow \in Nat /\ v.flow * v.stagnation \in Nat
    BY <1>2
  <2>5. /\ stagnationOf(T) = v.stagnation /\ flowOf(T) = v.flow
        /\ flowSquareOf(T) = v.flow * v.flow /\ flowStagnationOf(T) = v.flow * v.stagnation
        /\ Cardinality(T) = 1
    <3> HIDE DEF stagnationOf, flowOf, flowSquareOf, flowStagnationOf, T, v
    <3> QED
      BY <1>3, <1>4, <1>5, <1>6, <1>7, <1>9, <2>2, <2>3, <2>4
  <2> HIDE DEF stagnationOf, flowOf, flowSquareOf, flowStagnationOf
  <2>6. StagnationRowOf(r, T) = NewStagnationRow(x.end, v)
    BY <1>1, <1>8, <1>9, <2>5 DEF NewStagnationRow
  <2> QED
    BY <1>9, <2>6
<1>10. CASE S # {}
  <2> DEFINE h == StagnationRowOf(r, S)
             n == NewStagnationRow(x.end, v)
  <2>1. n \in StagnationRow
    BY NewRowTypes DEF Counts
  <2>2. /\ n.count = 1 /\ n.stagnation = v.stagnation /\ n.flow = v.flow
        /\ n.flowSquare = v.flow * v.flow /\ n.flowStagnation = v.flow * v.stagnation
        /\ n.firstStart = Start(x.end) /\ n.lastEnd = x.end
    BY DEF NewStagnationRow
  <2> HIDE DEF stagnationOf, flowOf, flowSquareOf, flowStagnationOf, v, n, T
  <2>3. /\ h.count = Cardinality(S) /\ h.stagnation = stagnationOf(S)
        /\ h.flow = flowOf(S) /\ h.flowSquare = flowSquareOf(S)
        /\ h.flowStagnation = flowStagnationOf(S)
        /\ h.firstStart = Earliest(S) /\ h.lastEnd = Last(S)
    BY <1>1
  <2>4. h \in StagnationRow
    BY <1>10
  <2> HIDE DEF h
  <2>5. StagnationRowOf(r, T) = Merged(h, n)
    BY <1>1, <1>3, <1>4, <1>5, <1>6, <1>7, <1>8, <1>10, <2>1, <2>2, <2>3, <2>4,
       MergedStagnation
  <2> QED
    BY <1>10, <2>5 DEF T, h, n, v
<1> QED
  BY <1>9, <1>10

LEMMA DwellRowAdds ==
  ASSUME NEW S, IsFiniteSet(S), NEW x, x \notin S,
         \A s \in S \cup {x} : s.end \in Window..MaxTime,
         S # {} => DwellRowOf(S) \in DwellRow
  PROVE  DwellRowOf(S \cup {x}) =
           IF S = {} THEN NewDwellRow(x.end) ELSE Merged(DwellRowOf(S), NewDwellRow(x.end))
<1> DEFINE T == S \cup {x}
<1>1. Cardinality(S) \in Nat /\ Cardinality(T) = Cardinality(S) + 1
  BY FS_AddElement, FS_CardinalityType
<1>2. IF S = {} THEN Earliest(T) = Start(x.end) /\ Last(T) = x.end
      ELSE /\ Earliest(T) = Least(Earliest(S), Start(x.end))
           /\ Last(T) = Greatest(Last(S), x.end)
  <2>1. S = {} => T = {x}
    OBVIOUS
  <2> QED
    BY <2>1, EndsAdd
<1>3. CASE S = {}
  <2>1. Cardinality(T) = 1
    BY <1>1, <1>3, FS_EmptySet
  <2> HIDE DEF T
  <2>2. DwellRowOf(T) = NewDwellRow(x.end)
    BY <1>2, <1>3, <2>1 DEF DwellRowOf, NewDwellRow
  <2> QED
    BY <1>3, <2>2 DEF T
<1>4. CASE S # {}
  <2> DEFINE h == DwellRowOf(S)
             n == NewDwellRow(x.end)
  <2>1. n \in DwellRow
    <3>1. x.end \in Window..MaxTime
      OBVIOUS
    <3> QED
      BY <3>1, HourReads DEF NewDwellRow, DwellRow
  <2>2. n.count = 1 /\ n.firstStart = Start(x.end) /\ n.lastEnd = x.end
    BY DEF NewDwellRow
  <2>3. /\ h.count = Cardinality(S) /\ h.firstStart = Earliest(S) /\ h.lastEnd = Last(S)
    BY DEF DwellRowOf
  <2>4. h \in DwellRow
    BY <1>4
  <2> HIDE DEF h, n, T
  <2>5. DwellRowOf(T) = Merged(h, n)
    BY <1>1, <1>2, <1>4, <2>1, <2>2, <2>3, <2>4, MergedDwell DEF DwellRowOf
  <2> QED
    BY <1>4, <2>5 DEF T, h, n
<1> QED
  BY <1>3, <1>4

\* The snapshots that are kept can be counted.
LEMMA KeptCounts ==
  ASSUME IInv
  PROVE  /\ \A s \in snapshots, r \in Route :
              s.end \in Window..MaxTime /\ (s.scores[r] # Null => Counts(r, s))
         /\ \A key \in DOMAIN stagnation : key.route \in Route
         /\ \A key \in DOMAIN dwell : key.route \in Route
<1>1. \A s \in snapshots : s.end \in Window..MaxTime /\ s.scores \in Composable
  BY ArcAssumption DEF IInv, TInv, TypeOK, EndsDiffer, Snapshot, Time
<1>2. \A s \in snapshots, r \in Route : s.scores[r] # Null => Counts(r, s)
  BY <1>1, ArcAssumption DEF Counts
<1>3. /\ \A key \in DOMAIN stagnation : key.route \in Route
      /\ \A key \in DOMAIN dwell : key.route \in Route
  BY DEF IInv, TInv, TypeOK, IsTable, StagnationKey, DwellKey
<1> QED
  BY <1>1, <1>2, <1>3

\* A row exists when a snapshot is filed in it.
LEMMA RowExists ==
  ASSUME IInv, NEW key, key.route \in Route
  PROVE  /\ key \in DOMAIN stagnation <=> Filed(snapshots, key) # {}
         /\ key \in DOMAIN dwell <=> FiledDwell(snapshots, key) # {}
<1>1. key \in DOMAIN stagnation <=>
        \E s \in snapshots : \E r \in Scored(s.scores) :
          key = StagnationKeyOf(r, s.end, s.scores[r])
  BY DEF IInv, RowsAggregateSnapshots, Keys
<1>2. key \in DOMAIN dwell <=>
        \E s \in snapshots : \E r \in Scored(s.scores) :
          key = DwellKeyOf(r, s.end, s.scores[r])
  BY DEF IInv, RowsAggregateSnapshots, DwellKeys
<1>3. \A s, r : key = StagnationKeyOf(r, s.end, s.scores[r]) => key.route = r
  BY KeyFields
<1>4. \A s, r : key = DwellKeyOf(r, s.end, s.scores[r]) => key.route = r
  BY KeyFields
<1>5. key \in DOMAIN stagnation <=> Filed(snapshots, key) # {}
  BY <1>1, <1>3 DEF Filed, Scored
<1>6. key \in DOMAIN dwell <=> FiledDwell(snapshots, key) # {}
  BY <1>2, <1>4 DEF FiledDwell, Scored
<1> QED
  BY <1>5, <1>6

\* An upsert counts the snapshot that is being saved.
LEMMA UpsertedStagnation ==
  ASSUME IInv, NEW c \in Cycle, Active(c), NEW r \in Scored(call[c].scores),
         NEW key, key = StagnationKeyOf(r, call[c].end, call[c].scores[r])
  PROVE  Upserted(stagnation, key, NewStagnationRow(call[c].end, call[c].scores[r])) =
           StagnationRowOf(r, Filed(snapshots \cup {Own(call[c])}, key))
<1> DEFINE x == Own(call[c])
           F == Filed(snapshots, key)
           G == Filed(snapshots \cup {x}, key)
<1>1. x.end = call[c].end /\ x.scores = call[c].scores /\ key.route = r /\ r \in Route
  BY KeyFields DEF Own, Scored
<1>2. x \notin snapshots /\ Counts(r, x)
  <2>1. call[c].end \in Window..MaxTime /\ call[c].scores[r] \in Sample
    BY ActiveReads DEF IInv, Active
  <2>2. \A s \in snapshots : s.end # call[c].end
    BY DEF IInv, EndsDiffer
  <2> HIDE DEF x
  <2> QED
    BY <1>1, <2>1, <2>2 DEF Counts
<1>3. F \subseteq snapshots /\ IsFiniteSet(F)
  <2>1. F \in SUBSET snapshots
    BY DEF Filed
  <2> HIDE DEF F
  <2> QED
    BY <2>1, FS_Subset DEF IInv
<1>4. G = F \cup {x}
  <2>1. x.scores[key.route] # Null /\ StagnationKeyOf(key.route, x.end, x.scores[key.route]) = key
    <3> HIDE DEF x
    <3> QED
      BY <1>1 DEF Scored
  <2> HIDE DEF x
  <2> QED
    BY <2>1 DEF Filed
<1>5. \A s \in F : Counts(r, s)
  <2>1. \A s \in F : s.scores[r] # Null
    BY <1>1 DEF Filed
  <2> HIDE DEF F
  <2> QED
    BY <1>1, <1>3, <2>1, KeptCounts
<1>6. key \in DOMAIN stagnation <=> F # {}
  BY <1>1, RowExists
<1>7. key \in DOMAIN stagnation =>
        stagnation[key] = StagnationRowOf(r, F) /\ stagnation[key] \in StagnationRow
  BY <1>1 DEF IInv, RowsAggregateSnapshots, TInv, TypeOK, IsTable
<1> HIDE DEF x, F, G
<1>8. \A s \in F \cup {x} : Counts(r, s)
  BY <1>2, <1>5
<1>9. x \notin F
  BY <1>2, <1>3
<1>10. StagnationRowOf(r, F \cup {x}) =
         IF F = {} THEN NewStagnationRow(x.end, x.scores[r])
         ELSE Merged(StagnationRowOf(r, F), NewStagnationRow(x.end, x.scores[r]))
  BY <1>3, <1>6, <1>7, <1>8, <1>9, StagnationRowAdds
<1>11. StagnationRowOf(r, G) =
         Upserted(stagnation, key, NewStagnationRow(x.end, x.scores[r]))
  BY <1>4, <1>6, <1>7, <1>10 DEF Upserted
<1> QED
  BY <1>1, <1>11 DEF x, G

LEMMA UpsertedDwell ==
  ASSUME IInv, NEW c \in Cycle, Active(c), NEW r \in Scored(call[c].scores),
         NEW key, key = DwellKeyOf(r, call[c].end, call[c].scores[r])
  PROVE  Upserted(dwell, key, NewDwellRow(call[c].end)) =
           DwellRowOf(FiledDwell(snapshots \cup {Own(call[c])}, key))
<1> DEFINE x == Own(call[c])
           F == FiledDwell(snapshots, key)
           G == FiledDwell(snapshots \cup {x}, key)
<1>1. x.end = call[c].end /\ x.scores = call[c].scores /\ key.route = r /\ r \in Route
  BY KeyFields DEF Own, Scored
<1>2. x \notin snapshots /\ x.end \in Window..MaxTime
  <2>1. call[c].end \in Window..MaxTime
    BY ActiveReads DEF IInv, Active
  <2>2. \A s \in snapshots : s.end # call[c].end
    BY DEF IInv, EndsDiffer
  <2> HIDE DEF x
  <2> QED
    BY <1>1, <2>1, <2>2
<1>3. F \subseteq snapshots /\ IsFiniteSet(F)
  <2>1. F \in SUBSET snapshots
    BY DEF FiledDwell
  <2> HIDE DEF F
  <2> QED
    BY <2>1, FS_Subset DEF IInv
<1>4. G = F \cup {x}
  <2>1. x.scores[key.route] # Null /\ DwellKeyOf(key.route, x.end, x.scores[key.route]) = key
    <3> HIDE DEF x
    <3> QED
      BY <1>1 DEF Scored
  <2> HIDE DEF x
  <2> QED
    BY <2>1 DEF FiledDwell
<1>5. \A s \in F : s.end \in Window..MaxTime
  BY <1>1, <1>3, KeptCounts
<1>6. key \in DOMAIN dwell <=> F # {}
  BY <1>1, RowExists
<1>7. key \in DOMAIN dwell => dwell[key] = DwellRowOf(F) /\ dwell[key] \in DwellRow
  BY DEF IInv, RowsAggregateSnapshots, TInv, TypeOK, IsTable
<1> HIDE DEF x, F, G
<1>8. \A s \in F \cup {x} : s.end \in Window..MaxTime
  BY <1>2, <1>5
<1>9. x \notin F
  BY <1>2, <1>3
<1>10. DwellRowOf(F \cup {x}) =
         IF F = {} THEN NewDwellRow(x.end) ELSE Merged(DwellRowOf(F), NewDwellRow(x.end))
  BY <1>3, <1>6, <1>7, <1>8, <1>9, DwellRowAdds
<1>11. DwellRowOf(G) = Upserted(dwell, key, NewDwellRow(x.end))
  BY <1>4, <1>6, <1>7, <1>10 DEF Upserted
<1> QED
  BY <1>1, <1>11 DEF x, G

\* A cycle that has written all its rows is not counted in any other.
LEMMA NotFiled ==
  ASSUME IInv, NEW c \in Cycle, call[c].step = "upsert", call[c].todo = {},
         NEW key, key.route \in Route, NEW S, NEW T, T = S \cup {Own(call[c])}
  PROVE  /\ key \notin DOMAIN call[c].stagnation => Filed(T, key) = Filed(S, key)
         /\ key \notin DOMAIN call[c].dwell => FiledDwell(T, key) = FiledDwell(S, key)
<1> DEFINE k == call[c]
           x == Own(k)
<1>1. x.end = k.end /\ x.scores = k.scores
  BY DEF Own
<1>2. Done(k) = Scored(k.scores) /\ Begun(k) = Scored(k.scores)
  BY DEF Done, Begun
<1>3. WrittenOK(k)
  BY DEF IInv, Written
<1> HIDE DEF k, x
<1>4. key \notin DOMAIN k.stagnation =>
        ~ (/\ x.scores[key.route] # Null
           /\ StagnationKeyOf(key.route, x.end, x.scores[key.route]) = key)
  BY <1>1, <1>2, <1>3 DEF WrittenOK, Keys, Scored
<1>5. key \notin DOMAIN k.dwell =>
        ~ (/\ x.scores[key.route] # Null
           /\ DwellKeyOf(key.route, x.end, x.scores[key.route]) = key)
  BY <1>1, <1>2, <1>3 DEF WrittenOK, DwellKeys, Scored
<1>6. T = S \cup {x}
  BY DEF k, x
<1>7. key \notin DOMAIN k.stagnation => Filed(T, key) = Filed(S, key)
  BY <1>4, <1>6 DEF Filed
<1>8. key \notin DOMAIN k.dwell => FiledDwell(T, key) = FiledDwell(S, key)
  BY <1>5, <1>6 DEF FiledDwell
<1> QED
  BY <1>7, <1>8 DEF k

\* The commit of one cycle.
LEMMA CommitAggregates ==
  ASSUME IInv, NEW c \in Cycle, Commit(c)
  PROVE  RowsAggregateSnapshots'
<1> DEFINE k == call[c]
           x == Own(k)
<1>1. /\ k.step = "upsert" /\ k.todo = {} /\ snapshots' = snapshots \cup {x}
      /\ stagnation' = Overlaid(k.stagnation, stagnation)
      /\ dwell' = Overlaid(k.dwell, dwell)
  BY CommitReads DEF IInv
<1>3. /\ DOMAIN k.stagnation = Keys(Scored(x.scores), x.end, x.scores)
      /\ DOMAIN k.dwell = DwellKeys(Scored(x.scores), x.end, x.scores)
  <2>1. WrittenOK(k) /\ x.end = k.end /\ x.scores = k.scores
    BY DEF IInv, Written, Own
  <2> HIDE DEF k, x
  <2>2. Done(k) = Scored(k.scores) /\ Begun(k) = Scored(k.scores)
    BY <1>1 DEF Done, Begun
  <2> QED
    BY <2>1, <2>2 DEF WrittenOK
<1>4. UncommittedOK(k, snapshots) /\ RowsAggregateSnapshots
  BY DEF IInv, UncommittedAggregate
<1>5. \A key : key.route \in Route =>
        /\ key \notin DOMAIN k.stagnation => Filed(snapshots', key) = Filed(snapshots, key)
        /\ key \notin DOMAIN k.dwell => FiledDwell(snapshots', key) = FiledDwell(snapshots, key)
  BY <1>1, NotFiled
<1> HIDE DEF k
<1>6. /\ DOMAIN stagnation' = DOMAIN k.stagnation \cup DOMAIN stagnation
      /\ \A key \in DOMAIN k.stagnation : stagnation'[key] = k.stagnation[key]
      /\ \A key \in DOMAIN stagnation \ DOMAIN k.stagnation :
           stagnation'[key] = stagnation[key]
  BY <1>1 DEF Overlaid
<1>7. /\ DOMAIN dwell' = DOMAIN k.dwell \cup DOMAIN dwell
      /\ \A key \in DOMAIN k.dwell : dwell'[key] = k.dwell[key]
      /\ \A key \in DOMAIN dwell \ DOMAIN k.dwell : dwell'[key] = dwell[key]
  BY <1>1 DEF Overlaid
<1>8. ASSUME NEW key \in DOMAIN stagnation'
      PROVE  stagnation'[key] = StagnationRowOf(key.route, Filed(snapshots', key))
  <2>1. CASE key \in DOMAIN k.stagnation
    BY <1>1, <1>4, <1>6, <2>1 DEF UncommittedOK
  <2>2. CASE key \notin DOMAIN k.stagnation
    <3>1. key \in DOMAIN stagnation /\ key.route \in Route
      BY <1>6, <1>8, <2>2, KeptCounts
    <3>2. Filed(snapshots', key) = Filed(snapshots, key)
      BY <1>5, <2>2, <3>1
    <3>3. stagnation[key] = StagnationRowOf(key.route, Filed(snapshots, key))
      BY <1>4, <3>1 DEF RowsAggregateSnapshots
    <3> QED
      BY <1>6, <2>2, <3>1, <3>2, <3>3
  <2> QED
    BY <2>1, <2>2
<1>9. ASSUME NEW key \in DOMAIN dwell'
      PROVE  dwell'[key] = DwellRowOf(FiledDwell(snapshots', key))
  <2>1. CASE key \in DOMAIN k.dwell
    BY <1>1, <1>4, <1>7, <2>1 DEF UncommittedOK
  <2>2. CASE key \notin DOMAIN k.dwell
    <3>1. key \in DOMAIN dwell /\ key.route \in Route
      BY <1>7, <1>9, <2>2, KeptCounts
    <3>2. FiledDwell(snapshots', key) = FiledDwell(snapshots, key)
      BY <1>5, <2>2, <3>1
    <3>3. dwell[key] = DwellRowOf(FiledDwell(snapshots, key))
      BY <1>4, <3>1 DEF RowsAggregateSnapshots
    <3> QED
      BY <1>7, <2>2, <3>1, <3>2, <3>3
  <2> QED
    BY <2>1, <2>2
<1> HIDE DEF x
<1>10. DOMAIN stagnation' =
         UNION {Keys(Scored(s.scores), s.end, s.scores) : s \in snapshots'}
  BY <1>1, <1>3, <1>4, <1>6 DEF RowsAggregateSnapshots
<1>11. DOMAIN dwell' =
         UNION {DwellKeys(Scored(s.scores), s.end, s.scores) : s \in snapshots'}
  BY <1>1, <1>3, <1>4, <1>7 DEF RowsAggregateSnapshots
<1> QED
  BY <1>8, <1>9, <1>10, <1>11 DEF RowsAggregateSnapshots

\* A cycle that has written no row has none to keep right.
LEMMA NothingUncommitted ==
  ASSUME NEW k, k.stagnation = NoRows, k.dwell = NoRows, NEW S
  PROVE  UncommittedOK(k, S)
  BY NoRowsTypes DEF UncommittedOK

LEMMA CommitUncommitted ==
  ASSUME IInv, NEW c \in Cycle, Commit(c)
  PROVE  UncommittedAggregate'
<1>1. /\ call[c].step = "upsert" /\ call[c].todo = {} /\ call'[c] = IdleCall
      /\ snapshots' = snapshots \cup {Own(call[c])}
      /\ \A d \in Cycle \ {c} : call'[d] = call[d]
  BY CommitReads DEF IInv
<1>2. UncommittedOK(call'[c], snapshots')
  BY <1>1, StepsDiffer, NothingUncommitted
<1>3. ASSUME NEW d \in Cycle \ {c}
      PROVE  UncommittedOK(call[d], snapshots')
  <2> DEFINE l == call[d]
             S == snapshots \cup {Own(l)}
             T == snapshots' \cup {Own(l)}
  <2>1. T = S \cup {Own(call[c])}
    BY <1>1
  <2>2. UncommittedOK(l, snapshots)
    BY DEF IInv, UncommittedAggregate
  <2>3. /\ DOMAIN l.stagnation \cap DOMAIN call[c].stagnation = {}
        /\ DOMAIN l.dwell \cap DOMAIN call[c].dwell = {}
    BY DEF IInv, Exclusive
  <2>4. /\ \A key \in DOMAIN l.stagnation : key.route \in Route
        /\ \A key \in DOMAIN l.dwell : key.route \in Route
    BY DEF IInv, TInv, TypeOK, CallOK, IsTable, StagnationKey, DwellKey
  <2> HIDE DEF l, S, T
  <2>5. \A key \in DOMAIN l.stagnation : Filed(T, key) = Filed(S, key)
    BY <1>1, <2>1, <2>3, <2>4, NotFiled
  <2>6. \A key \in DOMAIN l.dwell : FiledDwell(T, key) = FiledDwell(S, key)
    BY <1>1, <2>1, <2>3, <2>4, NotFiled
  <2>7. /\ \A key \in DOMAIN l.stagnation :
             l.stagnation[key] = StagnationRowOf(key.route, Filed(T, key))
        /\ \A key \in DOMAIN l.dwell : l.dwell[key] = DwellRowOf(FiledDwell(T, key))
    BY <2>2, <2>5, <2>6 DEF UncommittedOK, S
  <2> QED
    BY <2>7 DEF UncommittedOK, T, l
<1>4. \A d \in Cycle : UncommittedOK(call'[d], snapshots')
  BY <1>1, <1>2, <1>3
<1> QED
  BY <1>4 DEF UncommittedAggregate

\* A step of a cycle that commits nothing.
LEMMA CallAggregates ==
  ASSUME IInv, NEW c \in Cycle, UNCHANGED <<snapshots, stagnation, dwell>>,
         \A d \in Cycle \ {c} : call'[d] = call[d],
         UncommittedOK(call'[c], snapshots)
  PROVE  RowsAggregateSnapshots' /\ UncommittedAggregate'
<1>1. RowsAggregateSnapshots'
  BY DEF IInv, RowsAggregateSnapshots
<1>2. \A d \in Cycle : UncommittedOK(call'[d], snapshots')
  BY DEF IInv, UncommittedAggregate
<1> QED
  BY <1>1, <1>2 DEF UncommittedAggregate

LEMMA UpsertStagnationAggregates ==
  ASSUME IInv, NEW c \in Cycle, UpsertStagnation(c)
  PROVE  UncommittedOK(call'[c], snapshots)
<1> DEFINE k == call[c]
           n == call'[c]
           r == n.route
           key == StagnationKeyOf(r, k.end, k.scores[r])
           row == Upserted(stagnation, key, NewStagnationRow(k.end, k.scores[r]))
<1>1. /\ k.step = "upsert" /\ n.end = k.end /\ n.scores = k.scores /\ n.dwell = k.dwell
      /\ r \in NextRoute(k.todo)
      /\ n.stagnation = WithRow(k.stagnation, key, row)
  BY UpsertStagnationReads DEF IInv
<1>2. r \in Scored(k.scores) /\ key.route = r
  <2>1. ProgressOK(k, now)
    BY DEF IInv, TInv, Progress
  <2>2. key.route = r
    BY KeyFields
  <2> HIDE DEF k, n, r, key
  <2> QED
    BY <1>1, <2>1, <2>2 DEF ProgressOK, NextRoute
<1>3. row = StagnationRowOf(r, Filed(snapshots \cup {Own(k)}, key))
  <2>1. Active(c)
    BY <1>1 DEF Active
  <2> HIDE DEF r
  <2> QED
    BY <1>2, <2>1, UpsertedStagnation
<1>4. UncommittedOK(k, snapshots)
  BY DEF IInv, UncommittedAggregate
<1> HIDE DEF k, n, r, key, row
<1>5. Own(n) = Own(k)
  BY <1>1 DEF Own
<1>6. ASSUME NEW q \in DOMAIN n.stagnation
      PROVE  n.stagnation[q] = StagnationRowOf(q.route, Filed(snapshots \cup {Own(k)}, q))
  <2>1. CASE q = key
    BY <1>1, <1>2, <1>3, <2>1 DEF WithRow
  <2>2. CASE q # key
    <3>1. q \in DOMAIN k.stagnation /\ n.stagnation[q] = k.stagnation[q]
      BY <1>1, <1>6, <2>2 DEF WithRow
    <3> QED
      BY <1>4, <3>1 DEF UncommittedOK
  <2> QED
    BY <2>1, <2>2
<1>7. \A q \in DOMAIN n.dwell :
        n.dwell[q] = DwellRowOf(FiledDwell(snapshots \cup {Own(k)}, q))
  BY <1>1, <1>4 DEF UncommittedOK
<1>8. UncommittedOK(n, snapshots)
  BY <1>5, <1>6, <1>7 DEF UncommittedOK
<1> QED
  BY <1>8 DEF n

LEMMA UpsertFlowDwellAggregates ==
  ASSUME IInv, NEW c \in Cycle, UpsertFlowDwell(c)
  PROVE  UncommittedOK(call'[c], snapshots)
<1> DEFINE k == call[c]
           n == call'[c]
           r == k.route
           key == DwellKeyOf(r, k.end, k.scores[r])
           row == Upserted(dwell, key, NewDwellRow(k.end))
<1>1. /\ k.step = "upsert_dwell" /\ n.end = k.end /\ n.scores = k.scores
      /\ n.stagnation = k.stagnation /\ r \in NextRoute(k.todo)
      /\ n.dwell = WithRow(k.dwell, key, row)
  BY UpsertFlowDwellReads DEF IInv
<1>2. r \in Scored(k.scores) /\ key.route = r
  <2>1. ProgressOK(k, now)
    BY DEF IInv, TInv, Progress
  <2>2. key.route = r
    BY KeyFields
  <2> HIDE DEF k, n, r, key
  <2> QED
    BY <1>1, <2>1, <2>2 DEF ProgressOK, NextRoute
<1>3. row = DwellRowOf(FiledDwell(snapshots \cup {Own(k)}, key))
  <2>1. Active(c)
    BY <1>1 DEF Active
  <2> HIDE DEF r
  <2> QED
    BY <1>2, <2>1, UpsertedDwell
<1>4. UncommittedOK(k, snapshots)
  BY DEF IInv, UncommittedAggregate
<1> HIDE DEF k, n, r, key, row
<1>5. Own(n) = Own(k)
  BY <1>1 DEF Own
<1>6. ASSUME NEW q \in DOMAIN n.dwell
      PROVE  n.dwell[q] = DwellRowOf(FiledDwell(snapshots \cup {Own(k)}, q))
  <2>1. CASE q = key
    BY <1>1, <1>3, <2>1 DEF WithRow
  <2>2. CASE q # key
    <3>1. q \in DOMAIN k.dwell /\ n.dwell[q] = k.dwell[q]
      BY <1>1, <1>6, <2>2 DEF WithRow
    <3> QED
      BY <1>4, <3>1 DEF UncommittedOK
  <2> QED
    BY <2>1, <2>2
<1>7. \A q \in DOMAIN n.stagnation :
        n.stagnation[q] = StagnationRowOf(q.route, Filed(snapshots \cup {Own(k)}, q))
  BY <1>1, <1>4 DEF UncommittedOK
<1>8. UncommittedOK(n, snapshots)
  BY <1>5, <1>6, <1>7 DEF UncommittedOK
<1> QED
  BY <1>8 DEF n

LEMMA SaveSensorSetsAggregates ==
  ASSUME IInv, NEW c \in Cycle, SaveSensorSets(c)
  PROVE  UncommittedOK(call'[c], snapshots)
<1> DEFINE k == call[c]
           n == call'[c]
<1>1. /\ n.end = k.end /\ n.scores = k.scores
      /\ n.stagnation = k.stagnation /\ n.dwell = k.dwell
  BY SaveSensorSetsReads DEF IInv
<1>2. UncommittedOK(k, snapshots)
  BY DEF IInv, UncommittedAggregate
<1> HIDE DEF k, n
<1>3. Own(n) = Own(k)
  BY <1>1 DEF Own
<1>4. UncommittedOK(n, snapshots)
  BY <1>1, <1>2, <1>3 DEF UncommittedOK
<1> QED
  BY <1>4 DEF n

LEMMA RowsStep ==
  ASSUME IInv, [Next]_vars
  PROVE  RowsAggregateSnapshots' /\ UncommittedAggregate'
<1>1. CASE UNCHANGED vars
  <2>1. RowsAggregateSnapshots'
    BY <1>1 DEF IInv, RowsAggregateSnapshots, vars, committed
  <2>2. \A c \in Cycle : UncommittedOK(call'[c], snapshots')
    BY <1>1 DEF IInv, UncommittedAggregate, vars, committed
  <2> QED
    BY <2>1, <2>2 DEF UncommittedAggregate
<1>2. SUFFICES ASSUME NEW c \in Cycle,
                      \/ \E scores \in Composable, changed \in SUBSET Changing :
                           Compose(c, scores, changed)
                      \/ Save(c)
                      \/ Fail(c)
               PROVE  RowsAggregateSnapshots' /\ UncommittedAggregate'
  BY <1>1, <1>2 DEF Next
<1>3. CASE \E scores \in Composable, changed \in SUBSET Changing :
             Compose(c, scores, changed)
  <2>1. /\ call'[c].stagnation = NoRows /\ call'[c].dwell = NoRows
        /\ \A d \in Cycle \ {c} : call'[d] = call[d]
        /\ UNCHANGED <<snapshots, stagnation, dwell>>
    BY <1>3, ComposeReads DEF IInv
  <2> QED
    BY <2>1, NothingUncommitted, CallAggregates
<1>4. CASE SaveSensorSets(c)
  <2>1. /\ \A d \in Cycle \ {c} : call'[d] = call[d]
        /\ UNCHANGED <<snapshots, stagnation, dwell>>
    BY <1>4, SaveSensorSetsReads DEF IInv
  <2> QED
    BY <1>4, <2>1, SaveSensorSetsAggregates, CallAggregates
<1>5. CASE UpsertStagnation(c)
  <2>1. /\ \A d \in Cycle \ {c} : call'[d] = call[d]
        /\ UNCHANGED <<snapshots, stagnation, dwell>>
    BY <1>5, UpsertStagnationReads DEF IInv
  <2> QED
    BY <1>5, <2>1, UpsertStagnationAggregates, CallAggregates
<1>6. CASE UpsertFlowDwell(c)
  <2>1. /\ \A d \in Cycle \ {c} : call'[d] = call[d]
        /\ UNCHANGED <<snapshots, stagnation, dwell>>
    BY <1>6, UpsertFlowDwellReads DEF IInv
  <2> QED
    BY <1>6, <2>1, UpsertFlowDwellAggregates, CallAggregates
<1>7. CASE Commit(c)
  BY <1>7, CommitAggregates, CommitUncommitted
<1>8. CASE Fail(c)
  <2>1. /\ call'[c] = IdleCall /\ \A d \in Cycle \ {c} : call'[d] = call[d]
        /\ UNCHANGED <<snapshots, stagnation, dwell>>
    BY <1>8, FailReads DEF IInv
  <2> QED
    BY <2>1, StepsDiffer, NothingUncommitted, CallAggregates
<1> QED
  BY <1>2, <1>3, <1>4, <1>5, <1>6, <1>7, <1>8 DEF Save

-----------------------------------------------------------------------------
(* The invariant holds *)

LEMMA InitInvariant ==
  Init => IInv
<1> SUFFICES ASSUME Init PROVE IInv
  OBVIOUS
<1>1. /\ snapshots = {} /\ stagnation = NoRows /\ dwell = NoRows
      /\ \A c \in Cycle : call[c] = IdleCall
  BY DEF Init
<1>2. TInv
  BY InitTypes
<1>3. \A c \in Cycle : /\ call[c].step = "idle"
                       /\ call[c].stagnation = NoRows /\ call[c].dwell = NoRows
  BY <1>1, StepsDiffer
<1>4. Written
  BY <1>3, NothingWritten DEF Written
<1>5. Exclusive
  BY <1>3, NoRowsTypes DEF Exclusive
<1>6. EndsDiffer
  BY <1>1, <1>3 DEF EndsDiffer, Active
<1>7. IsFiniteSet(snapshots)
  BY <1>1, FS_EmptySet
<1>8. RowsAggregateSnapshots
  BY <1>1, NoRowsTypes DEF RowsAggregateSnapshots
<1>9. UncommittedAggregate
  BY <1>3, NothingUncommitted DEF UncommittedAggregate
<1> QED
  BY <1>2, <1>4, <1>5, <1>6, <1>7, <1>8, <1>9 DEF IInv

LEMMA InvariantStep ==
  IInv /\ [Next]_vars => IInv'
<1> SUFFICES ASSUME IInv, [Next]_vars PROVE IInv'
  OBVIOUS
<1>1. TInv'
  BY TypesStep DEF IInv
<1>2. Written'
  BY WrittenStep DEF IInv
<1>3. Exclusive'
  BY ExclusiveStep DEF IInv
<1>4. EndsDiffer' /\ IsFiniteSet(snapshots')
  BY EndsStep DEF IInv
<1>5. RowsAggregateSnapshots' /\ UncommittedAggregate'
  BY RowsStep
<1> QED
  BY <1>1, <1>2, <1>3, <1>4, <1>5 DEF IInv

\* Every hour's sums are those of the snapshots that are kept, each counted
\* once, over any overlap of any number of cycles (SaveSnapshot, snapshot.go:85
\* to 135).
THEOREM RowsAggregate ==
  Spec => []RowsAggregateSnapshots
<1>1. IInv => RowsAggregateSnapshots
  BY DEF IInv
<1> QED
  BY <1>1, InitInvariant, InvariantStep, PTL DEF Spec

\* Any number of cycles that save their snapshots never wait for each other in
\* a circle (SaveSnapshot, infra/db/transaction.go:17).
THEOREM CyclesNeverDeadlock ==
  Spec => []NoDeadlock
<1>1. IInv => NoDeadlock
  BY NoDeadlockHolds DEF IInv
<1> QED
  BY <1>1, InitInvariant, InvariantStep, PTL DEF Spec
=============================================================================
