----------------------- MODULE HeartbeatLossHoldProofs -----------------------
(***************************************************************************)
(* Proofs about HeartbeatLossHold, for any number of evaluations and pages,*)
(* any timeouts and any threshold: the table of holds is a HoldHistory, and*)
(* no page stays connected in silence.                                     *)
(*                                                                         *)
(* The argument: only the last row can be open, so a statement ends the    *)
(* last row or appends one; and the uncommitted writes of a transaction    *)
(* amount to one step of the history, which nobody else can disturb.       *)
(* When evaluations do not overlap, what one has found is still so when it *)
(* writes, and who suspects a failure ends with a hold that covers it.     *)
(***************************************************************************)
EXTENDS HeartbeatLossHold, TLAPS

LastOpen(rows) == \A i \in DOMAIN rows : rows[i].ended = Never => i = Len(rows)

\* What an evaluation carries.
CallShape(c) ==
  /\ c.step # "idle" => c.page \in Page
  /\ c.step \notin {"idle", "stamp"} => c.at \in Stamp
  /\ c.step = "end" => c.hold \in Stamp

\* The writer has ended the open hold and is about to start one.
HasEnded(rows) ==
  \E t \in Stamp : History!CanClose(t) /\ rows = History!Closed(holds, t)

\* The writer has started a hold, or ended one, or both.
HasStarted(rows) ==
  \E t \in Stamp :
    \/ History!NoneOpen(holds) /\ rows = History!Opened(holds, t)
    \/ \E u \in Stamp : /\ History!CanClose(u)
                        /\ rows = History!Opened(History!Closed(holds, u), t)

Writing ==
  writer # Null =>
    /\ call[writer].kind = "config"
    /\ \/ call[writer].step \in {"start", "commit"} /\ HasEnded(draft)
       \/ call[writer].step \in {"find_started", "commit"} /\ HasStarted(draft)

IInv ==
  /\ TypeOK
  /\ LastOpen(holds)
  /\ \A e \in Evaluator : CallShape(call[e])
  /\ Writing
  /\ SilentPageDisconnected

\* No two evaluations run at the same time: a later one is another value of the
\* same variable.
Alone == \A e, f \in Evaluator : e = f

StartedBy(rows, t) == \A i \in DOMAIN rows : rows[i].started <= t

\* An evaluation that suspects a failure has a hold in force.
Settled(c) ==
  c.suspected => c.hold # Never /\ c.hold <= c.at /\ c.at < c.hold + MaxDuration

\* What the evaluation c has found is so of the rows at the time t.
Fits(c, rows, t) ==
  /\ c.step \notin {"idle", "stamp"} => c.at <= t /\ StartedBy(rows, c.at)
  /\ c.step = "count" => c.hold = OpenSince(rows)
  /\ c.step = "end" => c.hold = OpenSince(rows) /\ (c.suspected => c.start)
  /\ c.step = "start" => ~IsOpen(rows)
  /\ c.step = "find_started" => OpenSince(rows) = c.at
  /\ c.step = "commit" => Settled(c)

AloneInv ==
  /\ IInv
  /\ StartedBy(holds, now)
  /\ \A e \in Evaluator : Fits(call[e], Rows(e), now)
  /\ SuspicionHolds
  /\ SuspectedPagesHeld

-----------------------------------------------------------------------------
(* The rows *)

LEMMA EmptyRows ==
  /\ <<>> \in Seq(Hold)
  /\ LastOpen(<<>>)
  /\ NoVerdict \in Verdict
  /\ IdleCall \in Call
BY BoundAssumption
   DEF LastOpen, NoVerdict, Verdict, IdleCall, Call, Time, Never, Kind

LEMMA OpenSinceType ==
  ASSUME NEW rows \in Seq(Hold)
  PROVE  /\ OpenSince(rows) \in Time
         /\ OpenSince(rows) # Never <=> IsOpen(rows)
<1>1. ASSUME NEW i \in DOMAIN rows PROVE rows[i].started \in Stamp
  <2>1. rows[i] \in Hold
    OBVIOUS
  <2> QED
    BY <2>1 DEF Hold
<1>2. CASE ~IsOpen(rows)
  BY <1>2, BoundAssumption DEF OpenSince, Time, Never
<1>3. CASE IsOpen(rows)
  <2> DEFINE i == CHOOSE i \in DOMAIN rows : rows[i].ended = Never
  <2>1. i \in DOMAIN rows
    BY <1>3 DEF IsOpen
  <2>2. OpenSince(rows) = rows[i].started
    BY <1>3 DEF OpenSince
  <2> HIDE DEF i
  <2>3. OpenSince(rows) \in Stamp
    BY <1>1, <2>1, <2>2
  <2> QED
    BY <1>3, <2>3, BoundAssumption DEF Time, Stamp, Never
<1> QED
  BY <1>2, <1>3

\* The statement of End closes the last row, or changes nothing.
LEMMA EndedRows ==
  ASSUME NEW rows \in Seq(Hold), LastOpen(rows),
         NEW since \in Stamp, NEW t \in Stamp
  PROVE  \/ Ended(rows, since, t) = rows
         \/ /\ rows # <<>>
            /\ rows[Len(rows)].ended = Never
            /\ OpenSince(rows) = since
            /\ \E u \in Stamp :
                 /\ u >= rows[Len(rows)].started
                 /\ Ended(rows, since, t) = History!Closed(rows, u)
<1> DEFINE hit == \E i \in DOMAIN rows :
                    rows[i].ended = Never /\ rows[i].started = since
           u == IF t >= since THEN t ELSE since
<1>1. CASE ~hit
  <2>1. \A i \in DOMAIN rows :
          ~(rows[i].ended = Never /\ rows[i].started = since)
    BY <1>1
  <2>2. Ended(rows, since, t) = [i \in DOMAIN rows |-> rows[i]]
    BY <2>1, Zenon DEF Ended
  <2>3. rows = [i \in DOMAIN rows |-> rows[i]]
    OBVIOUS
  <2> QED
    BY <2>2, <2>3
<1>2. CASE hit
  <2>1. PICK i \in DOMAIN rows : rows[i].ended = Never /\ rows[i].started = since
    BY <1>2
  <2>2. i = Len(rows) /\ rows # <<>>
    BY <2>1 DEF LastOpen
  <2>3. OpenSince(rows) = since
    BY <2>1, <2>2 DEF OpenSince, IsOpen, LastOpen
  <2>4. u \in Stamp /\ u >= since
    BY DEF Stamp
  <2>5. Ended(rows, since, t) = [rows EXCEPT ![Len(rows)].ended = u]
    BY <2>1, <2>2 DEF Ended, LastOpen
  <2> QED
    BY <2>1, <2>2, <2>3, <2>4, <2>5 DEF History!Closed
<1> QED
  BY <1>1, <1>2

\* The statement of Start appends a row, or changes nothing.
LEMMA StartedRows ==
  ASSUME NEW rows \in Seq(Hold), NEW t \in Stamp
  PROVE  \/ Started(rows, t) = rows
         \/ /\ ~IsOpen(rows)
            /\ History!NoneOpen(rows)
            /\ Started(rows, t) = History!Opened(rows, t)
BY DEF Started, IsOpen, History!NoneOpen, History!Opened, Never

LEMMA ClosedRows ==
  ASSUME NEW rows \in Seq(Hold), LastOpen(rows), NEW u \in Stamp, rows # <<>>
  PROVE  /\ History!Closed(rows, u) \in Seq(Hold)
         /\ ~IsOpen(History!Closed(rows, u))
         /\ LastOpen(History!Closed(rows, u))
<1> DEFINE closed == History!Closed(rows, u)
<1>1. Len(rows) \in DOMAIN rows
  OBVIOUS
<1>2. rows[Len(rows)] \in Hold
  BY <1>1
<1>3. [rows[Len(rows)] EXCEPT !.ended = u] \in Hold
  BY <1>2 DEF Hold, Time, Stamp
<1>4. closed = [rows EXCEPT ![Len(rows)] = [rows[Len(rows)] EXCEPT !.ended = u]]
  BY DEF History!Closed
<1>5. closed \in Seq(Hold) /\ DOMAIN closed = DOMAIN rows
  BY <1>3, <1>4
<1>6. \A i \in DOMAIN rows : closed[i].ended # Never
  BY <1>2, <1>4 DEF LastOpen, Hold, Stamp, Never
<1> QED
  BY <1>5, <1>6 DEF IsOpen, LastOpen

LEMMA OpenedRows ==
  ASSUME NEW rows \in Seq(Hold), NEW t \in Stamp, ~IsOpen(rows)
  PROVE  /\ History!Opened(rows, t) \in Seq(Hold)
         /\ LastOpen(History!Opened(rows, t))
<1>1. [started |-> t, ended |-> 0] \in Hold
  BY BoundAssumption DEF Hold, Time, Stamp
<1> QED
  BY <1>1 DEF History!Opened, LastOpen, IsOpen

\* A draft is a table like the committed one.
LEMMA DraftRows ==
  ASSUME IInv, writer # Null
  PROVE  /\ draft \in Seq(Hold)
         /\ LastOpen(draft)
         /\ HasEnded(draft) => ~IsOpen(draft)
<1>1. holds \in Seq(Hold) /\ LastOpen(holds)
  BY DEF IInv, TypeOK
<1>2. ASSUME HasEnded(draft) PROVE LastOpen(draft) /\ ~IsOpen(draft)
  BY <1>1, <1>2, ClosedRows DEF HasEnded, History!CanClose
<1>3. ASSUME HasStarted(draft) PROVE LastOpen(draft)
  <2>1. PICK t \in Stamp :
          \/ History!NoneOpen(holds) /\ draft = History!Opened(holds, t)
          \/ \E u \in Stamp :
               /\ History!CanClose(u)
               /\ draft = History!Opened(History!Closed(holds, u), t)
    BY <1>3 DEF HasStarted
  <2>2. CASE History!NoneOpen(holds) /\ draft = History!Opened(holds, t)
    BY <1>1, <2>2, OpenedRows DEF History!NoneOpen, IsOpen, Never
  <2>3. CASE \E u \in Stamp :
               /\ History!CanClose(u)
               /\ draft = History!Opened(History!Closed(holds, u), t)
    BY <1>1, <2>3, ClosedRows, OpenedRows DEF History!CanClose
  <2> QED
    BY <2>1, <2>2, <2>3
<1> QED
  BY <1>2, <1>3 DEF IInv, TypeOK, Writing

-----------------------------------------------------------------------------
(* The calls *)

LEMMA ConnectedBound ==
  ASSUME NEW c \in Call, Connected(c)
  PROVE  c.at < c.heartbeat + 2 * HeartbeatTimeout + MaxDuration
<1>1. /\ c.at \in Int /\ c.heartbeat \in Int /\ c.hold \in Int
      /\ HeartbeatTimeout \in Nat /\ HeartbeatTimeout > 0
      /\ MaxDuration \in Nat /\ MaxDuration > 0
  BY PolicyAssumption, BoundAssumption DEF Call, Time
<1> QED
  BY <1>1 DEF Connected, Online, RecentSince

\* Whatever an evaluation goes on with or concludes, the calls keep their form
\* and the verdict is bounded.
LEMMA Outcome ==
  ASSUME IInv, NEW e \in Evaluator, NEW c \in Call,
         Continue(e, c) \/ Conclude(e, c) \/ Return(e, c),
         CallShape(c), c.step \notin {"idle", "stamp"} \/ Continue(e, c)
  PROVE  /\ call' \in [Evaluator -> Call]
         /\ verdict' \in Verdict
         /\ SilentPageDisconnected'
         /\ \A f \in Evaluator : CallShape(call'[f])
         /\ \A f \in Evaluator : f # e => call'[f] = call[f]
<1> DEFINE committing == [c EXCEPT !.step = "commit"]
<1>1. CallShape(IdleCall) /\ IdleCall \in Call /\ NoVerdict \in Verdict
  BY EmptyRows DEF CallShape, IdleCall
<1>2. committing \in Call
  BY DEF Call
<1>3. c.step \notin {"idle", "stamp"} => CallShape(committing)
  BY DEF CallShape, Call
<1>4. ASSUME NEW d \in Call, CallShape(d), Continue(e, d)
      PROVE  /\ call' \in [Evaluator -> Call]
             /\ verdict' \in Verdict
             /\ SilentPageDisconnected'
             /\ \A f \in Evaluator : CallShape(call'[f])
             /\ \A f \in Evaluator : f # e => call'[f] = call[f]
  <2>1. call' = [call EXCEPT ![e] = d] /\ verdict' = NoVerdict
    BY <1>4 DEF Continue
  <2>2. SilentPageDisconnected'
    BY <2>1 DEF SilentPageDisconnected, NoVerdict
  <2> QED
    BY <1>1, <1>4, <2>1, <2>2 DEF IInv, TypeOK
<1>5. ASSUME Conclude(e, c)
      PROVE  /\ call' \in [Evaluator -> Call]
             /\ verdict' \in Verdict
             /\ SilentPageDisconnected'
             /\ \A f \in Evaluator : CallShape(call'[f])
             /\ \A f \in Evaluator : f # e => call'[f] = call[f]
  <2>1. call' = [call EXCEPT ![e] = IdleCall]
    BY <1>5 DEF Conclude
  <2>2. /\ verdict'.at = c.at
        /\ verdict'.heartbeat = c.heartbeat
        /\ verdict'.connected = Connected(c)
    BY <1>5 DEF Conclude
  <2>3. Connected(c) \in BOOLEAN /\ Online(c) \in BOOLEAN
    BY DEF Connected, Online
  <2>4. c.suspected \in BOOLEAN /\ c.at \in Time /\ c.heartbeat \in Time
        /\ c.hold \in Time
    BY DEF Call
  <2>5. verdict' \in Verdict
    BY <1>5, <2>3, <2>4 DEF Conclude, Verdict
  <2>6. SilentPageDisconnected'
    BY <2>2, ConnectedBound DEF SilentPageDisconnected
  <2> QED
    BY <1>1, <2>1, <2>5, <2>6 DEF IInv, TypeOK
<1> QED
  BY <1>2, <1>3, <1>4, <1>5 DEF Return

\* An evaluation that has not written yet leaves the writer alone.
LEMMA WritingKept ==
  ASSUME IInv, NEW e \in Evaluator, writer # e, UNCHANGED table,
         \A f \in Evaluator : f # e => call'[f] = call[f]
  PROVE  Writing'
<1>1. writer # Null => writer \in Evaluator
  BY DEF IInv, TypeOK
<1> QED
  BY <1>1 DEF IInv, Writing, table, HasEnded, HasStarted, History!CanClose

\* The steps that do not write to the table.
LEMMA ReadsKeep ==
  ASSUME IInv, NEW e \in Evaluator, NEW c \in Call,
         UNCHANGED <<pages, table, now>>, writer # e,
         Continue(e, c) \/ Return(e, c),
         CallShape(c), c.step \notin {"idle", "stamp"} \/ Continue(e, c)
  PROVE  IInv'
BY Outcome, WritingKept DEF IInv, TypeOK, pages, table

LEMMA NotWriter ==
  ASSUME IInv, NEW e \in Evaluator,
         call[e].step \notin {"start", "find_started", "commit"}
  PROVE  writer # e
BY BoundAssumption DEF IInv, Writing

LEMMA NowStamp ==
  ASSUME TypeOK
  PROVE  now \in Stamp /\ now \in Time
BY BoundAssumption DEF TypeOK, Stamp, Time

LEMMA ReadPageKeeps ==
  ASSUME IInv, NEW e \in Evaluator, NEW p \in Page,
         NEW kind \in {"list", "config"}, ReadPage(e, p, kind)
  PROVE  IInv'
<1> DEFINE c == [IdleCall EXCEPT
             !.step = "stamp", !.kind = kind, !.page = p,
             !.heartbeat = lastHeartbeat[p], !.left = p \in unregistered]
<1>1. ASSUME NEW left \in BOOLEAN
      PROVE  [IdleCall EXCEPT
                !.step = "stamp", !.kind = kind, !.page = p,
                !.heartbeat = lastHeartbeat[p], !.left = left] \in Call
  BY EmptyRows DEF IInv, TypeOK, Call, IdleCall, Kind
<1>2. c \in Call /\ CallShape(c)
  <2>1. (p \in unregistered) \in BOOLEAN
    OBVIOUS
  <2>2. c \in Call
    BY <1>1, <2>1, Zenon
  <2> QED
    BY <2>2 DEF CallShape, IdleCall
<1>3. Continue(e, c) /\ UNCHANGED <<pages, table, now>> /\ call[e].step = "idle"
  BY DEF ReadPage
<1> HIDE DEF c
<1> QED
  BY <1>2, <1>3, ReadsKeep, NotWriter

LEMMA BeginCycleKeeps ==
  ASSUME IInv, NEW e \in Evaluator, NEW p \in Page, BeginCycle(e, p)
  PROVE  IInv'
<1> DEFINE c == [IdleCall EXCEPT !.step = "load", !.kind = "cycle", !.page = p,
                                 !.at = now]
<1>1. c \in Call /\ CallShape(c)
  BY EmptyRows, NowStamp DEF IInv, Call, IdleCall, Kind, CallShape
<1>2. Continue(e, c) /\ UNCHANGED <<pages, table, now>> /\ call[e].step = "idle"
  BY DEF BeginCycle
<1> HIDE DEF c
<1> QED
  BY <1>1, <1>2, ReadsKeep, NotWriter

LEMMA TakeTimeKeeps ==
  ASSUME IInv, NEW e \in Evaluator, TakeTime(e)
  PROVE  IInv'
<1> DEFINE c == [call[e] EXCEPT !.step = "find_open", !.at = now]
<1>1. call[e] \in Call /\ CallShape(call[e]) /\ call[e].step = "stamp"
  BY DEF IInv, TypeOK, TakeTime
<1>2. c \in Call /\ CallShape(c)
  BY <1>1, NowStamp DEF IInv, Call, CallShape
<1>3. Continue(e, c) /\ UNCHANGED <<pages, table, now>>
  BY DEF TakeTime
<1> HIDE DEF c
<1> QED
  BY <1>1, <1>2, <1>3, ReadsKeep, NotWriter

LEMMA LoadPagesKeeps ==
  ASSUME IInv, NEW e \in Evaluator, LoadPages(e)
  PROVE  IInv'
<1> DEFINE p == call[e].page
           c == [call[e] EXCEPT !.step = "find_open",
                   !.heartbeat = lastHeartbeat[p], !.left = p \in unregistered]
<1>1. call[e] \in Call /\ CallShape(call[e]) /\ call[e].step = "load"
  BY DEF IInv, TypeOK, LoadPages
<1>2. lastHeartbeat[p] \in Time
  BY <1>1 DEF CallShape, IInv, TypeOK
<1>3. c \in Call /\ CallShape(c)
  <2>1. ASSUME NEW left \in BOOLEAN
        PROVE  [call[e] EXCEPT !.step = "find_open",
                  !.heartbeat = lastHeartbeat[p], !.left = left] \in Call
    BY <1>1, <1>2 DEF Call
  <2>2. (p \in unregistered) \in BOOLEAN
    OBVIOUS
  <2>3. c \in Call
    BY <2>1, <2>2, Zenon
  <2> QED
    BY <1>1, <2>3 DEF CallShape, Call
<1>4. Continue(e, c) /\ UNCHANGED <<pages, table, now>>
  BY DEF LoadPages
<1> HIDE DEF c
<1> QED
  BY <1>1, <1>3, <1>4, ReadsKeep, NotWriter

LEMMA RowsType ==
  ASSUME IInv, NEW e \in Evaluator
  PROVE  Rows(e) \in Seq(Hold) /\ LastOpen(Rows(e))
BY DraftRows, BoundAssumption DEF IInv, TypeOK, Rows

LEMMA FindOpenKeeps ==
  ASSUME IInv, NEW e \in Evaluator, FindOpen(e)
  PROVE  IInv'
<1> DEFINE c == [call[e] EXCEPT !.step = "count", !.hold = OpenSince(Rows(e))]
<1>1. call[e] \in Call /\ CallShape(call[e]) /\ call[e].step = "find_open"
  BY DEF IInv, TypeOK, FindOpen
<1>2. OpenSince(Rows(e)) \in Time
  BY RowsType, OpenSinceType
<1>3. c \in Call /\ CallShape(c)
  BY <1>1, <1>2 DEF Call, CallShape
<1>4. Continue(e, c) /\ UNCHANGED <<pages, table, now>>
  BY DEF FindOpen
<1> HIDE DEF c
<1> QED
  BY <1>1, <1>3, <1>4, ReadsKeep, NotWriter

LEMMA CountKeeps ==
  ASSUME IInv, NEW e \in Evaluator, Count(e)
  PROVE  IInv'
<1> DEFINE c == call[e]
           end == EndsHold(c.at, c.hold)
           start == (c.hold = Never \/ end) /\ Suspected(c.at)
           counted == [c EXCEPT !.suspected = Suspected(c.at), !.start = start]
<1>1. c \in Call /\ CallShape(c) /\ c.step = "count" /\ writer # e
  BY NotWriter DEF IInv, TypeOK, Count
<1>2. Suspected(c.at) \in BOOLEAN /\ start \in BOOLEAN
  BY DEF Suspected
<1>3. counted \in Call /\ CallShape(counted) /\ counted.step = "count"
  BY <1>1, <1>2 DEF Call, CallShape
<1>4. [counted EXCEPT !.step = "start"] \in Call
      /\ CallShape([counted EXCEPT !.step = "start"])
  BY <1>1, <1>2 DEF Call, CallShape
<1>5. end => /\ [counted EXCEPT !.step = "end"] \in Call
             /\ CallShape([counted EXCEPT !.step = "end"])
  <2>1. end => c.hold \in Stamp
    BY <1>1 DEF EndsHold, Call, Time, Stamp, Never
  <2> QED
    BY <1>1, <1>2, <2>1 DEF Call, CallShape
<1>6. UNCHANGED <<pages, table, now>>
  BY DEF Count
<1>7. \/ end /\ Continue(e, [counted EXCEPT !.step = "end"])
      \/ Continue(e, [counted EXCEPT !.step = "start"])
      \/ Return(e, counted)
  BY DEF Count
<1> HIDE DEF counted, end
<1> QED
  BY <1>1, <1>3, <1>4, <1>5, <1>6, <1>7, ReadsKeep

-----------------------------------------------------------------------------
(* The statements that write *)

\* End closes the open hold, in the table or in the draft, or does nothing.
LEMMA EndWrites ==
  ASSUME IInv, NEW e \in Evaluator, End(e)
  PROVE  /\ writer # e
         /\ \/ UNCHANGED table
            \/ /\ writer = Null
               /\ call[e].kind = "config"
               /\ holds' = holds /\ writer' = e
               /\ HasEnded(draft')
            \/ /\ writer = Null
               /\ \E u \in Stamp :
                    History!CanClose(u) /\ holds' = History!Closed(holds, u)
               /\ UNCHANGED <<writer, draft>>
<1> DEFINE c == call[e]
           rows == Ended(holds, c.hold, c.at)
<1>1. c.step = "end" /\ writer # e /\ Rows(e) = holds
  BY NotWriter DEF End, Rows
<1>2. c.hold \in Stamp /\ c.at \in Stamp
  BY <1>1 DEF IInv, CallShape
<1>3. holds \in Seq(Hold) /\ LastOpen(holds)
  BY DEF IInv, TypeOK
<1>4. CASE rows = holds
  BY <1>1, <1>4 DEF End, Write, table
<1>5. CASE rows # holds
  <2>1. PICK u \in Stamp :
          /\ holds # <<>> /\ holds[Len(holds)].ended = Never
          /\ OpenSince(holds) = c.hold
          /\ u >= holds[Len(holds)].started
          /\ rows = History!Closed(holds, u)
    BY <1>2, <1>3, <1>5, EndedRows
  <2>2. writer = Null
    BY <1>1, <2>1 DEF End, NoOtherWriter
  <2>3. History!CanClose(u)
    BY <2>1 DEF History!CanClose, Never
  <2>4. Write(e, rows)
    BY <1>1 DEF End
  <2> HIDE DEF rows
  <2>5. \/ draft' = rows /\ writer' = e /\ UNCHANGED holds /\ c.kind = "config"
        \/ holds' = rows /\ UNCHANGED <<writer, draft>>
    BY <1>1, <1>5, <2>4 DEF Write
  <2>6. CASE draft' = rows
    BY <1>1, <2>1, <2>2, <2>3, <2>5, <2>6 DEF HasEnded
  <2>7. CASE draft' # rows
    BY <1>1, <2>1, <2>2, <2>3, <2>5, <2>7
  <2> QED
    BY <2>6, <2>7
<1> QED
  BY <1>4, <1>5

\* Start appends a hold where none is open, or does nothing.
LEMMA StartWrites ==
  ASSUME IInv, NEW e \in Evaluator, Start(e)
  PROVE  \/ writer # e /\ UNCHANGED table
         \/ /\ call[e].kind = "config"
            /\ holds' = holds /\ writer' = e
            /\ HasStarted(draft')
         \/ /\ writer = Null
            /\ \E t \in Stamp : /\ History!NoneOpen(holds)
                                /\ holds' = History!Opened(holds, t)
            /\ UNCHANGED <<writer, draft>>
<1> DEFINE c == call[e]
           rows == Started(Rows(e), c.at)
<1>1. c.step = "start" /\ c.at \in Stamp /\ writer \in {Null, e}
  BY DEF Start, NoOtherWriter, IInv, CallShape
<1>2. Rows(e) \in Seq(Hold)
  BY RowsType
<1>3. Write(e, rows)
  BY DEF Start
<1>4. e # Null
  BY BoundAssumption
<1>5. \/ rows = Rows(e)
      \/ /\ ~IsOpen(Rows(e))
         /\ History!NoneOpen(Rows(e))
         /\ rows = History!Opened(Rows(e), c.at)
  BY <1>1, <1>2, StartedRows
<1>6. CASE writer = e
  <2>1. Rows(e) = draft /\ HasEnded(draft) /\ c.kind = "config"
    BY <1>1, <1>4, <1>6 DEF Rows, IInv, Writing
  <2>2. ~IsOpen(draft)
    BY <1>4, <1>6, <2>1, DraftRows
  <2>3. rows # Rows(e) /\ rows = History!Opened(draft, c.at)
    <3>1. rows = Append(draft, [started |-> c.at, ended |-> Never])
      BY <2>1, <2>2 DEF Started
    <3> QED
      BY <1>2, <2>1, <3>1 DEF History!Opened, Never
  <2> HIDE DEF rows
  <2>4. draft' = rows /\ writer' = e /\ holds' = holds
    BY <1>3, <2>1, <2>3 DEF Write
  <2>5. HasStarted(rows)
    BY <1>1, <2>1, <2>3 DEF HasEnded, HasStarted
  <2> QED
    BY <2>1, <2>4, <2>5 DEF HasStarted, History!CanClose, History!NoneOpen
<1>7. CASE writer = Null
  <2>1. Rows(e) = holds
    BY <1>4, <1>7 DEF Rows
  <2> HIDE DEF rows
  <2>2. CASE rows = holds
    BY <1>3, <1>4, <1>7, <2>1, <2>2 DEF Write
  <2>3. CASE rows # holds
    <3>1. History!NoneOpen(holds) /\ rows = History!Opened(holds, c.at)
      BY <1>5, <2>1, <2>3
    <3>2. \/ draft' = rows /\ writer' = e /\ UNCHANGED holds /\ c.kind = "config"
          \/ holds' = rows /\ UNCHANGED <<writer, draft>>
      BY <1>3, <2>1, <2>3 DEF Write
    <3>3. HasStarted(rows)
      BY <1>1, <3>1 DEF HasStarted
    <3> QED
      BY <1>1, <1>7, <3>1, <3>2, <3>3 DEF HasStarted
  <2> QED
    BY <2>2, <2>3
<1> QED
  BY <1>1, <1>6, <1>7

LEMMA EndKeeps ==
  ASSUME IInv, NEW e \in Evaluator, End(e)
  PROVE  IInv'
<1> DEFINE c == call[e]
           after == [c EXCEPT !.hold = Never]
           starting == [after EXCEPT !.step = "start"]
<1>1. c \in Call /\ CallShape(c) /\ c.step = "end"
  BY DEF End, IInv, TypeOK
<1>2. Never \in Time
  BY BoundAssumption DEF Never, Time
<1>3. starting \in Call /\ CallShape(starting) /\ starting.step = "start"
      /\ starting.kind = c.kind
  BY <1>1, <1>2 DEF Call, CallShape
<1>4. after \in Call /\ after.step = "end" /\ after.kind = c.kind
      /\ after.page \in Page /\ after.at \in Stamp
  BY <1>1, <1>2 DEF Call, CallShape
<1>5. UNCHANGED <<pages, now>>
  BY DEF End
<1>6. Continue(e, starting) \/ Return(e, after)
  BY DEF End
<1> HIDE DEF after, starting
<1>7. /\ call' \in [Evaluator -> Call]
      /\ verdict' \in Verdict
      /\ SilentPageDisconnected'
      /\ \A f \in Evaluator : CallShape(call'[f])
      /\ \A f \in Evaluator : f # e => call'[f] = call[f]
      /\ c.kind = "config" =>
           call'[e].kind = "config" /\ call'[e].step \in {"start", "commit"}
  <2>1. CASE Continue(e, starting)
    BY <1>3, <2>1, Outcome DEF Continue, IInv, TypeOK
  <2>2. CASE Return(e, after)
    <3> DEFINE committing == [after EXCEPT !.step = "commit"]
    <3>1. committing \in Call /\ CallShape(committing)
          /\ committing.step = "commit" /\ committing.kind = c.kind
      BY <1>4 DEF Call, CallShape
    <3> HIDE DEF committing
    <3>2. CASE c.kind = "config"
      <4>1. Continue(e, committing)
        BY <1>4, <2>2, <3>2 DEF Return, committing
      <4> QED
        BY <3>1, <4>1, Outcome DEF Continue, IInv, TypeOK
    <3>3. CASE c.kind # "config"
      <4>1. Conclude(e, after)
        BY <1>4, <2>2, <3>3 DEF Return
      <4>2. call' = [call EXCEPT ![e] = IdleCall]
        BY <4>1 DEF Conclude
      <4>3. verdict' \in Verdict /\ SilentPageDisconnected'
        <5>1. Connected(after) \in BOOLEAN /\ Online(after) \in BOOLEAN
          BY DEF Connected, Online
        <5>2. after.suspected \in BOOLEAN /\ after.at \in Time
              /\ after.heartbeat \in Time /\ after.hold \in Time
          BY <1>4 DEF Call
        <5>3. verdict' \in Verdict
          BY <4>1, <5>1, <5>2 DEF Conclude, Verdict
        <5>4. /\ verdict'.at = after.at
              /\ verdict'.heartbeat = after.heartbeat
              /\ verdict'.connected = Connected(after)
          BY <4>1 DEF Conclude
        <5> QED
          BY <1>4, <5>3, <5>4, ConnectedBound DEF SilentPageDisconnected
      <4>4. CallShape(IdleCall) /\ IdleCall \in Call
        BY EmptyRows DEF CallShape, IdleCall
      <4> QED
        BY <3>3, <4>2, <4>3, <4>4 DEF IInv, TypeOK
    <3> QED
      BY <3>2, <3>3
  <2> QED
    BY <1>6, <2>1, <2>2
<1>8. CASE UNCHANGED table
  BY <1>5, <1>7, <1>8, WritingKept, EndWrites DEF IInv, TypeOK, pages, table
<1>9. ASSUME writer = Null, c.kind = "config", holds' = holds, writer' = e,
             HasEnded(draft')
      PROVE  IInv'
  <2>1. draft' \in Seq(Hold)
    BY <1>9, ClosedRows DEF HasEnded, History!CanClose, IInv, TypeOK
  <2>2. Writing'
    BY <1>7, <1>9 DEF Writing, HasEnded, History!CanClose
  <2> QED
    BY <1>5, <1>7, <1>9, <2>1, <2>2 DEF IInv, TypeOK, pages, LastOpen
<1>10. ASSUME writer = Null, UNCHANGED <<writer, draft>>,
              NEW u \in Stamp, History!CanClose(u),
              holds' = History!Closed(holds, u)
       PROVE  IInv'
  <2>1. holds' \in Seq(Hold) /\ LastOpen(holds')
    BY <1>10, ClosedRows DEF History!CanClose, IInv, TypeOK
  <2>2. Writing'
    BY <1>10 DEF Writing
  <2> QED
    BY <1>5, <1>7, <1>10, <2>1, <2>2 DEF IInv, TypeOK, pages, LastOpen
<1> QED
  BY <1>8, <1>9, <1>10, EndWrites

LEMMA StartKeeps ==
  ASSUME IInv, NEW e \in Evaluator, Start(e)
  PROVE  IInv'
<1> DEFINE c == call[e]
           after == [c EXCEPT !.step = "find_started"]
<1>1. c \in Call /\ CallShape(c) /\ c.step = "start"
  BY DEF Start, IInv, TypeOK
<1>2. after \in Call /\ CallShape(after) /\ after.step = "find_started"
      /\ after.kind = c.kind
  BY <1>1 DEF Call, CallShape
<1>3. UNCHANGED <<pages, now>> /\ Continue(e, after)
  BY DEF Start
<1> HIDE DEF after
<1>4. /\ call' \in [Evaluator -> Call]
      /\ verdict' \in Verdict
      /\ SilentPageDisconnected'
      /\ \A f \in Evaluator : CallShape(call'[f])
      /\ \A f \in Evaluator : f # e => call'[f] = call[f]
  BY <1>2, <1>3, Outcome
<1>5. call'[e] = after
  BY <1>3 DEF Continue, IInv, TypeOK
<1>6. CASE writer # e /\ UNCHANGED table
  BY <1>3, <1>4, <1>6, WritingKept DEF IInv, TypeOK, pages, table
<1>7. ASSUME c.kind = "config", holds' = holds, writer' = e, HasStarted(draft')
      PROVE  IInv'
  <2>1. draft' \in Seq(Hold)
    <3>1. PICK t \in Stamp :
            \/ History!NoneOpen(holds) /\ draft' = History!Opened(holds, t)
            \/ \E u \in Stamp :
                 /\ History!CanClose(u)
                 /\ draft' = History!Opened(History!Closed(holds, u), t)
      BY <1>7 DEF HasStarted
    <3>2. holds \in Seq(Hold) /\ LastOpen(holds)
      BY DEF IInv, TypeOK
    <3> QED
      BY <3>1, <3>2, OpenedRows, ClosedRows
         DEF History!CanClose, History!NoneOpen, IsOpen, Never
  <2>2. Writing'
    BY <1>2, <1>5, <1>7
       DEF Writing, HasStarted, History!CanClose, History!NoneOpen
  <2> QED
    BY <1>3, <1>4, <1>7, <2>1, <2>2 DEF IInv, TypeOK, pages, LastOpen
<1>8. ASSUME writer = Null, UNCHANGED <<writer, draft>>,
             NEW t \in Stamp, History!NoneOpen(holds),
             holds' = History!Opened(holds, t)
      PROVE  IInv'
  <2>1. holds' \in Seq(Hold) /\ LastOpen(holds')
    BY <1>8, OpenedRows DEF History!NoneOpen, IsOpen, IInv, TypeOK, Never
  <2>2. Writing'
    BY <1>8 DEF Writing
  <2> QED
    BY <1>3, <1>4, <1>8, <2>1, <2>2 DEF IInv, TypeOK, pages, LastOpen
<1> QED
  BY <1>6, <1>7, <1>8, StartWrites

LEMMA FindStartedKeeps ==
  ASSUME IInv, NEW e \in Evaluator, FindStarted(e)
  PROVE  IInv'
<1> DEFINE c == [call[e] EXCEPT !.hold = OpenSince(Rows(e))]
           committing == [c EXCEPT !.step = "commit"]
<1>1. call[e] \in Call /\ CallShape(call[e]) /\ call[e].step = "find_started"
  BY DEF FindStarted, IInv, TypeOK
<1>2. OpenSince(Rows(e)) \in Time
  BY RowsType, OpenSinceType
<1>3. c \in Call /\ CallShape(c) /\ c.step = "find_started"
      /\ c.kind = call[e].kind
  BY <1>1, <1>2 DEF Call, CallShape
<1>4. committing.step = "commit" /\ committing.kind = call[e].kind
  BY <1>3 DEF Call
<1>5. UNCHANGED <<pages, table, now>> /\ Return(e, c)
  BY DEF FindStarted
<1> HIDE DEF c
<1>6. CASE writer # e
  BY <1>3, <1>5, <1>6, ReadsKeep
<1>7. CASE writer = e
  <2>1. call[e].kind = "config" /\ HasStarted(draft)
    BY <1>1, <1>7, BoundAssumption DEF IInv, Writing
  <2>2. call'[e] = committing
    BY <1>3, <1>5, <2>1 DEF Return, Continue, IInv, TypeOK
  <2>3. Writing'
    BY <1>4, <1>5, <1>7, <2>1, <2>2
       DEF Writing, table, HasStarted, History!CanClose, History!NoneOpen
  <2>4. /\ call' \in [Evaluator -> Call]
        /\ verdict' \in Verdict
        /\ SilentPageDisconnected'
        /\ \A f \in Evaluator : CallShape(call'[f])
    BY <1>3, <1>5, Outcome
  <2> QED
    BY <1>5, <2>3, <2>4 DEF IInv, TypeOK, pages, table, LastOpen
<1> QED
  BY <1>6, <1>7

\* What the writer has in its draft is one step of the history.
LEMMA DraftMaps ==
  ASSUME HasEnded(draft) \/ HasStarted(draft), holds' = draft
  PROVE  History!Next
BY DEF HasEnded, HasStarted, History!Next, History!Open, History!Close,
       History!Replace, Stamp

LEMMA CommitKeeps ==
  ASSUME IInv, NEW e \in Evaluator, Commit(e)
  PROVE  IInv'
<1> DEFINE c == call[e]
<1>1. c \in Call /\ CallShape(c) /\ c.step = "commit"
  BY DEF Commit, IInv, TypeOK
<1>2. /\ call' \in [Evaluator -> Call]
      /\ verdict' \in Verdict
      /\ SilentPageDisconnected'
      /\ \A f \in Evaluator : CallShape(call'[f])
      /\ \A f \in Evaluator : f # e => call'[f] = call[f]
  BY <1>1, Outcome DEF Commit
<1>3. CASE writer = e
  <2>1. draft \in Seq(Hold) /\ LastOpen(draft)
    BY <1>3, BoundAssumption, DraftRows
  <2>2. holds' = draft /\ writer' = Null /\ draft' = <<>>
    BY <1>3 DEF Commit
  <2>3. Writing'
    BY <2>2 DEF Writing
  <2> QED
    BY <1>2, <2>1, <2>2, <2>3, EmptyRows DEF Commit, IInv, TypeOK, pages, LastOpen
<1>4. CASE writer # e
  <2>1. UNCHANGED table
    BY <1>4 DEF Commit
  <2>2. Writing'
    BY <1>2, <1>4, <2>1, WritingKept
  <2> QED
    BY <1>2, <2>1, <2>2 DEF Commit, IInv, TypeOK, pages, table, LastOpen
<1> QED
  BY <1>3, <1>4

LEMMA FailKeeps ==
  ASSUME IInv, NEW e \in Evaluator, Fail(e)
  PROVE  IInv'
<1>1. Continue(e, IdleCall) /\ IdleCall \in Call /\ CallShape(IdleCall)
  BY EmptyRows DEF Fail, CallShape, IdleCall
<1>2. /\ call' \in [Evaluator -> Call]
      /\ verdict' \in Verdict
      /\ SilentPageDisconnected'
      /\ \A f \in Evaluator : CallShape(call'[f])
      /\ \A f \in Evaluator : f # e => call'[f] = call[f]
  BY <1>1, Outcome
<1>3. CASE writer = e
  <2>1. writer' = Null /\ draft' = <<>> /\ holds' = holds
    BY <1>3 DEF Fail
  <2>2. Writing'
    BY <2>1 DEF Writing
  <2> QED
    BY <1>2, <2>1, <2>2, EmptyRows DEF Fail, IInv, TypeOK, pages, LastOpen
<1>4. CASE writer # e
  <2>1. UNCHANGED table
    BY <1>4 DEF Fail
  <2>2. Writing'
    BY <1>2, <1>4, <2>1, WritingKept
  <2> QED
    BY <1>2, <2>1, <2>2 DEF Fail, IInv, TypeOK, pages, table, LastOpen
<1> QED
  BY <1>3, <1>4

\* The steps of the pages and the clock, and stuttering.
LEMMA OthersKeep ==
  ASSUME IInv, UNCHANGED <<table, call>>, verdict' \in {verdict, NoVerdict},
         lastHeartbeat' \in [Page -> Time], unregistered' \subseteq Page,
         now' \in Stamp
  PROVE  IInv'
<1>1. SilentPageDisconnected' /\ verdict' \in Verdict
  <2>1. CASE verdict' = verdict
    BY <2>1 DEF IInv, TypeOK, SilentPageDisconnected
  <2>2. CASE verdict' = NoVerdict
    <3>1. ~verdict'.connected
      BY <2>2 DEF NoVerdict
    <3> QED
      BY <2>2, <3>1, EmptyRows DEF SilentPageDisconnected
  <2> QED
    BY <2>1, <2>2
<1>2. Writing'
  BY DEF IInv, Writing, table, HasEnded, HasStarted, History!CanClose,
         History!NoneOpen
<1> QED
  BY <1>1, <1>2 DEF IInv, TypeOK, table, LastOpen

LEMMA InvKept == IInv /\ [Next]_vars => IInv'
<1> SUFFICES ASSUME IInv, [Next]_vars PROVE IInv'
  OBVIOUS
<1>1. ASSUME NEW e \in Evaluator, Evaluate(e) PROVE IInv'
  BY <1>1, ReadPageKeeps, BeginCycleKeeps, TakeTimeKeeps, LoadPagesKeeps,
     FindOpenKeeps, CountKeeps, EndKeeps, StartKeeps, FindStartedKeeps,
     CommitKeeps, FailKeeps DEF Evaluate
<1>2. ASSUME NEW p \in Page, NEW t \in Stamp, Heartbeat(p, t) PROVE IInv'
  <2>1. t \in Time
    BY DEF Stamp, Time
  <2> QED
    BY <1>2, <2>1, OthersKeep DEF Heartbeat, IInv, TypeOK
<1>3. ASSUME NEW p \in Page, Unregister(p) PROVE IInv'
  BY <1>3, OthersKeep DEF Unregister, IInv, TypeOK
<1>4. CASE Tick
  <2>1. now + 1 \in Stamp
    BY <1>4, BoundAssumption DEF Tick, IInv, TypeOK, Stamp
  <2> QED
    BY <1>4, <2>1, OthersKeep DEF Tick, IInv, TypeOK, pages
<1>5. CASE UNCHANGED vars
  BY <1>5, OthersKeep DEF vars, pages, IInv, TypeOK
<1> QED
  BY <1>1, <1>2, <1>3, <1>4, <1>5 DEF Next

LEMMA InvInit == Init => IInv
BY EmptyRows, BoundAssumption
   DEF Init, IInv, TypeOK, CallShape, IdleCall, Writing, SilentPageDisconnected,
       NoVerdict, Never, Time, Stamp

LEMMA StepMaps ==
  ASSUME IInv, [Next]_vars
  PROVE  [History!Next]_holds
<1>1. ASSUME NEW e \in Evaluator, Evaluate(e) PROVE [History!Next]_holds
  <2>1. CASE End(e)
    BY <2>1, EndWrites
       DEF table, History!Next, History!Close, Stamp
  <2>2. CASE Start(e)
    BY <2>2, StartWrites DEF table, History!Next, History!Open, Stamp
  <2>3. CASE Commit(e)
    <3>1. writer = e => HasEnded(draft) \/ HasStarted(draft)
      BY BoundAssumption DEF IInv, Writing
    <3> QED
      BY <2>3, <3>1, DraftMaps DEF Commit, table
  <2>4. CASE UNCHANGED holds
    BY <2>4
  <2> QED
    BY <1>1, <2>1, <2>2, <2>3, <2>4
       DEF Evaluate, BeginCycle, ReadPage, TakeTime, LoadPages, FindOpen, Count,
           FindStarted, Fail, table
<1> QED
  BY <1>1 DEF Next, Heartbeat, Unregister, Tick, vars, table

-----------------------------------------------------------------------------
(* One evaluation at a time *)

LEMMA RowStarts ==
  ASSUME NEW rows \in Seq(Hold), NEW i \in DOMAIN rows
  PROVE  rows[i].started \in Stamp /\ rows[i].ended \in Time
<1>1. rows[i] \in Hold
  OBVIOUS
<1> QED
  BY <1>1 DEF Hold

\* The statement of End leaves no row open, if the open one is the one it found.
LEMMA EndedCloses ==
  ASSUME NEW rows \in Seq(Hold), LastOpen(rows), NEW since \in Stamp, NEW t \in Stamp
  PROVE  /\ OpenSince(rows) = since => ~IsOpen(Ended(rows, since, t))
         /\ \A n \in Nat : StartedBy(rows, n) => StartedBy(Ended(rows, since, t), n)
<1> DEFINE after == Ended(rows, since, t)
<1>1. DOMAIN after = DOMAIN rows
  BY DEF Ended
<1>2. ASSUME NEW i \in DOMAIN rows
      PROVE  /\ after[i].started = rows[i].started
             /\ rows[i].ended # Never => after[i].ended = rows[i].ended
             /\ rows[i].ended = Never /\ rows[i].started = since => after[i].ended # Never
  <2>1. rows[i] \in Hold
    OBVIOUS
  <2> QED
    BY <2>1 DEF Ended, Hold, Stamp, Never
<1>3. ASSUME OpenSince(rows) = since, NEW i \in DOMAIN rows, rows[i].ended = Never
      PROVE  rows[i].started = since
  <2>1. \A j \in DOMAIN rows : rows[j].ended = Never => j = i
    BY <1>3 DEF LastOpen
  <2>2. OpenSince(rows) = rows[i].started
    BY <1>3, <2>1 DEF OpenSince, IsOpen
  <2> QED
    BY <1>3, <2>2
<1> HIDE DEF after
<1> QED
  BY <1>1, <1>2, <1>3 DEF IsOpen, StartedBy, after

\* The statement of Start opens a row of its own, if none is open.
LEMMA StartedOpens ==
  ASSUME NEW rows \in Seq(Hold), ~IsOpen(rows), NEW t \in Stamp
  PROVE  /\ OpenSince(Started(rows, t)) = t
         /\ StartedBy(rows, t) => StartedBy(Started(rows, t), t)
<1> DEFINE row == [started |-> t, ended |-> Never]
           after == Append(rows, row)
<1>1. Started(rows, t) = after
  BY DEF Started
<1>2. /\ Len(after) = Len(rows) + 1 /\ DOMAIN after = 1..Len(after)
      /\ DOMAIN rows = 1..Len(rows)
      /\ \A i \in DOMAIN rows : after[i] = rows[i]
      /\ after[Len(after)] = row
  OBVIOUS
<1>3. Len(rows) \in Nat
  OBVIOUS
<1>4. Len(after) \in DOMAIN after /\ \A i \in DOMAIN after : i \in DOMAIN rows \/ i = Len(after)
  BY <1>2, <1>3
<1>5. row.started = t /\ row.ended = Never
  OBVIOUS
<1> HIDE DEF row, after
<1>6. \A i \in DOMAIN after : after[i].ended = Never <=> i = Len(after)
  BY <1>2, <1>4, <1>5 DEF IsOpen
<1>7. OpenSince(after) = after[Len(after)].started
  BY <1>4, <1>6 DEF OpenSince, IsOpen
<1>8. StartedBy(rows, t) => StartedBy(after, t)
  BY <1>2, <1>4, <1>5 DEF StartedBy, Stamp
<1> QED
  BY <1>1, <1>2, <1>5, <1>7, <1>8

\* Who writes sees what was written.
LEMMA WriterSees ==
  ASSUME IInv, NEW e \in Evaluator, NEW rows, Write(e, rows)
  PROVE  /\ Rows(e)' = rows
         /\ holds' \in {holds, rows}
<1>1. call[e].kind # "config" => writer # e
  BY BoundAssumption DEF IInv, Writing
<1> QED
  BY <1>1 DEF Write, Rows, table

\* What is concluded of a page follows from what the evaluation has settled.
LEMMA ConcludesHeld ==
  ASSUME NEW e, NEW c \in Call, Settled(c),
         Conclude(e, c)
  PROVE  SuspicionHolds' /\ SuspectedPagesHeld'
<1>1. /\ verdict'.suspected = c.suspected /\ verdict'.hold = c.hold
      /\ verdict'.recent = (~c.left /\ c.heartbeat # Never /\ c.heartbeat >= RecentSince(c.at))
      /\ verdict'.connected = Connected(c)
  BY DEF Conclude
<1>2. /\ c.at \in Int /\ c.heartbeat \in Int /\ c.hold \in Int
      /\ HeartbeatTimeout \in Nat /\ MaxDuration \in Nat
  BY PolicyAssumption, BoundAssumption DEF Call, Time
<1>3. c.hold <= c.at => RecentSince(c.hold) <= RecentSince(c.at)
  BY <1>2 DEF RecentSince
<1>4. RecentSince(c.hold) \in Int /\ RecentSince(c.at) \in Int
  BY <1>2 DEF RecentSince
<1>5. SuspicionHolds'
  BY <1>1 DEF SuspicionHolds, Settled
<1>6. ASSUME verdict'.suspected, verdict'.recent
      PROVE  verdict'.connected
  <2>1. c.suspected /\ ~c.left /\ c.heartbeat # Never /\ c.heartbeat >= RecentSince(c.at)
    BY <1>1, <1>6, Zenon
  <2>2. c.hold # Never /\ c.at < c.hold + MaxDuration /\ c.heartbeat >= RecentSince(c.hold)
    BY <1>2, <1>3, <1>4, <2>1 DEF Settled
  <2>3. Connected(c)
    BY <2>1, <2>2 DEF Connected
  <2> QED
    BY <1>1, <2>3, Zenon
<1> QED
  BY <1>5, <1>6 DEF SuspectedPagesHeld

\* What an evaluation goes on with, alone.
LEMMA ContinuesAlone ==
  ASSUME Alone, AloneInv, IInv', NEW e \in Evaluator, NEW c,
         Continue(e, c), Fits(c, Rows(e)', now'), StartedBy(holds', now')
  PROVE  AloneInv'
<1>1. call'[e] = c /\ verdict' = NoVerdict
  BY DEF Continue, AloneInv, IInv, TypeOK
<1>2. SuspicionHolds' /\ SuspectedPagesHeld'
  BY <1>1 DEF NoVerdict, SuspicionHolds, SuspectedPagesHeld
<1>3. \A f \in Evaluator : Fits(call'[f], Rows(f)', now')
  BY <1>1 DEF Alone
<1>4. (\A f \in Evaluator : Fits(call[f], Rows(f), now))'
  BY <1>3 DEF Fits, StartedBy, Settled, OpenSince, IsOpen
<1> QED
  BY <1>2, <1>4 DEF AloneInv

\* What it concludes, alone.
LEMMA ConcludesAlone ==
  ASSUME Alone, AloneInv, IInv', NEW e \in Evaluator, NEW c \in Call,
         Conclude(e, c), Settled(c), StartedBy(holds', now')
  PROVE  AloneInv'
<1>1. SuspicionHolds' /\ SuspectedPagesHeld'
  BY ConcludesHeld
<1>2. call'[e].step = "idle"
  BY DEF Conclude, IdleCall, AloneInv, IInv, TypeOK
<1>3. \A f \in Evaluator : Fits(call'[f], Rows(f)', now')
  BY <1>2 DEF Alone, Fits
<1>4. (\A f \in Evaluator : Fits(call[f], Rows(f), now))'
  BY <1>3 DEF Fits, StartedBy, Settled, OpenSince, IsOpen
<1> QED
  BY <1>1, <1>4 DEF AloneInv

\* What it returns, alone.
LEMMA ReturnsAlone ==
  ASSUME Alone, AloneInv, IInv', NEW e \in Evaluator, NEW c \in Call,
         Return(e, c), Settled(c), c.at <= now', StartedBy(Rows(e)', c.at),
         StartedBy(holds', now')
  PROVE  AloneInv'
<1>1. CASE c.kind = "config"
  <2> DEFINE d == [c EXCEPT !.step = "commit"]
  <2>1. /\ d.step = "commit" /\ d.at = c.at /\ d.suspected = c.suspected
        /\ d.hold = c.hold
    BY DEF Call
  <2>2. Continue(e, d)
    BY <1>1 DEF Return
  <2> HIDE DEF d
  <2>3. Fits(d, Rows(e)', now')
    BY <2>1 DEF Fits, Settled
  <2> QED
    BY <2>2, <2>3, ContinuesAlone
<1>2. CASE c.kind # "config"
  BY <1>2, ConcludesAlone DEF Return
<1> QED
  BY <1>1, <1>2

LEMMA BeginsAlone ==
  ASSUME Alone, AloneInv, IInv', NEW e \in Evaluator, NEW p \in Page,
         \/ BeginCycle(e, p)
         \/ \E kind \in {"list", "config"} : ReadPage(e, p, kind)
  PROVE  AloneInv'
<1>1. /\ UNCHANGED <<table, now>> /\ writer # e
      /\ StartedBy(holds, now)
  BY NotWriter DEF AloneInv, ReadPage, BeginCycle
<1>2. Rows(e)' = holds
  BY <1>1 DEF Rows, table
<1>3. now \in Int
  BY DEF AloneInv, IInv, TypeOK, Stamp
<1>4. ASSUME NEW c, Continue(e, c), c.step = "stamp" \/ (c.step = "load" /\ c.at = now)
      PROVE  AloneInv'
  <2>1. Fits(c, Rows(e)', now')
    BY <1>1, <1>2, <1>3, <1>4 DEF Fits
  <2> QED
    BY <1>1, <1>4, <2>1, ContinuesAlone DEF table
<1>5. CASE BeginCycle(e, p)
  <2> DEFINE c == [IdleCall EXCEPT !.step = "load", !.kind = "cycle", !.page = p,
                                   !.at = now]
  <2>1. c.step = "load" /\ c.at = now
    BY DEF IdleCall
  <2>2. Continue(e, c)
    BY <1>5 DEF BeginCycle
  <2> HIDE DEF c
  <2> QED
    BY <1>4, <2>1, <2>2
<1>6. ASSUME NEW kind, ReadPage(e, p, kind)
      PROVE  AloneInv'
  <2> DEFINE c == [IdleCall EXCEPT
               !.step = "stamp", !.kind = kind, !.page = p,
               !.heartbeat = lastHeartbeat[p], !.left = p \in unregistered]
  <2>1. c.step = "stamp"
    BY DEF IdleCall
  <2>2. Continue(e, c)
    BY <1>6 DEF ReadPage
  <2> HIDE DEF c
  <2> QED
    BY <1>4, <2>1, <2>2
<1> QED
  BY <1>5, <1>6

LEMMA ReadsAlone ==
  ASSUME Alone, AloneInv, IInv', NEW e \in Evaluator,
         TakeTime(e) \/ LoadPages(e) \/ FindOpen(e)
  PROVE  AloneInv'
<1>1. /\ UNCHANGED <<table, now>> /\ writer # e
      /\ StartedBy(holds, now) /\ Fits(call[e], Rows(e), now)
  BY NotWriter DEF AloneInv, TakeTime, LoadPages, FindOpen
<1>2. Rows(e)' = holds /\ Rows(e) = holds
  BY <1>1 DEF Rows, table
<1>3. now \in Int /\ call[e] \in Call
  BY DEF AloneInv, IInv, TypeOK, Stamp
<1>4. ASSUME NEW c, Continue(e, c),
             \/ c.step = "find_open" /\ c.at = now
             \/ c.step = "find_open" /\ c.at = call[e].at /\ call[e].step = "load"
             \/ /\ c.step = "count" /\ c.at = call[e].at
                /\ call[e].step = "find_open" /\ c.hold = OpenSince(Rows(e))
      PROVE  AloneInv'
  <2>1. Fits(c, Rows(e)', now')
    BY <1>1, <1>2, <1>3, <1>4 DEF Fits
  <2> QED
    BY <1>1, <1>4, <2>1, ContinuesAlone DEF table
<1>5. CASE TakeTime(e)
  <2> DEFINE c == [call[e] EXCEPT !.step = "find_open", !.at = now]
  <2>1. c.step = "find_open" /\ c.at = now
    BY <1>3 DEF Call
  <2>2. Continue(e, c)
    BY <1>5 DEF TakeTime
  <2> HIDE DEF c
  <2> QED
    BY <1>4, <2>1, <2>2
<1>6. CASE LoadPages(e)
  <2> DEFINE p == call[e].page
             c == [call[e] EXCEPT !.step = "find_open",
                     !.heartbeat = lastHeartbeat[p], !.left = p \in unregistered]
  <2>1. c.step = "find_open" /\ c.at = call[e].at
    BY <1>3 DEF Call
  <2>2. Continue(e, c) /\ call[e].step = "load"
    BY <1>6 DEF LoadPages
  <2> HIDE DEF c
  <2> QED
    BY <1>4, <2>1, <2>2
<1>7. CASE FindOpen(e)
  <2> DEFINE c == [call[e] EXCEPT !.step = "count", !.hold = OpenSince(Rows(e))]
  <2>1. c.step = "count" /\ c.at = call[e].at /\ c.hold = OpenSince(Rows(e))
    BY <1>3 DEF Call
  <2>2. Continue(e, c) /\ call[e].step = "find_open"
    BY <1>7 DEF FindOpen
  <2> HIDE DEF c
  <2> QED
    BY <1>4, <2>1, <2>2
<1> QED
  BY <1>5, <1>6, <1>7

LEMMA CountsAlone ==
  ASSUME Alone, AloneInv, IInv', NEW e \in Evaluator, Count(e)
  PROVE  AloneInv'
<1> DEFINE c == call[e]
           end == EndsHold(c.at, c.hold)
           start == (c.hold = Never \/ end) /\ Suspected(c.at)
           counted == [c EXCEPT !.suspected = Suspected(c.at), !.start = start]
<1>1. /\ UNCHANGED <<table, now>> /\ writer # e /\ c.step = "count"
      /\ StartedBy(holds, now) /\ Fits(c, Rows(e), now)
  BY NotWriter DEF AloneInv, Count
<1>2. Rows(e)' = holds /\ Rows(e) = holds
  BY <1>1 DEF Rows, table
<1>3. c \in Call /\ holds \in Seq(Hold)
  BY DEF AloneInv, IInv, TypeOK
<1>4. /\ c.hold = OpenSince(holds) /\ c.at <= now /\ StartedBy(holds, c.at)
      /\ c.hold # Never <=> IsOpen(holds)
  BY <1>1, <1>2, <1>3, OpenSinceType DEF Fits
<1>5. counted \in Call /\ Suspected(c.at) \in BOOLEAN /\ start \in BOOLEAN
  BY <1>3 DEF Suspected, Call
<1>6. /\ counted.at = c.at /\ counted.hold = c.hold /\ counted.step = "count"
      /\ counted.suspected = Suspected(c.at) /\ counted.start = start
  BY <1>1, <1>3 DEF Call
<1>7. c.hold # Never => c.hold <= c.at
  <2>1. ASSUME IsOpen(holds) PROVE c.hold <= c.at
    <3>1. PICK i \in DOMAIN holds : holds[i].ended = Never /\ OpenSince(holds) = holds[i].started
      BY <2>1 DEF IsOpen, OpenSince
    <3> QED
      BY <1>4, <3>1 DEF StartedBy
  <2> QED
    BY <1>4, <2>1
<1>8. \/ end /\ Continue(e, [counted EXCEPT !.step = "end"])
      \/ ~end /\ start /\ Continue(e, [counted EXCEPT !.step = "start"])
      \/ ~end /\ ~start /\ Return(e, counted)
  BY DEF Count
<1>9. CASE end /\ Continue(e, [counted EXCEPT !.step = "end"])
  <2> DEFINE d == [counted EXCEPT !.step = "end"]
  <2>1. d.step = "end" /\ d.at = c.at /\ d.hold = c.hold /\ (d.suspected => d.start)
    BY <1>5, <1>6, <1>9 DEF Call
  <2>2. Continue(e, d)
    BY <1>9
  <2> HIDE DEF d
  <2>3. Fits(d, Rows(e)', now')
    BY <1>1, <1>2, <1>4, <2>1 DEF Fits
  <2> QED
    BY <1>1, <2>2, <2>3, ContinuesAlone DEF table
<1>10. CASE ~end /\ start /\ Continue(e, [counted EXCEPT !.step = "start"])
  <2> DEFINE d == [counted EXCEPT !.step = "start"]
  <2>1. d.step = "start" /\ d.at = c.at /\ c.hold = Never
    BY <1>5, <1>6, <1>10 DEF Call
  <2>2. Continue(e, d)
    BY <1>10
  <2> HIDE DEF d
  <2>3. Fits(d, Rows(e)', now')
    BY <1>1, <1>2, <1>4, <2>1 DEF Fits
  <2> QED
    BY <1>1, <2>2, <2>3, ContinuesAlone DEF table
<1>11. CASE ~end /\ ~start /\ Return(e, counted)
  <2>1. c.at \in Int /\ c.hold \in Int /\ MaxDuration \in Nat
    BY <1>3, PolicyAssumption, BoundAssumption DEF Call, Time
  <2>2. Suspected(c.at) => c.hold # Never
    BY <1>11
  <2>3. Suspected(c.at) => c.at < c.hold + MaxDuration
    BY <1>11, <2>1, <2>2 DEF EndsHold
  <2> HIDE DEF counted, start, end
  <2>4. Settled(counted)
    BY <1>6, <1>7, <2>2, <2>3 DEF Settled
  <2> QED
    BY <1>1, <1>2, <1>4, <1>5, <1>6, <1>11, <2>4, ReturnsAlone DEF table
<1> QED
  BY <1>8, <1>9, <1>10, <1>11

LEMMA EndsAlone ==
  ASSUME Alone, AloneInv, IInv', NEW e \in Evaluator, End(e)
  PROVE  AloneInv'
<1> DEFINE c == call[e]
           after == [c EXCEPT !.hold = Never]
           rows == Ended(Rows(e), c.hold, c.at)
<1>1. /\ c \in Call /\ c.step = "end" /\ c.hold \in Stamp /\ c.at \in Stamp
      /\ Fits(c, Rows(e), now) /\ StartedBy(holds, now) /\ now' = now
      /\ now \in Nat
  <2>1. now \in Nat /\ now' = now
    BY BoundAssumption DEF AloneInv, IInv, TypeOK, Stamp, End
  <2> QED
    BY <2>1 DEF AloneInv, IInv, TypeOK, CallShape, End
<1>2. Rows(e) \in Seq(Hold) /\ LastOpen(Rows(e))
  BY RowsType DEF AloneInv
<1>3. Rows(e)' = rows /\ holds' \in {holds, rows}
  BY WriterSees DEF AloneInv, End
<1>4. c.at <= now /\ StartedBy(Rows(e), c.at) /\ c.hold = OpenSince(Rows(e)) /\ (c.suspected => c.start)
  BY <1>1 DEF Fits
<1>5. ~IsOpen(rows) /\ StartedBy(rows, c.at)
  BY <1>1, <1>2, <1>4, EndedCloses DEF Stamp
<1>6. StartedBy(rows, now)
  <2>1. \A i \in DOMAIN Rows(e) : Rows(e)[i].started \in Int
    BY <1>2, RowStarts DEF Stamp
  <2>2. StartedBy(Rows(e), now)
    BY <1>1, <1>4, <2>1 DEF StartedBy, Stamp
  <2> QED
    BY <1>1, <1>2, <2>2, EndedCloses
<1>7. StartedBy(holds', now')
  BY <1>1, <1>3, <1>6
<1>8. after \in Call /\ after.at = c.at /\ after.suspected = c.suspected /\ after.step = "end"
  BY <1>1, BoundAssumption DEF Call, Time, Never
<1>9. CASE c.start /\ Continue(e, [after EXCEPT !.step = "start"])
  <2> DEFINE d == [after EXCEPT !.step = "start"]
  <2>1. d.step = "start" /\ d.at = c.at
    BY <1>8 DEF Call
  <2>2. Continue(e, d)
    BY <1>9
  <2> HIDE DEF d
  <2>3. Fits(d, Rows(e)', now')
    BY <1>1, <1>3, <1>4, <1>5, <2>1 DEF Fits
  <2> QED
    BY <1>7, <2>2, <2>3, ContinuesAlone
<1>10. CASE ~c.start /\ Return(e, after)
  <2>1. Settled(after)
    BY <1>4, <1>8, <1>10 DEF Settled
  <2> QED
    BY <1>1, <1>3, <1>4, <1>5, <1>7, <1>8, <1>10, <2>1, ReturnsAlone
<1> QED
  BY <1>9, <1>10 DEF End

LEMMA StartsAlone ==
  ASSUME Alone, AloneInv, IInv', NEW e \in Evaluator, Start(e) \/ FindStarted(e)
  PROVE  AloneInv'
<1> DEFINE c == call[e]
<1>1. /\ c \in Call /\ c.at \in Stamp /\ Fits(c, Rows(e), now)
      /\ StartedBy(holds, now) /\ now' = now
  BY DEF AloneInv, IInv, TypeOK, CallShape, Start, FindStarted
<1>2. now \in Nat
  BY BoundAssumption DEF AloneInv, IInv, TypeOK, Stamp
<1>3. Rows(e) \in Seq(Hold)
  BY RowsType DEF AloneInv
<1>4. CASE Start(e)
  <2> DEFINE rows == Started(Rows(e), c.at)
             d == [c EXCEPT !.step = "find_started"]
  <2>1. Rows(e)' = rows /\ holds' \in {holds, rows}
    BY <1>4, WriterSees DEF AloneInv, Start
  <2>2. ~IsOpen(Rows(e)) /\ c.at <= now /\ StartedBy(Rows(e), c.at)
    BY <1>1, <1>4 DEF Fits, Start
  <2>3. OpenSince(rows) = c.at /\ StartedBy(rows, c.at)
    BY <1>1, <1>3, <2>2, StartedOpens
  <2>4. rows \in Seq(Hold)
    BY <1>1, <1>3, <2>2, OpenedRows DEF Started, History!Opened, Never
  <2>5. StartedBy(rows, now)
    <3>1. \A i \in DOMAIN rows : rows[i].started \in Int
      BY <2>4, RowStarts DEF Stamp
    <3> QED
      BY <1>1, <1>2, <2>2, <2>3, <3>1 DEF StartedBy, Stamp
  <2>6. d.step = "find_started" /\ d.at = c.at
    BY <1>1 DEF Call
  <2>7. Continue(e, d)
    BY <1>4 DEF Start
  <2> HIDE DEF d, rows
  <2>8. Fits(d, Rows(e)', now')
    BY <1>1, <2>1, <2>2, <2>3, <2>6 DEF Fits
  <2> QED
    BY <1>1, <2>1, <2>5, <2>7, <2>8, ContinuesAlone
<1>5. CASE FindStarted(e)
  <2> DEFINE d == [c EXCEPT !.hold = OpenSince(Rows(e))]
  <2>1. UNCHANGED <<table, now>> /\ Return(e, d) /\ c.step = "find_started"
    BY <1>5 DEF FindStarted
  <2>2. Rows(e)' = Rows(e)
    BY <2>1 DEF Rows, table
  <2>3. OpenSince(Rows(e)) = c.at /\ c.at <= now /\ StartedBy(Rows(e), c.at)
    BY <1>1, <2>1 DEF Fits
  <2>4. /\ d \in Call /\ d.at = c.at /\ d.hold = c.at /\ d.suspected = c.suspected
    BY <1>1, <2>3 DEF Call
  <2> HIDE DEF d
  <2>5. Settled(d)
    BY <1>1, <2>4, PolicyAssumption DEF Settled, Stamp, Never
  <2> QED
    BY <1>1, <2>1, <2>2, <2>3, <2>4, <2>5, ReturnsAlone DEF table
<1> QED
  BY <1>4, <1>5

LEMMA LeavesAlone ==
  ASSUME Alone, AloneInv, IInv', NEW e \in Evaluator, Commit(e) \/ Fail(e)
  PROVE  AloneInv'
<1> DEFINE c == call[e]
<1>1. /\ c \in Call /\ Fits(c, Rows(e), now) /\ StartedBy(holds, now) /\ now' = now
      /\ now \in Nat
  <2>1. now \in Nat /\ now' = now
    BY BoundAssumption DEF AloneInv, IInv, TypeOK, Stamp, Commit, Fail
  <2> QED
    BY <2>1 DEF AloneInv, IInv, TypeOK
<1>2. CASE Commit(e)
  <2>1. Conclude(e, c) /\ Settled(c)
    BY <1>1, <1>2 DEF Commit, Fits
  <2>2. c.at <= now /\ StartedBy(Rows(e), c.at) /\ c.at \in Stamp
    BY <1>1, <1>2 DEF Commit, Fits, AloneInv, IInv, CallShape
  <2>3. StartedBy(Rows(e), now)
    <3>1. \A i \in DOMAIN Rows(e) : Rows(e)[i].started \in Int
      BY RowsType, RowStarts DEF AloneInv, Stamp
    <3> QED
      BY <1>1, <2>2, <3>1 DEF StartedBy, Stamp
  <2>4. holds' = Rows(e) \/ holds' = holds
    BY <1>2 DEF Commit, Rows, table
  <2> QED
    BY <1>1, <2>1, <2>3, <2>4, ConcludesAlone
<1>3. CASE Fail(e)
  <2>1. Continue(e, IdleCall) /\ holds' = holds
    BY <1>3 DEF Fail, table
  <2>2. Fits(IdleCall, Rows(e)', now')
    BY DEF Fits, IdleCall
  <2> QED
    BY <1>1, <2>1, <2>2, ContinuesAlone
<1> QED
  BY <1>2, <1>3

\* The steps of the pages and the clock, and stuttering.
LEMMA OthersAlone ==
  ASSUME AloneInv, IInv', UNCHANGED <<table, call>>, verdict' \in {verdict, NoVerdict},
         now' \in {now, now + 1}
  PROVE  AloneInv'
<1>1. now \in Nat /\ now' \in Nat /\ now <= now'
  BY BoundAssumption DEF AloneInv, IInv, TypeOK, Stamp
<1>2. SuspicionHolds' /\ SuspectedPagesHeld'
  BY DEF AloneInv, SuspicionHolds, SuspectedPagesHeld, NoVerdict
<1>3. \A i \in DOMAIN holds : holds[i].started \in Int
  BY RowStarts DEF AloneInv, IInv, TypeOK, Stamp
<1>4. StartedBy(holds', now')
  BY <1>1, <1>3 DEF AloneInv, StartedBy, table
<1>5. ASSUME NEW e \in Evaluator
      PROVE  Fits(call[e], Rows(e), now')
  <2>1. call[e] \in Call /\ Fits(call[e], Rows(e), now)
    BY DEF AloneInv, IInv, TypeOK
  <2>2. call[e].at \in Int
    BY <2>1, BoundAssumption DEF Call, Time
  <2> QED
    BY <1>1, <2>1, <2>2 DEF Fits
<1>6. (\A e \in Evaluator : Fits(call[e], Rows(e), now))'
  <2>1. \A e \in Evaluator : Rows(e)' = Rows(e)
    BY DEF Rows, table
  <2>2. \A e \in Evaluator : Fits(call'[e], Rows(e)', now')
    BY <1>5, <2>1
  <2> QED
    BY <2>2 DEF Fits, StartedBy, Settled, OpenSince, IsOpen
<1> QED
  BY <1>2, <1>4, <1>6 DEF AloneInv

LEMMA AloneKept == Alone /\ AloneInv /\ [Next]_vars => AloneInv'
<1> SUFFICES ASSUME Alone, AloneInv, [Next]_vars PROVE AloneInv'
  OBVIOUS
<1>1. IInv'
  BY InvKept DEF AloneInv
<1>2. ASSUME NEW e \in Evaluator, Evaluate(e) PROVE AloneInv'
  BY <1>1, <1>2, BeginsAlone, ReadsAlone, CountsAlone, EndsAlone, StartsAlone, LeavesAlone
     DEF Evaluate
<1>3. CASE \E p \in Page, t \in Stamp : Heartbeat(p, t)
  BY <1>1, <1>3, OthersAlone DEF Heartbeat
<1>4. CASE \E p \in Page : Unregister(p)
  BY <1>1, <1>4, OthersAlone DEF Unregister
<1>5. CASE Tick
  BY <1>1, <1>5, OthersAlone DEF Tick
<1>6. CASE UNCHANGED vars
  BY <1>1, <1>6, OthersAlone DEF vars
<1> QED
  BY <1>2, <1>3, <1>4, <1>5, <1>6 DEF Next

LEMMA AloneInit == Init => AloneInv
<1> SUFFICES ASSUME Init PROVE AloneInv
  OBVIOUS
<1>1. IInv
  BY InvInit
<1>2. StartedBy(holds, now)
  BY DEF Init, StartedBy
<1>3. SuspicionHolds /\ SuspectedPagesHeld
  BY DEF Init, SuspicionHolds, SuspectedPagesHeld, NoVerdict
<1>4. \A e \in Evaluator : Fits(call[e], Rows(e), now)
  BY DEF Init, Fits, IdleCall
<1> QED
  BY <1>1, <1>2, <1>3, <1>4 DEF AloneInv

\* The rows, the draft, the calls and the verdict keep their types (Evaluate).
THEOREM HoldTypes == Spec => []TypeOK
<1>1. IInv => TypeOK
  BY DEF IInv
<1> QED
  BY <1>1, InvInit, InvKept, PTL DEF Spec

\* However evaluations and their transactions overlap, the table of holds is a
\* history of holds, open one at a time (Start, End).
THEOREM HoldsMakeHistory == Spec => HistorySpec
<1>1. Init => History!Init
  BY DEF Init, History!Init
<1> QED
  BY <1>1, InvInit, InvKept, StepMaps, PTL DEF Spec, HistorySpec, History!Spec

\* No sequence of holds keeps a silent page connected for longer than the window
\* of the count and the longest duration of a hold (Connected).
THEOREM SilenceDisconnects == Spec => []SilentPageDisconnected
<1>1. IInv => SilentPageDisconnected
  BY DEF IInv
<1> QED
  BY <1>1, InvInit, InvKept, PTL DEF Spec

\* docs/observation_spec.md:420, for evaluations that do not overlap: whoever
\* suspects a failure has a hold in force at the end, the one found or, that one
\* being over, the one started, whatever failed before (Evaluate, Decide).
THEOREM SuspicionsHold == ASSUME Alone PROVE Spec => []SuspicionHolds
<1>1. AloneInv => SuspicionHolds
  BY DEF AloneInv
<1> QED
  BY <1>1, AloneInit, AloneKept, PTL DEF Spec

\* And the hold covers each page that was counted: it started no later than the
\* count and is not over, for every timeout and duration (Connected).
THEOREM SuspectedPagesAreHeld == ASSUME Alone PROVE Spec => []SuspectedPagesHeld
<1>1. AloneInv => SuspectedPagesHeld
  BY DEF AloneInv
<1> QED
  BY <1>1, AloneInit, AloneKept, PTL DEF Spec
=============================================================================
