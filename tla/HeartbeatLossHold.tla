-------------------------- MODULE HeartbeatLossHold --------------------------
(***************************************************************************)
(* The hold on disconnections while many observation pages fall silent at  *)
(* once (application/heartbeat_loss_hold.go, domain/heartbeat_loss_hold.go,*)
(* infra/db/heartbeat_loss_hold.go).                                       *)
(*                                                                         *)
(* Every listing, observation cycle and change of a point's settings       *)
(* evaluates the hold: it takes the time, looks for the open hold, counts  *)
(* the silent pages of all tenants, and may end the hold or start one.     *)
(* Evaluations interleave between their statements, each with the time it  *)
(* took.  A listing and a cycle commit each statement; a change of         *)
(* settings evaluates in its transaction, whose writes to the holds are    *)
(* seen and waited for by others only as a whole.                          *)
(*                                                                         *)
(* An evaluation judges many pages, each for itself: here it judges one,   *)
(* any one.  The threshold is a fraction, not a float.                     *)
(***************************************************************************)
EXTENDS Integers, FiniteSets, Sequences

CONSTANTS
  Evaluator,          \* evaluations in progress at the same time
  Page,               \* observation page devices of all tenants
  HeartbeatTimeout,   \* silence after which a page is offline
  MaxDuration,        \* longest duration of a hold
  MinDevices,         \* fewest pages a suspicion is based on
  ThresholdNum, ThresholdDen,   \* fraction of silent pages that is suspected
  MaxTime,            \* bound on the clock
  MaxHolds,           \* bound on the rows of the table
  Null                \* no value

ASSUME PolicyAssumption ==
  /\ HeartbeatTimeout \in Nat \ {0}
  /\ MaxDuration \in Nat \ {0}
  /\ MinDevices \in Nat \ {0}
  /\ ThresholdNum \in Nat \ {0}
  /\ ThresholdDen \in Nat \ {0}
  /\ ThresholdNum <= ThresholdDen

ASSUME BoundAssumption ==
  /\ MaxTime \in Nat \ {0}
  /\ MaxHolds \in Nat
  /\ IsFiniteSet(Page)
  /\ Null \notin Evaluator \cup Page

VARIABLES
  lastHeartbeat,  \* last_heartbeat_at of each page
  unregistered,   \* pages with the unregistered flag
  holds,          \* rows of heartbeat_loss_holds, as others see them
  writer,         \* the transaction with uncommitted writes to the holds
  draft,          \* the rows as that transaction sees them
  call,           \* what each evaluation is doing
  verdict,        \* what the last step concluded, if it concluded an evaluation
  now             \* the clock

pages == <<lastHeartbeat, unregistered>>
table == <<holds, writer, draft>>
vars == <<pages, table, call, verdict, now>>

Never == 0
Time == 0..MaxTime
Stamp == 1..MaxTime

Kind == {"list", "cycle", "config"}

Hold == [started: Stamp, ended: Time]

Call ==
  [step: {"idle", "load", "stamp", "find_open", "count", "end", "start",
          "find_started", "commit"},
   kind: Kind,
   page: Page \cup {Null},   \* the page judged, as it was read
   heartbeat: Time,
   left: BOOLEAN,
   at: Time,                 \* the time taken
   hold: Time,               \* start of the hold found, if any
   start: BOOLEAN,           \* a hold has to be started
   suspected: BOOLEAN]       \* what its count said

IdleCall ==
  [step |-> "idle", kind |-> "list", page |-> Null, heartbeat |-> Never,
   left |-> FALSE, at |-> Never, hold |-> Never, start |-> FALSE,
   suspected |-> FALSE]

NoVerdict ==
  [at |-> Never, heartbeat |-> Never, hold |-> Never, suspected |-> FALSE,
   recent |-> FALSE, online |-> FALSE, connected |-> FALSE]

Verdict ==
  [at: Time, heartbeat: Time, hold: Time, suspected: BOOLEAN, recent: BOOLEAN,
   online: BOOLEAN, connected: BOOLEAN]

TypeOK ==
  /\ lastHeartbeat \in [Page -> Time]
  /\ unregistered \subseteq Page
  /\ holds \in Seq(Hold)
  /\ writer \in Evaluator \cup {Null}
  /\ draft \in Seq(Hold)
  /\ call \in [Evaluator -> Call]
  /\ verdict \in Verdict
  /\ now \in Stamp

Init ==
  /\ lastHeartbeat = [p \in Page |-> Never]
  /\ unregistered = {}
  /\ holds = <<>>
  /\ writer = Null
  /\ draft = <<>>
  /\ call = [e \in Evaluator |-> IdleCall]
  /\ verdict = NoVerdict
  /\ now = 1

-----------------------------------------------------------------------------
(* The policy *)

\* RecentSince and LostBefore bound the window of the count.
RecentSince(t) == t - 2 * HeartbeatTimeout
LostBefore(t) == t - HeartbeatTimeout

Recent(t) ==
  {p \in Page \ unregistered :
     lastHeartbeat[p] # Never /\ lastHeartbeat[p] >= RecentSince(t)}

Lost(t) == {p \in Recent(t) : lastHeartbeat[p] < LostBefore(t)}

Enough(t) == Cardinality(Recent(t)) >= MinDevices

Suspected(t) ==
  /\ Enough(t)
  /\ Cardinality(Lost(t)) * ThresholdDen >= ThresholdNum * Cardinality(Recent(t))

\* Mutant of EndsHold: a hold runs on until the pages are back.
EndsWhenBack(t, open) == open # Never /\ Enough(t) /\ ~Suspected(t)

\* Decide: the open hold ends now.
EndsHold(t, open) ==
  /\ open # Never
  /\ t >= open + MaxDuration \/ (Enough(t) /\ ~Suspected(t))

Online(c) ==
  ~c.left /\ c.heartbeat # Never /\ c.at - c.heartbeat <= HeartbeatTimeout

\* Mutant of Connected: any page that was ever online is held.
ConnectedWhileHeld(c) ==
  \/ Online(c)
  \/ /\ c.hold # Never /\ ~c.left /\ c.heartbeat # Never
     /\ c.at < c.hold + MaxDuration

\* The page is taken as connected.
Connected(c) ==
  \/ Online(c)
  \/ /\ c.hold # Never /\ ~c.left /\ c.heartbeat # Never
     /\ c.heartbeat >= RecentSince(c.hold)
     /\ c.at < c.hold + MaxDuration

-----------------------------------------------------------------------------
(* The table *)

\* The rows that evaluation e sees.
Rows(e) == IF writer = e THEN draft ELSE holds

IsOpen(rows) == \E i \in DOMAIN rows : rows[i].ended = Never

\* Mutant of OpenSince: the time until which the open hold lasts.
OpenUntil(rows) ==
  IF IsOpen(rows)
  THEN rows[CHOOSE i \in DOMAIN rows : rows[i].ended = Never].started
         + MaxDuration
  ELSE Never

\* Start of the open row, if there is one.
OpenSince(rows) ==
  IF IsOpen(rows)
  THEN rows[CHOOSE i \in DOMAIN rows : rows[i].ended = Never].started
  ELSE Never

\* No other transaction has uncommitted writes to the rows.
NoOtherWriter(e) == writer \in {Null, e}

\* Mutant of Ended: the row ends at the evaluation's time.
EndedAt(rows, since, t) ==
  [i \in DOMAIN rows |->
     IF rows[i].ended = Never /\ rows[i].started = since
     THEN [rows[i] EXCEPT !.ended = t] ELSE rows[i]]

\* SET ended_at = GREATEST(t, started_at) of the open row that began then.
Ended(rows, since, t) ==
  [i \in DOMAIN rows |->
     IF rows[i].ended = Never /\ rows[i].started = since
     THEN [rows[i] EXCEPT !.ended = IF t >= since THEN t ELSE since]
     ELSE rows[i]]

\* INSERT ... ON CONFLICT DO NOTHING, against the index of open rows.
Started(rows, t) ==
  IF IsOpen(rows) THEN rows ELSE Append(rows, [started |-> t, ended |-> Never])

\* A statement of e leaves these rows.
Write(e, rows) ==
  \/ /\ rows = Rows(e)
     /\ UNCHANGED table
  \/ /\ rows # Rows(e)
     /\ call[e].kind = "config"
     /\ draft' = rows
     /\ writer' = e
     /\ UNCHANGED holds
  \/ /\ rows # Rows(e)
     /\ call[e].kind # "config"
     /\ holds' = rows
     /\ UNCHANGED <<writer, draft>>

-----------------------------------------------------------------------------
(* An evaluation *)

\* A settings change works under the lock of the page's row.
RowFree(p) == \A e \in Evaluator : ~(call[e].kind = "config" /\ call[e].page = p)

Continue(e, c) ==
  /\ call' = [call EXCEPT ![e] = c]
  /\ verdict' = NoVerdict

\* The evaluation c of e is over and its page is judged.
Conclude(e, c) ==
  /\ call' = [call EXCEPT ![e] = IdleCall]
  /\ verdict' =
       [at |-> c.at, heartbeat |-> c.heartbeat, hold |-> c.hold,
        suspected |-> c.suspected,
        recent |-> /\ ~c.left /\ c.heartbeat # Never
                   /\ c.heartbeat >= RecentSince(c.at),
        online |-> Online(c), connected |-> Connected(c)]

\* Evaluate returns the hold of c; a settings change has yet to commit.
Return(e, c) ==
  \/ c.kind = "config" /\ Continue(e, [c EXCEPT !.step = "commit"])
  \/ c.kind # "config" /\ Conclude(e, c)

\* ListEdgeDevices and UpdateObservationPointConfig read the page, the latter
\* with its row locked, and take the time then.
ReadPage(e, p, kind) ==
  /\ call[e].step = "idle"
  /\ kind = "config" => RowFree(p) /\ p \notin unregistered
  /\ Continue(e, [IdleCall EXCEPT
       !.step = "stamp", !.kind = kind, !.page = p,
       !.heartbeat = lastHeartbeat[p], !.left = p \in unregistered])
  /\ UNCHANGED <<pages, table, now>>

TakeTime(e) ==
  /\ call[e].step = "stamp"
  /\ Continue(e, [call[e] EXCEPT !.step = "find_open", !.at = now])
  /\ UNCHANGED <<pages, table, now>>

\* The observation cycle takes the time first and reads the pages later.
BeginCycle(e, p) ==
  /\ call[e].step = "idle"
  /\ Continue(e, [IdleCall EXCEPT !.step = "load", !.kind = "cycle", !.page = p,
                                  !.at = now])
  /\ UNCHANGED <<pages, table, now>>

LoadPages(e) ==
  LET p == call[e].page IN
  /\ call[e].step = "load"
  /\ Continue(e, [call[e] EXCEPT !.step = "find_open",
                    !.heartbeat = lastHeartbeat[p], !.left = p \in unregistered])
  /\ UNCHANGED <<pages, table, now>>

FindOpen(e) ==
  /\ call[e].step = "find_open"
  /\ Continue(e, [call[e] EXCEPT !.step = "count", !.hold = OpenSince(Rows(e))])
  /\ UNCHANGED <<pages, table, now>>

\* CountAcrossTenants and Decide
Count(e) ==
  LET c == call[e]
      end == EndsHold(c.at, c.hold)
      start == (c.hold = Never \/ end) /\ Suspected(c.at)
      counted == [c EXCEPT !.suspected = Suspected(c.at), !.start = start]
  IN
  /\ c.step = "count"
  /\ \/ end /\ Continue(e, [counted EXCEPT !.step = "end"])
     \/ ~end /\ start /\ Continue(e, [counted EXCEPT !.step = "start"])
     \/ ~end /\ ~start /\ Return(e, counted)
  /\ UNCHANGED <<pages, table, now>>

\* The hold found ends, unless another evaluation has ended it.
End(e) ==
  LET c == call[e]
      after == [c EXCEPT !.hold = Never]
  IN
  /\ c.step = "end"
  /\ OpenSince(Rows(e)) = c.hold => NoOtherWriter(e)
  /\ Write(e, Ended(Rows(e), c.hold, c.at))
  /\ \/ c.start /\ Continue(e, [after EXCEPT !.step = "start"])
     \/ ~c.start /\ Return(e, after)
  /\ UNCHANGED <<pages, now>>

\* A hold starts, unless one is open by now.
Start(e) ==
  LET c == call[e] IN
  /\ c.step = "start"
  /\ NoOtherWriter(e)
  /\ IsOpen(Rows(e)) \/ Len(Rows(e)) < MaxHolds
  /\ Write(e, Started(Rows(e), c.at))
  /\ Continue(e, [c EXCEPT !.step = "find_started"])
  /\ UNCHANGED <<pages, now>>

\* Mutant of FindStarted: the hold started is not looked up.
ReturnStarted(e) ==
  /\ call[e].step = "find_started"
  /\ Return(e, call[e])
  /\ UNCHANGED <<pages, table, now>>

\* Whichever hold is open now is the one that counts.
FindStarted(e) ==
  /\ call[e].step = "find_started"
  /\ Return(e, [call[e] EXCEPT !.hold = OpenSince(Rows(e))])
  /\ UNCHANGED <<pages, table, now>>

Commit(e) ==
  /\ call[e].step = "commit"
  /\ Conclude(e, call[e])
  /\ \/ /\ writer = e
        /\ holds' = draft
        /\ writer' = Null
        /\ draft' = <<>>
     \/ /\ writer # e
        /\ UNCHANGED table
  /\ UNCHANGED <<pages, now>>

\* Any statement may fail: what is committed stays, a transaction rolls back.
Fail(e) ==
  /\ call[e].step # "idle"
  /\ Continue(e, IdleCall)
  /\ \/ writer = e /\ writer' = Null /\ draft' = <<>> /\ UNCHANGED holds
     \/ writer # e /\ UNCHANGED table
  /\ UNCHANGED <<pages, now>>

-----------------------------------------------------------------------------
(* The pages, time, and the specification *)

\* A heartbeat is saved with a time taken before.
Heartbeat(p, t) ==
  /\ p \notin unregistered
  /\ RowFree(p)
  /\ t <= now
  /\ lastHeartbeat' = [lastHeartbeat EXCEPT ![p] = t]
  /\ verdict' = NoVerdict
  /\ UNCHANGED <<unregistered, table, call, now>>

Unregister(p) ==
  /\ p \notin unregistered
  /\ RowFree(p)
  /\ unregistered' = unregistered \cup {p}
  /\ verdict' = NoVerdict
  /\ UNCHANGED <<lastHeartbeat, table, call, now>>

Tick ==
  /\ now < MaxTime
  /\ now' = now + 1
  /\ verdict' = NoVerdict
  /\ UNCHANGED <<pages, table, call>>

Evaluate(e) ==
  \/ \E p \in Page :
       \/ BeginCycle(e, p)
       \/ \E kind \in {"list", "config"} : ReadPage(e, p, kind)
  \/ TakeTime(e)
  \/ LoadPages(e)
  \/ FindOpen(e)
  \/ Count(e)
  \/ End(e)
  \/ Start(e)
  \/ FindStarted(e)
  \/ Commit(e)
  \/ Fail(e)

Next ==
  \/ \E e \in Evaluator : Evaluate(e)
  \/ \E p \in Page, t \in Stamp : Heartbeat(p, t)
  \/ \E p \in Page : Unregister(p)
  \/ Tick

Spec == Init /\ [][Next]_vars

-----------------------------------------------------------------------------
(* Properties *)

\* However evaluations overlap, fail and roll back, the table is a history of
\* holds that are open one at a time, end once and not before they started, and
\* stay as they are then (Start, End).
History == INSTANCE HoldHistory WITH history <- holds
HistorySpec == History!Spec

\* A page that stays silent is disconnected in the end: hold follows hold, but
\* none keeps it connected longer than the window of the count and the longest
\* duration of a hold together (Connected, Decide).
SilentPageDisconnected ==
  verdict.connected =>
    verdict.at < verdict.heartbeat + 2 * HeartbeatTimeout + MaxDuration

\* docs/observation_spec.md:420 says that a hold starts when its condition is
\* met and none is in force, so an evaluation whose own count meets the
\* condition ends with a hold, also when the one it found is over by then
\* (Decide, Evaluate).  Evaluations that overlap break this: one with an older
\* time may end the hold that another has just started.
SuspicionHolds == verdict.suspected => verdict.hold # Never

\* And such an evaluation takes every page it counted as connected.
SuspectedPagesHeld ==
  verdict.suspected /\ verdict.recent => verdict.connected

\* docs/observation_spec.md:421 says that a hold is for the pages whose last
\* heartbeat was sent in the window before the hold started (Connected).
HeldPagesFellSilentBeforeHold ==
  verdict.connected /\ ~verdict.online => verdict.heartbeat <= verdict.hold
=============================================================================
