----------------------------- MODULE HoldHistory -----------------------------
(***************************************************************************)
(* What the table of heartbeat loss holds promises: a history of holds, in *)
(* the order in which they began, of which at most one, the last, is open. *)
(* A hold ends once, not before it started, and is never rewritten or      *)
(* removed.                                                                *)
(*                                                                         *)
(* HeartbeatLossHold, the evaluations of the code, implements this.        *)
(***************************************************************************)
EXTENDS Naturals, Sequences

CONSTANT MaxTime    \* bound on the clock

VARIABLE history    \* holds as [started, ended]; 0 is the end of an open one

NoneOpen(h) == \A i \in DOMAIN h : h[i].ended # 0

Opened(h, t) == Append(h, [started |-> t, ended |-> 0])

Closed(h, t) == [h EXCEPT ![Len(h)].ended = t]

-----------------------------------------------------------------------------
Init == history = <<>>

Open(t) ==
  /\ NoneOpen(history)
  /\ history' = Opened(history, t)

CanClose(t) ==
  /\ history # <<>>
  /\ history[Len(history)].ended = 0
  /\ t >= history[Len(history)].started

Close(t) ==
  /\ CanClose(t)
  /\ history' = Closed(history, t)

\* One transaction ends a hold and starts the next.
Replace(t, u) ==
  /\ CanClose(t)
  /\ history' = Opened(Closed(history, t), u)

Next ==
  \E t \in 1..MaxTime :
    \/ Open(t)
    \/ Close(t)
    \/ \E u \in 1..MaxTime : Replace(t, u)

Spec == Init /\ [][Next]_history
=============================================================================
