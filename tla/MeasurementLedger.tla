-------------------------- MODULE MeasurementLedger --------------------------
(***************************************************************************)
(* What recording reports of measurements promises: each report is taken   *)
(* at once and at most once, and adds the windows that no report before it *)
(* has brought.  A window stays with the report that brought it first.     *)
(*                                                                         *)
(* MeasurementIngest, the transactions of the code, implements this.       *)
(***************************************************************************)
CONSTANTS
  Report,   \* reports
  Window,   \* windows of one page: observation point and start
  Null      \* no report

VARIABLE ledger   \* the report that brought each window

Init == ledger = [w \in Window |-> Null]

Brings(r) == \E w \in Window : ledger[w] = r

Accept(r, windows) ==
  /\ ~Brings(r)
  /\ ledger' = [w \in Window |->
       IF w \in windows /\ ledger[w] = Null THEN r ELSE ledger[w]]

Next == \E r \in Report, windows \in SUBSET Window : Accept(r, windows)

Spec == Init /\ [][Next]_ledger
=============================================================================
