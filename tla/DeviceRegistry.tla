--------------------------- MODULE DeviceRegistry ---------------------------
(***************************************************************************)
(* What the edge device RPCs promise: each of them takes effect at once.   *)
(* A registry holds observation pages, which own observation points, and   *)
(* cameras, each linked to one point.  An unregistration is final, closes  *)
(* the points of a page and takes the page's cameras with it.  Nothing but *)
(* a heartbeat moves the heartbeat time of a page.                         *)
(*                                                                         *)
(* EdgeDevices, the locking transactions of the code, implements this.     *)
(***************************************************************************)
EXTENDS Naturals

CONSTANTS
  Page,       \* observation page devices
  Camera,     \* camera devices, by ID
  Point,      \* observation points
  OwnerOf,    \* the page that owns each point
  MaxTime     \* bound on the clock

VARIABLES
  devices,        \* devices ever registered
  unregistered,   \* those unregistered since (a logical deletion)
  enabled,        \* points switched on
  links,          \* <<camera, point>> pairs
  lastHeartbeat   \* time of the last heartbeat of each device

registry == <<devices, unregistered, enabled, links, lastHeartbeat>>

Device == Page \cup Camera

PointsOf(d) == {q \in Point : OwnerOf[q] = d}

\* Devices in service.
InService == devices \ unregistered

LinkedTo(p) == {c \in Camera : \E q \in PointsOf(p) : <<c, q>> \in links}

-----------------------------------------------------------------------------
Init ==
  /\ devices = {}
  /\ unregistered = {}
  /\ enabled = {}
  /\ links = {}
  /\ lastHeartbeat = [d \in Device |-> 0]

RegisterPage(p) ==
  /\ p \notin devices
  /\ devices' = devices \cup {p}
  /\ enabled' = enabled \cup PointsOf(p)
  /\ UNCHANGED <<unregistered, links, lastHeartbeat>>

\* A point takes one camera, and only while its page is in service.
RegisterCamera(c, q) ==
  /\ c \notin devices
  /\ OwnerOf[q] \in InService
  /\ \A other \in Camera : <<other, q>> \notin links
  /\ devices' = devices \cup {c}
  /\ links' = links \cup {<<c, q>>}
  /\ UNCHANGED <<unregistered, enabled, lastHeartbeat>>

\* A page leaves with every camera linked to it, a camera leaves alone.
Unregister(d) ==
  LET leaving == {d} \cup LinkedTo(d) IN
  /\ d \in InService
  /\ unregistered' = unregistered \cup leaving
  /\ enabled' = enabled \ PointsOf(d)
  /\ links' = {l \in links : l[1] \notin leaving}
  /\ UNCHANGED <<devices, lastHeartbeat>>

Configure(q, on) ==
  /\ OwnerOf[q] \in InService
  /\ enabled' = IF on THEN enabled \cup {q} ELSE enabled \ {q}
  /\ UNCHANGED <<devices, unregistered, links, lastHeartbeat>>

Beat(p, t) ==
  /\ p \in InService
  /\ lastHeartbeat' = [lastHeartbeat EXCEPT ![p] = t]
  /\ UNCHANGED <<devices, unregistered, enabled, links>>

Next ==
  \/ \E p \in Page : RegisterPage(p)
  \/ \E c \in Camera, q \in Point : RegisterCamera(c, q)
  \/ \E d \in Device : Unregister(d)
  \/ \E q \in Point, on \in BOOLEAN : Configure(q, on)
  \/ \E p \in Page, t \in 1..MaxTime : Beat(p, t)

Spec == Init /\ [][Next]_registry
=============================================================================
