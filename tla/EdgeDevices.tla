----------------------------- MODULE EdgeDevices -----------------------------
(***************************************************************************)
(* The edge device RPCs and the PostgreSQL rows behind them                *)
(* (application/edge_device.go, domain/edge_device.go,                     *)
(* infra/db/edge_device.go, infra/db/transaction.go).                      *)
(*                                                                         *)
(* A call is one request being handled.  Calls interleave between their    *)
(* statements: a statement that locks a row (FOR UPDATE, or an UPDATE)     *)
(* waits until no other transaction holds it, and what a transaction       *)
(* writes is seen by the others when it commits, so the writes of one      *)
(* transaction are one step.  A Heartbeat reads the device without a lock  *)
(* and writes it later.  Any call in progress may fail (its client goes    *)
(* away, the connection or the process dies): its transaction is rolled    *)
(* back, unless it is only the answer to its commit that is lost.          *)
(*                                                                         *)
(* Names but for the refusal of an empty one, the tenant check and what    *)
(* the validation of a new device refuses are left out.  The rows          *)
(* of observation points are only locked under the lock of their page, so  *)
(* they need no lock of their own.                                         *)
(***************************************************************************)
EXTENDS Integers

CONSTANTS
  Request,    \* requests being handled at the same time
  Page,       \* observation page devices
  Camera,     \* camera devices, by ID: a cascade locks them in ID order
  Point,      \* observation points
  Event,      \* events
  OwnerOf,    \* the page that owns each point
  EventOf,    \* the event of each device
  MaxTime,    \* bound on the clock
  Null        \* no value

Device == Page \cup Camera

ASSUME DeviceAssumption ==
  /\ Camera \subseteq Nat
  /\ Page \cap Camera = {}
  /\ OwnerOf \in [Point -> Page]
  /\ EventOf \in [Device -> Event]

ASSUME TimeAssumption == MaxTime \in Nat \ {0}

ASSUME NullAssumption ==
  Null \notin Request \cup Device \cup Point \cup Event

VARIABLES
  devices,        \* rows of edge_devices
  unregistered,   \* those with the unregistered flag
  enabled,        \* rows of observation_points with the enabled flag
  links,          \* rows of camera_links, as <<camera, point>>
  lastHeartbeat,  \* last_heartbeat_at of each device
  lastActive,     \* last_active_at of each point
  rowLock,        \* the request whose transaction holds each device row
  call,           \* what each request is doing
  reply,          \* the code of the answer that the last step gave, if any
  now             \* the clock

tables == <<devices, unregistered, enabled, links, lastHeartbeat, lastActive>>
vars == <<tables, rowLock, call, reply, now>>

\* Time 0 is the unset timestamp.
Never == 0
Time == 0..MaxTime

\* InternalError tells the end of the request's context from other failures.
Failure == {"internal", "canceled", "deadline_exceeded"}

Code == {"ok", "not_found", "permission_denied", "failed_precondition",
         "invalid_argument"} \cup Failure

\* Answers to a call that has committed: its own may be lost.
Committed == {"ok"} \cup Failure

Step == {"idle", "lock_device", "cascade", "lock_point", "insert_camera",
         "lock_owner", "save_config", "stamp", "save_heartbeat"}

\* The copy of a device that a request works on.
DeviceCopy == [heartbeat: Time, enabled: SUBSET Point, active: [Point -> Time]]

NoCopy ==
  [heartbeat |-> Never, enabled |-> {}, active |-> [q \in Point |-> Never]]

Call ==
  [step: Step,
   event: Event \cup {Null},
   device: Device \cup {Null},     \* the device the request is about
   point: Point \cup {Null},
   camera: Camera \cup {Null},     \* the camera being registered
   pending: SUBSET Camera,         \* linked cameras the cascade has to lock
   saving: SUBSET Camera,          \* linked cameras the cascade unregisters
   copy: DeviceCopy]

IdleCall ==
  [step |-> "idle", event |-> Null, device |-> Null, point |-> Null,
   camera |-> Null, pending |-> {}, saving |-> {}, copy |-> NoCopy]

TypeOK ==
  /\ devices \subseteq Device
  /\ unregistered \subseteq Device
  /\ enabled \subseteq Point
  /\ links \subseteq Camera \X Point
  /\ lastHeartbeat \in [Device -> Time]
  /\ lastActive \in [Point -> Time]
  /\ rowLock \in [Device -> Request \cup {Null}]
  /\ call \in [Request -> Call]
  /\ reply \in Code \cup {Null}
  /\ now \in Time

Init ==
  /\ devices = {}
  /\ unregistered = {}
  /\ enabled = {}
  /\ links = {}
  /\ lastHeartbeat = [d \in Device |-> Never]
  /\ lastActive = [q \in Point |-> Never]
  /\ rowLock = [d \in Device |-> Null]
  /\ call = [r \in Request |-> IdleCall]
  /\ reply = Null
  /\ now = 1

-----------------------------------------------------------------------------
(* Rows and locks *)

PointsOf(d) == {q \in Point : OwnerOf[q] = d}

\* findOne: the device as the request sees it.
Load(d) ==
  [heartbeat |-> lastHeartbeat[d],
   enabled |-> enabled \cap PointsOf(d),
   active |-> [q \in Point |-> IF OwnerOf[q] = d THEN lastActive[q] ELSE Never]]

\* Mutant of LinkedCameras: the point IDs of the links for the camera IDs.
LinkedPoints(p) == {q \in PointsOf(p) : \E c \in Camera : <<c, q>> \in links}

\* Mutant of LinkedCameras: only the first link row of a page is read.
FirstLinkedCamera(p) ==
  {c \in Camera : \E q \in PointsOf(p) :
     <<c, q>> \in links /\ \A l \in links : OwnerOf[l[2]] = p => c <= l[1]}

\* The camera links a page is loaded with: those of registered cameras.
LinkedCameras(p) ==
  {c \in Camera \ unregistered : \E q \in PointsOf(p) : <<c, q>> \in links}

Free(d) == rowLock[d] = Null

Release(r) == [d \in Device |-> IF rowLock[d] = r THEN Null ELSE rowLock[d]]

\* Request r is answered with one of codes; its transaction is over and its row
\* locks go.
Answer(r, codes) ==
  /\ reply' \in codes
  /\ call' = [call EXCEPT ![r] = IdleCall]
  /\ rowLock' = Release(r)

Start(r, started) ==
  /\ call[r].step = "idle"
  /\ call' = [call EXCEPT ![r] = started]
  /\ reply' = Null
  /\ UNCHANGED <<tables, rowLock, now>>

\* Request r takes the row of device d and goes on as c.
Lock(r, d, c) ==
  /\ rowLock' = [rowLock EXCEPT ![d] = r]
  /\ call' = [call EXCEPT ![r] = c]
  /\ reply' = Null

\* Mutant of Refusal: the device of another event is accepted.
RefusalWithoutEvent(d, e) ==
  IF d \notin devices THEN "not_found"
  ELSE IF d \in unregistered THEN "failed_precondition"
  ELSE "ok"

\* Why a request of event e may not use device d, or "ok".
Refusal(d, e) ==
  IF d \notin devices THEN "not_found"
  ELSE IF EventOf[d] # e THEN "permission_denied"
  ELSE IF d \in unregistered THEN "failed_precondition"
  ELSE "ok"

\* The page part of Save: every column is written from the copy.
SavePage(p, copy) ==
  /\ lastHeartbeat' = [lastHeartbeat EXCEPT ![p] = copy.heartbeat]
  /\ enabled' = (enabled \ PointsOf(p)) \cup copy.enabled
  /\ lastActive' = [q \in Point |-> IF OwnerOf[q] = p THEN copy.active[q]
                                                     ELSE lastActive[q]]

-----------------------------------------------------------------------------
(* RegisterEdgeDevice *)

\* A page needs no other row: its one transaction inserts it and its points.
RegisterPage(p) ==
  /\ p \notin devices
  /\ devices' = devices \cup {p}
  /\ enabled' = enabled \cup PointsOf(p)
  /\ reply' = Null
  /\ UNCHANGED <<unregistered, links, lastHeartbeat, lastActive, rowLock, call,
                 now>>

\* A camera arrives with a new ID and the point it is to be linked to.
RegisterCamera(r, c, q, e) ==
  /\ c \notin devices
  /\ EventOf[c] = e
  /\ \A other \in Request : call[other].camera # c
  /\ Start(r, [IdleCall EXCEPT !.step = "lock_point", !.event = e,
                 !.device = OwnerOf[q], !.point = q, !.camera = c])

\* Mutant of LockPoint: the owner is read without FOR UPDATE.
ReadPointUnlocked(r) ==
  LET p == call[r].device IN
  /\ call[r].step = "lock_point"
  /\ Refusal(p, call[r].event) = "ok"
  /\ ~\E c \in LinkedCameras(p) : <<c, call[r].point>> \in links
  /\ call' = [call EXCEPT ![r].step = "insert_camera"]
  /\ reply' = Null
  /\ UNCHANGED <<tables, rowLock, now>>

\* validateCameraLink: the owner row is locked, then everything is read.
LockPoint(r) ==
  LET p == call[r].device
      refusal == Refusal(p, call[r].event)
      linked == \E c \in LinkedCameras(p) : <<c, call[r].point>> \in links
  IN
  /\ call[r].step = "lock_point"
  /\ Free(p)
  /\ \/ /\ refusal # "ok"
        /\ Answer(r, {refusal})
     \/ /\ refusal = "ok"
        /\ linked
        /\ Answer(r, {"invalid_argument"})
     \/ /\ refusal = "ok"
        /\ ~linked
        /\ Lock(r, p, [call[r] EXCEPT !.step = "insert_camera"])
  /\ UNCHANGED <<tables, now>>

\* Create, and the commit.
InsertCamera(r) ==
  /\ call[r].step = "insert_camera"
  /\ devices' = devices \cup {call[r].camera}
  /\ links' = links \cup {<<call[r].camera, call[r].point>>}
  /\ Answer(r, Committed)
  /\ UNCHANGED <<unregistered, enabled, lastHeartbeat, lastActive, now>>

-----------------------------------------------------------------------------
(* UnregisterEdgeDevice *)

UnregisterEdgeDevice(r, d, e) ==
  Start(r, [IdleCall EXCEPT !.step = "lock_device", !.device = d, !.event = e])

\* FindByIDForUpdate; a page comes with its camera links.
LockDevice(r) ==
  LET d == call[r].device
      refusal == Refusal(d, call[r].event)
  IN
  /\ call[r].step = "lock_device"
  /\ Free(d)
  /\ \/ /\ refusal # "ok"
        /\ Answer(r, {refusal})
     \/ /\ refusal = "ok"
        /\ Lock(r, d, [call[r] EXCEPT !.step = "cascade", !.copy = Load(d),
                                      !.pending = LinkedCameras(d)])
  /\ UNCHANGED <<tables, now>>

\* Mutant of LockLinkedCamera: a camera already unregistered is tried again.
RetryLinkedCamera(r) ==
  LET pending == call[r].pending IN
  /\ call[r].step = "cascade"
  /\ \E c \in pending :
       /\ \A other \in pending : c <= other
       /\ Free(c)
       /\ c \notin unregistered
       /\ Lock(r, c, [call[r] EXCEPT !.pending = pending \ {c},
                                     !.saving = @ \cup {c}])
  /\ UNCHANGED <<tables, now>>

\* The next linked camera, in ID order; one that another transaction has
\* unregistered in the meantime is skipped.
LockLinkedCamera(r) ==
  LET pending == call[r].pending IN
  /\ call[r].step = "cascade"
  /\ \E c \in pending :
       /\ \A other \in pending : c <= other
       /\ Free(c)
       /\ Lock(r, c, [call[r] EXCEPT
                        !.pending = pending \ {c},
                        !.saving = IF c \in unregistered THEN @
                                                         ELSE @ \cup {c}])
  /\ UNCHANGED <<tables, now>>

\* Save of every linked camera and of the device itself, and the commit.
\* Save deletes the links of a camera that it saves without links.
CommitUnregister(r) ==
  LET d == call[r].device
      leaving == call[r].saving \cup {d}
  IN
  /\ call[r].step = "cascade"
  /\ call[r].pending = {}
  /\ unregistered' = unregistered \cup leaving
  /\ links' = {l \in links : l[1] \notin leaving}
  /\ SavePage(d, [call[r].copy EXCEPT !.enabled = {}])
  /\ Answer(r, Committed)
  /\ UNCHANGED <<devices, now>>

-----------------------------------------------------------------------------
(* UpdateObservationPointConfig *)

UpdateObservationPointConfig(r, q, e) ==
  Start(r, [IdleCall EXCEPT !.step = "lock_owner", !.event = e,
                            !.device = OwnerOf[q], !.point = q])

\* Mutant of LockOwner: FindByObservationPointID, without FOR UPDATE.
ReadOwnerUnlocked(r) ==
  LET p == call[r].device IN
  /\ call[r].step = "lock_owner"
  /\ Refusal(p, call[r].event) = "ok"
  /\ call' = [call EXCEPT ![r].step = "save_config", ![r].copy = Load(p)]
  /\ reply' = Null
  /\ UNCHANGED <<tables, rowLock, now>>

\* FindByObservationPointIDForUpdate
LockOwner(r) ==
  LET p == call[r].device
      refusal == Refusal(p, call[r].event)
  IN
  /\ call[r].step = "lock_owner"
  /\ Free(p)
  /\ \/ /\ refusal # "ok"
        /\ Answer(r, {refusal})
     \/ /\ refusal = "ok"
        /\ Lock(r, p, [call[r] EXCEPT !.step = "save_config",
                                      !.copy = Load(p)])
  /\ UNCHANGED <<tables, now>>

\* UpdateObservationPoint refuses an empty name.
RefuseConfig(r) ==
  /\ call[r].step = "save_config"
  /\ Answer(r, {"invalid_argument"})
  /\ UNCHANGED <<tables, now>>

\* Save writes the whole device back, its unregistered flag (false in the
\* copy) included; the commit follows the evaluation of the hold.
SaveConfig(r, on) ==
  LET p == call[r].device
      copy == call[r].copy
      q == call[r].point
  IN
  /\ call[r].step = "save_config"
  /\ unregistered' = unregistered \ {p}
  /\ SavePage(p, [copy EXCEPT !.enabled = IF on THEN @ \cup {q} ELSE @ \ {q}])
  /\ Answer(r, Committed)
  /\ UNCHANGED <<devices, links, now>>

-----------------------------------------------------------------------------
(* Heartbeat *)

\* FindByID in a read-only snapshot: no row is locked.  The checks look at
\* this copy, which the writes below may find outdated.
Heartbeat(r, d, e) ==
  LET refusal == Refusal(d, e)
      code == IF refusal = "ok" /\ d \in Camera THEN "failed_precondition"
                                                ELSE refusal
  IN
  /\ call[r].step = "idle"
  /\ \/ /\ code # "ok"
        /\ reply' = code
        /\ UNCHANGED call
     \/ /\ code = "ok"
        /\ reply' = Null
        /\ call' = [call EXCEPT ![r] = [IdleCall EXCEPT
             !.step = "stamp", !.device = d, !.event = e, !.copy = Load(d)]]
  /\ UNCHANGED <<tables, rowLock, now>>

\* EdgeDevice.Heartbeat: the time is taken after the read.
StampHeartbeat(r, active) ==
  /\ call[r].step = "stamp"
  /\ active \subseteq PointsOf(call[r].device)
  /\ call' = [call EXCEPT
       ![r].step = "save_heartbeat",
       ![r].copy.heartbeat = now,
       ![r].copy.active = [q \in Point |-> IF q \in active THEN now ELSE @[q]]]
  /\ reply' = Null
  /\ UNCHANGED <<tables, rowLock, now>>

\* A point that is no point of the page, or not even an ID.
RefuseHeartbeat(r) ==
  /\ call[r].step = "stamp"
  /\ Answer(r, {"not_found", "invalid_argument"})
  /\ UNCHANGED <<tables, now>>

\* UPDATE ... WHERE NOT unregistered, then the points the copy knows to have
\* been active, and the commit.
SaveHeartbeat(r) ==
  LET p == call[r].device
      copy == call[r].copy
  IN
  /\ call[r].step = "save_heartbeat"
  /\ Free(p)
  /\ \/ /\ p \in unregistered
        /\ Answer(r, {"not_found"})
        /\ UNCHANGED <<lastHeartbeat, lastActive>>
     \/ /\ p \notin unregistered
        /\ lastHeartbeat' = [lastHeartbeat EXCEPT ![p] = copy.heartbeat]
        /\ lastActive' = [q \in Point |->
             IF OwnerOf[q] = p /\ copy.active[q] # Never
             THEN copy.active[q] ELSE lastActive[q]]
        /\ Answer(r, Committed)
  /\ UNCHANGED <<devices, unregistered, enabled, links, now>>

-----------------------------------------------------------------------------
(* Failure, time, and the specification *)

\* runInTransaction rolls back; a call outside a transaction has written
\* nothing yet.
Fail(r) ==
  /\ call[r].step # "idle"
  /\ Answer(r, Failure)
  /\ UNCHANGED <<tables, now>>

Tick ==
  /\ now < MaxTime
  /\ now' = now + 1
  /\ reply' = Null
  /\ UNCHANGED <<tables, rowLock, call>>

\* Requests arrive.
Arrive(r) ==
  \E e \in Event :
    \/ \E d \in Device : UnregisterEdgeDevice(r, d, e) \/ Heartbeat(r, d, e)
    \/ \E q \in Point :
         \/ UpdateObservationPointConfig(r, q, e)
         \/ \E c \in Camera : RegisterCamera(r, c, q, e)

\* A request goes on as far as the row locks let it.
Advance(r) ==
  \/ LockPoint(r)
  \/ InsertCamera(r)
  \/ LockDevice(r)
  \/ LockLinkedCamera(r)
  \/ CommitUnregister(r)
  \/ LockOwner(r)
  \/ \E on \in BOOLEAN : SaveConfig(r, on)
  \/ \E active \in SUBSET Point : StampHeartbeat(r, active)
  \/ SaveHeartbeat(r)
  \/ RefuseConfig(r) \/ RefuseHeartbeat(r)

Next ==
  \/ \E p \in Page : RegisterPage(p)
  \/ \E r \in Request : Arrive(r) \/ Advance(r) \/ Fail(r)
  \/ Tick

Spec == Init /\ [][Next]_vars

\* PostgreSQL queues the transactions that wait for a row, so a request that
\* gets to its turn again and again proceeds; whoever holds a row goes on.
Fairness == \A r \in Request : SF_vars(Advance(r))

FairSpec == Spec /\ Fairness

-----------------------------------------------------------------------------
(* Properties *)

\* The links and switches agree with the registrations, whatever
\* registrations, cascades and settings overlapped.  A camera in service has
\* one link, to a point of a page in service of its event, a camera that left
\* has none, no point is linked twice, and only pages in service have points
\* switched on (RegisterEdgeDevice, UnregisterEdgeDevice,
\* UpdateObservationPointConfig).
RegistrationsAgree ==
  /\ \A l \in links :
       /\ {l[1], OwnerOf[l[2]]} \subseteq devices \ unregistered
       /\ EventOf[l[1]] = EventOf[OwnerOf[l[2]]]
       /\ \A k \in links : k # l => k[1] # l[1] /\ k[2] # l[2]
  /\ \A c \in Camera : c \in devices \ unregistered => \E l \in links : l[1] = c
  /\ \A q \in enabled : OwnerOf[q] \in devices \ unregistered

\* The transactions, with all their interleavings and failures, do what the
\* registry does in one step each: no update of one request is lost to or
\* undone by another one (all RPCs).
Registry == INSTANCE DeviceRegistry
RegistrySpec == Registry!Spec

\* A request is answered whatever rows the others hold or wait for: the order
\* in which rows are locked leaves no deadlock and every lock is released.
EveryCallAnswered ==
  \A r \in Request : call[r].step # "idle" ~> call[r].step = "idle"

\* docs/observation_spec.md:146 says of last_heartbeat_at that it is the time
\* the last heartbeat was received, so it would never go back (SaveHeartbeat).
LastHeartbeatNeverGoesBack ==
  [][\A d \in Device : lastHeartbeat'[d] >= lastHeartbeat[d]]_vars
=============================================================================
