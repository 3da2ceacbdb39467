-------------------------- MODULE EdgeDevicesProofs --------------------------
(***************************************************************************)
(* Proofs about EdgeDevices, for any number of requests, devices, points   *)
(* and events: the rows keep their types, the links agree with the         *)
(* registrations, and the transactions implement DeviceRegistry.           *)
(*                                                                         *)
(* The argument is the lock discipline: a request that has checked its     *)
(* device holds the row of it until its transaction ends, so what it       *)
(* checked and copied stays true until it writes.                          *)
(***************************************************************************)
EXTENDS EdgeDevices, TLAPS

Registered == devices \ unregistered

\* What a request carries from its arrival on.
CallShape(r) ==
  LET c == call[r] IN
  /\ c.step # "idle" => c.device \in Device
  /\ c.step \in {"lock_point", "insert_camera"} =>
       /\ c.point \in Point
       /\ c.device = OwnerOf[c.point]
       /\ c.camera \in Camera
       /\ c.event = EventOf[c.camera]
  /\ c.step \in {"lock_owner", "save_config"} =>
       c.point \in Point /\ c.device = OwnerOf[c.point]
  /\ c.step \in {"stamp", "save_heartbeat"} => c.device \in Page \cap devices
  /\ c.step = "save_heartbeat" => c.copy.heartbeat # Never
  /\ c.step # "cascade" => c.saving = {}

\* What a request has checked, and keeps true by holding the row.
CallHolds(r) ==
  LET c == call[r] IN
  /\ c.step \in {"insert_camera", "cascade", "save_config"} =>
       c.device \in Registered /\ rowLock[c.device] = r
  /\ c.step = "insert_camera" =>
       /\ EventOf[c.device] = c.event
       /\ \A l \in links : l[2] # c.point
  /\ c.step \in {"cascade", "save_config"} =>
       /\ c.copy.heartbeat = lastHeartbeat[c.device]
       /\ c.copy.enabled = enabled \cap PointsOf(c.device)
  /\ c.step = "cascade" =>
       /\ c.saving \subseteq LinkedCameras(c.device)
       /\ LinkedCameras(c.device) \subseteq c.saving \cup c.pending
       /\ c.pending \subseteq LinkedCameras(c.device) \cup unregistered
       /\ \A k \in c.saving : rowLock[k] = r

\* The camera ID of a registration in progress is its own.
CallCamera(r) ==
  call[r].camera # Null =>
    /\ call[r].camera \notin devices
    /\ \A s \in Request : call[s].camera = call[r].camera => s = r

IInv ==
  /\ TypeOK
  /\ now # Never
  /\ unregistered \subseteq devices
  /\ RegistrationsAgree
  /\ \A r \in Request : CallShape(r) /\ CallHolds(r) /\ CallCamera(r)

-----------------------------------------------------------------------------
(* Types *)

LEMMA ConstantTypes ==
  /\ NoCopy \in DeviceCopy
  /\ IdleCall \in Call
BY TimeAssumption DEF NoCopy, DeviceCopy, IdleCall, Call, Step, Never, Time

LEMMA LoadType ==
  ASSUME TypeOK, NEW d \in Device
  PROVE  Load(d) \in DeviceCopy
BY TimeAssumption DEF TypeOK, Load, DeviceCopy, PointsOf, Never, Time

LEMMA AnswerType ==
  ASSUME TypeOK, NEW r \in Request, NEW codes \in SUBSET Code, Answer(r, codes)
  PROVE  /\ call' \in [Request -> Call]
         /\ rowLock' \in [Device -> Request \cup {Null}]
         /\ reply' \in Code \cup {Null}
BY ConstantTypes DEF TypeOK, Answer, Release

LEMMA StartType ==
  ASSUME TypeOK, NEW r \in Request, NEW c \in Call, Start(r, c)
  PROVE  TypeOK'
BY ConstantTypes DEF TypeOK, Start, tables

LEMMA SavePageType ==
  ASSUME TypeOK, NEW p \in Device, NEW copy \in DeviceCopy, SavePage(p, copy)
  PROVE  /\ lastHeartbeat' \in [Device -> Time]
         /\ enabled' \subseteq Point
         /\ lastActive' \in [Point -> Time]
BY DEF TypeOK, SavePage, DeviceCopy, PointsOf

LEMMA RefusalType ==
  ASSUME NEW d, NEW e
  PROVE  Refusal(d, e) \in Code
BY DEF Refusal, Code

LEMMA TypesKept ==
  ASSUME TypeOK, \A r \in Request : CallShape(r), [Next]_vars
  PROVE  TypeOK'
<1> USE ConstantTypes, DeviceAssumption
<1>1. CASE UNCHANGED vars
  BY <1>1 DEF TypeOK, vars, tables
<1>2. ASSUME NEW p \in Page, RegisterPage(p) PROVE TypeOK'
  BY <1>2 DEF TypeOK, RegisterPage, PointsOf, Device
<1>3. ASSUME NEW r \in Request, Arrive(r) PROVE TypeOK'
  <2>1. ASSUME NEW e \in Event, NEW d \in Device, UnregisterEdgeDevice(r, d, e)
        PROVE TypeOK'
    <3>1. [IdleCall EXCEPT !.step = "lock_device", !.device = d, !.event = e]
            \in Call
      BY DEF IdleCall, Call, Step
    <3> QED
      BY <2>1, <3>1, StartType DEF UnregisterEdgeDevice
  <2>2. ASSUME NEW e \in Event, NEW d \in Device, Heartbeat(r, d, e)
        PROVE TypeOK'
    <3> DEFINE begun == [IdleCall EXCEPT !.step = "stamp", !.device = d,
                           !.event = e, !.copy = Load(d)]
    <3>1. begun \in Call
      BY LoadType DEF IdleCall, Call, Step
    <3>3. \/ UNCHANGED call
          \/ call' = [call EXCEPT ![r] = begun]
      BY <2>2 DEF Heartbeat
    <3>4. call' \in [Request -> Call]
      BY <3>1, <3>3 DEF TypeOK
    <3>5. reply' \in Code \cup {Null}
      <4>1. Refusal(d, e) \in Code /\ "failed_precondition" \in Code
        BY RefusalType DEF Code
      <4> QED
        BY <2>2, <4>1 DEF Heartbeat
    <3> QED
      BY <2>2, <3>4, <3>5 DEF Heartbeat, TypeOK, tables
  <2>3. ASSUME NEW e \in Event, NEW q \in Point,
               UpdateObservationPointConfig(r, q, e)
        PROVE TypeOK'
    <3>1. [IdleCall EXCEPT !.step = "lock_owner", !.event = e,
             !.device = OwnerOf[q], !.point = q] \in Call
      BY DEF IdleCall, Call, Step, Device
    <3> QED
      BY <2>3, <3>1, StartType DEF UpdateObservationPointConfig
  <2>4. ASSUME NEW e \in Event, NEW q \in Point, NEW c \in Camera,
               RegisterCamera(r, c, q, e)
        PROVE TypeOK'
    <3>1. [IdleCall EXCEPT !.step = "lock_point", !.event = e,
             !.device = OwnerOf[q], !.point = q, !.camera = c] \in Call
      BY DEF IdleCall, Call, Step, Device
    <3> QED
      BY <2>4, <3>1, StartType DEF RegisterCamera
  <2> QED
    BY <1>3, <2>1, <2>2, <2>3, <2>4 DEF Arrive
<1>4. ASSUME NEW r \in Request, Advance(r) PROVE TypeOK'
  <2> DEFINE c == call[r]
             d == call[r].device
  <2>1. c \in Call
    BY DEF TypeOK
  <2>2. CASE LockPoint(r)
    <3>1. [c EXCEPT !.step = "insert_camera"] \in Call
      BY <2>1 DEF Call, Step
    <3>2. \/ Answer(r, {Refusal(d, c.event)})
          \/ Answer(r, {"invalid_argument"})
          \/ Lock(r, d, [c EXCEPT !.step = "insert_camera"])
      BY <2>2 DEF LockPoint
    <3>3. /\ call' \in [Request -> Call]
          /\ rowLock' \in [Device -> Request \cup {Null}]
          /\ reply' \in Code \cup {Null}
      BY <3>1, <3>2, AnswerType, RefusalType DEF Code, Lock, TypeOK
    <3> QED
      BY <2>2, <3>3 DEF LockPoint, TypeOK, tables
  <2>3. CASE InsertCamera(r)
    <3>1. c.camera \in Camera /\ c.point \in Point
      BY <2>3 DEF InsertCamera, CallShape
    <3>2. /\ call' \in [Request -> Call]
          /\ rowLock' \in [Device -> Request \cup {Null}]
          /\ reply' \in Code \cup {Null}
      BY <2>3, AnswerType DEF InsertCamera, Committed, Failure, Code
    <3> QED
      BY <2>3, <3>1, <3>2 DEF InsertCamera, TypeOK, Device
  <2>4. CASE LockDevice(r)
    <3> DEFINE locked == [c EXCEPT !.step = "cascade", !.copy = Load(d),
                                   !.pending = LinkedCameras(d)]
    <3>1. \/ Answer(r, {Refusal(d, c.event)})
          \/ Lock(r, d, locked)
      BY <2>4 DEF LockDevice
    <3>2. locked \in Call
      <4>1. d \in Device
        BY <2>4 DEF LockDevice, CallShape
      <4>2. LinkedCameras(d) \subseteq Camera
        BY DEF LinkedCameras
      <4> QED
        BY <2>1, <4>1, <4>2, LoadType DEF Call, Step
    <3>3. /\ call' \in [Request -> Call]
          /\ rowLock' \in [Device -> Request \cup {Null}]
          /\ reply' \in Code \cup {Null}
      BY <3>1, <3>2, AnswerType, RefusalType DEF Lock, TypeOK
    <3> QED
      BY <2>4, <3>3 DEF LockDevice, TypeOK, tables
  <2>5. CASE LockLinkedCamera(r)
    <3>1. PICK k \in c.pending :
            Lock(r, k, [c EXCEPT !.pending = c.pending \ {k},
                                 !.saving = IF k \in unregistered THEN @
                                                             ELSE @ \cup {k}])
      BY <2>5 DEF LockLinkedCamera
    <3>2. [c EXCEPT !.pending = c.pending \ {k},
                    !.saving = IF k \in unregistered THEN @ ELSE @ \cup {k}]
            \in Call
      BY <2>1 DEF Call
    <3> QED
      BY <2>5, <3>1, <3>2 DEF LockLinkedCamera, Lock, TypeOK, tables
  <2>6. CASE CommitUnregister(r)
    <3>1. d \in Device /\ c.saving \subseteq Camera
      BY <2>1, <2>6 DEF CommitUnregister, CallShape, Call
    <3>2. [c.copy EXCEPT !.enabled = {}] \in DeviceCopy
      BY <2>1 DEF Call, DeviceCopy
    <3>3. /\ lastHeartbeat' \in [Device -> Time]
          /\ enabled' \subseteq Point
          /\ lastActive' \in [Point -> Time]
      BY <2>6, <3>1, <3>2, SavePageType DEF CommitUnregister
    <3>4. /\ call' \in [Request -> Call]
          /\ rowLock' \in [Device -> Request \cup {Null}]
          /\ reply' \in Code \cup {Null}
      BY <2>6, AnswerType DEF CommitUnregister, Committed, Failure, Code
    <3> QED
      BY <2>6, <3>1, <3>3, <3>4 DEF CommitUnregister, TypeOK, Device
  <2>7. CASE LockOwner(r)
    <3> DEFINE locked == [c EXCEPT !.step = "save_config", !.copy = Load(d)]
    <3>1. \/ Answer(r, {Refusal(d, c.event)})
          \/ Lock(r, d, locked)
      BY <2>7 DEF LockOwner
    <3>2. locked \in Call
      <4>1. d \in Device
        BY <2>7 DEF LockOwner, CallShape
      <4> QED
        BY <2>1, <4>1, LoadType DEF Call, Step
    <3>3. /\ call' \in [Request -> Call]
          /\ rowLock' \in [Device -> Request \cup {Null}]
          /\ reply' \in Code \cup {Null}
      BY <3>1, <3>2, AnswerType, RefusalType DEF Lock, TypeOK
    <3> QED
      BY <2>7, <3>3 DEF LockOwner, TypeOK, tables
  <2>8. ASSUME NEW on \in BOOLEAN, SaveConfig(r, on) PROVE TypeOK'
    <3> DEFINE saved == [c.copy EXCEPT !.enabled = IF on THEN @ \cup {c.point}
                                                         ELSE @ \ {c.point}]
    <3>1. d \in Device /\ c.point \in Point
      BY <2>8 DEF SaveConfig, CallShape
    <3>2. saved \in DeviceCopy
      BY <2>1, <3>1 DEF Call, DeviceCopy
    <3>3. /\ lastHeartbeat' \in [Device -> Time]
          /\ enabled' \subseteq Point
          /\ lastActive' \in [Point -> Time]
      BY <2>8, <3>1, <3>2, SavePageType DEF SaveConfig
    <3>4. /\ call' \in [Request -> Call]
          /\ rowLock' \in [Device -> Request \cup {Null}]
          /\ reply' \in Code \cup {Null}
      BY <2>8, AnswerType DEF SaveConfig, Committed, Failure, Code
    <3> QED
      BY <2>8, <3>3, <3>4 DEF SaveConfig, TypeOK
  <2>9. ASSUME NEW active \in SUBSET Point, StampHeartbeat(r, active)
        PROVE TypeOK'
    <3> DEFINE stamped == [q \in Point |-> IF q \in active
                                           THEN now ELSE c.copy.active[q]]
    <3>1. stamped \in [Point -> Time]
      BY <2>1 DEF TypeOK, Call, DeviceCopy
    <3>2. call' = [call EXCEPT ![r] = [c EXCEPT !.step = "save_heartbeat",
                     !.copy = [c.copy EXCEPT !.heartbeat = now,
                                             !.active = stamped]]]
      BY <2>1, <2>9 DEF StampHeartbeat, TypeOK, Call, DeviceCopy
    <3>3. [c.copy EXCEPT !.heartbeat = now, !.active = stamped] \in DeviceCopy
      BY <2>1, <3>1 DEF TypeOK, Call, DeviceCopy
    <3>4. call' \in [Request -> Call]
      BY <2>1, <3>2, <3>3 DEF TypeOK, Call, Step
    <3> QED
      BY <2>9, <3>4 DEF StampHeartbeat, TypeOK, tables
  <2>10. CASE SaveHeartbeat(r)
    <3>1. c.copy \in DeviceCopy
      BY <2>1 DEF Call
    <3>2. /\ lastHeartbeat' \in [Device -> Time]
          /\ lastActive' \in [Point -> Time]
      BY <2>10, <3>1 DEF SaveHeartbeat, TypeOK, DeviceCopy
    <3>3. /\ call' \in [Request -> Call]
          /\ rowLock' \in [Device -> Request \cup {Null}]
          /\ reply' \in Code \cup {Null}
      BY <2>10, AnswerType DEF SaveHeartbeat, Committed, Failure, Code
    <3> QED
      BY <2>10, <3>2, <3>3 DEF SaveHeartbeat, TypeOK
  <2>11. CASE RefuseConfig(r) \/ RefuseHeartbeat(r)
    <3>1. PICK codes \in SUBSET Code : Answer(r, codes)
      BY <2>11 DEF RefuseConfig, RefuseHeartbeat, Code
    <3> QED
      BY <2>11, <3>1, AnswerType DEF RefuseConfig, RefuseHeartbeat, TypeOK, tables
  <2> QED
    BY <1>4, <2>2, <2>3, <2>4, <2>5, <2>6, <2>7, <2>8, <2>9, <2>10, <2>11
       DEF Advance
<1>5. ASSUME NEW r \in Request, Fail(r) PROVE TypeOK'
  <2>1. Failure \in SUBSET Code
    BY DEF Failure, Code
  <2> QED
    BY <1>5, <2>1, AnswerType DEF Fail, TypeOK, tables
<1>6. CASE Tick
  BY <1>6, TimeAssumption DEF TypeOK, Tick, tables, Time
<1> QED
  BY <1>1, <1>2, <1>3, <1>4, <1>5, <1>6 DEF Next

-----------------------------------------------------------------------------
(* Calls keep their shape *)

LEMMA DevicesGrow ==
  ASSUME [Next]_vars
  PROVE  devices \subseteq devices'
<1>1. ASSUME NEW r \in Request, Arrive(r) PROVE devices' = devices
  BY <1>1 DEF Arrive, UnregisterEdgeDevice, Heartbeat, RegisterCamera, Start,
              UpdateObservationPointConfig, tables
<1>2. ASSUME NEW r \in Request, Advance(r) PROVE devices \subseteq devices'
  <2>1. CASE LockPoint(r) \/ LockDevice(r) \/ LockLinkedCamera(r) \/ LockOwner(r)
    BY <2>1 DEF LockPoint, LockDevice, LockLinkedCamera, LockOwner, tables
  <2>2. CASE InsertCamera(r) \/ CommitUnregister(r) \/ SaveHeartbeat(r)
    BY <2>2 DEF InsertCamera, CommitUnregister, SaveHeartbeat
  <2>3. ASSUME NEW on \in BOOLEAN, SaveConfig(r, on)
        PROVE devices \subseteq devices'
    BY <2>3 DEF SaveConfig
  <2>4. ASSUME NEW active \in SUBSET Point, StampHeartbeat(r, active)
        PROVE devices \subseteq devices'
    BY <2>4 DEF StampHeartbeat, tables
  <2>5. CASE RefuseConfig(r) \/ RefuseHeartbeat(r)
    BY <2>5 DEF RefuseConfig, RefuseHeartbeat, tables
  <2> QED
    BY <1>2, <2>1, <2>2, <2>3, <2>4, <2>5 DEF Advance
<1>3. ASSUME NEW r \in Request, Fail(r) PROVE devices' = devices
  BY <1>3 DEF Fail, tables
<1> QED
  BY <1>1, <1>2, <1>3 DEF Next, vars, tables, RegisterPage, Tick

\* A step of request r leaves the calls of the others alone.
LEMMA OtherCalls ==
  ASSUME TypeOK, NEW r \in Request, NEW s \in Request, s # r,
         Arrive(r) \/ Advance(r) \/ Fail(r)
  PROVE  call'[s] = call[s]
<1>1. CASE Arrive(r)
  BY <1>1 DEF Arrive, UnregisterEdgeDevice, Heartbeat, RegisterCamera,
              UpdateObservationPointConfig, Start, TypeOK
<1>2. CASE Advance(r)
  <2>1. CASE LockPoint(r) \/ LockDevice(r) \/ LockLinkedCamera(r) \/ LockOwner(r)
    BY <2>1 DEF LockPoint, LockDevice, LockLinkedCamera, LockOwner, Answer, Lock,
                TypeOK
  <2>2. CASE InsertCamera(r) \/ CommitUnregister(r) \/ SaveHeartbeat(r)
    BY <2>2 DEF InsertCamera, CommitUnregister, SaveHeartbeat, Answer, TypeOK
  <2>3. ASSUME NEW on \in BOOLEAN, SaveConfig(r, on) PROVE call'[s] = call[s]
    BY <2>3 DEF SaveConfig, Answer, TypeOK
  <2>4. ASSUME NEW active \in SUBSET Point, StampHeartbeat(r, active)
        PROVE call'[s] = call[s]
    BY <2>4 DEF StampHeartbeat, TypeOK
  <2>5. CASE RefuseConfig(r) \/ RefuseHeartbeat(r)
    BY <2>5 DEF RefuseConfig, RefuseHeartbeat, Answer, TypeOK
  <2> QED
    BY <1>2, <2>1, <2>2, <2>3, <2>4, <2>5 DEF Advance
<1>3. CASE Fail(r)
  BY <1>3 DEF Fail, Answer, TypeOK
<1> QED
  BY <1>1, <1>2, <1>3

LEMMA ShapeKept ==
  ASSUME TypeOK, now # Never, \A r \in Request : CallShape(r), [Next]_vars,
         NEW s \in Request
  PROVE  CallShape(s)'
<1> USE DeviceAssumption
<1>1. CASE call'[s] = call[s]
  BY <1>1, DevicesGrow DEF CallShape
<1>2. CASE call'[s] = IdleCall
  BY <1>2 DEF CallShape, IdleCall
<1>3. ASSUME Arrive(s) PROVE CallShape(s)'
  <2>1. ASSUME NEW e \in Event, NEW d \in Device, UnregisterEdgeDevice(s, d, e)
        PROVE CallShape(s)'
    BY <2>1 DEF UnregisterEdgeDevice, Start, IdleCall, CallShape, TypeOK
  <2>2. ASSUME NEW e \in Event, NEW d \in Device, Heartbeat(s, d, e)
        PROVE CallShape(s)'
    <3>1. CASE UNCHANGED call
      BY <3>1, <1>1
    <3>2. CASE ~UNCHANGED call
      <4>1. /\ Refusal(d, e) = "ok"
            /\ d \notin Camera
            /\ call'[s] = [IdleCall EXCEPT !.step = "stamp", !.device = d,
                                           !.event = e, !.copy = Load(d)]
        BY <2>2, <3>2 DEF Heartbeat, TypeOK
      <4>2. d \in Page \cap devices
        BY <4>1 DEF Refusal, Device
      <4> QED
        BY <4>1, <4>2, <2>2 DEF CallShape, IdleCall, Heartbeat, tables
    <3> QED
      BY <3>1, <3>2
  <2>3. ASSUME NEW e \in Event, NEW q \in Point,
               UpdateObservationPointConfig(s, q, e)
        PROVE CallShape(s)'
    BY <2>3 DEF UpdateObservationPointConfig, Start, IdleCall, CallShape, Device,
                TypeOK
  <2>4. ASSUME NEW e \in Event, NEW q \in Point, NEW c \in Camera,
               RegisterCamera(s, c, q, e)
        PROVE CallShape(s)'
    BY <2>4 DEF RegisterCamera, Start, IdleCall, CallShape, Device, TypeOK
  <2> QED
    BY <1>3, <2>1, <2>2, <2>3, <2>4 DEF Arrive
<1>4. ASSUME Advance(s) PROVE CallShape(s)'
  <2> DEFINE c == call[s]
  <2>0. c \in Call /\ CallShape(s)
    BY DEF TypeOK
  <2>1. CASE LockPoint(s) /\ call'[s] # IdleCall
    <3>1. call'[s] = [c EXCEPT !.step = "insert_camera"]
      BY <2>1 DEF LockPoint, Answer, Lock, TypeOK
    <3> QED
      BY <2>0, <2>1, <3>1 DEF LockPoint, CallShape, Call
  <2>2. CASE LockDevice(s) /\ call'[s] # IdleCall
    <3>1. call'[s] = [c EXCEPT !.step = "cascade", !.copy = Load(c.device),
                               !.pending = LinkedCameras(c.device)]
      BY <2>2 DEF LockDevice, Answer, Lock, TypeOK
    <3> QED
      BY <2>0, <2>2, <3>1 DEF LockDevice, CallShape, Call
  <2>3. CASE LockLinkedCamera(s)
    <3>1. PICK k \in c.pending :
            call' = [call EXCEPT ![s] =
                       [c EXCEPT !.pending = c.pending \ {k},
                                 !.saving = IF k \in unregistered THEN @
                                                             ELSE @ \cup {k}]]
      BY <2>3 DEF LockLinkedCamera, Lock
    <3> QED
      BY <2>0, <2>3, <3>1 DEF LockLinkedCamera, CallShape, Call, TypeOK
  <2>4. CASE LockOwner(s) /\ call'[s] # IdleCall
    <3>1. call'[s] = [c EXCEPT !.step = "save_config", !.copy = Load(c.device)]
      BY <2>4 DEF LockOwner, Answer, Lock, TypeOK
    <3> QED
      BY <2>0, <2>4, <3>1 DEF LockOwner, CallShape, Call
  <2>5. ASSUME NEW active \in SUBSET Point, StampHeartbeat(s, active)
        PROVE CallShape(s)'
    BY <2>0, <2>5 DEF StampHeartbeat, CallShape, Call, TypeOK, DeviceCopy, tables
  <2>6. CASE LockPoint(s) \/ LockDevice(s) \/ LockOwner(s)
    BY <2>6, <2>1, <2>2, <2>4, <1>2
  <2>7. CASE InsertCamera(s) \/ CommitUnregister(s) \/ SaveHeartbeat(s)
    BY <2>7, <1>2 DEF InsertCamera, CommitUnregister, SaveHeartbeat, Answer,
                      TypeOK
  <2>8. ASSUME NEW on \in BOOLEAN, SaveConfig(s, on) PROVE CallShape(s)'
    BY <2>8, <1>2 DEF SaveConfig, Answer, TypeOK
  <2>9. CASE RefuseConfig(s) \/ RefuseHeartbeat(s)
    BY <2>9, <1>2 DEF RefuseConfig, RefuseHeartbeat, Answer, TypeOK
  <2> QED
    BY <1>4, <2>3, <2>5, <2>6, <2>7, <2>8, <2>9 DEF Advance
<1>5. CASE Fail(s)
  BY <1>5, <1>2 DEF Fail, Answer, TypeOK
<1>6. CASE (\E p \in Page : RegisterPage(p)) \/ Tick \/ UNCHANGED vars
  BY <1>6, <1>1 DEF RegisterPage, Tick, vars
<1>7. ASSUME NEW r \in Request, r # s, Arrive(r) \/ Advance(r) \/ Fail(r)
      PROVE CallShape(s)'
  BY <1>7, OtherCalls, <1>1
<1> QED
  BY <1>3, <1>4, <1>5, <1>6, <1>7 DEF Next

-----------------------------------------------------------------------------
(* Locks keep what a request has checked *)

\* A row held by s is neither taken nor released by the step of another.
LEMMA OtherLocks ==
  ASSUME TypeOK, NEW r \in Request, NEW s \in Request, s # r,
         Arrive(r) \/ Advance(r) \/ Fail(r),
         NEW d \in Device, rowLock[d] = s
  PROVE  rowLock'[d] = s
<1>0. s # Null
  BY NullAssumption
<1>1. ASSUME NEW k, NEW c, Free(k), Lock(r, k, c) PROVE rowLock'[d] = s
  BY <1>0, <1>1 DEF Lock, Free, TypeOK
<1>2. ASSUME NEW codes, Answer(r, codes) PROVE rowLock'[d] = s
  BY <1>2 DEF Answer, Release
<1>3. CASE Arrive(r)
  BY <1>3 DEF Arrive, UnregisterEdgeDevice, Heartbeat, RegisterCamera,
              UpdateObservationPointConfig, Start
<1>4. CASE Advance(r)
  <2>1. CASE LockPoint(r)
    BY <2>1, <1>1, <1>2 DEF LockPoint
  <2>2. CASE LockDevice(r)
    BY <2>2, <1>1, <1>2 DEF LockDevice
  <2>3. CASE LockLinkedCamera(r)
    BY <2>3, <1>1 DEF LockLinkedCamera
  <2>4. CASE LockOwner(r)
    BY <2>4, <1>1, <1>2 DEF LockOwner
  <2>5. CASE InsertCamera(r)
    BY <2>5, <1>2 DEF InsertCamera
  <2>6. CASE CommitUnregister(r)
    BY <2>6, <1>2 DEF CommitUnregister
  <2>7. CASE SaveHeartbeat(r)
    BY <2>7, <1>2 DEF SaveHeartbeat
  <2>8. ASSUME NEW on \in BOOLEAN, SaveConfig(r, on) PROVE rowLock'[d] = s
    BY <2>8, <1>2 DEF SaveConfig
  <2>9. ASSUME NEW active \in SUBSET Point, StampHeartbeat(r, active)
        PROVE rowLock'[d] = s
    BY <2>9 DEF StampHeartbeat
  <2>10. CASE RefuseConfig(r) \/ RefuseHeartbeat(r)
    BY <2>10, <1>2 DEF RefuseConfig, RefuseHeartbeat
  <2> QED
    BY <1>4, <2>1, <2>2, <2>3, <2>4, <2>5, <2>6, <2>7, <2>8, <2>9, <2>10 DEF Advance
<1>5. CASE Fail(r)
  BY <1>5, <1>2 DEF Fail
<1> QED
  BY <1>3, <1>4, <1>5

\* The rows a request holds, and the calls that hold one, are in Device.
LEMMA HeldRows ==
  ASSUME IInv, NEW s \in Request
  PROVE  /\ call[s] \in Call
         /\ call[s].step # "idle" => call[s].device \in Device
         /\ call[s].saving \subseteq Device
BY DEF IInv, TypeOK, CallShape, Call, Device

\* A step that writes no table leaves what the others hold.
LEMMA HoldsKeptByReads ==
  ASSUME IInv, NEW r \in Request, NEW s \in Request, s # r,
         Arrive(r) \/ Advance(r) \/ Fail(r), UNCHANGED tables
  PROVE  CallHolds(s)'
<1>1. call'[s] = call[s]
  BY OtherCalls DEF IInv
<1>2. \A d \in Device : rowLock[d] = s => rowLock'[d] = s
  BY OtherLocks DEF IInv
<1>3. CallHolds(s)
  BY DEF IInv
<1> QED
  BY <1>1, <1>2, <1>3, HeldRows
     DEF CallHolds, tables, Registered, LinkedCameras, PointsOf

\* Two requests that hold their devices hold different ones.
LEMMA Exclusion ==
  ASSUME IInv, NEW r \in Request, NEW s \in Request, s # r,
         call[r].step \in {"insert_camera", "cascade", "save_config"},
         call[s].step \in {"insert_camera", "cascade", "save_config"}
  PROVE  /\ call[r].device # call[s].device
         /\ call[r].step = "cascade" => call[s].device \notin call[r].saving
         /\ call[r].step = "cascade" /\ call[s].step = "cascade" =>
              call[r].saving \cap call[s].saving = {}
<1>1. CallHolds(r) /\ CallHolds(s)
  BY DEF IInv
<1> QED
  BY <1>1 DEF CallHolds

-----------------------------------------------------------------------------
(* The steps that write tables *)

Consistent == unregistered \subseteq devices /\ RegistrationsAgree

LEMMA AfterRegisterPage ==
  ASSUME IInv, NEW p \in Page, RegisterPage(p)
  PROVE  Consistent' /\ \A s \in Request : CallHolds(s)'
<1> USE DeviceAssumption
<1>1. Consistent'
  <2>1. UNCHANGED <<links, unregistered>> /\ devices \subseteq devices'
    BY DEF RegisterPage
  <2>2. \A c \in Camera : c \in devices' => c \in devices
    BY DEF RegisterPage
  <2>3. \A q \in enabled' : OwnerOf[q] \in (devices \ unregistered)'
    BY DEF RegisterPage, PointsOf, IInv, RegistrationsAgree
  <2> QED
    BY <2>1, <2>2, <2>3 DEF Consistent, IInv, RegistrationsAgree
<1>2. ASSUME NEW s \in Request PROVE CallHolds(s)'
  <2> DEFINE d == call[s].device
  <2>1. CallHolds(s)
    BY DEF IInv
  <2>2. d \in devices => enabled' \cap PointsOf(d) = enabled \cap PointsOf(d)
    BY DEF RegisterPage, PointsOf
  <2> QED
    BY <2>1, <2>2 DEF RegisterPage, CallHolds, Registered, LinkedCameras, PointsOf
<1> QED
  BY <1>1, <1>2

LEMMA AfterInsertCamera ==
  ASSUME IInv, NEW r \in Request, InsertCamera(r)
  PROVE  Consistent' /\ \A s \in Request : CallHolds(s)'
<1> DEFINE c == call[r].camera
           q == call[r].point
<1>1. /\ c \in Camera /\ c \notin devices /\ q \in Point
      /\ EventOf[c] = EventOf[OwnerOf[q]]
      /\ OwnerOf[q] \in Registered
      /\ call[r].device = OwnerOf[q]
      /\ \A l \in links : l[2] # q
  BY NullAssumption DEF IInv, InsertCamera, CallShape, CallHolds, CallCamera, Device
<1>2. /\ devices' = devices \cup {c}
      /\ links' = links \cup {<<c, q>>}
      /\ UNCHANGED <<unregistered, enabled, lastHeartbeat>>
  BY DEF InsertCamera
<1>3. Consistent'
  <2>1. \A l \in links : l[1] # c
    BY <1>1 DEF IInv, RegistrationsAgree
  <2>2. (\A l \in links :
           /\ {l[1], OwnerOf[l[2]]} \subseteq devices \ unregistered
           /\ EventOf[l[1]] = EventOf[OwnerOf[l[2]]]
           /\ \A k \in links : k # l => k[1] # l[1] /\ k[2] # l[2])'
    BY <1>1, <1>2, <2>1 DEF IInv, RegistrationsAgree, Registered
  <2>3. (\A k \in Camera :
           k \in devices \ unregistered => \E l \in links : l[1] = k)'
    <3>1. <<c, q>> \in links' /\ <<c, q>>[1] = c
      BY <1>2
    <3>2. \A k \in Camera :
            k \in devices \ unregistered => \E l \in links' : l[1] = k
      BY <1>2 DEF IInv, RegistrationsAgree
    <3> QED
      BY <1>2, <3>1, <3>2
  <2> QED
    BY <1>1, <1>2, <2>2, <2>3 DEF Consistent, IInv, RegistrationsAgree
<1>4. call'[r] = IdleCall
  BY DEF InsertCamera, Answer, IInv, TypeOK
<1>5. ASSUME NEW s \in Request, s # r PROVE CallHolds(s)'
  <2> DEFINE d == call[s].device
  <2>1. CallHolds(s) /\ call'[s] = call[s]
    BY <1>5, OtherCalls DEF IInv, Advance
  <2>2. \A k \in Device : rowLock[k] = s => rowLock'[k] = s
    BY <1>5, OtherLocks DEF IInv, Advance
  <2>3. call[s].step \in {"insert_camera", "cascade", "save_config"} =>
          d # OwnerOf[q]
    BY <1>1, <1>5, Exclusion DEF InsertCamera
  <2>4. d # OwnerOf[q] => LinkedCameras(d)' = LinkedCameras(d)
    BY <1>2, <2>1 DEF LinkedCameras, PointsOf
  <2>5. call[s].step = "insert_camera" => \A l \in links' : l[2] # call[s].point
    <3>1. CallShape(s)
      BY DEF IInv
    <3> QED
      BY <1>2, <2>1, <2>3, <3>1 DEF CallHolds, CallShape
  <2> QED
    BY <1>2, <2>1, <2>2, <2>3, <2>4, <2>5, HeldRows
       DEF CallHolds, Registered, PointsOf
<1> QED
  BY <1>3, <1>4, <1>5 DEF CallHolds, IdleCall

LEMMA AfterCommitUnregister ==
  ASSUME IInv, NEW r \in Request, CommitUnregister(r)
  PROVE  Consistent' /\ \A s \in Request : CallHolds(s)'
<1> DEFINE d == call[r].device
           leaving == call[r].saving \cup {d}
<1> USE DeviceAssumption
<1>1. /\ d \in Registered
      /\ call[r].saving = LinkedCameras(d)
      /\ call[r].copy.heartbeat = lastHeartbeat[d]
  <2>1. CallHolds(r)
    BY DEF IInv
  <2>2. call[r].step = "cascade" /\ call[r].pending = {}
    BY DEF CommitUnregister
  <2> QED
    BY <2>1, <2>2 DEF CallHolds
<1>2. /\ unregistered' = unregistered \cup leaving
      /\ links' = {l \in links : l[1] \notin leaving}
      /\ enabled' = enabled \ PointsOf(d)
      /\ devices' = devices
  BY <1>1, HeldRows DEF CommitUnregister, SavePage, Call, DeviceCopy
<1>3. lastHeartbeat' = lastHeartbeat
  BY <1>1, HeldRows DEF CommitUnregister, SavePage, Call, DeviceCopy, IInv, TypeOK
<1>4. Consistent'
  <2>1. ASSUME NEW l \in links, l \in links'
        PROVE OwnerOf[l[2]] \notin leaving
    <3>1. l \in Camera \X Point /\ l[1] \in Registered
      BY DEF IInv, TypeOK, RegistrationsAgree, Registered
    <3>2. OwnerOf[l[2]] = d => l[1] \in LinkedCameras(d)
      <4>1. l = <<l[1], l[2]>> /\ l[1] \in Camera /\ l[2] \in Point
        BY <3>1
      <4> QED
        BY <2>1, <3>1, <4>1 DEF LinkedCameras, PointsOf, Registered
    <3>3. OwnerOf[l[2]] \in Page
      BY <3>1
    <3> QED
      BY <1>1, <1>2, <2>1, <3>2, <3>3 DEF LinkedCameras
  <2>2. leaving \subseteq devices
    BY <1>1 DEF LinkedCameras, Registered, IInv, RegistrationsAgree
  <2>3. (\A l \in links :
           /\ {l[1], OwnerOf[l[2]]} \subseteq devices \ unregistered
           /\ EventOf[l[1]] = EventOf[OwnerOf[l[2]]]
           /\ \A k \in links : k # l => k[1] # l[1] /\ k[2] # l[2])'
    BY <1>2, <2>1 DEF IInv, RegistrationsAgree
  <2>4. (\A k \in Camera :
           k \in devices \ unregistered => \E l \in links : l[1] = k)'
    BY <1>2 DEF IInv, RegistrationsAgree
  <2>5. (\A q \in enabled : OwnerOf[q] \in devices \ unregistered)'
    <3>1. ASSUME NEW q \in enabled' PROVE OwnerOf[q] \notin leaving
      BY <1>1, <1>2, <3>1 DEF IInv, TypeOK, PointsOf, LinkedCameras
    <3> QED
      BY <1>2, <3>1 DEF IInv, RegistrationsAgree
  <2> QED
    BY <1>2, <2>2, <2>3, <2>4, <2>5 DEF Consistent, IInv, RegistrationsAgree
<1>5. call'[r] = IdleCall
  BY DEF CommitUnregister, Answer, IInv, TypeOK
<1>6. ASSUME NEW s \in Request, s # r PROVE CallHolds(s)'
  <2> DEFINE e == call[s].device
             busy == call[s].step \in {"insert_camera", "cascade", "save_config"}
  <2>1. CallHolds(s) /\ call'[s] = call[s]
    BY <1>6, OtherCalls DEF IInv, Advance
  <2>2. \A k \in Device : rowLock[k] = s => rowLock'[k] = s
    BY <1>6, OtherLocks DEF IInv, Advance
  <2>3. busy => e \notin leaving
    BY <1>6, Exclusion DEF CommitUnregister
  <2>4. busy => enabled' \cap PointsOf(e) = enabled \cap PointsOf(e)
    BY <1>2, <2>3 DEF PointsOf
  <2>5. LinkedCameras(e)' = LinkedCameras(e) \ leaving
    <3>1. \A k \in Camera, q \in Point :
            <<k, q>> \in links' <=> <<k, q>> \in links /\ k \notin leaving
      BY <1>2
    <3>2. LinkedCameras(e)' =
            {k \in Camera \ unregistered' :
               \E q \in PointsOf(e) : <<k, q>> \in links'}
      BY <2>1 DEF LinkedCameras, PointsOf
    <3>3. LinkedCameras(e) =
            {k \in Camera \ unregistered :
               \E q \in PointsOf(e) : <<k, q>> \in links}
      BY DEF LinkedCameras
    <3>4. PointsOf(e) \subseteq Point
      BY DEF PointsOf
    <3> HIDE DEF e, leaving
    <3> QED
      BY <1>2, <3>1, <3>2, <3>3, <3>4
  <2>6. call[s].step = "cascade" => call[s].saving \cap leaving = {}
    <3>1. CallHolds(r)
      BY DEF IInv
    <3> QED
      BY <1>6, <2>1, <3>1 DEF CommitUnregister, CallHolds
  <2> QED
    BY <1>2, <1>3, <2>1, <2>2, <2>3, <2>4, <2>5, <2>6, HeldRows
       DEF CallHolds, Registered
<1> QED
  BY <1>4, <1>5, <1>6 DEF CallHolds, IdleCall

LEMMA AfterSaveConfig ==
  ASSUME IInv, NEW r \in Request, NEW on \in BOOLEAN, SaveConfig(r, on)
  PROVE  Consistent' /\ \A s \in Request : CallHolds(s)'
<1> DEFINE d == call[r].device
           q == call[r].point
<1> USE DeviceAssumption
<1>1. /\ d \in Registered /\ q \in Point /\ d = OwnerOf[q]
      /\ call[r].copy.heartbeat = lastHeartbeat[d]
      /\ call[r].copy.enabled = enabled \cap PointsOf(d)
  BY DEF IInv, SaveConfig, CallHolds, CallShape
<1>2. /\ unregistered' = unregistered
      /\ enabled' = IF on THEN enabled \cup {q} ELSE enabled \ {q}
      /\ UNCHANGED <<devices, links>>
  BY <1>1, HeldRows
     DEF SaveConfig, SavePage, Call, DeviceCopy, Registered, PointsOf
<1>3. lastHeartbeat' = lastHeartbeat
  BY <1>1, HeldRows DEF SaveConfig, SavePage, Call, DeviceCopy, IInv, TypeOK
<1>4. Consistent'
  BY <1>1, <1>2 DEF Consistent, IInv, RegistrationsAgree, Registered
<1>5. call'[r] = IdleCall
  BY DEF SaveConfig, Answer, IInv, TypeOK
<1>6. ASSUME NEW s \in Request, s # r PROVE CallHolds(s)'
  <2> DEFINE e == call[s].device
             busy == call[s].step \in {"insert_camera", "cascade", "save_config"}
  <2>1. CallHolds(s) /\ call'[s] = call[s]
    BY <1>6, OtherCalls DEF IInv, Advance
  <2>2. \A k \in Device : rowLock[k] = s => rowLock'[k] = s
    BY <1>6, OtherLocks DEF IInv, Advance
  <2>3. busy => e # d
    BY <1>6, Exclusion DEF SaveConfig
  <2>4. busy => enabled' \cap PointsOf(e) = enabled \cap PointsOf(e)
    BY <1>1, <1>2, <2>3 DEF PointsOf
  <2>5. LinkedCameras(e)' = LinkedCameras(e)
    BY <1>2, <2>1 DEF LinkedCameras, PointsOf
  <2> QED
    BY <1>2, <1>3, <2>1, <2>2, <2>3, <2>4, <2>5, HeldRows
       DEF CallHolds, Registered, PointsOf
<1> QED
  BY <1>4, <1>5, <1>6 DEF CallHolds, IdleCall

LEMMA AfterSaveHeartbeat ==
  ASSUME IInv, NEW r \in Request, SaveHeartbeat(r)
  PROVE  Consistent' /\ \A s \in Request : CallHolds(s)'
<1> DEFINE d == call[r].device
<1>1. Free(d) /\ UNCHANGED <<devices, unregistered, enabled, links>>
  BY DEF SaveHeartbeat
<1>2. \A k \in Device : k # d => lastHeartbeat'[k] = lastHeartbeat[k]
  BY DEF SaveHeartbeat, IInv, TypeOK
<1>3. Consistent'
  BY <1>1 DEF Consistent, IInv, RegistrationsAgree
<1>4. call'[r] = IdleCall
  BY DEF SaveHeartbeat, Answer, IInv, TypeOK
<1>5. ASSUME NEW s \in Request, s # r PROVE CallHolds(s)'
  <2> DEFINE e == call[s].device
  <2>1. CallHolds(s) /\ call'[s] = call[s]
    BY <1>5, OtherCalls DEF IInv, Advance
  <2>2. \A k \in Device : rowLock[k] = s => rowLock'[k] = s
    BY <1>5, OtherLocks DEF IInv, Advance
  <2>3. call[s].step \in {"insert_camera", "cascade", "save_config"} =>
          e \in Device /\ e # d
    BY <1>1, <2>1, NullAssumption, HeldRows DEF CallHolds, Free
  <2>4. LinkedCameras(e)' = LinkedCameras(e)
    BY <1>1, <2>1 DEF LinkedCameras, PointsOf
  <2> QED
    BY <1>1, <1>2, <2>1, <2>2, <2>3, <2>4, HeldRows
       DEF CallHolds, Registered, PointsOf
<1> QED
  BY <1>3, <1>4, <1>5 DEF CallHolds, IdleCall

-----------------------------------------------------------------------------
(* The invariant is inductive *)

\* What a request holds after a step of its own that writes no table.
LEMMA HoldsTaken ==
  ASSUME IInv, NEW r \in Request, UNCHANGED tables,
         Arrive(r) \/ Advance(r) \/ Fail(r)
  PROVE  CallHolds(r)'
<1> DEFINE c == call[r]
           d == call[r].device
<1>0. c \in Call /\ CallHolds(r) /\ CallShape(r)
  BY DEF IInv, TypeOK
<1>1. CASE call'[r] = c /\ UNCHANGED rowLock
  BY <1>0, <1>1 DEF CallHolds, tables, Registered, LinkedCameras, PointsOf
<1>2. CASE call'[r].step \notin {"insert_camera", "cascade", "save_config"}
  BY <1>2 DEF CallHolds
<1>3. CASE Arrive(r)
  <2>1. call'[r] = c \/ call'[r].step \notin
                          {"insert_camera", "cascade", "save_config"}
    <3>1. ASSUME NEW e \in Event, NEW k \in Device, Heartbeat(r, k, e)
          PROVE \/ call'[r] = c
                \/ call'[r].step \notin {"insert_camera", "cascade", "save_config"}
      BY <3>1 DEF Heartbeat, IdleCall, IInv, TypeOK
    <3>2. ASSUME NEW e \in Event, NEW k \in Device, UnregisterEdgeDevice(r, k, e)
          PROVE call'[r].step = "lock_device"
      BY <3>2 DEF UnregisterEdgeDevice, Start, IdleCall, IInv, TypeOK
    <3>3. ASSUME NEW e \in Event, NEW q \in Point,
                 UpdateObservationPointConfig(r, q, e)
          PROVE call'[r].step = "lock_owner"
      BY <3>3 DEF UpdateObservationPointConfig, Start, IdleCall, IInv, TypeOK
    <3>4. ASSUME NEW e \in Event, NEW q \in Point, NEW k \in Camera,
                 RegisterCamera(r, k, q, e)
          PROVE call'[r].step = "lock_point"
      BY <3>4 DEF RegisterCamera, Start, IdleCall, IInv, TypeOK
    <3> QED
      BY <1>3, <3>1, <3>2, <3>3, <3>4 DEF Arrive
  <2>2. UNCHANGED rowLock
    BY <1>3 DEF Arrive, UnregisterEdgeDevice, Heartbeat, RegisterCamera,
                UpdateObservationPointConfig, Start
  <2> QED
    BY <1>1, <1>2, <2>1, <2>2
<1>4. CASE Advance(r)
  <2> SUFFICES ASSUME call'[r] # IdleCall PROVE CallHolds(r)'
    BY <1>2 DEF IdleCall
  <2>1. CASE LockPoint(r)
    <3>1. /\ Refusal(d, c.event) = "ok"
          /\ ~\E k \in LinkedCameras(d) : <<k, c.point>> \in links
          /\ Lock(r, d, [c EXCEPT !.step = "insert_camera"])
          /\ c.step = "lock_point"
      BY <2>1 DEF LockPoint, Answer, IInv, TypeOK
    <3>2. /\ d \in Registered /\ EventOf[d] = c.event
          /\ d = OwnerOf[c.point] /\ c.point \in Point
      BY <1>0, <3>1 DEF Refusal, Registered, CallShape
    <3>3. \A l \in links : l[2] # c.point
      <4>1. SUFFICES ASSUME NEW l \in links, l[2] = c.point PROVE FALSE
        OBVIOUS
      <4>2. l = <<l[1], c.point>> /\ l[1] \in Camera \ unregistered
        BY <4>1 DEF IInv, TypeOK, RegistrationsAgree
      <4>3. l[1] \in LinkedCameras(d)
        BY <3>2, <4>1, <4>2 DEF LinkedCameras, PointsOf
      <4> QED
        BY <3>1, <4>1, <4>2, <4>3
    <3>4. /\ call'[r] = [c EXCEPT !.step = "insert_camera"]
          /\ rowLock'[d] = r
      BY <1>0, <3>1, <3>2 DEF Lock, IInv, TypeOK, CallShape
    <3> QED
      BY <1>0, <3>2, <3>3, <3>4 DEF CallHolds, tables, Registered, Call
  <2>2. CASE LockDevice(r)
    <3> DEFINE locked == [c EXCEPT !.step = "cascade", !.copy = Load(d),
                                   !.pending = LinkedCameras(d)]
    <3>1. Refusal(d, c.event) = "ok" /\ Lock(r, d, locked)
                                     /\ c.step = "lock_device"
      BY <2>2 DEF LockDevice, Answer, IInv, TypeOK
    <3>2. d \in Registered /\ c.saving = {}
      BY <1>0, <3>1 DEF Refusal, Registered, CallShape
    <3>3. call'[r] = locked /\ rowLock'[d] = r
      BY <1>0, <3>1 DEF Lock, IInv, TypeOK, CallShape
    <3>4. /\ locked.step = "cascade" /\ locked.device = d /\ locked.saving = {}
          /\ locked.pending = LinkedCameras(d)
          /\ locked.copy.heartbeat = lastHeartbeat[d]
          /\ locked.copy.enabled = enabled \cap PointsOf(d)
      BY <1>0, <3>2 DEF Call, Load
    <3>5. LinkedCameras(d)' = LinkedCameras(d) /\ d' = d
      BY <3>3, <3>4 DEF LinkedCameras, PointsOf, tables
    <3> HIDE DEF locked
    <3> QED
      BY <3>2, <3>3, <3>4, <3>5 DEF CallHolds, tables, Registered, PointsOf
  <2>3. CASE LockOwner(r)
    <3> DEFINE locked == [c EXCEPT !.step = "save_config", !.copy = Load(d)]
    <3>1. Refusal(d, c.event) = "ok" /\ Lock(r, d, locked)
                                     /\ c.step = "lock_owner"
      BY <2>3 DEF LockOwner, Answer, IInv, TypeOK
    <3>2. d \in Registered
      BY <3>1 DEF Refusal, Registered
    <3>3. call'[r] = locked /\ rowLock'[d] = r
      BY <1>0, <3>1 DEF Lock, IInv, TypeOK, CallShape
    <3> QED
      BY <1>0, <3>2, <3>3 DEF CallHolds, tables, Registered, Call, Load, PointsOf
  <2>4. CASE LockLinkedCamera(r)
    <3>1. PICK k \in c.pending :
            /\ Free(k)
            /\ Lock(r, k, [c EXCEPT !.pending = c.pending \ {k},
                                    !.saving = IF k \in unregistered THEN @
                                                             ELSE @ \cup {k}])
      BY <2>4 DEF LockLinkedCamera
    <3> DEFINE locked == [c EXCEPT !.pending = c.pending \ {k},
                                   !.saving = IF k \in unregistered THEN @
                                                             ELSE @ \cup {k}]
    <3>2. c.step = "cascade" /\ k \in Device
      BY <1>0, <2>4, <3>1 DEF LockLinkedCamera, Call, Device
    <3>3. /\ locked.step = "cascade" /\ locked.device = d
          /\ locked.pending = c.pending \ {k}
          /\ locked.saving = IF k \in unregistered THEN c.saving
                                                   ELSE c.saving \cup {k}
          /\ locked.copy = c.copy
      BY <1>0, <3>2 DEF Call
    <3>4. call'[r] = locked /\ rowLock' = [rowLock EXCEPT ![k] = r]
      BY <3>1 DEF Lock, IInv, TypeOK
    <3>5. \A e \in Device : rowLock[e] = r \/ e = k => rowLock'[e] = r
      BY <3>2, <3>4 DEF IInv, TypeOK
    <3>6. LinkedCameras(d)' = LinkedCameras(d) /\ d' = d
      BY <3>3, <3>4 DEF LinkedCameras, PointsOf, tables
    <3>7. LinkedCameras(d) \cap unregistered = {}
      BY DEF LinkedCameras
    <3>8. c.saving \subseteq Device /\ d \in Device
      BY <3>2, HeldRows
    <3> HIDE DEF locked
    <3> QED
      BY <1>0, <3>2, <3>3, <3>4, <3>5, <3>6, <3>7, <3>8
         DEF CallHolds, tables, Registered, PointsOf
  <2>5. ASSUME NEW active \in SUBSET Point, StampHeartbeat(r, active)
        PROVE CallHolds(r)'
    <3>1. call'[r].step = "save_heartbeat"
      BY <2>5, <1>0 DEF StampHeartbeat, IInv, TypeOK, Call
    <3> QED
      BY <3>1, <1>2
  <2>6. CASE InsertCamera(r) \/ CommitUnregister(r) \/ SaveHeartbeat(r)
    BY <2>6 DEF InsertCamera, CommitUnregister, SaveHeartbeat, Answer, IInv,
                TypeOK
  <2>7. ASSUME NEW on \in BOOLEAN, SaveConfig(r, on) PROVE CallHolds(r)'
    BY <2>7 DEF SaveConfig, Answer, IInv, TypeOK
  <2>8. CASE RefuseConfig(r) \/ RefuseHeartbeat(r)
    BY <2>8 DEF RefuseConfig, RefuseHeartbeat, Answer, IInv, TypeOK
  <2> QED
    BY <1>4, <2>1, <2>2, <2>3, <2>4, <2>5, <2>6, <2>7, <2>8 DEF Advance
<1>5. CASE Fail(r)
  BY <1>2, <1>5 DEF Fail, Answer, IInv, TypeOK, IdleCall
<1> QED
  BY <1>3, <1>4, <1>5

LEMMA CamerasKept ==
  ASSUME IInv, [Next]_vars, NEW r \in Request
  PROVE  CallCamera(r)'
<1>1. ASSUME NEW s \in Request PROVE CallCamera(s)
  BY DEF IInv
\* Unless s is the registration that arrives, the camera of s is the same or
\* none after the step.
<1>2. ASSUME NEW s \in Request, NEW c \in Camera, NEW q \in Point, NEW e \in Event,
             RegisterCamera(s, c, q, e)
      PROVE CallCamera(r)'
  <2>1. /\ c \notin devices /\ devices' = devices
        /\ \A t \in Request : call[t].camera # c
        /\ call'[s].camera = c
        /\ \A t \in Request : t # s => call'[t] = call[t]
    BY <1>2 DEF RegisterCamera, Start, tables, IInv, TypeOK, IdleCall
  <2> QED
    BY <1>1, <2>1 DEF CallCamera
<1>3. ASSUME \A t \in Request : call'[t].camera \in {call[t].camera, Null},
             devices' = devices
      PROVE CallCamera(r)'
  BY <1>1, <1>3 DEF CallCamera
<1>4. ASSUME NEW s \in Request, Arrive(s) PROVE CallCamera(r)'
  <2>1. CASE \E e \in Event, q \in Point, c \in Camera : RegisterCamera(s, c, q, e)
    BY <1>2, <2>1
  <2>2. ASSUME NEW e \in Event, NEW d \in Device, UnregisterEdgeDevice(s, d, e)
        PROVE CallCamera(r)'
    BY <1>3, <2>2 DEF UnregisterEdgeDevice, Start, IdleCall, IInv, TypeOK, tables
  <2>3. ASSUME NEW e \in Event, NEW d \in Device, Heartbeat(s, d, e)
        PROVE CallCamera(r)'
    BY <1>3, <2>3 DEF Heartbeat, IdleCall, IInv, TypeOK, tables
  <2>4. ASSUME NEW e \in Event, NEW q \in Point,
               UpdateObservationPointConfig(s, q, e)
        PROVE CallCamera(r)'
    BY <1>3, <2>4 DEF UpdateObservationPointConfig, Start, IdleCall, IInv, TypeOK,
                      tables
  <2> QED
    BY <1>4, <2>1, <2>2, <2>3, <2>4 DEF Arrive
<1>5. ASSUME NEW s \in Request, InsertCamera(s) PROVE CallCamera(r)'
  <2>1. /\ devices' = devices \cup {call[s].camera}
        /\ call'[s] = IdleCall
        /\ \A t \in Request : t # s => call'[t] = call[t]
        /\ call[s].camera # Null
    BY <1>5, NullAssumption
       DEF InsertCamera, Answer, IInv, TypeOK, CallShape, Device
  <2>2. ASSUME NEW t \in Request, t # s, call[t].camera # Null
        PROVE  call[t].camera \notin devices'
    BY <1>1, <2>1, <2>2 DEF CallCamera
  <2> QED
    BY <1>1, <2>1, <2>2 DEF CallCamera, IdleCall
<1>6. ASSUME NEW s \in Request, Advance(s) PROVE CallCamera(r)'
  <2>1. \A t \in Request : t # s => call'[t] = call[t]
    BY <1>6, OtherCalls DEF IInv
  <2>2. call[s] \in Call
    BY DEF IInv, TypeOK
  <2>3. CASE LockPoint(s) \/ LockDevice(s) \/ LockLinkedCamera(s) \/ LockOwner(s)
    <3>1. call'[s].camera \in {call[s].camera, Null}
      <4> SUFFICES ASSUME call'[s] # IdleCall
                   PROVE  call'[s].camera = call[s].camera
        BY DEF IdleCall
      <4>1. CASE LockPoint(s)
        BY <2>2, <4>1 DEF LockPoint, Answer, Lock, IInv, TypeOK, Call
      <4>2. CASE LockDevice(s)
        <5>1. call'[s] = [call[s] EXCEPT !.step = "cascade",
                            !.copy = Load(call[s].device),
                            !.pending = LinkedCameras(call[s].device)]
          BY <4>2 DEF LockDevice, Answer, Lock, IInv, TypeOK
        <5> QED
          BY <2>2, <5>1 DEF Call
      <4>3. CASE LockLinkedCamera(s)
        <5>1. PICK k \in call[s].pending :
                call' = [call EXCEPT ![s] =
                           [call[s] EXCEPT
                              !.pending = call[s].pending \ {k},
                              !.saving = IF k \in unregistered
                                         THEN @ ELSE @ \cup {k}]]
          BY <4>3 DEF LockLinkedCamera, Lock
        <5> QED
          BY <2>2, <5>1 DEF Call, IInv, TypeOK
      <4>4. CASE LockOwner(s)
        <5>1. call'[s] = [call[s] EXCEPT !.step = "save_config",
                                         !.copy = Load(call[s].device)]
          BY <4>4 DEF LockOwner, Answer, Lock, IInv, TypeOK
        <5> QED
          BY <2>2, <5>1 DEF Call
      <4> QED
        BY <2>3, <4>1, <4>2, <4>3, <4>4
    <3> QED
      BY <1>3, <2>1, <2>3, <3>1
         DEF LockPoint, LockDevice, LockLinkedCamera, LockOwner, tables
  <2>4. CASE CommitUnregister(s) \/ SaveHeartbeat(s)
    BY <1>3, <2>1, <2>4 DEF CommitUnregister, SaveHeartbeat, Answer, IInv, TypeOK,
                            IdleCall
  <2>5. ASSUME NEW on \in BOOLEAN, SaveConfig(s, on) PROVE CallCamera(r)'
    BY <1>3, <2>1, <2>5 DEF SaveConfig, Answer, IInv, TypeOK, IdleCall
  <2>6. ASSUME NEW active \in SUBSET Point, StampHeartbeat(s, active)
        PROVE CallCamera(r)'
    BY <1>3, <2>1, <2>2, <2>6 DEF StampHeartbeat, IInv, TypeOK, Call, tables
  <2>7. CASE RefuseConfig(s) \/ RefuseHeartbeat(s)
    BY <1>3, <2>1, <2>7
       DEF RefuseConfig, RefuseHeartbeat, Answer, IInv, TypeOK, IdleCall, tables
  <2> QED
    BY <1>5, <1>6, <2>3, <2>4, <2>5, <2>6, <2>7 DEF Advance
<1>7. ASSUME NEW s \in Request, Fail(s) PROVE CallCamera(r)'
  BY <1>3, <1>7 DEF Fail, Answer, IInv, TypeOK, IdleCall, tables
<1>8. CASE (\E p \in Page : RegisterPage(p)) \/ Tick \/ UNCHANGED vars
  <2>1. devices' \cap Camera = devices \cap Camera /\ call' = call
    BY <1>8, DeviceAssumption DEF RegisterPage, Tick, vars, tables
  <2>2. \A t \in Request : call[t].camera \in Camera \cup {Null}
    BY DEF IInv, TypeOK, Call
  <2> QED
    BY <1>1, <2>1, <2>2 DEF CallCamera
<1> QED
  BY <1>4, <1>6, <1>7, <1>8 DEF Next

LEMMA TablesWritten ==
  ASSUME IInv, [Next]_vars
  PROVE  /\ Consistent'
         /\ \A s \in Request : CallHolds(s)'
<1>1. ASSUME NEW r \in Request, Arrive(r) \/ Advance(r) \/ Fail(r),
             UNCHANGED tables
      PROVE Consistent' /\ \A s \in Request : CallHolds(s)'
  <2>1. ASSUME NEW s \in Request PROVE CallHolds(s)'
    BY <1>1, HoldsTaken, HoldsKeptByReads
  <2> QED
    BY <1>1, <2>1 DEF Consistent, RegistrationsAgree, IInv, tables
<1>2. ASSUME NEW r \in Request, Arrive(r) PROVE UNCHANGED tables
  BY <1>2 DEF Arrive, UnregisterEdgeDevice, Heartbeat, RegisterCamera, Start,
              UpdateObservationPointConfig
<1>3. ASSUME NEW r \in Request, Advance(r)
      PROVE Consistent' /\ \A s \in Request : CallHolds(s)'
  <2>1. CASE LockPoint(r) \/ LockDevice(r) \/ LockLinkedCamera(r) \/ LockOwner(r)
    BY <1>1, <1>3, <2>1 DEF LockPoint, LockDevice, LockLinkedCamera, LockOwner
  <2>2. ASSUME NEW active \in SUBSET Point, StampHeartbeat(r, active)
        PROVE Consistent' /\ \A s \in Request : CallHolds(s)'
    BY <1>1, <1>3, <2>2 DEF StampHeartbeat
  <2>3. CASE RefuseConfig(r) \/ RefuseHeartbeat(r)
    BY <1>1, <1>3, <2>3 DEF RefuseConfig, RefuseHeartbeat
  <2> QED
    BY <1>3, <2>1, <2>2, <2>3, AfterInsertCamera, AfterCommitUnregister,
       AfterSaveConfig, AfterSaveHeartbeat DEF Advance
<1>4. CASE Tick \/ UNCHANGED vars
  <2>1. UNCHANGED <<tables, rowLock, call>>
    BY <1>4 DEF Tick, vars
  <2>2. Consistent'
    BY <2>1 DEF tables, IInv, Consistent, RegistrationsAgree
  <2>3. ASSUME NEW s \in Request PROVE CallHolds(s)'
    <3>1. CallHolds(s)
      BY DEF IInv
    <3> QED
      BY <2>1, <3>1 DEF tables, CallHolds, Registered, LinkedCameras, PointsOf
  <2> QED
    BY <2>2, <2>3
<1> QED
  BY <1>1, <1>2, <1>3, <1>4, AfterRegisterPage DEF Next, Fail

LEMMA InvKept == IInv /\ [Next]_vars => IInv'
<1> SUFFICES ASSUME IInv, [Next]_vars PROVE IInv'
  OBVIOUS
<1>1. TypeOK'
  BY TypesKept DEF IInv
<1>2. (now # Never)'
  <2>1. now' = now \/ now' = now + 1
    <3>1. ASSUME NEW r \in Request, Arrive(r) \/ Fail(r) PROVE now' = now
      BY <3>1 DEF Arrive, Fail, Start, UnregisterEdgeDevice, Heartbeat,
                  UpdateObservationPointConfig, RegisterCamera
    <3>2. ASSUME NEW r \in Request, Advance(r) PROVE now' = now
      BY <3>2 DEF Advance, LockPoint, InsertCamera, LockDevice, SaveHeartbeat,
           LockLinkedCamera, CommitUnregister, LockOwner, SaveConfig,
           StampHeartbeat, RefuseConfig, RefuseHeartbeat
    <3> QED
      BY <3>1, <3>2 DEF Next, vars, RegisterPage, Tick
  <2> QED
    BY <2>1, TimeAssumption DEF IInv, TypeOK, Time, Never
<1>3. \A r \in Request : CallShape(r)'
  BY ShapeKept DEF IInv
<1>4. \A r \in Request : CallCamera(r)'
  BY CamerasKept
<1> QED
  BY <1>1, <1>2, <1>3, <1>4, TablesWritten DEF IInv, Consistent

LEMMA InvInit == Init => IInv
BY ConstantTypes, TimeAssumption
   DEF Init, IInv, TypeOK, RegistrationsAgree, CallShape, CallHolds, CallCamera,
       IdleCall, Never, Time

\* The rows, the locks and the calls keep their types: no step takes a
\* timestamp from a copy that was never loaded, or a lock for a row that is
\* not a device (every handler).
THEOREM EdgeDevicesTypes == Spec => []TypeOK
<1>1. IInv => TypeOK
  BY DEF IInv
<1> QED
  BY <1>1, InvInit, InvKept, PTL DEF Spec

\* Whatever registrations, cascades and settings overlap, the camera links
\* and the switches of the points agree with the registrations.
THEOREM EdgeDevicesAgree == Spec => []RegistrationsAgree
<1>1. IInv => RegistrationsAgree
  BY DEF IInv
<1> QED
  BY <1>1, InvInit, InvKept, PTL DEF Spec

-----------------------------------------------------------------------------
(* The transactions implement the registry *)

\* A step that leaves the registry alone, the timestamps of points aside.
LEMMA ReadsStutter ==
  ASSUME UNCHANGED tables
  PROVE  UNCHANGED Registry!registry
BY DEF tables, Registry!registry

LEMMA RegisterPageMaps ==
  ASSUME NEW p \in Page, RegisterPage(p)
  PROVE  Registry!RegisterPage(p)
BY DEF RegisterPage, Registry!RegisterPage, PointsOf, Registry!PointsOf

LEMMA InsertCameraMaps ==
  ASSUME IInv, NEW r \in Request, InsertCamera(r)
  PROVE  \E c \in Camera, q \in Point : Registry!RegisterCamera(c, q)
<1>1. /\ call[r].camera \in Camera \ devices
      /\ call[r].point \in Point
      /\ OwnerOf[call[r].point] \in Registered
      /\ \A l \in links : l[2] # call[r].point
  BY NullAssumption DEF IInv, InsertCamera, CallShape, CallHolds, CallCamera, Device
<1>2. \A other \in Camera : <<other, call[r].point>> \notin links
  BY <1>1
<1>3. Registry!RegisterCamera(call[r].camera, call[r].point)
  BY <1>1, <1>2 DEF InsertCamera, Registry!RegisterCamera, Registry!InService,
                    Registered
<1> QED
  BY <1>1, <1>3

\* The cascade takes the links as they are at the commit.
LEMMA CommitUnregisterMaps ==
  ASSUME IInv, NEW r \in Request, CommitUnregister(r)
  PROVE  \E d \in Device : Registry!Unregister(d)
<1> DEFINE d == call[r].device
<1>1. /\ d \in Registered /\ d \in Device
      /\ call[r].saving = LinkedCameras(d)
      /\ call[r].copy.heartbeat = lastHeartbeat[d]
  <2>1. CallHolds(r) /\ CallShape(r)
    BY DEF IInv
  <2>2. call[r].step = "cascade" /\ call[r].pending = {}
    BY DEF CommitUnregister
  <2> QED
    BY <2>1, <2>2 DEF CallHolds, CallShape
<1>2. LinkedCameras(d) = Registry!LinkedTo(d)
  <2>1. \A c, q : <<c, q>> \in links => c \notin unregistered
    BY DEF IInv, RegistrationsAgree
  <2> QED
    BY <2>1 DEF LinkedCameras, Registry!LinkedTo, PointsOf, Registry!PointsOf
<1>3. call[r] \in Call
  BY DEF IInv, TypeOK
<1>4. lastHeartbeat' = lastHeartbeat
  BY <1>1, <1>3 DEF CommitUnregister, SavePage, Call, DeviceCopy, IInv, TypeOK
<1>5. enabled' = enabled \ PointsOf(d)
  BY <1>3 DEF CommitUnregister, SavePage, Call, DeviceCopy
<1>6. Registry!Unregister(d)
  BY <1>1, <1>2, <1>4, <1>5
     DEF CommitUnregister, Registry!Unregister, Registry!InService, Registered,
         PointsOf, Registry!PointsOf
<1> QED
  BY <1>1, <1>6

\* Save of a locked page changes one switch and nothing else.
LEMMA SaveConfigMaps ==
  ASSUME IInv, NEW r \in Request, NEW on \in BOOLEAN, SaveConfig(r, on)
  PROVE  \E q \in Point : Registry!Configure(q, on)
<1> DEFINE p == call[r].device
           q == call[r].point
           copy == call[r].copy
<1>1. /\ q \in Point /\ p = OwnerOf[q] /\ p \in Registered
      /\ copy.heartbeat = lastHeartbeat[p]
      /\ copy.enabled = enabled \cap PointsOf(p)
  BY DEF IInv, SaveConfig, CallHolds, CallShape
<1>2. call[r] \in Call /\ copy \in DeviceCopy
  BY DEF IInv, TypeOK, Call
<1>3. unregistered' = unregistered
  BY <1>1 DEF SaveConfig, Registered
<1>4. lastHeartbeat' = lastHeartbeat
  BY <1>1, <1>2 DEF SaveConfig, SavePage, DeviceCopy, IInv, TypeOK
<1>5. enabled' = IF on THEN enabled \cup {q} ELSE enabled \ {q}
  <2>1. q \in PointsOf(p)
    BY <1>1 DEF PointsOf
  <2>2. [copy EXCEPT !.enabled = IF on THEN @ \cup {q} ELSE @ \ {q}].enabled
          = IF on THEN copy.enabled \cup {q} ELSE copy.enabled \ {q}
    BY <1>2 DEF DeviceCopy
  <2>3. enabled' = (enabled \ PointsOf(p))
                     \cup (IF on THEN copy.enabled \cup {q}
                                 ELSE copy.enabled \ {q})
    BY <2>2 DEF SaveConfig, SavePage
  <2> QED
    BY <1>1, <2>1, <2>3
<1>6. Registry!Configure(q, on)
  BY <1>1, <1>3, <1>4, <1>5
     DEF SaveConfig, Registry!Configure, Registry!InService, Registered
<1> QED
  BY <1>1, <1>6

\* The check that went without a lock is made up for by the condition of the
\* UPDATE.
LEMMA SaveHeartbeatMaps ==
  ASSUME IInv, NEW r \in Request, SaveHeartbeat(r)
  PROVE  \/ \E p \in Page, t \in 1..MaxTime : Registry!Beat(p, t)
         \/ UNCHANGED Registry!registry
<1> DEFINE p == call[r].device
           t == call[r].copy.heartbeat
<1>1. p \in Page \cap devices /\ t # Never
  BY DEF IInv, SaveHeartbeat, CallShape
<1>2. t \in 1..MaxTime
  BY <1>1, TimeAssumption DEF IInv, TypeOK, Call, DeviceCopy, Time, Never
<1>3. CASE p \in unregistered
  BY <1>3 DEF SaveHeartbeat, Registry!registry
<1>4. CASE p \notin unregistered
  <2>1. Registry!Beat(p, t)
    BY <1>1, <1>4 DEF SaveHeartbeat, Registry!Beat, Registry!InService
  <2> QED
    BY <1>1, <1>2, <2>1
<1> QED
  BY <1>3, <1>4

LEMMA StepMaps ==
  ASSUME IInv, [Next]_vars
  PROVE  [Registry!Next]_Registry!registry
<1>1. CASE UNCHANGED vars
  BY <1>1, ReadsStutter DEF vars
<1>2. ASSUME NEW p \in Page, RegisterPage(p)
      PROVE Registry!Next
  BY <1>2, RegisterPageMaps DEF Registry!Next
<1>3. ASSUME NEW r \in Request, Arrive(r) \/ Fail(r)
      PROVE UNCHANGED Registry!registry
  <2>1. UNCHANGED tables
    BY <1>3 DEF Arrive, UnregisterEdgeDevice, Heartbeat, RegisterCamera, Start,
                UpdateObservationPointConfig, Fail
  <2> QED
    BY <2>1, ReadsStutter
<1>4. ASSUME NEW r \in Request, Advance(r)
      PROVE [Registry!Next]_Registry!registry
  <2>1. CASE LockPoint(r) \/ LockDevice(r) \/ LockLinkedCamera(r) \/ LockOwner(r)
    BY <2>1, ReadsStutter DEF LockPoint, LockDevice, LockLinkedCamera, LockOwner
  <2>2. ASSUME NEW active \in SUBSET Point, StampHeartbeat(r, active)
        PROVE UNCHANGED Registry!registry
    BY <2>2, ReadsStutter DEF StampHeartbeat
  <2>3. CASE InsertCamera(r)
    BY <2>3, InsertCameraMaps DEF Registry!Next
  <2>4. CASE CommitUnregister(r)
    BY <2>4, CommitUnregisterMaps DEF Registry!Next, Device, Registry!Device
  <2>5. ASSUME NEW on \in BOOLEAN, SaveConfig(r, on)
        PROVE Registry!Next
    BY <2>5, SaveConfigMaps DEF Registry!Next
  <2>6. CASE SaveHeartbeat(r)
    BY <2>6, SaveHeartbeatMaps DEF Registry!Next
  <2>7. CASE RefuseConfig(r) \/ RefuseHeartbeat(r)
    BY <2>7, ReadsStutter DEF RefuseConfig, RefuseHeartbeat
  <2> QED
    BY <1>4, <2>1, <2>2, <2>3, <2>4, <2>5, <2>6, <2>7 DEF Advance
<1>5. CASE Tick
  BY <1>5, ReadsStutter DEF Tick
<1> QED
  BY <1>1, <1>2, <1>3, <1>4, <1>5 DEF Next

LEMMA InitMaps == Init => Registry!Init
BY DEF Init, Registry!Init, Device, Registry!Device, Never

\* The locking transactions implement the registry: each commit is one of its
\* operations, and every other step changes nothing of it (all RPCs).
THEOREM EdgeDevicesImplementRegistry == Spec => RegistrySpec
BY InvInit, InvKept, InitMaps, StepMaps, PTL DEF Spec, RegistrySpec, Registry!Spec
=============================================================================
