-------------------------------- MODULE Gps_proofs ------------------------------
(***************************************************************************)
(* Proofs about DeviceIngest.tla, for any devices, trucks, trips, secrets, *)
(* calls at a time and failures, and about AnchorPipeline.tla and          *)
(* TripProofs.tla, for any pings, sweeps, attempts and failures.           *)
(*                                                                         *)
(* Ingest: a call acts on what it read some steps ago.  A suspension is    *)
(* lost only to a row that was read before it.  A trip stays ended         *)
(* because, while each device is registered once, no device changes its    *)
(* truck: the one that endTrip picked is then still the one that carries   *)
(* the trip.                                                               *)
(*                                                                         *)
(* Anchoring: whatever overlaps or fails, a proof that verifies leads from *)
(* a leaf of the anchored tree, because hashes do not collide.  That there *)
(* is one for each ping needs that rows, jobs and the chain go through the *)
(* same windows in the same order, and that the tree rebuilt is the tree   *)
(* anchored.                                                               *)
(***************************************************************************)
EXTENDS DeviceIngest, TripProofs, FiniteSums

RequestState ==
  [ pc: {"idle", "register", "rotate", "start", "end", "expire", "device", "flag",
         "binding", "push"},
    device: Device \cup {None}, secret: Secret \cup {None}, trip: Trip \cup {None},
    row: Row, bulk: BOOLEAN, fleet: SUBSET Device, before: SUBSET (Device \X Trip) ]

Known(d) == d \in Device /\ writes[d] # 0

\* What a call has read is still true, as far as its next step relies on it.
RequestSound(c) ==
  /\ c.pc # "idle" => c.device \in Device
  /\ c.pc \in {"register", "rotate"} => c.row # NoDevice
  /\ c.pc = "rotate" =>
       Known(c.device) /\ (RegisteredOnce => c.row.truck = devices[c.device].truck)
  /\ c.pc = "start" => Known(c.device) /\ c.trip \in Trip
  /\ c.pc = "end" =>
       /\ c.device \in c.fleet
       /\ \A e \in c.fleet : Known(e) /\ (RegisteredOnce => devices[e].truck = devices[c.device].truck)
  /\ c.pc = "flag" => Known(c.device)
  /\ c.before \subseteq ended
  /\ c.pc = "push" =>
       /\ Known(c.device) /\ c.trip \in Trip /\ c.row # NoDevice
       /\ OnlyOne(c.device) => <<c.device, c.trip>> \notin c.before

Typed ==
  /\ devices \in [Device -> Row]
  /\ binding \in [Device -> Trip \cup {None}]
  /\ writes \in [Device -> Nat]
  /\ ended \subseteq Device \X Trip
  /\ req \in [Request -> RequestState]

\* A device is in the table once it was registered.
DevicesSound == \A d \in Device : Known(d) <=> devices[d] # NoDevice

\* The trip that the only device of a truck is bound to has not ended.
BindingSound ==
  \A d \in Device : binding[d] # None =>
    Known(d) /\ (OnlyOne(d) => <<d, binding[d]>> \notin ended)

DeviceInv ==
  /\ Typed
  /\ DevicesSound
  /\ BindingSound
  /\ \A r \in Request : RequestSound(req[r])

-------------------------------------------------------------------------------
LEMMA IdleSound ==
  Idle \in RequestState /\ RequestSound(Idle) /\ RequestSound(Idle)' /\ Idle.before = {}
BY DEF Idle, RequestState, RequestSound, Row

\* A device of a truck has been registered.
LEMMA FleetKnown ==
  ASSUME DeviceInv, NEW k \in Truck, NEW d \in DevicesOf(k)
  PROVE  Known(d) /\ devices[d].truck = k
BY DeviceAssumption DEF DeviceInv, DevicesSound, DevicesOf, NoDevice

LEMMA InitSound == DeviceInit => DeviceInv
<1> SUFFICES ASSUME DeviceInit PROVE DeviceInv
  OBVIOUS
<1>1. Typed
  BY IdleSound DEF DeviceInit, Typed, Row
<1>2. DevicesSound /\ BindingSound
  BY DEF DeviceInit, DevicesSound, BindingSound, Known
<1> QED BY <1>1, <1>2, IdleSound DEF DeviceInit, DeviceInv

-------------------------------------------------------------------------------
\* As long as no device is registered twice, devices stay on their trucks.
TrucksKept ==
  /\ \A d \in Device : Known(d) => Known(d)'
  /\ RegisteredOnce' =>
       RegisteredOnce /\ \A d \in Device : Known(d) => devices'[d].truck = devices[d].truck

LEMMA WasOnlyOne ==
  ASSUME DeviceInv, TrucksKept, NEW d \in Device, Known(d), OnlyOne(d)'
  PROVE  OnlyOne(d)
<1>1. /\ RegisteredOnce /\ d \in DevicesOf(devices[d].truck)
      /\ \A e \in Device : Known(e) => devices'[e].truck = devices[e].truck
  BY DEF TrucksKept, OnlyOne, DevicesOf
<1>2. devices[d].truck \in Truck
  BY DEF DeviceInv, Typed, DevicesSound, Row
<1>3. ASSUME NEW e \in DevicesOf(devices[d].truck) PROVE e = d
  <2>1. e \in Device /\ Known(e) /\ devices[e].truck = devices[d].truck
    BY <1>2, FleetKnown DEF DevicesOf
  <2>2. devices'[e].truck = devices'[d].truck
    BY <1>1, <2>1
  <2> QED BY <2>1, <2>2 DEF OnlyOne, DevicesOf
<1> QED BY <1>1, <1>3 DEF OnlyOne

\* What a call has read survives the steps of others.
LEMMA ReadingSurvives ==
  ASSUME DeviceInv, TrucksKept, NEW c \in RequestState, RequestSound(c), c.before \subseteq ended'
  PROVE  RequestSound(c)'
<1>1. c.pc = "push" /\ OnlyOne(c.device)' => <<c.device, c.trip>> \notin c.before
  BY WasOnlyOne DEF RequestSound
<1>2. c.pc = "rotate" => Known(c.device)' /\ (RegisteredOnce' => c.row.truck = devices'[c.device].truck)
  BY DEF RequestSound, TrucksKept
<1>3. c.pc = "end" => \A e \in c.fleet :
        Known(e)' /\ (RegisteredOnce' => devices'[e].truck = devices'[c.device].truck)
  BY DEF RequestSound, TrucksKept, RequestState
<1> QED BY <1>1, <1>2, <1>3 DEF RequestSound, TrucksKept

\* A step of one call that ends no trip's end.
LEMMA Moves ==
  ASSUME DeviceInv, TrucksKept, NEW r \in Request, NEW q \in RequestState, Become(r, q),
         RequestSound(q)', ended \subseteq ended', ended' \subseteq Device \X Trip,
         devices' \in [Device -> Row], binding' \in [Device -> Trip \cup {None}],
         writes' \in [Device -> Nat], DevicesSound', BindingSound'
  PROVE  DeviceInv'
<1>1. req' \in [Request -> RequestState] /\ \A s \in Request : req'[s] = IF s = r THEN q ELSE req[s]
  BY DEF DeviceInv, Typed, Become
<1>2. \A s \in Request \ {r} : RequestSound(req[s])'
  <2> TAKE s \in Request \ {r}
  <2>1. PICK c \in RequestState : c = req[s] /\ RequestSound(c)
    BY DEF DeviceInv, Typed
  <2>2. RequestSound(c)'
    BY <2>1, ReadingSurvives DEF RequestSound
  <2>3. req'[s] = c
    BY <1>1, <2>1
  <2> QED BY <2>2, <2>3 DEF RequestSound
<1>3. \A s \in Request : RequestSound(req[s])'
  BY <1>1, <1>2 DEF RequestSound
<1> QED BY <1>1, <1>3 DEF DeviceInv, Typed

\* A step of one call that only reads.
LEMMA QuietMoves ==
  ASSUME DeviceInv, NEW r \in Request, NEW q \in RequestState, Become(r, q), RequestSound(q),
         UNCHANGED <<devices, binding, writes, ended>>
  PROVE  DeviceInv'
<1>1. TrucksKept
  BY DEF TrucksKept, Known, RegisteredOnce
<1>2. RequestSound(q)'
  BY DEF RequestSound, Known, RegisteredOnce, OnlyOne, DevicesOf
<1>3. DevicesSound' /\ BindingSound'
  BY DEF DeviceInv, DevicesSound, BindingSound, Known, RegisteredOnce, OnlyOne, DevicesOf
<1> QED BY <1>1, <1>2, <1>3, Moves DEF DeviceInv, Typed

-------------------------------------------------------------------------------
\* --- The steps --------------------------------------------------------------
LEMMA CallTyped ==
  ASSUME DeviceInv, NEW r \in Request
  PROVE  req[r] \in RequestState /\ RequestSound(req[r])
BY DEF DeviceInv, Typed

\* A call that reads nothing but the device it is about.
LEMMA BeginSound ==
  ASSUME DeviceInv, NEW r \in Request
  PROVE  /\ \A d \in Device, k \in Truck, s \in Secret : BeginRegister(r, d, k, s) => DeviceInv'
         /\ \A d \in Device, s \in Secret : BeginRotate(r, d, s) => DeviceInv'
         /\ \A k \in Truck, j \in Trip : BeginStart(r, k, j) => DeviceInv'
         /\ \A k \in Truck : BeginEnd(r, k) => DeviceInv'
         /\ \A d \in Device, s \in Secret, bulk \in BOOLEAN : Increment(r, d, s, bulk) => DeviceInv'
<1>1. ASSUME NEW d \in Device, NEW k \in Truck, NEW s \in Secret, BeginRegister(r, d, k, s)
      PROVE  DeviceInv'
  <2>1. PICK row : row = [truck |-> k, secret |-> s, status |-> "ACTIVE", flags |-> 0]
    OBVIOUS
  <2>2. PICK q : q = [Idle EXCEPT !.pc = "register", !.device = d, !.row = row]
    OBVIOUS
  <2>3. row \in Row /\ row # NoDevice
    BY <2>1, DeviceAssumption DEF Row, NoDevice
  <2>4. q \in RequestState /\ q.pc = "register" /\ q.device = d /\ q.row = row /\ q.before = {}
    BY <2>2, <2>3, IdleSound DEF Idle, RequestState
  <2>5. Become(r, q) /\ UNCHANGED <<devices, binding, writes, ended>>
    BY <1>1, <2>1, <2>2 DEF BeginRegister, tables, history
  <2> QED BY <2>3, <2>4, <2>5, QuietMoves DEF RequestSound
<1>2. ASSUME NEW d \in Device, NEW s \in Secret, BeginRotate(r, d, s) PROVE DeviceInv'
  <2>1. PICK row : row = [devices[d] EXCEPT !.secret = s, !.flags = 0]
    OBVIOUS
  <2>2. PICK q : q = [Idle EXCEPT !.pc = "rotate", !.device = d, !.row = row]
    OBVIOUS
  <2>3. Known(d) /\ devices[d] \in Row /\ devices[d] # NoDevice
    BY <1>2 DEF BeginRotate, DeviceInv, Typed, DevicesSound
  <2>4. row \in Row /\ row # NoDevice /\ row.truck = devices[d].truck
    BY <2>1, <2>3, DeviceAssumption DEF Row, NoDevice
  <2>5. q \in RequestState /\ q.pc = "rotate" /\ q.device = d /\ q.row = row /\ q.before = {}
    BY <2>2, <2>4, IdleSound DEF Idle, RequestState
  <2>6. Become(r, q) /\ UNCHANGED <<devices, binding, writes, ended>>
    BY <1>2, <2>1, <2>2 DEF BeginRotate, tables, history
  <2> QED BY <2>3, <2>4, <2>5, <2>6, QuietMoves DEF RequestSound
<1>3. ASSUME NEW k \in Truck, NEW j \in Trip, BeginStart(r, k, j) PROVE DeviceInv'
  <2>1. PICK d \in DevicesOf(k) : Become(r, [Idle EXCEPT !.pc = "start", !.device = d, !.trip = j])
    BY <1>3 DEF BeginStart
  <2>2. PICK q : q = [Idle EXCEPT !.pc = "start", !.device = d, !.trip = j]
    OBVIOUS
  <2>3. d \in Device /\ Known(d)
    BY FleetKnown DEF DevicesOf
  <2>4. q \in RequestState /\ q.pc = "start" /\ q.device = d /\ q.trip = j /\ q.before = {}
    BY <2>2, <2>3, IdleSound DEF Idle, RequestState
  <2>5. Become(r, q) /\ UNCHANGED <<devices, binding, writes, ended>>
    BY <1>3, <2>1, <2>2 DEF BeginStart, tables, history
  <2> QED BY <2>3, <2>4, <2>5, QuietMoves DEF RequestSound
<1>4. ASSUME NEW k \in Truck, BeginEnd(r, k) PROVE DeviceInv'
  <2>1. PICK d \in DevicesOf(k) :
          Become(r, [Idle EXCEPT !.pc = "end", !.device = d, !.fleet = DevicesOf(k)])
    BY <1>4 DEF BeginEnd
  <2>2. PICK q : q = [Idle EXCEPT !.pc = "end", !.device = d, !.fleet = DevicesOf(k)]
    OBVIOUS
  <2>3. \A e \in DevicesOf(k) : e \in Device /\ Known(e) /\ devices[e].truck = devices[d].truck
    BY FleetKnown DEF DevicesOf
  <2>4. /\ q \in RequestState /\ q.pc = "end" /\ q.device = d /\ q.before = {}
        /\ q.fleet = DevicesOf(k)
    BY <2>2, <2>3, IdleSound DEF Idle, RequestState
  <2>5. Become(r, q) /\ UNCHANGED <<devices, binding, writes, ended>>
    BY <1>4, <2>1, <2>2 DEF BeginEnd, tables, history
  <2> QED BY <2>3, <2>4, <2>5, QuietMoves DEF RequestSound
<1>5. ASSUME NEW d \in Device, NEW s \in Secret, NEW bulk \in BOOLEAN, Increment(r, d, s, bulk)
      PROVE  DeviceInv'
  <2>1. PICK q : /\ Become(r, q)
                 /\ \/ q = Idle
                    \/ \E pc \in {"expire", "device"} :
                         q = [Idle EXCEPT !.device = d, !.secret = s, !.bulk = bulk,
                                          !.before = ended, !.pc = pc]
    BY <1>5 DEF Increment, Allowed
  <2>2. CASE q = Idle
    BY <1>5, <2>1, <2>2, IdleSound, QuietMoves DEF Increment, tables, history
  <2>3. CASE q # Idle
    <3>1. PICK pc \in {"expire", "device"} :
            q = [Idle EXCEPT !.device = d, !.secret = s, !.bulk = bulk, !.before = ended, !.pc = pc]
      BY <2>1, <2>3
    <3>2. ended \in SUBSET (Device \X Trip) /\ NoDevice \in Row
      BY DEF DeviceInv, Typed, Row
    <3>3. q \in RequestState /\ q.pc = pc /\ q.device = d /\ q.before = ended
      BY <3>1, <3>2 DEF Idle, RequestState
    <3> QED BY <1>5, <2>1, <3>3, QuietMoves DEF Increment, tables, history, RequestSound
  <2> QED BY <2>2, <2>3
<1> QED BY <1>1, <1>2, <1>3, <1>4, <1>5

\* What the server has of a device and of its binding changes hands.
LEMMA UpsertSound == ASSUME DeviceInv, NEW r \in Request, Upsert(r) PROVE DeviceInv'
<1>1. PICK c \in RequestState : c = req[r] /\ RequestSound(c)
  BY CallTyped
<1>2. PICK d \in Device : d = c.device
  BY <1>1 DEF Upsert, RequestSound
<1>3. /\ c.pc \in {"register", "rotate"} /\ c.row \in Row /\ c.row # NoDevice
      /\ devices' = [devices EXCEPT ![d] = c.row]
      /\ writes' = [writes EXCEPT ![d] = @ + (IF c.pc = "register" THEN 1 ELSE 0)]
      /\ Become(r, Idle) /\ UNCHANGED <<binding, ended>>
  BY <1>1, <1>2 DEF Upsert, RequestSound, RequestState
<1>4. /\ devices' \in [Device -> Row] /\ writes' \in [Device -> Nat]
      /\ \A e \in Device \ {d} : devices'[e] = devices[e] /\ writes'[e] = writes[e]
      /\ devices'[d] = c.row
      /\ c.pc = "register" => writes'[d] = writes[d] + 1
      /\ c.pc = "rotate" => writes'[d] = writes[d]
  BY <1>3 DEF DeviceInv, Typed
<1>5. Known(d)' /\ writes[d] \in Nat /\ writes[d] <= writes'[d]
  BY <1>1, <1>2, <1>3, <1>4 DEF Known, RequestSound, DeviceInv, Typed
<1>6. RegisteredOnce' => RegisteredOnce
  BY <1>4, <1>5 DEF RegisteredOnce, DeviceInv, Typed
<1>7. RegisteredOnce' /\ Known(d) => devices'[d].truck = devices[d].truck
  <2> SUFFICES ASSUME RegisteredOnce', Known(d) PROVE devices'[d].truck = devices[d].truck
    OBVIOUS
  <2>1. c.pc = "rotate"
    BY <1>3, <1>4, <1>5 DEF RegisteredOnce, Known
  <2> QED BY <1>1, <1>2, <1>4, <1>6, <2>1 DEF RequestSound
<1>8. TrucksKept
  BY <1>4, <1>5, <1>6, <1>7 DEF TrucksKept, Known
<1>9. DevicesSound'
  BY <1>3, <1>4, <1>5 DEF DevicesSound, Known, DeviceInv
<1>10. BindingSound'
  BY <1>3, <1>8, WasOnlyOne DEF BindingSound, DeviceInv, TrucksKept
<1> QED BY <1>3, <1>4, <1>8, <1>9, <1>10, IdleSound, Moves DEF DeviceInv, Typed

LEMMA FlagTamperSound == ASSUME DeviceInv, NEW r \in Request, FlagTamper(r) PROVE DeviceInv'
<1>1. PICK c \in RequestState : c = req[r] /\ RequestSound(c)
  BY CallTyped
<1>2. PICK d \in Device : d = c.device
  BY <1>1 DEF FlagTamper, RequestSound
<1>3. PICK status : status = StatusAfter(d, devices[d].flags + 1)
  OBVIOUS
<1>4. /\ devices' = [devices EXCEPT ![d].flags = devices[d].flags + 1, ![d].status = status]
      /\ Become(r, Idle) /\ UNCHANGED <<binding, ended, writes>>
  BY <1>1, <1>2, <1>3 DEF FlagTamper, history
<1>5. Known(d) /\ devices[d] # NoDevice /\ devices[d] \in Row
  BY <1>1, <1>2 DEF FlagTamper, RequestSound, DeviceInv, DevicesSound, Typed
<1>6. PICK row : row = [devices[d] EXCEPT !.flags = devices[d].flags + 1, !.status = status]
  OBVIOUS
<1>7. row \in Row /\ row # NoDevice /\ row.truck = devices[d].truck
  <2>1. status \in {"ACTIVE", "SUSPENDED"}
    BY <1>3, <1>5 DEF StatusAfter, Row
  <2>2. devices[d] \in [truck: Truck, secret: Secret, status: {"ACTIVE", "SUSPENDED"}, flags: Nat]
    BY <1>5 DEF Row
  <2>3. /\ row \in [truck: Truck, secret: Secret, status: {"ACTIVE", "SUSPENDED"}, flags: Nat]
        /\ row.truck = devices[d].truck
    <3>1. PICK old \in [truck: Truck, secret: Secret, status: {"ACTIVE", "SUSPENDED"}, flags: Nat] :
            old = devices[d]
      BY <2>2
    <3>2. PICK n \in Nat : n = old.flags + 1
      OBVIOUS
    <3>3. row = [old EXCEPT !.flags = n, !.status = status]
      BY <1>6, <3>1, <3>2
    <3>4. row = [truck |-> old.truck, secret |-> old.secret, status |-> status, flags |-> n]
      BY <3>3
    <3> QED BY <2>1, <3>1, <3>4
  <2> QED BY <2>3, DeviceAssumption DEF Row, NoDevice
<1>8. devices' = [devices EXCEPT ![d] = row]
  BY <1>4, <1>5, <1>6 DEF DeviceInv, Typed
<1>9. /\ devices' \in [Device -> Row]
      /\ \A e \in Device : /\ devices'[e].truck = devices[e].truck
                          /\ devices'[e] # NoDevice <=> devices[e] # NoDevice
  BY <1>5, <1>7, <1>8 DEF DeviceInv, Typed
<1>10. TrucksKept
  BY <1>4, <1>9 DEF TrucksKept, Known, RegisteredOnce
<1>11. DevicesSound'
  BY <1>4, <1>9 DEF DeviceInv, DevicesSound, Known
<1>12. BindingSound'
  BY <1>4, <1>10, WasOnlyOne DEF BindingSound, DeviceInv, TrucksKept
<1> QED BY <1>4, <1>9, <1>10, <1>11, <1>12, IdleSound, Moves DEF DeviceInv, Typed

\* A binding changes and no device does.
LEMMA UnbindTripSound == ASSUME DeviceInv, NEW r \in Request, UnbindTrip(r) PROVE DeviceInv'
<1>1. PICK c \in RequestState : c = req[r] /\ RequestSound(c)
  BY CallTyped
<1>2. PICK d \in Device : d = c.device
  BY <1>1 DEF UnbindTrip, RequestSound
<1>3. /\ c.pc = "end" /\ binding' = [binding EXCEPT ![d] = None]
      /\ ended' = ended \cup {<<e, binding[e]>> : e \in {f \in c.fleet : binding[f] # None}}
      /\ Become(r, Idle) /\ UNCHANGED <<devices, writes>>
  BY <1>1, <1>2 DEF UnbindTrip, Unbound
<1>4. /\ d \in c.fleet /\ c.fleet \subseteq Device
      /\ \A e \in c.fleet : RegisteredOnce => devices[e].truck = devices[d].truck
  BY <1>1, <1>2, <1>3 DEF RequestSound, RequestState
<1>5. /\ binding' \in [Device -> Trip \cup {None}] /\ binding'[d] = None
      /\ \A e \in Device \ {d} : binding'[e] = binding[e]
      /\ ended \subseteq ended' /\ ended' \subseteq Device \X Trip
  BY <1>3, <1>4 DEF DeviceInv, Typed
<1>6. TrucksKept /\ DevicesSound'
  BY <1>3 DEF TrucksKept, Known, RegisteredOnce, DeviceInv, DevicesSound
<1>7. ASSUME NEW e \in Device, binding'[e] # None
      PROVE  Known(e)' /\ (OnlyOne(e)' => <<e, binding'[e]>> \notin ended')
  <2>1. e # d /\ binding'[e] = binding[e] /\ Known(e) /\ Known(e)'
    BY <1>3, <1>5, <1>7 DEF DeviceInv, BindingSound, Known
  <2>2. ASSUME OnlyOne(e)' PROVE <<e, binding[e]>> \notin ended'
    <3>1. OnlyOne(e)
      BY <1>6, <2>1, <2>2, WasOnlyOne
    <3>2. <<e, binding[e]>> \notin ended
      BY <1>7, <2>1, <3>1 DEF DeviceInv, BindingSound
    <3>3. e \notin c.fleet
      BY <1>4, <2>1, <3>1 DEF OnlyOne, DevicesOf
    <3> QED BY <1>3, <3>2, <3>3
  <2> QED BY <2>1, <2>2
<1>8. BindingSound'
  BY <1>7 DEF BindingSound
<1> QED BY <1>3, <1>5, <1>6, <1>8, IdleSound, Moves DEF DeviceInv, Typed

LEMMA BindTripSound == ASSUME DeviceInv, NEW r \in Request, BindTrip(r) PROVE DeviceInv'
<1>1. PICK c \in RequestState : c = req[r] /\ RequestSound(c)
  BY CallTyped
<1>2. PICK d \in Device, j \in Trip : d = c.device /\ j = c.trip /\ Known(d)
  BY <1>1 DEF BindTrip, RequestSound
<1>3. /\ binding' = [binding EXCEPT ![d] = j]
      /\ ended' = ended \ {<<d, j>>}
      /\ req' = [s \in Request |-> IF s = r THEN Idle
                                   ELSE [req[s] EXCEPT !.before = @ \ {<<d, j>>}]]
      /\ UNCHANGED <<devices, writes>>
  BY <1>1, <1>2 DEF BindTrip
<1>4. /\ binding' \in [Device -> Trip \cup {None}] /\ binding'[d] = j
      /\ \A e \in Device \ {d} : binding'[e] = binding[e]
      /\ ended' \subseteq Device \X Trip
  BY <1>3 DEF DeviceInv, Typed
<1>5. TrucksKept /\ DevicesSound'
  BY <1>3 DEF TrucksKept, Known, RegisteredOnce, DeviceInv, DevicesSound
<1>6. BindingSound'
  <2> SUFFICES ASSUME NEW e \in Device, binding'[e] # None
               PROVE  Known(e)' /\ (OnlyOne(e)' => <<e, binding'[e]>> \notin ended')
    BY DEF BindingSound
  <2>1. CASE e = d
    BY <1>2, <1>3, <1>4, <2>1 DEF Known
  <2>2. CASE e # d
    <3>1. binding'[e] = binding[e] /\ Known(e) /\ Known(e)'
      BY <1>3, <1>4, <2>2 DEF DeviceInv, BindingSound, Known
    <3>2. OnlyOne(e)' => OnlyOne(e)
      BY <1>5, <3>1, WasOnlyOne
    <3> QED BY <1>3, <3>1, <3>2 DEF DeviceInv, BindingSound
  <2> QED BY <2>1, <2>2
<1>7. ASSUME NEW s \in Request PROVE \E q \in RequestState : req'[s] = q /\ RequestSound(q)'
  <2>1. CASE s = r
    BY <1>3, <2>1, IdleSound
  <2>2. CASE s # r
    <3>1. PICK b \in RequestState : b = req[s] /\ RequestSound(b)
      BY CallTyped
    <3>2. PICK q : q = [b EXCEPT !.before = @ \ {<<d, j>>}]
      OBVIOUS
    <3>3. /\ q \in RequestState /\ q.before = b.before \ {<<d, j>>}
          /\ q.pc = b.pc /\ q.device = b.device /\ q.trip = b.trip /\ q.row = b.row
          /\ q.fleet = b.fleet
      BY <3>2 DEF RequestState
    <3>4. RequestSound(q) /\ q.before \subseteq ended'
      BY <1>3, <3>1, <3>3 DEF RequestSound
    <3>5. RequestSound(q)'
      BY <1>5, <3>3, <3>4, ReadingSurvives
    <3>6. req'[s] = q
      BY <1>3, <2>2, <3>1, <3>2
    <3> QED BY <3>3, <3>5, <3>6
  <2> QED BY <2>1, <2>2
<1>8. req' \in [Request -> RequestState]
  BY <1>3, <1>7
<1>9. \A s \in Request : RequestSound(req[s])'
  <2> TAKE s \in Request
  <2>1. PICK q \in RequestState : req'[s] = q /\ RequestSound(q)'
    BY <1>7
  <2> QED BY <2>1 DEF RequestSound
<1> QED BY <1>3, <1>4, <1>5, <1>6, <1>8, <1>9 DEF DeviceInv, Typed

\* The steps of a ping that only read, and a call that fails.
LEMMA ReadSound ==
  ASSUME DeviceInv, NEW r \in Request,
         \/ SetExpiry(r) \/ BulkAborts(r) \/ ReadDevice(r) \/ Implausible(r)
         \/ ReadBinding(r) \/ PushPing(r) \/ Fail(r)
  PROVE  DeviceInv'
<1>1. PICK c \in RequestState : c = req[r] /\ RequestSound(c)
  BY CallTyped
<1>2. UNCHANGED <<devices, binding, writes, ended>>
  BY DEF SetExpiry, BulkAborts, ReadDevice, Implausible, ReadBinding, PushPing, Fail, tables, history
<1>3. CASE Become(r, Idle)
  BY <1>2, <1>3, IdleSound, QuietMoves
<1>4. ASSUME NEW pc \in {"device", "flag", "binding"}, Become(r, [c EXCEPT !.pc = pc]),
             c.pc \in {"expire", "device"}, pc = "flag" => Known(c.device)
      PROVE  DeviceInv'
  <2>1. PICK q : q = [c EXCEPT !.pc = pc]
    OBVIOUS
  <2>2. /\ q \in RequestState /\ q.pc = pc /\ q.device = c.device
        /\ q.before = c.before
    BY <2>1 DEF RequestState
  <2>3. RequestSound(q)
    BY <1>1, <1>4, <2>2 DEF RequestSound
  <2> QED BY <1>2, <1>4, <2>1, <2>2, <2>3, QuietMoves
<1>5. CASE SetExpiry(r)
  BY <1>1, <1>4, <1>5 DEF SetExpiry
<1>6. CASE ReadDevice(r)
  <2>1. CASE devices[c.device].status # "ACTIVE"
    BY <1>1, <1>3, <1>6, <2>1 DEF ReadDevice
  <2>2. CASE devices[c.device].status = "ACTIVE"
    <3>1. c.pc = "device" /\ Known(c.device)
      BY <1>1, <1>6, <2>2 DEF ReadDevice, RequestSound, DeviceInv, DevicesSound, NoDevice
    <3> QED BY <1>1, <1>4, <1>6, <2>2, <3>1 DEF ReadDevice
  <2> QED BY <2>1, <2>2
<1>7. CASE ReadBinding(r)
  <2>1. PICK d \in Device : d = c.device
    BY <1>1, <1>7 DEF ReadBinding, RequestSound
  <2>2. CASE binding[d] = None
    BY <1>1, <1>3, <1>7, <2>1, <2>2 DEF ReadBinding
  <2>3. CASE binding[d] # None
    <3>1. PICK q : q = [c EXCEPT !.pc = "push", !.trip = binding[d], !.row = devices[d]]
      OBVIOUS
    <3>2. Become(r, q)
      BY <1>1, <1>7, <2>1, <2>3, <3>1 DEF ReadBinding
    <3>3. binding[d] \in Trip /\ devices[d] \in Row /\ devices[d] # NoDevice
      BY <2>3 DEF DeviceInv, Typed, BindingSound, DevicesSound
    <3>4. /\ q \in RequestState /\ q.pc = "push" /\ q.device = d /\ q.trip = binding[d]
          /\ q.before = c.before /\ q.row = devices[d]
      BY <2>1, <3>1, <3>3 DEF RequestState
    <3>5. RequestSound(q)
      BY <1>1, <2>3, <3>3, <3>4 DEF RequestSound, DeviceInv, BindingSound
    <3> QED BY <1>2, <3>2, <3>4, <3>5, QuietMoves
  <2> QED BY <2>2, <2>3
<1>8. CASE BulkAborts(r) \/ Implausible(r) \/ PushPing(r) \/ Fail(r)
  BY <1>3, <1>8 DEF BulkAborts, Implausible, PushPing, Fail
<1> QED BY <1>5, <1>6, <1>7, <1>8

LEMMA StepSound == ASSUME DeviceInv, [DeviceNext]_deviceVars PROVE DeviceInv'
<1>1. ASSUME NEW r \in Request, Begin(r) PROVE DeviceInv'
  BY <1>1, BeginSound DEF Begin
<1>2. ASSUME NEW r \in Request, Proceed(r) \/ Fail(r) PROVE DeviceInv'
  BY <1>2, UpsertSound, BindTripSound, UnbindTripSound, FlagTamperSound, ReadSound DEF Proceed
<1>3. ASSUME UNCHANGED <<devices, binding, writes, ended, req>> PROVE DeviceInv'
  BY <1>3 DEF DeviceInv, Typed, DevicesSound, BindingSound, RequestSound, Known, RegisteredOnce,
     OnlyOne, DevicesOf
<1>4. ASSUME NEW d \in Device, KeyExpires(d) PROVE DeviceInv'
  BY <1>3, <1>4 DEF KeyExpires, tables, history
<1>5. ASSUME UNCHANGED deviceVars PROVE DeviceInv'
  BY <1>3, <1>5 DEF deviceVars
<1> QED BY <1>1, <1>2, <1>4, <1>5 DEF DeviceNext

-------------------------------------------------------------------------------
\* What calls have read stays true as far as they rely on it, and a trip of a device that
\* is the only one of its truck ends for good (device-registry.ts, gateway.ts).
THEOREM DeviceInvariant == DeviceSpec => []DeviceInv
<1>1. DeviceInit => DeviceInv
  BY InitSound
<1>2. DeviceInv /\ [DeviceNext]_deviceVars => DeviceInv'
  BY StepSound
<1> QED BY <1>1, <1>2, PTL DEF DeviceSpec

\* What no call reads back: the pings, the limiter and the bounds.
Recorded ==
  /\ pings \subseteq [device: Device, truck: Truck, trip: Trip]
  /\ limiter \in [Device -> [count: Nat, ttl: BOOLEAN]]
  /\ calls \in 0 .. MaxCalls /\ failures \in 0 .. MaxFailures

LEMMA LimiterTyped ==
  ASSUME Recorded, NEW d \in Device
  PROVE  /\ NoKey \in [count: Nat, ttl: BOOLEAN]
         /\ [limiter EXCEPT ![d] = NoKey] \in [Device -> [count: Nat, ttl: BOOLEAN]]
         /\ \A b \in BOOLEAN :
              [limiter EXCEPT ![d].ttl = b] \in [Device -> [count: Nat, ttl: BOOLEAN]]
         /\ [limiter EXCEPT ![d].count = limiter[d].count + 1] \in
              [Device -> [count: Nat, ttl: BOOLEAN]]
<1>1. limiter \in [Device -> [count: Nat, ttl: BOOLEAN]]
  BY DEF Recorded
<1>2. NoKey \in [count: Nat, ttl: BOOLEAN]
  BY DEF NoKey
<1>3. PICK k \in [count: Nat, ttl: BOOLEAN] : k = limiter[d]
  BY <1>1
<1>4. k.count + 1 \in Nat
  OBVIOUS
<1>5. PICK n \in Nat : n = k.count + 1
  BY <1>4
<1>6. [k EXCEPT !.count = n] \in [count: Nat, ttl: BOOLEAN]
  OBVIOUS
<1>7. [limiter EXCEPT ![d].count = limiter[d].count + 1] = [limiter EXCEPT ![d] = [k EXCEPT !.count = n]]
  BY <1>1, <1>3, <1>5
<1> QED BY <1>1, <1>2, <1>3, <1>6, <1>7

LEMMA RecordedStep == ASSUME DeviceInv, Recorded, [DeviceNext]_deviceVars PROVE Recorded'
<1>1. ASSUME UNCHANGED <<pings, limiter>>, calls' \in {calls, calls + 1} /\ calls' <= MaxCalls,
             failures' \in {failures, failures + 1} /\ failures' <= MaxFailures
      PROVE  Recorded'
  BY <1>1, DeviceAssumption DEF Recorded
<1>2. calls \in Nat /\ calls <= MaxCalls /\ failures \in Nat /\ failures <= MaxFailures
  BY DeviceAssumption DEF Recorded
<1>3. ASSUME NEW r \in Request, Begin(r) PROVE Recorded'
  <2>1. ASSUME NEW d \in Device, NEW k \in Truck, NEW s \in Secret, BeginRegister(r, d, k, s)
        PROVE  Recorded'
    BY <1>1, <1>2, <2>1, DeviceAssumption DEF BeginRegister, Call, tables
  <2>2. ASSUME NEW d \in Device, NEW s \in Secret, BeginRotate(r, d, s) PROVE Recorded'
    BY <1>1, <1>2, <2>2, DeviceAssumption DEF BeginRotate, Call, tables
  <2>3. ASSUME NEW k \in Truck, NEW j \in Trip, BeginStart(r, k, j) PROVE Recorded'
    BY <1>1, <1>2, <2>3, DeviceAssumption DEF BeginStart, Call, tables
  <2>4. ASSUME NEW k \in Truck, BeginEnd(r, k) PROVE Recorded'
    BY <1>1, <1>2, <2>4, DeviceAssumption DEF BeginEnd, Call, tables
  <2>5. ASSUME NEW d \in Device, NEW s \in Secret, NEW bulk \in BOOLEAN, Increment(r, d, s, bulk)
        PROVE  Recorded'
    <3>1. limiter' \in [Device -> [count: Nat, ttl: BOOLEAN]]
      BY <2>5, LimiterTyped DEF Increment
    <3>2. UNCHANGED <<pings, failures>> /\ calls' = calls + 1 /\ calls < MaxCalls
      BY <2>5 DEF Increment, Call, tables
    <3> QED BY <1>2, <3>1, <3>2, DeviceAssumption DEF Recorded
  <2> QED BY <1>3, <2>1, <2>2, <2>3, <2>4, <2>5 DEF Begin
<1>4. ASSUME NEW r \in Request, Proceed(r) PROVE Recorded'
  <2>1. CASE Upsert(r) \/ BindTrip(r) \/ UnbindTrip(r) \/ BulkAborts(r) \/ ReadDevice(r)
             \/ FlagTamper(r) \/ Implausible(r) \/ ReadBinding(r)
    <3>1. UNCHANGED <<pings, limiter, calls, failures>>
      BY <2>1 DEF Upsert, BindTrip, UnbindTrip, BulkAborts, ReadDevice, FlagTamper, Implausible,
           ReadBinding, tables
    <3> QED BY <1>1, <1>2, <3>1
  <2>2. CASE SetExpiry(r)
    <3>1. req[r].device \in Device
      BY <2>2, CallTyped DEF SetExpiry, RequestSound
    <3>2. limiter' \in [Device -> [count: Nat, ttl: BOOLEAN]] /\ UNCHANGED <<pings, calls, failures>>
      BY <2>2, <3>1, LimiterTyped DEF SetExpiry, tables
    <3> QED BY <3>2 DEF Recorded
  <2>3. CASE PushPing(r)
    <3>1. PICK c \in RequestState : c = req[r] /\ RequestSound(c)
      BY CallTyped
    <3>2. c.device \in Device /\ c.trip \in Trip /\ c.row \in Row \ {NoDevice}
      BY <2>3, <3>1 DEF PushPing, RequestSound, RequestState
    <3>3. c.row.truck \in Truck
      BY <3>2 DEF Row
    <3>4. pings' \subseteq [device: Device, truck: Truck, trip: Trip]
      BY <2>3, <3>1, <3>2, <3>3 DEF PushPing, Recorded
    <3> QED BY <2>3, <3>4 DEF PushPing, Recorded
  <2> QED BY <1>4, <2>1, <2>2, <2>3 DEF Proceed
<1>5. ASSUME NEW r \in Request, Fail(r) PROVE Recorded'
  BY <1>1, <1>2, <1>5, DeviceAssumption DEF Fail, tables
<1>6. ASSUME NEW d \in Device, KeyExpires(d) PROVE Recorded'
  <2>1. limiter' \in [Device -> [count: Nat, ttl: BOOLEAN]] /\ UNCHANGED <<pings, calls, failures>>
    BY <1>6, LimiterTyped DEF KeyExpires, tables
  <2> QED BY <2>1 DEF Recorded
<1>7. CASE UNCHANGED deviceVars
  BY <1>1, <1>2, <1>7 DEF deviceVars
<1> QED BY <1>3, <1>4, <1>5, <1>6, <1>7 DEF DeviceNext

\* A row of gps_devices is of a device that was registered, whole: no rotation and no tamper
\* flag creates one, and every ping has the truck of a registered device.
\* (device-registry.ts: rotateSecret, gateway.ts: ingest)
THEOREM DeviceTypeCorrect == DeviceSpec => []DeviceTypeOK
<1>1. DeviceInit => Recorded
  BY DeviceAssumption DEF DeviceInit, Recorded, NoKey
<1>2. DeviceInv /\ Recorded /\ [DeviceNext]_deviceVars => Recorded'
  BY RecordedStep
<1>3. DeviceInv /\ Recorded => DeviceTypeOK
  BY DEF DeviceInv, Typed, Recorded, DeviceTypeOK, RequestState
<1> QED BY <1>1, <1>2, <1>3, DeviceInvariant, PTL DEF DeviceSpec

\* A suspended device stays suspended, unless a call about to write the device had read it
\* before (DeviceRegistry.rotateSecret).
THEOREM SuspensionCorrect == DeviceSpec => SuspensionHolds
<1>1. ASSUME DeviceInv, [DeviceNext]_deviceVars, NEW d \in Device,
             devices[d].status = "SUSPENDED", ~StaleWrite(d)
      PROVE  devices'[d].status = "SUSPENDED"
  <2>1. ASSUME NEW r \in Request, Upsert(r) PROVE devices'[d].status = "SUSPENDED"
    <3>1. PICK c \in RequestState : c = req[r] /\ RequestSound(c)
      BY <1>1, CallTyped
    <3>2. devices' = [devices EXCEPT ![c.device] = c.row] /\ c.pc \in {"register", "rotate"}
      BY <2>1, <3>1 DEF Upsert
    <3>3. c.device = d => c.row.status = "SUSPENDED"
      <4>1. c.row.status \in {"ACTIVE", "SUSPENDED"}
        BY <3>1, <3>2 DEF RequestSound, RequestState, Row
      <4> QED BY <1>1, <3>1, <3>2, <4>1 DEF StaleWrite
    <3> QED BY <1>1, <3>2, <3>3 DEF DeviceInv, Typed
  <2>2. ASSUME NEW r \in Request, FlagTamper(r) PROVE devices'[d].status = "SUSPENDED"
    <3>1. PICK e \in Device : e = req[r].device
      BY <1>1, <2>2, CallTyped DEF FlagTamper, RequestSound
    <3>2. PICK status : status = StatusAfter(e, devices[e].flags + 1)
      OBVIOUS
    <3>3. e = d => status = "SUSPENDED"
      BY <1>1, <3>2 DEF StatusAfter
    <3>4. devices' = [devices EXCEPT ![e].flags = devices[e].flags + 1, ![e].status = status]
      BY <2>2, <3>1, <3>2 DEF FlagTamper
    <3>5. devices[d] \in [truck: Truck, secret: Secret, status: {"ACTIVE", "SUSPENDED"}, flags: Nat]
      BY <1>1 DEF DeviceInv, Typed, Row, NoDevice
    <3> QED BY <1>1, <3>3, <3>4, <3>5 DEF DeviceInv, Typed
  <2>3. ASSUME UNCHANGED devices PROVE devices'[d].status = "SUSPENDED"
    BY <1>1, <2>3
  <2>4. \/ UNCHANGED devices
        \/ \E r \in Request : Upsert(r) \/ FlagTamper(r)
    BY <1>1 DEF DeviceNext, deviceVars, Begin, Proceed, Fail, KeyExpires, BeginRegister, BeginRotate,
       BeginStart, BeginEnd, Increment, BindTrip, UnbindTrip, SetExpiry, BulkAborts, ReadDevice,
       Implausible, ReadBinding, PushPing, tables
  <2> QED BY <2>1, <2>2, <2>3, <2>4
<1>2. DeviceInv /\ [DeviceNext]_deviceVars =>
        [\A d \in Device : devices[d].status = "SUSPENDED" /\ ~StaleWrite(d)
                           => devices'[d].status = "SUSPENDED"]_deviceVars
  BY <1>1
<1> QED BY <1>2, DeviceInvariant, PTL DEF DeviceSpec, SuspensionHolds

\* A ping sent after its device's trip has ended is not filed under it, while devices are
\* registered once and the device is the only one of its truck (DeviceRegistry.endTrip).
THEOREM EndCorrect == DeviceSpec => EndedTripIsSilent
<1>1. ASSUME DeviceInv, NEW r \in Request, PushPing(r), OnlyOne(req[r].device)
      PROVE  <<req[r].device, req[r].trip>> \notin req[r].before
  BY <1>1, CallTyped DEF PushPing, RequestSound
<1>2. DeviceInv /\ [DeviceNext]_deviceVars =>
        [\A r \in Request : PushPing(r) /\ OnlyOne(req[r].device)
                            => <<req[r].device, req[r].trip>> \notin req[r].before]_deviceVars
  BY <1>1
<1> QED BY <1>2, DeviceInvariant, PTL DEF DeviceSpec, EndedTripIsSilent

--------------------------------------------------------------------------------
\* The batches that closeWindow makes: the window runs from the first ping to the last.
Windows ==
  {b \in Batches : /\ b.from \in b.pings /\ b.to \in b.pings
                   /\ \A t \in b.pings : b.from <= t /\ t <= b.to}

RowState == [batch: Windows, index: Index]
SweepState ==
  [pc: {"idle", "drained", "save", "add"}, seen: SUBSET Ts, batch: Windows \cup {NoBatch}]
JobState ==
  [batch: Windows, state: {"waiting", "active", "done", "failed"}, attempts: 0 .. MaxAttempts]

PipelineTyped ==
  /\ archive \subseteq Ts
  /\ rows \in Seq(RowState)
  /\ sweep \in [Sweep -> SweepState]
  /\ jobs \in Seq(JobState)
  /\ worker \in [pc: {"idle", "submit", "mark"}, job: Nat, index: Index]
  /\ chain \in Seq(Windows)
  /\ faults \in 0 .. MaxFaults

\* The pings of a row are in the archive, where proveMoment looks for them.
Archived ==
  /\ \A i \in DOMAIN rows : rows[i].batch.pings \subseteq archive
  /\ \A s \in Sweep :
       /\ sweep[s].seen \subseteq archive /\ sweep[s].batch.pings \subseteq archive
       /\ sweep[s].pc \in {"save", "add"} => sweep[s].batch \in Windows

WorkSound ==
  /\ worker.job <= Len(jobs)
  /\ worker.pc # "idle" => worker.job > 0 /\ jobs[worker.job].state = "active"
  /\ \A i \in DOMAIN jobs :
       jobs[i].state \in {"waiting", "active"} => jobs[i].attempts < MaxAttempts

\* Each window on the chain begins after the one before it has ended: there are no
\* more of them than instants.
ChainInOrder ==
  /\ \A i, j \in DOMAIN chain : i < j => chain[i].to < chain[j].from
  /\ \A i \in DOMAIN chain : i <= chain[i].to

PipelineInv == PipelineTyped /\ Archived /\ WorkSound /\ ChainInOrder

--------------------------------------------------------------------------------
\* A set of instants that is not empty has a first and a last one.
LEMMA FirstAndLast ==
  ASSUME NEW n \in Nat, NEW S \in SUBSET (0 .. n), S # {}
  PROVE  /\ Min(S) \in S /\ \A t \in S : Min(S) <= t
         /\ Max(S) \in S /\ \A t \in S : t <= Max(S)
<1>1. \E x \in S : \A y \in S : x <= y
  <2>1. IsWellFoundedOn(OpToRel(<, Nat), Nat)
    BY NatLessThanWellFounded
  <2>2. S \subseteq Nat
    OBVIOUS
  <2>3. PICK x \in S : \A y \in S : ~(<<y, x>> \in OpToRel(<, Nat))
    BY <2>1, <2>2, WFMin
  <2>4. \A y \in S : ~(y < x)
    BY <2>2, <2>3 DEF OpToRel
  <2> QED BY <2>2, <2>4
<1>2. \E x \in S : \A y \in S : x >= y
  <2> DEFINE U == {n - t : t \in S}
  <2>1. IsWellFoundedOn(OpToRel(<, Nat), Nat)
    BY NatLessThanWellFounded
  <2>2. U \subseteq Nat /\ U # {}
    <3>1. \A t \in S : n - t \in Nat
      OBVIOUS
    <3> QED BY <3>1
  <2>3. PICK u \in U : \A v \in U : ~(<<v, u>> \in OpToRel(<, Nat))
    <3> HIDE DEF U
    <3> QED BY <2>1, <2>2, WFMin
  <2>4. \A v \in U : ~(v < u)
    <3> HIDE DEF U
    <3> QED BY <2>2, <2>3 DEF OpToRel
  <2>5. PICK x \in S : u = n - x
    OBVIOUS
  <2>6. \A y \in S : n - y \in U
    OBVIOUS
  <2>7. \A y \in S : ~(n - y < n - x)
    BY <2>4, <2>5, <2>6
  <2> QED BY <2>7
<1>3. Min(S) \in S /\ \A t \in S : Min(S) <= t
  BY <1>1 DEF Min
<1>4. Max(S) \in S /\ \A t \in S : Max(S) >= t
  BY <1>2 DEF Max
<1> QED BY <1>3, <1>4

\* A batch of pings is a window around them.
LEMMA BatchSound ==
  ASSUME NEW P \in SUBSET Ts, P # {}
  PROVE  Batch(P) \in Windows /\ Batch(P).pings = P
<1>1. MaxTs \in Nat /\ P \in SUBSET (0 .. MaxTs)
  BY AnchorAssumption DEF Ts
<1>2. /\ Min(P) \in P /\ \A t \in P : Min(P) <= t
      /\ Max(P) \in P /\ \A t \in P : t <= Max(P)
  BY <1>1, FirstAndLast
<1> QED BY <1>1, <1>2 DEF Batch, Windows, Batches

\* What is saved begins after every window that is there.
LEMMA UsableSound ==
  ASSUME PipelineTyped, NEW P \in SUBSET Ts
  PROVE  /\ Usable(P) \in SUBSET Ts /\ Usable(P) \subseteq P
         /\ \A t \in Usable(P) : \A i \in DOMAIN rows : rows[i].batch.to < t
<1> DEFINE S == {rows[i].batch.to : i \in DOMAIN rows}
<1>1. ASSUME NEW i \in DOMAIN rows PROVE rows[i].batch.to \in 0 .. MaxTs
  <2>1. rows[i] \in RowState
    BY <1>1 DEF PipelineTyped
  <2> QED BY <2>1 DEF RowState, Windows, Batches
<1>2. S \in SUBSET (0 .. MaxTs) /\ MaxTs \in Nat
  BY <1>1, AnchorAssumption
<1>3. ASSUME NEW i \in DOMAIN rows PROVE rows[i].batch.to <= LastTo /\ LastTo \in Int
  <2>1. rows # <<>> /\ rows[i].batch.to \in S /\ S # {}
    BY <1>3
  <2>2. LastTo = Max(S)
    BY <2>1 DEF LastTo
  <2> HIDE DEF S
  <2>3. Max(S) \in S /\ \A t \in S : t <= Max(S)
    BY <1>2, <2>1, FirstAndLast
  <2>4. Max(S) \in Int /\ rows[i].batch.to <= Max(S)
    <3>1. \A m \in S : m \in Int
      BY <1>2
    <3> QED BY <2>1, <2>3, <3>1
  <2> QED BY <2>2, <2>4
<1>4. ASSUME NEW t \in Usable(P), NEW i \in DOMAIN rows PROVE rows[i].batch.to < t
  <2>1. t \in Int /\ t > LastTo
    BY DEF Usable, Ts
  <2> QED BY <1>1, <1>2, <1>3, <2>1
<1> QED BY <1>4 DEF Usable

LEMMA QuietTyped ==
  /\ Quiet \in SweepState /\ Quiet.pc = "idle" /\ Quiet.seen = {} /\ Quiet.batch = NoBatch
  /\ NoBatch.pings = {}
  /\ Resting \in [pc: {"idle", "submit", "mark"}, job: Nat, index: Index]
  /\ Resting.pc = "idle" /\ Resting.job = 0
BY AnchorAssumption DEF Quiet, NoBatch, SweepState, Resting, Unanchored, Index

LEMMA PipelineStarts == AnchorInit => PipelineInv
<1> SUFFICES ASSUME AnchorInit PROVE PipelineInv
  OBVIOUS
<1> USE DEF AnchorInit
<1>1. PipelineTyped
  BY QuietTyped, AnchorAssumption DEF PipelineTyped
<1>2. Archived
  BY QuietTyped DEF Archived
<1>3. WorkSound
  BY QuietTyped DEF WorkSound
<1>4. ChainInOrder
  BY DEF ChainInOrder
<1> QED BY <1>1, <1>2, <1>3, <1>4 DEF PipelineInv

\* What the steps of a sweep write: its own state, which is of the right kind and
\* holds archived pings only.
LEMMA SetSweepSound ==
  ASSUME PipelineInv, NEW s \in Sweep, NEW q \in SweepState, SetSweep(s, q),
         q.seen \subseteq archive, q.batch.pings \subseteq archive,
         q.pc \in {"save", "add"} => q.batch \in Windows
  PROVE  /\ sweep' \in [Sweep -> SweepState]
         /\ \A r \in Sweep :
              /\ sweep'[r].seen \subseteq archive /\ sweep'[r].batch.pings \subseteq archive
              /\ sweep'[r].pc \in {"save", "add"} => sweep'[r].batch \in Windows
<1>1. sweep \in [Sweep -> SweepState]
  BY DEF PipelineInv, PipelineTyped
<1>2. /\ sweep' \in [Sweep -> SweepState]
      /\ sweep'[s] = q /\ \A r \in Sweep \ {s} : sweep'[r] = sweep[r]
  BY <1>1 DEF SetSweep
<1>3. \A r \in Sweep :
        /\ sweep[r].seen \subseteq archive /\ sweep[r].batch.pings \subseteq archive
        /\ sweep[r].pc \in {"save", "add"} => sweep[r].batch \in Windows
  BY DEF PipelineInv, Archived
<1> QED BY <1>2, <1>3

LEMMA PingSound ==
  ASSUME PipelineInv, NEW t \in Ts, Ping(t) PROVE PipelineInv'
<1> USE DEF PipelineInv, Ping
<1>1. PipelineTyped'
  BY DEF PipelineTyped
<1>2. Archived'
  BY DEF Archived
<1>3. WorkSound' /\ ChainInOrder'
  BY DEF WorkSound, ChainInOrder
<1> QED BY <1>1, <1>2, <1>3

LEMMA DrainSound ==
  ASSUME PipelineInv, NEW s \in Sweep, Drain(s) PROVE PipelineInv'
<1> USE DEF Drain
<1> DEFINE q == [Quiet EXCEPT !.pc = "drained", !.seen = archive]
<1>1. q \in SweepState /\ q.seen = archive /\ q.batch.pings = {} /\ q.pc = "drained"
  BY QuietTyped DEF PipelineInv, PipelineTyped, SweepState, Quiet
<1>2. SetSweep(s, q)
  OBVIOUS
<1> HIDE DEF q
<1>3. /\ sweep' \in [Sweep -> SweepState]
      /\ \A r \in Sweep :
           /\ sweep'[r].seen \subseteq archive /\ sweep'[r].batch.pings \subseteq archive
           /\ sweep'[r].pc \in {"save", "add"} => sweep'[r].batch \in Windows
  BY <1>1, <1>2, SetSweepSound
<1>4. PipelineTyped'
  BY <1>3 DEF PipelineInv, PipelineTyped
<1>5. Archived'
  BY <1>3 DEF PipelineInv, Archived
<1>6. WorkSound' /\ ChainInOrder'
  BY DEF PipelineInv, WorkSound, ChainInOrder
<1> QED BY <1>4, <1>5, <1>6 DEF PipelineInv

LEMMA CloseWindowSound ==
  ASSUME PipelineInv, NEW s \in Sweep, CloseWindow(s) PROVE PipelineInv'
<1> USE DEF CloseWindow
<1> DEFINE P == Usable(sweep[s].seen)
           q == IF P = {} THEN Quiet ELSE [sweep[s] EXCEPT !.pc = "save", !.batch = Batch(P)]
<1>1. sweep[s] \in SweepState /\ sweep[s].seen \subseteq archive /\ sweep[s].seen \in SUBSET Ts
  BY DEF PipelineInv, PipelineTyped, Archived, SweepState
<1>2. P \in SUBSET Ts /\ P \subseteq archive
  BY <1>1, UsableSound DEF PipelineInv
<1>3. SetSweep(s, q)
  OBVIOUS
<1>4. /\ q \in SweepState /\ q.seen \subseteq archive /\ q.batch.pings \subseteq archive
      /\ q.pc \in {"save", "add"} => q.batch \in Windows
  <2>1. CASE P = {}
    BY <2>1, QuietTyped
  <2>2. CASE P # {}
    <3>1. Batch(P) \in Windows /\ Batch(P).pings = P
      BY <1>2, <2>2, BatchSound
    <3> HIDE DEF P
    <3>2. q = [sweep[s] EXCEPT !.pc = "save", !.batch = Batch(P)]
      BY <2>2
    <3>3. q \in SweepState /\ q.pc = "save" /\ q.batch = Batch(P) /\ q.seen = sweep[s].seen
      BY <1>1, <3>1, <3>2 DEF SweepState
    <3> QED BY <1>1, <1>2, <3>1, <3>3
  <2> QED BY <2>1, <2>2
<1> HIDE DEF q, P
<1>5. /\ sweep' \in [Sweep -> SweepState]
      /\ \A r \in Sweep :
           /\ sweep'[r].seen \subseteq archive /\ sweep'[r].batch.pings \subseteq archive
           /\ sweep'[r].pc \in {"save", "add"} => sweep'[r].batch \in Windows
  BY <1>3, <1>4, SetSweepSound
<1>6. PipelineTyped'
  BY <1>5 DEF PipelineInv, PipelineTyped
<1>7. Archived'
  BY <1>5 DEF PipelineInv, Archived
<1>8. WorkSound' /\ ChainInOrder'
  BY DEF PipelineInv, WorkSound, ChainInOrder
<1> QED BY <1>6, <1>7, <1>8 DEF PipelineInv

LEMMA SaveBatchSound ==
  ASSUME PipelineInv, NEW s \in Sweep, SaveBatch(s) PROVE PipelineInv'
<1> USE DEF SaveBatch
<1> DEFINE b == sweep[s].batch
           q == [sweep[s] EXCEPT !.pc = "add"]
<1>1. sweep[s] \in SweepState /\ b \in Windows /\ b.pings \subseteq archive
      /\ sweep[s].seen \subseteq archive
  BY DEF PipelineInv, PipelineTyped, Archived
<1>2. q \in SweepState /\ q.batch = b /\ q.seen = sweep[s].seen
  BY <1>1 DEF SweepState
<1>3. SetSweep(s, q) /\ rows' = Append(rows, NewRow(b))
  OBVIOUS
<1>4. NewRow(b) \in RowState /\ NewRow(b).batch = b
  BY <1>1, AnchorAssumption DEF NewRow, RowState, Index, Unanchored
<1> HIDE DEF q, b
<1>5. /\ sweep' \in [Sweep -> SweepState]
      /\ \A r \in Sweep :
           /\ sweep'[r].seen \subseteq archive /\ sweep'[r].batch.pings \subseteq archive
           /\ sweep'[r].pc \in {"save", "add"} => sweep'[r].batch \in Windows
  BY <1>1, <1>2, <1>3, SetSweepSound
<1>6. rows \in Seq(RowState)
  BY DEF PipelineInv, PipelineTyped
<1>7. rows' \in Seq(RowState)
  BY <1>3, <1>4, <1>6
<1>8. \A i \in DOMAIN rows' : rows'[i].batch.pings \subseteq archive
  <2> TAKE i \in DOMAIN rows'
  <2>1. CASE i \in DOMAIN rows
    <3>1. rows'[i] = rows[i]
      BY <1>3, <1>6, <2>1
    <3> QED BY <2>1, <3>1 DEF PipelineInv, Archived
  <2>2. CASE i \notin DOMAIN rows
    <3>1. rows'[i] = NewRow(b)
      BY <1>3, <1>6, <2>2
    <3> QED BY <1>1, <1>4, <3>1
  <2> QED BY <2>1, <2>2
<1>9. PipelineTyped'
  BY <1>5, <1>7 DEF PipelineInv, PipelineTyped
<1>10. Archived'
  BY <1>5, <1>8 DEF PipelineInv, Archived
<1>11. WorkSound' /\ ChainInOrder'
  BY DEF PipelineInv, WorkSound, ChainInOrder
<1> QED BY <1>9, <1>10, <1>11 DEF PipelineInv

LEMMA AddJobSound ==
  ASSUME PipelineInv, NEW s \in Sweep, AddJob(s) PROVE PipelineInv'
<1> USE DEF AddJob
<1> DEFINE b == sweep[s].batch
           j == [batch |-> b, state |-> "waiting", attempts |-> 0]
<1>1. b \in Windows
  BY DEF PipelineInv, Archived
<1>2. j \in JobState /\ j.state = "waiting" /\ j.attempts = 0
  BY <1>1, AnchorAssumption DEF JobState
<1>3. (jobs' = jobs \/ jobs' = Append(jobs, j)) /\ SetSweep(s, Quiet)
  OBVIOUS
<1> HIDE DEF j, b
<1>4. /\ sweep' \in [Sweep -> SweepState]
      /\ \A r \in Sweep :
           /\ sweep'[r].seen \subseteq archive /\ sweep'[r].batch.pings \subseteq archive
           /\ sweep'[r].pc \in {"save", "add"} => sweep'[r].batch \in Windows
  BY <1>3, QuietTyped, SetSweepSound
<1>5. jobs \in Seq(JobState) /\ worker.job \in Nat
  BY DEF PipelineInv, PipelineTyped
<1>6. /\ jobs' \in Seq(JobState) /\ Len(jobs) <= Len(jobs')
      /\ \A i \in DOMAIN jobs : i \in DOMAIN jobs' /\ jobs'[i] = jobs[i]
      /\ \A i \in DOMAIN jobs' : i \notin DOMAIN jobs => jobs'[i] = j
  BY <1>2, <1>3, <1>5
<1>7. PipelineTyped'
  BY <1>4, <1>6 DEF PipelineInv, PipelineTyped
<1>8. Archived'
  BY <1>4 DEF PipelineInv, Archived
<1>9. WorkSound'
  <2>1. /\ worker.job <= Len(jobs)
        /\ worker.pc # "idle" => worker.job > 0 /\ jobs[worker.job].state = "active"
        /\ \A i \in DOMAIN jobs :
             jobs[i].state \in {"waiting", "active"} => jobs[i].attempts < MaxAttempts
    BY DEF PipelineInv, WorkSound
  <2>2. worker' = worker /\ worker.job <= Len(jobs')
    BY <1>5, <1>6, <2>1
  <2>3. worker.pc # "idle" => worker.job > 0 /\ jobs'[worker.job].state = "active"
    BY <1>5, <1>6, <2>1
  <2>4. 0 < MaxAttempts
    BY AnchorAssumption
  <2>5. \A i \in DOMAIN jobs' :
          jobs'[i].state \in {"waiting", "active"} => jobs'[i].attempts < MaxAttempts
    BY <1>2, <1>6, <2>1, <2>4
  <2> QED BY <2>2, <2>3, <2>5 DEF WorkSound
<1>10. ChainInOrder'
  BY DEF PipelineInv, ChainInOrder
<1> QED BY <1>7, <1>8, <1>9, <1>10 DEF PipelineInv

LEMMA SweepDiesSound ==
  ASSUME PipelineInv, NEW s \in Sweep, SweepDies(s) PROVE PipelineInv'
<1> USE DEF SweepDies
<1>1. /\ sweep' \in [Sweep -> SweepState]
      /\ \A r \in Sweep :
           /\ sweep'[r].seen \subseteq archive /\ sweep'[r].batch.pings \subseteq archive
           /\ sweep'[r].pc \in {"save", "add"} => sweep'[r].batch \in Windows
  BY QuietTyped, SetSweepSound
<1>2. faults' \in 0 .. MaxFaults
  BY AnchorAssumption DEF PipelineInv, PipelineTyped
<1>3. PipelineTyped'
  BY <1>1, <1>2 DEF PipelineInv, PipelineTyped
<1>4. Archived'
  BY <1>1 DEF PipelineInv, Archived
<1>5. WorkSound' /\ ChainInOrder'
  BY DEF PipelineInv, WorkSound, ChainInOrder
<1> QED BY <1>3, <1>4, <1>5 DEF PipelineInv

LEMMA TakeJobSound ==
  ASSUME PipelineInv, NEW i \in DOMAIN jobs, TakeJob(i) PROVE PipelineInv'
<1> USE DEF TakeJob
<1>1. jobs \in Seq(JobState) /\ i \in Nat /\ 0 < i /\ i <= Len(jobs)
  BY DEF PipelineInv, PipelineTyped
<1>2. jobs[i] \in JobState /\ jobs[i].state = "waiting" /\ jobs[i].attempts < MaxAttempts
  BY <1>1 DEF PipelineInv, WorkSound
<1>3. [jobs[i] EXCEPT !.state = "active"] \in JobState
  BY <1>2 DEF JobState
<1>4. /\ jobs' \in Seq(JobState) /\ Len(jobs') = Len(jobs)
      /\ jobs'[i] = [jobs[i] EXCEPT !.state = "active"]
      /\ \A h \in DOMAIN jobs : h # i => jobs'[h] = jobs[h]
  BY <1>1, <1>3
<1>5. worker' \in [pc: {"idle", "submit", "mark"}, job: Nat, index: Index]
  BY <1>1, AnchorAssumption DEF Unanchored, Index
<1>6. PipelineTyped'
  BY <1>4, <1>5 DEF PipelineInv, PipelineTyped
<1>7. Archived'
  BY DEF PipelineInv, Archived
<1>8. WorkSound'
  <2>1. worker'.job = i /\ jobs'[i].state = "active" /\ jobs'[i].attempts = jobs[i].attempts
    BY <1>2, <1>4 DEF JobState
  <2>2. DOMAIN jobs' = DOMAIN jobs
    BY <1>1, <1>4
  <2>3. \A h \in DOMAIN jobs :
          jobs'[h].state \in {"waiting", "active"} => jobs'[h].attempts < MaxAttempts
    BY <1>2, <1>4, <2>1 DEF PipelineInv, WorkSound
  <2> QED BY <1>1, <1>4, <2>1, <2>2, <2>3 DEF WorkSound
<1>9. ChainInOrder'
  BY DEF PipelineInv, ChainInOrder
<1> QED BY <1>6, <1>7, <1>8, <1>9 DEF PipelineInv

\* A job that is over is not touched again, whatever became of it.
LEMMA JobEndSound ==
  ASSUME PipelineInv, worker.pc # "idle", NEW j \in JobState, j.state # "active",
         j.state = "waiting" => j.attempts < MaxAttempts,
         jobs' = [jobs EXCEPT ![worker.job] = j], worker' = Resting
  PROVE  jobs' \in Seq(JobState) /\ WorkSound'
<1>1. jobs \in Seq(JobState) /\ worker.job \in Nat /\ worker.job <= Len(jobs) /\ worker.job > 0
  BY DEF PipelineInv, PipelineTyped, WorkSound
<1>2. /\ jobs' \in Seq(JobState) /\ DOMAIN jobs' = DOMAIN jobs /\ Len(jobs') = Len(jobs)
      /\ jobs'[worker.job] = j
      /\ \A h \in DOMAIN jobs : h # worker.job => jobs'[h] = jobs[h]
  BY <1>1
<1>3. \A h \in DOMAIN jobs :
        jobs'[h].state \in {"waiting", "active"} => jobs'[h].attempts < MaxAttempts
  BY <1>2 DEF PipelineInv, WorkSound
<1>4. worker'.job <= Len(jobs') /\ worker'.pc = "idle"
  BY <1>1, <1>2, QuietTyped
<1> QED BY <1>2, <1>3, <1>4 DEF WorkSound

\* The job the worker has is one of the queue's.
LEMMA CurrentSound ==
  ASSUME PipelineInv, worker.pc # "idle"
  PROVE  /\ worker.job \in DOMAIN jobs /\ Current \in JobState /\ Current = jobs[worker.job]
         /\ Current.state = "active" /\ Current.attempts < MaxAttempts
<1>1. jobs \in Seq(JobState) /\ worker.job \in Nat /\ worker.job <= Len(jobs) /\ worker.job > 0
  BY DEF PipelineInv, PipelineTyped, WorkSound
<1>2. worker.job \in DOMAIN jobs
  BY <1>1
<1> QED BY <1>1, <1>2 DEF PipelineInv, WorkSound, Current

LEMMA FinishSound ==
  ASSUME PipelineInv, worker.pc # "idle", NEW state \in {"done", "failed"},
         Finish(state), worker' = Resting
  PROVE  jobs' \in Seq(JobState) /\ WorkSound'
<1> DEFINE j == [jobs[worker.job] EXCEPT !.state = state]
<1>1. j \in JobState /\ j.state = state
  BY CurrentSound DEF JobState
<1>2. jobs' = [jobs EXCEPT ![worker.job] = j]
  BY DEF Finish
<1> HIDE DEF j
<1> QED BY <1>1, <1>2, JobEndSound

\* The contract takes a window only if it begins after the last one has ended.
LEMMA AnchorBatchSound ==
  ASSUME PipelineInv, AnchorBatch PROVE PipelineInv'
<1> USE DEF AnchorBatch
<1> DEFINE b == Current.batch
<1>1. /\ b \in Windows /\ b.from \in Ts /\ b.to \in Ts /\ b.from <= b.to
      /\ b.to \in Int /\ b.from \in Int /\ b.to <= MaxTs
  BY CurrentSound DEF JobState, Windows, Batches, Ts
<1>2. chain \in Seq(Windows) /\ Len(chain) \in Nat /\ MaxTs \in Nat
  BY AnchorAssumption DEF PipelineInv, PipelineTyped
<1>3. \A i \in DOMAIN chain : chain[i].to \in Int /\ chain[i].from \in Int
  BY <1>2 DEF Windows, Batches
<1>4. ~Overlaps(b) /\ chain' = Append(chain, b)
  OBVIOUS
<1> HIDE DEF b
<1>5. ASSUME NEW i \in DOMAIN chain PROVE chain[i].to < b.from
  <2>1. chain # <<>> /\ Last(chain) = chain[Len(chain)] /\ Len(chain) \in DOMAIN chain
    BY <1>2, <1>5 DEF Last
  <2>2. chain[Len(chain)].to < b.from
    BY <1>1, <1>3, <1>4, <2>1 DEF Overlaps
  <2>3. CASE i = Len(chain)
    BY <2>2, <2>3
  <2>4. CASE i # Len(chain)
    <3>1. i < Len(chain)
      BY <1>2, <1>5, <2>4
    <3>2. chain[i].to < chain[Len(chain)].from
      BY <2>1, <3>1 DEF PipelineInv, ChainInOrder
    <3>3. chain[Len(chain)].from <= chain[Len(chain)].to
      BY <1>2, <2>1 DEF Windows, Batches, Ts
    <3> QED BY <1>1, <1>3, <2>1, <2>2, <3>2, <3>3
  <2> QED BY <2>3, <2>4
<1>6. /\ chain' \in Seq(Windows) /\ DOMAIN chain' = 1 .. Len(chain) + 1
      /\ chain'[Len(chain) + 1] = b
      /\ \A i \in DOMAIN chain : chain'[i] = chain[i]
      /\ DOMAIN chain = 1 .. Len(chain)
  BY <1>1, <1>2, <1>4
<1>7. Len(chain) + 1 <= b.to
  <2>1. CASE Len(chain) = 0
    BY <1>1, <2>1 DEF Ts
  <2>2. CASE Len(chain) # 0
    <3>1. Len(chain) \in DOMAIN chain
      BY <1>2, <2>2
    <3>2. Len(chain) <= chain[Len(chain)].to /\ chain[Len(chain)].to < b.from
      BY <1>5, <3>1 DEF PipelineInv, ChainInOrder
    <3> QED BY <1>1, <1>2, <1>3, <3>1, <3>2
  <2> QED BY <2>1, <2>2
<1>8. ChainInOrder'
  <2>1. ASSUME NEW i \in DOMAIN chain', NEW k \in DOMAIN chain', i < k
        PROVE  chain'[i].to < chain'[k].from
    <3>1. i \in DOMAIN chain
      BY <1>2, <1>6, <2>1
    <3>2. CASE k \in DOMAIN chain
      BY <1>6, <2>1, <3>1, <3>2 DEF PipelineInv, ChainInOrder
    <3>3. CASE k \notin DOMAIN chain
      <4>1. k = Len(chain) + 1
        BY <1>2, <1>6, <3>3
      <4> QED BY <1>5, <1>6, <3>1, <4>1
    <3> QED BY <3>2, <3>3
  <2>2. ASSUME NEW i \in DOMAIN chain' PROVE i <= chain'[i].to
    <3>1. CASE i \in DOMAIN chain
      BY <1>6, <3>1 DEF PipelineInv, ChainInOrder
    <3>2. CASE i \notin DOMAIN chain
      <4>1. i = Len(chain) + 1
        BY <1>2, <1>6, <2>2, <3>2
      <4> QED BY <1>6, <1>7, <4>1
    <3> QED BY <3>1, <3>2
  <2> QED BY <2>1, <2>2 DEF ChainInOrder
<1>9. Len(chain) \in Index
  BY <1>1, <1>2, <1>7 DEF Index
<1>10. worker' \in [pc: {"idle", "submit", "mark"}, job: Nat, index: Index]
  BY <1>9 DEF PipelineInv, PipelineTyped
<1>11. PipelineTyped'
  BY <1>6, <1>10 DEF PipelineInv, PipelineTyped
<1>12. Archived'
  BY DEF PipelineInv, Archived
<1>13. WorkSound'
  <2>1. worker'.pc = "mark" /\ worker'.job = worker.job
    BY DEF PipelineInv, PipelineTyped
  <2> QED BY <2>1 DEF PipelineInv, WorkSound
<1> QED BY <1>8, <1>11, <1>12, <1>13 DEF PipelineInv

LEMMA OverlapRevertsSound ==
  ASSUME PipelineInv, OverlapReverts PROVE PipelineInv'
<1> USE DEF OverlapReverts
<1>1. worker.pc # "idle" /\ worker' = Resting /\ (Finish("done") \/ Finish("failed"))
  BY DEF AfterOverlap
<1>2. jobs' \in Seq(JobState) /\ WorkSound'
  BY <1>1, FinishSound
<1>3. PipelineTyped'
  BY <1>1, <1>2, QuietTyped DEF PipelineInv, PipelineTyped
<1>4. Archived'
  BY DEF PipelineInv, Archived
<1>5. ChainInOrder'
  BY DEF PipelineInv, ChainInOrder
<1> QED BY <1>2, <1>3, <1>4, <1>5 DEF PipelineInv

\* markAnchored writes an index into one row, and nothing else of it.
LEMMA MarkSound ==
  ASSUME PipelineInv, MarkAnchored
  PROVE  /\ rows' \in Seq(RowState) /\ DOMAIN rows' = DOMAIN rows
         /\ \A i \in DOMAIN rows : rows'[i].batch = rows[i].batch
         /\ \A i \in DOMAIN rows :
              (Pending = {} \/ i # Min(Pending)) => rows'[i].index = rows[i].index
         /\ Pending # {} =>
              /\ Min(Pending) \in Pending /\ rows'[Min(Pending)].index = worker.index
              /\ \A i \in Pending : Min(Pending) <= i
<1> USE DEF MarkAnchored
<1>1. rows \in Seq(RowState) /\ worker.index \in Index
  BY DEF PipelineInv, PipelineTyped
<1>2. CASE Pending = {}
  BY <1>1, <1>2
<1>3. CASE Pending # {}
  <2> DEFINE m == Min(Pending)
  <2>1. Pending \in SUBSET (0 .. Len(rows)) /\ Pending \subseteq DOMAIN rows /\ Len(rows) \in Nat
    BY <1>1 DEF Pending
  <2>2. m \in Pending /\ \A i \in Pending : m <= i
    BY <1>3, <2>1, FirstAndLast
  <2>3. rows' = [rows EXCEPT ![m].index = worker.index]
    BY <1>3 DEF MarkIndex
  <2> HIDE DEF m
  <2>4. m \in DOMAIN rows /\ rows[m] \in RowState
    BY <1>1, <2>1, <2>2
  <2>5. [rows[m] EXCEPT !.index = worker.index] \in RowState
    BY <1>1, <2>4 DEF RowState
  <2>6. /\ rows' \in Seq(RowState) /\ DOMAIN rows' = DOMAIN rows
        /\ rows'[m] = [rows[m] EXCEPT !.index = worker.index]
        /\ \A i \in DOMAIN rows : i # m => rows'[i] = rows[i]
    <3> DEFINE r == [rows[m] EXCEPT !.index = worker.index]
    <3>1. rows' = [rows EXCEPT ![m] = r]
      BY <2>3
    <3> HIDE DEF r
    <3>2. r \in RowState
      BY <2>5 DEF r
    <3>3. /\ rows' \in Seq(RowState) /\ DOMAIN rows' = DOMAIN rows /\ rows'[m] = r
          /\ \A i \in DOMAIN rows : i # m => rows'[i] = rows[i]
      <4>1. m \in 1 .. Len(rows) /\ rows \in Seq(RowState)
        BY <1>1, <2>4
      <4>2. rows' \in [1 .. Len(rows) -> RowState]
        <5>1. rows \in [1 .. Len(rows) -> RowState]
          BY <4>1
        <5> QED BY <3>1, <3>2, <4>1, <5>1
      <4>3. rows' \in Seq(RowState) /\ DOMAIN rows' = DOMAIN rows
        BY <4>1, <4>2, <2>1
      <4> QED BY <2>4, <3>1, <4>3
    <3> QED BY <3>3 DEF r
  <2>7. rows'[m].batch = rows[m].batch /\ rows'[m].index = worker.index
    BY <2>4, <2>6 DEF RowState
  <2> QED BY <1>3, <2>2, <2>4, <2>6, <2>7 DEF m
<1> QED BY <1>2, <1>3

LEMMA MarkAnchoredSound ==
  ASSUME PipelineInv, MarkAnchored PROVE PipelineInv'
<1> USE DEF MarkAnchored
<1>1. jobs' \in Seq(JobState) /\ WorkSound'
  BY FinishSound
<1>2. /\ rows' \in Seq(RowState) /\ DOMAIN rows' = DOMAIN rows
      /\ \A i \in DOMAIN rows : rows'[i].batch = rows[i].batch
  BY MarkSound
<1>3. PipelineTyped'
  BY <1>1, <1>2, QuietTyped DEF PipelineInv, PipelineTyped
<1>4. Archived'
  BY <1>2 DEF PipelineInv, Archived
<1>5. ChainInOrder'
  BY DEF PipelineInv, ChainInOrder
<1> QED BY <1>1, <1>3, <1>4, <1>5 DEF PipelineInv

LEMMA JobFailsSound ==
  ASSUME PipelineInv, JobFails PROVE PipelineInv'
<1> USE DEF JobFails
<1> DEFINE j == Retried(Current)
<1>1. /\ Current \in JobState /\ Current.attempts < MaxAttempts
      /\ Current.attempts \in Nat /\ MaxAttempts \in Nat
  BY CurrentSound, AnchorAssumption DEF JobState
<1>2. /\ j \in JobState /\ j.state # "active"
      /\ j.state = "waiting" => j.attempts < MaxAttempts
  <2>1. /\ j.attempts = Current.attempts + 1
        /\ j.batch = Current.batch
        /\ j.state = IF Current.attempts + 1 < MaxAttempts THEN "waiting" ELSE "failed"
    BY <1>1 DEF Retried, JobState
  <2>0. j \in [batch: {j.batch}, state: {j.state}, attempts: {j.attempts}]
    BY <1>1 DEF Retried, JobState
  <2> HIDE DEF j
  <2>2. j.batch \in Windows /\ j.attempts \in 0 .. MaxAttempts
    BY <1>1, <2>1 DEF JobState
  <2>3. CASE Current.attempts + 1 < MaxAttempts
    BY <2>0, <2>1, <2>2, <2>3 DEF JobState
  <2>4. CASE ~(Current.attempts + 1 < MaxAttempts)
    BY <2>0, <2>1, <2>2, <2>4 DEF JobState
  <2> QED BY <2>3, <2>4
<1>3. jobs' = [jobs EXCEPT ![worker.job] = j] /\ worker' = Resting /\ worker.pc # "idle"
  BY CurrentSound DEF Current
<1> HIDE DEF j
<1>4. jobs' \in Seq(JobState) /\ WorkSound'
  BY <1>2, <1>3, JobEndSound
<1>5. faults' \in 0 .. MaxFaults
  BY AnchorAssumption DEF PipelineInv, PipelineTyped
<1>6. PipelineTyped'
  BY <1>3, <1>4, <1>5, QuietTyped DEF PipelineInv, PipelineTyped
<1>7. Archived'
  BY DEF PipelineInv, Archived
<1>8. ChainInOrder'
  BY DEF PipelineInv, ChainInOrder
<1> QED BY <1>4, <1>6, <1>7, <1>8 DEF PipelineInv

LEMMA PipelineStep ==
  ASSUME PipelineInv, [AnchorNext]_anchorVars PROVE PipelineInv'
<1>1. CASE UNCHANGED anchorVars
  <2> USE <1>1 DEF anchorVars
  <2>1. PipelineTyped' /\ Archived'
    BY DEF PipelineInv, PipelineTyped, Archived
  <2>2. WorkSound' /\ ChainInOrder'
    BY DEF PipelineInv, WorkSound, ChainInOrder
  <2> QED BY <2>1, <2>2 DEF PipelineInv
<1>2. ASSUME NEW t \in Ts, Ping(t) PROVE PipelineInv'
  BY <1>2, PingSound
<1>3. ASSUME NEW s \in Sweep, ProceedSweep(s) \/ SweepDies(s) PROVE PipelineInv'
  BY <1>3, DrainSound, CloseWindowSound, SaveBatchSound, AddJobSound, SweepDiesSound
  DEF ProceedSweep
<1>4. ASSUME ProceedWorker PROVE PipelineInv'
  BY <1>4, TakeJobSound, AnchorBatchSound, OverlapRevertsSound, MarkAnchoredSound
  DEF ProceedWorker
<1>5. ASSUME JobFails PROVE PipelineInv'
  BY <1>5, JobFailsSound
<1> QED BY <1>1, <1>2, <1>3, <1>4, <1>5 DEF AnchorNext

\* The pipeline's inductive invariant, for any number of sweeps at a time: what is of
\* which kind, that batches are windows around archived pings, and that TripLogAnchor's
\* guard keeps the windows on the chain in order.
THEOREM PipelineInvariant == AnchorSpec => []PipelineInv
<1>1. PipelineInv /\ [AnchorNext]_anchorVars => PipelineInv'
  BY PipelineStep
<1> QED BY <1>1, PipelineStarts, PTL DEF AnchorSpec

\* The state of the pipeline is of the kind that the tables, the queue and the contract
\* allow: an index is one the contract gave, a job has attempts left or is over.
THEOREM AnchorTypeCorrect == AnchorSpec => []AnchorTypeOK
<1>1. ASSUME PipelineInv PROVE AnchorTypeOK
  <2> USE <1>1
  <2>1. \A i \in DOMAIN rows : rows[i] \in [batch: Batches, index: Index]
    <3>1. \A i \in DOMAIN rows : rows[i] \in RowState
      BY DEF PipelineInv, PipelineTyped
    <3> QED BY <3>1 DEF RowState, Windows
  <2>2. NoBatch \in Batches
    BY AnchorAssumption DEF NoBatch, Batches
  <2>3. SweepState \subseteq
          [pc: {"idle", "drained", "save", "add"}, seen: SUBSET Ts, batch: Batches]
    BY <2>2 DEF SweepState, Windows
  <2>4. sweep \in [Sweep -> [pc: {"idle", "drained", "save", "add"}, seen: SUBSET Ts,
                             batch: Batches]]
    BY <2>3 DEF PipelineInv, PipelineTyped
  <2>5. JobState \subseteq
          [batch: Batches, state: {"waiting", "active", "done", "failed"},
           attempts: 0 .. MaxAttempts]
    BY DEF JobState, Windows
  <2>6. \A i \in DOMAIN jobs : jobs[i] \in JobState
    BY DEF PipelineInv, PipelineTyped
  <2>7. worker \in [pc: {"idle", "submit", "mark"}, job: 0 .. Len(jobs), index: Index]
    BY DEF PipelineInv, PipelineTyped, WorkSound
  <2>8. \A i \in DOMAIN chain : chain[i] \in Batches
    BY DEF PipelineInv, PipelineTyped, Windows
  <2> QED BY <2>1, <2>4, <2>5, <2>6, <2>7, <2>8 DEF AnchorTypeOK, PipelineInv, PipelineTyped
<1> QED BY <1>1, PipelineInvariant, PTL

--------------------------------------------------------------------------------
\* One sweep at a time, and nothing has failed: rows, jobs and the chain go through
\* the same windows in the same order.
OneSweep == \A r, s \in Sweep : r = s

Adding == \E s \in Sweep : sweep[s].pc = "add"
Taken == IF worker.pc = "submit" THEN Len(chain) + 1 ELSE Len(chain)
Marked == IF worker.pc = "mark" THEN Len(chain) - 1 ELSE Len(chain)

\* Each window begins after the one saved before it has ended.
RowsInOrder ==
  /\ \A i, j \in DOMAIN rows : i < j => rows[i].batch.to < rows[j].batch.from
  /\ \A s \in Sweep :
       /\ sweep[s].pc = "save" => \A i \in DOMAIN rows : rows[i].batch.to < sweep[s].batch.from
       /\ sweep[s].pc = "add" => Len(rows) > 0 /\ sweep[s].batch = rows[Len(rows)].batch

\* There is a job for each row, but for the one the sweep has just saved, and the
\* worker takes them in their order.
QueueInOrder ==
  /\ Len(rows) = IF Adding THEN Len(jobs) + 1 ELSE Len(jobs)
  /\ \A i \in DOMAIN jobs : jobs[i].batch = rows[i].batch
  /\ Taken <= Len(jobs)
  /\ \A i \in DOMAIN jobs : i <= Taken => jobs[i].state # "waiting"
  /\ \A i \in DOMAIN jobs : i > Taken => jobs[i].state = "waiting" /\ jobs[i].attempts = 0
  /\ worker.pc # "idle" => worker.job = Taken

\* Batch i - 1 of the chain is that of row i, and the row is marked with i - 1.
ChainInStep ==
  /\ \A i \in DOMAIN chain : chain[i] = rows[i].batch
  /\ worker.pc = "mark" => worker.index = Len(chain) - 1 /\ Len(chain) > 0
  /\ \A i \in DOMAIN rows : i <= Marked => rows[i].index = i - 1
  /\ \A i \in DOMAIN rows : i > Marked => rows[i].index = Unanchored

Ordered == RowsInOrder /\ QueueInOrder /\ ChainInStep
InStep == faults = 0 => Ordered

\* What every step below needs of the kinds of things.
LEMMA Sizes ==
  ASSUME PipelineInv
  PROVE  /\ rows \in Seq(RowState) /\ Len(rows) \in Nat /\ DOMAIN rows = 1 .. Len(rows)
         /\ jobs \in Seq(JobState) /\ Len(jobs) \in Nat /\ DOMAIN jobs = 1 .. Len(jobs)
         /\ chain \in Seq(Windows) /\ Len(chain) \in Nat /\ DOMAIN chain = 1 .. Len(chain)
         /\ Marked <= Taken /\ Taken \in Nat /\ Marked \in Int
<1>1. rows \in Seq(RowState) /\ jobs \in Seq(JobState) /\ chain \in Seq(Windows)
  BY DEF PipelineInv, PipelineTyped
<1>2. Len(chain) \in Nat
  BY <1>1
<1>3. Marked <= Taken /\ Taken \in Nat /\ Marked \in Int
  BY <1>2 DEF Marked, Taken
<1> QED BY <1>1, <1>3

LEMMA RowTyped ==
  ASSUME PipelineInv, NEW i \in DOMAIN rows
  PROVE  /\ rows[i].batch \in Windows /\ rows[i].batch.from \in Int /\ rows[i].batch.to \in Int
         /\ rows[i].batch.from <= rows[i].batch.to /\ rows[i].index \in Int
<1>1. rows[i] \in RowState
  BY DEF PipelineInv, PipelineTyped
<1>2. rows[i].batch \in Windows /\ rows[i].index \in Int
  BY <1>1 DEF RowState, Index
<1> QED BY <1>2 DEF Windows, Batches

\* The only sweep is the one that moves.
LEMMA SweepMoves ==
  ASSUME OneSweep, PipelineInv, NEW s \in Sweep, NEW q, SetSweep(s, q)
  PROVE  /\ \A r \in Sweep : sweep'[r] = q
         /\ \A r \in Sweep : sweep[r] = sweep[s]
         /\ Adding <=> sweep[s].pc = "add"
         /\ Adding' <=> q.pc = "add"
<1>1. sweep' = [sweep EXCEPT ![s] = q] /\ \A r \in Sweep : r = s
  BY DEF SetSweep, OneSweep
<1>2. sweep' = [r \in Sweep |-> q]
  BY <1>1 DEF PipelineInv, PipelineTyped
<1> QED BY <1>1, <1>2 DEF Adding

LEMMA StartsOrdered == AnchorInit => InStep
<1> SUFFICES ASSUME AnchorInit PROVE Ordered
  BY DEF InStep
<1> USE DEF AnchorInit
<1>1. ~Adding
  BY QuietTyped DEF Adding
<1>2. Len(rows) = 0 /\ Len(jobs) = 0 /\ Len(chain) = 0
      /\ DOMAIN rows = {} /\ DOMAIN jobs = {} /\ DOMAIN chain = {}
  OBVIOUS
<1>3. worker.pc = "idle" /\ Taken = 0
  BY <1>2, QuietTyped DEF Taken
<1>4. RowsInOrder
  BY <1>2, QuietTyped DEF RowsInOrder
<1>5. QueueInOrder
  BY <1>1, <1>2, <1>3 DEF QueueInOrder
<1>6. ChainInStep
  BY <1>2, <1>3 DEF ChainInStep
<1> QED BY <1>4, <1>5, <1>6 DEF Ordered

LEMMA DrainOrdered ==
  ASSUME OneSweep, PipelineInv, Ordered, NEW s \in Sweep, Drain(s) PROVE Ordered'
<1> USE DEF Drain, Ordered
<1> DEFINE q == [Quiet EXCEPT !.pc = "drained", !.seen = archive]
<1>1. q.pc = "drained" /\ SetSweep(s, q)
  BY DEF Quiet
<1> HIDE DEF q
<1>2. (\A r \in Sweep : sweep'[r].pc = "drained") /\ ~Adding /\ ~Adding'
  BY <1>1, SweepMoves
<1>3. RowsInOrder'
  BY <1>2 DEF RowsInOrder
<1>4. QueueInOrder'
  BY <1>2 DEF QueueInOrder, Taken
<1>5. ChainInStep'
  BY DEF ChainInStep, Marked
<1> QED BY <1>3, <1>4, <1>5

LEMMA CloseWindowOrdered ==
  ASSUME OneSweep, PipelineInv, Ordered, NEW s \in Sweep, CloseWindow(s) PROVE Ordered'
<1> USE DEF CloseWindow, Ordered
<1> DEFINE P == Usable(sweep[s].seen)
           q == IF P = {} THEN Quiet ELSE [sweep[s] EXCEPT !.pc = "save", !.batch = Batch(P)]
<1>1. sweep[s] \in SweepState /\ sweep[s].seen \in SUBSET Ts
  BY DEF PipelineInv, PipelineTyped, SweepState
<1>2. P \in SUBSET Ts /\ \A t \in P : \A i \in DOMAIN rows : rows[i].batch.to < t
  BY <1>1, UsableSound DEF PipelineInv
<1>3. SetSweep(s, q)
  OBVIOUS
<1>4. /\ q.pc \in {"idle", "save"}
      /\ q.pc = "save" => \A i \in DOMAIN rows : rows[i].batch.to < q.batch.from
  <2>1. CASE P = {}
    BY <2>1, QuietTyped
  <2>2. CASE P # {}
    <3>1. Batch(P) \in Windows /\ Batch(P).pings = P
      BY <1>2, <2>2, BatchSound
    <3>2. Batch(P).from \in P
      BY <3>1 DEF Windows
    <3> HIDE DEF P
    <3>3. q = [sweep[s] EXCEPT !.pc = "save", !.batch = Batch(P)]
      BY <2>2
    <3>4. q.pc = "save" /\ q.batch = Batch(P)
      BY <1>1, <3>3 DEF SweepState
    <3> QED BY <1>2, <3>2, <3>4
  <2> QED BY <2>1, <2>2
<1> HIDE DEF q, P
<1>5. (\A r \in Sweep : sweep'[r] = q) /\ ~Adding /\ ~Adding'
  BY <1>3, <1>4, SweepMoves
<1>6. RowsInOrder'
  BY <1>4, <1>5 DEF RowsInOrder
<1>7. QueueInOrder'
  BY <1>5 DEF QueueInOrder, Taken
<1>8. ChainInStep'
  BY DEF ChainInStep, Marked
<1> QED BY <1>6, <1>7, <1>8

LEMMA SaveBatchOrdered ==
  ASSUME OneSweep, PipelineInv, Ordered, NEW s \in Sweep, SaveBatch(s) PROVE Ordered'
<1> USE DEF SaveBatch, Ordered
<1> DEFINE b == sweep[s].batch
           q == [sweep[s] EXCEPT !.pc = "add"]
           n == Len(rows)
<1>1. sweep[s] \in SweepState
  BY DEF PipelineInv, PipelineTyped
<1>2. /\ SetSweep(s, q) /\ q.pc = "add" /\ q.batch = b /\ sweep[s].pc = "save"
      /\ rows' = Append(rows, NewRow(b))
  BY <1>1 DEF SweepState
<1>3. NewRow(b).batch = b /\ NewRow(b).index = Unanchored
  BY DEF NewRow
<1>4. \A i \in DOMAIN rows : rows[i].batch.to < b.from
  BY DEF RowsInOrder
<1> HIDE DEF q, b
<1>5. (\A r \in Sweep : sweep'[r] = q) /\ ~Adding /\ Adding'
  BY <1>2, SweepMoves
<1>6. /\ rows \in Seq(RowState) /\ n \in Nat /\ DOMAIN rows = 1 .. n
      /\ Marked <= Taken /\ Taken \in Nat /\ Marked \in Int /\ DOMAIN jobs = 1 .. Len(jobs)
      /\ Len(jobs) \in Nat /\ DOMAIN chain = 1 .. Len(chain) /\ Len(chain) \in Nat
  BY Sizes
<1>7. /\ Len(rows') = n + 1 /\ DOMAIN rows' = 1 .. n + 1 /\ rows'[n + 1] = NewRow(b)
      /\ \A i \in 1 .. n : rows'[i] = rows[i]
  BY <1>2, <1>6
<1>8. Len(jobs) = n /\ Taken <= n
  BY <1>5, <1>6 DEF QueueInOrder
<1>9. RowsInOrder'
  <2>1. ASSUME NEW i \in DOMAIN rows', NEW j \in DOMAIN rows', i < j
        PROVE  rows'[i].batch.to < rows'[j].batch.from
    <3>1. i \in 1 .. n /\ j \in 1 .. n + 1
      BY <1>6, <1>7, <2>1
    <3>2. CASE j \in 1 .. n
      BY <1>6, <1>7, <2>1, <3>1, <3>2 DEF RowsInOrder
    <3>3. CASE j = n + 1
      BY <1>3, <1>4, <1>6, <1>7, <3>1, <3>3
    <3> QED BY <1>6, <3>1, <3>2, <3>3
  <2>2. \A r \in Sweep : sweep'[r].pc = "add" /\ sweep'[r].batch = rows'[Len(rows')].batch
    BY <1>2, <1>3, <1>5, <1>7
  <2> QED BY <1>6, <1>7, <2>1, <2>2 DEF RowsInOrder
<1>10. QueueInOrder'
  <2>1. Len(rows') = Len(jobs') + 1
    BY <1>7, <1>8
  <2>2. \A i \in DOMAIN jobs' : jobs'[i].batch = rows'[i].batch
    BY <1>6, <1>7, <1>8 DEF QueueInOrder
  <2> QED BY <1>5, <2>1, <2>2 DEF QueueInOrder, Taken
<1>11. ChainInStep'
  <2>1. Marked' = Marked /\ Marked <= n /\ Len(chain) <= n
    BY <1>6, <1>8 DEF Marked, Taken
  <2>2. \A i \in DOMAIN chain' : chain'[i] = rows'[i].batch
    BY <1>6, <1>7, <2>1 DEF ChainInStep
  <2>3. \A i \in DOMAIN rows' : i <= Marked => rows'[i].index = i - 1
    BY <1>6, <1>7, <2>1 DEF ChainInStep
  <2>4. \A i \in DOMAIN rows' : i > Marked => rows'[i].index = Unanchored
    BY <1>3, <1>6, <1>7, <2>1 DEF ChainInStep
  <2> QED BY <2>1, <2>2, <2>3, <2>4 DEF ChainInStep
<1> QED BY <1>9, <1>10, <1>11

\* No job has the window of the row just saved.
LEMMA AddJobOrdered ==
  ASSUME OneSweep, PipelineInv, Ordered, NEW s \in Sweep, AddJob(s) PROVE Ordered'
<1> USE DEF AddJob, Ordered
<1> DEFINE b == sweep[s].batch
           j == [batch |-> b, state |-> "waiting", attempts |-> 0]
           n == Len(jobs)
<1>1. /\ rows \in Seq(RowState) /\ Len(rows) \in Nat /\ DOMAIN rows = 1 .. Len(rows)
      /\ jobs \in Seq(JobState) /\ n \in Nat /\ DOMAIN jobs = 1 .. n /\ Taken \in Nat
  BY Sizes
<1>2. SetSweep(s, Quiet) /\ sweep[s].pc = "add"
  OBVIOUS
<1>3. (\A r \in Sweep : sweep'[r] = Quiet) /\ Adding /\ ~Adding'
  BY <1>2, QuietTyped, SweepMoves
<1>4. Len(rows) = n + 1 /\ b = rows[n + 1].batch
  BY <1>1, <1>2, <1>3 DEF QueueInOrder, RowsInOrder
<1>5. ~ \E i \in DOMAIN jobs : Window(jobs[i].batch) = Window(b)
  <2>1. ASSUME NEW i \in DOMAIN jobs PROVE jobs[i].batch.to # b.to
    <3>1. i \in DOMAIN rows /\ n + 1 \in DOMAIN rows /\ i < n + 1
      BY <1>1, <1>4
    <3>2. jobs[i].batch = rows[i].batch
      BY <2>1 DEF QueueInOrder
    <3>3. rows[i].batch.to < b.from
      BY <1>4, <3>1 DEF RowsInOrder
    <3>4. rows[i].batch.to \in Int /\ b.from \in Int /\ b.to \in Int /\ b.from <= b.to
      BY <1>4, <3>1, RowTyped
    <3> QED BY <3>2, <3>3, <3>4
  <2> QED BY <2>1 DEF Window
<1>6. jobs' = Append(jobs, j)
  BY <1>5
<1>7. j.batch = b /\ j.state = "waiting" /\ j.attempts = 0
  OBVIOUS
<1> HIDE DEF j, b
<1>8. /\ Len(jobs') = n + 1 /\ DOMAIN jobs' = 1 .. n + 1 /\ jobs'[n + 1] = j
      /\ \A i \in 1 .. n : jobs'[i] = jobs[i]
  BY <1>1, <1>6
<1>9. RowsInOrder'
  BY <1>3, QuietTyped DEF RowsInOrder
<1>10. QueueInOrder'
  <2>1. \A i \in DOMAIN jobs' : jobs'[i].batch = rows[i].batch
    BY <1>1, <1>4, <1>7, <1>8 DEF QueueInOrder
  <2>2. Taken <= n /\ Taken' = Taken
    BY DEF QueueInOrder, Taken
  <2>3. \A i \in DOMAIN jobs' : i <= Taken => jobs'[i].state # "waiting"
    BY <1>1, <1>8, <2>2 DEF QueueInOrder
  <2>4. \A i \in DOMAIN jobs' :
          i > Taken => jobs'[i].state = "waiting" /\ jobs'[i].attempts = 0
    BY <1>1, <1>7, <1>8, <2>2 DEF QueueInOrder
  <2>5. Taken' <= Len(jobs')
    BY <1>1, <1>8, <2>2
  <2>6. worker'.pc # "idle" => worker'.job = Taken'
    BY <2>2 DEF QueueInOrder
  <2> QED BY <1>3, <1>4, <1>8, <2>1, <2>2, <2>3, <2>4, <2>5, <2>6 DEF QueueInOrder
<1>11. ChainInStep'
  BY DEF ChainInStep, Marked
<1> QED BY <1>9, <1>10, <1>11

\* The sweep and the rows stay as they are.
LEMMA RowsStayInOrder ==
  ASSUME RowsInOrder, sweep' = sweep, Len(rows') = Len(rows), DOMAIN rows' = DOMAIN rows,
         \A i \in DOMAIN rows : rows'[i].batch = rows[i].batch,
         Len(rows) > 0 => Len(rows) \in DOMAIN rows
  PROVE  RowsInOrder'
BY DEF RowsInOrder

LEMMA TakeJobOrdered ==
  ASSUME PipelineInv, Ordered, NEW i \in DOMAIN jobs, TakeJob(i) PROVE Ordered'
<1> USE DEF TakeJob, Ordered
<1> DEFINE n == Len(chain)
<1>1. /\ jobs \in Seq(JobState) /\ Len(jobs) \in Nat /\ DOMAIN jobs = 1 .. Len(jobs) /\ n \in Nat
      /\ DOMAIN rows = 1 .. Len(rows) /\ Len(rows) \in Nat
  BY Sizes
<1>2. worker.pc = "idle" /\ Taken = n /\ Marked = n
  BY DEF Taken, Marked
<1>3. worker'.pc = "submit" /\ worker'.job = i /\ Taken' = n + 1 /\ Marked' = n
  BY DEF Taken, Marked
<1>4. i = n + 1
  <2>1. i > n
    BY <1>1, <1>2 DEF QueueInOrder
  <2>2. ASSUME n + 1 < i PROVE FALSE
    <3>1. n + 1 \in DOMAIN jobs /\ n + 1 \in 1 .. i - 1
      BY <1>1, <2>2
    <3>2. Untried(n + 1)
      BY <1>1, <1>2, <3>1 DEF QueueInOrder, Untried
    <3> QED BY <3>1, <3>2
  <2> QED BY <1>1, <2>1, <2>2
<1>5. /\ Len(jobs') = Len(jobs) /\ DOMAIN jobs' = DOMAIN jobs
      /\ jobs'[i].state = "active" /\ jobs'[i].batch = jobs[i].batch
      /\ \A h \in DOMAIN jobs : h # i => jobs'[h] = jobs[h]
  <2>1. jobs[i] \in JobState
    BY <1>1
  <2>2. jobs' = [jobs EXCEPT ![i] = [jobs[i] EXCEPT !.state = "active"]]
    OBVIOUS
  <2>3. jobs'[i] = [jobs[i] EXCEPT !.state = "active"]
    BY <2>2
  <2> QED BY <1>1, <2>1, <2>2, <2>3 DEF JobState
<1>6. RowsInOrder'
  BY DEF RowsInOrder
<1>7. QueueInOrder'
  <2>1. \A h \in DOMAIN jobs' : jobs'[h].batch = rows'[h].batch
    BY <1>5 DEF QueueInOrder
  <2>2. Taken' <= Len(jobs')
    BY <1>1, <1>3, <1>4, <1>5
  <2>3. \A h \in DOMAIN jobs' : h <= Taken' => jobs'[h].state # "waiting"
    BY <1>1, <1>2, <1>3, <1>4, <1>5 DEF QueueInOrder
  <2>4. \A h \in DOMAIN jobs' :
          h > Taken' => jobs'[h].state = "waiting" /\ jobs'[h].attempts = 0
    BY <1>1, <1>2, <1>3, <1>4, <1>5 DEF QueueInOrder
  <2>5. Adding' <=> Adding
    BY DEF Adding
  <2>6. Len(rows') = IF Adding THEN Len(jobs') + 1 ELSE Len(jobs')
    BY <1>5 DEF QueueInOrder
  <2> QED BY <1>3, <1>4, <2>1, <2>2, <2>3, <2>4, <2>5, <2>6 DEF QueueInOrder
<1>8. ChainInStep'
  BY <1>2, <1>3 DEF ChainInStep
<1> QED BY <1>6, <1>7, <1>8

\* The next window begins after the last one on the chain has ended: no overlap.
LEMMA NoOverlap ==
  ASSUME PipelineInv, Ordered, worker.pc = "submit"
  PROVE  /\ ~Overlaps(Current.batch)
         /\ Len(chain) + 1 \in DOMAIN jobs /\ Len(chain) + 1 \in DOMAIN rows
         /\ Current.batch = rows[Len(chain) + 1].batch
<1> USE DEF Ordered
<1> DEFINE n == Len(chain)
<1>1. /\ n \in Nat /\ DOMAIN chain = 1 .. n /\ chain \in Seq(Windows)
      /\ DOMAIN jobs = 1 .. Len(jobs) /\ Len(jobs) \in Nat
      /\ DOMAIN rows = 1 .. Len(rows) /\ Len(rows) \in Nat
  BY Sizes
<1>2. worker.job = n + 1 /\ n + 1 \in DOMAIN jobs
  BY <1>1 DEF QueueInOrder, Taken
<1>3. n + 1 \in DOMAIN rows /\ Current.batch = rows[n + 1].batch
  BY <1>1, <1>2, CurrentSound DEF QueueInOrder
<1>4. ~Overlaps(rows[n + 1].batch)
  <2>1. SUFFICES ASSUME chain # <<>> PROVE ~(rows[n + 1].batch.from <= Last(chain).to)
    BY DEF Overlaps
  <2>2. n \in DOMAIN chain /\ n \in DOMAIN rows /\ Last(chain) = chain[n]
    BY <1>1, <1>3, <2>1 DEF Last
  <2>3. rows[n].batch.to < rows[n + 1].batch.from
    BY <1>1, <1>3, <2>2 DEF RowsInOrder
  <2>4. Last(chain).to = rows[n].batch.to
    BY <2>2 DEF ChainInStep
  <2>5. rows[n].batch.to \in Int /\ rows[n + 1].batch.from \in Int
    BY <1>3, <2>2, RowTyped
  <2> QED BY <2>3, <2>4, <2>5
<1> QED BY <1>2, <1>3, <1>4

LEMMA AnchorBatchOrdered ==
  ASSUME PipelineInv, Ordered, AnchorBatch PROVE Ordered'
<1> USE DEF AnchorBatch, Ordered
<1> DEFINE n == Len(chain)
           b == Current.batch
<1>1. /\ n \in Nat /\ DOMAIN chain = 1 .. n /\ chain \in Seq(Windows)
      /\ worker \in [pc: {"idle", "submit", "mark"}, job: Nat, index: Index]
  BY Sizes DEF PipelineInv, PipelineTyped
<1>2. b = rows[n + 1].batch /\ n + 1 \in DOMAIN jobs /\ chain' = Append(chain, b)
  BY NoOverlap
<1> HIDE DEF b
<1>3. /\ Len(chain') = n + 1 /\ DOMAIN chain' = 1 .. n + 1 /\ chain'[n + 1] = b
      /\ \A i \in 1 .. n : chain'[i] = chain[i]
  BY <1>1, <1>2
<1>4. worker'.pc = "mark" /\ worker'.index = n /\ worker'.job = worker.job
  BY <1>1
<1>5. Taken = n + 1 /\ Taken' = n + 1 /\ Marked = n /\ Marked' = n
  BY <1>1, <1>3, <1>4 DEF Taken, Marked
<1>6. RowsInOrder'
  BY DEF RowsInOrder
<1>7. QueueInOrder'
  BY <1>4, <1>5 DEF QueueInOrder, Adding
<1>8. ChainInStep'
  <2>1. \A i \in DOMAIN chain' : chain'[i] = rows'[i].batch
    BY <1>1, <1>2, <1>3 DEF ChainInStep
  <2>2. worker'.index = Len(chain') - 1 /\ Len(chain') > 0
    BY <1>1, <1>3, <1>4
  <2> QED BY <1>5, <2>1, <2>2 DEF ChainInStep
<1> QED BY <1>6, <1>7, <1>8

\* The oldest row that is not anchored is the row of the batch just anchored.
LEMMA MarkAnchoredOrdered ==
  ASSUME PipelineInv, Ordered, MarkAnchored PROVE Ordered'
<1> USE DEF MarkAnchored, Ordered
<1> DEFINE n == Len(chain)
<1>1. /\ n \in Nat /\ Len(jobs) \in Nat /\ Len(rows) \in Nat /\ DOMAIN rows = 1 .. Len(rows)
      /\ DOMAIN jobs = 1 .. Len(jobs) /\ jobs \in Seq(JobState) /\ rows \in Seq(RowState)
  BY Sizes
<1>2. Taken = n /\ Marked = n - 1 /\ worker.index = n - 1 /\ n > 0 /\ worker.job = n
  BY DEF Taken, Marked, QueueInOrder, ChainInStep
<1>3. worker'.pc = "idle" /\ Taken' = n /\ Marked' = n
  BY QuietTyped DEF Taken, Marked
<1>4. n \in DOMAIN rows /\ n \in DOMAIN jobs
  BY <1>1, <1>2 DEF QueueInOrder
<1>5. Pending = {i \in DOMAIN rows : i > n - 1}
  <2>1. \A i \in DOMAIN rows : i <= n - 1 => rows[i].index # Unanchored
    BY <1>1, <1>2 DEF ChainInStep, Unanchored
  <2>2. \A i \in DOMAIN rows : i > n - 1 => rows[i].index = Unanchored
    BY <1>1, <1>2 DEF ChainInStep
  <2> QED BY <1>1, <2>1, <2>2 DEF Pending
<1>6. /\ DOMAIN rows' = DOMAIN rows /\ rows' \in Seq(RowState)
      /\ \A i \in DOMAIN rows : rows'[i].batch = rows[i].batch
      /\ \A i \in DOMAIN rows : i # Min(Pending) => rows'[i].index = rows[i].index
      /\ Min(Pending) \in Pending /\ rows'[Min(Pending)].index = worker.index
      /\ \A i \in Pending : Min(Pending) <= i
  <2>1. Pending # {}
    BY <1>1, <1>4, <1>5
  <2> QED BY <2>1, MarkSound
<1>7. Min(Pending) = n
  <2>1. n \in Pending /\ Min(Pending) >= n /\ Min(Pending) \in Int
    BY <1>1, <1>4, <1>5, <1>6
  <2> QED BY <1>1, <1>6, <2>1
<1>8. Len(rows') = Len(rows)
  BY <1>1, <1>6
<1>9. RowsInOrder'
  BY <1>1, <1>6, <1>8, RowsStayInOrder
<1>10. /\ DOMAIN jobs' = DOMAIN jobs /\ Len(jobs') = Len(jobs)
       /\ jobs'[n].state = "done" /\ jobs'[n].batch = jobs[n].batch
       /\ \A i \in DOMAIN jobs : i # n => jobs'[i] = jobs[i]
  <2>1. jobs[n] \in JobState
    BY <1>1, <1>4
  <2>2. jobs' = [jobs EXCEPT ![n] = [jobs[n] EXCEPT !.state = "done"]]
    BY <1>2 DEF Finish
  <2>3. jobs'[n] = [jobs[n] EXCEPT !.state = "done"]
    BY <1>4, <2>2
  <2> QED BY <1>1, <2>1, <2>2, <2>3 DEF JobState
<1>11. QueueInOrder'
  <2>1. \A i \in DOMAIN jobs' : jobs'[i].batch = rows'[i].batch
    <3>1. \A i \in DOMAIN jobs : i \in DOMAIN rows
      BY <1>1 DEF QueueInOrder
    <3> QED BY <1>6, <1>10, <3>1 DEF QueueInOrder
  <2>2. Adding' <=> Adding
    BY DEF Adding
  <2>3. \A i \in DOMAIN jobs' : i <= n => jobs'[i].state # "waiting"
    BY <1>2, <1>10 DEF QueueInOrder
  <2>4. \A i \in DOMAIN jobs' : i > n => jobs'[i].state = "waiting" /\ jobs'[i].attempts = 0
    BY <1>1, <1>2, <1>10 DEF QueueInOrder
  <2>5. Len(rows') = IF Adding THEN Len(jobs') + 1 ELSE Len(jobs')
    BY <1>8, <1>10 DEF QueueInOrder
  <2>6. Taken' <= Len(jobs')
    BY <1>1, <1>3, <1>4, <1>10
  <2> QED BY <1>3, <2>1, <2>2, <2>3, <2>4, <2>5, <2>6 DEF QueueInOrder
<1>12. ChainInStep'
  <2>1. \A i \in DOMAIN chain' : chain'[i] = rows'[i].batch
    <3>1. \A i \in DOMAIN chain : i \in DOMAIN rows
      BY <1>1, <1>4, Sizes
    <3> QED BY <1>6, <3>1 DEF ChainInStep
  <2>2. \A i \in DOMAIN rows' : i <= n => rows'[i].index = i - 1
    BY <1>1, <1>2, <1>6, <1>7 DEF ChainInStep
  <2>3. \A i \in DOMAIN rows' : i > n => rows'[i].index = Unanchored
    BY <1>1, <1>2, <1>6, <1>7 DEF ChainInStep
  <2> QED BY <1>3, <2>1, <2>2, <2>3 DEF ChainInStep
<1> QED BY <1>9, <1>11, <1>12

LEMMA InStepStep ==
  ASSUME OneSweep, PipelineInv, InStep, [AnchorNext]_anchorVars PROVE InStep'
<1>1. SUFFICES ASSUME faults' = 0 PROVE Ordered'
  BY DEF InStep
<1>2. faults \in Nat
  BY DEF PipelineInv, PipelineTyped
<1>3. CASE UNCHANGED anchorVars
  <2> USE <1>3 DEF anchorVars
  <2>1. Ordered
    BY <1>1 DEF InStep
  <2>2. RowsInOrder'
    BY <2>1 DEF Ordered, RowsInOrder
  <2>3. QueueInOrder'
    BY <2>1 DEF Ordered, QueueInOrder, Taken, Adding
  <2>4. ChainInStep'
    BY <2>1 DEF Ordered, ChainInStep, Marked
  <2> QED BY <2>2, <2>3, <2>4 DEF Ordered
<1>4. ASSUME NEW t \in Ts, Ping(t) PROVE Ordered'
  <2> USE <1>4 DEF Ping
  <2>1. Ordered
    BY <1>1 DEF InStep
  <2>2. RowsInOrder'
    BY <2>1 DEF Ordered, RowsInOrder
  <2>3. QueueInOrder'
    BY <2>1 DEF Ordered, QueueInOrder, Taken, Adding
  <2>4. ChainInStep'
    BY <2>1 DEF Ordered, ChainInStep, Marked
  <2> QED BY <2>2, <2>3, <2>4 DEF Ordered
<1>5. ASSUME NEW s \in Sweep, ProceedSweep(s) PROVE Ordered'
  <2>1. faults' = faults
    BY <1>5 DEF ProceedSweep, Drain, CloseWindow, SaveBatch, AddJob
  <2>2. Ordered
    BY <1>1, <2>1 DEF InStep
  <2> QED BY <1>5, <2>2, DrainOrdered, CloseWindowOrdered, SaveBatchOrdered, AddJobOrdered
      DEF ProceedSweep
<1>6. ASSUME NEW s \in Sweep, SweepDies(s) PROVE FALSE
  BY <1>1, <1>2, <1>6 DEF SweepDies
<1>7. ASSUME ProceedWorker PROVE Ordered'
  <2>1. faults' = faults
    BY <1>7 DEF ProceedWorker, TakeJob, AnchorBatch, OverlapReverts, MarkAnchored
  <2>2. Ordered
    BY <1>1, <2>1 DEF InStep
  <2>3. ASSUME OverlapReverts PROVE FALSE
    BY <2>2, <2>3, NoOverlap DEF OverlapReverts
  <2> QED BY <1>7, <2>2, <2>3, TakeJobOrdered, AnchorBatchOrdered, MarkAnchoredOrdered
      DEF ProceedWorker
<1>8. ASSUME JobFails PROVE FALSE
  BY <1>1, <1>2, <1>8 DEF JobFails
<1> QED BY <1>3, <1>4, <1>5, <1>6, <1>7, <1>8 DEF AnchorNext

\* The windows on the chain are in order and do not overlap, however many sweeps and
\* retries raced: what anchorBatch refuses with TimeOverlap.
THEOREM WindowsInOrder == AnchorSpec => []ChainInOrder
<1>1. PipelineInv => ChainInOrder
  BY DEF PipelineInv
<1> QED BY <1>1, PipelineInvariant, PTL

\* With one sweep at a time and as long as nothing fails, the i-th row of gps_batches, the
\* i-th job and the i-th batch on the chain are of one window, and the row is marked with
\* the index of that batch, although markAnchored only takes the oldest unmarked row.
THEOREM PipelineInStep ==
  ASSUME OneSweep PROVE AnchorSpec => []InStep
<1>1. PipelineInv /\ InStep /\ [AnchorNext]_anchorVars => InStep'
  BY InStepStep
<1> QED BY <1>1, StartsOrdered, PipelineInvariant, PTL DEF AnchorSpec

--------------------------------------------------------------------------------
\* The trees: what merkletreejs builds and verifyPing computes, for any leaves.

LEMMA HashesDiffer ==
  /\ \A t, u : Leaf(t) = Leaf(u) => t = u
  /\ \A t, a, b : Leaf(t) # Node(a, b)
  /\ \A a, b, c, d : Node(a, b) = Node(c, d) => a \in {c, d}
  /\ \A a, b : Node(a, b) = Node(b, a)
<1>1. \A t : DOMAIN Leaf(t) = {"ping"} /\ Leaf(t).ping = t
  BY DEF Leaf
<1>2. \A a, b : DOMAIN Node(a, b) = {"pair"} /\ Node(a, b).pair = {a, b}
  BY DEF Node
<1>3. \A t, a, b : Leaf(t) # Node(a, b)
  <2>1. {"ping"} # {"pair"}
    OBVIOUS
  <2> QED BY <1>1, <1>2, <2>1
<1>4. \A a, b, c, d : Node(a, b) = Node(c, d) => a \in {c, d}
  <2> TAKE a, b, c, d
  <2> HAVE Node(a, b) = Node(c, d)
  <2>1. {a, b} = {c, d}
    BY <1>2
  <2> QED BY <2>1
<1>5. \A a, b : Node(a, b) = Node(b, a)
  <2>1. \A a, b : {a, b} = {b, a}
    OBVIOUS
  <2> QED BY <2>1 DEF Node
<1> QED BY <1>1, <1>3, <1>4, <1>5

\* The functions that are defined by recursion exist: from the function up to n
\* the one up to n + 1 is made.
LayersUpto(f, leaves, n) ==
  f = [k \in 0 .. n |-> IF k = 0 THEN leaves ELSE Parents(f[k - 1])]

LEMMA LayersExist ==
  ASSUME NEW leaves, NEW n \in Nat
  PROVE  \E f : LayersUpto(f, leaves, n)
<1> DEFINE Up(f, m) == [k \in 0 .. m |-> IF k = 0 THEN leaves ELSE Parents(f[k - 1])]
           T == {m \in Nat : \E f : f = Up(f, m)}
<1>1. 0 \in T
  <2> DEFINE f == [k \in 0 .. 0 |-> leaves]
  <2>1. f = Up(f, 0)
    OBVIOUS
  <2> QED BY <2>1
<1>2. ASSUME NEW m \in T PROVE m + 1 \in T
  <2>1. PICK f : f = Up(f, m)
    OBVIOUS
  <2> DEFINE g == Up(f, m + 1)
  <2>2. \A k \in 0 .. m : g[k] = f[k]
    BY <2>1
  <2>3. \A k \in 0 .. m + 1 : k # 0 => g[k - 1] = f[k - 1]
    BY <2>2
  <2>4. g = Up(g, m + 1)
    <3> DEFINE h == Up(g, m + 1)
    <3>1. \A k \in 0 .. m + 1 : h[k] = IF k = 0 THEN leaves ELSE Parents(g[k - 1])
      OBVIOUS
    <3>2. \A k \in 0 .. m + 1 : g[k] = IF k = 0 THEN leaves ELSE Parents(f[k - 1])
      OBVIOUS
    <3>3. \A k \in 0 .. m + 1 : g[k] = h[k]
      BY <2>3, <3>1, <3>2
    <3>4. g = [k \in 0 .. m + 1 |-> g[k]] /\ h = [k \in 0 .. m + 1 |-> h[k]]
      OBVIOUS
    <3> HIDE DEF g, h
    <3>5. g = h
      BY <3>3, <3>4
    <3> QED BY <3>5 DEF h
  <2> HIDE DEF g, Up
  <2> QED BY <2>4
<1> HIDE DEF T
<1>3. T \in SUBSET Nat
  BY DEF T
<1>4. T = Nat
  BY <1>1, <1>2, <1>3, NatSetInduction
<1> QED BY <1>4 DEF T, LayersUpto

LEMMA LayersDef ==
  ASSUME NEW leaves, Len(leaves) \in Nat
  PROVE  /\ Layers(leaves)[0] = leaves
         /\ \A k \in 1 .. Len(leaves) : Layers(leaves)[k] = Parents(Layers(leaves)[k - 1])
<1> DEFINE Is(f) == LayersUpto(f, leaves, Len(leaves))
<1>1. \E f : Is(f)
  BY LayersExist
<1>2. Layers(leaves) = CHOOSE f : Is(f)
  BY DEF Layers, LayersUpto
<1>3. Is(Layers(leaves))
  <2> HIDE DEF Is
  <2> QED BY <1>1, <1>2
<1> DEFINE g == Layers(leaves)
<1>4. g = [k \in 0 .. Len(leaves) |-> IF k = 0 THEN leaves ELSE Parents(g[k - 1])]
  BY <1>3 DEF LayersUpto
<1> HIDE DEF g
<1>5. \A k \in 0 .. Len(leaves) : g[k] = IF k = 0 THEN leaves ELSE Parents(g[k - 1])
  BY <1>4
<1> QED BY <1>5 DEF g

Half(layer) == (Len(layer) + 1) \div 2
Pairs(U) == {Node(a, b) : a \in U, b \in U}

\* A layer is half as long as the one below it, rounded up, and holds its pairs and,
\* at the end, perhaps one of its hashes as it is.
LEMMA ParentsSound ==
  ASSUME NEW U, NEW layer \in Seq(U), Len(layer) > 0
  PROVE  /\ Half(layer) \in Nat /\ 0 < Half(layer)
         /\ Parents(layer) \in Seq(U \cup Pairs(U)) /\ Len(Parents(layer)) = Half(layer)
         /\ Len(layer) = 1 => Half(layer) = 1
         /\ Len(layer) > 1 => Half(layer) < Len(layer)
         /\ \A i \in 1 .. Half(layer) :
              /\ 2 * i <= Len(layer) =>
                   Parents(layer)[i] = Node(layer[2 * i - 1], layer[2 * i])
              /\ 2 * i > Len(layer) => Parents(layer)[i] = layer[2 * i - 1]
              /\ 2 * i - 1 \in 1 .. Len(layer)
<1> DEFINE n == Len(layer)
           m == (n + 1) \div 2
           N == {Node(a, b) : a \in U, b \in U}
           up(i) == IF 2 * i <= n THEN Node(layer[2 * i - 1], layer[2 * i]) ELSE layer[2 * i - 1]
<1>1. n \in Nat /\ n > 0
  OBVIOUS
<1>2. m \in Nat /\ 0 < m /\ (n = 1 => m = 1) /\ (n > 1 => m < n) /\ 2 * m <= n + 1
  <2> HIDE DEF n
  <2> QED BY <1>1
<1>3. \A i \in 1 .. m : 2 * i - 1 \in 1 .. n /\ (2 * i <= n => 2 * i \in 1 .. n)
  <2> HIDE DEF n, m
  <2> QED BY <1>1, <1>2
<1>4. Parents(layer) = [i \in 1 .. m |-> up(i)]
  BY DEF Parents
<1>5. \A i \in 1 .. m : up(i) \in U \cup N
  <2> TAKE i \in 1 .. m
  <2>1. layer[2 * i - 1] \in U
    BY <1>3
  <2>2. 2 * i <= n => layer[2 * i] \in U
    BY <1>3
  <2> QED BY <2>1, <2>2
<1> HIDE DEF N
<1>6. Parents(layer) \in Seq(U \cup N) /\ Len(Parents(layer)) = m
  <2> HIDE DEF up, m
  <2> QED BY <1>2, <1>4, <1>5
<1>7. \A i \in 1 .. m :
        /\ 2 * i <= n => Parents(layer)[i] = Node(layer[2 * i - 1], layer[2 * i])
        /\ 2 * i > n => Parents(layer)[i] = layer[2 * i - 1]
  <2> TAKE i \in 1 .. m
  <2>1. Parents(layer)[i] = up(i)
    <3> HIDE DEF up, m
    <3> QED BY <1>4
  <2>2. 2 * i \in Int /\ n \in Int
    BY <1>1, <1>2
  <2> QED BY <2>1, <2>2
<1> HIDE DEF m
<1> QED BY <1>2, <1>3, <1>6, <1>7 DEF m, N, Half, Pairs

\* Layer k is a layer, and the last is the root alone.
LEMMA LayerShape ==
  ASSUME NEW V, NEW leaves \in Seq(V), Len(leaves) > 0
  PROVE  /\ \A k \in 0 .. Len(leaves) :
              (\E U : Layers(leaves)[k] \in Seq(U)) /\ Len(Layers(leaves)[k]) > 0
         /\ Len(Layers(leaves)[Len(leaves)]) = 1
<1> DEFINE n == Len(leaves)
           layer == Layers(leaves)
           P(k) == /\ \E U : layer[k] \in Seq(U)
                   /\ Len(layer[k]) \in Nat /\ Len(layer[k]) > 0
                   /\ Len(layer[k]) = 1 \/ Len(layer[k]) <= n - k
           T == {k \in Nat : k <= n => P(k)}
<1>1. n \in Nat /\ n > 0
  OBVIOUS
<1>2. layer[0] = leaves /\ \A k \in 1 .. n : layer[k] = Parents(layer[k - 1])
  BY <1>1, LayersDef
<1> HIDE DEF n, layer
<1>3. 0 \in T
  <2>1. layer[0] \in Seq(V) /\ Len(layer[0]) = n
    BY <1>2 DEF n
  <2> QED BY <1>1, <2>1
<1>4. ASSUME NEW k \in T PROVE k + 1 \in T
  <2>1. SUFFICES ASSUME k + 1 <= n PROVE P(k + 1)
    BY <1>4
  <2>2. P(k) /\ k \in Nat /\ k + 1 \in 1 .. n
    BY <1>1, <1>4, <2>1
  <2>3. PICK U : layer[k] \in Seq(U)
    BY <2>2
  <2>4. layer[k + 1] = Parents(layer[k])
    <3>1. k + 1 - 1 = k
      BY <2>2
    <3> QED BY <1>2, <2>2, <3>1
  <2> DEFINE l == layer[k]
             m == Half(l)
             N == Pairs(U)
  <2>5. l \in Seq(U) /\ Len(l) \in Nat /\ Len(l) > 0 /\ (Len(l) = 1 \/ Len(l) <= n - k)
        /\ layer[k + 1] = Parents(l)
    BY <2>2, <2>3, <2>4
  <2> HIDE DEF l
  <2>6. /\ Parents(l) \in Seq(U \cup N) /\ m \in Nat /\ 0 < m /\ Len(Parents(l)) = m
        /\ Len(l) = 1 => m = 1
        /\ Len(l) > 1 => m < Len(l)
    BY <2>5, ParentsSound
  <2> HIDE DEF m, N
  <2>7. m = 1 \/ m <= n - (k + 1)
    <3>1. n \in Nat /\ k \in Nat
      BY <1>1, <2>2
    <3>2. PICK len \in Nat : len = Len(l)
      BY <2>5
    <3>3. len > 0 /\ (len = 1 \/ len <= n - k)
      BY <2>5, <3>2
    <3>4. m \in Nat /\ (len = 1 => m = 1) /\ (len > 1 => m < len)
      BY <2>6, <3>2
    <3> QED BY <3>1, <3>3, <3>4
  <2> QED BY <2>5, <2>6, <2>7
<1> HIDE DEF P
<1>5. T = Nat
  <2> HIDE DEF T
  <2>1. T \in SUBSET Nat
    BY DEF T
  <2> QED BY <1>3, <1>4, <2>1, NatSetInduction
<1>6. \A k \in 0 .. n : P(k)
  BY <1>1, <1>5
<1>7. Len(layer[n]) = 1
  <2>1. P(n)
    BY <1>1, <1>6
  <2> QED BY <1>1, <2>1 DEF P
<1> QED BY <1>6, <1>7 DEF P, n, layer

--------------------------------------------------------------------------------
ComputedUpto(f, leaf, proof, n) ==
  f = [k \in 0 .. n |-> IF k = 0 THEN leaf ELSE Node(f[k - 1], proof[k])]

LEMMA ComputedExist ==
  ASSUME NEW leaf, NEW proof, NEW n \in Nat
  PROVE  \E f : ComputedUpto(f, leaf, proof, n)
<1> DEFINE Up(f, m) == [k \in 0 .. m |-> IF k = 0 THEN leaf ELSE Node(f[k - 1], proof[k])]
           T == {m \in Nat : \E f : f = Up(f, m)}
<1>1. 0 \in T
  <2> DEFINE f == [k \in 0 .. 0 |-> leaf]
  <2>1. f = Up(f, 0)
    OBVIOUS
  <2> QED BY <2>1
<1>2. ASSUME NEW m \in T PROVE m + 1 \in T
  <2>1. PICK f : f = Up(f, m)
    OBVIOUS
  <2> DEFINE g == Up(f, m + 1)
  <2>2. \A k \in 0 .. m : g[k] = f[k]
    BY <2>1
  <2>3. \A k \in 0 .. m + 1 : k # 0 => g[k - 1] = f[k - 1]
    <3>1. \A k \in 0 .. m + 1 : k # 0 => k - 1 \in 0 .. m
      OBVIOUS
    <3> HIDE DEF g
    <3> QED BY <2>2, <3>1
  <2>4. g = Up(g, m + 1)
    <3> DEFINE h == Up(g, m + 1)
    <3>1. \A k \in 0 .. m + 1 : h[k] = IF k = 0 THEN leaf ELSE Node(g[k - 1], proof[k])
      OBVIOUS
    <3>2. \A k \in 0 .. m + 1 : g[k] = IF k = 0 THEN leaf ELSE Node(f[k - 1], proof[k])
      OBVIOUS
    <3>3. \A k \in 0 .. m + 1 : g[k] = h[k]
      BY <2>3, <3>1, <3>2
    <3>4. g = [k \in 0 .. m + 1 |-> g[k]] /\ h = [k \in 0 .. m + 1 |-> h[k]]
      OBVIOUS
    <3> HIDE DEF g, h
    <3>5. g = h
      BY <3>3, <3>4
    <3> QED BY <3>5 DEF h
  <2> HIDE DEF g, Up
  <2> QED BY <2>4
<1> HIDE DEF T
<1>3. T \in SUBSET Nat
  BY DEF T
<1>4. T = Nat
  BY <1>1, <1>2, <1>3, NatSetInduction
<1> QED BY <1>4 DEF T, ComputedUpto

LEMMA ComputedDef ==
  ASSUME NEW leaf, NEW proof, Len(proof) \in Nat
  PROVE  /\ Computed(leaf, proof)[0] = leaf
         /\ \A k \in 1 .. Len(proof) :
              Computed(leaf, proof)[k] = Node(Computed(leaf, proof)[k - 1], proof[k])
<1> DEFINE Is(f) == ComputedUpto(f, leaf, proof, Len(proof))
<1>1. \E f : Is(f)
  BY ComputedExist
<1>2. Computed(leaf, proof) = CHOOSE f : Is(f)
  BY DEF Computed, ComputedUpto
<1>3. Is(Computed(leaf, proof))
  <2> HIDE DEF Is
  <2> QED BY <1>1, <1>2
<1> DEFINE g == Computed(leaf, proof)
<1>4. g = [k \in 0 .. Len(proof) |-> IF k = 0 THEN leaf ELSE Node(g[k - 1], proof[k])]
  BY <1>3 DEF ComputedUpto
<1> HIDE DEF g
<1>5. \A k \in 0 .. Len(proof) : g[k] = IF k = 0 THEN leaf ELSE Node(g[k - 1], proof[k])
  BY <1>4
<1> QED BY <1>5 DEF g

\* One hash more in the proof is one pair more.
LEMMA ComputedLonger ==
  ASSUME NEW leaf, NEW proof, NEW longer, Len(proof) \in Nat, Len(longer) = Len(proof) + 1,
         \A k \in 1 .. Len(proof) : longer[k] = proof[k]
  PROVE  Computed(leaf, longer)[Len(longer)] =
           Node(Computed(leaf, proof)[Len(proof)], longer[Len(longer)])
<1> DEFINE n == Len(proof)
           f == Computed(leaf, proof)
           g == Computed(leaf, longer)
           T == {k \in Nat : k <= n => g[k] = f[k]}
<1>1. n \in Nat /\ Len(longer) = n + 1 /\ \A k \in 1 .. n : longer[k] = proof[k]
  OBVIOUS
<1> HIDE DEF n
<1>2. f[0] = leaf /\ \A k \in 1 .. n : f[k] = Node(f[k - 1], proof[k])
  BY <1>1, ComputedDef DEF n
<1>3. g[0] = leaf /\ \A k \in 1 .. n + 1 : g[k] = Node(g[k - 1], longer[k])
  BY <1>1, ComputedDef
<1> HIDE DEF f, g
<1>4. 0 \in T
  BY <1>2, <1>3
<1>5. ASSUME NEW k \in T PROVE k + 1 \in T
  <2>1. SUFFICES ASSUME k + 1 <= n PROVE g[k + 1] = f[k + 1]
    BY <1>5
  <2>2. k \in Nat /\ k + 1 \in 1 .. n /\ k + 1 \in 1 .. n + 1 /\ k + 1 - 1 = k /\ g[k] = f[k]
    BY <1>1, <1>5, <2>1
  <2> QED BY <1>1, <1>2, <1>3, <2>2
<1>6. T = Nat
  <2> HIDE DEF T
  <2>1. T \in SUBSET Nat
    BY DEF T
  <2> QED BY <1>4, <1>5, <2>1, NatSetInduction
<1>7. g[n] = f[n]
  BY <1>1, <1>6
<1>8. g[n + 1] = Node(f[n], longer[n + 1])
  <2>1. n + 1 \in 1 .. n + 1 /\ n + 1 - 1 = n
    BY <1>1
  <2> QED BY <1>1, <1>3, <1>7, <2>1
<1> QED BY <1>1, <1>8 DEF n, f, g

--------------------------------------------------------------------------------
\* The pings of a tree are its leaves, one each: the k-th in the order of time is the
\* one that has k - 1 before it, and no two have as many.
LEMMA LeavesSound ==
  ASSUME NEW n \in Nat, NEW P \in SUBSET (0 .. n), P # {}
  PROVE  /\ Leaves(P) \in Seq({Leaf(t) : t \in P}) /\ Len(Leaves(P)) > 0
         /\ \A t \in P : \E i \in DOMAIN Leaves(P) : Leaves(P)[i] = Leaf(t)
<1> DEFINE Before(t) == {u \in P : u < t}
           rank == [t \in P |-> Cardinality(Before(t))]
           c == Cardinality(P)
<1>1. IsFiniteSet(P) /\ c \in Nat
  <2>1. 0 \in Int /\ n \in Int
    OBVIOUS
  <2>2. IsFiniteSet(0 .. n)
    BY <2>1, FS_Interval
  <2> QED BY <2>2, FS_Subset, FS_CardinalityType
<1>2. c > 0
  BY <1>1, FS_EmptySet
<1>3. ASSUME NEW t \in P PROVE rank[t] \in 0 .. c - 1 /\ IsFiniteSet(Before(t))
  <2>1. Before(t) \in SUBSET (P \ {t})
    OBVIOUS
  <2>2. IsFiniteSet(P \ {t}) /\ Cardinality(P \ {t}) = c - 1
    BY <1>1, FS_RemoveElement
  <2>3. IsFiniteSet(Before(t)) /\ Cardinality(Before(t)) <= c - 1
    <3> HIDE DEF Before
    <3> QED BY <2>1, <2>2, FS_Subset
  <2>4. Cardinality(Before(t)) \in Nat
    BY <2>3, FS_CardinalityType
  <2> QED BY <1>1, <2>3, <2>4
<1>4. ASSUME NEW t \in P, NEW u \in P, u < t PROVE rank[u] # rank[t]
  <2>1. Before(u) \in SUBSET Before(t) /\ u \in Before(t) /\ u \notin Before(u)
    <3>1. \A v \in P : v \in Int
      OBVIOUS
    <3>2. ~(u < u) /\ \A v \in P : v < u => v < t
      BY <1>4, <3>1
    <3> QED BY <1>4, <3>2
  <2>2. IsFiniteSet(Before(t)) /\ Before(u) # Before(t)
    BY <1>3, <2>1
  <2>3. Cardinality(Before(u)) # Cardinality(Before(t))
    <3> HIDE DEF Before
    <3> QED BY <2>1, <2>2, FS_Subset
  <2> QED BY <2>3
<1>5. \A t, u \in P : rank[t] = rank[u] => t = u
  <2> TAKE t, u \in P
  <2>1. t \in Int /\ u \in Int
    OBVIOUS
  <2>2. t < u \/ u < t \/ t = u
    BY <2>1
  <2> HIDE DEF rank
  <2> QED BY <1>4, <2>2
<1>6. rank \in [P -> 0 .. c - 1]
  <2> HIDE DEF c
  <2> QED BY <1>3
<1>7. IsFiniteSet(0 .. c - 1) /\ Cardinality(0 .. c - 1) = c
  <2>1. 0 \in Int /\ c - 1 \in Int
    BY <1>1
  <2>2. IsFiniteSet(0 .. c - 1)
           /\ Cardinality(0 .. c - 1) = IF 0 > c - 1 THEN 0 ELSE c - 1 - 0 + 1
    <3> HIDE DEF c
    <3> QED BY <2>1, FS_Interval
  <2> QED BY <1>1, <1>2, <2>2
<1>8. \A k \in 0 .. c - 1 : \E t \in P : rank[t] = k
  <2>1. rank \in Injection(P, 0 .. c - 1)
    <3> HIDE DEF rank, c
    <3> QED BY <1>5, <1>6 DEF Injection, IsInjective
  <2>2. rank \in Surjection(P, 0 .. c - 1)
    <3>1. Cardinality(P) = Cardinality(0 .. c - 1)
      BY <1>7
    <3> HIDE DEF rank, c
    <3> QED BY <1>7, <2>1, <3>1, FS_Injection
  <2> HIDE DEF rank, c
  <2> QED BY <2>2 DEF Surjection
<1> DEFINE nth(i) == CHOOSE t \in P : Cardinality({u \in P : u < t}) = i - 1
<1>9. ASSUME NEW i \in 1 .. c PROVE nth(i) \in P /\ rank[nth(i)] = i - 1
  <2>1. i - 1 \in 0 .. c - 1
    BY <1>1
  <2>2. \E t \in P : rank[t] = i - 1
    <3> HIDE DEF rank, c
    <3> QED BY <1>8, <2>1
  <2>3. \E t \in P : Cardinality({u \in P : u < t}) = i - 1
    BY <2>2
  <2>4. nth(i) \in P /\ Cardinality({u \in P : u < nth(i)}) = i - 1
    BY <2>3
  <2> QED BY <2>4
<1>10. Leaves(P) = [i \in 1 .. c |-> Leaf(nth(i))]
  BY DEF Leaves
<1>11. Leaves(P) \in Seq({Leaf(t) : t \in P}) /\ Len(Leaves(P)) = c
       /\ DOMAIN Leaves(P) = 1 .. c
  <2> DEFINE L == {Leaf(t) : t \in P}
  <2>1. \A i \in 1 .. c : Leaf(nth(i)) \in L
    <3> HIDE DEF nth, c
    <3> QED BY <1>9
  <2> HIDE DEF nth, c, L
  <2>2. Leaves(P) \in [1 .. c -> L]
    BY <1>10, <2>1
  <2>3. Leaves(P) \in Seq(L) /\ Len(Leaves(P)) = c /\ DOMAIN Leaves(P) = 1 .. c
    BY <1>1, <2>2
  <2> QED BY <2>3 DEF L
<1>12. ASSUME NEW t \in P PROVE \E i \in 1 .. c : Leaves(P)[i] = Leaf(t)
  <2> DEFINE i == rank[t] + 1
  <2>1. i \in 1 .. c /\ i - 1 = rank[t]
    <3>1. rank[t] \in 0 .. c - 1
      BY <1>3
    <3> HIDE DEF rank, c
    <3> QED BY <1>1, <3>1
  <2>2. nth(i) \in P /\ rank[nth(i)] = rank[t]
    <3> HIDE DEF rank, c, nth, i
    <3> QED BY <1>9, <2>1
  <2>3. nth(i) = t
    <3> HIDE DEF rank, nth, i
    <3> QED BY <1>5, <2>2
  <2>4. Leaves(P)[i] = Leaf(t)
    <3> HIDE DEF rank, c, nth, i
    <3> QED BY <1>10, <2>1, <2>3
  <2> HIDE DEF i, c
  <2> QED BY <2>1, <2>4
<1> QED BY <1>2, <1>11, <1>12

\* All hashes of a tree.
Hashes(leaves) ==
  UNION {{Layers(leaves)[k][i] : i \in DOMAIN Layers(leaves)[k]} : k \in 0 .. Len(leaves)}

\* A hash of the tree is one of the leaves, or of a pair of hashes of the tree.
LEMMA HashesClosed ==
  ASSUME NEW V, NEW leaves \in Seq(V), Len(leaves) > 0, NEW h \in Hashes(leaves)
  PROVE  h \in V \/ \E a, b \in Hashes(leaves) : h = Node(a, b)
<1> DEFINE n == Len(leaves)
           layer == Layers(leaves)
           S == Hashes(leaves)
           Good(x) == x \in V \/ \E a, b \in S : x = Node(a, b)
           T == {k \in Nat : k <= n => \A i \in DOMAIN layer[k] : Good(layer[k][i])}
<1>1. n \in Nat /\ n > 0
  OBVIOUS
<1>2. layer[0] = leaves /\ \A k \in 1 .. n : layer[k] = Parents(layer[k - 1])
  BY <1>1, LayersDef
<1>3. \A k \in 0 .. n : (\E U : layer[k] \in Seq(U)) /\ Len(layer[k]) > 0
  BY LayerShape
<1>4. \A k \in 0 .. n : \A i \in DOMAIN layer[k] : layer[k][i] \in S
  BY DEF Hashes
<1>5. \E k \in 0 .. n : \E i \in DOMAIN layer[k] : h = layer[k][i]
  BY DEF Hashes
<1> HIDE DEF n, layer, S, Good
<1>6. 0 \in T
  <2>1. \A i \in DOMAIN leaves : leaves[i] \in V
    OBVIOUS
  <2> QED BY <1>2, <2>1 DEF Good
<1>7. ASSUME NEW k \in T PROVE k + 1 \in T
  <2>1. SUFFICES ASSUME k + 1 <= n, NEW i \in DOMAIN layer[k + 1] PROVE Good(layer[k + 1][i])
    BY <1>7
  <2>2. k \in 0 .. n /\ k + 1 \in 1 .. n /\ k + 1 - 1 = k
    BY <1>1, <1>7, <2>1
  <2> DEFINE l == layer[k]
             m == Half(l)
  <2>3. layer[k + 1] = Parents(l) /\ (\A j \in DOMAIN l : Good(l[j]) /\ l[j] \in S)
    BY <1>2, <1>4, <1>7, <2>1, <2>2
  <2>4. PICK U : l \in Seq(U) /\ Len(l) > 0
    BY <1>3, <2>2
  <2> HIDE DEF l
  <2> DEFINE N == Pairs(U)
  <2>5. /\ m \in Nat /\ Parents(l) \in Seq(U \cup N) /\ Len(Parents(l)) = m
        /\ \A j \in 1 .. m :
             /\ 2 * j <= Len(l) => Parents(l)[j] = Node(l[2 * j - 1], l[2 * j])
             /\ 2 * j > Len(l) => Parents(l)[j] = l[2 * j - 1]
             /\ 2 * j - 1 \in 1 .. Len(l)
    <3>1. m \in Nat /\ Parents(l) \in Seq(U \cup N) /\ Len(Parents(l)) = m
      BY <2>4, ParentsSound
    <3>2. ASSUME NEW j \in 1 .. m
          PROVE  /\ 2 * j <= Len(l) => Parents(l)[j] = Node(l[2 * j - 1], l[2 * j])
                 /\ 2 * j > Len(l) => Parents(l)[j] = l[2 * j - 1]
                 /\ 2 * j - 1 \in 1 .. Len(l)
      BY <2>4, ParentsSound
    <3> HIDE DEF m, N
    <3> QED BY <3>1, <3>2
  <2> HIDE DEF m, N
  <2>6. i \in 1 .. m /\ DOMAIN l = 1 .. Len(l) /\ Len(l) \in Nat
    BY <2>1, <2>3, <2>4, <2>5
  <2>7. 2 * i - 1 \in DOMAIN l
    BY <2>5, <2>6
  <2>8. CASE 2 * i <= Len(l)
    <3>1. 2 * i \in DOMAIN l
      BY <2>5, <2>6, <2>8
    <3>2. Parents(l)[i] = Node(l[2 * i - 1], l[2 * i])
      BY <2>5, <2>6, <2>8
    <3> QED BY <2>3, <2>7, <3>1, <3>2 DEF Good
  <2>9. CASE 2 * i > Len(l)
    <3>1. Parents(l)[i] = l[2 * i - 1]
      BY <2>5, <2>6, <2>9
    <3> QED BY <2>3, <2>7, <3>1
  <2>10. 2 * i <= Len(l) \/ 2 * i > Len(l)
    BY <2>5, <2>6
  <2> QED BY <2>8, <2>9, <2>10
<1>8. T = Nat
  <2> HIDE DEF T
  <2>1. T \in SUBSET Nat
    BY DEF T
  <2> QED BY <1>6, <1>7, <2>1, NatSetInduction
<1>9. Good(h)
  BY <1>1, <1>5, <1>8
<1> QED BY <1>9 DEF Good, S

\* verifyPing is right: what leads from a leaf to the root of a tree of pings leads
\* from one of its pings, whatever the proof.
LEMMA VerifySound ==
  ASSUME NEW P, NEW leaves \in Seq({Leaf(u) : u \in P}), Len(leaves) > 0,
         NEW t, NEW V, NEW proof \in Seq(V), VerifyPing(RootOf(leaves), Leaf(t), proof)
  PROVE  t \in P
<1> DEFINE S == Hashes(leaves)
           n == Len(proof)
           f == Computed(Leaf(t), proof)
           W == {Leaf(u) : u \in P}
           T == {k \in Nat : k <= n => f[n - k] \in S}
<1>1. n \in Nat
  OBVIOUS
<1>2. f[0] = Leaf(t) /\ \A k \in 1 .. n : f[k] = Node(f[k - 1], proof[k])
  BY <1>1, ComputedDef
<1>3. f[n] \in S
  <2>1. f[n] = Layers(leaves)[Len(leaves)][1]
    BY DEF VerifyPing, RootOf
  <2>2. Len(leaves) \in 0 .. Len(leaves)
    OBVIOUS
  <2>3. PICK U : Layers(leaves)[Len(leaves)] \in Seq(U)
    BY <2>2, LayerShape
  <2>4. Len(Layers(leaves)[Len(leaves)]) = 1
    BY LayerShape
  <2>5. 1 \in DOMAIN Layers(leaves)[Len(leaves)]
    BY <2>3, <2>4
  <2> QED BY <2>1, <2>2, <2>5 DEF Hashes
<1>4. \A h \in S : h \in W \/ \E a, b \in S : h = Node(a, b)
  BY HashesClosed
<1> HIDE DEF S, n, f, W
<1>5. 0 \in T
  BY <1>1, <1>3
<1>6. ASSUME NEW k \in T PROVE k + 1 \in T
  <2>1. SUFFICES ASSUME k + 1 <= n PROVE f[n - (k + 1)] \in S
    BY <1>6
  <2>2. n - k \in 1 .. n /\ n - k - 1 = n - (k + 1) /\ f[n - k] \in S
    BY <1>1, <1>6, <2>1
  <2>3. f[n - k] = Node(f[n - (k + 1)], proof[n - k])
    BY <1>2, <2>2
  <2>4. f[n - k] \notin W
    BY <2>3, HashesDiffer DEF W
  <2>5. PICK a \in S, b \in S : f[n - k] = Node(a, b)
    BY <1>4, <2>2, <2>4
  <2>6. f[n - (k + 1)] \in {a, b}
    <3>1. Node(f[n - (k + 1)], proof[n - k]) = Node(a, b)
      BY <2>3, <2>5
    <3> QED BY <3>1, HashesDiffer
  <2> QED BY <2>5, <2>6
<1>7. T = Nat
  <2> HIDE DEF T
  <2>1. T \in SUBSET Nat
    BY DEF T
  <2> QED BY <1>5, <1>6, <2>1, NatSetInduction
<1>8. f[0] \in S
  <2>1. n \in T /\ n - n = 0
    <3>1. n - n = 0
      BY <1>1
    <3>2. n \in T
      <4> HIDE DEF T
      <4> QED BY <1>1, <1>7
    <3> QED BY <3>1, <3>2
  <2>2. f[n - n] \in S
    BY <1>1, <2>1
  <2> QED BY <2>1, <2>2
<1>9. Leaf(t) \in W
  BY <1>2, <1>4, <1>8, HashesDiffer
<1> QED BY <1>9, HashesDiffer DEF W

--------------------------------------------------------------------------------
ClimbUpto(f, leaves, i, n) ==
  f = [k \in 0 .. n |-> IF k = 0 THEN [at |-> i, proof |-> <<>>]
                        ELSE StepUp(Layers(leaves)[k - 1], f[k - 1])]

LEMMA ClimbExist ==
  ASSUME NEW leaves, NEW i, NEW n \in Nat
  PROVE  \E f : ClimbUpto(f, leaves, i, n)
<1> DEFINE start == [at |-> i, proof |-> <<>>]
           layer == Layers(leaves)
           Up(f, m) == [k \in 0 .. m |-> IF k = 0 THEN start ELSE StepUp(layer[k - 1], f[k - 1])]
           T == {m \in Nat : \E f : f = Up(f, m)}
<1> HIDE DEF start, layer
<1>1. 0 \in T
  <2> DEFINE f == [k \in 0 .. 0 |-> start]
  <2>1. f = Up(f, 0)
    OBVIOUS
  <2> QED BY <2>1
<1>2. ASSUME NEW m \in T PROVE m + 1 \in T
  <2>1. PICK f : f = Up(f, m)
    OBVIOUS
  <2> DEFINE g == Up(f, m + 1)
  <2>2. \A k \in 0 .. m : g[k] = f[k]
    BY <2>1
  <2>3. \A k \in 0 .. m + 1 : k # 0 => g[k - 1] = f[k - 1]
    <3>1. \A k \in 0 .. m + 1 : k # 0 => k - 1 \in 0 .. m
      OBVIOUS
    <3> HIDE DEF g
    <3> QED BY <2>2, <3>1
  <2>4. g = Up(g, m + 1)
    <3> DEFINE h == Up(g, m + 1)
    <3>1. \A k \in 0 .. m + 1 : h[k] = IF k = 0 THEN start ELSE StepUp(layer[k - 1], g[k - 1])
      OBVIOUS
    <3>2. \A k \in 0 .. m + 1 : g[k] = IF k = 0 THEN start ELSE StepUp(layer[k - 1], f[k - 1])
      OBVIOUS
    <3>3. g = [k \in 0 .. m + 1 |-> g[k]] /\ h = [k \in 0 .. m + 1 |-> h[k]]
      OBVIOUS
    <3> HIDE DEF g, h
    <3>4. \A k \in 0 .. m + 1 : g[k] = h[k]
      BY <2>3, <3>1, <3>2
    <3>5. g = h
      BY <3>3, <3>4
    <3> QED BY <3>5 DEF h
  <2> HIDE DEF g, Up
  <2> QED BY <2>4
<1> HIDE DEF T
<1>3. T \in SUBSET Nat
  BY DEF T
<1>4. T = Nat
  BY <1>1, <1>2, <1>3, NatSetInduction
<1> QED BY <1>4 DEF T, ClimbUpto, start, layer

LEMMA ClimbDef ==
  ASSUME NEW leaves, Len(leaves) \in Nat, NEW i
  PROVE  /\ Climb(leaves, i)[0] = [at |-> i, proof |-> <<>>]
         /\ \A k \in 1 .. Len(leaves) :
              Climb(leaves, i)[k] = StepUp(Layers(leaves)[k - 1], Climb(leaves, i)[k - 1])
<1> DEFINE Is(f) == ClimbUpto(f, leaves, i, Len(leaves))
<1>1. \E f : Is(f)
  BY ClimbExist
<1>2. Climb(leaves, i) = CHOOSE f : Is(f)
  BY DEF Climb, ClimbUpto
<1>3. Is(Climb(leaves, i))
  <2> HIDE DEF Is
  <2> QED BY <1>1, <1>2
<1> DEFINE g == Climb(leaves, i)
           start == [at |-> i, proof |-> <<>>]
<1>4. g = [k \in 0 .. Len(leaves) |->
             IF k = 0 THEN start ELSE StepUp(Layers(leaves)[k - 1], g[k - 1])]
  BY <1>3 DEF ClimbUpto
<1> HIDE DEF g, start
<1>5. \A k \in 0 .. Len(leaves) :
        g[k] = IF k = 0 THEN start ELSE StepUp(Layers(leaves)[k - 1], g[k - 1])
  BY <1>4
<1> QED BY <1>5 DEF g, start

\* The proof so far leads from the leaf to the hash the climb has come to.
Leads(p, leaf, layer) ==
  /\ p = [at |-> p.at, proof |-> p.proof]
  /\ p.at \in DOMAIN layer
  /\ \E W : p.proof \in Seq(W)
  /\ Computed(leaf, p.proof)[Len(p.proof)] = layer[p.at]

\* The parent of an even place.
LEMMA Halves ==
  ASSUME NEW a \in Nat, a % 2 # 1 PROVE a % 2 = 0 /\ 2 * ((a + 1) \div 2) = a
<1>1. a % 2 = 0
  OBVIOUS
<1> QED BY <1>1

\* One step up: if the proof so far leads from the leaf to the hash it has come to,
\* the longer one leads to the hash above it.
LEMMA StepUpSound ==
  ASSUME NEW leaf, NEW U, NEW layer \in Seq(U), NEW at \in DOMAIN layer,
         NEW V, NEW proof \in Seq(V), Computed(leaf, proof)[Len(proof)] = layer[at]
  PROVE  Leads(StepUp(layer, [at |-> at, proof |-> proof]), leaf, Parents(layer))
<1> DEFINE n == Len(layer)
           up == (at + 1) \div 2
           p == StepUp(layer, [at |-> at, proof |-> proof])
           below == Computed(leaf, proof)[Len(proof)]
<1>1. n \in Nat /\ at \in 1 .. n /\ n > 0 /\ DOMAIN layer = 1 .. n
  OBVIOUS
<1>2. /\ Half(layer) \in Nat /\ DOMAIN Parents(layer) = 1 .. Half(layer)
      /\ \A i \in 1 .. Half(layer) :
           /\ 2 * i <= n => Parents(layer)[i] = Node(layer[2 * i - 1], layer[2 * i])
           /\ 2 * i > n => Parents(layer)[i] = layer[2 * i - 1]
  <2>1. Parents(layer) \in Seq(U \cup Pairs(U)) /\ Len(Parents(layer)) = Half(layer)
        /\ Half(layer) \in Nat
    BY <1>1, ParentsSound
  <2>2. DOMAIN Parents(layer) = 1 .. Half(layer)
    BY <2>1
  <2> QED BY <1>1, <2>1, <2>2, ParentsSound
<1>3. up \in 1 .. Half(layer)
  <2>1. Half(layer) = (n + 1) \div 2
    BY DEF Half
  <2> HIDE DEF n
  <2> QED BY <1>1, <2>1
<1>4. /\ p = [at |-> p.at, proof |-> p.proof] /\ p.at = up
      /\ Sibling(at) <= n => p.proof = Append(proof, layer[Sibling(at)])
      /\ ~(Sibling(at) <= n) => p.proof = proof
  BY DEF StepUp
<1> HIDE DEF p
<1>5. ASSUME Sibling(at) \in 1 .. n, Parents(layer)[up] = Node(layer[at], layer[Sibling(at)])
      PROVE  /\ \E W : p.proof \in Seq(W)
             /\ Computed(leaf, p.proof)[Len(p.proof)] = Parents(layer)[up]
  <2>1. p.proof = Append(proof, layer[Sibling(at)])
    BY <1>1, <1>4, <1>5
  <2> DEFINE s == layer[Sibling(at)]
             longer == Append(proof, s)
  <2> HIDE DEF s
  <2>2. /\ Len(proof) \in Nat /\ Len(longer) = Len(proof) + 1
        /\ \A k \in 1 .. Len(proof) : longer[k] = proof[k]
        /\ longer[Len(longer)] = s /\ longer \in Seq(V \cup {s})
    OBVIOUS
  <2>3. p.proof = longer
    BY <2>1 DEF s
  <2> HIDE DEF longer
  <2>4. Computed(leaf, longer)[Len(longer)] = Node(below, s)
    BY <2>2, ComputedLonger
  <2>5. Parents(layer)[up] = Node(below, s)
    BY <1>5 DEF s
  <2> QED BY <2>2, <2>3, <2>4, <2>5
<1> DEFINE Sound == /\ \E W : p.proof \in Seq(W)
                    /\ Computed(leaf, p.proof)[Len(p.proof)] = Parents(layer)[up]
<1>6. ASSUME at % 2 = 1 PROVE Sound
  <2>1. Sibling(at) = at + 1 /\ 2 * up = at + 1 /\ 2 * up - 1 = at
    <3>1. at \in Nat
      BY <1>1
    <3>2. Sibling(at) = at + 1
      BY <1>6 DEF Sibling
    <3> QED BY <1>6, <3>1, <3>2
  <2>2. CASE at + 1 <= n
    <3>1. Sibling(at) \in 1 .. n
      BY <1>1, <2>1, <2>2
    <3>2. Parents(layer)[up] = Node(layer[at], layer[at + 1])
      BY <1>2, <1>3, <2>1, <2>2
    <3> QED BY <1>5, <2>1, <3>1, <3>2
  <2>3. CASE ~(at + 1 <= n)
    <3>1. p.proof = proof
      BY <1>4, <2>1, <2>3
    <3>2. 2 * up > n
      BY <1>1, <2>1, <2>3
    <3>3. Parents(layer)[up] = layer[at]
      BY <1>2, <1>3, <2>1, <3>2
    <3> QED BY <3>1, <3>3
  <2> QED BY <2>2, <2>3
<1>7. ASSUME at % 2 # 1 PROVE Sound
  <2>1. Sibling(at) = at - 1 /\ 2 * up = at /\ 2 * up - 1 = at - 1 /\ at - 1 \in 1 .. n
    <3>1. at \in Nat /\ n \in Nat /\ 1 <= at /\ at <= n
      BY <1>1
    <3>2. Sibling(at) = at - 1
      BY <1>7 DEF Sibling
    <3>3. at % 2 = 0 /\ 2 * up = at
      BY <1>7, <3>1, Halves
    <3> HIDE DEF n, up
    <3> QED BY <3>1, <3>2, <3>3
  <2>2. Parents(layer)[up] = Node(layer[at - 1], layer[at])
    <3>1. 2 * up <= n
      BY <1>1, <2>1
    <3> HIDE DEF n, up
    <3> QED BY <1>2, <1>3, <2>1, <3>1
  <2>3. Parents(layer)[up] = Node(layer[at], layer[Sibling(at)])
    BY <2>1, <2>2, HashesDiffer
  <2> QED BY <1>5, <2>1, <2>3
<1>8. Sound
  BY <1>6, <1>7
<1>9. p.at \in DOMAIN Parents(layer) /\ p.at = up
  BY <1>2, <1>3, <1>4
<1> QED BY <1>4, <1>8, <1>9 DEF p, Leads

\* proofFor is right: the proof of a leaf leads from it to the root.
LEMMA ProofLeadsToRoot ==
  ASSUME NEW V, NEW leaves \in Seq(V), Len(leaves) > 0, NEW i \in DOMAIN leaves
  PROVE  /\ VerifyPing(RootOf(leaves), leaves[i], ProofFor(leaves, i))
         /\ \E W : ProofFor(leaves, i) \in Seq(W)
<1> DEFINE n == Len(leaves)
           layer == Layers(leaves)
           path == Climb(leaves, i)
           T == {k \in Nat : k <= n => Leads(path[k], leaves[i], layer[k])}
<1>1. n \in Nat /\ n > 0
  OBVIOUS
<1>2. layer[0] = leaves /\ \A k \in 1 .. n : layer[k] = Parents(layer[k - 1])
  BY <1>1, LayersDef
<1>3. /\ path[0] = [at |-> i, proof |-> <<>>]
      /\ \A k \in 1 .. n : path[k] = StepUp(layer[k - 1], path[k - 1])
  BY <1>1, ClimbDef
<1>4. (\A k \in 0 .. n : \E U : layer[k] \in Seq(U)) /\ Len(layer[n]) = 1
  BY LayerShape
<1>5. VerifyPing(RootOf(leaves), leaves[i], ProofFor(leaves, i)) <=>
        Computed(leaves[i], path[n].proof)[Len(path[n].proof)] = layer[n][1]
  BY DEF VerifyPing, RootOf, ProofFor
<1>0. ProofFor(leaves, i) = path[n].proof
  BY DEF ProofFor
<1> HIDE DEF n, layer, path
<1>6. 0 \in T
  <2> DEFINE e == <<>>
  <2>1. e \in Seq({}) /\ Len(e) = 0
    OBVIOUS
  <2>2. Computed(leaves[i], e)[0] = leaves[i]
    BY <2>1, ComputedDef
  <2>3. path[0].at = i /\ path[0].proof = e /\ path[0] = [at |-> i, proof |-> e]
    BY <1>3
  <2> HIDE DEF e
  <2>4. Leads(path[0], leaves[i], leaves)
    BY <2>1, <2>2, <2>3 DEF Leads
  <2> QED BY <1>2, <2>4
<1>7. ASSUME NEW k \in T PROVE k + 1 \in T
  <2>1. SUFFICES ASSUME k + 1 <= n PROVE Leads(path[k + 1], leaves[i], layer[k + 1])
    BY <1>7
  <2>2. k \in 0 .. n /\ k + 1 \in 1 .. n /\ k + 1 - 1 = k
    BY <1>1, <1>7, <2>1
  <2> DEFINE q == path[k]
             l == layer[k]
  <2>3. Leads(q, leaves[i], l)
    BY <1>1, <1>7, <2>2
  <2>4. path[k + 1] = StepUp(l, q) /\ layer[k + 1] = Parents(l)
    BY <1>2, <1>3, <2>2
  <2>5. PICK U : l \in Seq(U)
    BY <1>4, <2>2
  <2> HIDE DEF q, l
  <2>6. PICK W : q.proof \in Seq(W)
    BY <2>3 DEF Leads
  <2>7. PICK at \in DOMAIN l, proof \in Seq(W) : q = [at |-> at, proof |-> proof]
    BY <2>3, <2>6 DEF Leads
  <2>8. Computed(leaves[i], proof)[Len(proof)] = l[at]
    BY <2>3, <2>7 DEF Leads
  <2>9. Leads(StepUp(l, [at |-> at, proof |-> proof]), leaves[i], Parents(l))
    BY <2>5, <2>8, StepUpSound
  <2> QED BY <2>4, <2>7, <2>9
<1>8. T = Nat
  <2> HIDE DEF T
  <2>1. T \in SUBSET Nat
    BY DEF T
  <2> QED BY <1>6, <1>7, <2>1, NatSetInduction
<1>9. Leads(path[n], leaves[i], layer[n])
  BY <1>1, <1>8
<1>10. path[n].at = 1
  <2>1. path[n].at \in DOMAIN layer[n]
    BY <1>9 DEF Leads
  <2>2. PICK U : layer[n] \in Seq(U)
    BY <1>1, <1>4
  <2> QED BY <1>4, <2>1, <2>2
<1> QED BY <1>0, <1>5, <1>9, <1>10 DEF Leads

--------------------------------------------------------------------------------
\* What proveMoment finds when it answers: an anchored row and its batch on the chain,
\* and around the instant at least the pings of the row, of which it takes one.
LEMMA RowFound ==
  ASSUME PipelineInv, NEW t \in Ts, Answered(t)
  PROVE  /\ Max(Around(t)) \in DOMAIN rows /\ RowAt(t) = rows[Max(Around(t))]
         /\ RowAt(t).index # Unanchored
         /\ RowAt(t).index + 1 \in DOMAIN chain /\ RowAt(t).index \in Int
         /\ RowAt(t).batch \in Windows /\ Anchored(t) \in Windows
<1>1. /\ rows \in Seq(RowState) /\ Len(rows) \in Nat /\ DOMAIN rows = 1 .. Len(rows)
      /\ chain \in Seq(Windows) /\ Len(chain) \in Nat /\ DOMAIN chain = 1 .. Len(chain)
  BY Sizes
<1>2. Around(t) \in SUBSET (0 .. Len(rows)) /\ Around(t) # {} /\ Around(t) \subseteq DOMAIN rows
  BY <1>1 DEF Around, Answered
<1>3. Max(Around(t)) \in Around(t)
  BY <1>1, <1>2, FirstAndLast
<1> DEFINE m == Max(Around(t))
<1>4. m \in DOMAIN rows /\ rows[m].index # Unanchored /\ RowAt(t) = rows[m]
  BY <1>3 DEF Around, RowAt
<1> HIDE DEF m
<1>5. rows[m] \in RowState
  BY <1>1, <1>4
<1>6. rows[m].index \in Int /\ rows[m].index >= 0 /\ rows[m].batch \in Windows
  BY <1>4, <1>5, AnchorAssumption DEF RowState, Index, Unanchored
<1>7. rows[m].index < Len(chain)
  BY <1>4 DEF Answered
<1>8. rows[m].index + 1 \in DOMAIN chain
  BY <1>1, <1>6, <1>7
<1>9. Anchored(t) \in Windows
  BY <1>1, <1>4, <1>8 DEF Anchored
<1> QED BY <1>4, <1>6, <1>8, <1>9 DEF m

LEMMA TargetFound ==
  ASSUME PipelineInv, NEW t \in Ts, Answered(t)
  PROVE  /\ BatchPings(t) \in SUBSET (0 .. MaxTs) /\ BatchPings(t) # {}
         /\ RowAt(t).batch.pings \subseteq BatchPings(t)
         /\ Target(t) \in BatchPings(t)
<1> DEFINE P == BatchPings(t)
           b == RowAt(t).batch
<1>1. MaxTs \in Nat /\ archive \subseteq Ts /\ t \in Int
  BY AnchorAssumption DEF PipelineInv, PipelineTyped, Ts
<1>2. P \in SUBSET (0 .. MaxTs)
  <2>1. P \subseteq archive
    BY DEF BatchPings
  <2>2. Ts \subseteq 0 .. MaxTs
    BY <1>1 DEF Ts
  <2> HIDE DEF P
  <2> QED BY <1>1, <2>1, <2>2
<1>3. b \in Windows /\ b.pings \subseteq archive
  BY RowFound DEF PipelineInv, Archived
<1>4. b.pings \subseteq P /\ P # {}
  BY <1>3 DEF BatchPings, Windows
<1> HIDE DEF P
<1>5. \A v \in P : Distance(t, v) \in 0 .. MaxTs
  BY <1>1, <1>2 DEF Distance, Ts
<1> DEFINE D == {Distance(t, v) : v \in P}
           N == {u \in P : \A v \in P : Distance(t, u) <= Distance(t, v)}
<1>6. D \in SUBSET (0 .. MaxTs) /\ D # {}
  BY <1>4, <1>5
<1>7. Min(D) \in D /\ \A d \in D : Min(D) <= d
  <2> HIDE DEF D
  <2> QED BY <1>1, <1>6, FirstAndLast
<1>8. N # {}
  <2>1. PICK u \in P : Min(D) = Distance(t, u)
    BY <1>7
  <2>2. \A v \in P : Distance(t, v) \in D
    OBVIOUS
  <2> HIDE DEF D
  <2> QED BY <1>7, <2>1, <2>2
<1>9. N \in SUBSET (0 .. MaxTs) /\ N \subseteq P
  BY <1>2
<1>10. Target(t) = Min(N)
  BY DEF Target, P
<1>11. Min(N) \in N
  <2> HIDE DEF N
  <2> QED BY <1>1, <1>8, <1>9, FirstAndLast
<1> QED BY <1>2, <1>4, <1>9, <1>10, <1>11 DEF P

\* The leaf that proveMoment looks up in the tree it has rebuilt.
LEMMA LeafFound ==
  ASSUME PipelineInv, NEW t \in Ts, Answered(t)
  PROVE  LET tree == Leaves(BatchPings(t))
             i == CHOOSE n \in DOMAIN tree : tree[n] = Leaf(Target(t))
         IN  /\ tree \in Seq({Leaf(u) : u \in BatchPings(t)}) /\ Len(tree) > 0
             /\ i \in DOMAIN tree /\ tree[i] = Leaf(Target(t))
<1>1. MaxTs \in Nat
  BY AnchorAssumption
<1>2. BatchPings(t) \in SUBSET (0 .. MaxTs) /\ BatchPings(t) # {} /\ Target(t) \in BatchPings(t)
  BY TargetFound
<1>3. /\ Leaves(BatchPings(t)) \in Seq({Leaf(u) : u \in BatchPings(t)})
      /\ Len(Leaves(BatchPings(t))) > 0
      /\ \A u \in BatchPings(t) :
           \E i \in DOMAIN Leaves(BatchPings(t)) : Leaves(BatchPings(t))[i] = Leaf(u)
  BY <1>1, <1>2, LeavesSound
<1> QED BY <1>2, <1>3

\* The archive, however many pings came late, leads to no ping but those anchored.
OnlyAnchoredVerifies ==
  \A t \in Ts : Answered(t) /\ VerifiedOnChain(t) => Target(t) \in Anchored(t).pings

LEMMA VerifiesAnchored ==
  ASSUME PipelineInv PROVE OnlyAnchoredVerifies
<1> SUFFICES ASSUME NEW t \in Ts, Answered(t), VerifiedOnChain(t)
             PROVE  Target(t) \in Anchored(t).pings
  BY DEF OnlyAnchoredVerifies
<1> DEFINE tree == Leaves(BatchPings(t))
           i == CHOOSE n \in DOMAIN tree : tree[n] = Leaf(Target(t))
           P == Anchored(t).pings
<1>1. VerifyPing(RootOf(Leaves(P)), Leaf(Target(t)), ProofFor(tree, i))
  BY DEF VerifiedOnChain
<1>2. tree \in Seq({Leaf(u) : u \in BatchPings(t)}) /\ Len(tree) > 0 /\ i \in DOMAIN tree
  BY LeafFound
<1> HIDE DEF tree, i
<1>3. PICK W : ProofFor(tree, i) \in Seq(W)
  BY <1>2, ProofLeadsToRoot
<1>4. MaxTs \in Nat /\ P \in SUBSET (0 .. MaxTs) /\ P # {}
  <2>1. Anchored(t) \in Windows
    BY RowFound
  <2> QED BY <2>1, AnchorAssumption DEF Windows, Batches, Ts
<1> HIDE DEF P
<1>5. Leaves(P) \in Seq({Leaf(u) : u \in P}) /\ Len(Leaves(P)) > 0
  BY <1>4, LeavesSound
<1>6. Target(t) \in P
  BY <1>1, <1>3, <1>5, VerifySound
<1> QED BY <1>6 DEF P

\* The tree rebuilt is the tree anchored, if nothing failed and nothing came late.
LEMMA VerifiesPunctual ==
  ASSUME PipelineInv, InStep, NEW t \in Ts, Answered(t), faults = 0, ~CameLate(t)
  PROVE  VerifiedOnChain(t)
<1> DEFINE P == BatchPings(t)
           tree == Leaves(P)
           i == CHOOSE n \in DOMAIN tree : tree[n] = Leaf(Target(t))
           m == Max(Around(t))
<1>1. /\ m \in DOMAIN rows /\ RowAt(t) = rows[m] /\ rows[m].index # Unanchored
      /\ rows[m].index + 1 \in DOMAIN chain
  BY RowFound
<1> HIDE DEF m
<1>2. ChainInStep
  BY DEF InStep, Ordered
<1>3. Anchored(t) = rows[m].batch
  <2>1. m \in Nat /\ Marked \in Int
    BY <1>1, Sizes
  <2>2. rows[m].index = m - 1
    BY <1>1, <1>2, <2>1 DEF ChainInStep
  <2>3. rows[m].index + 1 = m
    BY <2>1, <2>2
  <2> QED BY <1>1, <1>2, <2>3 DEF ChainInStep, Anchored
<1>4. Anchored(t).pings = P
  <2>1. rows[m].batch.pings \subseteq P
    BY <1>1, TargetFound
  <2>2. P \subseteq rows[m].batch.pings
    BY <1>1 DEF CameLate
  <2> QED BY <1>3, <2>1, <2>2
<1>5. /\ tree \in Seq({Leaf(u) : u \in P}) /\ Len(tree) > 0
      /\ i \in DOMAIN tree /\ tree[i] = Leaf(Target(t))
  BY LeafFound
<1>6. VerifiedOnChain(t) <=> VerifyPing(RootOf(tree), Leaf(Target(t)), ProofFor(tree, i))
  BY <1>4 DEF VerifiedOnChain
<1> HIDE DEF tree, i
<1>7. VerifyPing(RootOf(tree), tree[i], ProofFor(tree, i))
  BY <1>5, ProofLeadsToRoot
<1> QED BY <1>5, <1>6, <1>7

\* proveMoment never confirms a ping that its batch on the chain does not hold, however
\* sweeps overlap, jobs fail and are retried, and pings come late.
THEOREM OnlyAnchoredCorrect == AnchorSpec => []OnlyAnchoredVerifies
<1>1. PipelineInv => OnlyAnchoredVerifies
  BY VerifiesAnchored
<1> QED BY <1>1, PipelineInvariant, PTL

\* Moreover, with one sweep at a time, every instant of an anchored window can be proved
\* as long as nothing failed and no ping came late into it.
THEOREM ProofsCorrect ==
  ASSUME OneSweep PROVE AnchorSpec => []ProofsVerify
<1>1. ASSUME PipelineInv, InStep PROVE ProofsVerify
  <2> SUFFICES ASSUME NEW t \in Ts, Answered(t)
               PROVE  /\ VerifiedOnChain(t) => Target(t) \in Anchored(t).pings
                      /\ faults = 0 /\ ~CameLate(t) => VerifiedOnChain(t)
    BY DEF ProofsVerify
  <2>1. VerifiedOnChain(t) => Target(t) \in Anchored(t).pings
    BY <1>1, VerifiesAnchored DEF OnlyAnchoredVerifies
  <2>2. faults = 0 /\ ~CameLate(t) => VerifiedOnChain(t)
    BY <1>1, VerifiesPunctual
  <2> QED BY <2>1, <2>2
<1>2. AnchorSpec => []InStep
  BY PipelineInStep
<1> QED BY <1>1, <1>2, PipelineInvariant, PTL

================================================================================
