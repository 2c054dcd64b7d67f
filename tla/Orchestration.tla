------------------------------ MODULE Orchestration ------------------------------
(***************************************************************************)
(* The cross-domain flows of platform/api/orchestration: starting a trip   *)
(* (assignment, GPS binding, custody manifest) and confirming its delivery *)
(* (custody write, booking transition, GPS release), with the single       *)
(* domain operations that touch the same rows: assignTruck and cancel of   *)
(* platform/api/bookings, createManifest of platform/api/custody,          *)
(* setTruckStatus of platform/api/fleet, start-trip and end-trip of        *)
(* platform/api/gps.                                                       *)
(*                                                                         *)
(* startTrip is one database transaction that awaits the chain inside; its *)
(* row locks are held until it ends and what it wrote appears at commit.   *)
(* A failed attempt rolls back the database but not the chain.             *)
(* confirmDelivery is three separate transactions, one of them around a    *)
(* chain write.  Locks are read off the requests that hold them.           *)
(***************************************************************************)
EXTENDS Integers, FiniteSets

CONSTANTS
  Booking, Truck, Request,
  None,          \* no booking, no truck
  WithDevice,    \* trucks with an active GPS device
  MaxAnchors,    \* bound: manifests anchored for one booking
  MaxFailures    \* bound: requests that die half way

ASSUME OrchestrationAssumption ==
  /\ None \notin Booking \cup Truck
  /\ WithDevice \subseteq Truck
  /\ IsFiniteSet(Request)
  /\ MaxAnchors \in Nat /\ MaxFailures \in Nat

VARIABLES
  booking,   \* bookings: status, truck, trip_id present, manifest_id
  truck,     \* trucks.status: the code asks only whether it is AVAILABLE, and
             \* ON_TRIP stands for the other three
  device,    \* the booking whose trip the truck's GPS device is bound to
  byRoute,   \* trucks whose binding the GPS route wrote last (history)
  stored,    \* manifests: the row of each booking (0: none)
  anchors,   \* manifests of each booking on the chain; ids are 1 .. anchors[b]
  custody,   \* chain status of the stored manifest
  req,       \* requests in flight
  failed,    \* attempts to start or build that failed, per booking
  failures

dbVars == <<booking, truck, device, byRoute, stored>>
orchVars == <<booking, truck, device, byRoute, stored, anchors, custody, req, failed, failures>>

Custody == {"None", "Created", "InCustody", "Delivered", "Short", "Disputed"}
ManifestId == 0 .. MaxAnchors

NewBooking == [status |-> "CONFIRMED", truck |-> None, trip |-> FALSE, manifest |-> 0]
Idle == [pc |-> "idle", b |-> None, t |-> None, start |-> FALSE, custody |-> FALSE, mine |-> 0]

OrchInit ==
  /\ booking = [b \in Booking |-> NewBooking]
  /\ truck = [t \in Truck |-> "AVAILABLE"]
  /\ device = [t \in Truck |-> None]
  /\ byRoute = {}
  /\ stored = [b \in Booking |-> 0]
  /\ anchors = [b \in Booking |-> 0]
  /\ custody = [b \in Booking |-> "None"]
  /\ req = [r \in Request |-> Idle]
  /\ failed = [b \in Booking |-> 0]
  /\ failures = 0

TruckStatus == {"AVAILABLE", "ON_TRIP"}

Become(r, q) == req' = [req EXCEPT ![r] = q]

\* Row locks: SELECT ... FOR UPDATE of the booking, UPDATE of the truck.
BookingFree(b) ==
  \A q \in Request : req[q].b = b => req[q].pc \notin {"locked", "seen", "written", "persist"}
TruckFree(t) ==
  \A q \in Request : req[q].t = t => req[q].pc \notin {"written", "persist"}

--------------------------------------------------------------------------------
\* --- startTrip and assignTruck ----------------------------------------------

\* A manifest is made if the parties were named and the module is enabled (asked), and
\* only for a driver with a signing key (driverSigningAddress).
WantsCustody(asked, driverHasKey) == asked /\ driverHasKey

\* assignTruck: lock the booking.
Begin(r, b, t, start, wantsCustody) ==
  /\ req[r].pc = "idle"
  /\ BookingFree(b)
  /\ booking[b].status = "CONFIRMED"
  /\ Become(r, [pc |-> "locked", b |-> b, t |-> t, start |-> start,
                custody |-> start /\ wantsCustody, mine |-> 0])
  /\ UNCHANGED <<dbVars, anchors, custody, failed, failures>>

\* SELECT id FROM trucks WHERE status = 'AVAILABLE', without a lock.
SeeTruck(r) ==
  /\ req[r].pc = "locked"
  /\ IF truck[req[r].t] = "AVAILABLE"
     THEN Become(r, [req[r] EXCEPT !.pc = "seen"])
     ELSE Become(r, Idle)  \* TRUCK_NOT_AVAILABLE
  /\ UNCHANGED <<dbVars, anchors, custody, failed, failures>>

\* UPDATE trucks: waits for another transaction's lock, does not look again.
MutWriteAssignment(r) ==
  /\ req[r].pc = "seen"
  /\ TruckFree(req[r].t)
  /\ Become(r, [req[r] EXCEPT !.pc = "written"])
  /\ device' = IF req[r].start THEN [device EXCEPT ![req[r].t] = req[r].b] ELSE device
  /\ UNCHANGED <<booking, truck, byRoute, stored, anchors, custody, failed, failures>>
WriteAssignment(r) ==
  /\ req[r].pc = "seen"
  /\ TruckFree(req[r].t)
  /\ Become(r, [req[r] EXCEPT !.pc = "written"])
  /\ UNCHANGED <<dbVars, anchors, custody, failed, failures>>

\* resolveTripId: a start gives the booking its trip, and never replaces one.
ResolvedTrip(q) == q.start \/ booking[q.b].trip

\* What a successful start commits; m is the manifest it links (0: none).
Assigned(q, m) ==
  [ status |-> "ASSIGNED", truck |-> q.t,
    trip |-> ResolvedTrip(q),
    manifest |-> IF m # 0 THEN m ELSE booking[q.b].manifest ]

CommitAssignment(q, m) ==
  /\ booking' = [booking EXCEPT ![q.b] = Assigned(q, m)]
  /\ truck' = [truck EXCEPT ![q.t] = "ON_TRIP"]
  /\ IF q.start /\ q.t \in WithDevice
     THEN device' = [device EXCEPT ![q.t] = q.b] /\ byRoute' = byRoute \ {q.t}
     ELSE UNCHANGED <<device, byRoute>>

\* getByBooking: the booking's manifest row.
HasManifest(b) == stored[b] # 0

\* No manifest is wanted, or the booking's existing one is reused.
CommitWithoutAnchor(r) ==
  LET q == req[r] IN
  /\ q.pc = "written"
  /\ q.custody => HasManifest(q.b)
  /\ CommitAssignment(q, 0)
  /\ Become(r, Idle)
  /\ UNCHANGED <<stored, anchors, custody, failed, failures>>

\* manifests_booking_unique: one manifest row for each booking.
MutUnclaimed(b) == TRUE
Unclaimed(b) == stored[b] = 0

\* ManifestBuilder.build: createManifest on the chain comes before the rows.
Anchor(r, from, to) ==
  LET q == req[r] IN
  /\ q.pc = from
  /\ anchors[q.b] < MaxAnchors
  /\ anchors' = [anchors EXCEPT ![q.b] = @ + 1]
  /\ Become(r, [q EXCEPT !.pc = to, !.mine = anchors[q.b] + 1])
  /\ UNCHANGED <<dbVars, custody, failed, failures>>

\* A start without an earlier manifest to reuse builds one, as the custody route does.
Building(r) ==
  \/ req[r].pc = "written" /\ req[r].custody /\ ~HasManifest(req[r].b)
  \/ req[r].pc = "build"

AnchorForTrip(r) ==
  /\ Building(r)
  /\ Anchor(r, "written", "persist")

\* resolvePieces: neither pieces nor a count came with the request.
NoPieces(r) ==
  /\ Building(r)
  /\ Become(r, Idle)
  /\ UNCHANGED <<dbVars, anchors, custody, failed, failures>>

\* createManifest reverts or the node is out of reach: the request rolls back.
AnchorFails(r) ==
  /\ Building(r)
  /\ Become(r, Idle)
  /\ UNCHANGED <<dbVars, anchors, custody, failed, failures>>

Store(q) ==
  /\ stored' = [stored EXCEPT ![q.b] = q.mine]
  /\ custody' = [custody EXCEPT ![q.b] = "Created"]

MutLinked(q) == q.mine + 1
Linked(q) == q.mine

CommitWithAnchor(r) ==
  LET q == req[r] IN
  /\ q.pc = "persist"
  /\ Unclaimed(q.b)
  /\ Store(q)
  /\ CommitAssignment(q, Linked(q))
  /\ Become(r, Idle)
  /\ UNCHANGED <<anchors, failed, failures>>

\* --- createManifest of the custody routes -----------------------------------
BeginBuild(r, b) ==
  /\ req[r].pc = "idle"
  /\ ~HasManifest(b)
  /\ Become(r, [Idle EXCEPT !.pc = "build", !.b = b])
  /\ UNCHANGED <<dbVars, anchors, custody, failed, failures>>

AnchorForBuild(r) == Anchor(r, "build", "anchored")

\* The manifest row references the booking row and waits for its lock.
CommitBuild(r) ==
  /\ req[r].pc = "anchored"
  /\ BookingFree(req[r].b)
  /\ Unclaimed(req[r].b)
  /\ Store(req[r])
  /\ Become(r, Idle)
  /\ UNCHANGED <<booking, truck, device, byRoute, anchors, failed, failures>>

\* manifests_booking_unique: the manifest of another request got there first.
ManifestConflict(r) ==
  LET q == req[r] IN
  /\ q.pc \in {"persist", "anchored"}
  /\ ~Unclaimed(q.b)
  /\ failed' = [failed EXCEPT ![q.b] = @ + 1]
  /\ Become(r, Idle)
  /\ UNCHANGED <<dbVars, anchors, custody, failures>>

--------------------------------------------------------------------------------
\* --- confirmDelivery --------------------------------------------------------

\* The booking row is read without a lock; the truck is remembered.
BeginConfirm(r, b) ==
  /\ req[r].pc = "idle"
  /\ booking[b].manifest # 0
  /\ Become(r, [Idle EXCEPT !.pc = "submit", !.b = b, !.t = booking[b].truck])
  /\ UNCHANGED <<dbVars, anchors, custody, failed, failures>>

\* custody.confirmDelivery writes the chain; it reverts unless InCustody.
SubmitDelivery(r, outcome) ==
  /\ req[r].pc = "submit"
  /\ custody[req[r].b] = "InCustody"
  /\ custody' = [custody EXCEPT ![req[r].b] = outcome]
  /\ Become(r, [req[r] EXCEPT !.pc = "decide"])
  /\ UNCHANGED <<dbVars, anchors, failed, failures>>

MutSubmitReverts(r) ==
  /\ req[r].pc = "submit"
  /\ custody[req[r].b] # "InCustody"
  /\ Become(r, [req[r] EXCEPT !.pc = "mark"])
  /\ UNCHANGED <<dbVars, anchors, custody, failed, failures>>
SubmitReverts(r) ==
  /\ req[r].pc = "submit"
  /\ custody[req[r].b] # "InCustody"
  /\ Become(r, Idle)
  /\ UNCHANGED <<dbVars, anchors, custody, failed, failures>>

\* The status that evaluate() reads back decides whether the trip closes.
MutClosesTrip(status) == status = "Delivered"
ClosesTrip(status) == status \in {"Delivered", "Short"}

Decide(r) ==
  /\ req[r].pc = "decide"
  /\ Become(r, IF ClosesTrip(custody[req[r].b]) THEN [req[r] EXCEPT !.pc = "mark"] ELSE Idle)
  /\ UNCHANGED <<dbVars, anchors, custody, failed, failures>>

\* markStatus: whatever the booking's status is by now.
MarkDelivered(r) ==
  /\ req[r].pc = "mark"
  /\ BookingFree(req[r].b)
  /\ booking' = [booking EXCEPT ![req[r].b].status = "DELIVERED"]
  /\ Become(r, IF req[r].t = None THEN Idle ELSE [req[r] EXCEPT !.pc = "unbind"])
  /\ UNCHANGED <<truck, device, byRoute, stored, anchors, custody, failed, failures>>

\* gps.endTrip of the truck, best effort.
EndTrip(r) ==
  /\ req[r].pc = "unbind"
  /\ \/ device' = [device EXCEPT ![req[r].t] = None] /\ byRoute' = byRoute \ {req[r].t}
     \/ UNCHANGED <<device, byRoute>>
  /\ Become(r, Idle)
  /\ UNCHANGED <<booking, truck, stored, anchors, custody, failed, failures>>

--------------------------------------------------------------------------------
\* A request dies; a start or a build counts as a failed attempt.
Fail(r) ==
  LET q == req[r] IN
  /\ q.pc # "idle"
  /\ failures < MaxFailures
  /\ failures' = failures + 1
  /\ failed' = IF q.pc \in {"persist", "anchored"} THEN [failed EXCEPT ![q.b] = @ + 1] ELSE failed
  /\ Become(r, Idle)
  /\ UNCHANGED <<dbVars, anchors, custody>>

\* cancel: one short transaction.
MayCancel(b) == booking[b].status \in {"CONFIRMED", "ASSIGNED"}

Cancel(b) ==
  /\ BookingFree(b)
  /\ MayCancel(b)
  /\ booking' = [booking EXCEPT ![b].status = "CANCELLED"]
  /\ LET t == booking[b].truck
     IN IF t = None THEN truck' = truck
        ELSE TruckFree(t) /\ truck' = [truck EXCEPT ![t] = "AVAILABLE"]
  /\ UNCHANGED <<device, byRoute, stored, anchors, custody, req, failed, failures>>

\* setTruckStatus: a dispatcher sets any status, whatever it was and whatever
\* the truck is assigned to.
SetTruckStatus(t, status) ==
  /\ TruckFree(t)
  /\ truck' = [truck EXCEPT ![t] = status]
  /\ UNCHANGED <<booking, device, byRoute, stored, anchors, custody, req, failed, failures>>

\* POST gps/trucks/:id/start-trip binds the truck's device to the trip it is
\* given, whosever that is; end-trip unbinds it.
GpsStartTrip(t, b) ==
  /\ t \in WithDevice
  /\ device' = [device EXCEPT ![t] = b]
  /\ byRoute' = byRoute \cup {t}
  /\ UNCHANGED <<booking, truck, stored, anchors, custody, req, failed, failures>>

GpsEndTrip(t) ==
  /\ device' = [device EXCEPT ![t] = None]
  /\ byRoute' = byRoute \ {t}
  /\ UNCHANGED <<booking, truck, stored, anchors, custody, req, failed, failures>>

\* The parties co-sign the stored manifest; operations escalate it.
ChainMoves(b) ==
  /\ \/ custody[b] = "Created" /\ custody' = [custody EXCEPT ![b] = "InCustody"]
     \/ custody[b] \notin {"None", "Disputed"} /\ custody' = [custody EXCEPT ![b] = "Disputed"]
  /\ UNCHANGED <<dbVars, anchors, req, failed, failures>>

Advance(r) ==
  \/ SeeTruck(r) \/ WriteAssignment(r) \/ CommitWithoutAnchor(r)
  \/ AnchorForTrip(r) \/ NoPieces(r) \/ AnchorFails(r) \/ CommitWithAnchor(r)
  \/ AnchorForBuild(r) \/ CommitBuild(r) \/ ManifestConflict(r)
  \/ \E outcome \in {"Delivered", "Short"} : SubmitDelivery(r, outcome)
  \/ SubmitReverts(r) \/ Decide(r) \/ MarkDelivered(r) \/ EndTrip(r)

OrchNext ==
  \/ \E r \in Request :
       \/ \E b \in Booking, t \in Truck, start, asked, driverHasKey \in BOOLEAN :
            Begin(r, b, t, start, WantsCustody(asked, driverHasKey))
       \/ \E b \in Booking : BeginBuild(r, b) \/ BeginConfirm(r, b)
       \/ Advance(r) \/ Fail(r)
  \/ \E b \in Booking : Cancel(b) \/ ChainMoves(b)
  \/ \E t \in Truck :
       \/ \E status \in TruckStatus : SetTruckStatus(t, status)
       \/ \E b \in Booking : GpsStartTrip(t, b)
       \/ GpsEndTrip(t)

OrchSpec == OrchInit /\ [][OrchNext]_orchVars

--------------------------------------------------------------------------------
OrchTypeOK ==
  /\ booking \in [Booking -> [ status: {"CONFIRMED", "ASSIGNED", "DELIVERED", "CANCELLED"},
                               truck: Truck \cup {None}, trip: BOOLEAN, manifest: ManifestId ]]
  /\ truck \in [Truck -> TruckStatus]
  /\ device \in [Truck -> Booking \cup {None}]
  /\ byRoute \in SUBSET Truck
  /\ stored \in [Booking -> ManifestId]
  /\ anchors \in [Booking -> ManifestId]
  /\ custody \in [Booking -> Custody]
  /\ req \in [Request ->
       [ pc: {"idle", "locked", "seen", "written", "persist", "build", "anchored",
              "submit", "decide", "mark", "unbind"},
         b: Booking \cup {None}, t: Truck \cup {None},
         start: BOOLEAN, custody: BOOLEAN, mine: ManifestId ]]
  /\ failed \in [Booking -> Nat]
  /\ failures \in 0 .. MaxFailures

\* A booking is DELIVERED only if the receiver's count closed its own manifest
\* on the chain: no interleaving of starts, cancellations, retries and failures
\* closes one whose goods were not signed for ("the only place the booking
\* transitions to DELIVERED").
DeliveredIsSigned ==
  \A b \in Booking : booking[b].status = "DELIVERED" =>
    /\ booking[b].manifest # 0
    /\ custody[b] \in {"Delivered", "Short", "Disputed"}

\* The manifest a booking points to is the one the custody domain stored for
\* it, never an orphan of an attempt that rolled back.
LinkIsStored ==
  \A b \in Booking : booking[b].manifest # 0 => booking[b].manifest = stored[b]

\* "Bounded (one orphan per failed attempt)": manifests on the chain that are
\* neither stored nor being stored never outnumber the failed attempts.
BeingStored(b) == {r \in Request : req[r].b = b /\ req[r].pc \in {"persist", "anchored"}}
OneOrphanPerFailure ==
  \A b \in Booking :
    anchors[b] <= failed[b] + Cardinality(BeingStored(b)) + (IF stored[b] = 0 THEN 0 ELSE 1)

\* Assignment, GPS binding and manifest link of a start appear together: a
\* tracker is on the trip of a booking that has another truck, or none yet, only
\* if the GPS route put it there, however starts, cancellations and the route's
\* own calls follow each other on one tracker; and a booking that is still
\* CONFIRMED has no truck, no trip and no manifest link.
StartIsAtomic ==
  /\ \A t \in Truck \ byRoute : device[t] # None =>
       booking[device[t]].truck = t /\ booking[device[t]].trip
  /\ \A b \in Booking : booking[b].status = "CONFIRMED" => booking[b] = NewBooking
================================================================================
