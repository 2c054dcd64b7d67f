------------------------------ MODULE Platform_proofs ------------------------------
(***************************************************************************)
(* Proofs about the platform's services: Orchestration.tla, for any        *)
(* bookings, trucks and bounds and any finite number of requests at a      *)
(* time, and ConnectionPool.tla, for any number of requests and any size   *)
(* of the pool.                                                            *)
(***************************************************************************)
EXTENDS Orchestration, ConnectionPool, FiniteSums

(***************************************************************************)
(* Orchestration.  Each request carries to its commit what it found        *)
(* before: a confirmed booking, because it holds its lock; a closed        *)
(* manifest, because nothing opens one again.                              *)
(***************************************************************************)
Closed == {"Delivered", "Short", "Disputed"}

\* A request that holds the lock of the booking.
Locks(c, b) == c.b = b /\ c.pc \in {"locked", "seen", "written", "persist"}

\* A request whose manifest is on the chain and not stored yet.
Storing(c, b) == c.b = b /\ c.pc \in {"persist", "anchored"}

BookingRow ==
  [ status: {"CONFIRMED", "ASSIGNED", "DELIVERED", "CANCELLED"},
    truck: Truck \cup {None}, trip: BOOLEAN, manifest: ManifestId ]

RequestState ==
  [ pc: {"idle", "locked", "seen", "written", "persist", "build", "anchored",
         "submit", "decide", "mark", "unbind"},
    b: Booking \cup {None}, t: Truck \cup {None},
    start: BOOLEAN, custody: BOOLEAN, mine: ManifestId ]

RequestSound(c) ==
  /\ c.pc # "idle" => c.b \in Booking
  /\ c.pc \in {"locked", "seen", "written", "persist"} =>
       c.t \in Truck /\ booking[c.b].status = "CONFIRMED"
  /\ c.pc \in {"persist", "anchored"} => c.mine # 0
  /\ c.pc \in {"submit", "decide", "mark"} => booking[c.b].manifest # 0
  /\ c.pc \in {"decide", "mark"} => custody[c.b] \in Closed

BookingSound(b) ==
  /\ booking[b].status = "CONFIRMED" => booking[b] = NewBooking
  /\ booking[b].manifest # 0 => booking[b].manifest = stored[b]
  /\ booking[b].status = "DELIVERED" => booking[b].manifest # 0 /\ custody[b] \in Closed
  /\ stored[b] # 0 <=> custody[b] # "None"

DevicesSound ==
  \A t \in Truck \ byRoute : device[t] # None =>
    booking[device[t]].truck = t /\ booking[device[t]].trip

\* A booking has one lock.
LocksSound ==
  \A b \in Booking, r, s \in Request : Locks(req[r], b) /\ Locks(req[s], b) => r = s

StoredCount(b) == IF stored[b] = 0 THEN 0 ELSE 1

OrchInv ==
  /\ OrchTypeOK
  /\ \A r \in Request : RequestSound(req[r])
  /\ \A b \in Booking : BookingSound(b)
  /\ DevicesSound
  /\ LocksSound
  /\ OneOrphanPerFailure

-------------------------------------------------------------------------------
LEMMA IdleSound ==
  /\ Idle \in RequestState /\ RequestSound(Idle) /\ RequestSound(Idle)'
  /\ \A b : ~Locks(Idle, b) /\ ~Storing(Idle, b)
BY OrchestrationAssumption DEF Idle, RequestState, RequestSound, Locks, Storing, ManifestId

LEMMA InitSound == OrchInit => OrchInv
<1> SUFFICES ASSUME OrchInit PROVE OrchInv
  OBVIOUS
<1>1. OrchTypeOK
  BY IdleSound, OrchestrationAssumption
  DEF OrchInit, OrchTypeOK, RequestState, NewBooking, ManifestId, Custody, TruckStatus
<1>2. OneOrphanPerFailure
  <2>1. \A b \in Booking : BeingStored(b) = {}
    BY IdleSound DEF OrchInit, BeingStored, Storing
  <2> QED BY <2>1, FS_EmptySet DEF OrchInit, OneOrphanPerFailure
<1> QED
  BY <1>1, <1>2, IdleSound
  DEF OrchInit, OrchInv, BookingSound, NewBooking, DevicesSound, LocksSound

\* A request that moves joins or leaves those that are storing a manifest.
LEMMA CountMoves ==
  ASSUME OrchTypeOK, NEW r \in Request, NEW q \in RequestState, Become(r, q), NEW b \in Booking
  PROVE  /\ Cardinality(BeingStored(b)) \in Nat /\ Cardinality(BeingStored(b)') \in Nat
         /\ Cardinality(BeingStored(b)') =
              Cardinality(BeingStored(b)) + (IF Storing(q, b) THEN 1 ELSE 0)
                - (IF Storing(req[r], b) THEN 1 ELSE 0)
<1> DEFINE B == BeingStored(b)
           R == {s \in Request \ {r} : Storing(req[s], b)}
<1>1. \A s \in Request : req'[s] = IF s = r THEN q ELSE req[s]
  BY DEF OrchTypeOK, Become
<1>2. /\ IsFiniteSet(R) /\ r \notin R /\ Cardinality(R) \in Nat
      /\ Cardinality(R \cup {r}) = Cardinality(R) + 1
  <2>1. R \in SUBSET Request
    OBVIOUS
  <2>2. IsFiniteSet(R)
    BY <2>1, FS_Subset, OrchestrationAssumption
  <2> QED BY <2>2, FS_AddElement, FS_CardinalityType
<1>3. B = IF Storing(req[r], b) THEN R \cup {r} ELSE R
  BY DEF BeingStored, Storing
<1>4. B' = IF Storing(q, b) THEN R \cup {r} ELSE R
  BY <1>1 DEF BeingStored, Storing
<1> QED BY <1>2, <1>3, <1>4

-------------------------------------------------------------------------------
\* What other requests rely on is not taken from them.
Spares(others) ==
  \A b \in Booking :
    /\ booking[b].status = "CONFIRMED" =>
         booking'[b].status = "CONFIRMED" \/ \A s \in others : ~Locks(req[s], b)
    /\ booking[b].manifest # 0 => booking'[b].manifest # 0
    /\ custody[b] \in Closed => custody'[b] \in Closed

\* A manifest on the chain is accounted for by its request, its row or a failure.
Pending(c, b) ==
  anchors[b] - failed[b] - StoredCount(b) - (IF Storing(c, b) THEN 1 ELSE 0)

Accounts(c, q) ==
  \A b \in Booking : Pending(q, b)' <= Pending(c, b)

LEMMA Moves ==
  ASSUME OrchInv, NEW r \in Request, NEW q \in RequestState, Become(r, q), RequestSound(q)',
         booking' \in [Booking -> BookingRow], truck' \in [Truck -> TruckStatus],
         device' \in [Truck -> Booking \cup {None}], byRoute' \in SUBSET Truck,
         stored' \in [Booking -> ManifestId], anchors' \in [Booking -> ManifestId],
         custody' \in [Booking -> Custody],
         failed' \in [Booking -> Nat], failures' \in 0 .. MaxFailures,
         \A b \in Booking : BookingSound(b)',
         DevicesSound',
         \A b \in Booking : Locks(q, b) => Locks(req[r], b) \/ BookingFree(b),
         Spares(Request \ {r}), Accounts(req[r], q)
  PROVE  OrchInv'
<1>1. /\ req' \in [Request -> RequestState]
      /\ \A s \in Request : req'[s] = IF s = r THEN q ELSE req[s]
  BY DEF OrchInv, OrchTypeOK, RequestState, Become
<1>2. OrchTypeOK'
  BY <1>1 DEF OrchTypeOK, RequestState, BookingRow
<1>3. \A s \in Request : RequestSound(req[s])'
  <2>1. ASSUME NEW s \in Request \ {r} PROVE RequestSound(req[s])'
    BY <1>1, <2>1 DEF OrchInv, RequestSound, Spares, Locks
  <2>2. RequestSound(req[r])'
    BY <1>1 DEF RequestSound
  <2> QED BY <2>1, <2>2
<1>4. LocksSound'
  BY <1>1 DEF OrchInv, LocksSound, Locks, BookingFree
<1>5. OneOrphanPerFailure'
  <2> SUFFICES ASSUME NEW b \in Booking
               PROVE  anchors'[b] <= failed'[b] + Cardinality(BeingStored(b)') + StoredCount(b)'
    BY DEF OneOrphanPerFailure, StoredCount
  <2>1. anchors[b] <= failed[b] + Cardinality(BeingStored(b)) + StoredCount(b)
    BY DEF OrchInv, OneOrphanPerFailure, StoredCount
  <2>2. /\ anchors[b] \in Int /\ anchors'[b] \in Int /\ failed[b] \in Int /\ failed'[b] \in Int
        /\ StoredCount(b) \in Int /\ StoredCount(b)' \in Int
    BY DEF OrchInv, OrchTypeOK, ManifestId, StoredCount
  <2> QED BY <2>1, <2>2, CountMoves DEF OrchInv, Accounts, Pending
<1> QED BY <1>2, <1>3, <1>4, <1>5 DEF OrchInv

\* A step that only moves its request on.
LEMMA QuietMoves ==
  ASSUME OrchInv, NEW r \in Request, NEW q \in RequestState, Become(r, q), RequestSound(q),
         UNCHANGED <<dbVars, anchors, custody, failed, failures>>,
         \A b \in Booking : Locks(q, b) => Locks(req[r], b) \/ BookingFree(b),
         \A b \in Booking : Storing(req[r], b) => Storing(q, b)
  PROVE  OrchInv'
<1>1. /\ booking' = booking /\ truck' = truck /\ device' = device /\ byRoute' = byRoute /\ stored' = stored
      /\ anchors' = anchors /\ custody' = custody /\ failed' = failed /\ failures' = failures
  BY DEF dbVars
<1>2. RequestSound(q)'
  BY <1>1 DEF RequestSound
<1>3. (\A b \in Booking : BookingSound(b)') /\ DevicesSound'
  BY <1>1 DEF OrchInv, BookingSound, DevicesSound
<1>4. Spares(Request \ {r})
  BY <1>1 DEF Spares
<1>5. Accounts(req[r], q)
  <2> SUFFICES ASSUME NEW b \in Booking
               PROVE  Pending(q, b)' <= Pending(req[r], b)
    BY DEF Accounts
  <2>1. anchors[b] \in Int /\ failed[b] \in Int /\ StoredCount(b) \in Int
    BY DEF OrchInv, OrchTypeOK, ManifestId, StoredCount
  <2>2. StoredCount(b)' = StoredCount(b)
    BY <1>1 DEF StoredCount
  <2> QED BY <1>1, <2>1, <2>2 DEF Pending
<1>6. OrchTypeOK
  BY DEF OrchInv
<1> QED BY <1>1, <1>2, <1>3, <1>4, <1>5, <1>6, Moves DEF OrchTypeOK, BookingRow

\* A request that is over.
LEMMA QuietEnd ==
  ASSUME OrchInv, NEW r \in Request, Become(r, Idle),
         UNCHANGED <<dbVars, anchors, custody, failed, failures>>,
         \A b \in Booking : ~Storing(req[r], b)
  PROVE  OrchInv'
BY IdleSound, QuietMoves

LEMMA RequestTyped ==
  ASSUME OrchInv, NEW r \in Request
  PROVE  req[r] \in RequestState /\ RequestSound(req[r])
BY DEF OrchInv, OrchTypeOK, RequestState

-------------------------------------------------------------------------------
\* Requests that only read, wait or give up.
LEMMA BeginSound ==
  ASSUME OrchInv, NEW r \in Request, NEW b \in Booking, NEW t \in Truck,
         NEW start \in BOOLEAN, NEW wants \in BOOLEAN, Begin(r, b, t, start, wants)
  PROVE  OrchInv'
<1>1. PICK q : q = [pc |-> "locked", b |-> b, t |-> t, start |-> start,
                    custody |-> start /\ wants, mine |-> 0]
  OBVIOUS
<1>2. q \in RequestState
  BY <1>1, OrchestrationAssumption DEF RequestState, ManifestId
<1>3. q.pc = "locked" /\ q.b = b /\ q.t = t
  BY <1>1
<1>4. RequestSound(q)
  BY <1>3 DEF RequestSound, Begin
<1>5. Become(r, q) /\ BookingFree(b) /\ req[r].pc = "idle"
      /\ UNCHANGED <<dbVars, anchors, custody, failed, failures>>
  BY <1>1 DEF Begin
<1>6. \A x \in Booking : (Locks(q, x) => BookingFree(x)) /\ ~Storing(req[r], x)
  BY <1>3, <1>5 DEF Locks, Storing
<1> QED BY <1>2, <1>4, <1>5, <1>6, QuietMoves

LEMMA SeeTruckSound ==
  ASSUME OrchInv, NEW r \in Request, SeeTruck(r)
  PROVE  OrchInv'
<1>1. PICK c \in RequestState : c = req[r] /\ RequestSound(c)
  BY RequestTyped
<1>2. PICK q : q = [c EXCEPT !.pc = "seen"]
  OBVIOUS
<1>3. /\ q \in RequestState /\ q.pc = "seen"
      /\ q.b = c.b /\ q.t = c.t /\ q.mine = c.mine
  BY <1>2 DEF RequestState
<1>4. /\ c.pc = "locked" /\ (Become(r, q) \/ Become(r, Idle))
      /\ UNCHANGED <<dbVars, anchors, custody, failed, failures>>
  BY <1>1, <1>2 DEF SeeTruck
<1>5. \A x \in Booking : ~Storing(c, x) /\ (Locks(q, x) => Locks(c, x))
  BY <1>3, <1>4 DEF Storing, Locks
<1>6. RequestSound(q)
  BY <1>1, <1>3, <1>4 DEF RequestSound
<1>7. CASE Become(r, q)
  BY <1>1, <1>3, <1>4, <1>5, <1>6, <1>7, QuietMoves
<1>8. CASE Become(r, Idle)
  BY <1>1, <1>4, <1>5, <1>8, QuietEnd
<1> QED BY <1>4, <1>7, <1>8

LEMMA WriteAssignmentSound ==
  ASSUME OrchInv, NEW r \in Request, WriteAssignment(r)
  PROVE  OrchInv'
<1>1. PICK c \in RequestState : c = req[r] /\ RequestSound(c)
  BY RequestTyped
<1>2. PICK q : q = [c EXCEPT !.pc = "written"]
  OBVIOUS
<1>3. /\ q \in RequestState /\ q.pc = "written"
      /\ q.b = c.b /\ q.t = c.t /\ q.mine = c.mine
  BY <1>2 DEF RequestState
<1>4. /\ c.pc = "seen" /\ Become(r, q)
      /\ UNCHANGED <<dbVars, anchors, custody, failed, failures>>
  BY <1>1, <1>2 DEF WriteAssignment
<1>5. \A x \in Booking : ~Storing(c, x) /\ (Locks(q, x) => Locks(c, x))
  BY <1>3, <1>4 DEF Storing, Locks
<1>6. RequestSound(q)
  BY <1>1, <1>3, <1>4 DEF RequestSound
<1> QED BY <1>1, <1>3, <1>4, <1>5, <1>6, QuietMoves

LEMMA AnchorFailsSound ==
  ASSUME OrchInv, NEW r \in Request, NoPieces(r) \/ AnchorFails(r)
  PROVE  OrchInv'
<1>1. req[r].pc \in {"written", "build"}
  BY DEF NoPieces, AnchorFails, Building
<1> QED BY <1>1, QuietEnd DEF NoPieces, AnchorFails, Storing

LEMMA SubmitRevertsSound ==
  ASSUME OrchInv, NEW r \in Request, SubmitReverts(r)
  PROVE  OrchInv'
BY QuietEnd DEF SubmitReverts, Storing

LEMMA BeginBuildSound ==
  ASSUME OrchInv, NEW r \in Request, NEW b \in Booking, BeginBuild(r, b)
  PROVE  OrchInv'
<1>1. PICK q : q = [Idle EXCEPT !.pc = "build", !.b = b]
  OBVIOUS
<1>2. q \in RequestState /\ q.pc = "build" /\ q.b = b
  BY <1>1, IdleSound DEF RequestState, Idle
<1>3. RequestSound(q)
  BY <1>2 DEF RequestSound
<1>4. /\ Become(r, q) /\ req[r].pc = "idle"
      /\ UNCHANGED <<dbVars, anchors, custody, failed, failures>>
  BY <1>1 DEF BeginBuild
<1>5. \A x \in Booking : ~Locks(q, x) /\ ~Storing(req[r], x)
  BY <1>2, <1>4 DEF Locks, Storing
<1> QED BY <1>2, <1>3, <1>4, <1>5, QuietMoves

LEMMA BeginConfirmSound ==
  ASSUME OrchInv, NEW r \in Request, NEW b \in Booking, BeginConfirm(r, b)
  PROVE  OrchInv'
<1>1. PICK q : q = [Idle EXCEPT !.pc = "submit", !.b = b, !.t = booking[b].truck]
  OBVIOUS
<1>2. booking[b].truck \in Truck \cup {None}
  BY DEF OrchInv, OrchTypeOK
<1>3. q \in RequestState /\ q.pc = "submit" /\ q.b = b
  BY <1>1, <1>2, IdleSound DEF RequestState, Idle
<1>4. /\ Become(r, q) /\ req[r].pc = "idle" /\ booking[b].manifest # 0
      /\ UNCHANGED <<dbVars, anchors, custody, failed, failures>>
  BY <1>1 DEF BeginConfirm
<1>5. RequestSound(q)
  BY <1>3, <1>4 DEF RequestSound
<1>6. \A x \in Booking : ~Locks(q, x) /\ ~Storing(req[r], x)
  BY <1>3, <1>4 DEF Locks, Storing
<1> QED BY <1>3, <1>4, <1>5, <1>6, QuietMoves

LEMMA DecideSound ==
  ASSUME OrchInv, NEW r \in Request, Decide(r)
  PROVE  OrchInv'
<1>1. PICK c \in RequestState : c = req[r] /\ RequestSound(c)
  BY RequestTyped
<1>2. PICK q : q = [c EXCEPT !.pc = "mark"]
  OBVIOUS
<1>3. /\ q \in RequestState /\ q.pc = "mark"
      /\ q.b = c.b /\ q.t = c.t /\ q.mine = c.mine
  BY <1>2 DEF RequestState
<1>4. /\ c.pc = "decide" /\ (Become(r, q) \/ Become(r, Idle))
      /\ UNCHANGED <<dbVars, anchors, custody, failed, failures>>
  BY <1>1, <1>2 DEF Decide
<1>5. \A x \in Booking : ~Storing(c, x) /\ ~Locks(q, x)
  BY <1>3, <1>4 DEF Storing, Locks
<1>6. RequestSound(q)
  BY <1>1, <1>3, <1>4 DEF RequestSound
<1>7. CASE Become(r, q)
  BY <1>1, <1>3, <1>4, <1>5, <1>6, <1>7, QuietMoves
<1>8. CASE Become(r, Idle)
  BY <1>1, <1>4, <1>5, <1>8, QuietEnd
<1> QED BY <1>4, <1>7, <1>8

-------------------------------------------------------------------------------
\* Requests that write.
LEMMA TablesTyped ==
  ASSUME OrchInv
  PROVE  /\ booking \in [Booking -> BookingRow] /\ truck \in [Truck -> TruckStatus]
         /\ device \in [Truck -> Booking \cup {None}] /\ byRoute \in SUBSET Truck
         /\ stored \in [Booking -> ManifestId] /\ anchors \in [Booking -> ManifestId]
         /\ custody \in [Booking -> Custody]
         /\ failed \in [Booking -> Nat] /\ failures \in 0 .. MaxFailures
         /\ \A b \in Booking : /\ anchors[b] \in Int /\ failed[b] \in Int /\ stored[b] \in Int
                               /\ BookingSound(b)
BY DEF OrchInv, OrchTypeOK, ManifestId, BookingRow

LEMMA AnchorSound ==
  ASSUME OrchInv, NEW r \in Request, AnchorForTrip(r) \/ AnchorForBuild(r)
  PROVE  OrchInv'
<1>1. PICK c \in RequestState : c = req[r] /\ RequestSound(c)
  BY RequestTyped
<1>2. PICK from, to : /\ <<from, to>> \in {<<"written", "persist">>, <<"build", "anchored">>}
                      /\ Anchor(r, from, to)
  BY DEF AnchorForTrip, AnchorForBuild
<1>3. PICK q : q = [c EXCEPT !.pc = to, !.mine = anchors[c.b] + 1]
  OBVIOUS
<1>4. /\ c.pc = from /\ Become(r, q) /\ anchors[c.b] < MaxAnchors
      /\ anchors' = [anchors EXCEPT ![c.b] = @ + 1]
      /\ booking' = booking /\ truck' = truck /\ device' = device /\ byRoute' = byRoute /\ stored' = stored
      /\ custody' = custody /\ failed' = failed /\ failures' = failures
  BY <1>1, <1>2, <1>3 DEF Anchor, dbVars
<1>5. c.b \in Booking
  BY <1>1, <1>2, <1>4 DEF RequestSound
<1>6. anchors[c.b] \in Nat /\ anchors[c.b] + 1 \in ManifestId /\ anchors[c.b] + 1 # 0
  BY <1>4, <1>5, TablesTyped, OrchestrationAssumption DEF ManifestId
<1>7. /\ q \in RequestState /\ q.pc = to /\ q.b = c.b /\ q.t = c.t /\ q.mine # 0
  BY <1>2, <1>3, <1>6 DEF RequestState
<1>8. RequestSound(q)'
  BY <1>1, <1>2, <1>4, <1>7 DEF RequestSound
<1>9. anchors' \in [Booking -> ManifestId]
  BY <1>4, <1>5, <1>6, TablesTyped
<1>10. (\A b \in Booking : BookingSound(b)') /\ DevicesSound' /\ Spares(Request \ {r})
  BY <1>4 DEF OrchInv, BookingSound, DevicesSound, Spares
<1>11. \A b \in Booking : Locks(q, b) => Locks(c, b)
  BY <1>2, <1>4, <1>7 DEF Locks
<1>12. Accounts(c, q)
  <2> SUFFICES ASSUME NEW b \in Booking
               PROVE  Pending(q, b)' <= Pending(c, b)
    BY DEF Accounts
  <2>1. /\ StoredCount(b)' = StoredCount(b) /\ StoredCount(b) \in Int
        /\ anchors[b] \in Int /\ failed[b] \in Int /\ failed'[b] = failed[b]
    BY <1>4, TablesTyped DEF StoredCount
  <2>2. anchors'[b] = IF b = c.b THEN anchors[b] + 1 ELSE anchors[b]
    BY <1>4, TablesTyped
  <2>3. ~Storing(c, b) /\ (Storing(q, b) <=> b = c.b)
    BY <1>2, <1>4, <1>7 DEF Storing
  <2> QED BY <2>1, <2>2, <2>3 DEF Pending
<1> QED
  BY <1>1, <1>4, <1>7, <1>8, <1>9, <1>10, <1>11, <1>12, TablesTyped, Moves

\* What a commit does to the rows of a booking that was confirmed.
LEMMA AssignmentSound ==
  ASSUME OrchInv, NEW c \in RequestState, RequestSound(c), c.pc \in {"written", "persist"},
         NEW m \in ManifestId, CommitAssignment(c, m)
  PROVE  /\ c.b \in Booking /\ c.t \in Truck /\ booking[c.b] = NewBooking
         /\ booking' \in [Booking -> BookingRow]
         /\ truck' \in [Truck -> TruckStatus]
         /\ device' \in [Truck -> Booking \cup {None}] /\ byRoute' \in SUBSET Truck
         /\ \A b \in Booking \ {c.b} : booking'[b] = booking[b]
         /\ booking'[c.b].status = "ASSIGNED" /\ booking'[c.b].manifest = m
         /\ DevicesSound'
<1>1. c.b \in Booking /\ c.t \in Truck /\ booking[c.b].status = "CONFIRMED"
  BY DEF RequestSound
<1>2. booking[c.b] = NewBooking
  BY <1>1 DEF OrchInv, BookingSound
<1>3. booking[c.b].truck = None /\ booking[c.b].manifest = 0 /\ booking[c.b].trip = FALSE
  BY <1>2 DEF NewBooking
<1>4. PICK row : row = Assigned(c, m)
  OBVIOUS
<1>5. row = [status |-> "ASSIGNED", truck |-> c.t, trip |-> c.start,
             manifest |-> IF m # 0 THEN m ELSE 0]
  BY <1>3, <1>4 DEF Assigned, ResolvedTrip, RequestState
<1>6. /\ row \in BookingRow
      /\ row.status = "ASSIGNED" /\ row.truck = c.t /\ row.trip = c.start /\ row.manifest = m
  BY <1>1, <1>5 DEF RequestState, BookingRow
<1>7. booking' = [booking EXCEPT ![c.b] = row]
  BY <1>4 DEF CommitAssignment
<1>8. /\ booking' \in [Booking -> BookingRow]
      /\ \A b \in Booking \ {c.b} : booking'[b] = booking[b]
      /\ booking'[c.b] = row
  BY <1>1, <1>6, <1>7, TablesTyped
<1>9. truck' \in [Truck -> TruckStatus]
  BY <1>1, TablesTyped DEF CommitAssignment, TruckStatus
<1>10. /\ device' \in [Truck -> Booking \cup {None}] /\ byRoute' \in SUBSET Truck
       /\ \A t \in Truck \ byRoute' :
            \/ t \notin byRoute /\ device'[t] = device[t]
            \/ t = c.t /\ device'[t] = c.b /\ c.start
  <2>1. CASE c.start /\ c.t \in WithDevice
    BY <1>1, <2>1, TablesTyped DEF CommitAssignment
  <2>2. CASE ~(c.start /\ c.t \in WithDevice)
    BY <1>1, <2>2, TablesTyped DEF CommitAssignment
  <2> QED BY <2>1, <2>2
<1>11. DevicesSound'
  <2> SUFFICES ASSUME NEW t \in Truck, t \notin byRoute', device'[t] # None
               PROVE  booking'[device'[t]].truck = t /\ booking'[device'[t]].trip
    BY DEF DevicesSound
  <2>1. CASE t \notin byRoute /\ device'[t] = device[t]
    <3>1. device[t] \in Booking /\ booking[device[t]].truck = t /\ booking[device[t]].trip
      BY <2>1, TablesTyped DEF OrchInv, DevicesSound
    <3> QED BY <2>1, <3>1, <1>1, <1>3, <1>8, OrchestrationAssumption
  <2>2. CASE t = c.t /\ device'[t] = c.b /\ c.start
    BY <2>2, <1>6, <1>8
  <2> QED BY <2>1, <2>2, <1>10
<1> QED BY <1>1, <1>2, <1>6, <1>8, <1>9, <1>10, <1>11

LEMMA CommitWithoutAnchorSound ==
  ASSUME OrchInv, NEW r \in Request, CommitWithoutAnchor(r)
  PROVE  OrchInv'
<1>1. PICK c \in RequestState : c = req[r] /\ RequestSound(c)
  BY RequestTyped
<1>2. /\ c.pc = "written" /\ CommitAssignment(c, 0) /\ Become(r, Idle)
      /\ stored' = stored /\ anchors' = anchors /\ custody' = custody
      /\ failed' = failed /\ failures' = failures
  BY <1>1 DEF CommitWithoutAnchor
<1>3. 0 \in ManifestId
  BY OrchestrationAssumption DEF ManifestId
<1>4. /\ c.b \in Booking /\ booking[c.b] = NewBooking
      /\ booking' \in [Booking -> BookingRow]
      /\ truck' \in [Truck -> TruckStatus]
      /\ device' \in [Truck -> Booking \cup {None}] /\ byRoute' \in SUBSET Truck
      /\ \A b \in Booking \ {c.b} : booking'[b] = booking[b]
      /\ booking'[c.b].status = "ASSIGNED" /\ booking'[c.b].manifest = 0
      /\ DevicesSound'
  BY <1>1, <1>2, <1>3, AssignmentSound
<1>5. \A b \in Booking : BookingSound(b)'
  <2> SUFFICES ASSUME NEW b \in Booking PROVE BookingSound(b)'
    OBVIOUS
  <2> QED BY <1>2, <1>4, TablesTyped DEF BookingSound
<1>6. Locks(c, c.b)
  BY <1>2 DEF Locks
<1>7. Spares(Request \ {r})
  BY <1>1, <1>2, <1>4, <1>6 DEF OrchInv, LocksSound, Spares, NewBooking
<1>8. Accounts(c, Idle)
  <2> SUFFICES ASSUME NEW b \in Booking
               PROVE  Pending(Idle, b)' <= Pending(c, b)
    BY DEF Accounts
  <2>1. /\ StoredCount(b)' = StoredCount(b) /\ StoredCount(b) \in Int
        /\ anchors[b] \in Int /\ failed[b] \in Int
    BY <1>2, TablesTyped DEF StoredCount
  <2>2. ~Storing(c, b) /\ ~Storing(Idle, b)
    BY <1>2, IdleSound DEF Storing
  <2> QED BY <1>2, <2>1, <2>2 DEF Pending
<1>9. RequestSound(Idle)' /\ Idle \in RequestState /\ \A b \in Booking : ~Locks(Idle, b)
  BY IdleSound
<1> QED BY <1>1, <1>2, <1>4, <1>5, <1>7, <1>8, <1>9, TablesTyped, Moves

LEMMA CommitWithAnchorSound ==
  ASSUME OrchInv, NEW r \in Request, CommitWithAnchor(r)
  PROVE  OrchInv'
<1>1. PICK c \in RequestState : c = req[r] /\ RequestSound(c)
  BY RequestTyped
<1>2. /\ c.pc = "persist" /\ CommitAssignment(c, c.mine) /\ Become(r, Idle)
      /\ stored[c.b] = 0
      /\ stored' = [stored EXCEPT ![c.b] = c.mine]
      /\ custody' = [custody EXCEPT ![c.b] = "Created"]
      /\ anchors' = anchors /\ failed' = failed /\ failures' = failures
  BY <1>1 DEF CommitWithAnchor, Unclaimed, Store, Linked
<1>3. c.mine \in ManifestId /\ c.mine # 0
  BY <1>1, <1>2 DEF RequestState, RequestSound
<1>4. /\ c.b \in Booking /\ booking[c.b] = NewBooking
      /\ booking' \in [Booking -> BookingRow]
      /\ truck' \in [Truck -> TruckStatus]
      /\ device' \in [Truck -> Booking \cup {None}] /\ byRoute' \in SUBSET Truck
      /\ \A b \in Booking \ {c.b} : booking'[b] = booking[b]
      /\ booking'[c.b].status = "ASSIGNED" /\ booking'[c.b].manifest = c.mine
      /\ DevicesSound'
  BY <1>1, <1>2, <1>3, AssignmentSound
<1>5. /\ stored' \in [Booking -> ManifestId] /\ custody' \in [Booking -> Custody]
      /\ stored'[c.b] = c.mine /\ custody'[c.b] = "Created" /\ custody[c.b] = "None"
      /\ \A b \in Booking \ {c.b} : stored'[b] = stored[b] /\ custody'[b] = custody[b]
  BY <1>2, <1>3, <1>4, TablesTyped DEF Custody, BookingSound
<1>6. \A b \in Booking : BookingSound(b)'
  <2>1. BookingSound(c.b)'
    BY <1>3, <1>4, <1>5 DEF BookingSound
  <2>2. \A b \in Booking \ {c.b} : BookingSound(b)'
    BY <1>4, <1>5, TablesTyped DEF BookingSound
  <2> QED BY <2>1, <2>2
<1>7. Locks(c, c.b)
  BY <1>2 DEF Locks
<1>8. Spares(Request \ {r})
  BY <1>1, <1>2, <1>3, <1>4, <1>5, <1>7 DEF OrchInv, LocksSound, Spares, NewBooking, Closed
<1>9. Accounts(c, Idle)
  <2> SUFFICES ASSUME NEW b \in Booking
               PROVE  Pending(Idle, b)' <= Pending(c, b)
    BY DEF Accounts
  <2>1. /\ StoredCount(b)' = (IF b = c.b THEN 1 ELSE StoredCount(b)) /\ StoredCount(b) \in Int
        /\ (b = c.b => StoredCount(b) = 0)
        /\ anchors[b] \in Int /\ failed[b] \in Int
    BY <1>2, <1>3, <1>4, <1>5, TablesTyped DEF StoredCount
  <2>2. (Storing(c, b) <=> b = c.b) /\ ~Storing(Idle, b)
    BY <1>2, IdleSound DEF Storing
  <2> QED BY <1>2, <2>1, <2>2 DEF Pending
<1>10. RequestSound(Idle)' /\ Idle \in RequestState /\ \A b \in Booking : ~Locks(Idle, b)
  BY IdleSound
<1> QED BY <1>1, <1>2, <1>4, <1>5, <1>6, <1>8, <1>9, <1>10, TablesTyped, Moves

LEMMA CommitBuildSound ==
  ASSUME OrchInv, NEW r \in Request, CommitBuild(r)
  PROVE  OrchInv'
<1>1. PICK c \in RequestState : c = req[r] /\ RequestSound(c)
  BY RequestTyped
<1>2. /\ c.pc = "anchored" /\ Become(r, Idle) /\ stored[c.b] = 0
      /\ stored' = [stored EXCEPT ![c.b] = c.mine]
      /\ custody' = [custody EXCEPT ![c.b] = "Created"]
      /\ booking' = booking /\ truck' = truck /\ device' = device /\ byRoute' = byRoute
      /\ anchors' = anchors /\ failed' = failed /\ failures' = failures
  BY <1>1 DEF CommitBuild, Unclaimed, Store
<1>3. c.mine \in ManifestId /\ c.mine # 0 /\ c.b \in Booking
  BY <1>1, <1>2 DEF RequestState, RequestSound
<1>4. /\ stored' \in [Booking -> ManifestId] /\ custody' \in [Booking -> Custody]
      /\ stored'[c.b] = c.mine /\ custody'[c.b] = "Created" /\ custody[c.b] = "None"
      /\ booking[c.b].manifest = 0
      /\ \A b \in Booking \ {c.b} : stored'[b] = stored[b] /\ custody'[b] = custody[b]
  BY <1>2, <1>3, TablesTyped DEF Custody, BookingSound
<1>5. \A b \in Booking : BookingSound(b)'
  <2>1. BookingSound(c.b)'
    BY <1>2, <1>3, <1>4, TablesTyped DEF BookingSound
  <2>2. \A b \in Booking \ {c.b} : BookingSound(b)'
    BY <1>2, <1>4, TablesTyped DEF BookingSound
  <2> QED BY <2>1, <2>2
<1>6. DevicesSound' /\ Spares(Request \ {r})
  BY <1>2, <1>4 DEF OrchInv, DevicesSound, Spares, Closed
<1>7. Accounts(c, Idle)
  <2> SUFFICES ASSUME NEW b \in Booking
               PROVE  Pending(Idle, b)' <= Pending(c, b)
    BY DEF Accounts
  <2>1. /\ StoredCount(b)' = (IF b = c.b THEN 1 ELSE StoredCount(b)) /\ StoredCount(b) \in Int
        /\ (b = c.b => StoredCount(b) = 0)
        /\ anchors[b] \in Int /\ failed[b] \in Int
    BY <1>2, <1>3, <1>4, TablesTyped DEF StoredCount
  <2>2. (Storing(c, b) <=> b = c.b) /\ ~Storing(Idle, b)
    BY <1>2, IdleSound DEF Storing
  <2> QED BY <1>2, <2>1, <2>2 DEF Pending
<1>8. RequestSound(Idle)' /\ Idle \in RequestState /\ \A b \in Booking : ~Locks(Idle, b)
  BY IdleSound
<1> QED BY <1>1, <1>2, <1>4, <1>5, <1>6, <1>7, <1>8, TablesTyped, Moves

\* An attempt that ends with its manifest on the chain is counted as failed.
LEMMA GiveUpSound ==
  ASSUME OrchInv, NEW r \in Request, Become(r, Idle),
         failed' = IF req[r].pc \in {"persist", "anchored"}
                   THEN [failed EXCEPT ![req[r].b] = @ + 1] ELSE failed,
         failures' \in 0 .. MaxFailures, UNCHANGED <<dbVars, anchors, custody>>
  PROVE  OrchInv'
<1>1. PICK c \in RequestState : c = req[r] /\ RequestSound(c)
  BY RequestTyped
<1>2. /\ booking' = booking /\ truck' = truck /\ device' = device /\ byRoute' = byRoute /\ stored' = stored
      /\ anchors' = anchors /\ custody' = custody
  BY DEF dbVars
<1>3. c.pc \in {"persist", "anchored"} => c.b \in Booking
  BY <1>1 DEF RequestSound
<1>4. /\ failed' \in [Booking -> Nat]
      /\ \A b \in Booking : failed'[b] = IF Storing(c, b) THEN failed[b] + 1 ELSE failed[b]
  BY <1>1, <1>3, TablesTyped DEF Storing
<1>5. (\A b \in Booking : BookingSound(b)') /\ DevicesSound' /\ Spares(Request \ {r})
  BY <1>2 DEF OrchInv, BookingSound, DevicesSound, Spares
<1>6. Accounts(c, Idle)
  <2> SUFFICES ASSUME NEW b \in Booking
               PROVE  Pending(Idle, b)' <= Pending(c, b)
    BY DEF Accounts
  <2>1. /\ StoredCount(b)' = StoredCount(b) /\ StoredCount(b) \in Int
        /\ anchors[b] \in Int /\ failed[b] \in Int
    BY <1>2, TablesTyped DEF StoredCount
  <2> QED BY <1>2, <1>4, <2>1, IdleSound DEF Pending
<1>7. RequestSound(Idle)' /\ Idle \in RequestState /\ \A b \in Booking : ~Locks(Idle, b)
  BY IdleSound
<1> QED BY <1>1, <1>2, <1>4, <1>5, <1>6, <1>7, TablesTyped, Moves

LEMMA ManifestConflictSound ==
  ASSUME OrchInv, NEW r \in Request, ManifestConflict(r)
  PROVE  OrchInv'
BY GiveUpSound, TablesTyped DEF ManifestConflict

LEMMA FailSound ==
  ASSUME OrchInv, NEW r \in Request, Fail(r)
  PROVE  OrchInv'
<1>1. failures' \in 0 .. MaxFailures
  BY TablesTyped, OrchestrationAssumption DEF Fail
<1> QED BY <1>1, GiveUpSound DEF Fail

\* A step of a confirmation that has no manifest of its own to account for.
LEMMA NothingToCount ==
  ASSUME OrchInv, NEW c \in RequestState, NEW q \in RequestState,
         stored' = stored, anchors' = anchors, failed' = failed,
         \A b \in Booking : ~Storing(c, b) /\ ~Storing(q, b)
  PROVE  Accounts(c, q)
<1> SUFFICES ASSUME NEW b \in Booking
             PROVE  Pending(q, b)' <= Pending(c, b)
  BY DEF Accounts
<1>1. /\ StoredCount(b)' = StoredCount(b) /\ StoredCount(b) \in Int
      /\ anchors[b] \in Int /\ failed[b] \in Int
  BY TablesTyped DEF StoredCount
<1> QED BY <1>1 DEF Pending

LEMMA SubmitDeliverySound ==
  ASSUME OrchInv, NEW r \in Request, NEW outcome \in {"Delivered", "Short"},
         SubmitDelivery(r, outcome)
  PROVE  OrchInv'
<1>1. PICK c \in RequestState : c = req[r] /\ RequestSound(c)
  BY RequestTyped
<1>2. PICK q : q = [c EXCEPT !.pc = "decide"]
  OBVIOUS
<1>3. /\ q \in RequestState /\ q.pc = "decide"
      /\ q.b = c.b /\ q.t = c.t /\ q.mine = c.mine
  BY <1>2 DEF RequestState
<1>4. /\ c.pc = "submit" /\ Become(r, q) /\ custody[c.b] = "InCustody"
      /\ custody' = [custody EXCEPT ![c.b] = outcome]
      /\ booking' = booking /\ truck' = truck /\ device' = device /\ byRoute' = byRoute /\ stored' = stored
      /\ anchors' = anchors /\ failed' = failed /\ failures' = failures
  BY <1>1, <1>2 DEF SubmitDelivery, dbVars
<1>5. c.b \in Booking /\ booking[c.b].manifest # 0
  BY <1>1, <1>4 DEF RequestSound
<1>6. /\ custody' \in [Booking -> Custody] /\ custody'[c.b] = outcome
      /\ \A b \in Booking \ {c.b} : custody'[b] = custody[b]
  BY <1>4, <1>5, TablesTyped DEF Custody
<1>7. RequestSound(q)'
  BY <1>3, <1>4, <1>5, <1>6 DEF RequestSound, Closed
<1>8. \A b \in Booking : BookingSound(b)'
  <2>1. BookingSound(c.b)'
    BY <1>4, <1>5, <1>6, TablesTyped DEF BookingSound, Closed
  <2>2. \A b \in Booking \ {c.b} : BookingSound(b)'
    BY <1>4, <1>6, TablesTyped DEF BookingSound
  <2> QED BY <2>1, <2>2
<1>9. DevicesSound' /\ Spares(Request \ {r})
  BY <1>4, <1>6 DEF OrchInv, DevicesSound, Spares, Closed
<1>10. \A b \in Booking : ~Storing(c, b) /\ ~Storing(q, b) /\ ~Locks(q, b)
  BY <1>3, <1>4 DEF Storing, Locks
<1>11. Accounts(c, q)
  BY <1>3, <1>4, <1>10, NothingToCount
<1> QED BY <1>1, <1>3, <1>4, <1>6, <1>7, <1>8, <1>9, <1>10, <1>11, TablesTyped, Moves

\* A row that only changes its status keeps what the others say of it.
LEMMA StatusSound ==
  ASSUME OrchInv, NEW b \in Booking, NEW status \in {"DELIVERED", "CANCELLED"},
         booking' = [booking EXCEPT ![b].status = status]
  PROVE  /\ booking' \in [Booking -> BookingRow]
         /\ \A x \in Booking : /\ booking'[x].manifest = booking[x].manifest
                               /\ booking'[x].truck = booking[x].truck
                               /\ booking'[x].trip = booking[x].trip
         /\ \A x \in Booking \ {b} : booking'[x] = booking[x]
         /\ booking'[b].status = status
BY TablesTyped DEF BookingRow

LEMMA MarkDeliveredSound ==
  ASSUME OrchInv, NEW r \in Request, MarkDelivered(r)
  PROVE  OrchInv'
<1>1. PICK c \in RequestState : c = req[r] /\ RequestSound(c)
  BY RequestTyped
<1>2. PICK q : q = IF c.t = None THEN Idle ELSE [c EXCEPT !.pc = "unbind"]
  OBVIOUS
<1>3. /\ c.pc = "mark" /\ Become(r, q) /\ BookingFree(c.b)
      /\ booking' = [booking EXCEPT ![c.b].status = "DELIVERED"]
      /\ truck' = truck /\ device' = device /\ byRoute' = byRoute /\ stored' = stored /\ custody' = custody
      /\ anchors' = anchors /\ failed' = failed /\ failures' = failures
  BY <1>1, <1>2 DEF MarkDelivered
<1>4. c.b \in Booking /\ booking[c.b].manifest # 0 /\ custody[c.b] \in Closed
  BY <1>1, <1>3 DEF RequestSound
<1>5. /\ booking' \in [Booking -> BookingRow]
      /\ \A x \in Booking : /\ booking'[x].manifest = booking[x].manifest
                            /\ booking'[x].truck = booking[x].truck
                            /\ booking'[x].trip = booking[x].trip
      /\ \A x \in Booking \ {c.b} : booking'[x] = booking[x]
      /\ booking'[c.b].status = "DELIVERED"
  BY <1>3, <1>4, StatusSound
<1>6. q \in RequestState /\ q.pc \in {"idle", "unbind"} /\ q.b \in Booking \cup {None}
      /\ (q.pc = "unbind" => q.b = c.b)
  BY <1>2, IdleSound DEF RequestState, Idle
<1>7. RequestSound(q)'
  BY <1>4, <1>6 DEF RequestSound
<1>8. \A b \in Booking : BookingSound(b)'
  <2>1. BookingSound(c.b)'
    BY <1>3, <1>4, <1>5, TablesTyped DEF BookingSound
  <2>2. \A b \in Booking \ {c.b} : BookingSound(b)'
    BY <1>3, <1>5, TablesTyped DEF BookingSound
  <2> QED BY <2>1, <2>2
<1>9. DevicesSound'
  BY <1>3, <1>5, TablesTyped DEF OrchInv, DevicesSound
<1>10. Spares(Request \ {r})
  BY <1>3, <1>5 DEF Spares, BookingFree, Locks
<1>11. \A b \in Booking : ~Storing(c, b) /\ ~Storing(q, b) /\ ~Locks(q, b)
  BY <1>3, <1>6 DEF Storing, Locks
<1>12. Accounts(c, q)
  BY <1>3, <1>6, <1>11, NothingToCount
<1> QED BY <1>1, <1>3, <1>5, <1>6, <1>7, <1>8, <1>9, <1>10, <1>11, <1>12, TablesTyped, Moves

LEMMA EndTripSound ==
  ASSUME OrchInv, NEW r \in Request, EndTrip(r)
  PROVE  OrchInv'
<1>1. PICK c \in RequestState : c = req[r] /\ RequestSound(c)
  BY RequestTyped
<1>2. /\ c.pc = "unbind" /\ Become(r, Idle)
      /\ \/ device' = [device EXCEPT ![c.t] = None] /\ byRoute' = byRoute \ {c.t}
         \/ device' = device /\ byRoute' = byRoute
      /\ booking' = booking /\ truck' = truck /\ stored' = stored /\ custody' = custody
      /\ anchors' = anchors /\ failed' = failed /\ failures' = failures
  BY <1>1 DEF EndTrip
<1>3. /\ device' \in [Truck -> Booking \cup {None}] /\ byRoute' \in SUBSET Truck
      /\ \A t \in Truck \ byRoute' :
           device'[t] = None \/ (t \notin byRoute /\ device'[t] = device[t])
  <2>1. CASE device' = [device EXCEPT ![c.t] = None] /\ byRoute' = byRoute \ {c.t}
    BY <2>1, TablesTyped
  <2>2. CASE device' = device /\ byRoute' = byRoute
    BY <2>2, TablesTyped
  <2> QED BY <1>2, <2>1, <2>2
<1>4. (\A b \in Booking : BookingSound(b)') /\ DevicesSound' /\ Spares(Request \ {r})
  BY <1>2, <1>3 DEF OrchInv, BookingSound, DevicesSound, Spares
<1>5. /\ RequestSound(Idle)' /\ Idle \in RequestState
      /\ \A b \in Booking : ~Locks(Idle, b) /\ ~Storing(c, b) /\ ~Storing(Idle, b)
  BY <1>2, IdleSound DEF Storing
<1>6. Accounts(c, Idle)
  BY <1>2, <1>5, NothingToCount
<1> QED BY <1>1, <1>2, <1>3, <1>4, <1>5, <1>6, TablesTyped, Moves

-------------------------------------------------------------------------------
\* Steps of the other users of these rows.
LEMMA Rests ==
  ASSUME OrchInv, req' = req, stored' = stored, anchors' = anchors, failed' = failed,
         failures' = failures, device' \in [Truck -> Booking \cup {None}], byRoute' \in SUBSET Truck,
         booking' \in [Booking -> BookingRow], truck' \in [Truck -> TruckStatus],
         custody' \in [Booking -> Custody],
         \A b \in Booking : BookingSound(b)',
         DevicesSound', Spares(Request)
  PROVE  OrchInv'
<1>1. OrchTypeOK'
  BY DEF OrchInv, OrchTypeOK, BookingRow
<1>2. \A r \in Request : RequestSound(req[r])'
  <2> SUFFICES ASSUME NEW r \in Request PROVE RequestSound(req[r])'
    OBVIOUS
  <2> QED BY RequestTyped DEF RequestSound, Spares, Locks
<1>3. LocksSound'
  BY DEF OrchInv, LocksSound
<1>4. OneOrphanPerFailure'
  BY DEF OrchInv, OneOrphanPerFailure, BeingStored
<1> QED BY <1>1, <1>2, <1>3, <1>4 DEF OrchInv

LEMMA CancelSound ==
  ASSUME OrchInv, NEW b \in Booking, Cancel(b)
  PROVE  OrchInv'
<1>1. /\ BookingFree(b) /\ booking[b].status \in {"CONFIRMED", "ASSIGNED"}
      /\ booking' = [booking EXCEPT ![b].status = "CANCELLED"]
      /\ req' = req /\ stored' = stored /\ anchors' = anchors /\ failed' = failed
      /\ failures' = failures /\ device' = device /\ byRoute' = byRoute /\ custody' = custody
  BY DEF Cancel, MayCancel
<1>2. truck' \in [Truck -> TruckStatus]
  <2>1. CASE booking[b].truck = None
    BY <2>1, TablesTyped DEF Cancel
  <2>2. CASE booking[b].truck # None
    BY <2>2, TablesTyped DEF Cancel, TruckStatus
  <2> QED BY <2>1, <2>2
<1>3. /\ booking' \in [Booking -> BookingRow]
      /\ \A x \in Booking : /\ booking'[x].manifest = booking[x].manifest
                            /\ booking'[x].truck = booking[x].truck
                            /\ booking'[x].trip = booking[x].trip
      /\ \A x \in Booking \ {b} : booking'[x] = booking[x]
      /\ booking'[b].status = "CANCELLED"
  BY <1>1, StatusSound
<1>4. \A x \in Booking : BookingSound(x)'
  <2>1. BookingSound(b)'
    BY <1>1, <1>3, TablesTyped DEF BookingSound
  <2>2. \A x \in Booking \ {b} : BookingSound(x)'
    BY <1>1, <1>3, TablesTyped DEF BookingSound
  <2> QED BY <2>1, <2>2
<1>5. DevicesSound'
  BY <1>1, <1>3, TablesTyped DEF OrchInv, DevicesSound
<1>6. Spares(Request)
  BY <1>1, <1>3 DEF Spares, BookingFree, Locks
<1> QED BY <1>1, <1>2, <1>3, <1>4, <1>5, <1>6, TablesTyped, Rests

LEMMA ChainMovesSound ==
  ASSUME OrchInv, NEW b \in Booking, ChainMoves(b)
  PROVE  OrchInv'
<1>1. /\ booking' = booking /\ truck' = truck /\ device' = device /\ byRoute' = byRoute /\ stored' = stored
      /\ req' = req /\ anchors' = anchors /\ failed' = failed /\ failures' = failures
  BY DEF ChainMoves, dbVars
<1>2. /\ custody' \in [Booking -> Custody]
      /\ \A x \in Booking : /\ custody[x] \in Closed => custody'[x] \in Closed
                            /\ custody[x] = "None" <=> custody'[x] = "None"
  BY TablesTyped DEF ChainMoves, Custody, Closed
<1>3. \A x \in Booking : BookingSound(x)'
  <2> SUFFICES ASSUME NEW x \in Booking PROVE BookingSound(x)'
    OBVIOUS
  <2> QED BY <1>1, <1>2, TablesTyped DEF BookingSound
<1>4. DevicesSound' /\ Spares(Request)
  BY <1>1, <1>2 DEF OrchInv, DevicesSound, Spares
<1> QED BY <1>1, <1>2, <1>3, <1>4, TablesTyped, Rests

\* The dispatcher, and the tracker's own routes.
LEMMA SetTruckStatusSound ==
  ASSUME OrchInv, NEW t \in Truck, NEW status \in TruckStatus, SetTruckStatus(t, status)
  PROVE  OrchInv'
<1>1. /\ booking' = booking /\ device' = device /\ byRoute' = byRoute /\ stored' = stored
      /\ custody' = custody /\ req' = req /\ anchors' = anchors /\ failed' = failed
      /\ failures' = failures /\ truck' \in [Truck -> TruckStatus]
  BY TablesTyped DEF SetTruckStatus
<1>2. (\A x \in Booking : BookingSound(x)') /\ DevicesSound' /\ Spares(Request)
  BY <1>1, TablesTyped DEF OrchInv, BookingSound, DevicesSound, Spares
<1> QED BY <1>1, <1>2, TablesTyped, Rests

LEMMA GpsRouteSound ==
  ASSUME OrchInv, NEW t \in Truck,
         GpsEndTrip(t) \/ \E b \in Booking : GpsStartTrip(t, b)
  PROVE  OrchInv'
<1>1. /\ booking' = booking /\ truck' = truck /\ stored' = stored /\ custody' = custody
      /\ req' = req /\ anchors' = anchors /\ failed' = failed /\ failures' = failures
  BY DEF GpsEndTrip, GpsStartTrip
<1>2. /\ device' \in [Truck -> Booking \cup {None}] /\ byRoute' \in SUBSET Truck
      /\ \A x \in Truck \ byRoute' :
           device'[x] = None \/ (x \notin byRoute /\ device'[x] = device[x])
  <2>1. CASE GpsEndTrip(t)
    BY <2>1, TablesTyped DEF GpsEndTrip
  <2>2. CASE \E b \in Booking : GpsStartTrip(t, b)
    BY <2>2, TablesTyped DEF GpsStartTrip
  <2> QED BY <2>1, <2>2
<1>3. (\A x \in Booking : BookingSound(x)') /\ DevicesSound' /\ Spares(Request)
  BY <1>1, <1>2, TablesTyped DEF OrchInv, BookingSound, DevicesSound, Spares
<1> QED BY <1>1, <1>2, <1>3, TablesTyped, Rests

LEMMA StutterSound == OrchInv /\ UNCHANGED orchVars => OrchInv'
<1> SUFFICES ASSUME OrchInv, UNCHANGED orchVars PROVE OrchInv'
  OBVIOUS
<1>1. /\ booking' = booking /\ truck' = truck /\ device' = device /\ byRoute' = byRoute /\ stored' = stored
      /\ custody' = custody /\ req' = req /\ anchors' = anchors /\ failed' = failed
      /\ failures' = failures
  BY DEF orchVars
<1>2. (\A x \in Booking : BookingSound(x)') /\ DevicesSound' /\ Spares(Request)
  BY <1>1, TablesTyped DEF OrchInv, BookingSound, DevicesSound, Spares
<1> QED BY <1>1, <1>2, TablesTyped, Rests

-------------------------------------------------------------------------------
LEMMA AdvanceSound ==
  ASSUME OrchInv, NEW r \in Request, Advance(r)
  PROVE  OrchInv'
BY SeeTruckSound, WriteAssignmentSound, CommitWithoutAnchorSound, AnchorSound, AnchorFailsSound,
   CommitWithAnchorSound, CommitBuildSound, ManifestConflictSound, SubmitDeliverySound,
   SubmitRevertsSound, DecideSound, MarkDeliveredSound, EndTripSound DEF Advance

LEMMA StepSound == OrchInv /\ [OrchNext]_orchVars => OrchInv'
<1> SUFFICES ASSUME OrchInv, [OrchNext]_orchVars PROVE OrchInv'
  OBVIOUS
<1>1. ASSUME NEW r \in Request, NEW b \in Booking, NEW t \in Truck,
             NEW start \in BOOLEAN, NEW asked \in BOOLEAN, NEW driverHasKey \in BOOLEAN,
             Begin(r, b, t, start, WantsCustody(asked, driverHasKey))
      PROVE  OrchInv'
  <2>1. PICK wants \in BOOLEAN : wants = WantsCustody(asked, driverHasKey)
    BY DEF WantsCustody
  <2> QED BY <1>1, <2>1, BeginSound
<1>2. ASSUME NEW r \in Request, NEW b \in Booking, BeginBuild(r, b) \/ BeginConfirm(r, b)
      PROVE  OrchInv'
  BY <1>2, BeginBuildSound, BeginConfirmSound
<1>3. ASSUME NEW r \in Request, Advance(r) \/ Fail(r)
      PROVE  OrchInv'
  BY <1>3, AdvanceSound, FailSound
<1>4. ASSUME NEW b \in Booking, Cancel(b) \/ ChainMoves(b)
      PROVE  OrchInv'
  BY <1>4, CancelSound, ChainMovesSound
<1>5. ASSUME NEW t \in Truck, NEW status \in TruckStatus, SetTruckStatus(t, status)
      PROVE  OrchInv'
  BY <1>5, SetTruckStatusSound
<1>6. ASSUME NEW t \in Truck, GpsEndTrip(t) \/ \E b \in Booking : GpsStartTrip(t, b)
      PROVE  OrchInv'
  BY <1>6, GpsRouteSound
<1> QED BY <1>1, <1>2, <1>3, <1>4, <1>5, <1>6, StutterSound DEF OrchNext

\* What the requests rely on, the rows, the devices, the locks and the count of
\* orphans stay sound whatever starts, builds, confirmations, cancellations and
\* failures overlap (orchestration.service.ts, bookings.service.ts, builder.ts).
THEOREM OrchInvariant == OrchSpec => []OrchInv
<1>1. OrchInit => OrchInv
  BY InitSound
<1>2. OrchInv /\ [OrchNext]_orchVars => OrchInv'
  BY StepSound
<1> QED BY <1>1, <1>2, PTL DEF OrchSpec

\* Rows, requests and counters keep their types and bounds, a manifest number being one
\* that the chain gave out (orchestration.service.ts, bookings.service.ts).
THEOREM OrchTypeCorrect == OrchSpec => []OrchTypeOK
<1>1. OrchInv => OrchTypeOK
  BY DEF OrchInv
<1> QED BY <1>1, OrchInvariant, PTL

\* A booking that confirmDelivery marked DELIVERED has a manifest, and its receiver closed
\* that on the chain: neither a retry nor a cancellation in between can change it.
THEOREM DeliveryCorrect == OrchSpec => []DeliveredIsSigned
<1>1. OrchInv => DeliveredIsSigned
  BY DEF OrchInv, DeliveredIsSigned, BookingSound, Closed
<1> QED BY <1>1, OrchInvariant, PTL

\* The manifest a booking points to (linkTrip) is the one that ManifestBuilder.build stored
\* for it, not an orphan of another attempt.
THEOREM LinkCorrect == OrchSpec => []LinkIsStored
<1>1. OrchInv => LinkIsStored
  BY DEF OrchInv, LinkIsStored, BookingSound
<1> QED BY <1>1, OrchInvariant, PTL

\* Manifests on the chain without a row never outnumber the attempts of startTrip and
\* createManifest that failed.
THEOREM OrphansCorrect == OrchSpec => []OneOrphanPerFailure
<1>1. OrchInv => OneOrphanPerFailure
  BY DEF OrchInv
<1> QED BY <1>1, OrchInvariant, PTL

\* Truck, tracker and trip of a booking appear together at the commit of startTrip: only
\* the GPS start-trip route can put a tracker on the trip of a booking without its truck.
THEOREM StartCorrect == OrchSpec => []StartIsAtomic
<1>1. OrchInv => StartIsAtomic
  BY DEF OrchInv, StartIsAtomic, BookingSound, DevicesSound
<1> QED BY <1>1, OrchInvariant, PTL

--------------------------------------------------------------------------------
(***************************************************************************)
(* The pool of database clients.  What a request holds follows from what   *)
(* it is doing; the queue holds each request that asks for a client, once. *)
(***************************************************************************)
Asking == {"connect", "auditConnect"}

\* The queue holds each request that asks for a client, once.
QueueSound ==
  /\ \A i \in 1 .. Len(waiting) : call[waiting[i]].pc \in Asking
  /\ \A r \in Caller : call[r].pc \in Asking => \E i \in 1 .. Len(waiting) : waiting[i] = r
  /\ \A i, j \in 1 .. Len(waiting) : waiting[i] = waiting[j] => i = j

\* A request in flight has a transaction to do.
PlanSound(q) == q.pc # "idle" => q.todo # <<>>

PoolInv ==
  /\ PoolTypeOK
  /\ NoClientLeaks
  /\ QueueSound
  /\ \A r \in Caller : PlanSound(call[r])

--------------------------------------------------------------------------------
\* The clients in use are the sum of those held, in this state and in the next.
LEMMA InUseSum ==
  /\ held \in [Caller -> Nat] => InUse = SumOn(held, Caller)
  /\ held' \in [Caller -> Nat] => InUse' = SumOn(held', Caller)
BY DEF InUse, FoldFunction, FoldFunctionOnSet, MapThenFoldSet, SumOn

\* A request takes or gives back clients.
LEMMA InUseChange ==
  ASSUME held \in [Caller -> Nat], NEW r \in Caller, NEW n \in Nat,
         held' = [held EXCEPT ![r] = n]
  PROVE  /\ held' \in [Caller -> Nat]
         /\ InUse \in Int /\ InUse' = InUse - held[r] + n
<1>1. held' \in [Caller -> Nat]
  OBVIOUS
<1>2. \A x \in Caller : held[x] \in Int /\ held'[x] \in Int
  BY <1>1
<1>3. held'[r] = n /\ \A x \in Caller \ {r} : held'[x] = held[x]
  OBVIOUS
<1>4. IsFiniteSet(Caller)
  BY PoolAssumption
<1>5. SumOn(held, Caller) \in Int
  BY <1>2, <1>4, SumInt
<1>6. SumOn(held', Caller) = SumOn(held, Caller) - held[r] + held'[r]
  <2> DEFINE w == held
             v == held'
  <2>1. \A x \in Caller : w[x] \in Int /\ v[x] \in Int
    BY <1>2
  <2>2. \A x \in Caller \ {r} : v[x] = w[x]
    BY <1>3
  <2> HIDE DEF v, w
  <2>3. SumOn(v, Caller) = SumOn(w, Caller) - w[r] + v[r]
    BY <1>4, <2>1, <2>2, SumChange
  <2> QED BY <2>3 DEF v, w
<1> QED BY <1>1, <1>3, <1>5, <1>6, InUseSum

\* A request that does not hold more than before keeps the pool within its size.
LEMMA InUseShrinks ==
  ASSUME held \in [Caller -> Nat], InUse <= PoolSize, NEW r \in Caller,
         NEW n \in 0 .. held[r], held' = [held EXCEPT ![r] = n]
  PROVE  held' \in [Caller -> Nat] /\ InUse' <= PoolSize
<1>1. n \in Nat /\ held[r] \in Nat /\ n <= held[r]
  OBVIOUS
<1>2. held' \in [Caller -> Nat] /\ InUse \in Int /\ InUse' = InUse - held[r] + n
  BY <1>1, InUseChange
<1> QED BY <1>1, <1>2, PoolAssumption

--------------------------------------------------------------------------------
\* The queue when a request joins it, leaves its head, or only stops asking.
LEMMA QueueJoin ==
  ASSUME PoolInv, NEW r \in Caller, call[r].pc \notin Asking, waiting' = Enqueue(r),
         call'[r].pc \in Asking, \A x \in Caller \ {r} : call'[x].pc \in Asking <=> call[x].pc \in Asking
  PROVE  waiting' \in Seq(Caller) /\ QueueSound'
<1>1. /\ waiting \in Seq(Caller) /\ waiting' = Append(waiting, r)
      /\ waiting' \in Seq(Caller) /\ Len(waiting') = Len(waiting) + 1
      /\ Len(waiting) \in Nat
      /\ \A i \in 1 .. Len(waiting) : waiting'[i] = waiting[i] /\ waiting[i] \in Caller
      /\ waiting'[Len(waiting) + 1] = r
  BY DEF PoolInv, PoolTypeOK, Enqueue
<1>2. \A i \in 1 .. Len(waiting) : call[waiting[i]].pc \in Asking /\ waiting[i] # r
  BY DEF PoolInv, QueueSound
<1>3. ASSUME NEW i \in 1 .. Len(waiting')
      PROVE  /\ waiting'[i] \in Caller /\ call'[waiting'[i]].pc \in Asking
             /\ i = Len(waiting) + 1 \/ (i \in 1 .. Len(waiting) /\ waiting'[i] # r)
  <2>1. CASE i = Len(waiting) + 1
    BY <1>1, <2>1 DEF Asking
  <2>2. CASE i \in 1 .. Len(waiting)
    <3>1. waiting'[i] = waiting[i] /\ waiting[i] \in Caller \ {r} /\ call[waiting[i]].pc \in Asking
      BY <1>1, <1>2, <2>2
    <3> QED BY <2>2, <3>1 DEF Asking
  <2> QED BY <1>1, <2>1, <2>2
<1>4. ASSUME NEW x \in Caller, call'[x].pc \in Asking
      PROVE  \E i \in 1 .. Len(waiting') : waiting'[i] = x
  <2>1. CASE x = r
    BY <1>1, <2>1
  <2>2. CASE x # r
    <3>1. PICK i \in 1 .. Len(waiting) : waiting[i] = x
      BY <1>4, <2>2 DEF PoolInv, QueueSound
    <3> QED BY <1>1, <3>1
  <2> QED BY <2>1, <2>2
<1>5. \A i, j \in 1 .. Len(waiting') : waiting'[i] = waiting'[j] => i = j
  BY <1>1, <1>3 DEF PoolInv, QueueSound
<1> QED BY <1>1, <1>3, <1>4, <1>5 DEF QueueSound, Asking

LEMMA QueueServe ==
  ASSUME PoolInv, waiting # <<>>, waiting' = Tail(waiting),
         NEW r, r = Head(waiting), call'[r].pc \notin Asking,
         \A x \in Caller \ {r} : call'[x].pc \in Asking <=> call[x].pc \in Asking
  PROVE  waiting' \in Seq(Caller) /\ QueueSound'
<1>1. /\ waiting \in Seq(Caller) /\ Len(waiting) \in Nat \ {0} /\ r = waiting[1]
      /\ waiting' \in Seq(Caller) /\ Len(waiting') = Len(waiting) - 1
      /\ \A i \in 1 .. Len(waiting) : waiting[i] \in Caller
      /\ \A i \in 1 .. Len(waiting') : i + 1 \in 1 .. Len(waiting) /\ waiting'[i] = waiting[i + 1]
  BY DEF PoolInv, PoolTypeOK
<1>2. \A i \in 1 .. Len(waiting') : waiting[i + 1] # r
  BY <1>1 DEF PoolInv, QueueSound
<1>3. ASSUME NEW i \in 1 .. Len(waiting')
      PROVE  call'[waiting'[i]].pc \in Asking
  <2>1. waiting'[i] \in Caller \ {r} /\ call[waiting'[i]].pc \in Asking
    BY <1>1, <1>2 DEF PoolInv, QueueSound
  <2> QED BY <2>1 DEF Asking
<1>4. ASSUME NEW x \in Caller, call'[x].pc \in Asking
      PROVE  \E i \in 1 .. Len(waiting') : waiting'[i] = x
  <2>1. x # r /\ call[x].pc \in Asking
    BY <1>4 DEF Asking
  <2>2. PICK j \in 1 .. Len(waiting) : waiting[j] = x
    BY <2>1 DEF PoolInv, QueueSound
  <2>3. j - 1 \in 1 .. Len(waiting') /\ (j - 1) + 1 = j
    BY <1>1, <2>1, <2>2
  <2>4. waiting'[j - 1] = x
    BY <1>1, <2>2, <2>3
  <2> QED BY <2>3, <2>4
<1>5. \A i, j \in 1 .. Len(waiting') : waiting'[i] = waiting'[j] => i = j
  <2>1. ASSUME NEW i \in 1 .. Len(waiting'), NEW j \in 1 .. Len(waiting'), waiting'[i] = waiting'[j]
        PROVE  i = j
    <3>1. waiting[i + 1] = waiting[j + 1] /\ i + 1 \in 1 .. Len(waiting) /\ j + 1 \in 1 .. Len(waiting)
      BY <1>1, <2>1
    <3>2. i + 1 = j + 1
      BY <3>1 DEF PoolInv, QueueSound
    <3> QED BY <3>2
  <2> QED BY <2>1
<1> QED BY <1>1, <1>3, <1>4, <1>5 DEF QueueSound, Asking

LEMMA QueueStays ==
  ASSUME PoolInv, waiting' = waiting, \A x \in Caller : call'[x].pc \in Asking <=> call[x].pc \in Asking
  PROVE  waiting' \in Seq(Caller) /\ QueueSound'
<1>1. waiting \in Seq(Caller) /\ \A i \in 1 .. Len(waiting) : waiting[i] \in Caller
  BY DEF PoolInv, PoolTypeOK
<1> QED BY <1>1 DEF PoolInv, QueueSound, Asking

--------------------------------------------------------------------------------
LEMMA PoolInvInit == PoolInit => PoolInv
<1> SUFFICES ASSUME PoolInit PROVE PoolInv
  OBVIOUS
<1>1. PoolTypeOK
  BY DEF PoolInit, PoolTypeOK, AtRest, Phase, Need
<1>2. InUse = 0
  <2>1. IsFiniteSet(Caller) /\ held \in [Caller -> Nat] /\ \A r \in Caller : held[r] = 0
    BY PoolAssumption DEF PoolInit
  <2>2. SumOn(held, Caller) = Cardinality({})
    BY <2>1, SumOfOnes
  <2> QED BY <2>1, <2>2, InUseSum, FS_EmptySet
<1>3. NoClientLeaks
  BY <1>2, PoolAssumption DEF PoolInit, NoClientLeaks, ClientsHeld, AtRest
<1>4. QueueSound
  BY DEF PoolInit, QueueSound, Asking, AtRest
<1>5. \A r \in Caller : PlanSound(call[r])
  BY DEF PoolInit, PlanSound, AtRest
<1> QED BY <1>1, <1>3, <1>4, <1>5 DEF PoolInv

\* A step of one request: it is left sound, with what its phase holds, and the pool
\* within its size.
LEMMA OneCaller ==
  ASSUME PoolInv, NEW r \in Caller, NEW q \in [pc: Phase, todo: Seq(Need)], Turn(r, q),
         PlanSound(q), held' = [held EXCEPT ![r] = ClientsHeld(q.pc)],
         InUse' <= PoolSize, waiting' \in Seq(Caller), QueueSound'
  PROVE  PoolInv'
<1>1. /\ call \in [Caller -> [pc: Phase, todo: Seq(Need)]] /\ held \in [Caller -> Nat]
      /\ \A x \in Caller : held[x] = ClientsHeld(call[x].pc) /\ PlanSound(call[x])
  BY DEF PoolInv, PoolTypeOK, NoClientLeaks
<1>2. call' = [call EXCEPT ![r] = q]
  BY DEF Turn
<1>3. ClientsHeld(q.pc) \in Nat
  BY DEF ClientsHeld, Phase
<1>4. PoolTypeOK'
  BY <1>1, <1>2, <1>3 DEF PoolTypeOK
<1>5. NoClientLeaks'
  <2>1. \A x \in Caller : held'[x] = ClientsHeld(call'[x].pc)
    BY <1>1, <1>2
  <2> QED BY <2>1 DEF NoClientLeaks, ClientsHeld
<1>6. ASSUME NEW x \in Caller PROVE PlanSound(call'[x])
  BY <1>1, <1>2
<1> QED BY <1>4, <1>5, <1>6 DEF PoolInv, PlanSound

\* Every operation is at least one transaction.
LEMMA PlanOf ==
  ASSUME NEW op \in Operation
  PROVE  Transactions(op) \in Seq(Need) /\ Transactions(op) # <<>>
<1>1. CASE op = "reconcile"
  BY <1>1 DEF Transactions, Need
<1>2. CASE op = "requestDeliveryOtp"
  BY <1>2 DEF Transactions, Need
<1>3. CASE op = "confirmDelivery"
  BY <1>3 DEF Transactions, Need
<1>4. CASE op = "recordScan"
  BY <1>4 DEF Transactions, Need
<1> QED BY <1>1, <1>2, <1>3, <1>4 DEF Operation

LEMMA PoolInvNext == PoolInv /\ [PoolNext]_poolVars => PoolInv'
<1> SUFFICES ASSUME PoolInv, [PoolNext]_poolVars
             PROVE  PoolInv'
  OBVIOUS
<1>0. /\ call \in [Caller -> [pc: Phase, todo: Seq(Need)]]
      /\ held \in [Caller -> Nat] /\ waiting \in Seq(Caller) /\ InUse <= PoolSize
      /\ \A x \in Caller : held[x] = ClientsHeld(call[x].pc) /\ PlanSound(call[x])
  BY DEF PoolInv, PoolTypeOK, NoClientLeaks
\* Nobody else changes what it asks for.
<1>1. ASSUME NEW r \in Caller, NEW q, Turn(r, q)
      PROVE  /\ \A x \in Caller \ {r} : call'[x].pc \in Asking <=> call[x].pc \in Asking
             /\ call'[r] = q
  BY <1>0, <1>1 DEF Turn, Asking
<1>2. ASSUME NEW r \in Caller, NEW op \in Operation, Issue(r, op)
      PROVE  PoolInv'
  <2> DEFINE q == [pc |-> "connect", todo |-> Transactions(op)]
  <2>1. /\ call[r].pc = "idle" /\ Turn(r, q)
        /\ waiting' = Enqueue(r) /\ held' = held
    BY <1>2 DEF Issue
  <2>2. q \in [pc: Phase, todo: Seq(Need)] /\ PlanSound(q)
    BY <2>1, PlanOf DEF PlanSound, Phase
  <2>3. held' = [held EXCEPT ![r] = ClientsHeld(q.pc)]
    BY <1>0, <2>1 DEF ClientsHeld
  <2>4. call[r].pc \notin Asking /\ call'[r].pc \in Asking
    BY <1>1, <2>1 DEF Asking
  <2> HIDE DEF q
  <2>5. waiting' \in Seq(Caller) /\ QueueSound'
    BY <1>1, <2>1, <2>4, QueueJoin
  <2>6. InUse' <= PoolSize
    BY <1>0, <2>1, InUseSum
  <2> QED BY <2>1, <2>2, <2>3, <2>5, <2>6, OneCaller
<1>3. CASE Connect
  <2> DEFINE r == Head(waiting)
             q == [call[r] EXCEPT !.pc = IF @ = "connect" THEN "open" ELSE "audit"]
  <2>1. /\ waiting # <<>> /\ HasFree /\ Turn(r, q)
        /\ held' = [held EXCEPT ![r] = held[r] + 1] /\ waiting' = Tail(waiting)
    BY <1>0, <1>3 DEF Connect
  <2>2. r \in Caller /\ call[r].pc \in Asking
    <3>1. 1 \in 1 .. Len(waiting) /\ r = waiting[1] /\ r \in Caller
      BY <1>0, <2>1
    <3> QED BY <3>1 DEF PoolInv, QueueSound
  <2>3. /\ q \in [pc: Phase, todo: Seq(Need)] /\ q.todo = call[r].todo
        /\ \/ call[r].pc = "connect" /\ q.pc = "open"
           \/ call[r].pc = "auditConnect" /\ q.pc = "audit"
    BY <1>0, <2>2 DEF Phase, Asking
  <2> HIDE DEF q
  <2>4. PlanSound(q)
    BY <1>0, <2>2, <2>3 DEF PlanSound
  <2>5. held' = [held EXCEPT ![r] = ClientsHeld(q.pc)]
    <3>1. held[r] = ClientsHeld(call[r].pc)
      BY <1>0, <2>2
    <3>2. ClientsHeld(call[r].pc) + 1 = ClientsHeld(q.pc)
      BY <2>3 DEF ClientsHeld
    <3> QED BY <2>1, <3>1, <3>2
  <2>6. InUse' <= PoolSize
    <3>1. held[r] \in Nat /\ held[r] + 1 \in Nat /\ InUse < PoolSize
      BY <1>0, <2>1, <2>2 DEF HasFree
    <3>2. InUse \in Int /\ InUse' = InUse - held[r] + (held[r] + 1)
      BY <1>0, <2>1, <2>2, <3>1, InUseChange
    <3> QED BY <3>1, <3>2, PoolAssumption
  <2>7. waiting' \in Seq(Caller) /\ QueueSound'
    <3>1. call'[r].pc \notin Asking
      BY <1>1, <2>1, <2>2, <2>3 DEF Asking
    <3>2. \A x \in Caller \ {r} : call'[x].pc \in Asking <=> call[x].pc \in Asking
      BY <1>1, <2>1, <2>2
    <3> QED BY <2>1, <3>1, <3>2, QueueServe
  <2> QED BY <2>1, <2>2, <2>3, <2>4, <2>5, <2>6, <2>7, OneCaller
<1>4. ASSUME NEW r \in Caller, RecordAudit(r)
      PROVE  PoolInv'
  <2> DEFINE q == [call[r] EXCEPT !.pc = "auditConnect"]
  <2>1. /\ call[r].pc = "open" /\ Head(call[r].todo) = "auditing" /\ Turn(r, q)
        /\ waiting' = Enqueue(r) /\ held' = held
    BY <1>4 DEF RecordAudit
  <2>2. q \in [pc: Phase, todo: Seq(Need)] /\ q.pc = "auditConnect" /\ q.todo = call[r].todo
    BY <1>0 DEF Phase
  <2> HIDE DEF q
  <2>3. PlanSound(q)
    <3>1. call[r].todo \in Seq(Need) /\ call[r].todo # <<>>
      BY <1>0, <2>1 DEF PlanSound
    <3> QED BY <2>2, <3>1 DEF PlanSound
  <2>4. held' = [held EXCEPT ![r] = ClientsHeld(q.pc)]
    BY <1>0, <2>1, <2>2 DEF ClientsHeld
  <2>5. call[r].pc \notin Asking /\ call'[r].pc \in Asking
    BY <1>1, <2>1, <2>2 DEF Asking
  <2>6. waiting' \in Seq(Caller) /\ QueueSound'
    BY <1>1, <2>1, <2>5, QueueJoin
  <2>7. InUse' <= PoolSize
    BY <1>0, <2>1, InUseSum
  <2> QED BY <2>1, <2>2, <2>3, <2>4, <2>6, <2>7, OneCaller
<1>5. ASSUME NEW r \in Caller, EndAudit(r)
      PROVE  PoolInv'
  <2> DEFINE q == [call[r] EXCEPT !.pc = "audited"]
  <2>1. /\ call[r].pc = "audit" /\ Turn(r, q)
        /\ waiting' = waiting /\ held' = [held EXCEPT ![r] = held[r] - 1]
    BY <1>0, <1>5 DEF EndAudit
  <2>2. q \in [pc: Phase, todo: Seq(Need)] /\ q.pc = "audited" /\ q.todo = call[r].todo
    BY <1>0 DEF Phase
  <2> HIDE DEF q
  <2>3. PlanSound(q)
    BY <1>0, <2>1, <2>2 DEF PlanSound
  <2>4. held[r] - 1 = ClientsHeld(q.pc) /\ held[r] - 1 \in 0 .. held[r]
    BY <1>0, <2>1, <2>2 DEF ClientsHeld
  <2>5. \A x \in Caller : call'[x].pc \in Asking <=> call[x].pc \in Asking
    <3>1. call[r].pc \notin Asking /\ call'[r].pc \notin Asking
      BY <1>1, <2>1, <2>2 DEF Asking
    <3>2. \A x \in Caller \ {r} : call'[x].pc \in Asking <=> call[x].pc \in Asking
      BY <1>1, <2>1
    <3> QED BY <3>1, <3>2
  <2>6. InUse' <= PoolSize
    BY <1>0, <2>1, <2>4, InUseShrinks
  <2>7. waiting' \in Seq(Caller) /\ QueueSound'
    BY <2>1, <2>5, QueueStays
  <2> QED BY <2>1, <2>2, <2>3, <2>4, <2>6, <2>7, OneCaller
<1>6. ASSUME NEW r \in Caller, Commit(r)
      PROVE  PoolInv'
  <2> DEFINE rest == Tail(call[r].todo)
             q == [pc |-> "connect", todo |-> rest]
  <2>1. /\ call[r].pc \in {"open", "audited"}
        /\ held' = [held EXCEPT ![r] = held[r] - 1]
    BY <1>0, <1>6 DEF Commit
  <2>2. held[r] - 1 = 0 /\ held[r] - 1 \in 0 .. held[r]
    <3>1. held[r] = 1
      BY <1>0, <2>1 DEF ClientsHeld
    <3> QED BY <3>1
  <2>3. InUse' <= PoolSize
    BY <1>0, <2>1, <2>2, InUseShrinks
  <2>4. /\ rest \in Seq(Need) /\ Len(rest) = Len(call[r].todo) - 1
        /\ \A k \in 1 .. Len(rest) : k + 1 \in 1 .. Len(call[r].todo) /\ rest[k] = call[r].todo[k + 1]
    BY <1>0, <2>1 DEF PlanSound
  <2>5. CASE rest = <<>>
    <3>1. Turn(r, AtRest) /\ waiting' = waiting
      BY <1>6, <2>5 DEF Commit
    <3>2. AtRest \in [pc: Phase, todo: Seq(Need)] /\ AtRest.pc = "idle" /\ PlanSound(AtRest)
      BY DEF AtRest, Phase, PlanSound
    <3>3. \A x \in Caller : call'[x].pc \in Asking <=> call[x].pc \in Asking
      <4>1. call[r].pc \notin Asking /\ call'[r].pc \notin Asking
        BY <1>1, <2>1, <3>1, <3>2 DEF Asking
      <4>2. \A x \in Caller \ {r} : call'[x].pc \in Asking <=> call[x].pc \in Asking
        BY <1>1, <3>1
      <4> QED BY <4>1, <4>2
    <3>4. waiting' \in Seq(Caller) /\ QueueSound'
      BY <3>1, <3>3, QueueStays
    <3>5. ClientsHeld(AtRest.pc) = 0
      BY <3>2 DEF ClientsHeld
    <3> QED BY <2>1, <2>2, <2>3, <3>1, <3>2, <3>4, <3>5, OneCaller
  <2>6. CASE rest # <<>>
    <3>1. Turn(r, q) /\ waiting' = Enqueue(r)
      BY <1>6, <2>6 DEF Commit
    <3>2. q \in [pc: Phase, todo: Seq(Need)] /\ q.pc = "connect" /\ q.todo = rest
      BY <2>4 DEF Phase
    <3> HIDE DEF q, rest
    <3>3. PlanSound(q)
      BY <1>0, <2>4, <2>6, <3>2 DEF PlanSound
    <3>4. call[r].pc \notin Asking /\ call'[r].pc \in Asking
      BY <1>1, <2>1, <3>1, <3>2 DEF Asking
    <3>5. waiting' \in Seq(Caller) /\ QueueSound'
      BY <1>1, <3>1, <3>4, QueueJoin
    <3>6. ClientsHeld(q.pc) = 0
      BY <3>2 DEF ClientsHeld
    <3> QED BY <2>1, <2>2, <2>3, <3>1, <3>2, <3>3, <3>5, <3>6, OneCaller
  <2> QED BY <2>5, <2>6
<1>7. ASSUME NEW r \in Caller, Throw(r)
      PROVE  PoolInv'
  <2>1. /\ call[r].pc \in {"open", "audit", "audited"} /\ Turn(r, AtRest)
        /\ held' = [held EXCEPT ![r] = 0] /\ waiting' = waiting
    BY <1>0, <1>7 DEF Throw, Released
  <2>2. AtRest \in [pc: Phase, todo: Seq(Need)] /\ AtRest.pc = "idle" /\ PlanSound(AtRest)
    BY DEF AtRest, Phase, PlanSound
  <2>3. \A x \in Caller : call'[x].pc \in Asking <=> call[x].pc \in Asking
    <3>1. call[r].pc \notin Asking /\ call'[r].pc \notin Asking
      BY <1>1, <2>1, <2>2 DEF Asking
    <3>2. \A x \in Caller \ {r} : call'[x].pc \in Asking <=> call[x].pc \in Asking
      BY <1>1, <2>1
    <3> QED BY <3>1, <3>2
  <2>4. InUse' <= PoolSize
    <3>1. held[r] \in Nat /\ 0 \in 0 .. held[r]
      BY <1>0
    <3> QED BY <1>0, <2>1, <3>1, InUseShrinks
  <2>5. waiting' \in Seq(Caller) /\ QueueSound'
    BY <2>1, <2>3, QueueStays
  <2>6. ClientsHeld(AtRest.pc) = 0
    BY <2>2 DEF ClientsHeld
  <2> QED BY <2>1, <2>2, <2>4, <2>5, <2>6, OneCaller
<1>8. CASE UNCHANGED poolVars
  <2>1. call' = call /\ held' = held /\ waiting' = waiting
    BY <1>8 DEF poolVars
  <2>2. InUse' <= PoolSize
    BY <1>0, <2>1, InUseSum
  <2> QED BY <1>0, <2>1, <2>2
        DEF PoolInv, PoolTypeOK, NoClientLeaks, QueueSound, Asking, PlanSound, ClientsHeld
<1> QED BY <1>2, <1>3, <1>4, <1>5, <1>6, <1>7, <1>8 DEF PoolNext, Proceed

THEOREM PoolInvariant == PoolSpec => []PoolInv
BY PoolInvInit, PoolInvNext, PTL DEF PoolSpec

\* withActor, asSystem and audit.record never hold more clients than the pool has, and
\* their finally blocks leave none behind, whatever throws and wherever.
THEOREM PoolNoClientLeaks == PoolSpec => []NoClientLeaks
<1>1. PoolInv => NoClientLeaks
  BY DEF PoolInv
<1> QED BY <1>1, PoolInvariant, PTL

\* A pool with requests in flight stands still exactly when every client is held by a
\* transaction that waits for a second one in audit.record: whatever the requests do and
\* throw, nothing else ever blocks it.  This is the safety part of Served, for any number
\* of requests, all of which may audit, and any size of the pool.
THEOREM PoolStillOnlyByAudits == PoolSpec => []StillOnlyByAudits
<1> DEFINE A == {x \in Caller : call[x].pc = "auditConnect"}
<1>0. A \in SUBSET Caller
  OBVIOUS
<1>1. ASSUME PoolInv
      PROVE  /\ held \in [Caller -> Nat] /\ waiting \in Seq(Caller) /\ InUse <= PoolSize
             /\ \A x \in Caller : call[x].pc \in Phase /\ held[x] = ClientsHeld(call[x].pc)
             /\ \A x \in Caller : held[x] \in Nat
  BY <1>1 DEF PoolInv, PoolTypeOK, NoClientLeaks
<1>2. ASSUME PoolInv, StandsStill
      PROVE  AuditsHoldPool
  <2>1. \A x \in Caller : call[x].pc \in {"idle", "connect", "auditConnect"}
    BY <1>1, <1>2 DEF StandsStill, Running, Phase
  <2>2. waiting # <<>>
    <3>1. PICK r \in Caller : call[r].pc \in Asking
      BY <1>2, <2>1 DEF StandsStill, Asking
    <3>2. PICK i \in 1 .. Len(waiting) : waiting[i] = r
      BY <1>2, <3>1 DEF PoolInv, QueueSound
    <3> QED BY <3>2
  <2>3. /\ \A x \in A : held[x] = 1
        /\ \A x \in Caller \ A : held[x] = 0
    BY <1>1, <1>2, <2>1 DEF ClientsHeld
  <2> HIDE DEF A
  <2>4. InUse = Cardinality(A) /\ Cardinality(A) \in Nat
    BY <1>0, <1>1, <1>2, <2>3, PoolAssumption, SumOfOnes, InUseSum, FS_Subset, FS_CardinalityType
  <2>5. Cardinality(A) = PoolSize
    BY <1>1, <1>2, <2>2, <2>4, PoolAssumption DEF StandsStill, HasFree
  <2> QED BY <2>5 DEF A, AuditsHoldPool
<1>3. ASSUME PoolInv, AuditsHoldPool
      PROVE  StandsStill
  <2> DEFINE w == [x \in Caller |-> IF x \in A THEN 1 ELSE 0]
  <2>1. \A x \in A : held[x] = 1 /\ call[x].pc = "auditConnect"
    BY <1>1, <1>3 DEF ClientsHeld
  <2>2. Cardinality(A) = PoolSize
    BY <1>3 DEF AuditsHoldPool
  <2> HIDE DEF A
  <2>3. A # {}
    BY <2>2, FS_EmptySet, PoolAssumption
  <2>4. /\ \A x \in A : w[x] = 1
        /\ \A x \in Caller \ A : w[x] = 0
        /\ \A x \in Caller : w[x] \in Int
    BY <1>0
  <2> HIDE DEF w
  <2>5. SumOn(w, Caller) = PoolSize
    BY <1>0, <2>2, <2>4, PoolAssumption, SumOfOnes
  <2>6. \A x \in Caller : w[x] \in Int /\ held[x] \in Int /\ w[x] <= held[x]
    BY <1>0, <1>1, <1>3, <2>1, <2>4
  <2>7. InUse = SumOn(held, Caller) /\ SumOn(held, Caller) \in Int
    <3> DEFINE h == held
    <3>1. \A x \in Caller : h[x] \in Int
      BY <2>6
    <3> HIDE DEF h
    <3>2. SumOn(h, Caller) \in Int
      BY <3>1, PoolAssumption, SumInt
    <3> QED BY <1>1, <1>3, <3>2, InUseSum DEF h
  <2>8. ~HasFree
    <3> DEFINE h == held
    <3>1. \A x \in Caller : w[x] \in Int /\ h[x] \in Int /\ w[x] <= h[x]
      BY <2>6
    <3> HIDE DEF h
    <3>2. SumOn(w, Caller) <= SumOn(h, Caller)
      BY <3>1, PoolAssumption, SumOrder
    <3> QED BY <2>5, <2>7, <3>2, PoolAssumption DEF h, HasFree
  \* Somebody outside A with a client would be one client too many.
  <2>9. ASSUME NEW y \in Caller, Running(y)
        PROVE  FALSE
    <3>1. y \in Caller \ A /\ held[y] >= 1 /\ held[y] \in Nat
      BY <1>1, <1>3, <2>1, <2>9 DEF Running, ClientsHeld
    <3> DEFINE h == held
               v == [w EXCEPT ![y] = held[y]]
    <3>2. /\ v[y] = held[y] /\ w[y] = 0 /\ y \in Caller
          /\ \A x \in Caller \ {y} : v[x] = w[x]
      BY <2>4, <3>1 DEF w
    <3>3. \A x \in Caller : w[x] \in Int /\ v[x] \in Int
      BY <2>4, <3>1, <3>2
    <3>4. \A x \in Caller : v[x] \in Int /\ h[x] \in Int /\ v[x] <= h[x]
      BY <2>6, <3>1, <3>2
    <3> HIDE DEF v, h
    <3>5. SumOn(v, Caller) = SumOn(w, Caller) - w[y] + v[y]
      <4>1. IsFiniteSet(Caller)
        BY PoolAssumption
      <4> QED BY <3>2, <3>3, <4>1, SumChange
    <3>6. SumOn(v, Caller) <= SumOn(h, Caller)
      BY <3>4, PoolAssumption, SumOrder
    <3> QED BY <1>1, <1>3, <2>5, <2>7, <3>1, <3>2, <3>5, <3>6, PoolAssumption DEF h
  <2> QED BY <1>0, <2>1, <2>3, <2>8, <2>9 DEF StandsStill
<1>4. PoolInv => StillOnlyByAudits
  BY <1>2, <1>3 DEF StillOnlyByAudits
<1> QED BY <1>4, PoolInvariant, PTL
====================================================================================
