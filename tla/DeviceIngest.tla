------------------------------- MODULE DeviceIngest -------------------------------
(***************************************************************************)
(* GPS devices and the pings they send: DeviceRegistry and IngestGateway   *)
(* (gps/ingest) over PgDeviceStore, PgPingBuffer and RedisRateLimiter      *)
(* (gps/db), as platform/api/gps/gps.service.ts calls them, for one        *)
(* company.                                                                *)
(*                                                                         *)
(* A call is one database transaction at READ COMMITTED: what it reads are *)
(* steps of their own, what it writes appears at its commit.  The rate     *)
(* limiter is outside the transaction.                                     *)
(*                                                                         *)
(* A ping is the secret it was authenticated with.  Left out: position and *)
(* time beyond Implausible, last_seen_ts, which only the health sweep      *)
(* reads, alerts and metrics, and the status RETIRED, which nothing sets.  *)
(***************************************************************************)
EXTENDS Integers, FiniteSets

CONSTANTS
  Device, Truck, Trip, Secret,
  Request,     \* calls in flight at the same time
  None,
  TamperLimit, \* TAMPER_SUSPEND_THRESHOLD
  PerWindow,   \* MAX_PER_WINDOW
  MaxCalls,    \* bound: calls
  MaxFailures  \* bound: processes that die half way

ASSUME DeviceAssumption ==
  /\ TamperLimit \in Nat \ {0} /\ PerWindow \in Nat \ {0}
  /\ MaxCalls \in Nat /\ MaxFailures \in Nat
  /\ None \notin Truck

VARIABLES
  devices,   \* gps_devices
  binding,   \* gps_device_bindings: the trip of a device
  pings,     \* gps_pings_raw
  limiter,   \* the key gps:ratelimit:<device> of Redis
  req,       \* calls in flight; "before" holds the trips that had ended when a ping was sent
  ended,     \* trips of each device that were ended and not started again (history)
  writes,    \* registrations each device went through (history)
  calls, failures

tables == <<devices, binding, pings>>
history == <<ended, writes>>
deviceVars == <<devices, binding, pings, limiter, req, ended, writes, calls, failures>>

NoDevice == [truck |-> None, secret |-> None, status |-> "none", flags |-> 0]
NoKey == [count |-> 0, ttl |-> FALSE]
Idle == [pc |-> "idle", device |-> None, secret |-> None, trip |-> None, row |-> NoDevice,
         bulk |-> FALSE, fleet |-> {}, before |-> {}]

DeviceInit ==
  /\ devices = [d \in Device |-> NoDevice]
  /\ binding = [d \in Device |-> None]
  /\ pings = {}
  /\ limiter = [d \in Device |-> NoKey]
  /\ req = [r \in Request |-> Idle]
  /\ ended = {}
  /\ writes = [d \in Device |-> 0]
  /\ calls = 0 /\ failures = 0

Become(r, q) == req' = [req EXCEPT ![r] = q]

\* A call begins.
Call(r) ==
  /\ req[r].pc = "idle"
  /\ calls < MaxCalls
  /\ calls' = calls + 1

DevicesOf(k) == {d \in Device : devices[d].truck = k}

--------------------------------------------------------------------------------
\* --- DeviceRegistry: registration and secrets -------------------------------
BeginRegister(r, d, k, s) ==
  /\ Call(r)
  /\ devices[d] = NoDevice
  /\ Become(r, [Idle EXCEPT !.pc = "register", !.device = d,
                            !.row = [truck |-> k, secret |-> s, status |-> "ACTIVE", flags |-> 0]])
  /\ UNCHANGED <<tables, history, limiter, failures>>

MutBeginRotate(r, d, s) ==
  /\ Call(r)
  /\ Become(r, [Idle EXCEPT !.pc = "rotate", !.device = d,
                            !.row = [devices[d] EXCEPT !.secret = s, !.flags = 0]])
  /\ UNCHANGED <<tables, history, limiter, failures>>
BeginRotate(r, d, s) ==
  /\ Call(r)
  /\ devices[d] # NoDevice
  /\ Become(r, [Idle EXCEPT !.pc = "rotate", !.device = d,
                            !.row = [devices[d] EXCEPT !.secret = s, !.flags = 0]])
  /\ UNCHANGED <<tables, history, limiter, failures>>

\* upsert: the whole row, on top of whatever was committed since it was read.
Upsert(r) ==
  /\ req[r].pc \in {"register", "rotate"}
  /\ devices' = [devices EXCEPT ![req[r].device] = req[r].row]
  /\ writes' = [writes EXCEPT ![req[r].device] = @ + (IF req[r].pc = "register" THEN 1 ELSE 0)]
  /\ Become(r, Idle)
  /\ UNCHANGED <<binding, pings, limiter, ended, calls, failures>>

--------------------------------------------------------------------------------
\* --- startTrip, endTrip -----------------------------------------------------
\* byTruck answers any of the devices registered for the truck.
BeginStart(r, k, j) ==
  /\ Call(r)
  /\ \E d \in DevicesOf(k) :
       /\ devices[d].status = "ACTIVE"
       /\ Become(r, [Idle EXCEPT !.pc = "start", !.device = d, !.trip = j])
  /\ UNCHANGED <<tables, history, limiter, failures>>

BindTrip(r) ==
  /\ req[r].pc = "start"
  /\ binding' = [binding EXCEPT ![req[r].device] = req[r].trip]
  /\ LET started == <<req[r].device, req[r].trip>> IN
       /\ ended' = ended \ {started}
       /\ req' = [q \in Request |-> IF q = r THEN Idle ELSE [req[q] EXCEPT !.before = @ \ {started}]]
  /\ UNCHANGED <<devices, pings, limiter, writes, calls, failures>>

\* The trips an endTrip is called for: those the truck's devices are bound to.
BeginEnd(r, k) ==
  /\ Call(r)
  /\ \E d \in DevicesOf(k) :
       Become(r, [Idle EXCEPT !.pc = "end", !.device = d, !.fleet = DevicesOf(k)])
  /\ UNCHANGED <<tables, history, limiter, failures>>

MutUnbound(d) == binding
Unbound(d) == [binding EXCEPT ![d] = None]

UnbindTrip(r) ==
  /\ req[r].pc = "end"
  /\ binding' = Unbound(req[r].device)
  /\ ended' = ended \cup {<<d, binding[d]>> : d \in {e \in req[r].fleet : binding[e] # None}}
  /\ Become(r, Idle)
  /\ UNCHANGED <<devices, pings, limiter, writes, calls, failures>>

--------------------------------------------------------------------------------
\* --- IngestGateway.ingest and ingestBatch ------------------------------------
\* RedisRateLimiter.allow: INCR, then EXPIRE if the key is new.
MutNewKey(count) == count > PerWindow
NewKey(count) == count = 1
Allowed(q, count) == IF count <= PerWindow THEN [q EXCEPT !.pc = "device"] ELSE Idle

Increment(r, d, s, bulk) ==
  LET count == limiter[d].count + 1
      q == [Idle EXCEPT !.device = d, !.secret = s, !.bulk = bulk, !.before = ended]
  IN /\ Call(r)
     /\ limiter' = [limiter EXCEPT ![d].count = count]
     /\ Become(r, IF NewKey(count) THEN [q EXCEPT !.pc = "expire"] ELSE Allowed(q, count))
     /\ UNCHANGED <<tables, history, failures>>

SetExpiry(r) ==
  /\ req[r].pc = "expire"
  /\ limiter' = [limiter EXCEPT ![req[r].device].ttl = limiter[req[r].device] # NoKey]
  /\ Become(r, [req[r] EXCEPT !.pc = "device"])
  /\ UNCHANGED <<tables, history, calls, failures>>

\* Redis drops a key whose time is over.
KeyExpires(d) ==
  /\ limiter[d].ttl
  /\ limiter' = [limiter EXCEPT ![d] = NoKey]
  /\ UNCHANGED <<tables, history, req, calls, failures>>

\* The bulk path has no company to write for: its first write, of a ping, a
\* flag or a metric, aborts the transaction of the whole batch.
BulkAborts(r) ==
  /\ req[r].pc = "device" /\ req[r].bulk
  /\ Become(r, Idle)
  /\ UNCHANGED <<tables, history, limiter, calls, failures>>

\* verifyMac: the ping was signed with the secret the row has now.
Genuine(q) == q.secret = devices[q.device].secret

\* The device is read, and the ping's MAC compared.
ReadDevice(r) ==
  LET d == req[r].device IN
  /\ req[r].pc = "device" /\ ~req[r].bulk
  /\ Become(r, IF devices[d].status # "ACTIVE" THEN Idle
                ELSE IF ~Genuine(req[r]) THEN [req[r] EXCEPT !.pc = "flag"]
                ELSE [req[r] EXCEPT !.pc = "binding"])
  /\ UNCHANGED <<tables, history, limiter, calls, failures>>

\* flagTamper: the increment locks the row until the commit.
MutStatusAfter(d, flags) == IF flags >= TamperLimit THEN "SUSPENDED" ELSE "ACTIVE"
StatusAfter(d, flags) == IF flags >= TamperLimit THEN "SUSPENDED" ELSE devices[d].status

FlagTamper(r) ==
  LET d == req[r].device
      flags == devices[d].flags + 1
  IN /\ req[r].pc = "flag"
     /\ devices' = [devices EXCEPT ![d].flags = flags,
                                   ![d].status = StatusAfter(d, flags)]
     /\ Become(r, Idle)
     /\ UNCHANGED <<binding, pings, limiter, history, calls, failures>>

\* A position or a time that is out of range.
Implausible(r) ==
  /\ req[r].pc = "binding"
  /\ Become(r, Idle)
  /\ UNCHANGED <<tables, history, limiter, calls, failures>>

ReadBinding(r) ==
  LET d == req[r].device IN
  /\ req[r].pc = "binding"
  /\ Become(r, IF binding[d] = None THEN Idle
                ELSE [req[r] EXCEPT !.pc = "push", !.trip = binding[d], !.row = devices[d]])
  /\ UNCHANGED <<tables, history, limiter, calls, failures>>

\* The truck and the trip of a ping are those of its device's binding, whenever
\* the ping was taken.
PushPing(r) ==
  /\ req[r].pc = "push"
  /\ pings' = pings \cup {[device |-> req[r].device, truck |-> req[r].row.truck, trip |-> req[r].trip]}
  /\ Become(r, Idle)
  /\ UNCHANGED <<devices, binding, limiter, history, calls, failures>>

\* The process dies, or the transaction is rolled back.
Fail(r) ==
  /\ req[r].pc # "idle"
  /\ failures < MaxFailures
  /\ failures' = failures + 1
  /\ Become(r, Idle)
  /\ UNCHANGED <<tables, history, limiter, calls>>

--------------------------------------------------------------------------------
Begin(r) ==
  \/ \E d \in Device, k \in Truck, s \in Secret : BeginRegister(r, d, k, s)
  \/ \E d \in Device, s \in Secret : BeginRotate(r, d, s)
  \/ \E k \in Truck, j \in Trip : BeginStart(r, k, j)
  \/ \E k \in Truck : BeginEnd(r, k)
  \/ \E d \in Device, s \in Secret, bulk \in BOOLEAN : Increment(r, d, s, bulk)

Proceed(r) ==
  \/ Upsert(r) \/ BindTrip(r) \/ UnbindTrip(r)
  \/ SetExpiry(r) \/ BulkAborts(r) \/ ReadDevice(r) \/ FlagTamper(r)
  \/ Implausible(r) \/ ReadBinding(r) \/ PushPing(r)

DeviceNext ==
  \/ \E r \in Request : Begin(r) \/ Proceed(r) \/ Fail(r)
  \/ \E d \in Device : KeyExpires(d)

DeviceSpec == DeviceInit /\ [][DeviceNext]_deviceVars

\* A call that began runs on, and Redis drops keys in time.
FairDeviceSpec ==
  /\ DeviceSpec
  /\ \A r \in Request : WF_deviceVars(Proceed(r))
  /\ \A d \in Device : WF_deviceVars(KeyExpires(d))

--------------------------------------------------------------------------------
Row == [truck: Truck, secret: Secret, status: {"ACTIVE", "SUSPENDED"},
        flags: Nat] \cup {NoDevice}

DeviceTypeOK ==
  /\ devices \in [Device -> Row]
  /\ binding \in [Device -> Trip \cup {None}]
  /\ pings \subseteq [device: Device, truck: Truck, trip: Trip]
  /\ limiter \in [Device -> [count: Nat, ttl: BOOLEAN]]
  /\ req \in [Request -> [pc: {"idle", "register", "rotate", "start", "end", "expire", "device",
                              "flag", "binding", "push"},
                         device: Device \cup {None}, secret: Secret \cup {None},
                         trip: Trip \cup {None}, row: Row, bulk: BOOLEAN,
                         fleet: SUBSET Device, before: SUBSET (Device \X Trip)]]
  /\ calls \in 0 .. MaxCalls /\ failures \in 0 .. MaxFailures

\* A device suspended for forged pings stays suspended: rotating its secret keeps
\* the status, and only a registration or rotation that had read the device before
\* the suspension writes it back to ACTIVE (device-registry.ts:145).
StaleWrite(d) ==
  \E r \in Request : /\ req[r].pc \in {"register", "rotate"} /\ req[r].device = d
                     /\ req[r].row.status = "ACTIVE"
SuspensionHolds ==
  [][\A d \in Device :
       devices[d].status = "SUSPENDED" /\ ~StaleWrite(d) => devices'[d].status = "SUSPENDED"]_deviceVars

\* A ping sent after the end of its device's trip is not filed under that trip, as
\* long as no device was registered twice and the device is the only one of its truck:
\* endTrip picks one device of the truck, whichever the trip was bound to.
RegisteredOnce == \A d \in Device : writes[d] <= 1
OnlyOne(d) == RegisteredOnce /\ DevicesOf(devices[d].truck) = {d}
EndedTripIsSilent ==
  [][\A r \in Request :
       PushPing(r) /\ OnlyOne(req[r].device) => <<req[r].device, req[r].trip>> \notin req[r].before]_deviceVars

\* "Fixed window, per device" (rate-limiter.redis.ts:11): a window that was opened
\* is over some time, unless the process died before it set the expiry.
LimiterRecovers ==
  \A d \in Device : limiter[d].count > 0 ~> (limiter[d].count = 0 \/ failures > 0)
=================================================================================
