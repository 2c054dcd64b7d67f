------------------------------ MODULE ConnectionPool ------------------------------
(***************************************************************************)
(* Requests and the shared pool of database clients                        *)
(* (platform/api/common/database.service.ts, audit.service.ts).            *)
(*                                                                         *)
(* Every transaction is opened on a client of its own: withActor and       *)
(* asSystem connect, run the callback, commit or roll back, and release.   *)
(* The pool has no connect timeout, and hands clients out in the order in  *)
(* which they were asked for.  AuditService.record opens a system          *)
(* transaction; most operations call it from inside their own.             *)
(***************************************************************************)
EXTENDS Integers, Sequences, FiniteSets, Functions

CONSTANTS
  Caller,   \* requests in flight at the same time
  PoolSize   \* max

ASSUME PoolAssumption ==
  /\ IsFiniteSet(Caller)
  /\ PoolSize \in Nat \ {0}

VARIABLES
  call,     \* what each request is doing
  held,     \* clients each request holds
  waiting   \* the pool's queue of pending connects

poolVars == <<call, held, waiting>>

AtRest == [pc |-> "idle", todo |-> <<>>]

\* The transactions of an operation, one after the other: an "auditing" one
\* records an audit row before it ends.  recordScan stands for all the
\* operations that do: createManifest, recordScanBatch, assignTruck, cancel,
\* bookings create, createCollection, startTrip (several audit rows, one at a
\* time), the GPS device operations, and so on.
Operation == {"reconcile", "requestDeliveryOtp", "confirmDelivery", "recordScan"}
Transactions(op) ==
  CASE op = "reconcile" -> <<"plain">>
    [] op = "requestDeliveryOtp" -> <<"plain", "plain">>
    [] op = "confirmDelivery" -> <<"plain", "plain", "plain", "plain">>
    [] op = "recordScan" -> <<"auditing">>

InUse == FoldFunction(+, 0, held)

PoolInit ==
  /\ call = [r \in Caller |-> AtRest]
  /\ held = [r \in Caller |-> 0]
  /\ waiting = <<>>

Turn(r, q) == call' = [call EXCEPT ![r] = q]

\* pool.connect(): pending requests are served in order.
Enqueue(r) == Append(waiting, r)

Issue(r, op) ==
  /\ call[r].pc = "idle"
  /\ Turn(r, [pc |-> "connect", todo |-> Transactions(op)])
  /\ waiting' = Enqueue(r)
  /\ UNCHANGED held

HasFree == InUse < PoolSize

\* The pool gives a client to the first in the queue.
Connect ==
  /\ waiting # <<>> /\ HasFree
  /\ LET r == Head(waiting)
     IN /\ Turn(r, [call[r] EXCEPT !.pc = IF @ = "connect" THEN "open" ELSE "audit"])
        /\ held' = [held EXCEPT ![r] = @ + 1]
  /\ waiting' = Tail(waiting)

\* audit.record from inside the open transaction.
RecordAudit(r) ==
  /\ call[r].pc = "open" /\ Head(call[r].todo) = "auditing"
  /\ Turn(r, [call[r] EXCEPT !.pc = "auditConnect"])
  /\ waiting' = Enqueue(r)
  /\ UNCHANGED held

EndAudit(r) ==
  /\ call[r].pc = "audit"
  /\ Turn(r, [call[r] EXCEPT !.pc = "audited"])
  /\ held' = [held EXCEPT ![r] = @ - 1]
  /\ UNCHANGED waiting

\* COMMIT and release; the next transaction connects.
Commit(r) ==
  /\ \/ call[r].pc = "open" /\ Head(call[r].todo) = "plain"
     \/ call[r].pc = "audited"
  /\ held' = [held EXCEPT ![r] = @ - 1]
  /\ LET rest == Tail(call[r].todo)
     IN IF rest = <<>>
        THEN Turn(r, AtRest) /\ UNCHANGED waiting
        ELSE Turn(r, [pc |-> "connect", todo |-> rest]) /\ waiting' = Enqueue(r)

\* A query throws: ROLLBACK, and the finally blocks release every client.
MutReleased(n) == n
Released(n) == 0

Throw(r) ==
  /\ call[r].pc \in {"open", "audit", "audited"}
  /\ held' = [held EXCEPT ![r] = Released(@)]
  /\ Turn(r, AtRest)
  /\ UNCHANGED waiting

Proceed(r) == RecordAudit(r) \/ EndAudit(r) \/ Commit(r)

PoolNext ==
  \/ Connect
  \/ \E r \in Caller :
       \/ \E op \in Operation : Issue(r, op)
       \/ Proceed(r) \/ Throw(r)

PoolSpec == PoolInit /\ [][PoolNext]_poolVars

\* The database answers, and the pool serves its queue when it can.
FairPoolSpec ==
  /\ PoolSpec
  /\ WF_poolVars(Connect)
  /\ \A r \in Caller : WF_poolVars(Proceed(r))

--------------------------------------------------------------------------------
Need == {"plain", "auditing"}
Phase == {"idle", "connect", "open", "auditConnect", "audit", "audited"}

PoolTypeOK ==
  /\ call \in [Caller -> [pc: Phase, todo: Seq(Need)]]
  /\ held \in [Caller -> Nat]
  /\ waiting \in Seq(Caller)

\* Clients are bounded by the pool and do not leak: whatever a request was doing when
\* it ended or threw, it keeps none, and one that queues for its first client holds
\* none; only an audit inside a transaction holds a second.
\* (database.service.ts: withActor, asSystem, their finally blocks)
ClientsHeld(pc) ==
  CASE pc \in {"idle", "connect"} -> 0
    [] pc = "audit" -> 2
    [] OTHER -> 1

NoClientLeaks ==
  /\ InUse <= PoolSize
  /\ \A r \in Caller : held[r] = ClientsHeld(call[r].pc)

\* The one standstill: every client belongs to a transaction that waits for a second
\* one to write its audit row (audit.service.ts:16).  It is for ever.
AuditsHoldPool == Cardinality({r \in Caller : call[r].pc = "auditConnect"}) = PoolSize

\* The pool stands still, with requests in flight: none of them runs and there is no
\* client for the first in the queue.  That is so when the audits hold the pool, and
\* never otherwise: no transaction of another kind is ever part of a circle
\* (custody.service.ts:29, "at most ONE PoolClient at a time").
Running(r) == call[r].pc \in {"open", "audit", "audited"}
StandsStill ==
  /\ \E r \in Caller : call[r].pc # "idle"
  /\ \A r \in Caller : ~Running(r)
  /\ ~(waiting # <<>> /\ HasFree)

StillOnlyByAudits == StandsStill <=> AuditsHoldPool

\* Every request is answered, whatever throws and wherever, with more requests than
\* clients and any of them auditing, unless audits come to hold the whole pool: no
\* client is lost on an error path, and no request is overtaken for ever
\* (database.service.ts: withActor, asSystem; audit.service.ts: record).
Served ==
  \A r \in Caller : call[r].pc # "idle" ~> (call[r].pc = "idle" \/ AuditsHoldPool)
================================================================================
