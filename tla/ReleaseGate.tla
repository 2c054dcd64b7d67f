------------------------------- MODULE ReleaseGate -------------------------------
(***************************************************************************)
(* The money seam of one manifest: unloading scans, the reconciliation     *)
(* against the manifest (custody/reconcile/counter.ts), the receiver's     *)
(* signed count (release-gate.ts), the read model of the chain             *)
(* (custody/manifest/handoff.ts) and the two ways money leaves: the INR    *)
(* payout (platform/api/payments) and the token escrow.                    *)
(*                                                                         *)
(* A request runs in one database transaction but awaits the chain several *)
(* times inside it, so it is a process of several steps; what it writes to *)
(* the database becomes visible at its commit and is lost if it fails,     *)
(* while what it did on the chain stays.  Committed rows are re-read at    *)
(* every query (read committed).                                           *)
(*                                                                         *)
(* The OTP and key check that precedes confirmDelivery is in SignerOtp.tla,*)
(* the signer's buffered audit too.                                        *)
(* Duplicate scans of a piece do not change the counts and are left out,   *)
(* and so are the alerts about transitions, foreign pieces and diverging   *)
(* views: the sink that is wired in (PgAlertSink) stores fork verdicts     *)
(* only, so they change nothing.                                           *)
(*                                                                         *)
(* A release webhook names a manifest and a booking, and nothing in the    *)
(* handler ties one to the other: it asks the chain about the manifest and *)
(* pays the booking.  Here it names this load's booking, with its own      *)
(* manifest or with that of another load, whose chain record may say       *)
(* anything; requestPayout reads the booking off the manifest's row, so    *)
(* its webhooks name a pair that belongs together.                         *)
(***************************************************************************)
EXTENDS Integers, FiniteSets

CONSTANTS
  Expected,   \* pieces on the manifest
  Foreign,    \* other pieces that may be scanned against it
  Request,    \* requests in flight at the same time
  MaxFailures \* bound: requests that die half way

ASSUME GateAssumption ==
  /\ IsFiniteSet(Expected) /\ Expected # {}
  /\ Expected \cap Foreign = {}
  /\ MaxFailures \in Nat

VARIABLES
  chain,    \* the manifest on the chain: status and delivered count
  scans,    \* scan_events of the manifest in context UNLOADING
  mirror,   \* custody_states: the read model's status
  alerts,   \* shortage alerts raised so far (history)
  payment,  \* the payments row of the booking
  paidOn,   \* the load the chain was asked about before the payout (history)
  escrow,   \* the token deposit: "Funded" or "Released"
  req,      \* requests in flight
  failures

moneyOut == <<payment, paidOn, escrow>>
gateVars == <<chain, scans, mirror, alerts, payment, paidOn, escrow, req, failures>>

PieceCount == Cardinality(Expected)
Status == {"None", "Created", "InCustody", "Delivered", "Short", "Disputed"}
Kinds == {"SHORT_DRIVER", "SHORT_UNDETERMINED"}

\* A request: where it is, whether a payout is to follow, whether the manifest
\* its webhook names is this load's own, the scans it last reconciled and the
\* chain status it last read, which its open transaction has upserted into the
\* read model.
Idle == [pc |-> "idle", payout |-> FALSE, own |-> TRUE, seen |-> {}, synced |-> "None"]

\* reconcile(): the counts of a set of scans.
MutScanned(seen) == Cardinality(seen)
Scanned(seen) == Cardinality(seen \cap Expected)
Missing(seen) == Expected \ seen
Extra(seen)   == seen \ Expected
Complete(seen) == Missing(seen) = {} /\ Extra(seen) = {}

\* CustodyManifest.isReleasable
MutIsReleasable == chain.count = PieceCount
IsReleasable == chain.status = "Delivered" /\ chain.count = PieceCount

GateInit ==
  /\ chain = [status |-> "Created", count |-> 0]
  /\ scans = {}
  /\ mirror = "None"
  /\ alerts = {}
  /\ payment = [status |-> "None", payout |-> "HELD"]
  /\ paidOn = "nothing"
  /\ escrow = "Funded"
  /\ req = [r \in Request |-> Idle]
  /\ failures = 0

--------------------------------------------------------------------------------
\* --- surroundings -----------------------------------------------------------

\* Both loading signatures have reached the chain.
StartCustody ==
  /\ chain.status = "Created"
  /\ chain' = [chain EXCEPT !.status = "InCustody"]
  /\ UNCHANGED <<scans, mirror, alerts, moneyOut, req, failures>>

MarkDisputed ==
  /\ chain' = [chain EXCEPT !.status = "Disputed"]
  /\ UNCHANGED <<scans, mirror, alerts, moneyOut, req, failures>>

\* recordScan, recordScanBatch on the unloading route: append only, and open
\* whatever the custody status is (assertScannable has no caller).
RecordScan(p) ==
  /\ scans' = scans \cup {p}
  /\ UNCHANGED <<chain, mirror, alerts, moneyOut, req, failures>>

\* Escrow.release
EscrowRelease ==
  /\ escrow = "Funded"
  /\ IsReleasable
  /\ escrow' = "Released"
  /\ UNCHANGED <<chain, scans, mirror, alerts, payment, paidOn, req, failures>>

CreateCollection ==
  /\ payment.status = "None"
  /\ payment' = [payment EXCEPT !.status = "PENDING"]
  /\ UNCHANGED <<chain, scans, mirror, alerts, paidOn, escrow, req, failures>>

\* handleGatewayWebhook; any repetition of the event finds no PENDING row.
GatewayWebhook(outcome) ==
  /\ payment.status = "PENDING"
  /\ payment' = [payment EXCEPT !.status = outcome]
  /\ UNCHANGED <<chain, scans, mirror, alerts, paidOn, escrow, req, failures>>

\* --- requests ---------------------------------------------------------------
Become(r, f) == req' = [req EXCEPT ![r] = f]

\* confirmAndSign: the first reconciliation.
StartConfirm(r) ==
  /\ req[r].pc = "idle"
  /\ Become(r, [Idle EXCEPT !.pc = "submit", !.seen = scans])
  /\ UNCHANGED <<chain, scans, mirror, alerts, moneyOut, failures>>

MutSignedCount(seen) == PieceCount
SignedCount(seen) == Scanned(seen)

\* The receiver's signature over the count goes to confirmDelivery on the chain.
SubmitCount(r) ==
  /\ req[r].pc = "submit"
  /\ chain.status = "InCustody"
  /\ LET n == SignedCount(req[r].seen)
     IN chain' = [status |-> IF n = PieceCount THEN "Delivered" ELSE "Short", count |-> n]
  /\ Become(r, [req[r] EXCEPT !.pc = "alert"])
  /\ UNCHANGED <<scans, mirror, alerts, moneyOut, failures>>

\* The chain reverts (WrongStatus): the request fails, its transaction rolls back.
SubmitReverts(r) ==
  /\ req[r].pc = "submit"
  /\ chain.status # "InCustody"
  /\ Become(r, Idle)
  /\ UNCHANGED <<chain, scans, mirror, alerts, moneyOut, failures>>

\* attributeLoss: liability is pinned on the driver if the chain says Short,
\* where all three signatures are present (CustodyManifest!ClosedByReceiver).
MutAttribution == IF mirror = "Short" THEN "SHORT_DRIVER" ELSE "SHORT_UNDETERMINED"
Attribution == IF chain.status = "Short" THEN "SHORT_DRIVER" ELSE "SHORT_UNDETERMINED"

\* A shortage syncs the read model, is attributed and raised; what the sync
\* writes, evaluate's own sync overwrites before the commit.
RaiseAlerts(r) ==
  /\ req[r].pc = "alert"
  /\ Become(r, [Idle EXCEPT !.pc = "reconcile"])
  /\ alerts' = IF Missing(req[r].seen) # {} THEN alerts \cup {Attribution} ELSE alerts
  /\ UNCHANGED <<chain, scans, mirror, moneyOut, failures>>

\* evaluate(), polled or on behalf of requestPayout.
StartEvaluate(r, payout) ==
  /\ req[r].pc = "idle"
  /\ Become(r, [Idle EXCEPT !.pc = "reconcile", !.payout = payout])
  /\ UNCHANGED <<chain, scans, mirror, alerts, moneyOut, failures>>

EvaluateReconcile(r) ==
  /\ req[r].pc = "reconcile"
  /\ Become(r, [req[r] EXCEPT !.pc = "sync", !.seen = scans])
  /\ UNCHANGED <<chain, scans, mirror, alerts, moneyOut, failures>>

\* sync: the row is upserted with the status read from the chain.
MutReadBack == IF mirror = "None" THEN chain.status ELSE mirror
ReadBack == chain.status

EvaluateSync(r) ==
  /\ req[r].pc = "sync"
  /\ Become(r, [req[r] EXCEPT !.pc = "decide", !.synced = ReadBack])
  /\ UNCHANGED <<chain, scans, mirror, alerts, moneyOut, failures>>

OffChainSaysOk(q) == Complete(q.seen) /\ q.synced = "Delivered"

\* isReleasable is read, the decision is taken and the transaction commits.
EvaluateDecide(r) ==
  /\ req[r].pc = "decide"
  /\ LET q == req[r]
         releasable == OffChainSaysOk(q) /\ IsReleasable
     IN /\ mirror' = q.synced
        /\ Become(r, IF q.payout /\ releasable THEN [q EXCEPT !.pc = "webhook", !.synced = "None"] ELSE Idle)
  /\ UNCHANGED <<chain, scans, alerts, moneyOut, failures>>

\* handleReleaseGate: the platform asks the chain itself.  Its guard does not
\* depend on the decision, so a call that no decision preceded is let in too,
\* for this load's manifest or for another's (the handler is there to withstand
\* one: "even a compromised Domain 3 service cannot force a payout the chain
\* disagrees with").
StartWebhook(r, own) ==
  /\ req[r].pc = "idle"
  /\ Become(r, [Idle EXCEPT !.pc = "webhook", !.own = own])
  /\ UNCHANGED <<chain, scans, mirror, alerts, moneyOut, failures>>

\* isReleasable(body.manifestId): what the chain says of another load is
\* whatever that load has come to.
MutWebhookAnswers(own) == BOOLEAN
WebhookAnswers(own) == IF own THEN {IsReleasable} ELSE BOOLEAN

WebhookAsksChain(r) ==
  /\ req[r].pc = "webhook"
  /\ \E releasable \in WebhookAnswers(req[r].own) :
       Become(r, IF releasable THEN [Idle EXCEPT !.pc = "payout", !.own = req[r].own] ELSE Idle)
  /\ UNCHANGED <<chain, scans, mirror, alerts, moneyOut, failures>>

\* UPDATE payments ... WHERE booking_id=$1 AND status='PAID' AND
\* payout_status='HELD', committed by itself; zero rows is not an error.  The
\* audit row that follows is appended to a log nothing reads.
PayOut(r) ==
  /\ req[r].pc = "payout"
  /\ IF payment = [status |-> "PAID", payout |-> "HELD"]
     THEN /\ payment' = [payment EXCEPT !.payout = "RELEASED"]
          /\ paidOn' = IF req[r].own THEN "own" ELSE "another"
     ELSE UNCHANGED <<payment, paidOn>>
  /\ Become(r, Idle)
  /\ UNCHANGED <<chain, scans, mirror, alerts, escrow, failures>>

\* The process dies, a query fails or an answer is lost: the open transaction
\* rolls back.
Fail(r) ==
  /\ req[r].pc # "idle"
  /\ failures < MaxFailures
  /\ failures' = failures + 1
  /\ Become(r, Idle)
  /\ UNCHANGED <<chain, scans, mirror, alerts, moneyOut>>

Advance(r) ==
  \/ SubmitCount(r) \/ SubmitReverts(r) \/ RaiseAlerts(r)
  \/ EvaluateReconcile(r) \/ EvaluateSync(r) \/ EvaluateDecide(r)
  \/ WebhookAsksChain(r) \/ PayOut(r)

Surroundings ==
  \/ StartCustody \/ MarkDisputed \/ EscrowRelease \/ CreateCollection
  \/ \E p \in Expected \cup Foreign : RecordScan(p)
  \/ \E outcome \in {"PAID", "FAILED"} : GatewayWebhook(outcome)

GateNext ==
  \/ Surroundings
  \/ \E r \in Request :
       \/ StartConfirm(r) \/ Fail(r) \/ Advance(r)
       \/ \E own \in BOOLEAN : StartWebhook(r, own)
       \/ \E payout \in BOOLEAN : StartEvaluate(r, payout)

GateSpec == GateInit /\ [][GateNext]_gateVars

\* A request that has begun runs on (a Node handler awaits, it is not
\* suspended), and a dashboard keeps polling evaluateRelease.  The polling is
\* strongly fair because Request bounds the model, not the server: other
\* requests cannot keep it out.
FairGateSpec ==
  /\ GateSpec
  /\ \A r \in Request : WF_gateVars(Advance(r))
  /\ SF_gateVars(\E r \in Request : StartEvaluate(r, FALSE))

--------------------------------------------------------------------------------
RequestState ==
  [ pc: {"idle", "submit", "alert", "reconcile", "sync", "decide",
         "webhook", "payout"},
    payout: BOOLEAN, own: BOOLEAN, seen: SUBSET (Expected \cup Foreign),
    synced: Status ]

GateTypeOK ==
  /\ chain \in [status: Status, count: 0 .. PieceCount]
  /\ scans \subseteq Expected \cup Foreign
  /\ mirror \in Status
  /\ alerts \subseteq Kinds
  /\ payment \in [status: {"None", "PENDING", "PAID", "FAILED"}, payout: {"HELD", "RELEASED"}]
  /\ paidOn \in {"nothing", "own", "another"}
  /\ escrow \in {"Funded", "Released"}
  /\ req \in [Request -> RequestState]
  /\ failures \in 0 .. MaxFailures

\* The count on the chain is never larger than the number of manifest pieces
\* really scanned, whatever scans arrive while a confirmation is under way and
\* however many confirmations run at once ("we submit the TRUE scanned count,
\* never the expected one").
CountIsTrue == chain.count <= Cardinality(scans \cap Expected)

\* Money that left by the escrow, or by a payout for which the chain was asked
\* about this load, left for a manifest every piece of which was scanned and
\* whose full count the receiver signed; nothing that happens later (a dispute,
\* a failed request, a repeated webhook) makes that untrue.  The one other way
\* a payout is released is a webhook that names another load's manifest beside
\* this booking (handleReleaseGate does not compare them).
MoneyNeedsFullScan ==
  escrow = "Released" \/ (payment.payout = "RELEASED" /\ paidOn # "another") =>
    /\ Expected \subseteq scans
    /\ chain.count = PieceCount
    /\ chain.status \in {"Delivered", "Disputed"}

\* A shortage alert that pins nobody has one cause: the manifest was disputed
\* between the receiver's signature and the alert (confirmAndSign, attributeLoss).
ShortageIsPinned == "SHORT_UNDETERMINED" \in alerts => chain.status = "Disputed"

\* The read model catches up with the chain and stays with it, though requests
\* that read the chain earlier may commit later and overwrite it with an older
\* status ("when they disagree, the chain wins").
MirrorCatchesUp == <>[](mirror = chain.status)

--------------------------------------------------------------------------------
\* All of this together keeps what LoadPromise says of the money of a load: whatever
\* requests are under way, each way out is taken once, and none on an answer of the
\* chain about this load that was given after a dispute had begun; a payout on an
\* answer about another load is the one breach, and LoadPromise names it.
\* (Escrow.release, handleReleaseGate)
WaysOut == {w \in {"payout", "stray", "escrow"} :
              \/ w = "payout" /\ paidOn = "own"
              \/ w = "stray" /\ paidOn = "another"
              \/ w = "escrow" /\ escrow = "Released"}
Load == INSTANCE LoadPromise WITH
  scanned   <- scans \cap Expected,
  stage     <- chain.status,
  signed    <- chain.count,
  cleared   <- \E r \in Request : req[r].pc = "payout" /\ req[r].own,
  collected <- payment.status = "PAID",
  out       <- WaysOut
ImplementsLoadPromise == Load!LoadSpec
================================================================================
