# TLA+ models of the custody platform

The repository runs the logistics of a load: a booking gets a truck, the
goods are signed for on a chain when they are loaded and when they are received,
the truck's GPS is archived and anchored, and money is released only when the
chain says the whole load arrived. This directory models the parts of it where
several actors, two stores (Postgres and the chain) and failures meet. Paths are
relative to `src/`.

## 1. The system

| part | state | operations | meets |
| --- | --- | --- | --- |
| **Custody contract** `chain/contracts/CustodyManifest.sol` | one record per manifest: counts, parties, flags, times, status; owner, relayers | createManifest, submitLoaderSignature, submitDriverSignature, confirmDelivery, markDisputed, administration | read by the escrow, the release gate and the payout webhook |
| **Escrow contract** `chain/contracts/Escrow.sol` | deposits, native balance, owner, arbiter | fund, release, resolveDispute, administration | reads the custody contract; calls the payee while it runs |
| **Release gate** `custody/reconcile`, `custody/manifest/handoff.ts`, `platform/api/payments` | `scan_events`, `custody_states` (a copy of the chain's status), `payments` | recordScan, confirmAndSign, evaluate, requestPayout, collection and its webhook, release webhook | the chain is read or written in the middle of database transactions |
| **Orchestration** `platform/api/orchestration`, `bookings`, `custody/manifest/builder.ts` | `bookings`, `trucks`, GPS bindings, `manifests` | startTrip, confirmDelivery, assignTruck, cancel, createManifest | rows of three domains and a manifest on the chain, one transaction or several |
| **Signer and codes** `chain/keys`, `platform/api/custody/custody.service.ts` | `participant_keys`, `otp_challenges`, `signer_audit`, the audit buffer | requestDeliveryOtp, confirmDelivery (two phases) | the signature goes to the release gate |
| **Database access** `platform/api/common` | the pool's clients and its queue | withActor, asSystem, AuditService.record | every service |
| **GPS anchor pipeline** `gps/batching`, `gps/workers`, `gps/db/batch.store.pg.ts`, `chain/contracts/TripLogAnchor.sol` | signed pings, `gps_batches`, the job queue, anchored batches | sweep, anchor job, anchorBatch, markAnchored | the timeline reads how many batches are anchored |
| **Trip proofs** `gps/query/proof-api.ts`, `gps/batching/merkle-batcher.ts` | none: the tree of a batch is rebuilt from the archive | proveMoment, verifyPing | the anchored root on the chain |
| **GPS ingest** `gps/ingest`, `gps/signing`, `gps/db` | devices and secrets, tamper flags, trip bindings, rate limits in Redis, raw pings | register, rotateSecret, startTrip, endTrip, ingest one or a batch | bound and unbound by the orchestration |
| **Identity** `identity/auth`, `identity/rbac`, `identity/companies` | users, sessions, access tokens, invitations, join requests | login, refresh, logout, logoutEverywhere, changeRole, invite, accept, join, approve | guards of every route |
| **Subscriptions** `identity/subscriptions`, `identity/companies/registration.ts` | plan, overrides, trials, the entitlement cache, the subscription row, the company | modulesFor, grant, revoke, expireTrials, subscribe, changePlan, webhooks, runDunning, approve | the modules an access token carries |
| **Life of a piece** `custody/doublescan`, `custody/scanner/pwa`, `custody/db/lifecycle.store.pg.ts` | the page's queue and IndexedDB, the append-only scan log | scan, flush, reload, verify, sweep | reads the custody status of manifests |
| **Co-sign links, labels** `custody/manifest/cosign-links.ts`, `custody/qr` | used nonces | sign by link, lay out a label | not wired into the platform |
| **Services with one statement each** claims, documents, insurance, KYC, pricing, support | one table each | create, list, decide | - |

What makes each part right, and what is hard about it:

* **Custody contract.** Signatures travel through relayers, so they come late,
  twice, or for another manifest. Custody may open only on the loader's and the
  driver's own; a closed count is the receiver's own and final.
* **Escrow.** The payee's code runs inside the transfer. Whatever it calls, a
  deposit is paid once and from its own money.
* **Release gate.** A request reconciles, signs and decides at different
  moments, while scans arrive, other requests run, and the chain moves. Money
  needs every piece scanned and signed; the read model must follow the chain.
* **Orchestration.** startTrip holds row locks across a chain call that a
  rollback does not undo; confirmDelivery is a chain write and two transactions
  that a crash can separate. Assignment, binding and manifest appear together;
  DELIVERED means signed.
* **Signer and codes.** Two requests for one phone interleave between the
  statements of their transactions. A code works once, one is live, a key is
  minted once, a signature is audited.
* **Database access.** A request that holds a client and waits for another can
  block all of them.
* **Anchor pipeline.** Rows, jobs and the chain are written separately, jobs are
  retried, pings come late. Windows stay ordered, and what the database says is
  anchored is on the chain. A proof may fail for a ping that came late, and must
  never succeed for one that was not anchored.
* **GPS ingest.** A call is a transaction that reads the device, then its
  binding, then writes; rows are written back whole. A suspension must survive
  the calls that overlap it, a trip that ended must get no more pings, and the
  limiter's two Redis calls must not lock a device out for good.
* **Identity.** No service uses a transaction. A role change is a write, a
  version bump and a revocation, with refreshes and crashes in between; two
  demotions each count the other's admin; one phone may be invited by two
  companies, or a link used twice.
* **Subscriptions.** Nothing is a transaction here either, the whole subscription
  row is written back by whoever read it, and the entitlements are cached. What
  is served must be what is billed, and the cache must be wrong only where an
  invalidation was really missed.
* **Life of a piece.** The scanner page works offline and is reloaded at will; a
  batch may arrive although its answer is lost. A verification reads the log,
  the chain and the log again while both move. A scan counted is a scan kept;
  "genuine" is never said of a label that has two lives.

The hazards are listed line by line in `PROJECT.json`.

## 2. The modules

A module has one action per operation, or one per step of an operation that
awaits something. `req[r]` is then the local state of request `r`: where it is
and what it has read. What a transaction writes appears in the step that commits
it, and a lock is read off the requests that hold it.

| module | models | state and actions |
| --- | --- | --- |
| `CustodyChain` | the promise of the custody contract: what `Escrow.sol` reads of it | `stage` of each manifest; Open, Take, CloseFull, CloseShort, Escalate |
| `CustodyManifest` | the custody contract | one action per external function; `sigs` holds every signature ever made, because it can be relayed again at any time |
| `EscrowPromise` | what the escrow promises over the custody chain | money held and paid per manifest; Fund, Settle |
| `Escrow` | the escrow, composed with `CustodyChain` | `frame` is the stack of calls that are sending tokens, each with the state it reverts to |
| `LoadPromise` | what the platform promises about the money of one load | pieces scanned, stage, count signed, clearances, ways by which money has left; Sign, Clear, PayOutOnce, PayOutStray, EscrowOut |
| `ReleaseGate` | scans, reconciliation, read model, payment row and both ways out for the money, for one manifest | requests in `submit`, `alert`, `reconcile`, `sync`, `decide` (confirmAndSign and evaluate), `webhook`, `payout` (handleReleaseGate) |
| `Orchestration` | bookings, trucks, GPS binding and manifests of several bookings | requests in `locked` ... `persist` (startTrip, assignTruck), `build`, `anchored` (createManifest), `submit` ... `unbind` (confirmDelivery) |
| `SignerOtp` | one-time codes, key and signer audit of one phone | the statements of the code's transaction, then the two phases of confirmDelivery |
| `ConnectionPool` | clients held and awaited | operations as lists of transactions, each plain or auditing |
| `AnchorPipeline` | one trip's pings, rows, jobs and anchored batches | the sweep's steps, the worker's steps, failures |
| `TripProofs` | the Merkle tree of a batch, proveMoment and the contract's verifyPing, on top of `AnchorPipeline` | operators over the pipeline's state: no step of their own |
| `DeviceIngest` | device registry, ingest gateway, rate limiter, for one company | a call is `Begin...`, its reads (`ReadDevice`, `ReadBinding`) and its commit; `Increment`, `SetExpiry` and `KeyExpires` are Redis |
| `Guard` | the role matrix and the decision of the guards on a token's claims | pure operators |
| `Sessions` | login, refresh with rotation, logout, role changes | one step per await of a store; `Die` stops a call anywhere |
| `Onboarding` | invitations and join requests, composed with `Sessions` (`AccountsSpec`) | documents opened, accepted, approved, refused; all about one stranger |
| `Entitlements` | what a company may use, and the cache | modulesFor as a subroutine, `req.then` saying where its caller goes on |
| `Subscriptions` | billing, dunning, webhooks and registration, composed with `Entitlements` (`SubscriptionsSpec`) | one step per await of a store or of the payment gateway |
| `PieceLife` | the scanner page, the scan log, the fork detector and the verify page | the page's steps over a lossy network, and a verification's reads |
| `Custody_proofs` | theorems about `CustodyManifest` and `PieceLife` | |
| `Money_proofs` | theorems about `Escrow` and `ReleaseGate` | |
| `Platform_proofs` | theorems about `Orchestration` and `ConnectionPool` | |
| `Gps_proofs` | theorems about `DeviceIngest`, `AnchorPipeline` and `TripProofs` | |
| `SignerOtp_proofs`, `Onboarding_proofs`, `Subscriptions_proofs` | theorems about the modules they are named after and those they extend | |
| `FiniteSums` | lemmas on sums over a finite set, and the induction they rest on | |
| `MCCustody`, `MCEscrow`, `MCReleaseGate`, `MCOrchestration`, `MCSignerOtp`, `MCPool`, `MCAnchor`, `MCDevice`, `MCAccounts`, `MCSubscriptions`, `MCPiece` | the instances TLC checks | |

`CustodyManifest` implements `CustodyChain` (its status is the stage), `Escrow`
is built on `CustodyChain` and implements `EscrowPromise`, and `ReleaseGate`
implements `LoadPromise`; it and `Orchestration` use the contract's statuses. `TripProofs` extends
`AnchorPipeline`, `Onboarding` extends `Sessions`, which extends `Guard`, and
`Subscriptions` extends `Entitlements`.

Abstractions that a reader should know:

* A digest is the record of what it binds, and a signature is a signer and a
  digest: signing and recovery are taken to work, and hashing not to collide.
* A transaction of a contract is one step, except where the contract calls out
  (`Escrow`). A reverted call changes nothing and is not a step. Custody moves
  and administration are not nested in a transfer, because the relayer and the
  owner are plain accounts.
* Identities of payer and payee, timestamps of deposits, events, the trip id and
  the manifest hash are payload.
* Requests that die roll their open transaction back; what they did on the chain
  stays.
* The release webhook may be called at any time, not only after a decision: its
  handler is written for that. A payout that matches no paid row is answered
  as released; the model does the same and changes nothing.
* The alert sink that is wired in (`PgAlertSink`) stores fork verdicts only, so
  `ReleaseGate` keeps, as history, only the attribution of a shortage.
* `otp_challenges.attempts` is not a variable: the rejection of a code throws in
  the transaction that counted it, so no committed row has another value than 0.
* A job of the anchor queue that has not failed is taken in its turn; one that
  backs off may be overtaken (BullMQ).

* Hashing in a Merkle tree is perfect: a hash is the record of what was hashed, a
  ping under a leaf and an unordered pair under a node (the contract sorts the
  pair), so that two trees have one root only if they are equal.
* The identity services await stores without a transaction, so each await is a
  step and a call that dies keeps what it has done.
* A session's refresh token is the one of its last rotation; presenting an older
  one changes nothing. A token that is a pure function of claims and key is its
  claims for as long as it verifies.
* In `PieceLife` there is one browser tab, and time is what the detector makes of
  it: before the delivery, within a minute of it, later. The server stamps a scan
  when it arrives. The page's nonces stay on the page (see 4), so that a batch which
  arrives again is a set of new rows; rows that differ in nothing the model keeps are
  one. Of a manifest that is not the piece's only whether it is in custody matters.
* History variables, read by no action: `torn` (users whose role change died
  before the bump), `missed` (an invalidation that did not take place),
  `tangled` (calls about the plan overlapped or died), `lapsed` (a charge of the
  subscription failed since one went through or it was opened, and whether a charge for
  an upgrade went through after it), `cutOff` (a cancellation took its plan and none was
  applied since), and in `DeviceIngest` `ended` (the trips
  that ended) and `writes` (how often a device was registered). `cloned` and `late` of a
  verification are what was true when its scan was made.

Modelled from their use, and marked external in the map: the EVM's call frames
and block time, pg's pool, BullMQ's order, the receiver's client, the worker
that fills `gps_pings` (`gps/db/schema.sql` says it is missing), the expiry of
Redis keys, processes that die, and whoever sets `users.status`.

## 3. The runs

| run | what it shows | bounds, and why they are enough | distinct states |
| --- | --- | --- | --- |
| `custody` | acceptance, closure, window and finality; the contract implements `CustodyChain` | one manifest and two keys that may each hold any of the three roles, counts to 2 (zero, partial, full), two block times (before, after); manifests do not interact | 162,368 |
| `escrow` | a deposit is paid once, from its own money; each transaction is one step of `EscrowPromise` | two deposits (the second one's money could be taken), two nested transfers (a call inside a call), amounts to 2 (a split has two parts) | 51,392 |
| `gate` | count, money, attribution, the read model catching up; each step is one of `LoadPromise` | one expected and one foreign piece (missing, extra, complete are all possible), two requests, one of which may die; requests return to idle and begin again, so any number of them follow each other; a webhook names this load's manifest or another's, whose chain record may say anything | 994,087 |
| `orchestration` | atomic start, links, orphans, DELIVERED | two bookings that compete for one truck with a tracker (either may lose the race), the dispatcher and the GPS routes at any moment, two requests at a time, two manifests for a booking, one failure | 1,698,480 |
| `signer` | single use, one live code, audit | three requests at a time (two issue, one confirms), four codes, two keys (two first requests mint one each), two crashes | 1,059,872 |
| `pool` | every request is served, unless audits come to hold the whole pool | three requests over two clients, any of which may audit inside its transaction or throw | 3,820 |
| `anchor` | a proof verifies only for an anchored ping; punctual pings can be proved | four pings in any order, one sweep at a time, two failures, two attempts | 64,773 |
| `devices` | suspensions, ended trips, the limiter | two devices on one truck, two calls at a time, five in all (a suspension takes two tampered pings; three calls are left to overlap it), one failure | 552,273 |
| `accounts` | stale powers, the last admin, admission | two admins of one company, a stranger two companies may invite, two calls at a time, four in all, two sessions and two documents, one failure | 1,087,585 |
| `subscriptions` | cache, billing, dunning | one company, two calls at a time, three in all, one trial, two toggled modules one of which needs the other, two plans besides the smallest, one failure | 2,147,814 |
| `pieces` | scans are kept and arrive; genuine means one life | two pieces and a fabricated label, two scans of the page, one made elsewhere (a loading for the piece's manifest or an unloading under another), one verification at a time, batches of one (a batch is in flight while the queue grows), any number of refusals, one lost request or reload; a dispute at any time | 713,536 |
| `anchor_late` | **violation**, see 4 | one replayed ping, three instants, no failure | - |

Bounds are constants named as such in each module (`MaxTime`, `MaxDepth`,
`MaxCodes`, `MaxCalls`, ...). Symmetry is used in `custody`, `orchestration`,
`signer`, `accounts` and `subscriptions`, which check no liveness. Deadlock
checking is off where the system may stop: in `orchestration` when all bookings
are cancelled or over, in `pool` when audits hold it all, and in `devices`, `accounts`,
`subscriptions` and `pieces` when the calls of the instance are used up.

Every property of a passing run has a mutant in `PROJECT.json`: a `Mut...`
operator, next to the definition it replaces, that changes the code the way a
plausible bug would, and with which TLC finds the property violated.

Fairness, and what in the code justifies it:

* `FairGateSpec`: a handler that has begun runs on (weak), and the dashboard
  keeps polling evaluateRelease. The polling is strongly fair because `Request`
  bounds the model and not the server: other requests cannot keep it out.
* `FairPoolSpec`: the database answers, and the pool hands out a client when it
  has one (weak). Nothing makes a request begin or throw.
* `FairAnchorSpec`: the sweep runs every hour and the worker as long as there
  are jobs (weak). Pings and failures are not fair.
* `FairDeviceSpec`: a call that has begun runs on, and Redis drops a key whose
  expiry is set (weak). A key without one stays: that is the hazard.
* `FairPieceSpec`: the page flushes its queue on a timer and when it is online
  again, the server takes a post that is not lost or refuses it, and the page handles
  the answer (weak). Losses are bounded by `MaxFailures`, refusals are not;
  scanning and reloading are not fair.

## 4. Where the code and its documents disagree

One of them is a run that checks the quoted statement and finds it violated:

* `anchor_late`: "One root per hour proves every ping in that hour"
  (`gps/batching/merkle-batcher.ts:6`), and offline devices replay
  (`gps/ingest/gateway.ts:62`). The tree is rebuilt from the whole archive
  (`gps/db/ping-source.store.pg.ts:30`), so a ping that arrives after its window
  was anchored is not in the root, and the pings that *were* anchored cannot be
  proved any more either.

The others were met while modelling. In custody and orchestration:

* assignTruck looks for an AVAILABLE truck without a lock and writes later
  without looking again (`bookings.service.ts:109`): two bookings get one truck.
* "each is idempotent, so a retry converges" (`orchestration.service.ts:278`). If
  the first attempt dies after the chain write, a retry's chain write reverts and
  the booking stays ASSIGNED.
* Codes "cap attempts" (`chain/keys/otp.ts:6`), but the count is rolled back with
  the rejection (`custody.service.ts:186`).
* "A request must hold at most ONE PoolClient at a time"
  (`custody.service.ts:29`). AuditService.record takes a second one
  (`audit.service.ts:16`); as many such requests as clients wait for each other
  for ever. `Served` shows that this is the only way a request is never answered,
  and `PoolStillOnlyByAudits` that it is the only way the pool comes to a standstill.
* cancel() accepts a booking whose goods are in custody, because nothing ever
  sets IN_TRANSIT (`bookings.service.ts:138`, `:145`).
* startTrip answers with a manifest that the custody route created, but does not
  link it (`orchestration.service.ts:222`): the booking cannot be confirmed.
* The audit row of a signature is flushed after the chain call
  (`custody.service.ts:239`), not before (`chain/keys/signer-audit.pg.ts:5`);
  `UnauditedOnlyByCrash` is what remains true.
* Two first code requests of a phone: one is answered with an address whose key
  was not stored (`chain/keys/signer-service.ts:134`).
* An off-manifest piece is enough for the divergence alert that means "something
  is badly wrong" (`custody/reconcile/release-gate.ts:110`), and alerts other
  than forks are stored nowhere (`custody/db/custody.store.pg.ts:109`).
* A job refused as TimeOverlap is taken for a duplicate
  (`gps/workers/anchor-worker.ts:113`), also when a newer window overtook it;
  markAnchored marks the oldest row, which may be another window's; and two
  overlapping sweeps save overlapping windows (`:68`, "A duplicate sweep is a
  no-op").
* "Even a compromised Domain 3 service cannot force a payout the chain disagrees
  with" (`payments.service.ts:95`). The handler asks the chain about the manifest
  in the body (`:110`) and pays the booking in the body (`:117`), and never
  compares the two: a delivered manifest of another load releases this one's
  payout. `MoneyNeedsFullScan` and `LoadPromise` hold with that case named
  (`paidOn`, `PayOutStray`); requestPayout itself sends a matching pair.
* A payout webhook for a payment that is not PAID yet is answered as released and
  changes nothing (`payments.service.ts:117`); the order id of a collection is
  unique per booking, so one that failed cannot be made again (`:27`).
* `rotation.md` says the audit row is written before a signature is released.

In GPS:

* startTrip binds a tracker with the assignment (`orchestration.service.ts:167`), but
  `POST /gps/trucks/:id/start-trip` binds any truck's device to any trip id it is given
  (`gps.service.ts:80`), assigned or not, and end-trip unbinds whatever is bound:
  pings of one truck are then recorded, and anchored, for another's trip.
  `StartIsAtomic` says that nothing else does that.
* `merkle-batcher.ts:9` says its leaves must be byte-compatible with the SDK's; the
  SDK's leaf has no signer tier (`chain/sdk/merkle.ts:34`).
* ingestBatch is given an empty company id (`gps.service.ts`), which aborts the
  bulk path at its first write.
* The stop detector's flush drops the ping that breaks a cluster.

In identity:

* logoutEverywhere "invalidates live access tokens too" (`session.ts:90`, and
  `schema.sql:31` on `token_version`), but verifyAccessToken never compares the
  version. `StalePowerHasOldVersion` shows that the comparison would be enough,
  torn role changes aside.
* Two overlapping refreshes are both answered, and one of the two tokens is dead
  (`session.ts:42`).
* An accept that dies between creating the user and marking the invitation leaves
  it PENDING; a rejection turns an APPROVED join request into REJECTED; revoke and
  accept overwrite each other.
* A downgrade is announced for the end of the period and never applied
  (`billing.ts:87`, `:121`); `charged` ends the grace only if the store does so.
* Dunning, payment and changePlan write back whole rows: overlapping, they may
  serve ENTERPRISE for STARTER. `ServedIsBilled` is what holds otherwise.
* `subscription.cancelled` applies STARTER and keeps the plan of the row
  (`billing.ts:149`); a `subscription.charged` after it makes the row ACTIVE again
  (`:143`) and applies nothing: with no overlap, ENTERPRISE is billed and STARTER
  served until somebody subscribes or upgrades. `cutOff` says when in `ServedIsBilled`.
* An upgrade in grace is charged and keeps the status and the end of the grace
  (`billing.ts:116`, `{ ...sub, plan: to }`): with no overlap, runDunning downgrades a
  customer whose last charge went through. `DowngradeIsDeserved` says so
  (`lapsed = "upgraded"`), and that a charge of the subscription itself does save it.
* runDunning tests the end of the grace, not the status (`billing.ts:179`): that only
  past due rows are listed is the store's listPastDue, an interface without an
  implementation here (`PastDue`, external). resetFailures may or may not clear the end
  of the grace (`ResetFailures`).
* revoke warns of orphans one level deep (`entitlements.ts:103`); expireTrials
  clears whatever override is there by then; an overtaken fill, or a revoke that
  fails half way, leaves the cache stale until the
  next invalidation or restart (it has no expiry, `entitlements.ts:8`).
* registration.approve may fail after the company is ACTIVE and before its admin
  exists; a retry is refused as NOT_PENDING. A suspension ends no session.

In piece verification:

* `DUPLICATE_LIFE` is unreachable, since what it asks is asked before.
* wasMissingAtDelivery counts unloading scans made after the delivery
  (`fork-detector.ts:139`, `:184`): a late scan hides that a piece was missing,
  and a scan that the page flushes late is a POST_CLOSURE fork until it arrives.
* markDisputed after a short delivery ends the watch for missing pieces: a manifest
  is closed for the detector while it is Delivered or Short (`fork-detector.ts:125`),
  so a piece that was missing is CLEAN again and the public page calls it
  GENUINE_IN_TRANSIT (`verify-page-api.ts:122`). `GenuineMeansOneLife` says so.
* The scanner page calls API routes that the server does not have.
* "the godown scanner can flush the same batch five times on flaky wifi and the count
  stays correct" (`lifecycle.store.pg.ts:18`) is not the work of the index on
  `client_nonce`: the page posts `nonce` (`scanner.js:138`, `:170`), the server reads
  `clientNonce` (`custody.dto.ts:69`, `custody.service.ts:336`) and only rows that have
  one are deduplicated (`lifecycle.store.pg.ts:30`). A batch that is sent again is new
  rows, each counted in a history's length and in `accepted`; the scanned count holds
  because distinct pieces are counted (`:65`). `append` models that.
* A batch the server refuses stays at the head of the queue and nothing behind it is
  sent (`scanner.js:172`). As the page's items carry fields that the DTO lacks, the
  server's validation (`platform/api/main.ts:8`, forbidNonWhitelisted) would refuse each.
  `EveryScanArrives` says what a refusal that repeats for ever costs.

## 5. What is proved

Every theorem is about all values of the constants that satisfy the module's
assumption, and every one follows from an inductive invariant `...Inv` of which
the checked property is a consequence.

The contract in `Custody_proofs`, for any manifests, keys, accounts, counts and number
of blocks, from `CustodyAssumption` (positive bounds, and address(0) is nobody's):

* `CustodyInvariant`: `CustodyInv` is inductive. It is the type invariant and
  `ManifestSound` for each manifest. The safety properties speak of closed
  manifests and are not inductive: that a manifest which opens was accepted
  needs what its flags mean *before* it opens (`FlagsBacked`), which flags go
  with which stage (`StageSound`), and that its times are not ahead of the block
  clock (`WindowSound`). The lemmas say that what the code writes into a record
  (`NewManifest`, `MaybeStartCustody`, `Closed`) is sound; `WriteSound` carries
  that to the mapping.
* From it: `CustodyTypeCorrect`, `CustodyAcceptance`, `CustodyClosure`,
  `CustodyWindow`, `CustodyRelease`; `CustodyFinality`, an action property; and
  `CustodyRefinement`: every step is a step or a stutter of `CustodyChain`.

The escrow in `Money_proofs`, for any deposits, amounts and nesting depth, from
`EscrowAssumption`:

* `EscrowInvariant`: `EscrowInv` says that the present book *and every book on
  the stack* are sound. The stack is needed because a transfer that fails
  restores a saved book. From it `EscrowTypeCorrect` and `EscrowPaidOnce`.
* `EscrowSolvent`: the contract's balance is the sum of the deposits whose
  status is `Funded` and of the payer's part of each `resolveDispute` still
  under way, in the present book and in every saved one (`SolventInv`), for any
  finite set of manifests. The status, not the payments made, says what is
  due, so a deposit paid while still `Funded` or a split whose parts do not add
  up to the deposit breaks it. `EscrowCanPay` is what a depositor cares about:
  nothing due is larger than the balance.
* `EscrowRefinement`: a transaction, with everything nested in it, is one step
  of `EscrowPromise`. `TransactionInv` relates the book of a transaction under
  way to the one it began with: each entry is where it was, or has taken one
  whole fund or settle.

The release gate in `Money_proofs`, for any finite sets of pieces and any requests:
`GateInvariant`, then `GateTypeCorrect`, `GateCount`, `GateMoney` and
`GateAttribution`. A request decides on what it read some steps ago. `GateInv`
says that what it holds stays true whatever happens meanwhile, because scans are
only added and the chain leaves InCustody once. On it rests `LoadRefinement`:
the gate implements `LoadPromise`. A load is cleared there while some request
holds the chain's yes; that a payout is one step of the promise needs that such a
request was answered before any dispute and finds the row PAID and still HELD.
`MoneyNeedsFullScan` speaks of the chain as it is now and would let the escrow pay during a
dispute; the refinement does not.

The orchestration in `Platform_proofs`, for any bookings and trucks and any finite set of
requests: `OrchInvariant`, then `OrchTypeCorrect`, `DeliveryCorrect`,
`LinkCorrect`, `OrphansCorrect`, `StartCorrect`. `OrchInv` says for each place a
request can be at what it has established (`RequestSound`: the booking is still
CONFIRMED while its lock is held; a manifest that was closed stays closed), that
a lock has one holder, and that each manifest on the chain is stored, held by a
request that will store it, or accounted for by a failure.

`SignerOtp_proofs`, for any key pairs, codes and crashes and any finite set of
requests: `SignerInvariant`, then `SignerTypeCorrect`, `SignerSingleUse`,
`SignerOneLiveCode`, `SignerOnRecord`. A row lock has one holder and a locked row
is live, so that only its holder takes it out of use; whoever inserts a code
holds every live row, because the unique index lets nobody insert beside it.

The pool in `Platform_proofs`, for any number of requests and of clients:
`PoolInv` says that each request holds as many clients as the place it is at
allows, that all of them together never hold more than there are, and that whoever
waits is in the queue once. From it `PoolNoClientLeaks` (no client is lost, whatever
throws and wherever), and `PoolStillOnlyByAudits`: with requests in flight, the pool
stands still exactly when every client belongs to a transaction that waits for a
second one to write its audit row. Nothing is assumed about how many requests audit.
It is the safety part of `Served`; that it does move is fairness, and TLC's.

The devices in `Gps_proofs`, for any devices, trucks, trips and calls at a time:
`DeviceInvariant`, then `DeviceTypeCorrect` and the action properties `SuspensionCorrect` and
`EndCorrect`. That an ended trip stays silent needs that no device changes its
truck while endTrip is under way, which is why `EndedTripIsSilent` speaks of
devices that are registered once: a device that two registrations put on two
trucks can be the one that endTrip picks. The run has one truck and does not
reach that case; the proof covers it.

`Onboarding_proofs`, for any companies, sessions, documents and calls at a time
and any finite set of users: `AccountsInvariant`, then `AccountsTypeCorrect`,
`StalePowerCorrect`, `AdmissionCorrect` and the action properties
`LastAdminCorrect` and `ChoiceCorrect`. `Fresh` is the heart of it: a copy of a
user's role, in a call or in a token, is as new as its version says unless a bump
is outstanding or was lost. What no step takes away (`UsersKept`, `DocsKept`) is
all that a waiting call relies on.

`Subscriptions_proofs`, for any requests, trials, plans offered and modules
toggled: `SubscriptionsInvariant`, then `SubscriptionsTypeCorrect`,
`CacheCorrect`, `BillingCorrect` and, for the action property, `DowngradeCorrect`.
The invariant says what is owed for a stale cache (an invalidation by a call that
has written, or a miss on record), and, as long as calls about the plan have not
overlapped, what the one such call carries.

Anchoring in `Gps_proofs`, for any pings, sweeps, attempts and failures:

* `PipelineInvariant`: `PipelineInv` says that the pings of a row are in the
  archive, that the job the worker holds is active, and that the windows on the
  chain are in order, which the contract enforces. From it `AnchorTypeCorrect` and `WindowsInOrder`.
* `OnlyAnchoredCorrect`: proveMoment confirms a ping only if its batch on the
  chain holds it, however sweeps overlap, jobs fail and pings come late. This is
  the soundness of the tree: every hash from which a path of siblings leads up to
  a root is in that tree (`HashesClosed`, `VerifySound`).
* `ProofsCorrect`, the run's `ProofsVerify`: moreover, what no failure and no late
  ping has touched can be proved. Its two halves are `ProofLeadsToRoot` (the path
  proveMoment builds leads to the root, for a batch of any size, though the last
  node of an odd layer has no sibling) and `PipelineInStep`: rows, jobs and the chain go
  through the same windows in the same order. The latter, and so the theorem, assumes
  `OneSweep`, as the run does: two
  sweeps that overlap save overlapping windows, the second of which the contract
  refuses (see 4). `InStep` is about an execution without failures, because a
  crash between the insert and the job is one of the ways to lose the step.

The life of a piece in `Custody_proofs`, for any pieces, scans and verifications:
`PieceInvariant`, then `PieceTypeCorrect`, `ScanKept` and the action property
`GenuineCorrect`. `PieceInv` says that the scans which wait have nonces of their
own, that what is counted is in the log or still in the queue, that what is being sent
is the head of the queue and in the log as soon as the server has taken it, that a
late scan means a delivery, whose manifest is closed or disputed ever after, and for
each place a verification can be at that what it has found of the log and of the chain
stays true while both move on.

Two things needed a detour. The library's induction theorems take a predicate as a
parameter, which the provers cannot instantiate; in `FiniteSums` a predicate is
the set of numbers it holds of (`NatSetInduction`), and sums over finite sets and
the layers of a tree are proved with that. And `TripProofs` declares no recursive
operator: its layers and its climb are recursive functions.

Only model-checked: the liveness properties `MirrorCatchesUp`, `Served`,
`PunctualPingProved`, `LimiterRecovers` and `EveryScanArrives`, because the provers
do not reason about fairness and ENABLED. Every invariant and every action
property of the passing runs, and the three refinements, are theorems.

## 6. What is not modelled

The contracts `ReputationLedger` and `DocumentRegistry` (append-only, one guard
each) and the SDK's calls of them; the services with one statement per operation;
label layout; co-sign links (not wired in; the store of used nonces is an
interface without an implementation); deployment scripts; timelines and the stop
detector (queries without state); controllers and schemas; row level security
(the database's); the silence sweep and the reorganisation auditor, which only
report; the gateway signer, which is not wired in; prices and proration.

## 7. Plan

Done, in this order: custody, escrow, release gate, orchestration, signer, pool,
anchor pipeline; trip proofs, devices, accounts, subscriptions, pieces; proofs for
all of them. To do:

1. Payments: a collection that failed and its unique order id; audit rows
   against the operations they report.
2. Co-sign links, once a store of used nonces exists.
3. Abstract specifications for the identity services and the pipeline, and
   refinements of them.
