---------------------------- MODULE CustodyManifest ----------------------------
(***************************************************************************)
(* chain/contracts/CustodyManifest.sol: the contract that records who held *)
(* a load.  A transaction of the contract is atomic, so each external      *)
(* function is one action; a call that reverts changes nothing and is not  *)
(* an action.                                                              *)
(*                                                                         *)
(* A signature is a record [signer, digest].  Once it exists anyone who    *)
(* has seen it can relay it again, at any later time, so signatures are    *)
(* never removed from "sigs".  Digests are abstracted to what they bind:   *)
(* the kind, the manifest and, at delivery, the count.                     *)
(*                                                                         *)
(* Left out: tripId and manifestHash (opaque payload), the emitted events. *)
(***************************************************************************)
EXTENDS Integers

CONSTANTS
  Manifest,    \* manifest ids
  Key,         \* addresses that sign: loaders, drivers, receivers
  Account,     \* addresses that send transactions: the owner and the relayers
  ZeroAddress, \* address(0)
  MaxPieces,   \* bound: the largest piece count (uint32 in the contract)
  MaxTime      \* bound: the last block timestamp

ASSUME CustodyAssumption ==
  /\ MaxPieces \in Nat \ {0}
  /\ MaxTime \in Nat \ {0}
  /\ ZeroAddress \notin Key \cup Account

VARIABLES
  owner,       \* the account that administers the contract
  isPlatform,  \* the set of accounts allowed to relay
  manifests,   \* _manifests
  sigs,        \* every signature made so far by the signer service
  clock        \* block.timestamp

custodyVars == <<owner, isPlatform, manifests, sigs, clock>>

Stage == {"None", "Created", "InCustody", "Delivered", "Short", "Disputed"}
Count == 0 .. MaxPieces
Time  == 0 .. MaxTime
Address == Key \cup {ZeroAddress}

ManifestRecord ==
  [ pieceCount: Count, deliveredCount: Count,
    loader: Address, driver: Address, receiver: Address,
    loaderSigned: BOOLEAN, driverSigned: BOOLEAN, receiverSigned: BOOLEAN,
    createdAt: Time, custodyStartAt: Time, deliveredAt: Time,
    status: Stage ]

\* The zero value of a mapping entry.
NoManifest ==
  [ pieceCount |-> 0, deliveredCount |-> 0,
    loader |-> ZeroAddress, driver |-> ZeroAddress, receiver |-> ZeroAddress,
    loaderSigned |-> FALSE, driverSigned |-> FALSE, receiverSigned |-> FALSE,
    createdAt |-> 0, custodyStartAt |-> 0, deliveredAt |-> 0,
    status |-> "None" ]

LoadingDigest(m) == [kind |-> "loading", manifest |-> m, count |-> 0]
DeliveryDigest(m, n) == [kind |-> "delivery", manifest |-> m, count |-> n]
Digest == [kind: {"loading", "delivery"}, manifest: Manifest, count: Count]
Signature == [signer: Key, digest: Digest]

\* _recover(digest, sig) = who: a relayed signature is one that was made.
SignedBy(who, digest) == [signer |-> who, digest |-> digest] \in sigs

-------------------------------------------------------------------------------
CustodyInit ==
  /\ owner \in Account
  /\ isPlatform = {}
  /\ manifests = [m \in Manifest |-> NoManifest]
  /\ sigs = {}
  /\ clock = 1

\* --- administration ---------------------------------------------------------
TransferOwnership(newOwner) ==
  /\ owner \in Account
  /\ owner' = newOwner
  /\ UNCHANGED <<isPlatform, manifests, sigs, clock>>

SetPlatform(account, allowed) ==
  /\ owner \in Account
  /\ isPlatform' = IF allowed THEN isPlatform \cup {account} ELSE isPlatform \ {account}
  /\ UNCHANGED <<owner, manifests, sigs, clock>>

OnlyPlatform(sender) == sender \in isPlatform

\* --- the signer service (chain/keys), an environment of the contract --------
Sign(who, digest) ==
  /\ sigs' = sigs \cup {[signer |-> who, digest |-> digest]}
  /\ UNCHANGED <<owner, isPlatform, manifests, clock>>

\* --- the manifest's life ----------------------------------------------------
NewManifest(pieces, loader, driver, receiver) ==
  [ NoManifest EXCEPT
      !.pieceCount = pieces,
      !.loader = loader, !.driver = driver, !.receiver = receiver,
      !.createdAt = clock, !.status = "Created" ]

CreateManifest(sender, m, pieces, loader, driver, receiver) ==
  /\ OnlyPlatform(sender)
  /\ manifests[m].status = "None"
  /\ pieces # 0
  /\ ZeroAddress \notin {loader, driver, receiver}
  /\ manifests' = [manifests EXCEPT ![m] = NewManifest(pieces, loader, driver, receiver)]
  /\ UNCHANGED <<owner, isPlatform, sigs, clock>>

MutEitherSigned(rec) == rec.loaderSigned \/ rec.driverSigned
BothSigned(rec) == rec.loaderSigned /\ rec.driverSigned

\* _maybeStartCustody
MaybeStartCustody(rec) ==
  IF BothSigned(rec)
  THEN [rec EXCEPT !.status = "InCustody", !.custodyStartAt = clock]
  ELSE rec

SubmitLoaderSignature(sender, m) ==
  /\ OnlyPlatform(sender)
  /\ manifests[m].status = "Created"
  /\ SignedBy(manifests[m].loader, LoadingDigest(m))
  /\ manifests' = [manifests EXCEPT ![m] = MaybeStartCustody([@ EXCEPT !.loaderSigned = TRUE])]
  /\ UNCHANGED <<owner, isPlatform, sigs, clock>>

MutDriverAnySigner(sender, m) ==
  /\ OnlyPlatform(sender)
  /\ manifests[m].status = "Created"
  /\ \E s \in sigs : s.digest = LoadingDigest(m)
  /\ manifests' = [manifests EXCEPT ![m] = MaybeStartCustody([@ EXCEPT !.driverSigned = TRUE])]
  /\ UNCHANGED <<owner, isPlatform, sigs, clock>>

SubmitDriverSignature(sender, m) ==
  /\ OnlyPlatform(sender)
  /\ manifests[m].status = "Created"
  /\ SignedBy(manifests[m].driver, LoadingDigest(m))
  /\ manifests' = [manifests EXCEPT ![m] = MaybeStartCustody([@ EXCEPT !.driverSigned = TRUE])]
  /\ UNCHANGED <<owner, isPlatform, sigs, clock>>

MutClosedOneMore(rec, n) ==
  [ rec EXCEPT
      !.receiverSigned = TRUE, !.deliveredCount = n + 1, !.deliveredAt = clock,
      !.status = IF n + 1 = rec.pieceCount THEN "Delivered" ELSE "Short" ]

Closed(rec, n) ==
  [ rec EXCEPT
      !.receiverSigned = TRUE, !.deliveredCount = n, !.deliveredAt = clock,
      !.status = IF n = rec.pieceCount THEN "Delivered" ELSE "Short" ]

\* The statuses from which the receiver's count is accepted.
MutOpenForDelivery(rec) == rec.status \in {"InCustody", "Short"}
OpenForDelivery(rec) == rec.status = "InCustody"

ConfirmDelivery(sender, m, n) ==
  /\ OnlyPlatform(sender)
  /\ OpenForDelivery(manifests[m])
  /\ n <= manifests[m].pieceCount
  /\ SignedBy(manifests[m].receiver, DeliveryDigest(m, n))
  /\ manifests' = [manifests EXCEPT ![m] = Closed(@, n)]
  /\ UNCHANGED <<owner, isPlatform, sigs, clock>>

MarkDisputed(sender, m) ==
  /\ OnlyPlatform(sender)
  /\ manifests[m].status # "None"
  /\ manifests' = [manifests EXCEPT ![m].status = "Disputed"]
  /\ UNCHANGED <<owner, isPlatform, sigs, clock>>

NextBlock ==
  /\ clock < MaxTime
  /\ clock' = clock + 1
  /\ UNCHANGED <<owner, isPlatform, manifests, sigs>>

Administer ==
  \/ \E a \in Account \cup {ZeroAddress} : TransferOwnership(a)
  \/ \E a \in Account, allowed \in BOOLEAN : SetPlatform(a, allowed)

Relay(sender, m) ==
  \/ \E n \in Count, l, d, r \in Address : CreateManifest(sender, m, n, l, d, r)
  \/ SubmitLoaderSignature(sender, m)
  \/ SubmitDriverSignature(sender, m)
  \/ \E n \in Count : ConfirmDelivery(sender, m, n)
  \/ MarkDisputed(sender, m)

CustodyNext ==
  \/ Administer
  \/ \E k \in Key, m \in Manifest : Sign(k, LoadingDigest(m))
  \/ \E k \in Key, m \in Manifest, n \in Count : Sign(k, DeliveryDigest(m, n))
  \/ \E a \in Account, m \in Manifest : Relay(a, m)
  \/ NextBlock

CustodySpec == CustodyInit /\ [][CustodyNext]_custodyVars

\* isReleasable(): the money condition.
IsReleasable(m) ==
  /\ manifests[m].status = "Delivered"
  /\ manifests[m].deliveredCount = manifests[m].pieceCount

-------------------------------------------------------------------------------
CustodyTypeOK ==
  /\ owner \in Account \cup {ZeroAddress}
  /\ isPlatform \subseteq Account
  /\ manifests \in [Manifest -> ManifestRecord]
  /\ sigs \subseteq Signature
  /\ clock \in Time \ {0}

Accepted(m) ==
  /\ SignedBy(manifests[m].loader, LoadingDigest(m))
  /\ SignedBy(manifests[m].driver, LoadingDigest(m))

\* A load is on the road, or has arrived, only if its loader and its driver
\* have both signed for that very manifest (submitLoaderSignature,
\* submitDriverSignature, _maybeStartCustody): no order of relayed, repeated
\* or misdirected signatures opens a custody window without either of them.
CustodyWasAccepted ==
  \A m \in Manifest :
    manifests[m].status \in {"InCustody", "Delivered", "Short"} => Accepted(m)

\* Whatever count a closed manifest records was signed by its receiver, was
\* not more than the pieces loaded, and closed a custody both sides accepted;
\* the outcome is Delivered exactly when the count is complete
\* (confirmDelivery).  An escalation afterwards (markDisputed) keeps it so.
ClosedByReceiver ==
  \A m \in Manifest : LET r == manifests[m] IN
    /\ r.receiverSigned =>
         /\ SignedBy(r.receiver, DeliveryDigest(m, r.deliveredCount))
         /\ r.deliveredCount <= r.pieceCount
         /\ Accepted(m)
    /\ r.status \in {"Delivered", "Short"} =>
         /\ r.receiverSigned
         /\ (r.status = "Delivered") <=> (r.deliveredCount = r.pieceCount)

\* Losses are pinned to a custody window (contract header, line 9): the window
\* of a closed manifest is well formed and lies inside the manifest's life.
WindowOrdered ==
  \A m \in Manifest : LET r == manifests[m] IN
    /\ r.status \in {"InCustody", "Delivered", "Short"} => 0 < r.custodyStartAt
    /\ 0 < r.custodyStartAt => r.createdAt <= r.custodyStartAt
    /\ r.receiverSigned => 0 < r.custodyStartAt /\ r.custodyStartAt <= r.deliveredAt

\* What the receiver signed is never rewritten: a second signature, over
\* another count, cannot amend a closed manifest, and nothing but the
\* escalation moves a manifest out of Delivered or Short.
SignedCountIsFinal ==
  [][\A m \in Manifest :
       manifests[m].receiverSigned =>
         /\ manifests'[m].deliveredCount = manifests[m].deliveredCount
         /\ manifests'[m].deliveredAt = manifests[m].deliveredAt
         /\ manifests'[m].status \in {manifests[m].status, "Disputed"}]_custodyVars

\* The contract implements the view of it that Escrow.sol relies on.
Chain == INSTANCE CustodyChain WITH stage <- [m \in Manifest |-> manifests[m].status]
ImplementsCustodyChain == Chain!ChainSpec

\* isReleasable() is the status test the view makes of it: the count
\* comparison of the code never rejects a Delivered manifest.
ReleasableIsDelivered ==
  \A m \in Manifest : IsReleasable(m) <=> Chain!Releasable(m)
===============================================================================
