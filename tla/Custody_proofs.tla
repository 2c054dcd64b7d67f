------------------------------- MODULE Custody_proofs -------------------------------
(***************************************************************************)
(* Proofs about the custody contract (CustodyManifest.tla) and about the   *)
(* scans of the pieces it has custody of (PieceLife.tla), for any          *)
(* manifests, keys, accounts, pieces and requests, and for any value of    *)
(* the bounds.                                                             *)
(*                                                                         *)
(* The contract: its safety properties speak of closed manifests; they     *)
(* become inductive with what the flags of an open one mean (a party's     *)
(* flag is set only once its signature exists) and with the window's       *)
(* relation to the clock.                                                  *)
(*                                                                         *)
(* The pieces: a scan is in the log or on the page because what the page   *)
(* is sending heads its queue and what the server has taken is logged,     *)
(* however often; a reload queues all that is stored.  A verdict outlives  *)
(* what it was read from because the log only grows, a delivery is final   *)
(* and so is a dispute.                                                    *)
(***************************************************************************)
EXTENDS CustodyManifest, PieceLife, FiniteSetTheorems, TLAPS

-------------------------------------------------------------------------------
(***************************************************************************)
(* The custody contract.                                                   *)
(***************************************************************************)
\* Each flag of a manifest record is backed by the signature it stands for.
FlagsBacked(m, r) ==
  /\ r.loaderSigned => SignedBy(r.loader, LoadingDigest(m))
  /\ r.driverSigned => SignedBy(r.driver, LoadingDigest(m))
  /\ r.receiverSigned => SignedBy(r.receiver, DeliveryDigest(m, r.deliveredCount))

\* The stage and the flags agree.
StageSound(r) ==
  /\ r.status \in {"None", "Created", "InCustody"} => ~r.receiverSigned
  /\ r.status \in {"InCustody", "Delivered", "Short"} => r.loaderSigned /\ r.driverSigned
  /\ r.receiverSigned => r.loaderSigned /\ r.driverSigned /\ r.deliveredCount <= r.pieceCount
  /\ r.status \in {"Delivered", "Short"} =>
       r.receiverSigned /\ ((r.status = "Delivered") <=> (r.deliveredCount = r.pieceCount))

\* The custody window, and the present.
WindowSound(r) ==
  /\ r.createdAt <= clock /\ r.custodyStartAt <= clock
  /\ r.status \in {"InCustody", "Delivered", "Short"} => 0 < r.custodyStartAt
  /\ 0 < r.custodyStartAt => r.createdAt <= r.custodyStartAt
  /\ r.receiverSigned => 0 < r.custodyStartAt /\ r.custodyStartAt <= r.deliveredAt

ManifestSound(m, r) == FlagsBacked(m, r) /\ StageSound(r) /\ WindowSound(r)

CustodyInv ==
  /\ CustodyTypeOK
  /\ \A m \in Manifest : ManifestSound(m, manifests[m])

-------------------------------------------------------------------------------
(***************************************************************************)
(* What the code computes for one record.                                  *)
(***************************************************************************)

\* A manifest that createManifest has just written is sound.
LEMMA NewManifestSound ==
  ASSUME CustodyTypeOK, NEW m \in Manifest, NEW n \in Count,
         NEW l \in Address, NEW d \in Address, NEW r \in Address
  PROVE  /\ NewManifest(n, l, d, r) \in ManifestRecord
         /\ ManifestSound(m, NewManifest(n, l, d, r))
<1> DEFINE rec == NewManifest(n, l, d, r)
<1>1. 0 \in Count /\ 0 \in Time /\ clock \in Time /\ 0 <= clock
  BY CustodyAssumption DEF CustodyTypeOK, Count, Time
<1>2. /\ NoManifest \in ManifestRecord
      /\ ~NoManifest.loaderSigned /\ ~NoManifest.driverSigned /\ ~NoManifest.receiverSigned
      /\ NoManifest.custodyStartAt = 0
  BY <1>1 DEF NoManifest, ManifestRecord, Address, Stage
<1>3. rec \in ManifestRecord
  BY <1>1, <1>2 DEF NewManifest, ManifestRecord, Stage
<1>4. /\ rec.loaderSigned = NoManifest.loaderSigned
      /\ rec.driverSigned = NoManifest.driverSigned
      /\ rec.receiverSigned = NoManifest.receiverSigned
      /\ rec.custodyStartAt = NoManifest.custodyStartAt
      /\ rec.createdAt = clock /\ rec.status = "Created"
  BY <1>2 DEF NewManifest, ManifestRecord
<1> HIDE DEF rec
<1>5. ManifestSound(m, rec)
  BY <1>1, <1>2, <1>4 DEF ManifestSound, FlagsBacked, StageSound, WindowSound, Time
<1> QED BY <1>3, <1>5 DEF rec

\* _maybeStartCustody keeps an open manifest sound: it starts the custody
\* window only with both flags set, and stamps it with the present.
LEMMA MaybeStartCustodySound ==
  ASSUME CustodyTypeOK, NEW m \in Manifest, NEW r \in ManifestRecord,
         ManifestSound(m, r), r.status = "Created"
  PROVE  /\ MaybeStartCustody(r) \in ManifestRecord
         /\ ManifestSound(m, MaybeStartCustody(r))
<1>1. CASE ~BothSigned(r)
  BY <1>1 DEF MaybeStartCustody
<1>2. CASE BothSigned(r)
  <2> DEFINE rec == [r EXCEPT !.status = "InCustody", !.custodyStartAt = clock]
  <2>1. clock \in Time /\ 0 < clock
    BY DEF CustodyTypeOK, Time
  <2>2. rec \in ManifestRecord
    BY <2>1 DEF ManifestRecord, Stage
  <2>3. /\ rec.status = "InCustody" /\ rec.custodyStartAt = clock
        /\ rec.loader = r.loader /\ rec.driver = r.driver /\ rec.receiver = r.receiver
        /\ rec.loaderSigned = r.loaderSigned /\ rec.driverSigned = r.driverSigned
        /\ rec.receiverSigned = r.receiverSigned /\ rec.createdAt = r.createdAt
        /\ rec.deliveredCount = r.deliveredCount /\ rec.pieceCount = r.pieceCount
    BY DEF ManifestRecord
  <2>4. ManifestSound(m, rec)
    BY <1>2, <2>1, <2>3
       DEF BothSigned, ManifestRecord, ManifestSound, FlagsBacked, StageSound, WindowSound, Time
  <2> QED BY <1>2, <2>2, <2>4 DEF MaybeStartCustody
<1> QED BY <1>1, <1>2

\* Closing a manifest in custody with a count its receiver signed keeps it sound.
LEMMA ClosedSound ==
  ASSUME CustodyTypeOK, NEW m \in Manifest, NEW r \in ManifestRecord, NEW n \in Count,
         ManifestSound(m, r), OpenForDelivery(r), n <= r.pieceCount,
         SignedBy(r.receiver, DeliveryDigest(m, n))
  PROVE  /\ Closed(r, n) \in ManifestRecord
         /\ ManifestSound(m, Closed(r, n))
BY CustodyAssumption
   DEF CustodyTypeOK, Closed, OpenForDelivery, ManifestRecord, ManifestSound,
       FlagsBacked, StageSound, WindowSound, Count, Time, Stage

-------------------------------------------------------------------------------
(***************************************************************************)
(* The invariant.                                                          *)
(***************************************************************************)

\* A transaction that writes one sound record keeps the invariant.
LEMMA WriteSound ==
  ASSUME CustodyInv, NEW m \in Manifest, NEW r \in ManifestRecord, ManifestSound(m, r),
         manifests' = [manifests EXCEPT ![m] = r],
         UNCHANGED <<owner, isPlatform, sigs, clock>>
  PROVE  CustodyInv'
<1>1. CustodyTypeOK'
  BY DEF CustodyInv, CustodyTypeOK
<1>2. ASSUME NEW k \in Manifest
      PROVE  ManifestSound(k, manifests[k])'
  <2>1. CASE k = m
    BY <2>1 DEF CustodyInv, CustodyTypeOK, ManifestSound, FlagsBacked, WindowSound, SignedBy
  <2>2. CASE k # m
    BY <2>2 DEF CustodyInv, CustodyTypeOK, ManifestSound, FlagsBacked, WindowSound, SignedBy
  <2> QED BY <2>1, <2>2
<1> QED BY <1>1, <1>2 DEF CustodyInv

\* A call of the relayer keeps the invariant.
LEMMA RelaySound ==
  ASSUME CustodyInv, NEW a \in Account, NEW m \in Manifest, Relay(a, m)
  PROVE  CustodyInv'
<1> USE DEF CustodyInv
<1> DEFINE r == manifests[m]
<1>0. r \in ManifestRecord /\ ManifestSound(m, r)
  BY DEF CustodyTypeOK
<1>1. ASSUME NEW n \in Count, NEW l \in Address, NEW d \in Address, NEW c \in Address,
             CreateManifest(a, m, n, l, d, c)
      PROVE  CustodyInv'
  BY <1>1, NewManifestSound, WriteSound DEF CreateManifest
<1>2. CASE SubmitLoaderSignature(a, m)
  <2> DEFINE s == [r EXCEPT !.loaderSigned = TRUE]
  <2>1. r.status = "Created" /\ SignedBy(r.loader, LoadingDigest(m))
    BY <1>2 DEF SubmitLoaderSignature
  <2>2. s \in ManifestRecord /\ s.status = "Created" /\ ManifestSound(m, s)
    BY <1>0, <2>1 DEF ManifestRecord, ManifestSound, FlagsBacked, StageSound, WindowSound
  <2>3. manifests' = [manifests EXCEPT ![m] = MaybeStartCustody(s)]
    BY <1>2 DEF SubmitLoaderSignature
  <2> QED BY <1>2, <2>2, <2>3, MaybeStartCustodySound, WriteSound DEF SubmitLoaderSignature
<1>3. CASE SubmitDriverSignature(a, m)
  <2> DEFINE s == [r EXCEPT !.driverSigned = TRUE]
  <2>1. r.status = "Created" /\ SignedBy(r.driver, LoadingDigest(m))
    BY <1>3 DEF SubmitDriverSignature
  <2>2. s \in ManifestRecord /\ s.status = "Created" /\ ManifestSound(m, s)
    BY <1>0, <2>1 DEF ManifestRecord, ManifestSound, FlagsBacked, StageSound, WindowSound
  <2>3. manifests' = [manifests EXCEPT ![m] = MaybeStartCustody(s)]
    BY <1>3 DEF SubmitDriverSignature
  <2> QED BY <1>3, <2>2, <2>3, MaybeStartCustodySound, WriteSound DEF SubmitDriverSignature
<1>4. ASSUME NEW n \in Count, ConfirmDelivery(a, m, n)
      PROVE  CustodyInv'
  BY <1>0, <1>4, ClosedSound, WriteSound DEF ConfirmDelivery
<1>5. CASE MarkDisputed(a, m)
  <2> DEFINE s == [r EXCEPT !.status = "Disputed"]
  <2>1. s \in ManifestRecord /\ ManifestSound(m, s)
    BY <1>0 DEF ManifestRecord, Stage, ManifestSound, FlagsBacked, StageSound, WindowSound
  <2>2. manifests' = [manifests EXCEPT ![m] = s]
    BY <1>5 DEF MarkDisputed
  <2> QED BY <1>5, <2>1, <2>2, WriteSound DEF MarkDisputed
<1> QED BY <1>1, <1>2, <1>3, <1>4, <1>5 DEF Relay

LEMMA CustodyInvInit == CustodyInit => CustodyInv
BY CustodyAssumption
   DEF CustodyInit, CustodyInv, CustodyTypeOK, ManifestRecord, NoManifest, ManifestSound,
       FlagsBacked, StageSound, WindowSound, Signature, Count, Time, Address, Stage

LEMMA CustodyInvNext == CustodyInv /\ [CustodyNext]_custodyVars => CustodyInv'
<1> SUFFICES ASSUME CustodyInv, [CustodyNext]_custodyVars
             PROVE  CustodyInv'
  OBVIOUS
<1> USE CustodyAssumption DEF CustodyInv
<1>1. CASE Administer
  BY <1>1 DEF Administer, TransferOwnership, SetPlatform, CustodyTypeOK, ManifestSound,
              FlagsBacked, WindowSound, SignedBy
<1>2. ASSUME NEW k \in Key, NEW d \in Digest, Sign(k, d)
      PROVE  CustodyInv'
  <2>1. CustodyTypeOK'
    BY <1>2 DEF Sign, CustodyTypeOK, Signature
  <2>2. ASSUME NEW m \in Manifest
        PROVE  ManifestSound(m, manifests[m])'
    BY <1>2 DEF Sign, ManifestSound, FlagsBacked, WindowSound, SignedBy
  <2> QED BY <2>1, <2>2
<1>3. ASSUME NEW a \in Account, NEW m \in Manifest, Relay(a, m)
      PROVE  CustodyInv'
  BY <1>3, RelaySound
<1>4. CASE NextBlock
  <2>1. CustodyTypeOK'
    BY <1>4 DEF NextBlock, CustodyTypeOK, Time
  <2>2. ASSUME NEW m \in Manifest
        PROVE  ManifestSound(m, manifests[m])'
    BY <1>4 DEF NextBlock, CustodyTypeOK, Time, ManifestRecord, ManifestSound, FlagsBacked,
                WindowSound, SignedBy
  <2> QED BY <2>1, <2>2
<1>5. CASE UNCHANGED custodyVars
  BY <1>5 DEF custodyVars, CustodyTypeOK, ManifestSound, FlagsBacked, WindowSound, SignedBy
<1>6. ASSUME NEW m \in Manifest, NEW n \in Count
      PROVE  LoadingDigest(m) \in Digest /\ DeliveryDigest(m, n) \in Digest
  BY DEF LoadingDigest, DeliveryDigest, Digest, Count
<1> QED BY <1>1, <1>2, <1>3, <1>4, <1>5, <1>6 DEF CustodyNext, Count

THEOREM CustodyInvariant == CustodySpec => []CustodyInv
BY CustodyInvInit, CustodyInvNext, PTL DEF CustodySpec

-------------------------------------------------------------------------------
(***************************************************************************)
(* The properties.                                                         *)
(***************************************************************************)

\* Every field of the contract's storage keeps its type: counts fit the
\* manifest's bound, addresses are addresses, times are past blocks.
THEOREM CustodyTypeCorrect == CustodySpec => []CustodyTypeOK
<1>1. CustodyInv => CustodyTypeOK
  BY DEF CustodyInv
<1> QED BY <1>1, CustodyInvariant, PTL

\* submitLoaderSignature, submitDriverSignature, _maybeStartCustody: a load is
\* on the road only if its loader and its driver signed for that manifest.
THEOREM CustodyAcceptance == CustodySpec => []CustodyWasAccepted
<1>1. CustodyInv => CustodyWasAccepted
  BY DEF CustodyInv, CustodyWasAccepted, Accepted, ManifestSound, FlagsBacked, StageSound
<1> QED BY <1>1, CustodyInvariant, PTL

\* confirmDelivery: the recorded count is the receiver's, within what was loaded.
THEOREM CustodyClosure == CustodySpec => []ClosedByReceiver
<1>1. CustodyInv => ClosedByReceiver
  BY DEF CustodyInv, ClosedByReceiver, Accepted, ManifestSound, FlagsBacked, StageSound
<1> QED BY <1>1, CustodyInvariant, PTL

\* The custody window a loss is pinned to is well formed.
THEOREM CustodyWindow == CustodySpec => []WindowOrdered
<1>1. CustodyInv => WindowOrdered
  BY DEF CustodyInv, WindowOrdered, ManifestSound, WindowSound
<1> QED BY <1>1, CustodyInvariant, PTL

\* A signed manifest is never closed again: no call of the contract rewrites
\* the count or the time of a delivery.
THEOREM CustodyFinality == CustodySpec => SignedCountIsFinal
<1> DEFINE Final(m) ==
      manifests[m].receiverSigned =>
        /\ manifests'[m].deliveredCount = manifests[m].deliveredCount
        /\ manifests'[m].deliveredAt = manifests[m].deliveredAt
        /\ manifests'[m].status \in {manifests[m].status, "Disputed"}
<1>1. ASSUME CustodyInv, [CustodyNext]_custodyVars, NEW m \in Manifest
      PROVE  Final(m)
  <2>1. manifests[m] \in ManifestRecord /\ StageSound(manifests[m])
    BY <1>1 DEF CustodyInv, CustodyTypeOK, ManifestSound
  <2>2. CASE manifests' = manifests
    BY <2>2
  <2>3. ASSUME NEW a \in Account, NEW k \in Manifest, Relay(a, k)
        PROVE  Final(m)
    <3>1. CASE k # m
      BY <1>1, <2>3, <3>1
         DEF CustodyInv, CustodyTypeOK, Relay, CreateManifest, SubmitLoaderSignature,
             SubmitDriverSignature, ConfirmDelivery, MarkDisputed
    <3>2. CASE k = m /\ ~MarkDisputed(a, k)
      BY <2>1, <2>3, <3>2
         DEF StageSound, Relay, CreateManifest, SubmitLoaderSignature,
             SubmitDriverSignature, ConfirmDelivery, OpenForDelivery
    <3>3. CASE k = m /\ MarkDisputed(a, k)
      <4>1. manifests'[m] = [manifests[m] EXCEPT !.status = "Disputed"]
        BY <1>1, <3>3 DEF CustodyInv, CustodyTypeOK, MarkDisputed
      <4> QED BY <2>1, <4>1 DEF ManifestRecord
    <3> QED BY <3>1, <3>2, <3>3
  <2>4. (\E a \in Account, k \in Manifest : Relay(a, k)) \/ manifests' = manifests
    BY <1>1 DEF CustodyNext, Administer, TransferOwnership, SetPlatform, Sign, NextBlock, custodyVars
  <2> QED BY <2>2, <2>3, <2>4
<1>2. CustodyInv /\ [CustodyNext]_custodyVars => [\A m \in Manifest : Final(m)]_custodyVars
  BY <1>1
<1> QED BY <1>2, CustodyInvariant, PTL DEF CustodySpec, SignedCountIsFinal

\* isReleasable() is the test of the status alone: the code's comparison of the
\* counts never rejects a Delivered manifest.
THEOREM CustodyRelease == CustodySpec => []ReleasableIsDelivered
<1>1. CustodyInv => ReleasableIsDelivered
  BY DEF CustodyInv, ReleasableIsDelivered, IsReleasable, Chain!Releasable,
         ManifestSound, StageSound
<1> QED BY <1>1, CustodyInvariant, PTL

-------------------------------------------------------------------------------
(***************************************************************************)
(* The contract implements the view of it that Escrow.sol relies on.       *)
(***************************************************************************)

stageBar == [m \in Manifest |-> manifests[m].status]

\* A write of one record is a move of its stage along an edge of the view, or
\* a stutter if the stage stays.
LEMMA WriteMoves ==
  ASSUME CustodyTypeOK, NEW m \in Manifest, NEW r \in ManifestRecord,
         manifests' = [manifests EXCEPT ![m] = r],
         \/ r.status = manifests[m].status
         \/ manifests[m].status = "None" /\ r.status = "Created"
         \/ manifests[m].status = "Created" /\ r.status = "InCustody"
         \/ manifests[m].status = "InCustody" /\ r.status \in {"Delivered", "Short"}
         \/ manifests[m].status # "None" /\ r.status = "Disputed"
  PROVE  [Chain!ChainNext]_stageBar
<1>1. manifests \in [Manifest -> ManifestRecord] /\ manifests[m].status \in Stage
  BY DEF CustodyTypeOK, ManifestRecord
<1>2. stageBar' = [stageBar EXCEPT ![m] = r.status]
  BY <1>1 DEF stageBar
<1>3. CASE r.status = manifests[m].status
  BY <1>2, <1>3 DEF stageBar
<1>4. CASE manifests[m].status = "None" /\ r.status = "Created"
  BY <1>2, <1>4 DEF stageBar, Chain!ChainNext, Chain!Open, Chain!Move
<1>5. CASE manifests[m].status = "Created" /\ r.status = "InCustody"
  BY <1>2, <1>5 DEF stageBar, Chain!ChainNext, Chain!Take, Chain!Move
<1>6. CASE manifests[m].status = "InCustody" /\ r.status = "Delivered"
  BY <1>2, <1>6 DEF stageBar, Chain!ChainNext, Chain!CloseFull, Chain!Move
<1>7. CASE manifests[m].status = "InCustody" /\ r.status = "Short"
  BY <1>2, <1>7 DEF stageBar, Chain!ChainNext, Chain!CloseShort, Chain!Move
<1>8. CASE manifests[m].status # "None" /\ r.status = "Disputed"
  <2>1. manifests[m].status \in Chain!Stage \ {"None"}
    BY <1>1, <1>8 DEF Stage, Chain!Stage
  <2> QED BY <1>2, <1>8, <2>1 DEF stageBar, Chain!ChainNext, Chain!Escalate, Chain!Move
<1> QED BY <1>3, <1>4, <1>5, <1>6, <1>7, <1>8

\* Starting custody is the only thing a relayed loading signature can change.
LEMMA MaybeStartCustodyStatus ==
  ASSUME CustodyTypeOK, NEW r \in ManifestRecord, r.status = "Created"
  PROVE  /\ MaybeStartCustody(r) \in ManifestRecord
         /\ MaybeStartCustody(r).status \in {"Created", "InCustody"}
<1>1. clock \in Time
  BY DEF CustodyTypeOK
<1> QED BY <1>1 DEF MaybeStartCustody, ManifestRecord, Stage

LEMMA RelayMoves ==
  ASSUME CustodyInv, NEW a \in Account, NEW m \in Manifest, Relay(a, m)
  PROVE  [Chain!ChainNext]_stageBar
<1> DEFINE r == manifests[m]
<1>0. CustodyTypeOK /\ r \in ManifestRecord /\ ManifestSound(m, r)
  BY DEF CustodyInv, CustodyTypeOK
<1>1. ASSUME NEW n \in Count, NEW l \in Address, NEW d \in Address, NEW c \in Address,
             CreateManifest(a, m, n, l, d, c)
      PROVE  [Chain!ChainNext]_stageBar
  <2>1. NewManifest(n, l, d, c) \in ManifestRecord
    BY <1>0, NewManifestSound
  <2>2. NewManifest(n, l, d, c).status = "Created"
    BY DEF NewManifest, NoManifest
  <2> QED BY <1>0, <1>1, <2>1, <2>2, WriteMoves DEF CreateManifest
<1>2. CASE SubmitLoaderSignature(a, m)
  <2> DEFINE s == [r EXCEPT !.loaderSigned = TRUE]
  <2>1. s \in ManifestRecord /\ s.status = "Created" /\ r.status = "Created"
    BY <1>0, <1>2 DEF SubmitLoaderSignature, ManifestRecord
  <2>2. manifests' = [manifests EXCEPT ![m] = MaybeStartCustody(s)]
    BY <1>2 DEF SubmitLoaderSignature
  <2> QED BY <1>0, <2>1, <2>2, MaybeStartCustodyStatus, WriteMoves
<1>3. CASE SubmitDriverSignature(a, m)
  <2> DEFINE s == [r EXCEPT !.driverSigned = TRUE]
  <2>1. s \in ManifestRecord /\ s.status = "Created" /\ r.status = "Created"
    BY <1>0, <1>3 DEF SubmitDriverSignature, ManifestRecord
  <2>2. manifests' = [manifests EXCEPT ![m] = MaybeStartCustody(s)]
    BY <1>3 DEF SubmitDriverSignature
  <2> QED BY <1>0, <2>1, <2>2, MaybeStartCustodyStatus, WriteMoves
<1>4. ASSUME NEW n \in Count, ConfirmDelivery(a, m, n)
      PROVE  [Chain!ChainNext]_stageBar
  <2>1. Closed(r, n) \in ManifestRecord
    BY <1>0, <1>4, ClosedSound DEF ConfirmDelivery
  <2>2. Closed(r, n).status \in {"Delivered", "Short"} /\ r.status = "InCustody"
    BY <1>0, <1>4 DEF ConfirmDelivery, OpenForDelivery, Closed, ManifestRecord
  <2> QED BY <1>0, <1>4, <2>1, <2>2, WriteMoves DEF ConfirmDelivery
<1>5. CASE MarkDisputed(a, m)
  <2> DEFINE s == [r EXCEPT !.status = "Disputed"]
  <2>1. s \in ManifestRecord /\ s.status = "Disputed"
    BY <1>0 DEF ManifestRecord, Stage
  <2>2. manifests' = [manifests EXCEPT ![m] = s] /\ r.status # "None"
    BY <1>5 DEF MarkDisputed
  <2> QED BY <1>0, <2>1, <2>2, WriteMoves
<1> QED BY <1>1, <1>2, <1>3, <1>4, <1>5 DEF Relay

\* CustodyManifest.sol implements CustodyChain, the interface of Escrow.sol.
THEOREM CustodyRefinement == CustodySpec => ImplementsCustodyChain
<1>1. CustodyInit => Chain!ChainInit
  BY DEF CustodyInit, Chain!ChainInit, NoManifest
<1>2. CustodyInv /\ [CustodyNext]_custodyVars => [Chain!ChainNext]_stageBar
  <2> SUFFICES ASSUME CustodyInv, [CustodyNext]_custodyVars
               PROVE  [Chain!ChainNext]_stageBar
    OBVIOUS
  <2>1. CASE manifests' = manifests
    BY <2>1 DEF stageBar
  <2>2. CASE \E a \in Account, m \in Manifest : Relay(a, m)
    BY <2>2, RelayMoves
  <2> QED BY <2>1, <2>2
          DEF CustodyNext, Administer, TransferOwnership, SetPlatform, Sign, NextBlock, custodyVars
<1> QED BY <1>1, <1>2, CustodyInvariant, PTL
        DEF CustodySpec, ImplementsCustodyChain, Chain!ChainSpec, stageBar

-------------------------------------------------------------------------------
(***************************************************************************)
(* The scanner page, the log of scans and the verifications that read it.  *)
(***************************************************************************)
\* A scan of the page: the number it was given, and the piece.
AnyItem == [nonce: Nat \ {0}, piece: Piece]

AnyEvent == [ scanner: {"page", "other"}, piece: Piece \cup Watched,
              manifest: Manifests \cup {None},
              context: {"LOADING", "UNLOADING", "SIGHTING"}, late: BOOLEAN ]

PageState == [ seen: SUBSET Piece, queue: Seq(AnyItem), sending: Seq(AnyItem), taken: BOOLEAN,
               saving: SUBSET AnyItem, nonce: Nat ]

StoreTyped ==
  /\ page \in PageState
  /\ stored \subseteq AnyItem /\ IsFiniteSet(stored)
  /\ \A post \in posts : post.batch \in Seq(AnyItem)
  /\ log \subseteq AnyEvent

\* The scans that wait to be sent or saved.  Each has a number of its own, given by the page.
Items == stored \cup page.saving \cup ToSet(page.queue)

ItemsSound ==
  /\ Items \subseteq AnyItem
  /\ \A i \in Items : i.nonce <= page.nonce
  /\ \A i, j \in Items : i.nonce = j.nonce => i = j

\* What the page is sending is the head of its queue, and in the log once it is taken.
SendingSound ==
  /\ Len(page.sending) <= Len(page.queue)
  /\ \A k \in 1 .. Len(page.sending) : page.sending[k] = page.queue[k]
  /\ page.taken => Flushing
  /\ page.taken => \A i \in ToSet(page.sending) : i.piece \in Scanned(Home, "UNLOADING")

StoreInv == StoreTyped /\ ItemsSound /\ SendingSound /\ ScanIsKept

AnyStatus == {"InCustody", "Delivered", "Short", "Disputed"}

\* The delivery ended Home's custody, and a dispute leaves its time alone.
ChainSound ==
  /\ custody \in [Manifests -> AnyStatus]
  /\ delivered \in {"no", "recently", "long ago"}
  /\ HomeClosed => delivered # "no"
  /\ delivered # "no" => custody[Home] # "InCustody"

\* A piece that a late scan may find: unloaded, or of a disputed manifest.
Excused(p) == p \in Scanned(Home, "UNLOADING") \/ custody[Home] = "Disputed"

\* What a verification has found is still true.
Phase == {"idle", "history", "active", "home", "missing", "answer"}
AnyVerdict == {"none", "CLEAN", "UNKNOWN_PIECE", "NOT_ON_MANIFEST", "DUPLICATE_LIFE",
               "POST_CLOSURE_SIGHTING"}
RequestState ==
  [ pc: Phase, piece: Watched \cup {None}, answers: BOOLEAN, history: SUBSET AnyEvent,
    todo: SUBSET (Manifests \cup {None}), active: Nat, verdict: AnyVerdict,
    late: BOOLEAN, cloned: BOOLEAN ]

RequestSound(q) ==
  /\ q.pc # "idle" => q.piece \in Watched
  /\ q.cloned => Foreign(q.piece, History(q.piece)) # {}
  /\ q.late => custody[Home] # "InCustody" /\ AfterClosure(History(q.piece)) # {}
  /\ q.pc \in {"active", "home", "missing"} =>
       q.piece \in Piece /\ ~q.cloned /\ (q.late => AfterClosure(q.history) # {})
  /\ q.pc = "answer" /\ q.verdict = "CLEAN" =>
       /\ q.piece \in Piece /\ ~q.cloned
       /\ q.late => Excused(q.piece)

RequestsInv ==
  /\ req \in [Request -> RequestState]
  /\ \A r \in Request : RequestSound(req[r])

PieceInv == StoreInv /\ ChainSound /\ RequestsInv

-------------------------------------------------------------------------------
\* loadQueue: the queue it builds from the store holds what is stored, and no more.
LEMMA SetToSeqCovers ==
  ASSUME NEW S, IsFiniteSet(S)
  PROVE  SetToSeq(S) \in Seq(S) /\ ToSet(SetToSeq(S)) = S
<1> DEFINE n == Cardinality(S)
           f == SetToSeq(S)
<1>1. n \in Nat /\ ExistsBijection(1 .. n, S)
  BY FS_CardinalityType
<1>2. PICK g \in [1 .. n -> S] : IsInjective(g)
  BY <1>1 DEF ExistsBijection, Bijection, Injection
<1>3. f \in [1 .. n -> S] /\ IsInjective(f)
  BY <1>2 DEF SetToSeq
<1> HIDE DEF f
<1> DEFINE T == {f[i] : i \in 1 .. n}
<1>4. T \subseteq S /\ IsFiniteSet(T)
  <2>1. T \subseteq S
    BY <1>3
  <2> HIDE DEF T
  <2> QED BY <2>1, FS_Subset
<1>5. f \in Bijection(1 .. n, T)
  <2>1. f \in [1 .. n -> T]
    BY <1>3
  <2>2. \A t \in T : \E i \in 1 .. n : f[i] = t
    OBVIOUS
  <2> QED BY <1>3, <2>1, <2>2 DEF Bijection, Injection, Surjection, IsInjective
<1>6. Cardinality(T) = n
  <2> HIDE DEF T
  <2>1. ExistsBijection(1 .. n, T)
    BY <1>5 DEF ExistsBijection
  <2>2. Cardinality(1 .. n) = n /\ IsFiniteSet(1 .. n)
    BY <1>1, FS_Interval
  <2> QED BY <1>1, <1>4, <2>1, <2>2, FS_Bijection, FS_SameCardinalityBij
<1>7. T = S
  <2> HIDE DEF T
  <2> QED BY <1>4, <1>6, FS_Subset
<1>8. ToSet(f) = T
  BY <1>3 DEF ToSet
<1>9. f \in Seq(S)
  BY <1>1, <1>3
<1> QED BY <1>7, <1>8, <1>9 DEF f

LEMMA AppendSet ==
  ASSUME NEW S, NEW s \in Seq(S), NEW x \in S
  PROVE  /\ Append(s, x) \in Seq(S) /\ Len(Append(s, x)) = Len(s) + 1
         /\ \A k \in 1 .. Len(s) : Append(s, x)[k] = s[k]
         /\ ToSet(Append(s, x)) = ToSet(s) \cup {x}
<1>1. /\ Append(s, x) \in Seq(S) /\ Len(Append(s, x)) = Len(s) + 1
      /\ \A k \in 1 .. Len(s) : Append(s, x)[k] = s[k]
      /\ Append(s, x)[Len(s) + 1] = x
      /\ DOMAIN s = 1 .. Len(s) /\ Len(s) \in Nat
      /\ DOMAIN Append(s, x) = 1 .. Len(s) + 1
  OBVIOUS
<1>2. 1 .. Len(s) + 1 = (1 .. Len(s)) \cup {Len(s) + 1}
  BY <1>1
<1>3. ToSet(Append(s, x)) \subseteq ToSet(s) \cup {x}
  BY <1>1, <1>2 DEF ToSet
<1>4. Len(s) + 1 \in DOMAIN Append(s, x) /\ DOMAIN s \subseteq DOMAIN Append(s, x)
  BY <1>1
<1>5. x \in ToSet(Append(s, x))
  BY <1>1, <1>4, Zenon DEF ToSet
<1>6. ToSet(s) \subseteq ToSet(Append(s, x))
  BY <1>1, <1>4 DEF ToSet
<1> QED BY <1>1, <1>3, <1>5, <1>6

\* A sequence is its first n elements and the others.
LEMMA SplitSet ==
  ASSUME NEW S, NEW s \in Seq(S), NEW n \in 0 .. Len(s)
  PROVE  /\ SubSeq(s, 1, n) \in Seq(S) /\ Len(SubSeq(s, 1, n)) = n
         /\ \A k \in 1 .. n : SubSeq(s, 1, n)[k] = s[k]
         /\ SubSeq(s, n + 1, Len(s)) \in Seq(S)
         /\ ToSet(s) = ToSet(SubSeq(s, 1, n)) \cup ToSet(SubSeq(s, n + 1, Len(s)))
<1> DEFINE a == SubSeq(s, 1, n)
           b == SubSeq(s, n + 1, Len(s))
<1>1. /\ a \in Seq(S) /\ Len(a) = n /\ DOMAIN a = 1 .. n
      /\ \A k \in 1 .. n : a[k] = s[k]
  OBVIOUS
<1>2. /\ b \in Seq(S) /\ DOMAIN b = 1 .. Len(s) - n
      /\ \A k \in 1 .. Len(s) - n : b[k] = s[k + n]
  OBVIOUS
<1>3. DOMAIN s = 1 .. Len(s)
  OBVIOUS
<1>4. ASSUME NEW x \in ToSet(s)  PROVE x \in ToSet(a) \cup ToSet(b)
  <2>1. PICK k \in 1 .. Len(s) : x = s[k]
    BY <1>3 DEF ToSet
  <2>2. CASE k <= n
    BY <1>1, <2>1, <2>2 DEF ToSet
  <2>3. CASE k > n
    <3>1. k - n \in 1 .. Len(s) - n /\ b[k - n] = s[k]
      BY <1>2, <2>1, <2>3
    <3> QED BY <1>2, <2>1, <3>1 DEF ToSet
  <2> QED BY <2>2, <2>3
<1>5. ToSet(a) \subseteq ToSet(s)
  BY <1>1, <1>3 DEF ToSet
<1>6. ToSet(b) \subseteq ToSet(s)
  <2>1. \A k \in 1 .. Len(s) - n : k + n \in 1 .. Len(s)
    OBVIOUS
  <2> QED BY <1>2, <1>3, <2>1 DEF ToSet
<1> QED BY <1>1, <1>2, <1>4, <1>5, <1>6

LEMMA SetOfSeq ==
  ASSUME NEW S, NEW s \in Seq(S)
  PROVE  /\ ToSet(s) \subseteq S
         /\ \A k \in 1 .. Len(s) : s[k] \in ToSet(s)
BY DEF ToSet

-------------------------------------------------------------------------------
\* The log only grows, and what it says of a piece stays true.
LEMMA LogGrows ==
  ASSUME log \subseteq log'
  PROVE  /\ \A m, c : Scanned(m, c) \subseteq Scanned(m, c)'
         /\ \A p : History(p) \subseteq History(p)'
<1>1. \A m, c : Scanned(m, c) \subseteq Scanned(m, c)'
  BY DEF Scanned
<1>2. \A p : History(p) \subseteq History(p)'
  BY DEF History
<1> QED BY <1>1, <1>2

\* A batch that the server takes is logged, as often as it comes.
LEMMA AppendLogs ==
  ASSUME StoreTyped, NEW items, items \subseteq AnyItem, append(items)
  PROVE  /\ log \subseteq log' /\ log' \subseteq AnyEvent
         /\ \A i \in items : i.piece \in Scanned(Home, "UNLOADING")'
<1> DEFINE added == {Event("page", i.piece, Home, "UNLOADING") : i \in items}
<1>1. log' = log \cup added
  BY DEF append
<1>2. added \subseteq AnyEvent
  <2>1. ASSUME NEW i \in items  PROVE Event("page", i.piece, Home, "UNLOADING") \in AnyEvent
    <3>1. i.piece \in Piece
      BY DEF AnyItem
    <3> QED BY <3>1 DEF Event, AnyEvent, Manifests
  <2> QED BY <2>1
<1>3. ASSUME NEW i \in items  PROVE i.piece \in Scanned(Home, "UNLOADING")'
  <2>1. PICK e : e = Event("page", i.piece, Home, "UNLOADING")
    OBVIOUS
  <2>2. e \in log' /\ e.piece = i.piece /\ e.manifest = Home /\ e.context = "UNLOADING"
    BY <1>1, <2>1 DEF Event
  <2> QED BY <2>2 DEF Scanned
<1> QED BY <1>1, <1>2, <1>3 DEF StoreTyped

\* Nothing new comes up: the scans keep their numbers.
LEMMA ItemsKept ==
  ASSUME ItemsSound, Items' \subseteq Items, page'.nonce = page.nonce
  PROVE  ItemsSound'
BY DEF ItemsSound

-------------------------------------------------------------------------------
\* --- the scanner page and the log ------------------------------------------------
PageVars == <<page, stored, posts>>

\* A longer log disturbs nothing of the page.
LEMMA ElsewhereLogged ==
  ASSUME StoreInv, log \subseteq log', log' \subseteq AnyEvent, UNCHANGED PageVars
  PROVE  StoreInv'
<1>1. Items' = Items
  BY DEF Items, PageVars
<1>2. StoreTyped'
  BY DEF StoreInv, StoreTyped, PageVars
<1>3. ItemsSound'
  BY <1>1 DEF StoreInv, ItemsSound, PageVars
<1>4. Scanned(Home, "UNLOADING") \subseteq Scanned(Home, "UNLOADING")'
  BY LogGrows
<1>5. SendingSound' /\ ScanIsKept'
  BY <1>4 DEF StoreInv, SendingSound, Flushing, ScanIsKept, PageVars
<1> QED BY <1>2, <1>3, <1>5 DEF StoreInv

LEMMA StoreUnchanged ==
  ASSUME StoreInv, UNCHANGED <<PageVars, log>>
  PROVE  StoreInv'
BY ElsewhereLogged DEF StoreInv, StoreTyped

LEMMA ScanKeepsStore ==
  ASSUME StoreInv, NEW p \in Piece, Scan(p)
  PROVE  StoreInv'
<1> DEFINE item == [nonce |-> page.nonce + 1, piece |-> p]
<1>1. /\ page' = [page EXCEPT !.seen = @ \cup {p}, !.queue = Append(@, item),
                              !.saving = @ \cup {item}, !.nonce = @ + 1]
      /\ UNCHANGED <<log, stored, posts>>
  BY DEF Scan, server
<1>2. /\ page.nonce \in Nat /\ page.queue \in Seq(AnyItem) /\ page.sending \in Seq(AnyItem)
      /\ page.seen \subseteq Piece /\ page.saving \subseteq AnyItem /\ page.taken \in BOOLEAN
  BY DEF StoreInv, StoreTyped, PageState
<1>3. item \in AnyItem /\ item.nonce = page.nonce + 1 /\ item.piece = p
  BY <1>2 DEF AnyItem
<1> HIDE DEF item
<1>4. /\ page'.seen = page.seen \cup {p} /\ page'.queue = Append(page.queue, item)
      /\ page'.sending = page.sending /\ page'.saving = page.saving \cup {item}
      /\ page'.nonce = page.nonce + 1 /\ page'.taken = page.taken
  BY <1>1 DEF StoreInv, StoreTyped, PageState
<1>5. /\ page'.queue \in Seq(AnyItem) /\ Len(page'.queue) = Len(page.queue) + 1
      /\ \A k \in 1 .. Len(page.queue) : page'.queue[k] = page.queue[k]
      /\ ToSet(page'.queue) = ToSet(page.queue) \cup {item}
  BY <1>2, <1>3, <1>4, AppendSet
<1>7. Items' = Items \cup {item}
  BY <1>1, <1>4, <1>5 DEF Items
<1>8. StoreTyped'
  <2>1. page' \in PageState
    <3>1. /\ page'.seen \in SUBSET Piece /\ page'.saving \in SUBSET AnyItem
          /\ page'.nonce \in Nat
      BY <1>2, <1>3, <1>4
    <3>2. page' = [ seen |-> page'.seen, queue |-> page'.queue, sending |-> page'.sending,
                    taken |-> page'.taken, saving |-> page'.saving, nonce |-> page'.nonce ]
      BY <1>1 DEF StoreInv, StoreTyped, PageState
    <3> QED BY <1>2, <1>4, <1>5, <3>1, <3>2 DEF PageState
  <2> QED BY <1>1, <2>1 DEF StoreInv, StoreTyped
<1>9. ItemsSound'
  <2>1. \A i \in Items : i.nonce \in Nat /\ i.nonce <= page.nonce
    BY DEF StoreInv, ItemsSound, AnyItem
  <2>2. \A i \in Items' : i \in AnyItem /\ i.nonce <= page'.nonce
    BY <1>2, <1>3, <1>4, <1>7, <2>1 DEF StoreInv, ItemsSound
  <2>3. ASSUME NEW i \in Items', NEW j \in Items', i.nonce = j.nonce  PROVE i = j
    BY <1>2, <1>3, <1>7, <2>1, <2>3 DEF StoreInv, ItemsSound
  <2> QED BY <2>2, <2>3 DEF ItemsSound
<1>11. SendingSound'
  <2>1. Len(page.sending) \in Nat /\ Len(page.queue) \in Nat
    BY <1>2
  <2>2. 1 .. Len(page.sending) \subseteq 1 .. Len(page.queue)
    BY <2>1 DEF StoreInv, SendingSound
  <2>3. /\ Len(page'.sending) <= Len(page'.queue)
        /\ \A k \in 1 .. Len(page'.sending) : page'.sending[k] = page'.queue[k]
    BY <1>4, <1>5, <2>1, <2>2 DEF StoreInv, SendingSound
  <2> QED BY <1>1, <1>4, <2>3 DEF StoreInv, SendingSound, Flushing, Scanned
<1>12. ScanIsKept'
  <2>1. item \in ToSet(page'.queue)
    BY <1>5
  <2>2. p \in {i.piece : i \in ToSet(page'.queue)}
    BY <1>3, <2>1
  <2>3. ASSUME NEW s \in page.seen
        PROVE  s \in Scanned(Home, "UNLOADING")' \cup {i.piece : i \in ToSet(page'.queue)}
    BY <1>1, <1>5 DEF StoreInv, ScanIsKept, Scanned
  <2> QED BY <1>4, <2>2, <2>3 DEF ScanIsKept
<1> QED BY <1>8, <1>9, <1>11, <1>12 DEF StoreInv

LEMMA SaveKeepsStore ==
  ASSUME StoreInv, NEW item \in page.saving, Save(item)
  PROVE  StoreInv'
<1>1. /\ stored' = stored \cup {item} /\ page' = [page EXCEPT !.saving = @ \ {item}]
      /\ UNCHANGED <<log, posts>>
  BY DEF Save, server
<1>2. /\ page'.seen = page.seen /\ page'.queue = page.queue /\ page'.sending = page.sending
      /\ page'.saving = page.saving \ {item} /\ page'.nonce = page.nonce
      /\ page'.taken = page.taken /\ page' \in PageState
  BY <1>1 DEF StoreInv, StoreTyped, PageState
<1>3. item \in AnyItem
  BY DEF StoreInv, StoreTyped, PageState
<1>4. ItemsSound'
  <2>1. Items' \subseteq Items
    BY <1>1, <1>2 DEF Items
  <2> QED BY <1>2, <2>1, ItemsKept DEF StoreInv
<1>5. StoreTyped'
  <2>1. IsFiniteSet(stored')
    BY <1>1, FS_AddElement DEF StoreInv, StoreTyped
  <2> QED BY <1>1, <1>2, <1>3, <2>1 DEF StoreInv, StoreTyped
<1>6. SendingSound' /\ ScanIsKept'
  BY <1>1, <1>2 DEF StoreInv, SendingSound, Flushing, ScanIsKept, Scanned
<1> QED BY <1>4, <1>5, <1>6 DEF StoreInv

LEMMA FlushKeepsStore ==
  ASSUME StoreInv, BatchSize \in Nat \ {0}, Flush
  PROVE  StoreInv'
<1>1. page.queue \in Seq(AnyItem) /\ page.taken \in BOOLEAN
  BY DEF StoreInv, StoreTyped, PageState
<1>2. PICK n \in 1 .. Len(page.queue) : Batch = SubSeq(page.queue, 1, n)
  <2>1. Len(page.queue) \in Nat /\ Len(page.queue) > 0
    BY <1>1 DEF Flush
  <2>2. (IF Len(page.queue) < BatchSize THEN Len(page.queue) ELSE BatchSize)
          \in 1 .. Len(page.queue)
    BY <2>1
  <2> QED BY <2>2 DEF Batch
<1>3. PICK batch : batch = Batch
  OBVIOUS
<1>4. /\ batch \in Seq(AnyItem) /\ Len(batch) = n
      /\ \A k \in 1 .. n : batch[k] = page.queue[k]
  <2>1. n \in 0 .. Len(page.queue)
    BY <1>1, <1>2
  <2> QED BY <1>1, <1>2, <1>3, <2>1, SplitSet
<1>5. page' = [page EXCEPT !.sending = batch] /\ UNCHANGED <<log, stored, posts>>
  BY <1>3 DEF Flush, server
<1>6. /\ page'.seen = page.seen /\ page'.queue = page.queue /\ page'.sending = batch
      /\ page'.saving = page.saving /\ page'.nonce = page.nonce /\ page'.taken = page.taken
      /\ page' \in PageState
  BY <1>4, <1>5 DEF StoreInv, StoreTyped, PageState
<1>7. ItemsSound'
  <2>1. Items' \subseteq Items
    BY <1>5, <1>6 DEF Items
  <2> QED BY <1>6, <2>1, ItemsKept DEF StoreInv
<1>8. StoreTyped'
  BY <1>5, <1>6 DEF StoreInv, StoreTyped
<1>9. SendingSound'
  <2>1. ~page.taken
    BY DEF Flush, StoreInv, SendingSound
  <2> QED BY <1>1, <1>2, <1>4, <1>6, <2>1 DEF SendingSound, Flushing
<1>10. ScanIsKept'
  BY <1>5, <1>6 DEF StoreInv, ScanIsKept, Scanned
<1> QED BY <1>7, <1>8, <1>9, <1>10 DEF StoreInv

\* The awaited batch is taken: all of it is logged.
LEMMA ArriveKeepsStore ==
  ASSUME StoreInv, Arrive
  PROVE  StoreInv'
<1>1. /\ append(ToSet(page.sending)) /\ page' = [page EXCEPT !.taken = TRUE]
      /\ UNCHANGED <<stored, posts>>
  BY DEF Arrive
<1>2. /\ page'.seen = page.seen /\ page'.queue = page.queue /\ page'.sending = page.sending
      /\ page'.saving = page.saving /\ page'.nonce = page.nonce /\ page' \in PageState
  BY <1>1 DEF StoreInv, StoreTyped, PageState
<1>3. ToSet(page.sending) \subseteq AnyItem
  <2>1. page.sending \in Seq(AnyItem)
    BY DEF StoreInv, StoreTyped, PageState
  <2> QED BY <2>1, SetOfSeq
<1>4. /\ log \subseteq log' /\ log' \subseteq AnyEvent
      /\ \A i \in ToSet(page.sending) : i.piece \in Scanned(Home, "UNLOADING")'
  BY <1>1, <1>3, AppendLogs DEF StoreInv
<1>5. Scanned(Home, "UNLOADING") \subseteq Scanned(Home, "UNLOADING")'
  BY <1>4, LogGrows
<1>6. ItemsSound'
  <2>1. Items' \subseteq Items
    BY <1>1, <1>2 DEF Items
  <2> QED BY <1>2, <2>1, ItemsKept DEF StoreInv
<1>7. StoreTyped'
  BY <1>1, <1>2, <1>4 DEF StoreInv, StoreTyped
<1>8. SendingSound'
  BY <1>2, <1>4 DEF Arrive, StoreInv, SendingSound, Flushing
<1>9. ScanIsKept'
  BY <1>2, <1>5 DEF StoreInv, ScanIsKept
<1> QED BY <1>6, <1>7, <1>8, <1>9 DEF StoreInv

\* A request that was given up arrives after all: the log grows, the page does not know.
LEMMA ArriveLateKeepsStore ==
  ASSUME StoreInv, NEW post \in posts, ArriveLate(post)
  PROVE  StoreInv'
<1>1. append(ToSet(post.batch)) /\ posts' \subseteq posts /\ UNCHANGED <<page, stored>>
  BY DEF ArriveLate
<1>2. ToSet(post.batch) \subseteq AnyItem
  <2>1. post.batch \in Seq(AnyItem)
    BY DEF StoreInv, StoreTyped
  <2> QED BY <2>1, SetOfSeq
<1>3. log \subseteq log' /\ log' \subseteq AnyEvent
  BY <1>1, <1>2, AppendLogs DEF StoreInv
<1>4. Scanned(Home, "UNLOADING") \subseteq Scanned(Home, "UNLOADING")'
  BY <1>3, LogGrows
<1>5. ItemsSound'
  BY <1>1 DEF StoreInv, ItemsSound, Items
<1>6. StoreTyped'
  BY <1>1, <1>3 DEF StoreInv, StoreTyped
<1>7. SendingSound' /\ ScanIsKept'
  BY <1>1, <1>4 DEF StoreInv, SendingSound, Flushing, ScanIsKept
<1> QED BY <1>5, <1>6, <1>7 DEF StoreInv

\* What leaves the page has been logged.
LEMMA FlushedKeepsStore ==
  ASSUME StoreInv, Flushed
  PROVE  StoreInv'
<1> DEFINE n == Len(page.sending)
           rest == SubSeq(page.queue, n + 1, Len(page.queue))
<1>1. page.queue \in Seq(AnyItem) /\ page.sending \in Seq(AnyItem)
  BY DEF StoreInv, StoreTyped, PageState
<1>2. /\ stored' = stored \ ToSet(page.sending)
      /\ page' = [page EXCEPT !.sending = NotSending, !.taken = FALSE, !.queue = rest]
      /\ UNCHANGED <<log, posts>>
  BY DEF Flushed, server, StoreInv, StoreTyped, PageState
<1>3. n \in Nat /\ n <= Len(page.queue)
  BY <1>1 DEF StoreInv, SendingSound
<1>4. /\ SubSeq(page.queue, 1, n) \in Seq(AnyItem) /\ Len(SubSeq(page.queue, 1, n)) = n
      /\ \A k \in 1 .. n : SubSeq(page.queue, 1, n)[k] = page.queue[k]
      /\ rest \in Seq(AnyItem)
      /\ ToSet(page.queue) = ToSet(SubSeq(page.queue, 1, n)) \cup ToSet(rest)
  <2>1. n \in 0 .. Len(page.queue)
    BY <1>1, <1>3
  <2> QED BY <1>1, <2>1, SplitSet
<1>5. ToSet(SubSeq(page.queue, 1, n)) = ToSet(page.sending)
  <2>1. \A k \in 1 .. n : SubSeq(page.queue, 1, n)[k] = page.sending[k]
    BY <1>4 DEF StoreInv, SendingSound
  <2>2. DOMAIN SubSeq(page.queue, 1, n) = 1 .. n /\ DOMAIN page.sending = 1 .. n
    BY <1>1, <1>4
  <2> QED BY <2>1, <2>2 DEF ToSet
<1> HIDE DEF rest, n
<1>6. NotSending \in Seq(AnyItem) /\ Len(NotSending) = 0
  BY DEF NotSending
<1>7. /\ page'.seen = page.seen /\ page'.queue = rest /\ page'.sending = NotSending
      /\ page'.saving = page.saving /\ page'.nonce = page.nonce /\ page'.taken = FALSE
      /\ page' \in PageState
  BY <1>2, <1>4, <1>6 DEF StoreInv, StoreTyped, PageState
<1>8. ItemsSound'
  <2>1. Items' \subseteq Items
    BY <1>2, <1>4, <1>7 DEF Items
  <2> QED BY <1>7, <2>1, ItemsKept DEF StoreInv
<1>9. StoreTyped'
  <2>1. IsFiniteSet(stored')
    BY <1>2, FS_Subset DEF StoreInv, StoreTyped
  <2> QED BY <1>2, <1>7, <2>1 DEF StoreInv, StoreTyped
<1>10. SendingSound'
  BY <1>4, <1>6, <1>7 DEF SendingSound
<1>11. ScanIsKept'
  <2>1. \A i \in ToSet(page.sending) : i.piece \in Scanned(Home, "UNLOADING")
    BY DEF Flushed, StoreInv, SendingSound
  <2>2. Scanned(Home, "UNLOADING")' = Scanned(Home, "UNLOADING")
    BY <1>2 DEF Scanned
  <2>3. \A s \in page.seen :
          s \in Scanned(Home, "UNLOADING") \cup {i.piece : i \in ToSet(rest)}
    BY <1>4, <1>5, <2>1 DEF StoreInv, ScanIsKept
  <2> QED BY <1>7, <2>2, <2>3 DEF ScanIsKept
<1> QED BY <1>8, <1>9, <1>10, <1>11 DEF StoreInv

\* A request that is given up keeps the batch it carried.
LEMMA GivenUpTyped ==
  ASSUME StoreTyped, GiveUp
  PROVE  \A post \in posts' : post.batch \in Seq(AnyItem)
<1>1. PICK b : b = page.sending
  OBVIOUS
<1>2. b \in Seq(AnyItem)
  BY <1>1 DEF StoreTyped, PageState
<1>3. CASE UNCHANGED posts
  BY <1>3 DEF StoreTyped
<1>4. CASE posts' = posts \cup {[batch |-> b, number |-> failures]}
  BY <1>2, <1>4 DEF StoreTyped
<1> QED BY <1>1, <1>3, <1>4 DEF GiveUp

\* Refused, lost or unanswered: the batch stays at the head of the queue.
LEMMA UnsentKeepsStore ==
  ASSUME StoreInv, Refuse \/ LosePost
  PROVE  StoreInv'
<1>1. /\ page' = [page EXCEPT !.sending = NotSending, !.taken = FALSE]
      /\ UNCHANGED <<log, stored>>
  BY DEF Refuse, LosePost, server
<1>2. \A post \in posts' : post.batch \in Seq(AnyItem)
  <2>1. CASE Refuse
    BY <2>1 DEF Refuse, StoreInv, StoreTyped
  <2>2. CASE LosePost
    BY <2>2, GivenUpTyped DEF LosePost, StoreInv
  <2> QED BY <2>1, <2>2
<1>3. NotSending \in Seq(AnyItem) /\ Len(NotSending) = 0
  BY DEF NotSending
<1>4. /\ page'.seen = page.seen /\ page'.queue = page.queue /\ page'.sending = NotSending
      /\ page'.saving = page.saving /\ page'.nonce = page.nonce /\ page'.taken = FALSE
      /\ page' \in PageState
  BY <1>1, <1>3 DEF StoreInv, StoreTyped, PageState
<1>5. ItemsSound'
  <2>1. Items' \subseteq Items
    BY <1>1, <1>4 DEF Items
  <2> QED BY <1>4, <2>1, ItemsKept DEF StoreInv
<1>6. StoreTyped'
  BY <1>1, <1>2, <1>4 DEF StoreInv, StoreTyped
<1>7. SendingSound'
  <2>1. Len(page.queue) \in Nat
    BY DEF StoreInv, StoreTyped, PageState
  <2> QED BY <1>3, <1>4, <2>1 DEF SendingSound
<1>8. ScanIsKept'
  BY <1>1, <1>4 DEF StoreInv, ScanIsKept, Scanned
<1> QED BY <1>5, <1>6, <1>7, <1>8 DEF StoreInv

\* A reloaded page has seen what it has stored, and queues all of it.
LEMMA ReloadKeepsStore ==
  ASSUME StoreInv, Reload
  PROVE  StoreInv'
<1> DEFINE queue == SetToSeq(stored)
<1>1. /\ page' = [page EXCEPT !.seen = {i.piece : i \in stored}, !.queue = queue,
                              !.sending = NotSending, !.taken = FALSE, !.saving = {}]
      /\ UNCHANGED <<log, stored>>
  BY DEF Reload, server
<1>2. queue \in Seq(stored) /\ ToSet(queue) = stored
  BY SetToSeqCovers DEF StoreInv, StoreTyped
<1>3. queue \in Seq(AnyItem) /\ Len(queue) \in Nat
  <2>1. stored \subseteq AnyItem
    BY DEF StoreInv, StoreTyped
  <2> HIDE DEF queue
  <2> QED BY <1>2, <2>1
<1> HIDE DEF queue
<1>4. NotSending \in Seq(AnyItem) /\ Len(NotSending) = 0
  BY DEF NotSending
<1>5. {i.piece : i \in stored} \subseteq Piece
  BY DEF StoreInv, StoreTyped, AnyItem
<1>6. /\ page'.seen = {i.piece : i \in stored} /\ page'.queue = queue
      /\ page'.sending = NotSending /\ page'.saving = {} /\ page'.nonce = page.nonce
      /\ page'.taken = FALSE /\ page' \in PageState
  BY <1>1, <1>3, <1>4, <1>5 DEF StoreInv, StoreTyped, PageState
<1>7. ItemsSound'
  <2>1. Items' \subseteq Items
    BY <1>1, <1>2, <1>6 DEF Items
  <2> QED BY <1>6, <2>1, ItemsKept DEF StoreInv
<1>8. StoreTyped'
  <2>1. \A post \in posts' : post.batch \in Seq(AnyItem)
    BY GivenUpTyped DEF Reload, StoreInv
  <2> QED BY <1>1, <1>6, <2>1 DEF StoreInv, StoreTyped
<1>9. SendingSound'
  BY <1>3, <1>4, <1>6 DEF SendingSound
<1>10. ScanIsKept'
  BY <1>1, <1>2, <1>6 DEF ScanIsKept
<1> QED BY <1>7, <1>8, <1>9, <1>10 DEF StoreInv

-------------------------------------------------------------------------------
\* --- verifications and sweeps ----------------------------------------------------
\* What others do meanwhile: the log may grow, and delivery and dispute are final.
Onward ==
  /\ log \subseteq log'
  /\ custody[Home] = "Disputed" => custody'[Home] = "Disputed"
  /\ custody[Home] # "InCustody" => custody'[Home] # "InCustody"

LEMMA RequestKept ==
  ASSUME NEW q, RequestSound(q), Onward
  PROVE  RequestSound(q)'
<1>1. History(q.piece) \subseteq History(q.piece)'
  BY LogGrows DEF Onward
<1>2. Foreign(q.piece, History(q.piece)) \subseteq Foreign(q.piece, History(q.piece))'
  BY <1>1 DEF Foreign
<1>3. AfterClosure(History(q.piece)) \subseteq AfterClosure(History(q.piece))'
  BY <1>1 DEF AfterClosure
<1>4. Scanned(Home, "UNLOADING") \subseteq Scanned(Home, "UNLOADING")'
  BY LogGrows DEF Onward
<1>5. AfterClosure(q.history)' = AfterClosure(q.history)
  BY DEF AfterClosure
<1> QED BY <1>2, <1>3, <1>4, <1>5 DEF RequestSound, Onward, Excused

LEMMA RequestsKept ==
  ASSUME RequestsInv, Onward, UNCHANGED req
  PROVE  RequestsInv'
<1>1. ASSUME NEW s \in Request  PROVE RequestSound(req[s])'
  <2>1. PICK q : q = req[s]
    OBVIOUS
  <2>2. RequestSound(q)'
    BY <2>1, RequestKept DEF RequestsInv
  <2>3. req'[s] = q
    BY <2>1
  <2> QED BY <2>2, <2>3 DEF RequestSound
<1> QED BY <1>1 DEF RequestsInv

LEMMA RequestMoves ==
  ASSUME RequestsInv, Onward, NEW r \in Request, NEW q \in RequestState, RequestSound(q)',
         Become(r, q)
  PROVE  RequestsInv'
<1>1. ASSUME NEW s \in Request  PROVE RequestSound(req[s])'
  <2>1. PICK t : t = IF s = r THEN q ELSE req[s]
    OBVIOUS
  <2>2. RequestSound(t)'
    BY <2>1, RequestKept DEF RequestsInv
  <2>3. req'[s] = t
    BY <2>1 DEF Become, RequestsInv
  <2> QED BY <2>2, <2>3 DEF RequestSound
<1>2. req' \in [Request -> RequestState]
  BY DEF Become, RequestsInv
<1> QED BY <1>1, <1>2 DEF RequestsInv

LEMMA IdleSound == Idle \in RequestState /\ RequestSound(Idle)'
BY DEF Idle, RequestState, RequestSound, Phase, AnyVerdict

\* finish: the verdict is one a sweep or a verification may give.
LEMMA VerdictKeeps ==
  ASSUME RequestsInv, Onward, NEW r \in Request, NEW v \in AnyVerdict, req[r].pc # "idle",
         Verdict(r, v),
         v = "CLEAN" => /\ req[r].piece \in Piece /\ ~req[r].cloned
                        /\ req[r].late => Excused(req[r].piece)
  PROVE  RequestsInv'
<1>1. PICK c : c = req[r]
  OBVIOUS
<1>2. c \in RequestState /\ RequestSound(c)
  BY <1>1 DEF RequestsInv
<1>3. CASE c.answers
  <2>1. PICK q : q = [c EXCEPT !.pc = "answer", !.verdict = v, !.history = {}]
    OBVIOUS
  <2>2. /\ q.pc = "answer" /\ q.verdict = v /\ q.piece = c.piece /\ q.cloned = c.cloned
        /\ q.late = c.late
    BY <1>2, <2>1 DEF RequestState
  <2>3. q \in RequestState
    BY <1>2, <2>1 DEF RequestState, Phase
  <2>4. RequestSound(c)'
    BY <1>2, RequestKept
  <2>5. Excused(c.piece) => Excused(c.piece)'
    BY LogGrows DEF Onward, Excused
  <2>6. RequestSound(q)'
    BY <1>1, <2>2, <2>4, <2>5 DEF RequestSound
  <2>7. Become(r, q)
    BY <1>1, <1>3, <2>1 DEF Verdict
  <2> QED BY <2>3, <2>6, <2>7, RequestMoves
<1>4. CASE ~c.answers
  <2>1. Become(r, Idle)
    BY <1>1, <1>4 DEF Verdict
  <2> QED BY <2>1, IdleSound, RequestMoves
<1> QED BY <1>3, <1>4

\* A verification's own scan is logged before it is judged: a late one is in its history.
LEMMA BeginKeeps ==
  ASSUME PieceInv, NEW r \in Request, NEW p \in Watched, NEW a \in BOOLEAN, NEW d \in BOOLEAN,
         Onward, Begin(r, [Idle EXCEPT !.piece = p, !.answers = a, !.late = d]),
         d => custody'[Home] # "InCustody" /\ AfterClosure(History(p))' # {}
  PROVE  RequestsInv'
<1>1. PICK f : f = (Foreign(p, History(p)) # {})
  OBVIOUS
<1>2. f \in BOOLEAN /\ (f => Foreign(p, History(p)) # {})
  BY <1>1
<1>3. PICK q : q = [Idle EXCEPT !.piece = p, !.answers = a, !.late = d,
                                !.pc = "history", !.cloned = f]
  OBVIOUS
<1>4. /\ q.pc = "history" /\ q.piece = p /\ q.cloned = f /\ q.late = d
      /\ q \in RequestState
  BY <1>2, <1>3 DEF Idle, RequestState, Phase, AnyVerdict
<1>5. Foreign(p, History(p)) \subseteq Foreign(p, History(p))'
  BY LogGrows DEF Onward, Foreign
<1>6. RequestSound(q)'
  BY <1>2, <1>4, <1>5 DEF RequestSound
<1>7. Become(r, q)
  BY <1>1, <1>3 DEF Begin, Idle
<1> QED BY <1>4, <1>6, <1>7, RequestMoves DEF PieceInv

LEMMA ReadHistoryKeeps ==
  ASSUME PieceInv, NEW r \in Request, ReadHistory(r)
  PROVE  RequestsInv'
<1>1. Onward /\ req[r].pc = "history"
  BY DEF ReadHistory, Step, server, Onward
<1>2. PICK c : c = req[r]
  OBVIOUS
<1>3. c \in RequestState /\ RequestSound(c)
  BY <1>2 DEF PieceInv, RequestsInv
<1> DEFINE history == History(c.piece)
<1>4. CASE Verdict(r, "UNKNOWN_PIECE") \/ Verdict(r, "NOT_ON_MANIFEST")
  BY <1>1, <1>4, VerdictKeeps DEF PieceInv, AnyVerdict
<1>5. CASE /\ HomeOf(c.piece) # None /\ Foreign(c.piece, history) = {}
           /\ Become(r, [c EXCEPT !.pc = "active", !.history = history,
                           !.todo = {e.manifest : e \in history} \ {None}])
  <2>1. PICK h : h = history
    OBVIOUS
  <2>2. h \subseteq AnyEvent
    BY <2>1 DEF History, PieceInv, StoreInv, StoreTyped
  <2>3. PICK q : q = [c EXCEPT !.pc = "active", !.history = h,
                        !.todo = {e.manifest : e \in h} \ {None}]
    OBVIOUS
  <2>4. {e.manifest : e \in h} \ {None} \subseteq Manifests \cup {None}
    BY <2>2 DEF AnyEvent
  <2>5. /\ q.pc = "active" /\ q.piece = c.piece /\ q.cloned = c.cloned /\ q.late = c.late
        /\ q.history = h /\ q \in RequestState
    BY <1>3, <2>2, <2>3, <2>4 DEF RequestState, Phase
  <2>6. c.piece \in Piece
    BY <1>5 DEF HomeOf
  <2>7. ~c.cloned /\ (c.late => AfterClosure(h) # {})
    BY <1>3, <1>5, <2>1 DEF RequestSound
  <2>8. AfterClosure(h)' = AfterClosure(h)
    BY DEF AfterClosure
  <2>9. RequestSound(c)'
    BY <1>1, <1>3, RequestKept
  <2>10. RequestSound(q)'
    BY <1>1, <1>2, <2>5, <2>6, <2>7, <2>8, <2>9 DEF RequestSound
  <2>11. Become(r, q)
    BY <1>5, <2>1, <2>3
  <2> QED BY <1>1, <2>5, <2>10, <2>11, RequestMoves DEF PieceInv
<1>6. \/ Verdict(r, "UNKNOWN_PIECE") \/ Verdict(r, "NOT_ON_MANIFEST")
      \/ /\ HomeOf(c.piece) # None /\ Foreign(c.piece, history) = {}
         /\ Become(r, [c EXCEPT !.pc = "active", !.history = history,
                         !.todo = {e.manifest : e \in history} \ {None}])
  BY <1>2 DEF ReadHistory
<1> QED BY <1>4, <1>5, <1>6

LEMMA CountActiveKeeps ==
  ASSUME PieceInv, NEW r \in Request, CountActive(r)
  PROVE  RequestsInv'
<1>1. Onward /\ req[r].pc = "active"
  BY DEF CountActive, Step, server, Onward
<1>2. PICK c : c = req[r]
  OBVIOUS
<1>3. c \in RequestState /\ RequestSound(c) /\ c.pc = "active"
  BY <1>1, <1>2 DEF PieceInv, RequestsInv
<1>4. RequestSound(c)'
  BY <1>1, <1>3, RequestKept
<1>5. CASE \E m \in c.todo :
             Become(r, [c EXCEPT !.todo = @ \ {m},
                          !.active = @ + IF custody[m] = "InCustody" THEN 1 ELSE 0])
  <2>1. PICK m \in c.todo, k \in {0, 1} :
          Become(r, [c EXCEPT !.todo = @ \ {m}, !.active = @ + k])
    BY <1>5
  <2>2. PICK q : q = [c EXCEPT !.todo = @ \ {m}, !.active = @ + k]
    OBVIOUS
  <2>3. /\ q.pc = "active" /\ q.piece = c.piece /\ q.cloned = c.cloned /\ q.late = c.late
        /\ q.history = c.history /\ q \in RequestState
    <3>1. c.active + k \in Nat /\ c.todo \ {m} \in SUBSET (Manifests \cup {None})
      BY <1>3, <2>1 DEF RequestState
    <3> QED BY <1>3, <2>2, <3>1 DEF RequestState
  <2>4. RequestSound(q)'
    BY <1>3, <1>4, <2>3 DEF RequestSound
  <2> QED BY <1>1, <2>1, <2>2, <2>3, <2>4, RequestMoves DEF PieceInv
<1>6. CASE Verdict(r, "DUPLICATE_LIFE")
  BY <1>1, <1>6, VerdictKeeps DEF PieceInv, AnyVerdict
<1>7. CASE Become(r, [c EXCEPT !.pc = "home"])
  <2>1. PICK q : q = [c EXCEPT !.pc = "home"]
    OBVIOUS
  <2>2. /\ q.pc = "home" /\ q.piece = c.piece /\ q.cloned = c.cloned /\ q.late = c.late
        /\ q.history = c.history /\ q \in RequestState
    BY <1>3, <2>1 DEF RequestState, Phase
  <2>3. RequestSound(q)'
    BY <1>3, <1>4, <2>2 DEF RequestSound
  <2> QED BY <1>1, <1>7, <2>1, <2>2, <2>3, RequestMoves DEF PieceInv
<1> QED BY <1>2, <1>5, <1>6, <1>7 DEF CountActive

\* No scan is late while the manifest is in custody: one that is not closed by then is
\* disputed.
LEMMA SyncHomeKeeps ==
  ASSUME PieceInv, NEW r \in Request, SyncHome(r)
  PROVE  RequestsInv'
<1>1. Onward /\ req[r].pc = "home"
  BY DEF SyncHome, Step, server, Onward
<1>2. PICK c : c = req[r]
  OBVIOUS
<1>3. c \in RequestState /\ RequestSound(c) /\ c.pc = "home"
  BY <1>1, <1>2 DEF PieceInv, RequestsInv
<1>4. CASE HomeClosed
  <2>1. PICK q : q = [c EXCEPT !.pc = "missing"]
    OBVIOUS
  <2>2. /\ q.pc = "missing" /\ q.piece = c.piece /\ q.cloned = c.cloned /\ q.late = c.late
        /\ q.history = c.history /\ q \in RequestState
    BY <1>3, <2>1 DEF RequestState, Phase
  <2>3. RequestSound(c)'
    BY <1>1, <1>3, RequestKept
  <2>4. RequestSound(q)'
    BY <1>3, <2>2, <2>3 DEF RequestSound
  <2>5. Become(r, q)
    BY <1>2, <1>4, <2>1 DEF SyncHome
  <2> QED BY <1>1, <2>2, <2>4, <2>5, RequestMoves DEF PieceInv
<1>5. CASE ~HomeClosed
  <2>1. Verdict(r, "CLEAN")
    BY <1>5 DEF SyncHome
  <2>2. c.piece \in Piece /\ ~c.cloned /\ (c.late => Excused(c.piece))
    <3>1. custody[Home] \in AnyStatus
      BY DEF PieceInv, ChainSound, Manifests
    <3>2. c.late => custody[Home] = "Disputed"
      BY <1>3, <1>5, <3>1 DEF RequestSound, HomeClosed, AnyStatus
    <3> QED BY <1>3, <3>2 DEF RequestSound, Excused
  <2>3. "CLEAN" \in AnyVerdict
    BY DEF AnyVerdict
  <2> QED BY <1>1, <1>2, <2>1, <2>2, <2>3, VerdictKeeps DEF PieceInv
<1> QED BY <1>4, <1>5

LEMMA JudgeMissingKeeps ==
  ASSUME PieceInv, NEW r \in Request, JudgeMissing(r)
  PROVE  RequestsInv'
<1>1. Onward /\ req[r].pc = "missing"
  BY DEF JudgeMissing, Step, server, Onward
<1>2. PICK c : c = req[r]
  OBVIOUS
<1>3. c \in RequestState /\ RequestSound(c) /\ c.pc = "missing"
  BY <1>1, <1>2 DEF PieceInv, RequestsInv
<1>4. PICK v \in {"POST_CLOSURE_SIGHTING", "CLEAN"} :
        /\ Verdict(r, v)
        /\ v = "CLEAN" => \/ AfterClosure(c.history) = {}
                          \/ c.piece \in Scanned(Home, "UNLOADING")
  BY <1>2 DEF JudgeMissing
<1>5. v = "CLEAN" => /\ c.piece \in Piece /\ ~c.cloned
                     /\ c.late => Excused(c.piece)
  BY <1>3, <1>4 DEF RequestSound, Excused
<1>6. v \in AnyVerdict
  BY DEF AnyVerdict
<1> QED BY <1>1, <1>2, <1>4, <1>5, <1>6, VerdictKeeps DEF PieceInv

LEMMA AnswerKeeps ==
  ASSUME PieceInv, NEW r \in Request, Answer(r)
  PROVE  RequestsInv'
<1>1. Onward
  BY DEF Answer, Step, server, Onward
<1> QED BY <1>1, IdleSound, RequestMoves DEF Answer, PieceInv

-------------------------------------------------------------------------------
LEMMA Started == PieceInit => PieceInv
<1> SUFFICES ASSUME PieceInit  PROVE PieceInv
  OBVIOUS
<1>1. /\ page.seen = {} /\ page.queue = <<>> /\ page.sending = <<>> /\ page.saving = {}
      /\ page.nonce = 0 /\ page.taken = FALSE /\ stored = {} /\ posts = {} /\ log = {}
  BY DEF PieceInit, NotSending
<1>2. ToSet(<<>>) = {}
  BY DEF ToSet
<1>4. Items = {}
  BY <1>1, <1>2 DEF Items
<1>5. StoreTyped
  <2>1. <<>> \in Seq(AnyItem)
    OBVIOUS
  <2> QED BY <1>1, <2>1, FS_EmptySet DEF PieceInit, NotSending, StoreTyped, PageState
<1>6. ItemsSound /\ SendingSound /\ ScanIsKept
  BY <1>1, <1>4 DEF ItemsSound, SendingSound, ScanIsKept
<1>7. ChainSound
  BY DEF PieceInit, ChainSound, Manifests, AnyStatus, HomeClosed
<1>8. Idle \in RequestState /\ RequestSound(Idle)
  BY DEF Idle, RequestState, RequestSound, Phase, AnyVerdict
<1>9. RequestsInv
  <2>1. \A r \in Request : req[r] = Idle
    BY DEF PieceInit
  <2> QED BY <1>8, <2>1 DEF PieceInit, RequestsInv
<1> QED BY <1>5, <1>6, <1>7, <1>9 DEF PieceInv, StoreInv

LEMMA PageKeeps ==
  ASSUME PieceInv, PageNext
  PROVE  PieceInv'
<1>1. StoreInv'
  BY ScanKeepsStore, SaveKeepsStore, ArriveKeepsStore, ArriveLateKeepsStore, FlushKeepsStore,
     FlushedKeepsStore, UnsentKeepsStore, ReloadKeepsStore, PieceAssumption
     DEF PageNext, PieceInv
<1>2. UNCHANGED <<custody, delivered, req>> /\ log \subseteq log'
  BY DEF PageNext, Scan, Save, Arrive, ArriveLate, append, Flush, Flushed, Refuse, LosePost,
         Reload, server
<1>3. ChainSound'
  BY <1>2 DEF PieceInv, ChainSound, HomeClosed
<1>4. RequestsInv'
  BY <1>2, RequestsKept DEF PieceInv, Onward
<1> QED BY <1>1, <1>3, <1>4 DEF PieceInv

LEMMA SightingLogged ==
  ASSUME PieceInv, NEW p \in Watched, UNCHANGED PageVars,
         log' = log \cup {Event("other", p, None, "SIGHTING")}
  PROVE  StoreInv'
<1>1. Event("other", p, None, "SIGHTING") \in AnyEvent
  BY DEF Event, AnyEvent
<1>2. log \subseteq log' /\ log' \subseteq AnyEvent
  BY <1>1 DEF PieceInv, StoreInv, StoreTyped
<1> QED BY <1>2, ElsewhereLogged DEF PieceInv

LEMMA RecordScanKeeps ==
  ASSUME PieceInv, NEW p \in Piece, NEW m \in Manifests, NEW c \in {"LOADING", "UNLOADING"},
         RecordScan(p, m, c)
  PROVE  PieceInv'
<1>1. /\ log' = log \cup {Event("other", p, m, c)} /\ UNCHANGED <<custody, delivered, req>>
      /\ UNCHANGED PageVars
  BY DEF RecordScan, PageVars
<1>2. Event("other", p, m, c) \in AnyEvent
  BY DEF Event, AnyEvent
<1>3. log \subseteq log' /\ log' \subseteq AnyEvent
  BY <1>1, <1>2 DEF PieceInv, StoreInv, StoreTyped
<1>4. StoreInv'
  BY <1>1, <1>3, ElsewhereLogged DEF PieceInv
<1>5. ChainSound'
  BY <1>1 DEF PieceInv, ChainSound, HomeClosed
<1>6. RequestsInv'
  BY <1>1, RequestsKept DEF PieceInv, Onward
<1> QED BY <1>4, <1>5, <1>6 DEF PieceInv

LEMMA CloseKeeps ==
  ASSUME PieceInv, NEW m \in Manifests, Close(m) \/ markDisputed \/ MinutePasses
  PROVE  PieceInv'
<1>1. UNCHANGED <<PageVars, log, req>>
  BY DEF Close, markDisputed, MinutePasses, PageVars
<1>2. StoreInv'
  BY <1>1, StoreUnchanged DEF PieceInv
<1>3. /\ custody \in [Manifests -> AnyStatus] /\ Home \in Manifests
      /\ delivered \in {"no", "recently", "long ago"}
      /\ custody[Home] \in {"Delivered", "Short"} => delivered # "no"
      /\ delivered # "no" => custody[Home] # "InCustody"
  BY DEF PieceInv, ChainSound, Manifests, HomeClosed
<1>4. /\ custody' \in [Manifests -> AnyStatus]
      /\ delivered' \in {"no", "recently", "long ago"}
      /\ custody'[Home] \in {"Delivered", "Short"} => delivered' # "no"
      /\ delivered' # "no" => custody'[Home] # "InCustody"
      /\ custody[Home] = "Disputed" => custody'[Home] = "Disputed"
      /\ custody[Home] # "InCustody" => custody'[Home] # "InCustody"
  <2>1. CASE Close(m)
    <3>1. PICK v \in {"Delivered", "Short"} : custody' = [custody EXCEPT ![m] = v]
      BY <2>1 DEF Close
    <3>2. custody[m] = "InCustody" /\ delivered' = IF m = Home THEN "recently" ELSE delivered
      BY <2>1 DEF Close
    <3>3. custody' \in [Manifests -> AnyStatus]
      BY <1>3, <3>1 DEF AnyStatus
    <3>4. CASE m = Home
      BY <1>3, <3>1, <3>2, <3>3, <3>4
    <3>5. CASE m # Home
      <4>1. custody'[Home] = custody[Home] /\ delivered' = delivered
        BY <1>3, <3>1, <3>2, <3>5
      <4> QED BY <1>3, <3>3, <4>1
    <3> QED BY <3>4, <3>5
  <2>2. CASE markDisputed
    <3>1. custody' = [custody EXCEPT ![Home] = "Disputed"] /\ delivered' = delivered
      BY <2>2 DEF markDisputed
    <3> QED BY <1>3, <3>1 DEF AnyStatus
  <2>3. CASE MinutePasses
    BY <1>3, <2>3 DEF MinutePasses
  <2> QED BY <2>1, <2>2, <2>3
<1>5. Onward /\ ChainSound'
  BY <1>1, <1>4 DEF Onward, ChainSound, HomeClosed
<1>6. RequestsInv'
  BY <1>1, <1>5, RequestsKept DEF PieceInv
<1> QED BY <1>2, <1>5, <1>6 DEF PieceInv

LEMMA BeginVerifyKeeps ==
  ASSUME PieceInv, NEW r \in Request, NEW p \in Watched, BeginVerify(r, p)
  PROVE  PieceInv'
<1>1. PICK d : d = (delivered = "long ago")
  OBVIOUS
<1>2. /\ Begin(r, [Idle EXCEPT !.piece = p, !.answers = TRUE, !.late = d])
      /\ log' = log \cup {Event("other", p, None, "SIGHTING")}
      /\ UNCHANGED <<custody, delivered>> /\ UNCHANGED PageVars
  BY <1>1 DEF BeginVerify, Begin, PageVars
<1>3. d \in BOOLEAN /\ (d => custody'[Home] # "InCustody")
  BY <1>1, <1>2 DEF PieceInv, ChainSound
<1>4. d => AfterClosure(History(p))' # {}
  <2>1. PICK e : e = Event("other", p, None, "SIGHTING")
    OBVIOUS
  <2>2. e \in log' /\ e.piece = p /\ e.late = d /\ e.context = "SIGHTING"
    BY <1>1, <1>2, <2>1 DEF Event
  <2>3. d => e \in AfterClosure(History(p))'
    BY <2>2 DEF AfterClosure, History
  <2> QED BY <2>3
<1>5. Onward
  BY <1>2 DEF Onward
<1>6. RequestsInv'
  BY <1>2, <1>3, <1>4, <1>5, BeginKeeps
<1>7. StoreInv'
  BY <1>2, SightingLogged
<1>8. ChainSound'
  BY <1>2 DEF PieceInv, ChainSound, HomeClosed
<1> QED BY <1>6, <1>7, <1>8 DEF PieceInv

LEMMA BeginSweepKeeps ==
  ASSUME PieceInv, NEW r \in Request, NEW p \in Watched, BeginSweep(r, p)
  PROVE  PieceInv'
<1>1. /\ Begin(r, [Idle EXCEPT !.piece = p])
      /\ UNCHANGED <<custody, delivered, log>> /\ UNCHANGED PageVars
  BY DEF BeginSweep, Begin, PageVars
<1>2. [Idle EXCEPT !.piece = p]
        = [Idle EXCEPT !.piece = p, !.answers = FALSE, !.late = FALSE]
  <2>1. PICK i : i = [Idle EXCEPT !.piece = p]
    OBVIOUS
  <2>2. [Idle EXCEPT !.piece = p, !.answers = FALSE, !.late = FALSE]
          = [i EXCEPT !.answers = FALSE, !.late = FALSE]
    BY <2>1 DEF Idle
  <2>3. i.answers = FALSE /\ i.late = FALSE
    BY <2>1 DEF Idle
  <2>4. DOMAIN i = DOMAIN Idle /\ i = [f \in DOMAIN i |-> i[f]]
    BY <2>1 DEF Idle
  <2>5. [i EXCEPT !.answers = FALSE, !.late = FALSE] = i
    BY <2>3, <2>4
  <2> QED BY <2>1, <2>2, <2>5
<1>3. Onward
  BY <1>1 DEF Onward
<1>4. RequestsInv'
  BY <1>1, <1>2, <1>3, BeginKeeps
<1>5. StoreInv'
  BY <1>1, StoreUnchanged DEF PieceInv
<1>6. ChainSound'
  BY <1>1 DEF PieceInv, ChainSound, HomeClosed
<1> QED BY <1>4, <1>5, <1>6 DEF PieceInv

LEMMA ReportKeeps ==
  ASSUME PieceInv, NEW p \in Watched, report(p)
  PROVE  PieceInv'
<1>1. /\ log' = log \cup {Event("other", p, None, "SIGHTING")}
      /\ UNCHANGED <<custody, delivered, req>> /\ UNCHANGED PageVars
  BY DEF report, PageVars
<1>2. StoreInv'
  BY <1>1, SightingLogged
<1>3. RequestsInv'
  BY <1>1, RequestsKept DEF PieceInv, Onward
<1>4. ChainSound'
  BY <1>1 DEF PieceInv, ChainSound, HomeClosed
<1> QED BY <1>2, <1>3, <1>4 DEF PieceInv

LEMMA RequestStepKeeps ==
  ASSUME PieceInv, NEW r \in Request,
         ReadHistory(r) \/ CountActive(r) \/ SyncHome(r) \/ JudgeMissing(r) \/ Answer(r)
  PROVE  PieceInv'
<1>1. RequestsInv'
  BY ReadHistoryKeeps, CountActiveKeeps, SyncHomeKeeps, JudgeMissingKeeps, AnswerKeeps
<1>2. UNCHANGED <<PageVars, log>> /\ UNCHANGED <<custody, delivered>>
  BY DEF ReadHistory, CountActive, SyncHome, JudgeMissing, Answer, Step, server, PageVars
<1>3. StoreInv'
  BY <1>2, StoreUnchanged DEF PieceInv
<1>4. ChainSound'
  BY <1>2 DEF PieceInv, ChainSound, HomeClosed
<1> QED BY <1>1, <1>3, <1>4 DEF PieceInv

LEMMA StutterKeeps ==
  ASSUME PieceInv, UNCHANGED pieceVars
  PROVE  PieceInv'
<1>1. UNCHANGED <<PageVars, log>> /\ UNCHANGED <<custody, delivered, req>>
  BY DEF pieceVars, server, PageVars
<1>2. StoreInv'
  BY <1>1, StoreUnchanged DEF PieceInv
<1>3. ChainSound' /\ RequestsInv'
  BY <1>1, RequestsKept DEF PieceInv, ChainSound, HomeClosed, Onward
<1> QED BY <1>2, <1>3 DEF PieceInv

LEMMA PieceStep == PieceInv /\ [PieceNext]_pieceVars => PieceInv'
<1> SUFFICES ASSUME PieceInv, [PieceNext]_pieceVars  PROVE PieceInv'
  OBVIOUS
<1>1. CASE PageNext
  BY <1>1, PageKeeps
<1>2. ASSUME NEW p \in Piece \cap Watched, NEW at \in Elsewhere, RecordScan(p, at[1], at[2])
      PROVE  PieceInv'
  <2>1. at[1] \in Manifests /\ at[2] \in {"LOADING", "UNLOADING"}
    BY PieceAssumption DEF Manifests
  <2> QED BY <1>2, <2>1, RecordScanKeeps
<1>3. ASSUME NEW m \in Manifests, Close(m) \/ markDisputed \/ MinutePasses  PROVE PieceInv'
  BY <1>3, CloseKeeps
<1>4. ASSUME NEW r \in Request, NEW p \in Watched, BeginSweep(r, p) \/ BeginVerify(r, p)
      PROVE  PieceInv'
  BY <1>4, BeginSweepKeeps, BeginVerifyKeeps
<1>5. ASSUME NEW p \in Watched, report(p)  PROVE PieceInv'
  BY <1>5, ReportKeeps
<1>6. ASSUME NEW r \in Request,
             ReadHistory(r) \/ CountActive(r) \/ SyncHome(r) \/ JudgeMissing(r) \/ Answer(r)
      PROVE  PieceInv'
  BY <1>6, RequestStepKeeps
<1>7. CASE UNCHANGED pieceVars
  BY <1>7, StutterKeeps
<1>8. Home \in Manifests
  BY DEF Manifests
<1> QED BY <1>1, <1>2, <1>3, <1>4, <1>5, <1>6, <1>7, <1>8 DEF PieceNext

\* The invariant of the page, the log and the verifications: see the head of this module.
\* (scanner.js, lifecycle-index.ts, fork-detector.ts, verify-page-api.ts)
THEOREM PieceInvariant == PieceSpec => []PieceInv
BY Started, PieceStep, PTL DEF PieceSpec

\* Whatever is lost, late, sent twice or forgotten in a reload, what the page counts as
\* scanned is in the log or in its queue.  (scanner.js: enqueue, flush, loadQueue)
THEOREM ScanKept == PieceSpec => []ScanIsKept
<1>1. PieceInv => ScanIsKept
  BY DEF PieceInv, StoreInv
<1> QED BY <1>1, PieceInvariant, PTL

\* No two scans that wait to be sent or saved share the nonce by which IndexedDB puts and
\* deletes them, and a closed manifest has the time of its delivery.
\* (scanner.js: enqueue, flush, loadQueue, CustodyManifest.sol: confirmDelivery)
THEOREM PieceTypeCorrect == PieceSpec => []PieceTypeOK
<1>1. ASSUME PieceInv  PROVE PieceTypeOK
  <2>1. stored \cup page.saving \cup ToSet(page.queue)
          \subseteq [nonce : 1 .. page.nonce, piece : Piece]
    <3>1. ASSUME NEW i \in Items  PROVE i \in [nonce : 1 .. page.nonce, piece : Piece]
      <4>1. i \in AnyItem /\ i.nonce <= page.nonce
        BY <1>1 DEF PieceInv, StoreInv, ItemsSound
      <4>2. page.nonce \in Nat
        BY <1>1 DEF PieceInv, StoreInv, StoreTyped, PageState
      <4>3. i.nonce \in 1 .. page.nonce
        BY <4>1, <4>2 DEF AnyItem
      <4> QED BY <4>1, <4>3 DEF AnyItem
    <3>2. stored \cup page.saving \cup ToSet(page.queue) \subseteq Items
      BY DEF Items
    <3> QED BY <3>1, <3>2
  <2>2. page.seen \subseteq Piece
    BY <1>1 DEF PieceInv, StoreInv, StoreTyped, PageState
  <2>3. \A r \in Request : req[r].pc \in Phase
    BY <1>1 DEF PieceInv, RequestsInv, RequestState
  <2>4. \A i, j \in stored \cup page.saving \cup ToSet(page.queue) : i.nonce = j.nonce => i = j
    BY <1>1 DEF PieceInv, StoreInv, ItemsSound, Items
  <2>5. ChainSound
    BY <1>1 DEF PieceInv
  <2> QED BY <2>1, <2>2, <2>3, <2>4, <2>5 DEF ChainSound, AnyStatus, PieceTypeOK, Phase
<1> QED BY <1>1, PieceInvariant, PTL

\* What the public page calls genuine was issued, had been scanned on no other manifest when
\* it was looked up, and, looked up more than a minute after the delivery, was unloaded or is
\* of a disputed manifest, whatever happened between the reads the verdict is made of.
\* (fork-detector.ts: analyze, verify-page-api.ts: verify)
THEOREM GenuineCorrect == PieceSpec => GenuineMeansOneLife
<1> DEFINE Answers ==
      \A r \in Request :
        req[r].pc = "answer" /\ req'[r] = Idle /\ Status(req[r]) \notin {"UNKNOWN", "FLAGGED"} =>
          /\ req[r].piece \in Piece
          /\ ~req[r].cloned
          /\ req[r].late =>
               req[r].piece \in Scanned(Home, "UNLOADING") \/ custody[Home] = "Disputed"
<1>1. PieceInv /\ [PieceNext]_pieceVars => [Answers]_pieceVars
  <2> SUFFICES ASSUME PieceInv, NEW r \in Request, req[r].pc = "answer",
                      Status(req[r]) \notin {"UNKNOWN", "FLAGGED"}
               PROVE  /\ req[r].piece \in Piece
                      /\ ~req[r].cloned
                      /\ req[r].late => Excused(req[r].piece)
    BY DEF Excused
  <2>1. PICK c : c = req[r]
    OBVIOUS
  <2>2. RequestSound(c) /\ c.pc = "answer"
    BY <2>1 DEF PieceInv, RequestsInv
  <2>3. c.verdict = "CLEAN"
    BY <2>1 DEF Status
  <2> QED BY <2>1, <2>2, <2>3 DEF RequestSound
<1> QED BY <1>1, PieceInvariant, PTL DEF PieceSpec, GenuineMeansOneLife
===============================================================================
