-------------------------------- MODULE SignerOtp --------------------------------
(***************************************************************************)
(* The receiver's one-time code and signing key: requestDeliveryOtp and    *)
(* confirmDelivery of platform/api/custody over chain/keys (OtpService,    *)
(* SignerService, PgKeyStore, BufferedSignerAudit), for one phone.         *)
(*                                                                         *)
(* Each phase is one database transaction of several statements: a row is  *)
(* locked from the statement that locks it to the end of the transaction,  *)
(* what a transaction wrote appears at its commit, and a statement sees    *)
(* the rows committed when it began.                                       *)
(*                                                                         *)
(* What signDigest is given to sign and what the chain makes of it is in   *)
(* ReleaseGate.tla.  The column "attempts" is left out: see Reject.        *)
(***************************************************************************)
EXTENDS Integers, FiniteSets

CONSTANTS
  Request,     \* requests in flight at the same time
  Key,         \* bound: key pairs that can be generated
  None,
  MaxCodes,    \* bound: codes issued
  MaxCrashes   \* bound: requests that die half way

ASSUME SignerAssumption ==
  /\ None \notin Key /\ IsFiniteSet(Request)
  /\ MaxCodes \in Nat /\ MaxCrashes \in Nat

VARIABLES
  key,        \* participant_keys: the address stored for the phone
  challenge,  \* otp_challenges: "none", "live" (not consumed) or "consumed"
  expired,    \* challenges past expires_at
  issued,     \* codes generated so far
  req,        \* requests in flight
  answered,   \* signing addresses requestDeliveryOtp answered with (history)
  accepted,   \* confirmations each code let through (history)
  released,   \* codes whose signature was sent to the chain
  audit,      \* codes whose signature has a row in signer_audit
  crashes

tables == <<key, challenge, audit>>
history == <<answered, accepted, released>>
signerVars ==
  <<key, challenge, expired, issued, req, answered, accepted, released, audit, crashes>>

Code == 1 .. MaxCodes
Live == {c \in Code : challenge[c] = "live"}
Idle == [pc |-> "idle", address |-> None, minted |-> FALSE, old |-> {}, code |-> 0, row |-> 0]

SignerInit ==
  /\ key = None
  /\ challenge = [c \in Code |-> "none"]
  /\ expired = {}
  /\ issued = 0
  /\ req = [r \in Request |-> Idle]
  /\ answered = {}
  /\ accepted = [c \in Code |-> 0]
  /\ released = {}
  /\ audit = {}
  /\ crashes = 0

Become(r, q) == req' = [req EXCEPT ![r] = q]
At(pcs) == {r \in Request : req[r].pc \in pcs}

\* Challenge rows a request holds: locked by verify's FOR UPDATE, or by the
\* UPDATE of issue.
Holds(r) ==
  CASE req[r].pc \in {"insert", "send"} -> req[r].old
    [] req[r].pc = "locked" -> {req[r].row}
    [] OTHER -> {}
MutRowsFree(r, rows) == TRUE
RowsFree(r, rows) == \A q \in Request \ {r} : Holds(q) \cap rows = {}

--------------------------------------------------------------------------------
\* --- requestDeliveryOtp: one transaction ------------------------------------
Issuing == At({"mint", "update", "wait", "insert", "send"})

\* ensureKey: an existing key is returned, or a pair is generated.
EnsureKey(r) ==
  /\ req[r].pc = "idle"
  /\ issued + Cardinality(Issuing) < MaxCodes
  /\ IF key # None
     THEN Become(r, [Idle EXCEPT !.pc = "update", !.address = key])
     ELSE \E k \in Key \ (answered \cup {req[q].address : q \in Request}) :
            Become(r, [Idle EXCEPT !.pc = "mint", !.address = k])
  /\ UNCHANGED <<tables, history, expired, issued, crashes>>

\* INSERT ... ON CONFLICT (phone) DO NOTHING: waits for another transaction's
\* insert; the fresh address is answered whether or not it was inserted.
PutKey(r) ==
  /\ req[r].pc = "mint"
  /\ \A q \in Request : ~req[q].minted
  /\ Become(r, [req[r] EXCEPT !.pc = "update", !.minted = (key = None)])
  /\ UNCHANGED <<tables, history, expired, issued, crashes>>

\* UPDATE otp_challenges SET consumed_at: the rows it sees, then, once they are
\* unlocked, those among them that are still live.
SeeLive(r) ==
  /\ req[r].pc = "update"
  /\ Become(r, [req[r] EXCEPT !.pc = "wait", !.old = Live])
  /\ UNCHANGED <<tables, history, expired, issued, crashes>>

ConsumeLive(r) ==
  /\ req[r].pc = "wait"
  /\ RowsFree(r, req[r].old)
  /\ Become(r, [req[r] EXCEPT !.pc = "insert", !.old = @ \cap Live])
  /\ UNCHANGED <<tables, history, expired, issued, crashes>>

\* otp_challenges_live_idx: another live row of the phone.
MutTaken(r) == FALSE
Taken(r) == Live \ req[r].old # {}

NextCode == issued + 1

InsertCode(r) ==
  /\ req[r].pc = "insert"
  /\ At({"send"}) = {}
  /\ ~Taken(r)
  /\ issued' = NextCode
  /\ Become(r, [req[r] EXCEPT !.pc = "send", !.code = NextCode])
  /\ UNCHANGED <<tables, history, expired, crashes>>

InsertConflict(r) ==
  /\ req[r].pc = "insert"
  /\ At({"send"}) = {}
  /\ Taken(r)
  /\ Become(r, Idle)
  /\ UNCHANGED <<tables, history, expired, issued, crashes>>

\* The row that PutKey inserted appears with the code.
StoredKey(q) == IF q.minted THEN q.address ELSE key

\* The code is sent and the transaction commits.
SendCode(r) ==
  LET q == req[r] IN
  /\ q.pc = "send"
  /\ key' = StoredKey(q)
  /\ challenge' = [c \in Code |-> IF c = q.code THEN "live"
                                  ELSE IF c \in q.old THEN "consumed" ELSE challenge[c]]
  /\ answered' = answered \cup {q.address}
  /\ Become(r, Idle)
  /\ UNCHANGED <<expired, issued, accepted, released, audit, crashes>>

\* The sender throws and the transaction rolls back.
SendFails(r) ==
  /\ req[r].pc = "send"
  /\ Become(r, Idle)
  /\ UNCHANGED <<tables, history, expired, issued, crashes>>

\* --- confirmDelivery --------------------------------------------------------

\* Phase 1, verify: somebody presents a code (0: one that was never issued);
\* SELECT ... FOR UPDATE finds the live challenge and locks it.
Present(r, code) ==
  /\ req[r].pc = "idle"
  /\ \E c \in Live :
       /\ RowsFree(r, {c})
       /\ Become(r, [Idle EXCEPT !.pc = "locked", !.code = code, !.row = c])
  /\ UNCHANGED <<tables, history, expired, issued, crashes>>

\* It finds none, or has waited for one that was consumed meanwhile, and rejects.
PresentInVain(r) ==
  /\ req[r].pc = "idle"
  /\ Live = {}
  /\ UNCHANGED signerVars

\* verify: the challenge found has not expired, and the code presented is its code.
Matches(q) == q.row \notin expired /\ q.code = q.row

\* verify() has counted the attempt, or consumed an expired challenge, and
\* returned false; the caller throws OTP_INVALID inside the same asSystem
\* transaction, which rolls both back.  So no committed row ever has attempts
\* other than 0, and the branch for OTP_MAX_ATTEMPTS is never taken.  A receiver
\* without a key is turned away in the same transaction.
Reject(r) ==
  LET q == req[r] IN
  /\ q.pc = "locked"
  /\ ~Matches(q) \/ key = None
  /\ Become(r, Idle)
  /\ UNCHANGED <<tables, history, expired, issued, crashes>>

Consumed(c) == [challenge EXCEPT ![c] = "consumed"]

\* The code is consumed, the key is loaded, and phase 1 commits.
Accept(r) ==
  LET q == req[r] IN
  /\ q.pc = "locked"
  /\ Matches(q)
  /\ key # None
  /\ challenge' = Consumed(q.row)
  /\ accepted' = [accepted EXCEPT ![q.row] = @ + 1]
  /\ Become(r, [q EXCEPT !.pc = "sign", !.row = 0])
  /\ UNCHANGED <<key, expired, issued, answered, released, audit, crashes>>

\* Phase 2 fails before anything is signed: no such manifest, or the key is not
\* its receiver's; nothing is pending and nothing is flushed.
RefuseToSign(r) ==
  /\ req[r].pc = "sign"
  /\ Become(r, Idle)
  /\ UNCHANGED <<tables, history, expired, issued, crashes>>

\* PreVerifiedOtp: phase 2 has no code of its own; what phase 1 verified serves for one
\* signature.
PreVerified(q) == q.pc = "sign"

\* signDigest: the audit event goes to the buffer, the signature to the gate.
SignDigest(r) ==
  /\ PreVerified(req[r])
  /\ Become(r, [req[r] EXCEPT !.pc = "submit"])
  /\ UNCHANGED <<tables, history, expired, issued, crashes>>

Submit(r) ==
  /\ req[r].pc = "submit"
  /\ released' = released \cup {req[r].code}
  /\ Become(r, [req[r] EXCEPT !.pc = "await"])
  /\ UNCHANGED <<tables, expired, issued, answered, accepted, crashes>>

\* The chain answers, or reverts, or a later step of the tenant transaction
\* fails: the finally block comes next in every case.
MutFinally(ok) == IF ok THEN "flush" ELSE "idle"
Finally(ok) == "flush"

EndPhaseTwo(r, ok) ==
  /\ req[r].pc = "await"
  /\ Become(r, IF Finally(ok) = "idle" THEN Idle ELSE [req[r] EXCEPT !.pc = "flush"])
  /\ UNCHANGED <<tables, history, expired, issued, crashes>>

Flush(r) ==
  /\ req[r].pc = "flush"
  /\ audit' = audit \cup {req[r].code}
  /\ Become(r, Idle)
  /\ UNCHANGED <<key, challenge, expired, issued, history, crashes>>

--------------------------------------------------------------------------------
\* The process dies, or the database does not answer.
Crash(r) ==
  /\ req[r].pc # "idle"
  /\ crashes < MaxCrashes
  /\ crashes' = crashes + 1
  /\ Become(r, Idle)
  /\ UNCHANGED <<tables, history, expired, issued>>

Expire(c) ==
  /\ challenge[c] # "none" /\ c \notin expired
  /\ expired' = expired \cup {c}
  /\ UNCHANGED <<tables, history, issued, req, crashes>>

SignerNext ==
  \/ \E r \in Request :
       \/ EnsureKey(r) \/ PutKey(r) \/ SeeLive(r) \/ ConsumeLive(r)
       \/ InsertCode(r) \/ InsertConflict(r) \/ SendCode(r) \/ SendFails(r)
       \/ \E code \in 0 .. issued : Present(r, code)
       \/ PresentInVain(r) \/ Reject(r) \/ Accept(r) \/ RefuseToSign(r) \/ SignDigest(r) \/ Submit(r)
       \/ \E ok \in BOOLEAN : EndPhaseTwo(r, ok)
       \/ Flush(r) \/ Crash(r)
  \/ \E c \in Code : Expire(c)

SignerSpec == SignerInit /\ [][SignerNext]_signerVars

--------------------------------------------------------------------------------
SignerTypeOK ==
  /\ key \in Key \cup {None}
  /\ challenge \in [Code -> {"none", "live", "consumed"}]
  /\ expired \subseteq Code
  /\ issued \in 0 .. MaxCodes
  /\ req \in [Request ->
       [ pc: {"idle", "mint", "update", "wait", "insert", "send", "locked",
              "sign", "submit", "await", "flush"},
         address: Key \cup {None}, minted: BOOLEAN, old: SUBSET Code,
         code: 0 .. MaxCodes, row: 0 .. MaxCodes ]]
  /\ answered \subseteq Key
  /\ accepted \in [Code -> Nat]
  /\ released \subseteq Code /\ audit \subseteq Code
  /\ crashes \in 0 .. MaxCrashes

\* A code lets one confirmation through, however many present it at the same
\* moment and whatever becomes of the delivery afterwards: a confirmation that
\* failed or died does not give it back (OtpService.verify, "single-use").
SingleUse ==
  \A c \in Code :
    /\ accepted[c] <= 1
    /\ accepted[c] = 1 => challenge[c] = "consumed"

\* "exactly one code is ever live" (OtpService.issue), with codes requested
\* twice at the same moment, before and after a confirmation takes one.
OneLiveCode == Cardinality(Live) <= 1

\* A signature that reached the chain is on record once its request has ended,
\* on the failure path too, unless the process died in between ("Flush even on
\* failure").
UnauditedOnlyByCrash ==
  \A c \in released \ audit : crashes > 0 \/ \E r \in Request : req[r].code = c

================================================================================
