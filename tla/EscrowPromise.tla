----------------------------- MODULE EscrowPromise -----------------------------
(***************************************************************************)
(* What chain/contracts/Escrow.sol promises about the money of a manifest, *)
(* without saying how a transfer is carried out.                           *)
(*                                                                         *)
(* A deposit is made once and leaves the escrow once, whole: either all of *)
(* it to the payee, and then the custody chain had the manifest delivered  *)
(* in full, or split between payee and payer, and then the manifest was    *)
(* short or disputed.  One transaction may settle several deposits, since  *)
(* the recipient of a transfer may itself call the escrow.                 *)
(***************************************************************************)
EXTENDS Integers

CONSTANTS Manifest, MaxAmount

VARIABLES
  stage,   \* the custody stage of each manifest (CustodyChain)
  held,    \* what the escrow holds for each manifest
  paid     \* what its payee and its payer have received from it

promiseVars == <<stage, held, paid>>

Amount == 0 .. MaxAmount
Nothing == [payee |-> 0, payer |-> 0]

PromiseInit ==
  /\ stage = [m \in Manifest |-> "None"]
  /\ held = [m \in Manifest |-> 0]
  /\ paid = [m \in Manifest |-> Nothing]

Fund(m) ==
  /\ held[m] = 0 /\ paid[m] = Nothing
  /\ held'[m] # 0 /\ paid'[m] = Nothing

\* A deposit made and settled within one transaction leaves no trace in "held".
Settle(m) ==
  /\ paid[m] = Nothing /\ paid'[m] # Nothing
  /\ held[m] \in {0, paid'[m].payee + paid'[m].payer} /\ held'[m] = 0
  /\ \/ stage[m] = "Delivered" /\ paid'[m].payer = 0
     \/ stage[m] \in {"Short", "Disputed"}

Keep(m) == held'[m] = held[m] /\ paid'[m] = paid[m]

Transaction ==
  /\ UNCHANGED stage
  /\ held' \in [Manifest -> Amount]
  /\ paid' \in [Manifest -> [payee: Amount, payer: Amount]]
  /\ \A m \in Manifest : Keep(m) \/ Fund(m) \/ Settle(m)

CustodyMoves == UNCHANGED <<held, paid>>

PromiseNext == Transaction \/ CustodyMoves

PromiseSpec == PromiseInit /\ [][PromiseNext]_promiseVars
===============================================================================
