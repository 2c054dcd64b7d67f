----------------------------- MODULE CustodyChain -----------------------------
(***************************************************************************)
(* What the custody contract promises to the code that reads it.           *)
(*                                                                         *)
(* chain/contracts/Escrow.sol sees the custody contract only through the   *)
(* two functions of its interface ICustodyManifest, isReleasable and       *)
(* status.  This module is that view: every manifest is at one stage, and  *)
(* the stage moves along a fixed set of edges.  CustodyManifest.tla, the   *)
(* contract with its parties, counts and signatures, implements it.        *)
(***************************************************************************)
CONSTANT Manifest

VARIABLE stage

Stage == {"None", "Created", "InCustody", "Delivered", "Short", "Disputed"}

ChainTypeOK == stage \in [Manifest -> Stage]

ChainInit == stage = [m \in Manifest |-> "None"]

Move(m, from, to) ==
  /\ stage[m] \in from
  /\ stage' = [stage EXCEPT ![m] = to]

Open(m)     == Move(m, {"None"}, "Created")
Take(m)     == Move(m, {"Created"}, "InCustody")
CloseFull(m)  == Move(m, {"InCustody"}, "Delivered")
CloseShort(m) == Move(m, {"InCustody"}, "Short")
Escalate(m) == Move(m, Stage \ {"None"}, "Disputed")

ChainNext ==
  \E m \in Manifest :
    Open(m) \/ Take(m) \/ CloseFull(m) \/ CloseShort(m) \/ Escalate(m)

ChainSpec == ChainInit /\ [][ChainNext]_stage

\* isReleasable() and the statuses the arbiter may act on, as Escrow.sol reads them.
Releasable(m) == stage[m] = "Delivered"
InDispute(m)  == stage[m] \in {"Short", "Disputed"}
===============================================================================
