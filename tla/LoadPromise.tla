------------------------------ MODULE LoadPromise ------------------------------
(***************************************************************************)
(* What the platform promises about the money of one load, to whoever pays *)
(* for it and to whoever carries it, without saying which requests keep it.*)
(*                                                                         *)
(* The receiver signs once, for no more pieces than were scanned.  Money   *)
(* has two ways out, the INR payout and the token escrow, and leaves each  *)
(* at most once: the escrow while the chain has the load delivered in full,*)
(* the payout if the chain had it so when it was asked, which is before,   *)
(* and not again after a dispute has begun.  The payout has one breach: it *)
(* may be released on what the chain says of another load, once, and then  *)
(* there is nothing left to pay for this one.                              *)
(***************************************************************************)
EXTENDS Integers, FiniteSets

CONSTANT Expected  \* pieces on the manifest

VARIABLES
  scanned,   \* those scanned at unloading
  stage,     \* the custody stage on the chain
  signed,    \* the count the receiver signed
  cleared,   \* the chain has said yes to a payout that is still to come
  collected, \* the payer has paid
  out        \* the ways by which money has left

loadVars == <<scanned, stage, signed, cleared, collected, out>>

LoadInit ==
  /\ scanned = {} /\ stage = "Created" /\ signed = 0
  /\ ~cleared /\ ~collected /\ out = {}

Scan(p) ==
  /\ scanned' = scanned \cup {p}
  /\ UNCHANGED <<stage, signed, cleared, collected, out>>

Take ==
  /\ stage = "Created" /\ stage' = "InCustody"
  /\ UNCHANGED <<scanned, signed, cleared, collected, out>>

Sign(n) ==
  /\ stage = "InCustody" /\ n <= Cardinality(scanned)
  /\ signed' = n
  /\ stage' = IF n = Cardinality(Expected) THEN "Delivered" ELSE "Short"
  /\ UNCHANGED <<scanned, cleared, collected, out>>

Escalate ==
  /\ stage' = "Disputed"
  /\ UNCHANGED <<scanned, signed, cleared, collected, out>>

Collect ==
  /\ ~collected /\ collected'
  /\ UNCHANGED <<scanned, stage, signed, cleared, out>>

Clear ==
  /\ stage = "Delivered" /\ cleared'
  /\ UNCHANGED <<scanned, stage, signed, collected, out>>

Withdraw ==
  /\ ~cleared'
  /\ UNCHANGED <<scanned, stage, signed, collected, out>>

\* Other payouts may have been cleared; they will find nothing left to pay.
PayOutOnce ==
  /\ cleared /\ collected /\ {"payout", "stray"} \cap out = {}
  /\ out' = out \cup {"payout"} /\ cleared' \in BOOLEAN
  /\ UNCHANGED <<scanned, stage, signed, collected>>

\* Paid for another load: nothing is asked of this one.
PayOutStray ==
  /\ collected /\ {"payout", "stray"} \cap out = {}
  /\ out' = out \cup {"stray"}
  /\ UNCHANGED <<scanned, stage, signed, cleared, collected>>

EscrowOut ==
  /\ stage = "Delivered" /\ "escrow" \notin out
  /\ out' = out \cup {"escrow"}
  /\ UNCHANGED <<scanned, stage, signed, cleared, collected>>

LoadNext ==
  \/ \E p \in Expected : Scan(p)
  \/ \E n \in 0 .. Cardinality(Expected) : Sign(n)
  \/ Take \/ Escalate \/ Collect \/ Clear \/ Withdraw \/ PayOutOnce \/ PayOutStray \/ EscrowOut

LoadSpec == LoadInit /\ [][LoadNext]_loadVars
================================================================================
