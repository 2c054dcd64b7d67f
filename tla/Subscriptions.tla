------------------------------ MODULE Subscriptions ------------------------------
(***************************************************************************)
(* What a company pays for: BillingService (identity/subscriptions) and    *)
(* RegistrationService (identity/companies), over Entitlements, for one    *)
(* company.                                                                *)
(*                                                                         *)
(* There is no transaction: each await of a store or of the gateway is a   *)
(* step.  The subscription's row is read whole and written back whole.     *)
(* A webhook that reaches handleWebhook carries a valid signature; the     *)
(* gateway may send any event at any time.  resetFailures is a method of   *)
(* an interface, which may or may not clear the end of the grace.          *)
(* Left out: amounts, periods, the number of failures, company codes.      *)
(***************************************************************************)
EXTENDS Entitlements

CONSTANTS Toggled, Offered  \* bound: the modules overridden, the plans asked for

VARIABLES
  sub,      \* the subscription
  company,  \* status of the company and whether it has its first admin
  lapsed,   \* "failed": a charge of the subscription failed since one went through or it
            \* was opened; "upgraded": so, and a charge for an upgrade went through (history)
  cutOff,   \* a cancellation took its plan and none was applied since (history)
  tangled   \* two calls about the plan overlapped, or one died (history)

billingVars == <<sub, company, lapsed, cutOff, tangled>>
subscriptionVars == <<entitlementVars, billingVars>>

\* The rows of subscriptions.
SubscriptionRow == [plan : Plan, grace : {"none", "running", "over"},
                    status : {"none", "ACTIVE", "GRACE", "DOWNGRADED", "CANCELLED"}]

ASSUME SubscriptionsAssumption ==
  /\ Toggled \subseteq PlatformModule
  /\ Offered \subseteq Plan
  /\ None \notin SubscriptionRow

NoSub == [plan |-> "STARTER", status |-> "none", grace |-> "none"]

\* A company that is not registered yet, or one that has subscribed.
SubscriptionsInit ==
  /\ EntitlementsInit
  /\ \/ /\ company = [status |-> "none", admin |-> FALSE]
        /\ plan = "STARTER" /\ sub = NoSub
     \/ /\ company = [status |-> "ACTIVE", admin |-> TRUE]
        /\ plan \in Offered
        /\ sub = [plan |-> plan, status |-> "ACTIVE", grace |-> "none"]
  /\ lapsed = "no" /\ cutOff = FALSE /\ tangled = FALSE

ORDER == [STARTER |-> 0, STANDARD |-> 1, PROFESSIONAL |-> 2, ENTERPRISE |-> 3]
isUpgrade(from, to) == ORDER[to] > ORDER[from]

\* The calls about the plan carry a row of subscriptions.
Bills(q) == q.pc # "idle" /\ q.row # None

BillingCall(r) ==
  /\ Call(r)
  /\ tangled' = (tangled \/ \E q \in Request : Bills(req[q]))
  /\ UNCHANGED <<overrides, cache, trials, missed>>

\* A company has nobody to act for it before it has an admin.
Customer == company.admin

\* The call writes row, then applies plan p or is done.
Carrying(pc, row, p, then) ==
  [Idle EXCEPT !.pc = pc, !.row = row, !.plan = p, !.then = then]

\* After its row a call applies its plan, or is over.
AfterRow(q) == IF q.then = "apply" THEN [q EXCEPT !.pc = "setPlan", !.then = "done"] ELSE Idle

entitlements == <<plan, overrides, cache, trials, missed>>

--------------------------------------------------------------------------------
\* --- BillingService -----------------------------------------------------------
BeginSubscribe(r, p) ==
  /\ BillingCall(r)
  /\ Customer
  /\ Become(r, Carrying("open", [plan |-> p, status |-> "ACTIVE", grace |-> "none"], p, "apply"))
  /\ UNCHANGED <<plan, sub, company, lapsed, cutOff>>

\* changePlan: an upgrade is charged, written and applied; a downgrade only writes
\* back the row it read.
BeginChangePlan(r, to) ==
  /\ BillingCall(r)
  /\ sub # NoSub /\ sub.plan # to
  /\ Become(r, IF isUpgrade(sub.plan, to)
               THEN Carrying("charge", [sub EXCEPT !.plan = to], to, "apply")
               ELSE Carrying("upsert", sub, to, "done"))
  /\ UNCHANGED <<plan, sub, company, lapsed, cutOff>>

\* The gateway opens a subscription for subscribe, or refuses.
OpenSubscription(r) ==
  /\ Step(r, "open")
  /\ \/ Become(r, [req[r] EXCEPT !.pc = "upsert"]) /\ lapsed' = "no"
     \/ Become(r, Idle) /\ UNCHANGED lapsed
  /\ UNCHANGED <<entitlements, sub, company, cutOff, tangled>>

\* It charges an upgrade, or refuses; at the end of a period there is nothing to charge.
Charge(r) ==
  /\ Step(r, "charge")
  /\ \/ /\ Become(r, [req[r] EXCEPT !.pc = "upsert"])
        /\ lapsed' \in {lapsed, IF lapsed = "no" THEN "no" ELSE "upgraded"}
     \/ Become(r, Idle) /\ UNCHANGED lapsed
  /\ UNCHANGED <<entitlements, sub, company, cutOff, tangled>>

Upsert(r) ==
  /\ Step(r, "upsert")
  /\ sub' = req[r].row
  /\ cutOff' = (cutOff /\ req[r].then # "apply")
  /\ Become(r, AfterRow(req[r]))
  /\ UNCHANGED <<entitlements, company, lapsed, tangled>>

\* subscription.charged
BeginCharged(r) ==
  /\ BillingCall(r)
  /\ Customer
  /\ lapsed' = "no"
  /\ Become(r, Carrying("reset", [NoSub EXCEPT !.status = "ACTIVE"], "STARTER", "done"))
  /\ UNCHANGED <<plan, sub, company, cutOff>>

MutResetFailures(r) ==
  /\ Step(r, "reset")
  /\ Become(r, Idle)
  /\ UNCHANGED <<entitlements, billingVars>>

ResetFailures(r) ==
  /\ Step(r, "reset")
  /\ sub' \in {sub, [sub EXCEPT !.grace = "none"]}
  /\ Become(r, [req[r] EXCEPT !.pc = "status"])
  /\ UNCHANGED <<entitlements, company, lapsed, cutOff, tangled>>

\* subscription.cancelled
BeginCancelled(r) ==
  /\ BillingCall(r)
  /\ Customer
  /\ Become(r, Carrying("status", [NoSub EXCEPT !.status = "CANCELLED"], "STARTER", "apply"))
  /\ UNCHANGED <<plan, sub, company, lapsed, cutOff>>

SetStatus(r) ==
  /\ Step(r, "status")
  /\ sub' = IF sub = NoSub THEN sub ELSE [sub EXCEPT !.status = req[r].row.status]
  /\ cutOff' = (cutOff \/ req[r].row.status = "CANCELLED")
  /\ Become(r, AfterRow(req[r]))
  /\ UNCHANGED <<entitlements, company, lapsed, tangled>>

\* payment.failed, subscription.pending: the count, then the row.
BeginFailed(r) ==
  /\ BillingCall(r)
  /\ Customer
  /\ lapsed' = "failed"
  /\ Become(r, Carrying("failed", NoSub, "STARTER", "done"))
  /\ UNCHANGED <<plan, sub, company, cutOff>>

MutGiveGrace(r) ==
  /\ Step(r, "failed")
  /\ Become(r, IF sub = NoSub THEN Idle
               ELSE [req[r] EXCEPT !.pc = "upsert",
                      !.row = [sub EXCEPT !.status = "PAST_DUE",
                                 !.grace = IF @ = "none" THEN "running" ELSE @]])
  /\ UNCHANGED <<entitlements, billingVars>>

\* A grace that has begun goes on.
GiveGrace(r) ==
  /\ Step(r, "failed")
  /\ Become(r, IF sub = NoSub THEN Idle
               ELSE [req[r] EXCEPT !.pc = "upsert",
                      !.row = [sub EXCEPT !.status = "GRACE",
                                 !.grace = IF @ = "none" THEN "running" ELSE @]])
  /\ UNCHANGED <<entitlements, billingVars>>

\* listPastDue, of the store: nothing but a failed payment makes a row past due.
PastDue(row) == row.status = "GRACE"

MutBeginDunning(r) ==
  /\ BillingCall(r)
  /\ PastDue(sub) /\ sub.grace = "over" /\ sub.plan # "STARTER"
  /\ Become(r, Carrying("upsert", [plan |-> "STARTER", status |-> "DOWNGRADED", grace |-> "none"],
                        "STARTER", "done"))
  /\ UNCHANGED <<plan, sub, company, lapsed, cutOff>>

\* runDunning, for a company it lists whose grace is over.
BeginDunning(r) ==
  /\ BillingCall(r)
  /\ PastDue(sub) /\ sub.grace = "over" /\ sub.plan # "STARTER"
  /\ Become(r, Carrying("upsert", [plan |-> "STARTER", status |-> "DOWNGRADED", grace |-> "none"],
                        "STARTER", "apply"))
  /\ UNCHANGED <<plan, sub, company, lapsed, cutOff>>

GraceEnds ==
  /\ sub.grace = "running"
  /\ sub' = [sub EXCEPT !.grace = "over"]
  /\ UNCHANGED <<entitlementVars, company, lapsed, cutOff, tangled>>

--------------------------------------------------------------------------------
\* --- RegistrationService ------------------------------------------------------
\* provision and apply: the company is created with its plan; a provisioned one goes
\* on to applyPlan and its admin.
Register(r, status, p) ==
  /\ BillingCall(r)
  /\ company.status = "none"
  /\ status = "PENDING" => p = "STARTER"
  /\ company' = [company EXCEPT !.status = status]
  /\ plan' = p
  /\ Become(r, IF status = "PENDING" THEN Idle ELSE Carrying("applyPlan", NoSub, p, "admin"))
  /\ UNCHANGED <<sub, lapsed, cutOff>>

\* approve, up to the read that the company is pending.
BeginApproveCompany(r, p) ==
  /\ BillingCall(r)
  /\ company.status = "PENDING"
  /\ Become(r, Carrying("activate", NoSub, p, "admin"))
  /\ UNCHANGED <<plan, sub, company, lapsed, cutOff>>

Activate(r) ==
  /\ Step(r, "activate")
  /\ company' = [company EXCEPT !.status = "ACTIVE"]
  /\ Become(r, [req[r] EXCEPT !.pc = "companyPlan"])
  /\ UNCHANGED <<entitlements, sub, lapsed, cutOff, tangled>>

\* companies.setPlan, before applyPlan writes the same column and invalidates.
SetCompanyPlan(r) ==
  /\ Step(r, "companyPlan")
  /\ plan' = req[r].plan
  /\ Become(r, [req[r] EXCEPT !.pc = "applyPlan"])
  /\ UNCHANGED <<overrides, cache, trials, missed, billingVars>>

CreateAdmin(r) ==
  /\ Step(r, "admin")
  /\ company' = [company EXCEPT !.admin = TRUE]
  /\ Become(r, Idle)
  /\ UNCHANGED <<entitlements, sub, lapsed, cutOff, tangled>>

\* suspend touches nothing but the status, which only approve and joining read.
SuspendCompany ==
  /\ company.status \in {"PENDING", "ACTIVE"}
  /\ calls < MaxCalls /\ calls' = calls + 1
  /\ company' = [company EXCEPT !.status = "SUSPENDED"]
  /\ UNCHANGED <<entitlements, req, failures, sub, lapsed, cutOff, tangled>>

--------------------------------------------------------------------------------
EntitlementsNext ==
  \/ \E r \in Request :
       \/ /\ UNCHANGED billingVars
          /\ \/ ReadPlan(r) \/ ReadOverrides(r) \/ Fill(r) \/ Invalidate(r) \/ SetPlan(r)
             \/ Grant(r) \/ Record(r) \/ Revoke(r) \/ Disable(r)
             \/ BeginExpire(r) \/ ClearOverride(r) \/ Uncache(r) \/ MarkExpired(r)
             \/ Customer /\ BeginRead(r)
             \/ /\ company.status # "none"
                /\ \E m \in Toggled :
                     BeginRevoke(r, m) \/ \E timed \in BOOLEAN : BeginGrant(r, m, timed)
       \/ /\ Throw(r)
          /\ tangled' = (tangled \/ Bills(req[r]))
          /\ UNCHANGED <<sub, company, lapsed, cutOff>>
  \/ \E t \in Trial : TrialEnds(t) /\ UNCHANGED billingVars
  \/ /\ Restart
     /\ tangled' = (tangled \/ \E r \in Request : Bills(req[r]))
     /\ UNCHANGED <<sub, company, lapsed, cutOff>>

BillingNext ==
  \/ \E r \in Request, p \in Offered :
       \/ BeginSubscribe(r, p) \/ BeginChangePlan(r, p) \/ BeginApproveCompany(r, p)
       \/ \E status \in {"PENDING", "ACTIVE"} : Register(r, status, p)
  \/ \E r \in Request :
       \/ OpenSubscription(r) \/ Charge(r) \/ Upsert(r) \/ BeginCharged(r) \/ ResetFailures(r) \/ BeginCancelled(r)
       \/ SetStatus(r) \/ BeginFailed(r) \/ GiveGrace(r) \/ BeginDunning(r)
       \/ Activate(r) \/ SetCompanyPlan(r) \/ CreateAdmin(r)
  \/ GraceEnds \/ SuspendCompany

SubscriptionsSpec ==
  SubscriptionsInit /\ [][EntitlementsNext \/ BillingNext]_subscriptionVars
--------------------------------------------------------------------------------
\* Tables and calls hold what their columns and fields may hold, and nothing is sold to
\* a company that does not exist.
SubscriptionsTypeOK ==
  /\ plan \in Plan
  /\ overrides \in [PlatformModule -> {"none", "granted", "revoked"}]
  /\ cache = NoCache \/ cache \subseteq PlatformModule
  /\ \A t \in Trial : trials[t].state \in {"none", "running", "over", "expired"}
  /\ sub \in SubscriptionRow
  /\ company \in [status : {"none", "PENDING", "ACTIVE", "SUSPENDED"}, admin : BOOLEAN]
  /\ sub # NoSub => company.admin
  /\ company.admin => company.status # "none"

\* With no call about the plan in flight, a subscriber is served exactly the plan of the
\* subscription, or the smallest one after a cancellation with no subscribe, upgrade or
\* downgrade since: a charge that the gateway tells of afterwards makes the subscription
\* ACTIVE again and gives no plan back.  Calls that overlapped or died may leave it
\* otherwise.  (billing.ts: subscribe, changePlan, handleWebhook, runDunning)
ServedIsBilled ==
  sub # NoSub /\ ~tangled /\ (\A r \in Request : ~Bills(req[r])) =>
    plan = IF cutOff THEN "STARTER" ELSE sub.plan

\* Nobody is downgraded whose subscription was charged or opened anew since a charge of
\* it failed, unless calls overlapped: the sweep writes back a row it listed earlier.  A
\* charge for an upgrade does not save a customer in grace, whose row keeps the status
\* and the end of the grace.  (billing.ts: runDunning, changePlan)
DowngradeIsDeserved ==
  [][sub'.status = "DOWNGRADED" /\ sub.status # "DOWNGRADED" =>
       lapsed \in {"failed", "upgraded"} \/ tangled]_subscriptionVars
================================================================================
