------------------------------- MODULE Entitlements -------------------------------
(***************************************************************************)
(* The modules a company may use: EntitlementService and OverrideService   *)
(* (identity/subscriptions) over the plan map of shared/modules.schema.ts, *)
(* for one company and one process, whose cache is a plain Map.            *)
(*                                                                         *)
(* Each await of a store is a step.  modulesFor is a subroutine: req.then  *)
(* says where the call goes on with its answer.  Left out: reasons and     *)
(* audit rows; modules that neither need nor are needed by another.        *)
(***************************************************************************)
EXTENDS Integers, FiniteSets

CONSTANTS
  Request, Trial, None,
  NoCache,
  MaxCalls,    \* bound: calls
  MaxFailures  \* bound: calls that die half way, and restarts

ASSUME EntitlementsAssumption == MaxCalls \in Nat /\ MaxFailures \in Nat

VARIABLES
  plan,       \* companies.plan
  overrides,  \* company_modules: "none", "granted" or "revoked"
  cache,      \* the company's entry of the service's Map
  trials,     \* grants with an expiry, as OverrideStore keeps them
  req,        \* calls in flight
  missed,     \* a write whose invalidation was overtaken by a fill, or never came (history)
  calls, failures

entitlementVars == <<plan, overrides, cache, trials, req, missed, calls, failures>>

Plan == {"STARTER", "STANDARD", "PROFESSIONAL", "ENTERPRISE"}

PLAN_MODULES ==
  LET standard == {"GPS_TRACKING", "TRIP_HISTORY", "ANALYTICS", "DOCUMENTS"}
      professional == standard \cup {"QR_GOODS", "GOODS_VERIFICATION", "CUSTODY_TRACKING"}
  IN [ STARTER      |-> {"GPS_TRACKING"},
       STANDARD     |-> standard,
       PROFESSIONAL |-> professional,
       ENTERPRISE   |-> professional \cup
         {"THEFT_DETECTION", "GPS_ANCHORING", "REPUTATION", "CLAIMS_EVIDENCE",
          "FINANCING_RAILS"} ]

PlatformModule == PLAN_MODULES["ENTERPRISE"]

MODULE_REQUIRES ==
  [m \in PlatformModule |->
    CASE m \in {"GOODS_VERIFICATION", "CUSTODY_TRACKING"} -> {"QR_GOODS"}
      [] m = "THEFT_DETECTION" -> {"QR_GOODS", "CUSTODY_TRACKING"}
      [] m = "GPS_ANCHORING" -> {"GPS_TRACKING"}
      [] m \in {"CLAIMS_EVIDENCE", "FINANCING_RAILS"} -> {"CUSTODY_TRACKING", "DOCUMENTS"}
      [] m = "REPUTATION" -> {"CUSTODY_TRACKING"}
      [] m = "ANALYTICS" -> {"TRIP_HISTORY"}
      [] OTHER -> {}]

\* The modules of a set that lack a prerequisite in it.
missingPrerequisites(enabled) == {m \in enabled : ~(MODULE_REQUIRES[m] \subseteq enabled)}

\* The plan and, on top of it, what was granted and revoked one by one.
Effective(p, o) ==
  {m \in PlatformModule : o[m] = "granted" \/ (o[m] = "none" /\ m \in PLAN_MODULES[p])}

NoTrial == [module |-> None, state |-> "none"]
Idle == [pc |-> "idle", then |-> "done", module |-> None, timed |-> FALSE, trial |-> None,
         todo |-> {}, plan |-> "STARTER", modules |-> {}, row |-> None]

EntitlementsInit ==
  /\ overrides = [m \in PlatformModule |-> "none"]
  /\ cache = NoCache
  /\ trials = [t \in Trial |-> NoTrial]
  /\ req = [r \in Request |-> Idle]
  /\ missed = FALSE
  /\ calls = 0 /\ failures = 0

Become(r, q) == req' = [req EXCEPT ![r] = q]

Call(r) ==
  /\ req[r].pc = "idle"
  /\ calls < MaxCalls
  /\ calls' = calls + 1
  /\ UNCHANGED failures

Step(r, pc) == req[r].pc = pc /\ UNCHANGED <<calls, failures>>

\* A call is over when it has nowhere to go on.
Settled(q) == IF q.pc = "done" THEN Idle ELSE q

--------------------------------------------------------------------------------
\* --- modulesFor -----------------------------------------------------------------
\* A cached answer at once, the plan otherwise.
AskModules(q, entry) ==
  Settled(IF entry # NoCache THEN [q EXCEPT !.pc = q.then, !.modules = entry]
          ELSE [q EXCEPT !.pc = "planFor"])

ReadPlan(r) ==
  /\ Step(r, "planFor")
  /\ Become(r, [req[r] EXCEPT !.pc = "overridesFor", !.plan = plan])
  /\ UNCHANGED <<plan, overrides, cache, trials, missed>>

ReadOverrides(r) ==
  /\ Step(r, "overridesFor")
  /\ Become(r, [req[r] EXCEPT !.pc = "fill", !.modules = Effective(req[r].plan, overrides)])
  /\ UNCHANGED <<plan, overrides, cache, trials, missed>>

\* The cache takes what was read, whatever was written since.
Fill(r) ==
  /\ Step(r, "fill")
  /\ cache' = req[r].modules
  /\ missed' = (req[r].modules # Effective(plan, overrides))
  /\ Become(r, Settled([req[r] EXCEPT !.pc = req[r].then]))
  /\ UNCHANGED <<plan, overrides, trials>>

\* invalidate, and the modulesFor that follows a write.
Invalidate(r) ==
  /\ Step(r, "invalidate")
  /\ cache' = NoCache
  /\ missed' = FALSE
  /\ Become(r, AskModules(req[r], NoCache))
  /\ UNCHANGED <<plan, overrides, trials>>

\* A login or a refresh asks for the modules of the next token.
BeginRead(r) ==
  /\ Call(r)
  /\ Become(r, AskModules(Idle, cache))
  /\ UNCHANGED <<plan, overrides, cache, trials, missed>>

--------------------------------------------------------------------------------
\* --- overrides ------------------------------------------------------------------
\* grant, for ever or for a trial.
BeginGrant(r, m, timed) ==
  /\ Call(r)
  /\ Become(r, AskModules([Idle EXCEPT !.then = "grant", !.module = m, !.timed = timed], cache))
  /\ UNCHANGED <<plan, overrides, cache, trials, missed>>

\* A module that would lack a prerequisite is refused.
Grant(r) ==
  /\ Step(r, "grant")
  /\ IF req[r].module \in missingPrerequisites(req[r].modules \cup {req[r].module})
     THEN Become(r, Idle) /\ UNCHANGED overrides
     ELSE /\ overrides' = [overrides EXCEPT ![req[r].module] = "granted"]
          /\ Become(r, [req[r] EXCEPT !.pc = "invalidate", !.then = "record"])
  /\ UNCHANGED <<plan, cache, trials, missed>>

\* The record of a grant: one with an expiry is a trial.
Record(r) ==
  /\ Step(r, "record")
  /\ IF req[r].timed
     THEN \E t \in Trial :
            /\ trials[t] = NoTrial
            /\ trials' = [trials EXCEPT ![t] = [module |-> req[r].module, state |-> "running"]]
     ELSE UNCHANGED trials
  /\ Become(r, Idle)
  /\ UNCHANGED <<plan, overrides, cache, missed>>

BeginRevoke(r, m) ==
  /\ Call(r)
  /\ Become(r, AskModules([Idle EXCEPT !.then = "revoke", !.module = m], cache))
  /\ UNCHANGED <<plan, overrides, cache, trials, missed>>

\* Whatever lacks a prerequisite without the module goes with it, one row at a time,
\* the module first.
Revoke(r) ==
  /\ Step(r, "revoke")
  /\ LET left == req[r].modules \ {req[r].module}
         orphaned == missingPrerequisites(left) IN
       /\ overrides' = [overrides EXCEPT ![req[r].module] = "revoked"]
       /\ Become(r, [req[r] EXCEPT !.then = "done", !.todo = orphaned,
                       !.pc = IF orphaned = {} THEN "invalidate" ELSE "disable"])
  /\ UNCHANGED <<plan, cache, trials, missed>>

Disable(r) ==
  /\ Step(r, "disable")
  /\ \E m \in req[r].todo :
       /\ overrides' = [overrides EXCEPT ![m] = "revoked"]
       /\ Become(r, [req[r] EXCEPT !.todo = @ \ {m},
                       !.pc = IF req[r].todo = {m} THEN "invalidate" ELSE "disable"])
  /\ UNCHANGED <<plan, cache, trials, missed>>

\* expireTrials: the list, then for each of it the override, the cache, the mark.
BeginExpire(r) ==
  /\ Call(r)
  /\ LET over == {t \in Trial : trials[t].state = "over"} IN
       /\ over # {}
       /\ Become(r, [Idle EXCEPT !.pc = "clear", !.todo = over])
  /\ UNCHANGED <<plan, overrides, cache, trials, missed>>

\* The override goes, whoever set it since.
ClearOverride(r) ==
  /\ Step(r, "clear")
  /\ \E t \in req[r].todo :
       /\ overrides' = [overrides EXCEPT ![trials[t].module] = "none"]
       /\ Become(r, [req[r] EXCEPT !.pc = "uncache", !.trial = t])
  /\ UNCHANGED <<plan, cache, trials, missed>>

MutUncache(r) ==
  /\ Step(r, "uncache")
  /\ Become(r, [req[r] EXCEPT !.pc = "mark"])
  /\ UNCHANGED <<plan, overrides, cache, trials, missed>>

Uncache(r) ==
  /\ Step(r, "uncache")
  /\ cache' = NoCache
  /\ missed' = FALSE
  /\ Become(r, [req[r] EXCEPT !.pc = "mark"])
  /\ UNCHANGED <<plan, overrides, trials>>

MarkExpired(r) ==
  /\ Step(r, "mark")
  /\ trials' = [trials EXCEPT ![req[r].trial].state = "expired"]
  /\ Become(r, Settled([req[r] EXCEPT !.todo = @ \ {req[r].trial}, !.trial = None,
                          !.pc = IF req[r].todo = {req[r].trial} THEN "done" ELSE "clear"]))
  /\ UNCHANGED <<plan, overrides, cache, missed>>

\* A trial's time is up.
TrialEnds(t) ==
  /\ trials[t].state = "running"
  /\ trials' = [trials EXCEPT ![t].state = "over"]
  /\ UNCHANGED <<plan, overrides, cache, req, missed, calls, failures>>

\* --- applyPlan ------------------------------------------------------------------
SetPlan(r) ==
  /\ Step(r, "setPlan") \/ Step(r, "applyPlan")
  /\ plan' = req[r].plan
  /\ Become(r, [req[r] EXCEPT !.pc = "invalidate"])
  /\ UNCHANGED <<overrides, cache, trials, missed>>

--------------------------------------------------------------------------------
\* The points of a call between a write and the invalidation it owes; at applyPlan
\* a registration has written the plan already.
Owes(q) == q.pc \in {"invalidate", "disable", "uncache", "applyPlan"}

\* An await of the store throws: the call is over, and what it owed never comes.
Throw(r) ==
  /\ req[r].pc # "idle"
  /\ failures < MaxFailures
  /\ failures' = failures + 1
  /\ missed' = (missed \/ Owes(req[r]))
  /\ Become(r, Idle)
  /\ UNCHANGED <<plan, overrides, cache, trials, calls>>

\* The process restarts with an empty Map.
Restart ==
  /\ failures < MaxFailures
  /\ failures' = failures + 1
  /\ cache' = NoCache /\ missed' = FALSE
  /\ req' = [r \in Request |-> Idle]
  /\ UNCHANGED <<plan, overrides, trials, calls>>

\* What a cached answer says is what the plan and the overrides say, but while a write
\* has yet to invalidate it, or after a fill that overtook a write or a write that
\* threw before it: every write ends in its invalidation, and no other way is there
\* to a wrong answer.  (entitlements.ts: modulesFor and every writer)
CacheWrongOnlyIfMissed ==
  cache # NoCache /\ cache # Effective(plan, overrides) =>
    missed \/ \E r \in Request : Owes(req[r])
================================================================================
