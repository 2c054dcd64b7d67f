-------------------------- MODULE Subscriptions_proofs --------------------------
(***************************************************************************)
(* Proofs about Subscriptions.tla, for any calls at a time, any trials,    *)
(* any bounds and any choice of modules and plans that are asked for.      *)
(*                                                                         *)
(* The properties speak of moments when no call about the plan is in       *)
(* flight.  They become inductive with what such a call carries: the row   *)
(* it read and the plan it will apply, against the row and the plan that   *)
(* are stored.                                                             *)
(***************************************************************************)
EXTENDS Subscriptions, TLAPS

Pc == {"idle", "planFor", "overridesFor", "fill", "invalidate", "grant", "revoke", "record",
       "disable", "clear", "uncache", "mark", "setPlan", "applyPlan", "open", "charge",
       "upsert", "reset", "status", "failed", "activate", "companyPlan", "admin"}

\* What a call has yet to write: modules to disable or trials to expire.
Item == PlatformModule \cup Trial

CallState ==
  [pc : Pc, then : {"done", "grant", "revoke", "record", "apply", "admin"},
   module : PlatformModule \cup {None}, timed : BOOLEAN, trial : Item \cup {None},
   todo : SUBSET Item, plan : Plan, modules : SUBSET PlatformModule,
   row : SubscriptionRow \cup {None}]

\* The points of a call at which it is about to read or write what is billed.
Billing == {"open", "charge", "upsert", "reset", "status", "failed", "setPlan",
            "activate", "companyPlan", "applyPlan"}

\* A call about the plan carries its row from its first step on, and where it goes on
\* after a subroutine agrees with where it is.
CallSound(q) ==
  /\ q.pc \in Billing \/ q.then = "admin" => q.row # None
  /\ q.then = "apply" => q.pc \in {"open", "charge", "upsert", "status"}
  /\ q.pc \in {"open", "charge"} => q.then = "apply"
  /\ q.then = "admin" =>
       q.pc \notin {"open", "charge", "upsert", "reset", "status", "failed", "setPlan"}
  /\ q.pc \in {"activate", "companyPlan", "applyPlan", "admin"} => q.then = "admin"
  /\ q.pc \in {"reset", "status"} =>
       q.row.status = IF q.then = "apply" THEN "CANCELLED" ELSE "ACTIVE"
  /\ q.pc = "open" => q.row.status = "ACTIVE"
  /\ q.row # None /\ q.row.status = "DOWNGRADED" => q.row.grace = "none"

CallsSound ==
  /\ req \in [Request -> CallState]
  /\ \A r \in Request : CallSound(req[r])

\* The tables; a company is created, approved and given its admin in this order, and
\* only then it subscribes.
TablesSound ==
  /\ plan \in Plan
  /\ overrides \in [PlatformModule -> {"none", "granted", "revoked"}]
  /\ cache = NoCache \/ cache \subseteq PlatformModule
  /\ trials \in [Trial -> [module : PlatformModule \cup {None},
                           state : {"none", "running", "over", "expired"}]]
  /\ sub \in SubscriptionRow
  /\ company \in [status : {"none", "PENDING", "ACTIVE", "SUSPENDED"}, admin : BOOLEAN]
  /\ sub.status = "DOWNGRADED" => sub.grace = "none"
  /\ sub # NoSub => company.admin
  /\ company.admin => company.status \notin {"none", "PENDING"}
  /\ company.status = "none" => plan = "STARTER"
  /\ lapsed \in {"no", "failed", "upgraded"}

\* How far the company of a call is.
Backed(q) ==
  /\ q.pc \in Billing /\ q.then # "admin" => company.admin
  /\ q.then = "admin" =>
       company.status # "none" /\ (q.pc # "activate" => company.status # "PENDING")

\* What the subscription and the plan in force say of each other, and how a subscription
\* is late.
Due == IF cutOff THEN "STARTER" ELSE sub.plan
Served == sub = NoSub \/ plan = Due
Late == {"GRACE", "DOWNGRADED"}
LateAfterFailure == sub.status \in Late => lapsed # "no"

\* What a call knows of them that alone deals with the plan.
Carries(q) ==
  /\ q.then = "admin" => sub = NoSub
  /\ q.pc \in {"open", "charge", "upsert"} =>
       /\ IF q.then = "apply" THEN q.plan = q.row.plan
          ELSE plan = IF cutOff THEN "STARTER" ELSE q.row.plan
       /\ q.row.status \in Late => lapsed # "no"
  /\ q.pc = "status" /\ q.then = "apply" => q.plan = "STARTER"
  /\ q.pc = "failed" => lapsed # "no"
  /\ IF q.pc = "setPlan" THEN sub = NoSub \/ q.plan = Due ELSE Served
  /\ \/ q.pc \in {"reset", "status"} \/ (q.pc = "upsert" /\ q.row.status \notin Late)
     \/ LateAfterFailure

Knows(q) == IF Bills(q) THEN Carries(q) ELSE Served /\ LateAfterFailure

\* While no two calls about the plan have met, the one that is there knows.
BillingSound ==
  ~tangled =>
    /\ \A r, s \in Request : Bills(req[r]) /\ Bills(req[s]) => r = s
    /\ \A r \in Request : Bills(req[r]) => Carries(req[r])
    /\ (\A r \in Request : ~Bills(req[r])) => Served /\ LateAfterFailure

SubscriptionsInv ==
  /\ TablesSound
  /\ CallsSound
  /\ \A r \in Request : Backed(req[r])
  /\ CacheWrongOnlyIfMissed
  /\ BillingSound

-------------------------------------------------------------------------------
(***************************************************************************)
(* One call moves on: what is left to show for it, and for its tables.     *)
(***************************************************************************)

Moves(r, q) == q \in CallState /\ CallSound(q) /\ Become(r, q)

\* Every call that does not move is where it was.
LEMMA OthersStay ==
  ASSUME CallsSound, NEW r \in Request, NEW q, Moves(r, q)
  PROVE  /\ CallsSound'
         /\ req'[r] = q
         /\ \A s \in Request \ {r} : req'[s] = req[s]
<1>1. /\ req' \in [Request -> CallState] /\ req'[r] = q
      /\ \A s \in Request \ {r} : req'[s] = req[s]
  BY DEF Moves, Become, CallsSound
<1>2. \A s \in Request : CallSound(req'[s])
  BY <1>1 DEF CallsSound, Moves
<1> QED BY <1>1, <1>2 DEF CallsSound

\* A step of a call writes nothing the cache depends on, or owes an invalidation after
\* it, or leaves the cache empty or right, or is remembered as missed.
CacheStep(c, q) ==
  \/ Owes(q)
  \/ cache' = NoCache \/ cache' = Effective(plan', overrides')
  \/ missed'
  \/ ~Owes(c) /\ UNCHANGED <<plan, overrides, cache>> /\ (missed => missed')

LEMMA CacheKept ==
  ASSUME CallsSound, CacheWrongOnlyIfMissed,
         NEW r \in Request, NEW q, Moves(r, q), CacheStep(req[r], q)
  PROVE  CacheWrongOnlyIfMissed'
<1>1. /\ req'[r] = q
      /\ \A s \in Request \ {r} : req'[s] = req[s]
  BY OthersStay
<1>2. CASE Owes(q)
  BY <1>1, <1>2 DEF CacheWrongOnlyIfMissed
<1>3. CASE cache' = NoCache \/ cache' = Effective(plan', overrides') \/ missed'
  BY <1>3 DEF CacheWrongOnlyIfMissed
<1>4. CASE /\ ~Owes(req[r]) /\ UNCHANGED <<plan, overrides, cache>>
             /\ (missed => missed')
  <2>1. \A s \in Request : Owes(req[s]) => Owes(req'[s])
    BY <1>1, <1>4
  <2> QED BY <2>1, <1>4 DEF CacheWrongOnlyIfMissed
<1> QED BY <1>2, <1>3, <1>4 DEF CacheStep

\* The steps of a call outside billing.
Quiet(c, q) ==
  /\ c.pc \notin Billing /\ q.pc \notin Billing
  /\ q.then = "admin" => c.then = "admin"
  /\ Bills(q) => Bills(c)

\* Outside billing a step keeps what is known of the tables, whoever else is at work.
LEMMA QuietKept ==
  ASSUME SubscriptionsInv, NEW r \in Request, NEW q, Moves(r, q), Quiet(req[r], q),
         UNCHANGED <<plan, sub, company, lapsed, cutOff>>, tangled => tangled', TablesSound',
         CacheStep(req[r], q)
  PROVE  SubscriptionsInv'
<1>1. /\ CallsSound' /\ req'[r] = q
      /\ \A s \in Request \ {r} : req'[s] = req[s]
  BY OthersStay DEF SubscriptionsInv
<1>2. CacheWrongOnlyIfMissed'
  BY CacheKept DEF SubscriptionsInv
<1>3. \A s \in Request : Backed(req[s])'
  BY <1>1 DEF SubscriptionsInv, Backed, Quiet, Billing
<1>4. BillingSound'
  <2>1. \A s \in Request : Bills(req'[s]) => Bills(req[s])
    BY <1>1 DEF Quiet
  <2>2. ASSUME ~tangled', NEW s \in Request, Bills(req'[s]) PROVE Carries(req[s])'
    <3>1. Carries(req[s])
      BY <2>1, <2>2 DEF SubscriptionsInv, BillingSound
    <3> QED
      BY <1>1, <2>2, <3>1 DEF Carries, Quiet, Billing, Served, Due, LateAfterFailure, Bills
  <2>3. ASSUME ~tangled', \A s \in Request : ~Bills(req'[s]) PROVE (Served /\ LateAfterFailure)'
    <3>1. CASE Bills(req[r])
      <4>1. Carries(req[r])
        BY <2>3, <3>1 DEF SubscriptionsInv, BillingSound
      <4> QED BY <4>1 DEF Carries, Quiet, Billing, Served, Due, LateAfterFailure
    <3>2. CASE ~Bills(req[r])
      <4>1. \A s \in Request : ~Bills(req[s])
        BY <1>1, <2>3, <3>2
      <4> QED BY <2>3, <4>1 DEF SubscriptionsInv, BillingSound, Served, Due, LateAfterFailure
    <3> QED BY <3>1, <3>2
  <2>4. ~tangled' => \A s, t \in Request : Bills(req'[s]) /\ Bills(req'[t]) => s = t
    BY <2>1 DEF SubscriptionsInv, BillingSound
  <2> QED BY <2>2, <2>3, <2>4 DEF BillingSound
<1> QED BY <1>1, <1>2, <1>3, <1>4 DEF SubscriptionsInv

\* A company is never taken back to an earlier stage.
CompanyGrows ==
  /\ company.admin => company'.admin
  /\ company.status # "none" => company'.status # "none"
  /\ company.status \notin {"none", "PENDING"} => company'.status \notin {"none", "PENDING"}

\* Unless calls met, no other one is about the plan.
Alone(r) == ~tangled' => ~tangled /\ \A s \in Request \ {r} : ~Bills(req[s])

\* A step of a call about the plan keeps the invariant if the call still knows after it.
LEMMA BillingKept ==
  ASSUME SubscriptionsInv, NEW r \in Request, NEW q, Moves(r, q),
         TablesSound', CacheStep(req[r], q), CompanyGrows, Backed(q)', Alone(r),
         ~tangled' /\ Knows(req[r]) => Knows(q)'
  PROVE  SubscriptionsInv'
<1>1. /\ CallsSound' /\ req'[r] = q
      /\ \A s \in Request \ {r} : req'[s] = req[s]
  BY OthersStay DEF SubscriptionsInv
<1>2. CacheWrongOnlyIfMissed'
  BY CacheKept DEF SubscriptionsInv
<1>3. \A s \in Request : Backed(req[s])'
  <2>1. ASSUME NEW s \in Request \ {r} PROVE Backed(req[s])'
    <3>1. Backed(req[s]) /\ req'[s] = req[s]
      BY <1>1 DEF SubscriptionsInv
    <3> QED BY <3>1 DEF Backed, CompanyGrows
  <2>2. Backed(req[r])'
    BY <1>1 DEF Backed
  <2> QED BY <2>1, <2>2
<1>4. BillingSound'
  <2> SUFFICES ASSUME ~tangled'
               PROVE  /\ \A s, t \in Request : Bills(req'[s]) /\ Bills(req'[t]) => s = t
                      /\ \A s \in Request : Bills(req'[s]) => Carries(req[s])'
                      /\ (\A s \in Request : ~Bills(req'[s])) => (Served /\ LateAfterFailure)'
    BY DEF BillingSound
  <2>1. \A s \in Request \ {r} : ~Bills(req[s]) /\ ~Bills(req'[s])
    BY <1>1 DEF Alone
  <2>2. Knows(req[r])
    <3>1. CASE Bills(req[r])
      BY <3>1 DEF Alone, SubscriptionsInv, BillingSound, Knows
    <3>2. CASE ~Bills(req[r])
      BY <2>1, <3>2 DEF Alone, SubscriptionsInv, BillingSound, Knows
    <3> QED BY <3>1, <3>2
  <2>3. Knows(q)'
    BY <2>2
  <2>4. (IF Bills(req[r]) THEN Carries(req[r]) ELSE Served /\ LateAfterFailure)'
    BY <1>1, <2>3 DEF Knows, Bills, Carries
  <2> QED BY <2>1, <2>4
<1> QED BY <1>1, <1>2, <1>3, <1>4 DEF SubscriptionsInv

-------------------------------------------------------------------------------
(***************************************************************************)
(* The steps of Entitlements.                                              *)
(***************************************************************************)

LEMMA IdleSound ==
  /\ Idle \in CallState /\ CallSound(Idle) /\ ~Bills(Idle) /\ ~Owes(Idle)
  /\ Idle.pc = "idle" /\ Idle.then = "done" /\ Idle.row = None
BY DEF Idle, CallState, CallSound, Pc, Billing, Bills, Plan, Owes

LEMMA EffectiveTyped == \A p, o : Effective(p, o) \in SUBSET PlatformModule
BY DEF Effective

\* A call outside billing that keeps its row goes on outside billing.
LEMMA Onward ==
  ASSUME NEW c \in CallState, CallSound(c), c.pc \notin Billing,
         NEW q \in CallState, q.row = c.row, q.pc \notin Billing,
         q.then = "apply" => c.then = "apply",
         q.then = "admin" => c.then = "admin",
         q.pc = "admin" => q.then = "admin",
         c.pc = "idle" => q.row = None
  PROVE  CallSound(q) /\ Quiet(c, q)
BY DEF CallSound, Billing, Quiet, Bills

\* Settled changes nothing but a call that is over.
LEMMA SettledSound ==
  ASSUME NEW c \in CallState, CallSound(c), c.pc \notin Billing, c.then # "apply",
         c.pc = "idle" => c.row = None, NEW m \in SUBSET PlatformModule
  PROVE  LET q == Settled([c EXCEPT !.pc = c.then, !.modules = m]) IN
         /\ q \in CallState /\ CallSound(q) /\ Quiet(c, q) /\ ~Owes(q)
<1>1. CASE c.then = "done"
  <2>1. Settled([c EXCEPT !.pc = c.then, !.modules = m]) = Idle
    BY <1>1 DEF Settled, CallState
  <2> QED BY <2>1, IdleSound DEF Quiet, Billing
<1>2. CASE c.then # "done"
  <2>1. PICK q : q = [c EXCEPT !.pc = c.then, !.modules = m]
    OBVIOUS
  <2>2. /\ q \in CallState /\ q.row = c.row /\ q.then = c.then /\ q.pc = c.then
        /\ Settled([c EXCEPT !.pc = c.then, !.modules = m]) = q
    BY <1>2, <2>1 DEF CallState, Pc, Settled
  <2>3. q.pc \notin Billing /\ ~Owes(q)
    BY <1>2, <2>2 DEF CallState, Billing, Owes
  <2> QED BY <2>2, <2>3, Onward
<1> QED BY <1>1, <1>2

\* modulesFor answers from the cache, or has to ask.
LEMMA AskModulesSound ==
  ASSUME NEW c \in CallState, CallSound(c), c.pc \notin Billing, c.then # "apply",
         c.pc = "idle" => c.row = None, NEW m, m = NoCache \/ m \in SUBSET PlatformModule
  PROVE  LET q == AskModules(c, m) IN
         /\ q \in CallState /\ CallSound(q) /\ Quiet(c, q) /\ ~Owes(q)
<1>1. CASE m = NoCache
  <2>1. PICK q : q = [c EXCEPT !.pc = "planFor"]
    OBVIOUS
  <2>2. /\ q \in CallState /\ q.row = c.row /\ q.then = c.then /\ q.pc = "planFor"
        /\ AskModules(c, m) = q
    BY <1>1, <2>1 DEF CallState, Pc, Settled, AskModules
  <2> QED BY <2>2, Onward DEF Billing, Owes
<1>2. CASE m # NoCache
  BY <1>2, SettledSound DEF AskModules
<1> QED BY <1>1, <1>2

\* Each step of Entitlements keeps the invariant.
LEMMA EntitlementsKept ==
  ASSUME SubscriptionsInv, NEW r \in Request, UNCHANGED billingVars
  PROVE  /\ ReadPlan(r) \/ ReadOverrides(r) \/ Fill(r) \/ Invalidate(r) => SubscriptionsInv'
         /\ Grant(r) \/ Record(r) \/ Revoke(r) \/ Disable(r) => SubscriptionsInv'
         /\ BeginExpire(r) \/ ClearOverride(r) \/ Uncache(r) \/ MarkExpired(r) =>
              SubscriptionsInv'
         /\ BeginRead(r) => SubscriptionsInv'
         /\ \A m \in Toggled, timed \in BOOLEAN : BeginGrant(r, m, timed) => SubscriptionsInv'
         /\ \A m \in Toggled : BeginRevoke(r, m) => SubscriptionsInv'
<1> PICK c \in CallState : c = req[r]
  BY DEF SubscriptionsInv, CallsSound
<1>0. /\ CallSound(c) /\ TablesSound
      /\ UNCHANGED <<sub, company, lapsed, cutOff, tangled>>
  BY DEF SubscriptionsInv, CallsSound, billingVars
<1>a. \A q : /\ q \in CallState /\ CallSound(q) /\ Quiet(c, q) /\ Become(r, q)
             /\ CacheStep(c, q) /\ UNCHANGED plan /\ TablesSound'
          => SubscriptionsInv'
  BY <1>0, QuietKept DEF Moves
<1>1. ASSUME ReadPlan(r) PROVE SubscriptionsInv'
  <2>1. PICK q : q = [c EXCEPT !.pc = "overridesFor", !.plan = plan]
    OBVIOUS
  <2>2. q \in CallState /\ q.row = c.row /\ q.then = c.then /\ q.pc = "overridesFor"
    BY <1>0, <2>1 DEF CallState, Pc, TablesSound
  <2>3. CallSound(q) /\ Quiet(c, q)
    BY <1>1, <1>0, <2>2, Onward DEF ReadPlan, Step, Billing
  <2>4. /\ Become(r, q) /\ CacheStep(c, q)
        /\ UNCHANGED <<plan, overrides, cache, trials>>
    BY <1>1, <2>1 DEF ReadPlan, CacheStep, Owes, Step
  <2>5. TablesSound'
    BY <1>0, <2>4 DEF TablesSound
  <2> QED BY <1>a, <2>2, <2>3, <2>4, <2>5
<1>2. ASSUME ReadOverrides(r) PROVE SubscriptionsInv'
  <2>1. PICK q : q = [c EXCEPT !.pc = "fill", !.modules = Effective(c.plan, overrides)]
    OBVIOUS
  <2>2. q \in CallState /\ q.row = c.row /\ q.then = c.then /\ q.pc = "fill"
    BY <1>0, <2>1, EffectiveTyped DEF CallState, Pc, TablesSound
  <2>3. CallSound(q) /\ Quiet(c, q)
    BY <1>2, <1>0, <2>2, Onward DEF ReadOverrides, Step, Billing
  <2>4. /\ Become(r, q) /\ CacheStep(c, q)
        /\ UNCHANGED <<plan, overrides, cache, trials>>
    BY <1>2, <2>1 DEF ReadOverrides, CacheStep, Owes, Step
  <2>5. TablesSound'
    BY <1>0, <2>4 DEF TablesSound
  <2> QED BY <1>a, <2>2, <2>3, <2>4, <2>5
<1>3. ASSUME Fill(r) PROVE SubscriptionsInv'
  <2>1. PICK q : q = Settled([c EXCEPT !.pc = c.then, !.modules = c.modules])
    OBVIOUS
  <2>2. /\ c.pc \notin Billing /\ c.pc # "idle" /\ c.then # "apply"
        /\ c.modules \in SUBSET PlatformModule
    BY <1>3, <1>0 DEF Fill, Step, Billing, CallSound, CallState
  <2>3. q \in CallState /\ CallSound(q) /\ Quiet(c, q)
    BY <1>0, <2>1, <2>2, SettledSound
  <2>4. /\ UNCHANGED <<plan, overrides, trials>>
        /\ cache' = c.modules /\ missed' = (c.modules # Effective(plan, overrides))
    BY <1>3 DEF Fill
  <2>5. Become(r, q)
    BY <1>3, <2>1 DEF Fill, CallState
  <2>6. TablesSound' /\ CacheStep(c, q)
    BY <1>0, <2>2, <2>4 DEF TablesSound, CacheStep
  <2> QED BY <1>a, <2>3, <2>4, <2>5, <2>6
<1>4. ASSUME Invalidate(r) PROVE SubscriptionsInv'
  <2>1. PICK q : q = AskModules(c, NoCache)
    OBVIOUS
  <2>2. /\ c.pc \notin Billing /\ c.pc # "idle" /\ c.then # "apply"
        /\ c.modules \in SUBSET PlatformModule
    BY <1>4, <1>0 DEF Invalidate, Step, Billing, CallSound, CallState
  <2>3. q \in CallState /\ CallSound(q) /\ Quiet(c, q)
    BY <1>0, <2>1, <2>2, AskModulesSound
  <2>4. /\ UNCHANGED <<plan, overrides, trials>>
        /\ cache' = NoCache
    BY <1>4 DEF Invalidate
  <2>5. Become(r, q)
    BY <1>4, <2>1 DEF Invalidate, CallState
  <2>6. TablesSound' /\ CacheStep(c, q)
    BY <1>0, <2>2, <2>4 DEF TablesSound, CacheStep
  <2> QED BY <1>a, <2>3, <2>4, <2>5, <2>6
<1>5. ASSUME Grant(r) PROVE SubscriptionsInv'
  <2>1. CASE Become(r, Idle) /\ UNCHANGED overrides
    <3>1. Quiet(c, Idle) /\ CacheStep(c, Idle) /\ UNCHANGED <<plan, cache, trials>>
      BY <1>5, <2>1, IdleSound DEF Grant, Step, Quiet, Billing, CacheStep, Owes
    <3>2. TablesSound'
      BY <1>0, <2>1, <3>1 DEF TablesSound
    <3> QED BY <1>a, <2>1, <3>1, <3>2, IdleSound
  <2>2. CASE /\ overrides' = [overrides EXCEPT ![c.module] = "granted"]
             /\ Become(r, [c EXCEPT !.pc = "invalidate", !.then = "record"])
    <3>1. PICK q : q = [c EXCEPT !.pc = "invalidate", !.then = "record"]
      OBVIOUS
    <3>2. /\ q \in CallState /\ q.row = c.row /\ q.then = "record" /\ q.pc = "invalidate"
          /\ c.pc = "grant" /\ UNCHANGED <<plan, cache, trials>>
      BY <1>5, <3>1 DEF CallState, Pc, Grant, Step
    <3>3. CallSound(q) /\ Quiet(c, q)
      BY <1>0, <3>2, Onward DEF Billing
    <3>4. TablesSound' /\ CacheStep(c, q)
      BY <1>0, <2>2, <3>2 DEF TablesSound, CacheStep, Owes
    <3> QED BY <1>a, <2>2, <3>1, <3>2, <3>3, <3>4
  <2> QED BY <1>5, <2>1, <2>2 DEF Grant
<1>6. ASSUME Record(r) PROVE SubscriptionsInv'
  <2>1. Become(r, Idle) /\ UNCHANGED <<plan, overrides, cache, missed>> /\ c.pc = "record"
    BY <1>6 DEF Record, Step
  <2>2. Quiet(c, Idle) /\ CacheStep(c, Idle)
    BY <2>1, IdleSound DEF Quiet, Billing, CacheStep, Owes
  <2>3. TablesSound'
    BY <1>0, <1>6, <2>1 DEF Record, TablesSound, CallState
  <2> QED BY <1>a, <2>1, <2>2, <2>3, IdleSound
<1>7. ASSUME Revoke(r) PROVE SubscriptionsInv'
  <2> DEFINE orphaned == missingPrerequisites(c.modules \ {c.module})
  <2>0. orphaned \in SUBSET Item
    BY DEF missingPrerequisites, CallState, Item
  <2>1. PICK q :
          /\ q = [c EXCEPT !.then = "done", !.todo = orphaned,
                    !.pc = IF orphaned = {} THEN "invalidate" ELSE "disable"]
          /\ Become(r, q)
    BY <1>7 DEF Revoke
  <2> HIDE DEF orphaned
  <2>2. /\ q \in CallState /\ q.row = c.row /\ q.then = "done"
        /\ q.pc \in {"invalidate", "disable"} /\ c.pc = "revoke"
    BY <1>7, <2>0, <2>1 DEF CallState, Pc, Revoke, Step
  <2>3. CallSound(q) /\ Quiet(c, q)
    BY <1>0, <2>2, Onward DEF Billing
  <2>4. /\ overrides' = [overrides EXCEPT ![c.module] = "revoked"]
        /\ UNCHANGED <<plan, cache, trials>>
    BY <1>7 DEF Revoke
  <2>5. TablesSound' /\ CacheStep(c, q)
    BY <1>0, <2>2, <2>4 DEF TablesSound, CacheStep, Owes
  <2> QED BY <1>a, <2>1, <2>2, <2>3, <2>4, <2>5
<1>8. ASSUME Disable(r) PROVE SubscriptionsInv'
  <2>1. PICK m, q :
          /\ q = [c EXCEPT !.todo = c.todo \ {m},
                    !.pc = IF c.todo = {m} THEN "invalidate" ELSE "disable"]
          /\ Become(r, q) /\ overrides' = [overrides EXCEPT ![m] = "revoked"]
          /\ UNCHANGED <<plan, cache, trials>> /\ c.pc = "disable"
    BY <1>8 DEF Disable, Step, CallState
  <2>2. /\ q \in CallState /\ q.row = c.row /\ q.then = c.then
        /\ q.pc \in {"invalidate", "disable"} /\ c.pc = "disable"
    <3>1. PICK at, left : /\ at \in {"invalidate", "disable"} /\ left = c.todo \ {m}
                          /\ q = [c EXCEPT !.todo = left, !.pc = at]
      BY <2>1
    <3>2. at \in Pc /\ left \in SUBSET Item
      BY <3>1 DEF CallState, Pc
    <3> QED BY <2>1, <3>1, <3>2 DEF CallState
  <2>3. CallSound(q) /\ Quiet(c, q)
    <3>1. c.pc \notin Billing /\ q.pc \notin Billing /\ q.pc # "admin" /\ c.pc # "idle"
      BY <2>2 DEF Billing
    <3> QED BY <1>0, <2>2, <3>1, Onward
  <2>4. TablesSound' /\ CacheStep(c, q)
    BY <1>0, <2>1, <2>2 DEF TablesSound, CacheStep, Owes
  <2> QED BY <1>a, <2>1, <2>2, <2>3, <2>4
<1>9. ASSUME BeginExpire(r) PROVE SubscriptionsInv'
  <2>1. PICK over \in SUBSET Trial : Become(r, [Idle EXCEPT !.pc = "clear", !.todo = over])
    BY <1>9 DEF BeginExpire
  <2>2. PICK q : q = [Idle EXCEPT !.pc = "clear", !.todo = over]
    OBVIOUS
  <2>3. q \in CallState /\ q.row = None /\ q.then = "done" /\ q.pc = "clear"
    BY <2>2, IdleSound DEF CallState, Pc, Item
  <2>4. /\ c.pc = "idle" /\ UNCHANGED <<plan, overrides, cache, trials, missed>>
    BY <1>9 DEF BeginExpire, Call
  <2>5. CallSound(q) /\ Quiet(c, q) /\ CacheStep(c, q)
    BY <2>3, <2>4 DEF CallSound, Quiet, Billing, Bills, CacheStep, Owes
  <2>6. TablesSound'
    BY <1>0, <2>4 DEF TablesSound
  <2> QED BY <1>a, <2>1, <2>2, <2>3, <2>4, <2>5, <2>6
<1>10. ASSUME ClearOverride(r) PROVE SubscriptionsInv'
  <2>1. PICK t \in c.todo :
          /\ overrides' = [overrides EXCEPT ![trials[t].module] = "none"]
          /\ Become(r, [c EXCEPT !.pc = "uncache", !.trial = t])
    BY <1>10 DEF ClearOverride
  <2>2. PICK q : q = [c EXCEPT !.pc = "uncache", !.trial = t]
    OBVIOUS
  <2>3. /\ q \in CallState /\ q.row = c.row /\ q.then = c.then /\ q.pc = "uncache"
        /\ c.pc = "clear" /\ UNCHANGED <<plan, cache, trials>>
    BY <1>10, <2>2 DEF CallState, Pc, ClearOverride, Step
  <2>4. CallSound(q) /\ Quiet(c, q)
    BY <1>0, <2>3, Onward DEF Billing
  <2>5. TablesSound' /\ CacheStep(c, q)
    BY <1>0, <2>1, <2>3 DEF TablesSound, CacheStep, Owes
  <2> QED BY <1>a, <2>1, <2>2, <2>3, <2>4, <2>5
<1>11. ASSUME Uncache(r) PROVE SubscriptionsInv'
  <2>1. PICK q : q = [c EXCEPT !.pc = "mark"]
    OBVIOUS
  <2>2. /\ q \in CallState /\ q.row = c.row /\ q.then = c.then /\ q.pc = "mark"
        /\ Become(r, q) /\ c.pc = "uncache"
        /\ cache' = NoCache /\ UNCHANGED <<plan, overrides, trials>>
    BY <1>11, <2>1 DEF CallState, Pc, Uncache, Step
  <2>3. CallSound(q) /\ Quiet(c, q)
    BY <1>0, <2>2, Onward DEF Billing
  <2>4. TablesSound' /\ CacheStep(c, q)
    BY <1>0, <2>2 DEF TablesSound, CacheStep
  <2> QED BY <1>a, <2>2, <2>3, <2>4
<1>12. ASSUME MarkExpired(r) PROVE SubscriptionsInv'
  <2>1. PICK p \in {"done", "clear"}, todo \in SUBSET Item :
          Become(r, Settled([c EXCEPT !.todo = todo, !.trial = None, !.pc = p]))
    BY <1>12 DEF MarkExpired, CallState
  <2>2. PICK q : q = Settled([c EXCEPT !.todo = todo, !.trial = None, !.pc = p])
    OBVIOUS
  <2>3. /\ c.pc = "mark" /\ UNCHANGED <<plan, overrides, cache, missed>>
        /\ trials' = [trials EXCEPT ![c.trial].state = "expired"]
    BY <1>12 DEF MarkExpired, Step
  <2>4. q \in CallState /\ CallSound(q) /\ Quiet(c, q)
    <3>1. CASE p = "done"
      <4>1. q = Idle
        BY <2>2, <3>1 DEF Settled, CallState
      <4> QED BY <2>3, <4>1, IdleSound DEF Quiet, Billing
    <3>2. CASE p = "clear"
      <4>1. q = [c EXCEPT !.todo = todo, !.trial = None, !.pc = p]
        BY <2>2, <3>2 DEF Settled, CallState
      <4>2. q \in CallState /\ q.row = c.row /\ q.then = c.then /\ q.pc = "clear"
        BY <3>2, <4>1 DEF CallState, Pc
      <4> QED BY <1>0, <2>3, <4>2, Onward DEF Billing
    <3> QED BY <3>1, <3>2
  <2>5. TablesSound' /\ CacheStep(c, q)
    BY <1>0, <2>3 DEF TablesSound, CacheStep, Owes
  <2> QED BY <1>a, <2>1, <2>2, <2>3, <2>4, <2>5
<1>13. ASSUME NEW call \in CallState, CallSound(call), call.row = None,
              call.pc = "idle", call.then # "admin", Call(r),
              Become(r, AskModules(call, cache)),
              UNCHANGED <<plan, overrides, cache, trials, missed>>
       PROVE  SubscriptionsInv'
  <2>1. PICK q : q = AskModules(call, cache)
    OBVIOUS
  <2>2. c.pc = "idle"
    BY <1>13 DEF Call
  <2>3. q \in CallState /\ CallSound(q) /\ Quiet(call, q)
    BY <1>0, <1>13, <2>1, AskModulesSound DEF TablesSound, CallSound, Billing
  <2>4. Quiet(c, q)
    BY <1>13, <2>2, <2>3 DEF Quiet, Billing, Bills
  <2>5. TablesSound' /\ CacheStep(c, q)
    BY <1>0, <1>13, <2>2 DEF TablesSound, CacheStep, Owes
  <2> QED BY <1>a, <1>13, <2>1, <2>3, <2>4, <2>5
<1>14. ASSUME BeginRead(r) PROVE SubscriptionsInv'
  BY <1>13, <1>14, IdleSound DEF BeginRead
<1>15. ASSUME NEW m \in Toggled, NEW timed \in BOOLEAN, BeginGrant(r, m, timed)
       PROVE  SubscriptionsInv'
  <2>1. PICK call : call = [Idle EXCEPT !.then = "grant", !.module = m, !.timed = timed]
    OBVIOUS
  <2>2. /\ call \in CallState /\ call.row = None
        /\ call.pc = "idle" /\ call.then = "grant"
    BY <2>1, IdleSound, SubscriptionsAssumption DEF CallState
  <2>3. CallSound(call)
    BY <2>2 DEF CallSound, Billing
  <2> QED BY <1>13, <1>15, <2>1, <2>2, <2>3 DEF BeginGrant
<1>16. ASSUME NEW m \in Toggled, BeginRevoke(r, m) PROVE SubscriptionsInv'
  <2>1. PICK call : call = [Idle EXCEPT !.then = "revoke", !.module = m]
    OBVIOUS
  <2>2. /\ call \in CallState /\ call.row = None
        /\ call.pc = "idle" /\ call.then = "revoke"
    BY <2>1, IdleSound, SubscriptionsAssumption DEF CallState
  <2>3. CallSound(call)
    BY <2>2 DEF CallSound, Billing
  <2> QED BY <1>13, <1>16, <2>1, <2>2, <2>3 DEF BeginRevoke
<1> QED
  BY <1>1, <1>2, <1>3, <1>4, <1>5, <1>6, <1>7, <1>8, <1>9, <1>10, <1>11, <1>12,
     <1>14, <1>15, <1>16

-------------------------------------------------------------------------------
(***************************************************************************)
(* The steps of BillingService and RegistrationService.                    *)
(***************************************************************************)

\* A call about the plan goes on.
LEMMA Continues ==
  ASSUME SubscriptionsInv, NEW r \in Request, NEW q, Moves(r, q),
         req[r].pc \in Billing \cup {"admin"},
         UNCHANGED tangled, TablesSound', CacheStep(req[r], q), CompanyGrows, Backed(q)',
         Carries(req[r]) => Knows(q)'
  PROVE  SubscriptionsInv'
<1>1. Bills(req[r])
  BY DEF SubscriptionsInv, CallsSound, CallSound, Bills, Billing
<1>2. Alone(r)
  BY <1>1 DEF Alone, SubscriptionsInv, BillingSound
<1> QED BY <1>1, <1>2, BillingKept DEF Knows

\* A call about the plan begins.
LEMMA Begins ==
  ASSUME SubscriptionsInv, NEW r \in Request, NEW q, Moves(r, q), BillingCall(r),
         UNCHANGED <<plan, sub, company, cutOff>>, Backed(q),
         lapsed' \in {"no", "failed", "upgraded"},
         Served /\ LateAfterFailure => Knows(q)'
  PROVE  SubscriptionsInv'
<1>1. /\ req[r].pc = "idle" /\ UNCHANGED <<overrides, cache, trials, missed>>
      /\ Alone(r)
  BY DEF BillingCall, Call, Alone
<1>2. TablesSound' /\ CacheStep(req[r], q) /\ CompanyGrows /\ Backed(q)'
  BY <1>1 DEF SubscriptionsInv, TablesSound, CacheStep, Owes, CompanyGrows, Backed
<1>3. ~Bills(req[r])
  BY <1>1 DEF Bills
<1> QED BY <1>1, <1>2, <1>3, BillingKept DEF Knows

\* What Carrying makes of its row and its plan.
LEMMA CarryingTyped ==
  ASSUME NEW pc \in Billing, NEW row \in SubscriptionRow, NEW p \in Plan,
         NEW then \in {"done", "apply", "admin"}, NEW q, q = Carrying(pc, row, p, then)
  PROVE  /\ q \in CallState /\ q.pc = pc /\ q.row = row /\ q.plan = p /\ q.then = then
         /\ Bills(q)
<1>1. pc \in Pc /\ row \in SubscriptionRow \cup {None}
  BY DEF Billing, Pc
<1>2. Idle \in CallState
  BY IdleSound
<1>3. /\ q = [Idle EXCEPT !.pc = pc, !.row = row, !.plan = p, !.then = then]
      /\ then \in {"done", "grant", "revoke", "record", "apply", "admin"}
  BY DEF Carrying
<1>4. /\ q \in CallState /\ q.pc = pc /\ q.row = row /\ q.plan = p /\ q.then = then
  BY <1>1, <1>2, <1>3 DEF CallState
<1>5. Bills(q)
  BY <1>4, SubscriptionsAssumption DEF Bills, Billing
<1> QED BY <1>4, <1>5

\* The calls that BillingCall admits.
LEMMA BeginsKept ==
  ASSUME SubscriptionsInv, NEW r \in Request
  PROVE  /\ \A p \in Offered : BeginSubscribe(r, p) => SubscriptionsInv'
         /\ \A p \in Offered : BeginChangePlan(r, p) => SubscriptionsInv'
         /\ \A p \in Offered : BeginApproveCompany(r, p) => SubscriptionsInv'
         /\ BeginCharged(r) => SubscriptionsInv'
         /\ BeginCancelled(r) => SubscriptionsInv'
         /\ BeginFailed(r) => SubscriptionsInv'
         /\ BeginDunning(r) => SubscriptionsInv'
<1>0. TablesSound
  BY DEF SubscriptionsInv
<1>t. lapsed \in {"no", "failed", "upgraded"}
  BY <1>0 DEF TablesSound
<1>1. "STARTER" \in Plan /\ NoSub \in SubscriptionRow
      /\ \A s \in {"ACTIVE", "CANCELLED"} :
           /\ [NoSub EXCEPT !.status = s] \in SubscriptionRow
           /\ [NoSub EXCEPT !.status = s].status = s
      /\ NoSub.status = "none"
  BY DEF Plan, NoSub, SubscriptionRow
<1>2. ASSUME NEW p \in Offered, BeginSubscribe(r, p) PROVE SubscriptionsInv'
  <2>1. PICK row : row = [plan |-> p, status |-> "ACTIVE", grace |-> "none"]
    OBVIOUS
  <2>2. PICK q : q = Carrying("open", row, p, "apply")
    OBVIOUS
  <2>3. row \in SubscriptionRow /\ row.status = "ACTIVE" /\ row.plan = p /\ p \in Plan
    BY <2>1, SubscriptionsAssumption DEF SubscriptionRow
  <2>4. /\ q \in CallState /\ q.pc = "open" /\ q.row = row /\ q.plan = p /\ q.then = "apply"
        /\ Bills(q)
    BY CarryingTyped, <2>2, <2>3 DEF Billing
  <2>5. BillingCall(r) /\ Become(r, q) /\ UNCHANGED <<plan, sub, company, lapsed, cutOff>>
        /\ company.admin
    BY <1>2, <2>1, <2>2 DEF BeginSubscribe, Customer
  <2>6. CallSound(q) /\ Backed(q)
    BY <2>3, <2>4, <2>5 DEF CallSound, Backed, Billing, Bills
  <2>7. Served /\ LateAfterFailure => Knows(q)'
    BY <2>3, <2>4, <2>5 DEF Knows, Carries, Served, Due, LateAfterFailure, Late
  <2> QED BY <1>t, <2>4, <2>5, <2>6, <2>7, Begins DEF Moves
<1>3. ASSUME NEW to \in Offered, BeginChangePlan(r, to) PROVE SubscriptionsInv'
  <2>1. /\ BillingCall(r) /\ UNCHANGED <<plan, sub, company, lapsed, cutOff>>
        /\ sub # NoSub /\ to \in Plan /\ company.admin /\ sub \in SubscriptionRow
        /\ sub.status = "DOWNGRADED" => sub.grace = "none"
    BY <1>3, <1>0, SubscriptionsAssumption DEF BeginChangePlan, TablesSound
  <2>2. CASE Become(r, Carrying("charge", [sub EXCEPT !.plan = to], to, "apply"))
    <3>1. PICK row : row = [sub EXCEPT !.plan = to]
      OBVIOUS
    <3>2. PICK q : q = Carrying("charge", row, to, "apply")
      OBVIOUS
    <3>3. /\ row \in SubscriptionRow /\ row.plan = to
          /\ row.status = sub.status /\ row.grace = sub.grace
      BY <2>1, <3>1 DEF SubscriptionRow
    <3>4. /\ q \in CallState /\ q.pc = "charge" /\ q.row = row /\ q.plan = to
          /\ q.then = "apply" /\ Bills(q)
      BY CarryingTyped, <2>1, <3>2, <3>3 DEF Billing
    <3>5. CallSound(q) /\ Backed(q)
      BY <2>1, <3>3, <3>4 DEF CallSound, Backed, Billing, Bills
    <3>6. Served /\ LateAfterFailure => Knows(q)'
      BY <2>1, <3>3, <3>4 DEF Knows, Carries, Served, Due, LateAfterFailure, Late
    <3> QED BY <1>t, <2>1, <2>2, <3>1, <3>2, <3>4, <3>5, <3>6, Begins DEF Moves
  <2>3. CASE Become(r, Carrying("upsert", sub, to, "done"))
    <3>1. PICK row : row = sub
      OBVIOUS
    <3>2. PICK q : q = Carrying("upsert", row, to, "done")
      OBVIOUS
    <3>3. /\ q \in CallState /\ q.pc = "upsert" /\ q.row = row
          /\ q.then = "done" /\ Bills(q)
      BY CarryingTyped, <2>1, <3>1, <3>2 DEF Billing
    <3>4. CallSound(q) /\ Backed(q)
      BY <2>1, <3>1, <3>3 DEF CallSound, Backed, Billing, Bills
    <3>5. Served /\ LateAfterFailure => Knows(q)'
      BY <2>1, <3>1, <3>3 DEF Knows, Carries, Served, Due, LateAfterFailure, Late
    <3> QED BY <1>t, <2>1, <2>3, <3>1, <3>2, <3>3, <3>4, <3>5, Begins DEF Moves
  <2> QED BY <1>3, <2>2, <2>3 DEF BeginChangePlan
\* The other calls begin with a row of their own.
<1>4. ASSUME BillingCall(r), UNCHANGED <<plan, sub, company>>,
             NEW pc \in {"upsert", "reset", "status", "failed", "activate"},
             NEW row \in SubscriptionRow, NEW p \in Plan,
             NEW then \in {"done", "apply", "admin"},
             Become(r, Carrying(pc, row, p, then)),
             IF pc = "activate" THEN then = "admin" /\ company.status = "PENDING"
             ELSE then # "admin" /\ company.admin,
             then = "apply" => pc \in {"upsert", "status"} /\ p = "STARTER",
             pc \in {"reset", "status"} =>
               row.status = IF then = "apply" THEN "CANCELLED" ELSE "ACTIVE",
             UNCHANGED cutOff, lapsed' \in {"no", "failed", "upgraded"}, pc = "upsert" => row.plan = "STARTER",
             pc = "upsert" => /\ row.status = "DOWNGRADED" /\ row.grace = "none"
                              /\ then = "apply" /\ (LateAfterFailure => lapsed' # "no"),
             row.status = "DOWNGRADED" => pc = "upsert",
             pc = "failed" => lapsed' # "no",
             pc = "reset" \/ (lapsed # "no" => lapsed' # "no")
      PROVE  SubscriptionsInv'
  <2>1. PICK q : q = Carrying(pc, row, p, then)
    OBVIOUS
  <2>2. /\ q \in CallState /\ q.pc = pc /\ q.row = row /\ q.plan = p /\ q.then = then
        /\ Bills(q)
    BY CarryingTyped, <1>4, <2>1 DEF Billing
  <2>3. CallSound(q)
    BY <1>4, <2>2 DEF CallSound, Billing, Bills
  <2>4. Backed(q)
    BY <1>4, <2>2 DEF Backed, Billing
  <2>5. pc = "activate" => sub = NoSub
    BY <1>0, <1>4 DEF TablesSound
  <2>6. Served /\ LateAfterFailure => Knows(q)'
    BY <1>4, <2>2, <2>5 DEF Knows, Carries, Served, Due, LateAfterFailure, Late
  <2> QED BY <1>4, <2>1, <2>2, <2>3, <2>4, <2>6, Begins DEF Moves
<1>5. ASSUME NEW p \in Offered, BeginApproveCompany(r, p) PROVE SubscriptionsInv'
  BY <1>1, <1>4, <1>5, <1>t, SubscriptionsAssumption DEF BeginApproveCompany
<1>6. ASSUME BeginCharged(r) PROVE SubscriptionsInv'
  BY <1>1, <1>4, <1>6, <1>t DEF BeginCharged, Customer
<1>7. ASSUME BeginCancelled(r) PROVE SubscriptionsInv'
  BY <1>1, <1>4, <1>7, <1>t DEF BeginCancelled, Customer
<1>8. ASSUME BeginFailed(r) PROVE SubscriptionsInv'
  BY <1>1, <1>4, <1>8, <1>t DEF BeginFailed, Customer
<1>9. ASSUME BeginDunning(r) PROVE SubscriptionsInv'
  <2>1. PICK row : row = [plan |-> "STARTER", status |-> "DOWNGRADED", grace |-> "none"]
    OBVIOUS
  <2>2. row \in SubscriptionRow /\ row.status = "DOWNGRADED" /\ row.grace = "none" /\ row.plan = "STARTER"
    BY <1>1, <2>1 DEF SubscriptionRow
  <2>3. /\ BillingCall(r) /\ UNCHANGED <<plan, sub, company, lapsed, cutOff>> /\ sub.status = "GRACE"
        /\ Become(r, Carrying("upsert", row, "STARTER", "apply"))
    BY <1>9, <2>1 DEF BeginDunning, PastDue
  <2>4. company.admin /\ (LateAfterFailure => lapsed' # "no")
    BY <1>0, <1>1, <2>3 DEF TablesSound, LateAfterFailure, Late
  <2> QED BY <1>1, <1>4, <1>t, <2>2, <2>3, <2>4
<1> QED BY <1>2, <1>3, <1>5, <1>6, <1>7, <1>8, <1>9

\* A call that goes on to the end of its call, its part done, knows what it should.
LEMMA ContinuesKept ==
  ASSUME SubscriptionsInv, NEW r \in Request
  PROVE  /\ OpenSubscription(r) \/ Charge(r) \/ Upsert(r) \/ ResetFailures(r) \/ SetStatus(r) => SubscriptionsInv'
         /\ GiveGrace(r) => SubscriptionsInv'
         /\ SetPlan(r) /\ UNCHANGED billingVars => SubscriptionsInv'
         /\ Activate(r) \/ SetCompanyPlan(r) \/ CreateAdmin(r) => SubscriptionsInv'
<1> PICK c \in CallState : c = req[r]
  BY DEF SubscriptionsInv, CallsSound
<1>0. CallSound(c) /\ TablesSound /\ Backed(c)
  BY DEF SubscriptionsInv, CallsSound
<1>t. lapsed \in {"no", "failed", "upgraded"}
  BY <1>0 DEF TablesSound
<1>a. \A q : /\ q \in CallState /\ CallSound(q) /\ Become(r, q)
             /\ c.pc \in Billing \cup {"admin"} /\ UNCHANGED tangled
             /\ TablesSound' /\ CacheStep(c, q) /\ CompanyGrows /\ Backed(q)'
             /\ (Carries(c) => Knows(q)')
          => SubscriptionsInv'
  BY Continues DEF Moves
\* The gateway has answered: the row is to be written, or the call is over.
<1>1. ASSUME c.pc \in {"open", "charge"},
             UNCHANGED <<plan, overrides, cache, trials, missed, sub, company, cutOff, tangled>>,
             \/ Become(r, Idle) /\ lapsed' = lapsed
             \/ /\ Become(r, [c EXCEPT !.pc = "upsert"])
                /\ c.pc = "open" \/ (lapsed # "no" => lapsed' # "no"),
             lapsed' \in {"no", "failed", "upgraded"}
      PROVE SubscriptionsInv'
  <2>1. TablesSound' /\ CompanyGrows /\ \A q : CacheStep(c, q)
    BY <1>0, <1>1 DEF TablesSound, CompanyGrows, CacheStep, Owes
  <2>2. CASE Become(r, Idle) /\ lapsed' = lapsed
    <3>1. Backed(Idle)' /\ (Carries(c) => Knows(Idle)')
      BY <1>1, <2>2, IdleSound DEF Backed, Billing, Carries, Knows, Served, Due, LateAfterFailure
    <3> QED BY <1>a, <1>1, <2>1, <2>2, <3>1, IdleSound DEF Billing
  <2>3. CASE /\ Become(r, [c EXCEPT !.pc = "upsert"])
             /\ c.pc = "open" \/ (lapsed # "no" => lapsed' # "no")
    <3>1. PICK q : q = [c EXCEPT !.pc = "upsert"]
      OBVIOUS
    <3>2. /\ q \in CallState /\ q.pc = "upsert" /\ q.row = c.row /\ q.plan = c.plan
          /\ q.then = c.then
      BY <3>1 DEF CallState, Pc
    <3>3. CallSound(q) /\ Backed(q)' /\ Bills(q)
      BY <1>0, <1>1, <3>2 DEF CallSound, Backed, Billing, Bills
    <3>4. Carries(c) => Knows(q)'
      <4>1. CASE c.pc = "open"
        <5>1. c.row.status = "ACTIVE" /\ c.then = "apply"
          BY <1>0, <4>1 DEF CallSound
        <5> QED BY <1>1, <3>2, <3>3, <4>1, <5>1 DEF Carries, Knows, Served, Due, Late
      <4>2. CASE c.pc = "charge"
        <5>1. c.then = "apply"
          BY <1>0, <4>2 DEF CallSound
        <5> QED BY <1>1, <2>3, <3>2, <3>3, <4>2, <5>1
              DEF Carries, Knows, Served, Due, LateAfterFailure
      <4> QED BY <1>1, <4>1, <4>2
    <3> QED BY <1>a, <1>1, <2>1, <2>3, <3>1, <3>2, <3>3, <3>4 DEF Billing
  <2> QED BY <1>1, <2>2, <2>3
<1>10. ASSUME OpenSubscription(r) PROVE SubscriptionsInv'
  BY <1>1, <1>10, <1>t DEF OpenSubscription, Step, entitlements
<1>11. ASSUME Charge(r) PROVE SubscriptionsInv'
  BY <1>1, <1>11, <1>t DEF Charge, Step, entitlements
\* AfterRow: the plan is to be applied, or the call is over.
<1>b. ASSUME c.pc \in {"upsert", "status"}, NEW q, q = AfterRow(c)
      PROVE  /\ q \in CallState /\ CallSound(q) /\ ~Owes(q)
             /\ IF c.then = "apply"
                THEN /\ q.pc = "setPlan" /\ q.plan = c.plan /\ q.row = c.row /\ q.then = "done"
                     /\ Bills(q)
                ELSE q = Idle
  <2>1. CASE c.then = "apply"
    <3>1. q = [c EXCEPT !.pc = "setPlan", !.then = "done"]
      BY <1>b, <2>1 DEF AfterRow
    <3>2. /\ q \in CallState /\ q.pc = "setPlan" /\ q.plan = c.plan /\ q.row = c.row
          /\ q.then = "done"
      BY <3>1 DEF CallState, Pc
    <3> QED BY <1>0, <1>b, <2>1, <3>2 DEF CallSound, Billing, Bills, Owes
  <2>2. CASE c.then # "apply"
    BY <1>b, <2>2, IdleSound DEF AfterRow
  <2> QED BY <2>1, <2>2
<1>2. ASSUME Upsert(r) PROVE SubscriptionsInv'
  <2>1. PICK q : q = AfterRow(c)
    OBVIOUS
  <2>2. /\ c.pc = "upsert" /\ sub' = c.row /\ Become(r, q)
        /\ cutOff' = (cutOff /\ c.then # "apply")
        /\ UNCHANGED <<plan, overrides, cache, trials, missed, company, lapsed, tangled>>
    BY <1>2, <2>1 DEF Upsert, Step, entitlements
  <2>3. c.row \in SubscriptionRow /\ company.admin
    BY <1>0, <2>2 DEF CallSound, Backed, CallState, Billing
  <2>4. TablesSound' /\ CompanyGrows /\ CacheStep(c, q)
    BY <1>0, <2>2, <2>3, SubscriptionsAssumption
    DEF TablesSound, CompanyGrows, CacheStep, Owes, CallSound
  <2>5. Backed(q)' /\ (Carries(c) => Knows(q)')
    <3>1. CASE c.then = "apply"
      BY <1>b, <2>1, <2>2, <2>3, <3>1 DEF Backed, Billing, Carries, Knows, Due, LateAfterFailure
    <3>2. CASE c.then # "apply"
      BY <1>b, <2>1, <2>2, <3>2, IdleSound
      DEF Backed, Billing, Carries, Knows, Served, Due, LateAfterFailure
    <3> QED BY <3>1, <3>2
  <2> QED BY <1>a, <1>b, <2>1, <2>2, <2>4, <2>5 DEF Billing
<1>3. ASSUME ResetFailures(r) PROVE SubscriptionsInv'
  <2>1. PICK q : q = [c EXCEPT !.pc = "status"]
    OBVIOUS
  <2>2. /\ c.pc = "reset" /\ sub' \in {sub, [sub EXCEPT !.grace = "none"]} /\ Become(r, q)
        /\ UNCHANGED <<plan, overrides, cache, trials, missed, company, lapsed, cutOff, tangled>>
    BY <1>3, <2>1 DEF ResetFailures, Step, entitlements
  <2>3. /\ sub' \in SubscriptionRow /\ sub'.plan = sub.plan /\ sub'.status = sub.status
        /\ sub'.grace \in {sub.grace, "none"} /\ (sub = NoSub => sub' = NoSub)
    BY <1>0, <2>2 DEF TablesSound, SubscriptionRow, NoSub
  <2>4. /\ q \in CallState /\ q.pc = "status" /\ q.row = c.row /\ q.plan = c.plan
        /\ q.then = c.then
    BY <2>1 DEF CallState, Pc
  <2>5. CallSound(q) /\ Backed(q)' /\ Bills(q) /\ c.then # "apply"
    BY <1>0, <2>2, <2>4 DEF CallSound, Backed, Billing, Bills
  <2>6. TablesSound' /\ CompanyGrows /\ CacheStep(c, q)
    BY <1>0, <2>2, <2>3 DEF TablesSound, CompanyGrows, CacheStep, Owes
  <2>7. Carries(c) => Knows(q)'
    BY <2>2, <2>3, <2>4, <2>5 DEF Carries, Knows, Served, Due
  <2> QED BY <1>a, <2>2, <2>4, <2>5, <2>6, <2>7 DEF Billing
<1>4. ASSUME SetStatus(r) PROVE SubscriptionsInv'
  <2>1. PICK q : q = AfterRow(c)
    OBVIOUS
  <2>2. /\ c.pc = "status" /\ Become(r, q)
        /\ cutOff' = (cutOff \/ c.row.status = "CANCELLED")
        /\ sub' = IF sub = NoSub THEN sub ELSE [sub EXCEPT !.status = c.row.status]
        /\ UNCHANGED <<plan, overrides, cache, trials, missed, company, lapsed, tangled>>
    BY <1>4, <2>1 DEF SetStatus, Step, entitlements
  <2>3. /\ sub' \in SubscriptionRow /\ sub'.plan = sub.plan
        /\ sub'.status \in {"none", "ACTIVE", "CANCELLED"}
        /\ (sub = NoSub <=> sub' = NoSub)
        /\ cutOff' = (cutOff \/ c.then = "apply")
    BY <1>0, <2>2 DEF TablesSound, CallSound, SubscriptionRow, NoSub
  <2>4. TablesSound' /\ CompanyGrows /\ CacheStep(c, q)
    BY <1>0, <2>2, <2>3 DEF TablesSound, CompanyGrows, CacheStep, Owes
  <2>5. Backed(q)' /\ (Carries(c) => Knows(q)')
    <3>1. CASE c.then = "apply"
      BY <1>0, <1>b, <2>1, <2>2, <2>3, <3>1
      DEF Backed, Billing, Carries, Knows, Due, LateAfterFailure, Late
    <3>2. CASE c.then # "apply"
      BY <1>b, <2>1, <2>2, <2>3, <3>2, IdleSound
      DEF Backed, Billing, Carries, Knows, Served, Due, LateAfterFailure, Late
    <3> QED BY <3>1, <3>2
  <2> QED BY <1>a, <1>b, <2>1, <2>2, <2>4, <2>5 DEF Billing
<1>5. ASSUME GiveGrace(r) PROVE SubscriptionsInv'
  <2>1. /\ c.pc = "failed"
        /\ UNCHANGED <<plan, overrides, cache, trials, missed, sub, company, lapsed, cutOff, tangled>>
    BY <1>5 DEF GiveGrace, Step, entitlements, billingVars
  <2>2. TablesSound' /\ CompanyGrows /\ \A q : CacheStep(c, q)
    BY <1>0, <2>1 DEF TablesSound, CompanyGrows, CacheStep, Owes
  <2>3. CASE Become(r, Idle)
    <3>1. Backed(Idle)' /\ (Carries(c) => Knows(Idle)')
      BY <2>1, IdleSound DEF Backed, Billing, Carries, Knows, Served, Due, LateAfterFailure
    <3> QED BY <1>a, <2>1, <2>2, <2>3, <3>1, IdleSound DEF Billing
  <2>4. CASE sub # NoSub /\ ~Become(r, Idle)
    <3>1. PICK row : row = [sub EXCEPT !.status = "GRACE",
                              !.grace = IF sub.grace = "none" THEN "running" ELSE sub.grace]
      OBVIOUS
    <3>2. PICK q : q = [c EXCEPT !.pc = "upsert", !.row = row]
      OBVIOUS
    <3>3. row \in SubscriptionRow /\ row.status = "GRACE" /\ row.plan = sub.plan
      BY <1>0, <3>1 DEF TablesSound, SubscriptionRow
    <3>4. q \in CallState /\ q.pc = "upsert" /\ q.row = row /\ q.then = c.then
      BY <3>2, <3>3 DEF CallState, Pc
    <3>5. Become(r, q)
      BY <1>5, <2>4, <3>1, <3>2 DEF GiveGrace, Become, TablesSound, SubscriptionRow
    <3>6. c.then \notin {"apply", "admin"}
      BY <1>0, <2>1 DEF CallSound
    <3>7. CallSound(q) /\ Backed(q)' /\ Bills(q)
      BY <1>0, <2>1, <3>3, <3>4, <3>6, SubscriptionsAssumption
      DEF CallSound, Backed, Billing, Bills
    <3>8. Carries(c) => Knows(q)'
      BY <2>1, <2>4, <3>3, <3>4, <3>6, <3>7 DEF Carries, Knows, Served, Due, LateAfterFailure
    <3> QED BY <1>a, <2>1, <2>2, <3>4, <3>5, <3>7, <3>8 DEF Billing
  <2> QED BY <1>5, <2>3, <2>4 DEF GiveGrace
<1>6. ASSUME SetPlan(r), UNCHANGED billingVars PROVE SubscriptionsInv'
  <2>1. PICK q : q = [c EXCEPT !.pc = "invalidate"]
    OBVIOUS
  <2>2. /\ c.pc \in {"setPlan", "applyPlan"} /\ plan' = c.plan /\ Become(r, q)
        /\ UNCHANGED <<overrides, cache, trials, missed, sub, company, lapsed, cutOff, tangled>>
    BY <1>6, <2>1 DEF SetPlan, Step, billingVars
  <2>3. /\ q \in CallState /\ q.pc = "invalidate" /\ q.row = c.row /\ q.then = c.then
    BY <2>1 DEF CallState, Pc
  <2>4. c.plan \in Plan /\ company.status # "none"
    BY <1>0, <2>2 DEF CallState, CallSound, Backed, TablesSound, Billing
  <2>5. TablesSound' /\ CompanyGrows /\ CacheStep(c, q)
    BY <1>0, <2>2, <2>3, <2>4 DEF TablesSound, CompanyGrows, CacheStep, Owes
  <2>6. CallSound(q) /\ Backed(q)' /\ Bills(q)
    BY <1>0, <2>2, <2>3 DEF CallSound, Backed, Billing, Bills
  <2>7. Carries(c) => Knows(q)'
    BY <1>0, <2>2, <2>3, <2>6 DEF CallSound, Carries, Knows, Served, Due, LateAfterFailure
  <2> QED BY <1>a, <2>2, <2>3, <2>5, <2>6, <2>7 DEF Billing
<1>7. ASSUME Activate(r) PROVE SubscriptionsInv'
  <2>1. PICK q : q = [c EXCEPT !.pc = "companyPlan"]
    OBVIOUS
  <2>2. /\ c.pc = "activate" /\ company' = [company EXCEPT !.status = "ACTIVE"] /\ Become(r, q)
        /\ UNCHANGED <<plan, overrides, cache, trials, missed, sub, lapsed, cutOff, tangled>>
    BY <1>7, <2>1 DEF Activate, Step, entitlements
  <2>3. /\ q \in CallState /\ q.pc = "companyPlan" /\ q.row = c.row /\ q.then = c.then
    BY <2>1 DEF CallState, Pc
  <2>4. company'.status = "ACTIVE" /\ company'.admin = company.admin
    BY <1>0, <2>2 DEF TablesSound
  <2>5. TablesSound' /\ CompanyGrows /\ CacheStep(c, q)
    BY <1>0, <2>2, <2>4 DEF TablesSound, CompanyGrows, CacheStep, Owes
  <2>6. CallSound(q) /\ Backed(q)' /\ Bills(q)
    BY <1>0, <2>2, <2>3, <2>4 DEF CallSound, Backed, Billing, Bills
  <2>7. Carries(c) => Knows(q)'
    BY <2>2, <2>3, <2>6 DEF Carries, Knows, Served, Due, LateAfterFailure
  <2> QED BY <1>a, <2>2, <2>3, <2>5, <2>6, <2>7 DEF Billing
<1>8. ASSUME SetCompanyPlan(r) PROVE SubscriptionsInv'
  <2>1. PICK q : q = [c EXCEPT !.pc = "applyPlan"]
    OBVIOUS
  <2>2. /\ c.pc = "companyPlan" /\ plan' = c.plan /\ Become(r, q)
        /\ UNCHANGED <<overrides, cache, trials, missed, sub, company, lapsed, cutOff, tangled>>
    BY <1>8, <2>1 DEF SetCompanyPlan, Step, billingVars
  <2>3. /\ q \in CallState /\ q.pc = "applyPlan" /\ q.row = c.row /\ q.then = c.then
    BY <2>1 DEF CallState, Pc
  <2>4. c.then = "admin" /\ c.plan \in Plan /\ company.status # "none"
    BY <1>0, <2>2 DEF CallState, CallSound, Backed, Billing
  <2>5. TablesSound' /\ CompanyGrows /\ CacheStep(c, q)
    BY <1>0, <2>2, <2>3, <2>4 DEF TablesSound, CompanyGrows, CacheStep, Owes
  <2>6. CallSound(q) /\ Backed(q)' /\ Bills(q)
    BY <1>0, <2>2, <2>3 DEF CallSound, Backed, Billing, Bills
  <2>7. Carries(c) => Knows(q)'
    BY <2>2, <2>3, <2>4, <2>6 DEF Carries, Knows, Served, Due, LateAfterFailure
  <2> QED BY <1>a, <2>2, <2>3, <2>5, <2>6, <2>7 DEF Billing
<1>9. ASSUME CreateAdmin(r) PROVE SubscriptionsInv'
  <2>1. /\ c.pc = "admin" /\ company' = [company EXCEPT !.admin = TRUE] /\ Become(r, Idle)
        /\ UNCHANGED <<plan, overrides, cache, trials, missed, sub, lapsed, cutOff, tangled>>
    BY <1>9 DEF CreateAdmin, Step, entitlements
  <2>2. company.status \notin {"none", "PENDING"}
    BY <1>0, <2>1 DEF CallSound, Backed
  <2>3. TablesSound' /\ CompanyGrows /\ CacheStep(c, Idle)
    BY <1>0, <2>1, <2>2 DEF TablesSound, CompanyGrows, CacheStep, Owes
  <2>4. Backed(Idle)' /\ (Carries(c) => Knows(Idle)')
    BY <2>1, IdleSound DEF Backed, Billing, Carries, Knows, Served, Due, LateAfterFailure
  <2> QED BY <1>a, <2>1, <2>3, <2>4, IdleSound
<1> QED BY <1>2, <1>3, <1>4, <1>5, <1>6, <1>7, <1>8, <1>9, <1>10, <1>11

\* provision and apply begin with the company itself.
LEMMA RegisterKept ==
  ASSUME SubscriptionsInv, NEW r \in Request, NEW p \in Offered,
         NEW status \in {"PENDING", "ACTIVE"}, Register(r, status, p)
  PROVE  SubscriptionsInv'
<1> PICK c \in CallState : c = req[r]
  BY DEF SubscriptionsInv, CallsSound
<1>1. /\ company.status = "none" /\ company' = [company EXCEPT !.status = status]
      /\ plan' = p /\ p \in Plan /\ (status = "PENDING" => p = "STARTER")
      /\ UNCHANGED <<overrides, cache, trials, missed, sub, lapsed, cutOff>> /\ c.pc = "idle"
      /\ Alone(r)
  BY SubscriptionsAssumption DEF Register, BillingCall, Call, Alone
<1>2. TablesSound /\ sub = NoSub /\ plan = "STARTER" /\ ~company.admin
  BY <1>1 DEF SubscriptionsInv, TablesSound
<1>3. company'.status = status /\ company'.admin = company.admin
  BY <1>1, <1>2 DEF TablesSound
<1>4. TablesSound' /\ CompanyGrows
  BY <1>1, <1>2, <1>3 DEF TablesSound, CompanyGrows
<1>5. Served' /\ (LateAfterFailure <=> LateAfterFailure')
  BY <1>1, <1>2 DEF Served, Due, LateAfterFailure
<1>6. CASE status = "PENDING"
  <2>1. Become(r, Idle) /\ UNCHANGED plan
    BY <1>1, <1>2, <1>6 DEF Register
  <2>2. Backed(Idle)' /\ CacheStep(c, Idle)
    BY <1>1, <2>1, IdleSound DEF Backed, Billing, CacheStep, Owes
  <2>3. Knows(c) => Knows(Idle)'
    BY <1>1, <1>5, IdleSound DEF Knows, Bills
  <2> QED BY <1>1, <1>4, <2>1, <2>2, <2>3, IdleSound, BillingKept DEF Moves
<1>7. CASE status = "ACTIVE"
  <2>1. PICK q : q = Carrying("applyPlan", NoSub, p, "admin")
    OBVIOUS
  <2>2. NoSub \in SubscriptionRow /\ NoSub.status = "none"
    BY DEF NoSub, SubscriptionRow, Plan
  <2>3. /\ q \in CallState /\ q.pc = "applyPlan" /\ q.row = NoSub /\ q.then = "admin"
        /\ Bills(q)
    BY <1>1, <2>1, <2>2, CarryingTyped DEF Billing
  <2>4. Become(r, q)
    BY <1>7, <2>1 DEF Register
  <2>5. CallSound(q) /\ Backed(q)' /\ CacheStep(c, q)
    BY <1>3, <1>7, <2>2, <2>3 DEF CallSound, Billing, Bills, Backed, CacheStep, Owes
  <2>6. Knows(c) => Knows(q)'
    BY <1>1, <1>2, <1>5, <2>3 DEF Knows, Bills, Carries
  <2> QED BY <1>1, <1>4, <2>3, <2>4, <2>5, <2>6, BillingKept DEF Moves
<1> QED BY <1>6, <1>7

\* The steps that move no call on: time, a suspension, a throw and a restart.
LEMMA OthersKept ==
  ASSUME SubscriptionsInv
  PROVE  /\ \A t \in Trial : TrialEnds(t) /\ UNCHANGED billingVars => SubscriptionsInv'
         /\ GraceEnds => SubscriptionsInv'
         /\ SuspendCompany => SubscriptionsInv'
         /\ \A r \in Request :
              Throw(r) /\ tangled' = (tangled \/ Bills(req[r]))
                /\ UNCHANGED <<sub, company, lapsed, cutOff>> => SubscriptionsInv'
         /\ Restart /\ tangled' = (tangled \/ \E r \in Request : Bills(req[r]))
              /\ UNCHANGED <<sub, company, lapsed, cutOff>> => SubscriptionsInv'
<1>0. TablesSound /\ CallsSound
  BY DEF SubscriptionsInv
<1>1. ASSUME NEW t \in Trial, TrialEnds(t), UNCHANGED billingVars PROVE SubscriptionsInv'
  <2>1. /\ UNCHANGED <<plan, overrides, cache, req, missed, sub, company, lapsed, cutOff, tangled>>
        /\ trials' = [trials EXCEPT ![t].state = "over"]
    BY <1>1 DEF TrialEnds, billingVars
  <2>2. TablesSound'
    BY <1>0, <2>1 DEF TablesSound
  <2> QED
    BY <2>1, <2>2 DEF SubscriptionsInv, CallsSound, CacheWrongOnlyIfMissed, BillingSound,
       Backed, Carries, Served, Due, LateAfterFailure
<1>2. ASSUME GraceEnds PROVE SubscriptionsInv'
  <2>1. /\ sub.grace = "running" /\ sub' = [sub EXCEPT !.grace = "over"]
        /\ UNCHANGED <<plan, overrides, cache, trials, req, missed, company, lapsed, cutOff, tangled>>
    BY <1>2 DEF GraceEnds, entitlementVars
  <2>2. /\ sub # NoSub /\ sub' # NoSub /\ sub' \in SubscriptionRow
        /\ sub'.plan = sub.plan /\ sub'.status = sub.status
    BY <1>0, <2>1 DEF TablesSound, SubscriptionRow, NoSub
  <2>3. TablesSound'
    BY <1>0, <2>1, <2>2 DEF TablesSound
  <2>4. \A r \in Request : Carries(req[r]) => Carries(req[r])'
    BY <2>1, <2>2 DEF Carries, Served, Due, LateAfterFailure
  <2>5. Served /\ LateAfterFailure => (Served /\ LateAfterFailure)'
    BY <2>1, <2>2 DEF Served, Due, LateAfterFailure
  <2>6. BillingSound'
    BY <2>1, <2>4, <2>5 DEF SubscriptionsInv, BillingSound
  <2> QED
    BY <2>1, <2>3, <2>6 DEF SubscriptionsInv, CallsSound, CacheWrongOnlyIfMissed, Backed
<1>3. ASSUME SuspendCompany PROVE SubscriptionsInv'
  <2>1. /\ company.status # "none" /\ company' = [company EXCEPT !.status = "SUSPENDED"]
        /\ UNCHANGED <<plan, overrides, cache, trials, req, missed, sub, lapsed, cutOff, tangled>>
    BY <1>3 DEF SuspendCompany, entitlements
  <2>2. company'.status = "SUSPENDED" /\ company'.admin = company.admin
    BY <1>0, <2>1 DEF TablesSound
  <2>3. TablesSound'
    BY <1>0, <2>1, <2>2 DEF TablesSound
  <2>4. \A r \in Request : Backed(req[r])'
    BY <2>1, <2>2 DEF SubscriptionsInv, Backed
  <2> QED
    BY <2>1, <2>3, <2>4 DEF SubscriptionsInv, CallsSound, CacheWrongOnlyIfMissed, BillingSound,
       Carries, Served, Due, LateAfterFailure
<1>4. ASSUME NEW r \in Request, Throw(r), tangled' = (tangled \/ Bills(req[r])),
             UNCHANGED <<sub, company, lapsed, cutOff>>
      PROVE  SubscriptionsInv'
  <2>1. /\ req[r].pc # "idle" /\ missed' = (missed \/ Owes(req[r])) /\ Moves(r, Idle)
        /\ UNCHANGED <<plan, overrides, cache, trials>>
    BY <1>4, IdleSound DEF Throw, Moves
  <2>2. TablesSound' /\ CacheStep(req[r], Idle)
    <3>1. TablesSound'
      BY <1>0, <1>4, <2>1 DEF TablesSound
    <3>2. CASE Owes(req[r])
      BY <2>1, <3>1, <3>2 DEF CacheStep
    <3>3. CASE ~Owes(req[r]) /\ (missed => missed')
      BY <2>1, <3>1, <3>3 DEF CacheStep
    <3> QED BY <2>1, <3>2, <3>3
  <2>3. CASE Bills(req[r])
    BY <1>4, <2>1, <2>2, <2>3, IdleSound, BillingKept
    DEF CompanyGrows, Alone, Backed, Billing
  <2>4. CASE ~Bills(req[r])
    <3>1. Quiet(req[r], Idle)
      BY <1>0, <2>1, <2>4, IdleSound DEF CallsSound, CallSound, Quiet, Billing, Bills
    <3> QED BY <1>4, <2>1, <2>2, <2>4, <3>1, QuietKept
  <2> QED BY <2>3, <2>4
<1>5. ASSUME Restart, tangled' = (tangled \/ \E r \in Request : Bills(req[r])),
             UNCHANGED <<sub, company, lapsed, cutOff>>
      PROVE  SubscriptionsInv'
  <2>1. /\ \A r \in Request : req'[r] = Idle
        /\ CallsSound' /\ cache' = NoCache /\ UNCHANGED <<plan, overrides, trials>>
    BY <1>5, IdleSound DEF Restart, CallsSound
  <2>2. TablesSound' /\ CacheWrongOnlyIfMissed'
    BY <1>0, <1>5, <2>1 DEF TablesSound, CacheWrongOnlyIfMissed
  <2>3. \A r \in Request : Backed(req[r])'
    BY <2>1, IdleSound DEF Backed, Billing
  <2>4. BillingSound'
    <3>1. ASSUME ~tangled' PROVE (Served /\ LateAfterFailure)'
      BY <1>5, <2>1, <3>1 DEF SubscriptionsInv, BillingSound, Served, Due, LateAfterFailure
    <3>2. \A r \in Request : ~Bills(req[r])'
      BY <2>1, IdleSound DEF Bills
    <3> QED BY <3>1, <3>2 DEF BillingSound
  <2> QED BY <2>1, <2>2, <2>3, <2>4 DEF SubscriptionsInv
<1> QED BY <1>1, <1>2, <1>3, <1>4, <1>5

-------------------------------------------------------------------------------
(***************************************************************************)
(* The theorems.                                                           *)
(***************************************************************************)

LEMMA InitSound == SubscriptionsInit => SubscriptionsInv
<1> SUFFICES ASSUME SubscriptionsInit PROVE SubscriptionsInv
  OBVIOUS
<1>1. /\ overrides = [m \in PlatformModule |-> "none"] /\ cache = NoCache
      /\ trials = [t \in Trial |-> NoTrial] /\ req = [r \in Request |-> Idle]
  BY DEF SubscriptionsInit, EntitlementsInit
<1>2. CallsSound /\ \A r \in Request : req[r] = Idle
  BY <1>1, IdleSound DEF CallsSound
<1>3. NoSub \in SubscriptionRow /\ NoSub.status = "none" /\ NoSub.plan = "STARTER"
  BY DEF NoSub, SubscriptionRow, Plan
<1>4. /\ plan \in Plan /\ sub \in SubscriptionRow /\ sub.plan = plan
      /\ sub.status \in {"none", "ACTIVE"}
      /\ company \in [status : {"none", "PENDING", "ACTIVE", "SUSPENDED"}, admin : BOOLEAN]
      /\ IF company.status = "none" THEN plan = "STARTER" /\ sub = NoSub /\ ~company.admin
         ELSE company.admin /\ company.status = "ACTIVE"
  <2>1. CASE /\ company = [status |-> "none", admin |-> FALSE]
             /\ plan = "STARTER" /\ sub = NoSub
    BY <1>3, <2>1 DEF Plan
  <2>2. CASE /\ company = [status |-> "ACTIVE", admin |-> TRUE]
             /\ plan \in Offered
             /\ sub = [plan |-> plan, status |-> "ACTIVE", grace |-> "none"]
    <3>1. plan \in Plan
      BY <2>2, SubscriptionsAssumption
    <3> QED BY <2>2, <3>1 DEF SubscriptionRow
  <2> QED BY <2>1, <2>2 DEF SubscriptionsInit
<1>8. lapsed = "no" /\ cutOff = FALSE
  BY DEF SubscriptionsInit
<1>5. TablesSound
  BY <1>1, <1>4, <1>8 DEF TablesSound, NoTrial
<1>6. \A r \in Request : Backed(req[r]) /\ ~Bills(req[r])
  BY <1>2, IdleSound DEF Backed, Billing
<1>7. BillingSound
  BY <1>4, <1>6, <1>8 DEF BillingSound, Served, Due, LateAfterFailure, Late
<1> QED BY <1>1, <1>2, <1>5, <1>6, <1>7 DEF SubscriptionsInv, CacheWrongOnlyIfMissed

LEMMA StepSound ==
  SubscriptionsInv /\ [EntitlementsNext \/ BillingNext]_subscriptionVars => SubscriptionsInv'
<1> SUFFICES ASSUME SubscriptionsInv, [EntitlementsNext \/ BillingNext]_subscriptionVars
             PROVE  SubscriptionsInv'
  OBVIOUS
<1>1. CASE EntitlementsNext
  BY <1>1, EntitlementsKept, ContinuesKept, OthersKept DEF EntitlementsNext
<1>2. CASE BillingNext
  BY <1>2, BeginsKept, ContinuesKept, RegisterKept, OthersKept DEF BillingNext
<1>3. CASE UNCHANGED subscriptionVars
  BY <1>3 DEF subscriptionVars, entitlementVars, billingVars, SubscriptionsInv, TablesSound,
     CallsSound, Backed, CacheWrongOnlyIfMissed, BillingSound, Carries, Served, Due, LateAfterFailure
<1> QED BY <1>1, <1>2, <1>3

\* What the stored rows, the calls in flight and the company say of each other is kept by
\* every step of entitlements.ts, overrides.ts, billing.ts and registration.ts.
THEOREM SubscriptionsInvariant == SubscriptionsSpec => []SubscriptionsInv
BY InitSound, StepSound, PTL DEF SubscriptionsSpec

\* Tables and calls hold what their columns and fields may hold, and nothing is sold to a
\* company that does not exist.
THEOREM SubscriptionsTypeCorrect == SubscriptionsSpec => []SubscriptionsTypeOK
<1>1. SubscriptionsInv => SubscriptionsTypeOK
  BY DEF SubscriptionsInv, TablesSound, SubscriptionsTypeOK
<1> QED BY <1>1, SubscriptionsInvariant, PTL

\* The entitlement cache (entitlements.ts: modulesFor and every writer) is wrong only while
\* an invalidation is owed, or after one that a fill overtook or that never came.
THEOREM CacheCorrect == SubscriptionsSpec => []CacheWrongOnlyIfMissed
<1>1. SubscriptionsInv => CacheWrongOnlyIfMissed
  BY DEF SubscriptionsInv
<1> QED BY <1>1, SubscriptionsInvariant, PTL

\* Unless calls about the plan met or died, a subscriber is served the plan of the
\* subscription, or the smallest one after a cancellation, until a plan is applied again
\* (billing.ts: subscribe, changePlan, handleWebhook, runDunning).
THEOREM BillingCorrect == SubscriptionsSpec => []ServedIsBilled
<1>1. SubscriptionsInv => ServedIsBilled
  BY DEF SubscriptionsInv, BillingSound, Served, Due, ServedIsBilled
<1> QED BY <1>1, SubscriptionsInvariant, PTL

\* The writes of a subscription that say it was downgraded.
LEMMA DowngradeStep ==
  ASSUME SubscriptionsInv, EntitlementsNext \/ BillingNext,
         sub'.status = "DOWNGRADED", sub.status # "DOWNGRADED"
  PROVE  lapsed # "no" \/ tangled
<1>0. TablesSound /\ CallsSound /\ BillingSound
  BY DEF SubscriptionsInv
<1>1. ~EntitlementsNext
  BY DEF EntitlementsNext, billingVars
<1>2. GraceEnds \/ \E r \in Request : Upsert(r) \/ ResetFailures(r) \/ SetStatus(r)
  <2>1. ASSUME NEW r \in Request, NEW p \in Offered
        PROVE  /\ ~BeginSubscribe(r, p) /\ ~BeginChangePlan(r, p) /\ ~BeginApproveCompany(r, p)
               /\ \A status \in {"PENDING", "ACTIVE"} : ~Register(r, status, p)
    BY DEF BeginSubscribe, BeginChangePlan, BeginApproveCompany, Register
  <2>2. ASSUME NEW r \in Request
        PROVE  /\ ~OpenSubscription(r) /\ ~Charge(r) /\ ~BeginCharged(r) /\ ~BeginCancelled(r) /\ ~BeginFailed(r)
               /\ ~GiveGrace(r) /\ ~BeginDunning(r)
               /\ ~Activate(r) /\ ~SetCompanyPlan(r) /\ ~CreateAdmin(r)
    BY DEF OpenSubscription, Charge, BeginCharged, BeginCancelled, BeginFailed, GiveGrace, BeginDunning, Activate,
       SetCompanyPlan, CreateAdmin, billingVars
  <2>3. ~SuspendCompany
    BY DEF SuspendCompany
  <2> QED BY <1>1, <2>1, <2>2, <2>3 DEF BillingNext
<1>3. ASSUME GraceEnds PROVE FALSE
  BY <1>0, <1>3 DEF GraceEnds, TablesSound, SubscriptionRow
<1>4. ASSUME NEW r \in Request, Upsert(r) PROVE lapsed # "no" \/ tangled
  <2>1. /\ req[r].pc = "upsert" /\ req[r].row.status = "DOWNGRADED" /\ Bills(req[r])
    BY <1>0, <1>4 DEF Upsert, Step, CallsSound, CallSound, Billing, Bills
  <2>2. ~tangled => Carries(req[r])
    BY <1>0, <2>1 DEF BillingSound
  <2> QED BY <2>1, <2>2 DEF Carries, Late
<1>5. ASSUME NEW r \in Request, ResetFailures(r) PROVE FALSE
  BY <1>0, <1>5 DEF ResetFailures, TablesSound, SubscriptionRow
<1>6. ASSUME NEW r \in Request, SetStatus(r) PROVE FALSE
  <2>1. req[r].pc = "status" /\ req[r].row.status \in {"ACTIVE", "CANCELLED"}
    BY <1>0, <1>6 DEF SetStatus, Step, CallsSound, CallSound
  <2> QED BY <1>0, <1>6, <2>1 DEF SetStatus, TablesSound, SubscriptionRow
<1> QED BY <1>2, <1>3, <1>4, <1>5, <1>6

\* Nobody is downgraded whose subscription was charged or opened anew since a charge of it
\* failed, unless calls about the plan met or died (billing.ts: runDunning writes back a
\* row that it listed earlier); a charge for an upgrade is not one of the subscription.
THEOREM DowngradeCorrect == SubscriptionsSpec => DowngradeIsDeserved
<1>1. SubscriptionsInv /\ [EntitlementsNext \/ BillingNext]_subscriptionVars =>
        [sub'.status = "DOWNGRADED" /\ sub.status # "DOWNGRADED" =>
           lapsed \in {"failed", "upgraded"} \/ tangled]_subscriptionVars
  BY DowngradeStep DEF SubscriptionsInv, TablesSound
<1> QED BY <1>1, SubscriptionsInvariant, PTL DEF SubscriptionsSpec, DowngradeIsDeserved
================================================================================
