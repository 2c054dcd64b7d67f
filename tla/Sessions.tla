--------------------------------- MODULE Sessions ---------------------------------
(***************************************************************************)
(* Users, their sessions and access tokens, and role changes:              *)
(* LoginService and SessionService (identity/auth), RoleService            *)
(* (identity/rbac/roles.ts).                                               *)
(*                                                                         *)
(* The services use stores and no transaction: each await of a store is a  *)
(* step, and a call that fails or dies keeps what it has done so far.      *)
(*                                                                         *)
(* A session is its row; its refresh token is the one of the last          *)
(* rotation, so presenting an older one changes nothing, and what is left  *)
(* of a rotation is the renewed expiry.  An access token is its claims     *)
(* while it verifies; the modules it carries are in Subscriptions.         *)
(* Passwords and one-time codes either match or do not.  Left out:         *)
(* device labels, listings, audit rows.                                    *)
(***************************************************************************)
EXTENDS Integers, FiniteSets, Guard

CONSTANTS
  User, Company,
  Home, Admin,   \* the company there is at the start, and its admins
  Session, Request, None,
  MaxCalls,      \* bound: calls
  MaxFailures    \* bound: calls that die half way

ASSUME SessionsAssumption ==
  /\ Home \in Company /\ NoCompany \notin Company
  /\ Admin \subseteq User /\ IsFiniteSet(User)
  /\ MaxCalls \in Nat /\ MaxFailures \in Nat

VARIABLES
  users,     \* table users
  sessions,  \* table sessions
  tokens,    \* the access tokens that verify
  req,       \* calls in flight
  torn,      \* users whose role was set by a call that died before the bump, not bumped since (history)
  calls, failures

sessionVars == <<users, sessions, tokens, req, torn, calls, failures>>

NoUser == [company |-> NoCompany, role |-> "none", active |-> FALSE, version |-> 0]
NoSession == [user |-> None, revoked |-> FALSE, expired |-> FALSE]
Idle == [pc |-> "idle", user |-> None, row |-> NoUser, session |-> None, role |-> "none",
         admins |-> 0, doc |-> None, company |-> NoCompany]

Account(company, role) == [company |-> company, role |-> role, active |-> TRUE, version |-> 1]

SessionsInit ==
  /\ users = [u \in User |-> IF u \in Admin THEN Account(Home, "COMPANY_ADMIN") ELSE NoUser]
  /\ sessions = [s \in Session |-> NoSession]
  /\ tokens = {}
  /\ req = [r \in Request |-> Idle]
  /\ torn = {}
  /\ calls = 0 /\ failures = 0

Become(r, q) == req' = [req EXCEPT ![r] = q]

\* A call begins.
Call(r) ==
  /\ req[r].pc = "idle"
  /\ calls < MaxCalls
  /\ calls' = calls + 1
  /\ UNCHANGED <<torn, failures>>

\* A call goes on.
Step(r, pc) == req[r].pc = pc /\ UNCHANGED <<calls, failures>>

Claims(u, row) ==
  [user |-> u, company |-> row.company, role |-> row.role, version |-> row.version,
   modules |-> {}]

Usable(s) == sessions[s].user # None /\ ~sessions[s].revoked /\ ~sessions[s].expired

AdminsOf(c) == {u \in User : users[u].company = c /\ users[u].role = "COMPANY_ADMIN"}

--------------------------------------------------------------------------------
\* --- LoginService ------------------------------------------------------------
BeginLogin(r, u) ==
  /\ Call(r)
  /\ users[u].active
  /\ Become(r, [Idle EXCEPT !.pc = "login", !.user = u, !.row = users[u]])
  /\ UNCHANGED <<users, sessions, tokens>>

\* The code or the password is wrong.
RefuseLogin(r) ==
  /\ Step(r, "login")
  /\ Become(r, Idle)
  /\ UNCHANGED <<users, sessions, tokens, torn>>

Issue(r, s) ==
  /\ Step(r, "login")
  /\ sessions[s] = NoSession
  /\ sessions' = [sessions EXCEPT ![s].user = req[r].user]
  /\ tokens' = tokens \cup {Claims(req[r].user, req[r].row)}
  /\ Become(r, Idle)
  /\ UNCHANGED <<users, torn>>

\* --- SessionService ----------------------------------------------------------
BeginRefresh(r, s) ==
  /\ Call(r)
  /\ Usable(s)
  /\ Become(r, [Idle EXCEPT !.pc = "reread", !.session = s, !.user = sessions[s].user])
  /\ UNCHANGED <<users, sessions, tokens>>

\* The user is read again; one who is not active any more loses the session.
Reread(r) ==
  /\ Step(r, "reread")
  /\ LET u == req[r].user IN
       IF users[u].active
       THEN /\ Become(r, [req[r] EXCEPT !.pc = "rotate", !.row = users[u]])
            /\ UNCHANGED sessions
       ELSE /\ sessions' = [sessions EXCEPT ![req[r].session].revoked = TRUE]
            /\ Become(r, Idle)
  /\ UNCHANGED <<users, tokens, torn>>

Rotate(r) ==
  /\ Step(r, "rotate")
  /\ sessions' = [sessions EXCEPT ![req[r].session].expired = FALSE]
  /\ tokens' = tokens \cup {Claims(req[r].user, req[r].row)}
  /\ Become(r, Idle)
  /\ UNCHANGED <<users, torn>>

\* logout and revokeDevice: the session is looked up, then revoked.
BeginLogout(r, s) ==
  /\ Call(r)
  /\ sessions[s].user # None
  /\ Become(r, [Idle EXCEPT !.pc = "logout", !.session = s])
  /\ UNCHANGED <<users, sessions, tokens>>

Logout(r) ==
  /\ Step(r, "logout")
  /\ sessions' = [sessions EXCEPT ![req[r].session].revoked = TRUE]
  /\ Become(r, Idle)
  /\ UNCHANGED <<users, tokens, torn>>

\* logoutEverywhere: the version first, the sessions after.
BeginLogoutEverywhere(r, u) ==
  /\ Call(r)
  /\ users[u] # NoUser
  /\ Become(r, [Idle EXCEPT !.pc = "bump", !.user = u])
  /\ UNCHANGED <<users, sessions, tokens>>

MutBump(r) ==
  /\ Step(r, "bump")
  /\ torn' = torn \ {req[r].user}
  /\ Become(r, [req[r] EXCEPT !.pc = "revokeAll"])
  /\ UNCHANGED <<users, sessions, tokens>>

Bump(r) ==
  /\ Step(r, "bump")
  /\ users' = [users EXCEPT ![req[r].user].version = @ + 1]
  /\ torn' = torn \ {req[r].user}
  /\ Become(r, [req[r] EXCEPT !.pc = "revokeAll"])
  /\ UNCHANGED <<sessions, tokens>>

RevokeAll(r) ==
  /\ Step(r, "revokeAll")
  /\ sessions' = [s \in Session |->
       IF sessions[s].user = req[r].user THEN [sessions[s] EXCEPT !.revoked = TRUE]
       ELSE sessions[s]]
  /\ Become(r, Idle)
  /\ UNCHANGED <<users, tokens, torn>>

--------------------------------------------------------------------------------
\* --- RoleService -------------------------------------------------------------
ASSIGNABLE_BY(role) ==
  IF role \in {"SUPER_ADMIN", "COMPANY_ADMIN"} THEN Role \ {"SUPER_ADMIN"} ELSE {}

\* Is this the demotion of an admin?
Demotes(row, role) == row.role = "COMPANY_ADMIN" /\ role # "COMPANY_ADMIN"

\* changeRole, up to the read of the target; the actor is the claims of a token.
BeginChangeRole(r, actor, u, role) ==
  /\ Call(r)
  /\ role \in ASSIGNABLE_BY(actor.role)
  /\ users[u] # NoUser
  /\ SameCompany(actor, users[u].company)
  /\ users[u].role # "SUPER_ADMIN"
  /\ actor.user = u => role = users[u].role
  /\ Become(r, [Idle EXCEPT !.pc = IF Demotes(users[u], role) THEN "count" ELSE "setRole",
                            !.user = u, !.role = role, !.row = users[u]])
  /\ UNCHANGED <<users, sessions, tokens>>

MutCountAdmins(r) ==
  /\ Step(r, "count")
  /\ LET n == Cardinality(AdminsOf(req[r].row.company)) IN
       Become(r, IF n < 1 THEN Idle ELSE [req[r] EXCEPT !.pc = "setRole", !.admins = n])
  /\ UNCHANGED <<users, sessions, tokens, torn>>

\* Never leave a company with zero admins.
CountAdmins(r) ==
  /\ Step(r, "count")
  /\ LET n == Cardinality(AdminsOf(req[r].row.company)) IN
       Become(r, IF n <= 1 THEN Idle ELSE [req[r] EXCEPT !.pc = "setRole", !.admins = n])
  /\ UNCHANGED <<users, sessions, tokens, torn>>

SetRole(r) ==
  /\ Step(r, "setRole")
  /\ users' = [users EXCEPT ![req[r].user].role = req[r].role]
  /\ Become(r, [req[r] EXCEPT !.pc = "bump"])
  /\ UNCHANGED <<sessions, tokens, torn>>

--------------------------------------------------------------------------------
\* --- time, and what is outside these services ---------------------------------
TokenExpires ==
  /\ \E t \in tokens : tokens' = tokens \ {t}
  /\ UNCHANGED <<users, sessions, req, torn, calls, failures>>

SessionExpires(s) ==
  /\ Usable(s)
  /\ sessions' = [sessions EXCEPT ![s].expired = TRUE]
  /\ UNCHANGED <<users, tokens, req, torn, calls, failures>>

\* Nothing here suspends a user, but every login and refresh looks for it.
Suspend(u) ==
  /\ users[u].active
  /\ calls < MaxCalls /\ calls' = calls + 1
  /\ users' = [users EXCEPT ![u].active = FALSE]
  /\ UNCHANGED <<sessions, tokens, req, torn, failures>>

\* A store call fails or the process dies: the call is gone, what it wrote stays.
Die(r) ==
  /\ req[r].pc # "idle"
  /\ failures < MaxFailures
  /\ failures' = failures + 1
  /\ torn' = IF req[r].pc = "bump" /\ req[r].role # "none" THEN torn \cup {req[r].user} ELSE torn
  /\ Become(r, Idle)
  /\ UNCHANGED <<users, sessions, tokens, calls>>

SessionsNext ==
  \/ \E r \in Request, u \in User :
       BeginLogin(r, u) \/ BeginLogoutEverywhere(r, u)
       \/ \E actor \in tokens, role \in Role : BeginChangeRole(r, actor, u, role)
  \/ \E r \in Request, s \in Session :
       BeginRefresh(r, s) \/ BeginLogout(r, s) \/ Issue(r, s)
  \/ \E r \in Request :
       \/ RefuseLogin(r) \/ Reread(r) \/ Rotate(r) \/ Logout(r) \/ Bump(r) \/ RevokeAll(r)
       \/ CountAdmins(r) \/ SetRole(r) \/ Die(r)
  \/ TokenExpires
  \/ \E s \in Session : SessionExpires(s)
  \/ \E u \in User : Suspend(u)
================================================================================
