-------------------------------- MODULE Onboarding --------------------------------
(***************************************************************************)
(* How a user comes into existence: InvitationService and JoinService      *)
(* (identity/companies), over the tables of identity/db/schema.sql, added  *)
(* to Sessions.  Everything here is about the contact of one stranger;     *)
(* users.phone is unique, so that contact is one possible user.            *)
(*                                                                         *)
(* A document is an invitation or a join request.  The signature of an     *)
(* invitation's link is valid or the call ends, and its own expiry is the  *)
(* row's.  Left out: names, messages, listings; an e-mail contact, which   *)
(* is handled like a phone.                                                *)
(***************************************************************************)
EXTENDS Sessions

CONSTANTS
  Stranger,  \* the user whose contact the documents carry
  Document

ASSUME OnboardingAssumption == Stranger \in User \ Admin

VARIABLE docs  \* tables invitations and join_requests

accountVars == <<sessionVars, docs>>

NoDoc == [kind |-> "none", company |-> NoCompany, role |-> "none", status |-> "none",
          expired |-> FALSE]

INVITABLE_ROLES == {"COMPANY_ADMIN", "DISPATCHER", "DRIVER", "RECEIVER"}
SELF_REQUESTABLE == {"DRIVER", "RECEIVER"}

AccountsInit == SessionsInit /\ docs = [d \in Document |-> NoDoc]

rest == <<sessions, tokens, torn>>

\* existingPending, and the unique index behind it.
Pending(kind, c) ==
  \E d \in Document : docs[d].kind = kind /\ docs[d].company = c /\ docs[d].status = "PENDING"

OpenPc == [invite |-> "open-invite", join |-> "open-join"]

Mark(d, status) == docs' = [docs EXCEPT ![d].status = status]

--------------------------------------------------------------------------------
\* --- opening a document ----------------------------------------------------------
MutBeginOpen(r, kind, c, role) ==
  /\ Call(r)
  /\ role \in INVITABLE_ROLES
  /\ users[Stranger] = NoUser
  /\ Become(r, [Idle EXCEPT !.pc = kind, !.role = role, !.company = c])
  /\ UNCHANGED <<users, sessions, tokens, docs>>

\* invite and requestJoin: the contact is free, nothing is pending, the row is
\* created.  Nobody with the contact at the first look; an admin's invitation may
\* name any role but the platform's, a stranger may ask for the lowest ones.
BeginOpen(r, kind, c, role) ==
  /\ Call(r)
  /\ role \in IF kind = "invite" THEN INVITABLE_ROLES ELSE SELF_REQUESTABLE
  /\ users[Stranger] = NoUser
  /\ Become(r, [Idle EXCEPT !.pc = kind, !.role = role, !.company = c])
  /\ UNCHANGED <<users, sessions, tokens, docs>>

LookForPending(r) ==
  /\ Step(r, "invite") \/ Step(r, "join")
  /\ Become(r, IF Pending(req[r].pc, req[r].company) THEN Idle
               ELSE [req[r] EXCEPT !.pc = OpenPc[req[r].pc]])
  /\ UNCHANGED <<users, rest, docs>>

\* The row of an invitation or of a join request, for a role of a company.
NewDoc(kind, q) ==
  [kind |-> kind, company |-> q.company, role |-> q.role, status |-> "PENDING",
   expired |-> FALSE]

\* The unique index refuses a second pending row.
Open(r, d, kind) ==
  /\ Step(r, OpenPc[kind])
  /\ docs[d] = NoDoc
  /\ docs' = IF Pending(kind, req[r].company) THEN docs
             ELSE [docs EXCEPT ![d] = NewDoc(kind, req[r])]
  /\ Become(r, Idle)
  /\ UNCHANGED <<users, rest>>

\* --- becoming a user -----------------------------------------------------------
\* accept (and joinByInvite): the link resolves to a row that is still open.
BeginAccept(r, d) ==
  /\ Call(r)
  /\ docs[d].kind = "invite"
  /\ docs[d].status = "PENDING" /\ ~docs[d].expired
  /\ Become(r, [Idle EXCEPT !.pc = "create", !.doc = d, !.company = docs[d].company,
                            !.role = docs[d].role])
  /\ UNCHANGED <<users, sessions, tokens, docs>>

MutBeginApprove(r, d, c, role) ==
  /\ Call(r)
  /\ docs[d].kind = "join" /\ docs[d].status = "PENDING"
  /\ role \in SELF_REQUESTABLE \cup {"DISPATCHER"}
  /\ Become(r, [Idle EXCEPT !.pc = "create", !.doc = d, !.company = c, !.role = role])
  /\ UNCHANGED <<users, sessions, tokens, docs>>

\* approve, for company c; the admin may override the role, up to a dispatcher.
BeginApprove(r, d, c, role) ==
  /\ Call(r)
  /\ docs[d].kind = "join" /\ docs[d].company = c /\ docs[d].status = "PENDING"
  /\ role \in SELF_REQUESTABLE \cup {"DISPATCHER"}
  /\ Become(r, [Idle EXCEPT !.pc = "create", !.doc = d, !.company = c, !.role = role])
  /\ UNCHANGED <<users, sessions, tokens, docs>>

MutCreateUser(r) ==
  /\ Step(r, "create")
  /\ users' = [users EXCEPT ![Stranger] = Account(req[r].company, req[r].role)]
  /\ Become(r, [req[r] EXCEPT !.pc = "admit"])
  /\ UNCHANGED <<rest, docs>>

\* users.create: the contact is unique.
CreateUser(r) ==
  /\ Step(r, "create")
  /\ IF users[Stranger] = NoUser
     THEN /\ users' = [users EXCEPT ![Stranger] = Account(req[r].company, req[r].role)]
          /\ Become(r, [req[r] EXCEPT !.pc = "admit"])
     ELSE Become(r, Idle) /\ UNCHANGED users
  /\ UNCHANGED <<rest, docs>>

\* markAccepted, decide: whatever the row says by now.
Admit(r) ==
  /\ Step(r, "admit")
  /\ Mark(req[r].doc, IF docs[req[r].doc].kind = "invite" THEN "ACCEPTED" ELSE "APPROVED")
  /\ Become(r, Idle)
  /\ UNCHANGED <<users, rest>>

\* --- refusing -------------------------------------------------------------------
\* revoke wants a pending invitation, reject takes any join request.
BeginRefuse(r, d, c) ==
  /\ Call(r)
  /\ docs[d].kind # "none" /\ docs[d].company = c
  /\ docs[d].kind = "invite" => docs[d].status = "PENDING"
  /\ Become(r, [Idle EXCEPT !.pc = "refuse", !.doc = d])
  /\ UNCHANGED <<users, sessions, tokens, docs>>

Refuse(r) ==
  /\ Step(r, "refuse")
  /\ Mark(req[r].doc, IF docs[req[r].doc].kind = "invite" THEN "REVOKED" ELSE "REJECTED")
  /\ Become(r, Idle)
  /\ UNCHANGED <<users, rest>>

DocExpires(d) ==
  /\ docs[d].kind = "invite" /\ docs[d].status = "PENDING" /\ ~docs[d].expired
  /\ docs' = [docs EXCEPT ![d].expired = TRUE]
  /\ UNCHANGED sessionVars

OnboardingNext ==
  \/ \E r \in Request, c \in Company, role \in Role :
       \/ \E kind \in {"invite", "join"} : BeginOpen(r, kind, c, role)
       \/ \E d \in Document : BeginApprove(r, d, c, role)
  \/ \E r \in Request, d \in Document :
       \/ \E kind \in {"invite", "join"} : Open(r, d, kind)
       \/ BeginAccept(r, d)
       \/ \E c \in Company : BeginRefuse(r, d, c)
  \/ \E r \in Request : LookForPending(r) \/ CreateUser(r) \/ Admit(r) \/ Refuse(r)
  \/ \E d \in Document : DocExpires(d)

AccountsNext ==
  \/ SessionsNext /\ UNCHANGED docs
  \/ OnboardingNext

AccountsSpec == AccountsInit /\ [][AccountsNext]_accountVars
--------------------------------------------------------------------------------
\* Every user belongs to a company, every version is positive, every session and
\* token has its user, and no row of a table holds a role the services refuse to
\* give: users_company_scope, invitations_no_superadmin, join_requests_low_privilege.
AccountsTypeOK ==
  /\ \A u \in User : users[u] = NoUser \/
       /\ users[u].company \in Company
       /\ users[u].role \in INVITABLE_ROLES
       /\ users[u].version >= 1
  /\ \A s \in Session : sessions[s].user \in {None} \cup {u \in User : users[u] # NoUser}
  /\ \A t \in tokens : Scoped(t) /\ users[t.user] # NoUser
  /\ \A d \in Document :
       /\ docs[d].kind = "invite" => docs[d].role \in INVITABLE_ROLES
       /\ docs[d].kind = "join" => docs[d].role \in SELF_REQUESTABLE
  /\ \A r \in Request : req[r].pc \in
       {"idle", "login", "reread", "rotate", "logout", "bump", "revokeAll", "count", "setRole",
        "invite", "join", "open-invite", "open-join", "create", "admit", "refuse"}
  /\ torn \subseteq User

\* A company that has an admin loses its last one only when what changeRole read
\* was stale by the time it wrote: two demotions that both counted the other's
\* admin, or a target promoted in between.  (roles.ts: LAST_COMPANY_ADMIN)
LastAdminLostToStaleRead ==
  [][\A c \in Company : AdminsOf(c) # {} /\ AdminsOf(c)' = {} =>
       \E r \in Request :
         /\ req[r].pc = "setRole"
         /\ \/ ~Demotes(req[r].row, req[r].role)
            \/ req[r].admins > Cardinality(AdminsOf(c))]_accountVars

\* A token that opens a route its user's role does not open any more was signed
\* with an older token version, unless the role change is still on its way to
\* the bump or died before it: the version is what tells the tokens logoutEverywhere
\* means to invalidate from the others.  (roles.ts: changeRole, session.ts: logoutEverywhere)
StalePowerHasOldVersion ==
  \A t \in tokens, p \in Permission :
    canActivate(t, Needing(p)) = "ALLOWED" /\ ~roleHas(users[t.user].role, p) =>
      \/ t.version < users[t.user].version
      \/ t.user \in torn
      \/ \E r \in Request : req[r].pc = "bump" /\ req[r].user = t.user

\* Whoever is admitted is a member of the company that admitted them, however many
\* companies invited the same phone and however the calls overlap.
\* (invitations.ts: accept, join.ts: approve)
AdmittedIsMember ==
  \A d \in Document :
    docs[d].status \in {"ACCEPTED", "APPROVED"} => users[Stranger].company = docs[d].company

\* A user comes into existence in a company that had a document open for them, and
\* holds the invited role or, through a request, at most a dispatcher's: the company
\* is chosen by its admin, never by who signs up.  (invitations.ts, join.ts)
CompanyIsTheAdminsChoice ==
  [][users[Stranger] = NoUser /\ users[Stranger]' # NoUser =>
       \E d \in Document :
         /\ docs[d].company = users'[Stranger].company
         /\ \/ docs[d].kind = "invite" /\ docs[d].role = users'[Stranger].role
            \/ docs[d].kind = "join" /\ users'[Stranger].role # "COMPANY_ADMIN"]_accountVars
================================================================================
