---------------------------- MODULE Onboarding_proofs ----------------------------
(***************************************************************************)
(* Proofs about Onboarding.tla and Sessions.tla, for any companies, users, *)
(* sessions, documents, calls at a time and failures.                      *)
(*                                                                         *)
(* A call acts on rows it read some steps ago.  What it relies on stays    *)
(* true: users and documents do not disappear and do not change their      *)
(* company, and a copy of a user's role is as new as its version says,     *)
(* while no version bump is outstanding.                                   *)
(***************************************************************************)
EXTENDS Onboarding, FiniteSetTheorems, TLAPS

UserRow == [company: Company, role: INVITABLE_ROLES, active: BOOLEAN, version: Nat \ {0}]
SessionRow == [user: User \cup {None}, revoked: BOOLEAN, expired: BOOLEAN]
Token == [user: User, company: Company, role: INVITABLE_ROLES, version: Nat \ {0}, modules: {{}}]
DocRow ==
  [kind: {"invite", "join"}, company: Company, role: INVITABLE_ROLES,
   status: {"PENDING", "ACCEPTED", "APPROVED", "REVOKED", "REJECTED"}, expired: BOOLEAN]

RequestState ==
  [ pc: {"idle", "login", "reread", "rotate", "logout", "bump", "revokeAll", "count", "setRole",
         "invite", "join", "open-invite", "open-join", "create", "admit", "refuse"},
    user: User \cup {None}, row: UserRow \cup {NoUser}, session: Session \cup {None},
    role: INVITABLE_ROLES \cup {"none"}, admins: Nat, doc: Document \cup {None},
    company: Company \cup {NoCompany} ]

Typed ==
  /\ users \in [User -> UserRow \cup {NoUser}]
  /\ sessions \in [Session -> SessionRow]
  /\ tokens \subseteq Token
  /\ docs \in [Document -> DocRow \cup {NoDoc}]
  /\ req \in [Request -> RequestState]
  /\ torn \subseteq User

Exists(u) == u \in User /\ users[u] # NoUser

\* A role change that has yet to bump the version.
Unbumped(u) == \E r \in Request : req[r].pc = "bump" /\ req[r].user = u /\ req[r].role # "none"

\* A copy of a user's role with the version it was read at.
Fresh(u, role, version) ==
  /\ version <= users[u].version
  /\ version = users[u].version /\ role # users[u].role => u \in torn \/ Unbumped(u)

TokenSound(t) == Exists(t.user) /\ Fresh(t.user, t.role, t.version)

SessionSound(s) == sessions[s].user # None => Exists(sessions[s].user)

DocSound(d) ==
  /\ docs[d].kind = "join" => docs[d].role \in SELF_REQUESTABLE
  /\ docs[d].status \in {"ACCEPTED", "APPROVED"} =>
       Exists(Stranger) /\ users[Stranger].company = docs[d].company

\* The call acts for the company that a document names.
Backed(c) ==
  /\ c.doc \in Document /\ docs[c.doc] # NoDoc
  /\ c.company = docs[c.doc].company

\* What a call holds at each place.
RequestSound(c) ==
  /\ c.pc \in {"login", "reread", "rotate", "bump", "revokeAll", "count", "setRole"} => Exists(c.user)
  /\ c.pc \in {"login", "rotate"} =>
       c.row # NoUser /\ Fresh(c.user, c.row.role, c.row.version)
  /\ c.pc \in {"reread", "rotate", "logout"} => c.session \in Session
  /\ c.pc \in {"count", "setRole"} => c.role # "none"
  /\ c.pc = "setRole" /\ Demotes(c.row, c.role) => c.admins > 1
  /\ c.pc \in {"invite", "open-invite", "join", "open-join"} => c.role # "none" /\ c.company \in Company
  /\ c.pc \in {"join", "open-join"} => c.role \in SELF_REQUESTABLE
  /\ c.pc \in {"create", "admit"} => Backed(c)
  /\ c.pc = "create" =>
       /\ c.role # "none"
       /\ docs[c.doc].kind = "invite" => c.role = docs[c.doc].role
       /\ docs[c.doc].kind = "join" => c.role # "COMPANY_ADMIN"
  /\ c.pc = "admit" => Exists(Stranger) /\ users[Stranger].company = c.company
  /\ c.pc = "refuse" => c.doc \in Document /\ docs[c.doc] # NoDoc

AccountsInv ==
  /\ Typed
  /\ \A s \in Session : SessionSound(s)
  /\ \A t \in tokens : TokenSound(t)
  /\ \A d \in Document : DocSound(d)
  /\ \A r \in Request : RequestSound(req[r])

-------------------------------------------------------------------------------
LEMMA IdleSound ==
  Idle \in RequestState /\ RequestSound(Idle) /\ RequestSound(Idle)' /\ Idle.pc = "idle"
BY DEF Idle, RequestState, RequestSound

LEMMA CallTyped ==
  ASSUME AccountsInv, NEW r \in Request
  PROVE  req[r] \in RequestState /\ RequestSound(req[r])
BY DEF AccountsInv, Typed

LEMMA InitSound == AccountsInit => AccountsInv
<1> SUFFICES ASSUME AccountsInit PROVE AccountsInv
  OBVIOUS
<1> USE DEF AccountsInit, SessionsInit
<1>1. Account(Home, "COMPANY_ADMIN") \in UserRow
  BY SessionsAssumption DEF Account, UserRow, INVITABLE_ROLES
<1>2. Typed
  BY <1>1, IdleSound DEF Typed, NoSession, SessionRow
<1>3. \A s \in Session : SessionSound(s)
  BY DEF SessionSound, NoSession
<1>4. \A d \in Document : DocSound(d)
  BY DEF DocSound, NoDoc
<1>5. \A r \in Request : RequestSound(req[r])
  BY IdleSound
<1> QED BY <1>2, <1>3, <1>4, <1>5 DEF AccountsInv

-------------------------------------------------------------------------------
\* What no step takes away.
UsersKept ==
  /\ \A u \in User : users[u] # NoUser =>
       users'[u] # NoUser /\ users'[u].company = users[u].company
  /\ \A u \in User, role \in INVITABLE_ROLES, v \in Nat :
       users[u] # NoUser /\ Fresh(u, role, v) => Fresh(u, role, v)'

DocsKept ==
  \A d \in Document : docs[d] # NoDoc =>
    /\ docs'[d] # NoDoc /\ docs'[d].company = docs[d].company
    /\ docs'[d].kind = docs[d].kind /\ docs'[d].role = docs[d].role

LEMMA ReadingSurvives ==
  ASSUME AccountsInv, UsersKept, DocsKept, NEW c \in RequestState, RequestSound(c)
  PROVE  RequestSound(c)'
<1>1. Exists(c.user) => Exists(c.user)'
  BY DEF UsersKept, Exists
<1>2. c.pc \in {"login", "rotate"} => Fresh(c.user, c.row.role, c.row.version)'
  <2> SUFFICES ASSUME c.pc \in {"login", "rotate"} PROVE Fresh(c.user, c.row.role, c.row.version)'
    OBVIOUS
  <2>1. c.user \in User /\ users[c.user] # NoUser /\ Fresh(c.user, c.row.role, c.row.version)
    BY DEF RequestSound, Exists
  <2>2. c.row \in UserRow
    BY DEF RequestSound, RequestState
  <2>3. c.row.role \in INVITABLE_ROLES /\ c.row.version \in Nat
    BY <2>2 DEF UserRow
  <2> QED BY <2>1, <2>3 DEF UsersKept
<1>3. /\ c.pc \in {"create", "admit"} => Backed(c)'
      /\ c.pc \in {"create", "refuse"} => docs'[c.doc] # NoDoc /\ docs'[c.doc].kind = docs[c.doc].kind
                                          /\ docs'[c.doc].role = docs[c.doc].role
  BY DEF RequestSound, Backed, DocsKept
<1>4. c.pc = "admit" => Exists(Stranger)' /\ users'[Stranger].company = c.company
  BY DEF RequestSound, Exists, UsersKept
<1> QED BY <1>1, <1>2, <1>3, <1>4 DEF RequestSound

LEMMA TablesSurvive ==
  ASSUME AccountsInv, UsersKept, DocsKept
  PROVE  /\ \A t \in Token : TokenSound(t) => TokenSound(t)'
         /\ \A u \in User : Exists(u) => Exists(u)'
         /\ docs' = docs => \A d \in Document : DocSound(d)'
<1>1. ASSUME NEW t \in Token, TokenSound(t) PROVE TokenSound(t)'
  <2>1. t.user \in User /\ t.role \in INVITABLE_ROLES /\ t.version \in Nat
    BY DEF Token
  <2> QED BY <1>1, <2>1 DEF TokenSound, Exists, UsersKept
<1>2. \A u \in User : Exists(u) => Exists(u)'
  BY DEF Exists, UsersKept
<1>3. docs' = docs => \A d \in Document : DocSound(d)'
  BY DEF AccountsInv, DocSound, UsersKept, Exists
<1> QED BY <1>1, <1>2, <1>3

\* A step of one call.
LEMMA Moves ==
  ASSUME AccountsInv, UsersKept, DocsKept, NEW r \in Request, NEW q \in RequestState, Become(r, q),
         RequestSound(q)', users' \in [User -> UserRow \cup {NoUser}],
         sessions' \in [Session -> SessionRow], \A s \in Session : SessionSound(s)',
         tokens' \subseteq Token, \A t \in tokens' : TokenSound(t)',
         docs' \in [Document -> DocRow \cup {NoDoc}], \A d \in Document : DocSound(d)',
         torn' \subseteq User
  PROVE  AccountsInv'
<1>1. req' \in [Request -> RequestState] /\ \A s \in Request : req'[s] = IF s = r THEN q ELSE req[s]
  BY DEF AccountsInv, Typed, Become
<1>2. \A s \in Request \ {r} : RequestSound(req[s])'
  <2> TAKE s \in Request \ {r}
  <2>1. PICK c \in RequestState : c = req[s] /\ RequestSound(c)
    BY CallTyped
  <2>2. RequestSound(c)'
    BY <2>1, ReadingSurvives
  <2>3. req'[s] = c
    BY <1>1, <2>1
  <2> QED BY <2>2, <2>3 DEF RequestSound
<1>3. \A s \in Request : RequestSound(req[s])'
  <2>1. req'[r] = q
    BY <1>1
  <2>2. RequestSound(req[r])'
    BY <2>1 DEF RequestSound
  <2> QED BY <1>2, <2>2
<1>4. Typed'
  BY <1>1 DEF Typed
<1> QED BY <1>3, <1>4 DEF AccountsInv

\* Tables of sessions and tokens a step may leave behind.
SessionsKept ==
  /\ sessions' \in [Session -> SessionRow]
  /\ \A s \in Session : sessions'[s].user = sessions[s].user \/ Exists(sessions'[s].user)
TokensKept == tokens' \subseteq Token /\ \A t \in tokens' : TokenSound(t)

LEMMA SameTables ==
  ASSUME AccountsInv
  PROVE  /\ sessions' = sessions => SessionsKept
         /\ tokens' = tokens => TokensKept
         /\ \A s \in Session, b \in BOOLEAN :
              \/ sessions' = [sessions EXCEPT ![s].revoked = b]
              \/ sessions' = [sessions EXCEPT ![s].expired = b]
              => SessionsKept
<1>1. ASSUME NEW s \in Session, NEW row \in SessionRow, row.user = sessions[s].user,
             sessions' = [sessions EXCEPT ![s] = row]
      PROVE  SessionsKept
  BY <1>1 DEF AccountsInv, Typed, SessionsKept
<1>2. ASSUME NEW s \in Session, NEW b \in BOOLEAN
      PROVE  /\ sessions' = [sessions EXCEPT ![s].revoked = b] => SessionsKept
             /\ sessions' = [sessions EXCEPT ![s].expired = b] => SessionsKept
  <2>1. PICK row \in SessionRow : row = sessions[s]
    BY DEF AccountsInv, Typed
  <2>2. PICK revoked \in SessionRow : revoked = [row EXCEPT !.revoked = b]
    BY DEF SessionRow
  <2>3. PICK expired \in SessionRow : expired = [row EXCEPT !.expired = b]
    BY DEF SessionRow
  <2>4. revoked.user = row.user /\ expired.user = row.user
    BY <2>2, <2>3 DEF SessionRow
  <2> QED BY <1>1, <2>1, <2>2, <2>3, <2>4
<1>3. sessions' = sessions => SessionsKept
  BY DEF AccountsInv, Typed, SessionsKept
<1>4. tokens' = tokens => TokensKept
  BY DEF AccountsInv, Typed, TokensKept
<1> QED BY <1>2, <1>3, <1>4

\* A step of one call that changes no user and no document.
LEMMA QuietMoves ==
  ASSUME AccountsInv, NEW r \in Request, NEW q \in RequestState, Become(r, q),
         req[r].pc # "bump", RequestSound(q), UNCHANGED <<users, torn, docs>>,
         SessionsKept, TokensKept
  PROVE  AccountsInv'
<1>1. UsersKept
  <2>1. \A u \in User : Unbumped(u) => Unbumped(u)'
    BY DEF AccountsInv, Typed, Become, Unbumped
  <2> QED BY <2>1 DEF UsersKept, Fresh
<1>2. DocsKept
  BY DEF DocsKept
<1>3. RequestSound(q)'
  BY <1>1, <1>2, ReadingSurvives
<1>4. \A s \in Session : SessionSound(s)'
  BY DEF AccountsInv, SessionSound, SessionsKept, Exists
<1>5. \A t \in tokens' : TokenSound(t)'
  BY <1>1, <1>2, TablesSurvive DEF TokensKept
<1>6. \A d \in Document : DocSound(d)'
  BY <1>1, <1>2, TablesSurvive
<1> QED BY <1>1, <1>2, <1>3, <1>4, <1>5, <1>6, Moves
        DEF SessionsKept, TokensKept, AccountsInv, Typed

LEMMA QuietEnd ==
  ASSUME AccountsInv, NEW r \in Request, Become(r, Idle), req[r].pc # "bump",
         UNCHANGED <<users, torn, docs>>, SessionsKept, TokensKept
  PROVE  AccountsInv'
BY IdleSound, QuietMoves

-------------------------------------------------------------------------------
\* --- Sessions ----------------------------------------------------------------
LEMMA NewClaims ==
  ASSUME AccountsInv, NEW c \in RequestState, RequestSound(c), c.pc \in {"login", "rotate"},
         tokens' = tokens \cup {Claims(c.user, c.row)}
  PROVE  TokensKept
<1>1. c.user \in User /\ c.row \in UserRow /\ TokenSound(Claims(c.user, c.row))
  BY DEF RequestSound, RequestState, TokenSound, Claims, Exists
<1>2. Claims(c.user, c.row) \in Token
  BY <1>1 DEF Claims, Token, UserRow
<1> QED BY <1>1, <1>2, SameTables DEF AccountsInv, Typed, TokensKept

LEMMA LoginSound ==
  ASSUME AccountsInv, UNCHANGED docs, NEW r \in Request
  PROVE  /\ \A u \in User : BeginLogin(r, u) \/ BeginLogoutEverywhere(r, u) => AccountsInv'
         /\ RefuseLogin(r) => AccountsInv'
         /\ \A s \in Session : Issue(r, s) => AccountsInv'
<1>1. ASSUME NEW u \in User, BeginLogin(r, u) PROVE AccountsInv'
  <2>1. PICK row : row = users[u]
    OBVIOUS
  <2>2. row \in UserRow /\ row # NoUser /\ users[u] # NoUser
    BY <1>1, <2>1 DEF BeginLogin, AccountsInv, Typed, NoUser
  <2>3. PICK q : q = [Idle EXCEPT !.pc = "login", !.user = u, !.row = row]
    OBVIOUS
  <2>4. q \in RequestState /\ q.pc = "login" /\ q.user = u /\ q.row = row
    BY <2>2, <2>3, IdleSound DEF Idle, RequestState
  <2>5. Fresh(u, row.role, row.version)
    BY <2>1, <2>2 DEF Fresh, UserRow
  <2>6. RequestSound(q)
    BY <2>2, <2>4, <2>5 DEF RequestSound, Exists
  <2> QED BY <1>1, <2>1, <2>3, <2>4, <2>6, QuietMoves, SameTables DEF BeginLogin, Call
<1>2. ASSUME NEW u \in User, BeginLogoutEverywhere(r, u) PROVE AccountsInv'
  <2>1. PICK q : q = [Idle EXCEPT !.pc = "bump", !.user = u]
    OBVIOUS
  <2>2. q \in RequestState /\ q.pc = "bump" /\ q.user = u
    BY <2>1, IdleSound DEF Idle, RequestState
  <2>3. RequestSound(q)
    BY <1>2, <2>2 DEF RequestSound, Exists, BeginLogoutEverywhere
  <2> QED BY <1>2, <2>1, <2>2, <2>3, QuietMoves, SameTables DEF BeginLogoutEverywhere, Call
<1>3. ASSUME RefuseLogin(r) PROVE AccountsInv'
  BY <1>3, QuietEnd, SameTables DEF RefuseLogin, Step
<1>4. ASSUME NEW s \in Session, Issue(r, s) PROVE AccountsInv'
  <2>1. PICK c \in RequestState : c = req[r] /\ RequestSound(c)
    BY CallTyped
  <2>2. /\ c.pc = "login" /\ tokens' = tokens \cup {Claims(c.user, c.row)} /\ Exists(c.user)
        /\ sessions' = [sessions EXCEPT ![s].user = c.user]
    BY <1>4, <2>1 DEF Issue, Step, RequestSound
  <2>3. SessionsKept
    <3>1. PICK row \in SessionRow : row = sessions[s]
      BY DEF AccountsInv, Typed
    <3>2. PICK issued \in SessionRow : issued = [row EXCEPT !.user = c.user]
      BY <2>2 DEF SessionRow, Exists
    <3>3. sessions' = [sessions EXCEPT ![s] = issued] /\ issued.user = c.user
      BY <2>2, <3>1, <3>2 DEF SessionRow
    <3> QED BY <2>2, <3>2, <3>3 DEF AccountsInv, Typed, SessionsKept
  <2>4. TokensKept
    BY <2>1, <2>2, NewClaims
  <2> QED BY <1>4, <2>3, <2>4, QuietEnd DEF Issue, Step
<1> QED BY <1>1, <1>2, <1>3, <1>4

LEMMA SessionSteps ==
  ASSUME AccountsInv, UNCHANGED docs, NEW r \in Request
  PROVE  /\ \A s \in Session : BeginRefresh(r, s) \/ BeginLogout(r, s) => AccountsInv'
         /\ Reread(r) \/ Rotate(r) \/ Logout(r) \/ RevokeAll(r) => AccountsInv'
<1>1. PICK c \in RequestState : c = req[r] /\ RequestSound(c)
  BY CallTyped
<1>2. ASSUME NEW s \in Session, BeginRefresh(r, s) PROVE AccountsInv'
  <2>1. Exists(sessions[s].user)
    BY <1>2 DEF BeginRefresh, Usable, AccountsInv, SessionSound
  <2>2. PICK q : q = [Idle EXCEPT !.pc = "reread", !.session = s, !.user = sessions[s].user]
    OBVIOUS
  <2>3. q \in RequestState /\ q.pc = "reread" /\ q.session = s /\ q.user = sessions[s].user
    BY <2>1, <2>2, IdleSound DEF Idle, RequestState, Exists
  <2>4. RequestSound(q)
    BY <2>1, <2>3 DEF RequestSound
  <2> QED BY <1>2, <2>2, <2>3, <2>4, QuietMoves, SameTables DEF BeginRefresh, Call
<1>3. ASSUME NEW s \in Session, BeginLogout(r, s) PROVE AccountsInv'
  <2>1. PICK q : q = [Idle EXCEPT !.pc = "logout", !.session = s]
    OBVIOUS
  <2>2. q \in RequestState /\ q.pc = "logout" /\ q.session = s
    BY <2>1, IdleSound DEF Idle, RequestState
  <2>3. RequestSound(q)
    BY <2>2 DEF RequestSound
  <2> QED BY <1>3, <2>1, <2>2, <2>3, QuietMoves, SameTables DEF BeginLogout, Call
<1>4. ASSUME Reread(r) PROVE AccountsInv'
  <2>1. c.pc = "reread" /\ Exists(c.user) /\ c.session \in Session
    BY <1>1, <1>4 DEF Reread, Step, RequestSound
  <2>2. CASE users[c.user].active
    <3>1. PICK row : row = users[c.user]
      OBVIOUS
    <3>2. row \in UserRow /\ row # NoUser
      BY <2>1, <3>1 DEF AccountsInv, Typed, Exists
    <3>3. PICK q : q = [c EXCEPT !.pc = "rotate", !.row = row]
      OBVIOUS
    <3>4. /\ q \in RequestState /\ q.pc = "rotate" /\ q.row = row /\ q.user = c.user
          /\ q.session = c.session
      BY <3>2, <3>3 DEF RequestState
    <3>5. Fresh(c.user, row.role, row.version)
      BY <3>1, <3>2 DEF Fresh, UserRow
    <3>6. RequestSound(q)
      BY <2>1, <3>2, <3>4, <3>5 DEF RequestSound
    <3> QED BY <1>1, <1>4, <2>1, <2>2, <3>1, <3>3, <3>4, <3>6, QuietMoves, SameTables DEF Reread, Step
  <2>3. CASE ~users[c.user].active
    BY <1>1, <1>4, <2>1, <2>3, QuietEnd, SameTables DEF Reread, Step
  <2> QED BY <2>2, <2>3
<1>5. ASSUME Rotate(r) PROVE AccountsInv'
  <2>1. c.pc = "rotate" /\ c.session \in Session /\ tokens' = tokens \cup {Claims(c.user, c.row)}
    BY <1>1, <1>5 DEF Rotate, Step, RequestSound
  <2>2. TokensKept
    BY <1>1, <2>1, NewClaims
  <2> QED BY <1>1, <1>5, <2>1, <2>2, QuietEnd, SameTables DEF Rotate, Step
<1>6. ASSUME Logout(r) PROVE AccountsInv'
  <2>1. c.pc = "logout" /\ c.session \in Session
    BY <1>1, <1>6 DEF Logout, Step, RequestSound
  <2> QED BY <1>1, <1>6, <2>1, QuietEnd, SameTables DEF Logout, Step
<1>7. ASSUME RevokeAll(r) PROVE AccountsInv'
  <2>1. \A s \in Session : /\ [sessions[s] EXCEPT !.revoked = TRUE] \in SessionRow
                          /\ [sessions[s] EXCEPT !.revoked = TRUE].user = sessions[s].user
    <3> TAKE s \in Session
    <3>1. PICK row \in SessionRow : row = sessions[s]
      BY DEF AccountsInv, Typed
    <3> QED BY <3>1 DEF SessionRow
  <2>2. SessionsKept
    BY <1>7, <2>1 DEF RevokeAll, SessionsKept, AccountsInv, Typed
  <2> QED BY <1>7, <2>2, QuietEnd, SameTables DEF RevokeAll, Step
<1> QED BY <1>2, <1>3, <1>4, <1>5, <1>6, <1>7

\* --- Role changes --------------------------------------------------------------
LEMMA ChangeRoleSound ==
  ASSUME AccountsInv, UNCHANGED docs, NEW r \in Request
  PROVE  /\ \A actor \in tokens, u \in User, role \in Role :
              BeginChangeRole(r, actor, u, role) => AccountsInv'
         /\ CountAdmins(r) => AccountsInv'
<1>1. ASSUME NEW actor \in tokens, NEW u \in User, NEW role \in Role,
             BeginChangeRole(r, actor, u, role)
      PROVE  AccountsInv'
  <2>1. role \in INVITABLE_ROLES /\ users[u] # NoUser
    BY <1>1 DEF BeginChangeRole, ASSIGNABLE_BY, Role, INVITABLE_ROLES
  <2>2. PICK pc \in {"count", "setRole"} : pc = IF Demotes(users[u], role) THEN "count" ELSE "setRole"
    OBVIOUS
  <2>3. PICK q : q = [Idle EXCEPT !.pc = pc, !.user = u, !.role = role, !.row = users[u]]
    OBVIOUS
  <2>4. users[u] \in UserRow \cup {NoUser}
    BY DEF AccountsInv, Typed
  <2>5. q \in RequestState /\ q.pc = pc /\ q.user = u /\ q.role = role /\ q.row = users[u]
    BY <2>1, <2>3, <2>4, IdleSound DEF Idle, RequestState
  <2>6. role # "none"
    BY <2>1 DEF INVITABLE_ROLES
  <2>7. RequestSound(q)
    BY <2>1, <2>2, <2>5, <2>6 DEF RequestSound, Exists
  <2> QED BY <1>1, <2>2, <2>3, <2>5, <2>7, QuietMoves, SameTables DEF BeginChangeRole, Call
<1>2. ASSUME CountAdmins(r) PROVE AccountsInv'
  <2>1. PICK c \in RequestState : c = req[r] /\ RequestSound(c)
    BY CallTyped
  <2>2. PICK n : n = Cardinality(AdminsOf(c.row.company))
    OBVIOUS
  <2>3. n \in Nat
    <3>1. AdminsOf(c.row.company) \in SUBSET User
      BY DEF AdminsOf
    <3> QED BY <2>2, <3>1, SessionsAssumption, FS_Subset, FS_CardinalityType
  <2>4. CASE n <= 1
    BY <1>2, <2>1, <2>2, <2>4, QuietEnd, SameTables DEF CountAdmins, Step
  <2>5. CASE ~(n <= 1)
    <3>1. PICK q : q = [c EXCEPT !.pc = "setRole", !.admins = n]
      OBVIOUS
    <3>2. /\ q \in RequestState /\ q.pc = "setRole" /\ q.admins = n /\ q.user = c.user
          /\ q.role = c.role
      BY <2>3, <3>1 DEF RequestState
    <3>3. RequestSound(q)
      BY <1>2, <2>1, <2>3, <2>5, <3>2 DEF CountAdmins, Step, RequestSound
    <3> QED BY <1>2, <2>1, <2>2, <2>5, <3>1, <3>2, <3>3, QuietMoves, SameTables DEF CountAdmins, Step
  <2> QED BY <2>4, <2>5
<1> QED BY <1>1, <1>2

\* The row of an existing user is replaced by another of the same company.
LEMMA RowReplaced ==
  ASSUME AccountsInv, NEW u \in User, users[u] # NoUser, NEW row \in UserRow,
         row.company = users[u].company, users' = [users EXCEPT ![u] = row]
  PROVE  /\ users' \in [User -> UserRow \cup {NoUser}] /\ users'[u] = row
         /\ \A w \in User \ {u} : users'[w] = users[w]
         /\ \A w \in User : users[w] # NoUser =>
              users'[w] # NoUser /\ users'[w].company = users[w].company
<1>1. row # NoUser
  BY SessionsAssumption DEF UserRow, NoUser
<1> QED BY <1>1 DEF AccountsInv, Typed

\* A step of one call that replaces a user's row and nothing else.
LEMMA RowMoves ==
  ASSUME AccountsInv, NEW r \in Request, NEW q \in RequestState, Become(r, q), UsersKept,
         RequestSound(q)', users' \in [User -> UserRow \cup {NoUser}], torn' \subseteq User,
         UNCHANGED <<sessions, tokens, docs>>
  PROVE  AccountsInv'
<1>1. DocsKept
  BY DEF DocsKept
<1>2. \A s \in Session : SessionSound(s)'
  BY <1>1, TablesSurvive DEF AccountsInv, SessionSound, Exists
<1>3. tokens' \subseteq Token /\ \A t \in tokens' : TokenSound(t)'
  BY <1>1, TablesSurvive DEF AccountsInv, Typed
<1>4. \A d \in Document : DocSound(d)'
  BY <1>1, TablesSurvive
<1> QED BY <1>1, <1>2, <1>3, <1>4, Moves DEF AccountsInv, Typed

LEMMA BumpSound == ASSUME AccountsInv, UNCHANGED docs, NEW r \in Request, Bump(r) PROVE AccountsInv'
<1>1. PICK c \in RequestState : c = req[r] /\ RequestSound(c)
  BY CallTyped
<1>2. PICK u \in User : u = c.user /\ users[u] # NoUser
  BY <1>1 DEF Bump, Step, RequestSound, Exists
<1>3. PICK old \in UserRow : old = users[u]
  BY <1>2 DEF AccountsInv, Typed
<1>4. PICK row : row = [old EXCEPT !.version = old.version + 1]
  OBVIOUS
<1>5. /\ row \in UserRow /\ row.company = old.company /\ row.role = old.role
      /\ row.version = old.version + 1
  BY <1>4 DEF UserRow
<1>6. /\ users' = [users EXCEPT ![u] = row] /\ torn' = torn \ {u} /\ c.pc = "bump"
      /\ Become(r, [c EXCEPT !.pc = "revokeAll"]) /\ UNCHANGED <<sessions, tokens>>
  BY <1>1, <1>2, <1>3, <1>4 DEF Bump, Step
<1>7. PICK q : q = [c EXCEPT !.pc = "revokeAll"]
  OBVIOUS
<1>8. q \in RequestState /\ q.pc = "revokeAll" /\ q.user = u
  BY <1>2, <1>7 DEF RequestState
<1>9. /\ users' \in [User -> UserRow \cup {NoUser}] /\ users'[u] = row
      /\ \A w \in User \ {u} : users'[w] = users[w]
      /\ \A w \in User : users[w] # NoUser =>
           users'[w] # NoUser /\ users'[w].company = users[w].company
  BY <1>2, <1>3, <1>5, <1>6, RowReplaced
<1>10. ASSUME NEW w \in User, NEW role \in INVITABLE_ROLES, NEW v \in Nat, Fresh(w, role, v)
       PROVE  Fresh(w, role, v)'
  <2>1. CASE w = u
    BY <1>3, <1>5, <1>9, <1>10, <2>1 DEF Fresh, UserRow
  <2>2. CASE w # u
    <3>1. Unbumped(w) => Unbumped(w)'
      <4>1. ASSUME NEW s \in Request, req[s].pc = "bump", req[s].user = w, req[s].role # "none"
            PROVE  req'[s] = req[s]
        BY <1>1, <1>2, <1>6, <2>2, <4>1 DEF Become, AccountsInv, Typed
      <4> QED BY <4>1 DEF Unbumped
    <3>2. users'[w] = users[w] /\ (w \in torn => w \in torn')
      BY <1>6, <1>9, <2>2
    <3> QED BY <1>10, <3>1, <3>2 DEF Fresh
  <2> QED BY <2>1, <2>2
<1>11. UsersKept
  BY <1>9, <1>10 DEF UsersKept
<1>12. RequestSound(q)'
  BY <1>2, <1>8, <1>9 DEF RequestSound, Exists
<1> QED BY <1>6, <1>7, <1>8, <1>9, <1>11, <1>12, RowMoves DEF AccountsInv, Typed

LEMMA SetRoleSound ==
  ASSUME AccountsInv, UNCHANGED docs, NEW r \in Request, SetRole(r) PROVE AccountsInv'
<1>1. PICK c \in RequestState : c = req[r] /\ RequestSound(c)
  BY CallTyped
<1>2. PICK u \in User : u = c.user /\ users[u] # NoUser
  BY <1>1 DEF SetRole, Step, RequestSound, Exists
<1>3. PICK old \in UserRow : old = users[u]
  BY <1>2 DEF AccountsInv, Typed
<1>4. PICK row : row = [old EXCEPT !.role = c.role]
  OBVIOUS
<1>5. c.role \in INVITABLE_ROLES /\ c.role # "none" /\ c.pc = "setRole"
  BY <1>1 DEF SetRole, Step, RequestSound, RequestState
<1>6. row \in UserRow /\ row.company = old.company /\ row.version = old.version
  BY <1>4, <1>5 DEF UserRow
<1>7. /\ users' = [users EXCEPT ![u] = row]
      /\ Become(r, [c EXCEPT !.pc = "bump"]) /\ UNCHANGED <<sessions, tokens, torn>>
  BY <1>1, <1>2, <1>3, <1>4 DEF SetRole, Step
<1>8. PICK q : q = [c EXCEPT !.pc = "bump"]
  OBVIOUS
<1>9. q \in RequestState /\ q.pc = "bump" /\ q.user = u /\ q.role = c.role
  BY <1>2, <1>8 DEF RequestState
<1>10. /\ users' \in [User -> UserRow \cup {NoUser}] /\ users'[u] = row
       /\ \A w \in User \ {u} : users'[w] = users[w]
       /\ \A w \in User : users[w] # NoUser =>
            users'[w] # NoUser /\ users'[w].company = users[w].company
  BY <1>2, <1>3, <1>6, <1>7, RowReplaced
<1>11. /\ req'[r] = q /\ \A s \in Request \ {r} : req'[s] = req[s]
  BY <1>7, <1>8 DEF Become, AccountsInv, Typed
<1>12. Unbumped(u)'
  BY <1>5, <1>9, <1>11 DEF Unbumped
<1>13. ASSUME NEW w \in User, NEW role \in INVITABLE_ROLES, NEW v \in Nat, Fresh(w, role, v)
       PROVE  Fresh(w, role, v)'
  <2>1. CASE w = u
    BY <1>3, <1>6, <1>10, <1>12, <1>13, <2>1 DEF Fresh
  <2>2. CASE w # u
    <3>1. Unbumped(w) => Unbumped(w)'
      BY <1>1, <1>5, <1>11 DEF Unbumped
    <3> QED BY <1>7, <1>10, <1>13, <2>2, <3>1 DEF Fresh
  <2> QED BY <2>1, <2>2
<1>14. UsersKept
  BY <1>10, <1>13 DEF UsersKept
<1>15. RequestSound(q)'
  BY <1>9, <1>10, <1>2 DEF RequestSound, Exists
<1> QED BY <1>7, <1>8, <1>9, <1>10, <1>14, <1>15, RowMoves DEF AccountsInv, Typed

\* A call that dies before its bump leaves the user torn.
LEMMA DieSound == ASSUME AccountsInv, UNCHANGED docs, NEW r \in Request, Die(r) PROVE AccountsInv'
<1>1. PICK c \in RequestState : c = req[r] /\ RequestSound(c)
  BY CallTyped
<1>2. /\ Become(r, Idle) /\ UNCHANGED <<users, sessions, tokens>>
      /\ torn' = IF c.pc = "bump" /\ c.role # "none" THEN torn \cup {c.user} ELSE torn
  BY <1>1 DEF Die
<1>3. torn \subseteq torn' /\ torn' \subseteq User
  BY <1>1, <1>2 DEF AccountsInv, Typed, RequestSound, Exists
<1>4. \A s \in Request \ {r} : req'[s] = req[s]
  BY <1>2 DEF Become, AccountsInv, Typed
<1>5. \A w \in User : Unbumped(w) => Unbumped(w)' \/ w \in torn'
  <2> TAKE w \in User
  <2>1. ASSUME NEW s \in Request, req[s].pc = "bump", req[s].user = w, req[s].role # "none"
        PROVE  Unbumped(w)' \/ w \in torn'
    <3>1. CASE s = r
      BY <1>1, <1>2, <2>1, <3>1
    <3>2. CASE s # r
      BY <1>4, <2>1, <3>2 DEF Unbumped
    <3> QED BY <3>1, <3>2
  <2> QED BY <2>1 DEF Unbumped
<1>6. UsersKept
  BY <1>2, <1>3, <1>5 DEF UsersKept, Fresh
<1> QED BY <1>2, <1>3, <1>6, IdleSound, RowMoves DEF AccountsInv, Typed

\* --- time, and what is outside the services -------------------------------------
LEMMA Still ==
  ASSUME AccountsInv, UNCHANGED <<req, torn, docs>>, SessionsKept, tokens' \subseteq tokens,
         \/ UNCHANGED users
         \/ \E u \in User : users[u] # NoUser /\ users' = [users EXCEPT ![u].active = FALSE]
  PROVE  AccountsInv'
<1> DEFINE RowsKept ==
      /\ users' \in [User -> UserRow \cup {NoUser}]
      /\ \A w \in User : users[w] # NoUser =>
           /\ users'[w] # NoUser /\ users'[w].company = users[w].company
           /\ users'[w].role = users[w].role /\ users'[w].version = users[w].version
<1>1. RowsKept
  <2>1. CASE UNCHANGED users
    BY <2>1 DEF AccountsInv, Typed
  <2>2. ASSUME NEW u \in User, users[u] # NoUser, users' = [users EXCEPT ![u].active = FALSE]
        PROVE  RowsKept
    <3>1. PICK old \in UserRow : old = users[u]
      BY <2>2 DEF AccountsInv, Typed
    <3>2. PICK row : row = [old EXCEPT !.active = FALSE]
      OBVIOUS
    <3>3. /\ row \in UserRow /\ row.company = old.company /\ row.role = old.role
          /\ row.version = old.version
      BY <3>2 DEF UserRow
    <3>4. users' = [users EXCEPT ![u] = row]
      BY <2>2, <3>1, <3>2
    <3> QED BY <2>2, <3>1, <3>3, <3>4, RowReplaced
  <2> QED BY <2>1, <2>2
<1>2. UsersKept /\ DocsKept
  BY <1>1 DEF UsersKept, DocsKept, Fresh, Unbumped
<1>3. \A r \in Request : RequestSound(req[r])'
  <2> TAKE r \in Request
  <2>1. PICK c \in RequestState : c = req[r] /\ RequestSound(c)
    BY CallTyped
  <2>2. RequestSound(c)'
    BY <1>2, <2>1, ReadingSurvives
  <2> QED BY <2>1, <2>2 DEF RequestSound
<1>4. \A s \in Session : SessionSound(s)'
  <2> TAKE s \in Session
  <2>1. sessions'[s].user # None => Exists(sessions'[s].user)
    BY DEF SessionsKept, AccountsInv, SessionSound
  <2> QED BY <1>2, <2>1 DEF SessionSound, Exists, UsersKept
<1>5. \A t \in tokens' : TokenSound(t)'
  BY <1>2, TablesSurvive DEF AccountsInv, Typed
<1>6. \A d \in Document : DocSound(d)'
  BY <1>2, TablesSurvive
<1> QED BY <1>1, <1>3, <1>4, <1>5, <1>6 DEF AccountsInv, Typed, SessionsKept

LEMMA SessionsNextSound == ASSUME AccountsInv, SessionsNext, UNCHANGED docs PROVE AccountsInv'
<1>1. ASSUME TokenExpires PROVE AccountsInv'
  BY <1>1, Still, SameTables DEF TokenExpires
<1>2. ASSUME NEW s \in Session, SessionExpires(s) PROVE AccountsInv'
  BY <1>2, Still, SameTables DEF SessionExpires
<1>3. ASSUME NEW u \in User, Suspend(u) PROVE AccountsInv'
  <2>1. users[u].active /\ ~NoUser.active
    BY <1>3 DEF Suspend, NoUser
  <2>2. users[u] # NoUser
    BY <2>1
  <2> QED BY <1>3, <2>2, Still, SameTables DEF Suspend
<1>4. ASSUME NEW r \in Request,
             RefuseLogin(r) \/ Reread(r) \/ Rotate(r) \/ Logout(r) \/ Bump(r) \/ RevokeAll(r)
             \/ CountAdmins(r) \/ SetRole(r) \/ Die(r)
      PROVE  AccountsInv'
  BY <1>4, LoginSound, SessionSteps, ChangeRoleSound, BumpSound, SetRoleSound, DieSound
<1>5. ASSUME NEW r \in Request, NEW s \in Session, BeginRefresh(r, s) \/ BeginLogout(r, s) \/ Issue(r, s)
      PROVE  AccountsInv'
  BY <1>5, LoginSound, SessionSteps
<1>6. ASSUME NEW r \in Request, NEW u \in User, BeginLogin(r, u) \/ BeginLogoutEverywhere(r, u)
      PROVE  AccountsInv'
  BY <1>6, LoginSound
<1>7. ASSUME NEW r \in Request, NEW u \in User, NEW actor \in tokens, NEW role \in Role,
             BeginChangeRole(r, actor, u, role)
      PROVE  AccountsInv'
  BY <1>7, ChangeRoleSound
<1> QED BY <1>1, <1>2, <1>3, <1>4, <1>5, <1>6, <1>7 DEF SessionsNext

-------------------------------------------------------------------------------
\* --- Onboarding ----------------------------------------------------------------
\* A step of one call that writes one document.
LEMMA DocWritten ==
  ASSUME AccountsInv, NEW d \in Document, NEW row \in DocRow, docs' = [docs EXCEPT ![d] = row],
         docs[d] # NoDoc => row.kind = docs[d].kind /\ row.company = docs[d].company
                            /\ row.role = docs[d].role,
         row.kind = "join" => row.role \in SELF_REQUESTABLE,
         row.status \in {"ACCEPTED", "APPROVED"} =>
           Exists(Stranger) /\ users[Stranger].company = row.company,
         UNCHANGED users
  PROVE  /\ docs' \in [Document -> DocRow \cup {NoDoc}]
         /\ DocsKept
         /\ \A e \in Document : DocSound(e)'
<1>1. /\ docs'[d] = row /\ row # NoDoc
      /\ \A e \in Document \ {d} : docs'[e] = docs[e]
  BY SessionsAssumption DEF AccountsInv, Typed, DocRow, NoDoc
<1> QED BY <1>1 DEF AccountsInv, Typed, DocsKept, DocSound, Exists

LEMMA DocMoves ==
  ASSUME AccountsInv, NEW r \in Request, Become(r, Idle), req[r].pc # "bump",
         UNCHANGED <<users, torn, sessions, tokens>>, DocsKept,
         docs' \in [Document -> DocRow \cup {NoDoc}], \A d \in Document : DocSound(d)'
  PROVE  AccountsInv'
<1>1. UsersKept
  <2>1. \A u \in User : Unbumped(u) => Unbumped(u)'
    BY DEF AccountsInv, Typed, Become, Unbumped
  <2> QED BY <2>1 DEF UsersKept, Fresh
<1>2. \A s \in Session : SessionSound(s)'
  BY DEF AccountsInv, SessionSound, Exists
<1>3. tokens' \subseteq Token /\ \A t \in tokens' : TokenSound(t)'
  BY <1>1, TablesSurvive DEF AccountsInv, Typed
<1> QED BY <1>1, <1>2, <1>3, IdleSound, Moves DEF AccountsInv, Typed

LEMMA OpenSound ==
  ASSUME AccountsInv, NEW r \in Request
  PROVE  /\ \A kind \in {"invite", "join"}, c \in Company, role \in Role :
              BeginOpen(r, kind, c, role) => AccountsInv'
         /\ LookForPending(r) => AccountsInv'
         /\ \A d \in Document, kind \in {"invite", "join"} : Open(r, d, kind) => AccountsInv'
<1>1. ASSUME NEW kind \in {"invite", "join"}, NEW k \in Company, NEW role \in Role,
             BeginOpen(r, kind, k, role)
      PROVE  AccountsInv'
  <2>1. PICK q : q = [Idle EXCEPT !.pc = kind, !.role = role, !.company = k]
    OBVIOUS
  <2>2. role \in INVITABLE_ROLES /\ role # "none" /\ (kind = "join" => role \in SELF_REQUESTABLE)
    BY <1>1 DEF BeginOpen, INVITABLE_ROLES, SELF_REQUESTABLE
  <2>3. q \in RequestState /\ q.pc = kind /\ q.role = role /\ q.company = k
    BY <2>1, <2>2, IdleSound DEF Idle, RequestState
  <2>4. RequestSound(q)
    BY <2>2, <2>3 DEF RequestSound
  <2> QED BY <1>1, <2>1, <2>3, <2>4, QuietMoves, SameTables DEF BeginOpen, Call
<1>2. PICK c \in RequestState : c = req[r] /\ RequestSound(c)
  BY CallTyped
<1>3. ASSUME LookForPending(r) PROVE AccountsInv'
  <2>1. c.pc \in {"invite", "join"}
    BY <1>2, <1>3 DEF LookForPending, Step
  <2>2. PICK q : q = [c EXCEPT !.pc = OpenPc[c.pc]]
    OBVIOUS
  <2>3. /\ q \in RequestState /\ q.pc = OpenPc[c.pc] /\ q.role = c.role /\ q.company = c.company
        /\ q.pc = IF c.pc = "invite" THEN "open-invite" ELSE "open-join"
    BY <2>1, <2>2 DEF RequestState, OpenPc
  <2>4. RequestSound(q)
    BY <1>2, <2>1, <2>3 DEF RequestSound
  <2>5. Become(r, Idle) \/ Become(r, q)
    BY <1>2, <1>3, <2>2 DEF LookForPending, Step
  <2>6. UNCHANGED <<users, torn, docs, sessions, tokens>>
    BY <1>3 DEF LookForPending, Step, rest
  <2> QED BY <1>2, <2>1, <2>3, <2>4, <2>5, <2>6, QuietMoves, QuietEnd, SameTables
<1>4. ASSUME NEW d \in Document, NEW kind \in {"invite", "join"}, Open(r, d, kind) PROVE AccountsInv'
  <2>1. /\ c.pc \in {"open-invite", "open-join"} /\ (kind = "join" => c.pc = "open-join")
        /\ docs[d] = NoDoc /\ Become(r, Idle)
    BY <1>2, <1>4 DEF Open, Step, OpenPc
  <2>2. PICK row : row = [kind |-> kind, company |-> c.company, role |-> c.role,
                          status |-> "PENDING", expired |-> FALSE]
    OBVIOUS
  <2>3. row \in DocRow /\ (row.kind = "join" => row.role \in SELF_REQUESTABLE)
        /\ row.status = "PENDING"
    BY <1>2, <2>1, <2>2 DEF DocRow, RequestSound, RequestState
  <2>4. UNCHANGED <<users, torn, sessions, tokens>>
    BY <1>4 DEF Open, Step, rest
  <2>5. CASE docs' = docs
    BY <1>2, <2>1, <2>4, <2>5, QuietEnd, SameTables
  <2>6. CASE docs' = [docs EXCEPT ![d] = row]
    BY <1>2, <2>1, <2>3, <2>4, <2>6, DocWritten, DocMoves
  <2> QED BY <1>2, <1>4, <2>2, <2>5, <2>6 DEF Open, NewDoc
<1> QED BY <1>1, <1>3, <1>4

LEMMA BeginDocSound ==
  ASSUME AccountsInv, NEW r \in Request, NEW d \in Document
  PROVE  /\ BeginAccept(r, d) => AccountsInv'
         /\ \A c \in Company, role \in Role : BeginApprove(r, d, c, role) => AccountsInv'
         /\ \A c \in Company : BeginRefuse(r, d, c) => AccountsInv'
<1> PICK doc \in DocRow \cup {NoDoc} : doc = docs[d]
  BY DEF AccountsInv, Typed
<1>1. ASSUME BeginAccept(r, d) PROVE AccountsInv'
  <2>1. doc \in DocRow /\ doc # NoDoc /\ doc.kind = "invite"
    BY <1>1 DEF BeginAccept, NoDoc
  <2>2. PICK q : q = [Idle EXCEPT !.pc = "create", !.doc = d, !.company = doc.company,
                                  !.role = doc.role]
    OBVIOUS
  <2>3. /\ q \in RequestState /\ q.pc = "create" /\ q.doc = d /\ q.company = doc.company
        /\ q.role = doc.role /\ q.role # "none"
    BY <2>1, <2>2, IdleSound DEF Idle, RequestState, DocRow, INVITABLE_ROLES
  <2>4. RequestSound(q)
    BY <2>1, <2>3 DEF RequestSound, Backed
  <2> QED BY <1>1, <2>2, <2>3, <2>4, QuietMoves, SameTables DEF BeginAccept, Call
<1>2. ASSUME NEW c \in Company, NEW role \in Role, BeginApprove(r, d, c, role) PROVE AccountsInv'
  <2>1. doc # NoDoc /\ doc.kind = "join" /\ doc.company = c
    BY <1>2 DEF BeginApprove, NoDoc
  <2>2. role \in INVITABLE_ROLES /\ role # "none" /\ role # "COMPANY_ADMIN"
    BY <1>2 DEF BeginApprove, SELF_REQUESTABLE, INVITABLE_ROLES
  <2>3. PICK q : q = [Idle EXCEPT !.pc = "create", !.doc = d, !.company = c, !.role = role]
    OBVIOUS
  <2>4. q \in RequestState /\ q.pc = "create" /\ q.doc = d /\ q.company = c /\ q.role = role
    BY <2>2, <2>3, IdleSound DEF Idle, RequestState
  <2>5. RequestSound(q)
    BY <2>1, <2>2, <2>4 DEF RequestSound, Backed
  <2> QED BY <1>2, <2>3, <2>4, <2>5, QuietMoves, SameTables DEF BeginApprove, Call
<1>3. ASSUME NEW c \in Company, BeginRefuse(r, d, c) PROVE AccountsInv'
  <2>1. doc # NoDoc
    BY <1>3 DEF BeginRefuse, NoDoc
  <2>2. PICK q : q = [Idle EXCEPT !.pc = "refuse", !.doc = d]
    OBVIOUS
  <2>3. q \in RequestState /\ q.pc = "refuse" /\ q.doc = d
    BY <2>2, IdleSound DEF Idle, RequestState
  <2>4. RequestSound(q)
    BY <2>1, <2>3 DEF RequestSound
  <2> QED BY <1>3, <2>2, <2>3, <2>4, QuietMoves, SameTables DEF BeginRefuse, Call
<1> QED BY <1>1, <1>2, <1>3

LEMMA AccountTyped ==
  ASSUME NEW c \in Company, NEW role \in INVITABLE_ROLES
  PROVE  /\ Account(c, role) \in UserRow /\ Account(c, role) # NoUser
         /\ Account(c, role).company = c /\ Account(c, role).role = role
BY SessionsAssumption DEF Account, UserRow, NoUser

\* What a call that creates the stranger's account writes.
LEMMA Created ==
  ASSUME AccountsInv, NEW r \in Request, CreateUser(r)
  PROVE  \/ Become(r, Idle) /\ UNCHANGED users
         \/ /\ users[Stranger] = NoUser
            /\ req[r].company \in Company /\ req[r].role \in INVITABLE_ROLES
            /\ users' = [users EXCEPT ![Stranger] = Account(req[r].company, req[r].role)]
            /\ Become(r, [req[r] EXCEPT !.pc = "admit"])
<1>1. PICK c \in RequestState : c = req[r] /\ RequestSound(c)
  BY CallTyped
<1>2. c.pc = "create" /\ c.role \in INVITABLE_ROLES /\ Backed(c)
  BY <1>1 DEF CreateUser, Step, RequestSound, RequestState
<1>3. c.company \in Company
  <2>1. docs[c.doc] \in DocRow
    BY <1>2 DEF Backed, AccountsInv, Typed
  <2> QED BY <1>2, <2>1 DEF Backed, DocRow
<1> QED BY <1>1, <1>2, <1>3 DEF CreateUser

LEMMA CreateUserSound == ASSUME AccountsInv, NEW r \in Request, CreateUser(r) PROVE AccountsInv'
<1>1. PICK c \in RequestState : c = req[r] /\ RequestSound(c)
  BY CallTyped
<1>2. c.pc = "create" /\ UNCHANGED <<sessions, tokens, torn, docs>>
  BY <1>1 DEF CreateUser, Step, rest
<1>3. CASE Become(r, Idle) /\ UNCHANGED users
  BY <1>1, <1>2, <1>3, QuietEnd, SameTables
<1>4. CASE ~(Become(r, Idle) /\ UNCHANGED users)
  <2>1. PICK account \in UserRow :
          /\ account = Account(c.company, c.role) /\ account # NoUser /\ account.company = c.company
          /\ users[Stranger] = NoUser /\ users' = [users EXCEPT ![Stranger] = account]
          /\ Become(r, [c EXCEPT !.pc = "admit"])
    BY <1>1, <1>4, Created, AccountTyped
  <2>2. PICK q : q = [c EXCEPT !.pc = "admit"]
    OBVIOUS
  <2>3. q \in RequestState /\ q.pc = "admit" /\ q.doc = c.doc /\ q.company = c.company
    BY <2>2 DEF RequestState
  <2>4. /\ users' \in [User -> UserRow \cup {NoUser}] /\ users'[Stranger] = account
        /\ \A u \in User \ {Stranger} : users'[u] = users[u]
    BY <2>1, OnboardingAssumption DEF AccountsInv, Typed
  <2>5. \A u \in User : Unbumped(u) => Unbumped(u)'
    BY <1>1, <1>2, <2>1 DEF AccountsInv, Typed, Become, Unbumped
  <2>6. UsersKept
    BY <1>2, <2>1, <2>4, <2>5 DEF UsersKept, Fresh
  <2>7. RequestSound(q)'
    BY <1>1, <1>2, <2>1, <2>3, <2>4, OnboardingAssumption DEF RequestSound, Backed, Exists
  <2> QED BY <1>2, <2>1, <2>2, <2>3, <2>4, <2>6, <2>7, RowMoves DEF AccountsInv, Typed
<1> QED BY <1>3, <1>4

\* markAccepted, decide, revoke and reject change a document's status only.
LEMMA MarkSound ==
  ASSUME AccountsInv, NEW r \in Request, Admit(r) \/ Refuse(r) PROVE AccountsInv'
<1>1. PICK c \in RequestState : c = req[r] /\ RequestSound(c)
  BY CallTyped
<1>2. PICK d \in Document : d = c.doc /\ docs[d] # NoDoc /\ c.pc \in {"admit", "refuse"}
  BY <1>1 DEF Admit, Refuse, Step, RequestSound, Backed
<1>3. PICK doc \in DocRow : doc = docs[d]
  BY <1>2 DEF AccountsInv, Typed
<1>4. PICK status : status =
        IF c.pc = "admit" THEN IF doc.kind = "invite" THEN "ACCEPTED" ELSE "APPROVED"
        ELSE IF doc.kind = "invite" THEN "REVOKED" ELSE "REJECTED"
  OBVIOUS
<1>5. /\ docs' = [docs EXCEPT ![d].status = status] /\ Become(r, Idle)
      /\ UNCHANGED <<users, torn, sessions, tokens>>
  BY <1>1, <1>2, <1>3, <1>4 DEF Admit, Refuse, Step, Mark, rest
<1>6. PICK row : row = [doc EXCEPT !.status = status]
  OBVIOUS
<1>7. /\ row \in DocRow /\ row.kind = doc.kind /\ row.company = doc.company /\ row.role = doc.role
      /\ row.status = status
  BY <1>4, <1>6 DEF DocRow
<1>8. docs' = [docs EXCEPT ![d] = row]
  BY <1>3, <1>5, <1>6
<1>9. status \in {"ACCEPTED", "APPROVED"} =>
        Exists(Stranger) /\ users[Stranger].company = row.company
  BY <1>1, <1>2, <1>3, <1>4, <1>7 DEF RequestSound, Backed
<1>10. row.kind = "join" => row.role \in SELF_REQUESTABLE
  BY <1>3, <1>7 DEF AccountsInv, DocSound
<1>11. /\ docs' \in [Document -> DocRow \cup {NoDoc}] /\ DocsKept
       /\ \A e \in Document : DocSound(e)'
  BY <1>3, <1>2, <1>5, <1>7, <1>8, <1>9, <1>10, DocWritten
<1>12. req[r].pc # "bump"
  BY <1>1, <1>2
<1> QED BY <1>5, <1>11, <1>12, DocMoves

LEMMA DocExpiresSound == ASSUME AccountsInv, NEW d \in Document, DocExpires(d) PROVE AccountsInv'
<1>1. docs[d].status = "PENDING" /\ docs[d] # NoDoc
  BY DEF DocExpires, NoDoc
<1>2. PICK doc \in DocRow : doc = docs[d]
  BY <1>1 DEF AccountsInv, Typed
<1>3. PICK row : row = [doc EXCEPT !.expired = TRUE]
  OBVIOUS
<1>4. /\ row \in DocRow /\ row.kind = doc.kind /\ row.company = doc.company /\ row.role = doc.role
      /\ row.status = doc.status
  BY <1>3 DEF DocRow
<1>5. docs' = [docs EXCEPT ![d] = row] /\ UNCHANGED <<users, sessions, tokens, req, torn>>
  BY <1>2, <1>3 DEF DocExpires, sessionVars
<1>6. row.kind = "join" => row.role \in SELF_REQUESTABLE
  BY <1>2, <1>4 DEF AccountsInv, DocSound
<1>7. /\ docs' \in [Document -> DocRow \cup {NoDoc}] /\ DocsKept
      /\ \A e \in Document : DocSound(e)'
  BY <1>1, <1>2, <1>4, <1>5, <1>6, DocWritten
<1>8. UsersKept
  BY <1>5 DEF UsersKept, Fresh, Unbumped
<1>9. \A r \in Request : RequestSound(req[r])'
  <2> TAKE r \in Request
  <2>1. PICK c \in RequestState : c = req[r] /\ RequestSound(c)
    BY CallTyped
  <2>2. RequestSound(c)'
    BY <1>7, <1>8, <2>1, ReadingSurvives
  <2> QED BY <1>5, <2>1, <2>2 DEF RequestSound
<1>10. (\A s \in Session : SessionSound(s)') /\ (\A t \in tokens' : TokenSound(t)')
  BY <1>5, <1>7, <1>8, TablesSurvive DEF AccountsInv, Typed, SessionSound, Exists
<1> QED BY <1>5, <1>7, <1>9, <1>10 DEF AccountsInv, Typed

LEMMA StepSound == ASSUME AccountsInv, [AccountsNext]_accountVars PROVE AccountsInv'
<1>1. ASSUME OnboardingNext PROVE AccountsInv'
  BY <1>1, OpenSound, BeginDocSound, CreateUserSound, MarkSound, DocExpiresSound DEF OnboardingNext
<1>2. ASSUME UNCHANGED accountVars PROVE AccountsInv'
  BY <1>2, Still, SameTables DEF accountVars, sessionVars
<1> QED BY <1>1, <1>2, SessionsNextSound DEF AccountsNext

-------------------------------------------------------------------------------
\* What calls rely on stays true, and a copy of a role is as new as its version, whatever
\* calls overlap or die (session.ts, roles.ts, invitations.ts, join.ts).
THEOREM AccountsInvariant == AccountsSpec => []AccountsInv
<1>1. AccountsInit => AccountsInv
  BY InitSound
<1>2. AccountsInv /\ [AccountsNext]_accountVars => AccountsInv'
  BY StepSound
<1> QED BY <1>1, <1>2, PTL DEF AccountsSpec

\* Users have a company, sessions and tokens have a user, and no row holds a role that the
\* services refuse to give (identity/db/schema.sql).
THEOREM AccountsTypeCorrect == AccountsSpec => []AccountsTypeOK
<1>1. ASSUME AccountsInv PROVE AccountsTypeOK
  <2>1. \A u \in User : users[u] = NoUser \/
          /\ users[u].company \in Company
          /\ users[u].role \in INVITABLE_ROLES
          /\ users[u].version >= 1
    BY <1>1 DEF AccountsInv, Typed, UserRow
  <2>2. \A s \in Session : sessions[s].user \in {None} \cup {u \in User : users[u] # NoUser}
    BY <1>1 DEF AccountsInv, SessionSound, Exists
  <2>3. \A t \in tokens : Scoped(t) /\ users[t.user] # NoUser
    BY <1>1, SessionsAssumption DEF AccountsInv, Typed, Token, TokenSound, Exists, Scoped
  <2>4. \A d \in Document :
          /\ docs[d].kind = "invite" => docs[d].role \in INVITABLE_ROLES
          /\ docs[d].kind = "join" => docs[d].role \in SELF_REQUESTABLE
    BY <1>1 DEF AccountsInv, Typed, DocRow, NoDoc, DocSound
  <2>5. \A r \in Request : req[r].pc \in
          {"idle", "login", "reread", "rotate", "logout", "bump", "revokeAll", "count", "setRole",
           "invite", "join", "open-invite", "open-join", "create", "admit", "refuse"}
    BY <1>1 DEF AccountsInv, Typed, RequestState
  <2>6. torn \subseteq User
    BY <1>1 DEF AccountsInv, Typed
  <2> QED BY <2>1, <2>2, <2>3, <2>4, <2>5, <2>6 DEF AccountsTypeOK
<1> QED BY <1>1, AccountsInvariant, PTL

\* A token that opens more than its user's role does is older than the user's version,
\* unless a bump is outstanding or its call died (RoleService.changeRole).
THEOREM StalePowerCorrect == AccountsSpec => []StalePowerHasOldVersion
<1>1. ASSUME AccountsInv PROVE StalePowerHasOldVersion
  <2> SUFFICES ASSUME NEW t \in tokens, NEW p \in Permission,
                      canActivate(t, Needing(p)) = "ALLOWED", ~roleHas(users[t.user].role, p)
               PROVE  \/ t.version < users[t.user].version
                      \/ t.user \in torn
                      \/ \E r \in Request : req[r].pc = "bump" /\ req[r].user = t.user
    BY DEF StalePowerHasOldVersion
  <2>1. roleHas(t.role, p)
    BY DEF canActivate, Can, HasModules, Needing
  <2>2. t.role # users[t.user].role
    BY <2>1
  <2>3. Exists(t.user) /\ Fresh(t.user, t.role, t.version)
    BY <1>1 DEF AccountsInv, TokenSound
  <2>4. users[t.user].version \in Nat /\ t.version \in Nat
    BY <1>1, <2>3 DEF AccountsInv, Typed, Token, UserRow, Exists
  <2> QED BY <2>2, <2>3, <2>4 DEF Fresh, Unbumped
<1> QED BY <1>1, AccountsInvariant, PTL

\* Whoever is admitted belongs to the company that admitted them (InvitationService.accept,
\* JoinService.approve).
THEOREM AdmissionCorrect == AccountsSpec => []AdmittedIsMember
<1>1. AccountsInv => AdmittedIsMember
  BY DEF AccountsInv, DocSound, AdmittedIsMember
<1> QED BY <1>1, AccountsInvariant, PTL

\* The steps that touch the users.
LEMMA UserSteps ==
  ASSUME AccountsInv, [AccountsNext]_accountVars
  PROVE  \/ UNCHANGED users
         \/ \E r \in Request : Bump(r) \/ SetRole(r) \/ CreateUser(r)
         \/ \E u \in User : Suspend(u)
BY DEF AccountsNext, SessionsNext, OnboardingNext, accountVars, sessionVars, BeginLogin,
   BeginLogoutEverywhere, BeginChangeRole, BeginRefresh, BeginLogout, Issue, RefuseLogin, Reread,
   Rotate, Logout, RevokeAll, CountAdmins, Die, TokenExpires, SessionExpires, BeginOpen,
   BeginApprove, Open, BeginAccept, BeginRefuse, LookForPending, Admit, Refuse, DocExpires

\* Apart from the stranger's account, a user's row appears and disappears with no step, and
\* only a role change alters its role.
LEMMA RowsChange ==
  ASSUME AccountsInv, [AccountsNext]_accountVars, NEW u \in User, users'[u] # users[u]
  PROVE  \/ /\ users[u] # NoUser /\ users'[u].company = users[u].company
            /\ \/ users'[u].role = users[u].role
               \/ \E r \in Request : SetRole(r) /\ req[r].user = u
         \/ users[u] = NoUser /\ \E r \in Request : CreateUser(r)
<1>1. ASSUME NEW r \in Request, Bump(r) \/ SetRole(r)
      PROVE  /\ users[u] # NoUser /\ users'[u].company = users[u].company
             /\ users'[u].role = users[u].role \/ (SetRole(r) /\ req[r].user = u)
  <2>1. PICK w \in User : w = req[r].user /\ users[w] # NoUser
    BY <1>1, CallTyped DEF Bump, SetRole, Step, RequestSound, Exists
  <2>2. PICK old \in UserRow : old = users[w]
    BY <2>1 DEF AccountsInv, Typed
  <2>3. CASE Bump(r)
    <3>1. PICK row : row = [old EXCEPT !.version = old.version + 1]
      OBVIOUS
    <3>2. row \in UserRow /\ row.company = old.company /\ row.role = old.role
      BY <3>1 DEF UserRow
    <3>3. users' = [users EXCEPT ![w] = row]
      BY <2>1, <2>2, <2>3, <3>1 DEF Bump
    <3> QED BY <2>1, <2>2, <3>2, <3>3, RowReplaced
  <2>4. CASE SetRole(r)
    <3>1. PICK row : row = [old EXCEPT !.role = req[r].role]
      OBVIOUS
    <3>2. row.company = old.company
      BY <3>1 DEF UserRow
    <3>3. users' = [users EXCEPT ![w] = row]
      BY <2>1, <2>2, <2>4, <3>1 DEF SetRole
    <3> QED BY <2>1, <2>2, <2>4, <3>2, <3>3 DEF AccountsInv, Typed
  <2> QED BY <1>1, <2>3, <2>4
<1>2. ASSUME NEW r \in Request, CreateUser(r) PROVE users[u] = NoUser
  BY <1>2, Created, OnboardingAssumption DEF AccountsInv, Typed
<1>3. ASSUME NEW w \in User, Suspend(w)
      PROVE  /\ users[u] # NoUser /\ users'[u].company = users[u].company
             /\ users'[u].role = users[u].role
  <2>1. users[w].active /\ ~NoUser.active /\ users' = [users EXCEPT ![w].active = FALSE]
    BY <1>3 DEF Suspend, NoUser
  <2>2. w = u /\ users[u] # NoUser
    BY <2>1 DEF AccountsInv, Typed
  <2>3. PICK old \in UserRow : old = users[u]
    BY <2>2 DEF AccountsInv, Typed
  <2>4. users'[u] = [old EXCEPT !.active = FALSE]
    BY <2>1, <2>2, <2>3 DEF AccountsInv, Typed
  <2> QED BY <2>2, <2>3, <2>4 DEF UserRow
<1> QED BY <1>1, <1>2, <1>3, UserSteps

\* A company loses its last admin only to a call that acted on an old count or an old role
\* (LAST_COMPANY_ADMIN).
THEOREM LastAdminCorrect == AccountsSpec => LastAdminLostToStaleRead
<1>1. ASSUME AccountsInv, [AccountsNext]_accountVars, NEW c \in Company,
             AdminsOf(c) # {}, AdminsOf(c)' = {}
      PROVE  \E r \in Request :
               /\ req[r].pc = "setRole"
               /\ \/ ~Demotes(req[r].row, req[r].role)
                  \/ req[r].admins > Cardinality(AdminsOf(c))
  <2>1. PICK u \in AdminsOf(c) : u \notin AdminsOf(c)'
    BY <1>1
  <2>2. u \in User /\ users[u].company = c /\ users[u].role = "COMPANY_ADMIN"
    BY <2>1 DEF AdminsOf
  <2>3. PICK r \in Request : SetRole(r) /\ req[r].user = u
    <3>1. users'[u] # users[u] /\ users[u] # NoUser
      BY <2>1, <2>2 DEF AdminsOf, NoUser
    <3>2. ~(users'[u].company = c /\ users'[u].role = "COMPANY_ADMIN")
      BY <2>1, <2>2 DEF AdminsOf
    <3> QED BY <1>1, <2>2, <3>1, <3>2, RowsChange
  <2>4. AdminsOf(c) = {u}
    <3> SUFFICES ASSUME NEW w \in AdminsOf(c) PROVE w = u
      BY <2>1
    <3>1. w \in User /\ users'[w] # users[w]
      BY <1>1 DEF AdminsOf
    <3> QED BY <1>1, <2>3, <3>1 DEF SetRole, AccountsInv, Typed
  <2>5. Cardinality(AdminsOf(c)) = 1
    BY <2>4, FS_Singleton
  <2> QED BY <1>1, <2>3, <2>5, CallTyped DEF SetRole, Step, RequestSound
<1>2. AccountsInv /\ [AccountsNext]_accountVars =>
        [\A c \in Company : AdminsOf(c) # {} /\ AdminsOf(c)' = {} =>
           \E r \in Request :
             /\ req[r].pc = "setRole"
             /\ \/ ~Demotes(req[r].row, req[r].role)
                \/ req[r].admins > Cardinality(AdminsOf(c))]_accountVars
  BY <1>1
<1> QED BY <1>2, AccountsInvariant, PTL DEF AccountsSpec, LastAdminLostToStaleRead

\* A stranger becomes a user of a company that had a document open for them, in a role that
\* document allows (invitations.ts, join.ts).
THEOREM ChoiceCorrect == AccountsSpec => CompanyIsTheAdminsChoice
<1>1. ASSUME AccountsInv, [AccountsNext]_accountVars,
             users[Stranger] = NoUser, users[Stranger]' # NoUser
      PROVE  \E d \in Document :
               /\ docs[d].company = users'[Stranger].company
               /\ \/ docs[d].kind = "invite" /\ docs[d].role = users'[Stranger].role
                  \/ docs[d].kind = "join" /\ users'[Stranger].role # "COMPANY_ADMIN"
  <2>1. PICK r \in Request : CreateUser(r)
    BY <1>1, RowsChange, OnboardingAssumption
  <2>2. PICK c \in RequestState : c = req[r] /\ RequestSound(c)
    BY <1>1, CallTyped
  <2>3. /\ c.pc = "create" /\ Backed(c)
        /\ docs[c.doc].kind = "invite" => c.role = docs[c.doc].role
        /\ docs[c.doc].kind = "join" => c.role # "COMPANY_ADMIN"
    BY <2>1, <2>2 DEF CreateUser, Step, RequestSound
  <2>4. docs[c.doc].kind \in {"invite", "join"}
    <3>1. docs[c.doc] \in DocRow
      BY <1>1, <2>3 DEF Backed, AccountsInv, Typed
    <3> QED BY <3>1 DEF DocRow
  <2>5. users'[Stranger].company = c.company /\ users'[Stranger].role = c.role
    <3>1. /\ c.company \in Company /\ c.role \in INVITABLE_ROLES
          /\ users' = [users EXCEPT ![Stranger] = Account(c.company, c.role)]
      BY <1>1, <2>1, <2>2, Created
    <3>2. users'[Stranger] = Account(c.company, c.role)
      BY <1>1, <3>1, OnboardingAssumption DEF AccountsInv, Typed
    <3> QED BY <3>1, <3>2, AccountTyped
  <2> QED BY <2>3, <2>4, <2>5 DEF Backed
<1>2. AccountsInv /\ [AccountsNext]_accountVars =>
        [users[Stranger] = NoUser /\ users[Stranger]' # NoUser =>
           \E d \in Document :
             /\ docs[d].company = users'[Stranger].company
             /\ \/ docs[d].kind = "invite" /\ docs[d].role = users'[Stranger].role
                \/ docs[d].kind = "join" /\ users'[Stranger].role # "COMPANY_ADMIN"]_accountVars
  BY <1>1
<1> QED BY <1>2, AccountsInvariant, PTL DEF AccountsSpec, CompanyIsTheAdminsChoice
================================================================================
