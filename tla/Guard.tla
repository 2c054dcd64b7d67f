---------------------------------- MODULE Guard ----------------------------------
(***************************************************************************)
(* Who may do what: the role matrix (shared/roles.schema.ts), the          *)
(* permission service and the guard in front of every route                *)
(* (identity/rbac/permissions.ts, guards.ts) on the claims of an access    *)
(* token (identity/auth/jwt.ts).                                           *)
(*                                                                         *)
(* Pure operators.  A route is the record of its decorators: the module it *)
(* needs, the roles it admits, the permission it needs and the list of     *)
(* which it needs one.  A signature or an expiry that fails is an unknown  *)
(* token here: the modules that use this one keep the set of tokens that   *)
(* verify.                                                                 *)
(***************************************************************************)
EXTENDS FiniteSets

CONSTANT NoCompany  \* the companyId null of the platform's own staff

Role == {"SUPER_ADMIN", "COMPANY_ADMIN", "DISPATCHER", "DRIVER", "RECEIVER"}

CROSS_TENANT_ROLES == {"SUPER_ADMIN"}

PlatformPermissions ==
  {"COMPANY_CREATE", "COMPANY_MANAGE_ALL", "SUBSCRIPTION_MANAGE", "MODULE_TOGGLE",
   "PLATFORM_ANALYTICS_VIEW"}

DispatcherPermissions ==
  {"FLEET_READ", "TRIP_CREATE", "TRIP_ASSIGN", "TRIP_CANCEL", "TRIP_READ_ALL",
   "TRACKING_VIEW", "REPORTS_VIEW", "DOCUMENT_GENERATE", "DOCUMENT_READ", "MANIFEST_CREATE"}

\* The matrix.  An admin holds what a dispatcher holds, and the staff and the money.
ROLE_PERMISSIONS ==
  [ SUPER_ADMIN   |-> PlatformPermissions \cup {"BILLING_VIEW"},
    COMPANY_ADMIN |-> DispatcherPermissions \cup
      {"STAFF_INVITE", "STAFF_REMOVE", "FLEET_WRITE", "COMPANY_SETTINGS", "BILLING_VIEW",
       "REPORTS_EXPORT", "PAYMENT_COLLECT", "PAYMENT_READ", "FORK_ALERTS_VIEW",
       "CLAIMS_PACKET_BUILD", "REPUTATION_VIEW"},
    DISPATCHER    |-> DispatcherPermissions,
    DRIVER        |-> {"TRIP_ACCEPT", "TRIP_READ_OWN", "CUSTODY_SIGN", "DELIVERY_MARK",
                       "DOCUMENT_READ"},
    RECEIVER      |-> {"SCAN_SUBMIT", "DELIVERY_CONFIRM", "POD_SIGN", "SHORTAGE_REPORT"} ]

Permission == UNION {ROLE_PERMISSIONS[role] : role \in Role}

roleHas(role, permission) == permission \in ROLE_PERMISSIONS[role]

\* PermissionService: can and assert, hasModule and assertModule.
Can(actor, permission) == roleHas(actor.role, permission)
HasModules(actor, modules) == modules \subseteq actor.modules

\* The tenant boundary: assertSameCompany.
SameCompany(actor, company) ==
  actor.role \in CROSS_TENANT_ROLES \/ actor.company = company

\* verifyAccessToken, past the signature and the expiry.
Scoped(claims) == claims.company # NoCompany \/ claims.role = "SUPER_ADMIN"

\* The guard's answer, in the order of canActivate: the subscription, the
\* roles, the permission, one of several.
canActivate(claims, route) ==
  IF ~Scoped(claims) THEN "UNAUTHORIZED"
  ELSE IF ~HasModules(claims, route.modules) THEN "PAYMENT_REQUIRED"
  ELSE IF /\ route.roles # {} => claims.role \in route.roles
          /\ \A p \in route.permission : Can(claims, p)
          /\ route.anyOf # {} => \E p \in route.anyOf : Can(claims, p)
       THEN "ALLOWED"
       ELSE "FORBIDDEN"

\* A route that carries one permission and nothing else.
Needing(permission) ==
  [modules |-> {}, roles |-> {}, permission |-> {permission}, anyOf |-> {}]
================================================================================
