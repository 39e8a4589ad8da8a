------------------------------- MODULE Access -------------------------------
(***************************************************************************)
(* Who is asking and what they may do: accounts found, linked or created   *)
(* at a single sign-on, requests that authenticate and then ask for a      *)
(* role, and the rules of AuthorizationService.  Roles are in the token    *)
(* and in the row of the account, which may change while a request is      *)
(* being authenticated.  What a session is made of is in Sessions.         *)
(***************************************************************************)
EXTENDS VersionLifecycle, FiniteSets

CONSTANTS
  People,      \* mail addresses, unique in the table
  Identities,  \* ids that identity providers give, unique in the table
  PersonOf,    \* PersonOf[i] : whose identity i is
  Accounts,    \* rows of users
  RoleSets,    \* the sets of roles accounts are given
  Visits,      \* requests under way at once
  MaxRoleEdits,\* bound: role changes and deactivations
  NoAccount

ASSUME AccessAssumption ==
  /\ PersonOf \in [Identities -> People] /\ Identities # {}
  /\ "none" \notin Identities
  /\ NoAccount \notin [email : People, sso : Identities \cup {"none"}, roles : RoleSets,
                       active : BOOLEAN]
  /\ MaxRoleEdits \in Nat

VARIABLES
  users,      \* users[a]   : the row of account a, or NoAccount
  signedIn,   \* signedIn   : accounts that have a live session
  visit,      \* visit[v]   : the request and what it knows
  roleEdits   \* roleEdits  : changes so far

accessVars == <<users, signedIn, visit, roleEdits>>

UserRole == {"Model_Owner", "MRC", "Security_Architect", "SRE", "Auditor", "Admin"}

Away == [at |-> "away", identity |-> CHOOSE i \in Identities : TRUE,
         account |-> NoAccount, roles |-> {}, held |-> {},
         active |-> FALSE, route |-> "none", reply |-> 0]

AccessInit ==
  /\ users = [a \in Accounts |-> NoAccount]
  /\ signedIn = {}
  /\ visit = [v \in Visits |-> Away]
  /\ roleEdits = 0

Existing == {a \in Accounts : users[a] # NoAccount}
BySsoId(i) == {a \in Existing : users[a].sso = i}
ByEmail(p) == {a \in Existing : users[a].email = p}

VisitAt(v, at) == visit[v].at = at
Answers(v, code) == visit' = [visit EXCEPT ![v] = [Away EXCEPT !.reply = code]]

-----------------------------------------------------------------------------
(* The callbacks of the two strategies: the profile becomes an identity *)
ConfigureStrategy(v, i) ==
  /\ VisitAt(v, "away")
  /\ visit' = [visit EXCEPT ![v] = [Away EXCEPT !.at = "by sso", !.identity = i]]
  /\ UNCHANGED <<users, signedIn, roleEdits>>

(* findOrCreateUser: a query by the id, one by the address, then an UPDATE *)
(* that links the account or an INSERT; the constraints of the table may   *)
(* refuse either, and any of the statements may fail.  Who is found by the *)
(* id has the last login written, which may fail too.                      *)
SignOnFails(v) == Answers(v, 500) /\ UNCHANGED users

FindBySsoId(v) ==
  LET i == visit[v].identity
  IN  /\ VisitAt(v, "by sso")
      /\ \/ SignOnFails(v)
         \/ /\ BySsoId(i) = {}
            /\ visit' = [visit EXCEPT ![v].at = "by email"]
         \/ \E a \in BySsoId(i) :
              visit' = [visit EXCEPT ![v].at = "login", ![v].account = a,
                                     ![v].roles = users[a].roles]
      /\ UNCHANGED <<users, signedIn, roleEdits>>

FindByEmail(v) ==
  LET p == PersonOf[visit[v].identity]
  IN  /\ VisitAt(v, "by email")
      /\ \/ SignOnFails(v)
         \/ /\ ByEmail(p) = {}
            /\ visit' = [visit EXCEPT ![v].at = "create"]
         \/ \E a \in ByEmail(p) :
              visit' = [visit EXCEPT ![v].at = "link", ![v].account = a,
                                     ![v].roles = users[a].roles]
      /\ UNCHANGED <<users, signedIn, roleEdits>>

LinkSsoId(v) ==
  LET a == visit[v].account
      i == visit[v].identity
  IN  /\ VisitAt(v, "link")
      /\ \/ SignOnFails(v)
         \/ /\ BySsoId(i) \subseteq {a}
            /\ users' = [users EXCEPT ![a].sso = i]
            /\ visit' = [visit EXCEPT ![v].at = "login"]
      /\ UNCHANGED <<signedIn, roleEdits>>

(* mapSSORolesToUserRoles: never empty *)
MapSSORolesToUserRoles == {roles \in RoleSets : roles # {}}

Row(email, sso, roles) == [email |-> email, sso |-> sso, roles |-> roles, active |-> TRUE]

(* mutant: the account of whoever came first is updated *)
UpsertUser(v) ==
  LET i == visit[v].identity
  IN  /\ VisitAt(v, "create")
      /\ \E a \in Accounts, roles \in MapSSORolesToUserRoles :
           /\ users' = [users EXCEPT ![a] = Row(PersonOf[i], i, roles)]
           /\ visit' = [visit EXCEPT ![v].at = "login", ![v].account = a, ![v].roles = roles]
      /\ UNCHANGED <<signedIn, roleEdits>>

FindOrCreateUser(v) ==
  LET i == visit[v].identity
  IN  /\ VisitAt(v, "create")
      /\ \/ SignOnFails(v)
         \/ /\ ByEmail(PersonOf[i]) = {} /\ BySsoId(i) = {}
            /\ \E a \in Accounts \ Existing, roles \in MapSSORolesToUserRoles :
                 /\ users' = [users EXCEPT ![a] = Row(PersonOf[i], i, roles)]
                 /\ visit' = [visit EXCEPT ![v].at = "login", ![v].account = a, ![v].roles = roles]
      /\ UNCHANGED <<signedIn, roleEdits>>

(* GET /callback/oidc, POST /callback/saml: authService.login, also for an *)
(* account that is inactive                                                *)
CompleteLogin(v) ==
  /\ VisitAt(v, "login")
  /\ \/ signedIn' = signedIn \cup {visit[v].account} /\ Answers(v, 200)
     \/ UNCHANGED signedIn /\ Answers(v, 500)
  /\ UNCHANGED <<users, roleEdits>>
CallbackOidc(v) == CompleteLogin(v)
CallbackSaml(v) == CompleteLogin(v)

-----------------------------------------------------------------------------
(* A request with a token of account a, whose roles the token repeats. *)
BeginVisit(v, a) ==
  /\ VisitAt(v, "away")
  /\ a \in Existing
  /\ \E roles \in RoleSets :
       visit' = [visit EXCEPT ![v] =
         [Away EXCEPT !.at = "validate", !.account = a, !.roles = roles,
                      !.held = users[a].roles, !.active = users[a].active]]
  /\ UNCHANGED <<users, signedIn, roleEdits>>

(* authenticate, up to validateToken: a live session of an active account *)
Validate(v) ==
  LET a == visit[v].account
  IN  /\ VisitAt(v, "validate")
      /\ IF a \in signedIn /\ users[a].active
           THEN visit' = [visit EXCEPT ![v].at = "user"]
           ELSE Answers(v, 401)
      /\ UNCHANGED <<users, signedIn, roleEdits>>

(* mutant: the roles of the token are those of the request *)
AuthenticateByToken(v) ==
  /\ VisitAt(v, "user")
  /\ visit' = [visit EXCEPT ![v].at = "handle"]
  /\ UNCHANGED <<users, signedIn, roleEdits>>

(* and from getUserById on: the row is read again, whether active or not *)
Authenticate(v) ==
  /\ VisitAt(v, "user")
  /\ visit' = [visit EXCEPT ![v].at = "handle", ![v].roles = users[visit[v].account].roles]
  /\ UNCHANGED <<users, signedIn, roleEdits>>

RequireRoles(v, roles) == visit[v].roles \cap roles # {}

(* what a route asks for, once the request is authenticated *)
Required(route) ==
  CASE route = "users" -> {"Admin"}                                     \* requireAdmin
    [] route = "dashboard" -> {"MRC", "Security_Architect", "Admin"}    \* requireAnyRole
    [] OTHER -> UserRole

(* the request gets past the checks of its route, or not *)
Handle(v, route) ==
  /\ VisitAt(v, "handle")
  /\ visit' = [visit EXCEPT ![v] =
       [Away EXCEPT !.route = route,
                    !.reply = IF RequireRoles(v, Required(route)) THEN 200 ELSE 403]]

(* /me, /permissions, /refresh, /admin/users and /governance/dashboard     *)
(* change no account                                                       *)
GetProfile(v) == Handle(v, "me") /\ UNCHANGED <<users, signedIn, roleEdits>>
GetAdminUsers(v) == Handle(v, "users") /\ UNCHANGED <<users, signedIn, roleEdits>>
GetDashboard(v) == Handle(v, "dashboard") /\ UNCHANGED <<users, signedIn, roleEdits>>

(* POST /logout; POST /logout/all: other sessions of the account may       *)
(* outlive the first                                                       *)
PostLogout(v) ==
  /\ Handle(v, "logout")
  /\ signedIn' \in {signedIn, signedIn \ {visit[v].account}}
  /\ UNCHANGED <<users, roleEdits>>
PostLogoutAll(v) ==
  /\ Handle(v, "logout all")
  /\ signedIn' = signedIn \ {visit[v].account}
  /\ UNCHANGED <<users, roleEdits>>

-----------------------------------------------------------------------------
(* what requests under way have seen of an account since they began *)
Witness(a, roles) ==
  [v \in Visits |-> IF visit[v].account = a THEN [visit[v] EXCEPT !.held = @ \cup roles]
                                            ELSE visit[v]]

UpdateUserRoles(a, roles) ==
  /\ a \in Existing /\ roles # {}
  /\ roleEdits < MaxRoleEdits
  /\ roleEdits' = roleEdits + 1
  /\ users' = [users EXCEPT ![a].roles = roles]
  /\ visit' = Witness(a, roles)
  /\ UNCHANGED signedIn

(* deactivateUser: the row, then the sessions, which may fail *)
DeactivateUser(a) ==
  /\ a \in Existing
  /\ roleEdits < MaxRoleEdits
  /\ roleEdits' = roleEdits + 1
  /\ users' = [users EXCEPT ![a].active = FALSE]
  /\ UNCHANGED <<signedIn, visit>>
InvalidateSessions(a) ==
  /\ a \in signedIn /\ ~users[a].active
  /\ signedIn' = signedIn \ {a}
  /\ UNCHANGED <<users, visit, roleEdits>>

(* createUser: refused when the address is taken, or the id there may be *)
CreateUser(p, roles, sso) ==
  /\ ByEmail(p) = {} /\ roles # {}
  /\ sso = "none" \/ BySsoId(sso) = {}
  /\ \E a \in Accounts \ Existing : users' = [users EXCEPT ![a] = Row(p, sso, roles)]
  /\ UNCHANGED <<signedIn, visit, roleEdits>>

Visiting(v) ==
  \/ /\ VisitAt(v, "away")
     /\ \/ \E i \in Identities : ConfigureStrategy(v, i)
        \/ \E a \in Accounts : BeginVisit(v, a)
  \/ FindBySsoId(v) \/ FindByEmail(v) \/ LinkSsoId(v) \/ FindOrCreateUser(v)
  \/ CallbackOidc(v) \/ CallbackSaml(v)
  \/ Validate(v) \/ Authenticate(v)
  \/ GetProfile(v) \/ GetAdminUsers(v) \/ GetDashboard(v) \/ PostLogout(v) \/ PostLogoutAll(v)

(* nothing calls createUser: an administrator's row has no id *)
AccessNext ==
  \/ \E v \in Visits : Visiting(v)
  \/ \E a \in Accounts :
       \/ \E roles \in RoleSets : UpdateUserRoles(a, roles)
       \/ DeactivateUser(a) \/ InvalidateSessions(a)
  \/ \E p \in People, roles \in RoleSets : CreateUser(p, roles, "none")

AccessSpec == AccessInit /\ [][AccessNext]_accessVars

-----------------------------------------------------------------------------
(* AuthorizationService: what a user with these roles may do with a model  *)
(* they own or not, and with one of its versions.                          *)
CanCreateModel(roles) == roles \cap {"Model_Owner", "Admin"} # {}
CanViewModel(roles, owns) ==
  \/ roles \cap {"Admin", "Auditor", "MRC", "Security_Architect", "SRE"} # {}
  \/ "Model_Owner" \in roles /\ owns
CanEditModel(roles, owns) == "Admin" \in roles \/ ("Model_Owner" \in roles /\ owns)
CanDeleteModel(roles, owns) == CanEditModel(roles, owns)
CanRunEvaluations(roles, owns) ==
  \/ "Model_Owner" \in roles /\ owns
  \/ roles \cap {"MRC", "Security_Architect", "Admin"} # {}
CanEditVersion(roles, owns, at) == CanEditModel(roles, owns) /\ at \in {"draft", "changes_requested"}
CanSubmitVersion(roles, owns, at) == CanEditModel(roles, owns) /\ at \in {"draft", "changes_requested"}
CanApproveForStaging(roles, at) == roles \cap {"MRC", "Admin"} # {} /\ at = "submitted"
(* mutant: for production as long as the review is not over *)
CanApproveEarly(roles, at) ==
  /\ roles \cap {"MRC", "Security_Architect", "Admin"} # {}
  /\ at \in {"submitted", "approved_staging", "staging"}
CanApproveForProduction(roles, at) ==
  /\ roles \cap {"MRC", "Security_Architect", "Admin"} # {}
  /\ at \in {"approved_staging", "staging"}
CanRejectVersion(roles, at) ==
  /\ roles \cap {"MRC", "Security_Architect", "Admin"} # {}
  /\ at \in {"submitted", "approved_staging", "staging"}
CanDeployVersion(roles, at) == roles \cap {"SRE", "Admin"} # {} /\ at = "approved_prod"
CanRollbackDeployment(roles) == roles \cap {"SRE", "Admin"} # {}
CanViewAuditLogs(roles, entity) ==
  \/ roles \cap {"Auditor", "Admin", "MRC", "Security_Architect"} # {}
  \/ "Model_Owner" \in roles /\ entity
CanManageUsers(roles) == "Admin" \in roles
CanManagePolicies(roles) == roles \cap {"Security_Architect", "Admin"} # {}

GetAllowedModelActions(roles, owns) ==
  {action \in {"view", "edit", "delete", "create_version", "run_evaluations"} :
     CASE action = "view" -> CanViewModel(roles, owns)
       [] action = "edit" -> CanEditModel(roles, owns)
       [] action = "delete" -> CanDeleteModel(roles, owns)
       [] action = "create_version" -> CanEditModel(roles, owns)
       [] action = "run_evaluations" -> CanRunEvaluations(roles, owns)}

GetAllowedVersionActions(roles, owns, at) ==
  {action \in {"view", "edit", "submit", "approve_staging", "approve_production", "reject", "deploy"} :
     CASE action = "view" -> CanViewModel(roles, owns)
       [] action = "edit" -> CanEditVersion(roles, owns, at)
       [] action = "submit" -> CanSubmitVersion(roles, owns, at)
       [] action = "approve_staging" -> CanApproveForStaging(roles, at)
       [] action = "approve_production" -> CanApproveForProduction(roles, at)
       [] action = "reject" -> CanRejectVersion(roles, at)
       [] action = "deploy" -> CanDeployVersion(roles, at)}

(* GET /permissions *)
GetPermissions(v, resource) ==
  LET roles == visit[v].roles
  IN CASE resource = "models" ->
            <<CanCreateModel(roles), CanManagePolicies(roles), CanViewAuditLogs(roles, FALSE)>>
       [] resource = "users" -> <<CanManageUsers(roles)>>
       [] resource = "deployments" -> <<CanRollbackDeployment(roles)>>

-----------------------------------------------------------------------------
(* A request that a route lets through was made for an account that had    *)
(* one of the roles it asks for, and was active, at some moment since the  *)
(* request began: whatever its token says, and whatever is changed while   *)
(* it is authenticated (authenticate reads the row again).                 *)
RightsAreCurrent ==
  [][\A v \in Visits :
       VisitAt(v, "handle") /\ visit'[v].reply = 200 =>
         visit[v].active /\ visit[v].held \cap Required(visit'[v].route) # {}]_accessVars

(* However many sign-ons of a person overlap, through whichever provider,  *)
(* one that completes is for the account with the person's address, and    *)
(* there is one such account (findOrCreateUser).                           *)
LoginIsOwn ==
  \A v \in Visits :
    VisitAt(v, "login") => ByEmail(PersonOf[visit[v].identity]) = {visit[v].account}

(* In every state a version reaches, what users are offered to do with it, *)
(* whatever their roles, against what the trigger of the database accepts. *)
(* Only approved_staging has offers the trigger refuses: the approval for  *)
(* production and the rejection, which AuthorizationService offers there   *)
(* and its test expects.  And what the trigger accepts is offered to       *)
(* somebody, except the moves to staging, deprecated and retired: no right *)
(* leads past approved_staging, nor out of production.                     *)
MoveOf(action) ==
  CASE action = "submit" -> "submitted"
    [] action = "approve_staging" -> "approved_staging"
    [] action = "approve_production" -> "approved_prod"
    [] action = "reject" -> "changes_requested"
    [] action = "deploy" -> "production"
Decisions == {"submit", "approve_staging", "approve_production", "reject", "deploy"}
Offered(at) ==
  {MoveOf(action) : action \in
     Decisions \cap
       UNION {GetAllowedVersionActions(roles, owns, at) :
                roles \in SUBSET UserRole, owns \in BOOLEAN}}
Accepted(at) == {to \in VersionState : <<at, to>> \in ValidTransitions}
OffersFollowLifecycle ==
  \A v \in Versions :
    LET at == state[v]
    IN  at # Absent =>
          /\ Offered(at) \ Accepted(at) =
               IF at = "approved_staging" THEN {"approved_prod", "changes_requested"} ELSE {}
          /\ Accepted(at) \ Offered(at) = Accepted(at) \cap {"staging", "deprecated", "retired"}
=============================================================================
