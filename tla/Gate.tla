-------------------------------- MODULE Gate --------------------------------
(***************************************************************************)
(* The interceptors of api/grpc around every handler: who the caller is,   *)
(* which project it operates in and which permissions it has there is      *)
(* resolved once, in two reads, and every later check and the handler use  *)
(* that session, while roles are granted and revoked.                      *)
(*                                                                         *)
(* One call is followed at a time.  What other calls do to it is in the    *)
(* grants, the memberships and the recorded workflows they leave.          *)
(***************************************************************************)
EXTENDS Transport

CONSTANTS
  Traffic,      \* the calls clients make, see Call below
  Users,        \* users that exist
  OrgOf,        \* the organization of each project
  Control,      \* the projects that are control projects
  Grantable,    \* the assignments of roles that come and go, see Permissions
  MaxWorkflows  \* how many workflows are recorded, which bounds a run

SystemOrgName == "system"

Projects == DOMAIN OrgOf
Orgs == {OrgOf[p] : p \in Projects}

(* A call: the method, what its headers hold, and its body.  The bearer is *)
(* a user when the token is valid, whether or not that user exists.        *)
Call(m, bearer, project, key, via, body) ==
  [method |-> m, bearer |-> bearer, project |-> project, key |-> key,
   via |-> via, body |-> body]

BadBearers == {"absent", "no scheme", "invalid"}
BadProjects == {"absent", "not positive"}
BadKeys == {"not a UUID"}

ASSUME GateAssumption ==
  /\ Control \subseteq Projects /\ NoProject \notin Projects
  /\ MaxWorkflows \in Nat

(* A call has its six parts; the gateway's client makes unary calls only. *)
ASSUME TrafficAssumption ==
  \A c \in Traffic :
    /\ c = Call(c.method, c.bearer, c.project, c.key, c.via, c.body)
    /\ \/ c.method \in Methods /\ c.via \in {"grpc", "http", "http, prefixed headers"}
       \/ c.method \in Reflection /\ c.via = "grpc"

(* Below the scope of the system only custom roles are assigned, which are *)
(* refused every permission but those assignable to them.                  *)
ASSUME GrantableAssumption ==
  \A g \in Grantable :
    /\ g.permissions \subseteq AllPermissions
    /\ g.scope # SystemScope => g.permissions \subseteq PermissionsAssignableToCustomRoles

VARIABLES
  grants,     \* the assignments there are now
  members,    \* pairs of a user and an organization
  stage,      \* "idle", "auth", "permissions", "checks" or "handler"
  call,       \* the call as it arrived at the server
  asked,      \* the method its client meant
  session,    \* the AuthSession in its context
  workflows,  \* recorded workflows: [id, call, answer], and the call each ran for
  reply,      \* [code, cause, origin] of the last call
  entitled    \* history: at some moment since it arrived the caller held
              \* every permission the method requires, where it counts

gateVars == <<grants, members, stage, call, asked, session, workflows, reply, entitled>>

NoCall == Call("none", "absent", "absent", "absent", "grpc", Plain)
NoSession == [user |-> "", project |-> NoProject, orgName |-> "", isControl |-> FALSE,
              isOrgMember |-> FALSE, permissions |-> {}]
NoReply == [code |-> "none", cause |-> "none", origin |-> NoCall]
-----------------------------------------------------------------------------
(* The tables of server.go. *)
publicMethods ==
  {"RequestMagicLink", "VerifyMagicLink", "RefreshAccessToken", "RevokeRefreshToken"}

noProjectMethods == {"RevokeAllSessions", "ListProjects"} \cup UserService

orgScopedPermissions ==
  {"custom-role:create", "custom-role:update", "custom-role:delete",
   "custom-role:read-org-assignments", "custom-role:assign-org",
   "custom-role:unassign-org"}

systemControlProjectMethods == {"CreateOrganization"} \cup SystemRoleService

orgControlProjectMethods == {"CreateOrganizationUser", "ListOrganizationUsers"}

permissionRegistry ==
  [RevokeAllSessions |-> {}, GetAuthContext |-> {}, ListProjects |-> {},
   CreateOrganization |-> {"org:create"}, CreateOrganizationUser |-> {"org:user-create"},
   ListOrganizationUsers |-> {"org:user-read"},
   GetUser |-> {"user:read"}, ListUsers |-> {"user:read"}, CreateUser |-> {"user:create"},
   UpdateUser |-> {"user:update"},
   ListSystemRoles |-> {"system-role:read"}, AssignSystemRole |-> {"system-role:assign"},
   UnassignSystemRole |-> {"system-role:unassign"},
   ListSystemRoleAssignments |-> {"system-role:read"},
   CreateRole |-> {"custom-role:create"}, GetRole |-> {"custom-role:read"},
   ListRoles |-> {"custom-role:read"},
   ListProjectRoleAssignments |-> {"custom-role:read-project-assignments"},
   ListOrganizationRoleAssignments |-> {"custom-role:read-org-assignments"},
   UpdateRole |-> {"custom-role:update"}, ModifyRolePermissions |-> {"custom-role:update"},
   DeleteRole |-> {"custom-role:delete"},
   AssignRoleToProject |-> {"custom-role:assign-project"},
   UnassignRoleFromProject |-> {"custom-role:unassign-project"},
   AssignRoleToOrganization |-> {"custom-role:assign-org"},
   UnassignRoleFromOrganization |-> {"custom-role:unassign-org"},
   ListPermissions |-> {"custom-role:read"}]

Registered(m) == m \in DOMAIN permissionRegistry

methodRequiresOrganizationScope(m) ==
  Registered(m) /\ permissionRegistry[m] \cap orgScopedPermissions # {}
-----------------------------------------------------------------------------
(* The session. *)
(* The first refusal of the headers, or "" when there is none. *)
parseHeaders(c) ==
  IF c.bearer \in BadBearers THEN "Unauthenticated"
  ELSE IF c.method \notin noProjectMethods /\ c.project \in BadProjects
    THEN "InvalidArgument" ELSE ""

NeedsProject(c) == c.method \notin noProjectMethods

AuthSessionDataFound(c) ==
  c.bearer \in Users /\ (NeedsProject(c) => c.project \in Projects)

(* The identity, and the project with the caller's membership. *)
AuthSessionData(c) ==
  IF ~NeedsProject(c) THEN [NoSession EXCEPT !.user = c.bearer]
  ELSE [NoSession EXCEPT
          !.user = c.bearer, !.project = c.project, !.orgName = OrgOf[c.project],
          !.isControl = c.project \in Control,
          !.isOrgMember = <<c.bearer, OrgOf[c.project]>> \in members]

(* AuthSession and OrganizationAuthSession: the permissions of the scopes  *)
(* that count for the method.                                              *)
SessionPermissions(c) ==
  IF ~NeedsProject(c) THEN SystemPermissions(grants, c.bearer)
  ELSE IF methodRequiresOrganizationScope(c.method)
    THEN OrgPermissions(grants, c.bearer, OrgOf[c.project])
    ELSE ProjectPermissions(grants, c.bearer, c.project, OrgOf[c.project])

(* What api/grpc/README.md says of the scopes: a permission on the whole   *)
(* organization is not had through a project, one on the whole system only *)
(* through the system.                                                     *)
Holds(assignments, u, p, project) ==
  \E g \in assignments :
    /\ g.user = u /\ p \in g.permissions
    /\ \/ g.scope = SystemScope
       \/ /\ p \notin SystemOnlyPermissions /\ project \in Projects
          /\ \/ g.scope = OrganizationScope /\ g.place = OrgOf[project]
             \/ g.scope = ProjectScope /\ g.place = project /\ p \notin orgScopedPermissions

Entitled(assignments, c) ==
  /\ c.method \in Methods
  /\ \/ c.method \in publicMethods
     \/ \A p \in permissionRegistry[c.method] : Holds(assignments, c.bearer, p, c.project)
-----------------------------------------------------------------------------
(* The checks on the session, each "" when it lets the call through. *)
permissionInterceptor(m, s) ==
  IF m \in publicMethods THEN ""
  ELSE IF ~Registered(m) THEN "unregistered"
  ELSE IF permissionRegistry[m] \subseteq s.permissions THEN "" ELSE "PermissionDenied"

IsSystemControlProject(s) == s.orgName = SystemOrgName /\ s.isControl

(* Mutant: any control project will do. *)
requireAnyControlProject(m, s) ==
  IF m \notin systemControlProjectMethods THEN ""
  ELSE IF s.project = NoProject THEN "missing context"
  ELSE IF s.isControl /\ s.isOrgMember THEN "" ELSE "PermissionDenied"

requireSystemControlProject(m, s) ==
  IF m \notin systemControlProjectMethods THEN ""
  ELSE IF s.project = NoProject THEN "missing context"
  ELSE IF IsSystemControlProject(s) /\ s.isOrgMember THEN "" ELSE "PermissionDenied"

requireOrganizationControlProject(m, s) ==
  IF m \notin orgControlProjectMethods THEN ""
  ELSE IF s.project = NoProject THEN "missing context"
  ELSE IF s.isControl THEN "" ELSE "PermissionDenied"

idempotencyInterceptor(c) ==
  IF c.method \notin Reflection /\ c.key \in BadKeys THEN "InvalidArgument" ELSE ""

(* The chain, in its order; the first refusal is the answer. *)
Refusal(c, s) ==
  LET chain == <<permissionInterceptor(c.method, s),
                 requireSystemControlProject(c.method, s),
                 requireOrganizationControlProject(c.method, s),
                 idempotencyInterceptor(c)>>
      refused == {i \in DOMAIN chain : chain[i] # ""}
  IN IF refused = {} THEN "" ELSE chain[Min(refused)]

(* Mutant: the payload is not part of the workflow's identity. *)
scopedWorkflowIDWithoutPayload(c, s) == <<s.user, c.method, c.key>>

scopedWorkflowID(c, s) == <<s.user, c.method, c.body, c.key>>
-----------------------------------------------------------------------------
Codes ==
  {"OK", "InvalidArgument", "Unauthenticated", "PermissionDenied", "NotFound",
   "AlreadyExists", "Aborted", "FailedPrecondition"}

(* Mutant: an error that is no status is passed on. *)
errorInterceptorPassing(answer) ==
  IF answer \in {"rejected", "validation"} THEN "InvalidArgument" ELSE answer

(* The error interceptor: a validation error of the core is answered as    *)
(* the request's fault, a status passes, anything else is Internal.        *)
errorInterceptor(answer) ==
  CASE answer \in {"rejected", "validation"} -> "InvalidArgument"
    [] answer \in Codes -> answer
    [] OTHER -> "Internal"

Reply(answer, cause, origin) ==
  /\ reply' = [code |-> errorInterceptor(answer), cause |-> cause, origin |-> origin]
  /\ stage' = "idle"
  /\ session' = NoSession

Refuse(answer) ==
  /\ Reply(answer, answer, call)
  /\ UNCHANGED <<grants, members, call, asked, workflows, entitled>>

(* A call arrives, through the gateway's mux when it is an HTTP call. *)
Arrive(c) ==
  /\ stage = "idle"
  /\ reply = NoReply
  /\ \E m \in IF c.via = "grpc" THEN {c.method} ELSE Routed(c.method) :
       /\ call' = [Forwarded(c) EXCEPT !.method = m]
       /\ stage' = IF m \in publicMethods THEN "checks" ELSE "auth"
  /\ asked' = c.method
  /\ entitled' = Entitled(grants, call')
  /\ UNCHANGED <<grants, members, session, workflows, reply>>

(* The answer is on its way; the next call may arrive. *)
Forget ==
  /\ reply # NoReply
  /\ call' = NoCall /\ asked' = "none"
  /\ reply' = NoReply
  /\ entitled' = FALSE
  /\ UNCHANGED <<grants, members, stage, session, workflows>>

(* parseBearer and parseProjectID, then AuthSessionData. *)
Authenticate ==
  /\ stage = "auth"
  /\ parseHeaders(call) = ""
  /\ AuthSessionDataFound(call)
  /\ session' = AuthSessionData(call)
  /\ stage' = "permissions"
  /\ UNCHANGED <<grants, members, call, asked, workflows, reply, entitled>>

RejectHeaders ==
  /\ stage = "auth"
  /\ parseHeaders(call) # ""
  /\ Refuse(parseHeaders(call))

(* An unknown user or project, also one that a valid token still names. *)
RejectCaller ==
  /\ stage = "auth"
  /\ parseHeaders(call) = ""
  /\ ~AuthSessionDataFound(call)
  /\ Refuse("Unauthenticated")

(* The second read of AuthSession. *)
ResolvePermissions ==
  /\ stage = "permissions"
  /\ session' = [session EXCEPT !.permissions = SessionPermissions(call)]
  /\ stage' = "checks"
  /\ UNCHANGED <<grants, members, call, asked, workflows, reply, entitled>>

(* Either read of the session fails. *)
FailSession ==
  /\ stage = "permissions"
  /\ Refuse("failure")

(* The interceptors after authentication, none of which reads again. *)
Admit ==
  /\ stage = "checks"
  /\ Refusal(call, session) = ""
  /\ stage' = "handler"
  /\ UNCHANGED <<grants, members, call, asked, session, workflows, reply, entitled>>

Deny ==
  /\ stage = "checks"
  /\ Refusal(call, session) # ""
  /\ Refuse(Refusal(call, session))

(* What an answer is due to: the handler's own rejection or the core's e. *)
Cause(answer, e) == IF answer \in {"rejected", "missing conversion"} THEN answer ELSE e

(* A handler and its core operation.  A panic is one of its failures. *)
Handle ==
  /\ stage = "handler"
  /\ call.method # "RequestMagicLink" \/ validRequestMagicLink(call.body) # {}
  /\ \E e \in Returns(call.method, session, call.body) :
       LET answer == Serve(call.method, call.body, e)
       IN Reply(answer, Cause(answer, e), call)
  /\ UNCHANGED <<grants, members, call, asked, workflows, entitled>>

Recorded(id) == {w \in workflows : w.id = id}

(* RequestMagicLink runs a workflow, under the id in the context or under  *)
(* one of its own; RunWorkflow of an id that is recorded returns what that *)
(* workflow returned.                                                      *)
HandleWorkflow ==
  /\ stage = "handler"
  /\ call.method = "RequestMagicLink"
  /\ validRequestMagicLink(call.body) = {}
  /\ LET id == scopedWorkflowID(call, session)
     IN \/ /\ call.key # "absent" /\ Recorded(id) # {}
           /\ \E w \in Recorded(id) : Reply(w.answer, w.answer, w.call)
           /\ UNCHANGED workflows
        \/ \E e \in Returns(call.method, session, call.body) :
             LET answer == Serve(call.method, call.body, e)
             IN /\ Reply(answer, answer, call)
                /\ \/ call.key = "absent" /\ UNCHANGED workflows
                   \/ /\ call.key # "absent" /\ Recorded(id) = {}
                      /\ Cardinality(workflows) < MaxWorkflows
                      /\ workflows' = workflows
                           \cup {[id |-> id, call |-> call, answer |-> answer]}
  /\ UNCHANGED <<grants, members, call, asked, entitled>>
-----------------------------------------------------------------------------
(* Meanwhile. *)
Grant(g) ==
  /\ g \notin grants
  /\ grants' = grants \cup {g}
  /\ entitled' = (entitled \/ Entitled(grants', call))
  /\ UNCHANGED <<members, stage, call, asked, session, workflows, reply>>

Revoke(g) ==
  /\ g \in grants
  /\ grants' = grants \ {g}
  /\ UNCHANGED <<members, stage, call, asked, session, workflows, reply, entitled>>

(* A user joins an organization; nothing removes a member. *)
Join(u, o) ==
  /\ <<u, o>> \notin members
  /\ members' = members \cup {<<u, o>>}
  /\ UNCHANGED <<grants, stage, call, asked, session, workflows, reply, entitled>>

GateInit ==
  /\ grants \in SUBSET Grantable
  /\ members = {}
  /\ stage = "idle"
  /\ call = NoCall /\ asked = "none"
  /\ session = NoSession
  /\ workflows = {}
  /\ reply = NoReply
  /\ entitled = FALSE

GateNext ==
  \/ \E c \in Traffic : Arrive(c)
  \/ Authenticate \/ RejectHeaders \/ RejectCaller
  \/ ResolvePermissions \/ FailSession
  \/ Admit \/ Deny \/ Handle \/ HandleWorkflow \/ Forget
  \/ \E g \in Grantable : Grant(g) \/ Revoke(g)
  \/ \E u \in Users, o \in Orgs : Join(u, o)

GateSpec == GateInit /\ [][GateNext]_gateVars
-----------------------------------------------------------------------------
GateTypeOK ==
  /\ grants \subseteq Grantable
  /\ members \subseteq Users \X Orgs
  /\ stage \in {"idle", "auth", "permissions", "checks", "handler"}
  /\ asked \in Methods \cup Reflection \cup {"none"}
  /\ session.user \in Users \cup {""}
  /\ session.permissions \subseteq AllPermissions
  /\ Cardinality(workflows) <= MaxWorkflows
  /\ reply.code \in Codes \cup {"Internal", "none"}
  /\ entitled \in BOOLEAN
  /\ stage = "handler" => reply = NoReply

(* A protected handler runs for a user who, at some moment since the call  *)
(* arrived, held every permission the method requires at a scope that      *)
(* counts; the methods of the control projects run through one, those of   *)
(* the system organization's for a member of it (server.go:73-96).         *)
HandlersAreAuthorized ==
  stage = "handler" /\ call.method \notin publicMethods =>
    /\ entitled
    /\ session.user = call.bearer
    /\ call.method \in systemControlProjectMethods =>
         /\ call.project \in Control /\ OrgOf[call.project] = SystemOrgName
         /\ <<call.bearer, SystemOrgName>> \in members
    /\ call.method \in orgControlProjectMethods => call.project \in Control

(* Whatever the core reports by name reaches the client as a status of its *)
(* own; "Internal" is left to failures without a name, to reflection, for  *)
(* which no permission is registered, and to an UpdateRole that carries a  *)
(* permission nobody knows outside its mask (custom_role.go:264-303).      *)
FailuresAreNamed ==
  reply.code = "Internal" =>
    \/ reply.cause = "failure"
    \/ reply.cause = "unregistered" /\ asked \in Reflection
    \/ /\ reply.cause = "missing conversion"
       /\ asked = "UpdateRole" /\ "permissions" \notin call.body.mask

(* The core rejects nothing that the endpoint accepted ("the two layers    *)
(* have drifted apart", README.md of api/grpc), but for the all-zero etag, *)
(* which only the core refuses.                                            *)
LayersAgree == reply.cause = "validation" => call.body.etag = "nil"

(* A call is answered by the method its client meant, over HTTP as over    *)
(* gRPC, and with what that method returned to it or to an earlier call of *)
(* the same key and the same request (unary_interceptors.go:57-64).        *)
RepliesAreOwn ==
  reply # NoReply =>
    /\ call.method = asked
    /\ reply.origin = call
       \/ /\ reply.origin.method = call.method
          /\ reply.origin.key = call.key
          /\ reply.origin.body = call.body
=============================================================================
