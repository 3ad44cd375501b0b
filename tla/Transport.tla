----------------------------- MODULE Transport -----------------------------
(***************************************************************************)
(* How a call reaches a handler: the services registered with the gRPC     *)
(* server, generated from schemas/*.proto, and the HTTP gateway in front   *)
(* of it, a gRPC client of its own.  The generated code is modelled for    *)
(* what it decides: which handler serves a method, which route a method    *)
(* has, and where the fields of its request come from.                     *)
(***************************************************************************)
EXTENDS Handlers, Sequences, TLC

AuthService ==
  {"RequestMagicLink", "VerifyMagicLink", "RefreshAccessToken", "RevokeRefreshToken",
   "RevokeAllSessions", "GetAuthContext"}

OrgService == {"CreateOrganization", "CreateOrganizationUser", "ListOrganizationUsers"}

PermissionService == {"ListPermissions"}

ProjectService == {"ListProjects"}

RoleService ==
  {"CreateRole", "GetRole", "ListRoles", "ListProjectRoleAssignments",
   "ListOrganizationRoleAssignments", "UpdateRole", "ModifyRolePermissions",
   "DeleteRole", "AssignRoleToProject", "UnassignRoleFromProject",
   "AssignRoleToOrganization", "UnassignRoleFromOrganization"}

SystemRoleService ==
  {"ListSystemRoles", "AssignSystemRole", "UnassignSystemRole", "ListSystemRoleAssignments"}

UserService == {"GetUser", "ListUsers", "CreateUser", "UpdateUser"}

\* The only stream, when reflection is enabled.
Reflection == {"ServerReflectionInfo"}

Methods ==
  AuthService \cup OrgService \cup PermissionService \cup ProjectService
    \cup RoleService \cup SystemRoleService \cup UserService
-----------------------------------------------------------------------------
(* Which handler serves a method of a service. *)
AuthServer(b, e) ==
  [RequestMagicLink |-> RequestMagicLink(b, e), VerifyMagicLink |-> VerifyMagicLink(b, e),
   RefreshAccessToken |-> RefreshAccessToken(b, e),
   RevokeRefreshToken |-> RevokeRefreshToken(b, e),
   RevokeAllSessions |-> RevokeAllSessions(b, e), GetAuthContext |-> GetAuthContext(b, e)]

OrgServer(b, e) ==
  [CreateOrganization |-> CreateOrganization(b, e),
   CreateOrganizationUser |-> CreateOrganizationUser(b, e),
   ListOrganizationUsers |-> ListOrganizationUsers(b, e)]

PermissionServer(b, e) == [ListPermissions |-> ListPermissions(b, e)]

ProjectServer(b, e) == [ListProjects |-> ListProjects(b, e)]

RoleServer(b, e) ==
  [CreateRole |-> CreateRole(b, e), GetRole |-> GetRole(b, e), ListRoles |-> ListRoles(b, e),
   ListProjectRoleAssignments |-> ListProjectRoleAssignments(b, e),
   ListOrganizationRoleAssignments |-> ListOrganizationRoleAssignments(b, e),
   UpdateRole |-> UpdateRole(b, e), ModifyRolePermissions |-> ModifyRolePermissions(b, e),
   DeleteRole |-> DeleteRole(b, e), AssignRoleToProject |-> AssignRoleToProject(b, e),
   UnassignRoleFromProject |-> UnassignRoleFromProject(b, e),
   AssignRoleToOrganization |-> AssignRoleToOrganization(b, e),
   UnassignRoleFromOrganization |-> UnassignRoleFromOrganization(b, e)]

SystemRoleServer(b, e) ==
  [ListSystemRoles |-> ListSystemRoles(b, e), AssignSystemRole |-> AssignSystemRole(b, e),
   UnassignSystemRole |-> UnassignSystemRole(b, e),
   ListSystemRoleAssignments |-> ListSystemRoleAssignments(b, e)]

UserServer(b, e) ==
  [GetUser |-> GetUser(b, e), ListUsers |-> ListUsers(b, e), CreateUser |-> CreateUser(b, e),
   UpdateUser |-> UpdateUser(b, e)]

Serve(m, b, e) ==
  CASE m \in AuthService -> AuthServer(b, e)[m]
    [] m \in OrgService -> OrgServer(b, e)[m]
    [] m \in PermissionService -> PermissionServer(b, e)[m]
    [] m \in ProjectService -> ProjectServer(b, e)[m]
    [] m \in RoleService -> RoleServer(b, e)[m]
    [] m \in SystemRoleService -> SystemRoleServer(b, e)[m]
    [] m \in UserService -> UserServer(b, e)[m]
-----------------------------------------------------------------------------
(* What a handler's core operation may return. *)
AuthCore(s) ==
  [RequestMagicLink |-> MayReturn({}), VerifyMagicLink |-> TokenOperation,
   RefreshAccessToken |-> TokenOperation, RevokeRefreshToken |-> TokenOperation,
   RevokeAllSessions |-> MayReturn({}), GetAuthContext |-> AuthContext(s)]

OrganizationCore(s, b) ==
  [CreateOrganization |-> CoreCreateOrganization(b),
   CreateOrganizationUser |-> CoreCreateOrganizationUser(s, b),
   ListOrganizationUsers |-> OrganizationUsers(s)]

CustomRoleCore(s, b) ==
  [CreateRole |-> CreateCustomRole(s, b), GetRole |-> CustomRoleByID(s),
   ListRoles |-> CustomRoles(s), ListProjectRoleAssignments |-> UserProjectCustomRoles(s),
   ListOrganizationRoleAssignments |-> UserOrgCustomRoles(s),
   UpdateRole |-> UpdateCustomRole(s, b),
   ModifyRolePermissions |-> CoreModifyRolePermissions(s, b),
   DeleteRole |-> DeleteCustomRole(s), AssignRoleToProject |-> AssignCustomRoleToProject(s),
   UnassignRoleFromProject |-> UnassignCustomRoleFromProject(s),
   AssignRoleToOrganization |-> AssignCustomRoleToOrg(s),
   UnassignRoleFromOrganization |-> UnassignCustomRoleFromOrg(s)]

SystemRoleCore ==
  [ListSystemRoles |-> SystemRoles, AssignSystemRole |-> CoreAssignSystemRole,
   UnassignSystemRole |-> CoreUnassignSystemRole,
   ListSystemRoleAssignments |-> UserSystemRoles]

UserCore(b) ==
  [GetUser |-> UserByID, ListUsers |-> CoreUsers, CreateUser |-> CoreCreateUser(b),
   UpdateUser |-> CoreUpdateUser(b)]

Returns(m, s, b) ==
  CASE m \in AuthService -> AuthCore(s)[m]
    [] m \in OrgService -> OrganizationCore(s, b)[m]
    [] m \in PermissionService -> {"none"}
    [] m \in ProjectService -> AccessibleProjects
    [] m \in RoleService -> CustomRoleCore(s, b)[m]
    [] m \in SystemRoleService -> SystemRoleCore[m]
    [] m \in UserService -> UserCore(b)[m]
-----------------------------------------------------------------------------
(* The gateway's routes, all below /v1: the verb, the path, in which "*"   *)
(* stands for a parameter, and the custom verb after its colon.            *)
Route(verb, path, custom) == [verb |-> verb, path |-> path, custom |-> custom]

AuthRoutes ==
  [RequestMagicLink |-> Route("POST", <<"auth", "magic-link">>, ""),
   VerifyMagicLink |-> Route("POST", <<"auth", "verify">>, ""),
   RefreshAccessToken |-> Route("POST", <<"auth", "refresh">>, ""),
   RevokeRefreshToken |-> Route("POST", <<"auth", "revoke">>, ""),
   RevokeAllSessions |-> Route("POST", <<"auth", "sessions", "revoke-all">>, ""),
   GetAuthContext |-> Route("GET", <<"auth", "context">>, "")]

OrgRoutes ==
  [CreateOrganization |-> Route("POST", <<"organizations">>, ""),
   CreateOrganizationUser |-> Route("POST", <<"organizations", "users">>, ""),
   ListOrganizationUsers |-> Route("GET", <<"organizations", "users">>, "")]

PermissionRoutes == [ListPermissions |-> Route("GET", <<"permissions">>, "")]

ProjectRoutes == [ListProjects |-> Route("GET", <<"projects">>, "")]

RoleRoutes ==
  [CreateRole |-> Route("POST", <<"roles">>, ""),
   GetRole |-> Route("GET", <<"roles", "*">>, ""),
   ListRoles |-> Route("GET", <<"roles">>, ""),
   ListProjectRoleAssignments |-> Route("GET", <<"project-role-assignments">>, ""),
   ListOrganizationRoleAssignments |->
     Route("GET", <<"organization-role-assignments">>, ""),
   UpdateRole |-> Route("PATCH", <<"roles", "*">>, ""),
   ModifyRolePermissions |-> Route("POST", <<"roles", "*">>, "modifyPermissions"),
   DeleteRole |-> Route("DELETE", <<"roles", "*">>, ""),
   AssignRoleToProject |-> Route("POST", <<"roles">>, "assignToProject"),
   UnassignRoleFromProject |-> Route("POST", <<"roles">>, "unassignFromProject"),
   AssignRoleToOrganization |-> Route("POST", <<"roles">>, "assignToOrganization"),
   UnassignRoleFromOrganization |-> Route("POST", <<"roles">>, "unassignFromOrganization")]

SystemRoleRoutes ==
  [ListSystemRoles |-> Route("GET", <<"system-roles">>, ""),
   AssignSystemRole |-> Route("POST", <<"system-roles">>, "assign"),
   UnassignSystemRole |-> Route("POST", <<"system-roles">>, "unassign"),
   ListSystemRoleAssignments |-> Route("GET", <<"system-role-assignments">>, "")]

UserRoutes ==
  [GetUser |-> Route("GET", <<"users", "*">>, ""), ListUsers |-> Route("GET", <<"users">>, ""),
   CreateUser |-> Route("POST", <<"users">>, ""),
   UpdateUser |-> Route("PATCH", <<"users", "*">>, "")]

RouteOf(m) ==
  CASE m \in AuthService -> AuthRoutes[m]
    [] m \in OrgService -> OrgRoutes[m]
    [] m \in PermissionService -> PermissionRoutes[m]
    [] m \in ProjectService -> ProjectRoutes[m]
    [] m \in RoleService -> RoleRoutes[m]
    [] m \in SystemRoleService -> SystemRoleRoutes[m]
    [] m \in UserService -> UserRoutes[m]

\* The mux tries the routes of a verb; a parameter takes any one segment.
Matches(r, q) ==
  /\ r.verb = q.verb
  /\ r.custom = q.custom
  /\ Len(r.path) = Len(q.path)
  /\ \A i \in DOMAIN r.path : r.path[i] \in {q.path[i], "*"}

Routed(m) == {n \in Methods : Matches(RouteOf(n), RouteOf(m))}
-----------------------------------------------------------------------------
(* Which fields of a request the gateway fills in, and from where: the     *)
(* JSON body, the query of a list, or the path; a GET's body is discarded. *)
Body == DOMAIN Plain
Query == {"page", "order", "filter", "user"}
Path == {"id"}
Nothing == {}

AuthRequests ==
  [RequestMagicLink |-> Body, VerifyMagicLink |-> Body, RefreshAccessToken |-> Body,
   RevokeRefreshToken |-> Body, RevokeAllSessions |-> Body, GetAuthContext |-> Nothing]

OrgRequests ==
  [CreateOrganization |-> Body, CreateOrganizationUser |-> Body, ListOrganizationUsers |-> Query]

PermissionRequests == [ListPermissions |-> Nothing]

ProjectRequests == [ListProjects |-> Query]

RoleReads ==
  [CreateRole |-> Body, GetRole |-> Path, ListRoles |-> Query,
   ListProjectRoleAssignments |-> Query, ListOrganizationRoleAssignments |-> Query]

RoleChanges ==
  [UpdateRole |-> Body \cup Path, ModifyRolePermissions |-> Body \cup Path, DeleteRole |-> Path]

RoleAssignmentRequests ==
  [AssignRoleToProject |-> Body, UnassignRoleFromProject |-> Body,
   AssignRoleToOrganization |-> Body, UnassignRoleFromOrganization |-> Body]

SystemRoleRequests ==
  [ListSystemRoles |-> Query, AssignSystemRole |-> Body, UnassignSystemRole |-> Body,
   ListSystemRoleAssignments |-> Query]

UserRequests ==
  [GetUser |-> Path, ListUsers |-> Query, CreateUser |-> Body, UpdateUser |-> Body \cup Path]

FilledIn(m) ==
  CASE m \in AuthService -> AuthRequests[m]
    [] m \in OrgService -> OrgRequests[m]
    [] m \in PermissionService -> PermissionRequests[m]
    [] m \in ProjectService -> ProjectRequests[m]
    [] m \in RoleService -> (RoleReads @@ RoleChanges @@ RoleAssignmentRequests)[m]
    [] m \in SystemRoleService -> SystemRoleRequests[m]
    [] m \in UserService -> UserRequests[m]

(* What is not filled in is the zero value; as an id, it is no UUID. *)
Zero ==
  [message |-> FALSE, id |-> "malformed", etag |-> "malformed", user |-> "malformed",
   name |-> "", project |-> "", email |-> "", secret |-> "", mask |-> {}, perms |-> {},
   add |-> {}, remove |-> {}, page |-> "", order |-> "parses", filter |-> "none"]

\* The methods whose path names a field inside the nested message, which sets it.
NestedPath == {"UpdateRole", "UpdateUser"}

Decoded(m, b) ==
  [f \in Body |-> IF f = "message" /\ m \in NestedPath THEN TRUE
                 ELSE IF f \in FilledIn(m) THEN b[f] ELSE Zero[f]]

(* The mux is built without a header matcher, so of an HTTP call's headers *)
(* it passes on the authorization and those prefixed "Grpc-Metadata-".     *)
Forwarded(c) ==
  CASE c.via = "grpc" -> c
    [] c.via = "http" -> [c EXCEPT !.body = Decoded(c.method, @),
                                   !.project = "absent", !.key = "absent"]
    [] c.via = "http, prefixed headers" -> [c EXCEPT !.body = Decoded(c.method, @)]
=============================================================================
