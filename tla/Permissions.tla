---------------------------- MODULE Permissions ----------------------------
(***************************************************************************)
(* The permission registry of core/mdl/permission.go, the scopes at which  *)
(* its members mean something, their conversion from and to the API, and   *)
(* how the functions of the schema rbac resolve what a user holds.         *)
(***************************************************************************)
EXTENDS Naturals, FiniteSetsExt

\* AssignmentScope: a role needs the broadest scope any permission of it needs.
ProjectScope == 1
OrganizationScope == 2
SystemScope == 3

CustomRolePermissions ==
  {"custom-role:create", "custom-role:read", "custom-role:update",
   "custom-role:delete", "custom-role:assign-project",
   "custom-role:unassign-project", "custom-role:assign-org",
   "custom-role:unassign-org", "custom-role:read-project-assignments",
   "custom-role:read-org-assignments"}

SystemOnlyPermissions ==
  {"user:read", "user:create", "user:update", "system-role:read",
   "system-role:assign", "system-role:unassign", "project:discover-all"}

PermissionsAssignableToCustomRoles ==
  CustomRolePermissions
    \cup {"org:create", "project:create", "org:user-create", "org:user-read"}

OrganizationAdminPermissions ==
  PermissionsAssignableToCustomRoles \ {"org:create"}

AllPermissions ==
  SystemOnlyPermissions \cup CustomRolePermissions
    \cup {"org:create", "project:create", "org:user-create", "org:user-read"}

PermissionAssignmentScope(p) ==
  CASE p \in SystemOnlyPermissions -> SystemScope
    [] p \in {"custom-role:assign-project", "custom-role:unassign-project",
              "custom-role:read-project-assignments", "org:create"} -> ProjectScope
    [] OTHER -> OrganizationScope

MinimumAssignmentScope(ps) ==
  Max({ProjectScope} \cup {PermissionAssignmentScope(p) : p \in ps})

CustomRolePermissionDescriptors ==
  [p \in PermissionsAssignableToCustomRoles |-> PermissionAssignmentScope(p)]

IsPermissionSuperset(held, required) == required \subseteq held
-----------------------------------------------------------------------------
(* The API's enum has one value per permission and others besides: the     *)
(* unspecified one and numbers a newer or faulty client sends.             *)
OtherEnum == <<"PERMISSION_UNSPECIFIED">>

PermissionToPB == [p \in AllPermissions |-> <<"PERMISSION", p>>]

PermissionFromPB(e) == {p \in AllPermissions : PermissionToPB[p] = e}

\* What of a list converts; the conversion fails when a member is not ok.
PermissionsFromPB(es) ==
  [ok |-> \A e \in es : PermissionFromPB(e) # {},
   permissions |-> UNION {PermissionFromPB(e) : e \in es}]
-----------------------------------------------------------------------------
(* An assignment gives a user the permissions of a role at one place:      *)
(* [user, scope, place, permissions], where place is a project, an         *)
(* organization or the system.                                             *)
GrantedAt(assignments, u, s, where) ==
  UNION {a.permissions : a \in {h \in assignments : h.user = u /\ h.scope = s
                                                       /\ h.place = where}}

SystemPermissions(assignments, u) == GrantedAt(assignments, u, SystemScope, "system")

OrgPermissions(assignments, u, org) ==
  GrantedAt(assignments, u, OrganizationScope, org) \cup SystemPermissions(assignments, u)

ProjectPermissions(assignments, u, project, org) ==
  GrantedAt(assignments, u, ProjectScope, project) \cup OrgPermissions(assignments, u, org)
=============================================================================
