----------------------------- MODULE Handlers ------------------------------
(***************************************************************************)
(* The handlers of api/grpc and the core operations behind them, as far as *)
(* an answer depends on them: a handler validates and converts a request,  *)
(* calls one core operation, and turns the errors it knows into a status.  *)
(* An error it does not know leaves the handler as it is.                  *)
(*                                                                         *)
(* A core operation is given by the errors it may return for a request b   *)
(* in a session s.  What it does when it returns none is the subject of    *)
(* the modules of the core.  "failure" is any error without a name: the    *)
(* database, a bug, a panic.                                               *)
(***************************************************************************)
EXTENDS Validation

NoProject == "no project"

\* The outcomes when nothing is wrong with the request, whatever the errors.
MayReturn(errors) == errors \cup {"none", "failure"}

Validated(ok, outcomes) == IF ok THEN outcomes ELSE {"validation"}

\* "project context missing", which no error value names.
InProject(s, outcomes) == IF s.project = NoProject THEN {"missing context"} ELSE outcomes

\* "rejected" is InvalidArgument with the fields that are violated.
Answer(violations, converts, e, statuses) ==
  IF violations # {} THEN "rejected"
  ELSE IF ~converts THEN "missing conversion"
  ELSE IF e = "none" THEN "OK"
  ELSE IF e \in DOMAIN statuses THEN statuses[e] ELSE e
-----------------------------------------------------------------------------
(* Core operations. *)
UserByID == MayReturn({"notFound"})

CoreCreateUser(b) == Validated(CreateUserValidate(b), MayReturn({"alreadyExists"}))

CoreUpdateUser(b) ==
  Validated(UpdateUserValidate(b), MayReturn({"notFound", "etagMismatch"}))

CoreUsers == MayReturn({})

CoreCreateOrganization(b) ==
  Validated(CreateOrganizationValidate(b),
            MayReturn({"alreadyExists", "controlProjectNameConflict", "notFound"}))

CoreCreateOrganizationUser(s, b) ==
  Validated(CreateOrganizationUserValidate(b), InProject(s, MayReturn({})))

OrganizationUsers(s) == InProject(s, MayReturn({"notFound"}))

AccessibleProjects == MayReturn({"notFound"})

SystemRoles == MayReturn({})

UserSystemRoles == MayReturn({"notFound"})

CoreAssignSystemRole == MayReturn({"notFound", "permissionDenied", "alreadyExists"})

CoreUnassignSystemRole ==
  MayReturn({"notFound", "permissionDenied", "lastFullyPrivilegedSystemAdmin"})

CustomRoles(s) == InProject(s, MayReturn({}))

UserProjectCustomRoles(s) == InProject(s, MayReturn({"notFound"}))

UserOrgCustomRoles(s) == InProject(s, MayReturn({"notFound"}))

CustomRoleByID(s) == InProject(s, MayReturn({"notFound"}))

CreateCustomRole(s, b) ==
  InProject(s, Validated(CreateCustomRoleValidate(b),
               MayReturn({"notFound", "permissionDenied", "alreadyExists"})))

UpdateCustomRole(s, b) ==
  InProject(s, Validated(UpdateCustomRoleValidate(b),
               MayReturn({"notFound", "managedRole", "permissionDenied",
                 "invalidAssignmentScope", "alreadyExists",
                 "etagMismatch"})))

CoreModifyRolePermissions(s, b) ==
  InProject(s, Validated(ModifyCustomRolePermissionsValidate(b),
               MayReturn({"notFound", "managedRole", "permissionDenied",
                 "invalidAssignmentScope", "etagMismatch"})))

DeleteCustomRole(s) ==
  InProject(s, MayReturn({"notFound", "managedRole", "permissionDenied"}))

AssignCustomRoleToProject(s) ==
  InProject(s, MayReturn({"notFound", "invalidAssignmentScope", "permissionDenied",
                         "alreadyExists"}))

UnassignCustomRoleFromProject(s) == InProject(s, MayReturn({"notFound", "permissionDenied"}))

AssignCustomRoleToOrg(s) ==
  InProject(s, MayReturn({"notFound", "permissionDenied", "alreadyExists"}))

UnassignCustomRoleFromOrg(s) == InProject(s, MayReturn({"notFound", "permissionDenied"}))

AuthContext(s) == InProject(s, MayReturn({"notFound"}))

\* VerifyMagicLink, RefreshAccessToken and RevokeRefreshToken.
TokenOperation == MayReturn({"tokenInvalid"})
-----------------------------------------------------------------------------
(* Handlers: the answer to request b when the core returned e.  *)
RequestMagicLink(b, e) == Answer(validRequestMagicLink(b), TRUE, e, <<>>)

VerifyMagicLink(b, e) ==
  Answer(validVerifyMagicLink(b), TRUE, e, [tokenInvalid |-> "Unauthenticated"])

RefreshAccessToken(b, e) ==
  Answer(validRefreshToken(b), TRUE, e, [tokenInvalid |-> "Unauthenticated"])

RevokeRefreshToken(b, e) ==
  Answer(validRefreshToken(b), TRUE, e, [tokenInvalid |-> "NotFound"])

RevokeAllSessions(b, e) == Answer({}, TRUE, e, <<>>)

GetAuthContext(b, e) == Answer({}, TRUE, e, [notFound |-> "NotFound"])

GetUser(b, e) == Answer(validUUID(b.id, "id"), TRUE, e, [notFound |-> "NotFound"])

CreateUser(b, e) ==
  Answer(validCreateUser(b), TRUE, e, [alreadyExists |-> "InvalidArgument"])

UpdateUser(b, e) ==
  Answer(validUpdateUser(b), TRUE, e, [notFound |-> "NotFound", etagMismatch |-> "Aborted"])

ListUsers(b, e) == Answer(validListUsers(b), TRUE, e, <<>>)

CreateOrganization(b, e) ==
  Answer(validCreateOrganization(b), TRUE, e,
         [validation |-> "InvalidArgument", alreadyExists |-> "AlreadyExists",
          controlProjectNameConflict |-> "InvalidArgument", notFound |-> "NotFound"])

CreateOrganizationUser(b, e) ==
  Answer(validCreateOrganizationUser(b), TRUE, e, [validation |-> "InvalidArgument"])

ListOrganizationUsers(b, e) ==
  Answer(validListOrganizationUsers(b), TRUE, e, [notFound |-> "NotFound"])

ListProjects(b, e) == Answer(validListProjects(b), TRUE, e, [notFound |-> "NotFound"])

ListPermissions(b, e) == Answer({}, TRUE, e, <<>>)

ListSystemRoles(b, e) == Answer(validEmptyPageToken(b), TRUE, e, <<>>)

AssignSystemRole(b, e) ==
  Answer(validSystemRoleAssignment(b), TRUE, e,
         [notFound |-> "NotFound", permissionDenied |-> "PermissionDenied",
          alreadyExists |-> "AlreadyExists"])

UnassignSystemRole(b, e) ==
  Answer(validSystemRoleAssignment(b), TRUE, e,
         [notFound |-> "NotFound", permissionDenied |-> "PermissionDenied",
          lastFullyPrivilegedSystemAdmin |-> "FailedPrecondition"])

ListSystemRoleAssignments(b, e) ==
  Answer(validListSystemRoleAssignments(b), TRUE, e, [notFound |-> "NotFound"])

CreateRole(b, e) ==
  Answer(validCreateRole(b), PermissionsFromPB(b.perms).ok, e,
         [validation |-> "InvalidArgument", alreadyExists |-> "InvalidArgument",
          permissionDenied |-> "PermissionDenied", notFound |-> "NotFound"])

GetRole(b, e) == Answer(validRole(b), TRUE, e, [notFound |-> "NotFound"])

ListRoles(b, e) == Answer(validEmptyPageToken(b), TRUE, e, <<>>)

ListProjectRoleAssignments(b, e) ==
  Answer(validRoleAssignments(b), TRUE, e, [notFound |-> "NotFound"])

ListOrganizationRoleAssignments(b, e) ==
  Answer(validRoleAssignments(b), TRUE, e, [notFound |-> "NotFound"])

UpdateRole(b, e) ==
  Answer(validUpdateRole(b), PermissionsFromPB(b.perms).ok, e,
         [notFound |-> "NotFound", validation |-> "InvalidArgument",
          alreadyExists |-> "InvalidArgument", etagMismatch |-> "Aborted",
          permissionDenied |-> "PermissionDenied", managedRole |-> "FailedPrecondition",
          invalidAssignmentScope |-> "FailedPrecondition"])

ModifyRolePermissions(b, e) ==
  Answer(validModifyRolePermissions(b), PermissionsFromPB(b.add \cup b.remove).ok, e,
         [notFound |-> "NotFound", validation |-> "InvalidArgument",
          etagMismatch |-> "Aborted", permissionDenied |-> "PermissionDenied",
          managedRole |-> "FailedPrecondition",
          invalidAssignmentScope |-> "FailedPrecondition"])

DeleteRole(b, e) ==
  Answer(validRole(b), TRUE, e,
         [notFound |-> "NotFound", permissionDenied |-> "PermissionDenied",
          managedRole |-> "FailedPrecondition"])

(* Mutant: one of the core's errors has no status. *)
AssignRoleToProjectAnyScope(b, e) ==
  Answer(validRoleAssignment(b), TRUE, e,
         [notFound |-> "NotFound", alreadyExists |-> "AlreadyExists",
          permissionDenied |-> "PermissionDenied"])

AssignRoleToProject(b, e) ==
  Answer(validRoleAssignment(b), TRUE, e,
         [notFound |-> "NotFound", alreadyExists |-> "AlreadyExists",
          permissionDenied |-> "PermissionDenied",
          invalidAssignmentScope |-> "FailedPrecondition"])

UnassignRoleFromProject(b, e) ==
  Answer(validRoleAssignment(b), TRUE, e,
         [notFound |-> "NotFound", permissionDenied |-> "PermissionDenied"])

AssignRoleToOrganization(b, e) ==
  Answer(validRoleAssignment(b), TRUE, e,
         [notFound |-> "NotFound", alreadyExists |-> "AlreadyExists",
          permissionDenied |-> "PermissionDenied"])

UnassignRoleFromOrganization(b, e) ==
  Answer(validRoleAssignment(b), TRUE, e,
         [notFound |-> "NotFound", permissionDenied |-> "PermissionDenied"])
=============================================================================
