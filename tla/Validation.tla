---------------------------- MODULE Validation -----------------------------
(***************************************************************************)
(* The two layers that look at a request: the endpoint validators of       *)
(* api/grpc/internal/validate, which answer with the fields they reject,   *)
(* and the Validate methods of core/mdl behind them.                       *)
(*                                                                         *)
(* A request is a record of what the validators can tell apart in it.      *)
(*   message  whether the nested message (role, user, ...) is set          *)
(*   id, etag, user   "uuid", the all-zero "nil", or "malformed"           *)
(*   name, project    "text", "" or with space around it, "padded"         *)
(*   email    "", "malformed" or an address;  secret   "" or "text"        *)
(*   mask     the paths of update_mask                                     *)
(*   perms, add, remove   permissions as the API's enum                    *)
(*   page     page_token: "" or one that decodes, that does not, or that   *)
(*            was issued for another order or filter                       *)
(*   order    order_by: whether it parses                                  *)
(*   filter   project_id of a filter: "negative" or not                    *)
(* gRPC decodes every request to a message, so the nil checks are idle.    *)
(***************************************************************************)
EXTENDS Permissions

Plain ==
  [message |-> TRUE, id |-> "uuid", etag |-> "uuid", user |-> "uuid",
   name |-> "text", project |-> "text", email |-> "text", secret |-> "text",
   mask |-> {"name"}, perms |-> {}, add |-> {}, remove |-> {},
   page |-> "", order |-> "parses", filter |-> "none"]

ValidEmail(v) == v \notin {"", "malformed"}

\* The field when the condition on it fails.
Unless(ok, field) == IF ok THEN {} ELSE {field}

validUUID(v, field) == Unless(v # "malformed", field)

validEmptyPageToken(b) == Unless(b.page # "malformed", "page_token")

\* "required", or "must not have leading or trailing whitespace"
trimmedName(v, field) == Unless(v = "text", field)

permissionViolations(es, field) ==
  Unless(\A e \in es : PermissionFromPB(e) # {}
                         /\ PermissionFromPB(e) \cap SystemOnlyPermissions = {}, field)
-----------------------------------------------------------------------------
validRequestMagicLink(b) == Unless(ValidEmail(b.email), "email")

validVerifyMagicLink(b) == Unless(b.secret # "", "token")

validRefreshToken(b) == Unless(b.secret # "", "refresh_token")

(* Mutant: only an empty name is refused. *)
validCreateRoleUntrimmed(b) ==
  IF ~b.message THEN {"role"}
  ELSE Unless(b.name # "", "role.name") \cup permissionViolations(b.perms, "role.permissions")

validCreateRole(b) ==
  IF ~b.message THEN {"role"}
  ELSE trimmedName(b.name, "role.name")
         \cup permissionViolations(b.perms, "role.permissions")

validRole(b) == validUUID(b.id, "id")

validUpdateRole(b) ==
  IF ~b.message THEN {"role"}
  ELSE IF b.id = "malformed" THEN {"role.id"}
  ELSE IF b.etag = "malformed" THEN {"role.etag"}
  ELSE IF b.mask = {} THEN {"update_mask"}
  ELSE Unless(b.mask \subseteq {"name", "permissions"}, "update_mask")
           \cup (IF "name" \in b.mask THEN trimmedName(b.name, "role.name") ELSE {})
           \cup (IF "permissions" \in b.mask
                   THEN permissionViolations(b.perms, "role.permissions") ELSE {})

validModifyRolePermissions(b) ==
  IF b.id = "malformed" THEN {"id"}
  ELSE IF b.etag = "malformed" THEN {"etag"}
  ELSE Unless(b.add \cap b.remove = {}, "add_permissions")
           \cup permissionViolations(b.add, "add_permissions")
           \cup permissionViolations(b.remove, "remove_permissions")

\* Assigning and unassigning, in a project and in an organization.
validRoleAssignment(b) == validUUID(b.id, "role_id") \cup validUUID(b.user, "user_id")

validRoleAssignments(b) ==
  IF b.user = "malformed" THEN {"user_id"} ELSE validEmptyPageToken(b)

validSystemRoleAssignment(b) ==
  Unless(b.name # "", "role_name") \cup validUUID(b.user, "user_id")

validListSystemRoleAssignments(b) ==
  IF b.user = "malformed" THEN {"user_id"} ELSE validEmptyPageToken(b)

validCreateOrganization(b) ==
  IF ~b.message THEN {"organization"}
  ELSE trimmedName(b.name, "organization.name")
         \cup trimmedName(b.project, "project_name")

validCreateOrganizationUser(b) == Unless(ValidEmail(b.email), "email")

validListOrganizationUsers(b) ==
  IF b.filter = "negative" THEN {"filter.project_id"}
  ELSE Unless(b.page \in {"", "issued"}, "page_token")

validListProjects(b) == Unless(b.page \in {"", "issued"}, "page_token")

validCreateUser(b) ==
  IF ~b.message THEN {"user"}
  ELSE Unless(ValidEmail(b.email), "user.email") \cup Unless(b.name # "", "user.name")

validUpdateUser(b) ==
  IF ~b.message THEN {"user"}
  ELSE IF b.id = "malformed" THEN {"user.id"}
  ELSE IF b.etag = "malformed" THEN {"user.etag"}
  ELSE IF b.mask = {} THEN {"update_mask"}
  ELSE Unless(b.mask = {"name"}, "update_mask")
           \cup Unless("name" \in b.mask => b.name # "", "user.name")

validListUsers(b) ==
  IF b.page = "malformed" THEN {"page_token"}
  ELSE IF b.order # "parses" THEN {"order_by"}
  ELSE Unless(b.page \in {"", "issued"}, "page_token")
-----------------------------------------------------------------------------
(* The Validate methods: whether the core accepts what was converted.      *)
validateCustomRolePerms(es) ==
  PermissionsFromPB(es).permissions \cap SystemOnlyPermissions = {}

CreateCustomRoleValidate(b) == b.name = "text" /\ validateCustomRolePerms(b.perms)

UpdateCustomRoleValidate(b) ==
  /\ b.etag # "nil"
  /\ "name" \in b.mask => b.name = "text"
  /\ "permissions" \in b.mask => validateCustomRolePerms(b.perms)

ModifyCustomRolePermissionsValidate(b) ==
  /\ b.etag # "nil"
  /\ b.add \cap b.remove = {}
  /\ validateCustomRolePerms(b.add \cup b.remove)

CreateOrganizationValidate(b) == b.name # "" /\ b.project # ""

CreateOrganizationUserValidate(b) == ValidEmail(b.email)

CreateUserValidate(b) == ValidEmail(b.email) /\ b.name # ""

UpdateUserValidate(b) == b.etag # "nil" /\ ("name" \in b.mask => b.name # "")
=============================================================================
