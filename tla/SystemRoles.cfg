CONSTANTS
  Calls = {c1, c2}
  Users = {1, 2}
  NoUser = 99
  NoRole = "none"
  Permissions <- MCPermissions
  Roles <- MCRoles
  RolePerms <- MCRolePerms
  Requests <- MCRequests
SPECIFICATION FairSpec
INVARIANTS TypeOK AuthorityHolds RevokeStaysSafe NoDeadlock
PROPERTIES AdministratorRemains AtomicSpec CallsEnd
