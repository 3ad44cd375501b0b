CONSTANTS
  c1 = c1
  c2 = c2
  founder = founder
  manager = manager
  admin = admin
  role = role
  inProject = inProject
  inOrg = inOrg
  Calls = {c1, c2}
  Users = {founder, manager}
  Roles = {admin, role}
  Managed = admin
  Perms = {inProject, inOrg}
  ProjectPerms = {inProject}
  SystemPerms <- MCSystemPerms
  InitialPerms = {inProject, inOrg}
  Founder = founder
  Requests <- MCRequests
  MaxETag = 4
SYMMETRY MCSymmetry
SPECIFICATION Spec
INVARIANT OrgGrantsWithinAuthority
