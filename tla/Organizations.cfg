CONSTANTS
  Calls = {c1, c2, c3}
  Text <- MCText
  Lower <- MCLower
  ControlName = "control"
  UserIds = {1, 2, 3}
  NoUser = 99
  OrgIds = {1, 2}
  FirstUser = 1
  FirstEmail = "root"
  Requests <- MCRequests
SYMMETRY MCSymmetry
SPECIFICATION Spec
INVARIANTS TypeOK NamesAreUnique OrganizationsAreWhole ServedUsersAreMembers
