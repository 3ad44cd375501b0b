CONSTANTS
  Calls = {c1, c2}
  Text <- MCText
  Lower <- MCLower
  ControlName = "control"
  UserIds = {1, 2, 3}
  NoUser = 99
  OrgIds = {1, 2}
  FirstUser = 1
  FirstEmail = "root"
  Requests <- MCRequests
SYMMETRY MCSymmetry
SPECIFICATION Spec
INVARIANTS ServedUsersAreFound
