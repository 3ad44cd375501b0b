CONSTANTS
  Traffic <- MCTraffic
  Users = {"ann"}
  OrgOf <- MCOrgOf
  Control = {"ops", "desk"}
  Grantable <- MCGrantable
  MaxWorkflows = 1
  Listings = {"ListUsers", "ListOrganizationUsers", "ListRoles"}
  RowIds = {1, 2, 3}
  Names = {"x", "y"}
  PageSizes = {0, 2}
  MaxChanges = 2
  Persons = {"ann", "bob"}
  HomeOf <- MCHomeOf
  RoleHome <- MCRoleHome
  Carried <- MCCarried
  Seeded <- MCSeeded
CHECK_DEADLOCK FALSE
SPECIFICATION MCSpec
INVARIANTS TypesOK
INVARIANTS HandlersAreAuthorized FailuresAreNamed  RepliesAreOwn
INVARIANTS PagesAreExplained AccessIsListed
