CONSTANTS
  r1 = r1
  r2 = r2
  r3 = r3
  known = known
  unknown = unknown
  Requests = {r1, r2}
  Addresses = {known, unknown}
  Address <- MCOneAddress
  Provisioned = {known}
  MaxLinks = 3
  MaxCrashes = 2
  Tasks = {call, run}
  RequestTasks = {call}
  MaxConns = 1
  Operations = {"Users", "UpdateCustomRole, name", "CreateCustomRole", "CreateOrganization"}
CHECK_DEADLOCK FALSE
SPECIFICATION MCSpec
INVARIANTS TypesOK
INVARIANTS MailedUnlessInterrupted OneMailPerRequest
INVARIANTS  AcceptedCallsAreAnswered
PROPERTIES RequestsEnd CallsEnd ProcessEnds
