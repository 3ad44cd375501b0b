---------------------------- MODULE Organizations ----------------------------
(***************************************************************************)
(* Organizations, their projects and members, and the accounts of users:   *)
(* the operations of core/org/org.go and CreateUser of core/user/user.go   *)
(* over core/pgstores/pgorg and pguser, one action per statement, as       *)
(* PostgreSQL runs them at READ COMMITTED.  A transaction sees the         *)
(* committed rows and its own.  An insert whose unique key belongs to a    *)
(* row of another open transaction waits for the end of that transaction.  *)
(*                                                                         *)
(* Text stands for e-mail addresses and names; Lower is lower() and        *)
(* strings.ToLower.  Rows of these tables are never deleted.               *)
(***************************************************************************)
EXTENDS Naturals

CONSTANTS
  Calls,        \* concurrent calls of the operations, each reusable
  Text,
  Lower,        \* each text in lower case
  ControlName,  \* defaultControlProjectName
  UserIds,      \* serial ids of accounts, which bound a run
  NoUser,
  OrgIds,       \* serial ids of organizations, likewise
  FirstUser,    \* an account that exists from the start
  FirstEmail,   \* its address
  Requests      \* the requests clients make

Request ==
  [op : {"create-user"}, email : Text]
    \cup [op : {"create-org-user"}, org : OrgIds, email : Text]
    \cup [op : {"create-project"}, org : OrgIds, name : Text]
    \cup [op : {"create-org"}, name : Text, project : Text, creator : UserIds \cup {NoUser}]

ASSUME TextAssumption ==
  /\ Lower \in [Text -> Text]
  /\ \A t \in Text : Lower[Lower[t]] = Lower[t]
  /\ {ControlName, FirstEmail} \subseteq Text
ASSUME IdsAssumption ==
  UserIds \subseteq Nat /\ OrgIds \subseteq Nat /\ FirstUser \in UserIds /\ NoUser \notin UserIds
ASSUME RequestsAssumption == Requests \subseteq Request

VARIABLES
  rows,         \* the committed rows
  pc,           \* how far each call has come
  req,          \* its request
  written,      \* the rows its transaction has inserted
  locked,       \* the accounts whose rows its transaction has updated
  served        \* history: pairs of an organization and an address for
                \* which CreateOrganizationUser returned

vars == <<rows, pc, req, written, locked, served>>

User(u, e) == [table |-> "users", id |-> u, email |-> e]
Organization(o, n) == [table |-> "organizations", id |-> o, name |-> n]
Project(o, n, control) == [table |-> "projects", org |-> o, name |-> n, control |-> control]
Member(o, u) == [table |-> "members", org |-> o, user |-> u]
Administrator(o, u) == [table |-> "administrators", org |-> o, user |-> u]

Rows ==
  {User(u, e) : u \in UserIds, e \in Text}
    \cup {Organization(o, n) : o \in OrgIds, n \in Text}
    \cup {Project(o, n, k) : o \in OrgIds, n \in Text, k \in BOOLEAN}
    \cup {Member(o, u) : o \in OrgIds, u \in UserIds}
    \cup {Administrator(o, u) : o \in OrgIds, u \in UserIds}

Table(S, name) == {r \in S : r.table = name}

(* Mutant: projects_org_id_name_key, which tells cases apart. *)
KeyWithCase(r) ==
  CASE r.table = "users"         -> <<"users", r.email>>
    [] r.table = "organizations" -> <<"organizations", r.name>>
    [] r.table = "projects"      -> <<"projects", r.org, r.name>>
    [] OTHER                     -> <<r.table, r.org, r.user>>

(* The unique key of a row: the indexes of the migrations. *)
Key(r) ==
  CASE r.table = "users"         -> <<"users", r.email>>
    [] r.table = "organizations" -> <<"organizations", r.name>>
    [] r.table = "projects"      -> <<"projects", r.org, Lower[r.name]>>
    [] OTHER                     -> <<r.table, r.org, r.user>>

View(c) == rows \cup written[c]

NoRequest == [op |-> "none"]

AllRows == rows \cup UNION {written[c] : c \in Calls}

(* SERIAL: the next id that no row has. *)
NextId(ids, table) ==
  LET free == ids \ {r.id : r \in Table(AllRows, table)} IN
  CHOOSE i \in free : \A j \in free : i <= j

HasNextId(ids, table) == ids \ {r.id : r \in Table(AllRows, table)} # {}

(* The rows a transaction has inserted or locks. *)
Touched(c) == written[c] \cup {r \in Table(rows, "users") : r.id \in locked[c]}

(* An insert waits for the open transactions that touch its key. *)
Arrives(c, r) == \A d \in Calls \ {c} : \A s \in Touched(d) : Key(s) # Key(r)

Conflicts(c, r) == \E s \in View(c) : Key(s) = Key(r)
-----------------------------------------------------------------------------
Init ==
  /\ rows = {User(FirstUser, FirstEmail)}
  /\ pc = [c \in Calls |-> "idle"]
  /\ req = [c \in Calls |-> NoRequest]
  /\ written = [c \in Calls |-> {}]
  /\ locked = [c \in Calls |-> {}]
  /\ served = {}

(* Mutant: the rows a transaction has updated stay locked. *)
EndKeepingLocks(c) ==
  /\ pc' = [pc EXCEPT ![c] = "idle"]
  /\ req' = [req EXCEPT ![c] = NoRequest]
  /\ written' = [written EXCEPT ![c] = {}]
  /\ UNCHANGED locked

End(c) ==
  /\ pc' = [pc EXCEPT ![c] = "idle"]
  /\ req' = [req EXCEPT ![c] = NoRequest]
  /\ written' = [written EXCEPT ![c] = {}]
  /\ locked' = [locked EXCEPT ![c] = {}]

Rollback(c) == End(c) /\ UNCHANGED <<rows, served>>

(* Mutant: a failing statement does not undo the ones before it. *)
FailKeepingRows(c) ==
  /\ rows' = rows \cup written[c]
  /\ End(c)
  /\ UNCHANGED served

(* A statement fails and fn returns its error. *)
Fail(c) == Rollback(c)

Continue(c, to, new) ==
  /\ pc' = [pc EXCEPT ![c] = to]
  /\ written' = [written EXCEPT ![c] = @ \cup new]
  /\ UNCHANGED <<rows, req, served>>

(* A client names organizations it has seen; a session names the account   *)
(* that creates an organization, and the bootstrap nobody.                 *)
Begin(c, q) ==
  /\ pc[c] = "idle"
  /\ q.op = "create-org-user" => \E r \in Table(rows, "organizations") : r.id = q.org
  /\ q.op = "create-org" =>
       q.creator = NoUser \/ \E r \in Table(rows, "users") : r.id = q.creator
  /\ pc' = [pc EXCEPT ![c] = "begun"]
  /\ req' = [req EXCEPT ![c] = q]
  /\ UNCHANGED <<rows, written, locked, served>>

Begun(c, op) == pc[c] = "begun" /\ req[c].op = op

(* One statement outside any transaction: the insert and its commit. *)
Insert(c, r) ==
  /\ Arrives(c, r)
  /\ \/ ~Conflicts(c, r) /\ rows' = rows \cup {r} /\ End(c) /\ UNCHANGED served
     \/ Conflicts(c, r) /\ Fail(c)

(* core/user: the address is stored in lower case. *)
CreateUser(c) ==
  /\ Begun(c, "create-user")
  /\ HasNextId(UserIds, "users")
  /\ Insert(c, User(NextId(UserIds, "users"), Lower[req[c].email]))

(* An organization that does not exist yields no row. *)
CreateProject(c) ==
  /\ Begun(c, "create-project")
  /\ IF \E r \in Table(rows, "organizations") : r.id = req[c].org
     THEN Insert(c, Project(req[c].org, req[c].name, FALSE))
     ELSE Fail(c)
-----------------------------------------------------------------------------
(* createOrganizationQuery inserts the organization and its control        *)
(* project.                                                                *)
CreateOrganization(c) ==
  /\ Begun(c, "create-org")
  /\ HasNextId(OrgIds, "organizations")
  /\ LET o == NextId(OrgIds, "organizations")
         row == Organization(o, req[c].name) IN
       /\ Arrives(c, row)
       /\ \/ /\ ~Conflicts(c, row)
             /\ Continue(c, "organization", {row, Project(o, ControlName, TRUE)})
             /\ UNCHANGED locked
          \/ Conflicts(c, row) /\ Fail(c)

NewOrg(c) == (CHOOSE r \in Table(written[c], "organizations") : TRUE).id

(* ErrControlProjectNameConflict is the only conflict there can be. *)
CreateDefaultProject(c) ==
  /\ pc[c] = "organization"
  /\ LET row == Project(NewOrg(c), req[c].project, FALSE)
         next == IF req[c].creator = NoUser THEN "done" ELSE "projects" IN
       \/ ~Conflicts(c, row) /\ Continue(c, next, {row}) /\ UNCHANGED locked
       \/ Conflicts(c, row) /\ Fail(c)

AddOrganizationMember(c) ==
  /\ pc[c] = "projects"
  /\ Continue(c, "member", {Member(NewOrg(c), req[c].creator)})
  /\ UNCHANGED locked

(* CreateOrganizationAdminRole and AssignCustomRoleToOrg, which joins the  *)
(* membership.                                                             *)
AssignAdminRole(c) ==
  /\ pc[c] = "member"
  /\ Member(NewOrg(c), req[c].creator) \in View(c)
  /\ Continue(c, "done", {Administrator(NewOrg(c), req[c].creator)})
  /\ UNCHANGED locked
-----------------------------------------------------------------------------
UsersWith(S, e) == {r \in Table(S, "users") : r.email = e}

(* getOrCreateUserByEmailQuery: ON CONFLICT DO UPDATE waits for the row of *)
(* the address and locks it; the address is taken as it was written.       *)
GetOrCreateUserByEmail(c) ==
  /\ Begun(c, "create-org-user")
  /\ Arrives(c, User(FirstUser, req[c].email))
  /\ LET found == UsersWith(rows, req[c].email)
         u == NextId(UserIds, "users") IN
       \/ /\ found # {}
          /\ Continue(c, "user", {})
          /\ locked' = [locked EXCEPT ![c] = {r.id : r \in found}]
       \/ /\ found = {} /\ HasNextId(UserIds, "users")
          /\ Continue(c, "user", {User(u, req[c].email)})
          /\ locked' = [locked EXCEPT ![c] = {u}]

(* Mutant: only a user who has just been created becomes a member. *)
EnsureNewUserIsMember(c) ==
  /\ pc[c] = "user"
  /\ Continue(c, "done", {Member(req[c].org, r.id) : r \in Table(written[c], "users")})
  /\ UNCHANGED locked

(* ON CONFLICT DO NOTHING. *)
EnsureOrganizationMember(c) ==
  /\ pc[c] = "user"
  /\ \E u \in locked[c] :
       LET row == Member(req[c].org, u) IN
       /\ Arrives(c, row)
       /\ Continue(c, "done", IF Conflicts(c, row) THEN {} ELSE {row})
  /\ UNCHANGED locked

Commit(c) ==
  /\ pc[c] = "done"
  /\ rows' = rows \cup written[c]
  /\ served' = IF req[c].op = "create-org-user"
               THEN served \cup {<<req[c].org, req[c].email>>} ELSE served
  /\ End(c)

(* A cancelled context, a lost connection or a failed statement. *)
Abort(c) == pc[c] # "idle" /\ Rollback(c)

Next ==
  \E c \in Calls :
    \/ \E q \in Requests : Begin(c, q)
    \/ CreateUser(c) \/ CreateProject(c)
    \/ CreateOrganization(c) \/ CreateDefaultProject(c)
    \/ AddOrganizationMember(c) \/ AssignAdminRole(c)
    \/ GetOrCreateUserByEmail(c) \/ EnsureOrganizationMember(c)
    \/ Commit(c) \/ Abort(c)

Spec == Init /\ [][Next]_vars
-----------------------------------------------------------------------------
TypeOK ==
  /\ rows \subseteq Rows
  /\ pc \in [Calls -> {"idle", "begun", "organization", "projects", "member", "user", "done"}]
  /\ req \in [Calls -> Requests \cup {NoRequest}]
  /\ written \in [Calls -> SUBSET Rows]
  /\ locked \in [Calls -> SUBSET UserIds]
  /\ served \subseteq OrgIds \X Text
  /\ \A c \in Calls : pc[c] = "idle" => written[c] = {} /\ locked[c] = {}

(* Racing creations never leave two accounts with one stored address, two  *)
(* organizations with one name, or two projects of an organization whose   *)
(* names differ in case only (the migrations of 20260605070602,            *)
(* 20260713145901 and 20260714130002).                                     *)
NamesAreUnique ==
  /\ \A r, s \in Table(rows, "users") : r.email = s.email => r = s
  /\ \A r, s \in Table(rows, "organizations") : r.name = s.name => r = s
  /\ \A r, s \in Table(rows, "projects") :
       r.org = s.org /\ Lower[r.name] = Lower[s.name] => r = s

(* An organization exists with its control project and one more, and those *)
(* who administer it are its members, or it does not exist at all,         *)
(* whichever statement of its creation failed (org.go:121-123).            *)
OrganizationsAreWhole ==
  /\ \A o \in Table(rows, "organizations") : \A control \in BOOLEAN :
       \E r \in Table(rows, "projects") : r.org = o.id /\ r.control = control
  /\ \A r \in Table(rows, "administrators") : Member(r.org, r.user) \in rows

(* What CreateOrganizationUser reported stays true: the address has an     *)
(* account, and that account is a member.                                  *)
ServedUsersAreMembers ==
  \A p \in served :
    \E r \in UsersWith(rows, p[2]) : Member(p[1], r.id) \in rows

(* "CreateOrganizationUser returns the system user with cou.Email, creating *)
(* it when necessary" (org.go:223): the user that UserByEmail and           *)
(* MagicLinkToken find under that address is the member.                    *)
ServedUsersAreFound ==
  \A p \in served :
    \E r \in UsersWith(rows, Lower[p[2]]) : Member(p[1], r.id) \in rows
=============================================================================
