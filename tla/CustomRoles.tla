----------------------------- MODULE CustomRoles ----------------------------
(***************************************************************************)
(* The custom roles of one organization and their assignments, in the      *)
(* organization and in one of its projects: the mutations of               *)
(* core/rbac/custom_role.go over core/pgstores/pgrbac, as PostgreSQL runs  *)
(* them at READ COMMITTED.                                                 *)
(*                                                                         *)
(* A call reads in steps of its own.  What it writes and its commit are    *)
(* one step: nobody sees the write before the commit, and whoever waits    *)
(* for one of its rows goes on after it.  Only the UPDATE of a role row    *)
(* has a step for its snapshot, because its WHERE clause looks at the row  *)
(* again while the rest of the statement keeps to the snapshot.            *)
(*                                                                         *)
(* The users are members of the organization.  Role names and what is      *)
(* validated before the transaction are left out; Perms are those          *)
(* permissions that custom roles may hold.                                 *)
(***************************************************************************)
EXTENDS Naturals

CONSTANTS
  Calls,         \* concurrent calls of the operations, each reusable
  Users,
  Roles,         \* ids of roles, those of roles still to be created included
  Managed,       \* the application-managed role of the organization
  Perms,
  ProjectPerms,  \* those whose minimum assignment scope is a project
  SystemPerms,   \* the permissions each user holds at system scope
  InitialPerms,  \* the permissions of the managed role
  Founder,       \* who is assigned the managed role
  Requests,      \* the requests clients make
  MaxETag        \* how often a role may change, which bounds a run

Operations == {"create", "rename", "update", "modify", "delete",
               "assign-project", "unassign-project", "assign-org", "unassign-org"}

(* "to" is the user a role is assigned to; "perms" is the set a role gets; *)
(* "add" and "remove" edit it.  What an operation does not take is ignored.*)
Request == [op : Operations, by : Users, role : Roles, to : Users,
            perms : SUBSET Perms, add : SUBSET Perms, remove : SUBSET Perms]

ASSUME RequestsAssumption == Requests \subseteq Request
ASSUME PermsAssumption ==
  /\ ProjectPerms \subseteq Perms
  /\ InitialPerms \subseteq Perms
  /\ SystemPerms \in [Users -> SUBSET Perms]
ASSUME ManagedAssumption == Managed \in Roles /\ Founder \in Users
ASSUME BoundAssumption == MaxETag \in Nat \ {0}

VARIABLES
  status,       \* of each role: "absent", "present" or "deleted"
  perms,        \* the permissions of each role
  etag,         \* its etag, which counts; the n-th is never drawn again
  orgRoles,     \* org_role_assignments: pairs of a user and a role
  projectRoles, \* project_role_assignments, likewise
  pc,           \* how far each call has come
  req,          \* its request
  tag,          \* the etag its client has read
  authority,    \* the actor's permissions as the call has read them
  snapshot,     \* the etag in the snapshot of the UPDATE under way
  stale,        \* history: operations that succeeded with an old etag
  missed,       \* history: operations told that a role in place is missing
  beyond        \* history: operations that assigned more than the authority

table == <<status, perms, etag, orgRoles, projectRoles>>
history == <<stale, missed, beyond>>
vars == <<table, pc, req, tag, authority, snapshot, history>>

NoRequest == [op |-> "none"]

Locking == {"update", "modify", "delete", "assign-project"}
ETagged == {"rename", "update", "modify"}
InProject == {"assign-project", "unassign-project"}

OrgPermissions(u) ==
  SystemPerms[u] \cup UNION {perms[r] : r \in {s \in Roles : <<u, s>> \in orgRoles}}

ProjectPermissions(u) ==
  OrgPermissions(u)
    \cup UNION {perms[r] : r \in {s \in Roles : <<u, s>> \in projectRoles}}

ProjectAssignable(S) == S \subseteq ProjectPerms

HasProjectAssignments(r) == \E u \in Users : <<u, r>> \in projectRoles

(* Mutant: an assignment does not hold the lock. *)
HoldsLockForChanges(c, r) ==
  /\ pc[c] \in {"locked", "allowed", "valid", "update"}
  /\ req[c].op \in Locking \ {"assign-project"} /\ req[c].role = r

(* Mutant: nobody holds the lock. *)
HoldsNoLock(c, r) == FALSE

(* LockCustomRole, until the transaction ends. *)
HoldsLock(c, r) ==
  /\ pc[c] \in {"locked", "allowed", "valid", "update"}
  /\ req[c].op \in Locking /\ req[c].role = r
-----------------------------------------------------------------------------
(* createOrganization has inserted the managed role and assigned it. *)
Init ==
  /\ status = [r \in Roles |-> IF r = Managed THEN "present" ELSE "absent"]
  /\ perms = [r \in Roles |-> IF r = Managed THEN InitialPerms ELSE {}]
  /\ etag = [r \in Roles |-> IF r = Managed THEN 1 ELSE 0]
  /\ orgRoles = {<<Founder, Managed>>}
  /\ projectRoles = {}
  /\ pc = [c \in Calls |-> "idle"]
  /\ req = [c \in Calls |-> NoRequest]
  /\ tag = [c \in Calls |-> 0]
  /\ authority = [c \in Calls |-> {}]
  /\ snapshot = [c \in Calls |-> 0]
  /\ stale = {}
  /\ missed = {}
  /\ beyond = {}

(* Mutant: the authority outlives the transaction. *)
EndKeepingAuthority(c) ==
  /\ pc' = [pc EXCEPT ![c] = "idle"]
  /\ req' = [req EXCEPT ![c] = NoRequest]
  /\ tag' = [tag EXCEPT ![c] = 0]
  /\ snapshot' = [snapshot EXCEPT ![c] = 0]
  /\ UNCHANGED authority

End(c) ==
  /\ pc' = [pc EXCEPT ![c] = "idle"]
  /\ req' = [req EXCEPT ![c] = NoRequest]
  /\ tag' = [tag EXCEPT ![c] = 0]
  /\ authority' = [authority EXCEPT ![c] = {}]
  /\ snapshot' = [snapshot EXCEPT ![c] = 0]

Rollback(c) == End(c) /\ UNCHANGED <<table, history>>

Advance(c, to) ==
  /\ pc' = [pc EXCEPT ![c] = to]
  /\ UNCHANGED <<table, req, tag, authority, history>>

(* The etags a client may have read. *)
KnownTags(q) == IF q.op \in ETagged THEN 1 .. etag[q.role] ELSE {0}

(* A transaction begins with the actor's permissions.  Only a client that  *)
(* has seen the role knows its id.                                         *)
Begin(c, q, e) ==
  /\ pc[c] = "idle"
  /\ q.op # "rename" /\ e \in KnownTags(q)
  /\ q.op = "create" <=> status[q.role] = "absent"
  /\ pc' = [pc EXCEPT ![c] = IF q.op \in Locking THEN "lock" ELSE "locked"]
  /\ req' = [req EXCEPT ![c] = q]
  /\ tag' = [tag EXCEPT ![c] = e]
  /\ authority' = [authority EXCEPT ![c] =
       IF q.op \in InProject THEN ProjectPermissions(q.by) ELSE OrgPermissions(q.by)]
  /\ UNCHANGED <<table, snapshot, history>>

(* An update of the name alone: one UPDATE, without any check before it,   *)
(* of the managed role as well.                                            *)
BeginRename(c, q, e) ==
  /\ pc[c] = "idle"
  /\ q.op = "rename" /\ e \in KnownTags(q)
  /\ status[q.role] = "present"
  /\ pc' = [pc EXCEPT ![c] = "update"]
  /\ req' = [req EXCEPT ![c] = q]
  /\ tag' = [tag EXCEPT ![c] = e]
  /\ snapshot' = [snapshot EXCEPT ![c] = etag[q.role]]
  /\ UNCHANGED <<table, authority, history>>

(* LockCustomRole locks nothing when the role is gone, which the next      *)
(* statement reports.                                                      *)
LockCustomRole(c) ==
  /\ pc[c] = "lock"
  /\ \A d \in Calls : ~HoldsLock(d, req[c].role)
  /\ Advance(c, "locked") /\ UNCHANGED snapshot

NextPerms(c) ==
  IF req[c].op = "update" THEN req[c].perms
  ELSE (perms[req[c].role] \cup req[c].add) \ req[c].remove

(* The permissions an operation grants or takes away. *)
ChangedPerms(c) ==
  LET now == perms[req[c].role] IN
  CASE req[c].op = "create" -> req[c].perms
    [] req[c].op \in {"update", "modify"} ->
         (now \ NextPerms(c)) \cup (NextPerms(c) \ now)
    [] OTHER -> now

MayChange(c) ==
  LET r == req[c].role  op == req[c].op IN
  /\ op # "create" => status[r] = "present"
  /\ op \in {"update", "modify", "delete"} => r # Managed
  /\ op = "assign-project" => ProjectAssignable(perms[r])
  /\ ChangedPerms(c) \subseteq authority[c]

(* CustomRoleByExternalID and the checks on what it returns. *)
Authorize(c) ==
  /\ pc[c] = "locked"
  /\ \/ MayChange(c) /\ Advance(c, "allowed") /\ UNCHANGED snapshot
     \/ ~MayChange(c) /\ Rollback(c)

Valid(c) ==
  ProjectAssignable(NextPerms(c)) \/ ~HasProjectAssignments(req[c].role)

ValidateAssignmentScope(c) ==
  /\ pc[c] = "allowed" /\ req[c].op \in {"update", "modify"}
  /\ \/ Valid(c) /\ Advance(c, "valid") /\ UNCHANGED snapshot
     \/ ~Valid(c) /\ Rollback(c)

(* The statement takes its snapshot and may now wait for the row. *)
StartUpdate(c) ==
  /\ pc[c] = "valid"
  /\ snapshot' = [snapshot EXCEPT ![c] = etag[req[c].role]]
  /\ Advance(c, "update")
-----------------------------------------------------------------------------
Rotate(r) == etag[r] < MaxETag /\ etag' = [etag EXCEPT ![r] = @ + 1]

(* Mutant: the etag is compared in the snapshot only. *)
MatchesInSnapshot(c) ==
  status[req[c].role] = "present" /\ snapshot[c] = tag[c]

(* The WHERE clause of updateCustomRoleQuery, on the row as it is now. *)
Matches(c) == status[req[c].role] = "present" /\ etag[req[c].role] = tag[c]

UpdateCustomRole(c) ==
  LET r == req[c].role IN
  /\ pc[c] = "update" /\ req[c].op \in {"update", "rename"}
  /\ Matches(c)
  /\ Rotate(r)
  /\ perms' = IF req[c].op = "update" THEN [perms EXCEPT ![r] = req[c].perms] ELSE perms
  /\ stale' = IF tag[c] # etag[r] THEN stale \cup {req[c].op} ELSE stale
  /\ End(c)
  /\ UNCHANGED <<status, orgRoles, projectRoles, missed, beyond>>

(* The fallback branch of the statement reads the snapshot: with the       *)
(* client's etag there it reports sql.ErrNoRows, else a mismatch.          *)
UpdateNothing(c) ==
  LET r == req[c].role IN
  /\ pc[c] = "update" /\ req[c].op \in {"update", "rename"}
  /\ ~Matches(c)
  /\ missed' = IF snapshot[c] = tag[c] /\ status[r] = "present"
               THEN missed \cup {req[c].op} ELSE missed
  /\ End(c)
  /\ UNCHANGED <<table, stale, beyond>>

(* modifyCustomRolePermissionsQuery compares the etag in its snapshot and  *)
(* updates the row by its id, if any permission has changed.               *)
ModifyCustomRolePermissions(c) ==
  LET r == req[c].role IN
  /\ pc[c] = "update" /\ req[c].op = "modify"
  /\ snapshot[c] = tag[c] /\ status[r] = "present"
  /\ perms' = [perms EXCEPT ![r] = NextPerms(c)]
  /\ IF NextPerms(c) # perms[r] THEN Rotate(r) ELSE UNCHANGED etag
  /\ stale' = IF tag[c] # etag[r] THEN stale \cup {"modify"} ELSE stale
  /\ End(c)
  /\ UNCHANGED <<status, orgRoles, projectRoles, missed, beyond>>

ModifyNothing(c) ==
  /\ pc[c] = "update" /\ req[c].op = "modify"
  /\ snapshot[c] # tag[c] \/ status[req[c].role] # "present"
  /\ Rollback(c)

Ready(c, op) == pc[c] = "allowed" /\ req[c].op = op

CreateCustomRole(c) ==
  LET r == req[c].role IN
  /\ Ready(c, "create") /\ status[r] = "absent"
  /\ status' = [status EXCEPT ![r] = "present"]
  /\ perms' = [perms EXCEPT ![r] = req[c].perms]
  /\ etag' = [etag EXCEPT ![r] = 1]
  /\ End(c)
  /\ UNCHANGED <<orgRoles, projectRoles, history>>

DeleteCustomRole(c) ==
  LET r == req[c].role IN
  /\ Ready(c, "delete") /\ status[r] = "present"
  /\ status' = [status EXCEPT ![r] = "deleted"]
  /\ perms' = [perms EXCEPT ![r] = {}]
  /\ orgRoles' = {a \in orgRoles : a[2] # r}
  /\ projectRoles' = {a \in projectRoles : a[2] # r}
  /\ End(c)
  /\ UNCHANGED <<etag, history>>

(* An assignment that exists, or a role that is gone, rolls back. *)
AssignCustomRoleToProject(c) ==
  LET a == <<req[c].to, req[c].role>> IN
  /\ Ready(c, "assign-project")
  /\ status[req[c].role] = "present" /\ a \notin projectRoles
  /\ projectRoles' = projectRoles \cup {a}
  /\ End(c)
  /\ UNCHANGED <<status, perms, etag, orgRoles, history>>

UnassignCustomRoleFromProject(c) ==
  /\ Ready(c, "unassign-project")
  /\ projectRoles' = projectRoles \ {<<req[c].to, req[c].role>>}
  /\ End(c)
  /\ UNCHANGED <<status, perms, etag, orgRoles, history>>

AssignCustomRoleToOrg(c) ==
  LET r == req[c].role  a == <<req[c].to, r>> IN
  /\ Ready(c, "assign-org")
  /\ status[r] = "present" /\ a \notin orgRoles
  /\ orgRoles' = orgRoles \cup {a}
  /\ beyond' = IF perms[r] \subseteq authority[c] THEN beyond ELSE beyond \cup {"assign-org"}
  /\ End(c)
  /\ UNCHANGED <<status, perms, etag, projectRoles, stale, missed>>

UnassignCustomRoleFromOrg(c) ==
  /\ Ready(c, "unassign-org")
  /\ orgRoles' = orgRoles \ {<<req[c].to, req[c].role>>}
  /\ End(c)
  /\ UNCHANGED <<status, perms, etag, projectRoles, history>>

(* A cancelled context, a lost connection, a constraint of the schema. *)
Abort(c) == pc[c] # "idle" /\ Rollback(c)

Next ==
  \E c \in Calls :
    \/ \E q \in Requests, e \in 0 .. MaxETag : Begin(c, q, e) \/ BeginRename(c, q, e)
    \/ LockCustomRole(c) \/ Authorize(c) \/ ValidateAssignmentScope(c)
    \/ StartUpdate(c) \/ UpdateCustomRole(c) \/ UpdateNothing(c)
    \/ ModifyCustomRolePermissions(c) \/ ModifyNothing(c)
    \/ CreateCustomRole(c) \/ DeleteCustomRole(c)
    \/ AssignCustomRoleToProject(c) \/ UnassignCustomRoleFromProject(c)
    \/ AssignCustomRoleToOrg(c) \/ UnassignCustomRoleFromOrg(c)
    \/ Abort(c)

Spec == Init /\ [][Next]_vars
-----------------------------------------------------------------------------
TypeOK ==
  /\ status \in [Roles -> {"absent", "present", "deleted"}]
  /\ perms \in [Roles -> SUBSET Perms]
  /\ etag \in [Roles -> 0 .. MaxETag]
  /\ orgRoles \subseteq Users \X Roles
  /\ projectRoles \subseteq Users \X Roles
  /\ pc \in [Calls -> {"idle", "lock", "locked", "allowed", "valid", "update"}]
  /\ req \in [Calls -> Requests \cup {NoRequest}]
  /\ tag \in [Calls -> 0 .. MaxETag]
  /\ authority \in [Calls -> SUBSET Perms]
  /\ snapshot \in [Calls -> 0 .. MaxETag]
  /\ stale \subseteq ETagged
  /\ missed \subseteq ETagged
  /\ beyond \subseteq Operations
  /\ \A c \in Calls : pc[c] = "idle" <=> req[c] = NoRequest
  /\ \A c \in Calls : pc[c] = "idle" => authority[c] = {}

(* A role that is assigned in a project never carries a permission that    *)
(* needs organization scope, although the assignment and the change of the *)
(* role are different transactions that each check the other's state       *)
(* (custom_role.go:387 and 584).                                           *)
ScopeHolds ==
  \A r \in Roles : HasProjectAssignments(r) => ProjectAssignable(perms[r])

Checked(c) ==
  pc[c] \in {"allowed", "valid", "update"} /\ req[c].op \in Locking

(* What an actor changes, deletes or assigns in a project stays within the *)
(* authority the call has read, from the check to the commit: nobody else  *)
(* changes the role in between (rbac.go:37).                               *)
ChecksHold == \A c \in Calls : Checked(c) => ChangedPerms(c) \subseteq authority[c]

(* A role that was resolved under the lock is there until the transaction  *)
(* ends: "sql.ErrNoRows is an impossible state" (custom_role.go:297, 341). *)
ResolvedRoleStays ==
  \A c \in Calls : Checked(c) => status[req[c].role] = "present"

(* An update with an etag that is no longer the role's changes nothing,    *)
(* whatever commits while its statement waits.                             *)
UpdatesAreNotStale == stale \subseteq {"modify"}

(* What core/README.md says of ETags, of every operation: a stale one is   *)
(* ErrETagMismatch.                                                        *)
ModifiesAreNotStale == "modify" \notin stale

(* UpdateCustomRole of the store reports sql.ErrNoRows only for a role the *)
(* organization does not have, and a mismatch for one that has changed     *)
(* (store_custom_role.go:60).                                              *)
NothingIsMissed == missed = {}

(* An actor assigns a role in the organization only if it holds every      *)
(* permission the role grants (core/rbac/README.md, Custom-role            *)
(* authorization).                                                         *)
OrgGrantsWithinAuthority == beyond = {}
=============================================================================
