----------------------------- MODULE SystemRoles -----------------------------
(***************************************************************************)
(* core/rbac/system_role.go over core/pgstores/pgrbac: AssignSystemRole,   *)
(* UnassignSystemRole and BootstrapAssignSystemRole as concurrent          *)
(* PostgreSQL transactions at READ COMMITTED.  One action is one statement *)
(* of a transaction; a statement reads what is committed when it starts,   *)
(* and a write is seen by the others once its transaction commits.  The    *)
(* advisory locks are transaction-level: taken in the order the code asks  *)
(* for them and released by commit or rollback.                            *)
(***************************************************************************)
EXTENDS Naturals, FiniteSets

CONSTANTS
  Calls,        \* concurrent calls of the three operations, each reusable
  Users,        \* accounts, as natural numbers in the byte order of their UUIDs
  NoUser,       \* a UUID that names no account
  Permissions,  \* the permission registry, rbac.permissions
  Roles,        \* the seeded system roles
  NoRole,       \* a role name that is not seeded
  RolePerms,    \* the permissions each system role carries
  Requests      \* the requests that arrive

(* The management lock has key 0, which is the key of no user. *)
Management == 0
Locks == {Management} \cup Users

Ops == {"assign", "unassign", "bootstrap"}
Request ==
  [op : {"assign", "unassign"}, actor : Users,
   target : Users \cup {NoUser}, role : Roles \cup {NoRole}]
    \cup [op : {"bootstrap"}, actor : {NoUser},
          target : Users \cup {NoUser}, role : Roles \cup {NoRole}]
NoRequest == [op |-> "none", actor |-> NoUser, target |-> NoUser, role |-> NoRole]

ASSUME CallsAssumption == IsFiniteSet(Calls)
ASSUME UsersAssumption == Users \subseteq Nat \ {Management} /\ NoUser \notin Users
ASSUME RolesAssumption == NoRole \notin Roles /\ RolePerms \in [Roles -> SUBSET Permissions]
ASSUME RequestsAssumption == Requests \subseteq Request

VARIABLES
  assigned,     \* committed rows <<user, role>> of rbac.system_role_assignments
  pc,           \* how far each call's transaction has come
  req,          \* the request each call serves
  held          \* the advisory locks each call's transaction holds

vars == <<assigned, pc, req, held>>

Atomic == INSTANCE SystemRoleGrants

SystemPermissions(u) == Atomic!SystemPermissions(u, assigned)
HasAdministrator(asg) == Atomic!HasAdministrator(asg)

Row(c) == <<req[c].target, req[c].role>>

(* The assignment changes the open transactions have written. *)
Written(row) == {c \in Calls : pc[c] = "written" /\ Row(c) = row}

(* Mutants: a revoke without LockSystemRoleManagement; a change that locks *)
(* only its target.                                                        *)
NeededWithoutManagement(c) == {req[c].actor, req[c].target} \cap Users

NeededWithoutActor(c) ==
  (IF req[c].op = "unassign" THEN {Management} ELSE {}) \cup ({req[c].target} \cap Users)

(* LockSystemRoleManagement, then lockSystemRoleUsers: LockSystemRoleUser  *)
(* selects the user's row, so an unknown UUID locks nothing.               *)
Needed(c) ==
  (IF req[c].op = "unassign" THEN {Management} ELSE {})
    \cup ({req[c].actor, req[c].target} \cap Users)

Missing(c) == Needed(c) \ held[c]

(* Mutant: lockSystemRoleUsers takes the actor before the target. *)
IsNextLockActorFirst(c, l) ==
  l \in Missing(c) /\ (Management \in Missing(c) => l = Management)
                   /\ (req[c].actor \in Missing(c) \ {Management} => l \in {Management, req[c].actor})

(* The management lock comes first, the users follow in UUID order. *)
IsNextLock(c, l) == l \in Missing(c) /\ \A k \in Missing(c) : l <= k

Holder(l) == {d \in Calls : l \in held[d]}
-----------------------------------------------------------------------------
Init ==
  /\ assigned = {}
  /\ pc = [c \in Calls |-> "idle"]
  /\ req = [c \in Calls |-> NoRequest]
  /\ held = [c \in Calls |-> {}]

(* Mutant: session-level locks, pg_advisory_lock, outlive the transaction. *)
EndKeepingLocks(c) ==
  /\ pc' = [pc EXCEPT ![c] = "idle"]
  /\ req' = [req EXCEPT ![c] = NoRequest]
  /\ UNCHANGED held

(* The transaction ends, committed or rolled back, and frees its locks. *)
End(c) ==
  /\ pc' = [pc EXCEPT ![c] = "idle"]
  /\ req' = [req EXCEPT ![c] = NoRequest]
  /\ held' = [held EXCEPT ![c] = {}]

Advance(c, to) ==
  /\ pc' = [pc EXCEPT ![c] = to]
  /\ UNCHANGED <<assigned, req, held>>

Reject(c) == End(c) /\ UNCHANGED assigned

Begin(c) ==
  /\ pc[c] = "idle"
  /\ \E r \in Requests : req' = [req EXCEPT ![c] = r]
  /\ pc' = [pc EXCEPT ![c] = "locking"]
  /\ UNCHANGED <<assigned, held>>

Lock(c) ==
  /\ pc[c] = "locking"
  /\ \E l \in Locks :
       /\ IsNextLock(c, l)
       /\ Holder(l) = {}
       /\ held' = [held EXCEPT ![c] = @ \cup {l}]
  /\ UNCHANGED <<assigned, pc, req>>

Locked(c) == pc[c] = "locking" /\ Missing(c) = {}

(* Mutant: one common permission is enough. *)
MayChangeWithAny(c) ==
  /\ req[c].role \in Roles
  /\ RolePerms[req[c].role] \cap SystemPermissions(req[c].actor) # {}

(* authorizeSystemRoleChange: sql.ErrNoRows for an unknown role,           *)
(* ErrPermissionDenied when the actor holds less than the role carries.    *)
MayChange(c) ==
  /\ req[c].role \in Roles
  /\ RolePerms[req[c].role] \subseteq SystemPermissions(req[c].actor)

Authorize(c) ==
  /\ Locked(c)
  /\ req[c].op # "bootstrap"
  /\ \/ MayChange(c) /\ Advance(c, "authorized")
     \/ ~MayChange(c) /\ Reject(c)

(* Mutant: the query forgets to leave out the assignment to be removed. *)
MayRemoveCountingItself(c) == Row(c) \in assigned /\ HasAdministrator(assigned)

(* ensureFullyPrivilegedSystemUserRemains: sql.ErrNoRows when there is no  *)
(* such assignment, ErrLastFullyPrivilegedSystemAdmin otherwise.           *)
MayRemove(c) ==
  /\ Row(c) \in assigned
  /\ HasAdministrator(assigned \ {Row(c)})

EnsureRemains(c) ==
  /\ pc[c] = "authorized"
  /\ req[c].op = "unassign"
  /\ \/ MayRemove(c) /\ Advance(c, "checked")
     \/ ~MayRemove(c) /\ Reject(c)

(* store.AssignSystemRole: an INSERT waits for an uncommitted change of    *)
(* the same key; no row is ErrNotFound, a duplicate is ErrAlreadyExists.   *)
MayInsert(c) ==
  /\ req[c].target \in Users
  /\ req[c].role \in Roles
  /\ Row(c) \notin assigned

ReadyToInsert(c) ==
  \/ pc[c] = "authorized" /\ req[c].op = "assign"
  \/ Locked(c) /\ req[c].op = "bootstrap"

Insert(c) ==
  /\ ReadyToInsert(c)
  /\ Written(Row(c)) = {}
  /\ \/ MayInsert(c) /\ Advance(c, "written")
     \/ ~MayInsert(c) /\ Reject(c)

(* store.UnassignSystemRole: the DELETE of a row that is gone is           *)
(* sql.ErrNoRows.                                                          *)
Delete(c) ==
  /\ pc[c] = "checked"
  /\ Written(Row(c)) = {}
  /\ \/ Row(c) \in assigned /\ Advance(c, "written")
     \/ Row(c) \notin assigned /\ Reject(c)

Commit(c) ==
  /\ pc[c] = "written"
  /\ assigned' = IF req[c].op = "unassign" THEN assigned \ {Row(c)}
                                           ELSE assigned \cup {Row(c)}
  /\ End(c)

(* A cancelled context, a lost connection or a failed statement. *)
Abort(c) == pc[c] # "idle" /\ Reject(c)

Step(c) ==
  Lock(c) \/ Authorize(c) \/ EnsureRemains(c) \/ Insert(c) \/ Delete(c) \/ Commit(c)

Next == \E c \in Calls : Begin(c) \/ Step(c) \/ Abort(c)

(* PostgreSQL grants a lock to its waiters in the order they queued, so a  *)
(* call whose lock becomes free again and again is served in the end.      *)
Fairness == \A c \in Calls : WF_vars(Step(c)) /\ SF_vars(Lock(c))

Spec == Init /\ [][Next]_vars

FairSpec == Spec /\ Fairness
-----------------------------------------------------------------------------
Pcs == {"idle", "locking", "authorized", "checked", "written"}

(* Every variable stays in its type, and only an open transaction has a    *)
(* request or a lock.                                                      *)
TypeOK ==
  /\ assigned \subseteq Users \X Roles
  /\ pc \in [Calls -> Pcs]
  /\ req \in [Calls -> Requests \cup {NoRequest}]
  /\ held \in [Calls -> SUBSET Locks]
  /\ \A c \in Calls : pc[c] = "idle" <=> req[c] = NoRequest
  /\ \A c \in Calls : pc[c] = "idle" => held[c] = {}

(* Calls past the superset check of authorizeSystemRoleChange. *)
Authorized(c) == req[c].op # "bootstrap" /\ pc[c] \in {"authorized", "checked", "written"}

(* system_role.go:165-167: between the superset check and the end of the   *)
(* transaction the actor's authority cannot change, so it still covers the *)
(* role when the change is made, whatever commits in between.              *)
AuthorityHolds ==
  \A c \in Calls : Authorized(c) => MayChange(c)

(* system_role.go:188-190: a revoke that passed                            *)
(* ensureFullyPrivilegedSystemUserRemains still leaves a fully privileged  *)
(* user when it commits, although other grants and revokes run meanwhile.  *)
RevokeStaysSafe ==
  \A c \in Calls :
    req[c].op = "unassign" /\ pc[c] \in {"checked", "written"} => MayRemove(c)

(* Once somebody holds every registered permission, somebody always does,  *)
(* whichever revokes, self-revokes included, race (README, "System-role    *)
(* assignment authorization").                                             *)
AdministratorRemains ==
  [][HasAdministrator(assigned) => HasAdministrator(assigned')]_assigned

(* The transactions implement the atomic changes of SystemRoleGrants. *)
AtomicSpec == Atomic!Spec

(* What call c waits for: another call's advisory lock or row. *)
WaitsFor(c, d) ==
  \/ pc[c] = "locking" /\ \E l \in held[d] : IsNextLock(c, l)
  \/ (ReadyToInsert(c) \/ pc[c] = "checked") /\ d \in Written(Row(c))

(* lockSystemRoleUsers orders the locks so that no set of calls can be     *)
(* waiting only for one another.                                           *)
NoDeadlock ==
  \A D \in (SUBSET Calls) \ {{}} : \E c \in D : \A d \in D : ~WaitsFor(c, d)

(* A call that has begun ends: its locks are not held for ever. *)
CallsEnd == \A c \in Calls : pc[c] # "idle" ~> pc[c] = "idle"
=============================================================================
