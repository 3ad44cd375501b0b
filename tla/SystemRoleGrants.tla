-------------------------- MODULE SystemRoleGrants --------------------------
(***************************************************************************)
(* What system-role management promises (core/rbac/README.md, "System-role *)
(* assignment authorization"): assignments change one at a time, each      *)
(* change is justified by the authority its actor holds at that very       *)
(* moment, and no revoke leaves the system without a user who holds every  *)
(* registered permission.  SystemRoles, which has the transactions and the *)
(* locks, is shown to implement this.                                      *)
(***************************************************************************)
CONSTANTS
  Calls,        \* concurrent calls, each reusable
  Users,        \* accounts
  Permissions,  \* the permission registry, rbac.permissions
  Roles,        \* the seeded system roles
  RolePerms,    \* the permissions each system role carries, a function on Roles
  Requests,     \* the requests that arrive
  NoRequest     \* what an idle call serves

VARIABLES
  assigned,     \* rbac.system_role_assignments: a set of <<user, role>>
  req           \* the request each call serves

(* The effective system permissions of u under the assignments asg. *)
SystemPermissions(u, asg) ==
  UNION {RolePerms[r] : r \in {q \in Roles : <<u, q>> \in asg}}

FullyPrivileged(u, asg) == SystemPermissions(u, asg) = Permissions

HasAdministrator(asg) == \E u \in Users : FullyPrivileged(u, asg)

Justified(r) ==
  r.role \in Roles /\ RolePerms[r.role] \subseteq SystemPermissions(r.actor, assigned)
-----------------------------------------------------------------------------
Init ==
  /\ assigned = {}
  /\ req = [c \in Calls |-> NoRequest]

Submit(c) ==
  /\ req[c] = NoRequest
  /\ \E r \in Requests : req' = [req EXCEPT ![c] = r]
  /\ UNCHANGED assigned

Return(c) ==
  /\ req[c] # NoRequest
  /\ req' = [req EXCEPT ![c] = NoRequest]

Add(r) ==
  /\ r.target \in Users /\ r.role \in Roles
  /\ <<r.target, r.role>> \notin assigned
  /\ assigned' = assigned \cup {<<r.target, r.role>>}

Grant(c) ==
  /\ req[c].op = "assign"
  /\ Justified(req[c])
  /\ Add(req[c])
  /\ Return(c)

Revoke(c) ==
  /\ req[c].op = "unassign"
  /\ Justified(req[c])
  /\ LET row == <<req[c].target, req[c].role>> IN
       /\ row \in assigned
       /\ assigned' = assigned \ {row}
  /\ HasAdministrator(assigned')
  /\ Return(c)

(* The bootstrap CLI needs no authority. *)
Bootstrap(c) ==
  /\ req[c].op = "bootstrap"
  /\ Add(req[c])
  /\ Return(c)

Fail(c) == Return(c) /\ UNCHANGED assigned

Next == \E c \in Calls : Submit(c) \/ Grant(c) \/ Revoke(c) \/ Bootstrap(c) \/ Fail(c)

Spec == Init /\ [][Next]_<<assigned, req>>
=============================================================================
