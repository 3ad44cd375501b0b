---------------------------- MODULE MCCustomRoles ----------------------------
(* An instance of CustomRoles for TLC: the founder holds everything        *)
(* through the managed role, the manager a project permission at system    *)
(* scope, and there is one role to create.                                 *)
EXTENDS CustomRoles, TLC

CONSTANTS founder, manager, admin, role, inProject, inOrg, c1, c2

MCSystemPerms == (founder :> {}) @@ (manager :> {inProject})

Ask(op, by, to, ps, add, remove) ==
  [op |-> op, by |-> by, role |-> role, to |-> to, perms |-> ps, add |-> add, remove |-> remove]

MCRequests ==
  {Ask(op, founder, founder, {}, {}, {}) : op \in {"rename", "delete"}}
    \cup {Ask("create", founder, founder, {inProject}, {}, {}),
          Ask("update", founder, founder, {inProject}, {}, {}),
          Ask("update", founder, founder, {inOrg}, {}, {}),
          Ask("modify", founder, founder, {}, {inOrg}, {}),
          Ask("modify", manager, founder, {}, {}, {inProject})}
    \cup {Ask(op, manager, manager, {}, {}, {}) :
            op \in {"assign-project", "unassign-project", "assign-org", "unassign-org"}}
    \cup {[Ask("delete", founder, founder, {}, {}, {}) EXCEPT !.role = admin]}

MCSymmetry == Permutations(Calls)
=============================================================================
