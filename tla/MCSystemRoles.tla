---------------------------- MODULE MCSystemRoles ----------------------------
(***************************************************************************)
(* An instance of SystemRoles for TLC.  The registry has two permissions.  *)
(* "superadmin" carries both, as the seeded role does; "part1" and "part2" *)
(* carry one each, so that a user may be fully privileged through a union. *)
(***************************************************************************)
EXTENDS SystemRoles

MCPermissions == {"p1", "p2"}
MCRoles == {"superadmin", "part1", "part2"}
MCRolePerms ==
  [r \in MCRoles |-> CASE r = "superadmin" -> {"p1", "p2"}
                       [] r = "part1"      -> {"p1"}
                       [] r = "part2"      -> {"p2"}]

(* Requests of two accounts.  Only account 2 is given both partial roles.  *)
(* Of the requests that name no account or no role, and of bootstraps, a   *)
(* few.                                                                    *)
MCRequests ==
  {r \in Request : /\ r.target = NoUser => r.role = "superadmin" /\ r.actor # 2
                   /\ r.role = NoRole  => r.target = 1 /\ r.actor # 2
                   /\ r.role = "part2" => r.target = 2
                   /\ r.op = "bootstrap" => r.target # 2 /\ r.role \in {"superadmin", NoRole}}
=============================================================================
