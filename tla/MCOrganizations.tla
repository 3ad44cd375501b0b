--------------------------- MODULE MCOrganizations ---------------------------
(***************************************************************************)
(* Instances of Organizations for TLC.  Names that differ in case only are *)
(* "control" and "Control" for projects, "ada" and "Ada" for accounts.     *)
(***************************************************************************)
EXTENDS Organizations, TLC

MCText == {"root", "ada", "Ada", "acme", "web", "control", "Control"}
MCLower == [t \in MCText |-> CASE t = "Ada"     -> "ada"
                               [] t = "Control" -> "control"
                               [] OTHER         -> t]

(* Organization 1 is asked for before and after it exists; both calls may  *)
(* create "acme", with a project that conflicts or not, for somebody or    *)
(* for nobody.                                                             *)
MCRequests ==
  {r \in Request :
     CASE r.op = "create-user"     -> r.email \in {"ada", "Ada"}
       [] r.op = "create-org-user" -> r.org = 1 /\ r.email \in {"root", "ada", "Ada"}
       [] r.op = "create-project"  -> r.org = 1 /\ r.name \in {"web", "Control"}
       [] OTHER -> /\ r.name \in {"acme", "web"} /\ r.creator \in {1, NoUser}
                   /\ r.project \in {"web", "Control"}}

MCSymmetry == Permutations(Calls)
=============================================================================
