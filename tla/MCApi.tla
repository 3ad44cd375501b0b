------------------------------- MODULE MCApi -------------------------------
(* Instances of Gate, Lists and Access for TLC.  Gate follows one call     *)
(* through the interceptors to its answer, Lists a client from page to     *)
(* page, Access the rows both depend on; a behaviour is of one of them.    *)
EXTENDS Gate, Lists, Access

VARIABLE part   \* whose behaviour it is

(* The control project of the system organization, and the control project *)
(* and another project of an organization.                                 *)
MCOrgOf == ("ops" :> "system") @@ ("desk" :> "acme") @@ ("site" :> "acme")

(* ann may be given a role at each scope, with every permission it can     *)
(* have there that is not had at a narrower one.                           *)
MCGrantable ==
  {[user |-> "ann", scope |-> SystemScope, place |-> "system",
    permissions |-> SystemOnlyPermissions \cup {"org:create"}],
   [user |-> "ann", scope |-> OrganizationScope, place |-> "acme",
    permissions |-> OrganizationAdminPermissions],
   [user |-> "ann", scope |-> ProjectScope, place |-> "site",
    permissions |-> {p \in PermissionsAssignableToCustomRoles :
                       PermissionAssignmentScope(p) = ProjectScope}]}
-----------------------------------------------------------------------------
(* Bodies that differ from the plain one in what validators tell apart. *)
Known == {<<"PERMISSION", "org:create">>}
Forbidden == {<<"PERMISSION", "user:read">>}
Missing == [Plain EXCEPT !.message = FALSE, !.name = "", !.etag = "malformed"]
OtherAddress == [Plain EXCEPT !.email = "other"]

Bodies ==
  {Plain, Missing, OtherAddress,
   [Plain EXCEPT !.etag = "nil"], [Plain EXCEPT !.etag = "malformed"],
   [Plain EXCEPT !.name = ""], [Plain EXCEPT !.name = "padded"],
   [Plain EXCEPT !.project = "padded"], [Plain EXCEPT !.id = "malformed"],
   [Plain EXCEPT !.user = "malformed"], [Plain EXCEPT !.email = "malformed"],
   [Plain EXCEPT !.secret = ""], [Plain EXCEPT !.mask = {}],
   [Plain EXCEPT !.mask = {"id"}],
   [Plain EXCEPT !.mask = {"name", "permissions"}, !.perms = Forbidden],
   [Plain EXCEPT !.mask = {"permissions"}, !.perms = Known],
   [Plain EXCEPT !.perms = {OtherEnum}], [Plain EXCEPT !.add = {OtherEnum}],
   [Plain EXCEPT !.add = Known, !.remove = Known], [Plain EXCEPT !.remove = Known],
   [Plain EXCEPT !.page = "malformed"], [Plain EXCEPT !.page = "other"],
   [Plain EXCEPT !.order = "malformed"], [Plain EXCEPT !.filter = "negative"]}

AnySession == [NoSession EXCEPT !.project = "site"]

(* Bodies that a method answers otherwise than the plain one. *)
BodiesOf(m) ==
  {Plain} \cup {b \in Bodies : Serve(m, b, "none") # "OK"
                                 \/ Returns(m, AnySession, b) # Returns(m, AnySession, Plain)}

(* The project a method is meant for. *)
Right(m) ==
  IF m \in systemControlProjectMethods THEN "ops"
  ELSE IF m \in orgControlProjectMethods THEN "desk" ELSE "site"

To(m, project, key, via, b) == Call(m, "ann", project, key, via, b)

AnyBody == UNION {{To(m, Right(m), "absent", "grpc", b) : b \in BodiesOf(m)} : m \in Methods}

AnyTransport ==
  {To(m, Right(m), "absent", via, Plain) :
     m \in Methods, via \in {"grpc", "http", "http, prefixed headers"}}
  \cup {To(m, Right(m), "absent", "http, prefixed headers", Missing) :
          m \in {"UpdateRole", "UpdateUser"}}

AnyCaller ==
  {Call(m, u, Right(m), "absent", "grpc", Plain) :
     m \in {"GetUser", "GetRole"} \cup Reflection, u \in {"absent", "nobody", "ann"}}

AnyProject ==
  {To(m, p, "absent", "grpc", Plain) :
     m \in {"ListSystemRoles", "ListOrganizationUsers", "CreateRole",
            "AssignRoleToProject", "ListProjects"},
     p \in {"absent", "gone", "ops", "desk", "site"}}

AnyKey ==
  {To(m, Right(m), "key", "grpc", b) :
     m \in {"RequestMagicLink", "GetUser"}, b \in {Plain, OtherAddress}}
  \cup {To(m, Right(m), "not a UUID", "grpc", Plain) : m \in {"RequestMagicLink", "GetUser"}}

MCTraffic == AnyBody \cup AnyTransport \cup AnyCaller \cup AnyProject \cup AnyKey
-----------------------------------------------------------------------------
(* An organization with two projects and one with one, each with a role. *)
MCHomeOf == ("desk" :> "acme") @@ ("site" :> "acme") @@ ("hub" :> "zeta")
MCRoleHome == ("editor" :> "acme") @@ ("clerk" :> "zeta")
MCCarried == {{"custom-role:read"}, {"custom-role:assign-project"}}
MCSeeded == ("finder" :> {"project:discover-all", "user:read"})
-----------------------------------------------------------------------------
G(A) == part = "gate" /\ A /\ UNCHANGED <<listsVars, accessVars, part>>
L(A) == part = "lists" /\ A /\ UNCHANGED <<gateVars, accessVars, part>>
X(A) == part = "access" /\ A /\ UNCHANGED <<gateVars, listsVars, part>>

(* The other parts keep to one of their initial states. *)
MCInit ==
  /\ part \in {"gate", "lists", "access"}
  /\ GateInit /\ ListsInit /\ AccessInit
  /\ part # "gate" => grants = {}
  /\ part # "lists" => listed = << >>

MCNext ==
  \/ \E c \in Traffic : G(Arrive(c))
  \/ G(Authenticate) \/ G(RejectHeaders) \/ G(RejectCaller)
  \/ G(ResolvePermissions) \/ G(FailSession)
  \/ G(Admit) \/ G(Deny) \/ G(Handle) \/ G(HandleWorkflow) \/ G(Forget)
  \/ \E g \in Grantable : G(Grant(g)) \/ G(Revoke(g))
  \/ \E u \in Users, o \in Orgs : G(Join(u, o))
  \/ \E m \in Listings : \E o \in Orders(m), f \in Filters(m), n \in PageSizes :
       L(FirstPage(m, o, f, n))
  \/ \E o \in Orders(walk.method), f \in Filters(walk.method), n \in PageSizes :
       L(NextPage(o, f, n))
  \/ L(CountRows)
  \/ \E i, l \in RowIds, n \in Names : L(InsertRow(i, l, n))
  \/ \E i \in RowIds : L(RemoveRow(i))
  \/ \E i \in RowIds, n \in Names, t \in 1..MaxChanges : L(UpdateUserRow(i, n, t))
  \/ \E i, l \in RowIds : L(RenameRole(i, l))
  \/ \E u \in Persons, o \in Homes : X(ensureOrganizationMemberQuery(u, o))
  \/ \E r \in DOMAIN RoleHome, ps \in Carried :
       X(createCustomRoleQuery(r, ps)) \/ X(setCustomRolePermissions(r, ps))
  \/ \E r \in DOMAIN RoleHome : X(deleteCustomRole(r))
  \/ \E u \in Persons, r \in DOMAIN RoleHome, p \in DOMAIN HomeOf :
       X(assignCustomRoleToProjectQuery(u, r, p))
         \/ X(unassignCustomRoleFromProjectQuery(u, r, p))
  \/ \E u \in Persons, r \in DOMAIN RoleHome, o \in Homes :
       X(assignCustomRoleToOrgQuery(u, r, o)) \/ X(unassignCustomRoleFromOrgQuery(u, r, o))
  \/ \E u \in Persons, n \in DOMAIN Seeded :
       X(assignSystemRoleQuery(u, n)) \/ X(unassignSystemRoleQuery(u, n))

MCSpec == MCInit /\ [][MCNext]_<<gateVars, listsVars, accessVars, part>>

(* The state of the interceptors of api/grpc, of the walks over lists and  *)
(* of the rows of the schemas org and rbac is of its types, whichever is   *)
(* followed; an answer has a status, and foreign keys hold.                *)
TypesOK == GateTypeOK /\ ListsTypeOK /\ AccessTypeOK
=============================================================================
