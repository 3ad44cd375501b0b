------------------------------- MODULE Access -------------------------------
(***************************************************************************)
(* Who has access to what, over several organizations: the rows of         *)
(* membership, roles and assignments with the statements that write them,  *)
(* and the queries that read them.  Each question is asked by more than    *)
(* one query: what the gate resolves, what a page of a list shows and what *)
(* its total counts are written separately, with joins of their own.       *)
(*                                                                         *)
(* Statements are atomic here; how they interleave is the subject of       *)
(* SystemRoles, CustomRoles and Organizations.                             *)
(***************************************************************************)
EXTENDS Permissions, Integers

CONSTANTS
  Persons,  \* users
  HomeOf,   \* the organization of each project
  RoleHome, \* the organization of each custom role there may be
  Carried,  \* what custom roles may carry: sets of permissions
  Seeded    \* the permissions of each system role

ASSUME AccessAssumption ==
  /\ \A ps \in Carried : ps \subseteq PermissionsAssignableToCustomRoles
  /\ \A n \in DOMAIN Seeded : Seeded[n] \subseteq AllPermissions

Homes == {HomeOf[p] : p \in DOMAIN HomeOf}

VARIABLES
  membership,     \* pairs of a user and an organization
  carries,        \* the custom roles there are: role -> permissions
  projectRoles,   \* assignments in a project: [user, place, role]
  orgRoles,       \* assignments in an organization, the same
  systemRoles     \* system roles of users: [user, role]

accessVars == <<membership, carries, projectRoles, orgRoles, systemRoles>>

In(u, place, r) == [user |-> u, place |-> place, role |-> r]
-----------------------------------------------------------------------------
(* The functions of the schema rbac. *)
Of(assignments, u, place) == {a \in assignments : a.user = u /\ a.place = place}

CarriedBy(assignments) == UNION {carries[a.role] : a \in assignments}

system_permission_ids(u) == UNION {Seeded[a.role] : a \in {s \in systemRoles : s.user = u}}

org_permission_ids(u, o) == CarriedBy(Of(orgRoles, u, o)) \cup system_permission_ids(u)

project_permission_ids(u, p) ==
  CarriedBy(Of(projectRoles, u, p)) \cup org_permission_ids(u, HomeOf[p])

accessible_project_ids(u) ==
  {a.place : a \in {x \in projectRoles : x.user = u}}
    \cup {p \in DOMAIN HomeOf : Of(orgRoles, u, HomeOf[p]) # {}}
    \cup {p \in DOMAIN HomeOf : "project:discover-all" \in system_permission_ids(u)}
-----------------------------------------------------------------------------
(* The pages of the lists, all in one, and their totals.  The total of a   *)
(* list of an unknown user, or of one who is no member, is no row, which   *)
(* the caller is told.                                                     *)
NoRow == -1

IsMember(u, o) == <<u, o>> \in membership

(* Mutant: the assignments are not joined with the project. *)
userProjectCustomRolesAnywhere(u, p) ==
  {r \in DOMAIN carries :
     /\ IsMember(u, HomeOf[p]) /\ RoleHome[r] = HomeOf[p]
     /\ \E a \in projectRoles : a.user = u /\ a.role = r}

userProjectCustomRolesQuery(u, p) ==
  {r \in DOMAIN carries :
     /\ IsMember(u, HomeOf[p]) /\ RoleHome[r] = HomeOf[p]
     /\ In(u, p, r) \in projectRoles}

userProjectCustomRoleCountQuery(u, p) ==
  IF IsMember(u, HomeOf[p]) THEN Cardinality(Of(projectRoles, u, p)) ELSE NoRow

userOrgCustomRolesQuery(u, o) ==
  {r \in DOMAIN carries : IsMember(u, o) /\ RoleHome[r] = o /\ In(u, o, r) \in orgRoles}

userOrgCustomRoleCountQuery(u, o) ==
  IF IsMember(u, o) THEN Cardinality(Of(orgRoles, u, o)) ELSE NoRow

userSystemRolesByExternalIDQuery(u) ==
  {n \in DOMAIN Seeded : [user |-> u, role |-> n] \in systemRoles}

userSystemRoleCountByExternalIDQuery(u) == Cardinality({s \in systemRoles : s.user = u})

customRolesQuery(o) == {r \in DOMAIN carries : RoleHome[r] = o}

accessibleProjectsQuery(u) == DOMAIN HomeOf \cap accessible_project_ids(u)

accessibleProjectCountQuery(u) == Cardinality(accessible_project_ids(u))

organizationUsersQuery(o, p) ==
  {u \in Persons : IsMember(u, o) /\ HomeOf[p] = o /\ p \in accessible_project_ids(u)}

organizationUserCountQuery(o, p) ==
  IF HomeOf[p] = o THEN Cardinality({u \in Persons : IsMember(u, o)
                                       /\ p \in accessible_project_ids(u)}) ELSE NoRow
-----------------------------------------------------------------------------
(* Statements. *)
ensureOrganizationMemberQuery(u, o) ==
  /\ membership' = membership \cup {<<u, o>>}
  /\ UNCHANGED <<carries, projectRoles, orgRoles, systemRoles>>

createCustomRoleQuery(r, ps) ==
  /\ r \notin DOMAIN carries
  /\ carries' = [x \in DOMAIN carries \cup {r} |-> IF x = r THEN ps ELSE carries[x]]
  /\ UNCHANGED <<membership, projectRoles, orgRoles, systemRoles>>

ProjectAssignable(ps) == MinimumAssignmentScope(ps) = ProjectScope

(* Updating and modifying a role; while it is assigned in a project it may *)
(* carry only what means something in a project.                           *)
setCustomRolePermissions(r, ps) ==
  /\ r \in DOMAIN carries
  /\ (\E a \in projectRoles : a.role = r) => ProjectAssignable(ps)
  /\ carries' = [carries EXCEPT ![r] = ps]
  /\ UNCHANGED <<membership, projectRoles, orgRoles, systemRoles>>

Without(assignments, r) == {a \in assignments : a.role # r}

deleteCustomRole(r) ==
  /\ r \in DOMAIN carries
  /\ projectRoles' = Without(projectRoles, r) /\ orgRoles' = Without(orgRoles, r)
  /\ carries' = [x \in DOMAIN carries \ {r} |-> carries[x]]
  /\ UNCHANGED <<membership, systemRoles>>

assignCustomRoleToProjectQuery(u, r, p) ==
  /\ r \in DOMAIN carries /\ RoleHome[r] = HomeOf[p] /\ IsMember(u, HomeOf[p])
  /\ ProjectAssignable(carries[r])
  /\ projectRoles' = projectRoles \cup {In(u, p, r)}
  /\ UNCHANGED <<membership, carries, orgRoles, systemRoles>>

unassignCustomRoleFromProjectQuery(u, r, p) ==
  /\ IsMember(u, HomeOf[p]) /\ r \in customRolesQuery(HomeOf[p])
  /\ projectRoles' = projectRoles \ {In(u, p, r)}
  /\ UNCHANGED <<membership, carries, orgRoles, systemRoles>>

assignCustomRoleToOrgQuery(u, r, o) ==
  /\ IsMember(u, o) /\ r \in customRolesQuery(o)
  /\ orgRoles' = orgRoles \cup {In(u, o, r)}
  /\ UNCHANGED <<membership, carries, projectRoles, systemRoles>>

unassignCustomRoleFromOrgQuery(u, r, o) ==
  /\ IsMember(u, o) /\ r \in customRolesQuery(o)
  /\ orgRoles' = orgRoles \ {In(u, o, r)}
  /\ UNCHANGED <<membership, carries, projectRoles, systemRoles>>

assignSystemRoleQuery(u, n) ==
  /\ systemRoles' = systemRoles \cup {[user |-> u, role |-> n]}
  /\ UNCHANGED <<membership, carries, projectRoles, orgRoles>>

unassignSystemRoleQuery(u, n) ==
  /\ systemRoles' = systemRoles \ {[user |-> u, role |-> n]}
  /\ UNCHANGED <<membership, carries, projectRoles, orgRoles>>

AccessInit ==
  /\ membership = {} /\ carries = << >>
  /\ projectRoles = {} /\ orgRoles = {} /\ systemRoles = {}

WriteRole(r) ==
  \/ \E ps \in Carried : createCustomRoleQuery(r, ps) \/ setCustomRolePermissions(r, ps)
  \/ deleteCustomRole(r)

WriteAssignment(u, r) ==
  \/ \E p \in DOMAIN HomeOf : assignCustomRoleToProjectQuery(u, r, p)
                                \/ unassignCustomRoleFromProjectQuery(u, r, p)
  \/ \E o \in Homes : assignCustomRoleToOrgQuery(u, r, o)
                        \/ unassignCustomRoleFromOrgQuery(u, r, o)

AccessNext ==
  \/ \E u \in Persons, o \in Homes : ensureOrganizationMemberQuery(u, o)
  \/ \E r \in DOMAIN RoleHome : WriteRole(r) \/ \E u \in Persons : WriteAssignment(u, r)
  \/ \E u \in Persons, n \in DOMAIN Seeded :
       assignSystemRoleQuery(u, n) \/ unassignSystemRoleQuery(u, n)

AccessSpec == AccessInit /\ [][AccessNext]_accessVars
-----------------------------------------------------------------------------
(* The foreign keys of the assignments hold by what the statements select, *)
(* so that none of them fails for it.                                      *)
AccessTypeOK ==
  /\ membership \subseteq Persons \X Homes
  /\ \A a \in projectRoles : /\ IsMember(a.user, HomeOf[a.place])
                             /\ a.role \in customRolesQuery(HomeOf[a.place])
  /\ \A a \in orgRoles : IsMember(a.user, a.place) /\ a.role \in customRolesQuery(a.place)
  /\ \A s \in systemRoles : s.user \in Persons /\ s.role \in DOMAIN Seeded

\* A page and the total agree, or there is no row and nothing to show.
Agree(rows, total) == total = (IF rows = {} /\ total = NoRow THEN NoRow ELSE Cardinality(rows))

(* The queries of pgrbac and pgorg agree although each has its own joins:  *)
(* the lists of a user's roles account for every permission the gate       *)
(* resolves in a project, totals count what pages show, whoever holds a    *)
(* custom role in a project is listed with it and finds it, and without    *)
(* project:discover-all only a member finds it (core/org/README.md).       *)
AccessIsListed ==
  \A u \in Persons, p \in DOMAIN HomeOf :
    LET o == HomeOf[p]
        held == userProjectCustomRolesQuery(u, p) \cup userOrgCustomRolesQuery(u, o)
        system == userSystemRolesByExternalIDQuery(u)
    IN /\ project_permission_ids(u, p) =
            (UNION {carries[r] : r \in held}) \cup (UNION {Seeded[n] : n \in system})
       /\ Agree(userProjectCustomRolesQuery(u, p), userProjectCustomRoleCountQuery(u, p))
       /\ Agree(userOrgCustomRolesQuery(u, o), userOrgCustomRoleCountQuery(u, o))
       /\ Agree(system, userSystemRoleCountByExternalIDQuery(u))
       /\ Agree(accessibleProjectsQuery(u), accessibleProjectCountQuery(u))
       /\ \A h \in Homes :
            Agree(organizationUsersQuery(h, p), organizationUserCountQuery(h, p))
       /\ held # {} => u \in organizationUsersQuery(o, p) /\ p \in accessibleProjectsQuery(u)
       /\ p \in accessibleProjectsQuery(u) =>
            IsMember(u, o) \/ "project:discover-all" \in system_permission_ids(u)
=============================================================================
