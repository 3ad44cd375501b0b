----------------------------- MODULE ApiProofs -----------------------------
(***************************************************************************)
(* Proofs about Access and Lists, for any organizations, projects, users,  *)
(* roles and rows, and about MCApi, the three state machines of the API    *)
(* together.                                                               *)
(*                                                                         *)
(* Referenced is what the foreign keys of the schema rbac would check: no  *)
(* statement deletes or moves a row that an assignment refers to, and each *)
(* one that adds an assignment selects the rows it refers to.  With it,    *)
(* the role of an assignment tells the assignments of a user in one place  *)
(* apart, which is why the totals, that count assignments, and the pages,  *)
(* that show roles, agree.                                                 *)
(*                                                                         *)
(* PagesInv follows a walk by the place it has reached in the order of the *)
(* moment.  The orders are total, so a rank is a number of its own for     *)
(* every row; a row that comes, goes or moves takes at most one row across *)
(* the place reached, and is itself counted.                               *)
(***************************************************************************)
EXTENDS GateProofs, MCApi, SequenceTheorems

(* Assignments to members of a home, at places of it, of roles of it. *)
Refers(assignments, home) ==
  \A a \in assignments :
    /\ a = In(a.user, a.place, a.role)
    /\ a.user \in Persons /\ a.place \in DOMAIN home /\ IsMember(a.user, home[a.place])
    /\ a.role \in DOMAIN carries /\ RoleHome[a.role] = home[a.place]

Itself == [o \in Homes |-> o]   \* the home of an organization

Referenced ==
  /\ membership \subseteq Persons \X Homes
  /\ DOMAIN carries \subseteq DOMAIN RoleHome
  /\ Refers(projectRoles, HomeOf)
  /\ Refers(orgRoles, Itself)
  /\ \A s \in systemRoles :
       /\ s = [user |-> s.user, role |-> s.role]
       /\ s.user \in Persons /\ s.role \in DOMAIN Seeded

Finite == /\ IsFiniteSet(projectRoles) /\ IsFiniteSet(orgRoles)
          /\ IsFiniteSet(systemRoles)

AccessInv == Referenced /\ Finite
-----------------------------------------------------------------------------
(* Every statement keeps the references.  *)
LEMMA RefersTo ==
  ASSUME NEW assignments, NEW home, NEW u \in Persons, NEW x \in DOMAIN home,
         NEW r \in DOMAIN carries, Refers(assignments, home),
         IsMember(u, home[x]), RoleHome[r] = home[x]
  PROVE  Refers(assignments \cup {In(u, x, r)}, home)
BY DEF Refers, In

LEMMA ReferencedStep ==
  ASSUME Referenced, [AccessNext]_accessVars PROVE Referenced'
<1>1. ASSUME NEW u \in Persons, NEW o \in Homes, ensureOrganizationMemberQuery(u, o)
      PROVE  Referenced'
  BY <1>1 DEF ensureOrganizationMemberQuery, Referenced, Refers, IsMember
<1>2. ASSUME NEW r \in DOMAIN RoleHome, NEW ps \in Carried,
             createCustomRoleQuery(r, ps) \/ setCustomRolePermissions(r, ps)
      PROVE  Referenced'
  <2>1. DOMAIN carries \subseteq DOMAIN carries' /\ DOMAIN carries' \subseteq DOMAIN RoleHome
    BY <1>2 DEF createCustomRoleQuery, setCustomRolePermissions, Referenced
  <2>2. UNCHANGED <<membership, projectRoles, orgRoles, systemRoles>>
    BY <1>2 DEF createCustomRoleQuery, setCustomRolePermissions
  <2>3. QED BY <2>1, <2>2 DEF Referenced, Refers, IsMember
<1>3. ASSUME NEW r \in DOMAIN RoleHome, deleteCustomRole(r) PROVE Referenced'
  <2>1. DOMAIN carries' = DOMAIN carries \ {r}
    BY <1>3 DEF deleteCustomRole
  <2>2. /\ projectRoles' = {a \in projectRoles : a.role # r}
        /\ orgRoles' = {a \in orgRoles : a.role # r}
        /\ UNCHANGED <<membership, systemRoles>>
    BY <1>3 DEF deleteCustomRole, Without
  <2>3. QED BY <2>1, <2>2 DEF Referenced, Refers, IsMember
<1>4. ASSUME NEW u \in Persons, NEW r \in DOMAIN RoleHome, NEW p \in DOMAIN HomeOf,
             \/ assignCustomRoleToProjectQuery(u, r, p)
             \/ unassignCustomRoleFromProjectQuery(u, r, p)
      PROVE  Referenced'
  <2>1. /\ UNCHANGED <<membership, carries, orgRoles, systemRoles>>
        /\ \/ projectRoles' \subseteq projectRoles
           \/ /\ projectRoles' = projectRoles \cup {In(u, p, r)}
              /\ r \in DOMAIN carries /\ RoleHome[r] = HomeOf[p] /\ IsMember(u, HomeOf[p])
    BY <1>4 DEF assignCustomRoleToProjectQuery, unassignCustomRoleFromProjectQuery
  <2>2. Refers(projectRoles', HomeOf)
    BY <2>1, RefersTo DEF Referenced, Refers, In
  <2>3. QED BY <2>1, <2>2 DEF Referenced, Refers, IsMember
<1>5. ASSUME NEW u \in Persons, NEW r \in DOMAIN RoleHome, NEW o \in Homes,
             assignCustomRoleToOrgQuery(u, r, o) \/ unassignCustomRoleFromOrgQuery(u, r, o)
      PROVE  Referenced'
  <2>1. /\ UNCHANGED <<membership, carries, projectRoles, systemRoles>>
        /\ \/ orgRoles' \subseteq orgRoles
           \/ /\ orgRoles' = orgRoles \cup {In(u, o, r)}
              /\ r \in DOMAIN carries /\ RoleHome[r] = o /\ IsMember(u, o)
    BY <1>5 DEF assignCustomRoleToOrgQuery, unassignCustomRoleFromOrgQuery, customRolesQuery
  <2>2. Refers(orgRoles', Itself)
    BY <2>1, RefersTo DEF Referenced, Refers, Itself, In
  <2>3. QED BY <2>1, <2>2 DEF Referenced, Refers, IsMember
<1>6. ASSUME NEW u \in Persons, NEW n \in DOMAIN Seeded,
             assignSystemRoleQuery(u, n) \/ unassignSystemRoleQuery(u, n)
      PROVE  Referenced'
  <2>1. /\ UNCHANGED <<membership, carries, projectRoles, orgRoles>>
        /\ systemRoles' \subseteq systemRoles \cup {[user |-> u, role |-> n]}
    BY <1>6 DEF assignSystemRoleQuery, unassignSystemRoleQuery
  <2>2. QED BY <2>1 DEF Referenced, Refers, IsMember
<1>7. CASE UNCHANGED accessVars
  BY <1>7 DEF accessVars, Referenced, Refers, IsMember
<1>8. QED BY <1>1, <1>2, <1>3, <1>4, <1>5, <1>6, <1>7 DEF AccessNext, WriteRole, WriteAssignment

(* Every statement writes one assignment, or deletes some. *)
LEMMA FiniteStep == ASSUME Finite, [AccessNext]_accessVars PROVE Finite'
<1>1. ASSUME NEW S, NEW T, NEW e, IsFiniteSet(S), T \subseteq S \cup {e}
      PROVE  IsFiniteSet(T)
  BY <1>1, FS_AddElement, FS_Subset
<1>2. \E e : projectRoles' \subseteq projectRoles \cup {e}
  BY DEF AccessNext, WriteRole, WriteAssignment, ensureOrganizationMemberQuery,
     createCustomRoleQuery, setCustomRolePermissions, deleteCustomRole, Without,
     assignCustomRoleToProjectQuery, unassignCustomRoleFromProjectQuery,
     assignCustomRoleToOrgQuery, unassignCustomRoleFromOrgQuery, assignSystemRoleQuery,
     unassignSystemRoleQuery, accessVars
<1>3. \E e : orgRoles' \subseteq orgRoles \cup {e}
  BY DEF AccessNext, WriteRole, WriteAssignment, ensureOrganizationMemberQuery,
     createCustomRoleQuery, setCustomRolePermissions, deleteCustomRole, Without,
     assignCustomRoleToProjectQuery, unassignCustomRoleFromProjectQuery,
     assignCustomRoleToOrgQuery, unassignCustomRoleFromOrgQuery, assignSystemRoleQuery,
     unassignSystemRoleQuery, accessVars
<1>4. \E e : systemRoles' \subseteq systemRoles \cup {e}
  BY DEF AccessNext, WriteRole, WriteAssignment, ensureOrganizationMemberQuery,
     createCustomRoleQuery, setCustomRolePermissions, deleteCustomRole, Without,
     assignCustomRoleToProjectQuery, unassignCustomRoleFromProjectQuery,
     assignCustomRoleToOrgQuery, unassignCustomRoleFromOrgQuery, assignSystemRoleQuery,
     unassignSystemRoleQuery, accessVars
<1>5. QED BY <1>1, <1>2, <1>3, <1>4 DEF Finite

LEMMA AccessInvariance == AccessSpec => []AccessInv
<1>1. AccessInit => AccessInv
  BY FS_EmptySet DEF AccessInit, AccessInv, Referenced, Refers, Finite
<1>2. AccessInv /\ [AccessNext]_accessVars => AccessInv'
  BY ReferencedStep, FiniteStep DEF AccessInv
<1>3. QED BY <1>1, <1>2, PTL DEF AccessSpec

(* Nothing that an assignment refers to is missing: the member, the role   *)
(* and its home, which is the organization of the place.                   *)
LEMMA AccessIsTyped == AccessInv => AccessTypeOK
BY DEF AccessInv, Referenced, Refers, Itself, AccessTypeOK, customRolesQuery
-----------------------------------------------------------------------------
(* What the queries of a user show is what the gate resolves, and counts.  *)

LEMMA AgreeWhenEqual ==
  ASSUME NEW rows, NEW total, total = Cardinality(rows) PROVE Agree(rows, total)
BY DEF Agree

LEMMA AgreeWhenAbsent == Agree({}, NoRow)
BY DEF Agree

(* The roles of a set of assignments that tells them apart are as many. *)
LEMMA AsManyRoles ==
  ASSUME NEW S, IsFiniteSet(S), \A a, b \in S : a.role = b.role => a = b
  PROVE  Cardinality({a.role : a \in S}) = Cardinality(S)
<1> DEFINE T == {a.role : a \in S}
           f == [a \in S |-> a.role]
<1>1. f \in Bijection(S, T)
  BY DEF Bijection, Injection, Surjection, IsInjective
<1>2. ExistsBijection(S, T)
  BY <1>1 DEF ExistsBijection
<1>3. QED BY <1>2, FS_Bijection

(* The assignments of a user in a place are of the roles found with it. *)
LEMMA RolesOf ==
  ASSUME NEW assignments, NEW home, Refers(assignments, home), IsFiniteSet(assignments),
         NEW u, NEW x \in DOMAIN home
  PROVE  LET found == {r \in DOMAIN carries : /\ IsMember(u, home[x]) /\ RoleHome[r] = home[x]
                                              /\ In(u, x, r) \in assignments}
             total == Cardinality(Of(assignments, u, x))
         IN /\ found = {a.role : a \in Of(assignments, u, x)}
            /\ total = Cardinality(found)
            /\ Agree(found, IF IsMember(u, home[x]) THEN total ELSE NoRow)
<1> DEFINE held == Of(assignments, u, x)
           found == {r \in DOMAIN carries : /\ IsMember(u, home[x]) /\ RoleHome[r] = home[x]
                                            /\ In(u, x, r) \in assignments}
<1>1. \A a \in held : a = In(u, x, a.role)
  BY DEF Refers, Of, In
<1>2. found = {a.role : a \in held}
  <2>1. ASSUME NEW r \in found PROVE r \in {a.role : a \in held}
    <3>1. In(u, x, r) \in held /\ In(u, x, r).role = r
      BY DEF Of, In
    <3>2. QED BY <3>1
  <2>2. ASSUME NEW a \in held PROVE a.role \in found
    BY <1>1 DEF Refers, Of
  <2>3. QED BY <2>1, <2>2
<1>3. \A a, b \in held : a.role = b.role => a = b
  BY <1>1
<1>4. IsFiniteSet(held)
  BY FS_Subset DEF Of
<1>5. Cardinality(held) = Cardinality(found)
  BY <1>2, <1>3, <1>4, AsManyRoles
<1>6. ~IsMember(u, home[x]) => found = {}
  OBVIOUS
<1>7. Agree(found, IF IsMember(u, home[x]) THEN Cardinality(held) ELSE NoRow)
  BY <1>5, <1>6, AgreeWhenEqual, AgreeWhenAbsent
<1>8. QED BY <1>2, <1>5, <1>7

LEMMA ProjectRoles ==
  ASSUME AccessInv, NEW u, NEW p \in DOMAIN HomeOf
  PROVE  /\ userProjectCustomRolesQuery(u, p) = {a.role : a \in Of(projectRoles, u, p)}
         /\ Agree(userProjectCustomRolesQuery(u, p), userProjectCustomRoleCountQuery(u, p))
BY RolesOf DEF AccessInv, Referenced, Finite, userProjectCustomRolesQuery,
   userProjectCustomRoleCountQuery

LEMMA OrgRoles ==
  ASSUME AccessInv, NEW u, NEW o \in Homes
  PROVE  /\ userOrgCustomRolesQuery(u, o) = {a.role : a \in Of(orgRoles, u, o)}
         /\ Agree(userOrgCustomRolesQuery(u, o), userOrgCustomRoleCountQuery(u, o))
<1>1. o \in DOMAIN Itself /\ Itself[o] = o
  BY DEF Itself
<1>2. LET found == {r \in DOMAIN carries : /\ IsMember(u, Itself[o]) /\ RoleHome[r] = Itself[o]
                                            /\ In(u, o, r) \in orgRoles}
          total == Cardinality(Of(orgRoles, u, o))
      IN /\ found = {a.role : a \in Of(orgRoles, u, o)}
         /\ Agree(found, IF IsMember(u, Itself[o]) THEN total ELSE NoRow)
  BY <1>1, RolesOf DEF AccessInv, Referenced, Finite
<1>3. userOrgCustomRolesQuery(u, o) =
        {r \in DOMAIN carries : /\ IsMember(u, Itself[o]) /\ RoleHome[r] = Itself[o]
                                /\ In(u, o, r) \in orgRoles}
  BY <1>1 DEF userOrgCustomRolesQuery
<1>4. QED BY <1>1, <1>2, <1>3 DEF userOrgCustomRoleCountQuery

LEMMA SystemRolesOf ==
  ASSUME AccessInv, NEW u
  PROVE  LET held == {s \in systemRoles : s.user = u}
         IN /\ userSystemRolesByExternalIDQuery(u) = {s.role : s \in held}
            /\ Cardinality(userSystemRolesByExternalIDQuery(u)) = Cardinality(held)
<1> DEFINE held == {s \in systemRoles : s.user = u}
<1>1. \A s \in held : s = [user |-> u, role |-> s.role] /\ s.role \in DOMAIN Seeded
  BY DEF AccessInv, Referenced
<1>2. userSystemRolesByExternalIDQuery(u) = {s.role : s \in held}
  <2>1. ASSUME NEW n \in userSystemRolesByExternalIDQuery(u)
        PROVE  n \in {s.role : s \in held}
    <3>1. [user |-> u, role |-> n] \in held /\ [user |-> u, role |-> n].role = n
      BY DEF userSystemRolesByExternalIDQuery
    <3>2. QED BY <3>1
  <2>2. ASSUME NEW s \in held PROVE s.role \in userSystemRolesByExternalIDQuery(u)
    BY <1>1 DEF userSystemRolesByExternalIDQuery
  <2>3. QED BY <2>1, <2>2
<1>3. IsFiniteSet(held)
  BY FS_Subset DEF AccessInv, Finite
<1>4. \A s, t \in held : s.role = t.role => s = t
  BY <1>1
<1>5. QED BY <1>2, <1>3, <1>4, AsManyRoles

LEMMA ProjectsAreOneOf ==
  ASSUME AccessInv, NEW u PROVE accessible_project_ids(u) \subseteq DOMAIN HomeOf
BY DEF AccessInv, Referenced, Refers, accessible_project_ids

LEMMA AccessAgrees == AccessInv => AccessIsListed
<1> SUFFICES ASSUME AccessInv, NEW u \in Persons, NEW p \in DOMAIN HomeOf
             PROVE  LET o == HomeOf[p]
                        held == userProjectCustomRolesQuery(u, p)
                                  \cup userOrgCustomRolesQuery(u, o)
                        system == userSystemRolesByExternalIDQuery(u)
                    IN /\ project_permission_ids(u, p) =
                            (UNION {carries[r] : r \in held})
                              \cup (UNION {Seeded[n] : n \in system})
                       /\ Agree(userProjectCustomRolesQuery(u, p),
                                userProjectCustomRoleCountQuery(u, p))
                       /\ Agree(userOrgCustomRolesQuery(u, o),
                                userOrgCustomRoleCountQuery(u, o))
                       /\ Agree(system, userSystemRoleCountByExternalIDQuery(u))
                       /\ Agree(accessibleProjectsQuery(u), accessibleProjectCountQuery(u))
                       /\ \A h \in Homes :
                            Agree(organizationUsersQuery(h, p),
                                  organizationUserCountQuery(h, p))
                       /\ held # {} => /\ u \in organizationUsersQuery(o, p)
                                       /\ p \in accessibleProjectsQuery(u)
                       /\ p \in accessibleProjectsQuery(u) =>
                            \/ IsMember(u, o)
                            \/ "project:discover-all" \in system_permission_ids(u)
  BY DEF AccessIsListed
<1> DEFINE o == HomeOf[p]
           inProject == userProjectCustomRolesQuery(u, p)
           inOrg == userOrgCustomRolesQuery(u, o)
           system == userSystemRolesByExternalIDQuery(u)
<1>1. o \in Homes
  BY DEF Homes
<1>2. /\ inProject = {a.role : a \in Of(projectRoles, u, p)}
      /\ inOrg = {a.role : a \in Of(orgRoles, u, o)}
      /\ system = {s.role : s \in {t \in systemRoles : t.user = u}}
  BY <1>1, ProjectRoles, OrgRoles, SystemRolesOf
<1>3. project_permission_ids(u, p) =
        (UNION {carries[r] : r \in inProject \cup inOrg})
          \cup (UNION {Seeded[n] : n \in system})
  <2>1. \A e : e \in CarriedBy(Of(projectRoles, u, p)) <=> \E r \in inProject : e \in carries[r]
    BY <1>2 DEF CarriedBy
  <2>2. \A e : e \in CarriedBy(Of(orgRoles, u, o)) <=> \E r \in inOrg : e \in carries[r]
    BY <1>2 DEF CarriedBy
  <2>3. \A e : e \in system_permission_ids(u) <=> \E n \in system : e \in Seeded[n]
    BY <1>2 DEF system_permission_ids
  <2>4. \A e : e \in project_permission_ids(u, p) <=>
                 \/ e \in CarriedBy(Of(projectRoles, u, p))
                 \/ e \in CarriedBy(Of(orgRoles, u, o))
                 \/ e \in system_permission_ids(u)
    BY DEF project_permission_ids, org_permission_ids
  <2> HIDE DEF o, inProject, inOrg, system
  <2>5. QED BY <2>1, <2>2, <2>3, <2>4
<1>4. /\ Agree(inProject, userProjectCustomRoleCountQuery(u, p))
      /\ Agree(inOrg, userOrgCustomRoleCountQuery(u, o))
  BY <1>1, ProjectRoles, OrgRoles
<1>5. Agree(system, userSystemRoleCountByExternalIDQuery(u))
  BY SystemRolesOf, AgreeWhenEqual DEF userSystemRoleCountByExternalIDQuery
<1>6. Agree(accessibleProjectsQuery(u), accessibleProjectCountQuery(u))
  <2>1. accessibleProjectsQuery(u) = accessible_project_ids(u)
    BY ProjectsAreOneOf DEF accessibleProjectsQuery
  <2>2. QED BY <2>1, AgreeWhenEqual DEF accessibleProjectCountQuery
<1>7. ASSUME NEW h \in Homes
      PROVE  Agree(organizationUsersQuery(h, p), organizationUserCountQuery(h, p))
  <2>1. CASE HomeOf[p] = h
    <3>1. organizationUsersQuery(h, p) =
            {v \in Persons : IsMember(v, h) /\ p \in accessible_project_ids(v)}
      BY <2>1 DEF organizationUsersQuery
    <3>2. QED BY <2>1, <3>1, AgreeWhenEqual DEF organizationUserCountQuery
  <2>2. CASE HomeOf[p] # h
    BY <2>2, AgreeWhenAbsent DEF organizationUsersQuery, organizationUserCountQuery
  <2>3. QED BY <2>1, <2>2
<1>8. ASSUME inProject \cup inOrg # {}
      PROVE  u \in organizationUsersQuery(o, p) /\ p \in accessibleProjectsQuery(u)
  <2>1. IsMember(u, o)
    BY <1>8 DEF userProjectCustomRolesQuery, userOrgCustomRolesQuery
  <2>2. \/ \E a \in projectRoles : a.user = u /\ a.place = p
        \/ Of(orgRoles, u, o) # {}
    BY <1>2, <1>8 DEF Of
  <2>3. p \in accessible_project_ids(u)
    BY <2>2 DEF accessible_project_ids
  <2>4. QED BY <2>1, <2>3 DEF organizationUsersQuery, accessibleProjectsQuery
<1>9. ASSUME p \in accessibleProjectsQuery(u)
      PROVE  IsMember(u, o) \/ "project:discover-all" \in system_permission_ids(u)
  BY <1>9 DEF accessibleProjectsQuery, accessible_project_ids, AccessInv, Referenced, Refers,
     Of, Itself
<1>10. QED BY <1>3, <1>4, <1>5, <1>6, <1>7, <1>8, <1>9

(* Whichever statements run, in whichever order, the lists of a user's     *)
(* roles account for every permission the gate resolves, totals count what *)
(* pages show, and whoever holds a role in a project is listed there.      *)
THEOREM AccessStaysListed == AccessSpec => []AccessIsListed
BY AccessInvariance, AccessAgrees, PTL

(* No statement leaves an assignment without the member or the role it     *)
(* refers to.                                                              *)
THEOREM ReferencesHold == AccessSpec => []AccessTypeOK
BY AccessInvariance, AccessIsTyped, PTL
-----------------------------------------------------------------------------
(* Lists.  Every change is counted, and adds at most one to what left,     *)
(* entered or moved since the walk began: the history of a walk stays      *)
(* within the bound of a run because FirstPage starts it from nothing.     *)
Counted ==
  /\ changes \in 0..MaxChanges
  /\ gone \in 0..changes /\ came \in 0..changes /\ moved \in 0..changes

ListsInv == ListsTypeOK /\ Counted /\ DOMAIN walk = DOMAIN NoWalk

LEMMA MatchingExist == \A rows_, filter : Matching(rows_, filter) \subseteq DOMAIN rows_
BY DEF Matching

LEMMA AtMostOneMore ==
  ASSUME NEW n \in Nat, NEW k \in 0..n, NEW m \in {0, 1} PROVE k + m \in 0..n + 1
OBVIOUS

LEMMA WalkStep ==
  ASSUME ListsInv, \/ \E m, o, f, n : FirstPage(m, o, f, n)
                   \/ \E o, f, n : NextPage(o, f, n)
                   \/ CountRows
  PROVE  ListsInv'
<1>1. ASSUME NEW m, NEW o, NEW f, NEW k, NEW n, ReadPage(m, o, f, k, n)
      PROVE  shown' \in [RowIds -> Nat]
  BY <1>1 DEF ReadPage, ListsInv, ListsTypeOK
<1>2. shown' \in [RowIds -> Nat]
  BY <1>1 DEF FirstPage, NextPage, CountRows, ListsInv, ListsTypeOK
<1>3. /\ UNCHANGED <<listed, changes>>
      /\ owed' = owed \/ \E f : owed' = Matching(listed, f)
      /\ \/ UNCHANGED <<gone, came, moved>>
         \/ gone' = 0 /\ came' = 0 /\ moved' = 0
  BY DEF FirstPage, NextPage, CountRows, ListsInv, ListsTypeOK
<1>4. walk'.state \in {"none", "count", "token", "ended"} /\ DOMAIN walk' = DOMAIN NoWalk
  <2>1. "state" \in DOMAIN walk /\ DOMAIN walk = DOMAIN NoWalk
    BY DEF ListsInv, NoWalk
  <2>2. CASE \E m, o, f, n : FirstPage(m, o, f, n)
    BY <2>2 DEF FirstPage, NoWalk
  <2>3. CASE \E o, f, n : NextPage(o, f, n)
    BY <2>1, <2>3 DEF NextPage
  <2>4. CASE CountRows
    BY <2>1, <2>4 DEF CountRows
  <2>5. QED BY <2>2, <2>3, <2>4
<1>5. owed' \subseteq DOMAIN listed'
  BY <1>3, MatchingExist DEF ListsInv, ListsTypeOK
<1>6. Counted'
  <2>1. changes' \in 0..MaxChanges /\ 0 \in 0..changes'
    BY <1>3, ListsAssumption DEF ListsInv, Counted
  <2>2. QED BY <1>3, <2>1 DEF ListsInv, Counted
<1>7. {gone, came, moved}' \subseteq 0..MaxChanges
  BY <1>6, ListsAssumption DEF Counted
<1>8. QED BY <1>2, <1>3, <1>4, <1>5, <1>6, <1>7 DEF ListsInv, ListsTypeOK

(* A change gives one row another value of its type, or none. *)
RowsOK(rows_) ==
  /\ DOMAIN rows_ \subseteq RowIds
  /\ \A j \in DOMAIN rows_ :
       rows_[j] \in [label : RowIds, name : Names, updated : 1..Never]

OnlyRow(rows_, i) ==
  /\ DOMAIN rows_ \ {i} = DOMAIN listed \ {i}
  /\ \A j \in DOMAIN rows_ \ {i} : rows_[j] = listed[j]

LEMMA RowChanges ==
  ASSUME ListsInv,
         \/ \E i, l \in RowIds, n \in Names : InsertRow(i, l, n)
         \/ \E i \in RowIds : RemoveRow(i)
         \/ \E i \in RowIds, n \in Names, t \in 1..MaxChanges : UpdateUserRow(i, n, t)
         \/ \E i, l \in RowIds : RenameRole(i, l)
  PROVE  \E rows_, i : Change(rows_, i) /\ RowsOK(rows_) /\ OnlyRow(rows_, i)
<1>1. RowsOK(listed) /\ MaxChanges \in Nat /\ Never \in 1..Never
  BY ListsAssumption DEF ListsInv, ListsTypeOK, RowsOK, Never
<1>2. ASSUME NEW i \in RowIds, NEW r \in [label : RowIds, name : Names, updated : 1..Never],
             i \in DOMAIN listed
      PROVE  LET rows_ == [listed EXCEPT ![i] = r] IN RowsOK(rows_) /\ OnlyRow(rows_, i)
  BY <1>1, <1>2 DEF RowsOK, OnlyRow
<1>3. ASSUME NEW i \in RowIds, NEW l \in RowIds, NEW n \in Names, InsertRow(i, l, n)
      PROVE  \E rows_ : Change(rows_, i) /\ RowsOK(rows_) /\ OnlyRow(rows_, i)
  <2> DEFINE rows_ == [j \in DOMAIN listed \cup {i} |->
                         IF j = i THEN Row(l, n, Never) ELSE listed[j]]
  <2>1. Row(l, n, Never) \in [label : RowIds, name : Names, updated : 1..Never]
    BY <1>1 DEF Row
  <2>2. RowsOK(rows_)
    BY <1>1, <2>1 DEF RowsOK
  <2>3. OnlyRow(rows_, i)
    BY DEF OnlyRow
  <2>4. Change(rows_, i)
    BY <1>3 DEF InsertRow
  <2>5. QED BY <2>2, <2>3, <2>4
<1>4. ASSUME NEW i \in RowIds, RemoveRow(i)
      PROVE  \E rows_ : Change(rows_, i) /\ RowsOK(rows_) /\ OnlyRow(rows_, i)
  <2> DEFINE rows_ == [j \in DOMAIN listed \ {i} |-> listed[j]]
  <2>1. RowsOK(rows_)
    BY <1>1 DEF RowsOK
  <2>2. OnlyRow(rows_, i)
    BY DEF OnlyRow
  <2>3. Change(rows_, i)
    BY <1>4 DEF RemoveRow
  <2>4. QED BY <2>1, <2>2, <2>3
<1>5. ASSUME NEW i \in RowIds, NEW n \in Names, NEW t \in 1..MaxChanges,
             UpdateUserRow(i, n, t)
      PROVE  \E rows_ : Change(rows_, i) /\ RowsOK(rows_) /\ OnlyRow(rows_, i)
  <2> DEFINE r == Row(listed[i].label, n, t)
  <2>1. i \in DOMAIN listed /\ t \in 1..Never /\ Change([listed EXCEPT ![i] = r], i)
    BY <1>1, <1>5 DEF UpdateUserRow, Never
  <2>2. r \in [label : RowIds, name : Names, updated : 1..Never]
    BY <1>1, <2>1 DEF Row, RowsOK
  <2> HIDE DEF r
  <2>3. QED BY <1>2, <2>1, <2>2
<1>6. ASSUME NEW i \in RowIds, NEW l \in RowIds, RenameRole(i, l)
      PROVE  \E rows_ : Change(rows_, i) /\ RowsOK(rows_) /\ OnlyRow(rows_, i)
  <2> DEFINE r == Row(l, listed[i].name, listed[i].updated)
  <2>1. i \in DOMAIN listed /\ Change([listed EXCEPT ![i] = r], i)
    BY <1>6 DEF RenameRole
  <2>2. r \in [label : RowIds, name : Names, updated : 1..Never]
    BY <1>1, <2>1 DEF Row, RowsOK
  <2> HIDE DEF r
  <2>3. QED BY <1>2, <2>1, <2>2
<1>7. QED BY <1>3, <1>4, <1>5, <1>6

LEMMA ChangeStep ==
  ASSUME ListsInv, NEW rows_, NEW i, Change(rows_, i), RowsOK(rows_)
  PROVE  ListsInv'
<1>1. /\ listed' = rows_ /\ changes' = changes + 1 /\ changes < MaxChanges
      /\ UNCHANGED <<walk, shown>> /\ owed' = owed \cap Matching(rows_, walk.filter)
  BY DEF Change, Noted
<1>2. \E a, b, c \in {0, 1} : gone' = gone + a /\ came' = came + b /\ moved' = moved + c
  BY DEF Change, Noted
<1>3. Counted'
  <2>1. changes \in Nat /\ changes + 1 \in 0..MaxChanges
    BY <1>1, ListsAssumption DEF ListsInv, Counted
  <2>2. /\ gone' \in 0..changes + 1 /\ came' \in 0..changes + 1
        /\ moved' \in 0..changes + 1
    BY <1>2, <2>1, AtMostOneMore DEF ListsInv, Counted
  <2>3. QED BY <1>1, <2>1, <2>2 DEF Counted
<1>4. owed' \subseteq DOMAIN listed'
  BY <1>1, MatchingExist
<1>5. {gone, came, moved}' \subseteq 0..MaxChanges
  BY <1>3, ListsAssumption DEF Counted
<1>6. QED BY <1>1, <1>3, <1>4, <1>5 DEF ListsInv, ListsTypeOK, RowsOK

LEMMA ListsStep == ASSUME ListsInv, [ListsNext]_listsVars PROVE ListsInv'
<1>1. CASE UNCHANGED listsVars
  BY <1>1 DEF listsVars, ListsInv, ListsTypeOK, Counted
<1>2. CASE \E rows_, i : Change(rows_, i) /\ RowsOK(rows_)
  BY <1>2, ChangeStep
<1>3. QED BY <1>1, <1>2, RowChanges, WalkStep DEF ListsNext

LEMMA ListsInvariance == ListsSpec => []ListsInv
<1>1. ListsInit => ListsInv
  <2> SUFFICES ASSUME ListsInit PROVE ListsInv
    OBVIOUS
  <2>1. PICK ids \in SUBSET RowIds :
          listed \in [ids -> {Row(l, n, t) : l \in RowIds, n \in Names, t \in {1, Never}}]
    BY DEF ListsInit
  <2>2. 1 \in 1..Never /\ Never \in 1..Never
    BY ListsAssumption DEF Never
  <2>3. \A i \in DOMAIN listed :
          listed[i] \in [label : RowIds, name : Names, updated : 1..Never]
    BY <2>1, <2>2 DEF Row
  <2>4. /\ shown = [i \in RowIds |-> 0] /\ owed = {} /\ walk.state = "none"
        /\ walk = NoWalk
        /\ gone = 0 /\ came = 0 /\ moved = 0 /\ changes = 0
    BY DEF ListsInit, NoWalk
  <2>5. 0 \in 0..MaxChanges /\ 0 \in 0..0
    BY ListsAssumption
  <2>6. QED BY <2>1, <2>3, <2>4, <2>5 DEF ListsInv, ListsTypeOK, Counted
<1>2. QED BY <1>1, ListsStep, PTL DEF ListsSpec

(* However rows come, go and move, a walk counts no more of them than      *)
(* changed, and owes no row that is gone.                                  *)
THEOREM WalksAreTyped == ListsSpec => []ListsTypeOK
<1>1. ListsInv => ListsTypeOK
  BY DEF ListsInv
<1>2. QED BY <1>1, ListsInvariance, PTL
-----------------------------------------------------------------------------
(* The three together: a step is of one of them and leaves the others be.  *)
LEMMA PartsStep ==
  ASSUME [MCNext]_<<gateVars, listsVars, accessVars, part>>
  PROVE  /\ [GateNext]_gateVars
         /\ [ListsNext]_listsVars
         /\ [AccessNext]_accessVars
<1>1. CASE \/ \E c \in Traffic : G(Arrive(c))
           \/ G(Authenticate) \/ G(RejectHeaders) \/ G(RejectCaller)
           \/ G(ResolvePermissions) \/ G(FailSession)
           \/ G(Admit) \/ G(Deny) \/ G(Handle) \/ G(HandleWorkflow) \/ G(Forget)
           \/ \E g \in Grantable : G(Grant(g)) \/ G(Revoke(g))
           \/ \E u \in Users, o \in Orgs : G(Join(u, o))
  BY <1>1 DEF G, GateNext
<1>2. CASE \/ \E m \in Listings : \E o \in Orders(m), f \in Filters(m), n \in PageSizes :
                L(FirstPage(m, o, f, n))
           \/ \E o \in Orders(walk.method), f \in Filters(walk.method), n \in PageSizes :
                L(NextPage(o, f, n))
           \/ L(CountRows)
           \/ \E i, l \in RowIds, n \in Names : L(InsertRow(i, l, n))
           \/ \E i \in RowIds : L(RemoveRow(i))
           \/ \E i \in RowIds, n \in Names, t \in 1..MaxChanges : L(UpdateUserRow(i, n, t))
           \/ \E i, l \in RowIds : L(RenameRole(i, l))
  BY <1>2 DEF L, ListsNext
<1>3. CASE \/ \E u \in Persons, o \in Homes : X(ensureOrganizationMemberQuery(u, o))
           \/ \E r \in DOMAIN RoleHome, ps \in Carried :
                X(createCustomRoleQuery(r, ps)) \/ X(setCustomRolePermissions(r, ps))
           \/ \E r \in DOMAIN RoleHome : X(deleteCustomRole(r))
           \/ \E u \in Persons, r \in DOMAIN RoleHome, p \in DOMAIN HomeOf :
                \/ X(assignCustomRoleToProjectQuery(u, r, p))
                \/ X(unassignCustomRoleFromProjectQuery(u, r, p))
           \/ \E u \in Persons, r \in DOMAIN RoleHome, o \in Homes :
                \/ X(assignCustomRoleToOrgQuery(u, r, o))
                \/ X(unassignCustomRoleFromOrgQuery(u, r, o))
           \/ \E u \in Persons, n \in DOMAIN Seeded :
                X(assignSystemRoleQuery(u, n)) \/ X(unassignSystemRoleQuery(u, n))
  BY <1>3 DEF X, AccessNext, WriteRole, WriteAssignment
<1>4. CASE UNCHANGED <<gateVars, listsVars, accessVars, part>>
  BY <1>4
<1>5. QED BY <1>1, <1>2, <1>3, <1>4, Zenon DEF MCNext

LEMMA PartsAreTheirOwn == MCSpec => GateSpec /\ ListsSpec /\ AccessSpec
<1>1. MCInit => GateInit /\ ListsInit /\ AccessInit
  BY DEF MCInit
<1>2. [MCNext]_<<gateVars, listsVars, accessVars, part>> =>
        [GateNext]_gateVars /\ [ListsNext]_listsVars /\ [AccessNext]_accessVars
  BY PartsStep
<1>3. QED BY <1>1, <1>2, PTL DEF MCSpec, GateSpec, ListsSpec, AccessSpec

(* The interceptors, the walks and the rows are of their types however     *)
(* many calls, pages and statements there are.                             *)
THEOREM ApiTypesCorrect == MCSpec => []TypesOK
<1>1. GateTypeOK /\ ListsTypeOK /\ AccessTypeOK => TypesOK
  BY DEF TypesOK
<1>2. QED BY <1>1, PartsAreTheirOwn, TypeCorrect, WalksAreTyped, ReferencesHold, PTL
-----------------------------------------------------------------------------
(* Orders by a key and then by the id, and the first rows of an order.     *)
Earlier(key, i, j) == key[i] < key[j] \/ (key[i] = key[j] /\ i < j)

Preceding(key, M, i) == {j \in M : Earlier(key, j, i)}
Rank(key, M, i) == Cardinality(Preceding(key, M, i))
Leading(key, M, k) == {i \in M : Rank(key, M, i) < k}

Keyed(key, M) == IsFiniteSet(M) /\ M \subseteq Nat /\ \A i \in M : key[i] \in Int

(* The id makes every order total. *)
LEMMA EarlierIsTotal ==
  ASSUME NEW key, NEW M, Keyed(key, M), NEW i \in M, NEW j \in M, NEW k \in M
  PROVE  /\ ~Earlier(key, i, i)
         /\ Earlier(key, i, j) => ~Earlier(key, j, i)
         /\ Earlier(key, i, j) /\ Earlier(key, j, k) => Earlier(key, i, k)
         /\ i = j \/ Earlier(key, i, j) \/ Earlier(key, j, i)
<1>1. /\ i \in Int /\ j \in Int /\ k \in Int
      /\ key[i] \in Int /\ key[j] \in Int /\ key[k] \in Int
  BY DEF Keyed
<1>2. QED BY ONLY <1>1 DEF Earlier

(* A rank is how many come earlier, and is the order. *)
LEMMA RankIsOrder ==
  ASSUME NEW key, NEW M, Keyed(key, M)
  PROVE  /\ Cardinality(M) \in Nat
         /\ \A i \in M : Rank(key, M, i) \in Nat /\ Rank(key, M, i) < Cardinality(M)
         /\ \A i, j \in M : Earlier(key, i, j) <=> Rank(key, M, i) < Rank(key, M, j)
<1>1. IsFiniteSet(M) /\ Cardinality(M) \in Nat
  BY FS_CardinalityType DEF Keyed
<1>2. ASSUME NEW i \in M
      PROVE  /\ IsFiniteSet(Preceding(key, M, i))
             /\ Rank(key, M, i) \in Nat /\ Rank(key, M, i) < Cardinality(M)
  <2>1. Preceding(key, M, i) \in SUBSET M /\ i \notin Preceding(key, M, i)
    BY EarlierIsTotal DEF Preceding
  <2>2. /\ IsFiniteSet(Preceding(key, M, i))
        /\ Cardinality(Preceding(key, M, i)) <= Cardinality(M)
        /\ Cardinality(Preceding(key, M, i)) # Cardinality(M)
    BY <1>1, <2>1, FS_Subset
  <2>3. Cardinality(Preceding(key, M, i)) \in Nat
    BY <2>2, FS_CardinalityType
  <2>4. QED BY ONLY <1>1, <2>2, <2>3 DEF Rank
<1>3. ASSUME NEW i \in M, NEW j \in M, Earlier(key, i, j)
      PROVE  Rank(key, M, i) < Rank(key, M, j)
  <2>1. Preceding(key, M, i) \in SUBSET Preceding(key, M, j)
    BY <1>3, EarlierIsTotal DEF Preceding
  <2>2. i \in Preceding(key, M, j) /\ i \notin Preceding(key, M, i)
    BY <1>3, EarlierIsTotal DEF Preceding
  <2>3. Rank(key, M, i) <= Rank(key, M, j) /\ Rank(key, M, i) # Rank(key, M, j)
    BY <1>2, <2>1, <2>2, FS_Subset DEF Rank
  <2>4. QED BY <1>2, <2>3
<1>4. ASSUME NEW i \in M, NEW j \in M, Rank(key, M, i) < Rank(key, M, j)
      PROVE  Earlier(key, i, j)
  <2>1. i = j \/ Earlier(key, i, j) \/ Earlier(key, j, i)
    BY EarlierIsTotal
  <2>2. Rank(key, M, i) \in Nat /\ Rank(key, M, j) \in Nat
    BY <1>2
  <2>3. ~Earlier(key, j, i)
    BY <1>3, <1>4, <2>2
  <2>4. i # j
    BY <1>4, <2>2
  <2>5. QED BY <2>1, <2>3, <2>4
<1>5. QED BY <1>1, <1>2, <1>3, <1>4

(* There are as many first rows as asked for, unless there are fewer rows. *)
LEMMA LeadingCount ==
  ASSUME NEW key, NEW M, Keyed(key, M), NEW k \in Nat
  PROVE  /\ IsFiniteSet(Leading(key, M, k))
         /\ Cardinality(Leading(key, M, k)) = IF k <= Cardinality(M) THEN k ELSE Cardinality(M)
<1> DEFINE n == Cardinality(M)
           m == IF k <= n THEN k ELSE n
           f == [i \in M |-> Rank(key, M, i)]
           g == [i \in Leading(key, M, k) |-> Rank(key, M, i)]
<1>1. /\ n \in Nat
      /\ \A i \in M : Rank(key, M, i) \in Nat /\ Rank(key, M, i) < n
  BY RankIsOrder
<1>2. \A i, j \in M : Rank(key, M, i) = Rank(key, M, j) => i = j
  <2> SUFFICES ASSUME NEW i \in M, NEW j \in M, Rank(key, M, i) = Rank(key, M, j)
               PROVE  i = j
    OBVIOUS
  <2>1. ~(Rank(key, M, i) < Rank(key, M, j)) /\ ~(Rank(key, M, j) < Rank(key, M, i))
    BY <1>1
  <2>2. QED BY <2>1, RankIsOrder, EarlierIsTotal
<1>3. \A r \in 0 .. n - 1 : \E i \in M : Rank(key, M, i) = r
  <2>1. f \in Injection(M, 0 .. n - 1)
    <3>1. f \in [M -> 0 .. n - 1]
      BY <1>1
    <3>2. QED BY <1>2, <3>1 DEF Injection, IsInjective
  <2>2. IsFiniteSet(0 .. n - 1) /\ Cardinality(0 .. n - 1) = n
    BY <1>1, FS_Interval
  <2>3. f \in Surjection(M, 0 .. n - 1)
    BY <2>1, <2>2, FS_Injection
  <2>4. QED BY <2>3 DEF Surjection
<1>4. IsFiniteSet(Leading(key, M, k))
  BY FS_Subset DEF Leading, Keyed
<1>5. g \in Bijection(Leading(key, M, k), 0 .. m - 1)
  <2>1. g \in [Leading(key, M, k) -> 0 .. m - 1]
    BY <1>1 DEF Leading
  <2>2. \A i, j \in Leading(key, M, k) : g[i] = g[j] => i = j
    BY <1>2 DEF Leading
  <2>3. \A r \in 0 .. m - 1 : \E i \in Leading(key, M, k) : g[i] = r
    BY <1>1, <1>3 DEF Leading
  <2>4. QED BY <2>1, <2>2, <2>3 DEF Bijection, Injection, Surjection, IsInjective
<1>6. Cardinality(0 .. m - 1) = Cardinality(Leading(key, M, k))
  BY <1>4, <1>5, FS_Bijection DEF ExistsBijection
<1>7. Cardinality(0 .. m - 1) = m
  <2>1. m \in Nat
    BY <1>1
  <2> HIDE DEF m
  <2>2. QED BY <2>1, FS_Interval
<1>8. QED BY <1>4, <1>6, <1>7

(* Among rows that two orders agree on, the first of one and the first of  *)
(* the other are one within the other.                                     *)
LEMMA LeadingAreNested ==
  ASSUME NEW key, NEW M, Keyed(key, M), NEW newKey, NEW newM, Keyed(newKey, newM),
         NEW N \in SUBSET (M \cap newM), \A i \in N : newKey[i] = key[i],
         NEW k \in Nat
  PROVE  \/ Leading(key, M, k) \cap N \subseteq Leading(newKey, newM, k)
         \/ Leading(newKey, newM, k) \cap N \subseteq Leading(key, M, k)
<1> SUFFICES ASSUME NEW x \in Leading(key, M, k) \cap N, x \notin Leading(newKey, newM, k),
                    NEW y \in Leading(newKey, newM, k) \cap N, y \notin Leading(key, M, k)
             PROVE  FALSE
  OBVIOUS
<1>1. Rank(key, M, x) < Rank(key, M, y)
  <2>1. /\ Rank(key, M, x) \in Nat /\ Rank(key, M, y) \in Nat
        /\ Rank(key, M, x) < k /\ ~(Rank(key, M, y) < k)
    BY RankIsOrder DEF Leading
  <2>2. QED BY ONLY <2>1, k \in Nat
<1>2. Rank(newKey, newM, y) < Rank(newKey, newM, x)
  <2>1. /\ Rank(newKey, newM, x) \in Nat /\ Rank(newKey, newM, y) \in Nat
        /\ Rank(newKey, newM, y) < k /\ ~(Rank(newKey, newM, x) < k)
    BY RankIsOrder DEF Leading
  <2>2. QED BY ONLY <2>1, k \in Nat
<1>3. Earlier(key, x, y) /\ Earlier(newKey, y, x)
  BY <1>1, <1>2, RankIsOrder
<1>4. Earlier(key, y, x)
  BY <1>3 DEF Earlier
<1>5. QED BY <1>3, <1>4, EarlierIsTotal
-----------------------------------------------------------------------------
(* What a page shows: of the rows in their order, those from an offset on. *)
KeysOf(rows_, m, order) == [i \in DOMAIN rows_ |-> SortKey(rows_[i], i, m, order)]

LEMMA PageOfLeading ==
  ASSUME NEW rows_, NEW m, NEW order, NEW M \in SUBSET DOMAIN rows_,
         Keyed(KeysOf(rows_, m, order), M), NEW s \in Sorted(rows_, M, m, order),
         NEW k \in Nat, NEW size \in Nat
  PROVE  LET key == KeysOf(rows_, m, order)
         IN ToSet(PageOf(s, k, size)) = Leading(key, M, k + size) \ Leading(key, M, k)
<1> DEFINE key == KeysOf(rows_, m, order)
           n == Cardinality(M)
<1>1. n \in Nat /\ IsFiniteSet(M)
  BY FS_CardinalityType DEF Keyed
<1>2. s \in [1 .. n -> M] /\ \A a, b \in 1 .. n : a # b => s[a] # s[b]
  BY DEF Sorted, SetToSeqs
<1>3. \A a, b \in 1 .. n : a < b => Earlier(key, s[a], s[b])
  BY <1>2 DEF Sorted, Precedes, Earlier, KeysOf
<1> HIDE DEF key
<1>4. \A i \in M : \E a \in 1 .. n : s[a] = i
  <2>1. s \in Injection(1 .. n, M)
    BY <1>2 DEF Injection, IsInjective
  <2>2. Cardinality(1 .. n) = n
    BY <1>1, FS_Interval
  <2>3. s \in Surjection(1 .. n, M)
    BY <1>1, <2>1, <2>2, FS_Injection
  <2>4. QED BY <2>3 DEF Surjection
<1>5. ASSUME NEW a \in 1 .. n PROVE Rank(key, M, s[a]) = a - 1
  <2> DEFINE f == [b \in 1 .. a - 1 |-> s[b]]
  <2>1. Keyed(key, M) /\ s[a] \in M
    BY <1>2 DEF key
  <2>2. \A b \in 1 .. n : Earlier(key, s[b], s[a]) <=> b < a
    <3> SUFFICES ASSUME NEW b \in 1 .. n PROVE Earlier(key, s[b], s[a]) <=> b < a
      OBVIOUS
    <3>1. s[b] \in M
      BY <1>2
    <3>2. ~Earlier(key, s[a], s[a]) /\ (Earlier(key, s[a], s[b]) => ~Earlier(key, s[b], s[a]))
      BY <2>1, <3>1, EarlierIsTotal
    <3>3. b < a \/ b = a \/ a < b
      BY <1>1
    <3>4. b < a => b # a /\ ~(a < b)
      BY <1>1
    <3>5. QED BY <1>3, <3>2, <3>3, <3>4
  <2>3. f \in Bijection(1 .. a - 1, Preceding(key, M, s[a]))
    <3>1. 1 .. a - 1 \subseteq 1 .. n /\ \A b \in 1 .. n : b < a <=> b \in 1 .. a - 1
      BY <1>1
    <3>2. f \in [1 .. a - 1 -> Preceding(key, M, s[a])]
      BY <1>2, <2>2, <3>1 DEF Preceding
    <3>3. \A b, c \in 1 .. a - 1 : f[b] = f[c] => b = c
      BY <1>2, <3>1
    <3>4. \A i \in Preceding(key, M, s[a]) : \E b \in 1 .. a - 1 : f[b] = i
      BY <1>4, <2>2, <3>1 DEF Preceding
    <3>5. QED BY <3>2, <3>3, <3>4 DEF Bijection, Injection, Surjection, IsInjective
  <2>4. ExistsBijection(1 .. a - 1, Preceding(key, M, s[a])) /\ a - 1 \in Nat
    BY <1>1, <2>3 DEF ExistsBijection
  <2>5. QED BY <2>4, FS_CountingElements DEF Rank
<1> DEFINE last == Min({k + size, Len(s)})
<1>6. Len(s) = n
  BY <1>1, <1>2
<1>7. last \in Nat /\ last <= n /\ last <= k + size /\ (last = n \/ last = k + size)
  <2> DEFINE T == {k + size, n}
  <2>1. \E x \in T : \A y \in T : x =< y
    BY <1>1
  <2>2. Min(T) \in T /\ \A y \in T : Min(T) =< y
    BY <2>1 DEF Min
  <2>3. last = Min(T)
    BY <1>6
  <2>4. QED BY <1>1, <2>2, <2>3
<1> HIDE DEF last
<1>8. \A i \in k + 1 .. last : i \in 1 .. n /\ s[i] \in M
  BY <1>1, <1>2, <1>7
<1>9. LET q == SubSeq(s, k + 1, last)
      IN /\ q \in Seq(M)
         /\ Len(q) = IF k + 1 <= last THEN last - (k + 1) + 1 ELSE 0
         /\ \A i \in 1 .. last - (k + 1) + 1 : q[i] = s[k + 1 + i - 1]
  BY <1>7, <1>8, SubSeqProperties
<1>10. ToSet(PageOf(s, k, size)) = {s[a] : a \in k + 1 .. last}
  <2> DEFINE q == SubSeq(s, k + 1, last)
  <2>1. PageOf(s, k, size) = q
    BY DEF PageOf, last
  <2>2. DOMAIN q = 1 .. Len(q)
    BY <1>9
  <2> HIDE DEF q
  <2>3. ASSUME NEW b \in DOMAIN q PROVE b + k \in k + 1 .. last /\ q[b] = s[b + k]
    BY <1>7, <1>9, <2>2, <2>3 DEF q
  <2>4. ASSUME NEW a \in k + 1 .. last PROVE a - k \in DOMAIN q /\ q[a - k] = s[a]
    BY <1>7, <1>9, <2>2, <2>4 DEF q
  <2>5. QED BY <2>1, <2>3, <2>4 DEF ToSet
<1>11. \A a \in 1 .. n : /\ s[a] \in Leading(key, M, k) <=> a - 1 < k
                         /\ s[a] \in Leading(key, M, k + size) <=> a - 1 < k + size
  BY <1>2, <1>5 DEF Leading
<1>12. \A a \in 1 .. n :
         a \in k + 1 .. last <=> s[a] \in Leading(key, M, k + size) \ Leading(key, M, k)
  BY <1>1, <1>7, <1>11
<1>13. ASSUME NEW i \in Leading(key, M, k + size) \ Leading(key, M, k)
       PROVE  i \in {s[a] : a \in k + 1 .. last}
  <2>1. PICK a \in 1 .. n : s[a] = i
    BY <1>4 DEF Leading
  <2>2. QED BY <1>12, <2>1
<1>14. QED BY <1>8, <1>10, <1>12, <1>13 DEF key
-----------------------------------------------------------------------------
(* How the first rows change when one row does. *)
LEMMA OneMore ==
  ASSUME NEW S, IsFiniteSet(S), NEW x, NEW T \in SUBSET (S \cup {x})
  PROVE  /\ IsFiniteSet(T) /\ Cardinality(T) \in Nat /\ Cardinality(S) \in Nat
         /\ Cardinality(T) <= Cardinality(S) + 1
<1>1. /\ IsFiniteSet(S \cup {x})
      /\ Cardinality(S \cup {x}) = IF x \in S THEN Cardinality(S) ELSE Cardinality(S) + 1
  BY FS_AddElement
<1>2. IsFiniteSet(T) /\ Cardinality(T) <= Cardinality(S \cup {x})
  BY <1>1, FS_Subset
<1>3. Cardinality(T) \in Nat /\ Cardinality(S) \in Nat
  BY <1>2, FS_CardinalityType
<1>4. QED BY ONLY <1>1, <1>2, <1>3

LEMMA Within ==
  ASSUME NEW S, IsFiniteSet(S), NEW T, IsFiniteSet(T), S \subseteq T \/ T \subseteq S,
         Cardinality(S) <= Cardinality(T)
  PROVE  /\ S \subseteq T
         /\ Cardinality(T) <= Cardinality(S) + 1 => \E x : T \subseteq S \cup {x}
<1>1. Cardinality(S) \in Nat /\ Cardinality(T) \in Nat
  BY FS_CardinalityType
<1>2. S \subseteq T
  <2>1. ASSUME T \subseteq S PROVE S = T
    BY <1>1, <2>1, FS_Subset
  <2>2. QED BY <2>1
<1>3. ASSUME Cardinality(T) <= Cardinality(S) + 1, NEW x \in T \ S
      PROVE  T \subseteq S \cup {x}
  <2>1. /\ IsFiniteSet(S \cup {x}) /\ Cardinality(S \cup {x}) = Cardinality(S) + 1
        /\ S \cup {x} \in SUBSET T
    BY <1>2, <1>3, FS_AddElement
  <2>2. Cardinality(S \cup {x}) <= Cardinality(T)
    BY <2>1, FS_Subset
  <2>3. Cardinality(T) = Cardinality(S \cup {x})
    BY <1>1, <1>3, <2>1, <2>2
  <2>4. QED BY <2>1, <2>3, FS_Subset
<1>4. QED BY <1>2, <1>3

(* A row that leaves lets one row move up across a boundary, one that      *)
(* enters pushes one back, one that moves does either.                     *)
CrossesOnce(key, M, newKey, newM, i, k) ==
  LET P == Leading(key, M, k)
      Q == Leading(newKey, newM, k)
  IN /\ i \in M /\ i \notin newM => P \cap newM \subseteq Q /\ \E x : Q \subseteq P \cup {x}
     /\ i \notin M /\ i \in newM =>
          Q \cap M \subseteq P /\ \E x : newM \ Q \subseteq (M \ P) \cup {x}
     /\ i \in M /\ i \in newM =>
          /\ \E x : Q \subseteq P \cup {x}
          /\ \E x : newM \ Q \subseteq (M \ P) \cup {x}

LEMMA OneRowChanges ==
  ASSUME NEW key, NEW M, Keyed(key, M), NEW newKey, NEW newM, Keyed(newKey, newM),
         NEW i, M \ {i} = newM \ {i}, \A j \in M \ {i} : newKey[j] = key[j], NEW k \in Nat
  PROVE  CrossesOnce(key, M, newKey, newM, i, k)
<1> DEFINE N == M \ {i}
           P == Leading(key, M, k)
           Q == Leading(newKey, newM, k)
           a == P \ {i}
           b == Q \ {i}
           n == Cardinality(N)
<1>1. /\ IsFiniteSet(M) /\ IsFiniteSet(newM) /\ IsFiniteSet(N)
      /\ IsFiniteSet(P) /\ IsFiniteSet(Q) /\ IsFiniteSet(a) /\ IsFiniteSet(b)
      /\ Cardinality(P) = IF k <= Cardinality(M) THEN k ELSE Cardinality(M)
      /\ Cardinality(Q) = IF k <= Cardinality(newM) THEN k ELSE Cardinality(newM)
  <2>1. IsFiniteSet(M) /\ IsFiniteSet(newM)
    BY DEF Keyed
  <2>2. /\ IsFiniteSet(P) /\ IsFiniteSet(Q)
        /\ Cardinality(P) = IF k <= Cardinality(M) THEN k ELSE Cardinality(M)
        /\ Cardinality(Q) = IF k <= Cardinality(newM) THEN k ELSE Cardinality(newM)
    BY LeadingCount
  <2>3. IsFiniteSet(N) /\ IsFiniteSet(a) /\ IsFiniteSet(b)
    BY <2>1, <2>2, FS_RemoveElement
  <2>4. QED BY <2>1, <2>2, <2>3
<1>2. /\ P \subseteq M /\ Q \subseteq newM /\ a \in SUBSET N /\ b \in SUBSET N
  BY DEF Leading
<1>3. a \subseteq b \/ b \subseteq a
  <2>1. N \in SUBSET (M \cap newM) /\ a = P \cap N /\ b = Q \cap N
    BY <1>2
  <2>2. \A j \in N : newKey[j] = key[j]
    OBVIOUS
  <2> HIDE DEF N
  <2>3. P \cap N \subseteq Q \/ Q \cap N \subseteq P
    BY <2>1, <2>2, LeadingAreNested
  <2>4. QED BY <2>1, <2>3
<1>4. /\ n = IF i \in M THEN Cardinality(M) - 1 ELSE Cardinality(M)
      /\ n = IF i \in newM THEN Cardinality(newM) - 1 ELSE Cardinality(newM)
      /\ Cardinality(a) = IF i \in P THEN Cardinality(P) - 1 ELSE Cardinality(P)
      /\ Cardinality(b) = IF i \in Q THEN Cardinality(Q) - 1 ELSE Cardinality(Q)
  BY <1>1, FS_RemoveElement
<1>5. /\ n \in Nat /\ Cardinality(a) \in Nat /\ Cardinality(b) \in Nat
      /\ Cardinality(M) \in Nat /\ Cardinality(newM) \in Nat
      /\ Cardinality(P) \in Nat /\ Cardinality(Q) \in Nat
      /\ Cardinality(a) <= n /\ Cardinality(b) <= n
  BY <1>1, <1>2, FS_Subset, FS_CardinalityType
<1> DEFINE inP == i \in P
           inQ == i \in Q
           inM == i \in M
           inNew == i \in newM
<1>6. (inP => inM) /\ (inQ => inNew)
  BY <1>2
<1> HIDE DEF N, P, Q, a, b, n
<1>7. CASE i \in M /\ i \notin newM
  <2>1. Cardinality(a) <= Cardinality(b) /\ Cardinality(b) <= Cardinality(a) + 1
    BY <1>1, <1>4, <1>5, <1>6, <1>7, k \in Nat
  <2>2. a \subseteq b /\ \E x : b \subseteq a \cup {x}
    BY <1>1, <1>3, <2>1, Within
  <2>3. P \cap newM \subseteq Q /\ \E x : Q \subseteq P \cup {x}
    BY <1>2, <1>7, <2>2 DEF a, b
  <2>4. QED BY <1>7, <2>3 DEF P, Q, CrossesOnce
<1>8. CASE i \notin M /\ i \in newM
  <2>1. /\ Cardinality(b) <= Cardinality(a) /\ Cardinality(a) <= Cardinality(b) + 1
        /\ i \notin Q => Cardinality(a) <= Cardinality(b)
    BY <1>1, <1>4, <1>5, <1>6, <1>8, k \in Nat
  <2>2. /\ b \subseteq a /\ \E x : a \subseteq b \cup {x}
        /\ i \notin Q => a \subseteq b
    BY <1>1, <1>3, <2>1, Within
  <2>3. Q \cap M \subseteq P
    BY <1>2, <1>8, <2>2 DEF a, b
  <2>4. \E x : newM \ Q \subseteq (M \ P) \cup {x}
    <3>1. CASE i \in Q
      <4>1. PICK x : a \subseteq b \cup {x}
        BY <2>2
      <4>2. newM \ Q \subseteq (M \ P) \cup {x}
        BY <3>1, <4>1 DEF a, b
      <4>3. QED BY <4>2
    <3>2. CASE i \notin Q
      <4>1. newM \ Q \subseteq (M \ P) \cup {i}
        BY <2>2, <3>2 DEF a, b
      <4>2. QED BY <4>1
    <3>3. QED BY <3>1, <3>2
  <2>5. QED BY <1>8, <2>3, <2>4 DEF P, Q, CrossesOnce
<1>9. CASE i \in M /\ i \in newM
  <2>1. /\ (i \in P <=> i \in Q) => Cardinality(a) = Cardinality(b)
        /\ i \in P /\ i \notin Q => Cardinality(b) = Cardinality(a) + 1
        /\ i \notin P /\ i \in Q => Cardinality(a) = Cardinality(b) + 1
    BY <1>1, <1>4, <1>5, <1>6, <1>9, k \in Nat
  <2>2. (\E x : Q \subseteq P \cup {x}) /\ \E x : newM \ Q \subseteq (M \ P) \cup {x}
    <3>1. CASE i \in P <=> i \in Q
      <4>1. a \subseteq b /\ b \subseteq a
        BY <1>1, <1>3, <1>5, <2>1, <3>1, Within
      <4>2. P = Q /\ newM = M
        BY <1>9, <3>1, <4>1 DEF a, b
      <4>3. QED BY <4>2
    <3>2. CASE i \in P /\ i \notin Q
      <4>1. a \subseteq b /\ \E x : b \subseteq a \cup {x}
        BY <1>1, <1>3, <1>5, <2>1, <3>2, Within
      <4>2. \E x : Q \subseteq P \cup {x}
        BY <3>2, <4>1 DEF a, b
      <4>3. newM \ Q \subseteq (M \ P) \cup {i}
        BY <4>1 DEF a, b
      <4>4. QED BY <4>2, <4>3
    <3>3. CASE i \notin P /\ i \in Q
      <4>1. b \subseteq a /\ \E x : a \subseteq b \cup {x}
        BY <1>1, <1>3, <1>5, <2>1, <3>3, Within
      <4>2. Q \subseteq P \cup {i}
        BY <4>1 DEF a, b
      <4>3. PICK x : a \subseteq b \cup {x}
        BY <4>1
      <4>4. newM \ Q \subseteq (M \ P) \cup {x}
        BY <3>3, <4>3 DEF a, b
      <4>5. QED BY <4>2, <4>4
    <3>4. QED BY <3>1, <3>2, <3>3
  <2>3. QED BY <1>9, <2>2 DEF P, Q, CrossesOnce
<1>10. CASE i \notin M /\ i \notin newM
  BY <1>10 DEF CrossesOnce
<1>11. QED BY <1>7, <1>8, <1>9, <1>10
-----------------------------------------------------------------------------
(* Pages are explained.  Passed are the rows before the offset the walk    *)
(* has reached, in the order of now: what of it the walk has not shown,    *)
(* and what beyond it it has shown, is accounted for by the rows that      *)
(* left, entered or moved.                                                 *)
Alike(f, g) == f = g \/ (f \in {"nil", "empty"} /\ g \in {"nil", "empty"})

Requests ==
  /\ walk.state = "count" =>
       /\ walk.token.offset \in Nat /\ page.size \in Nat \ {0}
       /\ page.order = walk.order /\ Alike(page.filter, walk.filter)
  /\ walk.state = "token" =>
       /\ walk.token.offset \in Nat \ {0} /\ page.size = 0
       /\ walk.token.order = walk.order /\ Alike(walk.token.filter, walk.filter)
  /\ walk.state # "none" => owed \subseteq Matching(listed, walk.filter)

Reach == walk.token.offset + page.size
Keys == KeysOf(listed, walk.method, walk.order)
Selected == Matching(listed, walk.filter)
Passed == Leading(Keys, Selected, Reach)

Missed == {i \in owed \cap Passed : shown[i] = 0}
Ahead == {i \in Selected \ Passed : shown[i] # 0}

Accounted ==
  /\ IsFiniteSet(Repeats)
  /\ walk.state \in {"count", "token"} =>
       /\ Cardinality(Missed) <= gone + moved
       /\ Cardinality(Repeats) + Cardinality(Ahead) <= came + moved
  /\ PagesAreExplained

PagesInv == Requests /\ Accounted

LEMMA AlikeSelect ==
  ASSUME NEW f, NEW g, Alike(f, g), NEW rows_ PROVE Matching(rows_, f) = Matching(rows_, g)
BY DEF Alike, Matching, Selects

LEMMA RowsAreKeyed ==
  ASSUME NEW rows_, RowsOK(rows_), NEW m, NEW order, NEW f
  PROVE  /\ Matching(rows_, f) \in SUBSET DOMAIN rows_ /\ IsFiniteSet(DOMAIN rows_)
         /\ Keyed(KeysOf(rows_, m, order), Matching(rows_, f))
<1>1. /\ Matching(rows_, f) \in SUBSET DOMAIN rows_ /\ DOMAIN rows_ \in SUBSET RowIds
      /\ RowIds \subseteq Nat /\ IsFiniteSet(RowIds)
  BY ListsAssumption DEF Matching, RowsOK
<1>2. IsFiniteSet(DOMAIN rows_) /\ IsFiniteSet(Matching(rows_, f))
  BY <1>1, FS_Subset
<1>3. ASSUME NEW i \in DOMAIN rows_ PROVE SortKey(rows_[i], i, m, order) \in Int
  <2>1. rows_[i].label \in RowIds /\ rows_[i].updated \in 1..Never
    BY DEF RowsOK
  <2>2. /\ rows_[i].label \in Int
        /\ rows_[i].updated \in Int
        /\ i \in Int
    <3>1. \A n \in RowIds : n \in Int
      BY <1>1
    <3>2. \A n : n \in 1..Never => n \in Int
      BY ListsAssumption DEF Never
    <3>3. i \in RowIds
      BY <1>1
    <3>4. QED BY <2>1, <3>1, <3>2, <3>3
  <2>3. -rows_[i].updated \in Int
    BY <2>2
  <2>4. QED BY <2>2, <2>3 DEF SortKey
<1>4. QED BY <1>1, <1>2, <1>3 DEF Keyed, KeysOf

LEMMA ListedOK == ListsInv => RowsOK(listed)
BY DEF ListsInv, ListsTypeOK, RowsOK

LEMMA RepeatsAre ==
  \A e : e \in Repeats <=> \E i \in RowIds : \E k \in 2..shown[i] : e = <<i, k>>
BY DEF Repeats

LEMMA NoRepeats ==
  ASSUME \A i \in RowIds : shown[i] \in {0, 1} PROVE Repeats = {}
<1>1. \A i \in RowIds : 2..shown[i] = {}
  OBVIOUS
<1>2. QED BY <1>1, RepeatsAre

(* A page shows again what of it was shown before. *)
LEMMA RepeatsGrow ==
  ASSUME shown \in [RowIds -> Nat], NEW read \in SUBSET RowIds, IsFiniteSet(read),
         IsFiniteSet(Repeats),
         shown' = [i \in RowIds |-> shown[i] + IF i \in read THEN 1 ELSE 0]
  PROVE  LET again == {i \in read : shown[i] # 0}
         IN /\ IsFiniteSet(Repeats') /\ Cardinality(Repeats') \in Nat
            /\ Cardinality(Repeats') <= Cardinality(Repeats) + Cardinality(again)
<1> DEFINE again == {i \in read : shown[i] # 0}
           T == {<<i, shown[i] + 1>> : i \in again}
           g == [i \in again |-> <<i, shown[i] + 1>>]
<1>1. IsFiniteSet(again)
  BY FS_Subset
<1>2. g \in Surjection(again, T)
  BY DEF Surjection
<1>3. IsFiniteSet(T) /\ Cardinality(T) <= Cardinality(again)
  BY <1>1, <1>2, FS_Surjection
<1>4. Repeats' \in SUBSET (Repeats \cup T)
  <2>1. \A e : e \in Repeats' <=> \E i \in RowIds : \E k \in 2..shown'[i] : e = <<i, k>>
    BY DEF Repeats
  <2>2. ASSUME NEW i \in RowIds, NEW k \in 2..shown'[i], <<i, k>> \notin Repeats
        PROVE  <<i, k>> \in T
    <3>1. k \notin 2..shown[i]
      BY <2>2, RepeatsAre
    <3>2. i \in again /\ k = shown[i] + 1
      BY <3>1
    <3>3. QED BY <3>2
  <2>3. QED BY <2>1, <2>2
<1>5. /\ IsFiniteSet(Repeats \cup T)
      /\ Cardinality(Repeats \cup T)
           = Cardinality(Repeats) + Cardinality(T) - Cardinality(Repeats \cap T)
      /\ IsFiniteSet(Repeats \cap T)
  BY <1>3, FS_Union, FS_Intersection
<1>6. IsFiniteSet(Repeats') /\ Cardinality(Repeats') <= Cardinality(Repeats \cup T)
  BY <1>4, <1>5, FS_Subset
<1>7. /\ Cardinality(Repeats) \in Nat /\ Cardinality(T) \in Nat
      /\ Cardinality(Repeats \cap T) \in Nat /\ Cardinality(Repeats') \in Nat
      /\ Cardinality(again) \in Nat
  BY <1>1, <1>3, <1>5, <1>6, FS_CardinalityType
<1> HIDE DEF T, again
<1>8. Cardinality(Repeats') <= Cardinality(Repeats) + Cardinality(again)
  BY ONLY <1>3, <1>5, <1>6, <1>7
<1>9. QED BY <1>6, <1>7, <1>8 DEF again

(* What a page read now shows. *)
LEMMA PageShows ==
  ASSUME ListsInv, NEW m, NEW order, NEW f, NEW k \in Nat, NEW n \in PageSizes,
         ReadPage(m, order, f, k, n)
  PROVE  LET key == KeysOf(listed, m, order)
             M == Matching(listed, f)
             read == Leading(key, M, k + PageSize(n)) \ Leading(key, M, k)
         IN /\ page' = [size |-> PageSize(n), filter |-> f, order |-> order]
            /\ shown' = [i \in RowIds |->
                           (IF k = 0 THEN 0 ELSE shown[i]) + IF i \in read THEN 1 ELSE 0]
            /\ PageSize(n) \in Nat \ {0}
            /\ Keyed(key, M) /\ M \in SUBSET RowIds /\ IsFiniteSet(M)
<1> DEFINE key == KeysOf(listed, m, order)
           M == Matching(listed, f)
<1>1. PageSize(n) \in Nat \ {0}
  BY ListsAssumption DEF PageSize, MaxPageSize, DefaultPageSize
<1>2. Keyed(key, M) /\ M \in SUBSET DOMAIN listed /\ M \in SUBSET RowIds /\ IsFiniteSet(M)
  BY ListedOK, RowsAreKeyed DEF RowsOK, Keyed
<1>3. PICK s \in Sorted(listed, M, m, order) :
        /\ page' = [size |-> PageSize(n), filter |-> f, order |-> order]
        /\ LET read == ToSet(PageOf(s, k, PageSize(n)))
           IN shown' = [i \in RowIds |->
                          (IF k = 0 THEN 0 ELSE shown[i]) + IF i \in read THEN 1 ELSE 0]
  BY DEF ReadPage
<1>4. ToSet(PageOf(s, k, PageSize(n)))
        = Leading(key, M, k + PageSize(n)) \ Leading(key, M, k)
  BY <1>1, <1>2, PageOfLeading
<1>5. QED BY <1>1, <1>2, <1>3, <1>4

LEMMA FirstPageExplained ==
  ASSUME ListsInv, NEW m, NEW order, NEW f, NEW n \in PageSizes, FirstPage(m, order, f, n)
  PROVE  PagesInv'
<1> DEFINE key == KeysOf(listed, m, order)
           M == Matching(listed, f)
           P == Leading(key, M, PageSize(n))
<1>1. /\ page' = [size |-> PageSize(n), filter |-> f, order |-> order]
      /\ shown' = [i \in RowIds |->
                     0 + IF i \in Leading(key, M, 0 + PageSize(n)) \ Leading(key, M, 0)
                         THEN 1 ELSE 0]
      /\ PageSize(n) \in Nat \ {0} /\ Keyed(key, M) /\ M \in SUBSET RowIds
  <2>1. ReadPage(m, order, f, 0, n)
    BY DEF FirstPage
  <2>2. /\ page' = [size |-> PageSize(n), filter |-> f, order |-> order]
        /\ shown' = [i \in RowIds |->
                       (IF 0 = 0 THEN 0 ELSE shown[i])
                         + IF i \in Leading(key, M, 0 + PageSize(n)) \ Leading(key, M, 0)
                           THEN 1 ELSE 0]
        /\ PageSize(n) \in Nat \ {0} /\ Keyed(key, M) /\ M \in SUBSET RowIds
    BY <2>1, PageShows, 0 \in Nat
  <2>3. QED BY <2>2
<1>2. /\ walk' = [method |-> m, filter |-> f, order |-> order,
                  token |-> NoToken, state |-> "count"]
      /\ owed' = M /\ gone' = 0 /\ came' = 0 /\ moved' = 0 /\ UNCHANGED listed
  BY DEF FirstPage
<1>3. Leading(key, M, 0) = {}
  BY <1>1, RankIsOrder DEF Leading
<1>4. /\ Reach' = PageSize(n) /\ Selected' = M /\ Keys' = key
  <2>1. /\ walk'.token.offset = 0 /\ walk'.method = m /\ walk'.order = order
        /\ walk'.filter = f /\ page'.size = PageSize(n)
    BY <1>1, <1>2 DEF NoToken
  <2>2. Reach' = PageSize(n)
    BY <1>1, <2>1 DEF Reach
  <2>3. QED BY <1>2, <2>1, <2>2 DEF Selected, Keys
<1>5. Passed' = P
  BY <1>4 DEF Passed
<1>6. \A i \in RowIds : shown'[i] = IF i \in P THEN 1 ELSE 0
  BY <1>1, <1>3
<1>7. Missed' = {} /\ Ahead' = {}
  BY <1>1, <1>2, <1>4, <1>5, <1>6 DEF Missed, Ahead
<1>8. Repeats' = {}
  <2>1. \A i \in RowIds : shown'[i] \in {0, 1}
    BY <1>6
  <2>2. \A e : e \in Repeats' <=> \E i \in RowIds : \E k \in 2..shown'[i] : e = <<i, k>>
    BY DEF Repeats
  <2>3. \A i \in RowIds : 2..shown'[i] = {}
    BY <2>1
  <2>4. QED BY <2>2, <2>3
<1>9. Requests'
  BY <1>1, <1>2 DEF Requests, NoToken, Alike
<1>10. Accounted'
  BY <1>2, <1>7, <1>8, FS_EmptySet DEF Accounted, PagesAreExplained
<1>11. QED BY <1>9, <1>10 DEF PagesInv

LEMMA NextPageExplained ==
  ASSUME ListsInv, PagesInv, NEW order, NEW f, NEW n \in PageSizes, NextPage(order, f, n)
  PROVE  PagesInv'
<1> DEFINE k == walk.token.offset
           P == Leading(Keys, Selected, k)
           Q == Leading(Keys, Selected, k + PageSize(n))
           again == {i \in Q \ P : shown[i] # 0}
<1>1. /\ walk.state = "token" /\ k \in Nat \ {0} /\ page.size = 0
      /\ order = walk.order /\ Alike(f, walk.filter)
      /\ ReadPage(walk.method, order, f, k, n)
      /\ owed \subseteq Selected
  BY DEF NextPage, TokenFits, PagesInv, Requests, Selected
<1>2. KeysOf(listed, walk.method, order) = Keys /\ Matching(listed, f) = Selected
  BY <1>1, AlikeSelect DEF Keys, Selected
<1>3. /\ page' = [size |-> PageSize(n), filter |-> f, order |-> order]
      /\ shown' = [i \in RowIds |-> shown[i] + IF i \in Q \ P THEN 1 ELSE 0]
      /\ PageSize(n) \in Nat \ {0}
      /\ Keyed(Keys, Selected) /\ Selected \in SUBSET RowIds /\ IsFiniteSet(Selected)
  BY <1>1, <1>2, PageShows
<1>4. /\ walk'.state = "count" /\ walk'.token = walk.token /\ walk'.method = walk.method
      /\ walk'.order = walk.order /\ walk'.filter = walk.filter
      /\ UNCHANGED <<listed, owed, gone, came, moved>>
  BY DEF NextPage, ListsInv, NoWalk
<1>5. Reach' = k + PageSize(n) /\ Reach = k /\ Selected' = Selected /\ Keys' = Keys
  BY <1>1, <1>3, <1>4 DEF Reach, Selected, Keys
<1>6. Passed' = Q /\ Passed = P
  BY <1>5 DEF Passed
<1>7. P \subseteq Q /\ Q \subseteq Selected
  <2>1. \A i \in Selected : Rank(Keys, Selected, i) \in Nat
    BY <1>3, RankIsOrder
  <2>2. \A r \in Nat : r < k => r < k + PageSize(n)
    BY <1>1, <1>3
  <2>3. QED BY <2>1, <2>2 DEF Leading
<1>8. shown \in [RowIds -> Nat] /\ IsFiniteSet(Repeats)
  BY DEF ListsInv, ListsTypeOK, PagesInv, Accounted
<1>9. \A i \in RowIds : /\ i \notin Q \ P => shown'[i] = shown[i]
                        /\ i \in Q \ P => shown'[i] # 0
  BY <1>3, <1>8
<1>10. IsFiniteSet(Missed) /\ IsFiniteSet(Ahead) /\ IsFiniteSet(again) /\ IsFiniteSet(Ahead')
  <2>1. Missed \in SUBSET Selected /\ Ahead \in SUBSET Selected
        /\ again \in SUBSET Selected /\ Ahead' \in SUBSET Selected
    BY <1>1, <1>5, <1>7 DEF Missed, Ahead
  <2>2. QED BY <1>3, <2>1, FS_Subset
<1>11. Missed' \in SUBSET Missed
  BY <1>1, <1>3, <1>4, <1>6, <1>9 DEF Missed
<1>12. Ahead = again \cup Ahead' /\ again \cap Ahead' = {}
  BY <1>3, <1>5, <1>6, <1>7, <1>9 DEF Ahead
<1>13. Cardinality(Missed') <= gone' + moved'
  <2>1. /\ IsFiniteSet(Missed') /\ Cardinality(Missed') <= Cardinality(Missed)
    BY <1>10, <1>11, FS_Subset
  <2>2. Cardinality(Missed') \in Nat /\ Cardinality(Missed) \in Nat
    BY <1>10, <2>1, FS_CardinalityType
  <2>3. Cardinality(Missed) <= gone + moved /\ gone \in Int /\ moved \in Int
    BY <1>1 DEF PagesInv, Accounted, ListsInv, Counted
  <2>4. QED BY <1>4, <2>1, <2>2, <2>3
<1>14. IsFiniteSet(Repeats') /\ Cardinality(Repeats') + Cardinality(Ahead') <= came' + moved'
  <2>1. /\ IsFiniteSet(Repeats') /\ Cardinality(Repeats') \in Nat
        /\ Cardinality(Repeats') <= Cardinality(Repeats) + Cardinality(again)
    <3>1. Q \ P \in SUBSET RowIds /\ IsFiniteSet(Q \ P)
      BY <1>3, <1>7, FS_Subset
    <3> HIDE DEF P, Q
    <3>2. QED BY <1>3, <1>8, <3>1, RepeatsGrow
  <2>2. Cardinality(Ahead) = Cardinality(again) + Cardinality(Ahead')
    <3>1. /\ Cardinality(again \cup Ahead')
               = Cardinality(again) + Cardinality(Ahead') - Cardinality(again \cap Ahead')
          /\ Cardinality(again \cap Ahead') = 0
      BY <1>10, <1>12, FS_Union, FS_EmptySet
    <3>2. Cardinality(again) \in Nat /\ Cardinality(Ahead') \in Nat
      BY <1>10, FS_CardinalityType
    <3> HIDE DEF again
    <3>3. QED BY <1>12, <3>1, <3>2
  <2>3. /\ Cardinality(Repeats) \in Nat /\ Cardinality(Ahead) \in Nat
        /\ Cardinality(again) \in Nat /\ Cardinality(Ahead') \in Nat
    BY <1>8, <1>10, FS_CardinalityType
  <2>4. /\ Cardinality(Repeats) + Cardinality(Ahead) <= came + moved
        /\ came \in Int /\ moved \in Int
    BY <1>1 DEF PagesInv, Accounted, ListsInv, Counted
  <2> HIDE DEF again
  <2>5. QED BY <1>4, <2>1, <2>2, <2>3, <2>4
<1>15. Cardinality(Repeats') <= came' + moved'
  <2>1. Cardinality(Ahead') \in Nat /\ Cardinality(Repeats') \in Nat
    BY <1>10, <1>14, FS_CardinalityType
  <2>2. came' \in Int /\ moved' \in Int
    BY <1>4 DEF ListsInv, Counted
  <2>3. QED BY <1>14, <2>1, <2>2
<1>16. Requests'
  BY <1>1, <1>3, <1>4 DEF Requests, Selected, Alike
<1>17. Accounted'
  BY <1>4, <1>13, <1>14, <1>15 DEF Accounted, PagesAreExplained
<1>18. QED BY <1>16, <1>17 DEF PagesInv

(* At the last page every row is before the offset reached. *)
LEMMA CountRowsExplained == ASSUME ListsInv, PagesInv, CountRows PROVE PagesInv'
<1> DEFINE next == walk.token.offset + page.size
<1>1. /\ walk.state = "count" /\ walk.token.offset \in Nat /\ page.size \in Nat \ {0}
      /\ page.order = walk.order /\ Alike(page.filter, walk.filter)
      /\ owed \subseteq Selected /\ next = Reach /\ next \in Nat \ {0}
  BY DEF CountRows, PagesInv, Requests, Selected, Reach
<1>2. /\ page' = NoPage /\ UNCHANGED <<listed, shown, owed, gone, came, moved, changes>>
      /\ walk' = IF next < Cardinality(Selected)
                 THEN [walk EXCEPT !.state = "token",
                                   !.token = EncodePageToken(next, page.order, page.filter)]
                 ELSE [walk EXCEPT !.state = "ended", !.token = NoToken]
  BY <1>1, AlikeSelect DEF CountRows, Selected
<1>3. Repeats' = Repeats /\ IsFiniteSet(Repeats) /\ Cardinality(Repeats) <= came + moved
  BY <1>2 DEF Repeats, PagesInv, Accounted, PagesAreExplained
<1>4. "state" \in DOMAIN walk /\ "token" \in DOMAIN walk
  BY DEF ListsInv, NoWalk
<1>5. CASE next < Cardinality(Selected)
  <2>1. /\ walk'.state = "token" /\ walk'.method = walk.method /\ walk'.order = walk.order
        /\ walk'.filter = walk.filter
        /\ walk'.token = EncodePageToken(next, page.order, page.filter)
    BY <1>2, <1>4, <1>5
  <2>2. /\ walk'.token.offset = next /\ walk'.token.order = walk.order
        /\ Alike(walk'.token.filter, walk.filter) /\ page'.size = 0
    <3>1. /\ walk'.token.filter = IF page.filter = "empty" THEN "nil" ELSE page.filter
          /\ walk'.token.offset = next /\ walk'.token.order = page.order
      BY <2>1 DEF EncodePageToken
    <3>2. Alike(walk'.token.filter, walk.filter)
      BY <1>1, <3>1 DEF Alike
    <3>3. QED BY <1>1, <1>2, <3>1, <3>2 DEF NoPage
  <2>3. Reach' = Reach
    BY <1>1, <2>2 DEF Reach
  <2>4. Selected' = Selected /\ Keys' = Keys
    BY <1>2, <2>1 DEF Selected, Keys
  <2>5. Missed' = Missed /\ Ahead' = Ahead
    BY <1>2, <2>3, <2>4 DEF Missed, Ahead, Passed
  <2>6. Requests'
    BY <1>1, <1>2, <2>1, <2>2 DEF Requests, Selected
  <2>7. /\ Cardinality(Missed) <= gone + moved
        /\ Cardinality(Repeats) + Cardinality(Ahead) <= came + moved
    BY <1>1 DEF PagesInv, Accounted
  <2>8. Accounted'
    BY <1>2, <1>3, <2>1, <2>5, <2>7 DEF Accounted, PagesAreExplained
  <2>9. QED BY <2>6, <2>8 DEF PagesInv
<1>6. CASE ~(next < Cardinality(Selected))
  <2>1. walk'.state = "ended" /\ walk'.filter = walk.filter
    BY <1>2, <1>4, <1>6
  <2>2. Selected \subseteq Passed
    <3>1. Keyed(Keys, Selected)
      BY ListedOK, RowsAreKeyed DEF Keys, Selected
    <3>2. /\ Cardinality(Selected) \in Nat
          /\ \A i \in Selected : /\ Rank(Keys, Selected, i) \in Nat
                                 /\ Rank(Keys, Selected, i) < Cardinality(Selected)
      BY <3>1, RankIsOrder
    <3>3. \A i \in Selected : Rank(Keys, Selected, i) < Reach
      BY <1>1, <1>6, <3>2
    <3>4. QED BY <3>3 DEF Passed, Leading
  <2>3. {i \in owed' : shown'[i] = 0} = Missed
    BY <1>1, <1>2, <2>2 DEF Missed
  <2>4. Cardinality(Missed) <= gone + moved
    BY <1>1 DEF PagesInv, Accounted
  <2>5. Requests'
    BY <1>1, <1>2, <2>1 DEF Requests, Selected
  <2>6. Accounted'
    BY <1>2, <1>3, <2>1, <2>3, <2>4 DEF Accounted, PagesAreExplained
  <2>7. QED BY <2>5, <2>6 DEF PagesInv
<1>7. QED BY <1>5, <1>6

(* A change of a row moves at most one row across the offset reached, and  *)
(* is counted.                                                             *)
LEMMA ChangeExplained ==
  ASSUME ListsInv, PagesInv, NEW rows_, NEW i, Change(rows_, i), RowsOK(rows_),
         OnlyRow(rows_, i)
  PROVE  PagesInv'
<1> DEFINE newM == Matching(rows_, walk.filter)
           newKey == KeysOf(rows_, walk.method, walk.order)
           M == Selected
           P == Passed
           Q == Leading(newKey, newM, Reach)
           was == i \in M
           is == i \in newM
           stays == SortKey(rows_[i], i, walk.method, walk.order)
                      = SortKey(listed[i], i, walk.method, walk.order)
<1>1. /\ walk.state # "none" /\ listed' = rows_ /\ UNCHANGED <<walk, page, shown>>
      /\ owed' = owed \cap newM
      /\ gone' = gone + IF was /\ ~is THEN 1 ELSE 0
      /\ came' = came + IF ~was /\ is THEN 1 ELSE 0
      /\ moved' = moved + IF was /\ is /\ ~stays THEN 1 ELSE 0
  BY DEF Change, Noted, Selected
<1>2. /\ Keyed(Keys, M) /\ Keyed(newKey, newM)
      /\ M \in SUBSET DOMAIN listed /\ newM \in SUBSET DOMAIN rows_
      /\ IsFiniteSet(DOMAIN listed)
  BY ListedOK, RowsAreKeyed DEF Keys, Selected
<1>3. M \ {i} = newM \ {i}
  BY DEF OnlyRow, Selected, Matching
<1>4. \A j \in M \ {i} : newKey[j] = Keys[j]
  BY <1>2, <1>3 DEF OnlyRow, Keys, KeysOf
<1>5. /\ owed \subseteq M /\ gone \in Int /\ came \in Int /\ moved \in Int
      /\ IsFiniteSet(owed) /\ IsFiniteSet(Repeats) /\ Repeats' = Repeats
  <2>1. owed \subseteq M /\ gone \in Int /\ came \in Int /\ moved \in Int
    BY <1>1 DEF PagesInv, Requests, Selected, ListsInv, Counted
  <2>2. IsFiniteSet(owed)
    BY <1>2, <2>1, FS_Subset
  <2>3. IsFiniteSet(Repeats) /\ Repeats' = Repeats
    BY <1>1 DEF Repeats, PagesInv, Accounted
  <2>4. QED BY <2>1, <2>2, <2>3
<1>6. Requests'
  <2>1. owed' \subseteq Matching(listed', walk'.filter)
    BY <1>1
  <2>2. QED BY <1>1, <2>1 DEF PagesInv, Requests
<1>7. PagesAreExplained'
  <2>1. Cardinality(Repeats') <= came' + moved'
    <3>1. Cardinality(Repeats) <= came + moved /\ Cardinality(Repeats) \in Nat
      BY <1>5, FS_CardinalityType DEF PagesInv, Accounted, PagesAreExplained
    <3>2. came + moved <= came' + moved' /\ came' + moved' \in Int
      BY <1>1, <1>5
    <3>3. came + moved \in Int
      BY <1>5
    <3>4. QED BY <1>5, <3>1, <3>2, <3>3
  <2>2. ASSUME walk.state = "ended"
        PROVE  Cardinality({j \in owed' : shown'[j] = 0}) <= gone' + moved'
    <3>1. /\ IsFiniteSet({j \in owed : shown[j] = 0})
          /\ {j \in owed' : shown'[j] = 0} \in SUBSET {j \in owed : shown[j] = 0}
      BY <1>1, <1>5, FS_Subset
    <3>2. /\ Cardinality({j \in owed' : shown'[j] = 0})
               <= Cardinality({j \in owed : shown[j] = 0})
          /\ Cardinality({j \in owed' : shown'[j] = 0}) \in Nat
          /\ Cardinality({j \in owed : shown[j] = 0}) \in Nat
      BY <3>1, FS_Subset, FS_CardinalityType
    <3>3. Cardinality({j \in owed : shown[j] = 0}) <= gone + moved
      BY <2>2 DEF PagesInv, Accounted, PagesAreExplained
    <3>4. gone + moved <= gone' + moved' /\ gone' + moved' \in Int /\ gone + moved \in Int
      BY <1>1, <1>5
    <3>5. QED BY ONLY <3>2, <3>3, <3>4
  <2>3. QED BY <1>1, <2>1, <2>2 DEF PagesAreExplained
<1>8. ASSUME walk.state \in {"count", "token"}
      PROVE  /\ Cardinality(Missed') <= gone' + moved'
             /\ Cardinality(Repeats') + Cardinality(Ahead') <= came' + moved'
  <2>1. Reach \in Nat
    BY <1>8 DEF Reach, PagesInv, Requests
  <2>2. Selected' = newM /\ Keys' = newKey /\ Passed' = Q
    BY <1>1 DEF Selected, Keys, Passed, Reach
  <2>3. /\ was /\ ~is => P \cap newM \subseteq Q /\ \E x : Q \subseteq P \cup {x}
        /\ ~was /\ is => Q \cap M \subseteq P /\ \E x : newM \ Q \subseteq (M \ P) \cup {x}
        /\ was /\ is => /\ \E x : Q \subseteq P \cup {x}
                        /\ \E x : newM \ Q \subseteq (M \ P) \cup {x}
    <3>1. P = Leading(Keys, M, Reach)
      BY DEF Passed
    <3> HIDE DEF newM, newKey, M, P
    <3>2. CrossesOnce(Keys, M, newKey, newM, i, Reach)
      BY <1>2, <1>3, <1>4, <2>1, OneRowChanges
    <3>3. QED BY <3>1, <3>2 DEF CrossesOnce
  <2>4. (~was /\ ~is) \/ (was /\ is /\ stays) => newM = M /\ Q = P
    <3> SUFFICES ASSUME (~was /\ ~is) \/ (was /\ is /\ stays) PROVE newM = M /\ Q = P
      OBVIOUS
    <3>1. newM = M
      BY <1>3
    <3>2. \A j \in M : newKey[j] = Keys[j]
      BY <1>2, <1>4, <3>1 DEF Keys, KeysOf
    <3>3. \A j \in M : Rank(newKey, newM, j) = Rank(Keys, M, j)
      <4> SUFFICES ASSUME NEW j \in M PROVE Preceding(newKey, newM, j) = Preceding(Keys, M, j)
        BY DEF Rank
      <4>1. QED BY <3>1, <3>2 DEF Preceding, Earlier
    <3>4. QED BY <3>1, <3>3 DEF Passed, Leading
  <2>5. /\ IsFiniteSet(Missed) /\ IsFiniteSet(Ahead)
        /\ Cardinality(Missed) \in Nat /\ Cardinality(Ahead) \in Nat
        /\ Cardinality(Repeats) \in Nat
    <3>1. Missed \in SUBSET DOMAIN listed /\ Ahead \in SUBSET DOMAIN listed
      BY <1>2, <1>5 DEF Missed, Ahead
    <3>2. QED BY <1>2, <1>5, <3>1, FS_Subset, FS_CardinalityType
  <2>6. /\ Missed' = {j \in owed \cap newM \cap Q : shown[j] = 0}
        /\ Ahead' = {j \in newM \ Q : shown[j] # 0}
    BY <1>1, <2>2 DEF Missed, Ahead
  <2>7. /\ was /\ (is => ~stays) => \E x : Missed' \subseteq Missed \cup {x}
        /\ ~(was /\ (is => ~stays)) => Missed' \subseteq Missed
        /\ is /\ (was => ~stays) => \E x : Ahead' \subseteq Ahead \cup {x}
        /\ ~(is /\ (was => ~stays)) => Ahead' \subseteq Ahead
    <3>1. ASSUME NEW x, Q \subseteq P \cup {x} PROVE Missed' \subseteq Missed \cup {x}
      BY <2>6, <3>1 DEF Missed
    <3>2. ASSUME Q \cap M \subseteq P PROVE Missed' \subseteq Missed
      BY <1>5, <2>6, <3>2 DEF Missed
    <3>3. ASSUME NEW x, newM \ Q \subseteq (M \ P) \cup {x} PROVE Ahead' \subseteq Ahead \cup {x}
      BY <2>6, <3>3 DEF Ahead
    <3>4. ASSUME newM \ Q \subseteq M \ P PROVE Ahead' \subseteq Ahead
      BY <2>6, <3>4 DEF Ahead
    <3>5. was /\ ~is => newM \ Q \subseteq M \ P
      BY <1>3, <2>3
    <3> HIDE DEF newM, M, P, Q, stays
    <3>6. QED BY <2>3, <2>4, <3>1, <3>2, <3>3, <3>4, <3>5
  <2>8. /\ Cardinality(Missed') \in Nat /\ Cardinality(Ahead') \in Nat
        /\ Cardinality(Missed') <=
             Cardinality(Missed) + IF was /\ (is => ~stays) THEN 1 ELSE 0
        /\ Cardinality(Ahead') <=
             Cardinality(Ahead) + IF is /\ (was => ~stays) THEN 1 ELSE 0
    <3>1. ASSUME NEW S, IsFiniteSet(S), NEW T, T \subseteq S
          PROVE  Cardinality(T) \in Nat /\ Cardinality(T) <= Cardinality(S) + 0
      <4>1. IsFiniteSet(T) /\ Cardinality(T) <= Cardinality(S)
        BY <3>1, FS_Subset
      <4>2. Cardinality(T) \in Nat /\ Cardinality(S) \in Nat
        BY <3>1, <4>1, FS_CardinalityType
      <4>3. QED BY <4>1, <4>2
    <3>2. ASSUME NEW S, IsFiniteSet(S), NEW T, \E x : T \subseteq S \cup {x}
          PROVE  Cardinality(T) \in Nat /\ Cardinality(T) <= Cardinality(S) + 1
      BY <3>2, OneMore
    <3> HIDE DEF newM, M, P, Q, stays, was, is
    <3>3. QED BY <2>5, <2>7, <3>1, <3>2
  <2>9. /\ Cardinality(Missed) <= gone + moved
        /\ Cardinality(Repeats) + Cardinality(Ahead) <= came + moved
    BY <1>8 DEF PagesInv, Accounted
  <2>10. /\ gone' + moved' = gone + moved + IF was /\ (is => ~stays) THEN 1 ELSE 0
         /\ came' + moved' = came + moved + IF is /\ (was => ~stays) THEN 1 ELSE 0
    <3> HIDE DEF was, is, stays
    <3>1. QED BY <1>1, <1>5
  <2> HIDE DEF was, is, stays
  <2>11. QED BY <1>5, <2>5, <2>8, <2>9, <2>10
<1>9. Accounted'
  BY <1>1, <1>5, <1>7, <1>8 DEF Accounted
<1>10. QED BY <1>6, <1>9 DEF PagesInv

LEMMA PagesStep == ASSUME ListsInv, PagesInv, [ListsNext]_listsVars PROVE PagesInv'
<1>1. CASE UNCHANGED listsVars
  <2>1. /\ UNCHANGED <<listed, walk, page, shown, owed, gone, came, moved>>
    BY <1>1 DEF listsVars
  <2>2. Missed' = Missed /\ Ahead' = Ahead /\ Repeats' = Repeats
    BY <2>1 DEF Missed, Ahead, Passed, Selected, Keys, Reach, Repeats
  <2>3. Requests'
    BY <2>1 DEF PagesInv, Requests
  <2>4. Accounted'
    BY <2>1, <2>2 DEF PagesInv, Accounted, PagesAreExplained
  <2>5. QED BY <2>3, <2>4 DEF PagesInv
<1>2. CASE \E rows_, i : Change(rows_, i) /\ RowsOK(rows_) /\ OnlyRow(rows_, i)
  BY <1>2, ChangeExplained
<1>3. QED BY <1>1, <1>2, RowChanges, FirstPageExplained, NextPageExplained,
             CountRowsExplained DEF ListsNext

(* Whichever the order, the filter and the sizes of its pages, a walk that *)
(* has ended has shown every row that could be read all along, but for as  *)
(* many as left or moved, and has shown a row again only for each one that *)
(* entered or moved.                                                       *)
THEOREM PagesStayExplained == ListsSpec => []PagesAreExplained
<1>1. ListsInit => PagesInv
  <2> SUFFICES ASSUME ListsInit PROVE PagesInv
    OBVIOUS
  <2>1. /\ walk.state = "none" /\ shown = [i \in RowIds |-> 0]
        /\ gone = 0 /\ came = 0 /\ moved = 0
    BY DEF ListsInit, NoWalk
  <2>2. Repeats = {}
    BY <2>1, NoRepeats
  <2>3. QED BY <2>1, <2>2, FS_EmptySet DEF PagesInv, Requests, Accounted, PagesAreExplained
<1>2. ListsInv /\ PagesInv /\ [ListsNext]_listsVars => PagesInv'
  BY PagesStep
<1>3. PagesInv => PagesAreExplained
  BY DEF PagesInv, Accounted
<1>4. QED BY <1>1, <1>2, <1>3, ListsInvariance, PTL DEF ListsSpec
=============================================================================
