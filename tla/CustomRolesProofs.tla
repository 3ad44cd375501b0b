-------------------------- MODULE CustomRolesProofs -------------------------
(***************************************************************************)
(* Proofs about CustomRoles, for any calls, users, roles, permissions and  *)
(* requests.  RoleLocks says that the lock of a role has one holder.       *)
(* Findings says what its holder has found out about the role, which is    *)
(* still so.  Existing says that only roles that exist are assigned.       *)
(***************************************************************************)
EXTENDS CustomRoles, TLAPS

RoleLocks ==
  \A c, d \in Calls : \A r \in Roles : HoldsLock(c, r) /\ HoldsLock(d, r) => c = d

ControlFlow ==
  \A c \in Calls :
    /\ pc[c] = "lock" => req[c].op \in Locking
    /\ pc[c] \in {"locked", "allowed", "valid"} => req[c].op # "rename"
    /\ pc[c] = "valid" => req[c].op \in {"update", "modify"}
    /\ pc[c] = "update" => req[c].op \in {"update", "modify", "rename"}

(* What a call has established before it came where it is. *)
Finding(c) ==
  /\ Checked(c) => status[req[c].role] = "present"
  /\ Checked(c) => ChangedPerms(c) \subseteq authority[c]
  /\ Checked(c) /\ req[c].op = "assign-project" => ProjectAssignable(perms[req[c].role])
  /\ Checked(c) /\ pc[c] \in {"valid", "update"} => Valid(c)

Findings == \A c \in Calls : Finding(c)

Existing == \A a \in orgRoles \cup projectRoles : status[a[2]] = "present"

IInv ==
  /\ TypeOK /\ RoleLocks /\ ControlFlow /\ Findings /\ Existing
  /\ ScopeHolds /\ UpdatesAreNotStale

(* The steps of one call. *)
Reads(c) ==
  \/ \E q \in Requests, e \in 0 .. MaxETag : Begin(c, q, e) \/ BeginRename(c, q, e)
  \/ LockCustomRole(c) \/ Authorize(c) \/ ValidateAssignmentScope(c) \/ StartUpdate(c)
  \/ ModifyNothing(c) \/ Abort(c)

RoleWrites(c) ==
  \/ UpdateCustomRole(c) \/ UpdateNothing(c) \/ ModifyCustomRolePermissions(c)
  \/ CreateCustomRole(c) \/ DeleteCustomRole(c)

AssignmentWrites(c) ==
  \/ AssignCustomRoleToProject(c) \/ UnassignCustomRoleFromProject(c)
  \/ AssignCustomRoleToOrg(c) \/ UnassignCustomRoleFromOrg(c)

Step(c) == Reads(c) \/ RoleWrites(c) \/ AssignmentWrites(c)

LEMMA NextIsAStep == Next <=> \E c \in Calls : Step(c)
BY Zenon DEF Next, Step, Reads, RoleWrites, AssignmentWrites
-----------------------------------------------------------------------------
(* A request of a call under way is one that clients make. *)
LEMMA Requested ==
  ASSUME TypeOK, NEW c \in Calls, pc[c] # "idle"
  PROVE  /\ req[c] \in Requests /\ req[c].role \in Roles /\ req[c].op \in Operations
         /\ req[c].to \in Users /\ req[c].perms \subseteq Perms
         /\ req[c].add \subseteq Perms /\ req[c].remove \subseteq Perms
BY RequestsAssumption DEF TypeOK, Request

(* No client makes the request of an idle call. *)
LEMMA NoRequestIsNone == NoRequest \notin Requests
BY RequestsAssumption DEF Request, Operations, NoRequest

(* The inductive invariant holds for an organization that has its managed  *)
(* role and nothing else.                                                  *)
LEMMA InitInv == Init => IInv
<1> SUFFICES ASSUME Init PROVE IInv
  OBVIOUS
<1>1. TypeOK
  BY ManagedAssumption, PermsAssumption, BoundAssumption, NoRequestIsNone
     DEF Init, TypeOK, ETagged, Operations
<1>2. RoleLocks /\ ControlFlow /\ Findings
  BY DEF Init, RoleLocks, ControlFlow, Findings, Finding, HoldsLock, Checked
<1>3. Existing /\ ScopeHolds /\ UpdatesAreNotStale
  BY ManagedAssumption DEF Init, Existing, ScopeHolds, HasProjectAssignments,
     UpdatesAreNotStale
<1>4. QED BY <1>1, <1>2, <1>3 DEF IInv
-----------------------------------------------------------------------------
(* Every step keeps the state well-typed. *)
LEMMA TypeStep ==
  ASSUME TypeOK, NEW c \in Calls, Step(c)
  PROVE  TypeOK'
<1> USE BoundAssumption, NoRequestIsNone DEF TypeOK, table, history
<1>1. ASSUME Rollback(c) PROVE TypeOK'
  BY <1>1 DEF Rollback, End
<1>2. ASSUME NEW q \in Requests, NEW e \in 0 .. MaxETag, Begin(c, q, e) PROVE TypeOK'
  <2>1. q.by \in Users
    BY RequestsAssumption DEF Request
  <2>2. OrgPermissions(q.by) \subseteq Perms /\ ProjectPermissions(q.by) \subseteq Perms
    <3>1. \A r \in Roles : perms[r] \subseteq Perms
      OBVIOUS
    <3>2. OrgPermissions(q.by) \subseteq Perms
      <4>1. SystemPerms[q.by] \subseteq Perms
        BY <2>1, PermsAssumption
      <4>2. UNION {perms[r] : r \in {s \in Roles : <<q.by, s>> \in orgRoles}} \subseteq Perms
        BY ONLY <3>1, Zenon
      <4>3. QED BY <4>1, <4>2 DEF OrgPermissions
    <3>3. QED BY <3>1, <3>2 DEF ProjectPermissions
  <2>3. QED BY <1>2, <2>2 DEF Begin
<1>3. ASSUME NEW q \in Requests, NEW e \in 0 .. MaxETag, BeginRename(c, q, e) PROVE TypeOK'
  <2>1. q.role \in Roles
    BY RequestsAssumption DEF Request
  <2>2. QED BY <1>3, <2>1 DEF BeginRename
<1>4. ASSUME NEW to \in {"locked", "allowed", "valid", "update"}, Advance(c, to),
             snapshot' \in [Calls -> 0 .. MaxETag], pc[c] # "idle"
      PROVE TypeOK'
  BY <1>4 DEF Advance
<1>5. CASE Reads(c)
  <2>1. CASE LockCustomRole(c)
    BY <1>4, <2>1 DEF LockCustomRole
  <2>2. CASE Authorize(c)
    BY <1>1, <1>4, <2>2 DEF Authorize
  <2>3. CASE ValidateAssignmentScope(c)
    BY <1>1, <1>4, <2>3 DEF ValidateAssignmentScope
  <2>4. CASE StartUpdate(c)
    BY <1>4, <2>4, Requested DEF StartUpdate
  <2>5. CASE ModifyNothing(c) \/ Abort(c)
    BY <1>1, <2>5 DEF ModifyNothing, Abort
  <2>6. QED BY <1>2, <1>3, <1>5, <2>1, <2>2, <2>3, <2>4, <2>5 DEF Reads
<1>6. CASE UpdateCustomRole(c)
  <2>1. pc[c] # "idle" /\ Rotate(req[c].role) /\ End(c)
    BY <1>6 DEF UpdateCustomRole
  <2>2. etag' \in [Roles -> 0 .. MaxETag]
    BY <2>1, Requested DEF Rotate
  <2>3. perms' \in [Roles -> SUBSET Perms] /\ stale' \subseteq ETagged
    BY <1>6, Requested DEF UpdateCustomRole, ETagged
  <2>4. UNCHANGED <<status, orgRoles, projectRoles, missed, beyond>>
    BY <1>6 DEF UpdateCustomRole
  <2>5. QED BY <2>1, <2>2, <2>3, <2>4 DEF End
<1>7. CASE UpdateNothing(c)
  <2>1. missed' \subseteq ETagged
    BY <1>7 DEF UpdateNothing, ETagged
  <2>2. End(c) /\ UNCHANGED <<status, perms, etag, orgRoles, projectRoles, stale, beyond>>
    BY <1>7 DEF UpdateNothing
  <2>3. QED BY <2>1, <2>2 DEF End
<1>8. CASE ModifyCustomRolePermissions(c)
  <2>1. NextPerms(c) \subseteq Perms
    BY <1>8, Requested DEF ModifyCustomRolePermissions, NextPerms
  <2>2. QED BY <1>8, <2>1, Requested DEF ModifyCustomRolePermissions, End, Rotate, ETagged
<1>9. CASE CreateCustomRole(c)
  BY <1>9, Requested DEF CreateCustomRole, Ready, End
<1>10. CASE DeleteCustomRole(c)
  BY <1>10, Requested DEF DeleteCustomRole, Ready, End
<1>11. CASE AssignmentWrites(c)
  BY <1>11, Requested DEF AssignmentWrites, AssignCustomRoleToProject,
     UnassignCustomRoleFromProject, AssignCustomRoleToOrg, UnassignCustomRoleFromOrg,
     Ready, End, Operations
<1>12. QED
  BY <1>5, <1>6, <1>7, <1>8, <1>9, <1>10, <1>11 DEF Step, RoleWrites
-----------------------------------------------------------------------------
(* What writes ends the call, and so does what gives up. *)
LEMMA Ends ==
  ASSUME NEW c \in Calls,
         RoleWrites(c) \/ AssignmentWrites(c) \/ ModifyNothing(c) \/ Abort(c)
  PROVE  End(c)
BY DEF ModifyNothing, Abort, Rollback, RoleWrites, UpdateCustomRole, UpdateNothing,
   ModifyCustomRolePermissions, CreateCustomRole, DeleteCustomRole, AssignmentWrites,
   AssignCustomRoleToProject, UnassignCustomRoleFromProject, AssignCustomRoleToOrg,
   UnassignCustomRoleFromOrg

(* The locks of roles stay apart and calls follow the order of statements. *)
LEMMA LocksStep ==
  ASSUME TypeOK, RoleLocks, ControlFlow, NEW c \in Calls, Step(c)
  PROVE  RoleLocks' /\ ControlFlow'
<1> USE DEF TypeOK, RoleLocks, ControlFlow, HoldsLock
<1>1. ASSUME End(c) PROVE RoleLocks' /\ ControlFlow'
  BY <1>1 DEF End
<1>2. ASSUME NEW q \in Requests, NEW e \in 0 .. MaxETag, Begin(c, q, e)
      PROVE RoleLocks' /\ ControlFlow'
  BY <1>2 DEF Begin
<1>3. ASSUME NEW q \in Requests, NEW e \in 0 .. MaxETag, BeginRename(c, q, e)
      PROVE RoleLocks' /\ ControlFlow'
  BY <1>3 DEF BeginRename, Locking
<1>4. CASE LockCustomRole(c)
  BY <1>4 DEF LockCustomRole, Advance, Locking
<1>5. CASE Authorize(c)
  BY <1>1, <1>5 DEF Authorize, Rollback, Advance
<1>6. CASE ValidateAssignmentScope(c)
  BY <1>1, <1>6 DEF ValidateAssignmentScope, Rollback, Advance
<1>7. CASE StartUpdate(c)
  BY <1>7 DEF StartUpdate, Advance
<1>8. CASE ModifyNothing(c) \/ Abort(c) \/ RoleWrites(c) \/ AssignmentWrites(c)
  BY <1>1, <1>8, Ends
<1>9. QED
  BY <1>2, <1>3, <1>4, <1>5, <1>6, <1>7, <1>8 DEF Step, Reads
-----------------------------------------------------------------------------
(* What a call can rely on while it holds the lock of its role: nobody     *)
(* changes its own state, and the role and whether it is assigned in the   *)
(* project stay as they are.                                               *)
Keeps(c) ==
  /\ UNCHANGED <<pc[c], req[c], authority[c]>>
  /\ \A r \in Roles :
       Checked(c) /\ req[c].role = r =>
         /\ UNCHANGED <<status[r], perms[r]>>
         /\ HasProjectAssignments(r)' => HasProjectAssignments(r)

(* The steps of one call keep what another one relies on. *)
LEMMA OthersKeep ==
  ASSUME IInv, NEW d \in Calls, Step(d), NEW c \in Calls, c # d
  PROVE  Keeps(c)
<1> USE DEF IInv
<1>1. UNCHANGED <<pc[c], req[c], authority[c]>>
  <2>1. CASE End(d)
    BY <2>1 DEF TypeOK, End
  <2>2. CASE ~End(d)
    BY <2>2, Ends DEF TypeOK, Step, Reads, Begin, BeginRename, LockCustomRole, Authorize,
       ValidateAssignmentScope, StartUpdate, Rollback, Advance
  <2>3. QED BY <2>1, <2>2
<1> SUFFICES ASSUME NEW r \in Roles, Checked(c), req[c].role = r
             PROVE  /\ UNCHANGED <<status[r], perms[r]>>
                    /\ HasProjectAssignments(r)' => HasProjectAssignments(r)
  BY <1>1 DEF Keeps
<1>2. HoldsLock(c, r) /\ status[r] = "present"
  BY Requested DEF Checked, HoldsLock, Findings, Finding
<1>3. HoldsLock(d, req[d].role) => req[d].role # r
  BY <1>2 DEF RoleLocks
<1>4. ASSUME UNCHANGED table
      PROVE  /\ UNCHANGED <<status[r], perms[r]>>
             /\ HasProjectAssignments(r)' => HasProjectAssignments(r)
  BY <1>4 DEF table, HasProjectAssignments
<1>5. CASE Reads(d) \/ UpdateNothing(d)
  <2>1. UNCHANGED table
    BY <1>5 DEF Reads, Begin, BeginRename, LockCustomRole, Authorize, Rollback, Advance,
       ValidateAssignmentScope, StartUpdate, ModifyNothing, Abort, UpdateNothing
  <2>2. QED BY <1>4, <2>1
<1>6. CASE UpdateCustomRole(d)
  <2>1. UNCHANGED <<status, projectRoles>> /\ UNCHANGED perms[r]
    BY <1>3, <1>6, Requested DEF UpdateCustomRole, HoldsLock, Locking, TypeOK
  <2>2. QED BY <2>1 DEF HasProjectAssignments
<1>7. CASE ModifyCustomRolePermissions(d)
  <2>1. UNCHANGED <<status, projectRoles>> /\ UNCHANGED perms[r]
    BY <1>3, <1>7, Requested DEF ModifyCustomRolePermissions, HoldsLock, Locking, TypeOK
  <2>2. QED BY <2>1 DEF HasProjectAssignments
<1>8. CASE CreateCustomRole(d)
  <2>1. UNCHANGED projectRoles /\ UNCHANGED <<status[r], perms[r]>>
    BY <1>2, <1>8, Requested DEF CreateCustomRole, TypeOK
  <2>2. QED BY <2>1 DEF HasProjectAssignments
<1>9. CASE DeleteCustomRole(d)
  <2>1. req[d].role # r
    BY <1>3, <1>9 DEF DeleteCustomRole, Ready, HoldsLock, Locking
  <2>2. UNCHANGED <<status[r], perms[r]>> /\ projectRoles' \subseteq projectRoles
    BY <1>2, <1>9, <2>1 DEF DeleteCustomRole, TypeOK
  <2>3. QED BY <2>2 DEF HasProjectAssignments
<1>10. CASE AssignCustomRoleToProject(d)
  <2>1. req[d].role # r
    BY <1>3, <1>10 DEF AssignCustomRoleToProject, Ready, HoldsLock, Locking
  <2>2. projectRoles' = projectRoles \cup {<<req[d].to, req[d].role>>}
    BY <1>10 DEF AssignCustomRoleToProject
  <2>3. UNCHANGED <<status, perms>>
    BY <1>10 DEF AssignCustomRoleToProject
  <2>4. QED BY <2>1, <2>2, <2>3 DEF HasProjectAssignments
<1>11. CASE UnassignCustomRoleFromProject(d) \/ AssignCustomRoleToOrg(d)
              \/ UnassignCustomRoleFromOrg(d)
  <2>1. UNCHANGED <<status, perms>> /\ projectRoles' \subseteq projectRoles
    BY <1>11 DEF UnassignCustomRoleFromProject, AssignCustomRoleToOrg,
       UnassignCustomRoleFromOrg
  <2>2. QED BY <2>1 DEF HasProjectAssignments
<1>12. QED
  BY <1>5, <1>6, <1>7, <1>8, <1>9, <1>10, <1>11 DEF Step, RoleWrites, AssignmentWrites

(* What was found stays found as long as nothing it depends on changes. *)
LEMMA KeptFinding ==
  ASSUME TypeOK, NEW c \in Calls, Finding(c), Keeps(c)
  PROVE  Finding(c)'
<1> SUFFICES ASSUME Checked(c)' PROVE Finding(c)'
  BY DEF Finding
<1>1. Checked(c)
  BY DEF Keeps, Checked
<1>2. /\ UNCHANGED <<pc[c], req[c], authority[c], status[req[c].role], perms[req[c].role]>>
      /\ HasProjectAssignments(req[c].role)' => HasProjectAssignments(req[c].role)
  <2>1. PICK r \in Roles : req[c].role = r
    BY <1>1, Requested DEF Checked
  <2>2. /\ UNCHANGED <<pc[c], req[c], authority[c], status[r], perms[r]>>
        /\ HasProjectAssignments(r)' => HasProjectAssignments(r)
    BY <1>1, <2>1 DEF Keeps
  <2>3. HasProjectAssignments(req[c].role)' <=> HasProjectAssignments(r)'
    BY <2>1, <2>2 DEF HasProjectAssignments
  <2>4. QED BY <2>1, <2>2, <2>3
<1>3. UNCHANGED <<NextPerms(c), ChangedPerms(c)>> 
  BY <1>2 DEF NextPerms, ChangedPerms
<1>4. QED
  BY <1>1, <1>2, <1>3 DEF Finding, Valid, ProjectAssignable

(* The call that takes a step has checked what it then relies on. *)
LEMMA OwnFinding ==
  ASSUME IInv, NEW c \in Calls, Step(c)
  PROVE  Finding(c)'
<1> USE DEF IInv
<1> SUFFICES ASSUME Checked(c)' PROVE Finding(c)'
  BY DEF Finding
<1>1. ~End(c)
  BY DEF End, Checked, TypeOK
<1>2. /\ UNCHANGED <<table, req, authority>> /\ pc[c] # "idle"
      /\ \/ MayChange(c) /\ pc'[c] = "allowed"
         \/ Finding(c) /\ Checked(c) /\ pc'[c] = pc[c]
         \/ Finding(c) /\ Checked(c) /\ Valid(c) /\ pc'[c] \in {"valid", "update"}
  <2>1. CASE Authorize(c)
    BY <1>1, <2>1 DEF TypeOK, Authorize, Advance, Rollback
  <2>2. CASE ValidateAssignmentScope(c)
    <3>1. Advance(c, "valid") /\ Valid(c) /\ pc[c] = "allowed"
      BY <1>1, <2>2 DEF ValidateAssignmentScope, Rollback
    <3>2. UNCHANGED <<table, req, authority>> /\ pc'[c] = "valid"
      BY <3>1 DEF TypeOK, Advance
    <3>3. Checked(c)
      BY <3>1, <3>2 DEF Checked
    <3>4. QED BY <3>1, <3>2, <3>3 DEF Findings
  <2>3. CASE StartUpdate(c)
    <3>1. UNCHANGED <<table, req, authority>> /\ pc'[c] = "update" /\ pc[c] = "valid"
      BY <2>3 DEF TypeOK, StartUpdate, Advance
    <3>2. Checked(c)
      BY <3>1 DEF Checked
    <3>3. QED BY <3>1, <3>2 DEF Findings, Finding
  <2>4. CASE LockCustomRole(c)
    BY <2>4 DEF TypeOK, LockCustomRole, Advance, Checked
  <2>5. ASSUME NEW q \in Requests, NEW e \in 0 .. MaxETag, Begin(c, q, e) PROVE FALSE
    BY <2>5 DEF TypeOK, Begin, Checked
  <2>6. ASSUME NEW q \in Requests, NEW e \in 0 .. MaxETag, BeginRename(c, q, e) PROVE FALSE
    BY <2>6 DEF TypeOK, BeginRename, Checked, Locking
  <2>7. QED BY <1>1, Ends, <2>1, <2>2, <2>3, <2>4, <2>5, <2>6 DEF Step, Reads
<1>3. Valid(c)' <=> Valid(c)
  BY <1>2 DEF Valid, NextPerms, HasProjectAssignments, table
<1>4. ChangedPerms(c)' = ChangedPerms(c)
  BY <1>2 DEF ChangedPerms, NextPerms, table
<1>5. CASE MayChange(c) /\ pc'[c] = "allowed"
  <2>1. req[c].op \in Locking /\ req'[c] = req[c] /\ authority'[c] = authority[c]
    BY <1>2 DEF Checked
  <2>2. QED
    BY <1>2, <1>4, <1>5, <2>1
       DEF MayChange, Finding, Checked, Locking, ProjectAssignable, table
<1>6. CASE Finding(c) /\ Checked(c)
  BY <1>2, <1>3, <1>4, <1>6 DEF Finding, Checked, ProjectAssignable, table
<1>7. QED BY <1>2, <1>5, <1>6
-----------------------------------------------------------------------------
(* Every step leaves only roles that exist assigned. *)
LEMMA ExistingStep ==
  ASSUME IInv, NEW c \in Calls, Step(c)
  PROVE  Existing'
<1> USE DEF IInv, Existing
<1>1. CASE Reads(c) \/ UpdateNothing(c) \/ UpdateCustomRole(c)
             \/ ModifyCustomRolePermissions(c)
  <2>1. UNCHANGED <<status, orgRoles, projectRoles>>
    BY <1>1 DEF Reads, Begin, BeginRename, LockCustomRole, Authorize, Rollback, Advance,
       ValidateAssignmentScope, StartUpdate, ModifyNothing, Abort, UpdateNothing,
       UpdateCustomRole, ModifyCustomRolePermissions, table
  <2>2. QED BY <2>1
<1>2. CASE CreateCustomRole(c) \/ DeleteCustomRole(c)
  <2>1. req[c].role \in Roles
    BY <1>2, Requested DEF CreateCustomRole, DeleteCustomRole, Ready
  <2>2. QED BY <1>2, <2>1 DEF CreateCustomRole, DeleteCustomRole, TypeOK
<1>3. CASE AssignmentWrites(c)
  <2>1. UNCHANGED status
    BY <1>3 DEF AssignmentWrites, AssignCustomRoleToProject, UnassignCustomRoleFromProject,
       AssignCustomRoleToOrg, UnassignCustomRoleFromOrg
  <2>2. \A a \in orgRoles' \cup projectRoles' :
          a \in orgRoles \cup projectRoles \/ status[a[2]] = "present"
    BY <1>3 DEF AssignmentWrites, AssignCustomRoleToProject, UnassignCustomRoleFromProject,
       AssignCustomRoleToOrg, UnassignCustomRoleFromOrg
  <2>3. QED BY <2>1, <2>2
<1>4. QED BY <1>1, <1>2, <1>3 DEF Step, RoleWrites

(* Whether permissions or assignments change, the check that the other     *)
(* side passed is still true.                                              *)
LEMMA ScopeStep ==
  ASSUME IInv, NEW c \in Calls, Step(c)
  PROVE  ScopeHolds'
<1> USE DEF IInv
<1> SUFFICES ASSUME NEW r \in Roles, HasProjectAssignments(r)'
             PROVE  ProjectAssignable(perms'[r])
  BY DEF ScopeHolds, ProjectAssignable
<1>1. CASE perms'[r] = perms[r] /\ (HasProjectAssignments(r)' => HasProjectAssignments(r))
  BY <1>1 DEF ScopeHolds
<1>2. CASE Reads(c) \/ UpdateNothing(c)
  <2>1. UNCHANGED table
    BY <1>2 DEF Reads, Begin, BeginRename, LockCustomRole, Authorize, Rollback, Advance,
       ValidateAssignmentScope, StartUpdate, ModifyNothing, Abort, UpdateNothing
  <2>2. QED BY <1>1, <2>1 DEF table, HasProjectAssignments
<1>3. CASE UpdateCustomRole(c) \/ ModifyCustomRolePermissions(c)
  <2>1. UNCHANGED projectRoles
    BY <1>3 DEF UpdateCustomRole, ModifyCustomRolePermissions
  <2>2. HasProjectAssignments(r)
    BY <2>1 DEF HasProjectAssignments
  <2>3. CASE perms'[r] = perms[r]
    BY <1>1, <2>2, <2>3
  <2>4. CASE perms'[r] # perms[r]
    <3>1. /\ pc[c] = "update" /\ req[c].op \in {"update", "modify"} /\ req[c].role = r
          /\ perms'[r] = NextPerms(c)
      BY <1>3, <2>4, Requested
         DEF UpdateCustomRole, ModifyCustomRolePermissions, TypeOK, NextPerms
    <3>2. Valid(c)
      BY <3>1 DEF Findings, Finding, Checked, Locking
    <3>3. QED BY <2>2, <3>1, <3>2 DEF Valid
  <2>5. QED BY <2>3, <2>4
<1>4. CASE CreateCustomRole(c)
  <2>1. UNCHANGED projectRoles
    BY <1>4 DEF CreateCustomRole
  <2>2. r # req[c].role
    BY <1>4, <2>1 DEF CreateCustomRole, HasProjectAssignments, Existing
  <2>3. perms'[r] = perms[r]
    BY <1>4, <2>2 DEF CreateCustomRole, TypeOK
  <2>4. QED BY <1>1, <2>1, <2>3 DEF HasProjectAssignments
<1>5. CASE DeleteCustomRole(c)
  <2>1. r # req[c].role /\ HasProjectAssignments(r)
    BY <1>5 DEF DeleteCustomRole, HasProjectAssignments
  <2>2. QED BY <1>1, <1>5, <2>1 DEF DeleteCustomRole, TypeOK
<1>6. CASE AssignCustomRoleToProject(c)
  <2>1. UNCHANGED perms /\ projectRoles' = projectRoles \cup {<<req[c].to, req[c].role>>}
    BY <1>6 DEF AssignCustomRoleToProject
  <2>2. CASE r = req[c].role
    <3>1. ProjectAssignable(perms[r])
      BY <1>6, <2>2 DEF AssignCustomRoleToProject, Ready, Findings, Finding, Checked, Locking
    <3>2. QED BY <2>1, <3>1
  <2>3. CASE r # req[c].role
    BY <1>1, <2>1, <2>3 DEF HasProjectAssignments
  <2>4. QED BY <2>2, <2>3
<1>7. CASE UnassignCustomRoleFromProject(c) \/ AssignCustomRoleToOrg(c)
             \/ UnassignCustomRoleFromOrg(c)
  <2>1. UNCHANGED perms /\ projectRoles' \subseteq projectRoles
    BY <1>7 DEF UnassignCustomRoleFromProject, AssignCustomRoleToOrg,
       UnassignCustomRoleFromOrg
  <2>2. QED BY <1>1, <2>1 DEF HasProjectAssignments
<1>8. QED
  BY <1>2, <1>3, <1>4, <1>5, <1>6, <1>7 DEF Step, RoleWrites, AssignmentWrites

(* An update that finds another etag than its client's does nothing. *)
LEMMA ETagsStep ==
  ASSUME UpdatesAreNotStale, NEW c \in Calls, Step(c)
  PROVE  UpdatesAreNotStale'
<1>1. CASE UpdateCustomRole(c) \/ ModifyCustomRolePermissions(c)
  BY <1>1 DEF UpdateCustomRole, ModifyCustomRolePermissions, Matches, UpdatesAreNotStale
<1>2. CASE ~(UpdateCustomRole(c) \/ ModifyCustomRolePermissions(c))
  <2>1. UNCHANGED stale
    BY <1>2 DEF Step, Reads, Begin, BeginRename, LockCustomRole, Authorize, Rollback, Advance,
       ValidateAssignmentScope, StartUpdate, ModifyNothing, Abort, RoleWrites, UpdateNothing,
       CreateCustomRole, DeleteCustomRole, AssignmentWrites, AssignCustomRoleToProject,
       UnassignCustomRoleFromProject, AssignCustomRoleToOrg, UnassignCustomRoleFromOrg, history
  <2>2. QED BY <2>1 DEF UpdatesAreNotStale
<1>3. QED BY <1>1, <1>2
-----------------------------------------------------------------------------
(* The inductive invariant is preserved. *)
LEMMA StepInv == IInv /\ [Next]_vars => IInv'
<1> SUFFICES ASSUME IInv, [Next]_vars PROVE IInv'
  OBVIOUS
<1>1. CASE UNCHANGED vars
  <2>1. UNCHANGED <<status, perms, etag, orgRoles, projectRoles, pc, req, tag, authority,
                    snapshot, stale, missed, beyond>>
    BY <1>1 DEF vars, table, history
  <2>2. TypeOK' /\ RoleLocks' /\ ControlFlow'
    BY <2>1 DEF IInv, TypeOK, RoleLocks, ControlFlow, HoldsLock
  <2>3. ASSUME NEW c \in Calls PROVE Finding(c)'
    BY <2>1, KeptFinding DEF IInv, Findings, Keeps, HasProjectAssignments
  <2>4. Existing' /\ ScopeHolds' /\ UpdatesAreNotStale'
    BY <2>1 DEF IInv, Existing, ScopeHolds, HasProjectAssignments, ProjectAssignable,
       UpdatesAreNotStale
  <2>5. QED BY <2>2, <2>3, <2>4 DEF IInv, Findings
<1>2. ASSUME NEW c \in Calls, Step(c) PROVE IInv'
  <2>1. TypeOK' /\ RoleLocks' /\ ControlFlow'
    BY <1>2, TypeStep, LocksStep DEF IInv
  <2>2. ASSUME NEW d \in Calls PROVE Finding(d)'
    BY <1>2, OwnFinding, OthersKeep, KeptFinding DEF IInv, Findings
  <2>3. Existing' /\ ScopeHolds' /\ UpdatesAreNotStale'
    BY <1>2, ExistingStep, ScopeStep, ETagsStep DEF IInv
  <2>4. QED BY <2>1, <2>2, <2>3 DEF IInv, Findings
<1>3. QED BY <1>1, <1>2, NextIsAStep

LEMMA Invariance == Spec => []IInv
BY InitInv, StepInv, PTL DEF Spec

(* The rows and the calls have the types they are declared with. *)
THEOREM TypeCorrect == Spec => []TypeOK
<1>1. IInv => TypeOK
  BY DEF IInv
<1>2. QED BY <1>1, Invariance, PTL

(* However assignments and changes of a role race, a role that is assigned *)
(* in a project has only permissions that a project can give.              *)
THEOREM ScopePreserved == Spec => []ScopeHolds
<1>1. IInv => ScopeHolds
  BY DEF IInv
<1>2. QED BY <1>1, Invariance, PTL

(* What an operation that locks the role changes stays within what its     *)
(* actor was found to hold.                                                *)
THEOREM ChecksPreserved == Spec => []ChecksHold
<1>1. IInv => ChecksHold
  BY DEF IInv, Findings, Finding, ChecksHold
<1>2. QED BY <1>1, Invariance, PTL

(* A role resolved under its lock exists until the transaction ends. *)
THEOREM ResolvedRolePreserved == Spec => []ResolvedRoleStays
<1>1. IInv => ResolvedRoleStays
  BY DEF IInv, Findings, Finding, ResolvedRoleStays
<1>2. QED BY <1>1, Invariance, PTL

(* No UpdateCustomRole succeeds with an old etag. *)
THEOREM StaleUpdatesRefused == Spec => []UpdatesAreNotStale
<1>1. IInv => UpdatesAreNotStale
  BY DEF IInv
<1>2. QED BY <1>1, Invariance, PTL
=============================================================================
