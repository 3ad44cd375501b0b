-------------------------- MODULE SystemRolesProofs --------------------------
(***************************************************************************)
(* Proofs about SystemRoles, for any sets of calls, users, roles and       *)
(* requests.  The invariant LockDiscipline says what the advisory locks    *)
(* give: two calls never hold the same lock, and a call that has taken its *)
(* decision still holds every lock it needed for it.                       *)
(***************************************************************************)
EXTENDS SystemRoles, FiniteSetTheorems, WellFoundedInduction, TLAPS

Decided == {"authorized", "checked", "written"}

LockDiscipline ==
  /\ \A c, d \in Calls : c # d => held[c] \cap held[d] = {}
  /\ \A c \in Calls : pc[c] \in Decided => Needed(c) \subseteq held[c]

(* What the control state says of the request and of the row it changes. *)
ControlFlow ==
  \A c \in Calls :
    /\ pc[c] = "authorized" => req[c].op # "bootstrap"
    /\ pc[c] = "checked" => req[c].op = "unassign"
    /\ pc[c] = "written" /\ req[c].op # "unassign" => MayInsert(c)

IInv ==
  TypeOK /\ LockDiscipline /\ ControlFlow /\ AuthorityHolds /\ RevokeStaysSafe

-----------------------------------------------------------------------------
(* A user whose own assignments only grow keeps every permission. *)
LEMMA PermissionsGrow ==
  ASSUME NEW u, NEW asg, NEW more,
         \A q \in Roles : <<u, q>> \in asg => <<u, q>> \in more
  PROVE  Atomic!SystemPermissions(u, asg) \subseteq Atomic!SystemPermissions(u, more)
BY DEF Atomic!SystemPermissions

(* Nobody holds a permission that is not registered. *)
LEMMA PermissionsRegistered ==
  ASSUME NEW u, NEW asg
  PROVE  Atomic!SystemPermissions(u, asg) \subseteq Permissions
BY RolesAssumption DEF Atomic!SystemPermissions

(* More assignments leave an administrator in place. *)
LEMMA AdministratorsGrow ==
  ASSUME NEW asg, NEW more, asg \subseteq more, HasAdministrator(asg)
  PROVE  HasAdministrator(more)
<1>1. PICK u \in Users : Atomic!SystemPermissions(u, asg) = Permissions
  BY DEF HasAdministrator, Atomic!HasAdministrator, Atomic!FullyPrivileged
<1>2. Atomic!SystemPermissions(u, more) = Permissions
  <2>1. Atomic!SystemPermissions(u, asg) \subseteq Atomic!SystemPermissions(u, more)
    BY PermissionsGrow
  <2>2. QED BY <1>1, <2>1, PermissionsRegistered
<1>3. QED
  BY <1>2 DEF HasAdministrator, Atomic!HasAdministrator, Atomic!FullyPrivileged

-----------------------------------------------------------------------------
(* A request that may arrive is well-formed and is not NoRequest. *)
LEMMA RequestShape ==
  /\ \A r \in Requests :
       /\ r.op \in Ops
       /\ r.op # "bootstrap" => r.actor \in Users
       /\ r.target \in Users \cup {NoUser}
       /\ r.role \in Roles \cup {NoRole}
       /\ r # NoRequest
  /\ NoRequest.op = "none"
BY RequestsAssumption DEF Request, NoRequest, Ops

(* A step of one call leaves the other calls' transactions alone. *)
LEMMA StepIsLocal ==
  ASSUME TypeOK, NEW c \in Calls, Begin(c) \/ Step(c) \/ Abort(c),
         NEW d \in Calls, d # c
  PROVE  pc'[d] = pc[d] /\ req'[d] = req[d] /\ held'[d] = held[d]
BY DEF TypeOK, Begin, Step, Abort, Lock, Authorize, EnsureRemains, Insert, Delete, Commit,
       Advance, Reject, End

(* Only a commit changes the committed assignments. *)
LEMMA OnlyCommitsWrite ==
  ASSUME NEW c \in Calls, Begin(c) \/ Step(c) \/ Abort(c), ~Commit(c)
  PROVE  assigned' = assigned
BY DEF Begin, Step, Abort, Lock, Authorize, EnsureRemains, Insert, Delete, Advance, Reject

(* Every step keeps the type invariant. *)
LEMMA TypeStep ==
  ASSUME TypeOK, ControlFlow, [Next]_vars
  PROVE  TypeOK'
<1> USE DEF TypeOK, Pcs
<1>1. CASE UNCHANGED vars
  BY <1>1 DEF vars
<1>2. ASSUME NEW c \in Calls, Begin(c) PROVE TypeOK'
  BY <1>2, RequestShape DEF Begin
<1>3. ASSUME NEW c \in Calls, Lock(c) PROVE TypeOK'
  BY <1>3 DEF Lock
<1>4. ASSUME NEW c \in Calls, Authorize(c) PROVE TypeOK'
  BY <1>4 DEF Authorize, Advance, Reject, End, Locked
<1>5. ASSUME NEW c \in Calls, EnsureRemains(c) PROVE TypeOK'
  BY <1>5 DEF EnsureRemains, Advance, Reject, End
<1>6. ASSUME NEW c \in Calls, Insert(c) PROVE TypeOK'
  BY <1>6 DEF Insert, ReadyToInsert, Locked, Advance, Reject, End
<1>7. ASSUME NEW c \in Calls, Delete(c) PROVE TypeOK'
  BY <1>7 DEF Delete, Advance, Reject, End
<1>8. ASSUME NEW c \in Calls, Commit(c) PROVE TypeOK'
  <2>1. assigned' \subseteq Users \X Roles
    BY <1>8 DEF Commit, ControlFlow, MayInsert, Row
  <2>2. QED BY <1>8, <2>1 DEF Commit, End
<1>9. ASSUME NEW c \in Calls, Abort(c) PROVE TypeOK'
  BY <1>9 DEF Abort, Reject, End
<1>10. QED
  BY <1>1, <1>2, <1>3, <1>4, <1>5, <1>6, <1>7, <1>8, <1>9 DEF Next, Step

(* Every step keeps LockDiscipline: Lock takes a lock nobody holds, and a  *)
(* call decides only once it misses none.                                  *)
LEMMA LockStep ==
  ASSUME TypeOK, LockDiscipline, [Next]_vars
  PROVE  LockDiscipline'
<1> USE DEF TypeOK, LockDiscipline, Decided, Needed
<1>1. CASE UNCHANGED vars
  BY <1>1 DEF vars
<1>2. ASSUME NEW c \in Calls, Begin(c) PROVE LockDiscipline'
  BY <1>2 DEF Begin
<1>3. ASSUME NEW c \in Calls, Lock(c) PROVE LockDiscipline'
  BY <1>3 DEF Lock, Holder
<1>4. ASSUME NEW c \in Calls, Authorize(c) PROVE LockDiscipline'
  BY <1>4 DEF Authorize, Advance, Reject, End, Locked, Missing
<1>5. ASSUME NEW c \in Calls, EnsureRemains(c) PROVE LockDiscipline'
  BY <1>5 DEF EnsureRemains, Advance, Reject, End
<1>6. ASSUME NEW c \in Calls, Insert(c) PROVE LockDiscipline'
  BY <1>6 DEF Insert, ReadyToInsert, Locked, Missing, Advance, Reject, End
<1>7. ASSUME NEW c \in Calls, Delete(c) PROVE LockDiscipline'
  BY <1>7 DEF Delete, Advance, Reject, End
<1>8. ASSUME NEW c \in Calls, Commit(c) PROVE LockDiscipline'
  BY <1>8 DEF Commit, End
<1>9. ASSUME NEW c \in Calls, Abort(c) PROVE LockDiscipline'
  BY <1>9 DEF Abort, Reject, End
<1>10. QED
  BY <1>1, <1>2, <1>3, <1>4, <1>5, <1>6, <1>7, <1>8, <1>9 DEF Next, Step

(* Two calls past their decision that change the same user's assignments   *)
(* are one and the same call.                                              *)
LEMMA TargetExclusive ==
  ASSUME TypeOK, LockDiscipline, NEW c \in Calls, NEW d \in Calls, c # d,
         pc[c] \in Decided, pc[d] \in Decided, req[d].target \in Users
  PROVE  req[d].target \notin {req[c].target, req[c].actor}
BY DEF LockDiscipline, Needed

(* Every step keeps ControlFlow: nobody else can change the row that a     *)
(* call has written, because it still holds the lock of its target.        *)
LEMMA FlowStep ==
  ASSUME TypeOK, LockDiscipline, ControlFlow, [Next]_vars
  PROVE  ControlFlow'
<1>1. CASE UNCHANGED vars
  BY <1>1 DEF vars, ControlFlow, MayInsert, Row
<1>2. ASSUME NEW c \in Calls, Begin(c) \/ Step(c) \/ Abort(c)
      PROVE  ControlFlow'
  <2> SUFFICES ASSUME NEW d \in Calls
               PROVE  /\ pc'[d] = "authorized" => req'[d].op # "bootstrap"
                      /\ pc'[d] = "checked" => req'[d].op = "unassign"
                      /\ pc'[d] = "written" /\ req'[d].op # "unassign" => MayInsert(d)'
    BY DEF ControlFlow
  <2>1. CASE d # c
    <3>1. pc'[d] = pc[d] /\ req'[d] = req[d]
      BY <1>2, <2>1, StepIsLocal
    <3>2. CASE Commit(c)
      <4>1. pc[d] \in Decided => Row(d) \notin assigned' \ assigned
        <5> SUFFICES ASSUME pc[d] \in Decided, Row(d) \in assigned' \ assigned PROVE FALSE
          OBVIOUS
        <5>1. req[c].op # "unassign" /\ Row(d) = Row(c)
          BY <3>2 DEF Commit
        <5>2. pc[c] = "written" /\ req[c].target \in Users /\ req[c].target = req[d].target
          BY <3>2, <5>1 DEF Commit, ControlFlow, MayInsert, Row
        <5>3. QED BY <2>1, <5>2, TargetExclusive DEF Decided
      <4>2. QED BY <3>1, <4>1 DEF ControlFlow, MayInsert, Row, Decided
    <3>3. CASE ~Commit(c)
      BY <1>2, <3>1, <3>3, OnlyCommitsWrite DEF ControlFlow, MayInsert, Row
    <3>4. QED BY <3>2, <3>3
  <2>2. CASE d = c
    <3> USE DEF TypeOK
    <3>1. CASE Begin(c) \/ Lock(c)
      BY <2>2, <3>1 DEF Begin, Lock
    <3>2. CASE Authorize(c)
      BY <2>2, <3>2 DEF Authorize, Advance, Reject, End
    <3>3. CASE EnsureRemains(c)
      BY <2>2, <3>3 DEF EnsureRemains, Advance, Reject, End
    <3>4. CASE Insert(c)
      BY <2>2, <3>4 DEF Insert, Advance, Reject, End, MayInsert, Row
    <3>5. CASE Delete(c)
      BY <2>2, <3>5 DEF Delete, Advance, Reject, End, ControlFlow
    <3>6. CASE Commit(c) \/ Abort(c)
      BY <2>2, <3>6 DEF Commit, Abort, Reject, End
    <3>7. QED BY <1>2, <3>1, <3>2, <3>3, <3>4, <3>5, <3>6 DEF Step
  <2>3. QED BY <2>1, <2>2
<1>3. QED BY <1>1, <1>2 DEF Next

(* A commit of one call takes nothing from the actor of a call that holds  *)
(* its decision: the row it deletes has a target whose lock it holds.      *)
LEMMA ActorKeepsRoles ==
  ASSUME TypeOK, LockDiscipline, ControlFlow, NEW c \in Calls, Commit(c),
         NEW d \in Calls, d # c, Authorized(d), RevokeStaysSafe, NEW q \in Roles,
         <<req[d].actor, q>> \in assigned
  PROVE  <<req[d].actor, q>> \in assigned'
<1> SUFFICES ASSUME <<req[d].actor, q>> \notin assigned' PROVE FALSE
  OBVIOUS
<1>1. Row(c) = <<req[d].actor, q>> /\ pc[c] = "written"
  BY DEF Commit
<1>2. req[c].target = req[d].actor /\ req[c].target \in Users
  BY <1>1 DEF Row, TypeOK
<1>3. QED
  BY <1>1, <1>2, TargetExclusive DEF Authorized, Decided

(* Every step keeps AuthorityHolds: other calls cannot take from the actor *)
(* what the superset check saw.                                            *)
LEMMA AuthorityStep ==
  ASSUME TypeOK, LockDiscipline, ControlFlow, AuthorityHolds, RevokeStaysSafe, [Next]_vars
  PROVE  AuthorityHolds'
<1> USE DEF AuthorityHolds, Authorized, MayChange, SystemPermissions
<1>1. CASE UNCHANGED vars
  BY <1>1 DEF vars
<1>2. ASSUME NEW c \in Calls, Begin(c) \/ Step(c) \/ Abort(c)
      PROVE  AuthorityHolds'
  <2> SUFFICES ASSUME NEW d \in Calls, Authorized(d)'
               PROVE  MayChange(d)'
    OBVIOUS
  <2>1. CASE d # c
    <3>1. pc'[d] = pc[d] /\ req'[d] = req[d]
      BY <1>2, <2>1, StepIsLocal
    <3>2. MayChange(d)
      BY <3>1
    <3>3. Atomic!SystemPermissions(req[d].actor, assigned)
            \subseteq Atomic!SystemPermissions(req[d].actor, assigned')
      <4>1. CASE Commit(c)
        BY <2>1, <3>1, <4>1, ActorKeepsRoles, PermissionsGrow
      <4>2. CASE ~Commit(c)
        BY <1>2, <4>2, OnlyCommitsWrite
      <4>3. QED BY <4>1, <4>2
    <3>4. QED BY <3>1, <3>2, <3>3
  <2>2. CASE d = c
    <3> USE DEF TypeOK
    <3>1. CASE Begin(c) \/ Lock(c)
      BY <2>2, <3>1 DEF Begin, Lock
    <3>2. CASE Authorize(c)
      BY <2>2, <3>2 DEF Authorize, Advance, Reject, End
    <3>3. CASE EnsureRemains(c)
      BY <2>2, <3>3 DEF EnsureRemains, Advance, Reject, End
    <3>4. CASE Insert(c)
      BY <2>2, <3>4 DEF Insert, ReadyToInsert, Advance, Reject, End
    <3>5. CASE Delete(c)
      BY <2>2, <3>5 DEF Delete, Advance, Reject, End
    <3>6. CASE Commit(c) \/ Abort(c)
      BY <2>2, <3>6 DEF Commit, Abort, Reject, End
    <3>7. QED BY <1>2, <3>1, <3>2, <3>3, <3>4, <3>5, <3>6 DEF Step
  <2>3. QED BY <2>1, <2>2
<1>3. QED BY <1>1, <1>2 DEF Next

(* The management lock lets one revoke at a time past its check. *)
LEMMA OneRevoke ==
  ASSUME LockDiscipline, NEW c \in Calls, NEW d \in Calls, c # d,
         pc[c] \in Decided, pc[d] \in Decided
  PROVE  ~(req[c].op = "unassign" /\ req[d].op = "unassign")
BY DEF LockDiscipline, Needed

(* Every step keeps RevokeStaysSafe: only grants commit while a checked    *)
(* revoke is open.                                                         *)
LEMMA RevokeStep ==
  ASSUME TypeOK, LockDiscipline, ControlFlow, RevokeStaysSafe, [Next]_vars
  PROVE  RevokeStaysSafe'
<1> USE DEF RevokeStaysSafe, MayRemove, Row
<1>1. CASE UNCHANGED vars
  BY <1>1 DEF vars, HasAdministrator, Atomic!HasAdministrator
<1>2. ASSUME NEW c \in Calls, Begin(c) \/ Step(c) \/ Abort(c)
      PROVE  RevokeStaysSafe'
  <2> SUFFICES ASSUME NEW d \in Calls, req'[d].op = "unassign", pc'[d] \in {"checked", "written"}
               PROVE  MayRemove(d)'
    OBVIOUS
  <2>1. CASE d # c
    <3>1. pc'[d] = pc[d] /\ req'[d] = req[d]
      BY <1>2, <2>1, StepIsLocal
    <3>2. MayRemove(d)
      BY <3>1
    <3>3. assigned \subseteq assigned'
      <4>1. CASE Commit(c)
        <5>1. req[c].op # "unassign"
          BY <2>1, <3>1, <4>1, OneRevoke DEF Commit, Decided
        <5>2. QED BY <4>1, <5>1 DEF Commit
      <4>2. CASE ~Commit(c)
        BY <1>2, <4>2, OnlyCommitsWrite
      <4>3. QED BY <4>1, <4>2
    <3>4. assigned \ {Row(d)} \subseteq assigned' \ {Row(d)}
      BY <3>3
    <3>5. HasAdministrator(assigned' \ {Row(d)})
      BY <3>2, <3>4, AdministratorsGrow
    <3>6. QED BY <3>1, <3>2, <3>3, <3>5
  <2>2. CASE d = c
    <3> USE DEF TypeOK
    <3>1. CASE Begin(c) \/ Lock(c)
      BY <2>2, <3>1 DEF Begin, Lock
    <3>2. CASE Authorize(c)
      BY <2>2, <3>2 DEF Authorize, Advance, Reject, End
    <3>3. CASE EnsureRemains(c)
      BY <2>2, <3>3 DEF EnsureRemains, Advance, Reject, End
    <3>4. CASE Insert(c)
      BY <2>2, <3>4 DEF Insert, ReadyToInsert, Advance, Reject, End
    <3>5. CASE Delete(c)
      BY <2>2, <3>5 DEF Delete, Advance, Reject, End
    <3>6. CASE Commit(c) \/ Abort(c)
      BY <2>2, <3>6 DEF Commit, Abort, Reject, End
    <3>7. QED BY <1>2, <3>1, <3>2, <3>3, <3>4, <3>5, <3>6 DEF Step
  <2>3. QED BY <2>1, <2>2
<1>3. QED BY <1>1, <1>2 DEF Next
-----------------------------------------------------------------------------
(* The invariant that carries the proofs.  It holds initially and is kept  *)
(* by every step of the operations of system_role.go.                      *)
THEOREM Invariance == Spec => []IInv
<1>1. Init => IInv
  BY DEF Init, IInv, TypeOK, Pcs, LockDiscipline, Decided, ControlFlow, AuthorityHolds,
         Authorized, RevokeStaysSafe
<1>2. IInv /\ [Next]_vars => IInv'
  BY TypeStep, LockStep, FlowStep, AuthorityStep, RevokeStep DEF IInv
<1>3. QED BY <1>1, <1>2, PTL DEF Spec

(* Every variable keeps its type, for all calls, users, roles, requests. *)
THEOREM TypeCorrect == Spec => []TypeOK
BY Invariance, PTL DEF IInv

(* system_role.go:165-167: the actor's authority still covers the role     *)
(* when the change of AssignSystemRole or UnassignSystemRole commits.      *)
THEOREM AuthorityPreserved == Spec => []AuthorityHolds
BY Invariance, PTL DEF IInv

(* The check of ensureFullyPrivilegedSystemUserRemains is still true when  *)
(* the revoke commits.                                                     *)
THEOREM RevokeCheckPreserved == Spec => []RevokeStaysSafe
BY Invariance, PTL DEF IInv

(* Once there is a fully privileged user there always is one. *)
THEOREM AdministratorPreserved == Spec => AdministratorRemains
<1>1. IInv /\ [Next]_vars => [HasAdministrator(assigned) => HasAdministrator(assigned')]_assigned
  <2> SUFFICES ASSUME IInv, HasAdministrator(assigned), assigned' # assigned,
                      NEW c \in Calls, Begin(c) \/ Step(c) \/ Abort(c)
               PROVE  HasAdministrator(assigned')
    BY DEF Next, vars
  <2>1. Commit(c)
    BY OnlyCommitsWrite
  <2>2. CASE req[c].op = "unassign"
    BY <2>1, <2>2 DEF Commit, IInv, RevokeStaysSafe, MayRemove
  <2>3. CASE req[c].op # "unassign"
    <3>1. assigned \subseteq assigned'
      BY <2>1, <2>3 DEF Commit
    <3>2. QED BY <3>1, AdministratorsGrow
  <2>4. QED BY <2>2, <2>3
<1>2. QED BY <1>1, Invariance, PTL DEF Spec, AdministratorRemains

(* Every commit is one atomic change of SystemRoleGrants, which serves the *)
(* request of the call that commits.                                       *)
LEMMA CommitIsAtomic ==
  ASSUME IInv, NEW c \in Calls, Commit(c)
  PROVE  Atomic!Grant(c) \/ Atomic!Revoke(c) \/ Atomic!Bootstrap(c)
<1>1. req[c] \in Requests
  BY DEF Commit, IInv, TypeOK
<1>2. Atomic!Return(c)
  BY RequestShape, <1>1 DEF Commit, End, Atomic!Return
<1>3. CASE req[c].op = "unassign"
  <2>1. MayRemove(c) /\ MayChange(c)
    BY <1>3 DEF Commit, IInv, RevokeStaysSafe, AuthorityHolds, Authorized
  <2>2. QED
    BY <1>2, <1>3, <2>1
       DEF Commit, Atomic!Revoke, Atomic!Justified, MayRemove, MayChange, HasAdministrator,
           SystemPermissions, Row
<1>4. CASE req[c].op = "assign"
  <2>1. MayInsert(c) /\ MayChange(c)
    BY <1>4 DEF Commit, IInv, ControlFlow, AuthorityHolds, Authorized
  <2>2. QED
    BY <1>2, <1>4, <2>1
       DEF Commit, Atomic!Grant, Atomic!Add, Atomic!Justified, MayInsert, MayChange,
           SystemPermissions, Row
<1>5. CASE req[c].op = "bootstrap"
  <2>1. MayInsert(c)
    BY <1>5 DEF Commit, IInv, ControlFlow
  <2>2. QED
    BY <1>2, <1>5, <2>1 DEF Commit, Atomic!Bootstrap, Atomic!Add, MayInsert, Row
<1>6. QED BY <1>1, <1>3, <1>4, <1>5, RequestShape DEF Ops

(* The transactions with their locks implement the atomic changes: every   *)
(* commit performs its request at one moment, a rolled-back transaction    *)
(* changes nothing, and all other steps are invisible.                     *)
THEOREM Refinement == Spec => AtomicSpec
<1>1. Init => Atomic!Init
  BY DEF Init, Atomic!Init
<1>2. IInv /\ [Next]_vars => [Atomic!Next]_<<assigned, req>>
  <2> SUFFICES ASSUME IInv, NEW c \in Calls, Begin(c) \/ Step(c) \/ Abort(c)
               PROVE  Atomic!Next \/ UNCHANGED <<assigned, req>>
    BY DEF Next, vars
  <2> USE DEF IInv, TypeOK
  <2>1. CASE Begin(c)
    BY <2>1 DEF Begin, Atomic!Next, Atomic!Submit
  <2>2. CASE Commit(c)
    BY <2>2, CommitIsAtomic DEF Atomic!Next
  <2>3. CASE pc[c] # "idle" /\ Reject(c)
    BY <2>3 DEF Reject, End, Atomic!Next, Atomic!Fail, Atomic!Return
  <2>4. CASE Lock(c) \/ \E to \in Pcs : Advance(c, to)
    BY <2>4 DEF Lock, Advance
  <2>5. CASE Authorize(c) \/ EnsureRemains(c) \/ Insert(c) \/ Delete(c) \/ Abort(c)
    BY <2>5, <2>3, <2>4
       DEF Authorize, EnsureRemains, Insert, ReadyToInsert, Delete, Abort, Locked, Pcs
  <2>6. QED BY <2>1, <2>2, <2>4, <2>5 DEF Step
<1>3. QED
  BY <1>1, <1>2, Invariance, PTL DEF Spec, AtomicSpec, Atomic!Spec
-----------------------------------------------------------------------------
(* A call that is taking its locks holds smaller ones than it misses. *)
LocksInOrder ==
  \A c \in Calls :
    pc[c] = "locking" => \A l \in held[c], k \in Missing(c) : l < k

(* Locks are numbers, so that there is a smallest. *)
LEMMA MissingAreNat ==
  ASSUME NEW c \in Calls
  PROVE  Missing(c) \subseteq Nat
<1>1. Needed(c) \subseteq {0} \cup Users
  BY DEF Needed, Management
<1>2. Users \subseteq Nat
  BY UsersAssumption, Zenon
<1>3. 0 \in Nat
  OBVIOUS
<1>4. QED BY <1>1, <1>2, <1>3, Zenon DEF Missing

(* Lock takes the smallest of the missing locks. *)
LEMMA OrderStep ==
  ASSUME TypeOK, LocksInOrder, [Next]_vars
  PROVE  LocksInOrder'
<1>1. CASE UNCHANGED vars
  BY <1>1 DEF vars, LocksInOrder, Missing, Needed
<1>2. ASSUME NEW c \in Calls, Begin(c) \/ Step(c) \/ Abort(c)
      PROVE  LocksInOrder'
  <2> SUFFICES ASSUME NEW d \in Calls, pc'[d] = "locking",
                      NEW l \in held'[d], NEW k \in Missing(d)'
               PROVE  l < k
    BY DEF LocksInOrder
  <2>1. CASE d # c
    BY <1>2, <2>1, StepIsLocal DEF LocksInOrder, Missing, Needed
  <2>2. CASE d = c /\ Begin(c)
    BY <2>2 DEF Begin, TypeOK
  <2>3. CASE d = c /\ Lock(c)
    <3>1. PICK m \in Locks : IsNextLock(c, m) /\ held' = [held EXCEPT ![c] = @ \cup {m}]
      BY <2>3 DEF Lock
    <3>2. k \in Missing(c) /\ k # m
      BY <2>3, <3>1 DEF Lock, Missing, Needed, TypeOK
    <3>3. m < k
      BY <3>1, <3>2, MissingAreNat DEF IsNextLock
    <3>4. l \in held[c] \/ l = m
      BY <2>3, <3>1 DEF TypeOK
    <3>5. QED BY <2>3, <3>2, <3>3, <3>4 DEF LocksInOrder, Lock
  <2>4. CASE d = c /\ ~Begin(c) /\ ~Lock(c)
    BY <1>2, <2>4 DEF Step, Abort, Authorize, EnsureRemains, Insert, Delete, Commit,
                      Advance, Reject, End, TypeOK
  <2>5. QED BY <1>2, <2>1, <2>2, <2>3, <2>4
<1>3. QED BY <1>1, <1>2 DEF Next

(* The lock that a call wants next; a call wants one lock at a time. *)
Wanted(c) == CHOOSE l : IsNextLock(c, l)

(* A call wants the one lock that IsNextLock names. *)
LEMMA WantedIsNext ==
  ASSUME NEW c \in Calls, NEW l, IsNextLock(c, l)
  PROVE  l = Wanted(c) /\ l \in Nat /\ l \in Missing(c)
<1>1. IsNextLock(c, Wanted(c))
  BY DEF Wanted
<1>2. QED BY <1>1, MissingAreNat DEF IsNextLock

(* Whoever waits for a call that is itself taking locks wants a smaller    *)
(* lock than that call does.                                               *)
LEMMA WaitsUpwards ==
  ASSUME LocksInOrder, NEW c \in Calls, NEW d \in Calls,
         pc[d] = "locking", NEW m, IsNextLock(d, m),
         NEW l \in held[d], IsNextLock(c, l)
  PROVE  Wanted(c) < Wanted(d)
BY WantedIsNext DEF LocksInOrder

(* Of finitely many calls one wants a lock no smaller than any other's.    *)
LEMMA GreatestWanted ==
  ASSUME NEW D \in SUBSET Calls, D # {}, \A c \in D : Wanted(c) \in Nat
  PROVE  \E c \in D : \A d \in D : ~(Wanted(c) < Wanted(d))
<1> DEFINE Above(c) == {d \in D : Wanted(c) < Wanted(d)}
           T == {Above(c) : c \in D}
<1>1. T \subseteq FiniteSubsetsOf(Calls) /\ T # {}
  <2>1. FiniteSubsetsOf(Calls) = SUBSET Calls
    BY CallsAssumption, FS_FiniteSubsetsOfFinite
  <2>2. \A c \in D : Above(c) \in SUBSET Calls
    OBVIOUS
  <2>3. T \subseteq SUBSET Calls
    BY <2>2
  <2>4. T # {}
    OBVIOUS
  <2>5. QED BY <2>1, <2>3, <2>4
<1>2. PICK c \in D : \A X \in T : <<X, Above(c)>> \notin StrictSubsetOrdering(Calls)
  BY <1>1, FS_StrictSubsetOrderingWellFounded, WFMin
<1>3. SUFFICES ASSUME NEW d \in D, Wanted(c) < Wanted(d) PROVE FALSE
  OBVIOUS
<1>4. Above(d) \subseteq Above(c)
  BY <1>3
<1>5. d \in Above(c) /\ d \notin Above(d)
  BY <1>3
<1>6. <<Above(d), Above(c)>> \in StrictSubsetOrdering(Calls)
  BY <1>4, <1>5 DEF StrictSubsetOrdering
<1>7. QED BY <1>2, <1>6

(* No calls wait only for one another: one that has written waits for      *)
(* nobody; without one, whoever has its locks waits for nobody; and among  *)
(* calls that are all taking locks, the one that wants the greatest lock   *)
(* waits for none of the others.                                           *)
LEMMA NobodyStuck ==
  ASSUME TypeOK, LocksInOrder
  PROVE  NoDeadlock
<1> SUFFICES ASSUME NEW D \in SUBSET Calls, D # {}
             PROVE  \E c \in D : \A d \in D : ~WaitsFor(c, d)
  BY DEF NoDeadlock
<1>1. CASE \E c \in D : pc[c] = "written"
  <2>1. PICK c \in D : pc[c] = "written"
    BY <1>1
  <2>2. \A d \in D : ~WaitsFor(c, d)
    BY <2>1 DEF WaitsFor, ReadyToInsert, Locked
  <2>3. QED BY <2>2
<1>2. CASE /\ \A c \in D : pc[c] # "written"
           /\ \E c \in D : ~(pc[c] = "locking" /\ \E l : IsNextLock(c, l))
  <2>1. PICK c \in D : ~(pc[c] = "locking" /\ \E l : IsNextLock(c, l))
    BY <1>2
  <2>2. \A d \in D : ~WaitsFor(c, d)
    BY <1>2, <2>1 DEF WaitsFor, Written
  <2>3. QED BY <2>2
<1>3. CASE \A c \in D : pc[c] = "locking" /\ \E l : IsNextLock(c, l)
  <2>1. \A c \in D : Wanted(c) \in Nat /\ Wanted(c) \in Missing(c)
    BY <1>3, WantedIsNext
  <2>2. PICK c \in D : \A d \in D : ~(Wanted(c) < Wanted(d))
    BY <2>1, GreatestWanted
  <2>3. ASSUME NEW d \in D, WaitsFor(c, d) PROVE FALSE
    <3>1. PICK l \in held[d] : IsNextLock(c, l)
      BY <1>3, <2>3 DEF WaitsFor, Written
    <3>2. Wanted(c) < Wanted(d)
      BY <1>3, <3>1, WaitsUpwards
    <3>3. QED BY <2>2, <3>2
  <2>4. QED BY <2>3
<1>4. QED BY <1>1, <1>2, <1>3

(* The lock order of lockSystemRoleUsers admits no deadlock, for any       *)
(* finite number of concurrent calls.                                      *)
THEOREM DeadlockFree == Spec => []NoDeadlock
<1>1. Init => LocksInOrder
  BY DEF Init, LocksInOrder
<1>2. TypeOK /\ LocksInOrder /\ [Next]_vars => LocksInOrder'
  BY OrderStep
<1>3. TypeOK /\ LocksInOrder => NoDeadlock
  BY NobodyStuck
<1>4. QED BY TypeCorrect, <1>1, <1>2, <1>3, PTL DEF Spec
=============================================================================
