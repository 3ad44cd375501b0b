----------------------------- MODULE GateProofs -----------------------------
(***************************************************************************)
(* Proofs about Gate, for any calls, users, projects, organizations and    *)
(* grants.                                                                 *)
(*                                                                         *)
(* IInv is about who may: Standing relates the history of what the caller  *)
(* was entitled to with the grants of the moment, Resolved says what of    *)
(* its session a call has read so far, Checked what was concluded from it. *)
(* Own is about which answer is sent: the method the client meant, which   *)
(* its route tells from every other, and the record of its own key.  Told  *)
(* is about what an answer says: that the tables of the handlers have a    *)
(* status for every failure of core, and refuse nothing core would allow.  *)
(***************************************************************************)
EXTENDS Gate, FiniteSetTheorems, TLAPS

Underway == {"auth", "permissions", "checks", "handler"}

(* What the types leave open: the parts of a session and of a record. *)
Shapes ==
  /\ session \in [user : Users \cup {""}, project : Projects \cup {NoProject},
                  orgName : Orgs \cup {""}, isControl : BOOLEAN, isOrgMember : BOOLEAN,
                  permissions : SUBSET AllPermissions]
  /\ IsFiniteSet(workflows)
  /\ stage \in Underway => reply = NoReply /\ call.method \in Methods \cup Reflection

(* Whoever is entitled now has been so since the call arrived. *)
Standing == Entitled(grants, call) => entitled

(* The first read of the session; members are never removed. *)
Resolved ==
  stage \in {"permissions", "checks", "handler"} /\ call.method \notin publicMethods =>
    /\ session.user = call.bearer
    /\ NeedsProject(call) =>
         /\ session.project = call.project /\ call.project \in Projects
         /\ session.orgName = OrgOf[call.project]
         /\ session.isControl = (call.project \in Control)
         /\ session.isOrgMember => <<call.bearer, OrgOf[call.project]>> \in members

(* The second read, which the check of the permissions relies on. *)
Checked ==
  /\ stage \in {"checks", "handler"} /\ call.method \in Methods \ publicMethods =>
       (permissionRegistry[call.method] \subseteq session.permissions => entitled)
  /\ stage = "handler" => Refusal(call, session) = ""

IInv == GateTypeOK /\ Shapes /\ Standing /\ Resolved /\ Checked
-----------------------------------------------------------------------------
(* Lemmas about the tables of server.go. *)

(* A permission that a custom role may hold means something below the      *)
(* scope of the system.                                                    *)
LEMMA CustomPermissionsAreNotSystemOnly ==
  PermissionsAssignableToCustomRoles \cap SystemOnlyPermissions = {}
BY DEF PermissionsAssignableToCustomRoles, SystemOnlyPermissions, CustomRolePermissions

(* The registry has the protected methods.    *)
LEMMA RegistryIsComplete == DOMAIN permissionRegistry = Methods \ publicMethods
<1>1. DOMAIN permissionRegistry =
        {"RevokeAllSessions", "GetAuthContext", "ListProjects", "CreateOrganization",
         "CreateOrganizationUser", "ListOrganizationUsers", "GetUser", "ListUsers",
         "CreateUser", "UpdateUser", "ListSystemRoles", "AssignSystemRole",
         "UnassignSystemRole", "ListSystemRoleAssignments", "CreateRole", "GetRole",
         "ListRoles", "ListProjectRoleAssignments", "ListOrganizationRoleAssignments",
         "UpdateRole", "ModifyRolePermissions", "DeleteRole", "AssignRoleToProject",
         "UnassignRoleFromProject", "AssignRoleToOrganization",
         "UnassignRoleFromOrganization", "ListPermissions"}
  BY DEF permissionRegistry
<1>2. \A m \in Methods \ publicMethods : m \in DOMAIN permissionRegistry
  BY <1>1 DEF Methods, AuthService, OrgService, PermissionService,
     ProjectService, RoleService, SystemRoleService, UserService, publicMethods
<1>3. \A m \in DOMAIN permissionRegistry : m \in Methods \ publicMethods
  BY <1>1 DEF Methods, AuthService, OrgService, PermissionService,
     ProjectService, RoleService, SystemRoleService, UserService, publicMethods
<1>4. QED BY <1>2, <1>3

LEMMA MethodsAreNoReflection == Methods \cap Reflection = {} /\ publicMethods \subseteq Methods
BY DEF Methods, AuthService, OrgService, PermissionService, ProjectService,
   RoleService, SystemRoleService, UserService, Reflection, publicMethods

(* The methods of the control projects are methods of a project. *)
LEMMA ControlProjectMethodsNeedAProject ==
  (systemControlProjectMethods \cup orgControlProjectMethods) \cap noProjectMethods = {}
BY DEF systemControlProjectMethods, orgControlProjectMethods, noProjectMethods,
   SystemRoleService, UserService

LEMMA ChainOfFour ==
  /\ \A a, b, c, d : DOMAIN <<a, b, c, d>> = 1 .. 4
  /\ 1 \in 1 .. 4 /\ 2 \in 1 .. 4 /\ 3 \in 1 .. 4
OBVIOUS

(* The first of the refusals is one of them. *)
LEMMA MinOfChain == ASSUME NEW S \in SUBSET (1 .. 4), S # {} PROVE Min(S) \in S
<1>1. \E i \in S : \A j \in S : i <= j
  <2>1. CASE 1 \in S
    BY <2>1
  <2>2. CASE 1 \notin S /\ 2 \in S
    BY <2>2
  <2>3. CASE 1 \notin S /\ 2 \notin S /\ 3 \in S
    BY <2>3
  <2>4. CASE 1 \notin S /\ 2 \notin S /\ 3 \notin S
    <3>1. \A i \in S : i \in {1, 2, 3, 4}
      OBVIOUS
    <3>2. \A i \in S : i = 4
      BY <2>4, <3>1
    <3>3. \A i, j \in S : i <= j
      BY <3>2
    <3>4. QED BY <3>3
  <2>5. QED BY <2>1, <2>2, <2>3, <2>4
<1>2. QED BY <1>1 DEF Min

(* A call that nothing refuses has passed every check. *)
LEMMA RefusalOfNone ==
  ASSUME NEW c, NEW s, Refusal(c, s) = ""
  PROVE  /\ permissionInterceptor(c.method, s) = ""
         /\ requireSystemControlProject(c.method, s) = ""
         /\ requireOrganizationControlProject(c.method, s) = ""
<1> DEFINE chain == <<permissionInterceptor(c.method, s),
                      requireSystemControlProject(c.method, s),
                      requireOrganizationControlProject(c.method, s),
                      idempotencyInterceptor(c)>>
           refused == {i \in DOMAIN chain : chain[i] # ""}
<1>1. Refusal(c, s) = IF refused = {} THEN "" ELSE chain[Min(refused)]
  BY Zenon DEF Refusal
<1>2. DOMAIN chain = 1 .. 4
  BY ChainOfFour, Zenon
<1>3. \A i \in 1 .. 4 : i \in refused <=> chain[i] # ""
  BY <1>2
<1>4. refused \in SUBSET (1 .. 4)
  BY <1>2
<1>5. /\ chain[1] = permissionInterceptor(c.method, s)
      /\ chain[2] = requireSystemControlProject(c.method, s)
      /\ chain[3] = requireOrganizationControlProject(c.method, s)
  OBVIOUS
<1> HIDE DEF chain, refused
<1>6. refused = {}
  BY <1>1, <1>3, <1>4, MinOfChain
<1>7. \A i \in 1 .. 4 : chain[i] = ""
  BY <1>3, <1>6
<1>8. QED BY <1>5, <1>7, ChainOfFour, Zenon

(* What is granted less entitles to less. *)
LEMMA EntitledGrows ==
  ASSUME NEW A, NEW B, A \subseteq B, NEW c, Entitled(A, c)
  PROVE  Entitled(B, c)
BY DEF Entitled, Holds

LEMMA Granted ==
  ASSUME NEW A, NEW u, NEW s, NEW where, NEW p \in GrantedAt(A, u, s, where)
  PROVE  \E g \in A : g.user = u /\ g.scope = s /\ g.place = where /\ p \in g.permissions
BY DEF GrantedAt

(* A required permission that the session resolves for a method is one the *)
(* caller holds at a scope that counts.                                    *)
LEMMA SessionHolds ==
  ASSUME grants \subseteq Grantable, NEW c, c.method \in Methods \ publicMethods,
         NeedsProject(c) => c.project \in Projects,
         NEW p \in permissionRegistry[c.method], p \in SessionPermissions(c)
  PROVE  Holds(grants, c.bearer, p, c.project)
<1>1. CASE ~NeedsProject(c)
  <2>1. p \in SystemPermissions(grants, c.bearer)
    BY <1>1 DEF SessionPermissions
  <2>2. p \in GrantedAt(grants, c.bearer, SystemScope, "system")
    BY <2>1 DEF SystemPermissions
  <2>3. QED BY <2>2, Granted DEF Holds
<1>2. CASE NeedsProject(c)
  <2> DEFINE o == OrgOf[c.project]
  <2>1. p \in OrgPermissions(grants, c.bearer, o)
          \/ (p \in GrantedAt(grants, c.bearer, ProjectScope, c.project)
                /\ ~methodRequiresOrganizationScope(c.method))
    <3>1. CASE methodRequiresOrganizationScope(c.method)
      BY <1>2, <3>1 DEF SessionPermissions
    <3>2. CASE ~methodRequiresOrganizationScope(c.method)
      <4>1. p \in ProjectPermissions(grants, c.bearer, c.project, o)
        BY <1>2, <3>2 DEF SessionPermissions
      <4>2. QED BY <3>2, <4>1 DEF ProjectPermissions
    <3>3. QED BY <3>1, <3>2
  <2>2. \/ p \in GrantedAt(grants, c.bearer, SystemScope, "system")
        \/ p \in GrantedAt(grants, c.bearer, OrganizationScope, o)
        \/ (p \in GrantedAt(grants, c.bearer, ProjectScope, c.project)
                /\ ~methodRequiresOrganizationScope(c.method))
    BY <2>1 DEF OrgPermissions, SystemPermissions
  <2>3. CASE p \in GrantedAt(grants, c.bearer, SystemScope, "system")
    BY <2>3, Granted DEF Holds
  <2>4. \A g \in grants :
         g.scope # SystemScope /\ p \in g.permissions => p \notin SystemOnlyPermissions
    BY GrantableAssumption, CustomPermissionsAreNotSystemOnly
  <2>5. CASE p \in GrantedAt(grants, c.bearer, OrganizationScope, o)
    <3>1. PICK g \in grants : /\ g.user = c.bearer /\ g.scope = OrganizationScope /\ g.place = o
                              /\ p \in g.permissions
      BY <2>5, Granted
    <3>2. p \notin SystemOnlyPermissions
      BY <2>4, <3>1 DEF OrganizationScope, SystemScope
    <3>3. QED BY <1>2, <3>1, <3>2 DEF Holds
  <2>6. CASE p \in GrantedAt(grants, c.bearer, ProjectScope, c.project)
                /\ ~methodRequiresOrganizationScope(c.method)
    <3>1. PICK g \in grants : /\ g.user = c.bearer /\ g.scope = ProjectScope
                              /\ g.place = c.project /\ p \in g.permissions
      BY <2>6, Granted
    <3>2. p \notin SystemOnlyPermissions
      BY <2>4, <3>1 DEF ProjectScope, SystemScope
    <3>3. p \notin orgScopedPermissions
      BY <2>6, RegistryIsComplete DEF methodRequiresOrganizationScope, Registered
    <3>4. QED BY <1>2, <3>1, <3>2, <3>3 DEF Holds
  <2>7. QED BY <2>2, <2>3, <2>5, <2>6
<1>3. QED BY <1>1, <1>2
-----------------------------------------------------------------------------
(* The inductive invariant holds before the first call. *)
LEMMA InitInv == GateInit => IInv
<1> SUFFICES ASSUME GateInit PROVE IInv
  OBVIOUS
<1>1. Cardinality(workflows) = 0 /\ IsFiniteSet(workflows)
  BY FS_EmptySet DEF GateInit
<1>2. GateTypeOK
  <2>1. Cardinality(workflows) <= MaxWorkflows
    BY <1>1, GateAssumption
  <2>2. /\ grants \subseteq Grantable /\ members \subseteq Users \X Orgs
        /\ stage = "idle" /\ asked = "none" /\ entitled = FALSE
        /\ session.user = "" /\ session.permissions = {} /\ reply.code = "none"
    BY DEF GateInit, NoSession, NoReply
  <2>3. QED BY <2>1, <2>2 DEF GateTypeOK
<1>3. Shapes
  BY <1>1 DEF GateInit, Shapes, NoSession, Underway
<1>4. "none" \notin Methods
  BY DEF Methods, AuthService, OrgService, PermissionService, ProjectService,
     RoleService, SystemRoleService, UserService
<1>5. Standing
  BY <1>4 DEF GateInit, Standing, Entitled, NoCall, Call
<1>6. Resolved /\ Checked
  BY DEF GateInit, Resolved, Checked
<1>7. QED BY <1>2, <1>3, <1>5, <1>6 DEF IInv
-----------------------------------------------------------------------------
(* The call that reaches the server is the client's, for a method that has *)
(* the route; of an HTTP call some parts are lost on the way.              *)
LEMMA ArrivedCall ==
  ASSUME NEW c \in Traffic, Arrive(c)
  PROVE  /\ call'.method \in Methods \cup Reflection
         /\ call'.method \in Routed(c.method) \/ call'.method = c.method
         /\ stage' = IF call'.method \in publicMethods THEN "checks" ELSE "auth"
<1>1. PICK m \in IF c.via = "grpc" THEN {c.method} ELSE Routed(c.method) :
        /\ call' = [Forwarded(c) EXCEPT !.method = m]
        /\ stage' = IF m \in publicMethods THEN "checks" ELSE "auth"
  BY DEF Arrive
<1>2. /\ c = Call(c.method, c.bearer, c.project, c.key, c.via, c.body)
      /\ c.via \in {"grpc", "http", "http, prefixed headers"}
      /\ c.method \in Methods \cup Reflection
  BY TrafficAssumption
<1>3. "method" \in DOMAIN Forwarded(c)
  <2>1. DOMAIN c = {"method", "bearer", "project", "key", "via", "body"}
    BY <1>2 DEF Call
  <2>2. CASE c.via = "grpc"
    BY <2>1, <2>2 DEF Forwarded
  <2>3. CASE c.via = "http"
    BY <2>1, <2>3 DEF Forwarded
  <2>4. CASE c.via = "http, prefixed headers"
    BY <2>1, <2>4 DEF Forwarded
  <2>5. QED BY <1>2, <2>2, <2>3, <2>4
<1>4. call'.method = m
  BY <1>1, <1>3
<1>5. m \in Methods \cup Reflection
  BY <1>2 DEF Routed
<1>6. QED BY <1>1, <1>4, <1>5

LEMMA ArriveStep ==
  ASSUME IInv, NEW c \in Traffic, Arrive(c)
  PROVE  IInv'
<1>1. /\ call'.method \in Methods \cup Reflection
      /\ stage' \in {"checks", "auth"} /\ (call'.method \in publicMethods <=> stage' = "checks")
  BY ArrivedCall
<1>2. /\ grants' = grants /\ members' = members /\ session' = session /\ reply' = NoReply
      /\ workflows' = workflows /\ entitled' = Entitled(grants, call') /\ asked' = c.method
  BY DEF Arrive, NoReply, NoCall
<1>3. GateTypeOK'
  BY <1>1, <1>2, TrafficAssumption DEF IInv, GateTypeOK, NoReply, Entitled, Codes
<1>4. Shapes'
  BY <1>1, <1>2 DEF IInv, Shapes, Underway
<1>5. Standing'
  BY <1>2 DEF Standing
<1>6. Resolved' /\ Checked'
  BY <1>1 DEF Resolved, Checked
<1>7. QED BY <1>3, <1>4, <1>5, <1>6 DEF IInv
-----------------------------------------------------------------------------
(* Whatever answers a call, it is over. *)
LEMMA ReplyStep ==
  ASSUME IInv, NEW answer, NEW cause, NEW origin, Reply(answer, cause, origin),
         UNCHANGED <<grants, members, call, asked, entitled>>,
         IsFiniteSet(workflows'), Cardinality(workflows') <= MaxWorkflows
  PROVE  IInv'
<1>1. stage' = "idle" /\ session' = NoSession /\ reply'.code \in Codes \cup {"Internal"}
  BY DEF Reply, errorInterceptor, Codes
<1>2. GateTypeOK'
  BY <1>1 DEF IInv, GateTypeOK, NoSession
<1>3. Shapes'
  BY <1>1 DEF Shapes, Underway, NoSession
<1>4. Standing'
  BY DEF IInv, Standing
<1>5. Resolved' /\ Checked'
  BY <1>1 DEF Resolved, Checked
<1>6. QED BY <1>2, <1>3, <1>4, <1>5 DEF IInv

LEMMA RefuseStep == ASSUME IInv, NEW answer, Refuse(answer) PROVE IInv'
<1>1. Reply(answer, answer, call) /\ workflows' = workflows
  BY DEF Refuse
<1>2. UNCHANGED <<grants, members, call, asked, entitled>>
  BY DEF Refuse
<1>3. QED BY <1>1, <1>2, ReplyStep DEF IInv, GateTypeOK, Shapes

LEMMA ForgetStep == ASSUME IInv, Forget PROVE IInv'
<1>1. /\ stage \notin Underway /\ stage' = stage /\ reply' = NoReply /\ call' = NoCall
      /\ grants' = grants /\ members' = members /\ session' = session /\ workflows' = workflows
      /\ asked' = "none" /\ entitled' = FALSE
  BY DEF Forget, IInv, Shapes
<1>2. GateTypeOK'
  BY <1>1 DEF IInv, GateTypeOK, NoReply, Underway
<1>3. Shapes'
  BY <1>1 DEF IInv, Shapes
<1>4. "none" \notin Methods
  BY DEF Methods, AuthService, OrgService, PermissionService, ProjectService,
     RoleService, SystemRoleService, UserService
<1>5. Standing'
  BY <1>1, <1>4 DEF Standing, Entitled, NoCall, Call
<1>6. Resolved' /\ Checked'
  BY <1>1 DEF Resolved, Checked, Underway
<1>7. QED BY <1>2, <1>3, <1>5, <1>6 DEF IInv
-----------------------------------------------------------------------------
LEMMA AuthenticateStep == ASSUME IInv, Authenticate PROVE IInv'
<1>1. /\ stage = "auth" /\ stage' = "permissions" /\ session' = AuthSessionData(call)
      /\ call.bearer \in Users /\ (NeedsProject(call) => call.project \in Projects)
      /\ grants' = grants /\ members' = members /\ call' = call /\ reply' = reply
      /\ workflows' = workflows /\ asked' = asked /\ entitled' = entitled
  BY DEF Authenticate, AuthSessionDataFound
<1>2. /\ NoSession \in [user : {""}, project : {NoProject}, orgName : {""},
                        isControl : {FALSE}, isOrgMember : {FALSE}, permissions : {{}}]
  BY DEF NoSession
<1>3. /\ session' \in [user : Users \cup {""}, project : Projects \cup {NoProject},
                       orgName : Orgs \cup {""}, isControl : BOOLEAN, isOrgMember : BOOLEAN,
                       permissions : SUBSET AllPermissions]
      /\ session'.user = call.bearer
      /\ NeedsProject(call) =>
           /\ session'.project = call.project
           /\ session'.orgName = OrgOf[call.project]
           /\ session'.isControl = (call.project \in Control)
           /\ session'.isOrgMember = (<<call.bearer, OrgOf[call.project]>> \in members)
  <2>1. CASE NeedsProject(call)
    <3>1. OrgOf[call.project] \in Orgs
      BY <1>1, <2>1 DEF Orgs
    <3>2. session' = [NoSession EXCEPT
            !.user = call.bearer, !.project = call.project, !.orgName = OrgOf[call.project],
            !.isControl = call.project \in Control,
            !.isOrgMember = <<call.bearer, OrgOf[call.project]>> \in members]
      BY <1>1, <2>1 DEF AuthSessionData
    <3>3. /\ session'.user = call.bearer
          /\ session'.project = call.project
          /\ session'.orgName = OrgOf[call.project]
          /\ session'.isControl = (call.project \in Control)
          /\ session'.isOrgMember = (<<call.bearer, OrgOf[call.project]>> \in members)
          /\ session'.permissions = {}
          /\ session' = [user |-> session'.user, project |-> session'.project,
                        orgName |-> session'.orgName, isControl |-> session'.isControl,
                        isOrgMember |-> session'.isOrgMember, permissions |-> session'.permissions]
      BY <3>2 DEF NoSession
    <3>4. session' \in [user : Users \cup {""}, project : Projects \cup {NoProject},
                       orgName : Orgs \cup {""}, isControl : BOOLEAN, isOrgMember : BOOLEAN,
                       permissions : SUBSET AllPermissions]
      <4>1. /\ session'.user \in Users \cup {""} /\ session'.project \in Projects \cup {NoProject}
            /\ session'.orgName \in Orgs \cup {""} /\ session'.permissions \in SUBSET AllPermissions
        BY <1>1, <2>1, <3>1, <3>3
      <4>2. session'.isControl \in BOOLEAN /\ session'.isOrgMember \in BOOLEAN
        BY <3>3
      <4>3. QED BY <3>3, <4>1, <4>2
    <3>5. QED BY <3>3, <3>4
  <2>2. CASE ~NeedsProject(call)
    BY <1>1, <1>2, <2>2 DEF AuthSessionData
  <2>3. QED BY <2>1, <2>2
<1>4. GateTypeOK'
  BY <1>1, <1>3 DEF IInv, GateTypeOK
<1>5. Shapes'
  BY <1>1, <1>3 DEF IInv, Shapes, Underway
<1>6. Standing'
  BY <1>1 DEF IInv, Standing
<1>7. Resolved'
  BY <1>1, <1>3 DEF Resolved, NeedsProject
<1>8. Checked'
  BY <1>1 DEF Checked
<1>9. QED BY <1>4, <1>5, <1>6, <1>7, <1>8 DEF IInv

LEMMA ResolvePermissionsStep == ASSUME IInv, ResolvePermissions PROVE IInv'
<1>1. /\ stage = "permissions" /\ stage' = "checks"
      /\ session' = [session EXCEPT !.permissions = SessionPermissions(call)]
      /\ grants' = grants /\ members' = members /\ call' = call /\ reply' = reply
      /\ workflows' = workflows /\ asked' = asked /\ entitled' = entitled
  BY DEF ResolvePermissions
<1>2. SessionPermissions(call) \subseteq AllPermissions
  <2>1. \A u, s, where : GrantedAt(grants, u, s, where) \subseteq AllPermissions
    <3>1. SUFFICES ASSUME NEW u, NEW s, NEW where, NEW p \in GrantedAt(grants, u, s, where)
                   PROVE  p \in AllPermissions
      OBVIOUS
    <3>2. PICK g \in grants : p \in g.permissions
      BY <3>1, Granted
    <3>3. QED BY <3>2, GrantableAssumption DEF IInv, GateTypeOK
  <2>2. QED BY <2>1 DEF SessionPermissions, SystemPermissions, OrgPermissions, ProjectPermissions
<1>3. /\ session'.permissions = SessionPermissions(call)
      /\ session'.user = session.user /\ session'.project = session.project
      /\ session'.orgName = session.orgName /\ session'.isControl = session.isControl
      /\ session'.isOrgMember = session.isOrgMember
      /\ session' \in [user : Users \cup {""}, project : Projects \cup {NoProject},
                       orgName : Orgs \cup {""}, isControl : BOOLEAN, isOrgMember : BOOLEAN,
                       permissions : SUBSET AllPermissions]
  BY <1>1, <1>2 DEF IInv, Shapes
<1>4. GateTypeOK'
  BY <1>1, <1>3 DEF IInv, GateTypeOK
<1>5. Shapes'
  BY <1>1, <1>3 DEF IInv, Shapes, Underway
<1>6. Standing'
  BY <1>1 DEF IInv, Standing
<1>7. Resolved'
  BY <1>1, <1>3 DEF IInv, Resolved, NeedsProject
<1>8. Checked'
  <2>1. ASSUME call.method \in Methods \ publicMethods,
               permissionRegistry[call.method] \subseteq SessionPermissions(call)
        PROVE  entitled
    <3>1. NeedsProject(call) => call.project \in Projects
      BY <1>1, <2>1 DEF IInv, Resolved
    <3>2. \A p \in permissionRegistry[call.method] : Holds(grants, call.bearer, p, call.project)
      BY <2>1, <3>1, SessionHolds DEF IInv, GateTypeOK
    <3>3. QED BY <2>1, <3>2 DEF IInv, Standing, Entitled
  <2>2. QED BY <1>1, <1>3, <2>1 DEF Checked
<1>9. QED BY <1>4, <1>5, <1>6, <1>7, <1>8 DEF IInv

LEMMA AdmitStep == ASSUME IInv, Admit PROVE IInv'
<1>1. /\ stage = "checks" /\ stage' = "handler" /\ Refusal(call, session) = ""
      /\ UNCHANGED <<grants, members, call, asked, session, workflows, reply, entitled>>
  BY DEF Admit
<1>2. GateTypeOK'
  BY <1>1 DEF IInv, GateTypeOK, Shapes, Underway
<1>3. Shapes' /\ Standing'
  BY <1>1 DEF IInv, Shapes, Underway, Standing, Entitled
<1>4. Resolved'
  BY <1>1 DEF IInv, Resolved, NeedsProject
<1>5. Checked'
  <2>1. (Refusal(call, session) = "")'
    BY <1>1
  <2>2. QED BY <1>1, <2>1 DEF IInv, Checked
<1>6. QED BY <1>2, <1>3, <1>4, <1>5 DEF IInv
-----------------------------------------------------------------------------
LEMMA HandleStep == ASSUME IInv, Handle PROVE IInv'
<1>1. PICK e, answer : Reply(answer, Cause(answer, e), call)
  BY DEF Handle
<1>2. UNCHANGED <<grants, members, call, asked, workflows, entitled>>
  BY DEF Handle
<1>3. QED BY <1>1, <1>2, ReplyStep DEF IInv, GateTypeOK, Shapes

LEMMA HandleWorkflowStep == ASSUME IInv, HandleWorkflow PROVE IInv'
<1>1. UNCHANGED <<grants, members, call, asked, entitled>>
  BY DEF HandleWorkflow
<1>2. \E answer, cause, origin : Reply(answer, cause, origin)
  BY DEF HandleWorkflow
<1>3. \/ workflows' = workflows
      \/ Cardinality(workflows) < MaxWorkflows /\ \E w : workflows' = workflows \cup {w}
  BY DEF HandleWorkflow
<1>4. IsFiniteSet(workflows) /\ Cardinality(workflows) <= MaxWorkflows
  BY DEF IInv, Shapes, GateTypeOK
<1>5. IsFiniteSet(workflows') /\ Cardinality(workflows') <= MaxWorkflows
  <2>1. CASE workflows' = workflows
    BY <1>4, <2>1
  <2>2. ASSUME NEW w, Cardinality(workflows) < MaxWorkflows, workflows' = workflows \cup {w}
        PROVE  IsFiniteSet(workflows') /\ Cardinality(workflows') <= MaxWorkflows
    <3>1. /\ IsFiniteSet(workflows')
          /\ \/ Cardinality(workflows') = Cardinality(workflows)
             \/ Cardinality(workflows') = Cardinality(workflows) + 1
      BY <1>4, <2>2, FS_AddElement
    <3>2. Cardinality(workflows) \in Nat /\ MaxWorkflows \in Nat
      BY <1>4, FS_CardinalityType, GateAssumption
    <3>3. QED BY <2>2, <3>1, <3>2
  <2>3. QED BY <1>3, <2>1, <2>2
<1>6. QED BY <1>1, <1>2, <1>5, ReplyStep

(* Grants and members come and go around a call that has been resolved. *)
LEMMA MeanwhileStep ==
  ASSUME IInv,
         \/ \E g \in Grantable : Grant(g) \/ Revoke(g)
         \/ \E u \in Users, o \in Orgs : Join(u, o)
  PROVE  IInv'
<1>1. UNCHANGED <<stage, call, asked, session, workflows, reply>>
  BY DEF Grant, Revoke, Join
<1>2. /\ grants' \subseteq Grantable /\ members \subseteq members'
      /\ members' \subseteq Users \X Orgs /\ entitled' \in BOOLEAN
      /\ entitled => entitled'
  <2>1. /\ grants \subseteq Grantable /\ members \subseteq Users \X Orgs
        /\ entitled \in BOOLEAN
    BY DEF IInv, GateTypeOK
  <2>2. CASE \E g \in Grantable : Grant(g)
    <3>1. PICK g \in Grantable : Grant(g)
      BY <2>2
    <3>2. /\ grants' = grants \cup {g} /\ members' = members
          /\ entitled' = (entitled \/ Entitled(grants', call))
      BY <3>1 DEF Grant
    <3>3. entitled' \in BOOLEAN /\ (entitled => entitled')
      BY <2>1, <3>2, Zenon
    <3>4. QED BY <2>1, <3>2, <3>3
  <2>3. CASE \E g \in Grantable : Revoke(g)
    BY <2>1, <2>3 DEF Revoke
  <2>4. CASE \E u \in Users, o \in Orgs : Join(u, o)
    BY <2>1, <2>4 DEF Join
  <2>5. QED BY <2>2, <2>3, <2>4
<1>3. GateTypeOK' /\ Shapes'
  BY <1>1, <1>2 DEF IInv, GateTypeOK, Shapes
<1>4. Standing'
  <2>1. CASE \E g \in Grantable : Grant(g)
    BY <1>1, <2>1 DEF Grant, Standing
  <2>2. CASE \E g \in Grantable : Revoke(g)
    <3>1. grants' \subseteq grants /\ entitled' = entitled
      BY <2>2 DEF Revoke
    <3>2. Entitled(grants', call) => Entitled(grants, call)
      BY <3>1, EntitledGrows
    <3>3. QED BY <1>1, <3>1, <3>2 DEF IInv, Standing
  <2>3. CASE \E u \in Users, o \in Orgs : Join(u, o)
    BY <2>3 DEF IInv, Standing, Join
  <2>4. QED BY <2>1, <2>2, <2>3
<1>5. Resolved'
  BY <1>1, <1>2 DEF IInv, Resolved, NeedsProject
<1>6. Checked'
  <2>1. (Refusal(call, session) = "")' = (Refusal(call, session) = "")
    BY <1>1
  <2>2. QED BY <1>1, <1>2, <2>1 DEF IInv, Checked
<1>7. QED BY <1>3, <1>4, <1>5, <1>6 DEF IInv

LEMMA StepInv == IInv /\ [GateNext]_gateVars => IInv'
<1> SUFFICES ASSUME IInv, [GateNext]_gateVars PROVE IInv'
  OBVIOUS
<1>1. CASE UNCHANGED gateVars
  <2>1. (Refusal(call, session) = "")' = (Refusal(call, session) = "")
    BY <1>1 DEF gateVars
  <2>2. UNCHANGED <<grants, members, stage, call, asked, session, workflows, reply, entitled>>
    BY <1>1 DEF gateVars
  <2>3. GateTypeOK'
    BY <2>2 DEF IInv, GateTypeOK
  <2>4. Shapes'
    BY <2>2 DEF IInv, Shapes
  <2>5. Standing'
    BY <2>2 DEF IInv, Standing
  <2>6. Resolved'
    BY <2>2 DEF IInv, Resolved, NeedsProject
  <2>7. Checked'
    BY <2>1, <2>2 DEF IInv, Checked
  <2>8. QED BY <2>3, <2>4, <2>5, <2>6, <2>7 DEF IInv
<1>2. CASE RejectHeaders \/ RejectCaller \/ FailSession \/ Deny
  BY <1>2, RefuseStep DEF RejectHeaders, RejectCaller, FailSession, Deny
<1>3. QED BY <1>1, <1>2, ArriveStep, AuthenticateStep, ResolvePermissionsStep, AdmitStep,
            HandleStep, HandleWorkflowStep, ForgetStep, MeanwhileStep DEF GateNext

LEMMA Invariance == GateSpec => []IInv
BY InitInv, StepInv, PTL DEF GateSpec
-----------------------------------------------------------------------------
(* Every variable keeps its type, and no call is answered while it runs. *)
THEOREM TypeCorrect == GateSpec => []GateTypeOK
<1>1. IInv => GateTypeOK
  BY DEF IInv
<1>2. QED BY <1>1, Invariance, PTL

(* However grants and memberships change between the two reads of a        *)
(* session and the checks that trust it: a protected handler runs only for *)
(* a caller who held all that its method requires at some moment since the *)
(* call arrived, and in the control project the method belongs to.         *)
THEOREM HandlersStayAuthorized == GateSpec => []HandlersAreAuthorized
<1>1. IInv => HandlersAreAuthorized
  <2>1. SUFFICES ASSUME IInv, stage = "handler", call.method \notin publicMethods
                 PROVE  /\ entitled
                        /\ session.user = call.bearer
                        /\ call.method \in systemControlProjectMethods =>
                             /\ call.project \in Control
                             /\ OrgOf[call.project] = SystemOrgName
                             /\ <<call.bearer, SystemOrgName>> \in members
                        /\ call.method \in orgControlProjectMethods => call.project \in Control
    BY DEF HandlersAreAuthorized
  <2>2. /\ permissionInterceptor(call.method, session) = ""
        /\ requireSystemControlProject(call.method, session) = ""
        /\ requireOrganizationControlProject(call.method, session) = ""
    BY <2>1, RefusalOfNone DEF IInv, Checked
  <2>3. entitled
    <3>1. Registered(call.method) /\ permissionRegistry[call.method] \subseteq session.permissions
      BY <2>1, <2>2 DEF permissionInterceptor
    <3>2. call.method \in Methods
      BY <3>1, RegistryIsComplete DEF Registered
    <3>3. QED BY <2>1, <3>1, <3>2 DEF IInv, Checked
  <2>4. /\ session.user = call.bearer
        /\ call.method \notin noProjectMethods =>
             /\ session.orgName = OrgOf[call.project]
             /\ session.isControl = (call.project \in Control)
             /\ session.isOrgMember => <<call.bearer, OrgOf[call.project]>> \in members
    BY <2>1 DEF IInv, Resolved, NeedsProject
  <2>5. ASSUME call.method \in systemControlProjectMethods
        PROVE  /\ call.project \in Control /\ OrgOf[call.project] = SystemOrgName
               /\ <<call.bearer, SystemOrgName>> \in members
    <3>1. session.isControl /\ session.isOrgMember /\ session.orgName = SystemOrgName
      BY <2>2, <2>5 DEF requireSystemControlProject, IsSystemControlProject
    <3>2. call.method \notin noProjectMethods
      BY <2>5, ControlProjectMethodsNeedAProject
    <3>3. QED BY <2>4, <3>1, <3>2
  <2>6. ASSUME call.method \in orgControlProjectMethods
        PROVE  call.project \in Control
    <3>1. session.isControl
      BY <2>2, <2>6 DEF requireOrganizationControlProject
    <3>2. call.method \notin noProjectMethods
      BY <2>6, ControlProjectMethodsNeedAProject
    <3>3. QED BY <2>4, <3>1, <3>2
  <2>7. QED BY <2>3, <2>4, <2>5, <2>6
<1>2. QED BY <1>1, Invariance, PTL
-----------------------------------------------------------------------------
(* A service serves its methods alone. *)
LEMMA ServicesOfMethods ==
  /\ \A m \in AuthService : RouteOf(m) = AuthRoutes[m]
  /\ \A m \in OrgService : RouteOf(m) = OrgRoutes[m]
  /\ \A m \in PermissionService : RouteOf(m) = PermissionRoutes[m]
  /\ \A m \in ProjectService : RouteOf(m) = ProjectRoutes[m]
  /\ \A m \in RoleService : RouteOf(m) = RoleRoutes[m]
  /\ \A m \in SystemRoleService : RouteOf(m) = SystemRoleRoutes[m]
  /\ \A m \in UserService : RouteOf(m) = UserRoutes[m]
BY DEF RouteOf, AuthService, OrgService, PermissionService, ProjectService, RoleService,
   SystemRoleService, UserService

(* What tells the routes apart: the verb, the custom verb, how many        *)
(* segments the path has, its first, and its second.                       *)
Verb(m) == RouteOf(m).verb
Custom(m) == RouteOf(m).custom
Segments(m) == Len(RouteOf(m).path)
First(m) == RouteOf(m).path[1]
Second(m) == IF Segments(m) > 1 THEN RouteOf(m).path[2] ELSE "none"

Indexed(m) == DOMAIN RouteOf(m).path = 1 .. Segments(m) /\ Segments(m) \in {1, 2, 3}

Shape(m, verb, custom, n, first, second) ==
  /\ Indexed(m)
  /\ Verb(m) = verb /\ Custom(m) = custom /\ Segments(m) = n
  /\ First(m) = first /\ Second(m) = second

LEMMA ShapeOfRoute ==
  /\ \A m, verb, custom, a :
       RouteOf(m) = Route(verb, <<a>>, custom) => Shape(m, verb, custom, 1, a, "none")
  /\ \A m, verb, custom, a, b :
       RouteOf(m) = Route(verb, <<a, b>>, custom) => Shape(m, verb, custom, 2, a, b)
  /\ \A m, verb, custom, a, b, c :
       RouteOf(m) = Route(verb, <<a, b, c>>, custom) => Shape(m, verb, custom, 3, a, b)
<1> USE DEF Shape, Indexed, Route, Verb, Custom, Segments, First, Second
<1>1. ASSUME NEW m, NEW verb, NEW custom, NEW a, RouteOf(m) = Route(verb, <<a>>, custom)
      PROVE  Shape(m, verb, custom, 1, a, "none")
  BY <1>1
<1>2. ASSUME NEW m, NEW verb, NEW custom, NEW a, NEW b,
             RouteOf(m) = Route(verb, <<a, b>>, custom)
      PROVE  Shape(m, verb, custom, 2, a, b)
  BY <1>2
<1>3. ASSUME NEW m, NEW verb, NEW custom, NEW a, NEW b, NEW c,
             RouteOf(m) = Route(verb, <<a, b, c>>, custom)
      PROVE  Shape(m, verb, custom, 3, a, b)
  BY <1>3
<1>4. QED BY <1>1, <1>2, <1>3

LEMMA AuthShapes ==
  /\ Shape("RequestMagicLink", "POST", "", 2, "auth", "magic-link")
  /\ Shape("VerifyMagicLink", "POST", "", 2, "auth", "verify")
  /\ Shape("RefreshAccessToken", "POST", "", 2, "auth", "refresh")
  /\ Shape("RevokeRefreshToken", "POST", "", 2, "auth", "revoke")
  /\ Shape("RevokeAllSessions", "POST", "", 3, "auth", "sessions")
  /\ Shape("GetAuthContext", "GET", "", 2, "auth", "context")
<1>1. RouteOf("RequestMagicLink") = Route("POST", <<"auth", "magic-link">>, "")
  BY ServicesOfMethods, Zenon DEF AuthService, AuthRoutes
<1>2. RouteOf("VerifyMagicLink") = Route("POST", <<"auth", "verify">>, "")
  BY ServicesOfMethods, Zenon DEF AuthService, AuthRoutes
<1>3. RouteOf("RefreshAccessToken") = Route("POST", <<"auth", "refresh">>, "")
  BY ServicesOfMethods, Zenon DEF AuthService, AuthRoutes
<1>4. RouteOf("RevokeRefreshToken") = Route("POST", <<"auth", "revoke">>, "")
  BY ServicesOfMethods, Zenon DEF AuthService, AuthRoutes
<1>5. RouteOf("RevokeAllSessions") =
         Route("POST", <<"auth", "sessions", "revoke-all">>, "")
  BY ServicesOfMethods, Zenon DEF AuthService, AuthRoutes
<1>6. RouteOf("GetAuthContext") = Route("GET", <<"auth", "context">>, "")
  BY ServicesOfMethods, Zenon DEF AuthService, AuthRoutes
<1>7. QED BY <1>1, <1>2, <1>3, <1>4, <1>5, <1>6, ShapeOfRoute, Zenon

LEMMA OrgShapes ==
  /\ Shape("CreateOrganization", "POST", "", 1, "organizations", "none")
  /\ Shape("CreateOrganizationUser", "POST", "", 2, "organizations", "users")
  /\ Shape("ListOrganizationUsers", "GET", "", 2, "organizations", "users")
<1>1. RouteOf("CreateOrganization") = Route("POST", <<"organizations">>, "")
  BY ServicesOfMethods, Zenon DEF OrgService, OrgRoutes
<1>2. RouteOf("CreateOrganizationUser") =
         Route("POST", <<"organizations", "users">>, "")
  BY ServicesOfMethods, Zenon DEF OrgService, OrgRoutes
<1>3. RouteOf("ListOrganizationUsers") = Route("GET", <<"organizations", "users">>, "")
  BY ServicesOfMethods, Zenon DEF OrgService, OrgRoutes
<1>4. QED BY <1>1, <1>2, <1>3, ShapeOfRoute, Zenon

LEMMA PermissionShapes ==
  /\ Shape("ListPermissions", "GET", "", 1, "permissions", "none")
<1>1. RouteOf("ListPermissions") = Route("GET", <<"permissions">>, "")
  BY ServicesOfMethods, Zenon DEF PermissionService, PermissionRoutes
<1>2. QED BY <1>1, ShapeOfRoute, Zenon

LEMMA ProjectShapes ==
  /\ Shape("ListProjects", "GET", "", 1, "projects", "none")
<1>1. RouteOf("ListProjects") = Route("GET", <<"projects">>, "")
  BY ServicesOfMethods, Zenon DEF ProjectService, ProjectRoutes
<1>2. QED BY <1>1, ShapeOfRoute, Zenon

LEMMA RoleShapes ==
  /\ Shape("CreateRole", "POST", "", 1, "roles", "none")
  /\ Shape("GetRole", "GET", "", 2, "roles", "*")
  /\ Shape("ListRoles", "GET", "", 1, "roles", "none")
  /\ Shape("ListProjectRoleAssignments", "GET", "", 1, "project-role-assignments", "none")
  /\ Shape("ListOrganizationRoleAssignments", "GET", "", 1,
           "organization-role-assignments", "none")
  /\ Shape("UpdateRole", "PATCH", "", 2, "roles", "*")
  /\ Shape("ModifyRolePermissions", "POST", "modifyPermissions", 2, "roles", "*")
  /\ Shape("DeleteRole", "DELETE", "", 2, "roles", "*")
  /\ Shape("AssignRoleToProject", "POST", "assignToProject", 1, "roles", "none")
  /\ Shape("UnassignRoleFromProject", "POST", "unassignFromProject", 1, "roles", "none")
  /\ Shape("AssignRoleToOrganization", "POST", "assignToOrganization", 1, "roles", "none")
  /\ Shape("UnassignRoleFromOrganization", "POST", "unassignFromOrganization", 1,
           "roles", "none")
<1>1. RouteOf("CreateRole") = Route("POST", <<"roles">>, "")
  BY ServicesOfMethods, Zenon DEF RoleService, RoleRoutes
<1>2. RouteOf("GetRole") = Route("GET", <<"roles", "*">>, "")
  BY ServicesOfMethods, Zenon DEF RoleService, RoleRoutes
<1>3. RouteOf("ListRoles") = Route("GET", <<"roles">>, "")
  BY ServicesOfMethods, Zenon DEF RoleService, RoleRoutes
<1>4. RouteOf("ListProjectRoleAssignments") =
         Route("GET", <<"project-role-assignments">>, "")
  BY ServicesOfMethods, Zenon DEF RoleService, RoleRoutes
<1>5. RouteOf("ListOrganizationRoleAssignments") =
         Route("GET", <<"organization-role-assignments">>, "")
  BY ServicesOfMethods, Zenon DEF RoleService, RoleRoutes
<1>6. RouteOf("UpdateRole") = Route("PATCH", <<"roles", "*">>, "")
  BY ServicesOfMethods, Zenon DEF RoleService, RoleRoutes
<1>7. RouteOf("ModifyRolePermissions") =
         Route("POST", <<"roles", "*">>, "modifyPermissions")
  BY ServicesOfMethods, Zenon DEF RoleService, RoleRoutes
<1>8. RouteOf("DeleteRole") = Route("DELETE", <<"roles", "*">>, "")
  BY ServicesOfMethods, Zenon DEF RoleService, RoleRoutes
<1>9. RouteOf("AssignRoleToProject") = Route("POST", <<"roles">>, "assignToProject")
  BY ServicesOfMethods, Zenon DEF RoleService, RoleRoutes
<1>10. RouteOf("UnassignRoleFromProject") =
         Route("POST", <<"roles">>, "unassignFromProject")
  BY ServicesOfMethods, Zenon DEF RoleService, RoleRoutes
<1>11. RouteOf("AssignRoleToOrganization") =
         Route("POST", <<"roles">>, "assignToOrganization")
  BY ServicesOfMethods, Zenon DEF RoleService, RoleRoutes
<1>12. RouteOf("UnassignRoleFromOrganization") =
         Route("POST", <<"roles">>, "unassignFromOrganization")
  BY ServicesOfMethods, Zenon DEF RoleService, RoleRoutes
<1>13. QED BY <1>1, <1>2, <1>3, <1>4, <1>5, <1>6, <1>7, <1>8, <1>9, <1>10,
             <1>11, <1>12, ShapeOfRoute, Zenon

LEMMA SystemRoleShapes ==
  /\ Shape("ListSystemRoles", "GET", "", 1, "system-roles", "none")
  /\ Shape("AssignSystemRole", "POST", "assign", 1, "system-roles", "none")
  /\ Shape("UnassignSystemRole", "POST", "unassign", 1, "system-roles", "none")
  /\ Shape("ListSystemRoleAssignments", "GET", "", 1, "system-role-assignments", "none")
<1>1. RouteOf("ListSystemRoles") = Route("GET", <<"system-roles">>, "")
  BY ServicesOfMethods, Zenon DEF SystemRoleService, SystemRoleRoutes
<1>2. RouteOf("AssignSystemRole") = Route("POST", <<"system-roles">>, "assign")
  BY ServicesOfMethods, Zenon DEF SystemRoleService, SystemRoleRoutes
<1>3. RouteOf("UnassignSystemRole") = Route("POST", <<"system-roles">>, "unassign")
  BY ServicesOfMethods, Zenon DEF SystemRoleService, SystemRoleRoutes
<1>4. RouteOf("ListSystemRoleAssignments") =
         Route("GET", <<"system-role-assignments">>, "")
  BY ServicesOfMethods, Zenon DEF SystemRoleService, SystemRoleRoutes
<1>5. QED BY <1>1, <1>2, <1>3, <1>4, ShapeOfRoute, Zenon

LEMMA UserShapes ==
  /\ Shape("GetUser", "GET", "", 2, "users", "*")
  /\ Shape("ListUsers", "GET", "", 1, "users", "none")
  /\ Shape("CreateUser", "POST", "", 1, "users", "none")
  /\ Shape("UpdateUser", "PATCH", "", 2, "users", "*")
<1>1. RouteOf("GetUser") = Route("GET", <<"users", "*">>, "")
  BY ServicesOfMethods, Zenon DEF UserService, UserRoutes
<1>2. RouteOf("ListUsers") = Route("GET", <<"users">>, "")
  BY ServicesOfMethods, Zenon DEF UserService, UserRoutes
<1>3. RouteOf("CreateUser") = Route("POST", <<"users">>, "")
  BY ServicesOfMethods, Zenon DEF UserService, UserRoutes
<1>4. RouteOf("UpdateUser") = Route("PATCH", <<"users", "*">>, "")
  BY ServicesOfMethods, Zenon DEF UserService, UserRoutes
<1>5. QED BY <1>1, <1>2, <1>3, <1>4, ShapeOfRoute, Zenon

LEMMA MatchingParts ==
  ASSUME NEW m, NEW n, Matches(RouteOf(n), RouteOf(m)),
         Indexed(n)
  PROVE  /\ Verb(n) = Verb(m) /\ Custom(n) = Custom(m) /\ Segments(n) = Segments(m)
         /\ First(n) \in {First(m), "*"} /\ Second(n) \in {Second(m), "*"}
<1>1. /\ \A i \in DOMAIN RouteOf(n).path :
             RouteOf(n).path[i] = RouteOf(m).path[i] \/ RouteOf(n).path[i] = "*"
      /\ Verb(n) = Verb(m) /\ Custom(n) = Custom(m) /\ Segments(n) = Segments(m)
  BY DEF Matches, Verb, Custom, Segments
<1>2. First(n) \in {First(m), "*"}
  BY <1>1 DEF First, Indexed
<1>3. Second(n) \in {Second(m), "*"}
  BY <1>1 DEF Second, Indexed
<1>4. QED BY <1>1, <1>2, <1>3

(* The segments of a route are numbered from one. *)
LEMMA PathsAreIndexed == \A m \in Methods : Indexed(m)
<1>1. \A m \in AuthService : Indexed(m)
  BY AuthShapes, Zenon DEF AuthService, Shape
<1>2. \A m \in OrgService : Indexed(m)
  BY OrgShapes, Zenon DEF OrgService, Shape
<1>3. \A m \in PermissionService : Indexed(m)
  BY PermissionShapes, Zenon DEF PermissionService, Shape
<1>4. \A m \in ProjectService : Indexed(m)
  BY ProjectShapes, Zenon DEF ProjectService, Shape
<1>5. \A m \in RoleService : Indexed(m)
  BY RoleShapes, Zenon DEF RoleService, Shape
<1>6. \A m \in SystemRoleService : Indexed(m)
  BY SystemRoleShapes, Zenon DEF SystemRoleService, Shape
<1>7. \A m \in UserService : Indexed(m)
  BY UserShapes, Zenon DEF UserService, Shape
<1>8. QED BY <1>1, <1>2, <1>3, <1>4, <1>5, <1>6, <1>7 DEF Methods

(* A call for the route of a method reaches that method. *)
LEMMA RoutesDiffer ==
  ASSUME NEW m \in Methods, NEW n \in Methods, Matches(RouteOf(n), RouteOf(m))
  PROVE  n = m
<1>0. /\ Verb(n) = Verb(m) /\ Custom(n) = Custom(m) /\ Segments(n) = Segments(m)
      /\ First(n) \in {First(m), "*"} /\ Second(n) \in {Second(m), "*"}
  BY MatchingParts, PathsAreIndexed
<1>1. \A p \in AuthService : First(p) = "auth"
  BY AuthShapes DEF AuthService, Shape
<1>2. \A p \in OrgService : First(p) = "organizations"
  BY OrgShapes DEF OrgService, Shape
<1>3. \A p \in PermissionService : First(p) = "permissions"
  BY PermissionShapes DEF PermissionService, Shape
<1>4. \A p \in ProjectService : First(p) = "projects"
  BY ProjectShapes DEF ProjectService, Shape
<1>5. \A p \in RoleService :
        First(p) \in {"roles", "project-role-assignments", "organization-role-assignments"}
  BY RoleShapes DEF RoleService, Shape
<1>6. \A p \in SystemRoleService : First(p) \in {"system-roles", "system-role-assignments"}
  BY SystemRoleShapes DEF SystemRoleService, Shape
<1>7. \A p \in UserService : First(p) = "users"
  BY UserShapes DEF UserService, Shape
<1>8. First(n) = First(m)
  BY <1>0, <1>1, <1>2, <1>3, <1>4, <1>5, <1>6, <1>7 DEF Methods
<1>9. CASE m \in AuthService
  <2>1. n \in AuthService
    BY <1>1, <1>2, <1>3, <1>4, <1>5, <1>6, <1>7, <1>8, <1>9 DEF Methods
  <2>2. QED BY <1>9, <2>1, <1>0, AuthShapes DEF AuthService, Shape
<1>10. CASE m \in OrgService
  <2>1. n \in OrgService
    BY <1>1, <1>2, <1>3, <1>4, <1>5, <1>6, <1>7, <1>8, <1>10 DEF Methods
  <2>2. QED BY <1>10, <2>1, <1>0, OrgShapes DEF OrgService, Shape
<1>11. CASE m \in PermissionService \cup ProjectService
  BY <1>1, <1>2, <1>3, <1>4, <1>5, <1>6, <1>7, <1>8, <1>11
     DEF Methods, PermissionService, ProjectService
<1>12. CASE m \in RoleService
  <2>1. n \in RoleService
    BY <1>1, <1>2, <1>3, <1>4, <1>5, <1>6, <1>7, <1>8, <1>12 DEF Methods
  <2>2. ASSUME NEW p \in RoleService
        PROVE  /\ Custom(p) # "" =>
                    p \in {"ModifyRolePermissions", "AssignRoleToProject",
                          "UnassignRoleFromProject", "AssignRoleToOrganization",
                          "UnassignRoleFromOrganization"}
               /\ Custom(p) = "" /\ Verb(p) = "GET" =>
                    p \in {"GetRole", "ListRoles", "ListProjectRoleAssignments",
                          "ListOrganizationRoleAssignments"}
               /\ Custom(p) = "" /\ Verb(p) # "GET" =>
                    p \in {"CreateRole", "UpdateRole", "DeleteRole"}
    BY <2>2, RoleShapes DEF RoleService, Shape
  <2>3. CASE Custom(m) # ""
    <3>1. Custom(n) = Custom(m) /\ m \in RoleService /\ n \in RoleService
      BY <1>0, <1>12, <2>1
    <3>2. QED BY ONLY <2>2, <2>3, <3>1, RoleShapes DEF Shape
  <2>4. CASE Custom(m) = "" /\ Verb(m) = "GET"
    <3>1. Segments("GetRole") = 2 /\ Segments("ListRoles") = 1
      BY RoleShapes, Zenon DEF Shape
    <3>2. Segments("GetRole") # Segments("ListRoles")
      BY ONLY <3>1
    <3>3. /\ Custom(n) = Custom(m) /\ m \in RoleService /\ n \in RoleService
          /\ Verb(n) = Verb(m) /\ First(n) = First(m) /\ Segments(n) = Segments(m)
      BY <1>0, <1>8, <1>12, <2>1
    <3>4. QED BY ONLY <2>2, <2>4, <3>2, <3>3, RoleShapes DEF Shape
  <2>5. CASE Custom(m) = "" /\ Verb(m) # "GET"
    BY <1>0, <1>12, <2>1, <2>2, <2>5, RoleShapes DEF Shape
  <2>6. QED BY <2>3, <2>4, <2>5
<1>13. CASE m \in SystemRoleService
  <2>1. n \in SystemRoleService
    BY <1>1, <1>2, <1>3, <1>4, <1>5, <1>6, <1>7, <1>8, <1>13 DEF Methods
  <2>2. QED BY <1>13, <2>1, <1>0, SystemRoleShapes DEF SystemRoleService, Shape
<1>14. CASE m \in UserService
  <2>1. n \in UserService
    BY <1>1, <1>2, <1>3, <1>4, <1>5, <1>6, <1>7, <1>8, <1>14 DEF Methods
  <2>2. Segments("GetUser") = 2 /\ Segments("ListUsers") = 1
    BY UserShapes, Zenon DEF Shape
  <2>3. Segments("GetUser") # Segments("ListUsers")
    BY ONLY <2>2
  <2>4. Verb(n) = Verb(m) /\ Segments(n) = Segments(m)
    BY <1>0
  <2>5. QED BY ONLY <1>14, <2>1, <2>3, <2>4, UserShapes DEF UserService, Shape
<1>15. QED BY <1>9, <1>10, <1>11, <1>12, <1>13, <1>14 DEF Methods
-----------------------------------------------------------------------------
(* A call goes by the method its client meant while it runs and until it   *)
(* is forgotten; a recorded workflow is kept under the id of its own call. *)
Meant == stage \in Underway \/ reply # NoReply => call.method = asked

Recording ==
  \A w \in workflows :
    \E u : w.id = <<u, w.call.method, w.call.body, w.call.key>>

Own == Meant /\ Recording /\ RepliesAreOwn

LEMMA OwnArrive ==
  ASSUME Own, NEW c \in Traffic, Arrive(c)
  PROVE  Own'
<1>1. reply' = NoReply /\ workflows' = workflows /\ asked' = c.method
  BY DEF Arrive
<1>2. call'.method \in Routed(c.method) \/ call'.method = c.method
  BY ArrivedCall
<1>3. CASE c.method \in Reflection
  <2>1. c.via = "grpc"
    BY <1>3, TrafficAssumption, MethodsAreNoReflection
  <2>2. c = Call(c.method, c.bearer, c.project, c.key, c.via, c.body)
    BY TrafficAssumption
  <2>3. Forwarded(c) = c /\ call' = [c EXCEPT !.method = c.method]
    BY <2>1 DEF Arrive, Forwarded
  <2>4. DOMAIN c = {"method", "bearer", "project", "key", "via", "body"}
    BY <2>2 DEF Call
  <2>5. call'.method = c.method
    BY <2>3, <2>4
  <2>6. QED BY <1>1, <2>5 DEF Own, Meant, Recording, RepliesAreOwn
<1>4. CASE c.method \in Methods
  <2>1. call'.method = c.method
    BY <1>2, <1>4, RoutesDiffer DEF Routed
  <2>2. QED BY <1>1, <2>1 DEF Own, Meant, Recording, RepliesAreOwn
<1>5. QED BY <1>3, <1>4, TrafficAssumption

(* An answer is the call's own when its origin is the call, or a call of   *)
(* the same method, key and body.                                          *)
LEMMA OwnReply ==
  ASSUME Own, stage \in Underway, NEW answer, NEW cause, NEW origin,
         Reply(answer, cause, origin), UNCHANGED <<call, asked>>, Recording',
         \/ origin = call
         \/ /\ origin.method = call.method /\ origin.key = call.key
            /\ origin.body = call.body
  PROVE  Own'
<1>1. reply'.origin = origin
  BY DEF Reply
<1>2. call'.method = asked'
  BY DEF Own, Meant
<1>3. QED BY <1>1, <1>2 DEF Own, Meant, RepliesAreOwn

LEMMA OwnRefuse ==
  ASSUME Own, stage \in Underway, NEW answer, Refuse(answer)
  PROVE  Own'
<1>1. Reply(answer, answer, call) /\ UNCHANGED <<call, asked, workflows>>
  BY DEF Refuse
<1>2. Recording'
  BY <1>1 DEF Own, Recording
<1>3. QED BY <1>1, <1>2, OwnReply

LEMMA OwnHandle == ASSUME Own, Handle PROVE Own'
<1>1. PICK answer, cause : Reply(answer, cause, call)
  BY DEF Handle
<1>2. UNCHANGED <<call, asked, workflows>> /\ stage \in Underway
  BY DEF Handle, Underway
<1>3. Recording'
  BY <1>2 DEF Own, Recording
<1>4. QED BY <1>1, <1>2, <1>3, OwnReply

(* A workflow found under the call's id ran for the same method, the same  *)
(* body and the same key.                                                  *)
LEMMA OwnHandleWorkflow == ASSUME Own, HandleWorkflow PROVE Own'
<1> DEFINE id == scopedWorkflowID(call, session)
<1>1. UNCHANGED <<call, asked>> /\ stage \in Underway
  BY DEF HandleWorkflow, Underway
<1>2. CASE /\ UNCHANGED workflows
           /\ \E w \in Recorded(id) : Reply(w.answer, w.answer, w.call)
  <2>1. PICK w \in Recorded(id) : Reply(w.answer, w.answer, w.call)
    BY <1>2
  <2>2. w \in workflows /\ w.id = <<session.user, call.method, call.body, call.key>>
    BY <2>1 DEF Recorded, scopedWorkflowID
  <2>3. PICK u : w.id = <<u, w.call.method, w.call.body, w.call.key>>
    BY <2>2 DEF Own, Recording
  <2>4. /\ w.call.method = call.method /\ w.call.key = call.key
        /\ w.call.body = call.body
    BY <2>2, <2>3
  <2>5. Recording'
    BY <1>2 DEF Own, Recording
  <2>6. QED BY <1>1, <2>1, <2>4, <2>5, OwnReply
<1>3. ASSUME NEW answer, Reply(answer, answer, call),
             \/ UNCHANGED workflows
             \/ workflows' = workflows \cup {[id |-> id, call |-> call, answer |-> answer]}
      PROVE  Own'
  <2>1. Recording'
    BY <1>3 DEF Own, Recording, scopedWorkflowID
  <2>2. QED BY <1>1, <1>3, <2>1, OwnReply
<1>4. QED BY <1>2, <1>3, Zenon DEF HandleWorkflow

LEMMA OwnStep == ASSUME IInv, Own, [GateNext]_gateVars PROVE Own'
<1>1. CASE /\ UNCHANGED <<call, asked, workflows, reply>>
           /\ stage \notin Underway => stage' \notin Underway
  BY <1>1 DEF Own, Meant, Recording, RepliesAreOwn
<1>2. CASE RejectHeaders \/ RejectCaller \/ FailSession \/ Deny
  BY <1>2, OwnRefuse DEF RejectHeaders, RejectCaller, FailSession, Deny, Underway
<1>3. CASE Forget
  BY <1>3 DEF Forget, IInv, Shapes, Own, Meant, Recording, RepliesAreOwn
<1>4. CASE Authenticate \/ ResolvePermissions \/ Admit
  BY <1>1, <1>4 DEF Authenticate, ResolvePermissions, Admit, Underway
<1>5. CASE UNCHANGED gateVars
  BY <1>1, <1>5 DEF gateVars
<1>6. CASE \/ \E g \in Grantable : Grant(g) \/ Revoke(g)
           \/ \E u \in Users, o \in Orgs : Join(u, o)
  BY <1>1, <1>6 DEF Grant, Revoke, Join
<1>7. QED BY <1>2, <1>3, <1>4, <1>5, <1>6, OwnArrive, OwnHandle, OwnHandleWorkflow
   DEF GateNext

(* A call is answered by the method its client meant, over HTTP as over    *)
(* gRPC: no two methods have the same route, and a recorded workflow is    *)
(* found by nothing but its own method, request, key and user.             *)
THEOREM RepliesStayOwn == GateSpec => []RepliesAreOwn
<1>1. GateInit => Own
  BY DEF GateInit, Own, Meant, Recording, RepliesAreOwn, Underway
<1>2. IInv /\ Own /\ [GateNext]_gateVars => Own'
  BY OwnStep
<1>3. Own => RepliesAreOwn
  BY DEF Own
<1>4. QED BY <1>1, <1>2, <1>3, Invariance, PTL DEF GateSpec
-----------------------------------------------------------------------------
(* A service serves its methods alone. *)
LEMMA ServedBy ==
  /\ \A m \in AuthService : \A b, e, s :
       Serve(m, b, e) = AuthServer(b, e)[m] /\ Returns(m, s, b) = AuthCore(s)[m]
  /\ \A m \in OrgService : \A b, e, s :
       Serve(m, b, e) = OrgServer(b, e)[m] /\ Returns(m, s, b) = OrganizationCore(s, b)[m]
  /\ \A m \in PermissionService : \A b, e, s :
       Serve(m, b, e) = PermissionServer(b, e)[m] /\ Returns(m, s, b) = {"none"}
  /\ \A m \in ProjectService : \A b, e, s :
       Serve(m, b, e) = ProjectServer(b, e)[m] /\ Returns(m, s, b) = AccessibleProjects
  /\ \A m \in RoleService : \A b, e, s :
       Serve(m, b, e) = RoleServer(b, e)[m] /\ Returns(m, s, b) = CustomRoleCore(s, b)[m]
  /\ \A m \in SystemRoleService : \A b, e, s :
       Serve(m, b, e) = SystemRoleServer(b, e)[m] /\ Returns(m, s, b) = SystemRoleCore[m]
  /\ \A m \in UserService : \A b, e, s :
       Serve(m, b, e) = UserServer(b, e)[m] /\ Returns(m, s, b) = UserCore(b)[m]
BY DEF Serve, Returns, AuthService, OrgService, PermissionService, ProjectService,
       RoleService, SystemRoleService, UserService

(* An answer that needs no explanation: a status, or a rejection that      *)
(* becomes one; the failure of the core; and the one missing conversion.   *)
(* What the core rejects, the endpoint has, but for the all-zero etag.     *)
Explained(m, b, a, e) ==
  /\ \/ a \in Codes \cup {"rejected"}
     \/ a = "failure" /\ e = "failure"
     \/ a = "missing conversion" /\ m = "UpdateRole" /\ "permissions" \notin b.mask
     \/ a = "validation" /\ e = "validation"
  /\ e = "validation" /\ a \notin {"rejected", "missing conversion"} => b.etag = "nil"

(* A handler that has a status for each of the errors its core names, and  *)
(* whose endpoint refuses what the core would and what does not convert.   *)
LEMMA Named ==
  ASSUME NEW m, NEW b, NEW v, NEW converts \in BOOLEAN, NEW e, NEW statuses,
         \A x \in DOMAIN statuses : statuses[x] \in Codes,
         v = {} /\ ~converts => m = "UpdateRole" /\ "permissions" \notin b.mask,
         \/ e \in {"none", "failure"} \/ (e \in DOMAIN statuses /\ e # "validation")
         \/ e = "validation" /\ (v = {} /\ converts => b.etag = "nil")
  PROVE  Explained(m, b, Answer(v, converts, e, statuses), e)
<1>1. CASE v # {}
  BY <1>1 DEF Answer, Explained
<1>2. CASE v = {} /\ ~converts
  BY <1>2 DEF Answer, Explained
<1>3. CASE v = {} /\ converts /\ e = "none"
  BY <1>3 DEF Answer, Explained, Codes
<1>4. CASE v = {} /\ converts /\ e # "none"
  <2>1. Answer(v, converts, e, statuses) = IF e \in DOMAIN statuses THEN statuses[e] ELSE e
    BY <1>4 DEF Answer
  <2>2. QED BY <1>4, <2>1 DEF Explained
<1>5. QED BY <1>1, <1>2, <1>3, <1>4

(* Permissions that an endpoint accepts convert, and the core accepts them. *)
LEMMA AcceptedPermissions ==
  ASSUME NEW es, NEW field, permissionViolations(es, field) = {}
  PROVE  PermissionsFromPB(es).ok /\ validateCustomRolePerms(es)
BY DEF permissionViolations, Unless, PermissionsFromPB, validateCustomRolePerms

LEMMA AcceptedChanges ==
  ASSUME NEW es, NEW fs, NEW f, NEW g,
         permissionViolations(es, f) = {}, permissionViolations(fs, g) = {}
  PROVE  PermissionsFromPB(es \cup fs).ok /\ validateCustomRolePerms(es \cup fs)
BY DEF permissionViolations, Unless, PermissionsFromPB, validateCustomRolePerms

(* The tables of statuses that several handlers have.                      *)
LEMMA NothingNamed ==
  ASSUME NEW m, NEW b, NEW v, NEW e \in MayReturn({})
  PROVE  Explained(m, b, Answer(v, TRUE, e, <<>>), e)
<1>1. DOMAIN <<>> = {}
  OBVIOUS
<1>2. QED BY <1>1, Named DEF MayReturn

LEMMA NotFoundNamed ==
  ASSUME NEW m, NEW b, NEW v, NEW e \in MayReturn({"notFound"})
  PROVE  Explained(m, b, Answer(v, TRUE, e, [notFound |-> "NotFound"]), e)
<1> DEFINE statuses == [notFound |-> "NotFound"]
<1>1. DOMAIN statuses = {"notFound"} /\ \A x \in DOMAIN statuses : statuses[x] \in Codes
  BY DEF Codes
<1> HIDE DEF statuses
<1>2. Explained(m, b, Answer(v, TRUE, e, statuses), e)
  BY <1>1, Named DEF MayReturn
<1>3. QED BY <1>2 DEF statuses

(* The handlers of each service.                                           *)
LEMMA AuthAnswers ==
  ASSUME NEW m \in AuthService, NEW b, NEW s, NEW e \in Returns(m, s, b),
         m = "GetAuthContext" => s.project # NoProject
  PROVE  Explained(m, b, Serve(m, b, e), e)
<1>1. CASE m = "RequestMagicLink"
  <2>1. Serve(m, b, e) = RequestMagicLink(b, e) /\ e \in MayReturn({})
    BY <1>1, ServedBy DEF AuthService, AuthServer, AuthCore
  <2>2. QED BY <2>1, NothingNamed DEF RequestMagicLink
<1>2. CASE m = "VerifyMagicLink"
  <2>1. Serve(m, b, e) = VerifyMagicLink(b, e) /\ e \in MayReturn({"tokenInvalid"})
    BY <1>2, ServedBy DEF AuthService, AuthServer, AuthCore, TokenOperation
  <2> DEFINE statuses == [tokenInvalid |-> "Unauthenticated"]
  <2>2. /\ DOMAIN statuses = {"tokenInvalid"}
        /\ \A x \in DOMAIN statuses : statuses[x] \in Codes
    BY DEF Codes
  <2>3. VerifyMagicLink(b, e) = Answer(validVerifyMagicLink(b), TRUE, e, statuses)
    BY DEF VerifyMagicLink
  <2> HIDE DEF statuses
  <2>4. QED BY <2>1, <2>2, <2>3, Named DEF MayReturn
<1>3. CASE m = "RefreshAccessToken"
  <2>1. Serve(m, b, e) = RefreshAccessToken(b, e) /\ e \in MayReturn({"tokenInvalid"})
    BY <1>3, ServedBy DEF AuthService, AuthServer, AuthCore, TokenOperation
  <2> DEFINE statuses == [tokenInvalid |-> "Unauthenticated"]
  <2>2. /\ DOMAIN statuses = {"tokenInvalid"}
        /\ \A x \in DOMAIN statuses : statuses[x] \in Codes
    BY DEF Codes
  <2>3. RefreshAccessToken(b, e) = Answer(validRefreshToken(b), TRUE, e, statuses)
    BY DEF RefreshAccessToken
  <2> HIDE DEF statuses
  <2>4. QED BY <2>1, <2>2, <2>3, Named DEF MayReturn
<1>4. CASE m = "RevokeRefreshToken"
  <2>1. Serve(m, b, e) = RevokeRefreshToken(b, e) /\ e \in MayReturn({"tokenInvalid"})
    BY <1>4, ServedBy DEF AuthService, AuthServer, AuthCore, TokenOperation
  <2> DEFINE statuses == [tokenInvalid |-> "NotFound"]
  <2>2. /\ DOMAIN statuses = {"tokenInvalid"}
        /\ \A x \in DOMAIN statuses : statuses[x] \in Codes
    BY DEF Codes
  <2>3. RevokeRefreshToken(b, e) = Answer(validRefreshToken(b), TRUE, e, statuses)
    BY DEF RevokeRefreshToken
  <2> HIDE DEF statuses
  <2>4. QED BY <2>1, <2>2, <2>3, Named DEF MayReturn
<1>5. CASE m = "RevokeAllSessions"
  <2>1. Serve(m, b, e) = RevokeAllSessions(b, e) /\ e \in MayReturn({})
    BY <1>5, ServedBy DEF AuthService, AuthServer, AuthCore
  <2>2. QED BY <2>1, NothingNamed DEF RevokeAllSessions
<1>6. CASE m = "GetAuthContext"
  <2>1. Serve(m, b, e) = GetAuthContext(b, e) /\ e \in AuthContext(s)
    BY <1>6, ServedBy DEF AuthService, AuthServer, AuthCore
  <2>2. e \in MayReturn({"notFound"})
    BY <1>6, <2>1 DEF AuthContext, InProject
  <2>3. QED BY <2>1, <2>2, NotFoundNamed DEF GetAuthContext
<1>7. QED BY <1>1, <1>2, <1>3, <1>4, <1>5, <1>6 DEF AuthService

LEMMA OrgAnswers ==
  ASSUME NEW m \in OrgService, NEW b, NEW s, NEW e \in Returns(m, s, b),
         s.project # NoProject
  PROVE  Explained(m, b, Serve(m, b, e), e)
<1>1. CASE m = "CreateOrganization"
  <2>1. Serve(m, b, e) = CreateOrganization(b, e) /\ e \in CoreCreateOrganization(b)
    BY <1>1, ServedBy DEF OrgService, OrgServer, OrganizationCore
  <2> DEFINE statuses ==
           [validation |-> "InvalidArgument",
            alreadyExists |-> "AlreadyExists",
            controlProjectNameConflict |-> "InvalidArgument",
            notFound |-> "NotFound"]
  <2>2. /\ DOMAIN statuses = {"validation", "alreadyExists",
            "controlProjectNameConflict", "notFound"}
        /\ \A x \in DOMAIN statuses : statuses[x] \in Codes
    BY DEF Codes
  <2>3. CreateOrganization(b, e) = Answer(validCreateOrganization(b), TRUE, e, statuses)
    BY DEF CreateOrganization
  <2> HIDE DEF statuses
  <2>4. \/ e = "validation" /\ ~CreateOrganizationValidate(b)
        \/ e \in {"none", "failure"} \/ (e \in DOMAIN statuses /\ e # "validation")
    BY <2>1, <2>2 DEF CoreCreateOrganization, Validated, MayReturn
  <2>5. validCreateOrganization(b) = {} => CreateOrganizationValidate(b)
    BY DEF validCreateOrganization, trimmedName, Unless, CreateOrganizationValidate
  <2>6. QED BY <2>1, <2>2, <2>3, <2>4, <2>5, Named DEF MayReturn
<1>2. CASE m = "CreateOrganizationUser"
  <2>1. /\ Serve(m, b, e) = CreateOrganizationUser(b, e)
        /\ e \in CoreCreateOrganizationUser(s, b)
    BY <1>2, ServedBy DEF OrgService, OrgServer, OrganizationCore
  <2> DEFINE statuses == [validation |-> "InvalidArgument"]
  <2>2. /\ DOMAIN statuses = {"validation"}
        /\ \A x \in DOMAIN statuses : statuses[x] \in Codes
    BY DEF Codes
  <2>3. CreateOrganizationUser(b, e) =
          Answer(validCreateOrganizationUser(b), TRUE, e, statuses)
    BY DEF CreateOrganizationUser
  <2> HIDE DEF statuses
  <2>4. \/ e = "validation" /\ ~CreateOrganizationUserValidate(b)
        \/ e \in {"none", "failure"} \/ (e \in DOMAIN statuses /\ e # "validation")
    BY <2>1, <2>2 DEF CoreCreateOrganizationUser, InProject, Validated, MayReturn
  <2>5. validCreateOrganizationUser(b) = {} => CreateOrganizationUserValidate(b)
    BY DEF validCreateOrganizationUser, Unless, CreateOrganizationUserValidate
  <2>6. QED BY <2>1, <2>2, <2>3, <2>4, <2>5, Named DEF MayReturn
<1>3. CASE m = "ListOrganizationUsers"
  <2>1. Serve(m, b, e) = ListOrganizationUsers(b, e) /\ e \in OrganizationUsers(s)
    BY <1>3, ServedBy DEF OrgService, OrgServer, OrganizationCore
  <2>2. e \in MayReturn({"notFound"})
    BY <2>1 DEF OrganizationUsers, InProject
  <2>3. QED BY <2>1, <2>2, NotFoundNamed DEF ListOrganizationUsers
<1>4. QED BY <1>1, <1>2, <1>3 DEF OrgService

LEMMA PermissionAnswers ==
  ASSUME NEW m \in PermissionService, NEW b, NEW s, NEW e \in Returns(m, s, b)
  PROVE  Explained(m, b, Serve(m, b, e), e)
<1>1. CASE m = "ListPermissions"
  <2>1. Serve(m, b, e) = ListPermissions(b, e) /\ e \in MayReturn({})
    BY <1>1, ServedBy DEF PermissionService, PermissionServer, MayReturn
  <2>2. QED BY <2>1, NothingNamed DEF ListPermissions
<1>2. QED BY <1>1 DEF PermissionService

LEMMA ProjectAnswers ==
  ASSUME NEW m \in ProjectService, NEW b, NEW s, NEW e \in Returns(m, s, b)
  PROVE  Explained(m, b, Serve(m, b, e), e)
<1>1. CASE m = "ListProjects"
  <2>1. Serve(m, b, e) = ListProjects(b, e) /\ e \in MayReturn({"notFound"})
    BY <1>1, ServedBy DEF ProjectService, ProjectServer, AccessibleProjects
  <2>2. QED BY <2>1, NotFoundNamed DEF ListProjects
<1>2. QED BY <1>1 DEF ProjectService

LEMMA RoleAnswers ==
  ASSUME NEW m \in RoleService, NEW b, NEW s, NEW e \in Returns(m, s, b),
         s.project # NoProject
  PROVE  Explained(m, b, Serve(m, b, e), e)
<1>1. CASE m = "CreateRole"
  <2>1. Serve(m, b, e) = CreateRole(b, e) /\ e \in CreateCustomRole(s, b)
    BY <1>1, ServedBy DEF RoleService, RoleServer, CustomRoleCore
  <2> DEFINE statuses ==
           [validation |-> "InvalidArgument",
            alreadyExists |-> "InvalidArgument",
            permissionDenied |-> "PermissionDenied",
            notFound |-> "NotFound"]
  <2>2. /\ DOMAIN statuses = {"validation", "alreadyExists", "permissionDenied",
            "notFound"}
        /\ \A x \in DOMAIN statuses : statuses[x] \in Codes
    BY DEF Codes
  <2>3. CreateRole(b, e) =
          Answer(validCreateRole(b), PermissionsFromPB(b.perms).ok, e, statuses)
    BY DEF CreateRole
  <2> HIDE DEF statuses
  <2>4. \/ e = "validation" /\ ~CreateCustomRoleValidate(b)
        \/ e \in {"none", "failure"} \/ (e \in DOMAIN statuses /\ e # "validation")
    BY <2>1, <2>2 DEF CreateCustomRole, InProject, Validated, MayReturn
  <2>5. validCreateRole(b) = {} =>
          CreateCustomRoleValidate(b) /\ PermissionsFromPB(b.perms).ok
    BY AcceptedPermissions
       DEF validCreateRole, trimmedName, Unless, CreateCustomRoleValidate
  <2>6. PermissionsFromPB(b.perms).ok \in BOOLEAN
    BY DEF PermissionsFromPB
  <2>7. QED BY <2>1, <2>2, <2>3, <2>4, <2>5, <2>6, Named DEF MayReturn
<1>2. CASE m = "GetRole"
  <2>1. Serve(m, b, e) = GetRole(b, e) /\ e \in CustomRoleByID(s)
    BY <1>2, ServedBy DEF RoleService, RoleServer, CustomRoleCore
  <2>2. e \in MayReturn({"notFound"})
    BY <2>1 DEF CustomRoleByID, InProject
  <2>3. QED BY <2>1, <2>2, NotFoundNamed DEF GetRole
<1>3. CASE m = "ListRoles"
  <2>1. Serve(m, b, e) = ListRoles(b, e) /\ e \in CustomRoles(s)
    BY <1>3, ServedBy DEF RoleService, RoleServer, CustomRoleCore
  <2>2. e \in MayReturn({})
    BY <2>1 DEF CustomRoles, InProject
  <2>3. QED BY <2>1, <2>2, NothingNamed DEF ListRoles
<1>4. CASE m = "ListProjectRoleAssignments"
  <2>1. Serve(m, b, e) = ListProjectRoleAssignments(b, e) /\ e \in UserProjectCustomRoles(s)
    BY <1>4, ServedBy DEF RoleService, RoleServer, CustomRoleCore
  <2>2. e \in MayReturn({"notFound"})
    BY <2>1 DEF UserProjectCustomRoles, InProject
  <2>3. QED BY <2>1, <2>2, NotFoundNamed DEF ListProjectRoleAssignments
<1>5. CASE m = "ListOrganizationRoleAssignments"
  <2>1. /\ Serve(m, b, e) = ListOrganizationRoleAssignments(b, e)
        /\ e \in UserOrgCustomRoles(s)
    BY <1>5, ServedBy DEF RoleService, RoleServer, CustomRoleCore
  <2>2. e \in MayReturn({"notFound"})
    BY <2>1 DEF UserOrgCustomRoles, InProject
  <2>3. QED BY <2>1, <2>2, NotFoundNamed DEF ListOrganizationRoleAssignments
<1>6. CASE m = "UpdateRole"
  <2>1. Serve(m, b, e) = UpdateRole(b, e) /\ e \in UpdateCustomRole(s, b)
    BY <1>6, ServedBy DEF RoleService, RoleServer, CustomRoleCore
  <2> DEFINE statuses ==
           [notFound |-> "NotFound",
            validation |-> "InvalidArgument",
            alreadyExists |-> "InvalidArgument",
            etagMismatch |-> "Aborted",
            permissionDenied |-> "PermissionDenied",
            managedRole |-> "FailedPrecondition",
            invalidAssignmentScope |-> "FailedPrecondition"]
  <2>2. /\ DOMAIN statuses = {"notFound", "validation", "alreadyExists",
            "etagMismatch", "permissionDenied", "managedRole",
            "invalidAssignmentScope"}
        /\ \A x \in DOMAIN statuses : statuses[x] \in Codes
    BY DEF Codes
  <2>3. UpdateRole(b, e) =
          Answer(validUpdateRole(b), PermissionsFromPB(b.perms).ok, e, statuses)
    BY DEF UpdateRole
  <2> HIDE DEF statuses
  <2>4. \/ e = "validation" /\ ~UpdateCustomRoleValidate(b)
        \/ e \in {"none", "failure"} \/ (e \in DOMAIN statuses /\ e # "validation")
    BY <2>1, <2>2 DEF UpdateCustomRole, InProject, Validated, MayReturn
  <2>5. validUpdateRole(b) = {} =>
          /\ "permissions" \in b.mask => PermissionsFromPB(b.perms).ok
          /\ UpdateCustomRoleValidate(b) \/ b.etag = "nil"
    BY AcceptedPermissions
       DEF validUpdateRole, trimmedName, Unless, UpdateCustomRoleValidate
  <2>6. PermissionsFromPB(b.perms).ok \in BOOLEAN
    BY DEF PermissionsFromPB
  <2>7. QED BY <1>6, <2>1, <2>2, <2>3, <2>4, <2>5, <2>6, Named DEF MayReturn
<1>7. CASE m = "ModifyRolePermissions"
  <2>1. /\ Serve(m, b, e) = ModifyRolePermissions(b, e)
        /\ e \in CoreModifyRolePermissions(s, b)
    BY <1>7, ServedBy DEF RoleService, RoleServer, CustomRoleCore
  <2> DEFINE statuses ==
           [notFound |-> "NotFound",
            validation |-> "InvalidArgument",
            etagMismatch |-> "Aborted",
            permissionDenied |-> "PermissionDenied",
            managedRole |-> "FailedPrecondition",
            invalidAssignmentScope |-> "FailedPrecondition"]
  <2>2. /\ DOMAIN statuses = {"notFound", "validation", "etagMismatch",
            "permissionDenied", "managedRole",
            "invalidAssignmentScope"}
        /\ \A x \in DOMAIN statuses : statuses[x] \in Codes
    BY DEF Codes
  <2>3. ModifyRolePermissions(b, e) =
          Answer(validModifyRolePermissions(b), PermissionsFromPB(b.add \cup b.remove).ok,
                 e, statuses)
    BY DEF ModifyRolePermissions
  <2> HIDE DEF statuses
  <2>4. \/ e = "validation" /\ ~ModifyCustomRolePermissionsValidate(b)
        \/ e \in {"none", "failure"} \/ (e \in DOMAIN statuses /\ e # "validation")
    BY <2>1, <2>2 DEF CoreModifyRolePermissions, InProject, Validated, MayReturn
  <2>5. validModifyRolePermissions(b) = {} =>
          /\ PermissionsFromPB(b.add \cup b.remove).ok
          /\ ModifyCustomRolePermissionsValidate(b) \/ b.etag = "nil"
    BY AcceptedChanges
       DEF validModifyRolePermissions, Unless, ModifyCustomRolePermissionsValidate
  <2>6. PermissionsFromPB(b.add \cup b.remove).ok \in BOOLEAN
    BY DEF PermissionsFromPB
  <2>7. QED BY <2>1, <2>2, <2>3, <2>4, <2>5, <2>6, Named DEF MayReturn
<1>8. CASE m = "DeleteRole"
  <2>1. Serve(m, b, e) = DeleteRole(b, e) /\ e \in DeleteCustomRole(s)
    BY <1>8, ServedBy DEF RoleService, RoleServer, CustomRoleCore
  <2> DEFINE statuses ==
           [notFound |-> "NotFound",
            permissionDenied |-> "PermissionDenied",
            managedRole |-> "FailedPrecondition"]
  <2>2. /\ DOMAIN statuses = {"notFound", "permissionDenied", "managedRole"}
        /\ \A x \in DOMAIN statuses : statuses[x] \in Codes
    BY DEF Codes
  <2>3. DeleteRole(b, e) = Answer(validRole(b), TRUE, e, statuses)
    BY DEF DeleteRole
  <2> HIDE DEF statuses
  <2>4. e \in MayReturn({"notFound", "managedRole", "permissionDenied"})
    BY <2>1 DEF DeleteCustomRole, InProject
  <2>5. QED BY <2>1, <2>2, <2>3, <2>4, Named DEF MayReturn
<1>9. CASE m = "AssignRoleToProject"
  <2>1. Serve(m, b, e) = AssignRoleToProject(b, e) /\ e \in AssignCustomRoleToProject(s)
    BY <1>9, ServedBy DEF RoleService, RoleServer, CustomRoleCore
  <2> DEFINE statuses ==
           [notFound |-> "NotFound",
            alreadyExists |-> "AlreadyExists",
            permissionDenied |-> "PermissionDenied",
            invalidAssignmentScope |-> "FailedPrecondition"]
  <2>2. /\ DOMAIN statuses = {"notFound", "alreadyExists", "permissionDenied",
            "invalidAssignmentScope"}
        /\ \A x \in DOMAIN statuses : statuses[x] \in Codes
    BY DEF Codes
  <2>3. AssignRoleToProject(b, e) = Answer(validRoleAssignment(b), TRUE, e, statuses)
    BY DEF AssignRoleToProject
  <2> HIDE DEF statuses
  <2>4. e \in {"none", "failure"} \/ (e \in DOMAIN statuses /\ e # "validation")
    BY <2>1, <2>2 DEF AssignCustomRoleToProject, InProject, MayReturn
  <2>5. QED BY <2>1, <2>2, <2>3, <2>4, Named DEF MayReturn
<1>10. CASE m = "UnassignRoleFromProject"
  <2>1. /\ Serve(m, b, e) = UnassignRoleFromProject(b, e)
        /\ e \in UnassignCustomRoleFromProject(s)
    BY <1>10, ServedBy DEF RoleService, RoleServer, CustomRoleCore
  <2> DEFINE statuses ==
           [notFound |-> "NotFound",
            permissionDenied |-> "PermissionDenied"]
  <2>2. /\ DOMAIN statuses = {"notFound", "permissionDenied"}
        /\ \A x \in DOMAIN statuses : statuses[x] \in Codes
    BY DEF Codes
  <2>3. UnassignRoleFromProject(b, e) =
          Answer(validRoleAssignment(b), TRUE, e, statuses)
    BY DEF UnassignRoleFromProject
  <2> HIDE DEF statuses
  <2>4. e \in MayReturn({"notFound", "permissionDenied"})
    BY <2>1 DEF UnassignCustomRoleFromProject, InProject
  <2>5. QED BY <2>1, <2>2, <2>3, <2>4, Named DEF MayReturn
<1>11. CASE m = "AssignRoleToOrganization"
  <2>1. Serve(m, b, e) = AssignRoleToOrganization(b, e) /\ e \in AssignCustomRoleToOrg(s)
    BY <1>11, ServedBy DEF RoleService, RoleServer, CustomRoleCore
  <2> DEFINE statuses ==
           [notFound |-> "NotFound",
            alreadyExists |-> "AlreadyExists",
            permissionDenied |-> "PermissionDenied"]
  <2>2. /\ DOMAIN statuses = {"notFound", "alreadyExists", "permissionDenied"}
        /\ \A x \in DOMAIN statuses : statuses[x] \in Codes
    BY DEF Codes
  <2>3. AssignRoleToOrganization(b, e) =
          Answer(validRoleAssignment(b), TRUE, e, statuses)
    BY DEF AssignRoleToOrganization
  <2> HIDE DEF statuses
  <2>4. e \in MayReturn({"notFound", "permissionDenied", "alreadyExists"})
    BY <2>1 DEF AssignCustomRoleToOrg, InProject
  <2>5. QED BY <2>1, <2>2, <2>3, <2>4, Named DEF MayReturn
<1>12. CASE m = "UnassignRoleFromOrganization"
  <2>1. /\ Serve(m, b, e) = UnassignRoleFromOrganization(b, e)
        /\ e \in UnassignCustomRoleFromOrg(s)
    BY <1>12, ServedBy DEF RoleService, RoleServer, CustomRoleCore
  <2> DEFINE statuses ==
           [notFound |-> "NotFound",
            permissionDenied |-> "PermissionDenied"]
  <2>2. /\ DOMAIN statuses = {"notFound", "permissionDenied"}
        /\ \A x \in DOMAIN statuses : statuses[x] \in Codes
    BY DEF Codes
  <2>3. UnassignRoleFromOrganization(b, e) =
          Answer(validRoleAssignment(b), TRUE, e, statuses)
    BY DEF UnassignRoleFromOrganization
  <2> HIDE DEF statuses
  <2>4. e \in MayReturn({"notFound", "permissionDenied"})
    BY <2>1 DEF UnassignCustomRoleFromOrg, InProject
  <2>5. QED BY <2>1, <2>2, <2>3, <2>4, Named DEF MayReturn
<1>13. QED BY <1>1, <1>2, <1>3, <1>4, <1>5, <1>6, <1>7, <1>8, <1>9,
          <1>10, <1>11, <1>12 DEF RoleService

LEMMA SystemRoleAnswers ==
  ASSUME NEW m \in SystemRoleService, NEW b, NEW s, NEW e \in Returns(m, s, b)
  PROVE  Explained(m, b, Serve(m, b, e), e)
<1>1. CASE m = "ListSystemRoles"
  <2>1. Serve(m, b, e) = ListSystemRoles(b, e) /\ e \in MayReturn({})
    BY <1>1, ServedBy DEF SystemRoleService, SystemRoleServer, SystemRoleCore,
       SystemRoles
  <2>2. QED BY <2>1, NothingNamed DEF ListSystemRoles
<1>2. CASE m = "AssignSystemRole"
  <2>1. /\ Serve(m, b, e) = AssignSystemRole(b, e)
        /\ e \in MayReturn({"notFound", "permissionDenied", "alreadyExists"})
    BY <1>2, ServedBy DEF SystemRoleService, SystemRoleServer, SystemRoleCore,
       CoreAssignSystemRole
  <2> DEFINE statuses ==
           [notFound |-> "NotFound",
            permissionDenied |-> "PermissionDenied",
            alreadyExists |-> "AlreadyExists"]
  <2>2. /\ DOMAIN statuses = {"notFound", "permissionDenied", "alreadyExists"}
        /\ \A x \in DOMAIN statuses : statuses[x] \in Codes
    BY DEF Codes
  <2>3. AssignSystemRole(b, e) = Answer(validSystemRoleAssignment(b), TRUE, e, statuses)
    BY DEF AssignSystemRole
  <2> HIDE DEF statuses
  <2>4. QED BY <2>1, <2>2, <2>3, Named DEF MayReturn
<1>3. CASE m = "UnassignSystemRole"
  <2>1. Serve(m, b, e) = UnassignSystemRole(b, e) /\ e \in CoreUnassignSystemRole
    BY <1>3, ServedBy DEF SystemRoleService, SystemRoleServer, SystemRoleCore
  <2> DEFINE statuses ==
           [notFound |-> "NotFound",
            permissionDenied |-> "PermissionDenied",
            lastFullyPrivilegedSystemAdmin |-> "FailedPrecondition"]
  <2>2. /\ DOMAIN statuses = {"notFound", "permissionDenied",
            "lastFullyPrivilegedSystemAdmin"}
        /\ \A x \in DOMAIN statuses : statuses[x] \in Codes
    BY DEF Codes
  <2>3. UnassignSystemRole(b, e) =
          Answer(validSystemRoleAssignment(b), TRUE, e, statuses)
    BY DEF UnassignSystemRole
  <2> HIDE DEF statuses
  <2>4. e \in {"none", "failure"} \/ (e \in DOMAIN statuses /\ e # "validation")
    BY <2>1, <2>2 DEF CoreUnassignSystemRole, MayReturn
  <2>5. QED BY <2>1, <2>2, <2>3, <2>4, Named DEF MayReturn
<1>4. CASE m = "ListSystemRoleAssignments"
  <2>1. Serve(m, b, e) = ListSystemRoleAssignments(b, e) /\ e \in MayReturn({"notFound"})
    BY <1>4, ServedBy DEF SystemRoleService, SystemRoleServer, SystemRoleCore,
       UserSystemRoles
  <2>2. QED BY <2>1, NotFoundNamed DEF ListSystemRoleAssignments
<1>5. QED BY <1>1, <1>2, <1>3, <1>4 DEF SystemRoleService

LEMMA UserAnswers ==
  ASSUME NEW m \in UserService, NEW b, NEW s, NEW e \in Returns(m, s, b)
  PROVE  Explained(m, b, Serve(m, b, e), e)
<1>1. CASE m = "GetUser"
  <2>1. Serve(m, b, e) = GetUser(b, e) /\ e \in MayReturn({"notFound"})
    BY <1>1, ServedBy DEF UserService, UserServer, UserCore, UserByID
  <2>2. QED BY <2>1, NotFoundNamed DEF GetUser
<1>2. CASE m = "ListUsers"
  <2>1. Serve(m, b, e) = ListUsers(b, e) /\ e \in MayReturn({})
    BY <1>2, ServedBy DEF UserService, UserServer, UserCore, CoreUsers
  <2>2. QED BY <2>1, NothingNamed DEF ListUsers
<1>3. CASE m = "CreateUser"
  <2>1. Serve(m, b, e) = CreateUser(b, e) /\ e \in CoreCreateUser(b)
    BY <1>3, ServedBy DEF UserService, UserServer, UserCore
  <2> DEFINE statuses == [alreadyExists |-> "InvalidArgument"]
  <2>2. /\ DOMAIN statuses = {"alreadyExists"}
        /\ \A x \in DOMAIN statuses : statuses[x] \in Codes
    BY DEF Codes
  <2>3. CreateUser(b, e) = Answer(validCreateUser(b), TRUE, e, statuses)
    BY DEF CreateUser
  <2> HIDE DEF statuses
  <2>4. \/ e = "validation" /\ ~CreateUserValidate(b)
        \/ e \in {"none", "failure"} \/ (e \in DOMAIN statuses /\ e # "validation")
    BY <2>1, <2>2 DEF CoreCreateUser, Validated, MayReturn
  <2>5. validCreateUser(b) = {} => CreateUserValidate(b)
    BY DEF validCreateUser, Unless, CreateUserValidate
  <2>6. QED BY <2>1, <2>2, <2>3, <2>4, <2>5, Named DEF MayReturn
<1>4. CASE m = "UpdateUser"
  <2>1. Serve(m, b, e) = UpdateUser(b, e) /\ e \in CoreUpdateUser(b)
    BY <1>4, ServedBy DEF UserService, UserServer, UserCore
  <2> DEFINE statuses ==
           [notFound |-> "NotFound", etagMismatch |-> "Aborted"]
  <2>2. /\ DOMAIN statuses = {"notFound", "etagMismatch"}
        /\ \A x \in DOMAIN statuses : statuses[x] \in Codes
    BY DEF Codes
  <2>3. UpdateUser(b, e) = Answer(validUpdateUser(b), TRUE, e, statuses)
    BY DEF UpdateUser
  <2> HIDE DEF statuses
  <2>4. \/ e = "validation" /\ ~UpdateUserValidate(b)
        \/ e \in {"none", "failure"} \/ (e \in DOMAIN statuses /\ e # "validation")
    BY <2>1, <2>2 DEF CoreUpdateUser, Validated, MayReturn
  <2>5. validUpdateUser(b) = {} => UpdateUserValidate(b) \/ b.etag = "nil"
    BY DEF validUpdateUser, Unless, UpdateUserValidate
  <2>6. QED BY <2>1, <2>2, <2>3, <2>4, <2>5, Named DEF MayReturn
<1>5. QED BY <1>1, <1>2, <1>3, <1>4 DEF UserService

(* Every answer of a handler is explained. *)
LEMMA Answers ==
  ASSUME NEW m \in Methods, NEW b, NEW s, NEW e \in Returns(m, s, b),
         m \notin noProjectMethods \cup publicMethods => s.project # NoProject
  PROVE  Explained(m, b, Serve(m, b, e), e)
<1>1. CASE m \in AuthService
  <2>1. "GetAuthContext" \notin noProjectMethods \cup publicMethods
    BY DEF noProjectMethods, UserService, publicMethods
  <2>2. QED BY <1>1, <2>1, AuthAnswers
<1>2. CASE m \in OrgService
  <2>1. m \notin noProjectMethods \cup publicMethods
    BY <1>2 DEF OrgService, noProjectMethods, UserService, publicMethods
  <2>2. QED BY <1>2, <2>1, OrgAnswers
<1>3. CASE m \in RoleService
  <2>1. m \notin noProjectMethods \cup publicMethods
    BY <1>3 DEF RoleService, noProjectMethods, UserService, publicMethods
  <2>2. QED BY <1>3, <2>1, RoleAnswers
<1>4. QED BY <1>1, <1>2, <1>3, PermissionAnswers, ProjectAnswers, SystemRoleAnswers,
            UserAnswers DEF Methods
-----------------------------------------------------------------------------
(* What runs as a workflow has a valid request, so that it ends or fails.  *)
Settled == \A w \in workflows : w.answer \in {"OK", "failure"}

Told == Settled /\ FailuresAreNamed /\ LayersAgree

LEMMA OneOfFour == \A i \in 1 .. 4 : i = 1 \/ i = 2 \/ i = 3 \/ i = 4
OBVIOUS

(* A refusal is that of one of the checks. *)
LEMMA RefusalOfOne ==
  ASSUME NEW c, NEW s, Refusal(c, s) # ""
  PROVE  Refusal(c, s) \in {permissionInterceptor(c.method, s),
                            requireSystemControlProject(c.method, s),
                            requireOrganizationControlProject(c.method, s),
                            idempotencyInterceptor(c)}
<1> DEFINE chain == <<permissionInterceptor(c.method, s),
                      requireSystemControlProject(c.method, s),
                      requireOrganizationControlProject(c.method, s),
                      idempotencyInterceptor(c)>>
           refused == {i \in DOMAIN chain : chain[i] # ""}
<1>1. Refusal(c, s) = IF refused = {} THEN "" ELSE chain[Min(refused)]
  BY Zenon DEF Refusal
<1>2. refused \in SUBSET (1 .. 4)
  <2>1. DOMAIN chain = 1 .. 4
    BY ChainOfFour, Zenon
  <2>2. QED BY <2>1
<1>3. /\ chain[1] = permissionInterceptor(c.method, s)
      /\ chain[2] = requireSystemControlProject(c.method, s)
      /\ chain[3] = requireOrganizationControlProject(c.method, s)
      /\ chain[4] = idempotencyInterceptor(c)
  OBVIOUS
<1> HIDE DEF chain, refused
<1>4. Min(refused) \in 1 .. 4 /\ Refusal(c, s) = chain[Min(refused)]
  BY <1>1, <1>2, MinOfChain
<1>5. QED BY <1>3, <1>4, OneOfFour

(* A call is refused by name, unless no permission is registered for it,   *)
(* as for reflection: the project that a check needs has been resolved.    *)
LEMMA RefusalIsNamed ==
  ASSUME IInv, Own, stage = "checks", Refusal(call, session) # ""
  PROVE  \/ Refusal(call, session) \in {"PermissionDenied", "InvalidArgument"}
         \/ Refusal(call, session) = "unregistered" /\ asked \in Reflection
<1>1. call.method \in Methods \cup Reflection /\ call.method = asked
  BY DEF IInv, Shapes, Own, Meant, Underway
<1>2. \/ permissionInterceptor(call.method, session) \in {"", "PermissionDenied"}
      \/ /\ permissionInterceptor(call.method, session) = "unregistered"
         /\ asked \in Reflection
  BY <1>1, RegistryIsComplete DEF permissionInterceptor, Registered
<1>3. ASSUME call.method \in systemControlProjectMethods \cup orgControlProjectMethods
      PROVE  session.project # NoProject
  <2>1. call.method \notin publicMethods /\ call.method \notin noProjectMethods
    BY <1>3, ControlProjectMethodsNeedAProject
       DEF systemControlProjectMethods, orgControlProjectMethods, SystemRoleService,
           publicMethods
  <2>2. session.project = call.project /\ call.project \in Projects
    BY <2>1 DEF IInv, Resolved, NeedsProject
  <2>3. QED BY <2>2, GateAssumption
<1>4. requireSystemControlProject(call.method, session) \in {"", "PermissionDenied"}
  BY <1>3 DEF requireSystemControlProject
<1>5. requireOrganizationControlProject(call.method, session) \in {"", "PermissionDenied"}
  BY <1>3 DEF requireOrganizationControlProject
<1>6. idempotencyInterceptor(call) \in {"", "InvalidArgument"}
  BY DEF idempotencyInterceptor
<1>7. QED BY <1>2, <1>4, <1>5, <1>6, RefusalOfOne

LEMMA ToldReply ==
  ASSUME NEW answer, NEW cause, NEW origin, Reply(answer, cause, origin),
         UNCHANGED <<call, asked>>, Settled',
         \/ answer \in Codes \cup {"rejected", "validation"}
         \/ cause = "failure"
         \/ cause = "unregistered" /\ asked \in Reflection
         \/ /\ cause = "missing conversion"
            /\ asked = "UpdateRole" /\ "permissions" \notin call.body.mask,
         cause = "validation" => call.body.etag = "nil"
  PROVE  Told'
<1>1. reply'.code = errorInterceptor(answer) /\ reply'.cause = cause
  BY DEF Reply
<1>2. answer \in Codes \cup {"rejected", "validation"} => reply'.code # "Internal"
  BY <1>1 DEF errorInterceptor, Codes
<1>3. FailuresAreNamed' /\ LayersAgree'
  BY <1>1, <1>2 DEF FailuresAreNamed, LayersAgree
<1>4. QED BY <1>3 DEF Told

LEMMA ToldRefuse ==
  ASSUME Told, NEW answer, Refuse(answer),
         \/ answer \in {"PermissionDenied", "InvalidArgument", "Unauthenticated", "failure"}
         \/ answer = "unregistered" /\ asked \in Reflection
  PROVE  Told'
<1>1. Reply(answer, answer, call) /\ UNCHANGED <<call, asked, workflows>>
  BY DEF Refuse
<1>2. Settled'
  BY <1>1 DEF Told, Settled
<1>3. \/ answer \in Codes \/ answer = "failure"
      \/ answer = "unregistered" /\ asked \in Reflection
  BY DEF Codes
<1>4. answer # "validation"
  OBVIOUS
<1>5. QED BY <1>1, <1>2, <1>3, <1>4, ToldReply

LEMMA HandlersHaveAProject ==
  ASSUME IInv, stage = "handler"
  PROVE  /\ call.method \in Methods
         /\ call.method \notin noProjectMethods \cup publicMethods =>
              session.project # NoProject
<1>1. permissionInterceptor(call.method, session) = ""
  BY RefusalOfNone DEF IInv, Checked
<1>2. call.method \in Methods
  BY <1>1, RegistryIsComplete, MethodsAreNoReflection DEF permissionInterceptor, Registered
<1>3. QED BY <1>2, GateAssumption DEF IInv, Resolved, NeedsProject

LEMMA ToldHandle == ASSUME IInv, Own, Told, Handle PROVE Told'
<1>1. /\ UNCHANGED <<call, asked, workflows>> /\ stage = "handler" /\ call.method = asked
      /\ Settled'
  BY DEF Handle, Own, Meant, Underway, Told, Settled
<1>2. PICK e \in Returns(call.method, session, call.body) :
        Reply(Serve(call.method, call.body, e),
              Cause(Serve(call.method, call.body, e), e), call)
  BY DEF Handle
<1> DEFINE answer == Serve(call.method, call.body, e)
<1>3. Explained(call.method, call.body, answer, e)
  BY <1>1, HandlersHaveAProject, Answers
<1> HIDE DEF answer
<1>4. \/ answer \in Codes \cup {"rejected", "validation"}
      \/ Cause(answer, e) = "failure"
      \/ /\ Cause(answer, e) = "missing conversion"
         /\ asked = "UpdateRole" /\ "permissions" \notin call.body.mask
  BY <1>1, <1>3 DEF Explained, Cause
<1>5. Cause(answer, e) = "validation" => call.body.etag = "nil"
  BY <1>3 DEF Explained, Cause
<1>6. QED BY <1>1, <1>2, <1>4, <1>5, ToldReply DEF answer

LEMMA ToldHandleWorkflow == ASSUME Told, HandleWorkflow PROVE Told'
<1> DEFINE id == scopedWorkflowID(call, session)
<1>1. UNCHANGED <<call, asked>>
  BY DEF HandleWorkflow
<1>2. ASSUME NEW e \in Returns(call.method, session, call.body)
      PROVE  Serve(call.method, call.body, e) \in {"OK", "failure"}
  <2>1. call.method = "RequestMagicLink" /\ validRequestMagicLink(call.body) = {}
    BY DEF HandleWorkflow
  <2>2. /\ Serve(call.method, call.body, e) = RequestMagicLink(call.body, e)
        /\ e \in MayReturn({})
    BY <1>2, <2>1, ServedBy DEF AuthService, AuthServer, AuthCore
  <2>3. QED BY <2>1, <2>2 DEF RequestMagicLink, Answer, MayReturn
<1>3. ASSUME NEW answer \in {"OK", "failure"}, NEW origin, Reply(answer, answer, origin),
             \/ UNCHANGED workflows
             \/ workflows' = workflows \cup {[id |-> id, call |-> call, answer |-> answer]}
      PROVE  Told'
  <2>1. Settled'
    BY <1>3 DEF Told, Settled
  <2>2. answer \in Codes \/ answer = "failure"
    BY <1>3 DEF Codes
  <2>3. answer # "validation"
    BY <1>3
  <2>4. QED BY <1>1, <1>3, <2>1, <2>2, <2>3, ToldReply
<1>4. CASE UNCHANGED workflows /\ \E w \in Recorded(id) : Reply(w.answer, w.answer, w.call)
  <2>1. \A w \in Recorded(id) : w.answer \in {"OK", "failure"}
    BY DEF Recorded, Told, Settled
  <2>2. QED BY <1>3, <1>4, <2>1
<1>5. CASE \E e \in Returns(call.method, session, call.body) :
             LET answer == Serve(call.method, call.body, e)
             IN /\ Reply(answer, answer, call)
                /\ \/ UNCHANGED workflows
                   \/ workflows' = workflows
                        \cup {[id |-> id, call |-> call, answer |-> answer]}
  BY <1>2, <1>3, <1>5, Zenon
<1>6. QED BY <1>4, <1>5, Zenon DEF HandleWorkflow

LEMMA ToldStep == ASSUME IInv, Own, Told, [GateNext]_gateVars PROVE Told'
<1>1. CASE UNCHANGED <<call, asked, workflows, reply>>
  BY <1>1 DEF Told, Settled, FailuresAreNamed, LayersAgree
<1>2. CASE UNCHANGED workflows /\ reply' = NoReply
  BY <1>2 DEF Told, Settled, FailuresAreNamed, LayersAgree, NoReply
<1>3. CASE \E c \in Traffic : Arrive(c)
  BY <1>2, <1>3 DEF Arrive
<1>4. CASE Forget
  BY <1>2, <1>4 DEF Forget
<1>5. CASE RejectHeaders \/ RejectCaller \/ FailSession
  BY <1>5, ToldRefuse DEF RejectHeaders, RejectCaller, FailSession, parseHeaders
<1>6. CASE Deny
  BY <1>6, RefusalIsNamed, ToldRefuse DEF Deny
<1>7. CASE Authenticate \/ ResolvePermissions \/ Admit \/ UNCHANGED gateVars
  BY <1>1, <1>7 DEF Authenticate, ResolvePermissions, Admit, gateVars
<1>8. CASE \/ \E g \in Grantable : Grant(g) \/ Revoke(g)
           \/ \E u \in Users, o \in Orgs : Join(u, o)
  BY <1>1, <1>8 DEF Grant, Revoke, Join
<1>9. QED BY <1>3, <1>4, <1>5, <1>6, <1>7, <1>8, ToldHandle, ToldHandleWorkflow DEF GateNext

LEMMA Answering == GateSpec => [](Own /\ Told)
<1>1. GateInit => Own /\ Told
  BY DEF GateInit, Own, Meant, Recording, RepliesAreOwn, Underway, Told, Settled,
     FailuresAreNamed, LayersAgree, NoReply
<1>2. IInv /\ Own /\ Told /\ [GateNext]_gateVars => (Own /\ Told)'
  BY OwnStep, ToldStep
<1>3. QED BY <1>1, <1>2, Invariance, PTL DEF GateSpec

(* Whatever a client sends, an error that the core reports by name reaches *)
(* it as a status: every table of statuses is complete for its operation,  *)
(* and no check of the chain misses the project it asks for.               *)
THEOREM FailuresStayNamed == GateSpec => []FailuresAreNamed
<1>1. Told => FailuresAreNamed
  BY DEF Told
<1>2. QED BY <1>1, Answering, PTL

(* Whatever a client sends, the core's Validate methods refuse no more     *)
(* than the endpoint's validators, but for the all-zero etag.              *)
THEOREM LayersStayAgreed == GateSpec => []LayersAgree
<1>1. Told => LayersAgree
  BY DEF Told
<1>2. QED BY <1>1, Answering, PTL
=============================================================================
