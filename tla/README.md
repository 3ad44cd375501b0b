# Verification of theapp's backend

TLA+ models of the Go backend in `src/backend`, configurations that check them with TLC, and proofs
that TLAPS checks. The backend is a gRPC server over PostgreSQL: passwordless sign-in, refresh-token
sessions, organizations with projects, and role-based access control at system, organization and
project scope. Nearly all of its shared state is in PostgreSQL, so nearly all of its hard behaviour
is transactions at READ COMMITTED that interleave; the rest is one durable workflow that survives
crashes.

Paths below are relative to `src/backend/internal` unless they start with `src/`.

- [Inventory](#inventory)
- [Plan](#plan)
- [How PostgreSQL is modelled](#how-postgresql-is-modelled)
- [Modules](#modules)
- [Runs](#runs)
- [Disagreements with the documentation](#disagreements-with-the-documentation)
- [Proofs](#proofs)
- [What is not modelled](#what-is-not-modelled)

## Inventory

| Component | State | Operations | Hard behaviour | What makes it correct |
| --- | --- | --- | --- | --- |
| System roles (`core/rbac/system_role.go`, `core/pgstores/pgrbac/*system_role.go`) | `rbac.system_role_assignments` | AssignSystemRole, UnassignSystemRole, BootstrapAssignSystemRole, lists | advisory locks taken in an order; checks that must still hold at commit; racing revokes | nobody grants or revokes authority they do not hold at that moment; somebody always holds every permission; no deadlock |
| Custom roles (`core/rbac/custom_role.go`, `.../*custom_role.go`) | roles, their permissions and etags, assignments in organizations and projects | create, update, modify permissions, delete, (un)assign in a project, (un)assign in the organization | two transactions that each check the other's table; etags; a statement's snapshot against the row it waits for | role permissions and assignment scope never contradict; a stale etag changes nothing; nobody assigns more than they hold |
| Magic links (`core/auth/auth.go`, `core/pgstores/pgauth`) | `useraccess.magic_link_tokens`, `email_verified_at` | MagicLinkToken, VerifyMagicLink | look-up before the transaction, rate limit over a clock, per-user lock | one usable link per user, one session per link, links spaced out |
| Refresh sessions (same files) | `useraccess.refresh_tokens` | RefreshAccessToken, RevokeRefreshToken, RevokeAllUserRefreshTokens | racing rotation, logout during rotation, the snapshot of an UPDATE | a session is one chain, ends for good and is not lost |
| Magic-link workflow (`workflows/auth/auth.go`) | DBOS workflow and step rows, the goroutine | RequestMagicLink: store-token, send-email | crash between an effect and its record; retries with an idempotency key; recovery | what is stored is mailed; one e-mail per request; every request is answered |
| Auth sessions (`core/auth`, `core/pgstores/pgrbac/store.go`) | none of its own | AuthSession, OrganizationAuthSession, AuthContext | read before the handler, used in it | permissions at the scope the method asks for |
| Permissions and scopes (`core/mdl/permission.go`) | a closed registry | minimum assignment scope, superset | the Go and the SQL view of it | both agree |
| Organizations and projects (`core/org`, `core/pgstores/pgorg`) | organizations, projects, memberships | CreateOrganization, BootstrapOrganization, CreateProject, CreateOrganizationUser, lists | many rows in one transaction; unique names; get-or-create races | an organization has its control project, its member and its administrator, or does not exist |
| Users (`core/user`, `core/pgstores/pguser`) | `useraccess.users` | CreateUser, UpdateUser, reads | e-mail uniqueness, etags, pages of a list that changes | one account per e-mail address; a walk over the pages misses and repeats no more than changed |
| gRPC interceptors (`api/grpc/*_interceptors.go`, `server.go`) | the session in a request's context | authenticate, permission gate, control-project gates, idempotency key | order of the chain; stale session | a protected method runs only for who may call it |
| Handlers and validation (`api/grpc/*.go`, `internal/validate`, `internal/conv`) | none | 31 methods | two layers that validate, errors that must keep their names | the core rejects nothing the endpoint accepts; every named error has a status |
| HTTP gateway (`api/grpc/gateway`, `internal/pb/*.gw.go`) | a connection to the gRPC server | routes, decoding, headers | paths that differ in their last part only | a call reaches the method its client meant |
| Database access (`data/pgdb`) | the pool, the transaction in a context | RunTx, RunBatch, RunBatchTx, RunExec | nesting, who commits, a full pool | an operation commits whole or not at all; no call waits for what waiting calls hold |
| Server process (`src/backend/cmd/server/main.go`) | listeners, pool, DBOS, what is deferred | start, serve, shut down | requests, streams and workflows in flight when a part stops | what was accepted is answered, the process ends, pending workflows resume |

Interaction: an RPC passes the interceptors, which read the caller's session once; the handler calls
one core operation; the core opens a transaction with `RunTx` and calls the stores inside it, which
find the transaction in the context. `RequestMagicLink` goes through DBOS, which calls
`auth.MagicLinkToken` from a step. `core/org` calls the role store when it creates an organization.
Components share nothing but the database; there are no callbacks and no in-process caches.
Several server processes may run, which changes nothing for what is decided by rows and locks.

`PROJECT.json` lists all components, also gateway, telemetry, command line and test support, and
under "hazards" each place where the code could go wrong in a way tests hardly reach, with the
properties that would catch it.

## Plan

In order; done unless marked.

1. `SystemRoleGrants` (abstract) and `SystemRoles`; their proofs in `SystemRolesProofs`.
2. `Sessions` (abstract) and `RefreshSessions`; their proofs in `RefreshSessionsProofs`.
3. `MagicLinks`, and `MagicLinkWorkflow`, which takes `MagicLinkToken` as one step.
4. `CustomRoles`.
5. `Organizations`, with the accounts of users.
6. `Permissions`, `Validation`, `Handlers`, `Transport` and on top of them `Gate`: a call from the
   wire to its answer. `Lists`: a walk over pages. `Access`: the rows behind both.
7. `Connections` and on top of it `ServerProcess`: the pool, transactions, start-up and shutdown.
8. Proofs for the rest, one module per run: `CustomRolesProofs`, `MagicLinksProofs` (with
   `MCAuthTokens`), `OrganizationsProofs`, `GateProofs`, `ServerProofs` (with `MCServer`) and
   `ApiProofs` (`Access`, `Lists` and `MCApi`).
9. *Next:* that `MagicLinks` and `Organizations` implement specifications without locks, as
   `SystemRoles` and `RefreshSessions` do, with the refinements checked and proved.

Modules compose by EXTENDS. Of several components that share neither state nor actions, one MC module
puts the behaviours side by side: a variable `part` says whose behaviour it is, and the others keep
to their initial states. `MCAuthTokens` does so for the two kinds of token, `MCServer` for workflows
and the process, `MCApi` for `Gate`, `Lists` and `Access`.

## How PostgreSQL is modelled

All modules of database code share these conventions.

- One action is one statement of a transaction. A statement sees what is committed when it starts.
- A write is private until commit. A row that an open transaction has changed is locked (`held`);
  another statement that wants to change it waits, and then looks at the row again: at READ COMMITTED
  the WHERE clause is evaluated anew on the updated row, but rows inserted after the snapshot are not
  seen and the rest of the statement keeps to the snapshot. `RefreshSessions` keeps the rows of a
  revoke-all's snapshot (`rows`), `CustomRoles` the etag an UPDATE found in its snapshot.
- `NOW()` is the time the transaction began. `time.Now()` is the time the Go statement runs. Where
  the difference matters (`MagicLinks`, `RefreshSessions`) both are there.
- Advisory locks and `FOR UPDATE` locks are taken by an action whose guard is that nobody else holds
  the lock, and are released when the transaction ends.
- What a statement writes is merged with the commit when nothing can happen in between that anybody
  could tell: the inserted row is known to nobody and locks nothing.
- Every call can abort whenever it is open: a cancelled context, a lost connection, a deadlock
  victim, or a constraint. A commit whose acknowledgement is lost is a commit for the database.
- Calls are reusable slots (`Calls`): a client that retries is a slot that begins again.

## Modules

### SystemRoleGrants, SystemRoles

`SystemRoles` has `assigned` (the committed rows) and for each call `pc`, `req` and the advisory
locks `held`. `Begin` is RunTx with one of the three operations; `Lock` is LockSystemRoleManagement
and lockSystemRoleUsers, one lock at a time in the order of `IsNextLock` (management first, then
accounts in UUID order; an unknown account has no row and locks nothing); `Authorize` is
authorizeSystemRoleChange, `EnsureRemains` is ensureFullyPrivilegedSystemUserRemains, `Insert`,
`Delete` and `Commit` are the writes. Role names, users and UUIDs are members of small sets; a role
is its set of permissions.

`SystemRoleGrants` has no locks: a grant or revoke happens at once, if at that instant the actor holds
every permission of the role, and a revoke only if somebody fully privileged remains. `AtomicSpec` is
the refinement: `assigned` and `req` are mapped to themselves and a commit is the abstract change.

### Sessions, RefreshSessions

A session is the chain of tokens that one sign-in starts. `status`, `session` and `expired` are the
rows of `refresh_tokens`; `pc`, `old`, `fresh`, `new`, `rows`, `held` and `scope` are the open
transactions. A refresh is `BeginRefresh`, `ConsumeRefreshToken`, `CreateRefreshToken`,
`CommitRefresh`; `RevokeRefreshToken` is one statement; a revoke-all is `BeginRevokeAll` (its
snapshot), `RevokeRow` for each row once it is free, and `CommitRevokeAll`. Which sessions were
logged out or in the scope of a revoke-all is kept as history. `Sessions` says that a session goes
from none to active to ended, never back, and that one revocation ends sessions of one user only;
the mapping calls a session active when it has a live row. Expiry is not an end there: an expired
token stays unrevoked in its row.

### MagicLinks

Rows with `created`, `expires` and `used`, a clock, and the statements of MagicLinkToken
(`BeginIssue`, `LockUser`, `CheckRateLimit`, `InvalidateUserMagicLinkTokens`,
`CreateMagicLinkToken`) and of VerifyMagicLink (`MagicLinkTokenByHash` outside the transaction, then
`BeginVerify`, `ConsumeMagicLinkToken`, `CommitVerify`). A transaction stays open for at most
`TxTime`, without which no bound on the spacing of links could be stated: `created_at` is the time
its transaction began.

### MagicLinkWorkflow

The two steps of requestMagicLinkWorkflow under DBOS, which is external and modelled from its use: a
row per workflow id, a row per finished step, recovery of pending workflows at launch. What a step
does (`StoreToken`, `SendEmail`) and the row that records it (`RecordToken`, `RecordEmail`) are
different actions, and `Crash` may come between them. MagicLinkToken is one step here, with the rate
limit as the set of addresses that are `cooling`. An error that was read back from a step's row may
have lost its identity, in which case `errors.Is` does not recognise it; both outcomes are allowed.

### CustomRoles

One organization with one project. Rows: `status`, `perms` and `etag` of each role, `orgRoles` and
`projectRoles`. Each of the nine mutations of `core/rbac/custom_role.go` is a request; a call reads
the actor's permissions (`Begin`), takes LockCustomRole where the code does (`Locking`), resolves the
role and checks it (`Authorize`), checks assignments when permissions change
(`ValidateAssignmentScope`), and writes. The UPDATE of a role has a step for its snapshot
(`StartUpdate`). An update of the name alone is a single statement without checks (`BeginRename`).

### Organizations

`rows` is the set of committed rows of five tables (accounts, organizations, projects, memberships,
administrators), tagged by table; `written` holds the rows each open transaction has inserted and
`locked` the accounts whose rows it has updated. `CreateOrganization`, `CreateDefaultProject`,
`AddOrganizationMember` and `AssignAdminRole` are the statements of createOrganization, with or
without a creator; `GetOrCreateUserByEmail` and `EnsureOrganizationMember` those of
CreateOrganizationUser; `CreateUser` and `CreateProject` are single statements. `Key` is the unique
index of each table, `Lower` what lower() and strings.ToLower do to an address or a name. An insert
waits for open transactions that touch its key (`Arrives`) and then meets a conflict or not.

### Permissions, Validation, Handlers, Transport

Operators without state, one for each function of the code. `Permissions` is the registry of
`core/mdl/permission.go` with the scope each permission can be assigned at, its conversion to and
from the API's enum, and the SQL functions that resolve what a user holds from its assignments.
`Validation` has the validators of `api/grpc/internal/validate`, each the set of fields it rejects,
and the `Validate` methods of `core/mdl`. A request is a record of what either can tell apart: an id
is a UUID, all zero or malformed; a name is text, empty or padded. `Handlers` has for each core
operation the errors it may return and for each handler the status it gives to each of them, after
its own validation. `Transport` says which service has which method, which handler and core operation
serve it, which route the gateway has for it, and which fields of a request come from the body, the
query or the path; what comes from nowhere is zero. The generated code has the same four facts once
more for a gateway that calls handlers directly, which is not used.

### Gate

One call from its arrival to its answer through the interceptors of `api/grpc`, in the order of
`NewServer`: `Arrive` (through the gateway's mux when it is an HTTP call), `Authenticate`
(parseBearer, parseProjectID and AuthSessionData), `ResolvePermissions` (the second read of
AuthSession or OrganizationAuthSession), `Admit` or `Deny` (the permission gate, the two control-project
gates and the idempotency key, none of which reads again), `Handle` or `HandleWorkflow`. Between any
two of these roles are granted and revoked and users join organizations. `workflows` are the recorded
workflows that a repeated idempotency key finds. `entitled` is history: whether the caller held what
the method requires at some moment since the call arrived. It is computed from the description of
scopes in `api/grpc/README.md` (`Holds`), not from what the interceptors compute.

### Lists

A client walks over one list: `FirstPage` and `NextPage` read a page in one statement, `CountRows` the
total in the next one of the batch, which sees another snapshot, and hands out a token with the
offset, the order and the filter. Rows are inserted, removed, renamed and updated in between. `shown`
counts how often each row was on a page; `gone`, `came` and `moved` count the changes that can explain
a row that was missed or shown twice. The page sizes 100 and 50 are 2 and 1 here.

### Access

The rows of memberships, custom roles and assignments over several organizations, with the statements
that write them as atomic actions, and each query that reads them: what the gate resolves, what lists
show, what totals count. The code writes these joins separately.

### Connections, ServerProcess

`Connections` has tasks that run the statement sequences of the cores' operations (`Body`) over a pool
of `MaxConns` connections. RunTx puts a transaction into the context, a statement joins it
(`JoinsTx`), and RunBatchTx commits also the transaction it joined, after which the context carries a
closed one. Any statement may fail. `ServerProcess` is `run` of `cmd/server/main.go`: `SetUp` of one
part after the other with what each defers, `Serve`, a signal, the drain of HTTP and then gRPC within
one budget, `ForceStop`, the deferred calls in reverse, also after an error of one server, and a kill
at any time. Tasks are requests over HTTP, which make a gRPC call of their own, gRPC calls, streams,
and workflows.

## Runs

| Run | Bounds | Shows |
| --- | --- | --- |
| `system_roles` | 2 calls, 2 accounts and one UUID without account, 3 roles (one with both permissions, two with one each), 1 unseeded name; both partial roles are given to one of the accounts only | `AuthorityHolds`, `RevokeStaysSafe`, `AdministratorRemains`, `NoDeadlock`, `AtomicSpec`, and `CallsEnd` under fairness |
| `auth_tokens` | 2 calls. Refresh tokens, besides sign-ins and logouts, which are single steps: 3 tokens, 3 sessions of 2 users. Magic links: 2 users, 3 links, clock to 4, rate limit 2, lifetime 3 | `NeverForks`, `LogoutEnds`, `NeverLost`, `SessionsSpec`; `OneUsableLink`, `SingleUse`, `RateLimited`, `SupersededLinksAreDead` |
| `refresh_revoke_all` | the same with one session | violation of `RevokeAllEnds` |
| `server` | Workflows: 2 requests for one account, 3 links, 2 crashes. Process: a request and a workflow, one connection, operations that read, write, and nest transactions in each way the cores do | `MailedUnlessInterrupted`, `OneMailPerRequest`, `AllOrNothing`, `AcceptedCallsAreAnswered`; `RequestsEnd`, `CallsEnd` and `ProcessEnds` under fairness |
| `workflow_stored_token` | 3 requests (two for one account, one for an unknown address), 3 links, 2 crashes, without fairness | violation of `StoredTokenIsMailed` |
| `custom_roles` | 2 calls, a founder with all permissions and a manager with one, the managed role and one to create, two permissions (one of project scope, one of organization scope), etags to 4 | `ScopeHolds`, `ChecksHold`, `ResolvedRoleStays`, `UpdatesAreNotStale` |
| `custom_roles_stale_modify`, `custom_roles_missed`, `custom_roles_org_grants` | the same | one violation each, see below |
| `organizations` | 3 calls, 3 accounts at most, 2 organizations, a root account; addresses and project names that differ in case | `NamesAreUnique`, `OrganizationsAreWhole`, `ServedUsersAreMembers` |
| `organizations_address` | the same with 2 calls | violation of `ServedUsersAreFound` |
| `api` | Gate: all 31 methods and the stream with the plain request and every one that its validators or its core tell from it, over gRPC and HTTP, by callers without a token, unknown and known, in missing, unknown and wrong projects, with idempotency keys; 2 organizations with 3 projects, one role at each scope; 1 recorded workflow. Lists: 3 rows, 2 names, page sizes 1 and 2, 2 changes. Access: 2 users, 2 organizations with 3 projects, a role in each, a system role | `HandlersAreAuthorized`, `FailuresAreNamed`, `LayersAgree`, `RepliesAreOwn`; `PagesAreExplained`; `AccessIsListed` |

Two concurrent calls suffice for every pairwise race, and calls are reused, so a third call can come
after the first has ended while the second is still open. Longer cycles of waits in `SystemRoles` are
excluded by proof, for any number of calls. Three tokens give a chain of two rotations, or one rotation beside another session;
three links give an old, a current and a superseding link. The clock of `auth_tokens` passes the
rate limit and the lifetime with both calls open. One connection is the smallest pool, at which a
statement that took a second one would wait for itself; two tasks make it contended. Three rows with
pages of one give walks of three pages with two changes between them. One role in each of two
organizations, one of which has two projects, separates an assignment from the project, the
organization and the role beside it. A second recorded workflow adds nothing, because a key finds
at most one. The caps `MaxLinks`, `MaxTime`, `MaxETag`,
`MaxCrashes`, `MaxWorkflows`, `MaxChanges` and the number of tokens are guards and bound runs only. Symmetry is used over calls
(and tokens, or users) and never in a run with a liveness property. Each property has in
`PROJECT.json` a mutant of the code, a plausible bug, under which its run fails.

Fairness. `SystemRoles`: each call's next step is weakly fair, because the Go runtime schedules the
goroutine and PostgreSQL runs the statement; taking a lock is strongly fair, because PostgreSQL
queues the waiters of a lock in order, so that a lock that is free again and again is granted.
`MagicLinkWorkflow`: steps of running goroutines and the restart of the process are weakly fair; that
crashes stop is the bound `MaxCrashes`. `ServerProcess`: the steps of the process, which include that
time passes until the budget of a shutdown has elapsed, and those of each request in it are weakly
fair; an operation may block for a connection but does not stop otherwise. None of them requires that clients send anything. Nothing is
assumed fair about aborts or crashes. `MagicLinkWorkflow` may stop (every request ended and every
address cooled down) and a process may have exited with nothing left to come, so
`server` does not check for deadlock; nor does `api`, where a walk may have ended and all changes
been used. All others do.

## Disagreements with the documentation

Six runs end in a violation of what the repository says about itself; TLC shows the behaviour.

1. `RevokeAllEnds`. "invalidates all active refresh tokens for userExternalID, ending all sessions"
   (`core/auth/auth.go:299`). A refresh has consumed its token and not committed; revoke-all takes its
   snapshot and waits for that row; the refresh commits the successor; revoke-all finds the row
   revoked, and never sees the successor. The session lives on.
2. `StoredTokenIsMailed`. "If the process crashes after the token is stored but before the email is
   sent, DBOS resumes from the email step on restart" (`workflows/auth/auth.go:70`). Between the commit
   of the link and the row of the step the workflow resumes at store-token instead, is rate-limited by
   its own link, and reports success without an e-mail.
3. `ModifiesAreNotStale`. "A successful mutation rotates the ETag; a stale ETag returns
   `pgdb.ErrETagMismatch`" (`core/README.md:49`). modifyCustomRolePermissionsQuery compares the etag in
   its snapshot and updates by id, so a rename that commits while it waits goes unnoticed.
4. `NothingIsMissed`. "Returns [pgdb.ErrETagMismatch] if the role has changed since it was read"
   (`store_custom_role.go:63`). The loser of two updates reads its fallback row from its snapshot,
   where the etag still matches, and reports that the role does not exist.
5. `OrgGrantsWithinAuthority`. "The actor must hold every permission being granted or revoked"
   (`core/rbac/README.md:49`). AssignCustomRoleToOrg does not take the role's lock, so the role may gain
   a permission between the check and the insert.
6. `ServedUsersAreFound`. "CreateOrganizationUser returns the system user with cou.Email, creating it
   when necessary" (`core/org/org.go:223`). It takes the address as it was written, while everything
   else stores it and looks for it in lower case: an address with a capital gets a second account,
   which UserByEmail does not find and which cannot request a magic link.

The following were met while modelling and are not runs of their own.

- The gateway is built without a header matcher (`api/grpc/gateway/server.go:60`), so of the
  headers of an HTTP call it passes on the authorization and those prefixed `Grpc-Metadata-`. The
  headers `x-project-id` and `x-idempotency-key`, which `src/schemas/README.md` and
  `src/schemas/role.proto` describe, are dropped. `Forwarded` models both ways of sending them.
- A filter that is present but empty is encoded to no bytes and decoded to no filter, so the token
  that such a request is handed is refused with the same request
  (`api/grpc/internal/conv/pagination.go:17` says that nil and empty are equal). `EncodePageToken`
  and `TokenFits` model it; the walk of such a client ends there.
- Reflection is registered in local environments (`src/backend/README.md`) and no permission is
  registered for it, so every call of it is answered Internal (`FailuresAreNamed` excludes it).
- The all-zero etag passes the endpoint's validation and is refused by the core's, which the error
  interceptor logs as drift between the layers (`LayersAgree` excludes it).
- UpdateRole converts the permissions of its request also when the mask does not name them, and an
  unknown one is answered Internal (`FailuresAreNamed` excludes it).
- When one of the two servers fails, `run` returns and tears down what it set up while the other
  server still takes requests (`ServeFails`; `AcceptedCallsAreAnswered` is about processes that did
  not fail).

The weaker properties that do hold are checked beside them: `LogoutEnds`, `MailedUnlessInterrupted`,
`UpdatesAreNotStale`, `ServedUsersAreMembers` and, for operations that take the lock, `ChecksHold`.

## Proofs

TLAPS proves the following for all values of the constants; the assumptions are the named ASSUMEs of
the modules, which TLC evaluates on every run.

**SystemRolesProofs** assumes `CallsAssumption` (finitely many calls), `UsersAssumption`,
`RolesAssumption` and `RequestsAssumption`. The properties are not inductive: that a check still
holds at commit depends on nobody else having been able to write. `IInv` adds `LockDiscipline`
(locks are exclusive, and a call that has decided holds all it needed) and `ControlFlow` (what the
control state says of the request). From them: another call that writes a row of the actor would
need the actor's lock (`ActorKeepsRoles`), and two revokes would both need the management lock
(`OneRevoke`). Proved: `TypeCorrect`, `AuthorityPreserved`, `RevokeCheckPreserved`,
`AdministratorPreserved` (an action property) and `Refinement`, that the transactions implement
`SystemRoleGrants`. `DeadlockFree` needs another invariant, `LocksInOrder`: a call that is taking
its locks holds smaller ones than it misses. So whoever waits for such a call wants a smaller lock
than it does (`WaitsUpwards`), and of finitely many calls one wants a greatest (`GreatestWanted`, by
the well-foundedness of strict inclusion of finite sets).

**RefreshSessionsProofs** assumes `TokensAssumption` and `SessionsAssumption`. `IInv` adds to the
properties `RowLocks` (rows that open transactions have changed are live and apart, and a refresh past
its first statement holds exactly the token it consumed), `Successors` (an inserted token is absent to
everybody else and nobody shares it), `Scopes` (what a revoke-all holds belongs to a session in its
scope, all of one user) and `LoggedOutStarted`. The steps that leave the token rows alone are dealt
with at once (`QuietStep`, `QuietEnded`); for the four that do not, a lemma says what becomes of each
session's live tokens (`SignInLive`, `CommitRefreshLive`, `RevokeLive`, `CommitRevokeAllLive`), and
both the invariants and the refinement follow from these lemmas without looking at the rows again.
Proved: `TypeCorrect`, `ChainsNeverFork`, `LogoutIsFinal`, `SessionsSurvive` and `Refinement`, that
rotated rows implement `Sessions`.

**CustomRolesProofs** assumes `RequestsAssumption`, `PermsAssumption`, `ManagedAssumption` and
`BoundAssumption`. What a call found out about a role before it writes has to be true still when it
commits. `IInv` says so: `Findings` (past its check, the role exists, the permissions it changes are
within what the actor was found to hold, and its assignments allow them), which others keep because
of `RoleLocks` (the lock of a role has one holder) and `Existing` (only roles that exist are
assigned). `ControlFlow` tells the operations that lock from those that do not. For every pair of
calls one lemma says that the step of one leaves the finding of the other true. Proved:
`TypeCorrect`, `ScopePreserved`, `ChecksPreserved`, `ResolvedRolePreserved`, `StaleUpdatesRefused`.

**MagicLinksProofs** assumes `TimesAssumption` and `LinksAssumption`, and for the last theorem those
of `RefreshSessions`. At most one usable link needs what an issuing call has found out: that all
links of the account that could be used are in its hands (`Replaced`), and that it would not be
rate-limited now either (`Spaced`). Both stay true because nobody else issues for the account
(`UserLocks`), and because a row that it has changed is nobody else's (`LinkLocks`). `Superseded` is
what such a call leaves behind: a link is followed by another of its account only if it was used or
had expired by then. `Clock` is needed for `NOW()` being the time the transaction began. Proved:
`LinksTypeCorrect`, `OneLinkWorks`, `LinksAreSpentOnce`, `LinksAreSpaced`, `SupersededStayDead` (an
action property), and `TokensTypeCorrect` for both kinds of token side by side.

**OrganizationsProofs** assumes `TextAssumption` (Lower is a function and idempotent),
`IdsAssumption` and `RequestsAssumption`. That committed rows have different keys is not inductive,
since a conflict may be between two open transactions; `Distinct` is about committed and uncommitted
rows together. An insert through `Arrives` keeps it by waiting. The statements that insert projects,
members and administrators of a new organization do not wait, and keep it because that organization
is known to their transaction only: `Housed` (a project is where its organization is, committed or
in the same transaction) and `Apart` (no two open transactions have one organization id). `Progress`
says what each transaction has inserted by its control state. Proved: `TypeCorrect`,
`NamesStayUnique`, `OrganizationsStayWhole`, `ServedUsersStayMembers`.

**GateProofs** assumes `GateAssumption` (control projects are projects), `TrafficAssumption` (a call
has its six parts, and the gateway's client makes no streams) and `GrantableAssumption` (below the
scope of the system only permissions assignable to custom roles are granted: those are the roles
assigned there, and `validateCustomRolePerms` refuses them anything else). `IInv` is about who may:
`Standing` (whoever is entitled now has been so since the call arrived), `Resolved` (what the first
read of a session found is of that project and stays so, because members are not removed) and
`Checked` (if the session's permissions suffice for the method, the caller was entitled at some
moment). Between them stands `SessionHolds`: a required permission that is resolved for a session is
held at a scope that the documentation names for the method. `Own` is about which answer is sent:
the routes of two methods never match one another, so that a call over HTTP reaches the method its
client meant, and a recorded workflow is found by its own method, request, key and user only. `Told`
is about what an answer says, and is a case distinction over services: for each the core's errors
have statuses for every request its validators let through. Proved: `TypeCorrect`,
`HandlersStayAuthorized`, `RepliesStayOwn`, `FailuresStayNamed`, `LayersStayAgreed`. The last two
quantify over every request there can be, where the run has a list of them.

**ServerProofs** has two invariants and joins them. For the workflow (`AddressAssumption`,
`BoundsAssumption`), `WInv` says how the rows of a workflow and the place of its goroutine go
together (`Rows`), whose link is where (`Owned`), that a link without a row was cut off by a crash
(`CutOff`), and that a request which may still send has sent no more e-mails than there were crashes
(`Unsent`). Proved: `WorkflowTypeCorrect`, `SuccessIsMailed`, `MailsArePaidFor`. For the process
(`ConnectionsAssumption`, `RequestTasksAssumption`), `KeptBy` says of each statement of an operation
which writes are in its transaction and which are committed. It rests on the shape of the statement
sequences that `Body` lists (`WellFormed`: what follows a write is in a transaction, and a
RunBatchTx, which commits the transaction it joined, comes last); that is checked for each of the
operations by the prover. `Drains` is what a process that is not out of time still has for the calls
it accepted: the gRPC server as long as there is HTTP, the pool and the gateway's connection as long
as there is either. Proved: `OperationsAreWhole`, `ShutdownsAreGraceful`, `TypesAreCorrect`, for any
finite number of tasks and any size of the pool.

**ApiProofs** extends `GateProofs` to `MCApi`. For `Access` (`AccessAssumption`) the invariant is
what the foreign keys would check (`Referenced`), and that the assignments are finitely many. The
totals count assignments while the pages show roles, and they agree because in one place a user and
a role determine an assignment. Proved: `AccessStaysListed`, `ReferencesHold`. For `Lists`
(`ListsAssumption`) a walk is followed by `Passed`, the rows ranked before the offset it has
reached, in the order of the moment. Rows before it that were not shown are bounded by what left or
moved, rows beyond it that were shown, together with repeats, by what came or moved (`Accounted`).
That a change keeps the two is a fact about ranks alone (`CrossesOnce`): the orders are total, and
if one row comes, goes or moves, at most one row crosses the place reached in either direction.
Proved: `WalksAreTyped`, `PagesStayExplained`. `ApiTypesCorrect` is about the three side by side.

Where an MC module puts behaviours side by side, the theorems about its parts are about the parts'
own specifications, and those about `TypesOK` about the whole (`MCSpec`): a step of the whole is a
step or a stutter of each part.

Attempts to prove corrected the models. CASE expressions whose arms overlap, whose value is then one
of them, whichever, were meant to take the first (`Gate`, `Handlers`, `Validation`); they are IFs
now. An assumption of `Gate` said less about its constants than the model relied on. The stage of a
call over HTTP depended on the method of the client and not on the one the server sees. None of them
changed what a run found. Two definitions were given another form with the same value, because a
fold cannot be reasoned about here: the connections held (`HeldConns`) and the repeats of a walk
(`Repeats`) are cardinalities.

Every safety property of every passing run is a theorem. Only model-checked is liveness under
fairness (`CallsEnd` of the operations of system roles and of the process, `RequestsEnd`,
`ProcessEnds`), which is out of the prover's reach, as would be statements by induction over data;
no module has a RECURSIVE operator. The six violations are counterexamples, which need no proof.

## What is not modelled

- What a response holds besides its status and, in a list, which rows it shows: conversion of
  messages, JSON. Bodies that are no JSON, which the gateway refuses by itself.
- Telemetry, logging and rendering of e-mails: nothing depends on them.
- AuthContext reads a user's projects, permissions and session in three statements; the record it
  returns may mix three moments. Only its errors are modelled.
- UpdateUser's comparison of etags is not a module of its own: it is one UPDATE like that of
  UpdateCustomRole, which `CustomRoles` has.
- The gateway's pages of documentation with their basic authentication.
- Settings of transactions (`setLocalSettings`): a timeout is a statement that fails.
- Access tokens: stateless JWTs that nothing revokes; they stay valid until they expire.
- Hashing and generation of tokens: a new token is one that was never drawn before.
- Migrations, seeds and configuration: run before the server serves; the seeded roles and the
  registry are constants.
- Names of roles, organizations and users beyond what validators and unique indexes tell apart.
- DBOS and PostgreSQL themselves, beyond the use the code makes of them. What DBOS keeps of an error
  is not in this repository, so both possibilities are allowed.
- The command line, which calls core operations one after the other, but for
  BootstrapAssignSystemRole, and test support.
