--------------------------- MODULE RefreshSessions ---------------------------
(***************************************************************************)
(* Refresh tokens: RefreshAccessToken, RevokeRefreshToken and              *)
(* RevokeAllUserRefreshTokens of core/auth/auth.go over                    *)
(* core/pgstores/pgauth, as PostgreSQL runs them at READ COMMITTED.  An    *)
(* UPDATE picks its rows from the snapshot taken when it starts, waits for *)
(* each row another transaction has changed, and looks at that row again   *)
(* before it changes it; a row inserted after the snapshot is not seen.    *)
(*                                                                         *)
(* A session is the chain of tokens that one VerifyMagicLink starts.       *)
(***************************************************************************)
CONSTANTS
  Calls,        \* concurrent calls of the operations, each reusable
  Tokens,       \* the refresh tokens that may be issued, which bounds a run
  NoToken,
  SessionIds,   \* the sessions that sign-ins may start
  Owner         \* the user each of them belongs to

ASSUME TokensAssumption == NoToken \notin Tokens
ASSUME SessionsAssumption == SessionIds # {}

Users == {Owner[s] : s \in SessionIds}

VARIABLES
  status,       \* committed rows: "absent", "live" or "revoked" (revoked_at)
  session,      \* the session a token was issued in; meaningless when absent
  expired,      \* tokens whose expires_at has passed
  pc,           \* how far each call has come
  old,          \* the token a refresh presents
  fresh,        \* whether it had not expired when the transaction began
  new,          \* the token a refresh has inserted
  rows,         \* the rows a revoke-all has still to look at
  held,         \* the rows each open transaction has set revoked_at on
  scope,        \* history: the sessions active when a revoke-all started
  loggedOut,    \* history: sessions whose token RevokeRefreshToken revoked
  revokedAll    \* history: the sessions in the scope of a finished revoke-all

table == <<status, session, expired>>
calls == <<pc, old, fresh, new, rows, held, scope>>
vars == <<table, calls, loggedOut, revokedAll>>

Live(s) == {t \in Tokens : status[t] = "live" /\ session[t] = s}

Started(s) == \E t \in Tokens : status[t] # "absent" /\ session[t] = s

(* Nobody else's open transaction has changed the row. *)
Unlocked(c, t) == \A d \in Calls \ {c} : t \notin held[d]

(* A hash never drawn before: generateToken. *)
Unused(t) == status[t] = "absent" /\ \A c \in Calls : new[c] # t
-----------------------------------------------------------------------------
Init ==
  /\ status = [t \in Tokens |-> "absent"]
  /\ session = [t \in Tokens |-> CHOOSE s \in SessionIds : TRUE]
  /\ expired = {}
  /\ pc = [c \in Calls |-> "idle"]
  /\ old = [c \in Calls |-> NoToken]
  /\ fresh = [c \in Calls |-> FALSE]
  /\ new = [c \in Calls |-> NoToken]
  /\ rows = [c \in Calls |-> {}]
  /\ held = [c \in Calls |-> {}]
  /\ scope = [c \in Calls |-> {}]
  /\ loggedOut = {}
  /\ revokedAll = {}

(* Mutant: the rows stay locked after the transaction. *)
EndKeepingRows(c) ==
  /\ pc' = [pc EXCEPT ![c] = "idle"]
  /\ old' = [old EXCEPT ![c] = NoToken]
  /\ fresh' = [fresh EXCEPT ![c] = FALSE]
  /\ new' = [new EXCEPT ![c] = NoToken]
  /\ rows' = [rows EXCEPT ![c] = {}]
  /\ scope' = [scope EXCEPT ![c] = {}]
  /\ UNCHANGED held

(* The transaction is over; its row locks are free. *)
End(c) ==
  /\ pc' = [pc EXCEPT ![c] = "idle"]
  /\ old' = [old EXCEPT ![c] = NoToken]
  /\ fresh' = [fresh EXCEPT ![c] = FALSE]
  /\ new' = [new EXCEPT ![c] = NoToken]
  /\ rows' = [rows EXCEPT ![c] = {}]
  /\ held' = [held EXCEPT ![c] = {}]
  /\ scope' = [scope EXCEPT ![c] = {}]

Rollback(c) == End(c) /\ UNCHANGED <<table, loggedOut, revokedAll>>

(* issueTokenPair of a VerifyMagicLink that commits.  Nobody knows the     *)
(* token before that, so insert and commit are one step.                   *)
SignIn(s, t) ==
  /\ ~Started(s)
  /\ Unused(t)
  /\ status' = [status EXCEPT ![t] = "live"]
  /\ session' = [session EXCEPT ![t] = s]
  /\ UNCHANGED <<expired, calls, loggedOut, revokedAll>>

(* RefreshTokenTTL passes. *)
Expire(t) ==
  /\ status[t] # "absent" /\ t \notin expired
  /\ expired' = expired \cup {t}
  /\ UNCHANGED <<status, session, calls, loggedOut, revokedAll>>

(* RefreshAccessToken opens its transaction, which fixes NOW(). *)
BeginRefresh(c, t) ==
  /\ pc[c] = "idle"
  /\ status[t] # "absent"
  /\ pc' = [pc EXCEPT ![c] = "refresh"]
  /\ old' = [old EXCEPT ![c] = t]
  /\ fresh' = [fresh EXCEPT ![c] = t \notin expired]
  /\ UNCHANGED <<table, new, rows, held, scope, loggedOut, revokedAll>>

(* Mutant: the query does not ask for revoked_at IS NULL. *)
ConsumableTwice(c) == status[old[c]] # "absent" /\ fresh[c]

(* consumeRefreshTokenQuery; no row is ErrTokenInvalid. *)
Consumable(c) == status[old[c]] = "live" /\ fresh[c]

(* Mutant: the token is consumed outside the transaction that issues the   *)
(* pair.                                                                   *)
ConsumeRefreshTokenAlone(c) ==
  /\ pc[c] = "refresh"
  /\ Unlocked(c, old[c])
  /\ \/ /\ Consumable(c)
        /\ pc' = [pc EXCEPT ![c] = "consumed"]
        /\ status' = [status EXCEPT ![old[c]] = "revoked"]
        /\ UNCHANGED <<session, expired, old, fresh, new, rows, held, scope>>
        /\ UNCHANGED <<loggedOut, revokedAll>>
     \/ ~Consumable(c) /\ Rollback(c)

ConsumeRefreshToken(c) ==
  /\ pc[c] = "refresh"
  /\ Unlocked(c, old[c])
  /\ \/ /\ Consumable(c)
        /\ pc' = [pc EXCEPT ![c] = "consumed"]
        /\ held' = [held EXCEPT ![c] = {old[c]}]
        /\ UNCHANGED <<table, old, fresh, new, rows, scope, loggedOut, revokedAll>>
     \/ ~Consumable(c) /\ Rollback(c)

(* issueTokenPair inserts the successor. *)
CreateRefreshToken(c) ==
  /\ pc[c] = "consumed"
  /\ \E t \in Tokens : Unused(t) /\ new' = [new EXCEPT ![c] = t]
  /\ pc' = [pc EXCEPT ![c] = "created"]
  /\ UNCHANGED <<table, old, fresh, rows, held, scope, loggedOut, revokedAll>>

CommitRefresh(c) ==
  /\ pc[c] = "created"
  /\ status' = [status EXCEPT ![old[c]] = "revoked", ![new[c]] = "live"]
  /\ session' = [session EXCEPT ![new[c]] = session[old[c]]]
  /\ End(c)
  /\ UNCHANGED <<expired, loggedOut, revokedAll>>

(* Mutant: a revoke that reads the row and does not wait for its lock. *)
RevokeRefreshTokenUnlocked(t) ==
  /\ status[t] = "live" /\ t \notin expired
  /\ status' = [status EXCEPT ![t] = "revoked"]
  /\ loggedOut' = loggedOut \cup {session[t]}
  /\ UNCHANGED <<session, expired, calls, revokedAll>>

(* RevokeRefreshToken: one statement outside any transaction. *)
RevokeRefreshToken(t) ==
  /\ status[t] = "live" /\ t \notin expired
  /\ \A d \in Calls : t \notin held[d]
  /\ status' = [status EXCEPT ![t] = "revoked"]
  /\ loggedOut' = loggedOut \cup {session[t]}
  /\ UNCHANGED <<session, expired, calls, revokedAll>>

(* Mutant: the UPDATE is not restricted to the user. *)
BeginRevokeEverybody(c, u) ==
  /\ pc[c] = "idle"
  /\ pc' = [pc EXCEPT ![c] = "revoke-all"]
  /\ scope' = [scope EXCEPT ![c] = {s \in SessionIds : Live(s) # {}}]
  /\ rows' = [rows EXCEPT ![c] = {t \in Tokens : status[t] = "live"}]
  /\ UNCHANGED <<table, old, fresh, new, held, loggedOut, revokedAll>>

(* RevokeAllUserRefreshTokens starts: the UPDATE's snapshot. *)
BeginRevokeAll(c, u) ==
  /\ pc[c] = "idle"
  /\ pc' = [pc EXCEPT ![c] = "revoke-all"]
  /\ scope' = [scope EXCEPT ![c] = {s \in SessionIds : Owner[s] = u /\ Live(s) # {}}]
  /\ rows' = [rows EXCEPT ![c] = UNION {Live(s) : s \in {r \in SessionIds : Owner[r] = u}}]
  /\ UNCHANGED <<table, old, fresh, new, held, loggedOut, revokedAll>>

(* One row of the snapshot is free and is looked at again. *)
RevokeRow(c, t) ==
  /\ pc[c] = "revoke-all"
  /\ t \in rows[c]
  /\ Unlocked(c, t)
  /\ rows' = [rows EXCEPT ![c] = @ \ {t}]
  /\ held' = [held EXCEPT ![c] = IF status[t] = "live" THEN @ \cup {t} ELSE @]
  /\ UNCHANGED <<table, pc, old, fresh, new, scope, loggedOut, revokedAll>>

CommitRevokeAll(c) ==
  /\ pc[c] = "revoke-all"
  /\ rows[c] = {}
  /\ status' = [t \in Tokens |-> IF t \in held[c] THEN "revoked" ELSE status[t]]
  /\ revokedAll' = revokedAll \cup scope[c]
  /\ End(c)
  /\ UNCHANGED <<session, expired, loggedOut>>

(* A cancelled context, a lost connection, a deadlock victim. *)
Abort(c) == pc[c] # "idle" /\ Rollback(c)

Next ==
  \/ \E s \in SessionIds, t \in Tokens : SignIn(s, t)
  \/ \E t \in Tokens : Expire(t) \/ RevokeRefreshToken(t)
  \/ \E c \in Calls :
       \/ \E t \in Tokens : BeginRefresh(c, t)
       \/ ConsumeRefreshToken(c) \/ CreateRefreshToken(c) \/ CommitRefresh(c)
       \/ \E u \in Users : BeginRevokeAll(c, u)
       \/ \E t \in Tokens : RevokeRow(c, t)
       \/ CommitRevokeAll(c) \/ Abort(c)

Spec == Init /\ [][Next]_vars
-----------------------------------------------------------------------------
Pcs == {"idle", "refresh", "consumed", "created", "revoke-all"}

TypeOK ==
  /\ status \in [Tokens -> {"absent", "live", "revoked"}]
  /\ session \in [Tokens -> SessionIds]
  /\ expired \subseteq Tokens
  /\ pc \in [Calls -> Pcs]
  /\ old \in [Calls -> Tokens \cup {NoToken}]
  /\ fresh \in [Calls -> BOOLEAN]
  /\ new \in [Calls -> Tokens \cup {NoToken}]
  /\ rows \in [Calls -> SUBSET Tokens]
  /\ held \in [Calls -> SUBSET Tokens]
  /\ scope \in [Calls -> SUBSET SessionIds]
  /\ loggedOut \subseteq SessionIds
  /\ revokedAll \subseteq SessionIds
  /\ \A c \in Calls : pc[c] = "idle" => held[c] = {} /\ new[c] = NoToken

(* A session never forks: however many requests race to rotate a token,    *)
(* at most one of the session's tokens is live (query.go:183-186).         *)
NeverForks == \A s \in SessionIds : \A t, r \in Live(s) : t = r

(* RevokeRefreshToken ends its session for good, also when a refresh of    *)
(* the same token is under way (auth.go:282, "ending that session").       *)
LogoutEnds == \A s \in loggedOut : Live(s) = {}

(* Rotation is atomic: a session that nobody ended has a token that works, *)
(* whatever refreshes fail half-way.                                       *)
NeverLost ==
  \A s \in SessionIds :
    Started(s) /\ s \notin loggedOut \cup revokedAll => Live(s) # {}

(* What RevokeAllUserRefreshTokens says of itself, "ending all sessions"   *)
(* (auth.go:299): the sessions that were active when it started have no    *)
(* live token once it has returned.                                        *)
RevokeAllEnds == \A s \in revokedAll : Live(s) = {}

Phase(s) ==
  IF Started(s) THEN IF Live(s) # {} THEN "active" ELSE "ended" ELSE "none"

Abstract == INSTANCE Sessions WITH phase <- [s \in SessionIds |-> Phase(s)]

(* Chains of tokens implement sessions: a session that ended never comes   *)
(* back, and a revoke touches the sessions of one user only.               *)
SessionsSpec == Abstract!Spec
=============================================================================
