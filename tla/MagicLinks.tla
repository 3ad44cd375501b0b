----------------------------- MODULE MagicLinks -----------------------------
(***************************************************************************)
(* Magic links: MagicLinkToken and VerifyMagicLink of core/auth/auth.go    *)
(* over core/pgstores/pgauth, one action per statement, with a clock.      *)
(* NOW() is the time a transaction began, time.Now() is the time a         *)
(* statement of Go runs; both read the same clock here.  The tick of the   *)
(* clock waits for transactions that have been open for TxTime.            *)
(***************************************************************************)
EXTENDS Naturals

CONSTANTS
  LinkCalls,    \* concurrent calls of the two operations, each reusable
  Accounts,     \* provisioned accounts
  NoAccount,
  MaxLinks,     \* how many links may be issued, which bounds a run
  MaxTime,      \* where the clock stops, which bounds a run
  RateLimit,    \* Config.MagicLinkRateLimit
  TTL,          \* Config.MagicLinkTTL
  TxTime        \* the longest a transaction stays open

ASSUME TimesAssumption ==
  MaxTime \in Nat /\ RateLimit \in Nat /\ TTL \in Nat /\ TxTime \in Nat
ASSUME LinksAssumption == MaxLinks \in Nat /\ NoAccount \notin Accounts

Links == 1 .. MaxLinks   \* row ids, in the order of issue
NoLink == 0
Time == 0 .. MaxTime

VARIABLES
  now,
  issued,       \* committed rows are those of ids 1 .. issued
  link,         \* the rows: user, created_at, expires_at and whether used_at is set;
                \* "at" is a history field, the time the link was returned
  verified,     \* users with email_verified_at
  sessions,     \* history: the sessions each link has started
  progress,     \* how far each call has come
  who,          \* the user a link is asked for
  presented,    \* the link that is verified
  begun,        \* NOW() of the call's transaction
  lockedLinks   \* the rows the call's transaction has set used_at on

linkTable == <<issued, link, verified, sessions>>
linkCalls == <<progress, who, presented, begun, lockedLinks>>
linkVars == <<now, linkTable, linkCalls>>

Row == [user : Accounts \cup {NoAccount}, created : Time, expires : Nat, used : BOOLEAN, at : Time]
NoRow == [user |-> NoAccount, created |-> 0, expires |-> 0, used |-> TRUE, at |-> 0]

LinksOf(u) == {l \in 1 .. issued : link[l].user = u}

InTx == {"lock", "locked", "allowed", "invalidated", "verify", "consumed"}

(* Mutant: no lock. *)
HoldsNoLock(c, u) == FALSE

(* LockUser: one transaction per user from here to its end. *)
HoldsLock(c, u) == who[c] = u /\ progress[c] \in {"locked", "allowed", "invalidated"}

LinkUnlocked(c, l) == \A d \in LinkCalls \ {c} : l \notin lockedLinks[d]
-----------------------------------------------------------------------------
LinksInit ==
  /\ now = 0
  /\ issued = 0
  /\ link = [l \in Links |-> NoRow]
  /\ verified = {}
  /\ sessions = [l \in Links |-> 0]
  /\ progress = [c \in LinkCalls |-> "idle"]
  /\ who = [c \in LinkCalls |-> NoAccount]
  /\ presented = [c \in LinkCalls |-> NoLink]
  /\ begun = [c \in LinkCalls |-> 0]
  /\ lockedLinks = [c \in LinkCalls |-> {}]

Tick ==
  /\ now < MaxTime
  /\ \A c \in LinkCalls : progress[c] \in InTx => now - begun[c] < TxTime
  /\ now' = now + 1
  /\ UNCHANGED <<linkTable, linkCalls>>

(* Mutant: the rows stay locked after the transaction. *)
FinishKeepingLinks(c) ==
  /\ progress' = [progress EXCEPT ![c] = "idle"]
  /\ who' = [who EXCEPT ![c] = NoAccount]
  /\ presented' = [presented EXCEPT ![c] = NoLink]
  /\ begun' = [begun EXCEPT ![c] = 0]
  /\ UNCHANGED <<now, lockedLinks>>

FinishLinkCall(c) ==
  /\ progress' = [progress EXCEPT ![c] = "idle"]
  /\ who' = [who EXCEPT ![c] = NoAccount]
  /\ presented' = [presented EXCEPT ![c] = NoLink]
  /\ begun' = [begun EXCEPT ![c] = 0]
  /\ lockedLinks' = [lockedLinks EXCEPT ![c] = {}]
  /\ UNCHANGED now

RollbackLinkCall(c) == FinishLinkCall(c) /\ UNCHANGED linkTable

Advance(c, to) ==
  /\ progress' = [progress EXCEPT ![c] = to]
  /\ UNCHANGED <<now, linkTable, who, presented, begun>>

(* MagicLinkToken for an account that exists; an unknown e-mail address is *)
(* ErrNotFound before the transaction.                                     *)
BeginIssue(c, u) ==
  /\ progress[c] = "idle"
  /\ progress' = [progress EXCEPT ![c] = "lock"]
  /\ who' = [who EXCEPT ![c] = u]
  /\ begun' = [begun EXCEPT ![c] = now]
  /\ UNCHANGED <<now, linkTable, presented, lockedLinks>>

LockUser(c) ==
  /\ progress[c] = "lock"
  /\ \A d \in LinkCalls : ~HoldsLock(d, who[c])
  /\ Advance(c, "locked")
  /\ UNCHANGED lockedLinks

(* Mutant: only links that are still unused count. *)
LimitedByUnused(u) ==
  \E l \in LinksOf(u) : ~link[l].used /\ now - link[l].created < RateLimit

(* LatestMagicLinkTokenCreatedAt: used and expired links count. *)
Limited(u) == \E l \in LinksOf(u) : now - link[l].created < RateLimit

(* ErrRateLimited commits a transaction that changed nothing. *)
CheckRateLimit(c) ==
  /\ progress[c] = "locked"
  /\ \/ ~Limited(who[c]) /\ Advance(c, "allowed") /\ UNCHANGED lockedLinks
     \/ Limited(who[c]) /\ RollbackLinkCall(c)

Invalidated(c) ==
  {l \in LinksOf(who[c]) : ~link[l].used /\ link[l].expires > begun[c]}

(* Mutant: the invalidation does not wait for a verification under way. *)
InvalidateWithoutWaiting(c) ==
  /\ progress[c] = "allowed"
  /\ lockedLinks' = [lockedLinks EXCEPT ![c] = Invalidated(c)]
  /\ Advance(c, "invalidated")

InvalidateUserMagicLinkTokens(c) ==
  /\ progress[c] = "allowed"
  /\ \A l \in Invalidated(c) : LinkUnlocked(c, l)
  /\ lockedLinks' = [lockedLinks EXCEPT ![c] = Invalidated(c)]
  /\ Advance(c, "invalidated")

(* generateToken, CreateMagicLinkToken and the commit: the inserted row is *)
(* known to nobody before, so they are one step.                           *)
CreateMagicLinkToken(c) ==
  /\ progress[c] = "invalidated"
  /\ issued < MaxLinks
  /\ issued' = issued + 1
  /\ link' = [l \in Links |->
       IF l \in lockedLinks[c] THEN [link[l] EXCEPT !.used = TRUE]
       ELSE IF l = issued + 1
       THEN [user |-> who[c], created |-> begun[c], expires |-> now + TTL,
             used |-> FALSE, at |-> now]
       ELSE link[l]]
  /\ FinishLinkCall(c)
  /\ UNCHANGED <<verified, sessions>>

(* VerifyMagicLink looks the link up outside any transaction.  A link that *)
(* is used or expired by then is ErrTokenInvalid and changes nothing.      *)
MagicLinkTokenByHash(c, l) ==
  /\ progress[c] = "idle"
  /\ ~link[l].used /\ link[l].expires > now
  /\ progress' = [progress EXCEPT ![c] = "found"]
  /\ presented' = [presented EXCEPT ![c] = l]
  /\ UNCHANGED <<now, linkTable, who, begun, lockedLinks>>

BeginVerify(c) ==
  /\ progress[c] = "found"
  /\ progress' = [progress EXCEPT ![c] = "verify"]
  /\ begun' = [begun EXCEPT ![c] = now]
  /\ UNCHANGED <<now, linkTable, who, presented, lockedLinks>>

(* Mutant: the statement trusts the lookup before the transaction. *)
ConsumableAsLookedUp(c) == link[presented[c]].expires > begun[c]

(* consumeMagicLinkTokenQuery: the row is looked at once it is free. *)
LinkConsumable(c) ==
  LET row == link[presented[c]] IN ~row.used /\ row.expires > begun[c]

ConsumeMagicLinkToken(c) ==
  /\ progress[c] = "verify"
  /\ LinkUnlocked(c, presented[c])
  /\ \/ /\ LinkConsumable(c)
        /\ lockedLinks' = [lockedLinks EXCEPT ![c] = {presented[c]}]
        /\ Advance(c, "consumed")
     \/ ~LinkConsumable(c) /\ RollbackLinkCall(c)

(* MarkEmailVerified, issueTokenPair and the commit. *)
CommitVerify(c) ==
  /\ progress[c] = "consumed"
  /\ link' = [link EXCEPT ![presented[c]].used = TRUE]
  /\ verified' = verified \cup {link[presented[c]].user}
  /\ sessions' = [sessions EXCEPT ![presented[c]] = @ + 1]
  /\ FinishLinkCall(c)
  /\ UNCHANGED issued

(* A cancelled context, a lost connection or a failed statement. *)
AbortLinkCall(c) == progress[c] # "idle" /\ RollbackLinkCall(c)

LinksNext ==
  \/ Tick
  \/ \E c \in LinkCalls :
       \/ \E u \in Accounts : BeginIssue(c, u)
       \/ LockUser(c) \/ CheckRateLimit(c) \/ InvalidateUserMagicLinkTokens(c)
       \/ CreateMagicLinkToken(c)
       \/ \E l \in 1 .. issued : MagicLinkTokenByHash(c, l)
       \/ BeginVerify(c) \/ ConsumeMagicLinkToken(c) \/ CommitVerify(c)
       \/ AbortLinkCall(c)

LinksSpec == LinksInit /\ [][LinksNext]_linkVars
-----------------------------------------------------------------------------
LinksTypeOK ==
  /\ now \in Time
  /\ issued \in 0 .. MaxLinks
  /\ link \in [Links -> Row]
  /\ verified \subseteq Accounts
  /\ sessions \in [Links -> Nat]
  /\ progress \in [LinkCalls -> {"idle", "found"} \cup InTx]
  /\ who \in [LinkCalls -> Accounts \cup {NoAccount}]
  /\ presented \in [LinkCalls -> Links \cup {NoLink}]
  /\ begun \in [LinkCalls -> Time]
  /\ lockedLinks \in [LinkCalls -> SUBSET Links]
  /\ \A c \in LinkCalls : progress[c] \in {"idle", "found"} => lockedLinks[c] = {}

(* Issuing a link invalidates its predecessors: a user never has two links *)
(* that could be used, however many requests race (auth.go, MagicLinkToken *)
(* "invalidates prior tokens").                                            *)
OneUsableLink ==
  \A l, k \in 1 .. issued :
    /\ link[l].user = link[k].user
    /\ ~link[l].used /\ link[l].expires > now
    /\ ~link[k].used /\ link[k].expires > now
    => l = k

(* A link starts at most one session, although VerifyMagicLink looks it up *)
(* before its transaction and several verifications may run at once.       *)
SingleUse == \A l \in 1 .. issued : sessions[l] <= 1

(* A link that was superseded while it was valid starts no session, also   *)
(* when the verification had found it before.                              *)
SupersededLinksAreDead ==
  [][\A l \in Links : sessions'[l] # sessions[l] =>
       \A k \in LinksOf(link[l].user) : k > l => link[k].created >= link[l].expires]_linkVars

(* Two links of one user are returned at least RateLimit apart, less the   *)
(* time a transaction may stay open: created_at is NOW(), the time the     *)
(* transaction of the earlier link began, not the time it returned.        *)
RateLimited ==
  \A l, k \in 1 .. issued :
    l < k /\ link[l].user = link[k].user => link[k].at + TxTime >= link[l].at + RateLimit
=============================================================================
