---------------------------- MODULE MCAuthTokens ----------------------------
(* Instances of RefreshSessions and MagicLinks for TLC.  The two write     *)
(* tables of their own and meet only where a verified link starts a        *)
(* session, which SignIn stands for; so a behaviour is of one of them,     *)
(* with no call of the other, and their states are explored side by side.  *)
(* Both use the same slots for calls, which so are symmetric in both.      *)
EXTENDS MCRefreshSessions, MagicLinks

VARIABLE part   \* whose behaviour it is

MCAuthSymmetry == MCSymmetry \cup Permutations(Accounts)

R(A) == part = "refresh tokens" /\ A /\ UNCHANGED <<linkVars, part>>
L(A) == part = "magic links" /\ A /\ UNCHANGED <<vars, part>>

MCInit == Init /\ LinksInit /\ part \in {"refresh tokens", "magic links"}

MCNext ==
  \/ \E s \in SessionIds, t \in Tokens : R(SignIn(s, t))
  \/ \E t \in Tokens : R(Expire(t)) \/ R(RevokeRefreshToken(t))
  \/ \E c \in Calls :
       \/ \E t \in Tokens : R(BeginRefresh(c, t))
       \/ R(ConsumeRefreshToken(c)) \/ R(CreateRefreshToken(c)) \/ R(CommitRefresh(c))
       \/ \E u \in Users : R(BeginRevokeAll(c, u))
       \/ \E t \in Tokens : R(RevokeRow(c, t))
       \/ R(CommitRevokeAll(c)) \/ R(Abort(c))
  \/ L(Tick)
  \/ \E c \in LinkCalls :
       \/ \E u \in Accounts : L(BeginIssue(c, u))
       \/ L(LockUser(c)) \/ L(CheckRateLimit(c)) \/ L(InvalidateUserMagicLinkTokens(c))
       \/ L(CreateMagicLinkToken(c))
       \/ \E l \in 1 .. issued : L(MagicLinkTokenByHash(c, l))
       \/ L(BeginVerify(c)) \/ L(ConsumeMagicLinkToken(c)) \/ L(CommitVerify(c))
       \/ L(AbortLinkCall(c))

MCSpec == MCInit /\ [][MCNext]_<<vars, linkVars, part>>

(* The rows of auth.refresh_tokens and auth.magic_link_tokens and what the *)
(* transactions on them hold are of their types: a call that has ended     *)
(* keeps neither a lock nor a row it wrote.                                *)
TypesOK == TypeOK /\ LinksTypeOK
=============================================================================
