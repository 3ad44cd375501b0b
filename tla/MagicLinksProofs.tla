--------------------------- MODULE MagicLinksProofs -------------------------
(***************************************************************************)
(* Proofs about MagicLinks, for any calls, accounts, numbers of links and  *)
(* times, and about MCAuthTokens, the refresh tokens and the links         *)
(* together.  UserLocks and LinkLocks say what the locks of accounts and   *)
(* of rows give.  Replaced and Spaced say what a call that issues a link   *)
(* has found out and that it is still so; Superseded and RateLimited are   *)
(* what it leaves behind.                                                  *)
(***************************************************************************)
EXTENDS RefreshSessionsProofs, MCAuthTokens

Clock ==
  /\ \A c \in LinkCalls : begun[c] <= now
  /\ \A c \in LinkCalls : progress[c] \in InTx => now <= begun[c] + TxTime
  /\ \A l \in 1 .. issued : link[l].created <= now /\ link[l].at <= link[l].created + TxTime

Arguments ==
  /\ \A c \in LinkCalls :
       progress[c] \in {"lock", "locked", "allowed", "invalidated"} => who[c] \in Accounts
  /\ \A c \in LinkCalls :
       progress[c] \in {"found", "verify", "consumed"} => presented[c] \in 1 .. issued
  /\ \A l \in 1 .. issued : link[l].user \in Accounts

UserLocks ==
  \A c, d \in LinkCalls : \A u \in Accounts : HoldsLock(c, u) /\ HoldsLock(d, u) => c = d

LinkLocks ==
  /\ \A c \in LinkCalls : progress[c] \notin {"invalidated", "consumed"} => lockedLinks[c] = {}
  /\ \A c \in LinkCalls : progress[c] = "consumed" => lockedLinks[c] = {presented[c]}
  /\ \A c \in LinkCalls : \A l \in lockedLinks[c] : l \in 1 .. issued /\ ~link[l].used
  /\ \A c, d \in LinkCalls : \A l \in lockedLinks[c] : l \in lockedLinks[d] => c = d

(* A call that has invalidated its account's links holds all those that    *)
(* could still be used.                                                    *)
Replaced(c) ==
  progress[c] = "invalidated" =>
    \A l \in LinksOf(who[c]) :
      link[l].used \/ link[l].expires <= begun[c] \/ l \in lockedLinks[c]

(* A call that was not rate-limited would not be now. *)
Spaced(c) ==
  progress[c] \in {"allowed", "invalidated"} =>
    \A l \in LinksOf(who[c]) : link[l].created + RateLimit <= now

Findings == \A c \in LinkCalls : Replaced(c) /\ Spaced(c)

(* A link that was not used is followed by another one of its account only *)
(* if it had expired.                                                      *)
Superseded ==
  \A l, k \in 1 .. issued :
    l < k /\ link[l].user = link[k].user /\ ~link[l].used => link[l].expires <= link[k].created

(* Sessions start with used links only, one with each. *)
Spent ==
  \A l \in Links :
    /\ sessions[l] <= 1
    /\ l \in 1 .. issued /\ ~link[l].used => sessions[l] = 0
    /\ l > issued => sessions[l] = 0

LinksInv ==
  /\ LinksTypeOK /\ Clock /\ Arguments /\ UserLocks /\ LinkLocks /\ Findings
  /\ Superseded /\ Spent /\ RateLimited

(* The steps of a call that leave the rows alone. *)
Uncommitted(c) ==
  \/ \E u \in Accounts : BeginIssue(c, u)
  \/ LockUser(c) \/ CheckRateLimit(c) \/ InvalidateUserMagicLinkTokens(c)
  \/ \E l \in 1 .. issued : MagicLinkTokenByHash(c, l)
  \/ BeginVerify(c) \/ ConsumeMagicLinkToken(c) \/ AbortLinkCall(c)

LEMMA NextSteps ==
  LinksNext <=>
    Tick \/ \E c \in LinkCalls : Uncommitted(c) \/ CreateMagicLinkToken(c) \/ CommitVerify(c)
BY Zenon DEF LinksNext, Uncommitted

(* What is counted, and times, are numbers. *)
LEMMA Numbers ==
  ASSUME LinksTypeOK
  PROVE  /\ now \in Nat /\ issued \in Nat /\ begun \in [LinkCalls -> Nat]
         /\ \A l \in 1 .. issued : /\ l \in Links
                                   /\ link[l].created \in Nat /\ link[l].expires \in Nat
                                   /\ link[l].at \in Nat
BY TimesAssumption, LinksAssumption DEF LinksTypeOK, Time, Links, Row

LEMMA QuietRows ==
  ASSUME NEW c \in LinkCalls, Uncommitted(c)
  PROVE  UNCHANGED <<now, issued, link, verified, sessions>>
BY DEF Uncommitted, BeginIssue, LockUser, CheckRateLimit, InvalidateUserMagicLinkTokens,
   MagicLinkTokenByHash, BeginVerify, ConsumeMagicLinkToken, AbortLinkCall, RollbackLinkCall,
   FinishLinkCall, Advance, linkTable

(* The inductive invariant holds before the first link. *)
LEMMA LinksInitInv == LinksInit => LinksInv
<1> SUFFICES ASSUME LinksInit PROVE LinksInv
  OBVIOUS
<1>1. LinksTypeOK
  BY TimesAssumption, LinksAssumption
     DEF LinksInit, LinksTypeOK, Links, Row, NoRow, Time, NoLink, InTx
<1>2. Clock /\ Arguments /\ UserLocks /\ LinkLocks
  BY TimesAssumption, LinksAssumption
  DEF LinksInit, Clock, Arguments, UserLocks, LinkLocks, HoldsLock, InTx
<1>3. Findings /\ Superseded /\ Spent /\ RateLimited
  BY DEF LinksInit, Findings, Replaced, Spaced, Superseded, Spent, RateLimited
<1>4. QED BY <1>1, <1>2, <1>3 DEF LinksInv
-----------------------------------------------------------------------------
(* The rows after a link was issued: those the call holds are used, and    *)
(* there is a new one that is not.                                         *)
AfterIssue(c) ==
  /\ issued' = issued + 1 /\ issued' \in Links /\ issued \in Nat
  /\ who[c] \in Accounts
  /\ \A l \in 1 .. issued :
       /\ l \in Links /\ l # issued'
       /\ link'[l].used <=> link[l].used \/ l \in lockedLinks[c]
       /\ link'[l].user = link[l].user /\ link'[l].created = link[l].created
       /\ link'[l].expires = link[l].expires /\ link'[l].at = link[l].at
  /\ link'[issued'].user = who[c] /\ link'[issued'].created = begun[c]
  /\ link'[issued'].at = now /\ ~link'[issued'].used
  /\ link' \in [Links -> Row]

LEMMA IssuedRows ==
  ASSUME LinksInv, NEW c \in LinkCalls, CreateMagicLinkToken(c)
  PROVE  AfterIssue(c)
<1> USE DEF LinksInv
<1>1. issued' = issued + 1 /\ issued' \in Links /\ issued \in Nat /\ who[c] \in Accounts
  BY LinksAssumption DEF CreateMagicLinkToken, LinksTypeOK, Links, Arguments
<1>2. issued' \notin lockedLinks[c]
  BY <1>1 DEF LinkLocks
<1>3. link'[issued'] = [user |-> who[c], created |-> begun[c], expires |-> now + TTL,
                        used |-> FALSE, at |-> now]
  BY <1>1, <1>2 DEF CreateMagicLinkToken
<1>4. ASSUME NEW l \in Links, l # issued'
      PROVE  link'[l] = IF l \in lockedLinks[c] THEN [link[l] EXCEPT !.used = TRUE] ELSE link[l]
  BY <1>1, <1>4 DEF CreateMagicLinkToken
<1>5. \A l \in Links : link[l] \in Row
  BY DEF LinksTypeOK
<1>6. ASSUME NEW l \in Links, l # issued'
      PROVE  /\ link'[l] \in Row
             /\ link'[l].used <=> link[l].used \/ l \in lockedLinks[c]
             /\ link'[l].user = link[l].user /\ link'[l].created = link[l].created
             /\ link'[l].expires = link[l].expires /\ link'[l].at = link[l].at
  BY <1>4, <1>5, <1>6 DEF Row
<1>7. link'[issued'] \in Row
  BY <1>1, <1>3, TimesAssumption DEF Row, LinksTypeOK, Time
<1>8. link' \in [Links -> Row]
  <2>1. \A l \in Links : link'[l] \in Row
    BY <1>6, <1>7
  <2>2. QED BY <2>1 DEF CreateMagicLinkToken
<1>9. \A l \in 1 .. issued : l \in Links /\ l # issued'
  BY <1>1, LinksAssumption DEF Links
<1>10. QED BY <1>1, <1>3, <1>6, <1>8, <1>9 DEF AfterIssue

(* The rows after a verification: the link that was presented is used.     *)
AfterVerification(c) ==
  /\ presented[c] \in 1 .. issued /\ presented[c] \in Links
  /\ lockedLinks[c] = {presented[c]}
  /\ link[presented[c]].user \in Accounts
  /\ \A l \in 1 .. issued : l \in Links
  /\ \A l \in Links :
       /\ link'[l].used <=> link[l].used \/ l = presented[c]
       /\ link'[l].user = link[l].user /\ link'[l].created = link[l].created
       /\ link'[l].expires = link[l].expires /\ link'[l].at = link[l].at
       /\ sessions'[l] = IF l = presented[c] THEN sessions[l] + 1 ELSE sessions[l]
  /\ link' \in [Links -> Row] /\ sessions' \in [Links -> Nat]

LEMMA VerifiedRows ==
  ASSUME LinksInv, NEW c \in LinkCalls, CommitVerify(c)
  PROVE  AfterVerification(c)
<1> USE DEF LinksInv
<1>1. /\ presented[c] \in 1 .. issued /\ presented[c] \in Links
      /\ lockedLinks[c] = {presented[c]}
  BY LinksAssumption DEF CommitVerify, Arguments, LinkLocks, LinksTypeOK, Links
<1>2. \A l \in Links : link[l] \in Row
  BY DEF LinksTypeOK
<1>3. ASSUME NEW l \in Links
      PROVE  link'[l] = IF l = presented[c] THEN [link[l] EXCEPT !.used = TRUE] ELSE link[l]
  BY <1>1 DEF CommitVerify, LinksTypeOK
<1>4. ASSUME NEW l \in Links
      PROVE  /\ link'[l] \in Row
             /\ link'[l].used <=> link[l].used \/ l = presented[c]
             /\ link'[l].user = link[l].user /\ link'[l].created = link[l].created
             /\ link'[l].expires = link[l].expires /\ link'[l].at = link[l].at
  BY <1>2, <1>3 DEF Row
<1>5. link' \in [Links -> Row]
  <2>1. \A l \in Links : link'[l] \in Row
    BY <1>4
  <2>2. QED BY <2>1 DEF CommitVerify, LinksTypeOK
<1>6. /\ sessions' \in [Links -> Nat]
      /\ \A l \in Links : sessions'[l] = IF l = presented[c] THEN sessions[l] + 1 ELSE sessions[l]
  BY <1>1 DEF CommitVerify, LinksTypeOK
<1>7. link[presented[c]].user \in Accounts
  BY <1>1 DEF Arguments
<1>8. \A l \in 1 .. issued : l \in Links
  BY LinksAssumption DEF LinksTypeOK, Links
<1>9. QED BY <1>1, <1>4, <1>5, <1>6, <1>7, <1>8 DEF AfterVerification
-----------------------------------------------------------------------------
(* Every step keeps the state well-typed. *)
LEMMA LinksTypeStep ==
  ASSUME LinksInv, [LinksNext]_linkVars
  PROVE  LinksTypeOK'
<1>1. ASSUME NEW c \in LinkCalls, CreateMagicLinkToken(c)
      PROVE  issued' \in 0 .. MaxLinks /\ link' \in [Links -> Row]
  <2>1. issued' \in Links /\ link' \in [Links -> Row]
    BY <1>1, IssuedRows DEF AfterIssue
  <2>2. QED BY <2>1, LinksAssumption DEF Links
<1>2. ASSUME NEW c \in LinkCalls, CommitVerify(c)
      PROVE  /\ link' \in [Links -> Row] /\ sessions' \in [Links -> Nat]
             /\ verified' \subseteq Accounts
  <2>1. /\ link' \in [Links -> Row] /\ sessions' \in [Links -> Nat]
        /\ link[presented[c]].user \in Accounts
    BY <1>2, VerifiedRows DEF AfterVerification
  <2>2. QED BY <1>2, <2>1 DEF CommitVerify, LinksInv, LinksTypeOK
<1> USE TimesAssumption, LinksAssumption DEF LinksInv, LinksTypeOK, Time, InTx
<1>3. CASE UNCHANGED linkVars
  BY <1>3 DEF linkVars, linkTable, linkCalls
<1>4. CASE Tick
  BY <1>4 DEF Tick, linkTable, linkCalls
<1>5. ASSUME NEW c \in LinkCalls, FinishLinkCall(c),
             issued' \in 0 .. MaxLinks, link' \in [Links -> Row],
             verified' \subseteq Accounts, sessions' \in [Links -> Nat]
      PROVE  LinksTypeOK'
  BY <1>5 DEF FinishLinkCall, NoLink
<1>6. ASSUME NEW c \in LinkCalls, Uncommitted(c) PROVE LinksTypeOK'
  <2>1. UNCHANGED <<now, issued, link, verified, sessions>>
    BY <1>6, QuietRows
  <2>2. CASE FinishLinkCall(c)
    BY <1>5, <2>1, <2>2
  <2>3. ASSUME NEW u \in Accounts, BeginIssue(c, u) PROVE LinksTypeOK'
    BY <2>1, <2>3 DEF BeginIssue
  <2>4. ASSUME NEW l \in 1 .. issued, MagicLinkTokenByHash(c, l) PROVE LinksTypeOK'
    <3>1. l \in Links
      BY DEF Links
    <3>2. QED BY <2>1, <2>4, <3>1 DEF MagicLinkTokenByHash
  <2>5. CASE LockUser(c)
    BY <2>1, <2>5 DEF LockUser, Advance
  <2>6. CASE CheckRateLimit(c)
    BY <2>1, <2>2, <2>6 DEF CheckRateLimit, Advance, RollbackLinkCall
  <2>7. CASE InvalidateUserMagicLinkTokens(c)
    <3>1. Invalidated(c) \subseteq Links
      BY DEF Invalidated, LinksOf, Links
    <3>2. QED BY <2>1, <2>7, <3>1 DEF InvalidateUserMagicLinkTokens, Advance
  <2>8. CASE BeginVerify(c)
    BY <2>1, <2>8, <1>6 DEF BeginVerify
  <2>9. CASE ConsumeMagicLinkToken(c)
    <3>1. progress[c] = "verify" /\ presented[c] \in Links
      BY <2>9 DEF ConsumeMagicLinkToken, Arguments, Links
    <3>2. QED BY <2>1, <2>2, <2>9, <3>1 DEF ConsumeMagicLinkToken, Advance, RollbackLinkCall
  <2>10. CASE AbortLinkCall(c)
    BY <2>2, <2>10 DEF AbortLinkCall, RollbackLinkCall
  <2>11. QED
    BY <1>6, <2>3, <2>4, <2>5, <2>6, <2>7, <2>8, <2>9, <2>10 DEF Uncommitted
<1>7. ASSUME NEW c \in LinkCalls, CreateMagicLinkToken(c) PROVE LinksTypeOK'
  BY <1>1, <1>5, <1>7 DEF CreateMagicLinkToken
<1>8. ASSUME NEW c \in LinkCalls, CommitVerify(c) PROVE LinksTypeOK'
  BY <1>2, <1>5, <1>8 DEF CommitVerify
<1>9. QED BY <1>3, <1>4, <1>6, <1>7, <1>8, NextSteps
-----------------------------------------------------------------------------
(* Transactions do not outlive TxTime, so neither does the time between a  *)
(* link's created_at and its return.                                       *)
LEMMA ClockStep ==
  ASSUME LinksInv, [LinksNext]_linkVars
  PROVE  Clock'
<1> USE TimesAssumption DEF LinksInv, Clock
<1>1. /\ now \in Nat /\ issued \in Nat /\ begun \in [LinkCalls -> Nat]
      /\ progress \in [LinkCalls -> {"idle", "found"} \cup InTx]
  BY LinksAssumption DEF LinksTypeOK, Time
<1>2. \A l \in 1 .. issued : link[l].created \in Nat /\ link[l].at \in Nat
  BY LinksAssumption DEF LinksTypeOK, Links, Row, Time
<1>3. CASE UNCHANGED linkVars
  BY <1>3 DEF linkVars, linkTable, linkCalls
<1>4. CASE Tick
  BY <1>1, <1>2, <1>4 DEF Tick, linkTable, linkCalls
<1>5. ASSUME NEW c \in LinkCalls,
             progress' = [progress EXCEPT ![c] = "idle"], begun' = [begun EXCEPT ![c] = 0],
             UNCHANGED now
      PROVE  /\ \A d \in LinkCalls : begun'[d] <= now'
             /\ \A d \in LinkCalls : progress'[d] \in InTx => now' <= begun'[d] + TxTime
  BY <1>1, <1>5 DEF InTx
<1>6. ASSUME NEW c \in LinkCalls, Uncommitted(c) PROVE Clock'
  <2>1. UNCHANGED <<now, issued, link>>
    BY <1>6, QuietRows
  <2>2. CASE FinishLinkCall(c)
    BY <1>5, <2>1, <2>2 DEF FinishLinkCall
  <2>3. CASE UNCHANGED begun /\ progress[c] \in InTx
             /\ \A d \in LinkCalls \ {c} : progress'[d] = progress[d]
    BY <1>1, <2>1, <2>3
  <2>4. CASE begun' = [begun EXCEPT ![c] = now]
             /\ \A d \in LinkCalls \ {c} : progress'[d] = progress[d]
    BY <1>1, <2>1, <2>4
  <2>5. ASSUME NEW l \in 1 .. issued, MagicLinkTokenByHash(c, l) PROVE Clock'
    BY <1>1, <2>1, <2>5 DEF MagicLinkTokenByHash, InTx
  <2>6. QED
    BY <1>1, <1>6, <2>2, <2>3, <2>4, <2>5 DEF Uncommitted, BeginIssue, LockUser, CheckRateLimit,
       InvalidateUserMagicLinkTokens, BeginVerify, ConsumeMagicLinkToken, AbortLinkCall,
       RollbackLinkCall, Advance, InTx
<1>7. ASSUME NEW c \in LinkCalls, CreateMagicLinkToken(c) PROVE Clock'
  <2>1. /\ issued' = issued + 1
        /\ link'[issued'].created = begun[c] /\ link'[issued'].at = now
        /\ \A l \in 1 .. issued :
             link'[l].created = link[l].created /\ link'[l].at = link[l].at
    BY <1>7, IssuedRows DEF AfterIssue
  <2>2. now <= begun[c] + TxTime /\ FinishLinkCall(c)
    BY <1>7 DEF CreateMagicLinkToken, InTx
  <2>3. UNCHANGED now
    BY <2>2 DEF FinishLinkCall
  <2>4. \A l \in 1 .. issued' : link'[l].created <= now' /\ link'[l].at <= link'[l].created + TxTime
    BY <1>1, <1>2, <2>1, <2>2, <2>3
  <2>5. QED BY <1>5, <2>2, <2>4 DEF FinishLinkCall
<1>8. ASSUME NEW c \in LinkCalls, CommitVerify(c) PROVE Clock'
  <2>1. \A l \in 1 .. issued : link'[l].created = link[l].created /\ link'[l].at = link[l].at
    BY <1>8, VerifiedRows DEF AfterVerification
  <2>2. FinishLinkCall(c) /\ UNCHANGED <<now, issued>>
    BY <1>8 DEF CommitVerify, FinishLinkCall
  <2>3. QED BY <1>5, <2>1, <2>2 DEF FinishLinkCall
<1>9. QED BY <1>3, <1>4, <1>6, <1>7, <1>8, NextSteps

(* Calls are about accounts and links that there are, and one call at most *)
(* has the lock of an account.                                             *)
LEMMA UserLocksStep ==
  ASSUME LinksInv, [LinksNext]_linkVars
  PROVE  Arguments' /\ UserLocks'
<1> USE DEF LinksInv, Arguments, UserLocks, HoldsLock
<1>1. /\ progress \in [LinkCalls -> {"idle", "found"} \cup InTx]
      /\ who \in [LinkCalls -> Accounts \cup {NoAccount}]
      /\ presented \in [LinkCalls -> Links \cup {NoLink}]
      /\ issued \in Nat
  BY LinksAssumption DEF LinksTypeOK
<1>2. CASE UNCHANGED linkVars
  BY <1>2 DEF linkVars, linkTable, linkCalls
<1>3. CASE Tick
  BY <1>3 DEF Tick, linkTable, linkCalls
<1>4. ASSUME NEW c \in LinkCalls, FinishLinkCall(c),
             issued' \in Nat, issued <= issued',
             \A l \in 1 .. issued' : link'[l].user \in Accounts
      PROVE  Arguments' /\ UserLocks'
  BY <1>1, <1>4 DEF FinishLinkCall
<1>5. ASSUME NEW c \in LinkCalls, Uncommitted(c) PROVE Arguments' /\ UserLocks'
  <2>1. UNCHANGED <<issued, link>>
    BY <1>5, QuietRows
  <2>2. CASE FinishLinkCall(c)
    BY <1>1, <1>4, <2>1, <2>2
  <2>3. ASSUME NEW u \in Accounts, BeginIssue(c, u) PROVE Arguments' /\ UserLocks'
    BY <1>1, <2>1, <2>3 DEF BeginIssue
  <2>4. ASSUME NEW l \in 1 .. issued, MagicLinkTokenByHash(c, l) PROVE Arguments' /\ UserLocks'
    BY <1>1, <2>1, <2>4 DEF MagicLinkTokenByHash
  <2>5. CASE LockUser(c)
    BY <1>1, <2>1, <2>5 DEF LockUser, Advance
  <2>6. CASE CheckRateLimit(c) \/ InvalidateUserMagicLinkTokens(c)
    BY <1>1, <2>1, <2>2, <2>6
       DEF CheckRateLimit, InvalidateUserMagicLinkTokens, Advance, RollbackLinkCall
  <2>7. CASE BeginVerify(c)
    BY <1>1, <2>1, <2>7 DEF BeginVerify
  <2>8. CASE ConsumeMagicLinkToken(c)
    BY <1>1, <2>1, <2>2, <2>8 DEF ConsumeMagicLinkToken, Advance, RollbackLinkCall
  <2>9. CASE AbortLinkCall(c)
    BY <2>2, <2>9 DEF AbortLinkCall, RollbackLinkCall
  <2>10. QED BY <1>5, <2>3, <2>4, <2>5, <2>6, <2>7, <2>8, <2>9 DEF Uncommitted
<1>6. ASSUME NEW c \in LinkCalls, CreateMagicLinkToken(c) PROVE Arguments' /\ UserLocks'
  <2>1. /\ issued' = issued + 1 /\ link'[issued'].user \in Accounts
        /\ \A l \in 1 .. issued : link'[l].user = link[l].user
    BY <1>6, IssuedRows DEF AfterIssue
  <2>2. \A l \in 1 .. issued' : link'[l].user \in Accounts
    BY <1>1, <2>1
  <2>3. FinishLinkCall(c)
    BY <1>6 DEF CreateMagicLinkToken
  <2>4. QED BY <1>1, <1>4, <2>1, <2>2, <2>3
<1>7. ASSUME NEW c \in LinkCalls, CommitVerify(c) PROVE Arguments' /\ UserLocks'
  <2>1. \A l \in 1 .. issued : link'[l].user = link[l].user
    BY <1>7, VerifiedRows DEF AfterVerification
  <2>2. QED BY <1>1, <1>4, <1>7, <2>1 DEF CommitVerify
<1>8. QED BY <1>2, <1>3, <1>5, <1>6, <1>7, NextSteps

(* Rows that open transactions have changed are unused and apart.          *)
LEMMA LinkLocksStep ==
  ASSUME LinksInv, [LinksNext]_linkVars
  PROVE  LinkLocks'
<1> USE DEF LinksInv, LinkLocks
<1>1. /\ progress \in [LinkCalls -> {"idle", "found"} \cup InTx]
      /\ presented \in [LinkCalls -> Links \cup {NoLink}]
      /\ lockedLinks \in [LinkCalls -> SUBSET Links]
      /\ issued \in Nat
  BY LinksAssumption DEF LinksTypeOK
<1>2. CASE UNCHANGED linkVars
  BY <1>2 DEF linkVars, linkTable, linkCalls
<1>3. CASE Tick
  BY <1>3 DEF Tick, linkTable, linkCalls
<1>4. ASSUME NEW c \in LinkCalls, FinishLinkCall(c),
             \A d \in LinkCalls \ {c} :
               \A l \in lockedLinks[d] : l \in 1 .. issued' /\ ~link'[l].used
      PROVE  LinkLocks'
  BY <1>1, <1>4 DEF FinishLinkCall
<1>5. ASSUME NEW c \in LinkCalls, Uncommitted(c) PROVE LinkLocks'
  <2>1. UNCHANGED <<issued, link>>
    BY <1>5, QuietRows
  <2>2. CASE FinishLinkCall(c)
    BY <1>4, <2>1, <2>2
  <2>3. ASSUME NEW to \in {"lock", "locked", "allowed", "found", "verify"},
               progress' = [progress EXCEPT ![c] = to],
               progress[c] \in {"idle", "lock", "locked", "found"}, UNCHANGED lockedLinks,
               \A d \in LinkCalls \ {c} : presented'[d] = presented[d]
        PROVE  LinkLocks'
    BY <1>1, <2>1, <2>3
  <2>4. ASSUME NEW u \in Accounts, BeginIssue(c, u) PROVE LinkLocks'
    BY <2>3, <2>4 DEF BeginIssue
  <2>5. ASSUME NEW l \in 1 .. issued, MagicLinkTokenByHash(c, l) PROVE LinkLocks'
    BY <1>1, <2>3, <2>5 DEF MagicLinkTokenByHash
  <2>6. CASE LockUser(c) \/ CheckRateLimit(c) \/ BeginVerify(c)
    BY <2>2, <2>3, <2>6 DEF LockUser, CheckRateLimit, BeginVerify, Advance, RollbackLinkCall
  <2>7. ASSUME NEW to \in {"invalidated", "consumed"}, NEW S \in SUBSET (1 .. issued),
               progress' = [progress EXCEPT ![c] = to],
               lockedLinks' = [lockedLinks EXCEPT ![c] = S], UNCHANGED presented,
               \A l \in S : LinkUnlocked(c, l) /\ ~link[l].used,
               to = "consumed" => S = {presented[c]}
        PROVE  LinkLocks'
    BY <1>1, <2>1, <2>7 DEF LinkUnlocked
  <2>8. CASE InvalidateUserMagicLinkTokens(c)
    <3>1. Invalidated(c) \subseteq 1 .. issued
      BY DEF Invalidated, LinksOf
    <3>2. \A l \in Invalidated(c) : LinkUnlocked(c, l) /\ ~link[l].used
      BY <2>8 DEF InvalidateUserMagicLinkTokens, Invalidated
    <3>3. QED BY <2>7, <2>8, <3>1, <3>2 DEF InvalidateUserMagicLinkTokens, Advance
  <2>9. CASE ConsumeMagicLinkToken(c)
    <3>1. presented[c] \in 1 .. issued
      BY <2>9 DEF ConsumeMagicLinkToken, Arguments
    <3>2. CASE LinkConsumable(c)
      <4>1. LinkUnlocked(c, presented[c]) /\ ~link[presented[c]].used
        BY <2>9, <3>2 DEF ConsumeMagicLinkToken, LinkConsumable
      <4>2. Advance(c, "consumed")
            /\ lockedLinks' = [lockedLinks EXCEPT ![c] = {presented[c]}]
        BY <2>9, <3>2 DEF ConsumeMagicLinkToken
      <4>3. {presented[c]} \in SUBSET (1 .. issued)
            /\ \A l \in {presented[c]} : LinkUnlocked(c, l) /\ ~link[l].used
        BY <3>1, <4>1
      <4>4. progress' = [progress EXCEPT ![c] = "consumed"] /\ UNCHANGED presented
        BY <4>2 DEF Advance
      <4>5. QED BY <2>7, <4>2, <4>3, <4>4
    <3>3. CASE ~LinkConsumable(c)
      BY <2>2, <2>9, <3>3 DEF ConsumeMagicLinkToken, RollbackLinkCall
    <3>4. QED BY <3>2, <3>3
  <2>10. CASE AbortLinkCall(c)
    BY <2>2, <2>10 DEF AbortLinkCall, RollbackLinkCall
  <2>11. QED BY <1>5, <2>4, <2>5, <2>6, <2>8, <2>9, <2>10 DEF Uncommitted
<1>6. ASSUME NEW c \in LinkCalls, CreateMagicLinkToken(c) PROVE LinkLocks'
  <2>1. issued' = issued + 1
        /\ \A l \in 1 .. issued : link'[l].used <=> link[l].used \/ l \in lockedLinks[c]
    BY <1>6, IssuedRows DEF AfterIssue
  <2>2. FinishLinkCall(c)
    BY <1>6 DEF CreateMagicLinkToken
  <2>3. QED BY <1>1, <1>4, <2>1, <2>2
<1>7. ASSUME NEW c \in LinkCalls, CommitVerify(c) PROVE LinkLocks'
  <2>1. /\ presented[c] \in lockedLinks[c]
        /\ \A l \in 1 .. issued : link'[l].used <=> link[l].used \/ l = presented[c]
    BY <1>7, VerifiedRows DEF AfterVerification
  <2>2. FinishLinkCall(c) /\ UNCHANGED issued
    BY <1>7 DEF CommitVerify
  <2>3. QED BY <1>1, <1>4, <2>1, <2>2
<1>8. QED BY <1>2, <1>3, <1>5, <1>6, <1>7, NextSteps
-----------------------------------------------------------------------------
(* What a call has found out about its account's links stays so while it   *)
(* goes on: links only get used, time only passes, and a new link of the   *)
(* account would need the lock.                                            *)
LEMMA KeptFinding ==
  ASSUME LinksInv, NEW c \in LinkCalls, now' \in Nat, now <= now',
         UNCHANGED <<progress[c], who[c], begun[c], lockedLinks[c]>>,
         \A l \in LinksOf(who[c])' :
           /\ l \in LinksOf(who[c])
           /\ link[l].used => link'[l].used
           /\ link'[l].created = link[l].created /\ link'[l].expires = link[l].expires
  PROVE  (Replaced(c) /\ Spaced(c))'
<1>1. now \in Nat /\ RateLimit \in Nat /\ \A l \in 1 .. issued : link[l].created \in Nat
  BY TimesAssumption, LinksAssumption DEF LinksInv, LinksTypeOK, Time, Links, Row
<1>2. Replaced(c) /\ Spaced(c)
  BY DEF LinksInv, Findings
<1>3. Replaced(c)'
  BY <1>2 DEF Replaced
<1>4. Spaced(c)'
  BY <1>1, <1>2 DEF Spaced, LinksOf
<1>5. QED BY <1>3, <1>4

(* Every step keeps what calls have found out. *)
LEMMA FindingsStep ==
  ASSUME LinksInv, [LinksNext]_linkVars
  PROVE  Findings'
<1>1. /\ now \in Nat /\ begun \in [LinkCalls -> Nat]
      /\ progress \in [LinkCalls -> {"idle", "found"} \cup InTx]
      /\ who \in [LinkCalls -> Accounts \cup {NoAccount}]
      /\ lockedLinks \in [LinkCalls -> SUBSET Links]
  BY TimesAssumption DEF LinksInv, LinksTypeOK, Time
<1>2. ASSUME now' \in Nat, now <= now', UNCHANGED <<issued, link, linkCalls>>
      PROVE  Findings'
  <2>1. ASSUME NEW c \in LinkCalls PROVE (Replaced(c) /\ Spaced(c))'
    BY <1>2, KeptFinding DEF linkCalls, LinksOf
  <2>2. QED BY <2>1 DEF Findings
<1>3. CASE UNCHANGED linkVars
  BY <1>1, <1>2, <1>3 DEF linkVars, linkTable
<1>4. CASE Tick
  BY <1>1, <1>2, <1>4 DEF Tick, linkTable
<1>5. ASSUME NEW c \in LinkCalls, Uncommitted(c) PROVE Findings'
  <2>1. UNCHANGED <<now, issued, link>>
    BY <1>5, QuietRows
  <2>2. ASSUME NEW d \in LinkCalls \ {c} PROVE (Replaced(d) /\ Spaced(d))'
    <3>1. UNCHANGED <<progress[d], who[d], begun[d], lockedLinks[d]>>
      BY <1>1, <1>5 DEF Uncommitted, BeginIssue, LockUser, CheckRateLimit,
         InvalidateUserMagicLinkTokens, MagicLinkTokenByHash, BeginVerify,
         ConsumeMagicLinkToken, AbortLinkCall, RollbackLinkCall, FinishLinkCall, Advance
    <3>2. QED BY <1>1, <2>1, <3>1, KeptFinding DEF LinksOf
  <2>3. (Replaced(c) /\ Spaced(c))'
    <3>1. CASE InvalidateUserMagicLinkTokens(c)
      <4>1. /\ progress[c] = "allowed" /\ progress'[c] = "invalidated"
            /\ UNCHANGED <<who, begun>> /\ lockedLinks'[c] = Invalidated(c)
        BY <1>1, <3>1 DEF InvalidateUserMagicLinkTokens, Advance
      <4>2. Replaced(c)'
        <5>1. \A l \in 1 .. issued : link[l].expires \in Nat
          BY LinksAssumption DEF LinksInv, LinksTypeOK, Links, Row
        <5>2. QED BY <1>1, <2>1, <4>1, <5>1 DEF Replaced, Invalidated, LinksOf
      <4>3. Spaced(c)'
        BY <2>1, <4>1 DEF Spaced, LinksOf, LinksInv, Findings
      <4>4. QED BY <4>2, <4>3
    <3>2. CASE CheckRateLimit(c) /\ progress'[c] = "allowed"
      <4>1. ~Limited(who[c]) /\ UNCHANGED who
        BY <3>2, <1>1 DEF CheckRateLimit, RollbackLinkCall, FinishLinkCall, Advance
      <4>2. \A l \in 1 .. issued : link[l].created \in Nat
        BY LinksAssumption DEF LinksInv, LinksTypeOK, Time, Links, Row
      <4>3. Spaced(c)'
        BY <1>1, <2>1, <4>1, <4>2, TimesAssumption DEF Spaced, Limited, LinksOf
      <4>4. QED BY <3>2, <4>3 DEF Replaced
    <3>3. CASE progress'[c] \notin {"allowed", "invalidated"}
      BY <3>3 DEF Replaced, Spaced
    <3>4. QED
      BY <1>1, <1>5, <3>1, <3>2, <3>3 DEF Uncommitted, BeginIssue, LockUser, CheckRateLimit,
         MagicLinkTokenByHash, BeginVerify, ConsumeMagicLinkToken, AbortLinkCall,
         RollbackLinkCall, FinishLinkCall, Advance
  <2>4. QED BY <2>2, <2>3 DEF Findings
<1>6. ASSUME NEW c \in LinkCalls, FinishLinkCall(c),
             \A d \in LinkCalls \ {c} : \A l \in LinksOf(who[d])' :
               HoldsLock(d, who[d]) =>
                 /\ l \in LinksOf(who[d])
                 /\ link[l].used => link'[l].used
                 /\ link'[l].created = link[l].created /\ link'[l].expires = link[l].expires
      PROVE  Findings'
  <2>1. ASSUME NEW d \in LinkCalls \ {c} PROVE (Replaced(d) /\ Spaced(d))'
    <3>1. UNCHANGED <<now, progress[d], who[d], begun[d], lockedLinks[d]>>
      BY <1>1, <1>6 DEF FinishLinkCall
    <3>2. CASE HoldsLock(d, who[d])
      BY <1>1, <1>6, <3>1, <3>2, KeptFinding
    <3>3. CASE ~HoldsLock(d, who[d])
      BY <3>1, <3>3 DEF HoldsLock, Replaced, Spaced
    <3>4. QED BY <3>2, <3>3
  <2>2. (Replaced(c) /\ Spaced(c))'
    BY <1>1, <1>6 DEF FinishLinkCall, Replaced, Spaced
  <2>3. QED BY <2>1, <2>2 DEF Findings
<1>7. ASSUME NEW c \in LinkCalls, CreateMagicLinkToken(c) PROVE Findings'
  <2>1. AfterIssue(c) /\ FinishLinkCall(c) /\ progress[c] = "invalidated"
    BY <1>7, IssuedRows DEF CreateMagicLinkToken
  <2>2. ASSUME NEW d \in LinkCalls \ {c}, HoldsLock(d, who[d])
        PROVE  who[d] # who[c] /\ who'[d] = who[d]
    BY <1>1, <2>1, <2>2 DEF LinksInv, UserLocks, HoldsLock, AfterIssue, FinishLinkCall
  <2>3. ASSUME NEW d \in LinkCalls \ {c}, HoldsLock(d, who[d]), NEW l \in LinksOf(who[d])'
        PROVE  /\ l \in LinksOf(who[d])
               /\ link[l].used => link'[l].used
               /\ link'[l].created = link[l].created /\ link'[l].expires = link[l].expires
    <3>1. l \in 1 .. issued' /\ link'[l].user = who[d]
      BY <2>2, <2>3 DEF LinksOf
    <3>2. l # issued' /\ l \in 1 .. issued
      BY <2>1, <2>2, <2>3, <3>1 DEF AfterIssue
    <3>3. QED BY <2>1, <3>1, <3>2 DEF AfterIssue, LinksOf
  <2>4. QED BY <1>6, <2>1, <2>3
<1>8. ASSUME NEW c \in LinkCalls, CommitVerify(c) PROVE Findings'
  <2>1. AfterVerification(c) /\ FinishLinkCall(c) /\ UNCHANGED issued
    BY <1>8, VerifiedRows DEF CommitVerify
  <2>2. ASSUME NEW d \in LinkCalls \ {c} PROVE who'[d] = who[d]
    BY <1>1, <2>1 DEF FinishLinkCall
  <2>3. QED BY <1>6, <2>1, <2>2 DEF AfterVerification, LinksOf
<1>9. QED BY <1>3, <1>4, <1>5, <1>7, <1>8, NextSteps
-----------------------------------------------------------------------------
(* A link is issued only after those of its account that it could be       *)
(* confused with, and at a distance from them.                             *)
LEMMA IssueStep ==
  ASSUME LinksInv, NEW c \in LinkCalls, CreateMagicLinkToken(c)
  PROVE  Superseded' /\ Spent' /\ RateLimited'
<1>1. AfterIssue(c)
  BY IssuedRows
<1>2. /\ progress[c] = "invalidated" /\ sessions' = sessions
  BY DEF CreateMagicLinkToken
<1>3. /\ now \in Nat /\ begun[c] \in Nat /\ begun[c] <= now
      /\ RateLimit \in Nat /\ TxTime \in Nat
      /\ \A l \in 1 .. issued : /\ link[l].expires \in Nat /\ link[l].created \in Nat
                                /\ link[l].at \in Nat
                                /\ link[l].at <= link[l].created + TxTime
  BY TimesAssumption, LinksAssumption DEF LinksInv, Clock, LinksTypeOK, Time, Links, Row
<1>4. ASSUME NEW l \in 1 .. issued, link[l].user = who[c]
      PROVE  /\ link[l].used \/ link[l].expires <= begun[c] \/ l \in lockedLinks[c]
             /\ link[l].created + RateLimit <= now
  BY <1>2, <1>4 DEF LinksInv, Findings, Replaced, Spaced, LinksOf
<1>5. Superseded'
  <2> SUFFICES ASSUME NEW l \in 1 .. issued', NEW k \in 1 .. issued', l < k,
                      link'[l].user = link'[k].user, ~link'[l].used
               PROVE  link'[l].expires <= link'[k].created
    BY DEF Superseded
  <2>1. l \in 1 .. issued /\ ~link[l].used /\ link'[l].expires = link[l].expires
        /\ link'[l].user = link[l].user /\ l \notin lockedLinks[c]
    BY <1>1 DEF AfterIssue
  <2>2. CASE k = issued'
    BY <1>1, <1>4, <2>1, <2>2 DEF AfterIssue
  <2>3. CASE k # issued'
    <3>1. k \in 1 .. issued
      BY <1>1, <2>3 DEF AfterIssue
    <3>2. link'[k].user = link[k].user /\ link'[k].created = link[k].created
      BY <1>1, <3>1 DEF AfterIssue
    <3>3. QED BY <2>1, <3>1, <3>2 DEF LinksInv, Superseded
  <2>4. QED BY <2>2, <2>3
<1>6. RateLimited'
  <2> SUFFICES ASSUME NEW l \in 1 .. issued', NEW k \in 1 .. issued', l < k,
                      link'[l].user = link'[k].user
               PROVE  link'[k].at + TxTime >= link'[l].at + RateLimit
    BY DEF RateLimited
  <2>1. /\ l \in 1 .. issued /\ link'[l].at = link[l].at /\ link'[l].user = link[l].user
    BY <1>1 DEF AfterIssue
  <2>2. CASE k = issued'
    <3>1. link[l].created + RateLimit <= now /\ link'[k].at = now
      BY <1>1, <1>4, <2>1, <2>2 DEF AfterIssue
    <3>2. QED BY <1>3, <2>1, <3>1
  <2>3. CASE k # issued'
    <3>1. k \in 1 .. issued
      BY <1>1, <2>3 DEF AfterIssue
    <3>2. link'[k].user = link[k].user /\ link'[k].at = link[k].at
      BY <1>1, <3>1 DEF AfterIssue
    <3>3. QED BY <2>1, <3>1, <3>2 DEF LinksInv, RateLimited
  <2>4. QED BY <2>2, <2>3
<1>7. Spent'
  BY <1>1, <1>2, LinksAssumption DEF LinksInv, Spent, AfterIssue, Links
<1>8. QED BY <1>5, <1>6, <1>7

(* A verification spends a link that had not been used. *)
LEMMA VerifyStep ==
  ASSUME LinksInv, NEW c \in LinkCalls, CommitVerify(c)
  PROVE  Superseded' /\ Spent' /\ RateLimited'
<1>1. AfterVerification(c) /\ UNCHANGED issued
  BY VerifiedRows DEF CommitVerify
<1>2. sessions[presented[c]] = 0
  BY <1>1 DEF AfterVerification, LinksInv, LinkLocks, Spent
<1>3. Spent'
  <2> SUFFICES ASSUME NEW l \in Links
               PROVE  /\ sessions'[l] <= 1
                      /\ l \in 1 .. issued /\ ~link'[l].used => sessions'[l] = 0
                      /\ l > issued => sessions'[l] = 0
    BY <1>1 DEF Spent
  <2>1. CASE l = presented[c]
    <3>1. sessions'[l] = 1 /\ link'[l].used /\ l \in 1 .. issued
      BY <1>1, <1>2, <2>1 DEF AfterVerification
    <3>2. QED BY <3>1, Numbers DEF LinksInv
  <2>2. CASE l # presented[c]
    BY <1>1, <2>2 DEF AfterVerification, LinksInv, Spent
  <2>3. QED BY <2>1, <2>2
<1>4. Superseded' /\ RateLimited'
  BY <1>1 DEF AfterVerification, LinksInv, Superseded, RateLimited
<1>5. QED BY <1>3, <1>4

(* The inductive invariant is preserved. *)
LEMMA LinksStepInv == LinksInv /\ [LinksNext]_linkVars => LinksInv'
<1> SUFFICES ASSUME LinksInv, [LinksNext]_linkVars PROVE LinksInv'
  OBVIOUS
<1>1. LinksTypeOK' /\ Clock' /\ Arguments' /\ UserLocks' /\ LinkLocks' /\ Findings'
  BY LinksTypeStep, ClockStep, UserLocksStep, LinkLocksStep, FindingsStep
<1>2. CASE UNCHANGED <<issued, link, sessions>>
  BY <1>1, <1>2 DEF LinksInv, Superseded, Spent, RateLimited
<1>3. CASE UNCHANGED linkVars \/ Tick
  BY <1>2, <1>3 DEF linkVars, linkTable, Tick
<1>4. ASSUME NEW c \in LinkCalls, Uncommitted(c) PROVE LinksInv'
  BY <1>2, <1>4, QuietRows
<1>5. ASSUME NEW c \in LinkCalls, CreateMagicLinkToken(c) \/ CommitVerify(c) PROVE LinksInv'
  BY <1>1, <1>5, IssueStep, VerifyStep DEF LinksInv
<1>6. QED BY <1>3, <1>4, <1>5, NextSteps

LEMMA LinksInvariance == LinksSpec => []LinksInv
BY LinksInitInv, LinksStepInv, PTL DEF LinksSpec

(* The rows and the calls have the types they are declared with.           *)
THEOREM LinksTypeCorrect == LinksSpec => []LinksTypeOK
<1>1. LinksInv => LinksTypeOK
  BY DEF LinksInv
<1>2. QED BY <1>1, LinksInvariance, PTL

(* However requests for links race, at most one link of an account works.  *)
THEOREM OneLinkWorks == LinksSpec => []OneUsableLink
<1>1. LinksInv => OneUsableLink
  <2> SUFFICES ASSUME LinksInv, NEW l \in 1 .. issued, NEW k \in 1 .. issued, l # k,
                      link[l].user = link[k].user,
                      ~link[l].used, link[l].expires > now,
                      ~link[k].used, link[k].expires > now
               PROVE  FALSE
    BY DEF OneUsableLink
  <2>1. /\ now \in Nat
        /\ \A i \in 1 .. issued : link[i].expires \in Nat /\ link[i].created \in Nat
                                  /\ link[i].created <= now
    BY Numbers DEF LinksInv, Clock
  <2>2. link[l].expires <= link[k].created \/ link[k].expires <= link[l].created
    <3>1. l < k \/ k < l
      OBVIOUS
    <3>2. QED BY <3>1 DEF LinksInv, Superseded
  <2>3. QED BY <2>1, <2>2
<1>2. QED BY <1>1, LinksInvariance, PTL

(* However verifications race, a link starts at most one session.          *)
THEOREM LinksAreSpentOnce == LinksSpec => []SingleUse
<1>1. LinksInv => SingleUse
  <2>1. LinksInv => \A l \in 1 .. issued : l \in Links
    BY LinksAssumption DEF LinksInv, LinksTypeOK, Links
  <2>2. QED BY <2>1 DEF LinksInv, Spent, SingleUse
<1>2. QED BY <1>1, LinksInvariance, PTL

(* Links of an account keep the distance of the rate limit, but for the    *)
(* time a transaction takes.                                               *)
THEOREM LinksAreSpaced == LinksSpec => []RateLimited
<1>1. LinksInv => RateLimited
  BY DEF LinksInv
<1>2. QED BY <1>1, LinksInvariance, PTL

(* No step starts a session with a link that was replaced while it could   *)
(* be used, also when its verification had begun before.                   *)
THEOREM SupersededStayDead == LinksSpec => SupersededLinksAreDead
<1> DEFINE Dies ==
      \A l \in Links : sessions'[l] # sessions[l] =>
        \A k \in LinksOf(link[l].user) : k > l => link[k].created >= link[l].expires
<1>1. ASSUME LinksInv, [LinksNext]_linkVars PROVE [Dies]_linkVars
  <2>1. CASE UNCHANGED sessions
    BY <2>1
  <2>2. ASSUME NEW c \in LinkCalls, CommitVerify(c) PROVE Dies
    <3>1. AfterVerification(c)
      BY <1>1, <2>2, VerifiedRows
    <3>2. ASSUME NEW l \in Links, sessions'[l] # sessions[l]
          PROVE  l \in 1 .. issued /\ ~link[l].used
      BY <1>1, <3>1, <3>2 DEF AfterVerification, LinksInv, LinkLocks
    <3>3. \A k \in 1 .. issued : link[k].created \in Nat /\ link[k].expires \in Nat
      BY <1>1, LinksAssumption DEF LinksInv, LinksTypeOK, Links, Row, Time
    <3>4. QED BY <1>1, <3>2, <3>3 DEF LinksInv, Superseded, LinksOf
  <2>3. ASSUME NEW c \in LinkCalls, Uncommitted(c) \/ CreateMagicLinkToken(c)
        PROVE  UNCHANGED sessions
    BY <2>3, QuietRows DEF CreateMagicLinkToken
  <2>4. QED
    BY <1>1, <2>1, <2>2, <2>3, NextSteps DEF Tick, linkTable, linkVars
<1>2. QED BY <1>1, LinksInvariance, PTL DEF LinksSpec, SupersededLinksAreDead
-----------------------------------------------------------------------------
(* The refresh tokens and the magic links together: a step of MCAuthTokens *)
(* is of one of them and leaves the other be.                              *)
LEMMA TokensStep == [MCNext]_<<vars, linkVars, part>> => [Next]_vars /\ [LinksNext]_linkVars
<1> SUFFICES ASSUME [MCNext]_<<vars, linkVars, part>>
             PROVE  [Next]_vars /\ [LinksNext]_linkVars
  OBVIOUS
<1>1. CASE \/ \E s \in SessionIds, t \in Tokens : R(SignIn(s, t))
           \/ \E t \in Tokens : R(Expire(t)) \/ R(RevokeRefreshToken(t))
  BY <1>1 DEF R, Next
<1>2. ASSUME NEW c \in Calls,
             \/ \E t \in Tokens : R(BeginRefresh(c, t))
             \/ R(ConsumeRefreshToken(c)) \/ R(CreateRefreshToken(c)) \/ R(CommitRefresh(c))
             \/ \E u \in Users : R(BeginRevokeAll(c, u))
             \/ \E t \in Tokens : R(RevokeRow(c, t))
             \/ R(CommitRevokeAll(c)) \/ R(Abort(c))
      PROVE  [Next]_vars /\ [LinksNext]_linkVars
  BY <1>2 DEF R, Next
<1>3. CASE L(Tick)
  BY <1>3 DEF L, LinksNext
<1>4. ASSUME NEW c \in LinkCalls,
             \/ \E u \in Accounts : L(BeginIssue(c, u))
             \/ L(LockUser(c)) \/ L(CheckRateLimit(c)) \/ L(InvalidateUserMagicLinkTokens(c))
             \/ L(CreateMagicLinkToken(c))
             \/ \E l \in 1 .. issued : L(MagicLinkTokenByHash(c, l))
             \/ L(BeginVerify(c)) \/ L(ConsumeMagicLinkToken(c)) \/ L(CommitVerify(c))
             \/ L(AbortLinkCall(c))
      PROVE  [Next]_vars /\ [LinksNext]_linkVars
  BY <1>4 DEF L, LinksNext
<1>5. CASE UNCHANGED <<vars, linkVars, part>>
  BY <1>5
<1>6. QED BY <1>1, <1>2, <1>3, <1>4, <1>5 DEF MCNext

(* The rows of both tables and what the transactions on them hold are of   *)
(* their types: a call that has ended keeps no lock and no row it wrote.   *)
THEOREM TokensTypeCorrect == MCSpec => []TypesOK
<1>1. MCInit => Init /\ LinksInit
  BY DEF MCInit
<1>2. TypeOK /\ LinksTypeOK => TypesOK
  BY DEF TypesOK
<1>3. QED BY <1>1, <1>2, TokensStep, TypeCorrect, LinksTypeCorrect, PTL
             DEF MCSpec, Spec, LinksSpec
=============================================================================
