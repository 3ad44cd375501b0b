------------------------ MODULE RefreshSessionsProofs -----------------------
(***************************************************************************)
(* Proofs about RefreshSessions, for any calls, tokens, sessions and       *)
(* owners.  RowLocks says what the row locks give: the rows that open      *)
(* transactions have changed are live and apart, a refresh under way holds *)
(* the token it has consumed, and nobody shares the successor it has       *)
(* inserted.  Scopes says what a revoke-all under way has taken in.        *)
(***************************************************************************)
EXTENDS RefreshSessions, TLAPS

RowLocks ==
  /\ \A c \in Calls : \A t \in held[c] : status[t] = "live"
  /\ \A c, d \in Calls : \A t \in Tokens : t \in held[c] /\ t \in held[d] => c = d
  /\ \A c \in Calls : pc[c] \in {"refresh", "consumed", "created"} => old[c] \in Tokens
  /\ \A c \in Calls : pc[c] \in {"consumed", "created"} => held[c] = {old[c]}
  /\ \A c \in Calls : pc[c] \in {"idle", "refresh"} => held[c] = {}

Successors ==
  /\ \A c \in Calls : pc[c] = "created" => new[c] \in Tokens /\ status[new[c]] = "absent"
  /\ \A c \in Calls : pc[c] # "created" => new[c] = NoToken
  /\ \A c, d \in Calls : new[c] = new[d] /\ new[c] # NoToken => c = d

Scopes ==
  \A c \in Calls :
    /\ \A t \in rows[c] : status[t] # "absent" /\ session[t] \in scope[c]
    /\ pc[c] = "revoke-all" => \A t \in held[c] : session[t] \in scope[c]
    /\ pc[c] # "revoke-all" => rows[c] = {}
    /\ \A s, r \in scope[c] : Owner[s] = Owner[r]

LoggedOutStarted == \A s \in loggedOut : Started(s)

IInv ==
  /\ TypeOK /\ RowLocks /\ Successors /\ Scopes
  /\ LoggedOutStarted /\ NeverForks /\ LogoutEnds /\ NeverLost

Steps(c) ==
  \/ \E t \in Tokens : BeginRefresh(c, t) \/ RevokeRow(c, t)
  \/ \E u \in Users : BeginRevokeAll(c, u)
  \/ ConsumeRefreshToken(c) \/ CreateRefreshToken(c) \/ Abort(c)
-----------------------------------------------------------------------------
(* The inductive invariant holds before the first sign-in.                 *)
LEMMA InitInv == Init => IInv
<1> SUFFICES ASSUME Init PROVE IInv
  OBVIOUS
<1>1. (CHOOSE s \in SessionIds : TRUE) \in SessionIds
  BY SessionsAssumption
<1>2. TypeOK
  BY <1>1 DEF Init, TypeOK, Pcs
<1>3. RowLocks /\ Successors /\ Scopes
  BY DEF Init, RowLocks, Successors, Scopes
<1>4. LoggedOutStarted /\ NeverForks /\ LogoutEnds /\ NeverLost
  BY DEF Init, LoggedOutStarted, NeverForks, LogoutEnds, NeverLost, Started, Live
<1>5. QED BY <1>2, <1>3, <1>4 DEF IInv

(* A step that is not a commit of token rows. *)
LEMMA QuietSteps ==
  ASSUME NEW c \in Calls, Steps(c)
  PROVE  UNCHANGED <<table, loggedOut, revokedAll>>
BY DEF Steps, BeginRefresh, RevokeRow, BeginRevokeAll, ConsumeRefreshToken, CreateRefreshToken,
       Abort, Rollback, End, table

(* Every step keeps the state well-typed. *)
LEMMA TypeStep ==
  ASSUME IInv, [Next]_vars
  PROVE  TypeOK'
<1> USE DEF TypeOK, Pcs
<1>1. CASE UNCHANGED vars
  BY <1>1 DEF IInv, vars, table, calls
<1>2. ASSUME NEW s \in SessionIds, NEW t \in Tokens, SignIn(s, t) PROVE TypeOK'
  BY <1>2 DEF IInv, SignIn, calls
<1>3. ASSUME NEW t \in Tokens, Expire(t) \/ RevokeRefreshToken(t) PROVE TypeOK'
  BY <1>3 DEF IInv, Expire, RevokeRefreshToken, calls
<1>4. ASSUME NEW c \in Calls, NEW t \in Tokens, BeginRefresh(c, t) PROVE TypeOK'
  BY <1>4 DEF IInv, BeginRefresh, table, RowLocks
<1>5. ASSUME NEW c \in Calls, Abort(c) PROVE TypeOK'
  BY <1>5 DEF IInv, Abort, Rollback, End, table
<1>6. ASSUME NEW c \in Calls, ConsumeRefreshToken(c) PROVE TypeOK'
  <2>1. CASE Consumable(c)
    <3>1. old[c] \in Tokens
      BY <1>6 DEF IInv, RowLocks, ConsumeRefreshToken
    <3>2. QED
      BY <1>6, <2>1, <3>1 DEF IInv, ConsumeRefreshToken, table
  <2>2. CASE ~Consumable(c)
    BY <1>6, <2>2 DEF IInv, ConsumeRefreshToken, Rollback, End, table
  <2>3. QED BY <2>1, <2>2
<1>7. ASSUME NEW c \in Calls, CreateRefreshToken(c) PROVE TypeOK'
  BY <1>7 DEF IInv, CreateRefreshToken, table
<1>8. ASSUME NEW c \in Calls, CommitRefresh(c) PROVE TypeOK'
  <2>1. old[c] \in Tokens /\ new[c] \in Tokens
    BY <1>8 DEF IInv, RowLocks, Successors, CommitRefresh
  <2>2. QED BY <1>8, <2>1 DEF IInv, CommitRefresh, End
<1>9. ASSUME NEW c \in Calls, NEW u \in Users, BeginRevokeAll(c, u) PROVE TypeOK'
  BY <1>9 DEF IInv, BeginRevokeAll, table, Live
<1>10. ASSUME NEW c \in Calls, NEW t \in Tokens, RevokeRow(c, t) PROVE TypeOK'
  BY <1>10 DEF IInv, RevokeRow, table
<1>11. ASSUME NEW c \in Calls, CommitRevokeAll(c) PROVE TypeOK'
  BY <1>11 DEF IInv, CommitRevokeAll, End
<1>12. QED
  BY <1>1, <1>2, <1>3, <1>4, <1>5, <1>6, <1>7, <1>8, <1>9, <1>10, <1>11 DEF Next

-----------------------------------------------------------------------------
(* Every step keeps the row locks apart, the successors unshared and the   *)
(* scopes of the revoke-alls to one user.                                  *)
LEMMA LocksStep ==
  ASSUME IInv, [Next]_vars
  PROVE  RowLocks' /\ Successors' /\ Scopes'
<1> USE DEF RowLocks, Successors, Scopes
<1>1. CASE UNCHANGED vars
  BY <1>1 DEF IInv, vars, table, calls
<1>2. ASSUME NEW s \in SessionIds, NEW t \in Tokens, SignIn(s, t)
      PROVE RowLocks' /\ Successors' /\ Scopes'
  BY <1>2 DEF IInv, TypeOK, SignIn, Unused, calls
<1>3. ASSUME NEW t \in Tokens, Expire(t) PROVE RowLocks' /\ Successors' /\ Scopes'
  BY <1>3 DEF IInv, TypeOK, Expire, calls
<1>4. ASSUME NEW t \in Tokens, RevokeRefreshToken(t)
      PROVE RowLocks' /\ Successors' /\ Scopes'
  BY <1>4 DEF IInv, TypeOK, RevokeRefreshToken, calls
<1>5. ASSUME NEW c \in Calls, NEW t \in Tokens, BeginRefresh(c, t)
      PROVE RowLocks' /\ Successors' /\ Scopes'
  BY <1>5 DEF IInv, TypeOK, BeginRefresh, table
<1>6. ASSUME NEW c \in Calls, Rollback(c), pc[c] # "idle"
      PROVE RowLocks' /\ Successors' /\ Scopes'
  BY <1>6 DEF IInv, TypeOK, Rollback, End, table
<1>7. ASSUME NEW c \in Calls, ConsumeRefreshToken(c)
      PROVE RowLocks' /\ Successors' /\ Scopes'
  <2>1. CASE Consumable(c)
    <3>1. /\ held' = [held EXCEPT ![c] = {old[c]}] /\ pc' = [pc EXCEPT ![c] = "consumed"]
          /\ UNCHANGED <<status, session, old, new, rows, scope>>
          /\ status[old[c]] = "live" /\ Unlocked(c, old[c]) /\ pc[c] = "refresh"
      BY <1>7, <2>1 DEF ConsumeRefreshToken, Consumable, table
    <3>2. RowLocks'
      BY <3>1 DEF IInv, TypeOK, Unlocked
    <3>3. Successors' /\ Scopes'
      BY <3>1 DEF IInv, TypeOK
    <3>4. QED BY <3>2, <3>3
  <2>2. CASE ~Consumable(c)
    BY <1>6, <1>7, <2>2 DEF ConsumeRefreshToken
  <2>3. QED BY <2>1, <2>2
<1>8. ASSUME NEW c \in Calls, CreateRefreshToken(c)
      PROVE RowLocks' /\ Successors' /\ Scopes'
  BY <1>8, TokensAssumption DEF IInv, TypeOK, CreateRefreshToken, Unused, table
<1>9. ASSUME NEW c \in Calls, CommitRefresh(c)
      PROVE RowLocks' /\ Successors' /\ Scopes'
  BY <1>9, TokensAssumption DEF IInv, TypeOK, CommitRefresh, End
<1>10. ASSUME NEW c \in Calls, NEW u \in Users, BeginRevokeAll(c, u)
       PROVE RowLocks' /\ Successors' /\ Scopes'
  BY <1>10 DEF IInv, TypeOK, BeginRevokeAll, Live, table
<1>11. ASSUME NEW c \in Calls, NEW t \in Tokens, RevokeRow(c, t)
       PROVE RowLocks' /\ Successors' /\ Scopes'
  BY <1>11 DEF IInv, TypeOK, RevokeRow, Unlocked, table
<1>12. ASSUME NEW c \in Calls, CommitRevokeAll(c)
       PROVE RowLocks' /\ Successors' /\ Scopes'
  BY <1>12 DEF IInv, TypeOK, CommitRevokeAll, End
<1>13. ASSUME NEW c \in Calls, Abort(c) PROVE RowLocks' /\ Successors' /\ Scopes'
  BY <1>13, <1>6 DEF Abort
<1>14. QED
  BY <1>1, <1>2, <1>3, <1>4, <1>5, <1>7, <1>8, <1>9, <1>10, <1>11, <1>12, <1>13 DEF Next
-----------------------------------------------------------------------------
(* A sign-in gives a new session its first live token.                     *)
LEMMA SignInLive ==
  ASSUME IInv, NEW s \in SessionIds, NEW t \in Tokens, SignIn(s, t), NEW r \in SessionIds
  PROVE  /\ Live(r)' = IF r = s THEN {t} ELSE Live(r)
         /\ Started(r)' <=> Started(r) \/ r = s
         /\ ~Started(s)
BY DEF IInv, TypeOK, SignIn, Unused, Live, Started

(* A refresh replaces its session's only live token by the successor.      *)
LEMMA CommitRefreshLive ==
  ASSUME IInv, NEW c \in Calls, CommitRefresh(c), NEW r \in SessionIds
  PROVE  /\ old[c] \in Live(session[old[c]]) /\ session[old[c]] \in SessionIds
         /\ Live(r)' = IF r = session[old[c]] THEN {new[c]} ELSE Live(r)
         /\ Started(r)' <=> Started(r)
<1>1. /\ old[c] \in Tokens /\ status[old[c]] = "live"
      /\ new[c] \in Tokens /\ status[new[c]] = "absent"
  BY DEF IInv, RowLocks, Successors, CommitRefresh
<1>2. session[old[c]] \in SessionIds /\ old[c] \in Live(session[old[c]])
  BY <1>1 DEF IInv, TypeOK, Live
<1>3. \A t \in Live(session[old[c]]) : t = old[c]
  BY <1>2 DEF IInv, NeverForks
<1>4. /\ status' = [status EXCEPT ![old[c]] = "revoked", ![new[c]] = "live"]
      /\ session' = [session EXCEPT ![new[c]] = session[old[c]]]
  BY DEF CommitRefresh
<1>5. Live(r)' = IF r = session[old[c]] THEN {new[c]} ELSE Live(r)
  BY <1>1, <1>2, <1>3, <1>4 DEF IInv, TypeOK, Live
<1>6. Started(r)' <=> Started(r)
  BY <1>1, <1>2, <1>4 DEF IInv, TypeOK, Started
<1>7. QED BY <1>2, <1>5, <1>6

(* RevokeRefreshToken leaves its session without a live token.             *)
LEMMA RevokeLive ==
  ASSUME IInv, NEW t \in Tokens, RevokeRefreshToken(t), NEW r \in SessionIds
  PROVE  /\ t \in Live(session[t]) /\ session[t] \in SessionIds
         /\ Live(r)' = IF r = session[t] THEN {} ELSE Live(r)
         /\ Started(r)' <=> Started(r)
<1>1. t \in Live(session[t]) /\ session[t] \in SessionIds
  BY DEF IInv, TypeOK, RevokeRefreshToken, Live
<1>2. \A u \in Live(session[t]) : u = t
  BY <1>1 DEF IInv, NeverForks
<1>3. QED
  BY <1>1, <1>2 DEF IInv, TypeOK, RevokeRefreshToken, Live, Started

(* A revoke-all takes the rows it holds, all of sessions in its scope.     *)
LEMMA CommitRevokeAllLive ==
  ASSUME IInv, NEW c \in Calls, CommitRevokeAll(c), NEW r \in SessionIds
  PROVE  /\ Live(r)' = Live(r) \ held[c]
         /\ Started(r)' <=> Started(r)
         /\ Live(r) \cap held[c] # {} => r \in scope[c]
BY DEF IInv, TypeOK, RowLocks, Scopes, CommitRevokeAll, Live, Started

Ended == LoggedOutStarted /\ NeverForks /\ LogoutEnds /\ NeverLost

(* What is said of sessions depends on the token rows and history only.    *)
LEMMA QuietEnded ==
  ASSUME Ended, UNCHANGED <<status, session, loggedOut, revokedAll>>
  PROVE  Ended' /\ \A r \in SessionIds : Live(r)' = Live(r) /\ (Started(r)' <=> Started(r))
<1>1. \A r : Live(r)' = Live(r) /\ (Started(r)' <=> Started(r))
  BY DEF Live, Started
<1>2. QED
  BY <1>1 DEF Ended, LoggedOutStarted, NeverForks, LogoutEnds, NeverLost

(* The steps that leave the token rows as they are. *)
Quiet ==
  \/ UNCHANGED vars
  \/ \E t \in Tokens : Expire(t)
  \/ \E c \in Calls : Steps(c)

(* A quiet step changes neither the rows nor the history.                  *)
LEMMA QuietStep ==
  ASSUME Quiet PROVE UNCHANGED <<status, session, loggedOut, revokedAll>>
BY QuietSteps DEF Quiet, vars, table, Expire

(* A step is quiet, a sign-in, a revocation or a commit.                   *)
LEMMA SplitNext ==
  ASSUME [Next]_vars
  PROVE  \/ Quiet
         \/ \E s \in SessionIds, t \in Tokens : SignIn(s, t)
         \/ \E t \in Tokens : RevokeRefreshToken(t)
         \/ \E c \in Calls : CommitRefresh(c)
         \/ \E c \in Calls : CommitRevokeAll(c)
BY DEF Next, Quiet, Steps

(* Sign-ins, refreshes and revocations keep sessions apart and ended.      *)
LEMMA SessionsStep ==
  ASSUME IInv, [Next]_vars PROVE Ended'
<1> USE DEF Ended, LoggedOutStarted, NeverForks, LogoutEnds, NeverLost
<1>1. Ended /\ loggedOut \subseteq SessionIds
  BY DEF IInv, TypeOK
<1>2. CASE Quiet
  BY <1>1, <1>2, QuietStep, QuietEnded
<1>3. ASSUME NEW s \in SessionIds, NEW t \in Tokens, SignIn(s, t) PROVE Ended'
  <2>1. loggedOut' = loggedOut /\ revokedAll' = revokedAll
    BY <1>3 DEF SignIn
  <2>2. QED BY <1>1, <1>3, <2>1, SignInLive
<1>4. ASSUME NEW t \in Tokens, RevokeRefreshToken(t) PROVE Ended'
  <2>1. /\ loggedOut' = loggedOut \cup {session[t]} /\ revokedAll' = revokedAll
        /\ session[t] \in SessionIds /\ Started(session[t])
    BY <1>4 DEF IInv, TypeOK, RevokeRefreshToken, Started
  <2>2. \A r \in SessionIds :
          /\ Live(r)' = IF r = session[t] THEN {} ELSE Live(r)
          /\ Started(r)' <=> Started(r)
    BY <1>4, RevokeLive
  <2>3. LoggedOutStarted' /\ NeverForks'
    BY <1>1, <2>1, <2>2
  <2>4. LogoutEnds'
    BY <1>1, <2>1, <2>2
  <2>5. NeverLost'
    BY <1>1, <2>1, <2>2
  <2>6. QED BY <2>3, <2>4, <2>5
<1>5. ASSUME NEW c \in Calls, CommitRefresh(c) PROVE Ended'
  <2>1. loggedOut' = loggedOut /\ revokedAll' = revokedAll
    BY <1>5 DEF CommitRefresh
  <2>2. QED BY <1>1, <1>5, <2>1, CommitRefreshLive
<1>6. ASSUME NEW c \in Calls, CommitRevokeAll(c) PROVE Ended'
  <2>1. loggedOut' = loggedOut /\ revokedAll' = revokedAll \cup scope[c]
    BY <1>6 DEF CommitRevokeAll
  <2>2. QED BY <1>1, <1>6, <2>1, CommitRevokeAllLive
<1>7. QED BY <1>2, <1>3, <1>4, <1>5, <1>6, SplitNext

(* The inductive invariant holds in every reachable state.                 *)
THEOREM Invariance == Spec => []IInv
<1>1. IInv /\ [Next]_vars => IInv'
  BY TypeStep, LocksStep, SessionsStep DEF IInv, Ended
<1>2. QED BY <1>1, InitInv, PTL DEF Spec

(* The state of the token operations is always well-typed.                 *)
THEOREM TypeCorrect == Spec => []TypeOK
<1>1. IInv => TypeOK
  BY DEF IInv
<1>2. QED BY <1>1, Invariance, PTL

(* However many requests race to rotate a token, a session has at most one *)
(* live token.                                                             *)
THEOREM ChainsNeverFork == Spec => []NeverForks
<1>1. IInv => NeverForks
  BY DEF IInv
<1>2. QED BY <1>1, Invariance, PTL

(* After RevokeRefreshToken its session never has a live token again, even *)
(* when it raced a refresh of the same token.                              *)
THEOREM LogoutIsFinal == Spec => []LogoutEnds
<1>1. IInv => LogoutEnds
  BY DEF IInv
<1>2. QED BY <1>1, Invariance, PTL

(* A session that nobody ended keeps a live token through every refresh    *)
(* that fails half-way.                                                    *)
THEOREM SessionsSurvive == Spec => []NeverLost
<1>1. IInv => NeverLost
  BY DEF IInv
<1>2. QED BY <1>1, Invariance, PTL
-----------------------------------------------------------------------------
(* No session has started in the initial state.                            *)
LEMMA InitImplements == Init => Abstract!Init
BY DEF Init, Abstract!Init, Phase, Started

(* A step that changes no session's live tokens is a stutter of Sessions.  *)
LEMMA SamePhase ==
  ASSUME NEW r, (Live(r)' # {}) <=> (Live(r) # {}), Started(r)' <=> Started(r)
  PROVE  Phase(r)' = Phase(r)
BY DEF Phase

(* A session with a live token has started. *)
LEMMA LiveStarted ==
  ASSUME NEW r, Live(r) # {} PROVE Started(r)
BY DEF Live, Started

(* Every step of the token operations is a step of Sessions or a stutter.  *)
LEMMA StepImplements ==
  ASSUME IInv, [Next]_vars
  PROVE  \/ \E s \in SessionIds : Abstract!Start(s)
         \/ \E S \in SUBSET SessionIds : Abstract!End(S)
         \/ UNCHANGED [s \in SessionIds |-> Phase(s)]
<1> DEFINE Same == UNCHANGED [s \in SessionIds |-> Phase(s)]
           Ends(S) == /\ \A s \in S : Phase(s) = "active"
                      /\ \A s, r \in S : Owner[s] = Owner[r]
                      /\ \A r \in SessionIds :
                           Phase(r)' = IF r \in S THEN "ended" ELSE Phase(r)
<1>1. ASSUME NEW S \in SUBSET SessionIds, Ends(S) PROVE Abstract!End(S)
  BY <1>1 DEF Abstract!End
<1>2. CASE Quiet
  <2>1. Ended
    BY DEF IInv, Ended
  <2>2. \A r \in SessionIds : Phase(r)' = Phase(r)
    BY <1>2, <2>1, QuietStep, QuietEnded, SamePhase
  <2>3. QED BY <2>2
<1>3. ASSUME NEW s \in SessionIds, NEW t \in Tokens, SignIn(s, t) PROVE Abstract!Start(s)
  <2>1. \A r \in SessionIds : Phase(r)' = IF r = s THEN "active" ELSE Phase(r)
    BY <1>3, SignInLive DEF Phase
  <2>2. Phase(s) = "none"
    BY <1>3, SignInLive DEF Phase
  <2>3. QED BY <2>1, <2>2 DEF Abstract!Start
<1>4. ASSUME NEW c \in Calls, CommitRefresh(c) PROVE Same
  <2>1. \A r \in SessionIds : Phase(r)' = Phase(r)
    BY <1>4, CommitRefreshLive, SamePhase
  <2>2. QED BY <2>1
<1>5. ASSUME NEW t \in Tokens, RevokeRefreshToken(t) PROVE Abstract!End({session[t]})
  <2>1. session[t] \in SessionIds /\ Live(session[t]) # {}
    BY <1>5, RevokeLive, SessionsAssumption
  <2>2. Started(session[t])
    BY <2>1, LiveStarted
  <2>3. Ends({session[t]})
    BY <1>5, <2>1, <2>2, RevokeLive DEF Phase
  <2>4. QED BY <1>1, <2>1, <2>3
<1>6. ASSUME NEW c \in Calls, CommitRevokeAll(c)
      PROVE \E S \in SUBSET SessionIds : Abstract!End(S)
  <2> DEFINE S == {s \in SessionIds : Live(s) # {} /\ Live(s)' = {}}
  <2>1. \A r \in SessionIds :
          /\ Live(r)' = Live(r) \ held[c]
          /\ Started(r)' <=> Started(r)
          /\ Live(r) \cap held[c] # {} => r \in scope[c]
    BY <1>6, CommitRevokeAllLive
  <2>2. \A s \in S : s \in scope[c]
    BY <2>1
  <2>3. \A s, r \in S : Owner[s] = Owner[r]
    BY <2>2 DEF IInv, Scopes
  <2>4. \A r \in SessionIds :
          (Live(r)' # {} <=> Live(r) # {} /\ r \notin S)
    BY <2>1
  <2>5. Ends(S)
    BY <2>1, <2>3, <2>4, LiveStarted DEF Phase
  <2>6. QED BY <1>1, <2>5
<1>7. \A t \in Tokens : RevokeRefreshToken(t) => {session[t]} \in SUBSET SessionIds
  BY DEF IInv, TypeOK
<1>8. QED BY <1>2, <1>3, <1>4, <1>5, <1>6, <1>7, SplitNext

(* Chains of refresh tokens implement sessions: every behaviour of the     *)
(* token operations maps to a behaviour in which an ended session stays    *)
(* ended and a revocation touches the sessions of one user only.           *)
THEOREM Refinement == Spec => SessionsSpec
<1>1. IInv /\ [Next]_vars => [Abstract!Next]_[s \in SessionIds |-> Phase(s)]
  BY StepImplements DEF Abstract!Next
<1>2. QED
  BY <1>1, InitImplements, Invariance, PTL DEF Spec, SessionsSpec, Abstract!Spec
=============================================================================
