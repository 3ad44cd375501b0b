------------------------------ MODULE Sessions ------------------------------
(***************************************************************************)
(* What refresh tokens promise (core/auth/auth.go): a session starts once, *)
(* goes on while its token is rotated, and when it has ended it stays so.  *)
(* RefreshSessions, where a session is a chain of refresh tokens rotated   *)
(* by concurrent transactions, implements this.                            *)
(***************************************************************************)
CONSTANTS
  SessionIds,   \* the sessions that sign-ins may start
  Owner         \* the user each of them belongs to

VARIABLE phase  \* the phase of each session: "none", "active" or "ended"

Init == phase = [s \in SessionIds |-> "none"]

Start(s) ==
  /\ phase[s] = "none"
  /\ phase' = [phase EXCEPT ![s] = "active"]

(* Revoking one token or all of a user's ends only that user's sessions. *)
End(S) ==
  /\ \A s \in S : phase[s] = "active"
  /\ \A s, r \in S : Owner[s] = Owner[r]
  /\ phase' = [s \in SessionIds |-> IF s \in S THEN "ended" ELSE phase[s]]

Next ==
  \/ \E s \in SessionIds : Start(s)
  \/ \E S \in SUBSET SessionIds : End(S)

Spec == Init /\ [][Next]_phase
=============================================================================
