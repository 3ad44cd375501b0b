-------------------------- MODULE MCRefreshSessions --------------------------
(* Instances of RefreshSessions for TLC. *)
EXTENDS RefreshSessions, TLC

MCSymmetry == Permutations(Tokens) \cup Permutations(Calls)

(* The first user may have two sessions, the second one. *)
MCOwner == [s \in {"s1", "s2", "s3"} |-> IF s = "s3" THEN "u2" ELSE "u1"]

(* One user with one session. *)
MCOneSession == [s \in {"s1"} |-> "u1"]
=============================================================================
