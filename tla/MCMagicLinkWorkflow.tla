------------------------ MODULE MCMagicLinkWorkflow -------------------------
(* An instance of MagicLinkWorkflow for TLC: two requests for the address  *)
(* of an account and one for an address nobody owns.                       *)
EXTENDS MagicLinkWorkflow, TLC

CONSTANTS r1, r2, r3, known, unknown

MCAddress == (r1 :> known) @@ (r2 :> known) @@ (r3 :> unknown)
=============================================================================
