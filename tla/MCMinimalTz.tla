---------------------------- MODULE MCMinimalTz ----------------------------
(* The whole example with its own layout. *)
EXTENDS MinimalTz, MCLayout
=============================================================================
