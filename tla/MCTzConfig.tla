----------------------------- MODULE MCTzConfig -----------------------------
(* The boot of the Secure image with the example's own layout. *)
EXTENDS TzConfig, MCLayout
=============================================================================
