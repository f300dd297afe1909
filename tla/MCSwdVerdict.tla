---------------------------- MODULE MCSwdVerdict ----------------------------
(* A window of two suites: tables that are shorter, that fill it, and that  *)
(* go past it, in either world.                                             *)
EXTENDS SwdVerdict

MC_Firmwares == {[NS |-> 1, S |-> 2], [NS |-> 2, S |-> 1], [NS |-> 3, S |-> 1]}
=============================================================================
