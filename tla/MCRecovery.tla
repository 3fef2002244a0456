------------------------------ MODULE MCRecovery ------------------------------
(* Recovery as it is; the constants are model values. *)
EXTENDS Recovery, TLC
=============================================================================
