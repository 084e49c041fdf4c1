------------------------------ MODULE MCMobile ----------------------------
(* MobileSession for TLC. *)
EXTENDS MobileSession, TLC
===========================================================================
