------------------------------ MODULE MCAccess ----------------------------
(* Small instances of Access.                                              *)
EXTENDS Access, TLC
=============================================================================
