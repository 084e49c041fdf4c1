------------------------------ MODULE MCPapers -----------------------------
(* Small instances of KycPapers: three fresh keys and their twins.         *)
EXTENDS KycPapers, TLC

CONSTANTS f1, f2, f3, v1, v2, v3

MCVerifiedKey == f1 :> v1 @@ f2 :> v2 @@ f3 :> v3
=============================================================================
