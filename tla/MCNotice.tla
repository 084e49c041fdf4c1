------------------------------ MODULE MCNotice ------------------------------
(* Small instances of KycNotice: one submission, decided several times.     *)
EXTENDS KycNotice, TLC

Interchangeable == Permutations(Requests) \cup Permutations(Workers)
=============================================================================
