-------------------------------- MODULE MCKyc -------------------------------
(* Small instances of Kyc.  Requests and documents are interchangeable;     *)
(* submissions are not, the order they are created in counts.               *)
EXTENDS Kyc, TLC

Interchangeable == Permutations(Requests) \cup Permutations(Documents)
=============================================================================
