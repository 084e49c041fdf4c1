------------------------------ MODULE MCCreation ---------------------------
(* Small instances of CampaignCreation: three requests with one key and    *)
(* two others of one brand, and a request of a second brand with that key. *)
EXTENDS CampaignCreation, TLC

CONSTANTS r1, r2, r3, r4, r5, r6, b1, b2, k1, k2

MCSenderOf == [r \in Requests |-> IF r = r6 THEN b2 ELSE b1]
MCKeyOf == r1 :> k1 @@ r2 :> k1 @@ r3 :> k1 @@ r4 :> k2 @@ r5 :> NoKey @@ r6 :> k1

\* Twins are told apart by nothing.
Symmetry == Permutations({r1, r2, r3})
=============================================================================
