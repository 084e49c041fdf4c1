---------------------------- MODULE MCSettlement ----------------------------
(***************************************************************************)
(* Small instances of Settlement: one brand b and two creators u and v.    *)
(* Collaborations k1 and k2 are of one creator, k3 of the other; transfers *)
(* t1 and t2 quote the code of order d1, t3 that of d2; the withdrawals    *)
(* are requests of the brand with one key.  The cfg says which of them     *)
(* exist.                                                                  *)
(***************************************************************************)
EXTENDS Settlement, TLC

CONSTANTS b, u, v, k1, k3, d1, d2, t3

MCBrandOf == [c \in Campaigns |-> b]
MCCampaignOf == [k \in Collabs |-> CHOOSE c \in Campaigns : TRUE]
MCCreatorOf == [k \in Collabs |-> IF k = k3 THEN v ELSE u]
MCDepositorOf == [d \in Deposits |-> b]
MCCodeOf == [t \in Transfers |-> IF t = t3 THEN d2 ELSE d1]
MCRequesterOf == [w \in Withdrawals |-> b]
MCKeyOf == [w \in Withdrawals |-> "key"]

\* Collaborations of one creator are interchangeable; used where k3 is absent.
SameCreator == Permutations(Collabs)

\* Requests with one key are, and so are k1 with its creator u and k3 with v;
\* used where k2 is absent.
Creators == {u, v, k1, k3}
Exchanged == (u :> v) @@ (v :> u) @@ (k1 :> k3) @@ (k3 :> k1)
Unmoved == [x \in Creators |-> x]
EitherCreator ==
    {p @@ q : p \in {Unmoved, Exchanged}, q \in Permutations(Withdrawals)}

OneSlot == {[count |-> 1, unit |-> 1]}
TwoSlots == {[count |-> 2, unit |-> 1]}
OneOrTwoSlots == OneSlot \cup TwoSlots
=============================================================================
