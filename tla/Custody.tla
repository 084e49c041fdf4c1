------------------------------- MODULE Custody ------------------------------
(***************************************************************************)
(* What the payment module promises, without the mechanism: money is       *)
(* always in exactly one place (an account's funds, its frozen funds or a  *)
(* campaign's escrow), it enters only against a bank transfer, every step  *)
(* moves one amount from one place to one other, and the creator of a      *)
(* collaboration is paid from the escrow of its campaign at most once.     *)
(***************************************************************************)
EXTENDS Integers

CONSTANTS Accounts, Campaigns, Collabs, Deposits, BrandOf, CampaignOf, CreatorOf,
          DepositorOf

VARIABLES
    funds,     \* what an account may spend
    frozen,    \* what it has asked to withdraw
    escrow,    \* what a campaign holds
    received,  \* what a deposit order brought in, 0 before it did
    earned     \* what a collaboration has paid its creator, 0 before it did

custodyVars == <<funds, frozen, escrow, received, earned>>

Init ==
    /\ funds = [a \in Accounts |-> 0]
    /\ frozen = [a \in Accounts |-> 0]
    /\ escrow = [c \in Campaigns |-> 0]
    /\ received = [d \in Deposits |-> 0]
    /\ earned = [k \in Collabs |-> 0]

Receive(d) ==
    LET n == received'[d]
    IN  /\ received[d] = 0
        /\ n > 0
        /\ received' = [received EXCEPT ![d] = n]
        /\ funds' = [funds EXCEPT ![DepositorOf[d]] = @ + n]
        /\ UNCHANGED <<frozen, escrow, earned>>

FreezeFunds(a) ==
    LET n == funds[a] - funds'[a]
    IN  /\ n \in 1..funds[a]
        /\ funds' = [funds EXCEPT ![a] = @ - n]
        /\ frozen' = [frozen EXCEPT ![a] = @ + n]
        /\ UNCHANGED <<escrow, received, earned>>

\* Between a brand and the escrow of its campaign, either way.
Transfer(c) ==
    LET n == escrow'[c] - escrow[c]
    IN  /\ -n \in -funds[BrandOf[c]]..escrow[c]
        /\ escrow' = [escrow EXCEPT ![c] = @ + n]
        /\ funds' = [funds EXCEPT ![BrandOf[c]] = @ - n]
        /\ UNCHANGED <<frozen, received, earned>>

Pay(k) ==
    LET n == earned'[k]
    IN  /\ earned[k] = 0
        /\ n \in 1..escrow[CampaignOf[k]]
        /\ earned' = [earned EXCEPT ![k] = n]
        /\ escrow' = [escrow EXCEPT ![CampaignOf[k]] = @ - n]
        /\ funds' = [funds EXCEPT ![CreatorOf[k]] = @ + n]
        /\ UNCHANGED <<frozen, received>>

Next ==
    \/ \E d \in Deposits : Receive(d)
    \/ \E a \in Accounts : FreezeFunds(a)
    \/ \E c \in Campaigns : Transfer(c)
    \/ \E k \in Collabs : Pay(k)

Spec == Init /\ [][Next]_custodyVars
=============================================================================
