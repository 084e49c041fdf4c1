------------------------------- MODULE Escrow -------------------------------
(***************************************************************************)
(* EscrowService: the money a brand has paid into a campaign, waiting to   *)
(* go to a creator or back.  As in Wallet, each operation is a part of the *)
(* caller's transaction; a refused guard is the exception that rolls that  *)
(* transaction back.                                                       *)
(***************************************************************************)
EXTENDS Wallet

CONSTANTS
    BrandOf,     \* the brand a campaign belongs to
    CampaignOf,  \* the campaign of a collaboration
    CreatorOf    \* the creator of a collaboration

ASSUME OwnersAssumption ==
    /\ BrandOf \in [Campaigns -> Accounts]
    /\ CampaignOf \in [Collabs -> Campaigns]
    /\ CreatorOf \in [Collabs -> Accounts]

VARIABLES
    escrowed,  \* the campaigns that have a campaign_escrows row
    held       \* campaign_escrows.held_amount

escrowVars == <<escrowed, held>>
moneyVars == <<available, locked, ledger, escrowed, held>>

EscrowTypeOK ==
    /\ escrowed \in SUBSET Campaigns
    /\ held \in [Campaigns -> Nat]

EscrowInit ==
    /\ escrowed = {}
    /\ held = [c \in Campaigns |-> 0]

-----------------------------------------------------------------------------
\* Mutant: the UPDATE lost its held_amount >= :amount.
ReleaseUnchecked(c, amount) ==
    /\ c \in escrowed
    /\ held' = [held EXCEPT ![c] = @ - amount]
    /\ UNCHANGED escrowed

\* release(): refuses to hand out more than the row still holds.
Release(c, amount) ==
    /\ c \in escrowed
    /\ held[c] >= amount
    /\ held' = [held EXCEPT ![c] = @ - amount]
    /\ UNCHANGED escrowed

\* hold()
Hold(c, amount) ==
    /\ c \in escrowed
    /\ held' = [held EXCEPT ![c] = @ + amount]
    /\ UNCHANGED escrowed

\* lock(): the row is the idempotency key, a second lock is a silent return.
LockEscrow(c, amount) ==
    IF c \in escrowed
    THEN UNCHANGED moneyVars
    ELSE /\ escrowed' = escrowed \cup {c}
         /\ held' = [held EXCEPT ![c] = amount]
         /\ Debit(BrandOf[c], amount, c)

\* Mutant: a higher price is debited from the brand and not held.
AdjustWithoutHold(k, delta) ==
    LET c == CampaignOf[k]
        brand == BrandOf[c]
    IN  \/ /\ delta = 0
           /\ UNCHANGED moneyVars
        \/ /\ delta > 0
           /\ Debit(brand, delta, c)
           /\ UNCHANGED escrowVars
        \/ /\ delta < 0
           /\ Release(c, -delta)
           /\ Credit(brand, -delta, c)

\* adjust(): a renegotiated price moves its difference through the escrow.
Adjust(k, delta) ==
    LET c == CampaignOf[k]
        brand == BrandOf[c]
    IN  \/ /\ delta = 0
           /\ UNCHANGED moneyVars
        \/ /\ delta > 0
           /\ Debit(brand, delta, c)
           /\ Hold(c, delta)
        \/ /\ delta < 0
           /\ Release(c, -delta)
           /\ Credit(brand, -delta, c)

\* refund(): the share of a cancelled collaboration returns to the brand.
Refund(k, price) ==
    /\ price > 0
    /\ Release(CampaignOf[k], price)
    /\ Credit(BrandOf[CampaignOf[k]], price, CampaignOf[k])

\* Mutant: the creator is credited and the escrow keeps the money.
PayoutUncharged(k, price) ==
    /\ price > 0
    /\ CampaignOf[k] \in escrowed
    /\ CreditOnce(CreatorOf[k], price, k)
    /\ UNCHANGED escrowVars

\* Mutant: the escrow is charged although nobody was credited.
PayoutAlwaysReleases(k, price) ==
    /\ price > 0
    /\ Release(CampaignOf[k], price)
    /\ CreditOnce(CreatorOf[k], price, k)

\* payout(): the escrow is charged only when the creator was credited now.
Payout(k, price) ==
    /\ price > 0
    /\ CampaignOf[k] \in escrowed
    /\ CreditOnce(CreatorOf[k], price, k)
    /\ IF Recorded(k) THEN UNCHANGED escrowVars ELSE Release(CampaignOf[k], price)
=============================================================================
