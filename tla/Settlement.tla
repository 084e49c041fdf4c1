----------------------------- MODULE Settlement -----------------------------
(***************************************************************************)
(* The composition: deposits, campaigns, collaborations and withdrawals    *)
(* over one set of wallets, one ledger and one escrow per campaign.        *)
(***************************************************************************)
EXTENDS Collaboration, Withdrawal

vars == <<moneyVars, depositVars, campaignVars, collabVars, withdrawalVars>>

TypeOK ==
    /\ WalletTypeOK
    /\ EscrowTypeOK
    /\ DepositTypeOK
    /\ CampaignTypeOK
    /\ CollabTypeOK
    /\ WithdrawalTypeOK

Init ==
    /\ WalletInit
    /\ EscrowInit
    /\ DepositInit
    /\ CampaignInit
    /\ CollabInit
    /\ WithdrawalInit

DepositStep ==
    /\ \/ \E d \in Deposits : CreateDeposit(d) /\ UNCHANGED walletVars
       \/ \E t \in Transfers, n \in TransferAmounts :
            BankTransfer(t, n) /\ UNCHANGED walletVars
       \/ \E t \in Transfers : HandleSepayWebhook(t)
    /\ UNCHANGED <<escrowVars, campaignVars, collabVars, withdrawalVars>>

CampaignStep ==
    /\ \E c \in Campaigns, expected \in 1..MaxVersion :
        \/ \E t \in Terms : UpdateDraft(c, expected, t)
        \/ Submit(c, expected)
        \/ \E d \in Deposits : SubmitShort(c, expected, d)
        \/ Approve(c, expected)
    /\ UNCHANGED <<collabVars, withdrawalVars>>

CollabStep ==
    /\ \/ \E k \in Collabs : Create(k) \/ WithdrawPrice(k)
       \/ \E k \in Collabs, party \in Parties :
            \/ \E price \in Prices : ProposePrice(k, party, price)
            \/ AcceptPrice(k, party)
       \/ \E k \in Collabs, role \in Roles, next \in Statuses : ReadForUpdate(k, role, next)
       \/ \E q \in inflight : Advance(q) \/ Complete(q) \/ Cancel(q) \/ DropUpdate(q)
    /\ UNCHANGED <<depositVars, campaignVars, withdrawalVars>>

WithdrawalStep ==
    /\ \E w \in Withdrawals :
        \/ \E n \in WithdrawAmounts : LookUpKey(w, n)
        \/ InsertWithdrawal(w)
        \/ LoseWithdrawalAnswer(w)
    /\ UNCHANGED <<escrowVars, depositVars, campaignVars, collabVars>>

Next == DepositStep \/ CampaignStep \/ CollabStep \/ WithdrawalStep

Spec == Init /\ [][Next]_vars

\* SePay repeats a webhook that was not answered; nothing else is promised.
FairSpec == Spec /\ \A t \in Transfers : WF_vars(DepositStep /\ HandleSepayWebhook(t))

-----------------------------------------------------------------------------
(* Properties of the whole                                                 *)

Earnings == [k \in Collabs |-> Earned(k)]

\* Money is neither made nor lost: what the wallets and the escrows hold is
\* what completed deposits brought in, whatever requests race or roll back.
MoneyConserved ==
    Total(available, Accounts) + Total(locked, Accounts) + Total(held, Campaigns)
        = Total(paid, Deposits)

\* The ledger explains every balance: the rows of a wallet add up to its
\* available balance, and a campaign's escrow is what its brand paid in less
\* what came back and what its creators earned.
LedgerExplainsBalances ==
    /\ \A a \in Accounts : available[a] = Total(ledger[a], Sources)
    /\ \A c \in Campaigns :
        held[c] = -(ledger[BrandOf[c]][c])
                  - Total(Earnings, {k \in Collabs : CampaignOf[k] = c})

\* The mechanism implements the promise of Custody.
Promise == INSTANCE Custody WITH
    funds <- available, frozen <- locked, escrow <- held, received <- paid,
    earned <- Earnings

KeepsCustody == Promise!Spec
=============================================================================
