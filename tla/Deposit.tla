------------------------------- MODULE Deposit ------------------------------
(***************************************************************************)
(* DepositService: a deposit order is created with a payment code, the     *)
(* user transfers money quoting the code, and SePay announces the transfer *)
(* by a webhook it repeats until it is answered.  A webhook may arrive     *)
(* several times, late, or for a code whose order is already completed.    *)
(***************************************************************************)
EXTENDS Wallet

CONSTANTS
    DepositorOf,      \* the account of a deposit order
    Transfers,        \* SePay transaction ids
    CodeOf,           \* the deposit order whose code a transfer quotes
    TransferAmounts,  \* amounts a user may transfer
    NoTransfer        \* provider_transaction_id IS NULL

ASSUME DepositAssumption ==
    /\ DepositorOf \in [Deposits -> Accounts]
    /\ CodeOf \in [Transfers -> Deposits]
    /\ TransferAmounts \subseteq Nat \ {0}
    /\ NoTransfer \notin Transfers

VARIABLES
    deposit,    \* deposits.status, or "absent" before the order exists
    paid,       \* deposits.paid_amount
    settledBy,  \* deposits.provider_transaction_id
    sent,       \* the amount of a bank transfer, 0 before it is made
    answered    \* transfers whose webhook SePay knows to be answered

depositVars == <<deposit, paid, settledBy, sent, answered>>

DepositTypeOK ==
    /\ deposit \in [Deposits -> {"absent", "pending", "completed"}]
    /\ paid \in [Deposits -> Nat]
    /\ settledBy \in [Deposits -> Transfers \cup {NoTransfer}]
    /\ sent \in [Transfers -> Nat]
    /\ answered \in SUBSET Transfers

DepositInit ==
    /\ deposit = [d \in Deposits |-> "absent"]
    /\ paid = [d \in Deposits |-> 0]
    /\ settledBy = [d \in Deposits |-> NoTransfer]
    /\ sent = [t \in Transfers |-> 0]
    /\ answered = {}

-----------------------------------------------------------------------------
\* createSepayDeposit().  The requested amount is left out: what is credited
\* is the amount transferred.
CreateDeposit(d) ==
    /\ deposit[d] = "absent"
    /\ deposit' = [deposit EXCEPT ![d] = "pending"]
    /\ UNCHANGED <<paid, settledBy, sent, answered>>

\* The user's bank moves the money (outside the program).  The same code may
\* be paid twice, with any amount.
BankTransfer(t, amount) ==
    /\ sent[t] = 0
    /\ deposit[CodeOf[t]] # "absent"
    /\ sent' = [sent EXCEPT ![t] = amount]
    /\ UNCHANGED <<deposit, paid, settledBy, answered>>

\* Mutant: the UPDATE lost its status = PENDING.
CompleteAgain(t) ==
    LET d == CodeOf[t]
    IN  /\ deposit[d] # "absent"
        /\ deposit' = [deposit EXCEPT ![d] = "completed"]
        /\ paid' = [paid EXCEPT ![d] = sent[t]]
        /\ settledBy' = [settledBy EXCEPT ![d] = t]
        /\ CreditOnce(DepositorOf[d], sent[t], d)

\* completeSepayDeposit(): UPDATE ... WHERE status = PENDING, then the credit
\* of the amount received, in one transaction.
CompleteSepayDeposit(t) ==
    LET d == CodeOf[t]
    IN  /\ deposit[d] = "pending"
        /\ deposit' = [deposit EXCEPT ![d] = "completed"]
        /\ paid' = [paid EXCEPT ![d] = sent[t]]
        /\ settledBy' = [settledBy EXCEPT ![d] = t]
        /\ CreditOnce(DepositorOf[d], sent[t], d)

\* Mutant: a webhook is acknowledged although its order is still pending.
IgnoreAnyTransfer(t) == UNCHANGED <<deposit, paid, settledBy, walletVars>>

\* The UPDATE matched no pending order: the transfer is only logged.
IgnoreTransfer(t) ==
    /\ deposit[CodeOf[t]] = "completed"
    /\ UNCHANGED <<deposit, paid, settledBy, walletVars>>

\* handleSepayWebhook() for a transfer SePay has not seen answered.  The 200
\* may be lost on its way, and then the same webhook comes again.
HandleSepayWebhook(t) ==
    /\ sent[t] > 0
    /\ t \notin answered
    /\ CompleteSepayDeposit(t) \/ IgnoreTransfer(t)
    /\ answered' \in {answered, answered \cup {t}}
    /\ UNCHANGED sent

-----------------------------------------------------------------------------
(* Properties                                                              *)

\* A completed order was settled by exactly one transfer that quoted its
\* code, and credited with what that transfer carried; a transfer settles at
\* most one order (UQ_deposits_provider_transaction and the status guard of
\* completeSepayDeposit).
SettledByOneTransfer ==
    /\ \A d \in Deposits :
        IF deposit[d] = "completed"
        THEN /\ settledBy[d] \in Transfers
             /\ CodeOf[settledBy[d]] = d
             /\ paid[d] = sent[settledBy[d]]
             /\ ledger[DepositorOf[d]][d] = paid[d]
        ELSE settledBy[d] = NoTransfer /\ paid[d] = 0 /\ ~Recorded(d)

\* A transfer that quotes an order's code completes that order in the end,
\* however many webhooks were lost or repeated on the way.
TransferSettlesOrder ==
    \A t \in Transfers : sent[t] > 0 ~> deposit[CodeOf[t]] = "completed"
=============================================================================
