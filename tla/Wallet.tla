------------------------------- MODULE Wallet -------------------------------
(***************************************************************************)
(* The wallets and their ledger: WalletService and the wallet statement of *)
(* WithdrawalService.  Every operation below runs inside the transaction   *)
(* of its caller, so it is a formula the caller conjoins and never an      *)
(* action of its own.                                                      *)
(*                                                                         *)
(* A ledger row carries exactly one source column (collaboration_id,       *)
(* deposit_id, withdrawal_id or campaign_id).  ledger[a][s] is the sum of  *)
(* the amounts of a's rows whose source is s; amounts are whole units.     *)
(***************************************************************************)
EXTENDS Integers, FiniteSets

CONSTANTS Accounts, Campaigns, Collabs, Deposits, Withdrawals

\* The four foreign keys are uuids of four different tables.
ASSUME SourcesDisjoint ==
    /\ Campaigns \cap Collabs = {}
    /\ Campaigns \cap Deposits = {}
    /\ Campaigns \cap Withdrawals = {}
    /\ Collabs \cap Deposits = {}
    /\ Collabs \cap Withdrawals = {}
    /\ Deposits \cap Withdrawals = {}

\* A table has finitely many rows, and only then have sums over it a meaning.
ASSUME FiniteTables ==
    /\ IsFiniteSet(Accounts)
    /\ IsFiniteSet(Campaigns)
    /\ IsFiniteSet(Collabs)
    /\ IsFiniteSet(Deposits)
    /\ IsFiniteSet(Withdrawals)

Sources == Campaigns \cup Collabs \cup Deposits \cup Withdrawals

VARIABLES
    available,  \* wallets.available_balance, 0 for an account with no wallet row
    locked,     \* wallets.locked_balance
    ledger      \* wallet_transactions, summed by account and source

walletVars == <<available, locked, ledger>>

WalletTypeOK ==
    /\ available \in [Accounts -> Nat]
    /\ locked \in [Accounts -> Nat]
    /\ ledger \in [Accounts -> [Sources -> Int]]

WalletInit ==
    /\ available = [a \in Accounts |-> 0]
    /\ locked = [a \in Accounts |-> 0]
    /\ ledger = [a \in Accounts |-> [s \in Sources |-> 0]]

-----------------------------------------------------------------------------
\* A ledger row with this source exists: what the partial unique indexes on
\* collaboration_id and deposit_id make the second INSERT collide with.
Recorded(s) == \E a \in Accounts : ledger[a][s] # 0

\* credit(): the row and the balance in one transaction.
Credit(a, amount, s) ==
    /\ available' = [available EXCEPT ![a] = @ + amount]
    /\ ledger' = [ledger EXCEPT ![a][s] = @ + amount]
    /\ UNCHANGED locked

\* Mutant: the row is inserted without ON CONFLICT, a second credit counts.
CreditAgain(a, amount, s) == Credit(a, amount, s)

\* credit() for a source with a unique index: the INSERT ... ON CONFLICT DO
\* NOTHING that wrote no row leaves the balance alone.
CreditOnce(a, amount, s) ==
    IF Recorded(s) THEN UNCHANGED walletVars ELSE Credit(a, amount, s)

\* debit(): the conditional UPDATE is the guard, it never overdraws.
Debit(a, amount, c) ==
    /\ available[a] >= amount
    /\ available' = [available EXCEPT ![a] = @ - amount]
    /\ ledger' = [ledger EXCEPT ![a][c] = @ - amount]
    /\ UNCHANGED locked

\* The wallet statement of insertWithdrawal(): available moves to locked and
\* the ledger shows the amount leaving.
Freeze(a, amount, w) ==
    /\ available[a] >= amount
    /\ available' = [available EXCEPT ![a] = @ - amount]
    /\ locked' = [locked EXCEPT ![a] = @ + amount]
    /\ ledger' = [ledger EXCEPT ![a][w] = @ - amount]
=============================================================================
