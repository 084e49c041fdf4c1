-------------------------- MODULE SettlementProofs --------------------------
(***************************************************************************)
(* Theorems about Settlement for every value of its constants: the types,  *)
(* where the money comes from and how it is asked out again, whom a        *)
(* collaboration has paid, and that no money is made or lost.              *)
(*                                                                         *)
(* PaidAsStatusSays is not inductive.  The step that completes pays the    *)
(* price its request has read, so the price read must be the agreed one    *)
(* (StalePriceOnlyWhilePending); that holds because a price changes only   *)
(* while a collaboration is PENDING and no request brings one back there   *)
(* (InflightLegal).  And that somebody has a row of a collaboration must   *)
(* mean its creator has (OnlyCreatorEarns).                                *)
(*                                                                         *)
(* For the sums, under CustodyInv each step rests or makes one movement    *)
(* (Moves):                                                                *)
(*                                                                         *)
(*   a completed deposit                             Receives              *)
(*   an approval, an accepted price, a cancellation  Exchanges             *)
(*   a first completion                              Pays                  *)
(*   an inserted withdrawal                          Freezes               *)
(*                                                                         *)
(* A movement is a step of Custody, and it keeps the sums: the ledger      *)
(* explains the balances, the orders explain what is locked, and money is  *)
(* neither made nor lost.                                                  *)
(***************************************************************************)
EXTENDS Settlement, FiniteSetTheorems, WellFoundedInduction, TLAPS

-----------------------------------------------------------------------------
(* Types of the operations on money, cited by the steps that use them      *)

MoneyTypeOK == WalletTypeOK /\ EscrowTypeOK

LEMMA CreditType ==
    ASSUME NEW a \in Accounts, NEW n \in Nat, NEW s \in Sources,
           WalletTypeOK, Credit(a, n, s)
    PROVE  WalletTypeOK'
  BY DEF WalletTypeOK, Credit

LEMMA CreditOnceType ==
    ASSUME NEW a \in Accounts, NEW n \in Nat, NEW s \in Sources,
           WalletTypeOK, CreditOnce(a, n, s)
    PROVE  WalletTypeOK'
  BY CreditType DEF WalletTypeOK, CreditOnce, walletVars

LEMMA DebitType ==
    ASSUME NEW a \in Accounts, NEW n \in Nat, NEW s \in Sources,
           WalletTypeOK, Debit(a, n, s)
    PROVE  WalletTypeOK'
  BY DEF WalletTypeOK, Debit

LEMMA FreezeType ==
    ASSUME NEW a \in Accounts, NEW n \in Nat, NEW s \in Sources,
           WalletTypeOK, Freeze(a, n, s)
    PROVE  WalletTypeOK'
  BY DEF WalletTypeOK, Freeze

LEMMA ReleaseType ==
    ASSUME NEW c \in Campaigns, NEW n \in Nat, EscrowTypeOK, Release(c, n)
    PROVE  EscrowTypeOK'
  BY DEF EscrowTypeOK, Release

LEMMA HoldType ==
    ASSUME NEW c \in Campaigns, NEW n \in Nat, EscrowTypeOK, Hold(c, n)
    PROVE  EscrowTypeOK'
  BY DEF EscrowTypeOK, Hold

LEMMA LockEscrowType ==
    ASSUME NEW c \in Campaigns, NEW n \in Nat, MoneyTypeOK, LockEscrow(c, n)
    PROVE  MoneyTypeOK'
<1>1. CASE c \in escrowed
  BY <1>1 DEF LockEscrow, moneyVars, MoneyTypeOK, WalletTypeOK, EscrowTypeOK
<1>2. CASE c \notin escrowed
  <2>1. BrandOf[c] \in Accounts /\ c \in Sources
    BY OwnersAssumption DEF Sources
  <2>2. WalletTypeOK'
    BY <1>2, <2>1, DebitType DEF LockEscrow, MoneyTypeOK
  <2>3. EscrowTypeOK'
    BY <1>2 DEF LockEscrow, MoneyTypeOK, EscrowTypeOK
  <2>4. QED
    BY <2>2, <2>3 DEF MoneyTypeOK
<1>3. QED
  BY <1>1, <1>2

LEMMA AdjustType ==
    ASSUME NEW k \in Collabs, NEW delta \in Int, MoneyTypeOK, Adjust(k, delta)
    PROVE  MoneyTypeOK'
<1> DEFINE c == CampaignOf[k]
           brand == BrandOf[c]
<1>1. c \in Campaigns /\ brand \in Accounts /\ c \in Sources
  BY OwnersAssumption DEF Sources
<1>2. CASE delta = 0
  BY <1>2 DEF Adjust, moneyVars, MoneyTypeOK, WalletTypeOK, EscrowTypeOK
<1>3. CASE delta > 0
  <2>1. Debit(brand, delta, c) /\ Hold(c, delta) /\ delta \in Nat
    BY <1>3 DEF Adjust
  <2>2. QED
    BY <1>1, <2>1, DebitType, HoldType DEF MoneyTypeOK
<1>4. CASE delta < 0
  <2>1. Release(c, -delta) /\ Credit(brand, -delta, c) /\ -delta \in Nat
    BY <1>4 DEF Adjust
  <2>2. QED
    BY <1>1, <2>1, CreditType, ReleaseType DEF MoneyTypeOK
<1>5. QED
  BY <1>2, <1>3, <1>4

LEMMA RefundType ==
    ASSUME NEW k \in Collabs, NEW price \in Nat, MoneyTypeOK, Refund(k, price)
    PROVE  MoneyTypeOK'
<1>1. CampaignOf[k] \in Campaigns /\ BrandOf[CampaignOf[k]] \in Accounts
      /\ CampaignOf[k] \in Sources
  BY OwnersAssumption DEF Sources
<1>2. QED
  BY <1>1, CreditType, ReleaseType DEF Refund, MoneyTypeOK

LEMMA PayoutType ==
    ASSUME NEW k \in Collabs, NEW price \in Nat, MoneyTypeOK, Payout(k, price)
    PROVE  MoneyTypeOK'
<1>1. CampaignOf[k] \in Campaigns /\ CreatorOf[k] \in Accounts /\ k \in Sources
  BY OwnersAssumption DEF Sources
<1>2. WalletTypeOK'
  BY <1>1, CreditOnceType DEF Payout, MoneyTypeOK
<1>3. EscrowTypeOK'
  BY <1>1, ReleaseType DEF Payout, MoneyTypeOK, EscrowTypeOK, escrowVars
<1>4. QED
  BY <1>2, <1>3 DEF MoneyTypeOK
-----------------------------------------------------------------------------
(* The type invariant                                                      *)

LEMMA InitType == Init => TypeOK
  BY DepositAssumption, TermsAssumption
  DEF Init, TypeOK, WalletInit, WalletTypeOK, EscrowInit, EscrowTypeOK, DepositInit,
      DepositTypeOK, CampaignInit, CampaignTypeOK, CollabInit, CollabTypeOK, Stamped,
      WithdrawalInit, WithdrawalTypeOK, Refusals

LEMMA DepositStepType ==
    ASSUME TypeOK, DepositStep
    PROVE  WalletTypeOK' /\ DepositTypeOK'
<1>1. CASE \E d \in Deposits : CreateDeposit(d) /\ UNCHANGED walletVars
  BY <1>1 DEF TypeOK, CreateDeposit, walletVars, WalletTypeOK, DepositTypeOK
<1>2. CASE \E t \in Transfers, n \in TransferAmounts :
             BankTransfer(t, n) /\ UNCHANGED walletVars
  BY <1>2, DepositAssumption
  DEF TypeOK, BankTransfer, walletVars, WalletTypeOK, DepositTypeOK
<1>3. ASSUME NEW t \in Transfers, HandleSepayWebhook(t)
      PROVE  WalletTypeOK' /\ DepositTypeOK'
  <2>1. CodeOf[t] \in Deposits /\ DepositorOf[CodeOf[t]] \in Accounts
        /\ CodeOf[t] \in Sources /\ sent[t] \in Nat
    BY DepositAssumption DEF Sources, TypeOK, DepositTypeOK
  <2>2. CASE CompleteSepayDeposit(t)
    <3>1. WalletTypeOK'
      BY <2>1, <2>2, CreditOnceType DEF CompleteSepayDeposit, TypeOK
    <3>2. DepositTypeOK'
      BY <1>3, <2>1, <2>2
      DEF HandleSepayWebhook, CompleteSepayDeposit, TypeOK, DepositTypeOK
    <3>3. QED
      BY <3>1, <3>2
  <2>3. CASE IgnoreTransfer(t)
    BY <1>3, <2>3
    DEF HandleSepayWebhook, IgnoreTransfer, walletVars, TypeOK, WalletTypeOK, DepositTypeOK
  <2>4. QED
    BY <1>3, <2>2, <2>3 DEF HandleSepayWebhook
<1>4. QED
  BY <1>1, <1>2, <1>3 DEF DepositStep

LEMMA CampaignStepType ==
    ASSUME TypeOK, CampaignStep
    PROVE  MoneyTypeOK' /\ DepositTypeOK' /\ CampaignTypeOK'
<1> USE DEF TypeOK, CampaignTypeOK
<1>1. PICK c \in Campaigns, expected \in 1..MaxVersion :
        \/ \E t \in Terms : UpdateDraft(c, expected, t)
        \/ Submit(c, expected)
        \/ \E d \in Deposits : SubmitShort(c, expected, d)
        \/ Approve(c, expected)
  BY DEF CampaignStep
<1>2. CASE \E t \in Terms : UpdateDraft(c, expected, t)
  BY <1>2 DEF UpdateDraft, moneyVars, depositVars, MoneyTypeOK, WalletTypeOK, EscrowTypeOK,
              DepositTypeOK
<1>3. CASE Submit(c, expected)
  BY <1>3 DEF Submit, moneyVars, depositVars, MoneyTypeOK, WalletTypeOK, EscrowTypeOK,
              DepositTypeOK
<1>4. CASE \E d \in Deposits : SubmitShort(c, expected, d)
  BY <1>4 DEF SubmitShort, CreateDeposit, moneyVars, campaignVars, MoneyTypeOK, WalletTypeOK,
              EscrowTypeOK, DepositTypeOK
<1>5. CASE Approve(c, expected)
  <2>1. Budget(submission[c].terms) \in Nat
    BY TermsAssumption DEF Budget
  <2>2. MoneyTypeOK'
    BY <1>5, <2>1, LockEscrowType DEF Approve, MoneyTypeOK
  <2>3. DepositTypeOK' /\ CampaignTypeOK'
    BY <1>5 DEF Approve, depositVars, DepositTypeOK
  <2>4. QED
    BY <2>2, <2>3
<1>6. QED
  BY <1>1, <1>2, <1>3, <1>4, <1>5

\* Every step of the collaborations, read once for the proofs below.
CollabAction ==
    \/ \E k \in Collabs : Create(k)
    \/ \E k \in Collabs : WithdrawPrice(k)
    \/ \E k \in Collabs, party \in Parties, price \in Prices : ProposePrice(k, party, price)
    \/ \E k \in Collabs, party \in Parties : AcceptPrice(k, party)
    \/ \E k \in Collabs, role \in Roles, next \in Statuses : ReadForUpdate(k, role, next)
    \/ \E q \in inflight : Advance(q)
    \/ \E q \in inflight : Complete(q)
    \/ \E q \in inflight : Cancel(q)
    \/ \E q \in inflight : DropUpdate(q)

LEMMA CollabStepIsAction == CollabStep => CollabAction
  BY DEF CollabStep, CollabAction

LEMMA CollabStepType ==
    ASSUME TypeOK, CollabStep
    PROVE  MoneyTypeOK' /\ CollabTypeOK'
<1> USE DEF TypeOK, MoneyTypeOK
<1>1. CASE \E k \in Collabs : Create(k)
  <2>1. PICK k \in Collabs : Create(k)
    BY <1>1
  <2>2. terms[CampaignOf[k]].unit \in Nat
    BY OwnersAssumption, TermsAssumption DEF CampaignTypeOK
  <2>3. QED
    BY <2>1, <2>2 DEF Create, moneyVars, WalletTypeOK, EscrowTypeOK, CollabTypeOK, Statuses
<1>2. CASE \E k \in Collabs : WithdrawPrice(k)
  BY <1>2 DEF WithdrawPrice, moneyVars, WalletTypeOK, EscrowTypeOK, CollabTypeOK
<1>3. CASE \E k \in Collabs, party \in Parties, price \in Prices : ProposePrice(k, party, price)
  BY <1>3, CollaborationAssumption
  DEF ProposePrice, moneyVars, WalletTypeOK, EscrowTypeOK, CollabTypeOK
<1>4. CASE \E k \in Collabs, party \in Parties : AcceptPrice(k, party)
  <2>1. PICK k \in Collabs, party \in Parties : AcceptPrice(k, party)
    BY <1>4
  <2>2. MoneyTypeOK'
    <3>1. proposed[k] - agreed[k] \in Int
      BY DEF CollabTypeOK
    <3>2. QED
      BY <2>1, <3>1, AdjustType DEF AcceptPrice
  <2>3. CollabTypeOK'
    BY <2>1 DEF AcceptPrice, CollabTypeOK
  <2>4. QED
    BY <2>2, <2>3
<1>5. CASE \E k \in Collabs, role \in Roles, next \in Statuses : ReadForUpdate(k, role, next)
  <2>1. PICK k \in Collabs, role \in Roles, next \in Statuses : ReadForUpdate(k, role, next)
    BY <1>5
  <2> DEFINE done == IF next \in Stamped THEN stamps[k][next] > 0 ELSE TRUE
             q == [collab |-> k, next |-> next, status |-> status[k],
                   agreed |-> agreed[k], stamped |-> done]
  <2>2. done \in BOOLEAN
    <3>1. CASE next \in Stamped
      <4>1. stamps[k][next] \in 0..2
        BY <3>1 DEF CollabTypeOK
      <4>2. (stamps[k][next] > 0) \in BOOLEAN
        BY <4>1
      <4>3. QED
        BY <3>1, <4>2
    <3>2. QED
      BY <3>1
  <2>3. status[k] \in Statuses /\ agreed[k] \in Nat
    BY <2>1 DEF ReadForUpdate, CollabTypeOK
  <2>4. q \in Snapshots
    BY <2>2, <2>3 DEF Snapshots
  <2>5. inflight' = inflight \cup {q}
    BY <2>1 DEF ReadForUpdate
  <2>6. QED
    BY <2>1, <2>4, <2>5 DEF ReadForUpdate, moneyVars, WalletTypeOK, EscrowTypeOK, CollabTypeOK
<1>6. ASSUME NEW q \in inflight, WriteStatus(q)
      PROVE  CollabTypeOK'
  <2>1. q.collab \in Collabs /\ q.next \in Statuses
    BY DEF CollabTypeOK, Snapshots
  <2>2. status' \in [Collabs -> Statuses \cup {"absent"}]
    BY <1>6, <2>1 DEF WriteStatus, CollabTypeOK
  <2>3. stamps' \in [Collabs -> [Stamped -> 0..2]]
    <3> DEFINE n == IF stamps[q.collab][q.next] = 0 THEN 1 ELSE 2
    <3>1. stamps' = stamps \/ stamps' = [stamps EXCEPT ![q.collab] = [@ EXCEPT ![q.next] = n]]
      BY <1>6, <2>1 DEF WriteStatus, CollabTypeOK
    <3>2. [stamps[q.collab] EXCEPT ![q.next] = n] \in [Stamped -> 0..2]
      <4>1. stamps[q.collab] \in [Stamped -> 0..2] /\ n \in 0..2
        BY <2>1 DEF CollabTypeOK
      <4>2. QED
        BY <4>1
    <3>3. QED
      BY <3>1, <3>2, <2>1 DEF CollabTypeOK
  <2>4. inflight' \in SUBSET Snapshots
    BY <1>6 DEF WriteStatus, CollabTypeOK
  <2>5. QED
    BY <1>6, <2>2, <2>3, <2>4 DEF WriteStatus, CollabTypeOK
<1>7. CASE \E q \in inflight : Advance(q)
  BY <1>6, <1>7 DEF Advance, moneyVars, WalletTypeOK, EscrowTypeOK
<1>8. CASE \E q \in inflight : Complete(q)
  BY <1>6, <1>8, PayoutType DEF Complete, CollabTypeOK, Snapshots
<1>9. CASE \E q \in inflight : Cancel(q)
  BY <1>6, <1>9, RefundType DEF Cancel, CollabTypeOK, Snapshots
<1>10. CASE \E q \in inflight : DropUpdate(q)
  BY <1>10 DEF DropUpdate, moneyVars, WalletTypeOK, EscrowTypeOK, CollabTypeOK
<1>11. QED
  BY <1>1, <1>2, <1>3, <1>4, <1>5, <1>7, <1>8, <1>9, <1>10, CollabStepIsAction
  DEF CollabAction

LEMMA WithdrawalStepType ==
    ASSUME TypeOK, WithdrawalStep
    PROVE  WalletTypeOK' /\ WithdrawalTypeOK'
<1> USE DEF TypeOK, WithdrawalTypeOK, Answer
<1>1. CASE \E w \in Withdrawals, n \in WithdrawAmounts : LookUpKey(w, n)
  <2>1. PICK w \in Withdrawals, n \in WithdrawAmounts : LookUpKey(w, n)
    BY <1>1
  <2>2. WalletTypeOK' /\ orders' \in SUBSET Withdrawals
    BY <2>1 DEF LookUpKey, walletVars, WalletTypeOK
  <2>3. requested' \in [Withdrawals -> Nat]
    BY <2>1, WithdrawalAssumption DEF LookUpKey
  <2>4. asked' \in [Withdrawals -> {"new", "lookedup", "done"}]
        /\ answer' \in [Withdrawals -> Withdrawals \cup Refusals]
    BY <2>1 DEF LookUpKey, SameKey
  <2>5. QED
    BY <2>2, <2>3, <2>4
<1>2. ASSUME NEW w \in Withdrawals, InsertWithdrawal(w)
      PROVE  WalletTypeOK' /\ WithdrawalTypeOK'
  <2>1. CASE /\ Answer(w, "insufficient")
             /\ UNCHANGED <<orders, walletVars>>
    BY <1>2, <2>1 DEF InsertWithdrawal, walletVars, WalletTypeOK, Refusals
  <2>2. CASE /\ \E v \in SameKey(w) : Answer(w, v)
             /\ UNCHANGED <<orders, walletVars>>
    BY <1>2, <2>2 DEF InsertWithdrawal, SameKey, walletVars, WalletTypeOK
  <2>3. CASE /\ Freeze(RequesterOf[w], requested[w], w)
             /\ orders' = orders \cup {w}
             /\ Answer(w, w)
    <3>1. RequesterOf[w] \in Accounts /\ w \in Sources /\ requested[w] \in Nat
      BY WithdrawalAssumption DEF Sources
    <3>2. WalletTypeOK'
      BY <2>3, <3>1, FreezeType
    <3>3. WithdrawalTypeOK'
      BY <1>2, <2>3 DEF InsertWithdrawal
    <3>4. QED
      BY <3>2, <3>3
  <2>4. QED
    BY <1>2, <2>1, <2>2, <2>3 DEF InsertWithdrawal
<1>3. CASE \E w \in Withdrawals : LoseWithdrawalAnswer(w)
  BY <1>3 DEF LoseWithdrawalAnswer, Refusals, walletVars, WalletTypeOK
<1>4. QED
  BY <1>1, <1>2, <1>3 DEF WithdrawalStep

LEMMA TypeStep == ASSUME TypeOK, [Next]_vars PROVE TypeOK'
<1>1. CASE DepositStep
  BY <1>1, DepositStepType
  DEF DepositStep, TypeOK, escrowVars, campaignVars, collabVars, withdrawalVars,
      EscrowTypeOK, CampaignTypeOK, CollabTypeOK, WithdrawalTypeOK
<1>2. CASE CampaignStep
  BY <1>2, CampaignStepType
  DEF CampaignStep, TypeOK, MoneyTypeOK, collabVars, withdrawalVars, CollabTypeOK,
      WithdrawalTypeOK
<1>3. CASE CollabStep
  BY <1>3, CollabStepType
  DEF CollabStep, TypeOK, MoneyTypeOK, depositVars, campaignVars, withdrawalVars,
      DepositTypeOK, CampaignTypeOK, WithdrawalTypeOK
<1>4. CASE WithdrawalStep
  BY <1>4, WithdrawalStepType
  DEF WithdrawalStep, TypeOK, escrowVars, depositVars, campaignVars, collabVars,
      EscrowTypeOK, DepositTypeOK, CampaignTypeOK, CollabTypeOK
<1>5. CASE UNCHANGED vars
  BY <1>5
  DEF vars, TypeOK, moneyVars, depositVars, campaignVars, collabVars, withdrawalVars,
      WalletTypeOK, EscrowTypeOK, DepositTypeOK, CampaignTypeOK, CollabTypeOK,
      WithdrawalTypeOK
<1>6. QED
  BY <1>1, <1>2, <1>3, <1>4, <1>5 DEF Next

\* Every balance stays a natural number and every row keeps its shape under
\* any interleaving: the conditional UPDATEs of debit(), release() and
\* insertWithdrawal() never let a wallet or an escrow go below zero.
THEOREM TypeCorrect == Spec => []TypeOK
<1>1. Init => TypeOK
  BY InitType
<1>2. TypeOK /\ [Next]_vars => TypeOK'
  BY TypeStep
<1>3. QED
  BY <1>1, <1>2, PTL DEF Spec

-----------------------------------------------------------------------------
(* Which rows of the ledger a step touches                                 *)

SameRows(S) == \A a \in Accounts, s \in S : ledger'[a][s] = ledger[a][s]

LEMMA UnchangedRows == ASSUME NEW S, UNCHANGED ledger PROVE SameRows(S)
  BY DEF SameRows

LEMMA CreditRows ==
    ASSUME WalletTypeOK, NEW a \in Accounts, NEW n \in Nat, NEW S \in SUBSET Sources,
           NEW s \in Sources \ S, Credit(a, n, s)
    PROVE  SameRows(S)
  BY DEF WalletTypeOK, Credit, SameRows

LEMMA DebitRows ==
    ASSUME WalletTypeOK, NEW a \in Accounts, NEW n \in Nat, NEW S \in SUBSET Sources,
           NEW s \in Sources \ S, Debit(a, n, s)
    PROVE  SameRows(S)
  BY DEF WalletTypeOK, Debit, SameRows

LEMMA FreezeRows ==
    ASSUME WalletTypeOK, NEW a \in Accounts, NEW n \in Nat, NEW S \in SUBSET Sources,
           NEW s \in Sources \ S, Freeze(a, n, s)
    PROVE  SameRows(S)
  BY DEF WalletTypeOK, Freeze, SameRows

LEMMA SourceKinds ==
    /\ Campaigns \subseteq Sources \ (Collabs \cup Deposits)
    /\ Collabs \subseteq Sources \ Deposits
    /\ Deposits \subseteq Sources \ Collabs
    /\ Withdrawals \subseteq Sources \ (Collabs \cup Deposits)
  BY SourcesDisjoint DEF Sources

LEMMA DepositStepRows ==
    ASSUME TypeOK, DepositStep
    PROVE  SameRows(Collabs)
<1>1. CASE UNCHANGED walletVars
  BY <1>1, UnchangedRows DEF walletVars
<1>2. ASSUME NEW t \in Transfers, HandleSepayWebhook(t)
      PROVE  SameRows(Collabs)
  <2> DEFINE d == CodeOf[t]
  <2>1. d \in Sources \ Collabs /\ DepositorOf[d] \in Accounts /\ sent[t] \in Nat
        /\ Collabs \subseteq Sources
    BY SourceKinds, DepositAssumption DEF TypeOK, DepositTypeOK
  <2>2. CASE Credit(DepositorOf[d], sent[t], d)
    BY <2>1, <2>2, CreditRows DEF TypeOK
  <2>3. QED
    BY <1>1, <1>2, <2>2
    DEF HandleSepayWebhook, CompleteSepayDeposit, IgnoreTransfer, CreditOnce, walletVars
<1>3. QED
  BY <1>1, <1>2 DEF DepositStep

LEMMA CampaignStepRows ==
    ASSUME TypeOK, CampaignStep
    PROVE  SameRows(Collabs) /\ SameRows(Deposits)
<1> SUFFICES SameRows(Collabs \cup Deposits)
  BY DEF SameRows
<1>1. PICK c \in Campaigns, expected \in 1..MaxVersion :
        \/ \E t \in Terms : UpdateDraft(c, expected, t)
        \/ Submit(c, expected)
        \/ \E d \in Deposits : SubmitShort(c, expected, d)
        \/ Approve(c, expected)
  BY DEF CampaignStep
<1>2. CASE UNCHANGED moneyVars
  BY <1>2, UnchangedRows DEF moneyVars
<1>3. CASE Approve(c, expected)
  <2> DEFINE n == Budget(submission[c].terms)
  <2>1. n \in Nat
    BY TermsAssumption DEF Budget, TypeOK, CampaignTypeOK
  <2>2. UNCHANGED moneyVars \/ Debit(BrandOf[c], n, c)
    BY <1>3 DEF Approve, LockEscrow
  <2>3. BrandOf[c] \in Accounts /\ c \in Sources \ (Collabs \cup Deposits)
        /\ Collabs \cup Deposits \subseteq Sources
    BY OwnersAssumption, SourceKinds
  <2> HIDE DEF n
  <2>4. QED
    BY <1>2, <2>1, <2>2, <2>3, DebitRows DEF TypeOK
<1>4. QED
  BY <1>1, <1>2, <1>3 DEF UpdateDraft, Submit, SubmitShort

LEMMA WithdrawalStepRows ==
    ASSUME TypeOK, WithdrawalStep
    PROVE  SameRows(Collabs) /\ SameRows(Deposits)
<1> SUFFICES SameRows(Collabs \cup Deposits)
  BY DEF SameRows
<1>1. CASE UNCHANGED walletVars
  BY <1>1, UnchangedRows DEF walletVars
<1>2. ASSUME NEW w \in Withdrawals, Freeze(RequesterOf[w], requested[w], w)
      PROVE  SameRows(Collabs \cup Deposits)
  <2>1. w \in Sources \ (Collabs \cup Deposits) /\ RequesterOf[w] \in Accounts
        /\ requested[w] \in Nat /\ Collabs \cup Deposits \subseteq Sources
    BY SourceKinds, WithdrawalAssumption DEF TypeOK, WithdrawalTypeOK
  <2>2. QED
    BY <1>2, <2>1, FreezeRows DEF TypeOK
<1>3. QED
  BY <1>1, <1>2 DEF WithdrawalStep, LookUpKey, InsertWithdrawal, LoseWithdrawalAnswer

LEMMA AdjustRows ==
    ASSUME TypeOK, NEW k \in Collabs, NEW delta \in Int, Adjust(k, delta)
    PROVE  SameRows(Collabs) /\ SameRows(Deposits)
<1> SUFFICES SameRows(Collabs \cup Deposits)
  BY DEF SameRows
<1> DEFINE c == CampaignOf[k]
<1>1. c \in Sources \ (Collabs \cup Deposits) /\ BrandOf[c] \in Accounts
      /\ Collabs \cup Deposits \subseteq Sources
  BY OwnersAssumption, SourceKinds
<1>2. CASE UNCHANGED moneyVars
  BY <1>2, UnchangedRows DEF moneyVars
<1>3. CASE delta > 0 /\ Debit(BrandOf[c], delta, c)
  BY <1>1, <1>3, DebitRows DEF TypeOK
<1>4. CASE delta < 0 /\ Credit(BrandOf[c], -delta, c)
  <2>1. -delta \in Nat
    BY <1>4
  <2>2. QED
    BY <1>1, <1>4, <2>1, CreditRows DEF TypeOK
<1>5. QED
  BY <1>2, <1>3, <1>4 DEF Adjust

LEMMA RefundRows ==
    ASSUME TypeOK, NEW k \in Collabs, NEW n \in Nat, Refund(k, n)
    PROVE  SameRows(Collabs) /\ SameRows(Deposits)
<1> SUFFICES SameRows(Collabs \cup Deposits)
  BY DEF SameRows
<1>1. CampaignOf[k] \in Sources \ (Collabs \cup Deposits)
      /\ BrandOf[CampaignOf[k]] \in Accounts /\ Collabs \cup Deposits \subseteq Sources
  BY OwnersAssumption, SourceKinds
<1>2. QED
  BY <1>1, CreditRows DEF Refund, TypeOK

LEMMA PayoutRows ==
    ASSUME TypeOK, NEW k \in Collabs, NEW n \in Nat, Payout(k, n)
    PROVE  SameRows(Deposits)
<1>1. k \in Sources \ Deposits /\ CreatorOf[k] \in Accounts /\ Deposits \subseteq Sources
  BY OwnersAssumption, SourceKinds
<1>2. QED
  BY <1>1, CreditRows, UnchangedRows DEF Payout, CreditOnce, walletVars, TypeOK

-----------------------------------------------------------------------------
(* Deposits                                                                *)

\* A transfer that has settled an order was made, and its amount is fixed.
SettledWasSent ==
    \A d \in Deposits : deposit[d] = "completed" => sent[settledBy[d]] > 0

DepositInv == TypeOK /\ SettledByOneTransfer /\ SettledWasSent

LEMMA DepositInvInit == Init => DepositInv
<1> SUFFICES ASSUME Init PROVE DepositInv
  OBVIOUS
<1>1. \A a \in Accounts, d \in Deposits : ledger[a][d] = 0
  BY DEF Init, WalletInit, Sources
<1>2. QED
  BY <1>1, InitType
  DEF DepositInv, Init, DepositInit, SettledByOneTransfer, SettledWasSent, Recorded

\* Steps that leave the orders, the transfers and their rows alone.
LEMMA OthersKeepDepositInv ==
    ASSUME DepositInv, TypeOK', SameRows(Deposits),
           UNCHANGED <<deposit, paid, settledBy, sent>>
    PROVE  DepositInv'
<1> USE DEF DepositInv, SameRows
<1>1. \A d \in Deposits : DepositorOf[d] \in Accounts /\ (Recorded(d)' <=> Recorded(d))
  BY DepositAssumption DEF Recorded
<1>2. SettledByOneTransfer'
  BY <1>1 DEF SettledByOneTransfer, Recorded
<1>3. QED
  BY <1>2 DEF SettledWasSent

LEMMA CreateKeepsDepositInv ==
    ASSUME DepositInv, TypeOK', NEW d \in Deposits, CreateDeposit(d), UNCHANGED walletVars
    PROVE  DepositInv'
  BY DEF DepositInv, TypeOK, DepositTypeOK, CreateDeposit, walletVars, SettledByOneTransfer,
         SettledWasSent, Recorded

LEMMA TransferKeepsDepositInv ==
    ASSUME DepositInv, TypeOK', NEW t \in Transfers, NEW n \in TransferAmounts,
           BankTransfer(t, n), UNCHANGED walletVars
    PROVE  DepositInv'
<1>1. \A d \in Deposits : deposit[d] = "completed" => settledBy[d] # t
  BY DEF DepositInv, SettledWasSent, BankTransfer
<1>2. QED
  BY <1>1
  DEF DepositInv, TypeOK, DepositTypeOK, BankTransfer, walletVars, SettledByOneTransfer,
      SettledWasSent, Recorded

LEMMA CompleteKeepsDepositInv ==
    ASSUME DepositInv, TypeOK', NEW t \in Transfers, sent[t] > 0, CompleteSepayDeposit(t),
           UNCHANGED sent
    PROVE  DepositInv'
<1> DEFINE d == CodeOf[t]
           a == DepositorOf[d]
<1>1. d \in Deposits /\ a \in Accounts /\ Deposits \subseteq Sources /\ sent[t] \in Nat
  BY DepositAssumption DEF Sources, DepositInv, TypeOK, DepositTypeOK
<1>2. /\ deposit[d] = "pending" /\ deposit' = [deposit EXCEPT ![d] = "completed"]
      /\ paid' = [paid EXCEPT ![d] = sent[t]] /\ settledBy' = [settledBy EXCEPT ![d] = t]
  BY DEF CompleteSepayDeposit
<1>3. ~Recorded(d)
  BY <1>1, <1>2 DEF DepositInv, SettledByOneTransfer
<1>4. ledger' = [ledger EXCEPT ![a][d] = @ + sent[t]] /\ ledger[a][d] = 0
  BY <1>1, <1>3 DEF CompleteSepayDeposit, CreditOnce, Credit, Recorded
<1>5. ledger'[a][d] = sent[t]
  BY <1>1, <1>4 DEF DepositInv, TypeOK, WalletTypeOK
<1>6. \A e \in Deposits : e # d => \A b \in Accounts : ledger'[b][e] = ledger[b][e]
  BY <1>1, <1>4 DEF DepositInv, TypeOK, WalletTypeOK
<1>7. \A e \in Deposits : DepositorOf[e] \in Accounts
  BY DepositAssumption
<1>8. SettledByOneTransfer'
  <2> SUFFICES ASSUME NEW e \in Deposits
               PROVE  IF deposit'[e] = "completed"
                      THEN /\ settledBy'[e] \in Transfers
                           /\ CodeOf[settledBy'[e]] = e
                           /\ paid'[e] = sent[settledBy'[e]]
                           /\ ledger'[DepositorOf[e]][e] = paid'[e]
                      ELSE settledBy'[e] = NoTransfer /\ paid'[e] = 0 /\ ~Recorded(e)'
    BY DEF SettledByOneTransfer, Recorded
  <2>1. CASE e = d
    BY <1>1, <1>2, <1>5, <2>1 DEF DepositInv, TypeOK, DepositTypeOK
  <2>2. CASE e # d
    <3>1. /\ deposit'[e] = deposit[e] /\ paid'[e] = paid[e] /\ settledBy'[e] = settledBy[e]
          /\ ledger'[DepositorOf[e]][e] = ledger[DepositorOf[e]][e]
          /\ Recorded(e)' <=> Recorded(e)
      BY <1>1, <1>2, <1>6, <1>7, <2>2 DEF DepositInv, TypeOK, DepositTypeOK, Recorded
    <3>2. QED
      BY <3>1 DEF DepositInv, SettledByOneTransfer
  <2>3. QED
    BY <2>1, <2>2
<1>9. SettledWasSent'
  BY <1>1, <1>2 DEF DepositInv, TypeOK, DepositTypeOK, SettledWasSent
<1>10. QED
  BY <1>8, <1>9 DEF DepositInv

LEMMA CollabStepDepositRows ==
    ASSUME TypeOK, CollabStep
    PROVE  SameRows(Deposits)
<1>1. CASE UNCHANGED ledger
  BY <1>1, UnchangedRows
<1>2. ASSUME NEW k \in Collabs, NEW party \in Parties, AcceptPrice(k, party)
      PROVE  SameRows(Deposits)
  <2>1. proposed[k] - agreed[k] \in Int
    BY DEF TypeOK, CollabTypeOK
  <2>2. QED
    BY <1>2, <2>1, AdjustRows DEF AcceptPrice
<1>3. ASSUME NEW q \in inflight, Complete(q) \/ Cancel(q)
      PROVE  SameRows(Deposits)
  <2>1. q.collab \in Collabs /\ q.agreed \in Nat
    BY DEF TypeOK, CollabTypeOK, Snapshots
  <2>2. QED
    BY <1>3, <2>1, PayoutRows, RefundRows DEF Complete, Cancel
<1>4. QED
  BY <1>1, <1>2, <1>3, CollabStepIsAction
  DEF CollabAction, Create, WithdrawPrice, ProposePrice, ReadForUpdate, Advance, DropUpdate,
      moneyVars

LEMMA DepositInvStep == ASSUME DepositInv, [Next]_vars PROVE DepositInv'
<1>1. TypeOK /\ TypeOK'
  BY TypeStep DEF DepositInv
<1>2. CASE \E d \in Deposits : CreateDeposit(d) /\ UNCHANGED walletVars
  BY <1>1, <1>2, CreateKeepsDepositInv
<1>3. CASE \E t \in Transfers, n \in TransferAmounts : BankTransfer(t, n) /\ UNCHANGED walletVars
  BY <1>1, <1>3, TransferKeepsDepositInv
<1>4. CASE \E t \in Transfers : HandleSepayWebhook(t)
  <2>1. PICK t \in Transfers : HandleSepayWebhook(t)
    BY <1>4
  <2>2. CASE CompleteSepayDeposit(t)
    BY <1>1, <2>1, <2>2, CompleteKeepsDepositInv DEF HandleSepayWebhook
  <2>3. CASE IgnoreTransfer(t)
    BY <1>1, <2>1, <2>3, UnchangedRows, OthersKeepDepositInv
    DEF HandleSepayWebhook, IgnoreTransfer, walletVars
  <2>4. QED
    BY <2>1, <2>2, <2>3 DEF HandleSepayWebhook
<1>5. CASE CampaignStep
  <2>1. SameRows(Deposits)
    BY <1>1, <1>5, CampaignStepRows
  <2>2. CASE UNCHANGED depositVars
    BY <1>1, <2>1, <2>2, OthersKeepDepositInv DEF depositVars
  <2>3. CASE \E d \in Deposits : CreateDeposit(d) /\ UNCHANGED moneyVars
    BY <1>1, <2>3, CreateKeepsDepositInv DEF moneyVars, walletVars
  <2>4. QED
    BY <1>5, <2>2, <2>3 DEF CampaignStep, UpdateDraft, Submit, SubmitShort, Approve
<1>6. CASE CollabStep
  BY <1>1, <1>6, CollabStepDepositRows, OthersKeepDepositInv DEF CollabStep, depositVars
<1>7. CASE WithdrawalStep
  BY <1>1, <1>7, WithdrawalStepRows, OthersKeepDepositInv DEF WithdrawalStep, depositVars
<1>8. CASE UNCHANGED vars
  BY <1>1, <1>8, UnchangedRows, OthersKeepDepositInv DEF vars, moneyVars, depositVars
<1>9. QED
  BY <1>2, <1>3, <1>4, <1>5, <1>6, <1>7, <1>8 DEF Next, DepositStep

LEMMA DepositInvariant == Spec => []DepositInv
  BY DepositInvInit, DepositInvStep, PTL DEF Spec

\* completeSepayDeposit(): however webhooks repeat and race, a completed
\* order was credited once, with what one transfer quoting its code carried.
THEOREM OneTransferSettles == Spec => []SettledByOneTransfer
<1>1. DepositInv => SettledByOneTransfer
  BY DEF DepositInv
<1>2. QED
  BY <1>1, DepositInvariant, PTL

-----------------------------------------------------------------------------
(* Campaigns                                                               *)

LEMMA ReviewInit == Init => ReviewedContentStands
  BY DEF Init, EscrowInit, CampaignInit, ReviewedContentStands

LEMMA ReviewStep ==
    ASSUME TypeOK, ReviewedContentStands, [Next]_vars
    PROVE  ReviewedContentStands'
<1> USE DEF ReviewedContentStands
<1>1. ASSUME UNCHANGED <<campaignVars, escrowed>> PROVE ReviewedContentStands'
  BY <1>1 DEF campaignVars
<1>2. CASE DepositStep \/ WithdrawalStep \/ UNCHANGED vars
  BY <1>1, <1>2 DEF DepositStep, WithdrawalStep, vars, escrowVars, moneyVars
<1>3. CASE CollabStep
  <2>1. UNCHANGED escrowed
    BY <1>3, CollabStepIsAction
    DEF CollabAction, Create, WithdrawPrice, ProposePrice, AcceptPrice, ReadForUpdate, Advance,
        Complete, Cancel, DropUpdate, Adjust, Payout, Refund, Release, Hold, moneyVars,
        escrowVars
  <2>2. QED
    BY <1>1, <1>3, <2>1 DEF CollabStep
<1>4. CASE CampaignStep
  <2>1. PICK c \in Campaigns, expected \in 1..MaxVersion :
          \/ \E t \in Terms : UpdateDraft(c, expected, t)
          \/ Submit(c, expected)
          \/ \E d \in Deposits : SubmitShort(c, expected, d)
          \/ Approve(c, expected)
    BY <1>4 DEF CampaignStep
  <2> USE DEF TypeOK, CampaignTypeOK
  <2>2. CASE \E t \in Terms : UpdateDraft(c, expected, t)
    BY <2>2 DEF UpdateDraft, moneyVars
  <2>3. CASE Submit(c, expected)
    BY <2>3 DEF Submit, moneyVars
  <2>4. CASE \E d \in Deposits : SubmitShort(c, expected, d)
    BY <1>1, <2>4 DEF SubmitShort, moneyVars
  <2>5. CASE Approve(c, expected)
    <3>1. escrowed' = escrowed \cup {c}
      BY <2>5 DEF Approve, LockEscrow
    <3>2. /\ campaignStatus' = [campaignStatus EXCEPT ![c] = "approved"]
          /\ campaignStatus[c] = "pending_approval"
          /\ version' = [version EXCEPT ![c] = @ + 1]
          /\ submission' = [submission EXCEPT ![c].status = "decided"]
          /\ UNCHANGED terms
      BY <2>5 DEF Approve
    <3>3. QED
      BY <3>1, <3>2
  <2>6. QED
    BY <2>1, <2>2, <2>3, <2>4, <2>5
<1>5. QED
  BY <1>2, <1>3, <1>4 DEF Next

\* submit() and approve(): from submission on the content is the one that was
\* copied for review, and a campaign has an escrow exactly when it is approved.
THEOREM ReviewedContentIsFunded == Spec => []ReviewedContentStands
<1>1. TypeOK /\ ReviewedContentStands /\ [Next]_vars => ReviewedContentStands'
  BY ReviewStep
<1>2. QED
  BY <1>1, ReviewInit, TypeCorrect, PTL DEF Spec

-----------------------------------------------------------------------------
(* Withdrawals                                                             *)

LEMMA OrdersStep ==
    ASSUME OneOrderPerKey, [Next]_vars
    PROVE  OneOrderPerKey'
<1> USE DEF OneOrderPerKey, SameKey
<1>1. CASE UNCHANGED orders
  BY <1>1
<1>2. ASSUME NEW w \in Withdrawals, SameKey(w) = {}, orders' = orders \cup {w}
      PROVE  OneOrderPerKey'
  BY <1>2
<1>3. QED
  BY <1>1, <1>2
  DEF Next, DepositStep, CampaignStep, CollabStep, WithdrawalStep, LookUpKey,
      InsertWithdrawal, LoseWithdrawalAnswer, withdrawalVars, vars

\* createWithdrawal(): however many requests of an account carry one key and
\* however they interleave, at most one of them inserts an order.
THEOREM OneOrder == Spec => []OneOrderPerKey
<1>1. Init => OneOrderPerKey
  BY DEF Init, WithdrawalInit, OneOrderPerKey
<1>2. QED
  BY <1>1, OrdersStep, PTL DEF Spec

-----------------------------------------------------------------------------
(* Collaborations: whom they have paid, at which price, and what the       *)
(* timestamps tell                                                         *)

OnlyCreatorEarns ==
    \A a \in Accounts, k \in Collabs : a # CreatorOf[k] => ledger[a][k] = 0

InflightLegal ==
    \A q \in inflight :
        /\ TransitionActors(q.status, q.next) # {}
        /\ status[q.collab] # "absent"
        /\ status[q.collab] = "pending" => q.status = "pending"

CollabInv ==
    /\ TypeOK
    /\ OnlyCreatorEarns
    /\ InflightLegal
    /\ StalePriceOnlyWhilePending
    /\ PaidAsStatusSays
    /\ OneOpenPerPair

-----------------------------------------------------------------------------
(* What a payout writes in the ledger                                      *)

\* A payout adds the price to its creator's row, unless the collaboration has
\* been paid, and touches no other row.
LEMMA PayoutEarnings ==
    ASSUME TypeOK, NEW k \in Collabs, NEW n \in Nat, Payout(k, n)
    PROVE  /\ \A a \in Accounts, j \in Collabs :
                a # CreatorOf[k] \/ j # k => ledger'[a][j] = ledger[a][j]
           /\ Recorded(k) => SameRows(Collabs)
           /\ ~Recorded(k) => Earned(k)' = n
<1>1. CreatorOf[k] \in Accounts /\ k \in Sources /\ Collabs \subseteq Sources
  BY OwnersAssumption DEF Sources
<1>2. CASE Recorded(k)
  BY <1>2, UnchangedRows DEF Payout, CreditOnce, walletVars, SameRows
<1>3. CASE ~Recorded(k)
  <2>1. ledger' = [ledger EXCEPT ![CreatorOf[k]][k] = @ + n]
    BY <1>3 DEF Payout, CreditOnce, Credit
  <2>2. ledger[CreatorOf[k]][k] = 0
    BY <1>1, <1>3 DEF Recorded
  <2>3. QED
    BY <1>1, <1>3, <2>1, <2>2 DEF TypeOK, WalletTypeOK, Earned
<1>4. QED
  BY <1>2, <1>3

-----------------------------------------------------------------------------
(* The state machine                                                       *)

LEMMA TransitionFacts ==
    ASSUME NEW from \in Statuses, NEW to \in Statuses, TransitionActors(from, to) # {}
    PROVE  /\ to # "pending"
           /\ to \in OpenStatuses \cup {"cancelled"} => from \in OpenStatuses
           /\ to = "completed" => from \in {"submitted", "disputed"}
           /\ to = "disputed" => from \in {"active", "submitted", "completed"}
  BY DEF Statuses, OpenStatuses, TransitionActors

\* What a written status change leaves, whoever else was in flight.
LEMMA WriteFacts ==
    ASSUME CollabInv, NEW q \in inflight, WriteStatus(q)
    PROVE  /\ q.collab \in Collabs /\ q.next \in Statuses /\ q.status \in Statuses
           /\ q.agreed \in Nat
           /\ status[q.collab] = q.status
           /\ status' = [status EXCEPT ![q.collab] = q.next]
           /\ UNCHANGED agreed
           /\ inflight' \subseteq inflight
           /\ TransitionActors(q.status, q.next) # {}
           /\ InflightLegal' /\ StalePriceOnlyWhilePending' /\ OneOpenPerPair'
<1>1. /\ q.collab \in Collabs /\ q.next \in Statuses /\ q.status \in Statuses
      /\ q.agreed \in Nat /\ inflight \subseteq Snapshots
      /\ status \in [Collabs -> Statuses \cup {"absent"}]
  BY DEF CollabInv, TypeOK, CollabTypeOK, Snapshots
<1>2. /\ status[q.collab] = q.status
      /\ status' = [status EXCEPT ![q.collab] = q.next]
      /\ UNCHANGED agreed
      /\ inflight' \subseteq inflight
  BY DEF WriteStatus
<1>3. TransitionActors(q.status, q.next) # {}
  BY DEF CollabInv, InflightLegal
<1>4. q.next # "pending" /\ (q.next \in OpenStatuses => q.status \in OpenStatuses)
  BY <1>1, <1>3, TransitionFacts
<1>5. InflightLegal'
  BY <1>1, <1>2, <1>4 DEF CollabInv, InflightLegal, Snapshots, Statuses, TransitionActors
<1>6. StalePriceOnlyWhilePending'
  BY <1>2 DEF CollabInv, StalePriceOnlyWhilePending
<1>7. OneOpenPerPair'
  BY <1>1, <1>2, <1>4 DEF CollabInv, OneOpenPerPair, SamePair
<1>8. QED
  BY <1>1, <1>2, <1>3, <1>5, <1>6, <1>7

\* Steps that leave the collaborations and what they paid alone.
LEMMA OthersKeepCollabInv ==
    ASSUME CollabInv, TypeOK', SameRows(Collabs), UNCHANGED collabVars
    PROVE  CollabInv'
<1> USE DEF CollabInv, collabVars, SameRows
<1>1. OnlyCreatorEarns'
  BY DEF OnlyCreatorEarns
<1>2. PaidAsStatusSays'
  BY OwnersAssumption DEF PaidAsStatusSays, Earned, Recorded
<1>3. InflightLegal' /\ StalePriceOnlyWhilePending' /\ OneOpenPerPair'
  BY DEF InflightLegal, StalePriceOnlyWhilePending, OneOpenPerPair
<1>4. QED
  BY <1>1, <1>2, <1>3

LEMMA CreateKeepsCollabInv ==
    ASSUME CollabInv, TypeOK', NEW k \in Collabs, Create(k)
    PROVE  CollabInv'
<1> USE DEF CollabInv, Create, moneyVars
<1>1. /\ status \in [Collabs -> Statuses \cup {"absent"}] /\ agreed \in [Collabs -> Nat]
      /\ inflight \subseteq Snapshots
  BY DEF TypeOK, CollabTypeOK
<1>2. OnlyCreatorEarns'
  BY DEF OnlyCreatorEarns
<1>3. PaidAsStatusSays'
  BY <1>1 DEF PaidAsStatusSays, Earned, Recorded
<1>4. \A q \in inflight : q.collab # k
  BY DEF InflightLegal
<1>5. InflightLegal' /\ StalePriceOnlyWhilePending'
  BY <1>1, <1>4 DEF InflightLegal, StalePriceOnlyWhilePending, Snapshots
<1>6. OneOpenPerPair'
  BY <1>1 DEF OneOpenPerPair, SamePair
<1>7. QED
  BY <1>2, <1>3, <1>5, <1>6

LEMMA AcceptKeepsCollabInv ==
    ASSUME CollabInv, TypeOK', NEW k \in Collabs, NEW party \in Parties,
           AcceptPrice(k, party)
    PROVE  CollabInv'
<1> USE DEF CollabInv
<1>1. /\ status \in [Collabs -> Statuses \cup {"absent"}] /\ agreed \in [Collabs -> Nat]
      /\ inflight \subseteq Snapshots /\ proposed \in [Collabs -> Nat]
  BY DEF TypeOK, CollabTypeOK
<1>2. SameRows(Collabs)
  <2>1. proposed[k] - agreed[k] \in Int
    BY <1>1
  <2>2. QED
    BY <2>1, AdjustRows DEF AcceptPrice
<1>3. /\ status[k] = "pending" /\ agreed' = [agreed EXCEPT ![k] = proposed[k]]
      /\ UNCHANGED <<status, inflight>>
  BY DEF AcceptPrice
<1>4. OnlyCreatorEarns'
  BY <1>2 DEF OnlyCreatorEarns, SameRows
<1>5. PaidAsStatusSays'
  BY <1>1, <1>2, <1>3, OwnersAssumption DEF PaidAsStatusSays, Earned, Recorded, SameRows
<1>6. \A q \in inflight : q.collab = k => q.status = "pending"
  BY <1>3 DEF InflightLegal
<1>7. InflightLegal' /\ StalePriceOnlyWhilePending' /\ OneOpenPerPair'
  BY <1>1, <1>3, <1>6 DEF InflightLegal, StalePriceOnlyWhilePending, OneOpenPerPair, Snapshots
<1>8. QED
  BY <1>4, <1>5, <1>7

LEMMA ReadKeepsCollabInv ==
    ASSUME CollabInv, TypeOK', NEW k \in Collabs, NEW role \in Roles, NEW next \in Statuses,
           ReadForUpdate(k, role, next)
    PROVE  CollabInv'
<1> USE DEF CollabInv, moneyVars
<1> DEFINE q == [collab |-> k, next |-> next, status |-> status[k], agreed |-> agreed[k],
                 stamped |-> IF next \in Stamped THEN stamps[k][next] > 0 ELSE TRUE]
<1>1. /\ status[k] # "absent" /\ role \in TransitionActors(status[k], next)
      /\ inflight' = inflight \cup {q}
      /\ UNCHANGED <<status, agreed, ledger>>
  BY DEF ReadForUpdate
<1>2. q.collab = k /\ q.next = next /\ q.status = status[k] /\ q.agreed = agreed[k]
  OBVIOUS
<1> HIDE DEF q
<1>3. InflightLegal' /\ StalePriceOnlyWhilePending'
  BY <1>1, <1>2 DEF InflightLegal, StalePriceOnlyWhilePending
<1>4. OnlyCreatorEarns' /\ PaidAsStatusSays' /\ OneOpenPerPair'
  BY <1>1 DEF OnlyCreatorEarns, PaidAsStatusSays, Earned, Recorded, OneOpenPerPair
<1>5. QED
  BY <1>3, <1>4

\* A change of status that moves no money to a creator.
LEMMA WriteKeepsCollabInv ==
    ASSUME CollabInv, TypeOK', NEW q \in inflight, WriteStatus(q), SameRows(Collabs),
           q.next # "completed"
    PROVE  CollabInv'
<1> DEFINE k == q.collab
<1>1. /\ k \in Collabs /\ q.next \in Statuses /\ q.status \in Statuses
      /\ status[k] = q.status /\ status' = [status EXCEPT ![k] = q.next]
      /\ status \in [Collabs -> Statuses \cup {"absent"}]
      /\ UNCHANGED agreed /\ TransitionActors(q.status, q.next) # {}
      /\ InflightLegal' /\ StalePriceOnlyWhilePending' /\ OneOpenPerPair'
  BY WriteFacts DEF CollabInv, TypeOK, CollabTypeOK
<1>2. OnlyCreatorEarns'
  BY DEF CollabInv, OnlyCreatorEarns, SameRows
<1>3. /\ q.next \in OpenStatuses \cup {"cancelled", "disputed"}
      /\ q.next # "disputed" => q.status \in OpenStatuses
      /\ q.next = "disputed" => q.status \in {"active", "submitted", "completed"}
  BY <1>1, TransitionFacts DEF Statuses, OpenStatuses
<1>4. \A j \in Collabs : Earned(j)' = Earned(j) /\ (Recorded(j)' <=> Recorded(j))
  BY OwnersAssumption DEF SameRows, Earned, Recorded
<1>5. ~Recorded(k) => Earned(k) = 0
  BY <1>1, OwnersAssumption DEF Recorded, Earned
<1>6. PaidAsStatusSays'
  <2> SUFFICES ASSUME NEW j \in Collabs
               PROVE  /\ status'[j] = "completed" => Earned(j)' = agreed'[j] /\ agreed'[j] > 0
                      /\ status'[j] = "disputed" => Earned(j)' \in {0, agreed'[j]}
                      /\ status'[j] \notin {"completed", "disputed"} => ~Recorded(j)'
    BY DEF PaidAsStatusSays, Earned, Recorded
  <2>1. CASE j # k
    BY <1>1, <1>4, <2>1 DEF CollabInv, PaidAsStatusSays
  <2>2. CASE j = k
    BY <1>1, <1>3, <1>4, <1>5, <2>2 DEF CollabInv, PaidAsStatusSays, OpenStatuses
  <2>3. QED
    BY <2>1, <2>2
<1>7. QED
  BY <1>1, <1>2, <1>6 DEF CollabInv

LEMMA CompleteKeepsCollabInv ==
    ASSUME CollabInv, TypeOK', NEW q \in inflight, Complete(q)
    PROVE  CollabInv'
<1> DEFINE k == q.collab
<1>1. /\ k \in Collabs /\ q.next = "completed" /\ q.status \in Statuses /\ q.agreed \in Nat
      /\ status[k] = q.status /\ status' = [status EXCEPT ![k] = "completed"]
      /\ status \in [Collabs -> Statuses \cup {"absent"}]
      /\ UNCHANGED agreed /\ TransitionActors(q.status, q.next) # {}
      /\ InflightLegal' /\ StalePriceOnlyWhilePending' /\ OneOpenPerPair'
  BY WriteFacts DEF CollabInv, TypeOK, CollabTypeOK, Complete
<1>2. q.status \in {"submitted", "disputed"}
  BY <1>1, TransitionFacts DEF Statuses
<1>3. q.agreed = agreed[k] /\ agreed[k] > 0
  BY <1>1, <1>2 DEF CollabInv, StalePriceOnlyWhilePending, Complete, Payout
<1>4. /\ \A a \in Accounts, j \in Collabs :
            a # CreatorOf[k] \/ j # k => ledger'[a][j] = ledger[a][j]
      /\ Recorded(k) => SameRows(Collabs)
      /\ ~Recorded(k) => Earned(k)' = agreed[k]
  BY <1>1, <1>3, PayoutEarnings DEF CollabInv, Complete
<1>5. OnlyCreatorEarns'
  BY <1>4 DEF CollabInv, OnlyCreatorEarns
<1>6. Earned(k)' = agreed[k]
  <2>1. CASE Recorded(k)
    <3>1. Earned(k) # 0
      BY <1>1, <2>1 DEF CollabInv, OnlyCreatorEarns, Recorded, Earned
    <3>2. status[k] = "disputed"
      BY <1>1, <1>2, <2>1 DEF CollabInv, PaidAsStatusSays
    <3>3. Earned(k) = agreed[k]
      BY <1>1, <3>1, <3>2 DEF CollabInv, PaidAsStatusSays
    <3>4. QED
      BY <1>1, <1>4, <2>1, <3>3, OwnersAssumption DEF SameRows, Earned
  <2>2. QED
    BY <1>4, <2>1
<1>7. PaidAsStatusSays'
  <2> SUFFICES ASSUME NEW j \in Collabs
               PROVE  /\ status'[j] = "completed" => Earned(j)' = agreed'[j] /\ agreed'[j] > 0
                      /\ status'[j] = "disputed" => Earned(j)' \in {0, agreed'[j]}
                      /\ status'[j] \notin {"completed", "disputed"} => ~Recorded(j)'
    BY DEF PaidAsStatusSays, Earned, Recorded
  <2>1. CASE j = k
    BY <1>1, <1>3, <1>6, <2>1
  <2>2. CASE j # k
    <3>1. Earned(j)' = Earned(j) /\ (Recorded(j)' <=> Recorded(j))
      BY <1>4, <2>2, OwnersAssumption DEF Earned, Recorded
    <3>2. QED
      BY <1>1, <2>2, <3>1 DEF CollabInv, PaidAsStatusSays
  <2>3. QED
    BY <2>1, <2>2
<1>8. QED
  BY <1>1, <1>5, <1>7 DEF CollabInv

LEMMA CollabStepKeepsCollabInv ==
    ASSUME CollabInv, TypeOK', CollabStep
    PROVE  CollabInv'
<1>1. CASE \E k \in Collabs : Create(k)
  BY <1>1, CreateKeepsCollabInv
<1>2. ASSUME UNCHANGED <<status, agreed, ledger>>, inflight' \subseteq inflight
      PROVE  CollabInv'
  BY <1>2
  DEF CollabInv, OnlyCreatorEarns, InflightLegal, StalePriceOnlyWhilePending, PaidAsStatusSays,
      Earned, Recorded, OneOpenPerPair
<1>3. CASE \E k \in Collabs : WithdrawPrice(k)
  BY <1>2, <1>3 DEF WithdrawPrice, moneyVars
<1>4. CASE \E k \in Collabs, party \in Parties, price \in Prices : ProposePrice(k, party, price)
  BY <1>2, <1>4 DEF ProposePrice, moneyVars
<1>5. CASE \E k \in Collabs, party \in Parties : AcceptPrice(k, party)
  BY <1>5, AcceptKeepsCollabInv
<1>6. CASE \E k \in Collabs, role \in Roles, next \in Statuses : ReadForUpdate(k, role, next)
  BY <1>6, ReadKeepsCollabInv
<1>7. CASE \E q \in inflight : Advance(q)
  BY <1>7, WriteKeepsCollabInv, UnchangedRows DEF Advance, moneyVars
<1>8. CASE \E q \in inflight : Complete(q)
  BY <1>8, CompleteKeepsCollabInv
<1>9. CASE \E q \in inflight : Cancel(q)
  <2>1. PICK q \in inflight : Cancel(q)
    BY <1>9
  <2>2. SameRows(Collabs)
    BY <2>1, WriteFacts, RefundRows DEF Cancel, CollabInv
  <2>3. QED
    BY <2>1, <2>2, WriteKeepsCollabInv DEF Cancel
<1>10. CASE \E q \in inflight : DropUpdate(q)
  BY <1>2, <1>10 DEF DropUpdate, moneyVars
<1>11. QED
  BY <1>1, <1>3, <1>4, <1>5, <1>6, <1>7, <1>8, <1>9, <1>10, CollabStepIsAction
  DEF CollabAction

LEMMA CollabInvInit == Init => CollabInv
<1> SUFFICES ASSUME Init PROVE CollabInv
  OBVIOUS
<1> USE DEF Init, WalletInit, CollabInit
<1>1. \A a \in Accounts, k \in Collabs : ledger[a][k] = 0
  BY DEF Sources
<1>2. PaidAsStatusSays
  BY <1>1 DEF PaidAsStatusSays, Recorded
<1>3. OnlyCreatorEarns /\ InflightLegal /\ StalePriceOnlyWhilePending /\ OneOpenPerPair
  BY <1>1
  DEF OnlyCreatorEarns, InflightLegal, StalePriceOnlyWhilePending, OneOpenPerPair, OpenStatuses
<1>4. QED
  BY <1>2, <1>3, InitType DEF CollabInv

LEMMA CollabInvStep == ASSUME CollabInv, [Next]_vars PROVE CollabInv'
<1>1. TypeOK'
  BY TypeStep DEF CollabInv
<1>2. CASE DepositStep
  BY <1>1, <1>2, DepositStepRows, OthersKeepCollabInv DEF CollabInv, DepositStep
<1>3. CASE CampaignStep
  BY <1>1, <1>3, CampaignStepRows, OthersKeepCollabInv DEF CollabInv, CampaignStep
<1>4. CASE CollabStep
  BY <1>1, <1>4, CollabStepKeepsCollabInv
<1>5. CASE WithdrawalStep
  BY <1>1, <1>5, WithdrawalStepRows, OthersKeepCollabInv DEF CollabInv, WithdrawalStep
<1>6. CASE UNCHANGED vars
  BY <1>1, <1>6, UnchangedRows, OthersKeepCollabInv DEF vars, moneyVars
<1>7. QED
  BY <1>2, <1>3, <1>4, <1>5, <1>6 DEF Next

LEMMA CollabInvariant == Spec => []CollabInv
  BY CollabInvInit, CollabInvStep, PTL DEF Spec

-----------------------------------------------------------------------------
(* The theorems                                                            *)

\* updateStatus() and payout(): a completed collaboration has paid its
\* creator the agreed price exactly once, an open or cancelled one nobody, a
\* disputed one all or nothing, whatever requests interleave.
THEOREM PaymentFollowsStatus == Spec => []PaidAsStatusSays
<1>1. CollabInv => PaidAsStatusSays
  BY DEF CollabInv
<1>2. QED
  BY <1>1, CollabInvariant, PTL

\* create(): a creator never has two open collaborations in one campaign.
THEOREM OneOpenCollaboration == Spec => []OneOpenPerPair
<1>1. CollabInv => OneOpenPerPair
  BY DEF CollabInv
<1>2. QED
  BY <1>1, CollabInvariant, PTL

\* updateStatus(): a price read from a row that was past PENDING is current
\* when it is used.
THEOREM StalePriceIsPending == Spec => []StalePriceOnlyWhilePending
<1>1. CollabInv => StalePriceOnlyWhilePending
  BY DEF CollabInv
<1>2. QED
  BY <1>1, CollabInvariant, PTL

FinalStep ==
    \A k \in Collabs :
        /\ status[k] \notin {"absent", "pending"} => agreed'[k] = agreed[k]
        /\ Recorded(k) => \A a \in Accounts : ledger'[a][k] = ledger[a][k]

LEMMA NextIsFinal == ASSUME CollabInv, [Next]_vars PROVE FinalStep
<1>1. TypeOK /\ status \in [Collabs -> Statuses \cup {"absent"}] /\ agreed \in [Collabs -> Nat]
  BY DEF CollabInv, TypeOK, CollabTypeOK
<1>2. ASSUME SameRows(Collabs), UNCHANGED agreed PROVE FinalStep
  BY <1>2 DEF SameRows, FinalStep
<1>3. CASE UNCHANGED <<agreed, ledger>>
  BY <1>2, <1>3, UnchangedRows
<1>4. CASE DepositStep
  BY <1>1, <1>2, <1>4, DepositStepRows DEF DepositStep, collabVars
<1>5. CASE CampaignStep
  BY <1>1, <1>2, <1>5, CampaignStepRows DEF CampaignStep, collabVars
<1>6. CASE WithdrawalStep
  BY <1>1, <1>2, <1>6, WithdrawalStepRows DEF WithdrawalStep, collabVars
<1>7. ASSUME NEW k \in Collabs, Create(k) PROVE FinalStep
  BY <1>1, <1>7 DEF Create, moneyVars, FinalStep
<1>8. ASSUME NEW k \in Collabs, NEW party \in Parties, AcceptPrice(k, party) PROVE FinalStep
  <2>1. proposed[k] - agreed[k] \in Int
    BY DEF CollabInv, TypeOK, CollabTypeOK
  <2>2. SameRows(Collabs)
    BY <1>1, <1>8, <2>1, AdjustRows DEF AcceptPrice
  <2>3. QED
    BY <1>1, <1>8, <2>2 DEF AcceptPrice, SameRows, FinalStep
<1>9. ASSUME NEW q \in inflight, Complete(q) PROVE FinalStep
  <2>1. q.collab \in Collabs /\ q.agreed \in Nat /\ UNCHANGED agreed
    BY <1>9, WriteFacts DEF Complete
  <2>2. \A j \in Collabs : Recorded(j) => \A a \in Accounts : ledger'[a][j] = ledger[a][j]
    BY <1>1, <1>9, <2>1, PayoutEarnings DEF Complete, SameRows
  <2>3. QED
    BY <2>1, <2>2 DEF FinalStep
<1>10. ASSUME NEW q \in inflight, Cancel(q) PROVE FinalStep
  <2>1. q.collab \in Collabs /\ q.agreed \in Nat /\ UNCHANGED agreed
    BY <1>10, WriteFacts DEF Cancel
  <2>2. QED
    BY <1>1, <1>2, <1>10, <2>1, RefundRows DEF Cancel
<1>11. CASE CollabStep
  <2>1. CASE UNCHANGED <<agreed, ledger>>
    BY <1>3, <2>1
  <2>2. QED
    BY <1>7, <1>8, <1>9, <1>10, <1>11, <2>1, CollabStepIsAction
    DEF CollabAction, WithdrawPrice, ProposePrice, ReadForUpdate, Advance, WriteStatus,
        DropUpdate, moneyVars
<1>12. QED
  BY <1>3, <1>4, <1>5, <1>6, <1>11 DEF Next, vars, collabVars, moneyVars

\* acceptPrice() and payout(): the price of a collaboration the creator has
\* taken never changes, and its rows in the ledger are written once.
THEOREM PriceAndPaymentAreFinal == Spec => PriceAndPaymentFinal
<1>1. CollabInv /\ [Next]_vars => [FinalStep]_<<collabVars, moneyVars>>
  BY NextIsFinal
<1>2. QED
  BY <1>1, CollabInvariant, PTL DEF Spec, PriceAndPaymentFinal, FinalStep
-----------------------------------------------------------------------------
(* The timestamps                                                          *)

\* What requests in flight believe of the timestamps: none that cancels has
\* seen cancelled_at, and completed_at is there for one that has seen it.
ReadStamps ==
    \A q \in inflight :
        /\ q.next = "cancelled" => ~q.stamped
        /\ q.next = "completed" /\ q.stamped => stamps[q.collab]["completed"] > 0

StampInv == CollabInv /\ TimestampsTell /\ ReadStamps

CancelledAt(k) == stamps[k]["cancelled"] = IF status[k] = "cancelled" THEN 1 ELSE 0

\* What a written status change does to the timestamps: cancelled_at follows
\* the status, and a completed_at stays.
LEMMA WriteStamps ==
    ASSUME StampInv, NEW q \in inflight, WriteStatus(q)
    PROVE  /\ ReadStamps'
           /\ \A k \in Collabs : CancelledAt(k)'
           /\ \A k \in Collabs : stamps[k]["completed"] > 0 => stamps'[k]["completed"] > 0
           /\ q.next = "completed" => stamps'[q.collab]["completed"] > 0
<1> DEFINE k == q.collab
           col == q.next
<1>1. /\ k \in Collabs /\ col \in Statuses /\ q.status \in Statuses
      /\ status[k] = q.status /\ status' = [status EXCEPT ![k] = col]
      /\ status \in [Collabs -> Statuses \cup {"absent"}]
      /\ stamps \in [Collabs -> [Stamped -> 0..2]]
      /\ inflight \subseteq Snapshots /\ inflight' \subseteq inflight
      /\ TransitionActors(q.status, col) # {}
  BY WriteFacts DEF StampInv, CollabInv, TypeOK, CollabTypeOK
<1>2. q.status # "cancelled"
  BY <1>1 DEF TransitionActors, OpenStatuses
<1>3. "completed" \in Stamped /\ "cancelled" \in Stamped
  BY DEF Stamped
<1>4. stamps' = IF q.stamped THEN stamps
                ELSE [stamps EXCEPT ![k][col] = IF @ = 0 THEN 1 ELSE 2]
  BY DEF WriteStatus
<1>5. ASSUME NEW j \in Collabs, NEW s \in Stamped, j # k \/ s # col \/ q.stamped
      PROVE  stamps'[j][s] = stamps[j][s]
  BY <1>1, <1>4, <1>5
<1>6. ASSUME ~q.stamped, col \in Stamped
      PROVE  stamps'[k][col] = IF stamps[k][col] = 0 THEN 1 ELSE 2
  BY <1>1, <1>4, <1>6
<1>7. \A j \in Collabs : stamps[j]["completed"] > 0 => stamps'[j]["completed"] > 0
  <2> SUFFICES ASSUME NEW j \in Collabs, stamps[j]["completed"] > 0
               PROVE  stamps'[j]["completed"] > 0
    OBVIOUS
  <2>1. CASE j # k \/ "completed" # col \/ q.stamped
    BY <1>3, <1>5, <2>1
  <2>2. CASE j = k /\ "completed" = col /\ ~q.stamped
    BY <1>3, <1>6, <2>2
  <2>3. QED
    BY <2>1, <2>2
<1>8. col = "completed" => stamps'[k]["completed"] > 0
  BY <1>1, <1>3, <1>5, <1>6 DEF StampInv, ReadStamps
<1>9. \A j \in Collabs : CancelledAt(j)'
  <2> SUFFICES ASSUME NEW j \in Collabs PROVE CancelledAt(j)'
    OBVIOUS
  <2>1. CancelledAt(j)
    BY DEF StampInv, TimestampsTell, CancelledAt
  <2>2. CASE j # k
    BY <1>1, <1>3, <1>5, <2>1, <2>2 DEF CancelledAt
  <2>3. CASE j = k /\ col # "cancelled"
    BY <1>1, <1>2, <1>3, <1>5, <2>1, <2>3 DEF CancelledAt
  <2>4. CASE j = k /\ col = "cancelled"
    BY <1>1, <1>2, <1>3, <1>6, <2>1, <2>4 DEF CancelledAt, StampInv, ReadStamps
  <2>5. QED
    BY <2>2, <2>3, <2>4
<1>10. ReadStamps'
  BY <1>1, <1>7 DEF StampInv, ReadStamps, Snapshots
<1>11. QED
  BY <1>7, <1>8, <1>9, <1>10

\* Steps that write no timestamp and no row of a collaboration.
LEMMA OthersKeepStamps ==
    ASSUME StampInv, SameRows(Collabs), UNCHANGED stamps, inflight' \subseteq inflight,
           \A k \in Collabs : status'[k] = "cancelled" <=> status[k] = "cancelled"
    PROVE  TimestampsTell' /\ ReadStamps'
<1>1. \A k \in Collabs : Recorded(k)' <=> Recorded(k)
  BY OwnersAssumption DEF SameRows, Recorded
<1>2. QED
  BY <1>1 DEF StampInv, TimestampsTell, ReadStamps

LEMMA ReadKeepsStamps ==
    ASSUME StampInv, NEW k \in Collabs, NEW role \in Roles, NEW next \in Statuses,
           ReadForUpdate(k, role, next)
    PROVE  TimestampsTell' /\ ReadStamps'
<1> DEFINE q == [collab |-> k, next |-> next, status |-> status[k], agreed |-> agreed[k],
                 stamped |-> IF next \in Stamped THEN stamps[k][next] > 0 ELSE TRUE]
<1>1. /\ role \in TransitionActors(status[k], next) /\ inflight' = inflight \cup {q}
      /\ UNCHANGED <<status, stamps, ledger>>
  BY DEF ReadForUpdate, moneyVars
<1>2. /\ q.collab = k /\ q.next = next
      /\ q.stamped = IF next \in Stamped THEN stamps[k][next] > 0 ELSE TRUE
  OBVIOUS
<1> HIDE DEF q
<1>3. next = "cancelled" => ~(stamps[k][next] > 0)
  BY <1>1 DEF StampInv, TimestampsTell, TransitionActors, OpenStatuses
<1>4. /\ q.next = "cancelled" => ~q.stamped
      /\ q.next = "completed" /\ q.stamped => stamps[q.collab]["completed"] > 0
  BY <1>2, <1>3, Zenon DEF Stamped
<1>5. ReadStamps'
  BY <1>1, <1>4, Zenon DEF StampInv, ReadStamps
<1>6. TimestampsTell'
  BY <1>1 DEF StampInv, TimestampsTell, Recorded
<1>7. QED
  BY <1>5, <1>6

LEMMA CompleteKeepsStamps ==
    ASSUME StampInv, NEW q \in inflight, Complete(q)
    PROVE  TimestampsTell' /\ ReadStamps'
<1>1. TypeOK /\ q.collab \in Collabs /\ q.agreed \in Nat /\ q.next = "completed"
  BY WriteFacts DEF StampInv, CollabInv, Complete
<1>2. /\ ReadStamps' /\ \A k \in Collabs : CancelledAt(k)'
      /\ \A k \in Collabs : stamps[k]["completed"] > 0 => stamps'[k]["completed"] > 0
      /\ stamps'[q.collab]["completed"] > 0
  BY <1>1, WriteStamps DEF Complete
<1>3. \A a \in Accounts, j \in Collabs : j # q.collab => ledger'[a][j] = ledger[a][j]
  BY <1>1, PayoutEarnings DEF Complete
<1>4. \A j \in Collabs : j # q.collab /\ Recorded(j)' => Recorded(j)
  BY <1>3 DEF Recorded
<1>5. QED
  BY <1>2, <1>4 DEF StampInv, TimestampsTell, CancelledAt

\* A change of status that moves no money to a creator.
LEMMA WriteKeepsStamps ==
    ASSUME StampInv, NEW q \in inflight, WriteStatus(q), SameRows(Collabs)
    PROVE  TimestampsTell' /\ ReadStamps'
<1>1. \A k \in Collabs : Recorded(k)' <=> Recorded(k)
  BY OwnersAssumption DEF SameRows, Recorded
<1>2. QED
  BY <1>1, WriteStamps DEF StampInv, TimestampsTell, CancelledAt

LEMMA CollabStepKeepsStamps ==
    ASSUME StampInv, CollabStep
    PROVE  TimestampsTell' /\ ReadStamps'
<1>1. CollabInv /\ TypeOK /\ status \in [Collabs -> Statuses \cup {"absent"}]
      /\ agreed \in [Collabs -> Nat] /\ proposed \in [Collabs -> Nat]
  BY DEF StampInv, CollabInv, TypeOK, CollabTypeOK
<1>2. ASSUME UNCHANGED <<status, stamps, ledger>>, inflight' \subseteq inflight
      PROVE  TimestampsTell' /\ ReadStamps'
  BY <1>2, OthersKeepStamps, UnchangedRows
<1>3. ASSUME NEW k \in Collabs, Create(k) PROVE TimestampsTell' /\ ReadStamps'
  <2>1. SameRows(Collabs) /\ UNCHANGED <<stamps, inflight>>
    BY <1>3, UnchangedRows DEF Create, moneyVars
  <2>2. \A j \in Collabs : status'[j] = "cancelled" <=> status[j] = "cancelled"
    BY <1>1, <1>3 DEF Create
  <2>3. QED
    BY <2>1, <2>2, OthersKeepStamps
<1>4. ASSUME NEW k \in Collabs, NEW party \in Parties, AcceptPrice(k, party)
      PROVE  TimestampsTell' /\ ReadStamps'
  <2>1. proposed[k] - agreed[k] \in Int
    BY <1>1
  <2>2. SameRows(Collabs)
    BY <1>1, <1>4, <2>1, AdjustRows DEF AcceptPrice
  <2>3. QED
    BY <1>4, <2>2, OthersKeepStamps DEF AcceptPrice
<1>5. CASE \E q \in inflight : Advance(q)
  BY <1>5, WriteKeepsStamps, UnchangedRows DEF Advance, moneyVars
<1>6. CASE \E q \in inflight : Cancel(q)
  <2>1. PICK q \in inflight : Cancel(q)
    BY <1>6
  <2>2. SameRows(Collabs)
    BY <1>1, <2>1, WriteFacts, RefundRows DEF Cancel
  <2>3. QED
    BY <2>1, <2>2, WriteKeepsStamps DEF Cancel
<1>7. CASE \E k \in Collabs : WithdrawPrice(k)
  BY <1>2, <1>7 DEF WithdrawPrice, moneyVars
<1>8. CASE \E k \in Collabs, party \in Parties, price \in Prices : ProposePrice(k, party, price)
  BY <1>2, <1>8 DEF ProposePrice, moneyVars
<1>9. CASE \E q \in inflight : DropUpdate(q)
  BY <1>2, <1>9 DEF DropUpdate, moneyVars
<1>10. QED
  BY <1>3, <1>4, <1>5, <1>6, <1>7, <1>8, <1>9, ReadKeepsStamps, CompleteKeepsStamps,
     CollabStepIsAction
  DEF CollabAction

LEMMA StampInvStep == ASSUME StampInv, [Next]_vars PROVE StampInv'
<1>1. CollabInv' /\ TypeOK
  BY CollabInvStep DEF StampInv, CollabInv
<1>2. ASSUME SameRows(Collabs), UNCHANGED collabVars PROVE StampInv'
  BY <1>1, <1>2, OthersKeepStamps DEF collabVars, StampInv
<1>3. CASE DepositStep
  BY <1>1, <1>2, <1>3, DepositStepRows DEF DepositStep
<1>4. CASE CampaignStep
  BY <1>1, <1>2, <1>4, CampaignStepRows DEF CampaignStep
<1>5. CASE CollabStep
  BY <1>1, <1>5, CollabStepKeepsStamps DEF StampInv
<1>6. CASE WithdrawalStep
  BY <1>1, <1>2, <1>6, WithdrawalStepRows DEF WithdrawalStep
<1>7. CASE UNCHANGED vars
  BY <1>2, <1>7, UnchangedRows DEF vars, moneyVars
<1>8. QED
  BY <1>3, <1>4, <1>5, <1>6, <1>7 DEF Next

\* updateStatus(): cancelled_at is written once, with the status, and no
\* creator is paid for a collaboration that has no completed_at.
THEOREM TimestampsFollow == Spec => []TimestampsTell
<1>1. Init => StampInv
  <2> SUFFICES ASSUME Init PROVE StampInv
    OBVIOUS
  <2>1. \A a \in Accounts, k \in Collabs : ledger[a][k] = 0
    BY DEF Init, WalletInit, Sources
  <2>2. QED
    BY <2>1, CollabInvInit
    DEF Init, CollabInit, StampInv, TimestampsTell, ReadStamps, Recorded, Stamped
<1>2. StampInv /\ [Next]_vars => StampInv'
  BY StampInvStep
<1>3. StampInv => TimestampsTell
  BY DEF StampInv
<1>4. QED
  BY <1>1, <1>2, <1>3, PTL DEF Spec

-----------------------------------------------------------------------------
(* Totals.  Total is a recursion over finite sets; what holds of every     *)
(* total is shown by a least counterexample, a set that is wrong while     *)
(* none of the sets with one element less is.                              *)

\* The element MapThenSumSet takes next, and its recursion.
Picked(s) == CHOOSE x \in s : TRUE
SumsUp(f, D, g) ==
    g = [s \in D |-> IF s = {} THEN 0 ELSE f[Picked(s)] + g[s \ {Picked(s)}]]

LEMMA TotalIs ==
    ASSUME NEW f, NEW S
    PROVE  Total(f, S) = (CHOOSE g : SumsUp(f, SUBSET S, g))[S]
  BY Zenon DEF Total, MapThenSumSet, MapThenFoldSet, SumsUp, Picked

LEMMA PickedIn == ASSUME NEW s, s # {} PROVE Picked(s) \in s
  BY Zenon DEF Picked

LEMMA LeastNatural ==
    ASSUME NEW T \in SUBSET Nat, T # {}
    PROVE  \E n \in T : \A m \in T : n <= m
<1> DEFINE R == OpToRel(<, Nat)
<1>1. \A m, n \in Nat : m < n => <<m, n>> \in R
  BY DEF OpToRel
<1> HIDE DEF R
<1>2. IsWellFoundedOn(R, Nat)
  BY NatLessThanWellFounded DEF R
<1>3. PICK n \in T : \A m \in T : ~(<<m, n>> \in R)
  BY <1>2, WFMin
<1>4. ASSUME NEW m \in T PROVE n <= m
  <2>1. m \in Nat /\ n \in Nat /\ ~(m < n)
    BY <1>1, <1>3
  <2>2. QED
    BY <2>1
<1>5. QED
  BY <1>3, <1>4

LEMMA SmallestSubset ==
    ASSUME NEW S, IsFiniteSet(S), NEW B \in SUBSET (SUBSET S), B # {}
    PROVE  \E T \in B : \A x \in T : T \ {x} \notin B
<1> DEFINE N == {Cardinality(T) : T \in B}
<1>1. \A T \in B : IsFiniteSet(T) /\ Cardinality(T) \in Nat
  BY FS_Subset, FS_CardinalityType
<1>2. N \in SUBSET Nat /\ N # {}
  BY <1>1
<1>3. PICK n \in N : \A m \in N : n <= m
  BY <1>2, LeastNatural
<1>4. PICK T \in B : Cardinality(T) = n
  OBVIOUS
<1>5. ASSUME NEW x \in T, T \ {x} \in B PROVE FALSE
  <2>1. Cardinality(T \ {x}) = n - 1
    BY <1>1, <1>4, FS_RemoveElement
  <2>2. n - 1 \in N
    BY <1>5, <2>1
  <2>3. QED
    BY <1>2, <1>3, <2>2
<1>6. QED
  BY <1>4, <1>5

\* Two solutions of the recursion agree where both are defined.
LEMMA SumsAgree ==
    ASSUME NEW f, NEW S, IsFiniteSet(S), NEW T \in SUBSET S, NEW g, NEW h,
           SumsUp(f, SUBSET S, g), SumsUp(f, SUBSET T, h)
    PROVE  g[T] = h[T]
<1> DEFINE B == {U \in SUBSET T : g[U] # h[U]}
<1>1. SUFFICES ASSUME B # {} PROVE FALSE
  OBVIOUS
<1>2. IsFiniteSet(T)
  BY FS_Subset
<1>3. PICK U \in B : \A x \in U : U \ {x} \notin B
  BY <1>1, <1>2, SmallestSubset
<1>4. /\ g[U] = IF U = {} THEN 0 ELSE f[Picked(U)] + g[U \ {Picked(U)}]
      /\ h[U] = IF U = {} THEN 0 ELSE f[Picked(U)] + h[U \ {Picked(U)}]
  BY DEF SumsUp
<1>5. CASE U # {}
  <2>1. U \ {Picked(U)} \in SUBSET T /\ U \ {Picked(U)} \notin B
    BY <1>3, <1>5, PickedIn
  <2>2. QED
    BY <1>3, <1>4, <1>5, <2>1
<1>6. QED
  BY <1>3, <1>4, <1>5

\* The recursion has a solution: up to any cardinality, one size after another.
LEMMA SumsExist ==
    ASSUME NEW f, NEW S, IsFiniteSet(S)
    PROVE  SumsUp(f, SUBSET S, CHOOSE g : SumsUp(f, SUBSET S, g))
<1> DEFINE D(n) == {s \in SUBSET S : Cardinality(s) <= n}
           Bad == {n \in Nat : ~ \E g : SumsUp(f, D(n), g)}
<1>1. \A s \in SUBSET S : IsFiniteSet(s) /\ Cardinality(s) \in Nat
                           /\ Cardinality(s) <= Cardinality(S)
  BY FS_Subset, FS_CardinalityType
<1>2. Cardinality(S) \in Nat
  BY <1>1
<1>3. \E g : SumsUp(f, D(0), g)
  <2>1. \A s \in D(0) : s = {}
    BY <1>1, FS_EmptySet
  <2>2. SumsUp(f, D(0), [s \in D(0) |-> 0])
    BY <2>1 DEF SumsUp
  <2>3. QED
    BY <2>2
<1>4. ASSUME NEW n \in Nat, NEW g, SumsUp(f, D(n), g)
      PROVE  \E h : SumsUp(f, D(n + 1), h)
  <2> DEFINE h == [s \in D(n + 1) |-> IF s = {} THEN 0
                                     ELSE f[Picked(s)] + g[s \ {Picked(s)}]]
  <2>1. ASSUME NEW s \in D(n + 1), s # {}
        PROVE  s \ {Picked(s)} \in D(n)
    BY <1>1, <2>1, PickedIn, FS_RemoveElement
  <2>2. D(n) \subseteq D(n + 1)
    BY <1>1
  <2>3. ASSUME NEW s \in D(n) PROVE h[s] = g[s]
    BY <1>4, <2>2 DEF SumsUp
  <2>4. h = [s \in D(n + 1) |-> IF s = {} THEN 0
                               ELSE f[Picked(s)] + h[s \ {Picked(s)}]]
    <3>1. ASSUME NEW s \in D(n + 1), s # {}
          PROVE  g[s \ {Picked(s)}] = h[s \ {Picked(s)}]
      BY <2>1, <2>3, <3>1
    <3>2. QED
      BY <3>1
  <2>5. QED
    BY <2>4 DEF SumsUp
<1>5. Bad = {}
  <2>1. SUFFICES ASSUME Bad # {} PROVE FALSE
    OBVIOUS
  <2>2. PICK n \in Bad : \A m \in Bad : n <= m
    BY <2>1, LeastNatural
  <2>3. n # 0
    BY <1>3
  <2>4. n - 1 \in Nat /\ n - 1 \notin Bad
    <3>1. n \in Nat
      BY <2>2
    <3>2. n - 1 \in Nat /\ ~(n <= n - 1)
      BY <2>3, <3>1
    <3> HIDE DEF Bad
    <3>3. QED
      BY <2>2, <3>2
  <2>5. \E h : SumsUp(f, D((n - 1) + 1), h)
    BY <1>4, <2>4
  <2>6. (n - 1) + 1 = n
    OBVIOUS
  <2>7. QED
    BY <2>5, <2>6
<1>6. D(Cardinality(S)) = SUBSET S
  BY <1>1
<1>7. \E g : SumsUp(f, SUBSET S, g)
  BY <1>2, <1>5, <1>6
<1>8. QED
  BY <1>7, Zenon

LEMMA TotalEmpty == ASSUME NEW f PROVE Total(f, {}) = 0
<1>1. IsFiniteSet({})
  BY FS_EmptySet
<1>2. SumsUp(f, SUBSET {}, CHOOSE g : SumsUp(f, SUBSET {}, g))
  BY <1>1, SumsExist
<1>3. Total(f, {}) = (CHOOSE g : SumsUp(f, SUBSET {}, g))[{}]
  BY TotalIs
<1> DEFINE g == CHOOSE sum : SumsUp(f, SUBSET {}, sum)
<1> HIDE DEF g
<1>4. SumsUp(f, SUBSET {}, g) /\ Total(f, {}) = g[{}]
  BY <1>2, <1>3 DEF g
<1>5. QED
  BY <1>4 DEF SumsUp

\* The recursion that computes a total.
LEMMA TotalUnfolds ==
    ASSUME NEW f, NEW S, IsFiniteSet(S), S # {}
    PROVE  Total(f, S) = f[Picked(S)] + Total(f, S \ {Picked(S)})
<1> DEFINE T == S \ {Picked(S)}
           g == CHOOSE sum : SumsUp(f, SUBSET S, sum)
           h == CHOOSE sum : SumsUp(f, SUBSET T, sum)
<1>1. IsFiniteSet(T) /\ T \in SUBSET S
  BY FS_Subset
<1>2. SumsUp(f, SUBSET S, g) /\ SumsUp(f, SUBSET T, h)
  BY <1>1, SumsExist
<1>3. Total(f, S) = g[S] /\ Total(f, T) = h[T]
  BY TotalIs
<1> HIDE DEF T, g, h
<1>4. g[T] = h[T]
  BY <1>1, <1>2, SumsAgree
<1>5. g[S] = f[Picked(S)] + g[S \ {Picked(S)}]
  BY <1>2 DEF SumsUp
<1>6. QED
  BY <1>3, <1>4, <1>5 DEF T

LEMMA TotalType ==
    ASSUME NEW S, IsFiniteSet(S), NEW f, \A x \in S : f[x] \in Int
    PROVE  Total(f, S) \in Int
<1> DEFINE B == {T \in SUBSET S : Total(f, T) \notin Int}
<1>1. SUFFICES ASSUME B # {} PROVE FALSE
  OBVIOUS
<1>2. PICK T \in B : \A x \in T : T \ {x} \notin B
  BY <1>1, SmallestSubset
<1>3. IsFiniteSet(T) /\ T # {}
  <2>1. IsFiniteSet(T)
    BY FS_Subset
  <2>2. Total(f, T) \notin Int /\ Total(f, {}) \in Int
    BY TotalEmpty
  <2>3. QED
    BY <2>1, <2>2
<1>4. Picked(T) \in T /\ Total(f, T) = f[Picked(T)] + Total(f, T \ {Picked(T)})
  BY <1>3, PickedIn, TotalUnfolds
<1>5. f[Picked(T)] \in Int /\ Total(f, T \ {Picked(T)}) \in Int
  BY <1>2, <1>4
<1>6. Total(f, T) \in Int
  BY <1>4, <1>5
<1>7. QED
  BY <1>6

\* Any element may be taken out first.
LEMMA TotalRemove ==
    ASSUME NEW S, IsFiniteSet(S), NEW f, \A x \in S : f[x] \in Int, NEW x \in S
    PROVE  Total(f, S) = f[x] + Total(f, S \ {x})
<1> DEFINE Bad(T) == \E y \in T : Total(f, T) # f[y] + Total(f, T \ {y})
           B == {T \in SUBSET S : Bad(T)}
<1>1. SUFFICES ASSUME B # {} PROVE FALSE
  OBVIOUS
<1>2. PICK T \in B : \A y \in T : T \ {y} \notin B
  BY <1>1, SmallestSubset
<1>3. PICK y \in T : Total(f, T) # f[y] + Total(f, T \ {y})
  BY <1>2
<1> DEFINE p == Picked(T)
<1>4. IsFiniteSet(T) /\ p \in T /\ Total(f, T) = f[p] + Total(f, T \ {p})
  BY FS_Subset, PickedIn, TotalUnfolds
<1> HIDE DEF p
<1>5. p # y
  BY <1>3, <1>4
<1>6. Total(f, T \ {p}) = f[y] + Total(f, (T \ {p}) \ {y})
  BY <1>2, <1>4, <1>5
<1>7. Total(f, T \ {y}) = f[p] + Total(f, (T \ {y}) \ {p})
  BY <1>2, <1>3, <1>4, <1>5
<1>8. (T \ {y}) \ {p} = (T \ {p}) \ {y}
  OBVIOUS
<1>9. f[y] \in Int /\ f[p] \in Int /\ Total(f, (T \ {p}) \ {y}) \in Int
  <2>1. IsFiniteSet((T \ {p}) \ {y})
    BY <1>4, FS_Subset
  <2>2. QED
    BY <1>4, <2>1, TotalType
<1> DEFINE r == Total(f, (T \ {p}) \ {y})
<1>10. /\ Total(f, T) = f[p] + (f[y] + r) /\ r \in Int
       /\ f[y] + Total(f, T \ {y}) = f[y] + (f[p] + r)
  BY <1>4, <1>6, <1>7, <1>8, <1>9
<1> HIDE DEF r
<1>11. f[p] + (f[y] + r) = f[y] + (f[p] + r)
  BY <1>9, <1>10
<1>12. QED
  BY <1>3, <1>10, <1>11

LEMMA TotalSame ==
    ASSUME NEW S, IsFiniteSet(S), NEW f, NEW g, \A x \in S : f[x] = g[x]
    PROVE  Total(f, S) = Total(g, S)
<1> DEFINE B == {T \in SUBSET S : Total(f, T) # Total(g, T)}
<1>1. SUFFICES ASSUME B # {} PROVE FALSE
  OBVIOUS
<1>2. PICK T \in B : \A x \in T : T \ {x} \notin B
  BY <1>1, SmallestSubset
<1>3. IsFiniteSet(T) /\ T # {}
  BY FS_Subset, TotalEmpty
<1> DEFINE p == Picked(T)
<1>4. /\ p \in T /\ Total(f, T) = f[p] + Total(f, T \ {p})
      /\ Total(g, T) = g[p] + Total(g, T \ {p})
  BY <1>3, PickedIn, TotalUnfolds
<1> HIDE DEF p
<1>5. QED
  BY <1>2, <1>4

LEMMA TotalZero ==
    ASSUME NEW S, IsFiniteSet(S), NEW f, \A x \in S : f[x] = 0
    PROVE  Total(f, S) = 0
<1> DEFINE B == {T \in SUBSET S : Total(f, T) # 0}
<1>1. SUFFICES ASSUME B # {} PROVE FALSE
  OBVIOUS
<1>2. PICK T \in B : \A x \in T : T \ {x} \notin B
  BY <1>1, SmallestSubset
<1>3. IsFiniteSet(T) /\ T # {}
  BY FS_Subset, TotalEmpty
<1> DEFINE p == Picked(T)
<1>4. p \in T /\ Total(f, T) = f[p] + Total(f, T \ {p})
  BY <1>3, PickedIn, TotalUnfolds
<1> HIDE DEF p
<1>5. QED
  BY <1>2, <1>4

\* A change at one element changes the total by as much.
LEMMA TotalAdds ==
    ASSUME NEW S, IsFiniteSet(S), NEW f, NEW g, NEW x \in S, NEW n \in Int,
           \A y \in S : f[y] \in Int, g[x] = f[x] + n, \A y \in S : y # x => g[y] = f[y]
    PROVE  Total(g, S) = Total(f, S) + n
<1>1. f[x] \in Int /\ g[x] \in Int
  OBVIOUS
<1>2. ASSUME NEW y \in S PROVE g[y] \in Int
  BY <1>1
<1>3. Total(f, S) = f[x] + Total(f, S \ {x})
  BY TotalRemove
<1>4. Total(g, S) = g[x] + Total(g, S \ {x})
  BY <1>2, TotalRemove
<1>5. IsFiniteSet(S \ {x})
  BY FS_Subset
<1>6. Total(f, S \ {x}) = Total(g, S \ {x}) /\ Total(f, S \ {x}) \in Int
  BY <1>5, TotalSame, TotalType
<1>7. QED
  BY <1>1, <1>3, <1>4, <1>6

-----------------------------------------------------------------------------
(* The invariant                                                           *)

\* A campaign without an escrow row holds nothing, so locking may set the
\* amount; a request that has looked its key up asks for something, and one
\* that has inserted an order is over.
EmptyUnlessEscrowed == \A c \in Campaigns : c \notin escrowed => held[c] = 0
AskedIsPositive == \A w \in Withdrawals : asked[w] = "lookedup" => requested[w] > 0
OrdersAreOver == \A w \in orders : asked[w] = "done"

CustodyInv ==
    CollabInv /\ DepositInv /\ EmptyUnlessEscrowed /\ AskedIsPositive /\ OrdersAreOver

LEMMA CustodyInvInit == Init => CustodyInv
  BY CollabInvInit, DepositInvInit
  DEF CustodyInv, EmptyUnlessEscrowed, AskedIsPositive, OrdersAreOver, Init, EscrowInit,
      WithdrawalInit

LEMMA EscrowStep ==
    ASSUME TypeOK, EmptyUnlessEscrowed, [Next]_vars
    PROVE  EmptyUnlessEscrowed'
<1> USE DEF EmptyUnlessEscrowed
<1>1. ASSUME UNCHANGED escrowVars PROVE EmptyUnlessEscrowed'
  BY <1>1 DEF escrowVars
<1>2. ASSUME NEW c \in Campaigns, NEW n \in Nat, Release(c, n) \/ Hold(c, n)
      PROVE  EmptyUnlessEscrowed'
  BY <1>2 DEF Release, Hold, TypeOK, EscrowTypeOK
<1>3. ASSUME NEW c \in Campaigns, NEW n \in Nat, LockEscrow(c, n)
      PROVE  EmptyUnlessEscrowed'
  BY <1>3 DEF LockEscrow, moneyVars, TypeOK, EscrowTypeOK
<1>4. CASE DepositStep \/ WithdrawalStep \/ UNCHANGED vars
  BY <1>1, <1>4 DEF DepositStep, WithdrawalStep, vars, moneyVars, escrowVars
<1>5. CASE CampaignStep
  <2>1. CASE UNCHANGED moneyVars
    BY <1>1, <2>1 DEF moneyVars, escrowVars
  <2>2. ASSUME NEW c \in Campaigns, NEW expected \in 1..MaxVersion, Approve(c, expected)
        PROVE  EmptyUnlessEscrowed'
    <3>1. Budget(submission[c].terms) \in Nat
      BY TermsAssumption DEF Budget, TypeOK, CampaignTypeOK
    <3>2. QED
      BY <1>3, <2>2, <3>1 DEF Approve
  <2>3. QED
    BY <1>5, <2>1, <2>2 DEF CampaignStep, UpdateDraft, Submit, SubmitShort
<1>6. CASE CollabStep
  <2>1. CASE UNCHANGED moneyVars
    BY <1>1, <2>1 DEF moneyVars, escrowVars
  <2>2. ASSUME NEW k \in Collabs, NEW party \in Parties, AcceptPrice(k, party)
        PROVE  EmptyUnlessEscrowed'
    <3> DEFINE delta == proposed[k] - agreed[k]
    <3>1. delta \in Int /\ CampaignOf[k] \in Campaigns /\ Adjust(k, delta)
      <4>1. delta \in Int
        BY DEF TypeOK, CollabTypeOK
      <4>2. Adjust(k, delta)
        BY <2>2 DEF AcceptPrice
      <4>3. QED
        BY <4>1, <4>2, OwnersAssumption
    <3> HIDE DEF delta
    <3>2. CASE delta < 0
      <4>1. -delta \in Nat /\ Release(CampaignOf[k], -delta)
        BY <3>1, <3>2 DEF Adjust
      <4>2. QED
        BY <1>2, <3>1, <4>1
    <3>3. CASE delta > 0
      <4>1. delta \in Nat /\ Hold(CampaignOf[k], delta)
        BY <3>1, <3>3 DEF Adjust
      <4>2. QED
        BY <1>2, <3>1, <4>1
    <3>4. CASE delta = 0
      BY <2>1, <3>1, <3>4 DEF Adjust
    <3>5. QED
      BY <3>1, <3>2, <3>3, <3>4
  <2>3. ASSUME NEW q \in inflight, Complete(q) \/ Cancel(q)
        PROVE  EmptyUnlessEscrowed'
    <3>1. CampaignOf[q.collab] \in Campaigns /\ q.agreed \in Nat
      BY OwnersAssumption DEF TypeOK, CollabTypeOK, Snapshots
    <3>2. UNCHANGED escrowVars \/ Release(CampaignOf[q.collab], q.agreed)
      BY <2>3 DEF Complete, Cancel, Payout, Refund
    <3>3. QED
      BY <1>1, <1>2, <3>1, <3>2
  <2>4. QED
    BY <1>6, <2>1, <2>2, <2>3, CollabStepIsAction
    DEF CollabAction, Create, WithdrawPrice, ProposePrice, ReadForUpdate, Advance, DropUpdate
<1>7. QED
  BY <1>4, <1>5, <1>6 DEF Next

LEMMA AskedStep ==
    ASSUME TypeOK, AskedIsPositive, OrdersAreOver, [Next]_vars
    PROVE  AskedIsPositive' /\ OrdersAreOver'
<1> USE DEF AskedIsPositive, OrdersAreOver
<1>1. CASE UNCHANGED withdrawalVars
  BY <1>1 DEF withdrawalVars
<1>2. CASE \E w \in Withdrawals, n \in WithdrawAmounts : LookUpKey(w, n)
  BY <1>2, WithdrawalAssumption DEF LookUpKey, Answer, TypeOK, WithdrawalTypeOK
<1>3. CASE \E w \in Withdrawals : InsertWithdrawal(w) \/ LoseWithdrawalAnswer(w)
  BY <1>3 DEF InsertWithdrawal, LoseWithdrawalAnswer, Answer, TypeOK, WithdrawalTypeOK
<1>4. QED
  BY <1>1, <1>2, <1>3 DEF Next, DepositStep, CampaignStep, CollabStep, WithdrawalStep, vars

LEMMA CustodyInvariant == Spec => []CustodyInv
<1>1. CustodyInv /\ [Next]_vars => CustodyInv'
  BY CollabInvStep, DepositInvStep, EscrowStep, AskedStep DEF CustodyInv, CollabInv
<1>2. QED
  BY <1>1, CustodyInvInit, PTL DEF Spec

-----------------------------------------------------------------------------
(* The movements of money                                                  *)

\* A balance and the row that explains it, n of either sign.
RowMoves(a, n, s) ==
    /\ available' = [available EXCEPT ![a] = @ + n]
    /\ ledger' = [ledger EXCEPT ![a][s] = @ + n]

\* The orders and what they ask for stay.
SameOrders == orders' = orders /\ \A w \in orders : requested'[w] = requested[w]

Rests == UNCHANGED <<available, locked, ledger, held, paid>> /\ SameOrders

Receives(d, n) ==
    /\ paid[d] = 0
    /\ n > 0
    /\ paid' = [paid EXCEPT ![d] = n]
    /\ RowMoves(DepositorOf[d], n, d)
    /\ UNCHANGED <<locked, held>>
    /\ SameOrders

\* Between a brand and the escrow of its campaign, n of either sign.
Exchanges(c, n) ==
    /\ available[BrandOf[c]] >= n
    /\ held[c] >= -n
    /\ held' = [held EXCEPT ![c] = @ + n]
    /\ RowMoves(BrandOf[c], -n, c)
    /\ UNCHANGED <<locked, paid>>
    /\ SameOrders

Pays(k, n) ==
    /\ Earned(k) = 0
    /\ n > 0
    /\ held[CampaignOf[k]] >= n
    /\ held' = [held EXCEPT ![CampaignOf[k]] = @ - n]
    /\ RowMoves(CreatorOf[k], n, k)
    /\ UNCHANGED <<locked, paid>>
    /\ SameOrders

Freezes(w, n) ==
    /\ n > 0
    /\ n = requested[w]
    /\ w \notin orders
    /\ available[RequesterOf[w]] >= n
    /\ locked' = [locked EXCEPT ![RequesterOf[w]] = @ + n]
    /\ RowMoves(RequesterOf[w], -n, w)
    /\ orders' = orders \cup {w}
    /\ UNCHANGED <<held, paid, requested>>

Moves ==
    \/ Rests
    \/ \E d \in Deposits, n \in Nat : Receives(d, n)
    \/ \E c \in Campaigns, n \in Int : Exchanges(c, n)
    \/ \E k \in Collabs, n \in Nat : Pays(k, n)
    \/ \E w \in Withdrawals, n \in Nat : Freezes(w, n)

LEMMA CreditMoves ==
    ASSUME NEW a \in Accounts, NEW n \in Nat, NEW s \in Sources, Credit(a, n, s)
    PROVE  RowMoves(a, n, s)
  BY DEF Credit, RowMoves

LEMMA DebitMoves ==
    ASSUME WalletTypeOK, NEW a \in Accounts, NEW n \in Nat, NEW s \in Sources,
           available' = [available EXCEPT ![a] = @ - n],
           ledger' = [ledger EXCEPT ![a][s] = @ - n]
    PROVE  RowMoves(a, -n, s)
<1>1. /\ available[a] \in Nat /\ ledger[a][s] \in Int
      /\ available[a] - n = available[a] + (-n)
      /\ ledger[a][s] - n = ledger[a][s] + (-n)
  BY DEF WalletTypeOK
<1>2. available' = [available EXCEPT ![a] = available[a] + (-n)]
  BY <1>1, Zenon
<1>3. ledger' = [ledger EXCEPT ![a] = [ledger[a] EXCEPT ![s] = ledger[a][s] + (-n)]]
  <2>1. ledger' = [ledger EXCEPT ![a] = [ledger[a] EXCEPT ![s] = ledger[a][s] - n]]
    BY DEF WalletTypeOK
  <2>2. QED
    BY <1>1, <2>1, Zenon
<1>4. QED
  BY <1>2, <1>3 DEF RowMoves

LEMMA ReceiveMoves ==
    ASSUME CustodyInv, NEW t \in Transfers, sent[t] > 0, CompleteSepayDeposit(t),
           UNCHANGED held, SameOrders
    PROVE  Receives(CodeOf[t], sent[t]) /\ CodeOf[t] \in Deposits /\ sent[t] \in Nat
<1> DEFINE d == CodeOf[t]
<1>1. d \in Deposits /\ d \in Sources /\ DepositorOf[d] \in Accounts /\ sent[t] \in Nat
  BY DepositAssumption DEF CustodyInv, CollabInv, TypeOK, DepositTypeOK, Sources
<1>2. /\ deposit[d] = "pending" /\ paid' = [paid EXCEPT ![d] = sent[t]]
      /\ CreditOnce(DepositorOf[d], sent[t], d)
  BY DEF CompleteSepayDeposit
<1>3. paid[d] = 0 /\ ~Recorded(d)
  BY <1>1, <1>2 DEF CustodyInv, DepositInv, SettledByOneTransfer
<1>4. Credit(DepositorOf[d], sent[t], d)
  BY <1>2, <1>3 DEF CreditOnce
<1>5. RowMoves(DepositorOf[d], sent[t], d) /\ UNCHANGED locked
  BY <1>1, <1>4, CreditMoves DEF Credit
<1>6. QED
  BY <1>1, <1>2, <1>3, <1>5 DEF Receives

LEMMA DebitExchanges ==
    ASSUME TypeOK, NEW c \in Campaigns, NEW n \in Nat, Debit(BrandOf[c], n, c),
           held' = [held EXCEPT ![c] = @ + n], UNCHANGED paid, SameOrders
    PROVE  Exchanges(c, n)
<1>1. BrandOf[c] \in Accounts /\ c \in Sources /\ WalletTypeOK /\ held[c] \in Nat
  BY OwnersAssumption DEF TypeOK, Sources, EscrowTypeOK
<1>2. RowMoves(BrandOf[c], -n, c)
  BY <1>1, DebitMoves DEF Debit
<1>3. available[BrandOf[c]] >= n /\ held[c] >= -n /\ UNCHANGED locked
  BY <1>1 DEF Debit
<1>4. QED
  BY <1>2, <1>3 DEF Exchanges

\* Money that comes back from an escrow to the brand of its campaign.
LEMMA ReturnExchanges ==
    ASSUME TypeOK, NEW c \in Campaigns, NEW price \in Nat, Release(c, price),
           Credit(BrandOf[c], price, c), UNCHANGED paid, SameOrders
    PROVE  \E n \in Int : Exchanges(c, n)
<1>1. PICK n \in Int : n = -price /\ price = -n
  OBVIOUS
<1>2. /\ BrandOf[c] \in Accounts /\ c \in Sources
      /\ held[c] \in Nat /\ available[BrandOf[c]] \in Nat
  BY OwnersAssumption DEF TypeOK, Sources, WalletTypeOK, EscrowTypeOK
<1>3. RowMoves(BrandOf[c], -n, c) /\ UNCHANGED locked
  BY <1>1, <1>2, CreditMoves DEF Credit
<1>4. held[c] >= price /\ held' = [held EXCEPT ![c] = held[c] - price]
  BY DEF Release
<1>5. held[c] - price = held[c] + n /\ held[c] >= -n /\ available[BrandOf[c]] >= n
  BY <1>1, <1>2, <1>4
<1>6. held' = [held EXCEPT ![c] = held[c] + n]
  BY <1>4, <1>5, Zenon
<1>7. QED
  BY <1>3, <1>5, <1>6 DEF Exchanges

LEMMA PayMoves ==
    ASSUME CustodyInv, NEW k \in Collabs, NEW n \in Nat, Payout(k, n), UNCHANGED paid,
           SameOrders
    PROVE  Rests \/ Pays(k, n)
<1>1. CreatorOf[k] \in Accounts /\ k \in Sources
  BY OwnersAssumption DEF Sources
<1>2. CASE Recorded(k)
  BY <1>2 DEF Payout, CreditOnce, walletVars, escrowVars, Rests
<1>3. CASE ~Recorded(k)
  <2>1. n > 0 /\ Release(CampaignOf[k], n) /\ Credit(CreatorOf[k], n, k)
    BY <1>3 DEF Payout, CreditOnce
  <2>2. Earned(k) = 0
    BY <1>1, <1>3 DEF Recorded, Earned
  <2>3. RowMoves(CreatorOf[k], n, k) /\ UNCHANGED locked
    BY <1>1, <2>1, CreditMoves DEF Credit
  <2>4. QED
    BY <2>1, <2>2, <2>3 DEF Pays, Release
<1>4. QED
  BY <1>2, <1>3

LEMMA FreezeMoves ==
    ASSUME CustodyInv, NEW w \in Withdrawals, asked[w] = "lookedup",
           Freeze(RequesterOf[w], requested[w], w), orders' = orders \cup {w},
           UNCHANGED <<held, paid, requested>>
    PROVE  Freezes(w, requested[w]) /\ requested[w] \in Nat
<1>1. /\ RequesterOf[w] \in Accounts /\ w \in Sources /\ requested[w] \in Nat
      /\ requested[w] > 0 /\ w \notin orders /\ WalletTypeOK
  BY WithdrawalAssumption
  DEF CustodyInv, CollabInv, AskedIsPositive, OrdersAreOver, TypeOK, WithdrawalTypeOK, Sources
<1>2. RowMoves(RequesterOf[w], -requested[w], w)
  BY <1>1, DebitMoves DEF Freeze
<1>3. QED
  BY <1>1, <1>2 DEF Freeze, Freezes

LEMMA DepositStepMoves == ASSUME CustodyInv, DepositStep PROVE Moves
<1>1. UNCHANGED held /\ SameOrders
  BY DEF DepositStep, escrowVars, withdrawalVars, SameOrders
<1>2. CASE UNCHANGED <<walletVars, paid>>
  BY <1>1, <1>2 DEF walletVars, Rests, Moves
<1>3. CASE \E t \in Transfers : sent[t] > 0 /\ CompleteSepayDeposit(t)
  BY <1>1, <1>3, ReceiveMoves DEF Moves
<1>4. QED
  BY <1>2, <1>3
  DEF DepositStep, CreateDeposit, BankTransfer, HandleSepayWebhook, IgnoreTransfer

LEMMA CampaignStepMoves == ASSUME CustodyInv, CampaignStep PROVE Moves
<1>1. UNCHANGED paid /\ SameOrders
  BY DEF CampaignStep, UpdateDraft, Submit, SubmitShort, CreateDeposit, Approve, depositVars,
         withdrawalVars, SameOrders
<1>2. CASE UNCHANGED moneyVars
  BY <1>1, <1>2 DEF moneyVars, Rests, Moves
<1>3. ASSUME NEW c \in Campaigns, NEW expected \in 1..MaxVersion, Approve(c, expected)
      PROVE  Moves
  <2> DEFINE n == Budget(submission[c].terms)
  <2>1. n \in Nat /\ TypeOK /\ held \in [Campaigns -> Nat]
    BY TermsAssumption
    DEF Budget, CustodyInv, CollabInv, TypeOK, CampaignTypeOK, EscrowTypeOK
  <2>2. CASE c \in escrowed
    BY <1>2, <1>3, <2>2 DEF Approve, LockEscrow
  <2>3. CASE c \notin escrowed
    <3>1. Debit(BrandOf[c], n, c) /\ held' = [held EXCEPT ![c] = n] /\ held[c] = 0
      BY <1>3, <2>3 DEF Approve, LockEscrow, CustodyInv, EmptyUnlessEscrowed
    <3> HIDE DEF n
    <3>2. held' = [held EXCEPT ![c] = @ + n]
      BY <2>1, <3>1
    <3>3. PICK m \in Nat : m = n
      BY <2>1
    <3>4. m \in Int /\ Exchanges(c, m)
      <4>1. Debit(BrandOf[c], m, c) /\ held' = [held EXCEPT ![c] = @ + m]
        BY <3>1, <3>2, <3>3
      <4>2. TypeOK
        BY <2>1
      <4>3. Exchanges(c, m)
        BY <1>1, <4>1, <4>2, DebitExchanges
      <4>4. QED
        BY <4>3
    <3>5. QED
      BY <3>4 DEF Moves
  <2>4. QED
    BY <2>2, <2>3
<1>4. QED
  BY <1>2, <1>3 DEF CampaignStep, UpdateDraft, Submit, SubmitShort

LEMMA AdjustMoves ==
    ASSUME TypeOK, NEW k \in Collabs, NEW delta \in Int, Adjust(k, delta), UNCHANGED paid,
           SameOrders
    PROVE  Moves
<1>1. CampaignOf[k] \in Campaigns
  BY OwnersAssumption
<1>2. CASE delta = 0
  BY <1>2 DEF Adjust, moneyVars, Rests, Moves
<1>3. CASE delta > 0
  <2>1. /\ delta \in Nat /\ Debit(BrandOf[CampaignOf[k]], delta, CampaignOf[k])
        /\ held' = [held EXCEPT ![CampaignOf[k]] = @ + delta]
    BY <1>3 DEF Adjust, Hold
  <2>2. QED
    BY <1>1, <2>1, DebitExchanges DEF Moves
<1>4. CASE delta < 0
  <2>1. /\ -delta \in Nat /\ Release(CampaignOf[k], -delta)
        /\ Credit(BrandOf[CampaignOf[k]], -delta, CampaignOf[k])
    BY <1>4 DEF Adjust
  <2>2. QED
    BY <1>1, <2>1, ReturnExchanges DEF Moves
<1>5. QED
  BY <1>2, <1>3, <1>4

LEMMA CollabStepMoves == ASSUME CustodyInv, CollabStep PROVE Moves
<1>1. UNCHANGED paid /\ SameOrders /\ TypeOK
  BY DEF CollabStep, depositVars, withdrawalVars, SameOrders, CustodyInv, CollabInv
<1>2. CASE UNCHANGED moneyVars
  BY <1>1, <1>2 DEF moneyVars, Rests, Moves
<1>3. ASSUME NEW k \in Collabs, NEW party \in Parties, AcceptPrice(k, party) PROVE Moves
  <2>1. proposed[k] - agreed[k] \in Int
    BY <1>1 DEF TypeOK, CollabTypeOK
  <2>2. QED
    BY <1>1, <1>3, <2>1, AdjustMoves DEF AcceptPrice
<1>4. ASSUME NEW q \in inflight, Complete(q) \/ Cancel(q) PROVE Moves
  <2>1. q.collab \in Collabs /\ q.agreed \in Nat /\ CampaignOf[q.collab] \in Campaigns
    BY <1>1, OwnersAssumption DEF TypeOK, CollabTypeOK, Snapshots
  <2>2. CASE Complete(q)
    BY <1>1, <2>1, <2>2, PayMoves DEF Complete, Moves
  <2>3. CASE Cancel(q)
    BY <1>1, <2>1, <2>3, ReturnExchanges DEF Cancel, Refund, Moves
  <2>4. QED
    BY <1>4, <2>2, <2>3
<1>5. QED
  BY <1>2, <1>3, <1>4, CollabStepIsAction
  DEF CollabAction, Create, WithdrawPrice, ProposePrice, ReadForUpdate, Advance, DropUpdate

LEMMA WithdrawalStepMoves == ASSUME CustodyInv, WithdrawalStep PROVE Moves
<1>1. UNCHANGED <<held, paid>>
  BY DEF WithdrawalStep, escrowVars, depositVars
<1>2. CASE UNCHANGED walletVars /\ SameOrders
  BY <1>1, <1>2 DEF walletVars, Rests, Moves
<1>3. ASSUME NEW w \in Withdrawals, NEW n \in WithdrawAmounts, LookUpKey(w, n)
      PROVE  Moves
  <2>1. w \notin orders
    BY <1>3 DEF LookUpKey, CustodyInv, OrdersAreOver
  <2>2. SameOrders /\ UNCHANGED walletVars
    BY <1>3, <2>1
    DEF LookUpKey, SameOrders, CustodyInv, CollabInv, TypeOK, WithdrawalTypeOK
  <2>3. QED
    BY <1>2, <2>2
<1>4. ASSUME NEW w \in Withdrawals, InsertWithdrawal(w) PROVE Moves
  <2>1. CASE UNCHANGED <<orders, walletVars>>
    BY <1>2, <1>4, <2>1 DEF InsertWithdrawal, SameOrders
  <2>2. CASE Freeze(RequesterOf[w], requested[w], w) /\ orders' = orders \cup {w}
    BY <1>1, <1>4, <2>2, FreezeMoves DEF InsertWithdrawal, Moves
  <2>3. QED
    BY <1>4, <2>1, <2>2 DEF InsertWithdrawal
<1>5. CASE \E w \in Withdrawals : LoseWithdrawalAnswer(w)
  BY <1>2, <1>5 DEF LoseWithdrawalAnswer, SameOrders
<1>6. QED
  BY <1>3, <1>4, <1>5 DEF WithdrawalStep

LEMMA StepMoves == ASSUME CustodyInv, [Next]_vars PROVE Moves
<1>1. CASE UNCHANGED vars
  BY <1>1 DEF vars, moneyVars, depositVars, withdrawalVars, SameOrders, Rests, Moves
<1>2. QED
  BY <1>1, DepositStepMoves, CampaignStepMoves, CollabStepMoves, WithdrawalStepMoves DEF Next

-----------------------------------------------------------------------------
(* Custody                                                                 *)

\* What a movement leaves in the rows of every source but its own.
LEMMA RowMovesRows ==
    ASSUME WalletTypeOK, NEW a \in Accounts, NEW n \in Int, NEW s \in Sources,
           RowMoves(a, n, s)
    PROVE  /\ ledger'[a][s] = ledger[a][s] + n
           /\ available'[a] = available[a] + n
           /\ \A b \in Accounts, r \in Sources :
                b # a \/ r # s => ledger'[b][r] = ledger[b][r]
           /\ \A b \in Accounts : b # a => available'[b] = available[b]
  BY DEF WalletTypeOK, RowMoves

LEMMA SameEarnings ==
    ASSUME WalletTypeOK, NEW a \in Accounts, NEW n \in Int, NEW s \in Sources \ Collabs,
           RowMoves(a, n, s)
    PROVE  Earnings' = Earnings
<1>1. Collabs \subseteq Sources /\ \A k \in Collabs : CreatorOf[k] \in Accounts
  BY OwnersAssumption DEF Sources
<1>2. \A k \in Collabs : ledger'[CreatorOf[k]][k] = ledger[CreatorOf[k]][k]
  BY <1>1, RowMovesRows
<1>3. QED
  BY <1>2 DEF Earnings, Earned

LEMMA ReceivesIsReceive ==
    ASSUME TypeOK, NEW d \in Deposits, NEW n \in Nat, Receives(d, n)
    PROVE  Promise!Receive(d)
<1>1. d \in Sources \ Collabs /\ DepositorOf[d] \in Accounts /\ WalletTypeOK
  BY DepositAssumption, SourceKinds DEF TypeOK, Sources
<1>2. Earnings' = Earnings
  BY <1>1, SameEarnings DEF Receives
<1>3. paid'[d] = n
  BY DEF Receives, TypeOK, DepositTypeOK
<1>4. QED
  BY <1>2, <1>3 DEF Receives, RowMoves, Promise!Receive

LEMMA ExchangesIsTransfer ==
    ASSUME TypeOK, NEW c \in Campaigns, NEW n \in Int, Exchanges(c, n)
    PROVE  Promise!Transfer(c)
<1>1. /\ c \in Sources \ Collabs /\ BrandOf[c] \in Accounts /\ WalletTypeOK
      /\ held[c] \in Nat /\ available[BrandOf[c]] \in Nat
  BY OwnersAssumption, SourceKinds DEF TypeOK, WalletTypeOK, EscrowTypeOK
<1>2. Earnings' = Earnings
  BY <1>1, SameEarnings DEF Exchanges
<1>3. held'[c] - held[c] = n
  BY <1>1 DEF Exchanges, TypeOK, EscrowTypeOK
<1>4. available' = [available EXCEPT ![BrandOf[c]] = @ - n]
  <2>1. available' = [available EXCEPT ![BrandOf[c]] = available[BrandOf[c]] + (-n)]
    BY DEF Exchanges, RowMoves
  <2>2. available[BrandOf[c]] + (-n) = available[BrandOf[c]] - n
    BY <1>1
  <2>3. QED
    BY <2>1, <2>2, Zenon
<1>5. -n \in -available[BrandOf[c]]..held[c]
  BY <1>1 DEF Exchanges
<1>6. QED
  BY <1>2, <1>3, <1>4, <1>5 DEF Exchanges, Promise!Transfer

LEMMA PaysIsPay ==
    ASSUME TypeOK, NEW k \in Collabs, NEW n \in Nat, Pays(k, n)
    PROVE  Promise!Pay(k)
<1>1. /\ k \in Sources /\ CreatorOf[k] \in Accounts /\ CampaignOf[k] \in Campaigns
      /\ WalletTypeOK /\ held[CampaignOf[k]] \in Nat
      /\ \A j \in Collabs : CreatorOf[j] \in Accounts /\ j \in Sources
  BY OwnersAssumption DEF TypeOK, EscrowTypeOK, Sources
<1>2. Earned(k) = 0 /\ RowMoves(CreatorOf[k], n, k)
  BY DEF Pays
<1>3. Earned(k)' = n /\ \A j \in Collabs : j # k => Earned(j)' = Earned(j)
  BY <1>1, <1>2, RowMovesRows DEF Earned
<1>4. /\ Earnings' = [Earnings EXCEPT ![k] = n]
      /\ Earnings[k] = 0 /\ Earnings'[k] = n
  BY <1>2, <1>3 DEF Earnings
<1>5. n \in 1..held[CampaignOf[k]]
  BY <1>1 DEF Pays
<1>6. QED
  BY <1>4, <1>5 DEF Pays, RowMoves, Promise!Pay

LEMMA FreezesIsFreeze ==
    ASSUME TypeOK, NEW w \in Withdrawals, NEW n \in Nat, Freezes(w, n)
    PROVE  Promise!FreezeFunds(RequesterOf[w])
<1> DEFINE a == RequesterOf[w]
<1>1. w \in Sources \ Collabs /\ a \in Accounts /\ WalletTypeOK /\ available[a] \in Nat
  BY WithdrawalAssumption, SourceKinds DEF TypeOK, WalletTypeOK
<1>2. Earnings' = Earnings
  BY <1>1, SameEarnings DEF Freezes
<1>3. available[a] - available'[a] = n
  <2>1. available'[a] = available[a] + (-n)
    BY <1>1, RowMovesRows DEF Freezes
  <2>2. QED
    BY <1>1, <2>1
<1>4. available' = [available EXCEPT ![a] = @ - n]
  <2>1. available' = [available EXCEPT ![a] = available[a] + (-n)]
    BY DEF Freezes, RowMoves
  <2>2. available[a] + (-n) = available[a] - n
    BY <1>1
  <2>3. QED
    BY <2>1, <2>2, Zenon
<1>5. n \in 1..available[a]
  BY <1>1 DEF Freezes
<1>6. QED
  BY <1>2, <1>3, <1>4, <1>5 DEF Freezes, Promise!FreezeFunds

\* The payment module keeps the promise of Custody: money is always in one
\* place, enters against one bank transfer per order, moves one amount at a
\* time, and leaves an escrow to a creator at most once per collaboration.
THEOREM SettlementKeepsCustody == Spec => KeepsCustody
<1>1. Init => Promise!Init
  BY OwnersAssumption
  DEF Init, Promise!Init, WalletInit, EscrowInit, DepositInit, Sources, Earnings, Earned
<1>2. CustodyInv /\ [Next]_vars => [Promise!Next]_(Promise!custodyVars)
  <2> SUFFICES ASSUME CustodyInv, [Next]_vars
               PROVE  Promise!Next \/ UNCHANGED <<available, locked, held, paid, Earnings>>
    BY DEF Promise!custodyVars
  <2>1. TypeOK /\ Moves
    BY StepMoves DEF CustodyInv, CollabInv
  <2>2. CASE Rests
    BY <2>2 DEF Rests, Earnings, Earned
  <2>3. CASE \E d \in Deposits, n \in Nat : Receives(d, n)
    BY <2>1, <2>3, ReceivesIsReceive DEF Promise!Next
  <2>4. CASE \E c \in Campaigns, n \in Int : Exchanges(c, n)
    BY <2>1, <2>4, ExchangesIsTransfer DEF Promise!Next
  <2>5. CASE \E k \in Collabs, n \in Nat : Pays(k, n)
    BY <2>1, <2>5, PaysIsPay DEF Promise!Next
  <2>6. CASE \E w \in Withdrawals, n \in Nat : Freezes(w, n)
    <3>1. PICK w \in Withdrawals, n \in Nat : Freezes(w, n)
      BY <2>6
    <3>2. Promise!FreezeFunds(RequesterOf[w]) /\ RequesterOf[w] \in Accounts
      BY <2>1, <3>1, FreezesIsFreeze, WithdrawalAssumption
    <3>3. QED
      BY <3>2 DEF Promise!Next
  <2>7. QED
    BY <2>1, <2>2, <2>3, <2>4, <2>5, <2>6 DEF Moves
<1>3. QED
  BY <1>1, <1>2, CustodyInvariant, PTL DEF Spec, KeepsCustody, Promise!Spec

-----------------------------------------------------------------------------
(* The sums                                                                *)

JobsOf(c) == {k \in Collabs : CampaignOf[k] = c}
OrdersOf(a) == {w \in orders : RequesterOf[w] = a}

RowsAddUp == \A a \in Accounts : available[a] = Total(ledger[a], Sources)

EscrowsAddUp ==
    \A c \in Campaigns : held[c] = -(ledger[BrandOf[c]][c]) - Total(Earnings, JobsOf(c))

MoneyInv ==
    CustodyInv /\ RowsAddUp /\ EscrowsAddUp /\ LockedIsPendingOrders /\ MoneyConserved

LEMMA FiniteSums ==
    /\ IsFiniteSet(Sources)
    /\ \A c : IsFiniteSet(JobsOf(c))
  BY FiniteTables, FS_Union, FS_Subset DEF Sources, JobsOf

LEMMA RowsStep ==
    ASSUME TypeOK, RowsAddUp, NEW a \in Accounts, NEW n \in Int, NEW s \in Sources,
           RowMoves(a, n, s)
    PROVE  RowsAddUp'
<1> SUFFICES ASSUME NEW b \in Accounts PROVE available'[b] = Total(ledger'[b], Sources)
  BY DEF RowsAddUp
<1>1. WalletTypeOK /\ available[b] = Total(ledger[b], Sources)
  BY DEF TypeOK, RowsAddUp
<1>2. /\ ledger[b] \in [Sources -> Int]
      /\ \A r \in Sources : b # a \/ r # s => ledger'[b][r] = ledger[b][r]
  BY <1>1, RowMovesRows DEF WalletTypeOK
<1>3. CASE b # a
  <2>1. Total(ledger'[b], Sources) = Total(ledger[b], Sources)
    BY <1>2, <1>3, FiniteSums, TotalSame
  <2>2. available'[b] = available[b]
    BY <1>1, <1>3, RowMovesRows
  <2>3. QED
    BY <1>1, <2>1, <2>2
<1>4. CASE b = a
  <2>1. /\ ledger'[b][s] = ledger[b][s] + n /\ available'[b] = available[b] + n
        /\ ledger[b][s] \in Int
    BY <1>1, <1>2, <1>4, RowMovesRows
  <2>2. \A r \in Sources : ledger[b][r] \in Int /\ (r # s => ledger'[b][r] = ledger[b][r])
    BY <1>2
  <2>3. Total(ledger'[b], Sources) = Total(ledger[b], Sources) + n
    BY <2>1, <2>2, FiniteSums, TotalAdds
  <2>4. QED
    BY <1>1, <2>1, <2>3
<1>5. QED
  BY <1>3, <1>4

LEMMA EscrowsKept ==
    ASSUME EscrowsAddUp, UNCHANGED held, Earnings' = Earnings,
           \A c \in Campaigns : ledger'[BrandOf[c]][c] = ledger[BrandOf[c]][c]
    PROVE  EscrowsAddUp'
  BY DEF EscrowsAddUp

LEMMA ExchangesKeepsEscrows ==
    ASSUME TypeOK, EscrowsAddUp, NEW c \in Campaigns, NEW n \in Int, Exchanges(c, n)
    PROVE  EscrowsAddUp'
<1>1. /\ WalletTypeOK /\ held \in [Campaigns -> Nat]
      /\ \A e \in Campaigns : BrandOf[e] \in Accounts /\ e \in Sources \ Collabs
  BY OwnersAssumption, SourceKinds DEF TypeOK, EscrowTypeOK
<1>2. RowMoves(BrandOf[c], -n, c) /\ held' = [held EXCEPT ![c] = @ + n] /\ -n \in Int
  BY DEF Exchanges
<1>3. Earnings' = Earnings
  BY <1>1, <1>2, SameEarnings
<1>4. ledger'[BrandOf[c]][c] = ledger[BrandOf[c]][c] + (-n)
  BY <1>1, <1>2, RowMovesRows
<1>5. \A e \in Campaigns : e # c => ledger'[BrandOf[e]][e] = ledger[BrandOf[e]][e]
  BY <1>1, <1>2, RowMovesRows
<1> SUFFICES ASSUME NEW e \in Campaigns
             PROVE  held'[e] = -(ledger'[BrandOf[e]][e]) - Total(Earnings', JobsOf(e))
  BY DEF EscrowsAddUp
<1>6. held[e] = -(ledger[BrandOf[e]][e]) - Total(Earnings, JobsOf(e))
  BY DEF EscrowsAddUp
<1>7. CASE e # c
  BY <1>1, <1>2, <1>3, <1>5, <1>6, <1>7
<1>8. CASE e = c
  <2>1. Total(Earnings, JobsOf(e)) \in Int
    <3>1. \A k \in JobsOf(e) : Earnings[k] \in Int
      BY <1>1, OwnersAssumption DEF JobsOf, Earnings, Earned, WalletTypeOK, Sources
    <3>2. QED
      BY <3>1, FiniteSums, TotalType
  <2>2. held'[e] = held[e] + n /\ ledger[BrandOf[e]][e] \in Int
    BY <1>1, <1>2, <1>8 DEF WalletTypeOK
  <2> DEFINE t == Total(Earnings, JobsOf(e))
             l == ledger[BrandOf[e]][e]
  <2>3. t \in Int /\ l \in Int /\ held[e] = -l - t /\ held'[e] = (-l - t) + n
    BY <1>6, <2>1, <2>2
  <2>4. ledger'[BrandOf[e]][e] = l + (-n) /\ Total(Earnings', JobsOf(e)) = t
    BY <1>3, <1>4, <1>8
  <2> HIDE DEF t, l
  <2>5. QED
    BY <2>3, <2>4
<1>9. QED
  BY <1>7, <1>8

LEMMA PaysKeepsEscrows ==
    ASSUME TypeOK, EscrowsAddUp, NEW k \in Collabs, NEW n \in Nat, Pays(k, n)
    PROVE  EscrowsAddUp'
<1>1. /\ WalletTypeOK /\ held \in [Campaigns -> Nat]
      /\ \A e \in Campaigns : BrandOf[e] \in Accounts /\ e \in Sources \ Collabs
      /\ \A j \in Collabs : CreatorOf[j] \in Accounts /\ j \in Sources
  BY OwnersAssumption, SourceKinds DEF TypeOK, EscrowTypeOK, Sources
<1>2. /\ Earned(k) = 0 /\ RowMoves(CreatorOf[k], n, k)
      /\ held' = [held EXCEPT ![CampaignOf[k]] = @ - n]
  BY DEF Pays
<1>3. \A e \in Campaigns : ledger'[BrandOf[e]][e] = ledger[BrandOf[e]][e]
  BY <1>1, <1>2, RowMovesRows
<1>4. /\ \A j \in Collabs : Earnings[j] \in Int /\ Earnings'[j] \in Int
      /\ \A j \in Collabs : j # k => Earnings[j] = Earnings'[j]
      /\ Earnings'[k] = Earnings[k] + n
  <2>1. \A j \in Collabs : Earned(j) \in Int
    BY <1>1 DEF Earned, WalletTypeOK
  <2>2. /\ \A j \in Collabs : j # k => Earned(j)' = Earned(j)
        /\ Earned(k)' = Earned(k) + n
    BY <1>1, <1>2, RowMovesRows DEF Earned
  <2>3. QED
    BY <2>1, <2>2 DEF Earnings
<1> SUFFICES ASSUME NEW e \in Campaigns
             PROVE  held'[e] = -(ledger'[BrandOf[e]][e]) - Total(Earnings', JobsOf(e))
  BY DEF EscrowsAddUp
<1> DEFINE t == Total(Earnings, JobsOf(e))
           l == ledger[BrandOf[e]][e]
<1>5. held[e] = -l - t /\ l \in Int /\ ledger'[BrandOf[e]][e] = l
  BY <1>1, <1>3 DEF EscrowsAddUp, WalletTypeOK
<1>6. t \in Int
  BY <1>4, FiniteSums, TotalType DEF JobsOf
<1>7. CASE CampaignOf[k] # e
  <2>1. Total(Earnings', JobsOf(e)) = t
    BY <1>4, <1>7, FiniteSums, TotalSame DEF JobsOf
  <2>2. held'[e] = held[e]
    BY <1>1, <1>2, <1>7
  <2>3. QED
    BY <1>5, <2>1, <2>2
<1>8. CASE CampaignOf[k] = e
  <2>1. /\ k \in JobsOf(e) /\ n \in Int /\ Earnings'[k] = Earnings[k] + n
        /\ \A j \in JobsOf(e) : Earnings[j] \in Int
        /\ \A j \in JobsOf(e) : j # k => Earnings'[j] = Earnings[j]
    BY <1>4, <1>8 DEF JobsOf
  <2>2. Total(Earnings', JobsOf(e)) = t + n
    BY <2>1, FiniteSums, TotalAdds
  <2>3. held'[e] = held[e] - n
    BY <1>1, <1>2, <1>8
  <2> HIDE DEF t, l
  <2>4. QED
    BY <1>5, <1>6, <2>2, <2>3
<1>9. QED
  BY <1>7, <1>8

LEMMA EscrowsStepKept == ASSUME TypeOK, EscrowsAddUp, Moves PROVE EscrowsAddUp'
<1>1. CASE Rests
  BY <1>1, EscrowsKept DEF Rests, Earnings, Earned
<1>2. ASSUME NEW a \in Accounts, NEW n \in Int, NEW s \in Sources \ (Campaigns \cup Collabs),
             RowMoves(a, n, s), UNCHANGED held
      PROVE  EscrowsAddUp'
  <2>1. WalletTypeOK /\ \A c \in Campaigns : BrandOf[c] \in Accounts /\ c \in Sources
    BY OwnersAssumption DEF TypeOK, Sources
  <2>2. \A c \in Campaigns : ledger'[BrandOf[c]][c] = ledger[BrandOf[c]][c]
    BY <1>2, <2>1, RowMovesRows
  <2>3. QED
    BY <1>2, <2>1, <2>2, SameEarnings, EscrowsKept
<1>3. CASE \E d \in Deposits, n \in Nat : Receives(d, n)
  <2>1. \A d \in Deposits : d \in Sources \ (Campaigns \cup Collabs) /\ DepositorOf[d] \in Accounts
    BY DepositAssumption, SourcesDisjoint DEF Sources
  <2>2. QED
    BY <1>2, <1>3, <2>1 DEF Receives
<1>4. CASE \E w \in Withdrawals, n \in Nat : Freezes(w, n)
  <2>1. PICK w \in Withdrawals, n \in Nat : Freezes(w, n)
    BY <1>4
  <2>2. w \in Sources \ (Campaigns \cup Collabs) /\ RequesterOf[w] \in Accounts /\ -n \in Int
    BY WithdrawalAssumption, SourcesDisjoint DEF Sources
  <2>3. QED
    BY <1>2, <2>1, <2>2 DEF Freezes
<1>5. QED
  BY <1>1, <1>3, <1>4, ExchangesKeepsEscrows, PaysKeepsEscrows DEF Moves

LEMMA RowsStepKept == ASSUME TypeOK, RowsAddUp, Moves PROVE RowsAddUp'
<1>1. CASE UNCHANGED <<available, ledger>>
  BY <1>1 DEF RowsAddUp
<1>2. CASE \E a \in Accounts, n \in Int, s \in Sources : RowMoves(a, n, s)
  BY <1>2, RowsStep
<1>3. ASSUME NEW d \in Deposits, NEW n \in Nat, Receives(d, n) PROVE RowsAddUp'
  BY <1>2, <1>3, DepositAssumption DEF Receives, Sources
<1>4. ASSUME NEW c \in Campaigns, NEW n \in Int, Exchanges(c, n) PROVE RowsAddUp'
  <2>1. -n \in Int /\ BrandOf[c] \in Accounts /\ c \in Sources
    BY OwnersAssumption DEF Sources
  <2>2. QED
    BY <1>2, <1>4, <2>1 DEF Exchanges
<1>5. ASSUME NEW k \in Collabs, NEW n \in Nat, Pays(k, n) PROVE RowsAddUp'
  BY <1>2, <1>5, OwnersAssumption DEF Pays, Sources
<1>6. ASSUME NEW w \in Withdrawals, NEW n \in Nat, Freezes(w, n) PROVE RowsAddUp'
  <2>1. -n \in Int /\ RequesterOf[w] \in Accounts /\ w \in Sources
    BY WithdrawalAssumption DEF Sources
  <2>2. QED
    BY <1>2, <1>6, <2>1 DEF Freezes
<1>7. QED
  BY <1>1, <1>3, <1>4, <1>5, <1>6 DEF Moves, Rests

LEMMA LockedStepKept == ASSUME TypeOK, LockedIsPendingOrders, Moves PROVE LockedIsPendingOrders'
<1> SUFFICES ASSUME NEW a \in Accounts PROVE locked'[a] = Total(requested', OrdersOf(a)')
  BY DEF LockedIsPendingOrders, OrdersOf
<1>1. /\ locked[a] = Total(requested, OrdersOf(a))
      /\ locked \in [Accounts -> Nat] /\ requested \in [Withdrawals -> Nat]
      /\ orders \subseteq Withdrawals
  BY DEF LockedIsPendingOrders, OrdersOf, TypeOK, WalletTypeOK, WithdrawalTypeOK
<1>2. IsFiniteSet(OrdersOf(a)) /\ IsFiniteSet(OrdersOf(a)')
  <2>1. orders' \subseteq Withdrawals
    BY <1>1 DEF Moves, Rests, Receives, Exchanges, Pays, Freezes, SameOrders
  <2>2. QED
    BY <1>1, <2>1, FiniteTables, FS_Subset DEF OrdersOf
<1>3. CASE SameOrders /\ UNCHANGED locked
  <2>1. OrdersOf(a)' = OrdersOf(a) /\ \A w \in OrdersOf(a) : requested'[w] = requested[w]
    BY <1>3 DEF SameOrders, OrdersOf
  <2>2. Total(requested', OrdersOf(a)) = Total(requested, OrdersOf(a))
    BY <1>2, <2>1, TotalSame
  <2>3. QED
    BY <1>1, <1>3, <2>1, <2>2
<1>4. ASSUME NEW w \in Withdrawals, NEW n \in Nat, Freezes(w, n)
      PROVE  locked'[a] = Total(requested', OrdersOf(a)')
  <2>1. /\ n = requested[w] /\ w \notin orders /\ orders' = orders \cup {w}
        /\ locked' = [locked EXCEPT ![RequesterOf[w]] = @ + n] /\ requested' = requested
    BY <1>4 DEF Freezes
  <2>2. CASE RequesterOf[w] # a
    <3>1. OrdersOf(a)' = OrdersOf(a) /\ locked'[a] = locked[a]
      BY <1>1, <2>1, <2>2 DEF OrdersOf
    <3>2. QED
      BY <1>1, <2>1, <3>1
  <2>3. CASE RequesterOf[w] = a
    <3>1. /\ w \in OrdersOf(a)' /\ OrdersOf(a)' \ {w} = OrdersOf(a)
          /\ \A v \in OrdersOf(a)' : requested[v] \in Int
      BY <1>1, <2>1, <2>3 DEF OrdersOf
    <3>2. Total(requested, OrdersOf(a)') = requested[w] + Total(requested, OrdersOf(a)' \ {w})
      BY <1>2, <3>1, TotalRemove
    <3>3. locked'[a] = locked[a] + requested[w] /\ locked[a] \in Nat /\ requested[w] \in Nat
      BY <1>1, <2>1, <2>3
    <3>4. QED
      BY <1>1, <2>1, <3>1, <3>2, <3>3
  <2>4. QED
    BY <2>2, <2>3
<1>5. QED
  BY <1>3, <1>4 DEF Moves, Rests, Receives, Exchanges, Pays

LEMMA ConservedStepKept == ASSUME TypeOK, MoneyConserved, Moves PROVE MoneyConserved'
<1> DEFINE A == Total(available, Accounts)
           L == Total(locked, Accounts)
           H == Total(held, Campaigns)
           P == Total(paid, Deposits)
<1>1. /\ available \in [Accounts -> Int] /\ locked \in [Accounts -> Int]
      /\ held \in [Campaigns -> Int] /\ paid \in [Deposits -> Int]
  BY DEF TypeOK, WalletTypeOK, EscrowTypeOK, DepositTypeOK
<1>2. A \in Int /\ L \in Int /\ H \in Int /\ P \in Int /\ A + L + H = P
  BY <1>1, FiniteTables, TotalType DEF MoneyConserved
<1> SUFFICES Total(available', Accounts) + Total(locked', Accounts) + Total(held', Campaigns)
                = Total(paid', Deposits)
  BY DEF MoneyConserved
<1>3. ASSUME NEW a \in Accounts, NEW n \in Int, NEW s, RowMoves(a, n, s)
      PROVE  Total(available', Accounts) = A + n
  <2>1. /\ \A b \in Accounts : available[b] \in Int
        /\ available'[a] = available[a] + n
        /\ \A b \in Accounts : b # a => available'[b] = available[b]
    BY <1>1, <1>3 DEF RowMoves
  <2>2. QED
    BY <2>1, FiniteTables, TotalAdds
<1>4. CASE Rests
  BY <1>2, <1>4 DEF Rests
<1>5. ASSUME NEW d \in Deposits, NEW n \in Nat, Receives(d, n)
      PROVE  Total(available', Accounts) + Total(locked', Accounts) + Total(held', Campaigns)
                = Total(paid', Deposits)
  <2>1. DepositorOf[d] \in Accounts /\ RowMoves(DepositorOf[d], n, d) /\ n \in Int
        /\ locked' = locked /\ held' = held
    BY <1>5, DepositAssumption DEF Receives
  <2>2. Total(available', Accounts) = A + n
    BY <1>3, <2>1
  <2>3. /\ \A e \in Deposits : paid[e] \in Int
        /\ paid'[d] = paid[d] + n
        /\ \A e \in Deposits : e # d => paid'[e] = paid[e]
    BY <1>1, <1>5 DEF Receives
  <2>4. Total(paid', Deposits) = P + n
    BY <2>1, <2>3, FiniteTables, TotalAdds
  <2> HIDE DEF A, L, H, P
  <2>5. Total(locked', Accounts) = L /\ Total(held', Campaigns) = H
    BY <2>1 DEF L, H
  <2>6. QED
    BY <1>2, <2>1, <2>2, <2>4, <2>5
<1>6. ASSUME NEW c \in Campaigns, NEW n \in Int, Exchanges(c, n)
      PROVE  Total(available', Accounts) + Total(locked', Accounts) + Total(held', Campaigns)
                = Total(paid', Deposits)
  <2>1. /\ BrandOf[c] \in Accounts /\ RowMoves(BrandOf[c], -n, c) /\ -n \in Int
        /\ held' = [held EXCEPT ![c] = @ + n] /\ locked' = locked /\ paid' = paid
    BY <1>6, OwnersAssumption DEF Exchanges
  <2>2. Total(available', Accounts) = A + (-n)
    BY <1>3, <2>1
  <2>3. Total(held', Campaigns) = H + n
    <3>1. /\ \A e \in Campaigns : held[e] \in Int
          /\ held'[c] = held[c] + n
          /\ \A e \in Campaigns : e # c => held'[e] = held[e]
      BY <1>1, <2>1
    <3>2. QED
      BY <3>1, FiniteTables, TotalAdds
  <2> HIDE DEF A, L, H, P
  <2>4. Total(locked', Accounts) = L /\ Total(paid', Deposits) = P
    BY <2>1 DEF L, P
  <2>5. QED
    BY <1>2, <2>2, <2>3, <2>4
<1>7. ASSUME NEW k \in Collabs, NEW n \in Nat, Pays(k, n)
      PROVE  Total(available', Accounts) + Total(locked', Accounts) + Total(held', Campaigns)
                = Total(paid', Deposits)
  <2>1. /\ CreatorOf[k] \in Accounts /\ RowMoves(CreatorOf[k], n, k) /\ n \in Int
        /\ CampaignOf[k] \in Campaigns /\ locked' = locked /\ paid' = paid
        /\ held' = [held EXCEPT ![CampaignOf[k]] = held[CampaignOf[k]] - n]
    BY <1>7, OwnersAssumption DEF Pays
  <2>2. Total(available', Accounts) = A + n
    BY <1>3, <2>1
  <2>3. Total(held', Campaigns) = H + (-n)
    <3>1. /\ \A e \in Campaigns : held[e] \in Int
          /\ -n \in Int /\ held'[CampaignOf[k]] = held[CampaignOf[k]] + (-n)
          /\ \A e \in Campaigns : e # CampaignOf[k] => held'[e] = held[e]
      BY <1>1, <2>1
    <3>2. CampaignOf[k] \in Campaigns /\ IsFiniteSet(Campaigns)
      BY <2>1, FiniteTables
    <3>3. QED
      BY <3>1, <3>2, TotalAdds
  <2> HIDE DEF A, L, H, P
  <2>4. Total(locked', Accounts) = L /\ Total(paid', Deposits) = P
    BY <2>1 DEF L, P
  <2>5. QED
    BY <1>2, <2>1, <2>2, <2>3, <2>4
<1>8. ASSUME NEW w \in Withdrawals, NEW n \in Nat, Freezes(w, n)
      PROVE  Total(available', Accounts) + Total(locked', Accounts) + Total(held', Campaigns)
                = Total(paid', Deposits)
  <2>1. /\ RequesterOf[w] \in Accounts /\ RowMoves(RequesterOf[w], -n, w) /\ -n \in Int
        /\ locked' = [locked EXCEPT ![RequesterOf[w]] = @ + n] /\ held' = held /\ paid' = paid
    BY <1>8, WithdrawalAssumption DEF Freezes
  <2>2. Total(available', Accounts) = A + (-n)
    BY <1>3, <2>1
  <2>3. Total(locked', Accounts) = L + n
    <3>1. /\ \A b \in Accounts : locked[b] \in Int
          /\ locked'[RequesterOf[w]] = locked[RequesterOf[w]] + n
          /\ \A b \in Accounts : b # RequesterOf[w] => locked'[b] = locked[b]
      BY <1>1, <2>1
    <3>2. RequesterOf[w] \in Accounts /\ IsFiniteSet(Accounts) /\ n \in Int
      BY <2>1, FiniteTables
    <3>3. QED
      BY <3>1, <3>2, TotalAdds
  <2> HIDE DEF A, L, H, P
  <2>4. Total(held', Campaigns) = H /\ Total(paid', Deposits) = P
    BY <2>1 DEF H, P
  <2>5. QED
    BY <1>2, <2>2, <2>3, <2>4
<1>9. QED
  BY <1>4, <1>5, <1>6, <1>7, <1>8 DEF Moves

LEMMA MoneyInvInit == Init => MoneyInv
<1> SUFFICES ASSUME Init PROVE RowsAddUp /\ EscrowsAddUp /\ LockedIsPendingOrders /\ MoneyConserved
  BY CustodyInvInit DEF MoneyInv
<1>1. /\ \A a \in Accounts : available[a] = 0 /\ locked[a] = 0
      /\ \A a \in Accounts, s \in Sources : ledger[a][s] = 0
      /\ \A c \in Campaigns : held[c] = 0
      /\ \A d \in Deposits : paid[d] = 0
      /\ orders = {}
  BY DEF Init, WalletInit, EscrowInit, DepositInit, WithdrawalInit
<1>2. RowsAddUp
  BY <1>1, FiniteSums, TotalZero DEF RowsAddUp
<1>3. EscrowsAddUp
  <2>1. \A k \in Collabs : Earnings[k] = 0
    BY <1>1, OwnersAssumption DEF Earnings, Earned, Sources
  <2>2. \A c \in Campaigns : Total(Earnings, JobsOf(c)) = 0
    BY <2>1, FiniteSums, TotalZero DEF JobsOf
  <2>3. \A c \in Campaigns : held[c] = 0 /\ ledger[BrandOf[c]][c] = 0
    BY <1>1, OwnersAssumption DEF Sources
  <2>4. QED
    BY <2>2, <2>3 DEF EscrowsAddUp
<1>4. LockedIsPendingOrders
  <2>1. \A a : {w \in orders : RequesterOf[w] = a} = {}
    BY <1>1
  <2>2. QED
    BY <1>1, <2>1, TotalEmpty DEF LockedIsPendingOrders
<1>5. MoneyConserved
  <2>1. /\ Total(available, Accounts) = 0 /\ Total(locked, Accounts) = 0
        /\ Total(held, Campaigns) = 0 /\ Total(paid, Deposits) = 0
    BY <1>1, FiniteTables, TotalZero
  <2>2. QED
    BY <2>1 DEF MoneyConserved
<1>6. QED
  BY <1>2, <1>3, <1>4, <1>5

LEMMA MoneyInvariant == Spec => []MoneyInv
<1>1. MoneyInv /\ [Next]_vars => MoneyInv'
  <2> SUFFICES ASSUME MoneyInv, [Next]_vars PROVE MoneyInv'
    OBVIOUS
  <2>1. CustodyInv' /\ Moves /\ TypeOK
    BY CollabInvStep, DepositInvStep, EscrowStep, AskedStep, StepMoves
    DEF MoneyInv, CustodyInv, CollabInv
  <2>2. QED
    BY <2>1, RowsStepKept, EscrowsStepKept, LockedStepKept, ConservedStepKept DEF MoneyInv
<1>2. QED
  BY <1>1, MoneyInvInit, PTL DEF Spec

\* Whatever requests race, repeat or roll back, what the wallets and the
\* escrows hold together is what completed deposits brought in: no operation
\* of the wallets, the escrows or the withdrawals makes or loses money.
THEOREM MoneyIsConserved == Spec => []MoneyConserved
<1>1. MoneyInv => MoneyConserved
  BY DEF MoneyInv
<1>2. QED
  BY <1>1, MoneyInvariant, PTL

\* wallet_transactions explains every balance: the rows of a wallet add up to
\* its available balance, and an escrow holds what its brand paid in less what
\* came back and what the campaign's creators earned.
THEOREM LedgerExplains == Spec => []LedgerExplainsBalances
<1>1. MoneyInv => LedgerExplainsBalances
  BY DEF MoneyInv, LedgerExplainsBalances, RowsAddUp, EscrowsAddUp, JobsOf
<1>2. QED
  BY <1>1, MoneyInvariant, PTL

\* insertWithdrawal() and its rollback: the locked balance of a wallet is the
\* sum of what its orders asked for, also after a lost race for a key.
THEOREM LockedIsOrdered == Spec => []LockedIsPendingOrders
<1>1. MoneyInv => LockedIsPendingOrders
  BY DEF MoneyInv
<1>2. QED
  BY <1>1, MoneyInvariant, PTL
=============================================================================
