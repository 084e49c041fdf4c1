----------------------------- MODULE Withdrawal -----------------------------
(***************************************************************************)
(* WithdrawalService.createWithdrawal(): a request may carry an            *)
(* idempotency key; it first looks the key up and only then opens the      *)
(* transaction that freezes the money and inserts the order, so several    *)
(* requests with one key can be past the lookup together.                  *)
(*                                                                         *)
(* A withdrawal id stands for a request and for the row it may insert.     *)
(* Nothing in the program moves an order out of PENDING.  The KYC gate,    *)
(* the bank account and the fee only decide whether a request gets here.   *)
(***************************************************************************)
EXTENDS Wallet, FiniteSetsExt

CONSTANTS
    RequesterOf,      \* the account that sends a request
    KeyOf,            \* its Idempotency-Key header
    NoKey,            \* the header is absent
    WithdrawAmounts   \* amounts a request may ask for

ASSUME WithdrawalAssumption ==
    /\ RequesterOf \in [Withdrawals -> Accounts]
    /\ WithdrawAmounts \subseteq Nat \ {0}

VARIABLES
    asked,   \* where a request is: "new", "lookedup" or "done"
    requested,  \* the amount it asks for
    orders,  \* the requests that inserted a withdrawals row (status PENDING)
    answer   \* the row a request was answered with, or why it got none

withdrawalVars == <<asked, requested, orders, answer>>

\* A request that has not ended, 422 and a connection that died.
Refusals == {"none", "insufficient", "dropped"}

WithdrawalTypeOK ==
    /\ asked \in [Withdrawals -> {"new", "lookedup", "done"}]
    /\ requested \in [Withdrawals -> Nat]
    /\ orders \in SUBSET Withdrawals
    /\ answer \in [Withdrawals -> Withdrawals \cup Refusals]

WithdrawalInit ==
    /\ asked = [w \in Withdrawals |-> "new"]
    /\ requested = [w \in Withdrawals |-> 0]
    /\ orders = {}
    /\ answer = [w \in Withdrawals |-> "none"]

-----------------------------------------------------------------------------
\* The committed rows with the account and the key of w.
SameKey(w) ==
    {v \in orders : /\ KeyOf[w] # NoKey
                    /\ KeyOf[v] = KeyOf[w]
                    /\ RequesterOf[v] = RequesterOf[w]}

Answer(w, what) ==
    /\ asked' = [asked EXCEPT ![w] = "done"]
    /\ answer' = [answer EXCEPT ![w] = what]

\* findOneBy({accountId, idempotencyKey}) outside any transaction.
LookUpKey(w, n) ==
    /\ asked[w] = "new"
    /\ requested' = [requested EXCEPT ![w] = n]
    /\ \/ /\ SameKey(w) = {}
          /\ asked' = [asked EXCEPT ![w] = "lookedup"]
          /\ UNCHANGED answer
       \/ \E v \in SameKey(w) : Answer(w, v)
    /\ UNCHANGED <<orders, walletVars>>

\* Mutant: no unique index on the key, only the lookup before.
InsertWithoutIndex(w) ==
    /\ asked[w] = "lookedup"
    /\ \/ /\ available[RequesterOf[w]] < requested[w]
          /\ Answer(w, "insufficient")
          /\ UNCHANGED <<orders, walletVars>>
       \/ /\ Freeze(RequesterOf[w], requested[w], w)
          /\ orders' = orders \cup {w}
          /\ Answer(w, w)
    /\ UNCHANGED requested

\* Mutant: the loser's wallet statement is not rolled back.
InsertOutsideTransaction(w) ==
    /\ asked[w] = "lookedup"
    /\ \/ /\ available[RequesterOf[w]] < requested[w]
          /\ Answer(w, "insufficient")
          /\ UNCHANGED <<orders, walletVars>>
       \/ /\ Freeze(RequesterOf[w], requested[w], w)
          /\ \/ /\ SameKey(w) = {}
                /\ orders' = orders \cup {w}
                /\ Answer(w, w)
             \/ /\ \E v \in SameKey(w) : Answer(w, v)
                /\ UNCHANGED orders
    /\ UNCHANGED requested

\* insertWithdrawal(): the wallet statement comes first, so a balance too
\* small is reported before the unique index on the key is met.
InsertWithdrawal(w) ==
    /\ asked[w] = "lookedup"
    /\ \/ /\ available[RequesterOf[w]] < requested[w]
          /\ Answer(w, "insufficient")
          /\ UNCHANGED <<orders, walletVars>>
       \/ /\ available[RequesterOf[w]] >= requested[w]
          /\ \E v \in SameKey(w) : Answer(w, v)
          /\ UNCHANGED <<orders, walletVars>>
       \/ /\ SameKey(w) = {}
          /\ Freeze(RequesterOf[w], requested[w], w)
          /\ orders' = orders \cup {w}
          /\ Answer(w, w)
    /\ UNCHANGED requested

\* The process dies before the COMMIT, or the answer is lost after it: the
\* client learns nothing and will retry with the same key as another request.
LoseWithdrawalAnswer(w) ==
    /\ asked[w] # "new"
    /\ answer[w] # "dropped"
    /\ Answer(w, "dropped")
    /\ UNCHANGED <<requested, orders, walletVars>>

-----------------------------------------------------------------------------
(* Properties                                                              *)

\* The sum of f over a finite set of rows.
Total(f, S) == MapThenSumSet(LAMBDA x : f[x], S)

\* However requests with one key interleave and retry, an account freezes
\* money for that key once (UQ_withdrawals_account_idempotency, and the
\* rollback of the loser's wallet statement).
OneOrderPerKey ==
    \A w \in orders : SameKey(w) \subseteq {w}

\* The locked balance of a wallet is exactly what its pending orders froze.
LockedIsPendingOrders ==
    \A a \in Accounts :
        locked[a] = Total(requested, {w \in orders : RequesterOf[w] = a})
=============================================================================
