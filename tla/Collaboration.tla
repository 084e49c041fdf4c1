---------------------------- MODULE Collaboration ---------------------------
(***************************************************************************)
(* CollaborationService: a brand invites a creator into an approved        *)
(* campaign, the two negotiate the price while the collaboration is        *)
(* PENDING, and its status then decides where its share of the escrow      *)
(* goes.                                                                   *)
(*                                                                         *)
(* updateStatus() reads the row without a lock and writes it with          *)
(* UPDATE ... WHERE status = <the status read>; whatever else it uses of   *)
(* the row (price, proposal, timestamp) is what it read.  Such a request   *)
(* is therefore two steps with any other request between them.             *)
(* acceptPrice() locks the row, and create(), proposePrice() and           *)
(* withdrawPrice() have every condition they read checked again by their   *)
(* INSERT or UPDATE, so each of them is one step.                          *)
(***************************************************************************)
EXTENDS Campaign

CONSTANTS
    Prices,       \* prices a party may propose
    MaxInFlight   \* bound on updateStatus() requests between read and write

ASSUME CollaborationAssumption ==
    /\ Prices \subseteq Nat \ {0}
    /\ MaxInFlight \in Nat

VARIABLES
    status,      \* collaborations.status, "absent" before the row exists
    agreed,      \* agreed_price
    proposed,    \* proposed_price, 0 for NULL
    proposedBy,  \* proposed_by, "none" for NULL
    stamps,      \* per timestamp column: 0 NULL, 1 written, 2 overwritten
    inflight     \* what updateStatus() requests have read and not yet used

collabVars == <<status, agreed, proposed, proposedBy, stamps, inflight>>

Statuses == {"pending", "active", "submitted", "completed", "cancelled", "disputed"}
OpenStatuses == {"pending", "active", "submitted"}
Parties == {"brand", "creator"}
Roles == Parties \cup {"admin"}

\* STATUS_TIMESTAMP: the statuses that have a timestamp column.
Stamped == {"active", "submitted", "completed", "cancelled"}

\* TRANSITION_ACTORS: who may move a collaboration from one status to another.
TransitionActors(from, to) ==
    CASE from = "pending" /\ to = "active" -> {"creator"}
      [] from = "active" /\ to = "submitted" -> {"creator"}
      [] from = "submitted" /\ to \in {"completed", "active"} -> {"brand"}
      [] from \in OpenStatuses /\ to = "cancelled" -> Parties
      [] from \in {"active", "submitted", "completed"} /\ to = "disputed" -> Parties
      [] from = "disputed" /\ to = "completed" -> {"admin"}
      [] OTHER -> {}

Snapshots ==
    [collab : Collabs, next : Statuses, status : Statuses, agreed : Nat,
     stamped : BOOLEAN]

CollabTypeOK ==
    /\ status \in [Collabs -> Statuses \cup {"absent"}]
    /\ agreed \in [Collabs -> Nat]
    /\ proposed \in [Collabs -> Nat]
    /\ proposedBy \in [Collabs -> Parties \cup {"none"}]
    /\ stamps \in [Collabs -> [Stamped -> 0..2]]
    /\ inflight \in SUBSET Snapshots

CollabInit ==
    /\ status = [k \in Collabs |-> "absent"]
    /\ agreed = [k \in Collabs |-> 0]
    /\ proposed = [k \in Collabs |-> 0]
    /\ proposedBy = [k \in Collabs |-> "none"]
    /\ stamps = [k \in Collabs |-> [s \in Stamped |-> 0]]
    /\ inflight = {}

-----------------------------------------------------------------------------
\* Rows of one creator and campaign; the campaign determines the brand.
SamePair(j, k) == CampaignOf[j] = CampaignOf[k] /\ CreatorOf[j] = CreatorOf[k]

\* Mutant: no unique index on the open collaborations of a pair.
CreateAnother(k) ==
    LET c == CampaignOf[k]
    IN  /\ status[k] = "absent"
        /\ BrandOf[c] # CreatorOf[k]
        /\ campaignStatus[c] = "approved"
        /\ status' = [status EXCEPT ![k] = "pending"]
        /\ agreed' = [agreed EXCEPT ![k] = terms[c].unit]
        /\ UNCHANGED <<proposed, proposedBy, stamps, inflight, moneyVars>>

\* create(): UQ_collaborations_open_campaign refuses a second open row.  The
\* number of collaborations is not compared with the campaign's count.
Create(k) ==
    LET c == CampaignOf[k]
    IN  /\ status[k] = "absent"
        /\ BrandOf[c] # CreatorOf[k]
        /\ campaignStatus[c] = "approved"
        /\ \A j \in Collabs : SamePair(j, k) => status[j] \notin OpenStatuses
        /\ status' = [status EXCEPT ![k] = "pending"]
        /\ agreed' = [agreed EXCEPT ![k] = terms[c].unit]
        /\ UNCHANGED <<proposed, proposedBy, stamps, inflight, moneyVars>>

\* proposePrice()
ProposePrice(k, party, price) ==
    /\ status[k] = "pending"
    /\ price >= terms[CampaignOf[k]].unit
    /\ proposed' = [proposed EXCEPT ![k] = price]
    /\ proposedBy' = [proposedBy EXCEPT ![k] = party]
    /\ UNCHANGED <<status, agreed, stamps, inflight, moneyVars>>

\* withdrawPrice(), by either party, whatever proposal stands.
WithdrawPrice(k) ==
    /\ status[k] = "pending"
    /\ proposed' = [proposed EXCEPT ![k] = 0]
    /\ proposedBy' = [proposedBy EXCEPT ![k] = "none"]
    /\ UNCHANGED <<status, agreed, stamps, inflight, moneyVars>>

\* Mutant: a proposal left over may be accepted in any status.
AcceptPriceLate(k, party) ==
    /\ proposed[k] # 0
    /\ proposedBy[k] # party
    /\ Adjust(k, proposed[k] - agreed[k])
    /\ agreed' = [agreed EXCEPT ![k] = proposed[k]]
    /\ proposed' = [proposed EXCEPT ![k] = 0]
    /\ proposedBy' = [proposedBy EXCEPT ![k] = "none"]
    /\ UNCHANGED <<status, stamps, inflight>>

\* acceptPrice(): under SELECT ... FOR UPDATE.
AcceptPrice(k, party) ==
    /\ status[k] = "pending"
    /\ proposed[k] # 0
    /\ proposedBy[k] # party
    /\ Adjust(k, proposed[k] - agreed[k])
    /\ agreed' = [agreed EXCEPT ![k] = proposed[k]]
    /\ proposed' = [proposed EXCEPT ![k] = 0]
    /\ proposedBy' = [proposedBy EXCEPT ![k] = "none"]
    /\ UNCHANGED <<status, stamps, inflight>>

\* updateStatus(), first half: findOneBy(), assertTransition() and the check
\* that no price is still proposed.
ReadForUpdate(k, role, next) ==
    /\ status[k] # "absent"
    /\ role \in TransitionActors(status[k], next)
    /\ next = "active" => proposed[k] = 0
    /\ inflight' = inflight \cup
           {[collab |-> k, next |-> next, status |-> status[k], agreed |-> agreed[k],
             stamped |-> IF next \in Stamped THEN stamps[k][next] > 0 ELSE TRUE]}
    /\ Cardinality(inflight') <= MaxInFlight
    /\ UNCHANGED <<status, agreed, proposed, proposedBy, stamps, moneyVars>>

\* Mutant: the UPDATE names the row and not the status that was read.
WriteStatusAnyway(q) ==
    /\ status' = [status EXCEPT ![q.collab] = q.next]
    /\ stamps' = IF q.stamped THEN stamps
                 ELSE [stamps EXCEPT ![q.collab][q.next] = IF @ = 0 THEN 1 ELSE 2]
    /\ inflight' \in {inflight, inflight \ {q}}
    /\ UNCHANGED <<agreed, proposed, proposedBy>>

\* updateStatus(), the UPDATE: only the status is compared with what was
\* read.  Another request that read the same may still be in flight.
WriteStatus(q) ==
    /\ status[q.collab] = q.status
    /\ status' = [status EXCEPT ![q.collab] = q.next]
    /\ stamps' = IF q.stamped THEN stamps
                 ELSE [stamps EXCEPT ![q.collab][q.next] = IF @ = 0 THEN 1 ELSE 2]
    /\ inflight' \in {inflight, inflight \ {q}}
    /\ UNCHANGED <<agreed, proposed, proposedBy>>

\* A transition that moves no money.
Advance(q) ==
    /\ q.next \notin {"completed", "cancelled"}
    /\ WriteStatus(q)
    /\ UNCHANGED moneyVars

\* Completing pays the creator the price that was read.
Complete(q) ==
    /\ q.next = "completed"
    /\ WriteStatus(q)
    /\ Payout(q.collab, q.agreed)

\* Cancelling refunds the brand the price that was read.
Cancel(q) ==
    /\ q.next = "cancelled"
    /\ WriteStatus(q)
    /\ Refund(q.collab, q.agreed)

\* The request ends without an effect: the status has changed (409), the
\* escrow holds too little (422), or the process died before the COMMIT.
DropUpdate(q) ==
    /\ inflight' = inflight \ {q}
    /\ UNCHANGED <<status, agreed, proposed, proposedBy, stamps, moneyVars>>

-----------------------------------------------------------------------------
(* Properties                                                              *)

Earned(k) == ledger[CreatorOf[k]][k]

\* Who has a collaboration's money follows from its status: a completed one
\* has paid its creator the agreed price, once, through any detour by
\* DISPUTED; one that is open or cancelled has paid nobody; a disputed one
\* has paid all or nothing (payout(), UQ_wallet_transactions_collaboration).
PaidAsStatusSays ==
    \A k \in Collabs :
        /\ status[k] = "completed" => Earned(k) = agreed[k] /\ agreed[k] > 0
        /\ status[k] = "disputed" => Earned(k) \in {0, agreed[k]}
        /\ status[k] \notin {"completed", "disputed"} => ~Recorded(k)

\* At most one collaboration of a creator is open in a campaign.
OneOpenPerPair ==
    \A j, k \in Collabs :
        SamePair(j, k) /\ {status[j], status[k]} \subseteq OpenStatuses => j = k

\* The price is frozen once the creator has taken the job, and what has been
\* paid for a collaboration is never taken back or paid again.
PriceAndPaymentFinal ==
    [][\A k \in Collabs :
        /\ status[k] \notin {"absent", "pending"} => agreed'[k] = agreed[k]
        /\ Recorded(k) => \A a \in Accounts : ledger'[a][k] = ledger[a][k]
      ]_<<collabVars, moneyVars>>

\* The price an updateStatus() request has read can only be out of date when
\* it read a PENDING row: payouts never use a stale price.
StalePriceOnlyWhilePending ==
    \A q \in inflight : q.status # "pending" => q.agreed = agreed[q.collab]

\* Of the races that make updateStatus() overwrite a first timestamp none
\* reaches cancelled_at, which is set once and only in a cancelled row; and no
\* creator is paid for a collaboration without completed_at.
TimestampsTell ==
    \A k \in Collabs :
        /\ stamps[k]["cancelled"] = IF status[k] = "cancelled" THEN 1 ELSE 0
        /\ Recorded(k) => stamps[k]["completed"] > 0
=============================================================================
