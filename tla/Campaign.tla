------------------------------ MODULE Campaign ------------------------------
(***************************************************************************)
(* A campaign from draft to approval: CampaignService.updateDraft(),       *)
(* CampaignSubmitService.submit() and CampaignReviewService.approve().     *)
(* Its content is the pair that money depends on (how many creators, at    *)
(* what unit price); cash_budget is their product.  Submitting copies the  *)
(* content into a review submission, and approving locks the budget of     *)
(* that copy in escrow.                                                    *)
(*                                                                         *)
(* The only callers of CampaignTransitionService.apply() are submit() and  *)
(* approve(), so no other status is reached and a campaign has at most one *)
(* submission.  Validation and KYC only refuse requests here.              *)
(***************************************************************************)
EXTENDS Escrow, Deposit

CONSTANTS
    Terms,       \* [count, unit] pairs a brand may ask for
    MaxVersion   \* bound on campaigns.version

ASSUME TermsAssumption ==
    /\ Terms \subseteq [count : Nat \ {0}, unit : Nat \ {0}]
    /\ Terms # {}
    /\ \A t \in Terms : t.count * t.unit \in Nat \ {0}
    /\ MaxVersion \in Nat

VARIABLES
    campaignStatus,  \* campaigns.status
    version,         \* campaigns.version, the optimistic lock
    terms,           \* campaigns.creator_count and cash_unit_price
    submission       \* the review submission: status, campaign version, copy

campaignVars == <<campaignStatus, version, terms, submission>>

CampaignTypeOK ==
    /\ campaignStatus \in [Campaigns -> {"draft", "pending_approval", "approved"}]
    /\ version \in [Campaigns -> Nat]
    /\ terms \in [Campaigns -> Terms]
    /\ submission \in [Campaigns -> [status : {"none", "open", "decided"},
                                     version : Nat, terms : Terms]]

CampaignInit ==
    /\ campaignStatus = [c \in Campaigns |-> "draft"]
    /\ version = [c \in Campaigns |-> 1]
    /\ terms \in [Campaigns -> Terms]
    /\ submission = [c \in Campaigns |->
                        [status |-> "none", version |-> 0, terms |-> terms[c]]]

-----------------------------------------------------------------------------
Budget(t) == t.count * t.unit

\* Mutant: any campaign may be edited.
UpdateAnyCampaign(c, expected, t) ==
    /\ version[c] = expected
    /\ version[c] < MaxVersion
    /\ terms' = [terms EXCEPT ![c] = t]
    /\ version' = [version EXCEPT ![c] = @ + 1]
    /\ UNCHANGED <<campaignStatus, submission, moneyVars, depositVars>>

\* updateDraft(): one UPDATE guarded by the version the client has seen.
UpdateDraft(c, expected, t) ==
    /\ campaignStatus[c] = "draft"
    /\ version[c] = expected
    /\ version[c] < MaxVersion
    /\ terms' = [terms EXCEPT ![c] = t]
    /\ version' = [version EXCEPT ![c] = @ + 1]
    /\ UNCHANGED <<campaignStatus, submission, moneyVars, depositVars>>

\* submitInTransaction() holds the campaign row; assertBudgetFunded() only
\* looks at the wallet and reserves nothing.
Submit(c, expected) ==
    /\ campaignStatus[c] = "draft"
    /\ version[c] = expected
    /\ version[c] < MaxVersion
    /\ available[BrandOf[c]] >= Budget(terms[c])
    /\ campaignStatus' = [campaignStatus EXCEPT ![c] = "pending_approval"]
    /\ version' = [version EXCEPT ![c] = @ + 1]
    /\ submission' = [submission EXCEPT ![c] =
                        [status |-> "open", version |-> version[c] + 1,
                         terms |-> terms[c]]]
    /\ UNCHANGED <<terms, moneyVars, depositVars>>

\* withTopUp(): a submission refused for want of money opens a deposit order.
SubmitShort(c, expected, d) ==
    /\ campaignStatus[c] = "draft"
    /\ version[c] = expected
    /\ available[BrandOf[c]] < Budget(terms[c])
    /\ DepositorOf[d] = BrandOf[c]
    /\ CreateDeposit(d)
    /\ UNCHANGED <<campaignVars, moneyVars>>

\* approve(): both rows locked, everything rechecked, then the status, the
\* escrow and the decision in one transaction; an empty wallet undoes it all.
Approve(c, expected) ==
    /\ submission[c].status = "open"
    /\ campaignStatus[c] = "pending_approval"
    /\ version[c] = expected
    /\ submission[c].version = version[c]
    /\ campaignStatus' = [campaignStatus EXCEPT ![c] = "approved"]
    /\ version' = [version EXCEPT ![c] = @ + 1]
    /\ submission' = [submission EXCEPT ![c].status = "decided"]
    /\ LockEscrow(c, Budget(submission[c].terms))
    /\ UNCHANGED <<terms, depositVars>>

-----------------------------------------------------------------------------
(* Properties                                                              *)

\* A campaign in review or approved still has the content that was copied
\* into its submission at the version under review, and an approved one has
\* its escrow row: the money approve() locks, taken from the copy, is the
\* budget of the row that collaborations are priced from.
ReviewedContentStands ==
    \A c \in Campaigns :
        /\ campaignStatus[c] # "draft" => submission[c].terms = terms[c]
        /\ campaignStatus[c] = "pending_approval" => submission[c].version = version[c]
        /\ c \in escrowed <=> campaignStatus[c] = "approved"
=============================================================================
