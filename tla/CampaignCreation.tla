-------------------------- MODULE CampaignCreation -------------------------
(***************************************************************************)
(* CampaignService.createCampaign(): an empty draft, created once for each *)
(* Idempotency-Key of a brand.  A request looks the key up in Redis,       *)
(* counts the brand's unfinished campaigns, inserts a row unless the       *)
(* unique index on brand and key has one, and writes its id to Redis: four *)
(* calls with other requests between them.  Redis forgets a key after a    *)
(* day, and its failures are only logged, so any lookup may miss and any   *)
(* write may be lost.                                                      *)
(*                                                                         *)
(* A request stands for itself and for the row it may insert.  A client    *)
(* that got no answer retries as another request with the same key.        *)
(***************************************************************************)
EXTENDS Integers, FiniteSets

CONSTANTS
    Requests,
    Brands,
    Keys,
    NoKey,        \* the header is absent
    SenderOf,     \* the brand that sends a request
    KeyOf,        \* its Idempotency-Key header
    NoCampaign,
    Limit,        \* MAX_UNFINISHED_CAMPAIGNS_PER_BRAND
    MaxInFlight   \* bound on the requests served at one time

ASSUME CreationAssumption ==
    /\ IsFiniteSet(Requests)
    /\ NoKey \notin Keys
    /\ NoCampaign \notin Requests
    /\ SenderOf \in [Requests -> Brands]
    /\ KeyOf \in [Requests -> Keys \cup {NoKey}]
    /\ Limit \in Nat \ {0}
    /\ MaxInFlight \in Nat \ {0}

VARIABLES
    stage,      \* where a request is
    campaign,   \* the campaign a request has found or created
    created,    \* the requests whose row is in the table
    approved,   \* the campaigns of them that are no longer unfinished
    remembered  \* the campaign Redis names for a brand and a key

creationVars == <<stage, campaign, created, approved, remembered>>

\* Between two calls; after the last one with an answer; ended without.
InFlight == {"missed", "counted", "inserted"}
Stages == {"new", "answered", "limit", "dropped"} \cup InFlight

CreationTypeOK ==
    /\ stage \in [Requests -> Stages]
    /\ campaign \in [Requests -> Requests \cup {NoCampaign}]
    /\ created \in SUBSET Requests
    /\ approved \in SUBSET created
    /\ remembered \in [Brands \X Keys -> Requests \cup {NoCampaign}]

CreationInit ==
    /\ stage = [r \in Requests |-> "new"]
    /\ campaign = [r \in Requests |-> NoCampaign]
    /\ created = {}
    /\ approved = {}
    /\ remembered = [bk \in Brands \X Keys |-> NoCampaign]

-----------------------------------------------------------------------------
Go(r, to) == stage' = [stage EXCEPT ![r] = to]

Served == {r \in Requests : stage[r] \in InFlight}

Unfinished(b) == {c \in created \ approved : SenderOf[c] = b}

\* One brand and one key: the unique index admits one row of them.
SameKey(q, r) ==
    /\ KeyOf[q] # NoKey
    /\ KeyOf[q] = KeyOf[r]
    /\ SenderOf[q] = SenderOf[r]

\* findByIdempotencyKey() names a campaign of the brand, which is the answer.
FindRemembered(r) ==
    /\ stage[r] = "new"
    /\ KeyOf[r] # NoKey
    /\ LET c == remembered[<<SenderOf[r], KeyOf[r]>>]
       IN  /\ c # NoCampaign
           /\ SenderOf[c] = SenderOf[r]
           /\ campaign' = [campaign EXCEPT ![r] = c]
    /\ Go(r, "answered")
    /\ UNCHANGED <<created, approved, remembered>>

\* No key, nothing under it, or Redis fails.
MissRemembered(r) ==
    /\ stage[r] = "new"
    /\ Cardinality(Served) < MaxInFlight
    /\ Go(r, "missed")
    /\ UNCHANGED <<campaign, created, approved, remembered>>

\* Mutant: the limit itself is still under the limit.
CountTooMany(r) ==
    /\ stage[r] = "missed"
    /\ IF Cardinality(Unfinished(SenderOf[r])) > Limit
       THEN Go(r, "limit") ELSE Go(r, "counted")
    /\ UNCHANGED <<campaign, created, approved, remembered>>

\* assertUnderLimit() counts and reserves nothing.
CountUnfinished(r) ==
    /\ stage[r] = "missed"
    /\ IF Cardinality(Unfinished(SenderOf[r])) >= Limit
       THEN Go(r, "limit") ELSE Go(r, "counted")
    /\ UNCHANGED <<campaign, created, approved, remembered>>

\* Mutant: no unique index, only the lookup before.
InsertAnyway(r) ==
    /\ stage[r] = "counted"
    /\ created' = created \cup {r}
    /\ campaign' = [campaign EXCEPT ![r] = r]
    /\ Go(r, "inserted")
    /\ UNCHANGED <<approved, remembered>>

\* insertWithUniqueCode(): INSERT ... ON CONFLICT DO NOTHING, and the row of
\* the other request when it did nothing.
InsertCampaign(r) ==
    /\ stage[r] = "counted"
    /\ \/ /\ \A c \in created : ~SameKey(c, r)
          /\ created' = created \cup {r}
          /\ campaign' = [campaign EXCEPT ![r] = r]
       \/ \E c \in created :
            /\ SameKey(c, r)
            /\ campaign' = [campaign EXCEPT ![r] = c]
            /\ UNCHANGED created
    /\ Go(r, "inserted")
    /\ UNCHANGED <<approved, remembered>>

\* rememberIdempotencyKey(), whose failure is only logged, and the answer.
Remember(r) ==
    /\ stage[r] = "inserted"
    /\ \/ /\ KeyOf[r] # NoKey
          /\ remembered' = [remembered EXCEPT ![<<SenderOf[r], KeyOf[r]>>] = campaign[r]]
       \/ UNCHANGED remembered
    /\ Go(r, "answered")
    /\ UNCHANGED <<campaign, created, approved>>

\* The process dies, a statement fails, or no free code is found in five
\* attempts: the client gets no campaign, whatever was inserted.
DropCreation(r) ==
    /\ stage[r] \in InFlight
    /\ Go(r, "dropped")
    /\ UNCHANGED <<campaign, created, approved, remembered>>

\* A key of Redis expires or is evicted.
ForgetKey(b, k) ==
    /\ remembered[<<b, k>>] # NoCampaign
    /\ remembered' = [remembered EXCEPT ![<<b, k>>] = NoCampaign]
    /\ UNCHANGED <<stage, campaign, created, approved>>

\* Approval is the only way out of UNFINISHED_CAMPAIGN_STATUSES; see Campaign.
LeaveUnfinished(c) ==
    /\ c \in created \ approved
    /\ approved' = approved \cup {c}
    /\ UNCHANGED <<stage, campaign, created, remembered>>

CreationNext ==
    \/ \E r \in Requests :
        \/ FindRemembered(r) \/ MissRemembered(r) \/ CountUnfinished(r)
        \/ InsertCampaign(r) \/ Remember(r) \/ DropCreation(r)
        \/ LeaveUnfinished(r)
    \/ \E b \in Brands, k \in Keys : ForgetKey(b, k)

CreationSpec == CreationInit /\ [][CreationNext]_creationVars

-----------------------------------------------------------------------------
(* Properties                                                              *)

\* Two requests are answered with one campaign exactly when they carry one
\* key of one brand, whether they ran beside each other, one after an answer
\* that was lost, or Redis had forgotten; and no second row is left behind.
OneCampaignPerKey ==
    \A q, r \in Requests :
        /\ stage[q] = "answered" /\ stage[r] = "answered"
             => (campaign[q] = campaign[r] <=> q = r \/ SameKey(q, r))
        /\ q \in created /\ r \in created /\ SameKey(q, r) => q = r

\* assertUnderLimit() calls itself a soft fence: requests beside each other
\* pass it by a few campaigns, and then it holds.  The few are one less than
\* the requests served at one time.
SoftLimit ==
    \A b \in Brands : Cardinality(Unfinished(b)) < Limit + MaxInFlight
=============================================================================
