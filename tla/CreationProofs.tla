--------------------------- MODULE CreationProofs --------------------------
(***************************************************************************)
(* A key creates one campaign and the limit is passed by less than the     *)
(* requests served at one time, for any number of requests, brands and     *)
(* keys and any limit.                                                     *)
(*                                                                         *)
(* OneCampaignPerKey rests on the table (OneRow) and on what requests and  *)
(* Redis may hold of it (Chosen, Own, RememberedTrue).  SoftLimit is not   *)
(* inductive: what may still be inserted counts as well (Fence).           *)
(***************************************************************************)
EXTENDS CampaignCreation, FiniteSetTheorems, TLAPS

OneRow == \A q, r \in created : SameKey(q, r) => q = r

Chosen ==
    \A r \in Requests :
        stage[r] \in {"inserted", "answered"} =>
            /\ campaign[r] \in created
            /\ campaign[r] = r \/ SameKey(campaign[r], r)

Own == \A r \in created : stage[r] \in {"inserted", "answered", "dropped"} /\ campaign[r] = r

RememberedTrue ==
    \A b \in Brands, k \in Keys :
        LET c == remembered[<<b, k>>]
        IN  c # NoCampaign => c \in created /\ SenderOf[c] = b /\ KeyOf[c] = k

\* What is unfinished or may become so without another look at the limit.
Pending(b) == Unfinished(b) \cup {r \in Requests : stage[r] = "counted" /\ SenderOf[r] = b}

Fence == \A b \in Brands : Cardinality(Pending(b)) < Limit + MaxInFlight

-----------------------------------------------------------------------------
(* Types                                                                   *)

LEMMA CreationTypeInit == CreationInit => CreationTypeOK
  BY DEF CreationInit, CreationTypeOK, Stages, InFlight

LEMMA CreationTypeStep ==
    ASSUME CreationTypeOK, [CreationNext]_creationVars
    PROVE  CreationTypeOK'
<1> USE CreationAssumption DEF CreationTypeOK
<1>1. ASSUME NEW r \in Requests, NEW to \in Stages, Go(r, to)
      PROVE  stage' \in [Requests -> Stages]
  BY <1>1 DEF Go
<1>2. ASSUME NEW r \in Requests, FindRemembered(r) PROVE CreationTypeOK'
  <2>1. <<SenderOf[r], KeyOf[r]>> \in Brands \X Keys
    BY <1>2 DEF FindRemembered
  <2>2. QED
    BY <1>1, <1>2, <2>1 DEF FindRemembered, Stages
<1>3. ASSUME NEW r \in Requests, MissRemembered(r) PROVE CreationTypeOK'
  BY <1>1, <1>3 DEF MissRemembered, Stages, InFlight
<1>4. ASSUME NEW r \in Requests, CountUnfinished(r) PROVE CreationTypeOK'
  BY <1>1, <1>4 DEF CountUnfinished, Stages, InFlight
<1>5. ASSUME NEW r \in Requests, InsertCampaign(r) PROVE CreationTypeOK'
  <2>1. stage' \in [Requests -> Stages] /\ UNCHANGED <<approved, remembered>>
    BY <1>1, <1>5 DEF InsertCampaign, Stages, InFlight
  <2>2. created \subseteq created' /\ created' \subseteq Requests
    BY <1>5 DEF InsertCampaign
  <2>3. campaign' \in [Requests -> Requests \cup {NoCampaign}]
    BY <1>5 DEF InsertCampaign
  <2>4. QED
    BY <2>1, <2>2, <2>3
<1>6. ASSUME NEW r \in Requests, Remember(r) PROVE CreationTypeOK'
  BY <1>1, <1>6 DEF Remember, Stages
<1>7. ASSUME NEW r \in Requests, DropCreation(r) PROVE CreationTypeOK'
  BY <1>1, <1>7 DEF DropCreation, Stages
<1>8. ASSUME NEW c \in Requests, LeaveUnfinished(c) PROVE CreationTypeOK'
  BY <1>8 DEF LeaveUnfinished
<1>9. ASSUME NEW b \in Brands, NEW k \in Keys, ForgetKey(b, k) PROVE CreationTypeOK'
  BY <1>9 DEF ForgetKey
<1>10. CASE UNCHANGED creationVars
  BY <1>10 DEF creationVars
<1>11. QED
  BY <1>2, <1>3, <1>4, <1>5, <1>6, <1>7, <1>8, <1>9, <1>10 DEF CreationNext

-----------------------------------------------------------------------------
(* Who holds what of the table                                             *)

TableInv == CreationTypeOK /\ OneRow /\ Chosen /\ Own /\ RememberedTrue

\* Steps that create nothing and choose no campaign.
LEMMA OthersKeepTable ==
    ASSUME TableInv, UNCHANGED <<campaign, created>>,
           NEW r \in Requests, NEW to \in Stages, Go(r, to) \/ UNCHANGED stage,
           to \in {"inserted", "answered"} => stage[r] \in {"inserted", "answered"},
           stage[r] \in {"inserted", "answered", "dropped"}
                => to \in {"inserted", "answered", "dropped"},
           \A b \in Brands, k \in Keys :
                remembered'[<<b, k>>] \in {remembered[<<b, k>>], NoCampaign}
    PROVE  OneRow' /\ Chosen' /\ Own' /\ RememberedTrue'
<1> USE DEF TableInv
<1>1. OneRow' /\ RememberedTrue'
  BY DEF OneRow, RememberedTrue, SameKey
<1>2. \A q \in Requests : stage'[q] = stage[q] \/ (q = r /\ stage'[q] = to)
  BY DEF Go, CreationTypeOK
<1>3. Chosen'
  BY <1>2 DEF Chosen, SameKey
<1>4. Own'
  BY <1>2 DEF Own, CreationTypeOK
<1>5. QED
  BY <1>1, <1>3, <1>4

LEMMA TableStep ==
    ASSUME TableInv, [CreationNext]_creationVars
    PROVE  TableInv'
<1> USE CreationAssumption DEF TableInv
<1>1. CreationTypeOK'
  BY CreationTypeStep
<1>2. ASSUME NEW r \in Requests, FindRemembered(r) PROVE TableInv'
  <2> DEFINE c == remembered[<<SenderOf[r], KeyOf[r]>>]
  <2>1. KeyOf[r] \in Keys /\ SenderOf[r] \in Brands
    BY <1>2 DEF FindRemembered
  <2>2. c \in created /\ SameKey(c, r)
    BY <1>2, <2>1 DEF FindRemembered, RememberedTrue, SameKey
  <2>3. /\ stage[r] = "new" /\ stage' = [stage EXCEPT ![r] = "answered"]
        /\ campaign' = [campaign EXCEPT ![r] = c]
        /\ UNCHANGED <<created, remembered>>
    BY <1>2 DEF FindRemembered, Go
  <2>4. r \notin created
    BY <2>3 DEF Own
  <2>5. OneRow' /\ RememberedTrue'
    BY <2>3 DEF OneRow, RememberedTrue, SameKey
  <2>6. Chosen'
    BY <2>2, <2>3 DEF Chosen, SameKey, CreationTypeOK
  <2>7. Own'
    BY <2>3, <2>4 DEF Own, CreationTypeOK
  <2>8. QED
    BY <1>1, <2>5, <2>6, <2>7
<1>3. ASSUME NEW r \in Requests, InsertCampaign(r) PROVE TableInv'
  <2>1. /\ stage[r] = "counted" /\ stage' = [stage EXCEPT ![r] = "inserted"]
        /\ UNCHANGED remembered
    BY <1>3 DEF InsertCampaign, Go
  <2>2. r \notin created
    BY <2>1 DEF Own
  <2>3. CASE /\ \A c \in created : ~SameKey(c, r)
             /\ created' = created \cup {r}
             /\ campaign' = [campaign EXCEPT ![r] = r]
    <3>1. OneRow'
      BY <2>3 DEF OneRow, SameKey
    <3>2. Chosen' /\ Own'
      BY <2>1, <2>3 DEF Chosen, Own, SameKey, CreationTypeOK
    <3>3. RememberedTrue'
      BY <2>1, <2>3 DEF RememberedTrue
    <3>4. QED
      BY <1>1, <3>1, <3>2, <3>3
  <2>4. ASSUME NEW c \in created, SameKey(c, r), campaign' = [campaign EXCEPT ![r] = c],
               UNCHANGED created
        PROVE  TableInv'
    <3>1. OneRow' /\ RememberedTrue'
      BY <2>1, <2>4 DEF OneRow, RememberedTrue, SameKey
    <3>2. Chosen'
      BY <2>1, <2>4 DEF Chosen, SameKey, CreationTypeOK
    <3>3. Own'
      BY <2>1, <2>2, <2>4 DEF Own, CreationTypeOK
    <3>4. QED
      BY <1>1, <3>1, <3>2, <3>3
  <2>5. QED
    BY <1>3, <2>3, <2>4 DEF InsertCampaign
<1>4. ASSUME NEW r \in Requests, Remember(r) PROVE TableInv'
  <2>1. /\ stage[r] = "inserted" /\ Go(r, "answered") /\ "answered" \in Stages
        /\ UNCHANGED <<campaign, created>>
    BY <1>4 DEF Remember, Stages
  <2>2. CASE UNCHANGED remembered
    BY <1>1, <2>1, <2>2, OthersKeepTable
  <2>3. CASE KeyOf[r] # NoKey /\ remembered' =
                [remembered EXCEPT ![<<SenderOf[r], KeyOf[r]>>] = campaign[r]]
    <3>1. campaign[r] \in created /\ SenderOf[campaign[r]] = SenderOf[r]
          /\ KeyOf[campaign[r]] = KeyOf[r]
      BY <2>1 DEF Chosen, SameKey
    <3>2. RememberedTrue'
      BY <2>1, <2>3, <3>1 DEF RememberedTrue, CreationTypeOK
    <3>3. OneRow' /\ Chosen' /\ Own'
      BY <2>1 DEF Go, OneRow, Chosen, Own, SameKey, CreationTypeOK
    <3>4. QED
      BY <1>1, <3>2, <3>3
  <2>4. QED
    BY <1>4, <2>2, <2>3 DEF Remember
<1>5. ASSUME NEW r \in Requests, MissRemembered(r) \/ CountUnfinished(r) \/ DropCreation(r)
      PROVE  TableInv'
  <2>1. /\ UNCHANGED <<campaign, created, remembered>> /\ stage[r] # "answered"
        /\ \/ Go(r, "missed") /\ stage[r] = "new"
           \/ Go(r, "limit") /\ stage[r] = "missed"
           \/ Go(r, "counted") /\ stage[r] = "missed"
           \/ Go(r, "dropped")
    BY <1>5 DEF MissRemembered, CountUnfinished, DropCreation, InFlight
  <2>2. {"missed", "limit", "counted", "dropped"} \subseteq Stages
    BY DEF Stages, InFlight
  <2>3. QED
    BY <1>1, <2>1, <2>2, OthersKeepTable
<1>6. ASSUME NEW r \in Requests, UNCHANGED <<stage, campaign, created>>,
             \A b \in Brands, k \in Keys :
                remembered'[<<b, k>>] \in {remembered[<<b, k>>], NoCampaign}
      PROVE  TableInv'
  BY <1>1, <1>6, OthersKeepTable DEF CreationTypeOK
<1>7. ASSUME NEW c \in Requests, LeaveUnfinished(c) PROVE TableInv'
  BY <1>6, <1>7 DEF LeaveUnfinished
<1>8. ASSUME NEW b \in Brands, NEW k \in Keys, ForgetKey(b, k) PROVE TableInv'
  <2>1. /\ UNCHANGED <<stage, campaign, created>>
        /\ \A bb \in Brands, kk \in Keys :
              remembered'[<<bb, kk>>] \in {remembered[<<bb, kk>>], NoCampaign}
    BY <1>8 DEF ForgetKey, CreationTypeOK
  <2>2. CASE Requests = {}
    BY <1>1, <2>1, <2>2 DEF CreationTypeOK, OneRow, Chosen, Own, RememberedTrue
  <2>3. QED
    BY <1>6, <2>1, <2>2
<1>9. CASE UNCHANGED creationVars
  BY <1>9 DEF creationVars, CreationTypeOK, OneRow, Chosen, Own, RememberedTrue, SameKey
<1>10. QED
  BY <1>2, <1>3, <1>4, <1>5, <1>7, <1>8, <1>9 DEF CreationNext

-----------------------------------------------------------------------------
(* The limit                                                               *)

FenceInv == CreationTypeOK /\ Own /\ Cardinality(Served) <= MaxInFlight /\ Fence

LEMMA CreationFinite ==
    ASSUME CreationTypeOK, NEW b \in Brands
    PROVE  /\ IsFiniteSet(Served) /\ Cardinality(Served) \in Nat
           /\ IsFiniteSet(Unfinished(b)) /\ Cardinality(Unfinished(b)) \in Nat
           /\ IsFiniteSet(Pending(b)) /\ Cardinality(Pending(b)) \in Nat
<1>1. Served \subseteq Requests /\ Unfinished(b) \subseteq Requests /\ Pending(b) \subseteq Requests
  BY DEF CreationTypeOK, Served, Unfinished, Pending
<1>2. QED
  BY <1>1, CreationAssumption, FS_Subset, FS_CardinalityType

\* Steps after which no more is pending and no more is served.
LEMMA FenceShrinks ==
    ASSUME FenceInv, Served' \subseteq Served, \A b \in Brands : Pending(b)' \subseteq Pending(b)
    PROVE  Cardinality(Served)' <= MaxInFlight /\ Fence'
<1> USE CreationAssumption DEF FenceInv
<1>1. ASSUME NEW b \in Brands PROVE Cardinality(Pending(b))' < Limit + MaxInFlight
  <2>1. Cardinality(Pending(b)') <= Cardinality(Pending(b)) /\ Cardinality(Pending(b)') \in Nat
    BY CreationFinite, FS_Subset, FS_CardinalityType
  <2>2. QED
    BY <2>1, CreationFinite DEF Fence
<1>2. Cardinality(Served)' <= MaxInFlight
  <2>1. CASE Brands = {}
    <3>1. Requests = {}
      BY <2>1
    <3>2. QED
      BY <3>1, FS_EmptySet DEF Served
  <2>2. CASE Brands # {}
    BY <2>2, CreationFinite, FS_Subset, FS_CardinalityType
  <2>3. QED
    BY <2>1, <2>2
<1>3. QED
  BY <1>1, <1>2 DEF Fence

\* A lookup that found nothing is one request more that is served.
LEMMA FenceMiss ==
    ASSUME FenceInv, NEW r \in Requests, MissRemembered(r)
    PROVE  Cardinality(Served)' <= MaxInFlight /\ Fence'
<1> USE CreationAssumption DEF FenceInv
<1>1. /\ stage[r] = "new" /\ stage' = [stage EXCEPT ![r] = "missed"]
      /\ UNCHANGED <<created, approved>>
  BY DEF MissRemembered, Go
<1>2. Served' = Served \cup {r} /\ r \notin Served
  BY <1>1 DEF Served, InFlight, CreationTypeOK
<1>3. ASSUME NEW b \in Brands PROVE Pending(b)' = Pending(b)
  BY <1>1 DEF Pending, Unfinished, CreationTypeOK
<1>4. SenderOf[r] \in Brands
  OBVIOUS
<1>5. IsFiniteSet(Served) /\ Cardinality(Served) \in Nat
  BY <1>4, CreationFinite
<1>6. Cardinality(Served') = Cardinality(Served) + 1
  BY <1>2, <1>5, FS_AddElement
<1>7. Cardinality(Served) < MaxInFlight
  BY DEF MissRemembered
<1>8. Cardinality(Served') <= MaxInFlight
  BY <1>5, <1>6, <1>7
<1>9. Fence'
  BY <1>3 DEF Fence
<1>10. QED
  BY <1>8, <1>9

\* A request that is let in finds room below the limit; the others that were
\* let in are served beside it.
LEMMA FenceCount ==
    ASSUME FenceInv, NEW r \in Requests, CountUnfinished(r)
    PROVE  Cardinality(Served)' <= MaxInFlight /\ Fence'
<1> USE CreationAssumption DEF FenceInv
<1> DEFINE s == SenderOf[r]
<1>1. s \in Brands /\ stage[r] = "missed" /\ UNCHANGED <<campaign, created, approved>>
  BY DEF CountUnfinished
<1>2. CASE stage' = [stage EXCEPT ![r] = "limit"]
  <2>1. Served' \subseteq Served
    BY <1>1, <1>2 DEF Served, InFlight, CreationTypeOK
  <2>2. \A b \in Brands : Pending(b)' \subseteq Pending(b)
    BY <1>1, <1>2 DEF Pending, Unfinished, CreationTypeOK
  <2>3. QED
    BY <2>1, <2>2, FenceShrinks
<1>3. CASE /\ stage' = [stage EXCEPT ![r] = "counted"]
           /\ ~(Cardinality(Unfinished(s)) >= Limit)
  <2>1. Served' = Served
    BY <1>1, <1>3 DEF Served, InFlight, CreationTypeOK
  <2>2. ASSUME NEW b \in Brands, b # s PROVE Pending(b)' = Pending(b)
    BY <1>1, <1>3, <2>2 DEF Pending, Unfinished, CreationTypeOK
  <2>3. Pending(s)' \subseteq Unfinished(s) \cup Served
    BY <1>1, <1>3 DEF Pending, Unfinished, Served, InFlight, CreationTypeOK
  <2>4. /\ IsFiniteSet(Served) /\ Cardinality(Served) \in Nat
        /\ IsFiniteSet(Unfinished(s)) /\ Cardinality(Unfinished(s)) \in Nat
    BY <1>1, CreationFinite
  <2>5. /\ IsFiniteSet(Unfinished(s) \cup Served)
        /\ Cardinality(Unfinished(s) \cup Served)
             = Cardinality(Unfinished(s)) + Cardinality(Served)
                 - Cardinality(Unfinished(s) \cap Served)
        /\ Cardinality(Unfinished(s) \cap Served) \in Nat
    BY <2>4, FS_Union, FS_Intersection, FS_CardinalityType
  <2>6. /\ Cardinality(Pending(s)') <= Cardinality(Unfinished(s) \cup Served)
        /\ Cardinality(Pending(s)') \in Nat
    BY <2>3, <2>5, FS_Subset, FS_CardinalityType
  <2>7. Cardinality(Pending(s)') < Limit + MaxInFlight
    BY <1>3, <2>4, <2>5, <2>6
  <2>8. Fence'
    BY <2>2, <2>7 DEF Fence
  <2>9. QED
    BY <2>1, <2>8
<1>4. QED
  BY <1>2, <1>3 DEF CountUnfinished, Go

LEMMA FenceStep ==
    ASSUME FenceInv, TableInv, [CreationNext]_creationVars
    PROVE  FenceInv'
<1> USE CreationAssumption DEF FenceInv
<1>1. CreationTypeOK' /\ Own'
  BY TableStep DEF TableInv
<1>2. ASSUME Served' \subseteq Served, \A b \in Brands : Pending(b)' \subseteq Pending(b)
      PROVE  FenceInv'
  BY <1>1, <1>2, FenceShrinks
<1>3. ASSUME NEW r \in Requests, MissRemembered(r) PROVE FenceInv'
  BY <1>1, <1>3, FenceMiss
<1>4. ASSUME NEW r \in Requests, CountUnfinished(r) PROVE FenceInv'
  BY <1>1, <1>4, FenceCount
<1>5. ASSUME NEW r \in Requests, InsertCampaign(r) PROVE FenceInv'
  <2>1. /\ stage[r] = "counted" /\ stage' = [stage EXCEPT ![r] = "inserted"]
        /\ created' \subseteq created \cup {r} /\ UNCHANGED approved
    BY <1>5 DEF InsertCampaign, Go
  <2>2. Served' \subseteq Served
    BY <2>1 DEF Served, InFlight, CreationTypeOK
  <2>3. \A b \in Brands : Pending(b)' \subseteq Pending(b)
    BY <2>1 DEF Pending, Unfinished, CreationTypeOK
  <2>4. QED
    BY <1>2, <2>2, <2>3
<1>6. ASSUME NEW r \in Requests, NEW to \in {"answered", "dropped"}, Go(r, to),
             UNCHANGED <<created, approved>>
      PROVE  FenceInv'
  <2>1. Served' \subseteq Served
    BY <1>6 DEF Served, InFlight, Go, CreationTypeOK
  <2>2. \A b \in Brands : Pending(b)' \subseteq Pending(b)
    BY <1>6 DEF Pending, Unfinished, Go, CreationTypeOK
  <2>3. QED
    BY <1>2, <2>1, <2>2
<1>7. ASSUME NEW r \in Requests, FindRemembered(r) \/ Remember(r) \/ DropCreation(r)
      PROVE  FenceInv'
  BY <1>6, <1>7 DEF FindRemembered, Remember, DropCreation
<1>8. ASSUME UNCHANGED <<stage, created>>, approved \subseteq approved'
      PROVE  FenceInv'
  <2>1. Served' \subseteq Served /\ \A b \in Brands : Pending(b)' \subseteq Pending(b)
    BY <1>8 DEF Served, Pending, Unfinished
  <2>2. QED
    BY <1>2, <2>1
<1>9. ASSUME NEW c \in Requests, LeaveUnfinished(c) PROVE FenceInv'
  BY <1>8, <1>9 DEF LeaveUnfinished
<1>10. ASSUME NEW b \in Brands, NEW k \in Keys, ForgetKey(b, k) PROVE FenceInv'
  BY <1>8, <1>10 DEF ForgetKey
<1>11. CASE UNCHANGED creationVars
  BY <1>8, <1>11 DEF creationVars
<1>12. QED
  BY <1>3, <1>4, <1>5, <1>7, <1>9, <1>10, <1>11 DEF CreationNext

-----------------------------------------------------------------------------
(* The theorems                                                            *)

LEMMA CreationInits == CreationInit => TableInv /\ FenceInv
<1> SUFFICES ASSUME CreationInit PROVE TableInv /\ FenceInv
  OBVIOUS
<1> USE CreationAssumption DEF CreationInit
<1>1. CreationTypeOK
  BY CreationTypeInit
<1>2. OneRow /\ Chosen /\ Own /\ RememberedTrue
  BY DEF OneRow, Chosen, Own, RememberedTrue
<1>3. Served = {} /\ \A b \in Brands : Pending(b) = {}
  BY DEF Served, InFlight, Pending, Unfinished
<1>4. Cardinality({}) = 0
  BY FS_EmptySet
<1>5. Cardinality(Served) <= MaxInFlight
  BY <1>3, <1>4
<1>6. Fence
  <2> SUFFICES ASSUME NEW b \in Brands PROVE Cardinality(Pending(b)) < Limit + MaxInFlight
    BY DEF Fence
  <2>1. Cardinality(Pending(b)) = 0
    BY <1>3, <1>4
  <2>2. QED
    BY <2>1
<1>7. QED
  BY <1>1, <1>2, <1>5, <1>6 DEF TableInv, FenceInv

LEMMA CreationInvariant == CreationSpec => [](TableInv /\ FenceInv)
<1>1. TableInv /\ FenceInv /\ [CreationNext]_creationVars => (TableInv /\ FenceInv)'
  BY TableStep, FenceStep
<1>2. QED
  BY <1>1, CreationInits, PTL DEF CreationSpec

LEMMA CampaignsTold == TableInv => OneCampaignPerKey
<1> SUFFICES ASSUME TableInv, NEW q \in Requests, NEW r \in Requests
             PROVE  /\ stage[q] = "answered" /\ stage[r] = "answered"
                         => (campaign[q] = campaign[r] <=> q = r \/ SameKey(q, r))
                    /\ q \in created /\ r \in created /\ SameKey(q, r) => q = r
  BY DEF OneCampaignPerKey
<1> USE DEF TableInv
<1>1. q \in created /\ r \in created /\ SameKey(q, r) => q = r
  BY DEF OneRow
<1>2. ASSUME stage[q] = "answered", stage[r] = "answered"
      PROVE  campaign[q] = campaign[r] <=> q = r \/ SameKey(q, r)
  <2>1. /\ campaign[q] \in created /\ (campaign[q] = q \/ SameKey(campaign[q], q))
        /\ campaign[r] \in created /\ (campaign[r] = r \/ SameKey(campaign[r], r))
    BY <1>2 DEF Chosen
  <2>2. ASSUME campaign[q] = campaign[r] PROVE q = r \/ SameKey(q, r)
    BY <2>1, <2>2 DEF SameKey
  <2>3. ASSUME SameKey(q, r) PROVE campaign[q] = campaign[r]
    <3>1. SameKey(campaign[q], campaign[r])
      BY <2>1, <2>3 DEF SameKey
    <3>2. QED
      BY <2>1, <3>1 DEF OneRow
  <2>4. QED
    BY <2>2, <2>3
<1>3. QED
  BY <1>1, <1>2

\* A brand that repeats a creation under its key gets the campaign it got,
\* and no two creations share one (createCampaign()), however the requests
\* run beside each other and whatever Redis forgets.
THEOREM OneCampaign == CreationSpec => []OneCampaignPerKey
  BY CreationInvariant, CampaignsTold, PTL

\* The limit of unfinished campaigns (assertUnderLimit()) is passed by less
\* than the requests served at one time, for any limit and any number.
THEOREM LimitHolds == CreationSpec => []SoftLimit
<1>1. FenceInv => SoftLimit
  <2> SUFFICES ASSUME FenceInv, NEW b \in Brands
               PROVE  Cardinality(Unfinished(b)) < Limit + MaxInFlight
    BY DEF SoftLimit
  <2> USE CreationAssumption DEF FenceInv
  <2>1. Unfinished(b) \subseteq Pending(b)
    BY DEF Pending
  <2>2. Cardinality(Unfinished(b)) <= Cardinality(Pending(b))
    BY <2>1, CreationFinite, FS_Subset
  <2>3. QED
    BY <2>2, CreationFinite DEF Fence
<1>2. QED
  BY <1>1, CreationInvariant, PTL
=============================================================================
