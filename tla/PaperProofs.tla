----------------------------- MODULE PaperProofs ----------------------------
(***************************************************************************)
(* What a document of a KYC submission names is in the bucket, for any     *)
(* number of submissions, documents, keys and failures, and one worker, as *)
(* deployed.                                                               *)
(*                                                                         *)
(* DocumentsAreStored is not inductive.  It rests on where a key may turn  *)
(* up.  A key and its twin under verified/ belong to one document of one   *)
(* submission (OnePlace): whoever has read the key, an upload that will    *)
(* replace it or a promotion that will move it, writes there and nowhere   *)
(* else, and nobody knows a key that no row has named yet                  *)
(* (UnsavedIsNowhere).  So what is marked as garbage is not named by       *)
(* another document, and a promotion never marks a twin that a document    *)
(* already names (NotTwice).  The one worker does not sweep while it       *)
(* promotes (OneJob), so a key that is linked is in nobody's hands.        *)
(***************************************************************************)
EXTENDS KycPapers, StorageProofs

OneWorker == \A v, w \in Workers : v = w

Active == {"putting", "looking", "saving"}
Done == [NoUpload EXCEPT !.phase = "over"]
Uploading ==
    [phase : Active, of : Submissions, document : Documents, old : Keys \cup {NoKey}]
Carrying ==
    [into : Submissions, from : [Documents -> Keys \cup {NoKey}],
     copy : [Documents -> Fresh \cup {NoKey}]]
Promoting ==
    [of : Submissions, todo : (SUBSET (Documents \X Fresh)) \ {{}},
     phase : {"marking", "copying", "saving"}]
DocTables == [Submissions -> [Documents -> Keys \cup {NoKey}]]

PaperTypes ==
    /\ StorageTypeOK
    /\ doc \in DocTables
    /\ upload \in [Fresh -> {NoUpload, Done} \cup Uploading]
    /\ carry \in {NoCarry} \cup Carrying
    /\ used \in SUBSET Fresh
    /\ jobs \in SUBSET Submissions
    /\ promote \in [Workers -> {NoPromotion} \cup Promoting]

\* The key an object was uploaded or copied under, for itself and its twin.
Base(k) == IF k \in Fresh THEN k ELSE CHOOSE f \in Fresh : VerifiedKey[f] = k

\* Something knows the key as that of document d of submission s.
Names(k, s, d) ==
    \/ doc[s][d] = k
    \/ \E u \in Fresh : upload[u].old = k /\ upload[u].of = s /\ upload[u].document = d
    \/ \E w \in Workers : promote[w].of = s /\ <<d, k>> \in promote[w].todo

Copied == {carry.copy[d] : d \in Documents} \ {NoKey}

Unknown(f) == ledger[f] = NoRow /\ \A w \in Workers : f \notin InHand(w)

OneJob == \A w \in Workers : promote[w] # NoPromotion => sweep[w] = NoSweep

NewIsUnknown == \A f \in Fresh \ used : upload[f] = NoUpload /\ Unknown(f)

CopiesAreNew ==
    /\ \A f \in Copied : f \in used /\ upload[f] = NoUpload /\ Unknown(f) /\ f \in stored
    /\ \A d, e \in Documents : carry.copy[d] = carry.copy[e] /\ carry.copy[d] # NoKey => d = e

UploadingIsPending ==
    \A f \in Fresh : upload[f].phase \in Active =>
        /\ f \in used
        /\ ledger[f].state = "pending" /\ ~ledger[f].old
        /\ upload[f].phase # "putting" => f \in stored

Unsaved(f) == f \notin used \/ upload[f].phase \in Active \/ f \in Copied

UnsavedIsNowhere ==
    \A k \in Keys, s \in Submissions, d \in Documents : Names(k, s, d) => ~Unsaved(Base(k))

OnePlace ==
    \A k, l \in Keys, s, t \in Submissions, d, e \in Documents :
        Names(k, s, d) /\ Names(l, t, e) /\ Base(k) = Base(l) => s = t /\ d = e

NotTwice ==
    \A w \in Workers, d \in Documents, f \in Fresh : <<d, f>> \in promote[w].todo =>
        \A t \in Submissions, e \in Documents : doc[t][e] # VerifiedKey[f]

PromotedIsStored ==
    \A w \in Workers : promote[w].phase = "saving" => VerifiedKey[Current(w)[2]] \in stored

PaperInv ==
    /\ PaperTypes
    /\ ClaimedIsGone
    /\ OneJob
    /\ NewIsUnknown
    /\ CopiesAreNew
    /\ UploadingIsPending
    /\ UnsavedIsNowhere
    /\ OnePlace
    /\ NotTwice
    /\ PromotedIsStored
    /\ DocumentsAreStored

-----------------------------------------------------------------------------
(* Keys and what is known of a record in hand                              *)

LEMMA BaseFresh == ASSUME NEW f \in Fresh PROVE Base(f) = f /\ f \in Keys
  BY PaperAssumption DEF Base

LEMMA BaseVerified ==
    ASSUME NEW f \in Fresh
    PROVE  /\ VerifiedKey[f] \in Keys /\ VerifiedKey[f] \notin Fresh
           /\ Base(VerifiedKey[f]) = f
<1>1. VerifiedKey[f] \in Keys \ Fresh
  BY PaperAssumption
<1>2. \A g \in Fresh : VerifiedKey[g] = VerifiedKey[f] => g = f
  BY PaperAssumption
<1>3. (CHOOSE g \in Fresh : VerifiedKey[g] = VerifiedKey[f]) = f
  BY <1>2
<1> QED  BY <1>1, <1>3 DEF Base

LEMMA NoKeyIsNone == NoKey \notin Keys /\ NoKey \notin Fresh
  BY PaperAssumption

LEMMA UploadFields ==
    ASSUME PaperTypes, NEW k \in Fresh, upload[k].phase \in Active \/ upload[k].old # NoKey
    PROVE  /\ upload[k] \in Uploading
           /\ upload[k].phase \in Active
           /\ upload[k].of \in Submissions /\ upload[k].document \in Documents
           /\ upload[k].old \in Keys \cup {NoKey}
<1>1. upload[k] \in {NoUpload, Done} \cup Uploading
  BY DEF PaperTypes
<1>2. upload[k] # NoUpload /\ upload[k] # Done
  BY DEF NoUpload, Done, Active
<1> QED  BY <1>1, <1>2 DEF Uploading

LEMMA PromotionFields ==
    ASSUME PaperTypes, NEW w \in Workers, promote[w] # NoPromotion
    PROVE  /\ promote[w] \in Promoting
           /\ promote[w].of \in Submissions
           /\ promote[w].todo \in SUBSET (Documents \X Fresh)
           /\ Current(w) \in promote[w].todo
           /\ Current(w)[1] \in Documents /\ Current(w)[2] \in Fresh
           /\ Current(w) = <<Current(w)[1], Current(w)[2]>>
<1>1. promote[w] \in Promoting
  BY DEF PaperTypes
<1>2. /\ promote[w].of \in Submissions
      /\ promote[w].todo \in SUBSET (Documents \X Fresh) /\ promote[w].todo # {}
  BY <1>1 DEF Promoting
<1>3. Current(w) \in promote[w].todo
  BY <1>2 DEF Current
<1> QED  BY <1>1, <1>2, <1>3

LEMMA PromotingPhase ==
    ASSUME NEW w \in Workers, promote[w].phase # "none" \/ promote[w].todo # {}
    PROVE  promote[w] # NoPromotion
  BY DEF NoPromotion

LEMMA CarryFields ==
    ASSUME PaperTypes
    PROVE  /\ carry.copy \in [Documents -> Fresh \cup {NoKey}]
           /\ carry.from \in [Documents -> Keys \cup {NoKey}]
           /\ Copied \in SUBSET Fresh
           /\ carry.into # 0 => carry \in Carrying /\ carry.into \in Submissions
<1>1. carry = NoCarry \/ carry \in Carrying
  BY DEF PaperTypes
<1>2. CASE carry = NoCarry
  BY <1>2 DEF NoCarry, Copied
<1>3. CASE carry \in Carrying
  BY <1>3 DEF Carrying, Copied
<1> QED  BY <1>1, <1>2, <1>3

LEMMA HandIsKeys ==
    ASSUME StorageTypeOK, NEW w \in Workers
    PROVE  InHand(w) \subseteq Keys
  BY DEF StorageTypeOK, InHand

\* Generated keys are new.
LEMMA GeneratedIsNew ==
    ASSUME NEW k, Generated(k), used \in SUBSET Fresh
    PROVE  k \in Fresh /\ k \notin used
<1>1. \E new \in Fresh \ used : TRUE
  BY DEF Generated
<1> QED  BY <1>1 DEF Generated

-----------------------------------------------------------------------------
(* Types                                                                   *)

LEMMA PaperTypeInit == PaperInit => PaperTypes
<1> SUFFICES ASSUME PaperInit PROVE PaperTypes
  OBVIOUS
<1>1. StorageTypeOK
  BY StorageAssumption, NoRowType DEF PaperInit, StorageInit, StorageTypeOK, NoSweep
<1>2. doc \in DocTables
  BY DEF PaperInit, DocTables
<1>3. upload \in [Fresh -> {NoUpload, Done} \cup Uploading]
  BY DEF PaperInit
<1>4. promote \in [Workers -> {NoPromotion} \cup Promoting]
  BY DEF PaperInit
<1>5. carry = NoCarry /\ used = {} /\ jobs = {}
  BY DEF PaperInit
<1> QED  BY <1>1, <1>2, <1>3, <1>4, <1>5 DEF PaperTypes

\* An upload that ends, and one that goes on.
LEMMA OverType ==
    ASSUME PaperTypes, NEW k \in Fresh, Over(k)
    PROVE  upload' \in [Fresh -> {NoUpload, Done} \cup Uploading]
  BY DEF Over, Done, PaperTypes

\* A step that writes to the storage of the ledger only.
LEMMA MarkedStorage ==
    ASSUME StorageTypeOK, NEW k \in Keys, NEW state \in {"pending", "linked", "garbage"},
           ledger' = Marked(ledger, k, state), stored' \in SUBSET Keys,
           sweep' = sweep, failures' = failures
    PROVE  StorageTypeOK'
  BY MarkedType DEF StorageTypeOK

LEMMA SameStorage ==
    ASSUME StorageTypeOK, UNCHANGED <<ledger, sweep>>, stored' \in SUBSET Keys,
           failures' = failures \/ Fails
    PROVE  StorageTypeOK'
  BY StorageAssumption DEF StorageTypeOK, Fails

LEMMA CarryTypes ==
    ASSUME PaperTypes,
           \/ \E s \in Submissions : BeginCarry(s)
           \/ \E d \in Documents, k \in Fresh : CopyObject(d, k)
           \/ CommitCarry
           \/ RollBackCarry
    PROVE  PaperTypes'
<1>0. /\ StorageTypeOK /\ doc \in DocTables /\ used \in SUBSET Fresh
      /\ stored \in SUBSET Keys /\ ledger \in [Keys -> LedgerRows]
  BY DEF PaperTypes, StorageTypeOK
<1>1. ASSUME NEW s \in Submissions, BeginCarry(s) PROVE PaperTypes'
  <2>1. carry' = [into |-> s + 1, from |-> doc[s], copy |-> NoCarry.copy] /\ s + 1 \in Submissions
    BY <1>1 DEF BeginCarry
  <2>2. doc[s] \in [Documents -> Keys \cup {NoKey}]
    BY <1>0 DEF DocTables
  <2>3. NoCarry.copy \in [Documents -> Fresh \cup {NoKey}]
    BY DEF NoCarry
  <2>4. carry' \in Carrying
    BY <2>1, <2>2, <2>3 DEF Carrying
  <2>5. StorageTypeOK'
    BY <1>0, <1>1, SameStorage DEF BeginCarry, storageVars
  <2> QED  BY <1>1, <2>4, <2>5 DEF PaperTypes, BeginCarry
<1>2. ASSUME NEW d \in Documents, NEW k \in Fresh, CopyObject(d, k) PROVE PaperTypes'
  <2>1. carry # NoCarry
    <3>1. carry.from[d] # NoKey
      BY <1>0, <1>2, NoKeyIsNone DEF CopyObject
    <3> QED  BY <3>1 DEF NoCarry
  <2>2. carry \in Carrying
    BY <2>1 DEF PaperTypes
  <2>3. carry' \in Carrying
    BY <1>2, <2>2 DEF CopyObject, Carrying
  <2>4. stored' \in SUBSET Keys /\ used' \in SUBSET Fresh
    BY <1>0, <1>2, BaseFresh DEF CopyObject
  <2>5. StorageTypeOK'
    BY <1>0, <1>2, <2>4, SameStorage DEF CopyObject
  <2> QED  BY <1>2, <2>3, <2>4, <2>5 DEF PaperTypes, CopyObject
<1>3. ASSUME CommitCarry PROVE PaperTypes'
  <2>1. carry.into \in Submissions /\ carry.copy \in [Documents -> Keys \cup {NoKey}]
    <3>1. Fresh \subseteq Keys
      BY PaperAssumption
    <3>2. carry.into \in Submissions /\ carry.copy \in [Documents -> Fresh \cup {NoKey}]
      BY <1>3, CarryFields DEF CommitCarry
    <3> QED  BY <3>1, <3>2
  <2>2. doc' \in DocTables
    BY <1>0, <1>3, <2>1 DEF CommitCarry, DocTables
  <2>3. ledger' \in [Keys -> LedgerRows]
    BY <1>0, <1>3, WrittenType, NoRowType DEF CommitCarry
  <2>4. StorageTypeOK'
    BY <1>0, <1>3, <2>3 DEF CommitCarry, StorageTypeOK
  <2> QED  BY <1>3, <2>2, <2>4 DEF PaperTypes, CommitCarry
<1>4. ASSUME RollBackCarry PROVE PaperTypes'
  <2>1. StorageTypeOK'
    BY <1>0, <1>4, SameStorage DEF RollBackCarry
  <2> QED  BY <1>4, <2>1 DEF PaperTypes, RollBackCarry
<1> QED  BY <1>1, <1>2, <1>3, <1>4

LEMMA UploadTypes ==
    ASSUME PaperTypes, NEW k \in Fresh,
           \/ \E s \in Submissions, d \in Documents : StartUpload(k, s, d)
           \/ PutObject(k) \/ FindExisting(k) \/ SaveDocument(k) \/ DropUpload(k)
    PROVE  PaperTypes'
<1> DEFINE Uploads == [Fresh -> {NoUpload, Done} \cup Uploading]
<1>0. /\ StorageTypeOK /\ doc \in DocTables /\ upload \in Uploads /\ k \in Keys
      /\ stored \in SUBSET Keys /\ ledger \in [Keys -> LedgerRows]
  BY BaseFresh DEF PaperTypes, StorageTypeOK
<1>1. ASSUME NEW s \in Submissions, NEW d \in Documents, StartUpload(k, s, d)
      PROVE  PaperTypes'
  <2>1. [phase |-> "putting", of |-> s, document |-> d, old |-> NoKey] \in Uploading
    BY DEF Uploading, Active
  <2>2. upload' \in Uploads
    BY <1>0, <1>1, <2>1 DEF StartUpload
  <2>3. StorageTypeOK'
    BY <1>0, <1>1, MarkedStorage DEF StartUpload
  <2>4. used' \in SUBSET Fresh
    BY <1>1 DEF StartUpload, PaperTypes
  <2> QED  BY <1>1, <2>2, <2>3, <2>4 DEF PaperTypes, StartUpload
<1>2. ASSUME PutObject(k) PROVE PaperTypes'
  <2>1. upload[k] \in Uploading
    BY <1>2, UploadFields DEF PutObject, Active
  <2>2. [upload[k] EXCEPT !.phase = "looking"] \in Uploading
    BY <2>1 DEF Uploading, Active
  <2>3. upload' = [upload EXCEPT ![k] = [upload[k] EXCEPT !.phase = "looking"]]
    BY <1>0, <1>2 DEF PutObject, Phase
  <2>4. upload' \in Uploads
    BY <1>0, <2>2, <2>3
  <2>5. stored' \in SUBSET Keys
    BY <1>0, <1>2 DEF PutObject
  <2>6. StorageTypeOK'
    BY <1>0, <1>2, <2>5, SameStorage DEF PutObject
  <2> QED  BY <1>2, <2>4, <2>6 DEF PaperTypes, PutObject
<1>3. ASSUME FindExisting(k) PROVE PaperTypes'
  <2> DEFINE old == doc[upload[k].of][upload[k].document]
  <2>1. /\ upload[k] \in Uploading
        /\ upload[k].of \in Submissions /\ upload[k].document \in Documents
    BY <1>3, UploadFields DEF FindExisting, Active
  <2>2. old \in Keys \cup {NoKey}
    BY <1>0, <2>1 DEF DocTables
  <2>3. [upload[k] EXCEPT !.phase = "saving", !.old = old] \in Uploading
    BY <2>1, <2>2 DEF Uploading, Active
  <2>4. upload' = [upload EXCEPT ![k] = [upload[k] EXCEPT !.phase = "saving", !.old = old]]
    BY <1>0, <1>3 DEF FindExisting
  <2>5. upload' \in Uploads
    BY <1>0, <2>3, <2>4
  <2>6. StorageTypeOK'
    BY <1>0, <1>3, SameStorage DEF FindExisting, storageVars
  <2> QED  BY <1>3, <2>5, <2>6 DEF PaperTypes, FindExisting
<1>4. ASSUME SaveDocument(k) PROVE PaperTypes'
  <2>1. /\ upload[k].of \in Submissions /\ upload[k].document \in Documents
        /\ upload[k].old \in Keys \cup {NoKey}
    BY <1>4, UploadFields DEF SaveDocument, Active
  <2>2. doc' \in DocTables
    <3>1. doc' = [doc EXCEPT ![upload[k].of] =
                    [doc[upload[k].of] EXCEPT ![upload[k].document] = k]]
      BY <1>0, <1>4, <2>1 DEF SaveDocument, DocTables
    <3>2. [doc[upload[k].of] EXCEPT ![upload[k].document] = k] \in
             [Documents -> Keys \cup {NoKey}]
      BY <1>0, <2>1 DEF DocTables
    <3> QED  BY <1>0, <2>1, <3>1, <3>2 DEF DocTables
  <2>3. Marked(ledger, k, "linked") \in [Keys -> LedgerRows]
    BY <1>0, MarkedType
  <2>4. ledger' \in [Keys -> LedgerRows]
    BY <1>4, <2>1, <2>3, MarkedType DEF SaveDocument
  <2>5. StorageTypeOK'
    BY <1>0, <1>4, <2>4 DEF SaveDocument, StorageTypeOK
  <2>6. upload' \in Uploads
    BY <1>4, OverType DEF SaveDocument
  <2> QED  BY <1>4, <2>2, <2>5, <2>6 DEF PaperTypes, SaveDocument
<1>5. ASSUME DropUpload(k) PROVE PaperTypes'
  <2>1. StorageTypeOK'
    BY <1>0, <1>5, SameStorage DEF DropUpload
  <2>2. upload' \in Uploads
    BY <1>5, OverType DEF DropUpload
  <2> QED  BY <1>5, <2>1, <2>2 DEF PaperTypes, DropUpload
<1> QED  BY <1>1, <1>2, <1>3, <1>4, <1>5

\* The job is at its next document, or over.
LEMMA PromotedType ==
    ASSUME PaperTypes, NEW w \in Workers, promote[w] # NoPromotion, Promoted(w)
    PROVE  promote' \in [Workers -> {NoPromotion} \cup Promoting]
<1> DEFINE rest == promote[w].todo \ {Current(w)}
           next == [promote[w] EXCEPT !.todo = rest, !.phase = "marking"]
<1>1. promote[w] \in Promoting
  BY PromotionFields
<1>2. rest # {} => next \in Promoting
  BY <1>1 DEF Promoting
<1>3. promote' = [promote EXCEPT ![w] = IF rest = {} THEN NoPromotion ELSE next]
  BY DEF Promoted
<1> HIDE DEF next, rest
<1> QED  BY <1>2, <1>3 DEF PaperTypes

LEMMA GoOnType ==
    ASSUME PaperTypes, NEW w \in Workers, promote[w] # NoPromotion,
           NEW phase \in {"marking", "copying", "saving"},
           promote' = [promote EXCEPT ![w].phase = phase]
    PROVE  promote' \in [Workers -> {NoPromotion} \cup Promoting]
<1>1. promote[w] \in Promoting
  BY PromotionFields
<1>2. [promote[w] EXCEPT !.phase = phase] \in Promoting
  BY <1>1 DEF Promoting
<1>3. promote' = [promote EXCEPT ![w] = [promote[w] EXCEPT !.phase = phase]]
  BY DEF PaperTypes
<1> QED  BY <1>2, <1>3 DEF PaperTypes

LEMMA PromotionTypes ==
    ASSUME PaperTypes, PromotionStep PROVE PaperTypes'
<1> DEFINE Promotions == [Workers -> {NoPromotion} \cup Promoting]
<1>0. /\ StorageTypeOK /\ doc \in DocTables /\ promote \in Promotions
      /\ stored \in SUBSET Keys /\ ledger \in [Keys -> LedgerRows]
  BY DEF PaperTypes, StorageTypeOK
<1>1. ASSUME NEW w \in Workers, TakePromotion(w) PROVE PaperTypes'
  <2>1. PICK s \in jobs :
          LET todo == {<<d, doc[s][d]>> : d \in {e \in Documents : doc[s][e] \in Fresh}}
          IN  /\ promote' = IF todo = {} THEN promote
                            ELSE [promote EXCEPT ![w] =
                                    [of |-> s, todo |-> todo, phase |-> "marking"]]
              /\ jobs' = jobs \ {s}
    BY <1>1 DEF TakePromotion
  <2> DEFINE todo == {<<d, doc[s][d]>> : d \in {e \in Documents : doc[s][e] \in Fresh}}
  <2>2. s \in Submissions /\ todo \in SUBSET (Documents \X Fresh)
    BY <2>1 DEF PaperTypes
  <2>3. promote' = IF todo = {} THEN promote
                   ELSE [promote EXCEPT ![w] = [of |-> s, todo |-> todo, phase |-> "marking"]]
    BY <2>1
  <2> HIDE DEF todo
  <2>4. todo # {} => [of |-> s, todo |-> todo, phase |-> "marking"] \in Promoting
    BY <2>2 DEF Promoting
  <2>5. promote' \in Promotions
    BY <1>0, <2>3, <2>4
  <2>6. StorageTypeOK' /\ jobs' \in SUBSET Submissions
    BY <1>0, <1>1, <2>1, SameStorage DEF TakePromotion, storageVars, PaperTypes
  <2> QED  BY <1>1, <2>5, <2>6 DEF PaperTypes, TakePromotion
<1>2. ASSUME NEW w \in Workers, promote[w] # NoPromotion, MarkVerifiedKey(w) \/ CopyDocument(w)
      PROVE  PaperTypes'
  <2>1. VerifiedKey[Current(w)[2]] \in Keys
    BY <1>2, PromotionFields, BaseVerified
  <2>2. StorageTypeOK'
    <3>1. CASE MarkVerifiedKey(w)
      BY <1>0, <2>1, <3>1, MarkedStorage DEF MarkVerifiedKey
    <3>2. CASE CopyDocument(w)
      <4>1. stored' \in SUBSET Keys
        BY <1>0, <2>1, <3>2 DEF CopyDocument
      <4> QED  BY <1>0, <3>2, <4>1, SameStorage DEF CopyDocument
    <3> QED  BY <1>2, <3>1, <3>2
  <2>3. promote' \in Promotions
    BY <1>2, GoOnType DEF MarkVerifiedKey, CopyDocument
  <2> QED  BY <1>2, <2>2, <2>3 DEF PaperTypes, MarkVerifiedKey, CopyDocument
<1>3. ASSUME NEW w \in Workers, promote[w] # NoPromotion, SavePromotion(w) PROVE PaperTypes'
  <2> DEFINE d == Current(w)[1]
             k == Current(w)[2]
             s == promote[w].of
  <2>1. d \in Documents /\ k \in Fresh /\ k \in Keys /\ s \in Submissions /\ VerifiedKey[k] \in Keys
    BY <1>3, PromotionFields, BaseVerified, BaseFresh
  <2>2. /\ doc' = [doc EXCEPT ![s][d] = VerifiedKey[k]]
        /\ ledger' = Marked(Marked(ledger, VerifiedKey[k], "linked"), k, "garbage")
        /\ Promoted(w)
        /\ UNCHANGED <<stored, sweep, failures, upload, carry, used, jobs>>
    BY <1>3 DEF SavePromotion
  <2> HIDE DEF d, k, s
  <2>3. doc' \in DocTables
    <3>1. doc' = [doc EXCEPT ![s] = [doc[s] EXCEPT ![d] = VerifiedKey[k]]]
      BY <1>0, <2>1, <2>2 DEF DocTables
    <3>2. [doc[s] EXCEPT ![d] = VerifiedKey[k]] \in [Documents -> Keys \cup {NoKey}]
      BY <1>0, <2>1 DEF DocTables
    <3> QED  BY <1>0, <2>1, <3>1, <3>2 DEF DocTables
  <2>4. Marked(ledger, VerifiedKey[k], "linked") \in [Keys -> LedgerRows]
    BY <1>0, <2>1, MarkedType
  <2>5. ledger' \in [Keys -> LedgerRows]
    BY <2>1, <2>2, <2>4, MarkedType
  <2>6. StorageTypeOK'
    BY <1>0, <2>2, <2>5 DEF StorageTypeOK
  <2>7. promote' \in Promotions
    BY <1>3, <2>2, PromotedType
  <2> QED  BY <2>2, <2>3, <2>6, <2>7 DEF PaperTypes
<1>4. ASSUME NEW w \in Workers, FailPromotion(w) PROVE PaperTypes'
  <2>1. promote[w].of \in Submissions
    BY <1>4, PromotionFields DEF FailPromotion
  <2>2. StorageTypeOK'
    BY <1>0, <1>4, SameStorage DEF FailPromotion
  <2>3. jobs' \in SUBSET Submissions
    BY <1>4, <2>1 DEF FailPromotion, PaperTypes
  <2>4. promote' \in Promotions
    BY <1>0, <1>4 DEF FailPromotion
  <2> QED  BY <1>4, <2>2, <2>3, <2>4 DEF PaperTypes, FailPromotion
<1>5. ASSUME NEW w \in Workers, Reconcile(w) PROVE PaperTypes'
  <2>1. StorageTypeOK' /\ jobs' \in SUBSET Submissions
    BY <1>0, <1>5, SameStorage DEF Reconcile, storageVars, PaperTypes
  <2> QED  BY <1>5, <2>1 DEF PaperTypes, Reconcile
<1>6. \A w \in Workers : PromotionOn(w) => promote[w] # NoPromotion
  BY PromotingPhase DEF PromotionOn, MarkVerifiedKey, CopyDocument, SavePromotion
<1> QED  BY <1>1, <1>2, <1>3, <1>4, <1>5, <1>6 DEF PromotionStep, PromotionOn

LEMMA StorageTypes == ASSUME PaperTypes, StorageStep PROVE PaperTypes'
<1>1. SweepStep \/ \E k \in Keys : GracePasses(k)
  BY DEF StorageStep, SweepStep, Ages
<1>2. StorageTypeOK'
  BY <1>1, SweepTypeStep DEF PaperTypes
<1> QED  BY <1>2 DEF PaperTypes, StorageStep, paperVars

LEMMA PaperTypeStep == ASSUME PaperTypes, [PaperNext]_vars PROVE PaperTypes'
<1>1. CASE OpenFirst \/ (\E s \in Submissions : MoveOn(s)) \/ UNCHANGED vars
  <2>1. UNCHANGED <<ledger, stored, sweep, failures, doc, upload, carry, used, promote>>
    BY <1>1 DEF OpenFirst, MoveOn, vars, storageVars, paperVars
  <2>2. jobs' \in SUBSET Submissions
    BY <1>1 DEF OpenFirst, MoveOn, vars, paperVars, PaperTypes
  <2> QED  BY <2>1, <2>2 DEF PaperTypes, StorageTypeOK
<1> QED  BY <1>1, CarryTypes, UploadTypes, PromotionTypes, StorageTypes
         DEF PaperNext, RequestStep

-----------------------------------------------------------------------------
(* Where a key turns up                                                    *)

\* A key is named where it, or its twin, was named before, or it was saved
\* just now (New), which nobody had done before.
LEMMA NamesKept ==
    ASSUME PaperTypes, UnsavedIsNowhere, OnePlace, NEW New,
           \A k \in Keys, s \in Submissions, d \in Documents : Names(k, s, d)' =>
             \/ \E l \in Keys : Names(l, s, d) /\ Base(l) = Base(k)
             \/ <<k, s, d>> \in New,
           \A k \in Keys, s \in Submissions, d \in Documents : <<k, s, d>> \in New =>
             k \in Fresh /\ Unsaved(k) /\ ~Unsaved(k)',
           \A k \in Keys, s, t \in Submissions, d, e \in Documents :
             <<k, s, d>> \in New /\ <<k, t, e>> \in New => s = t /\ d = e,
           \A f \in Fresh : Unsaved(f)' => Unsaved(f)
    PROVE  UnsavedIsNowhere' /\ OnePlace'
<1>1. \A k \in Keys : ~Unsaved(Base(k)) => Base(k) \in Fresh
  BY DEF PaperTypes, Unsaved
<1>2. ASSUME NEW k \in Keys, NEW s \in Submissions, NEW d \in Documents, Names(k, s, d)'
      PROVE  ~Unsaved(Base(k))'
  <2>1. CASE <<k, s, d>> \in New
    BY <2>1, BaseFresh
  <2>2. ASSUME NEW l \in Keys, Names(l, s, d), Base(l) = Base(k)
        PROVE  ~Unsaved(Base(k))'
    <3>1. ~Unsaved(Base(k))
      BY <2>2 DEF UnsavedIsNowhere
    <3> QED  BY <1>1, <3>1
  <2> QED  BY <1>2, <2>1, <2>2
<1>3. ASSUME NEW k \in Keys, NEW l \in Keys, NEW s \in Submissions, NEW t \in Submissions,
             NEW d \in Documents, NEW e \in Documents,
             Names(k, s, d)', Names(l, t, e)', Base(k) = Base(l)
      PROVE  s = t /\ d = e
  <2>1. CASE <<k, s, d>> \in New /\ <<l, t, e>> \in New
    <3>1. k = l
      BY <1>3, <2>1, BaseFresh
    <3> QED  BY <2>1, <3>1
  <2>2. ASSUME NEW m \in Keys, Names(m, s, d), Base(m) = Base(k), <<l, t, e>> \in New
        PROVE  FALSE
    <3>1. ~Unsaved(Base(l))
      BY <1>3, <2>2 DEF UnsavedIsNowhere
    <3> QED  BY <2>2, <3>1, BaseFresh
  <2>3. ASSUME NEW m \in Keys, Names(m, t, e), Base(m) = Base(l), <<k, s, d>> \in New
        PROVE  FALSE
    <3>1. ~Unsaved(Base(k))
      BY <1>3, <2>3 DEF UnsavedIsNowhere
    <3> QED  BY <2>3, <3>1, BaseFresh
  <2>4. ASSUME NEW m \in Keys, Names(m, s, d), Base(m) = Base(k),
               NEW n \in Keys, Names(n, t, e), Base(n) = Base(l)
        PROVE  s = t /\ d = e
    BY <1>3, <2>4 DEF OnePlace
  <2> QED  BY <1>3, <2>1, <2>2, <2>3, <2>4
<1>4. UnsavedIsNowhere'
  BY <1>2 DEF UnsavedIsNowhere
<1>5. OnePlace'
  BY <1>3 DEF OnePlace
<1> QED  BY <1>4, <1>5

\* Nothing is saved in the step.
LEMMA NothingNew ==
    ASSUME PaperTypes, UnsavedIsNowhere, OnePlace,
           \A k \in Keys, s \in Submissions, d \in Documents : Names(k, s, d)' =>
             \E l \in Keys : Names(l, s, d) /\ Base(l) = Base(k),
           \A f \in Fresh : Unsaved(f)' => Unsaved(f)
    PROVE  UnsavedIsNowhere' /\ OnePlace'
<1> DEFINE New == {}
<1>1. \A k, s, d : <<k, s, d>> \notin New
  OBVIOUS
<1> HIDE DEF New
<1> QED  BY <1>1, NamesKept

LEMMA DocIsNamed ==
    ASSUME PaperTypes, NEW s \in Submissions, NEW d \in Documents, doc[s][d] # NoKey
    PROVE  doc[s][d] \in Keys /\ Names(doc[s][d], s, d)
  BY DEF PaperTypes, DocTables, Names

-----------------------------------------------------------------------------
(* Requests                                                                *)

\* Steps that change a status, a queue, or give the copies of an opening up.
LEMMA RestKeepsPapers ==
    ASSUME PaperInv, PaperTypes',
           UNCHANGED <<ledger, stored, sweep, doc, upload, used, promote>>,
           \A d \in Documents : carry'.copy[d] \in {carry.copy[d], NoKey}
    PROVE  PaperInv'
<1>1. Copied' \subseteq Copied
  BY DEF Copied
<1>2. /\ \A w \in Workers : InHand(w)' = InHand(w)
      /\ \A f \in Fresh : Unknown(f) => Unknown(f)'
      /\ \A f \in Fresh : Unsaved(f)' => Unsaved(f)
  BY <1>1 DEF InHand, Unknown, Unsaved
<1>3. ClaimedIsGone' /\ OneJob' /\ NewIsUnknown' /\ UploadingIsPending'
  BY <1>2 DEF PaperInv, ClaimedIsGone, OneJob, NewIsUnknown, UploadingIsPending
<1>4. CopiesAreNew'
  <2>1. \A f \in Copied' : f \in used' /\ upload'[f] = NoUpload /\ Unknown(f)' /\ f \in stored'
    BY <1>1, <1>2, CarryFields DEF PaperInv, CopiesAreNew
  <2>2. \A d, e \in Documents : carry'.copy[d] = carry'.copy[e] /\ carry'.copy[d] # NoKey => d = e
    BY DEF PaperInv, CopiesAreNew
  <2> QED  BY <2>1, <2>2 DEF CopiesAreNew
<1>5. \A k \in Keys, s \in Submissions, d \in Documents : Names(k, s, d)' => Names(k, s, d)
  BY DEF Names
<1>6. UnsavedIsNowhere' /\ OnePlace'
  BY <1>2, <1>5, NothingNew DEF PaperInv
<1>7. NotTwice' /\ PromotedIsStored' /\ DocumentsAreStored'
  BY DEF PaperInv, NotTwice, PromotedIsStored, Current, DocumentsAreStored
<1> QED  BY <1>3, <1>4, <1>6, <1>7 DEF PaperInv

LEMMA CopyKeepsPapers ==
    ASSUME PaperInv, PaperTypes', NEW d \in Documents, NEW k \in Fresh, CopyObject(d, k)
    PROVE  PaperInv'
<1>1. /\ k \in Fresh /\ k \notin used
  BY GeneratedIsNew DEF CopyObject, PaperInv, PaperTypes
<1>2. /\ used' = used \cup {k} /\ stored' = stored \cup {k}
      /\ UNCHANGED <<ledger, sweep, doc, upload, promote>>
  BY DEF CopyObject
<1>3. carry'.copy[d] = k /\ \A e \in Documents \ {d} : carry'.copy[e] = carry.copy[e]
  <2>1. carry.from[d] # NoKey
    BY NoKeyIsNone DEF CopyObject, PaperInv, PaperTypes, StorageTypeOK
  <2>2. carry \in Carrying
    BY <2>1 DEF NoCarry, PaperInv, PaperTypes
  <2> QED  BY <2>2 DEF CopyObject, Carrying
<1>4. Copied' \subseteq Copied \cup {k}
  BY <1>3 DEF Copied
<1>5. /\ \A w \in Workers : InHand(w)' = InHand(w)
      /\ \A f \in Fresh : Unknown(f) => Unknown(f)'
  BY <1>2 DEF InHand, Unknown
<1>6. upload[k] = NoUpload /\ Unknown(k)
  BY <1>1 DEF PaperInv, NewIsUnknown
<1>7. k \notin Copied
  BY <1>1 DEF PaperInv, CopiesAreNew
<1>8. CopiesAreNew'
  <2>1. \A f \in Copied' : f \in used' /\ upload'[f] = NoUpload /\ Unknown(f)' /\ f \in stored'
    BY <1>2, <1>4, <1>5, <1>6, CarryFields DEF PaperInv, CopiesAreNew
  <2>2. \A e \in Documents \ {d} : carry.copy[e] # k
    BY <1>7, NoKeyIsNone DEF Copied
  <2>3. \A c, e \in Documents : carry'.copy[c] = carry'.copy[e] /\ carry'.copy[c] # NoKey => c = e
    BY <1>3, <2>2 DEF PaperInv, CopiesAreNew
  <2> QED  BY <2>1, <2>3 DEF CopiesAreNew
<1>9. ClaimedIsGone' /\ OneJob' /\ NewIsUnknown' /\ UploadingIsPending'
  BY <1>2, <1>5 DEF PaperInv, ClaimedIsGone, OneJob, NewIsUnknown, UploadingIsPending
<1>10. \A f \in Fresh : Unsaved(f)' => Unsaved(f)
  BY <1>1, <1>2, <1>4 DEF Unsaved
<1>11. \A l \in Keys, s \in Submissions, e \in Documents : Names(l, s, e)' => Names(l, s, e)
  BY <1>2 DEF Names
<1>12. UnsavedIsNowhere' /\ OnePlace'
  BY <1>10, <1>11, NothingNew DEF PaperInv
<1>13. NotTwice' /\ PromotedIsStored' /\ DocumentsAreStored'
  BY <1>2 DEF PaperInv, NotTwice, PromotedIsStored, Current, DocumentsAreStored
<1> QED  BY <1>8, <1>9, <1>12, <1>13 DEF PaperInv

LEMMA CommitKeepsPapers ==
    ASSUME PaperInv, PaperTypes', CommitCarry
    PROVE  PaperInv'
<1>1. PICK into \in Submissions, copy \in [Documents -> Fresh \cup {NoKey}] :
        into = carry.into /\ copy = carry.copy
  BY CarryFields DEF CommitCarry, PaperInv
<1>2. /\ doc' = [doc EXCEPT ![into] = copy]
      /\ ledger' = [k \in Keys |->
           IF k \in Copied THEN Written(NoRow, "linked") ELSE ledger[k]]
      /\ carry' = NoCarry
      /\ UNCHANGED <<stored, sweep, upload, used, promote>>
  BY <1>1 DEF CommitCarry, Copied
<1>3. /\ \A d \in Documents : doc'[into][d] = copy[d]
      /\ \A s \in Submissions \ {into} : doc'[s] = doc[s]
  BY <1>2 DEF PaperInv, PaperTypes, DocTables
<1>4. /\ \A k \in Keys \ Copied : ledger'[k] = ledger[k]
      /\ \A k \in Keys : k \in Copied => ledger'[k].state = "linked"
  BY <1>2 DEF Written
<1>5. Copied' = {} /\ \A d \in Documents : carry'.copy[d] = NoKey
  BY <1>2 DEF Copied, NoCarry
<1>6. \A f \in Copied : f \in used /\ upload[f] = NoUpload /\ Unknown(f) /\ f \in stored
  BY DEF PaperInv, CopiesAreNew
<1>7. \A w \in Workers : InHand(w)' = InHand(w) /\ InHand(w) \subseteq Keys
  BY <1>2, HandIsKeys DEF InHand, PaperInv, PaperTypes
<1>8. ClaimedIsGone'
  BY <1>4, <1>6, <1>7 DEF PaperInv, ClaimedIsGone, Unknown
<1>9. OneJob'
  BY <1>2 DEF PaperInv, OneJob
<1>10. NewIsUnknown'
  <2>1. \A f \in Fresh \ used : f \in Keys \ Copied
    BY <1>6, BaseFresh
  <2> QED  BY <1>2, <1>4, <1>7, <2>1 DEF PaperInv, NewIsUnknown, Unknown
<1>11. CopiesAreNew'
  BY <1>5 DEF CopiesAreNew
<1>12. \A f \in Copied : upload[f].phase \notin Active
  BY <1>6 DEF NoUpload, Active
<1>13. UploadingIsPending'
  BY <1>2, <1>4, <1>12, BaseFresh DEF PaperInv, UploadingIsPending
<1>14. UnsavedIsNowhere' /\ OnePlace'
  <2> DEFINE New == {<<copy[d], into, d>> : d \in Documents}
  <2>1. ASSUME NEW k \in Keys, NEW s \in Submissions, NEW d \in Documents, Names(k, s, d)'
        PROVE  Names(k, s, d) \/ <<k, s, d>> \in New
    BY <1>2, <1>3, <2>1 DEF Names
  <2>2. ASSUME NEW k \in Keys, NEW s \in Submissions, NEW d \in Documents, <<k, s, d>> \in New
        PROVE  k \in Fresh /\ Unsaved(k) /\ ~Unsaved(k)'
    <3>1. PICK e \in Documents : k = copy[e]
      BY <2>2
    <3>2. k \in Copied
      BY <1>1, <2>2, <3>1, NoKeyIsNone DEF Copied
    <3>3. k \in Fresh
      BY <3>2, CarryFields DEF PaperInv
    <3> QED  BY <1>2, <1>5, <1>6, <1>12, <3>2, <3>3 DEF Unsaved
  <2>3. ASSUME NEW k \in Keys, NEW s \in Submissions, NEW t \in Submissions,
               NEW d \in Documents, NEW e \in Documents,
               <<k, s, d>> \in New, <<k, t, e>> \in New
        PROVE  s = t /\ d = e
    <3>1. s = into /\ t = into /\ k = copy[d] /\ k = copy[e] /\ k # NoKey
      BY <2>3, NoKeyIsNone
    <3> QED  BY <1>1, <3>1 DEF PaperInv, CopiesAreNew
  <2>4. \A f \in Fresh : Unsaved(f)' => Unsaved(f)
    BY <1>2, <1>5 DEF Unsaved
  <2> HIDE DEF New
  <2> QED  BY <2>1, <2>2, <2>3, <2>4, NamesKept DEF PaperInv
<1>15. NotTwice'
  <2>1. \A d \in Documents, f \in Fresh : copy[d] # VerifiedKey[f]
    BY BaseVerified, NoKeyIsNone
  <2> QED  BY <1>2, <1>3, <2>1 DEF PaperInv, NotTwice
<1>16. PromotedIsStored'
  BY <1>2 DEF PaperInv, PromotedIsStored, Current
<1>17. DocumentsAreStored'
  <2>1. ASSUME NEW d \in Documents, copy[d] # NoKey
        PROVE  copy[d] \in stored' /\ ledger'[copy[d]].state = "linked"
    <3>1. copy[d] \in Copied /\ copy[d] \in Keys
      BY <1>1, <2>1, BaseFresh DEF Copied
    <3> QED  BY <1>2, <1>4, <1>6, <3>1
  <2>2. ASSUME NEW s \in Submissions, NEW d \in Documents, doc[s][d] # NoKey
        PROVE  doc[s][d] \in stored' /\ ledger'[doc[s][d]].state = "linked"
    <3>1. doc[s][d] \in Keys /\ doc[s][d] \in stored /\ ledger[doc[s][d]].state = "linked"
      BY <2>2, DocIsNamed DEF PaperInv, DocumentsAreStored
    <3>2. doc[s][d] \notin Copied
      BY <1>6, <3>1 DEF Unknown, NoRow
    <3> QED  BY <1>2, <1>4, <3>1, <3>2
  <2> QED  BY <1>3, <2>1, <2>2 DEF DocumentsAreStored
<1> QED  BY <1>8, <1>9, <1>10, <1>11, <1>13, <1>14, <1>15, <1>16, <1>17 DEF PaperInv

\* Steps of an upload that leave the documents and the rest of the ledger.
LEMMA StartKeepsPapers ==
    ASSUME PaperInv, PaperTypes', NEW k \in Fresh, NEW s \in Submissions, NEW d \in Documents,
           StartUpload(k, s, d)
    PROVE  PaperInv'
<1>1. k \notin used /\ k \in Keys
  BY GeneratedIsNew, BaseFresh DEF StartUpload, PaperInv, PaperTypes
<1>2. /\ used' = used \cup {k}
      /\ UNCHANGED <<stored, sweep, doc, carry, promote>>
  BY DEF StartUpload
<1>3. /\ upload'[k].phase = "putting" /\ upload'[k].old = NoKey
      /\ \A f \in Fresh \ {k} : upload'[f] = upload[f]
  BY DEF StartUpload, PaperInv, PaperTypes
<1>4. /\ ledger'[k].state = "pending" /\ ~ledger'[k].old
      /\ \A l \in Keys \ {k} : ledger'[l] = ledger[l]
  <2>1. ledger \in [Keys -> LedgerRows] /\ ledger' = Marked(ledger, k, "pending")
    BY DEF StartUpload, PaperInv, PaperTypes, StorageTypeOK
  <2>2. /\ ledger'[k] = Written(ledger[k], "pending")
        /\ \A l \in Keys \ {k} : ledger'[l] = ledger[l]
    BY <1>1, <2>1, MarkedType
  <2> QED  BY <2>2 DEF Written
<1>5. upload[k] = NoUpload /\ Unknown(k)
  BY <1>1 DEF PaperInv, NewIsUnknown
<1>6. k \notin Copied /\ Copied' = Copied
  BY <1>1, <1>2 DEF PaperInv, CopiesAreNew, Copied
<1>7. \A w \in Workers : InHand(w)' = InHand(w) /\ InHand(w) \subseteq Keys
  BY <1>2, HandIsKeys DEF InHand, PaperInv, PaperTypes
<1>8. ClaimedIsGone'
  BY <1>4, <1>5, <1>7 DEF PaperInv, ClaimedIsGone, Unknown
<1>9. OneJob' /\ PromotedIsStored' /\ NotTwice'
  BY <1>2 DEF PaperInv, OneJob, PromotedIsStored, Current, NotTwice
<1>10. \A f \in Fresh \ {k} : Unknown(f) => Unknown(f)'
  BY <1>4, <1>7, BaseFresh DEF Unknown
<1>11. NewIsUnknown'
  BY <1>2, <1>3, <1>10 DEF PaperInv, NewIsUnknown
<1>12. CopiesAreNew'
  <2>1. \A f \in Copied : f \in used' /\ upload'[f] = NoUpload /\ Unknown(f)' /\ f \in stored'
    BY <1>2, <1>3, <1>6, <1>10, CarryFields DEF PaperInv, CopiesAreNew
  <2> QED  BY <1>2, <1>6, <2>1 DEF PaperInv, CopiesAreNew
<1>13. UploadingIsPending'
  BY <1>2, <1>3, <1>4, BaseFresh DEF PaperInv, UploadingIsPending
<1>14. \A f \in Fresh : Unsaved(f)' => Unsaved(f)
  BY <1>1, <1>2, <1>3, <1>6 DEF Unsaved
<1>15. \A l \in Keys, t \in Submissions, e \in Documents : Names(l, t, e)' => Names(l, t, e)
  BY <1>2, <1>3, NoKeyIsNone DEF Names
<1>16. UnsavedIsNowhere' /\ OnePlace'
  BY <1>14, <1>15, NothingNew DEF PaperInv
<1>17. DocumentsAreStored'
  <2>1. ASSUME NEW t \in Submissions, NEW e \in Documents, doc[t][e] # NoKey
        PROVE  doc[t][e] \in Keys \ {k}
    BY <1>5, <2>1, DocIsNamed DEF PaperInv, DocumentsAreStored, Unknown, NoRow
  <2> QED  BY <1>2, <1>4, <2>1 DEF PaperInv, DocumentsAreStored
<1> QED  BY <1>8, <1>9, <1>11, <1>12, <1>13, <1>16, <1>17 DEF PaperInv

LEMMA GoOnKeepsPapers ==
    ASSUME PaperInv, PaperTypes', NEW k \in Fresh,
           PutObject(k) \/ FindExisting(k) \/ DropUpload(k)
    PROVE  PaperInv'
<1>1. /\ stored \subseteq stored'
      /\ UNCHANGED <<ledger, sweep, doc, carry, used, promote>>
  BY DEF PutObject, FindExisting, DropUpload, storageVars
<1>2. upload[k].phase \in Active
  BY UploadFields DEF PutObject, FindExisting, DropUpload, Active, PaperInv
<1>3. \A f \in Fresh \ {k} : upload'[f] = upload[f]
  BY DEF PutObject, FindExisting, DropUpload, Phase, Over, PaperInv, PaperTypes
<1>4. upload[k] \in Uploading
  BY <1>2, UploadFields DEF PaperInv
<1>5. \/ upload'[k] = Done
      \/ /\ upload'[k].phase \in Active
         /\ upload'[k].of = upload[k].of /\ upload'[k].document = upload[k].document
         /\ upload'[k].phase # "putting" => k \in stored'
         /\ upload'[k].old \in {upload[k].old, doc[upload[k].of][upload[k].document]}
  <2>1. CASE PutObject(k)
    <3>1. upload'[k] = [upload[k] EXCEPT !.phase = "looking"] /\ k \in stored'
      BY <2>1 DEF PutObject, Phase, PaperInv, PaperTypes
    <3> QED  BY <1>4, <3>1 DEF Uploading, Active
  <2>2. CASE FindExisting(k)
    <3>1. /\ upload'[k] = [upload[k] EXCEPT !.phase = "saving",
                                            !.old = doc[upload[k].of][upload[k].document]]
          /\ k \in stored'
      BY <1>2, <2>2 DEF FindExisting, PaperInv, PaperTypes, UploadingIsPending, storageVars
    <3> QED  BY <1>4, <3>1 DEF Uploading, Active
  <2>3. CASE DropUpload(k)
    BY <2>3 DEF DropUpload, Over, Done, PaperInv, PaperTypes
  <2> QED  BY <2>1, <2>2, <2>3
<1>6. Done.phase \notin Active /\ Done.old = NoKey
  BY DEF Done, NoUpload, Active
<1>7. k \in used /\ k \notin Copied /\ Copied' = Copied
  BY <1>1, <1>2 DEF PaperInv, UploadingIsPending, CopiesAreNew, NoUpload, Active, Copied
<1>8. /\ \A w \in Workers : InHand(w)' = InHand(w)
      /\ \A f \in Fresh : Unknown(f) => Unknown(f)'
  BY <1>1 DEF InHand, Unknown
<1>9. ClaimedIsGone' /\ OneJob' /\ NotTwice'
  BY <1>1, <1>8 DEF PaperInv, ClaimedIsGone, OneJob, NotTwice
<1>10. PromotedIsStored' /\ DocumentsAreStored'
  BY <1>1 DEF PaperInv, PromotedIsStored, Current, DocumentsAreStored
<1>11. NewIsUnknown'
  BY <1>1, <1>3, <1>7, <1>8 DEF PaperInv, NewIsUnknown
<1>12. CopiesAreNew'
  <2>1. \A f \in Copied : f \in used' /\ upload'[f] = NoUpload /\ Unknown(f)' /\ f \in stored'
    BY <1>1, <1>3, <1>7, <1>8, CarryFields DEF PaperInv, CopiesAreNew
  <2> QED  BY <1>1, <1>7, <2>1 DEF PaperInv, CopiesAreNew
<1>13. UploadingIsPending'
  BY <1>1, <1>2, <1>3, <1>5, <1>6 DEF PaperInv, UploadingIsPending
<1>14. \A f \in Fresh : Unsaved(f)' => Unsaved(f)
  BY <1>1, <1>2, <1>3, <1>7 DEF Unsaved
<1>15. ASSUME NEW l \in Keys, NEW t \in Submissions, NEW e \in Documents, Names(l, t, e)'
       PROVE  Names(l, t, e)
  <2>1. CASE upload'[k].old = l /\ upload'[k].of = t /\ upload'[k].document = e
    BY <1>5, <1>6, <2>1, NoKeyIsNone DEF Names
  <2>2. CASE ~(upload'[k].old = l /\ upload'[k].of = t /\ upload'[k].document = e)
    BY <1>1, <1>3, <1>15, <2>2 DEF Names
  <2> QED  BY <2>1, <2>2
<1>16. UnsavedIsNowhere' /\ OnePlace'
  BY <1>14, <1>15, NothingNew DEF PaperInv
<1> QED  BY <1>9, <1>10, <1>11, <1>12, <1>13, <1>16 DEF PaperInv

\* What is replaced is named by no other document, so only what nobody names
\* any more becomes garbage.
LEMMA SaveKeepsPapers ==
    ASSUME PaperInv, PaperTypes', NEW k \in Fresh, SaveDocument(k)
    PROVE  PaperInv'
<1>1. PICK s \in Submissions, d \in Documents, old \in Keys \cup {NoKey} :
        s = upload[k].of /\ d = upload[k].document /\ old = upload[k].old
  BY UploadFields DEF SaveDocument, Active, PaperInv
<1>2. /\ upload[k].phase = "saving" /\ Over(k)
      /\ doc' = [doc EXCEPT ![s][d] = k]
      /\ ledger' = IF old = NoKey THEN Marked(ledger, k, "linked")
                   ELSE Marked(Marked(ledger, k, "linked"), old, "garbage")
      /\ UNCHANGED <<stored, sweep, carry, used, promote>>
  BY <1>1 DEF SaveDocument
<1>3. /\ k \in Keys /\ k \in stored /\ k \in used /\ k \notin Copied
      /\ ledger[k].state = "pending" /\ Unsaved(k)
      /\ \A w \in Workers : k \notin InHand(w)
  <2>1. upload[k].phase \in Active
    BY <1>2 DEF Active
  <2>2. k \in used /\ k \in stored /\ ledger[k].state = "pending"
    BY <1>2, <2>1 DEF PaperInv, UploadingIsPending
  <2>3. k \notin Copied
    BY <2>1 DEF PaperInv, CopiesAreNew, NoUpload, Active
  <2> QED  BY <2>1, <2>2, <2>3, BaseFresh DEF PaperInv, ClaimedIsGone, Unsaved
<1>4. /\ doc'[s][d] = k
      /\ \A t \in Submissions, e \in Documents : t # s \/ e # d => doc'[t][e] = doc[t][e]
  BY <1>2 DEF PaperInv, PaperTypes, DocTables
<1>5. /\ upload'[k] = Done
      /\ \A f \in Fresh \ {k} : upload'[f] = upload[f]
  BY <1>2 DEF Over, Done, PaperInv, PaperTypes
<1>6. old # NoKey => old \in Keys /\ Names(old, s, d)
  BY <1>1 DEF Names
<1>7. old # k
  <2>1. \A t \in Submissions, e \in Documents : ~Names(k, t, e)
    BY <1>3, BaseFresh DEF PaperInv, UnsavedIsNowhere
  <2> QED  BY <1>3, <1>6, <2>1, NoKeyIsNone
<1>8. /\ ledger'[k].state = "linked"
      /\ old # NoKey => ledger'[old].state = "garbage"
      /\ \A l \in Keys \ {k, old} : ledger'[l] = ledger[l]
  <2> DEFINE linked == Marked(ledger, k, "linked")
  <2>1. /\ linked \in [Keys -> LedgerRows]
        /\ linked[k] = Written(ledger[k], "linked")
        /\ \A l \in Keys \ {k} : linked[l] = ledger[l]
    BY <1>3, MarkedType DEF PaperInv, PaperTypes, StorageTypeOK
  <2>2. ASSUME old # NoKey
        PROVE  /\ ledger'[old] = Written(linked[old], "garbage")
               /\ \A l \in Keys \ {old} : ledger'[l] = linked[l]
    BY <1>2, <1>6, <2>1, <2>2, MarkedType
  <2>3. old = NoKey => ledger' = linked
    BY <1>2
  <2> HIDE DEF linked
  <2> QED  BY <1>3, <1>7, <2>1, <2>2, <2>3 DEF Written
<1>9. Done.phase \notin Active /\ Done.old = NoKey
  BY DEF Done, NoUpload, Active
<1>10. Copied' = Copied /\ \A w \in Workers : InHand(w)' = InHand(w) /\ InHand(w) \subseteq Keys
  BY <1>2, HandIsKeys DEF Copied, InHand, PaperInv, PaperTypes
<1>11. \A f \in Fresh : Unsaved(f) => f # old
  BY <1>6, BaseFresh, NoKeyIsNone DEF PaperInv, UnsavedIsNowhere
<1>12. ClaimedIsGone'
  BY <1>3, <1>6, <1>8, <1>10, NoKeyIsNone DEF PaperInv, ClaimedIsGone
<1>13. OneJob' /\ PromotedIsStored'
  BY <1>2 DEF PaperInv, OneJob, PromotedIsStored, Current
<1>14. \A f \in Fresh \ {k} : Unsaved(f) => ledger'[f] = ledger[f]
  BY <1>8, <1>11, BaseFresh
<1>15. NewIsUnknown'
  <2>1. \A f \in Fresh \ used : f # k /\ Unsaved(f)
    BY <1>3 DEF Unsaved
  <2> QED  BY <1>2, <1>5, <1>10, <1>14, <2>1 DEF PaperInv, NewIsUnknown, Unknown
<1>16. CopiesAreNew'
  <2>1. \A f \in Copied : f \in Fresh \ {k} /\ Unsaved(f)
    BY <1>3, CarryFields DEF PaperInv, Unsaved
  <2>2. \A f \in Copied : f \in used' /\ upload'[f] = NoUpload /\ Unknown(f)' /\ f \in stored'
    BY <1>2, <1>5, <1>10, <1>14, <2>1 DEF PaperInv, CopiesAreNew, Unknown
  <2> QED  BY <1>2, <1>10, <2>2 DEF PaperInv, CopiesAreNew
<1>17. UploadingIsPending'
  <2>1. \A f \in Fresh : upload'[f].phase \in Active => f # k /\ upload[f].phase \in Active
    BY <1>5, <1>9
  <2>2. \A f \in Fresh : upload[f].phase \in Active => Unsaved(f)
    BY DEF Unsaved
  <2> QED  BY <1>2, <1>5, <1>14, <2>1, <2>2 DEF PaperInv, UploadingIsPending
<1>18. UnsavedIsNowhere' /\ OnePlace'
  <2> DEFINE New == {<<k, s, d>>}
  <2>1. ASSUME NEW l \in Keys, NEW t \in Submissions, NEW e \in Documents, Names(l, t, e)'
        PROVE  Names(l, t, e) \/ <<l, t, e>> \in New
    <3>1. CASE doc'[t][e] = l
      BY <1>4, <3>1 DEF Names
    <3>2. CASE doc'[t][e] # l
      BY <1>2, <1>5, <1>9, <2>1, <3>2, NoKeyIsNone DEF Names
    <3> QED  BY <3>1, <3>2
  <2>2. ~Unsaved(k)'
    BY <1>2, <1>3, <1>5, <1>9, <1>10 DEF Unsaved
  <2>3. ASSUME NEW l \in Keys, NEW t \in Submissions, NEW e \in Documents, <<l, t, e>> \in New
        PROVE  l \in Fresh /\ Unsaved(l) /\ ~Unsaved(l)'
    BY <1>3, <2>2, <2>3
  <2>4. ASSUME NEW l \in Keys, NEW t \in Submissions, NEW u \in Submissions,
               NEW e \in Documents, NEW c \in Documents,
               <<l, t, e>> \in New, <<l, u, c>> \in New
        PROVE  t = u /\ e = c
    BY <2>4
  <2>5. \A f \in Fresh : Unsaved(f)' => Unsaved(f)
    BY <1>2, <1>5, <1>9, <1>10 DEF Unsaved
  <2> HIDE DEF New
  <2> QED  BY <2>1, <2>3, <2>4, <2>5, NamesKept DEF PaperInv
<1>19. NotTwice'
  BY <1>2, <1>4, BaseVerified DEF PaperInv, NotTwice
<1>20. DocumentsAreStored'
  <2>1. ASSUME NEW t \in Submissions, NEW e \in Documents, t # s \/ e # d, doc[t][e] # NoKey
        PROVE  doc[t][e] \in Keys \ {k, old}
    <3>1. doc[t][e] \in Keys /\ Names(doc[t][e], t, e) /\ doc[t][e] # k
      BY <1>3, <2>1, DocIsNamed DEF PaperInv, DocumentsAreStored
    <3>2. doc[t][e] # old
      BY <1>6, <2>1, <3>1, NoKeyIsNone DEF PaperInv, OnePlace
    <3> QED  BY <3>1, <3>2
  <2>2. ASSUME NEW t \in Submissions, NEW e \in Documents, doc'[t][e] # NoKey
        PROVE  doc'[t][e] \in stored' /\ ledger'[doc'[t][e]].state = "linked"
    <3>1. CASE t = s /\ e = d
      BY <1>2, <1>3, <1>4, <1>8, <3>1
    <3>2. CASE t # s \/ e # d
      BY <1>2, <1>4, <1>8, <2>1, <2>2, <3>2 DEF PaperInv, DocumentsAreStored
    <3> QED  BY <3>1, <3>2
  <2> QED  BY <2>2 DEF DocumentsAreStored
<1> QED  BY <1>12, <1>13, <1>15, <1>16, <1>17, <1>18, <1>19, <1>20 DEF PaperInv

-----------------------------------------------------------------------------
(* The worker                                                              *)

\* While the one worker promotes, nothing is in anybody's hands.
LEMMA PromotionAlone ==
    ASSUME OneWorker, PaperInv, NEW w \in Workers, promote[w] # NoPromotion
    PROVE  \A v \in Workers : v = w /\ sweep[v] = NoSweep /\ InHand(v) = {}
<1>1. \A v \in Workers : v = w /\ sweep[v] = NoSweep
  BY DEF OneWorker, PaperInv, OneJob
<1> QED  BY <1>1 DEF InHand, NoSweep

LEMMA TakeKeepsPapers ==
    ASSUME PaperInv, PaperTypes', NEW w \in Workers, TakePromotion(w)
    PROVE  PaperInv'
<1>1. PICK s \in jobs :
        LET todo == {<<d, doc[s][d]>> : d \in {e \in Documents : doc[s][e] \in Fresh}}
        IN  promote' = IF todo = {} THEN promote
                       ELSE [promote EXCEPT ![w] =
                              [of |-> s, todo |-> todo, phase |-> "marking"]]
  BY DEF TakePromotion
<1> DEFINE todo == {<<d, doc[s][d]>> : d \in {e \in Documents : doc[s][e] \in Fresh}}
<1>2. /\ s \in Submissions
      /\ \A d, f : <<d, f>> \in todo => d \in Documents /\ f \in Fresh /\ f = doc[s][d]
  BY DEF PaperInv, PaperTypes
<1>3. promote' = IF todo = {} THEN promote
                 ELSE [promote EXCEPT ![w] = [of |-> s, todo |-> todo, phase |-> "marking"]]
  BY <1>1
<1>4. /\ sweep[w] = NoSweep
      /\ UNCHANGED <<ledger, stored, sweep, doc, upload, carry, used>>
  BY DEF TakePromotion, Free, storageVars
<1> HIDE DEF todo
<1>5. CASE promote' = promote
  <2>1. \A d \in Documents : carry'.copy[d] \in {carry.copy[d], NoKey}
    BY <1>4
  <2> QED  BY <1>4, <1>5, <2>1, RestKeepsPapers
<1>6. CASE promote' = [promote EXCEPT ![w] = [of |-> s, todo |-> todo, phase |-> "marking"]]
  <2>1. /\ promote'[w].of = s /\ promote'[w].todo = todo /\ promote'[w].phase = "marking"
        /\ \A v \in Workers \ {w} : promote'[v] = promote[v]
    BY <1>6 DEF PaperInv, PaperTypes
  <2>2. /\ \A v \in Workers : InHand(v)' = InHand(v)
        /\ \A f \in Fresh : Unknown(f) => Unknown(f)'
        /\ \A f \in Fresh : Unsaved(f)' => Unsaved(f)
        /\ Copied' = Copied
    BY <1>4 DEF InHand, Unknown, Unsaved, Copied
  <2>3. ClaimedIsGone' /\ NewIsUnknown' /\ UploadingIsPending' /\ DocumentsAreStored'
    BY <1>4, <2>2
    DEF PaperInv, ClaimedIsGone, NewIsUnknown, UploadingIsPending, DocumentsAreStored
  <2>4. CopiesAreNew'
    <3>1. \A f \in Copied : f \in used' /\ upload'[f] = NoUpload /\ Unknown(f)' /\ f \in stored'
      BY <1>4, <2>2, CarryFields DEF PaperInv, CopiesAreNew
    <3> QED  BY <1>4, <2>2, <3>1 DEF PaperInv, CopiesAreNew
  <2>5. OneJob'
    BY <1>4, <2>1 DEF PaperInv, OneJob
  <2>6. ASSUME NEW k \in Keys, NEW t \in Submissions, NEW d \in Documents, Names(k, t, d)'
        PROVE  Names(k, t, d)
    <3>1. CASE promote'[w].of = t /\ <<d, k>> \in promote'[w].todo
      BY <1>2, <2>1, <3>1 DEF Names
    <3>2. CASE ~(promote'[w].of = t /\ <<d, k>> \in promote'[w].todo)
      BY <1>4, <2>1, <2>6, <3>2 DEF Names
    <3> QED  BY <3>1, <3>2
  <2>7. UnsavedIsNowhere' /\ OnePlace'
    BY <2>2, <2>6, NothingNew DEF PaperInv
  <2>8. NotTwice'
    <3>1. ASSUME NEW d \in Documents, NEW f \in Fresh, <<d, f>> \in todo,
                 NEW t \in Submissions, NEW e \in Documents, doc[t][e] = VerifiedKey[f]
          PROVE  FALSE
      <4>1. Names(f, s, d) /\ doc[s][d] = f
        BY <1>2, <3>1 DEF Names
      <4>2. Names(VerifiedKey[f], t, e)
        BY <3>1 DEF Names
      <4>3. t = s /\ e = d
        BY <1>2, <4>1, <4>2, BaseFresh, BaseVerified DEF PaperInv, OnePlace
      <4> QED  BY <3>1, <4>1, <4>3, BaseVerified
    <3> QED  BY <1>4, <2>1, <3>1 DEF PaperInv, NotTwice
  <2>9. PromotedIsStored'
    <3> SUFFICES ASSUME NEW v \in Workers, promote'[v].phase = "saving"
                 PROVE  VerifiedKey[Current(v)[2]]' \in stored'
      BY DEF PromotedIsStored
    <3>1. v # w
      BY <2>1
    <3>2. promote'[v] = promote[v]
      BY <2>1, <3>1
    <3> QED  BY <1>4, <3>2 DEF PaperInv, PromotedIsStored, Current
  <2> QED  BY <2>3, <2>4, <2>5, <2>7, <2>8, <2>9 DEF PaperInv
<1> QED  BY <1>3, <1>5, <1>6

LEMMA FailKeepsPapers ==
    ASSUME PaperInv, PaperTypes', NEW w \in Workers, FailPromotion(w)
    PROVE  PaperInv'
<1>1. /\ promote'[w] = NoPromotion
      /\ \A v \in Workers \ {w} : promote'[v] = promote[v]
      /\ UNCHANGED <<ledger, stored, sweep, doc, upload, carry, used>>
  BY DEF FailPromotion, PaperInv, PaperTypes
<1>2. NoPromotion.todo = {} /\ NoPromotion.phase # "saving"
  BY DEF NoPromotion
<1>3. /\ \A v \in Workers : InHand(v)' = InHand(v)
      /\ \A f \in Fresh : Unknown(f) => Unknown(f)'
      /\ \A f \in Fresh : Unsaved(f)' => Unsaved(f)
      /\ Copied' = Copied
  BY <1>1 DEF InHand, Unknown, Unsaved, Copied
<1>4. ClaimedIsGone' /\ NewIsUnknown' /\ UploadingIsPending' /\ DocumentsAreStored'
  BY <1>1, <1>3
  DEF PaperInv, ClaimedIsGone, NewIsUnknown, UploadingIsPending, DocumentsAreStored
<1>5. CopiesAreNew'
  <2>1. \A f \in Copied : f \in used' /\ upload'[f] = NoUpload /\ Unknown(f)' /\ f \in stored'
    BY <1>1, <1>3, CarryFields DEF PaperInv, CopiesAreNew
  <2> QED  BY <1>1, <1>3, <2>1 DEF PaperInv, CopiesAreNew
<1>6. OneJob' /\ NotTwice'
  BY <1>1, <1>2 DEF PaperInv, OneJob, NotTwice
<1>7. \A k \in Keys, t \in Submissions, d \in Documents : Names(k, t, d)' => Names(k, t, d)
  BY <1>1, <1>2 DEF Names
<1>8. UnsavedIsNowhere' /\ OnePlace'
  BY <1>3, <1>7, NothingNew DEF PaperInv
<1>9. PromotedIsStored'
  <2> SUFFICES ASSUME NEW v \in Workers, promote'[v].phase = "saving"
               PROVE  VerifiedKey[Current(v)[2]]' \in stored'
    BY DEF PromotedIsStored
  <2>1. promote'[v] = promote[v]
    BY <1>1, <1>2
  <2> QED  BY <1>1, <2>1 DEF PaperInv, PromotedIsStored, Current
<1> QED  BY <1>4, <1>5, <1>6, <1>8, <1>9 DEF PaperInv

\* The twin is marked and written; the document does not name it yet.
LEMMA TwinKeepsPapers ==
    ASSUME OneWorker, PaperInv, PaperTypes', NEW w \in Workers,
           MarkVerifiedKey(w) \/ CopyDocument(w)
    PROVE  PaperInv'
<1>1. promote[w] # NoPromotion
  BY PromotingPhase DEF MarkVerifiedKey, CopyDocument
<1>2. PICK d \in Documents, k \in Fresh :
        Current(w) = <<d, k>> /\ <<d, k>> \in promote[w].todo
  BY <1>1, PromotionFields DEF PaperInv
<1>3. Current(w)[2] = k /\ VerifiedKey[k] \in Keys /\ VerifiedKey[k] \notin Fresh
  BY <1>2, BaseVerified
<1>4. /\ stored \subseteq stored'
      /\ UNCHANGED <<sweep, doc, upload, carry, used>>
  BY DEF MarkVerifiedKey, CopyDocument
<1>5. /\ \A l \in Keys \ {VerifiedKey[k]} : ledger'[l] = ledger[l]
  <2>1. CASE MarkVerifiedKey(w)
    <3>1. ledger' = Marked(ledger, VerifiedKey[k], "pending") /\ ledger \in [Keys -> LedgerRows]
      BY <1>3, <2>1 DEF MarkVerifiedKey, PaperInv, PaperTypes, StorageTypeOK
    <3> QED  BY <1>3, <3>1, MarkedType
  <2>2. CASE CopyDocument(w)
    BY <2>2 DEF CopyDocument
  <2> QED  BY <2>1, <2>2
<1>6. PICK phase :
        /\ promote' = [promote EXCEPT ![w].phase = phase]
        /\ phase = "saving" => VerifiedKey[k] \in stored'
  BY <1>3 DEF MarkVerifiedKey, CopyDocument
<1>7. /\ promote'[w].of = promote[w].of /\ promote'[w].todo = promote[w].todo
      /\ promote'[w].phase = phase
      /\ \A v \in Workers : v = w
  <2>1. promote[w] \in Promoting
    BY <1>1, PromotionFields DEF PaperInv
  <2>2. promote'[w] = [promote[w] EXCEPT !.phase = phase]
    BY <1>6 DEF PaperInv, PaperTypes
  <2> QED  BY <2>1, <2>2 DEF Promoting, OneWorker
<1>8. /\ \A v \in Workers : InHand(v)' = {} /\ InHand(v) = {} /\ sweep'[v] = NoSweep
      /\ Copied' = Copied
      /\ \A f \in Fresh : Unsaved(f)' => Unsaved(f)
  BY <1>1, <1>4, PromotionAlone DEF InHand, NoSweep, Copied, Unsaved
<1>9. \A f \in Fresh : ledger'[f] = ledger[f]
  BY <1>3, <1>5, BaseFresh
<1>10. \A f \in Fresh : Unknown(f) => Unknown(f)'
  BY <1>8, <1>9 DEF Unknown
<1>11. ClaimedIsGone' /\ OneJob'
  BY <1>8 DEF ClaimedIsGone, OneJob
<1>12. NewIsUnknown' /\ UploadingIsPending'
  BY <1>4, <1>9, <1>10 DEF PaperInv, NewIsUnknown, UploadingIsPending
<1>13. CopiesAreNew'
  <2>1. \A f \in Copied : f \in used' /\ upload'[f] = NoUpload /\ Unknown(f)' /\ f \in stored'
    BY <1>4, <1>10, CarryFields DEF PaperInv, CopiesAreNew
  <2> QED  BY <1>4, <1>8, <2>1 DEF PaperInv, CopiesAreNew
<1>14. \A l \in Keys, t \in Submissions, e \in Documents : Names(l, t, e)' => Names(l, t, e)
  BY <1>4, <1>7 DEF Names
<1>15. UnsavedIsNowhere' /\ OnePlace'
  BY <1>8, <1>14, NothingNew DEF PaperInv
<1>16. NotTwice'
  BY <1>4, <1>7 DEF PaperInv, NotTwice
<1>17. PromotedIsStored'
  <2>1. Current(w)' = Current(w)
    BY <1>7 DEF Current
  <2> SUFFICES ASSUME NEW v \in Workers, promote'[v].phase = "saving"
               PROVE  VerifiedKey[Current(v)[2]]' \in stored'
    BY DEF PromotedIsStored
  <2>2. v = w
    BY <1>7
  <2> QED  BY <1>3, <1>6, <1>7, <2>1, <2>2
<1>18. DocumentsAreStored'
  <2>1. \A t \in Submissions, e \in Documents : doc[t][e] # VerifiedKey[k]
    BY <1>2 DEF PaperInv, NotTwice
  <2>2. ASSUME NEW t \in Submissions, NEW e \in Documents, doc[t][e] # NoKey
        PROVE  doc[t][e] \in stored' /\ ledger'[doc[t][e]].state = "linked"
    <3>1. doc[t][e] \in Keys \ {VerifiedKey[k]}
      BY <2>1, <2>2, DocIsNamed DEF PaperInv
    <3> QED  BY <1>4, <1>5, <2>2, <3>1 DEF PaperInv, DocumentsAreStored
  <2> QED  BY <1>4, <2>2 DEF DocumentsAreStored
<1> QED  BY <1>11, <1>12, <1>13, <1>15, <1>16, <1>17, <1>18 DEF PaperInv

\* The twin takes the place of the key, which nobody else names.
LEMMA SavePromotionKeepsPapers ==
    ASSUME OneWorker, PaperInv, PaperTypes', NEW w \in Workers, SavePromotion(w)
    PROVE  PaperInv'
<1>1. promote[w] # NoPromotion
  BY PromotingPhase DEF SavePromotion
<1>2. PICK s \in Submissions : s = promote[w].of
  BY <1>1, PromotionFields DEF PaperInv
<1>3. PICK d \in Documents, k \in Fresh :
        Current(w) = <<d, k>> /\ <<d, k>> \in promote[w].todo
  BY <1>1, PromotionFields DEF PaperInv
<1>4. Current(w)[1] = d /\ Current(w)[2] = k
  BY <1>3
<1>5. PICK twin \in Keys : twin = VerifiedKey[k]
  BY BaseVerified
<1>6. /\ promote[w].phase = "saving"
      /\ doc' = [doc EXCEPT ![s][d] = twin]
      /\ ledger' = Marked(Marked(ledger, twin, "linked"), k, "garbage")
      /\ Promoted(w)
      /\ UNCHANGED <<stored, sweep, upload, carry, used>>
  BY <1>2, <1>4, <1>5 DEF SavePromotion
<1>7. /\ k \in Keys /\ Base(k) = k /\ twin \notin Fresh /\ Base(twin) = k /\ twin # NoKey
      /\ Names(k, s, d)
  BY <1>2, <1>3, <1>5, BaseFresh, BaseVerified, NoKeyIsNone DEF Names
<1>8. /\ doc'[s][d] = twin
      /\ \A t \in Submissions, e \in Documents : t # s \/ e # d => doc'[t][e] = doc[t][e]
  BY <1>6 DEF PaperInv, PaperTypes, DocTables
<1>9. /\ ledger'[k].state = "garbage" /\ ledger'[twin].state = "linked"
      /\ \A l \in Keys \ {k, twin} : ledger'[l] = ledger[l]
  <2> DEFINE linked == Marked(ledger, twin, "linked")
  <2>1. /\ linked \in [Keys -> LedgerRows]
        /\ linked[twin] = Written(ledger[twin], "linked")
        /\ \A l \in Keys \ {twin} : linked[l] = ledger[l]
    BY MarkedType DEF PaperInv, PaperTypes, StorageTypeOK
  <2>2. ledger' = Marked(linked, k, "garbage")
    BY <1>6
  <2> HIDE DEF linked
  <2>3. /\ ledger'[k] = Written(linked[k], "garbage")
        /\ \A l \in Keys \ {k} : ledger'[l] = linked[l]
    BY <1>7, <2>1, <2>2, MarkedType
  <2> QED  BY <1>7, <2>1, <2>3 DEF Written
<1>10. /\ \A e, f : <<e, f>> \in promote'[w].todo => <<e, f>> \in promote[w].todo \ {<<d, k>>}
       /\ promote'[w].todo # {} => promote'[w].of = s
       /\ promote'[w].phase # "saving"
  <2>1. promote[w] \in Promoting /\ promote \in [Workers -> {NoPromotion} \cup Promoting]
    BY <1>1, PromotionFields DEF PaperInv, PaperTypes
  <2>2. \/ promote'[w] = NoPromotion
        \/ promote'[w] = [promote[w] EXCEPT !.todo = promote[w].todo \ {<<d, k>>},
                                            !.phase = "marking"]
    BY <1>3, <1>6, <2>1 DEF Promoted
  <2>3. CASE promote'[w] = NoPromotion
    BY <2>3 DEF NoPromotion
  <2>4. CASE promote'[w] = [promote[w] EXCEPT !.todo = promote[w].todo \ {<<d, k>>},
                                              !.phase = "marking"]
    BY <1>2, <2>1, <2>4 DEF Promoting
  <2> QED  BY <2>2, <2>3, <2>4
<1>11. /\ \A v \in Workers : v = w /\ InHand(v)' = {} /\ InHand(v) = {} /\ sweep'[v] = NoSweep
       /\ Copied' = Copied
       /\ \A f \in Fresh : Unsaved(f)' => Unsaved(f)
  BY <1>1, <1>6, PromotionAlone DEF InHand, NoSweep, Copied, Unsaved
<1>12. ClaimedIsGone' /\ OneJob'
  BY <1>11 DEF ClaimedIsGone, OneJob
<1>13. ~Unsaved(k)
  BY <1>7 DEF PaperInv, UnsavedIsNowhere
<1>14. \A f \in Fresh : Unsaved(f) => ledger'[f] = ledger[f]
  BY <1>7, <1>9, <1>13, BaseFresh
<1>15. NewIsUnknown'
  BY <1>6, <1>11, <1>14 DEF PaperInv, NewIsUnknown, Unknown, Unsaved
<1>16. CopiesAreNew'
  <2>1. \A f \in Copied : f \in Fresh /\ Unsaved(f)
    BY CarryFields DEF PaperInv, Unsaved
  <2>2. \A f \in Copied : f \in used' /\ upload'[f] = NoUpload /\ Unknown(f)' /\ f \in stored'
    BY <1>6, <1>11, <1>14, <2>1 DEF PaperInv, CopiesAreNew, Unknown
  <2> QED  BY <1>6, <1>11, <2>2 DEF PaperInv, CopiesAreNew
<1>17. UploadingIsPending'
  <2>1. \A f \in Fresh : upload[f].phase \in Active => Unsaved(f)
    BY DEF Unsaved
  <2> QED  BY <1>6, <1>14, <2>1 DEF PaperInv, UploadingIsPending
<1>18. UnsavedIsNowhere' /\ OnePlace'
  <2>1. ASSUME NEW l \in Keys, NEW t \in Submissions, NEW e \in Documents, Names(l, t, e)'
        PROVE  Names(l, t, e) \/ (l = twin /\ t = s /\ e = d)
    <3>1. CASE doc'[t][e] = l
      BY <1>8, <3>1 DEF Names
    <3>2. CASE \E v \in Workers : promote'[v].of = t /\ <<e, l>> \in promote'[v].todo
      <4>1. promote'[w].of = t /\ <<e, l>> \in promote'[w].todo
        BY <1>11, <3>2
      <4>2. t = s /\ <<e, l>> \in promote[w].todo
        BY <1>10, <4>1
      <4> QED  BY <1>2, <4>2 DEF Names
    <3>3. CASE \E u \in Fresh : /\ upload[u].old = l
                                /\ upload[u].of = t /\ upload[u].document = e
      BY <3>3 DEF Names
    <3> QED  BY <1>6, <2>1, <3>1, <3>2, <3>3 DEF Names
  <2>2. \A l \in Keys, t \in Submissions, e \in Documents : Names(l, t, e)' =>
          \E m \in Keys : Names(m, t, e) /\ Base(m) = Base(l)
    BY <1>7, <2>1
  <2> QED  BY <1>11, <2>2, NothingNew DEF PaperInv
<1>19. NotTwice'
  <2>1. ASSUME NEW e \in Documents, NEW f \in Fresh, <<e, f>> \in promote'[w].todo
        PROVE  f # k /\ <<e, f>> \in promote[w].todo
    <3>1. <<e, f>> \in promote[w].todo /\ <<e, f>> # <<d, k>>
      BY <1>10, <2>1
    <3>2. Names(f, s, e) /\ f \in Keys
      BY <1>2, <3>1, BaseFresh DEF Names
    <3>3. f = k => e = d
      BY <1>7, <3>2 DEF PaperInv, OnePlace
    <3> QED  BY <3>1, <3>3
  <2>2. \A f \in Fresh : VerifiedKey[f] = twin => f = k
    BY <1>5, PaperAssumption
  <2>3. ASSUME NEW e \in Documents, NEW f \in Fresh, <<e, f>> \in promote'[w].todo,
               NEW t \in Submissions, NEW c \in Documents
        PROVE  doc'[t][c] # VerifiedKey[f]
    <3>1. doc[t][c] # VerifiedKey[f] /\ VerifiedKey[f] # twin
      BY <2>1, <2>2, <2>3 DEF PaperInv, NotTwice
    <3> QED  BY <1>8, <3>1
  <2> QED  BY <1>11, <2>3 DEF NotTwice
<1>20. PromotedIsStored'
  BY <1>10, <1>11 DEF PromotedIsStored
<1>21. DocumentsAreStored'
  <2>1. twin \in stored
    BY <1>4, <1>5, <1>6 DEF PaperInv, PromotedIsStored
  <2>2. ASSUME NEW t \in Submissions, NEW e \in Documents, t # s \/ e # d, doc[t][e] # NoKey
        PROVE  doc[t][e] \in Keys \ {k, twin}
    <3>1. doc[t][e] \in Keys /\ Names(doc[t][e], t, e)
      BY <2>2, DocIsNamed DEF PaperInv
    <3>2. Base(doc[t][e]) # k
      BY <1>7, <2>2, <3>1 DEF PaperInv, OnePlace
    <3> QED  BY <1>7, <3>1, <3>2
  <2>3. ASSUME NEW t \in Submissions, NEW e \in Documents, doc'[t][e] # NoKey
        PROVE  doc'[t][e] \in stored' /\ ledger'[doc'[t][e]].state = "linked"
    <3>1. CASE t = s /\ e = d
      BY <1>6, <1>8, <1>9, <2>1, <3>1
    <3>2. CASE t # s \/ e # d
      <4>1. doc'[t][e] = doc[t][e] /\ doc[t][e] \in Keys \ {k, twin}
        BY <1>8, <2>2, <2>3, <3>2
      <4> QED  BY <1>6, <1>9, <2>3, <4>1 DEF PaperInv, DocumentsAreStored
    <3> QED  BY <3>1, <3>2
  <2> QED  BY <2>3 DEF DocumentsAreStored
<1> QED  BY <1>12, <1>15, <1>16, <1>17, <1>18, <1>19, <1>20, <1>21 DEF PaperInv

\* The collector takes only what is in its hands, and claims no more while it
\* is promoting.
LEMMA StorageKeepsPapers ==
    ASSUME OneWorker, PaperInv, PaperTypes', StorageStep
    PROVE  PaperInv'
<1>1. /\ UNCHANGED <<doc, upload, carry, used, promote>>
      /\ Copied' = Copied
      /\ \A f \in Fresh : Unsaved(f)' = Unsaved(f)
  BY DEF StorageStep, paperVars, Copied, Unsaved
<1>2. SweepStep \/ \E k \in Keys : GracePasses(k)
  BY DEF StorageStep, SweepStep, Ages
<1>3. StorageTypeOK /\ ClaimedIsGone
  BY DEF PaperInv, PaperTypes
<1>4. ClaimedIsGone' /\ \A k \in Keys : Spares(k)
  BY <1>2, <1>3, CollectorStep
<1>5. \A f \in Fresh : Unknown(f) => Unknown(f)'
  <2> SUFFICES ASSUME NEW f \in Fresh, Unknown(f) PROVE Unknown(f)'
    OBVIOUS
  <2>1. Spares(f)
    BY <1>4, BaseFresh
  <2> QED  BY <2>1 DEF Spares, Unknown
<1>6. ASSUME NEW k \in stored, \A w \in Workers : k \notin InHand(w)
      PROVE  k \in stored'
  <2>1. ASSUME NEW w \in Workers, RemoveObject(w) PROVE k \in stored'
    BY <1>6, <2>1 DEF RemoveObject, InHand
  <2>2. ASSUME NEW w \in Workers,
               ClaimBatch(w) \/ DeleteRows(w) \/ BumpFailed(w) \/ RemoveRefused(w) \/ AbandonSweep(w)
        PROVE  k \in stored'
    BY <2>2 DEF ClaimBatch, DeleteRows, BumpFailed, RemoveRefused, AbandonSweep
  <2>3. ASSUME NEW l \in Keys, GracePasses(l) PROVE k \in stored'
    BY <2>3 DEF GracePasses
  <2> QED  BY <1>2, <2>1, <2>2, <2>3 DEF SweepStep, SweepOn
<1>7. OneJob'
  <2>1. ASSUME NEW v \in Workers,
               \/ promote[v] = NoPromotion /\ ClaimBatch(v)
               \/ SweepOn(v) \/ RemoveRefused(v) \/ AbandonSweep(v)
        PROVE  OneJob'
    <3>1. \A w \in Workers \ {v} : sweep'[w] = sweep[w]
      BY <1>3, <2>1 DEF ClaimBatch, SweepOn, RemoveObject, DeleteRows, BumpFailed,
                       RemoveRefused, AbandonSweep, StorageTypeOK
    <3>2. promote[v] = NoPromotion \/ sweep[v] # NoSweep
      BY <2>1 DEF SweepOn, RemoveObject, DeleteRows, BumpFailed,
                  RemoveRefused, AbandonSweep, NoSweep
    <3> QED  BY <1>1, <3>1, <3>2 DEF PaperInv, OneJob
  <2>2. ASSUME NEW k \in Keys, GracePasses(k) PROVE OneJob'
    BY <1>1, <2>2 DEF GracePasses, PaperInv, OneJob
  <2> QED  BY <2>1, <2>2 DEF StorageStep, Ages
<1>8. NewIsUnknown'
  BY <1>1, <1>5 DEF PaperInv, NewIsUnknown
<1>9. CopiesAreNew'
  <2>1. \A f \in Copied : f \in used' /\ upload'[f] = NoUpload /\ Unknown(f)' /\ f \in stored'
    BY <1>1, <1>5, <1>6, CarryFields DEF PaperInv, CopiesAreNew, Unknown
  <2> QED  BY <1>1, <2>1 DEF PaperInv, CopiesAreNew
<1>10. UploadingIsPending'
  <2> SUFFICES ASSUME NEW f \in Fresh, upload[f].phase \in Active
               PROVE  /\ f \in used
                      /\ ledger'[f].state = "pending" /\ ~ledger'[f].old
                      /\ upload[f].phase # "putting" => f \in stored'
    BY <1>1 DEF UploadingIsPending
  <2>1. /\ f \in used /\ ledger[f].state = "pending" /\ ~ledger[f].old
        /\ upload[f].phase # "putting" => f \in stored
    BY DEF PaperInv, UploadingIsPending
  <2>2. f \in Keys /\ Spares(f)
    BY <1>4, BaseFresh
  <2>3. SweepStep \/ \E l \in Keys \ {f} : GracePasses(l)
    BY DEF StorageStep, SweepStep, Ages, Active
  <2>4. ledger'[f].state = "pending" /\ ~ledger'[f].old
    BY <1>3, <2>1, <2>2, <2>3, YoungStays
  <2> QED  BY <2>1, <2>2, <2>4 DEF Spares
<1>11. \A k \in Keys, s \in Submissions, d \in Documents : Names(k, s, d)' => Names(k, s, d)
  BY <1>1 DEF Names
<1>12. UnsavedIsNowhere' /\ OnePlace'
  BY <1>1, <1>11, NothingNew DEF PaperInv
<1>13. NotTwice'
  BY <1>1 DEF PaperInv, NotTwice
<1>14. PromotedIsStored'
  <2> SUFFICES ASSUME NEW w \in Workers, promote[w].phase = "saving"
               PROVE  VerifiedKey[Current(w)[2]] \in stored'
    BY <1>1 DEF PromotedIsStored, Current
  <2>1. VerifiedKey[Current(w)[2]] \in stored
    BY DEF PaperInv, PromotedIsStored
  <2>2. promote[w] # NoPromotion
    BY PromotingPhase
  <2>3. \A v \in Workers : InHand(v) = {}
    BY <2>2, PromotionAlone
  <2> QED  BY <1>6, <2>1, <2>3
<1>15. DocumentsAreStored'
  <2> SUFFICES ASSUME NEW s \in Submissions, NEW d \in Documents, doc[s][d] # NoKey
               PROVE  doc[s][d] \in stored' /\ ledger'[doc[s][d]].state = "linked"
    BY <1>1 DEF DocumentsAreStored
  <2>1. doc[s][d] \in Keys /\ doc[s][d] \in stored /\ ledger[doc[s][d]].state = "linked"
    BY DocIsNamed DEF PaperInv, DocumentsAreStored
  <2> QED  BY <1>4, <2>1 DEF Spares
<1> QED  BY <1>4, <1>7, <1>8, <1>9, <1>10, <1>12, <1>13, <1>14, <1>15 DEF PaperInv

-----------------------------------------------------------------------------
(* The theorem                                                             *)

LEMMA PaperInvInit == PaperInit => PaperInv
<1> SUFFICES ASSUME PaperInit PROVE PaperInv
  OBVIOUS
<1>1. PaperTypes
  BY PaperTypeInit
<1>2. /\ ledger = [k \in Keys |-> NoRow] /\ sweep = [w \in Workers |-> NoSweep]
      /\ doc = [s \in Submissions |-> [d \in Documents |-> NoKey]]
      /\ upload = [k \in Fresh |-> NoUpload] /\ carry = NoCarry
      /\ promote = [w \in Workers |-> NoPromotion]
  BY DEF PaperInit, StorageInit
<1>3. \A w \in Workers : InHand(w) = {} /\ sweep[w] = NoSweep
  BY <1>2 DEF InHand, NoSweep
<1>4. \A w \in Workers : promote[w].todo = {} /\ promote[w].phase # "saving"
  BY <1>2 DEF NoPromotion
<1>5. \A f \in Fresh : /\ upload[f] = NoUpload /\ upload[f].old = NoKey
                       /\ upload[f].phase \notin Active
  BY <1>2 DEF NoUpload, Active
<1>6. \A d \in Documents : carry.copy[d] = NoKey
  BY <1>2 DEF NoCarry
<1>7. Copied = {}
  BY <1>6 DEF Copied
<1>8. \A s \in Submissions, d \in Documents : doc[s][d] = NoKey
  BY <1>2
<1>9. ClaimedIsGone /\ OneJob
  BY <1>3 DEF ClaimedIsGone, OneJob
<1>10. NewIsUnknown
  BY <1>2, <1>3, <1>5, BaseFresh DEF NewIsUnknown, Unknown
<1>11. CopiesAreNew
  BY <1>6, <1>7 DEF CopiesAreNew
<1>12. UploadingIsPending
  BY <1>5 DEF UploadingIsPending
<1>13. \A k \in Keys, s \in Submissions, d \in Documents : ~Names(k, s, d)
  BY <1>4, <1>5, <1>8, NoKeyIsNone DEF Names
<1>14. UnsavedIsNowhere /\ OnePlace
  BY <1>13 DEF UnsavedIsNowhere, OnePlace
<1>15. NotTwice /\ PromotedIsStored
  BY <1>4 DEF NotTwice, PromotedIsStored
<1>16. DocumentsAreStored
  BY <1>8 DEF DocumentsAreStored
<1> QED  BY <1>1, <1>9, <1>10, <1>11, <1>12, <1>14, <1>15, <1>16 DEF PaperInv

LEMMA PaperInvStep == ASSUME OneWorker, PaperInv, [PaperNext]_vars PROVE PaperInv'
<1>1. PaperTypes'
  BY PaperTypeStep DEF PaperInv
<1>2. CASE \/ OpenFirst \/ (\E s \in Submissions : MoveOn(s))
           \/ (\E w \in Workers : Reconcile(w)) \/ UNCHANGED vars
  <2>1. UNCHANGED <<ledger, stored, sweep, doc, upload, carry, used, promote>>
    BY <1>2 DEF OpenFirst, MoveOn, Reconcile, vars, storageVars, paperVars
  <2>2. \A d \in Documents : carry'.copy[d] \in {carry.copy[d], NoKey}
    BY <2>1
  <2> QED  BY <1>1, <2>1, <2>2, RestKeepsPapers
<1>3. CASE RollBackCarry \/ \E s \in Submissions : BeginCarry(s)
  <2>1. UNCHANGED <<ledger, stored, sweep, doc, upload, used, promote>>
    BY <1>3 DEF RollBackCarry, BeginCarry, storageVars
  <2>2. \A d \in Documents : carry'.copy[d] = NoKey
    BY <1>3 DEF RollBackCarry, BeginCarry, NoCarry
  <2> QED  BY <1>1, <2>1, <2>2, RestKeepsPapers
<1>4. CASE CommitCarry \/ \E d \in Documents, k \in Fresh : CopyObject(d, k)
  BY <1>1, <1>4, CommitKeepsPapers, CopyKeepsPapers
<1>5. CASE \/ \E k \in Fresh, s \in Submissions, d \in Documents : StartUpload(k, s, d)
           \/ \E k \in Fresh : PutObject(k) \/ FindExisting(k) \/ SaveDocument(k) \/ DropUpload(k)
  BY <1>1, <1>5, StartKeepsPapers, GoOnKeepsPapers, SaveKeepsPapers
<1>6. CASE \E w \in Workers : TakePromotion(w) \/ PromotionOn(w) \/ FailPromotion(w)
  BY <1>1, <1>6, TakeKeepsPapers, TwinKeepsPapers, SavePromotionKeepsPapers, FailKeepsPapers
  DEF PromotionOn
<1>7. CASE StorageStep
  BY <1>1, <1>7, StorageKeepsPapers
<1> QED  BY <1>2, <1>3, <1>4, <1>5, <1>6, <1>7 DEF PaperNext, RequestStep, PromotionStep

\* With the one worker of the deployment, what a document of a submission
\* names is in the bucket and linked, however uploads, openings, promotions
\* and sweeps overlap and fail.
THEOREM DocumentsKept == ASSUME OneWorker PROVE PaperSpec => []DocumentsAreStored
<1>1. PaperInv /\ [PaperNext]_vars => PaperInv'
  BY PaperInvStep
<1>2. PaperInv => DocumentsAreStored
  BY DEF PaperInv
<1> QED  BY <1>1, <1>2, PaperInvInit, PTL DEF PaperSpec
=============================================================================
