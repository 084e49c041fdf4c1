----------------------------- MODULE AssetProofs ----------------------------
(***************************************************************************)
(* Nothing that an asset or a submitted revision names is ever removed,    *)
(* for any number of keys, assets, workers, edits and failures.            *)
(*                                                                         *)
(* ShownIsStored is not inductive.  It rests on the course of a ledger row *)
(* (ClaimedIsGone of StorageProofs): a key a sweep has in hand is never    *)
(* pending again, because only an upload that has not begun writes PENDING *)
(* (NewIsUnknown); so a row that can be linked has its object and is in    *)
(* nobody's hands.                                                         *)
(***************************************************************************)
EXTENDS CampaignAssets, StorageProofs

NewIsUnknown ==
    \A k \in Keys : upload[k] = NoUpload =>
        /\ ledger[k] = NoRow
        /\ \A w \in Workers : k \notin InHand(w)

PutIsStored ==
    \A k \in Keys :
        upload[k].phase = "linking" /\ ledger[k].state = "pending" => k \in stored

OneAssetPerKey ==
    \A a, c \in Assets : asset[a] = asset[c] /\ asset[a] # NoKey => a = c

NothingKept == ~submitted => kept = {}

AssetInv ==
    /\ AssetTypeOK
    /\ ClaimedIsGone
    /\ NewIsUnknown
    /\ PutIsStored
    /\ OneAssetPerKey
    /\ NothingKept
    /\ ShownIsStored

-----------------------------------------------------------------------------
(* The type                                                                *)

LEMMA AssetTypeInit == AssetInit => AssetTypeOK
<1> SUFFICES ASSUME AssetInit PROVE AssetTypeOK
  OBVIOUS
<1>1. StorageTypeOK
  BY StorageAssumption, NoRowType
  DEF AssetInit, StorageInit, StorageTypeOK, NoSweep, StorageAssumption
<1>2. NoUpload \in Uploads
  BY AssetAssumption, SMT DEF NoUpload, Uploads, Phases, AssetAssumption
<1>3. upload \in [Keys -> Uploads]
  BY <1>2 DEF AssetInit
<1>4. version \in 0..MaxVersion /\ kept \in SUBSET Keys
  BY AssetAssumption DEF AssetInit, AssetAssumption
<1>5. asset \in [Assets -> Keys \cup {NoKey}] /\ submitted \in BOOLEAN
  BY Zenon DEF AssetInit
<1>6. QED
  BY <1>1, <1>3, <1>4, <1>5 DEF AssetTypeOK

\* Only the phase of one upload changes.
LEMMA PhaseType ==
    ASSUME AssetTypeOK, NEW k \in Keys, NEW phase \in Phases, Phase(k, phase)
    PROVE  upload' \in [Keys -> Uploads]
  BY DEF Phase, AssetTypeOK, Uploads

\* A retired key is garbage, or its row is left as it is.
LEMMA RetiredType ==
    ASSUME NEW book \in [Keys -> LedgerRows], NEW k \in Keys \cup {NoKey}
    PROVE  /\ Retired(book, k) \in [Keys -> LedgerRows]
           /\ \A l \in Keys \ {k} : Retired(book, k)[l] = book[l]
           /\ k # NoKey /\ ~submitted => Retired(book, k)[k] = Written(book[k], "garbage")
           /\ k # NoKey /\ submitted => Retired(book, k)[k] = book[k]
<1>1. CASE submitted \/ k = NoKey
  BY <1>1 DEF Retired
<1>2. CASE ~submitted /\ k # NoKey
  BY <1>2, MarkedType DEF Retired
<1>3. QED
  BY <1>1, <1>2

LEMMA AssetTypeStep == AssetTypeOK /\ [AssetNext]_assetVars => AssetTypeOK'
<1> SUFFICES ASSUME AssetTypeOK, [AssetNext]_assetVars PROVE AssetTypeOK'
  OBVIOUS
<1> USE StorageAssumption, AssetAssumption DEF StorageAssumption, AssetAssumption
<1> DEFINE rest == <<asset, version, submitted, kept, upload>>
<1>1. ASSUME NEW k \in Keys, NEW a \in Assets \cup {NoAsset}, BeginUpload(k, a)
      PROVE  AssetTypeOK'
  <2>1. ledger' \in [Keys -> LedgerRows]
    BY <1>1, MarkedType DEF BeginUpload, AssetTypeOK, StorageTypeOK
  <2>2. upload' \in [Keys -> Uploads]
    BY <1>1 DEF BeginUpload, AssetTypeOK, Uploads, Phases
  <2>3. QED
    BY <1>1, <2>1, <2>2 DEF BeginUpload, AssetTypeOK, StorageTypeOK
<1>2. ASSUME NEW k \in Keys, PutObject(k) PROVE AssetTypeOK'
  <2>1. upload' \in [Keys -> Uploads]
    BY <1>2, PhaseType DEF PutObject, Phases
  <2>2. QED
    BY <1>2, <2>1 DEF PutObject, AssetTypeOK, StorageTypeOK
<1>3. ASSUME NEW k \in Keys, PutFails(k) PROVE AssetTypeOK'
  <2>1. upload' \in [Keys -> Uploads]
    BY <1>3, PhaseType DEF PutFails, Phases
  <2>2. QED
    BY <1>3, <2>1 DEF PutFails, AssetTypeOK, StorageTypeOK
<1>4. ASSUME NEW k \in Keys, LinkAsset(k) PROVE AssetTypeOK'
  <2>1. PICK a \in Assets :
          /\ asset' = [asset EXCEPT ![a] = k]
          /\ ledger' = Retired(Marked(ledger, k, "linked"), asset[a])
    BY <1>4 DEF LinkAsset
  <2>2. Marked(ledger, k, "linked") \in [Keys -> LedgerRows]
    BY MarkedType DEF AssetTypeOK, StorageTypeOK
  <2>3. asset[a] \in Keys \cup {NoKey}
    BY DEF AssetTypeOK
  <2>4. ledger' \in [Keys -> LedgerRows]
    BY <2>1, <2>2, <2>3, RetiredType
  <2>5. upload' \in [Keys -> Uploads]
    BY <1>4, PhaseType DEF LinkAsset, Phases
  <2>6. failures' \in 0..MaxFailures
    BY <1>4 DEF LinkAsset, AssetTypeOK, StorageTypeOK
  <2>7. version' \in 0..MaxVersion /\ UNCHANGED <<submitted, kept>>
    BY <1>4 DEF LinkAsset, Edit, AssetTypeOK
  <2>8. asset' \in [Assets -> Keys \cup {NoKey}]
    BY <2>1 DEF AssetTypeOK
  <2>9. QED
    BY <1>4, <2>4, <2>5, <2>6, <2>7, <2>8 DEF LinkAsset, AssetTypeOK, StorageTypeOK
<1>5. ASSUME NEW k \in Keys, LinkRefused(k) PROVE AssetTypeOK'
  <2>1. upload' \in [Keys -> Uploads]
    BY <1>5, PhaseType DEF LinkRefused, Phases
  <2>2. QED
    BY <1>5, <2>1 DEF LinkRefused, AssetTypeOK, StorageTypeOK, storageVars
<1>6. ASSUME NEW k \in Keys, CleanUp(k) PROVE AssetTypeOK'
  <2>1. upload' \in [Keys -> Uploads]
    BY <1>6, PhaseType DEF CleanUp, Phases
  <2>2. ledger' \in [Keys -> LedgerRows]
    BY <1>6, WrittenType, NoRowType DEF CleanUp, AssetTypeOK, StorageTypeOK
  <2>3. QED
    BY <1>6, <2>1, <2>2 DEF CleanUp, AssetTypeOK, StorageTypeOK
<1>7. ASSUME NEW k \in Keys, DropUpload(k) PROVE AssetTypeOK'
  <2>1. upload' \in [Keys -> Uploads]
    BY <1>7, PhaseType DEF DropUpload, Phases
  <2>2. QED
    BY <1>7, <2>1 DEF DropUpload, AssetTypeOK, StorageTypeOK
<1>8. ASSUME NEW a \in Assets, DeleteAsset(a) PROVE AssetTypeOK'
  <2>1. ledger' \in [Keys -> LedgerRows]
    BY <1>8, RetiredType DEF DeleteAsset, AssetTypeOK, StorageTypeOK
  <2>2. version' \in 0..MaxVersion /\ UNCHANGED <<submitted, kept>>
    BY <1>8 DEF DeleteAsset, Edit, AssetTypeOK
  <2>3. QED
    BY <1>8, <2>1, <2>2 DEF DeleteAsset, AssetTypeOK, StorageTypeOK
<1>9. ASSUME EditOtherwise PROVE AssetTypeOK'
  BY <1>9 DEF EditOtherwise, Edit, AssetTypeOK, StorageTypeOK, storageVars
<1>10. ASSUME SubmitAssets PROVE AssetTypeOK'
  BY <1>10 DEF SubmitAssets, AssetTypeOK, StorageTypeOK, storageVars
<1>11. ASSUME SweepStep \/ \E k \in Keys : GracePasses(k), UNCHANGED rest
       PROVE  AssetTypeOK'
  <2>1. StorageTypeOK'
    BY <1>11, SweepTypeStep DEF AssetTypeOK
  <2>2. QED
    BY <1>11, <2>1 DEF AssetTypeOK
<1>12. CASE UNCHANGED assetVars
  BY <1>12 DEF assetVars, storageVars, AssetTypeOK, StorageTypeOK
<1>13. QED
  BY <1>1, <1>2, <1>3, <1>4, <1>5, <1>6, <1>7, <1>8, <1>9, <1>10, <1>11, <1>12
  DEF AssetNext, UploadStep

\* Type correctness: no interleaving of requests and sweeps breaks the shape
\* of a ledger row, an asset or an upload.
THEOREM AssetTypeCorrect == AssetSpec => []AssetTypeOK
<1>1. AssetInit => AssetTypeOK
  BY AssetTypeInit
<1>2. AssetTypeOK /\ [AssetNext]_assetVars => AssetTypeOK'
  BY AssetTypeStep
<1>3. QED
  BY <1>1, <1>2, PTL DEF AssetSpec

-----------------------------------------------------------------------------
(* What is shown is stored                                                 *)

\* A new row of an upload that has not begun.
LEMMA BeginKeepsInv ==
    ASSUME AssetInv, AssetTypeOK', NEW k \in Keys, NEW a \in Assets \cup {NoAsset},
           BeginUpload(k, a)
    PROVE  AssetInv'
<1>1. /\ ledger[k] = NoRow
      /\ \A w \in Workers : k \notin InHand(w)
  BY DEF BeginUpload, AssetInv, NewIsUnknown
<1>2. /\ ledger'[k] = Written(NoRow, "pending")
      /\ \A l \in Keys \ {k} : ledger'[l] = ledger[l]
  <2>1. ledger \in [Keys -> LedgerRows]
    BY DEF AssetInv, AssetTypeOK, StorageTypeOK
  <2>2. ledger' = Marked(ledger, k, "pending")
    BY DEF BeginUpload
  <2>3. QED
    BY <1>1, <2>1, <2>2, MarkedType
<1>3. ledger'[k].state = "pending"
  BY <1>2 DEF Written, NoRow
<1>4. /\ upload'[k] = [phase |-> "putting", read |-> version, target |-> a]
      /\ \A l \in Keys \ {k} : upload'[l] = upload[l]
  BY DEF BeginUpload, AssetInv, AssetTypeOK
<1>5. /\ upload'[k].phase = "putting"
      /\ upload'[k] # NoUpload
  BY <1>4 DEF NoUpload
<1>6. UNCHANGED <<stored, sweep, asset, submitted, kept>>
  BY DEF BeginUpload
<1>7. /\ \A w \in Workers : InHand(w)' = InHand(w) /\ InHand(w) \subseteq Keys
      /\ Shown' = Shown
      /\ Shown \subseteq Keys
  BY <1>6 DEF InHand, Shown, AssetInv, AssetTypeOK, StorageTypeOK
<1>8. ClaimedIsGone'
  BY <1>1, <1>2, <1>3, <1>7 DEF AssetInv, ClaimedIsGone
<1>9. NewIsUnknown' /\ PutIsStored'
  BY <1>2, <1>4, <1>5, <1>6, <1>7 DEF AssetInv, NewIsUnknown, PutIsStored
<1>10. OneAssetPerKey' /\ NothingKept'
  BY <1>6 DEF AssetInv, OneAssetPerKey, NothingKept
<1>11. k \notin Shown
  BY <1>1 DEF AssetInv, ShownIsStored, NoRow
<1>12. ShownIsStored'
  BY <1>2, <1>6, <1>7, <1>11 DEF AssetInv, ShownIsStored
<1>13. QED
  BY <1>8, <1>9, <1>10, <1>12 DEF AssetInv

\* A step that changes the phase of a begun upload, and no row but for a
\* failed upload's own, which is not linked.
LEMMA PhaseKeepsInv ==
    ASSUME AssetInv, AssetTypeOK', NEW k \in Keys,
           PutObject(k) \/ PutFails(k) \/ LinkRefused(k) \/ CleanUp(k) \/ DropUpload(k)
    PROVE  AssetInv'
<1>1. /\ upload[k].phase \in {"putting", "linking", "failed"}
      /\ \E phase \in Phases \ {"none"} : Phase(k, phase)
  BY DEF PutObject, PutFails, LinkRefused, CleanUp, DropUpload, Phases
<1>2. /\ upload[k] # NoUpload
      /\ upload'[k] # NoUpload
      /\ \A l \in Keys \ {k} : upload'[l] = upload[l]
  BY <1>1 DEF Phase, NoUpload, AssetInv, AssetTypeOK, Uploads
<1>3. \/ ledger'[k] = ledger[k]
      \/ /\ ledger[k].state # "linked"
         /\ ledger'[k] = Written(NoRow, "garbage")
  BY DEF PutObject, PutFails, LinkRefused, CleanUp, DropUpload, AssetInv, AssetTypeOK,
         StorageTypeOK, storageVars
<1>4. /\ \A l \in Keys \ {k} : ledger'[l] = ledger[l]
      /\ UNCHANGED <<sweep, asset, submitted, kept>>
      /\ stored \subseteq stored'
  BY DEF PutObject, PutFails, LinkRefused, CleanUp, DropUpload, AssetInv, AssetTypeOK,
         StorageTypeOK, storageVars
<1>5. upload'[k].phase = "linking" => k \in stored'
  <2>1. CASE PutObject(k)
    BY <2>1 DEF PutObject
  <2>2. CASE ~PutObject(k)
    <3>1. \E phase \in {"failed", "over", "dropped"} : Phase(k, phase)
      BY <2>2 DEF PutFails, LinkRefused, CleanUp, DropUpload
    <3>2. upload'[k].phase # "linking"
      BY <3>1 DEF Phase, AssetInv, AssetTypeOK, Uploads
    <3>3. QED
      BY <3>2
  <2>3. QED
    BY <2>1, <2>2
<1>6. /\ \A w \in Workers : InHand(w)' = InHand(w) /\ InHand(w) \subseteq Keys
      /\ Shown' = Shown
      /\ Shown \subseteq Keys
  BY <1>4 DEF InHand, Shown, AssetInv, AssetTypeOK, StorageTypeOK
<1>7. Written(NoRow, "garbage").state = "garbage"
  BY DEF Written, NoRow
<1>8. ClaimedIsGone'
  BY <1>3, <1>4, <1>6, <1>7 DEF AssetInv, ClaimedIsGone
<1>9. NewIsUnknown' /\ PutIsStored'
  BY <1>2, <1>4, <1>5, <1>6 DEF AssetInv, NewIsUnknown, PutIsStored
<1>10. OneAssetPerKey' /\ NothingKept'
  BY <1>4 DEF AssetInv, OneAssetPerKey, NothingKept
<1>11. ShownIsStored'
  BY <1>3, <1>4, <1>6 DEF AssetInv, ShownIsStored
<1>12. QED
  BY <1>8, <1>9, <1>10, <1>11 DEF AssetInv

\* The row of the new object is linked and that of the replaced one retired.
LEMMA LinkKeepsInv ==
    ASSUME AssetInv, AssetTypeOK', NEW k \in Keys, LinkAsset(k)
    PROVE  AssetInv'
<1>1. PICK a \in Assets :
        /\ asset' = [asset EXCEPT ![a] = k]
        /\ ledger' = Retired(Marked(ledger, k, "linked"), asset[a])
  BY DEF LinkAsset
<1>2. /\ upload[k].phase = "linking"
      /\ ledger[k].state = "pending"
      /\ ~submitted
      /\ UNCHANGED <<stored, sweep, submitted, kept>>
      /\ \E phase \in {"over", "failed"} : Phase(k, phase)
  BY DEF LinkAsset, Linkable, Edit
<1>3. kept = {}
  BY <1>2 DEF AssetInv, NothingKept
<1>4. k \in stored /\ \A w \in Workers : k \notin InHand(w)
  BY <1>2 DEF AssetInv, PutIsStored, ClaimedIsGone
<1>5. asset[a] \in Keys \cup {NoKey} /\ asset[a] # k
  BY <1>2, AssetAssumption DEF AssetInv, AssetTypeOK, ShownIsStored, Shown, AssetAssumption
<1>6. /\ Marked(ledger, k, "linked") \in [Keys -> LedgerRows]
      /\ Marked(ledger, k, "linked")[k] = Written(ledger[k], "linked")
      /\ \A l \in Keys \ {k} : Marked(ledger, k, "linked")[l] = ledger[l]
  BY MarkedType DEF AssetInv, AssetTypeOK, StorageTypeOK
<1>7. /\ \A l \in Keys \ {k, asset[a]} : ledger'[l] = ledger[l]
      /\ ledger'[k] = Written(ledger[k], "linked")
      /\ asset[a] # NoKey => ledger'[asset[a]] = Written(ledger[asset[a]], "garbage")
  BY <1>1, <1>2, <1>5, <1>6, RetiredType
<1>8. /\ ledger'[k].state = "linked"
      /\ asset[a] # NoKey => ledger'[asset[a]].state = "garbage"
  BY <1>4, <1>7 DEF Written
<1>9. /\ upload[k] # NoUpload
      /\ upload'[k] # NoUpload
      /\ upload'[k].phase # "linking"
      /\ \A l \in Keys \ {k} : upload'[l] = upload[l]
  BY <1>2 DEF Phase, NoUpload, AssetInv, AssetTypeOK, Uploads
<1>10. \A w \in Workers : InHand(w)' = InHand(w) /\ InHand(w) \subseteq Keys
  BY <1>2 DEF InHand, AssetInv, AssetTypeOK, StorageTypeOK
<1>11. ClaimedIsGone'
  <2>1. \A l \in Keys : \/ l = k
                        \/ ledger'[l].state = "garbage"
                        \/ ledger'[l] = ledger[l]
    BY <1>7, <1>8, AssetAssumption DEF AssetAssumption
  <2>2. QED
    BY <1>4, <1>10, <2>1 DEF AssetInv, ClaimedIsGone
<1>12. asset[a] # NoKey => upload[asset[a]] # NoUpload
  BY <1>5 DEF AssetInv, ShownIsStored, Shown, NewIsUnknown, NoRow
<1>13. NewIsUnknown' /\ PutIsStored'
  <2>1. NewIsUnknown'
    <3>1. ASSUME NEW l \in Keys, upload'[l] = NoUpload
          PROVE  /\ ledger'[l] = NoRow
                 /\ \A w \in Workers : l \notin InHand(w)'
      <4>1. l # k /\ upload[l] = NoUpload
        BY <1>9, <3>1
      <4>2. l # asset[a]
        BY <1>12, <4>1, AssetAssumption DEF AssetAssumption
      <4>3. QED
        BY <1>7, <1>10, <4>1, <4>2 DEF AssetInv, NewIsUnknown
    <3>2. QED
      BY <3>1 DEF NewIsUnknown
  <2>2. PutIsStored'
    <3>1. ASSUME NEW l \in Keys, upload'[l].phase = "linking", ledger'[l].state = "pending"
          PROVE  l \in stored'
      <4>1. l # k /\ l # asset[a] /\ upload[l].phase = "linking"
        BY <1>8, <1>9, <3>1, AssetAssumption DEF AssetAssumption
      <4>2. QED
        BY <1>2, <1>7, <3>1, <4>1 DEF AssetInv, PutIsStored
    <3>2. QED
      BY <3>1 DEF PutIsStored
  <2>3. QED
    BY <2>1, <2>2
<1>14. \A c \in Assets : asset[c] # k
  BY <1>2, AssetAssumption DEF AssetInv, ShownIsStored, Shown, AssetAssumption
<1>15. OneAssetPerKey' /\ NothingKept'
  BY <1>1, <1>2, <1>3, <1>14 DEF AssetInv, OneAssetPerKey, NothingKept, AssetTypeOK
<1>16. ASSUME NEW l \in Shown' PROVE l = k \/ l \in Shown \ {k, asset[a]}
  <2>1. PICK c \in Assets : l = asset'[c] /\ l # NoKey
    BY <1>2, <1>3, <1>16 DEF Shown
  <2>2. CASE c = a
    BY <1>1, <2>1, <2>2 DEF AssetInv, AssetTypeOK
  <2>3. CASE c # a
    BY <1>1, <1>14, <2>1, <2>3 DEF AssetInv, AssetTypeOK, OneAssetPerKey, Shown
  <2>4. QED
    BY <2>2, <2>3
<1>17. ShownIsStored'
  <2>1. Shown \subseteq Keys
    BY DEF Shown, AssetInv, AssetTypeOK
  <2>2. ASSUME NEW l \in Shown'
        PROVE  /\ l \in stored'
               /\ ledger'[l].state = "linked"
               /\ \A w \in Workers : l \notin sweep'[w].todo
    BY <1>2, <1>4, <1>7, <1>8, <1>16, <2>1, <2>2 DEF AssetInv, ShownIsStored, InHand
  <2>3. QED
    BY <2>2 DEF ShownIsStored
<1>18. QED
  BY <1>11, <1>13, <1>15, <1>17 DEF AssetInv

\* The row of the deleted asset is retired.
LEMMA DeleteKeepsInv ==
    ASSUME AssetInv, AssetTypeOK', NEW a \in Assets, DeleteAsset(a)
    PROVE  AssetInv'
<1>1. /\ asset[a] \in Keys
      /\ asset' = [asset EXCEPT ![a] = NoKey]
      /\ ledger' = Retired(ledger, asset[a])
      /\ ~submitted
      /\ UNCHANGED <<stored, sweep, upload, submitted, kept>>
  BY DEF DeleteAsset, Edit, AssetInv, AssetTypeOK
<1>2. kept = {}
  BY <1>1 DEF AssetInv, NothingKept
<1>3. /\ \A l \in Keys \ {asset[a]} : ledger'[l] = ledger[l]
      /\ ledger'[asset[a]] = Written(ledger[asset[a]], "garbage")
  BY <1>1, RetiredType, AssetAssumption DEF AssetInv, AssetTypeOK, StorageTypeOK, AssetAssumption
<1>4. ledger'[asset[a]].state = "garbage"
  BY <1>3 DEF Written
<1>5. \A w \in Workers : InHand(w)' = InHand(w) /\ InHand(w) \subseteq Keys
  BY <1>1 DEF InHand, AssetInv, AssetTypeOK, StorageTypeOK
<1>6. \A l \in Keys : ledger'[l].state = "garbage" \/ ledger'[l] = ledger[l]
  BY <1>3, <1>4
<1>7. ClaimedIsGone'
  BY <1>5, <1>6 DEF AssetInv, ClaimedIsGone
<1>8. upload[asset[a]] # NoUpload
  BY <1>1, AssetAssumption
  DEF AssetInv, ShownIsStored, Shown, NewIsUnknown, NoRow, AssetAssumption
<1>9. NewIsUnknown' /\ PutIsStored'
  BY <1>1, <1>3, <1>4, <1>5, <1>8 DEF AssetInv, NewIsUnknown, PutIsStored
<1>10. OneAssetPerKey' /\ NothingKept'
  BY <1>1, <1>2 DEF AssetInv, OneAssetPerKey, NothingKept, AssetTypeOK
<1>11. Shown' \subseteq Shown \ {asset[a]}
  <2>1. ASSUME NEW l \in Shown' PROVE l \in Shown /\ l # asset[a]
    <3>1. PICK c \in Assets : l = asset'[c] /\ l # NoKey
      BY <1>1, <1>2, <2>1 DEF Shown
    <3>2. c # a /\ l = asset[c]
      BY <1>1, <3>1 DEF AssetInv, AssetTypeOK
    <3>3. QED
      BY <3>1, <3>2 DEF AssetInv, OneAssetPerKey, Shown
  <2>2. QED
    BY <2>1
<1>12. ShownIsStored'
  BY <1>1, <1>3, <1>11 DEF AssetInv, ShownIsStored, Shown, AssetTypeOK
<1>13. QED
  BY <1>7, <1>9, <1>10, <1>12 DEF AssetInv

LEMMA AssetInvStep == AssetInv /\ [AssetNext]_assetVars => AssetInv'
<1> SUFFICES ASSUME AssetInv, [AssetNext]_assetVars PROVE AssetInv'
  OBVIOUS
<1>1. AssetTypeOK'
  BY AssetTypeStep DEF AssetInv
<1>2. ASSUME NEW k \in Keys, UploadStep(k) PROVE AssetInv'
  BY <1>1, <1>2, BeginKeepsInv, PhaseKeepsInv, LinkKeepsInv DEF UploadStep
<1>3. ASSUME NEW a \in Assets, DeleteAsset(a) PROVE AssetInv'
  BY <1>1, <1>3, DeleteKeepsInv
<1>4. ASSUME EditOtherwise \/ UNCHANGED assetVars PROVE AssetInv'
  <2>1. UNCHANGED <<ledger, stored, sweep, asset, submitted, kept, upload>>
    BY <1>4 DEF EditOtherwise, Edit, storageVars, assetVars
  <2>2. QED
    BY <1>1, <2>1 DEF AssetInv, ClaimedIsGone, InHand, NewIsUnknown,
         PutIsStored, OneAssetPerKey, NothingKept, ShownIsStored, Shown
<1>5. ASSUME SubmitAssets PROVE AssetInv'
  <2>1. UNCHANGED <<ledger, stored, sweep, asset, upload>> /\ submitted'
    BY <1>5 DEF SubmitAssets, storageVars
  <2>2. Shown' = Shown
    BY <1>5, <2>1 DEF SubmitAssets, Shown
  <2>3. QED
    BY <1>1, <2>1, <2>2 DEF AssetInv, ClaimedIsGone, InHand, NewIsUnknown,
         PutIsStored, OneAssetPerKey, NothingKept, ShownIsStored
<1>6. ASSUME SweepStep \/ \E k \in Keys : GracePasses(k),
             UNCHANGED <<asset, version, submitted, kept, upload>>
      PROVE  AssetInv'
  <2>1. ClaimedIsGone' /\ \A k \in Keys : Spares(k)
    BY <1>6, CollectorStep DEF AssetInv, AssetTypeOK
  <2>2. Shown' = Shown /\ Shown \subseteq Keys
    BY <1>6 DEF Shown, AssetInv, AssetTypeOK
  <2>3. NewIsUnknown'
    BY <1>6, <2>1 DEF AssetInv, NewIsUnknown, Spares
  <2>4. PutIsStored'
    BY <1>6, <2>1 DEF AssetInv, PutIsStored, Spares
  <2>5. OneAssetPerKey' /\ NothingKept'
    BY <1>6 DEF AssetInv, OneAssetPerKey, NothingKept
  <2>6. \A k \in Shown : k \in stored' /\ ledger'[k].state = "linked"
    BY <2>1, <2>2 DEF AssetInv, ShownIsStored, Spares
  <2>7. \A k \in Shown : \A w \in Workers : k \notin InHand(w)'
    BY <2>1, <2>2, <2>6 DEF ClaimedIsGone
  <2>8. ShownIsStored'
    BY <2>2, <2>6, <2>7 DEF ShownIsStored, InHand
  <2>9. QED
    BY <1>1, <2>1, <2>3, <2>4, <2>5, <2>8 DEF AssetInv
<1>7. QED
  BY <1>2, <1>3, <1>4, <1>5, <1>6 DEF AssetNext

LEMMA AssetInvInit == AssetInit => AssetInv
<1> SUFFICES ASSUME AssetInit PROVE AssetInv
  OBVIOUS
<1>1. AssetTypeOK
  BY AssetTypeInit
<1>2. Shown = {}
  BY DEF AssetInit, Shown
<1>3. \A w \in Workers : InHand(w) = {}
  BY DEF AssetInit, StorageInit, InHand, NoSweep
<1>4. \A k \in Keys : ledger[k] = NoRow /\ ledger[k].state = "absent"
  BY DEF AssetInit, StorageInit, NoRow
<1>5. OneAssetPerKey /\ NothingKept
  BY DEF AssetInit, OneAssetPerKey, NothingKept
<1>6. QED
  BY <1>1, <1>2, <1>3, <1>4, <1>5
  DEF AssetInv, ClaimedIsGone, NewIsUnknown, PutIsStored, ShownIsStored

\* What an asset or a submitted revision names is stored, linked, and in no
\* sweep's hands: CampaignAssetService and the collector never lose it.
THEOREM ShownAlwaysStored == AssetSpec => []ShownIsStored
<1>1. AssetInit => AssetInv
  BY AssetInvInit
<1>2. AssetInv /\ [AssetNext]_assetVars => AssetInv'
  BY AssetInvStep
<1>3. AssetInv => ShownIsStored
  BY DEF AssetInv
<1>4. QED
  BY <1>1, <1>2, <1>3, PTL DEF AssetSpec
=============================================================================
